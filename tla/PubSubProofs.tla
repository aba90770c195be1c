----------------------------- MODULE PubSubProofs -----------------------------
(***************************************************************************)
(* Proofs about PubSub, for any number of publishers, subscribers,         *)
(* callbacks, addresses and messages: types, InOrder, CallbacksAgree,      *)
(* CopiesBounded, that it implements Topic, and that Sockets' theorems     *)
(* hold of it.                                                             *)
(*                                                                         *)
(* A message goes from publish() over the wire and a socket's buffer into  *)
(* once() and the callbacks.  The invariant orders the messages along this *)
(* way: what is further along is older, and what is about to be sent is    *)
(* newer than all of it.  Another invariant counts the copies of a message *)
(* that are anywhere along the way: there are no more than were sent.      *)
(***************************************************************************)
EXTENDS PubSub, SocketsProofs, FiniteSetTheorems

\* No publisher has registered the same address twice.
RegisteredOnce ==
  \A p \in Pubs : \A i, j \in DOMAIN clientaddrs[p] :
    clientaddrs[p][i] = clientaddrs[p][j] => i = j

\* A subscriber hears of one address only: there is one, or it stays with its own.
AtOneAddress == Restarts => \A a, b \in Addrs : a = b

PubSubTypes ==
  /\ clientaddrs \in [Pubs -> Seq(Addrs)]
  /\ published \in [Pubs -> 0..MaxPub]
  /\ at \in [Pubs -> Nat]
  /\ \A p \in Pubs : at[p] <= Len(clientaddrs[p]) /\ (at[p] # 0 => published[p] > 0)
  /\ callbacks \in [Subs -> Seq(Callbacks)]
  /\ msg \in [Subs -> Data \cup {Empty}]
  /\ turn \in [Subs -> Nat]
  /\ \A s \in Subs : turn[s] <= Len(callbacks[s]) /\ (turn[s] # 0 => msg[s] \in Data)
  /\ heard \in [Ears -> Seq(Data)]
  /\ late \in [Ears -> Nat \X Nat]

PubSubInv == Inv /\ PubSubTypes

-----------------------------------------------------------------------------
Before(x, y) == x[1] = y[1] => x[2] < y[2]
Sorted(q) == \A i, j \in DOMAIN q : i < j => Before(q[i], q[j])
AllBefore(q, r) == \A i \in DOMAIN q, j \in DOMAIN r : Before(q[i], r[j])

\* publish() of p has not come to address a yet.
Pending(p, a) ==
  at[p] # 0 /\ \E j \in DOMAIN clientaddrs[p] : j >= at[p] /\ clientaddrs[p][j] = a

\* m is older than any message that is still to be sent to a.
Sent(m, a) ==
  m[2] <= published[m[1]] /\ (Pending(m[1], a) => m[2] < published[m[1]])

AllSent(q, a) == \A i \in DOMAIN q : Sent(q[i], a)

\* What is on the wires and in the buffers of sockets.
WireOK(a) == Sorted(wire[a]) /\ AllSent(wire[a], a)

SocketOK(o) ==
  /\ AddrOf(o) = NoAddr => BufferOf(o) = <<>>
  /\ o \in Subs => AddrOf(o) \in Addrs \cup {NoAddr}
  /\ \A a \in Addrs : AddrOf(o) = a =>
       /\ Sorted(BufferOf(o)) /\ AllSent(BufferOf(o), a)
       /\ AllBefore(BufferOf(o), wire[a])

\* What s has taken, or has heard, comes before all that can still reach it.
Reaches(a, s) == Restarts \/ AddrOf(s) = a

Past(s, q) ==
  \A a \in Addrs : Reaches(a, s) =>
    AllSent(q, a) /\ AllBefore(q, wire[a]) /\ AllBefore(q, BufferOf(s))

HeardOK(s) ==
  /\ \A f \in Callbacks : Sorted(heard[<<s, f>>]) /\ Past(s, heard[<<s, f>>])
  /\ turn[s] # 0 =>
       /\ Past(s, <<msg[s]>>)
       /\ msg[s][2] <= published[msg[s][1]]
       /\ \A i \in DOMAIN callbacks[s] : i >= turn[s] => AllBefore(HeardBy(s, i), <<msg[s]>>)
  /\ ~Restarts /\ AddrOf(s) = NoAddr =>
       turn[s] = 0 /\ \A f \in Callbacks : heard[<<s, f>>] = <<>>

CallbacksDiffer ==
  \A s \in Subs : \A i, j \in DOMAIN callbacks[s] : callbacks[s][i] = callbacks[s][j] => i = j

\* The first conjunct: nobody sends to a publisher, or a subscriber, that has no
\* address of its own.
WayOK ==
  /\ \A o \in Objects : wire[o] = <<>>
  /\ \A a \in Addrs : WireOK(a)
  /\ \A o \in Objects : SocketOK(o)

HeardAll == \A s \in Subs : HeardOK(s)

OrderInv == WayOK /\ HeardAll

\* CallbacksAgree, with what keeps it: a callback has not heard less than when it
\* was registered, and a thread that waits for a message is not calling callbacks.
AgreesAt(s, i) ==
  LET l == late[<<s, callbacks[s][i]>>]
  IN /\ From(InTheEnd(s, i), l[1]) = From(InTheEnd(s, 1), l[2])
     /\ l[1] <= Len(HeardBy(s, i)) /\ l[2] <= Len(HeardBy(s, 1))

Waits(s) == s \in inrecv => turn[s] = 0

AgreeInv ==
  /\ \A s \in Subs : Waits(s)
  /\ \A s \in Subs : \A i \in DOMAIN callbacks[s] : AgreesAt(s, i)

-----------------------------------------------------------------------------
(***************************************************************************)
(* Messages and sequences of them.                                         *)
(***************************************************************************)
LEMMA Members ==
  /\ Pubs \subseteq Objects /\ Subs \subseteq Objects /\ Objects = Pubs \cup Subs
  /\ Pubs \cap Subs = {}
  /\ NoAddr \notin Addrs \cup Objects /\ Addrs \cap Objects = {}
  /\ Ports = Addrs \cup Objects
  /\ MaxPub \in Nat
  /\ \A m \in Data : m[1] \in Pubs /\ m[2] \in 1..MaxPub /\ m # Zero /\ m # Empty
  /\ \A p \in Pubs : \A k \in 1..MaxPub :
       <<p, k>> \in Data /\ <<p, k>>[1] = p /\ <<p, k>>[2] = k
BY SocketsAssumption, PubSubAssumption DEF Ports

LEMMA Appended ==
  ASSUME NEW q \in Seq(Data), NEW m \in Data
  PROVE  /\ Append(q, m) \in Seq(Data) /\ <<m>> \in Seq(Data)
         /\ Sorted(q) /\ AllBefore(q, <<m>>) => Sorted(Append(q, m))
         /\ \A r \in Seq(Data) :
              /\ AllBefore(q, r) /\ AllBefore(<<m>>, r) => AllBefore(Append(q, m), r)
              /\ AllBefore(r, q) /\ AllBefore(r, <<m>>) => AllBefore(r, Append(q, m))
         /\ \A a : AllSent(q, a) /\ Sent(m, a) => AllSent(Append(q, m), a)
<1>1. /\ \A i \in DOMAIN Append(q, m) :
           \/ i \in DOMAIN q /\ Append(q, m)[i] = q[i]
           \/ i = Len(q) + 1 /\ Append(q, m)[i] = m
      /\ Append(q, m) \in Seq(Data) /\ <<m>> \in Seq(Data)
      /\ DOMAIN <<m>> = {1} /\ <<m>>[1] = m
  OBVIOUS
<1>2. Sorted(q) /\ AllBefore(q, <<m>>) => Sorted(Append(q, m))
  <2> SUFFICES ASSUME Sorted(q), AllBefore(q, <<m>>),
                      NEW i \in DOMAIN Append(q, m), NEW j \in DOMAIN Append(q, m), i < j
               PROVE  Before(Append(q, m)[i], Append(q, m)[j])
    BY DEF Sorted
  <2>1. i \in DOMAIN q /\ Append(q, m)[i] = q[i]
    BY <1>1
  <2> QED
    BY <1>1, <2>1 DEF Sorted, AllBefore
<1>3. ASSUME NEW r \in Seq(Data)
      PROVE  /\ AllBefore(q, r) /\ AllBefore(<<m>>, r) => AllBefore(Append(q, m), r)
             /\ AllBefore(r, q) /\ AllBefore(r, <<m>>) => AllBefore(r, Append(q, m))
  BY <1>1 DEF AllBefore
<1>4. \A a : AllSent(q, a) /\ Sent(m, a) => AllSent(Append(q, m), a)
  BY <1>1 DEF AllSent
<1> QED
  BY <1>1, <1>2, <1>3, <1>4

LEMMA Taken ==
  ASSUME NEW q \in Seq(Data), q # <<>>
  PROVE  /\ Tail(q) \in Seq(Data) /\ Head(q) \in Data /\ <<Head(q)>> \in Seq(Data)
         /\ Sorted(q) => Sorted(Tail(q)) /\ AllBefore(<<Head(q)>>, Tail(q))
         /\ \A r \in Seq(Data) :
              /\ AllBefore(q, r) => AllBefore(Tail(q), r) /\ AllBefore(<<Head(q)>>, r)
              /\ AllBefore(r, q) => AllBefore(r, Tail(q)) /\ AllBefore(r, <<Head(q)>>)
         /\ \A a : AllSent(q, a) => AllSent(Tail(q), a) /\ Sent(Head(q), a)
<1>1. /\ \A i \in DOMAIN Tail(q) : /\ i \in Nat /\ i + 1 \in DOMAIN q /\ Tail(q)[i] = q[i + 1]
                                   /\ 1 < i + 1
      /\ 1 \in DOMAIN q /\ Head(q) = q[1]
      /\ Tail(q) \in Seq(Data) /\ Head(q) \in Data
      /\ DOMAIN <<Head(q)>> = {1} /\ <<Head(q)>>[1] = Head(q)
  OBVIOUS
<1>2. Sorted(q) => Sorted(Tail(q)) /\ AllBefore(<<Head(q)>>, Tail(q))
  <2> SUFFICES ASSUME Sorted(q) PROVE Sorted(Tail(q)) /\ AllBefore(<<Head(q)>>, Tail(q))
    OBVIOUS
  <2>1. \A i, j \in DOMAIN Tail(q) : i < j => Before(Tail(q)[i], Tail(q)[j])
    <3> SUFFICES ASSUME NEW i \in DOMAIN Tail(q), NEW j \in DOMAIN Tail(q), i < j
                 PROVE  Before(Tail(q)[i], Tail(q)[j])
      OBVIOUS
    <3>1. i + 1 < j + 1
      BY <1>1
    <3> QED
      BY <1>1, <3>1 DEF Sorted
  <2>2. \A j \in DOMAIN Tail(q) : Before(q[1], Tail(q)[j])
    BY <1>1 DEF Sorted
  <2> QED
    BY <1>1, <2>1, <2>2 DEF Sorted, AllBefore
<1>3. ASSUME NEW r \in Seq(Data)
      PROVE  /\ AllBefore(q, r) => AllBefore(Tail(q), r) /\ AllBefore(<<Head(q)>>, r)
             /\ AllBefore(r, q) => AllBefore(r, Tail(q)) /\ AllBefore(r, <<Head(q)>>)
  BY <1>1 DEF AllBefore
<1>4. \A a : AllSent(q, a) => AllSent(Tail(q), a) /\ Sent(Head(q), a)
  BY <1>1 DEF AllSent
<1> QED
  BY <1>1, <1>2, <1>3, <1>4

-----------------------------------------------------------------------------
(***************************************************************************)
(* Types.  Every step is a call of Sockets or leaves its variables alone,  *)
(* so the invariant of Sockets carries over.                               *)
(***************************************************************************)
LEMMA SendTypes ==
  ASSUME PubSubTypes, NEW p \in Pubs, at[p] # 0
  PROVE  clientaddrs[p][at[p]] \in Addrs /\ <<p, published[p]>> \in Data
<1>1. /\ clientaddrs[p] \in Seq(Addrs) /\ at[p] \in Nat /\ at[p] <= Len(clientaddrs[p])
      /\ published[p] \in 0..MaxPub /\ published[p] > 0
  BY DEF PubSubTypes
<1>2. at[p] \in DOMAIN clientaddrs[p] /\ published[p] \in 1..MaxPub
  BY <1>1, Members
<1> QED
  BY <1>1, <1>2, Members

LEMMA CallsOfSockets ==
  ASSUME PubSubInv, [PubSubNext]_vars
  PROVE  [Next]_socketVars
<1> USE Members DEF PubSubInv
<1>1. ASSUME NEW o \in Objects, Starts(o)
      PROVE  Next
  BY <1>1 DEF Starts, Next, Calls
<1>2. ASSUME NEW o \in Objects, Destroy(o)
      PROVE  Next
  BY <1>2 DEF Next, Calls
<1>3. ASSUME NEW o \in Objects, NEW a \in Addrs, Bind(o, a) \/ Connect(o, a)
      PROVE  Next
  BY <1>3 DEF Next, Calls, Binds
<1>4. ASSUME NEW p \in Pubs, PublishTo(p)
      PROVE  Next
  <2>1. SendTo(p, clientaddrs[p][at[p]], <<p, published[p]>>)
    BY <1>4 DEF PublishTo
  <2>2. clientaddrs[p][at[p]] \in Addrs /\ <<p, published[p]>> \in Data
    BY <1>4, SendTypes DEF PublishTo
  <2> QED
    BY <2>1, <2>2 DEF Next, Calls, Uses
<1>5. ASSUME NEW s \in Subs,
             \/ Recvfrom(s) \/ RecvReturns(s) \/ RecvFails(s)
             \/ \E msec \in Msecs : SetTimeout(s, msec)
      PROVE  Next
  BY <1>5 DEF Next, Calls, Uses
<1>6. CASE UNCHANGED socketVars
  BY <1>6
<1>7. ASSUME NEW p \in Pubs, Pub(p)
      PROVE  [Next]_socketVars
  BY <1>1, <1>2, <1>3, <1>4, <1>7 DEF Pub, PubEnds, Publish, PubBind, PubConnect
<1>8. ASSUME NEW s \in Subs, Sub(s)
      PROVE  [Next]_socketVars
  <2>1. CASE Starts(s)
    BY <1>1, <2>1
  <2>2. CASE SubEnds(s)
    BY <1>2, <2>2 DEF SubEnds
  <2>3. CASE Once(s) \/ OnceReceives(s) \/ OnceFails(s)
    BY <1>5, <2>3 DEF Once, OnceReceives, OnceFails
  <2>4. CASE OnceCalls(s) \/ \E f \in Callbacks : RegisterCb(s, f)
    BY <2>4 DEF OnceCalls, RegisterCb
  <2>5. CASE \E a \in Addrs : SubBind(s, a)
    BY <1>3, <2>5 DEF SubBind
  <2>6. CASE \E msec \in Msecs : SubTimeout(s, msec)
    BY <1>5, <2>6 DEF SubTimeout
  <2> QED
    BY <1>8, <2>1, <2>2, <2>3, <2>4, <2>5, <2>6 DEF Sub, InOnce
<1>9. CASE Carry
  BY <1>9 DEF Carry, Next
<1> QED
  BY <1>6, <1>7, <1>8, <1>9 DEF PubSubNext, vars

LEMMA PubTypes ==
  ASSUME PubSubTypes, NEW p \in Pubs, Pub(p)
  PROVE  PubSubTypes'
<1>t. /\ clientaddrs \in [Pubs -> Seq(Addrs)] /\ published \in [Pubs -> 0..MaxPub]
      /\ at \in [Pubs -> Nat]
      /\ \A q \in Pubs : at[q] <= Len(clientaddrs[q]) /\ (at[q] # 0 => published[q] > 0)
  BY DEF PubSubTypes
<1>1. ASSUME UNCHANGED subVars,
             clientaddrs' \in [Pubs -> Seq(Addrs)], published' \in [Pubs -> 0..MaxPub],
             at' \in [Pubs -> Nat],
             \A q \in Pubs : at'[q] <= Len(clientaddrs'[q]) /\ (at'[q] # 0 => published'[q] > 0)
      PROVE  PubSubTypes'
  BY <1>1 DEF PubSubTypes, subVars
<1>2. CASE Starts(p)
  BY <1>t, <1>1, <1>2 DEF Starts, pubVars
<1>3. CASE PubEnds(p)
  <2>1. /\ clientaddrs' = [clientaddrs EXCEPT ![p] = <<>>]
        /\ at[p] = 0 /\ UNCHANGED <<published, at, subVars>>
    BY <1>3 DEF PubEnds
  <2> QED
    BY <1>t, <1>1, <2>1
<1>4. CASE Publish(p)
  <2>1. /\ published[p] < MaxPub /\ published' = [published EXCEPT ![p] = published[p] + 1]
        /\ at' = [at EXCEPT ![p] = IF clientaddrs[p] = <<>> THEN 0 ELSE 1]
        /\ UNCHANGED <<clientaddrs, subVars>>
    BY <1>4 DEF Publish
  <2>2. published' \in [Pubs -> 0..MaxPub]
    BY <1>t, <2>1, Members
  <2>3. at' \in [Pubs -> Nat] /\ clientaddrs' \in [Pubs -> Seq(Addrs)]
    BY <1>t, <2>1
  <2>4. \A q \in Pubs : at'[q] <= Len(clientaddrs'[q]) /\ (at'[q] # 0 => published'[q] > 0)
    <3> SUFFICES ASSUME NEW q \in Pubs
                 PROVE  at'[q] <= Len(clientaddrs[q]) /\ (at'[q] # 0 => published'[q] > 0)
      BY <2>1
    <3>1. CASE q = p
      <4>1. clientaddrs[p] \in Seq(Addrs) /\ published[p] \in Nat
        BY <1>t
      <4>2. clientaddrs[p] # <<>> => Len(clientaddrs[p]) >= 1
        BY <4>1
      <4>3. Len(clientaddrs[p]) \in Nat
        BY <4>1
      <4> QED
        BY <1>t, <2>1, <3>1, <4>1, <4>2, <4>3
    <3>2. CASE q # p
      BY <1>t, <2>1, <3>2
    <3> QED
      BY <3>1, <3>2
  <2> QED
    BY <1>1, <2>1, <2>2, <2>3, <2>4
<1>5. CASE PublishTo(p)
  <2>1. /\ at[p] # 0
        /\ at' = [at EXCEPT ![p] = IF at[p] = Len(clientaddrs[p]) THEN 0 ELSE at[p] + 1]
        /\ UNCHANGED <<clientaddrs, published, subVars>>
    BY <1>5 DEF PublishTo
  <2>2. at[p] \in Nat /\ Len(clientaddrs[p]) \in Nat /\ at[p] <= Len(clientaddrs[p])
    BY <1>t
  <2>3. at' \in [Pubs -> Nat]
    BY <1>t, <2>1, <2>2
  <2>4. \A q \in Pubs : at'[q] <= Len(clientaddrs[q]) /\ (at'[q] # 0 => published[q] > 0)
    <3> SUFFICES ASSUME NEW q \in Pubs
                 PROVE  at'[q] <= Len(clientaddrs[q]) /\ (at'[q] # 0 => published[q] > 0)
      OBVIOUS
    <3>1. CASE q = p
      BY <1>t, <2>1, <2>2, <3>1
    <3>2. CASE q # p
      BY <1>t, <2>1, <3>2
    <3> QED
      BY <3>1, <3>2
  <2> QED
    BY <1>t, <1>1, <2>1, <2>3, <2>4
<1>6. ASSUME NEW a \in Addrs, PubBind(p, a) \/ PubConnect(p, a)
      PROVE  PubSubTypes'
  <2>1. /\ clientaddrs' = [clientaddrs EXCEPT ![p] = Append(clientaddrs[p], a)]
        /\ at[p] = 0 /\ UNCHANGED <<published, at, subVars>>
    BY <1>6 DEF PubBind, PubConnect, RegisterAddr, MayRegister
  <2>2. Append(clientaddrs[p], a) \in Seq(Addrs) /\ Len(Append(clientaddrs[p], a)) \in Nat
    BY <1>t
  <2>3. clientaddrs' \in [Pubs -> Seq(Addrs)]
    BY <1>t, <2>1, <2>2
  <2>4. \A q \in Pubs : at[q] <= Len(clientaddrs'[q])
    BY <1>t, <2>1, <2>2
  <2> QED
    BY <1>t, <1>1, <2>1, <2>3, <2>4
<1> QED
  BY <1>2, <1>3, <1>4, <1>5, <1>6 DEF Pub

LEMMA SubTypes ==
  ASSUME PubSubTypes, Inv, NEW s \in Subs, Sub(s)
  PROVE  PubSubTypes'
<1>t. /\ callbacks \in [Subs -> Seq(Callbacks)] /\ msg \in [Subs -> Data \cup {Empty}]
      /\ turn \in [Subs -> Nat]
      /\ \A t \in Subs : turn[t] <= Len(callbacks[t]) /\ (turn[t] # 0 => msg[t] \in Data)
      /\ heard \in [Ears -> Seq(Data)] /\ late \in [Ears -> Nat \X Nat]
  BY DEF PubSubTypes
<1>1. ASSUME UNCHANGED pubVars,
             callbacks' \in [Subs -> Seq(Callbacks)], msg' \in [Subs -> Data \cup {Empty}],
             turn' \in [Subs -> Nat],
             \A t \in Subs : turn'[t] <= Len(callbacks'[t]) /\ (turn'[t] # 0 => msg'[t] \in Data),
             heard' \in [Ears -> Seq(Data)], late' \in [Ears -> Nat \X Nat]
      PROVE  PubSubTypes'
  BY <1>1 DEF PubSubTypes, pubVars
<1>2. CASE UNCHANGED <<pubVars, subVars>>
  BY <1>t, <1>1, <1>2 DEF subVars
<1>3. CASE SubEnds(s)
  <2>1. /\ turn[s] = 0 /\ callbacks' = [callbacks EXCEPT ![s] = <<>>]
        /\ UNCHANGED <<pubVars, msg, turn, heard, late>>
    BY <1>3 DEF SubEnds
  <2> QED
    BY <1>t, <1>1, <2>1
<1>4. ASSUME NEW f \in Callbacks, RegisterCb(s, f)
      PROVE  PubSubTypes'
  <2> DEFINE first == IF callbacks[s] = <<>> THEN heard[<<s, f>>] ELSE HeardBy(s, 1)
             l == <<Len(heard[<<s, f>>]), Len(first)>>
  <2>1. /\ turn[s] = 0 /\ callbacks' = [callbacks EXCEPT ![s] = Append(callbacks[s], f)]
        /\ late' = [late EXCEPT ![<<s, f>>] = l]
        /\ UNCHANGED <<pubVars, msg, turn, heard>>
    BY <1>4 DEF RegisterCb
  <2>2. Append(callbacks[s], f) \in Seq(Callbacks) /\ Len(Append(callbacks[s], f)) \in Nat
    BY <1>t
  <2>3. \A g \in Callbacks : <<s, g>> \in Ears /\ heard[<<s, g>>] \in Seq(Data)
    BY <1>t DEF Ears
  <2>4. callbacks[s] # <<>> => callbacks[s][1] \in Callbacks
    BY <1>t
  <2>5. first \in Seq(Data)
    BY <2>3, <2>4 DEF HeardBy
  <2>6. l \in Nat \X Nat
    BY <2>3, <2>5
  <2> HIDE DEF l
  <2>7. callbacks' \in [Subs -> Seq(Callbacks)] /\ late' \in [Ears -> Nat \X Nat]
    BY <1>t, <2>1, <2>2, <2>6
  <2>8. \A t \in Subs : turn[t] <= Len(callbacks'[t])
    BY <1>t, <2>1, <2>2
  <2> QED
    BY <1>t, <1>1, <2>1, <2>7, <2>8
<1>5. CASE OnceReceives(s)
  <2> DEFINE m == result'[2]
  <2>1. BufferOf(s) \in Seq(Data) /\ BufferOf(s) # <<>> /\ m \in Data \cup {Empty}
    <3>1. BufferOf(s) \in Seq(Data)
      BY SocketTypes, Members
    <3>2. /\ BufferOf(s) # <<>>
          /\ LET d == Head(BufferOf(s)) IN result' = <<"recvfrom", IF d = Zero THEN Empty ELSE d>>
      BY <1>5, ReturnSocket, Members DEF OnceReceives
    <3>3. Head(BufferOf(s)) \in Data
      BY <3>1, <3>2
    <3> QED
      BY <3>1, <3>2, <3>3
  <2>2. /\ UNCHANGED <<pubVars, callbacks, heard, late>>
        /\ \/ UNCHANGED <<msg, turn>>
           \/ /\ m # Empty /\ callbacks[s] # <<>>
              /\ msg' = [msg EXCEPT ![s] = m] /\ turn' = [turn EXCEPT ![s] = 1]
    BY <1>5 DEF OnceReceives
  <2> HIDE DEF m
  <2>3. CASE UNCHANGED <<msg, turn>>
    BY <1>t, <1>1, <2>2, <2>3
  <2>4. CASE /\ m # Empty /\ callbacks[s] # <<>>
             /\ msg' = [msg EXCEPT ![s] = m] /\ turn' = [turn EXCEPT ![s] = 1]
    <3>1. m \in Data /\ Len(callbacks[s]) >= 1
      BY <1>t, <2>1, <2>4
    <3>2. msg' \in [Subs -> Data \cup {Empty}] /\ turn' \in [Subs -> Nat]
      BY <1>t, <2>1, <2>4
    <3>3. \A t \in Subs : turn'[t] <= Len(callbacks[t]) /\ (turn'[t] # 0 => msg'[t] \in Data)
      BY <1>t, <2>4, <3>1
    <3> QED
      BY <1>t, <1>1, <2>2, <3>2, <3>3
  <2> QED
    BY <2>2, <2>3, <2>4
<1>6. CASE OnceCalls(s)
  <2> DEFINE e == <<s, callbacks[s][turn[s]]>>
  <2>1. /\ turn[s] # 0 /\ heard' = [heard EXCEPT ![e] = Append(heard[e], msg[s])]
        /\ \/ /\ turn[s] = Len(callbacks[s])
              /\ turn' = [turn EXCEPT ![s] = 0] /\ msg' = [msg EXCEPT ![s] = Empty]
           \/ /\ turn[s] # Len(callbacks[s])
              /\ turn' = [turn EXCEPT ![s] = turn[s] + 1] /\ UNCHANGED msg
        /\ UNCHANGED <<pubVars, callbacks, late>>
    BY <1>6 DEF OnceCalls
  <2>2. /\ turn[s] \in DOMAIN callbacks[s] /\ callbacks[s][turn[s]] \in Callbacks
        /\ msg[s] \in Data /\ turn[s] \in Nat /\ Len(callbacks[s]) \in Nat
    BY <1>t, <2>1
  <2>3. e \in Ears /\ Append(heard[e], msg[s]) \in Seq(Data)
    BY <1>t, <2>2 DEF Ears
  <2> HIDE DEF e
  <2>4. heard' \in [Ears -> Seq(Data)]
    BY <1>t, <2>1, <2>3
  <2>5. msg' \in [Subs -> Data \cup {Empty}] /\ turn' \in [Subs -> Nat]
    <3>1. msg' = msg \/ msg' = [msg EXCEPT ![s] = Empty]
      BY <2>1
    <3>2. turn' = [turn EXCEPT ![s] = 0] \/ turn' = [turn EXCEPT ![s] = turn[s] + 1]
      BY <2>1
    <3>3. msg' \in [Subs -> Data \cup {Empty}]
      BY <1>t, <3>1
    <3>4. turn' \in [Subs -> Nat]
      <4>1. turn \in [Subs -> Nat] /\ turn[s] + 1 \in Nat
        BY <1>t
      <4> QED
        BY <3>2, <4>1
    <3> QED
      BY <3>3, <3>4
  <2>6. \A t \in Subs : turn'[t] <= Len(callbacks[t]) /\ (turn'[t] # 0 => msg'[t] \in Data)
    <3> SUFFICES ASSUME NEW t \in Subs
                 PROVE  turn'[t] <= Len(callbacks[t]) /\ (turn'[t] # 0 => msg'[t] \in Data)
      OBVIOUS
    <3>1. CASE t = s
      BY <1>t, <2>1, <2>2, <3>1
    <3>2. CASE t # s
      BY <1>t, <2>1, <3>2
    <3> QED
      BY <3>1, <3>2
  <2> QED
    BY <1>t, <1>1, <2>1, <2>4, <2>5, <2>6
<1> QED
  BY <1>2, <1>3, <1>4, <1>5, <1>6
  DEF Sub, InOnce, Starts, Once, OnceFails, SubBind, SubTimeout

LEMMA PubSubInvNext ==
  ASSUME PubSubInv, [PubSubNext]_vars
  PROVE  PubSubInv'
<1>1. Inv'
  BY CallsOfSockets, NextInv DEF PubSubInv
<1>2. PubSubTypes'
  <2>1. CASE UNCHANGED <<pubVars, subVars>>
    BY <2>1 DEF PubSubInv, PubSubTypes, pubVars, subVars
  <2> QED
    BY <2>1, PubTypes, SubTypes DEF PubSubInv, PubSubNext, Carry, vars
<1> QED
  BY <1>1, <1>2 DEF PubSubInv

LEMMA PubSubInvInit == Init => PubSubInv
<1> SUFFICES ASSUME Init PROVE PubSubInv
  OBVIOUS
<1>1. Inv
  BY InitInv DEF Init
<1>2. PubSubTypes
  BY Members DEF Init, PubSubTypes
<1> QED
  BY <1>1, <1>2 DEF PubSubInv

\* PubSubTypeOK, for any number of publishers, subscribers and callbacks: among
\* other things, a loop over callbacks or addresses stays within its list.
THEOREM PubSubTyping == PubSubSpec => []PubSubTypeOK
<1>1. PubSubInv => PubSubTypeOK
  <2> SUFFICES ASSUME PubSubInv PROVE PubSubTypeOK
    OBVIOUS
  <2>1. TypeOK /\ PubSubTypes
    BY DEF PubSubInv, Inv
  <2>2. \A p \in Pubs : at[p] \in 0..Len(clientaddrs[p])
    BY <2>1 DEF PubSubTypes
  <2>3. \A s \in Subs : turn[s] \in 0..Len(callbacks[s])
    BY <2>1 DEF PubSubTypes
  <2> QED
    BY <2>1, <2>2, <2>3 DEF PubSubTypeOK, PubSubTypes
<1> QED
  BY <1>1, PubSubInvInit, PubSubInvNext, PTL DEF PubSubSpec

\* Publishers and subscribers use their sockets in no other way than Sockets
\* allows, so that its theorems hold of them: no descriptor of pub_sub.hpp is
\* leaked, no address shared and no timeout lost.
THEOREM OnTopOfSockets == PubSubSpec => Spec
<1>1. Init => SocketInit
  BY DEF Init
<1>2. PubSubInv /\ [PubSubNext]_vars => [Next]_socketVars
  BY CallsOfSockets
<1> QED
  BY <1>1, <1>2, PubSubInvInit, PubSubInvNext, PTL DEF PubSubSpec, Spec

-----------------------------------------------------------------------------
(***************************************************************************)
(* The order of messages along their way.                                  *)
(***************************************************************************)

\* What is older than all that is still to be sent stays so.
SentKept == \A m \in Data, a \in Addrs : Sent(m, a) => Sent(m, a)'

LEMMA SentStays ==
  ASSUME PubSubInv, [PubSubNext]_vars
  PROVE  SentKept /\ \A p \in Pubs : published'[p] \in Nat /\ published[p] <= published'[p]
<1>t. /\ clientaddrs \in [Pubs -> Seq(Addrs)] /\ published \in [Pubs -> 0..MaxPub]
      /\ at \in [Pubs -> Nat] /\ MaxPub \in Nat
  BY Members DEF PubSubInv, PubSubTypes
<1>1. ASSUME \A p \in Pubs :
               /\ published'[p] \in Nat /\ published[p] <= published'[p]
               /\ \A a \in Addrs :
                    Pending(p, a)' => Pending(p, a) \/ published[p] < published'[p]
      PROVE  SentKept
  <2> SUFFICES ASSUME NEW m \in Data, NEW a \in Addrs, Sent(m, a)
               PROVE  Sent(m, a)'
    BY DEF SentKept
  <2>1. m[1] \in Pubs /\ m[2] \in Nat /\ published[m[1]] \in Nat
    BY <1>t, Members
  <2>2. m[2] <= published[m[1]] /\ (Pending(m[1], a) => m[2] < published[m[1]])
    BY DEF Sent
  <2>3. m[2] <= published'[m[1]]
    BY <1>1, <2>1, <2>2
  <2>4. Pending(m[1], a)' => m[2] < published'[m[1]]
    BY <1>1, <2>1, <2>2
  <2> QED
    BY <2>3, <2>4 DEF Sent
<1>2. CASE UNCHANGED pubVars
  BY <1>t, <1>1, <1>2 DEF pubVars, Pending
<1>3. ASSUME NEW p \in Pubs, PubEnds(p) \/ \E a \in Addrs : PubBind(p, a) \/ PubConnect(p, a)
      PROVE  \A q \in Pubs : /\ published'[q] \in Nat /\ published[q] <= published'[q]
                             /\ \A a \in Addrs : Pending(q, a)' => Pending(q, a)
  <2>1. PICK x : /\ at[p] = 0 /\ UNCHANGED <<published, at>>
                 /\ clientaddrs' = [clientaddrs EXCEPT ![p] = x]
    BY <1>3 DEF PubEnds, PubBind, PubConnect, MayRegister, RegisterAddr
  <2> QED
    BY <1>t, <2>1 DEF Pending
<1>4. ASSUME NEW p \in Pubs, Publish(p)
      PROVE  \A q \in Pubs :
               /\ published'[q] \in Nat /\ published[q] <= published'[q]
               /\ \A a \in Addrs : Pending(q, a)' => Pending(q, a) \/ published[q] < published'[q]
  <2>1. /\ published' = [published EXCEPT ![p] = published[p] + 1]
        /\ \A q \in Pubs : q # p => at'[q] = at[q]
        /\ UNCHANGED clientaddrs
    BY <1>t, <1>4 DEF Publish
  <2> QED
    BY <1>t, <2>1 DEF Pending
<1>5. ASSUME NEW p \in Pubs, PublishTo(p)
      PROVE  \A q \in Pubs : /\ published'[q] \in Nat /\ published[q] <= published'[q]
                             /\ \A a \in Addrs : Pending(q, a)' => Pending(q, a)
  <2>1. /\ at[p] # 0 /\ (at'[p] = 0 \/ at'[p] = at[p] + 1)
        /\ \A q \in Pubs : q # p => at'[q] = at[q]
        /\ UNCHANGED <<clientaddrs, published>>
    BY <1>t, <1>5 DEF PublishTo
  <2>2. ASSUME NEW a \in Addrs, Pending(p, a)'
        PROVE  Pending(p, a)
    <3>1. PICK j \in DOMAIN clientaddrs[p] : j >= at'[p] /\ clientaddrs[p][j] = a /\ at'[p] # 0
      BY <2>1, <2>2 DEF Pending
    <3>2. j \in Nat /\ at[p] \in Nat
      BY <1>t
    <3>3. j >= at[p]
      BY <2>1, <3>1, <3>2
    <3> QED
      BY <2>1, <3>1, <3>3 DEF Pending
  <2>3. ASSUME NEW q \in Pubs, q # p, NEW a \in Addrs, Pending(q, a)'
        PROVE  Pending(q, a)
    BY <2>1, <2>3 DEF Pending
  <2>4. \A q \in Pubs : published'[q] \in Nat /\ published[q] <= published'[q]
    BY <1>t, <2>1
  <2> QED
    BY <2>2, <2>3, <2>4
<1>6. ASSUME NEW s \in Subs, Sub(s)
      PROVE  UNCHANGED pubVars
  BY <1>6 DEF Sub, InOnce, Starts, SubEnds, Once, OnceReceives, OnceFails, OnceCalls, SubBind,
              RegisterCb, SubTimeout
<1>7. ASSUME NEW p \in Pubs, Pub(p)
      PROVE  SentKept /\ \A q \in Pubs : published'[q] \in Nat /\ published[q] <= published'[q]
  <2>1. CASE Starts(p)
    BY <1>t, <1>1, <1>2, <2>1 DEF Starts, pubVars
  <2>2. CASE ~Starts(p)
    BY <1>1, <1>3, <1>4, <1>5, <1>7, <2>2 DEF Pub
  <2> QED
    BY <2>1, <2>2
<1>8. CASE UNCHANGED pubVars
  BY <1>t, <1>2, <1>8 DEF pubVars
<1> QED
  BY <1>6, <1>7, <1>8 DEF PubSubNext, Carry, vars

\* A message is newer than all that has gone where it is sent, and with it on
\* its way nothing is left to send there.
LEMMA NewMessage ==
  ASSUME PubSubInv, RegisteredOnce, NEW p \in Pubs, PublishTo(p),
         NEW a, a = clientaddrs[p][at[p]], NEW m, m = <<p, published[p]>>
  PROVE  Sent(m, a)' /\ \A x \in Data : Sent(x, a) => Before(x, m)
<1>t. /\ clientaddrs[p] \in Seq(Addrs) /\ published \in [Pubs -> 0..MaxPub]
      /\ at \in [Pubs -> Nat] /\ at[p] # 0 /\ at[p] <= Len(clientaddrs[p])
      /\ MaxPub \in Nat
  BY Members DEF PubSubInv, PubSubTypes, PublishTo
<1>1. /\ UNCHANGED <<clientaddrs, published>>
      /\ at'[p] = 0 \/ at'[p] = at[p] + 1
  BY <1>t DEF PublishTo
<1>2. at[p] \in DOMAIN clientaddrs[p]
  BY <1>t
<1>3. ~Pending(p, a)'
  <2> SUFFICES ASSUME at'[p] # 0, NEW j \in DOMAIN clientaddrs[p], j >= at'[p],
                      clientaddrs[p][j] = a
               PROVE  FALSE
    BY <1>1 DEF Pending
  <2>1. j = at[p]
    BY <1>2 DEF RegisteredOnce
  <2> QED
    BY <1>1, <1>t, <2>1
<1>4. Sent(m, a)'
  <2>1. m[1] = p /\ m[2] = published[p] /\ published[p] \in Nat
    BY <1>t
  <2>2. m[2] <= published'[m[1]] /\ ~Pending(m[1], a)'
    BY <1>1, <1>3, <2>1
  <2> QED
    BY <1>1, <2>2 DEF Sent
<1>5. Pending(p, a)
  BY <1>t, <1>2 DEF Pending
<1>6. \A x \in Data : Sent(x, a) => Before(x, m)
  BY <1>5 DEF Sent, Before
<1> QED
  BY <1>4, <1>6

-----------------------------------------------------------------------------
PastKept(s) == \A q \in Seq(Data) : Past(s, q) => Past(s, q)'

\* The types of what is on the way, and of what has been heard.
LEMMA WayTypes ==
  ASSUME PubSubInv
  PROVE  /\ \A a \in Ports : wire[a] \in Seq(Data)
         /\ wire \in [Ports -> Seq(Data)]
         /\ \A o \in Objects : BufferOf(o) \in Seq(Data)
         /\ \A s \in Subs, f \in Callbacks : heard[<<s, f>>] \in Seq(Data) /\ <<s, f>> \in Ears
         /\ \A s \in Subs : turn[s] # 0 => msg[s] \in Data /\ <<msg[s]>> \in Seq(Data)
         /\ \A s \in Subs : callbacks[s] \in Seq(Callbacks) /\ turn[s] \in Nat
         /\ heard \in [Ears -> Seq(Data)]
BY SocketTypes DEF PubSubInv, PubSubTypes, Inv, TypeOK, Ears

LEMMA SentAll ==
  ASSUME SentKept, NEW q \in Seq(Data), NEW a \in Addrs, AllSent(q, a)
  PROVE  AllSent(q, a)'
BY DEF SentKept, AllSent

LEMMA SameWireOK ==
  ASSUME PubSubInv, SentKept, NEW a \in Addrs, WireOK(a), wire'[a] = wire[a]
  PROVE  WireOK(a)'
<1>1. wire[a] \in Seq(Data)
  BY WayTypes, Members
<1>2. AllSent(wire[a], a)'
  BY <1>1, SentAll DEF WireOK
<1> QED
  BY <1>2 DEF WireOK

LEMMA SameSocketOK ==
  ASSUME PubSubInv, SentKept, NEW o \in Objects, SocketOK(o), SameSocket(o), wire' = wire
  PROVE  SocketOK(o)'
<1>1. BufferOf(o) \in Seq(Data) /\ BufferOf(o)' = BufferOf(o) /\ AddrOf(o)' = AddrOf(o)
  BY WayTypes DEF SameSocket
<1>2. \A a \in Addrs : AllSent(BufferOf(o), a) => AllSent(BufferOf(o), a)'
  BY <1>1, SentAll
<1> QED
  BY <1>1, <1>2 DEF SocketOK

\* Steps that move no message.
LEMMA QuietWay ==
  ASSUME PubSubInv, WayOK, SentKept, wire' = wire, \A o \in Objects : SameSocket(o)
  PROVE  WayOK' /\ \A s \in Subs : PastKept(s)
<1> USE Members
<1>1. ASSUME NEW a \in Addrs PROVE WireOK(a)'
  BY SameWireOK DEF WayOK
<1>2. ASSUME NEW o \in Objects PROVE SocketOK(o)'
  BY SameSocketOK DEF WayOK
<1>3. ASSUME NEW s \in Subs, NEW q \in Seq(Data), Past(s, q) PROVE Past(s, q)'
  <2>1. SameSocket(s)
    OBVIOUS
  <2> QED
    BY <1>3, <2>1, SentAll DEF Past, Reaches, SameSocket
<1> QED
  BY <1>1, <1>2, <1>3 DEF WayOK, PastKept

\* bind() and connect().  Past is kept unless s gets its first address.
LEMMA BindWay ==
  ASSUME PubSubInv, WayOK, SentKept, NEW o \in Objects, NEW a \in Addrs,
         Bind(o, a) \/ Connect(o, a)
  PROVE  /\ WayOK'
         /\ \A s \in Subs : Restarts \/ AddrOf(s)' = AddrOf(s) => PastKept(s)
         /\ \A s \in Subs : AddrOf(s)' = NoAddr => AddrOf(s) = NoAddr
         /\ \A s \in Subs : s # o => AddrOf(s)' = AddrOf(s)
<1> USE Members
<1>1. /\ OthersSame(o) /\ BufferOf(o)' = BufferOf(o) /\ wire' = wire
      /\ AddrOf(o)' = AddrOf(o) \/ (AddrOf(o) = NoAddr /\ AddrOf(o)' = a)
  BY BindSocket DEF PubSubInv
<1>2. ASSUME NEW b \in Addrs PROVE WireOK(b)'
  BY <1>1, SameWireOK DEF WayOK
<1>3. ASSUME NEW p \in Objects, SameSocket(p) PROVE SocketOK(p)'
  BY <1>1, <1>3, SameSocketOK DEF WayOK
<1>4. SocketOK(o)'
  <2>1. CASE AddrOf(o)' = AddrOf(o)
    BY <1>1, <1>3, <2>1 DEF SameSocket
  <2>2. CASE AddrOf(o) = NoAddr /\ AddrOf(o)' = a
    <3>1. BufferOf(o)' = <<>>
      BY <1>1, <2>2 DEF WayOK, SocketOK
    <3>2. Sorted(BufferOf(o))' /\ \A b : AllSent(BufferOf(o), b)'
      BY <3>1 DEF Sorted, AllSent
    <3>3. \A b : AllBefore(BufferOf(o), wire[b])'
      BY <3>1 DEF AllBefore
    <3> QED
      BY <2>2, <3>1, <3>2, <3>3 DEF SocketOK
  <2> QED
    BY <1>1, <2>1, <2>2
<1>5. ASSUME NEW s \in Subs, Restarts \/ AddrOf(s)' = AddrOf(s), NEW q \in Seq(Data), Past(s, q)
      PROVE  Past(s, q)'
  <2>1. BufferOf(s)' = BufferOf(s)
    BY <1>1 DEF OthersSame, SameSocket
  <2> QED
    BY <1>1, <1>5, <2>1, SentAll DEF Past, Reaches
<1>6. \A s \in Subs : s # o => AddrOf(s)' = AddrOf(s)
  BY <1>1 DEF OthersSame, SameSocket
<1>7. \A s \in Subs : AddrOf(s)' = NoAddr => AddrOf(s) = NoAddr
  BY <1>1, <1>6
<1>8. \A p \in Objects : SocketOK(p)'
  BY <1>1, <1>3, <1>4 DEF OthersSame
<1>9. \A p \in Objects : wire'[p] = <<>>
  BY <1>1 DEF WayOK
<1> QED
  BY <1>2, <1>5, <1>6, <1>7, <1>8, <1>9 DEF WayOK, PastKept

\* The destructor loses what is in the buffer.
LEMMA DestroyWay ==
  ASSUME PubSubInv, WayOK, SentKept, Restarts, NEW o \in Objects, Destroy(o)
  PROVE  WayOK' /\ \A s \in Subs : PastKept(s)
<1> USE Members
<1>1. OthersSame(o) /\ AddrOf(o)' = NoAddr /\ BufferOf(o)' = <<>> /\ wire' = wire
  BY DestroySocket DEF PubSubInv
<1>2. ASSUME NEW b \in Addrs PROVE WireOK(b)'
  BY <1>1, SameWireOK DEF WayOK
<1>3. ASSUME NEW p \in Objects, SameSocket(p) PROVE SocketOK(p)'
  BY <1>1, <1>3, SameSocketOK DEF WayOK
<1>4. SocketOK(o)'
  BY <1>1 DEF SocketOK
<1>5. ASSUME NEW s \in Subs, NEW q \in Seq(Data), Past(s, q)
      PROVE  Past(s, q)'
  <2>1. BufferOf(s)' = BufferOf(s) \/ BufferOf(s)' = <<>>
    BY <1>1 DEF OthersSame, SameSocket
  <2>2. AllBefore(q, <<>>)
    BY DEF AllBefore
  <2> QED
    BY <1>1, <1>5, <2>1, <2>2, SentAll DEF Past, Reaches
<1>6. \A p \in Objects : SocketOK(p)'
  BY <1>1, <1>3, <1>4 DEF OthersSame
<1>7. \A p \in Objects : wire'[p] = <<>>
  BY <1>1 DEF WayOK
<1> QED
  BY <1>2, <1>5, <1>6, <1>7 DEF WayOK, PastKept

\* One sendto() of publish().
LEMMA PublishWay ==
  ASSUME PubSubInv, WayOK, SentKept, RegisteredOnce, NEW p \in Pubs, PublishTo(p)
  PROVE  /\ WayOK' /\ \A s \in Subs : PastKept(s)
         /\ \A s \in Subs : AddrOf(s)' = AddrOf(s)
<1> USE Members
<1>1. PICK a : a = clientaddrs[p][at[p]]
  OBVIOUS
<1>2. PICK m : m = <<p, published[p]>>
  OBVIOUS
<1>3. a \in Addrs /\ m \in Data /\ SendTo(p, a, m)
  BY <1>1, <1>2, SendTypes DEF PublishTo, PubSubInv
<1>4. Sent(m, a)' /\ \A x \in Data : Sent(x, a) => Before(x, m)
  BY <1>1, <1>2, NewMessage
<1>5. \A q \in Seq(Data) : AllSent(q, a) => AllBefore(q, <<m>>)
  BY <1>4 DEF AllSent, AllBefore
<1>6. /\ OthersSame(p) /\ BufferOf(p)' = BufferOf(p)
      /\ AddrOf(p)' = AddrOf(p) \/ (AddrOf(p) = NoAddr /\ AddrOf(p)' = p)
      /\ wire' = wire \/ wire' = [wire EXCEPT ![a] = Append(wire[a], m)]
  BY <1>3, SendSocket DEF PubSubInv
<1>7. /\ wire \in [Ports -> Seq(Data)] /\ \A b \in Addrs : b # a => wire'[b] = wire[b]
      /\ wire'[a] = wire[a] \/ wire'[a] = Append(wire[a], m)
      /\ \A o \in Objects : wire'[o] = wire[o]
  <2>1. wire \in [Ports -> Seq(Data)]
    BY WayTypes
  <2> QED
    BY <1>3, <1>6, <2>1
<1>8. ASSUME NEW q \in Seq(Data), NEW b \in Addrs, AllSent(q, b), AllBefore(q, wire[b])
      PROVE  AllBefore(q, wire'[b])
  <2>1. wire[a] \in Seq(Data)
    BY <1>3, <1>7
  <2>2. CASE b = a /\ wire'[a] = Append(wire[a], m)
    BY <1>3, <1>5, <1>8, <2>1, <2>2, Appended
  <2>3. CASE wire'[b] = wire[b]
    BY <1>8, <2>3
  <2> QED
    BY <1>7, <2>2, <2>3
<1>9. ASSUME NEW b \in Addrs PROVE WireOK(b)'
  <2>1. CASE wire'[b] = wire[b]
    BY <2>1, SameWireOK DEF WayOK
  <2>2. CASE b = a /\ wire'[a] = Append(wire[a], m)
    <3>1. wire[a] \in Seq(Data) /\ Sorted(wire[a]) /\ AllSent(wire[a], a)
      BY <1>3, <1>7 DEF WayOK, WireOK
    <3>2. Sorted(Append(wire[a], m))
      BY <1>3, <1>5, <3>1, Appended
    <3>3. PICK w \in Seq(Data) : w = wire[a]
      BY <3>1
    <3>4. AllSent(w, a)'
      BY <1>3, <3>1, <3>3, SentAll
    <3>5. \A i \in DOMAIN Append(w, m) :
            \/ i \in DOMAIN w /\ Append(w, m)[i] = w[i]
            \/ Append(w, m)[i] = m
      OBVIOUS
    <3>6. AllSent(Append(w, m), a)'
      BY <1>4, <3>4, <3>5 DEF AllSent
    <3> QED
      BY <2>2, <3>2, <3>3, <3>6 DEF WireOK
  <2> QED
    BY <1>7, <2>1, <2>2
<1>10. \A o \in Objects : BufferOf(o)' = BufferOf(o)
  BY <1>6 DEF OthersSame, SameSocket
<1>11. ASSUME NEW o \in Objects PROVE SocketOK(o)'
  <2>1. SocketOK(o) /\ BufferOf(o) \in Seq(Data) /\ BufferOf(o)' = BufferOf(o)
    BY <1>10, WayTypes DEF WayOK
  <2>2. AddrOf(o)' = AddrOf(o) \/ (o \notin Subs /\ AddrOf(o)' \notin Addrs \cup {NoAddr})
    <3>1. p \notin Subs /\ p \notin Addrs \cup {NoAddr}
      OBVIOUS
    <3> QED
      BY <1>6, <3>1 DEF OthersSame, SameSocket
  <2>3. ASSUME NEW b \in Addrs, AddrOf(o) = b
        PROVE  Sorted(BufferOf(o)) /\ AllSent(BufferOf(o), b)' /\ AllBefore(BufferOf(o), wire'[b])
    <3>1. Sorted(BufferOf(o)) /\ AllSent(BufferOf(o), b) /\ AllBefore(BufferOf(o), wire[b])
      BY <2>1, <2>3 DEF SocketOK
    <3> QED
      BY <1>8, <2>1, <3>1, SentAll
  <2> QED
    BY <2>1, <2>2, <2>3 DEF SocketOK
<1>12. \A s \in Subs : AddrOf(s)' = AddrOf(s)
  BY <1>6 DEF OthersSame, SameSocket
<1>13. ASSUME NEW s \in Subs, NEW q \in Seq(Data), Past(s, q)
       PROVE  Past(s, q)'
  BY <1>8, <1>10, <1>12, <1>13, SentAll DEF Past, Reaches
<1> QED
  BY <1>7, <1>9, <1>11, <1>12, <1>13 DEF WayOK, PastKept

\* recvfrom() takes the first message of its socket.
LEMMA ReceiveWay ==
  ASSUME PubSubInv, WayOK, SentKept, AtOneAddress, NEW s \in Subs, RecvReturns(s),
         NEW m, m = Head(BufferOf(s))
  PROVE  /\ WayOK' /\ \A t \in Subs : PastKept(t) /\ AddrOf(t)' = AddrOf(t)
         /\ m \in Data /\ result' = <<"recvfrom", m>> /\ AddrOf(s) \in Addrs
         /\ Sent(m, AddrOf(s)) /\ Past(s, <<m>>)'
         /\ \A r \in Seq(Data) : Past(s, r) => AllBefore(r, <<m>>)
<1> USE Members
<1>1. PICK q \in Seq(Data) : q = BufferOf(s)
  BY WayTypes
<1>2. PICK c : c = AddrOf(s)
  OBVIOUS
<1>3. /\ OthersSame(s) /\ AddrOf(s)' = c /\ wire' = wire
      /\ q # <<>> /\ BufferOf(s)' = Tail(q) /\ m = Head(q)
      /\ result' = <<"recvfrom", IF m = Zero THEN Empty ELSE m>>
  BY <1>1, <1>2, ReturnSocket DEF PubSubInv
<1>4. Tail(q) \in Seq(Data) /\ m \in Data /\ m # Zero
  BY <1>3, Taken
<1>5. c \in Addrs /\ Sorted(q) /\ AllSent(q, c) /\ AllBefore(q, wire[c])
  BY <1>1, <1>2, <1>3 DEF WayOK, SocketOK
<1>6. /\ Sorted(Tail(q)) /\ AllSent(Tail(q), c) /\ AllBefore(Tail(q), wire[c])
      /\ AllBefore(<<m>>, Tail(q)) /\ AllBefore(<<m>>, wire[c]) /\ Sent(m, c)
  <2>1. wire[c] \in Seq(Data)
    BY <1>5, WayTypes
  <2>2. Sorted(Tail(q)) /\ AllSent(Tail(q), c) /\ AllBefore(<<m>>, Tail(q)) /\ Sent(m, c)
    BY <1>3, <1>5, Taken
  <2>3. AllBefore(Tail(q), wire[c]) /\ AllBefore(<<m>>, wire[c])
    BY <1>3, <1>5, <2>1, Taken
  <2> QED
    BY <2>2, <2>3
<1>7. AllSent(Tail(q), c)' /\ Sent(m, c)'
  BY <1>4, <1>5, <1>6, SentAll DEF SentKept
<1>8. SocketOK(s)'
  BY <1>3, <1>5, <1>6, <1>7 DEF SocketOK
<1>9. ASSUME NEW o \in Objects PROVE SocketOK(o)'
  <2>1. CASE o = s
    BY <1>8, <2>1
  <2>2. CASE o # s
    BY <1>3, <2>2, SameSocketOK DEF WayOK, OthersSame
  <2> QED
    BY <2>1, <2>2
<1>10. ASSUME NEW b \in Addrs PROVE WireOK(b)'
  BY <1>3, SameWireOK DEF WayOK
<1>11. \A t \in Subs : AddrOf(t)' = AddrOf(t)
  BY <1>2, <1>3 DEF OthersSame, SameSocket
<1>12. ASSUME NEW t \in Subs, NEW r \in Seq(Data), Past(t, r)
       PROVE  Past(t, r)'
  <2>1. CASE t = s
    <3>1. AllBefore(r, q) => AllBefore(r, Tail(q))
      BY <1>3, Taken
    <3> QED
      BY <1>1, <1>3, <1>11, <1>12, <2>1, <3>1, SentAll DEF Past, Reaches
  <2>2. CASE t # s
    <3>1. BufferOf(t)' = BufferOf(t)
      BY <1>3, <2>2 DEF OthersSame, SameSocket
    <3> QED
      BY <1>3, <1>11, <1>12, <3>1, SentAll DEF Past, Reaches
  <2> QED
    BY <2>1, <2>2
<1>13. Past(s, <<m>>)'
  <2> SUFFICES ASSUME NEW b \in Addrs, Restarts \/ c = b
               PROVE  /\ AllSent(<<m>>, b)' /\ AllBefore(<<m>>, wire'[b])
                      /\ AllBefore(<<m>>, BufferOf(s)')
    BY <1>3 DEF Past, Reaches
  <2>1. b = c
    BY <1>5 DEF AtOneAddress
  <2>2. AllSent(<<m>>, c)'
    BY <1>7 DEF AllSent
  <2> QED
    BY <1>3, <1>6, <2>1, <2>2
<1>14. ASSUME NEW r \in Seq(Data), Past(s, r)
       PROVE  AllBefore(r, <<m>>)
  <2>1. AllBefore(r, q)
    BY <1>1, <1>2, <1>5, <1>14 DEF Past, Reaches
  <2> QED
    BY <1>3, <2>1, Taken
<1>15. \A o \in Objects : wire'[o] = <<>>
  BY <1>3 DEF WayOK
<1> QED
  BY <1>2, <1>3, <1>4, <1>5, <1>6, <1>9, <1>10, <1>11, <1>12, <1>13, <1>14, <1>15
  DEF WayOK, PastKept

\* The network moves the first message of a wire to the end of a buffer.
LEMMA DeliverWay ==
  ASSUME PubSubInv, WayOK, SentKept, ~Reordering, NEW a \in Ports, NEW i \in DOMAIN wire[a],
         Deliver(a, i)
  PROVE  WayOK' /\ \A s \in Subs : PastKept(s) /\ AddrOf(s)' = AddrOf(s)
<1> USE Members
<1>1. PICK w \in Seq(Data) : w = wire[a]
  BY WayTypes
<1>2. PICK m : m = Head(w)
  OBVIOUS
<1>3. /\ w # <<>> /\ wire' = [wire EXCEPT ![a] = Tail(w)]
      /\ \/ \A p \in Objects : SameSocket(p)
         \/ \E o \in Objects :
              /\ OthersSame(o) /\ AddrOf(o) = a /\ AddrOf(o)' = a
              /\ BufferOf(o)' = Append(BufferOf(o), m)
  BY <1>1, <1>2, DeliverSocket DEF PubSubInv
<1>4. a \in Addrs /\ Sorted(w) /\ AllSent(w, a)
  BY <1>1, <1>3 DEF WayOK, WireOK
<1>5. /\ Tail(w) \in Seq(Data) /\ m \in Data
      /\ Sorted(Tail(w)) /\ AllBefore(<<m>>, Tail(w)) /\ AllSent(Tail(w), a) /\ Sent(m, a)
      /\ \A r \in Seq(Data) : AllBefore(r, w) => AllBefore(r, Tail(w)) /\ AllBefore(r, <<m>>)
  BY <1>2, <1>3, <1>4, Taken
<1>6. /\ wire'[a] = Tail(w) /\ \A b \in Addrs : b # a => wire'[b] = wire[b]
      /\ \A o \in Objects : wire'[o] = <<>>
  BY <1>3, <1>4, WayTypes DEF WayOK
<1>7. AllSent(Tail(w), a)' /\ Sent(m, a)'
  BY <1>4, <1>5, SentAll DEF SentKept
<1>8. ASSUME NEW b \in Addrs PROVE WireOK(b)'
  <2>1. CASE b = a
    BY <1>5, <1>6, <1>7, <2>1 DEF WireOK
  <2>2. CASE b # a
    BY <1>6, <2>2, SameWireOK DEF WayOK
  <2> QED
    BY <2>1, <2>2
<1>9. \A r \in Seq(Data), b \in Addrs : AllBefore(r, wire[b]) => AllBefore(r, wire'[b])
  BY <1>1, <1>5, <1>6
<1>10. ASSUME NEW o \in Objects, SameSocket(o) PROVE SocketOK(o)'
  <2>1. /\ SocketOK(o) /\ BufferOf(o) \in Seq(Data)
        /\ BufferOf(o)' = BufferOf(o) /\ AddrOf(o)' = AddrOf(o)
    BY <1>10, WayTypes DEF WayOK, SameSocket
  <2>2. \A b \in Addrs : AllSent(BufferOf(o), b) => AllSent(BufferOf(o), b)'
    BY <2>1, SentAll
  <2> QED
    BY <1>9, <2>1, <2>2 DEF SocketOK
<1>11. ASSUME NEW o \in Objects, AddrOf(o) = a, AddrOf(o)' = a,
              BufferOf(o)' = Append(BufferOf(o), m)
       PROVE  SocketOK(o)'
  <2>1. PICK q \in Seq(Data) : q = BufferOf(o)
    BY WayTypes
  <2>2. Sorted(q) /\ AllSent(q, a) /\ AllBefore(q, w)
    BY <1>1, <1>4, <1>11, <2>1 DEF WayOK, SocketOK
  <2>3. AllBefore(q, Tail(w)) /\ AllBefore(q, <<m>>) /\ AllSent(q, a)'
    BY <1>4, <1>5, <2>2, SentAll
  <2>4. Sorted(Append(q, m)) /\ AllBefore(Append(q, m), Tail(w))
    BY <1>5, <2>2, <2>3, Appended
  <2>5. AllSent(Append(q, m), a)'
    <3>1. \A j \in DOMAIN Append(q, m) :
            \/ j \in DOMAIN q /\ Append(q, m)[j] = q[j]
            \/ Append(q, m)[j] = m
      BY <1>5
    <3> QED
      BY <1>7, <2>3, <3>1 DEF AllSent
  <2>6. PICK r : r = Append(q, m)
    OBVIOUS
  <2>7. /\ BufferOf(o)' = r /\ Sorted(r) /\ AllBefore(r, Tail(w)) /\ AllSent(r, a)'
    BY <1>11, <2>1, <2>4, <2>5, <2>6
  <2>8. ASSUME NEW b \in Addrs, AddrOf(o)' = b
        PROVE  /\ Sorted(BufferOf(o)') /\ AllSent(r, b)' /\ AllBefore(BufferOf(o)', wire'[b])
    <3>1. b = a /\ wire'[b] = Tail(w)
      BY <1>6, <1>11, <2>8
    <3> QED
      BY <2>7, <3>1
  <2>9. \A b \in Addrs : AddrOf(o)' = b =>
          /\ Sorted(BufferOf(o))' /\ AllSent(BufferOf(o), b)'
          /\ AllBefore(BufferOf(o), wire[b])'
    <3> SUFFICES ASSUME NEW b \in Addrs, AddrOf(o)' = b
                 PROVE  /\ Sorted(BufferOf(o))' /\ AllSent(BufferOf(o), b)'
                        /\ AllBefore(BufferOf(o), wire[b])'
      OBVIOUS
    <3>1. AllSent(r, b)' /\ BufferOf(o)' = r
      BY <2>7, <2>8
    <3>2. AllSent(BufferOf(o), b)'
      BY <3>1 DEF AllSent
    <3> QED
      BY <2>8, <3>2
  <2>10. AddrOf(o)' \in Addrs /\ AddrOf(o)' # NoAddr
    BY <1>4, <1>11
  <2> QED
    BY <2>9, <2>10 DEF SocketOK
<1>12. ASSUME NEW s \in Subs
       PROVE  PastKept(s) /\ AddrOf(s)' = AddrOf(s)
  <2>1. CASE SameSocket(s)
    BY <1>9, <2>1, SentAll DEF SameSocket, PastKept, Past, Reaches
  <2>2. CASE /\ AddrOf(s) = a /\ AddrOf(s)' = a
             /\ BufferOf(s)' = Append(BufferOf(s), m)
    <3>1. ASSUME NEW r \in Seq(Data), Past(s, r)
          PROVE  Past(s, r)'
      <4>1. AllBefore(r, w) /\ AllBefore(r, BufferOf(s))
        BY <1>1, <1>4, <2>2, <3>1 DEF Past, Reaches
      <4>2. AllBefore(r, BufferOf(s)')
        BY <1>5, <2>2, <4>1, WayTypes, Appended
      <4> QED
        BY <1>9, <2>2, <3>1, <4>2, SentAll DEF Past, Reaches
    <3> QED
      BY <2>2, <3>1 DEF PastKept
  <2> QED
    BY <1>3, <2>1, <2>2 DEF OthersSame
<1>13. ASSUME NEW o \in Objects PROVE SocketOK(o)'
  BY <1>3, <1>10, <1>11 DEF OthersSame
<1> QED
  BY <1>6, <1>8, <1>12, <1>13 DEF WayOK

-----------------------------------------------------------------------------
(***************************************************************************)
(* What has been heard, and the message that the callbacks are called      *)
(* with: both come before all that can still reach the subscriber.         *)
(***************************************************************************)

\* A step that calls no callback of s, and does not begin to.
LEMMA HeardKept ==
  ASSUME PubSubInv, SentKept, NEW s \in Subs, HeardOK(s), PastKept(s),
         \A p \in Pubs : published'[p] \in Nat /\ published[p] <= published'[p],
         \A f \in Callbacks : heard'[<<s, f>>] = heard[<<s, f>>], turn'[s] = turn[s],
         turn[s] # 0 => msg'[s] = msg[s] /\ callbacks'[s] = callbacks[s],
         AddrOf(s)' = NoAddr => Restarts \/ AddrOf(s) = NoAddr
  PROVE  HeardOK(s)'
<1>1. ASSUME NEW f \in Callbacks
      PROVE  Sorted(heard'[<<s, f>>]) /\ Past(s, heard[<<s, f>>])'
  <2>1. PICK h \in Seq(Data) : h = heard[<<s, f>>]
    BY WayTypes
  <2>2. Sorted(h) /\ Past(s, h)'
    BY <2>1 DEF HeardOK, PastKept
  <2> QED
    BY <2>1, <2>2 DEF Past, AllSent
<1>2. ASSUME turn'[s] # 0
      PROVE  /\ Past(s, <<msg[s]>>)'
             /\ msg'[s][2] <= published'[msg'[s][1]]
             /\ \A i \in DOMAIN callbacks'[s] :
                  i >= turn'[s] => AllBefore(HeardBy(s, i)', <<msg'[s]>>)
  <2>1. PICK m \in Data : m = msg[s] /\ m = msg'[s]
    BY <1>2, WayTypes
  <2>2. /\ Past(s, <<m>>) /\ m[2] <= published[m[1]]
        /\ \A i \in DOMAIN callbacks[s] : i >= turn[s] => AllBefore(HeardBy(s, i), <<m>>)
    BY <1>2, <2>1 DEF HeardOK
  <2>3. <<m>> \in Seq(Data) /\ m[1] \in Pubs /\ m[2] \in Nat
    BY Members
  <2>4. Past(s, <<m>>)'
    BY <2>2, <2>3 DEF PastKept
  <2>5. Past(s, <<msg[s]>>)'
    BY <2>1, <2>4 DEF Past, AllSent
  <2>6. m[2] <= published'[m[1]]
    <3>1. published[m[1]] \in Nat
      BY <2>3 DEF PubSubInv, PubSubTypes
    <3> QED
      BY <2>2, <2>3, <3>1
  <2>7. \A i \in DOMAIN callbacks[s] : HeardBy(s, i)' = HeardBy(s, i)
    <3> SUFFICES ASSUME NEW i \in DOMAIN callbacks[s]
                 PROVE  HeardBy(s, i)' = HeardBy(s, i)
      OBVIOUS
    <3>1. callbacks[s][i] \in Callbacks
      BY WayTypes
    <3>2. callbacks'[s] = callbacks[s]
      BY <1>2
    <3> QED
      BY <3>1, <3>2 DEF HeardBy
  <2>8. ASSUME NEW i \in DOMAIN callbacks'[s], i >= turn'[s]
        PROVE  AllBefore(HeardBy(s, i)', <<m>>)
    <3>1. i \in DOMAIN callbacks[s] /\ i >= turn[s]
      BY <1>2, <2>8
    <3> QED
      BY <2>2, <2>7, <3>1
  <2> QED
    BY <2>1, <2>5, <2>6, <2>8
<1>3. ASSUME ~Restarts, AddrOf(s)' = NoAddr
      PROVE  turn'[s] = 0 /\ \A f \in Callbacks : heard'[<<s, f>>] = <<>>
  BY <1>3 DEF HeardOK
<1> QED
  BY <1>1, <1>2, <1>3 DEF HeardOK

\* A subscriber that has no address yet has heard nothing.
LEMMA NothingHeard ==
  ASSUME NEW s \in Subs, turn'[s] = 0, \A f \in Callbacks : heard'[<<s, f>>] = <<>>
  PROVE  HeardOK(s)'
<1>1. ASSUME NEW f \in Callbacks
      PROVE  Sorted(heard'[<<s, f>>]) /\ Past(s, heard[<<s, f>>])'
  <2>1. Sorted(<<>>) /\ Past(s, <<>>)'
    BY DEF Sorted, Past, AllSent, AllBefore
  <2> QED
    BY <2>1 DEF Past, AllSent
<1> QED
  BY <1>1 DEF HeardOK

\* once() begins to call the callbacks with the message it has received.
LEMMA HeardReceives ==
  ASSUME PubSubInv, WayOK, SentKept, AtOneAddress, NEW s \in Subs, HeardOK(s), OnceReceives(s),
         \A p \in Pubs : published'[p] \in Nat /\ published[p] <= published'[p]
  PROVE  HeardOK(s)'
<1> USE Members
<1>1. PICK m : m = Head(BufferOf(s))
  OBVIOUS
<1>2. RecvReturns(s) /\ UNCHANGED <<published, callbacks, heard>>
  BY DEF OnceReceives, pubVars
<1>3. /\ PastKept(s) /\ AddrOf(s)' = AddrOf(s) /\ AddrOf(s) \in Addrs
      /\ m \in Data /\ result' = <<"recvfrom", m>>
      /\ Sent(m, AddrOf(s)) /\ Past(s, <<m>>)'
      /\ \A r \in Seq(Data) : Past(s, r) => AllBefore(r, <<m>>)
  BY <1>1, <1>2, ReceiveWay
<1>4. \/ UNCHANGED <<msg, turn>>
      \/ /\ callbacks[s] # <<>>
         /\ msg' = [msg EXCEPT ![s] = m] /\ turn' = [turn EXCEPT ![s] = 1]
  BY <1>3 DEF OnceReceives
<1>5. CASE UNCHANGED <<msg, turn>>
  BY <1>2, <1>3, <1>5, HeardKept
<1>6. CASE msg' = [msg EXCEPT ![s] = m] /\ turn' = [turn EXCEPT ![s] = 1]
  <2>1. msg'[s] = m /\ turn'[s] = 1
    BY <1>6 DEF PubSubInv, PubSubTypes
  <2>2. ASSUME NEW f \in Callbacks
        PROVE  /\ Sorted(heard'[<<s, f>>]) /\ Past(s, heard[<<s, f>>])'
               /\ AllBefore(heard[<<s, f>>], <<m>>)
    <3>1. PICK h \in Seq(Data) : h = heard[<<s, f>>]
      BY WayTypes
    <3>2. Sorted(h) /\ Past(s, h) /\ Past(s, h)'
      BY <1>3, <3>1 DEF HeardOK, PastKept
    <3>3. Past(s, heard[<<s, f>>])'
      BY <1>2, <3>1, <3>2 DEF Past, AllSent
    <3> QED
      BY <1>2, <1>3, <3>1, <3>2, <3>3
  <2>3. Past(s, <<msg[s]>>)'
    BY <1>3, <2>1 DEF Past, AllSent
  <2>4. m[2] <= published'[m[1]]
    BY <1>2, <1>3 DEF Sent
  <2>5. ASSUME NEW i \in DOMAIN callbacks[s]
        PROVE  AllBefore(HeardBy(s, i)', <<m>>)
    <3>1. callbacks[s][i] \in Callbacks
      BY WayTypes
    <3> QED
      BY <1>2, <2>2, <3>1 DEF HeardBy
  <2> QED
    BY <1>2, <1>3, <2>1, <2>2, <2>3, <2>4, <2>5 DEF HeardOK
<1> QED
  BY <1>4, <1>5, <1>6

\* once() calls a callback, and those that come after it have not heard m.
LEMMA HeardCalls ==
  ASSUME PubSubInv, WayOK, CallbacksDiffer, NEW s \in Subs, HeardOK(s), OnceCalls(s),
         PastKept(s), UNCHANGED socketVars
  PROVE  HeardOK(s)'
<1> USE Members
<1>1. PICK m \in Data : m = msg[s]
  BY WayTypes DEF OnceCalls
<1>2. PICK g : g = callbacks[s][turn[s]]
  OBVIOUS
<1>3. /\ turn[s] # 0 /\ UNCHANGED <<published, callbacks>>
      /\ heard' = [heard EXCEPT ![<<s, g>>] = Append(heard[<<s, g>>], m)]
      /\ \/ turn' = [turn EXCEPT ![s] = 0]
         \/ turn' = [turn EXCEPT ![s] = turn[s] + 1] /\ msg' = msg
  BY <1>1, <1>2 DEF OnceCalls, pubVars
<1>4. turn[s] \in DOMAIN callbacks[s] /\ g \in Callbacks /\ turn[s] \in Nat
  BY <1>2, <1>3, WayTypes DEF PubSubInv, PubSubTypes
<1>5. AddrOf(s)' = AddrOf(s)
  BY DEF socketVars, AddrOf, IsOpen
<1>6. /\ Past(s, <<m>>) /\ m[2] <= published[m[1]]
      /\ \A i \in DOMAIN callbacks[s] : i >= turn[s] => AllBefore(HeardBy(s, i), <<m>>)
  BY <1>1, <1>3 DEF HeardOK
<1>7. <<m>> \in Seq(Data) /\ Past(s, <<m>>)'
  <2>1. <<m>> \in Seq(Data)
    OBVIOUS
  <2> QED
    BY <1>6, <2>1 DEF PastKept
<1>8. /\ heard'[<<s, g>>] = Append(heard[<<s, g>>], m)
      /\ \A f \in Callbacks : f # g => heard'[<<s, f>>] = heard[<<s, f>>]
  BY <1>3, <1>4, WayTypes
<1>9. ASSUME NEW f \in Callbacks
      PROVE  Sorted(heard'[<<s, f>>]) /\ Past(s, heard[<<s, f>>])'
  <2>1. PICK h \in Seq(Data) : h = heard[<<s, f>>]
    BY WayTypes
  <2>2. Sorted(h) /\ Past(s, h) /\ Past(s, h)'
    BY <2>1 DEF HeardOK, PastKept
  <2>3. CASE f # g
    <3>1. heard'[<<s, f>>] = h
      BY <1>8, <2>1, <2>3
    <3> QED
      BY <2>2, <3>1 DEF Past, AllSent
  <2>4. CASE f = g
    <3>1. PICK k : k = Append(h, m)
      OBVIOUS
    <3>2. heard'[<<s, f>>] = k
      BY <1>8, <2>1, <2>4, <3>1
    <3>3. AllBefore(h, <<m>>)
      BY <1>2, <1>4, <1>6, <2>1, <2>4 DEF HeardBy
    <3>4. Sorted(k)
      BY <2>2, <3>1, <3>3, Appended
    <3>5. Past(s, k)'
      <4> SUFFICES ASSUME NEW a \in Addrs, Reaches(a, s)'
                   PROVE  /\ AllSent(k, a)' /\ AllBefore(k, wire'[a])
                          /\ AllBefore(k, BufferOf(s)')
        BY DEF Past
      <4>1. /\ AllSent(h, a)' /\ AllBefore(h, wire'[a]) /\ AllBefore(h, BufferOf(s)')
            /\ AllSent(<<m>>, a)' /\ AllBefore(<<m>>, wire'[a])
            /\ AllBefore(<<m>>, BufferOf(s)')
        BY <1>7, <2>2 DEF Past
      <4>2. wire'[a] \in Seq(Data) /\ BufferOf(s)' \in Seq(Data)
        <5>1. wire[a] \in Seq(Data) /\ BufferOf(s) \in Seq(Data)
          BY WayTypes
        <5>2. wire' = wire /\ BufferOf(s)' = BufferOf(s)
          BY DEF socketVars, BufferOf, IsOpen
        <5> QED
          BY <5>1, <5>2
      <4>3. /\ \A j \in DOMAIN k : \/ j \in DOMAIN h /\ k[j] = h[j]
                                   \/ k[j] = m
            /\ <<m>>[1] = m /\ 1 \in DOMAIN <<m>>
        BY <3>1
      <4>4. AllSent(k, a)'
        BY <4>1, <4>3 DEF AllSent
      <4>5. AllBefore(k, wire'[a]) /\ AllBefore(k, BufferOf(s)')
        BY <3>1, <4>1, <4>2, Appended
      <4> QED
        BY <4>4, <4>5
    <3> QED
      BY <3>2, <3>4, <3>5 DEF Past, AllSent
  <2> QED
    BY <2>3, <2>4
<1>10. ASSUME turn'[s] # 0
       PROVE  /\ Past(s, <<msg[s]>>)' /\ msg'[s][2] <= published'[msg'[s][1]]
              /\ \A i \in DOMAIN callbacks'[s] :
                   i >= turn'[s] => AllBefore(HeardBy(s, i)', <<msg'[s]>>)
  <2>1. turn'[s] = turn[s] + 1 /\ msg'[s] = m
    BY <1>1, <1>3, <1>10 DEF PubSubInv, PubSubTypes
  <2>2. Past(s, <<msg[s]>>)'
    BY <1>7, <2>1 DEF Past, AllSent
  <2>3. ASSUME NEW i \in DOMAIN callbacks[s], i >= turn'[s]
        PROVE  AllBefore(HeardBy(s, i)', <<m>>)
    <3>1. i \in Nat /\ callbacks[s][i] \in Callbacks
      BY WayTypes
    <3>2. i # turn[s] /\ i >= turn[s]
      BY <1>4, <2>1, <2>3, <3>1
    <3>3. callbacks[s][i] # g
      BY <1>2, <1>4, <3>2 DEF CallbacksDiffer
    <3>4. HeardBy(s, i)' = HeardBy(s, i)
      BY <1>3, <1>8, <3>1, <3>3 DEF HeardBy
    <3> QED
      BY <1>6, <3>2, <3>4
  <2> QED
    BY <1>3, <1>6, <2>1, <2>2, <2>3
<1>11. Restarts \/ AddrOf(s)' # NoAddr
  BY <1>3, <1>5 DEF HeardOK
<1> QED
  BY <1>9, <1>10, <1>11 DEF HeardOK

-----------------------------------------------------------------------------
(***************************************************************************)
(* The invariant.                                                          *)
(***************************************************************************)
LEMMA DifferNext ==
  ASSUME PubSubInv, CallbacksDiffer, [PubSubNext]_vars
  PROVE  CallbacksDiffer'
<1>t. callbacks \in [Subs -> Seq(Callbacks)]
  BY DEF PubSubInv, PubSubTypes
<1>1. CASE UNCHANGED callbacks
  BY <1>1 DEF CallbacksDiffer
<1>2. ASSUME NEW s \in Subs, SubEnds(s)
      PROVE  CallbacksDiffer'
  <2>1. callbacks' = [callbacks EXCEPT ![s] = <<>>]
    BY <1>2 DEF SubEnds
  <2> QED
    BY <1>t, <2>1 DEF CallbacksDiffer
<1>3. ASSUME NEW s \in Subs, NEW f \in Callbacks, RegisterCb(s, f)
      PROVE  CallbacksDiffer'
  <2>1. /\ callbacks' = [callbacks EXCEPT ![s] = Append(callbacks[s], f)]
        /\ \A i \in DOMAIN callbacks[s] : callbacks[s][i] # f
    BY <1>3 DEF RegisterCb
  <2>2. \A t \in Subs : t # s => callbacks'[t] = callbacks[t]
    BY <1>t, <2>1
  <2>3. PICK c \in Seq(Callbacks) : c = callbacks[s] /\ callbacks'[s] = Append(c, f)
    BY <1>t, <2>1
  <2>4. \A i \in DOMAIN Append(c, f) : \/ i \in DOMAIN c /\ Append(c, f)[i] = c[i]
                                       \/ i = Len(c) + 1 /\ Append(c, f)[i] = f
    OBVIOUS
  <2>5. \A i, j \in DOMAIN Append(c, f) : Append(c, f)[i] = Append(c, f)[j] => i = j
    <3>1. \A i \in DOMAIN c : c[i] # f
      BY <2>1, <2>3
    <3>2. \A i, j \in DOMAIN c : c[i] = c[j] => i = j
      BY <2>3 DEF CallbacksDiffer
    <3> HIDE <2>3
    <3> QED
      BY <2>4, <3>1, <3>2
  <2> QED
    BY <2>2, <2>3, <2>5 DEF CallbacksDiffer
<1>4. ASSUME NEW p \in Pubs, Pub(p)
      PROVE  UNCHANGED callbacks
  BY <1>4 DEF Pub, Starts, PubEnds, Publish, PublishTo, PubBind, PubConnect, subVars
<1>5. ASSUME NEW s \in Subs, Sub(s)
      PROVE  CallbacksDiffer'
  <2>1. CASE SubEnds(s) \/ \E f \in Callbacks : RegisterCb(s, f)
    BY <1>2, <1>3, <2>1
  <2>2. CASE ~(SubEnds(s) \/ \E f \in Callbacks : RegisterCb(s, f))
    BY <1>1, <1>5, <2>2 DEF Sub, InOnce, Starts, Once, OnceReceives, OnceFails, OnceCalls,
                            SubBind, SubTimeout, subVars
  <2> QED
    BY <2>1, <2>2
<1> QED
  BY <1>1, <1>4, <1>5 DEF PubSubNext, Carry, vars, subVars

Growing == \A p \in Pubs : published'[p] \in Nat /\ published[p] <= published'[p]

\* A step of anybody else than the subscribers, or one that leaves them alone.
LEMMA HeardAllKept ==
  ASSUME PubSubInv, SentKept, Growing, HeardAll, UNCHANGED subVars,
         \A s \in Subs : PastKept(s) /\ (AddrOf(s)' = NoAddr => Restarts \/ AddrOf(s) = NoAddr)
  PROVE  HeardAll'
<1> SUFFICES ASSUME NEW s \in Subs PROVE HeardOK(s)'
  BY DEF HeardAll
<1> QED
  BY HeardKept DEF HeardAll, Growing, subVars

\* The others keep what they have heard when t is called back, or ends.
LEMMA HeardOthers ==
  ASSUME PubSubInv, SentKept, Growing, HeardAll, NEW t \in Subs, NEW s \in Subs, s # t,
         PastKept(s), AddrOf(s)' = AddrOf(s),
         \A f \in Callbacks : heard'[<<s, f>>] = heard[<<s, f>>],
         turn'[s] = turn[s], msg'[s] = msg[s], callbacks'[s] = callbacks[s]
  PROVE  HeardOK(s)'
BY HeardKept DEF HeardAll, Growing

\* Steps of the callers that move no message and call no callback.
LEMMA QuietOrder ==
  ASSUME PubSubInv, SentKept, Growing, OrderInv, UNCHANGED subVars,
         wire' = wire, \A o \in Objects : SameSocket(o)
  PROVE  OrderInv'
<1>1. WayOK' /\ \A s \in Subs : PastKept(s)
  BY QuietWay DEF OrderInv
<1>2. \A s \in Subs : AddrOf(s)' = AddrOf(s)
  BY Members DEF SameSocket
<1> QED
  BY <1>1, <1>2, HeardAllKept DEF OrderInv

LEMMA SocketVarsSame ==
  ASSUME UNCHANGED socketVars
  PROVE  wire' = wire /\ \A o \in Objects : SameSocket(o)
BY DEF socketVars, SameSocket, AddrOf, BufferOf, IsOpen

LEMMA PubOrder ==
  ASSUME PubSubInv, SentKept, Growing, OrderInv, RegisteredOnce, NEW p \in Pubs, Pub(p)
  PROVE  OrderInv'
<1> USE Members
<1>1. WayOK /\ p \in Objects /\ p \notin Subs /\ Inv /\ UNCHANGED subVars
  BY DEF OrderInv, PubSubInv, Pub, Starts, PubEnds, Publish, PublishTo, PubBind, PubConnect
<1>2. ASSUME WayOK', \A s \in Subs : PastKept(s),
             Restarts \/ \A s \in Subs : AddrOf(s)' = AddrOf(s)
      PROVE  OrderInv'
  <2>1. HeardAll'
    BY <1>1, <1>2, HeardAllKept DEF OrderInv
  <2> QED
    BY <1>2, <2>1 DEF OrderInv
<1>3. CASE Starts(p)
  BY <1>1, <1>3, ConstructSocket, QuietOrder DEF Starts
<1>4. CASE PubEnds(p)
  BY <1>1, <1>2, <1>4, DestroyWay DEF PubEnds
<1>5. CASE Publish(p)
  BY <1>1, <1>5, SocketVarsSame, QuietOrder DEF Publish
<1>6. CASE PublishTo(p)
  BY <1>1, <1>2, <1>6, PublishWay
<1>7. ASSUME NEW a \in Addrs, PubBind(p, a) \/ PubConnect(p, a)
      PROVE  OrderInv'
  <2>1. Bind(p, a) \/ Connect(p, a)
    BY <1>7 DEF PubBind, PubConnect
  <2>2. /\ WayOK' /\ \A s \in Subs : s # p => AddrOf(s)' = AddrOf(s)
        /\ \A s \in Subs : AddrOf(s)' = AddrOf(s) => PastKept(s)
    BY <1>1, <2>1, BindWay
  <2> QED
    BY <1>1, <1>2, <2>2
<1> QED
  BY <1>3, <1>4, <1>5, <1>6, <1>7 DEF Pub

LEMMA SubOrder ==
  ASSUME PubSubInv, SentKept, Growing, OrderInv, CallbacksDiffer, AtOneAddress,
         NEW s \in Subs, Sub(s)
  PROVE  OrderInv'
<1> USE Members
<1>1. WayOK /\ HeardAll /\ s \in Objects /\ Inv
  BY DEF OrderInv, PubSubInv
<1>t. /\ callbacks \in [Subs -> Seq(Callbacks)] /\ msg \in [Subs -> Data \cup {Empty}]
      /\ turn \in [Subs -> Nat]
      /\ heard \in [Ears -> Seq(Data)]
  BY DEF PubSubInv, PubSubTypes
<1>2. CASE Starts(s)
  BY <1>1, <1>2, ConstructSocket, QuietOrder DEF Starts
<1>3. CASE Once(s) \/ OnceFails(s) \/ \E msec \in Msecs : SubTimeout(s, msec)
  BY <1>1, <1>3, QuietSocket, QuietOrder DEF Once, OnceFails, SubTimeout
<1>4. CASE SubEnds(s)
  <2>1. WayOK' /\ (\A t \in Subs : PastKept(t)) /\ Restarts
    BY <1>1, <1>4, DestroyWay DEF SubEnds
  <2>2. /\ turn[s] = 0 /\ UNCHANGED <<heard, turn, msg>>
        /\ \A t \in Subs : t # s => callbacks'[t] = callbacks[t]
    BY <1>t, <1>4 DEF SubEnds
  <2>3. ASSUME NEW t \in Subs PROVE HeardOK(t)'
    BY <1>1, <2>1, <2>2, HeardKept DEF HeardAll, Growing
  <2> QED
    BY <2>1, <2>3 DEF OrderInv, HeardAll
<1>5. ASSUME NEW f \in Callbacks, RegisterCb(s, f)
      PROVE  OrderInv'
  <2>1. /\ turn[s] = 0 /\ UNCHANGED <<heard, turn, msg, socketVars>>
        /\ \A t \in Subs : t # s => callbacks'[t] = callbacks[t]
    BY <1>t, <1>5 DEF RegisterCb
  <2>2. WayOK' /\ \A t \in Subs : PastKept(t) /\ AddrOf(t)' = AddrOf(t)
    BY <1>1, <2>1, SocketVarsSame, QuietWay DEF SameSocket
  <2>3. ASSUME NEW t \in Subs PROVE HeardOK(t)'
    BY <1>1, <2>1, <2>2, HeardKept DEF HeardAll, Growing
  <2> QED
    BY <2>2, <2>3 DEF OrderInv, HeardAll
<1>6. ASSUME NEW a \in Addrs, SubBind(s, a)
      PROVE  OrderInv'
  <2>1. (Bind(s, a) \/ Connect(s, a)) /\ UNCHANGED <<heard, turn, msg, callbacks>>
    BY <1>6 DEF SubBind, subVars
  <2>2. /\ WayOK'
        /\ \A t \in Subs : Restarts \/ AddrOf(t)' = AddrOf(t) => PastKept(t)
        /\ \A t \in Subs : AddrOf(t)' = NoAddr => AddrOf(t) = NoAddr
        /\ \A t \in Subs : t # s => AddrOf(t)' = AddrOf(t)
    BY <1>1, <2>1, BindWay
  <2>3. ASSUME NEW t \in Subs, PastKept(t) PROVE HeardOK(t)'
    BY <1>1, <2>1, <2>2, <2>3, HeardKept DEF HeardAll, Growing
  <2>4. CASE ~Restarts /\ AddrOf(s)' # AddrOf(s)
    <3>1. AddrOf(s) = NoAddr
      BY <1>1, <2>1, <2>4, BindSocket
    <3>2. turn'[s] = 0 /\ \A f \in Callbacks : heard'[<<s, f>>] = <<>>
      BY <1>1, <2>1, <2>4, <3>1 DEF HeardAll, HeardOK
    <3>3. HeardOK(s)'
      BY <3>2, NothingHeard
    <3>4. \A t \in Subs : HeardOK(t)'
      BY <2>2, <2>3, <3>3
    <3> QED
      BY <2>2, <3>4 DEF OrderInv, HeardAll
  <2>5. CASE Restarts \/ AddrOf(s)' = AddrOf(s)
    BY <2>2, <2>3, <2>5 DEF OrderInv, HeardAll
  <2> QED
    BY <2>4, <2>5
<1>7. CASE OnceReceives(s)
  <2>1. PICK m : m = Head(BufferOf(s))
    OBVIOUS
  <2>2. WayOK' /\ \A t \in Subs : PastKept(t) /\ AddrOf(t)' = AddrOf(t)
    BY <1>1, <1>7, <2>1, ReceiveWay DEF OnceReceives
  <2>3. HeardOK(s)'
    BY <1>1, <1>7, HeardReceives DEF HeardAll, Growing
  <2>4. /\ UNCHANGED <<heard, callbacks>>
        /\ \A t \in Subs : t # s => turn'[t] = turn[t] /\ msg'[t] = msg[t]
    BY <1>t, <1>7 DEF OnceReceives
  <2>5. ASSUME NEW t \in Subs, t # s PROVE HeardOK(t)'
    BY <1>1, <2>2, <2>4, <2>5, HeardOthers
  <2> QED
    BY <2>2, <2>3, <2>5 DEF OrderInv, HeardAll
<1>8. CASE OnceCalls(s)
  <2>1. UNCHANGED socketVars /\ UNCHANGED callbacks
    BY <1>8 DEF OnceCalls
  <2>2. WayOK' /\ \A t \in Subs : PastKept(t) /\ AddrOf(t)' = AddrOf(t)
    BY <1>1, <2>1, SocketVarsSame, QuietWay DEF SameSocket
  <2>3. HeardOK(s)'
    BY <1>1, <1>8, <2>1, <2>2, HeardCalls DEF HeardAll
  <2>4. ASSUME NEW t \in Subs, t # s
        PROVE  /\ turn'[t] = turn[t] /\ msg'[t] = msg[t]
               /\ \A f \in Callbacks : heard'[<<t, f>>] = heard[<<t, f>>]
    BY <1>t, <1>8, <2>4 DEF OnceCalls, Ears
  <2>5. ASSUME NEW t \in Subs, t # s PROVE HeardOK(t)'
    BY <1>1, <2>1, <2>2, <2>4, <2>5, HeardOthers
  <2> QED
    BY <2>2, <2>3, <2>5 DEF OrderInv, HeardAll
<1> QED
  BY <1>2, <1>3, <1>4, <1>5, <1>6, <1>7, <1>8 DEF Sub, InOnce

LEMMA OrderNext ==
  ASSUME PubSubInv, OrderInv, CallbacksDiffer, RegisteredOnce, AtOneAddress, ~Reordering,
         [PubSubNext]_vars
  PROVE  OrderInv'
<1>1. SentKept /\ Growing
  BY SentStays DEF Growing
<1>2. CASE UNCHANGED vars
  BY <1>1, <1>2, SocketVarsSame, QuietOrder DEF vars
<1>3. CASE Carry
  <2>1. PICK a \in Ports : \E i \in DOMAIN wire[a] : Deliver(a, i)
    BY <1>3 DEF Carry, Network
  <2>2. WayOK' /\ \A s \in Subs : PastKept(s) /\ AddrOf(s)' = AddrOf(s)
    BY <1>1, <2>1, DeliverWay DEF OrderInv
  <2> QED
    BY <1>1, <1>3, <2>2, HeardAllKept DEF Carry, OrderInv
<1> QED
  BY <1>1, <1>2, <1>3, PubOrder, SubOrder DEF PubSubNext

LEMMA OrderInit == Init => OrderInv /\ CallbacksDiffer
<1> SUFFICES ASSUME Init PROVE OrderInv /\ CallbacksDiffer
  OBVIOUS
<1> USE Members
<1>1. /\ \A a \in Ports : wire[a] = <<>>
      /\ \A o \in Objects : AddrOf(o) = NoAddr /\ BufferOf(o) = <<>>
      /\ \A s \in Subs : turn[s] = 0 /\ callbacks[s] = <<>>
      /\ \A s \in Subs, f \in Callbacks : heard[<<s, f>>] = <<>>
  BY DEF Init, SocketInit, AddrOf, BufferOf, IsOpen, Ears
<1>2. /\ Sorted(<<>>) /\ \A q : AllBefore(<<>>, q)
      /\ \A a : AllSent(<<>>, a)
  BY DEF Sorted, AllBefore, AllSent
<1>3. WayOK
  BY <1>1, <1>2 DEF WayOK, WireOK, SocketOK
<1>4. HeardAll
  BY <1>1, <1>2 DEF HeardAll, HeardOK, Past
<1>5. CallbacksDiffer
  BY <1>1 DEF CallbacksDiffer
<1> QED
  BY <1>3, <1>4, <1>5 DEF OrderInv

\* InOrder, for any number of publishers, subscribers and messages.
THEOREM InOrderAlways ==
  ASSUME ~Reordering, AtOneAddress
  PROVE  PubSubSpec /\ []RegisteredOnce => []InOrder
<1> DEFINE I == PubSubInv /\ CallbacksDiffer /\ OrderInv
<1>1. Init => I
  BY PubSubInvInit, OrderInit
<1>2. I /\ RegisteredOnce /\ [PubSubNext]_vars => I'
  BY PubSubInvNext, DifferNext, OrderNext
<1>3. I => InOrder
  <2> SUFFICES ASSUME HeardAll, heard \in [Ears -> Seq(Data)] PROVE InOrder
    BY DEF OrderInv, PubSubInv, PubSubTypes
  <2>1. ASSUME NEW e \in Ears PROVE Sorted(heard[e])
    <3>1. PICK s \in Subs, f \in Callbacks : e = <<s, f>>
      BY DEF Ears
    <3>2. HeardOK(s)
      BY DEF HeardAll
    <3> QED
      BY <3>1, <3>2 DEF HeardOK
  <2> QED
    BY <2>1 DEF InOrder, Sorted, Before
<1> HIDE DEF I
<1> QED
  BY <1>1, <1>2, <1>3, PTL DEF PubSubSpec

-----------------------------------------------------------------------------
(***************************************************************************)
(* Topic.  publish() and the calls of the callbacks are its steps; all the *)
(* rest, the sockets and the network among it, stutters.                   *)
(***************************************************************************)
LEMMA TopicStep ==
  ASSUME PubSubInv, OrderInv, [PubSubNext]_vars
  PROVE  [T!Next]_(T!vars)
<1> USE Members
<1>1. ASSUME UNCHANGED <<published, heard>>
      PROVE  [T!Next]_(T!vars)
  BY <1>1 DEF T!vars
<1>2. ASSUME NEW p \in Pubs, Publish(p)
      PROVE  T!Next
  BY <1>2 DEF Publish, subVars, T!Publish, T!Next
<1>3. ASSUME NEW s \in Subs, OnceCalls(s)
      PROVE  T!Next
  <2>1. /\ turn[s] \in DOMAIN callbacks[s] /\ turn[s] # 0 /\ callbacks[s] \in Seq(Callbacks)
        /\ msg[s] \in Data
    BY <1>3 DEF OnceCalls, PubSubInv, PubSubTypes
  <2>2. PICK e \in Ears : e = <<s, callbacks[s][turn[s]]>>
    <3>1. callbacks[s][turn[s]] \in Callbacks
      BY <2>1
    <3> QED
      BY <3>1 DEF Ears
  <2>3. PICK p \in Pubs, k \in 1..MaxPub : msg[s] = <<p, k>>
    BY <2>1, PubSubAssumption
  <2>4. k <= published[p] /\ AllBefore(heard[e], <<msg[s]>>)
    <3>1. turn[s] \in Nat /\ HeardOK(s)
      BY DEF OrderInv, HeardAll, PubSubInv, PubSubTypes
    <3>2. /\ msg[s][2] <= published[msg[s][1]]
          /\ AllBefore(HeardBy(s, turn[s]), <<msg[s]>>)
      BY <2>1, <3>1 DEF HeardOK
    <3> QED
      BY <2>2, <2>3, <3>2 DEF HeardBy
  <2>5. T!News(e, p, k)
    <3>1. <<msg[s]>>[1] = <<p, k>> /\ 1 \in DOMAIN <<msg[s]>>
      BY <2>3
    <3>2. \A i \in DOMAIN heard[e] : Before(heard[e][i], <<p, k>>)
      BY <2>4, <3>1 DEF AllBefore
    <3> QED
      BY <3>2 DEF Before, T!News
  <2>6. k \in 1..published[p]
    BY <2>4 DEF PubSubInv, PubSubTypes
  <2>7. heard' = [heard EXCEPT ![e] = Append(heard[e], <<p, k>>)] /\ UNCHANGED published
    BY <1>3, <2>2, <2>3 DEF OnceCalls, pubVars
  <2>8. T!Hear(e, p, k)
    BY <2>5, <2>6, <2>7 DEF T!Hear
  <2> QED
    BY <2>6, <2>8 DEF T!Next
<1>4. ASSUME NEW p \in Pubs, Pub(p), ~Publish(p)
      PROVE  UNCHANGED <<published, heard>>
  BY <1>4 DEF Pub, Starts, PubEnds, PublishTo, PubBind, PubConnect, pubVars, subVars
<1>5. ASSUME NEW s \in Subs, Sub(s), ~OnceCalls(s)
      PROVE  UNCHANGED <<published, heard>>
  BY <1>5 DEF Sub, InOnce, Starts, SubEnds, Once, OnceReceives, OnceFails, SubBind, RegisterCb,
              SubTimeout, pubVars, subVars
<1>6. CASE UNCHANGED vars \/ Carry
  BY <1>1, <1>6 DEF vars, Carry, pubVars, subVars
<1> QED
  BY <1>1, <1>2, <1>3, <1>4, <1>5, <1>6 DEF PubSubNext

\* Publisher and Subscriber implement Topic, under the same hypotheses.
THEOREM ImplementsTopic ==
  ASSUME ~Reordering, AtOneAddress
  PROVE  PubSubSpec /\ []RegisteredOnce => RefinesTopic
<1> DEFINE I == PubSubInv /\ CallbacksDiffer /\ OrderInv
<1>1. Init => I
  BY PubSubInvInit, OrderInit
<1>2. I /\ RegisteredOnce /\ [PubSubNext]_vars => I'
  BY PubSubInvNext, DifferNext, OrderNext
<1>3. Init => T!Init
  BY DEF Init, T!Init
<1>4. I /\ [PubSubNext]_vars => [T!Next]_(T!vars)
  BY TopicStep
<1> HIDE DEF I
<1> QED
  BY <1>1, <1>2, <1>3, <1>4, PTL DEF PubSubSpec, RefinesTopic, T!Spec

-----------------------------------------------------------------------------
(***************************************************************************)
(* CallbacksAgree.                                                         *)
(***************************************************************************)
LEMMA AppendedAt ==
  ASSUME NEW q \in Seq(Data), NEW m \in Data, NEW n \in Nat, n = Len(q)
  PROVE  /\ Append(q, m) \in Seq(Data) /\ Len(Append(q, m)) = n + 1
         /\ \A i \in 1..n : Append(q, m)[i] = q[i]
         /\ Append(q, m)[n + 1] = m
BY AppendProperties

LEMMA PartAt ==
  ASSUME NEW q \in Seq(Data), NEW k \in Nat, NEW n \in Nat, n = Len(q), k <= n
  PROVE  /\ From(q, k) \in Seq(Data) /\ Len(From(q, k)) = n - k
         /\ \A i \in 1..n - k : From(q, k)[i] = q[k + i]
<1>1. k + 1 \in Int /\ n \in Int /\ \A i \in k + 1..n : q[i] \in Data
  OBVIOUS
<1>2. PICK a \in Int : a = k + 1
  BY <1>1
<1>3. \A i \in a..n : q[i] \in Data
  BY <1>1, <1>2
<1>4. /\ SubSeq(q, a, n) \in Seq(Data)
      /\ Len(SubSeq(q, a, n)) = IF a <= n THEN n - a + 1 ELSE 0
      /\ \A i \in 1..n - a + 1 : SubSeq(q, a, n)[i] = q[a + i - 1]
  BY <1>3, SubSeqProperties
<1>5. From(q, k) = SubSeq(q, a, n)
  BY <1>2 DEF From
<1>6. PICK y \in Seq(Data) : y = From(q, k)
  BY <1>4, <1>5
<1>7. Len(y) = n - k /\ \A i \in 1..n - k : y[i] = q[k + i]
  BY <1>2, <1>4, <1>5, <1>6
<1> QED
  BY <1>6, <1>7

LEMMA FromAppended ==
  ASSUME NEW q \in Seq(Data), NEW m \in Data, NEW k \in Nat, k <= Len(q)
  PROVE  From(Append(q, m), k) = Append(From(q, k), m)
<1>1. PICK n \in Nat : n = Len(q) /\ k <= n
  OBVIOUS
<1>2. PICK r \in Seq(Data) : r = Append(q, m)
  BY AppendProperties
<1>3. PICK o \in Nat : o = n + 1 /\ o = Len(r) /\ k <= o /\ n - k \in Nat /\ o - k = n - k + 1
  <2>1. n + 1 = Len(r)
    BY <1>1, <1>2, AppendedAt
  <2> QED
    BY <1>1, <2>1
<1>4. (\A i \in 1..n : r[i] = q[i]) /\ r[o] = m
  BY <1>1, <1>2, <1>3, AppendedAt
<1>5. PICK x \in Seq(Data) : x = From(r, k)
  BY <1>3, PartAt
<1>6. Len(x) = o - k /\ \A i \in 1..o - k : x[i] = r[k + i]
  BY <1>3, <1>5, PartAt, ZenonT(30)
<1>7. PICK y \in Seq(Data) : y = From(q, k)
  BY <1>1, PartAt
<1>8. Len(y) = n - k /\ \A i \in 1..n - k : y[i] = q[k + i]
  <2>1. /\ Len(From(q, k)) = n - k
        /\ \A i \in 1..n - k : From(q, k)[i] = q[k + i]
    BY <1>1, PartAt
  <2> QED
    BY <1>7, <2>1
<1>9. PICK z \in Seq(Data) : z = Append(y, m)
  BY AppendProperties
<1>10. Len(z) = n - k + 1 /\ (\A i \in 1..n - k : z[i] = y[i]) /\ z[n - k + 1] = m
  BY <1>3, <1>8, <1>9, AppendedAt
<1>11. Len(x) = Len(z)
  BY <1>3, <1>6, <1>10
<1>12. ASSUME NEW i \in 1..Len(x) PROVE x[i] = z[i]
  <2>1. CASE i \in 1..n - k
    <3>1. k + i \in 1..n /\ i \in 1..o - k
      BY <1>3, <2>1
    <3> QED
      BY <1>4, <1>6, <1>8, <1>10, <2>1, <3>1
  <2>2. CASE i = n - k + 1
    <3>1. k + i = o /\ i \in 1..o - k
      BY <1>3, <2>2
    <3> QED
      BY <1>4, <1>6, <1>10, <2>2, <3>1
  <2>3. i \in 1..n - k + 1
    BY <1>3, <1>6
  <2> QED
    BY <1>3, <2>1, <2>2, <2>3
<1>13. x = z
  BY <1>11, <1>12, SeqEqual
<1> QED
  BY <1>2, <1>5, <1>7, <1>9, <1>13

LEMMA AgreeTypes ==
  ASSUME PubSubInv, NEW s \in Subs, NEW i \in DOMAIN callbacks[s]
  PROVE  /\ callbacks[s] \in Seq(Callbacks) /\ 1 \in DOMAIN callbacks[s] /\ i >= 1 /\ i \in Nat
         /\ callbacks[s][i] \in Callbacks /\ callbacks[s][1] \in Callbacks
         /\ HeardBy(s, i) \in Seq(Data) /\ HeardBy(s, 1) \in Seq(Data)
         /\ late[<<s, callbacks[s][i]>>] \in Nat \X Nat
         /\ turn[s] \in Nat
<1>1. /\ callbacks[s] \in Seq(Callbacks) /\ turn[s] \in Nat
      /\ heard \in [Ears -> Seq(Data)] /\ late \in [Ears -> Nat \X Nat]
  BY DEF PubSubInv, PubSubTypes
<1>2. 1 \in DOMAIN callbacks[s] /\ i >= 1 /\ i \in Nat
  BY <1>1
<1>3. callbacks[s][i] \in Callbacks /\ callbacks[s][1] \in Callbacks
  BY <1>1, <1>2
<1>4. \A f \in Callbacks : heard[<<s, f>>] \in Seq(Data) /\ late[<<s, f>>] \in Nat \X Nat
  BY <1>1 DEF Ears
<1> QED
  BY <1>1, <1>2, <1>3, <1>4 DEF HeardBy

\* A step after which a callback, and the first one, will have heard the same
\* as before in the end.
LEMMA AgreesStill ==
  ASSUME NEW s \in Subs, NEW i, AgreesAt(s, i),
         callbacks'[s][i] = callbacks[s][i],
         late'[<<s, callbacks[s][i]>>] = late[<<s, callbacks[s][i]>>],
         late[<<s, callbacks[s][i]>>] \in Nat \X Nat,
         InTheEnd(s, i)' = InTheEnd(s, i), InTheEnd(s, 1)' = InTheEnd(s, 1),
         HeardBy(s, i) \in Seq(Data), HeardBy(s, 1) \in Seq(Data),
         HeardBy(s, i)' \in Seq(Data), HeardBy(s, 1)' \in Seq(Data),
         Len(HeardBy(s, i)') >= Len(HeardBy(s, i)), Len(HeardBy(s, 1)') >= Len(HeardBy(s, 1))
  PROVE  AgreesAt(s, i)'
<1>1. PICK l \in Nat \X Nat : l = late[<<s, callbacks[s][i]>>]
  OBVIOUS
<1>2. /\ From(InTheEnd(s, i), l[1]) = From(InTheEnd(s, 1), l[2])
      /\ l[1] <= Len(HeardBy(s, i)) /\ l[2] <= Len(HeardBy(s, 1))
  BY <1>1 DEF AgreesAt
<1>3. l[1] <= Len(HeardBy(s, i)') /\ l[2] <= Len(HeardBy(s, 1)')
  <2>1. /\ Len(HeardBy(s, i)) \in Nat /\ Len(HeardBy(s, 1)) \in Nat
        /\ Len(HeardBy(s, i)') \in Nat /\ Len(HeardBy(s, 1)') \in Nat
        /\ l[1] \in Nat /\ l[2] \in Nat
    <3>1. \A q \in Seq(Data) : Len(q) \in Nat
      OBVIOUS
    <3> QED
      BY <3>1
  <2>2. PICK x \in Nat, y \in Nat, u \in Nat, v \in Nat :
          /\ x = Len(HeardBy(s, i)) /\ y = Len(HeardBy(s, 1))
          /\ u = Len(HeardBy(s, i)') /\ v = Len(HeardBy(s, 1)')
    BY <2>1
  <2>3. l[1] <= x /\ l[2] <= y /\ x <= u /\ y <= v
    BY <1>2, <2>2
  <2>4. l[1] <= u /\ l[2] <= v
    BY <2>1, <2>3
  <2> QED
    BY <2>2, <2>4
<1>4. l = late'[<<s, callbacks'[s][i]>>]
  BY <1>1
<1> QED
  BY <1>2, <1>3, <1>4 DEF AgreesAt

\* A step that calls no callback of s, and does not begin to.
LEMMA AgreesKept ==
  ASSUME PubSubInv, NEW s \in Subs, NEW i \in DOMAIN callbacks[s], AgreesAt(s, i),
         \A j \in DOMAIN callbacks[s] : callbacks'[s][j] = callbacks[s][j],
         \A f \in Callbacks : heard'[<<s, f>>] = heard[<<s, f>>],
         late'[<<s, callbacks[s][i]>>] = late[<<s, callbacks[s][i]>>],
         turn'[s] = turn[s], msg'[s] = msg[s]
  PROVE  AgreesAt(s, i)'
<1>1. \A j \in DOMAIN callbacks[s] : HeardBy(s, j)' = HeardBy(s, j)
  <2> SUFFICES ASSUME NEW j \in DOMAIN callbacks[s]
               PROVE  HeardBy(s, j)' = HeardBy(s, j)
    OBVIOUS
  <2>1. callbacks[s][j] \in Callbacks
    BY AgreeTypes
  <2> QED
    BY <2>1 DEF HeardBy
<1>2. 1 \in DOMAIN callbacks[s]
  BY AgreeTypes
<1>3. InTheEnd(s, i)' = InTheEnd(s, i) /\ InTheEnd(s, 1)' = InTheEnd(s, 1)
  BY <1>1, <1>2 DEF InTheEnd
<1>4. HeardBy(s, i)' = HeardBy(s, i) /\ HeardBy(s, 1)' = HeardBy(s, 1)
  BY <1>1, <1>2
<1>5. /\ HeardBy(s, i) \in Seq(Data) /\ HeardBy(s, 1) \in Seq(Data)
      /\ late[<<s, callbacks[s][i]>>] \in Nat \X Nat
  BY AgreeTypes
<1>6. Len(HeardBy(s, i)) \in Nat /\ Len(HeardBy(s, 1)) \in Nat
  BY <1>5
<1>7. Len(HeardBy(s, i)') >= Len(HeardBy(s, i)) /\ Len(HeardBy(s, 1)') >= Len(HeardBy(s, 1))
  BY <1>4, <1>6
<1> QED
  BY <1>3, <1>4, <1>5, <1>7, AgreesStill

\* The messages that are put in, when once() has them or does not.
LEMMA AgreeSub ==
  ASSUME PubSubInv, AgreeInv, CallbacksDiffer, NEW s \in Subs, Sub(s),
         NEW i \in DOMAIN callbacks'[s]
  PROVE  AgreesAt(s, i)'
<1>t. /\ callbacks \in [Subs -> Seq(Callbacks)] /\ msg \in [Subs -> Data \cup {Empty}]
      /\ turn \in [Subs -> Nat]
      /\ heard \in [Ears -> Seq(Data)] /\ late \in [Ears -> Nat \X Nat]
  BY DEF PubSubInv, PubSubTypes
<1>0. \A j \in DOMAIN callbacks[s] : AgreesAt(s, j)
  BY DEF AgreeInv
<1>1. CASE UNCHANGED subVars
  BY <1>0, <1>1, AgreesKept DEF subVars
<1>2. CASE SubEnds(s)
  <2>1. callbacks'[s] = <<>>
    BY <1>t, <1>2 DEF SubEnds
  <2> QED
    BY <2>1
<1>3. ASSUME NEW f \in Callbacks, RegisterCb(s, f)
      PROVE  AgreesAt(s, i)'
  <2>1. PICK c \in Seq(Callbacks) : c = callbacks[s]
    BY <1>t
  <2>2. PICK h \in Seq(Data) : h = heard[<<s, f>>]
    BY <1>t DEF Ears
  <2>3. PICK g : g = IF c = <<>> THEN h ELSE HeardBy(s, 1)
    OBVIOUS
  <2>4. /\ turn[s] = 0 /\ \A j \in DOMAIN c : c[j] # f
        /\ callbacks'[s] = Append(c, f)
        /\ late' = [late EXCEPT ![<<s, f>>] = <<Len(h), Len(g)>>]
        /\ UNCHANGED <<msg, turn, heard>>
    BY <1>t, <1>3, <2>1, <2>2, <2>3 DEF RegisterCb
  <2>5. \A j \in DOMAIN Append(c, f) : \/ j \in DOMAIN c /\ Append(c, f)[j] = c[j]
                                       \/ j = Len(c) + 1 /\ Append(c, f)[j] = f
    OBVIOUS
  <2>6. CASE i \in DOMAIN c /\ Append(c, f)[i] = c[i]
    <3>1. c[i] # f /\ c[i] \in Callbacks
      BY <2>4, <2>6
    <3>2. late'[<<s, c[i]>>] = late[<<s, c[i]>>]
      BY <1>t, <2>4, <3>1 DEF Ears
    <3>3. \A j \in DOMAIN c : callbacks'[s][j] = callbacks[s][j]
      BY <2>1, <2>4
    <3> QED
      BY <1>0, <2>1, <2>4, <2>6, <3>2, <3>3, AgreesKept
  <2>7. CASE i = Len(c) + 1 /\ Append(c, f)[i] = f
    <3>1. HeardBy(s, i)' = h
      BY <2>2, <2>4, <2>7 DEF HeardBy
    <3>2. HeardBy(s, 1)' = g
      <4>1. CASE c = <<>>
        BY <2>2, <2>3, <2>4, <2>7, <4>1 DEF HeardBy
      <4>2. CASE c # <<>>
        <5>1. Append(c, f)[1] = c[1]
          BY <4>2
        <5> QED
          BY <2>1, <2>3, <2>4, <4>2, <5>1 DEF HeardBy
      <4> QED
        BY <4>1, <4>2
    <3>3. g \in Seq(Data)
      <4>1. CASE c # <<>>
        <5>1. c[1] \in Callbacks
          BY <4>1
        <5> QED
          BY <1>t, <2>1, <2>3, <4>1, <5>1 DEF HeardBy, Ears
      <4> QED
        BY <2>3, <4>1
    <3>4. late'[<<s, callbacks'[s][i]>>] = <<Len(h), Len(g)>>
      BY <1>t, <2>4, <2>7 DEF Ears
    <3>5. From(h, Len(h)) = <<>> /\ From(g, Len(g)) = <<>>
      BY <3>3 DEF From
    <3>6. Len(h) \in Nat /\ Len(g) \in Nat
      BY <3>3
    <3>7. InTheEnd(s, i)' = h /\ InTheEnd(s, 1)' = g
      BY <2>4, <3>1, <3>2 DEF InTheEnd
    <3> QED
      BY <3>1, <3>2, <3>4, <3>5, <3>6, <3>7 DEF AgreesAt
  <2> QED
    BY <2>4, <2>5, <2>6, <2>7
<1>4. CASE OnceReceives(s)
  <2>1. UNCHANGED <<callbacks, heard, late>> /\ turn[s] = 0
    BY <1>4 DEF OnceReceives, RecvReturns, AgreeInv, Waits
  <2>2. PICK m \in Data \cup {Empty} : m = result'[2]
    <3>1. BufferOf(s) \in Seq(Data) /\ BufferOf(s) # <<>> 
      BY <1>4, SocketTypes, ReturnSocket, Members DEF OnceReceives, PubSubInv
    <3>2. Head(BufferOf(s)) \in Data
      BY <3>1
    <3> QED
      BY <1>4, <3>2, ReturnSocket, Members DEF OnceReceives, PubSubInv
  <2>3. \/ UNCHANGED <<msg, turn>>
        \/ m # Empty /\ msg'[s] = m /\ turn'[s] = 1
    BY <1>t, <1>4, <2>2 DEF OnceReceives
  <2>4. CASE UNCHANGED <<msg, turn>>
    BY <1>0, <2>1, <2>4, AgreesKept
  <2>5. CASE m # Empty /\ msg'[s] = m /\ turn'[s] = 1
    <3>1. m \in Data /\ i \in DOMAIN callbacks[s]
      BY <2>1, <2>2, <2>5
    <3>2. PICK x \in Seq(Data), y \in Seq(Data) : x = HeardBy(s, i) /\ y = HeardBy(s, 1)
      BY <3>1, AgreeTypes
    <3>3. PICK l \in Nat \X Nat : l = late[<<s, callbacks[s][i]>>]
      BY <3>1, AgreeTypes
    <3>4. From(x, l[1]) = From(y, l[2]) /\ l[1] <= Len(x) /\ l[2] <= Len(y)
      BY <1>0, <2>1, <3>1, <3>2, <3>3 DEF AgreesAt, InTheEnd
    <3>5. HeardBy(s, i)' = x /\ HeardBy(s, 1)' = y
      BY <2>1, <3>2 DEF HeardBy
    <3>6. i >= 1 /\ i \in Nat
      BY <3>1, AgreeTypes
    <3>7. InTheEnd(s, i)' = Append(x, m) /\ InTheEnd(s, 1)' = Append(y, m)
      <4>1. turn'[s] # 0 /\ turn'[s] <= i /\ turn'[s] <= 1
        BY <2>5, <3>6
      <4> QED
        BY <2>5, <3>5, <4>1 DEF InTheEnd
    <3>8. From(Append(x, m), l[1]) = From(Append(y, m), l[2])
      <4>1. l[1] \in Nat /\ l[2] \in Nat
        OBVIOUS
      <4>2. From(Append(x, m), l[1]) = Append(From(x, l[1]), m)
        BY <3>1, <3>4, <4>1, FromAppended
      <4>3. From(Append(y, m), l[2]) = Append(From(y, l[2]), m)
        BY <3>1, <3>4, <4>1, FromAppended
      <4> QED
        BY <3>4, <4>2, <4>3
    <3> QED
      BY <2>1, <3>3, <3>4, <3>5, <3>7, <3>8 DEF AgreesAt
  <2> QED
    BY <2>3, <2>4, <2>5
<1>5. CASE OnceCalls(s)
  <2>1. PICK k : k = turn[s]
    OBVIOUS
  <2>2. /\ k \in DOMAIN callbacks[s] /\ k # 0 /\ k \in Nat /\ k <= Len(callbacks[s])
        /\ msg[s] \in Data
    BY <1>t, <1>5, <2>1 DEF OnceCalls, PubSubInv, PubSubTypes
  <2>3. PICK m \in Data : m = msg[s]
    BY <2>2
  <2>4. PICK g \in Callbacks : g = callbacks[s][k]
    BY <1>t, <2>2
  <2>5. /\ UNCHANGED <<callbacks, late>>
        /\ heard' = [heard EXCEPT ![<<s, g>>] = Append(heard[<<s, g>>], m)]
        /\ \/ turn'[s] = 0 /\ k = Len(callbacks[s])
           \/ turn'[s] = k + 1 /\ msg'[s] = m
    BY <1>t, <1>5, <2>1, <2>3, <2>4 DEF OnceCalls
  <2>6. ASSUME NEW j \in DOMAIN callbacks[s]
        PROVE  /\ HeardBy(s, j) \in Seq(Data) /\ HeardBy(s, j)' \in Seq(Data)
               /\ Len(HeardBy(s, j)') >= Len(HeardBy(s, j))
               /\ InTheEnd(s, j)' = InTheEnd(s, j)
    <3>1. callbacks[s][j] \in Callbacks /\ j \in Nat /\ j <= Len(callbacks[s])
      BY <1>t
    <3>2. PICK h \in Seq(Data) : h = HeardBy(s, j)
      BY AgreeTypes
    <3>3. CASE j = k
      <4>1. HeardBy(s, j)' = Append(h, m)
        BY <1>t, <2>4, <2>5, <3>2, <3>3 DEF HeardBy, Ears
      <4>2. Append(h, m) \in Seq(Data) /\ Len(Append(h, m)) >= Len(h)
        OBVIOUS
      <4>3. InTheEnd(s, j) = Append(h, m)
        BY <2>1, <2>2, <2>3, <3>2, <3>3 DEF InTheEnd
      <4>4. InTheEnd(s, j)' = Append(h, m)
        BY <2>2, <2>5, <3>3, <4>1 DEF InTheEnd
      <4>5. Len(HeardBy(s, j)') >= Len(HeardBy(s, j))
        BY <3>2, <4>1, <4>2
      <4>6. HeardBy(s, j) \in Seq(Data) /\ HeardBy(s, j)' \in Seq(Data)
        BY <3>2, <4>1, <4>2
      <4> QED
        BY <4>3, <4>4, <4>5, <4>6
    <3>4. CASE j # k
      <4>1. callbacks[s][j] # g
        BY <2>2, <2>4, <3>4 DEF CallbacksDiffer
      <4>2. HeardBy(s, j)' = h
        BY <1>t, <2>4, <2>5, <3>1, <3>2, <4>1 DEF HeardBy, Ears
      <4>3. Len(h) >= Len(h)
        OBVIOUS
      <4>4. InTheEnd(s, j)' = InTheEnd(s, j)
        <5>1. CASE j < k
          <6>1. InTheEnd(s, j) = h
            BY <2>1, <2>2, <3>1, <3>2, <5>1 DEF InTheEnd
          <6>2. InTheEnd(s, j)' = h
            BY <2>2, <2>5, <3>1, <4>2, <5>1 DEF InTheEnd
          <6> QED
            BY <6>1, <6>2
        <5>2. CASE j > k
          <6>1. InTheEnd(s, j) = Append(h, m)
            BY <2>1, <2>2, <2>3, <3>1, <3>2, <5>2 DEF InTheEnd
          <6>2. turn'[s] = k + 1 /\ msg'[s] = m
            BY <2>2, <2>5, <3>1, <5>2
          <6>3. InTheEnd(s, j)' = Append(h, m)
            BY <2>2, <3>1, <4>2, <5>2, <6>2 DEF InTheEnd
          <6> QED
            BY <6>1, <6>3
        <5> QED
          BY <2>2, <3>1, <3>4, <5>1, <5>2
      <4>5. Len(HeardBy(s, j)') >= Len(HeardBy(s, j))
        BY <3>2, <4>2, <4>3
      <4>6. HeardBy(s, j) \in Seq(Data) /\ HeardBy(s, j)' \in Seq(Data)
        BY <3>2, <4>2
      <4> QED
        BY <4>4, <4>5, <4>6
    <3> QED
      BY <3>3, <3>4
  <2>7. /\ i \in DOMAIN callbacks[s] /\ 1 \in DOMAIN callbacks[s]
        /\ late[<<s, callbacks[s][i]>>] \in Nat \X Nat
    BY <2>5, AgreeTypes
  <2> QED
    BY <1>0, <2>5, <2>6, <2>7, AgreesStill
<1> QED
  BY <1>1, <1>2, <1>3, <1>4, <1>5
  DEF Sub, InOnce, Starts, Once, OnceFails, SubBind, SubTimeout

LEMMA WaitsNext ==
  ASSUME PubSubInv, \A s \in Subs : Waits(s), [PubSubNext]_vars
  PROVE  \A s \in Subs : Waits(s)'
<1> SUFFICES ASSUME NEW s \in Subs PROVE Waits(s)'
  OBVIOUS
<1>t. turn \in [Subs -> Nat] /\ Waits(s) /\ Subs \cap Pubs = {}
  BY Members DEF PubSubInv, PubSubTypes
<1>1. ASSUME inrecv' \subseteq inrecv \cup {o \in Subs : turn'[o] = 0},
             turn'[s] = turn[s] \/ s \notin inrecv'
      PROVE  Waits(s)'
  BY <1>t, <1>1 DEF Waits
<1>2. CASE UNCHANGED vars
  BY <1>1, <1>2 DEF vars, socketVars, subVars
<1>3. CASE Carry
  BY <1>1, <1>3 DEF Carry, Network, Deliver, subVars
<1>4. ASSUME NEW p \in Pubs, Pub(p)
      PROVE  Waits(s)'
  BY <1>1, <1>4 DEF Pub, Starts, PubEnds, Publish, PublishTo, PubBind, PubConnect, Construct,
     Destroy, SendTo, Bind, Connect, socketVars, subVars
<1>5. ASSUME NEW t \in Subs, Sub(t)
      PROVE  Waits(s)'
  <2>1. CASE OnceReceives(t)
    <3>1. inrecv' = inrecv \ {t} /\ \A u \in Subs : u # t => turn'[u] = turn[u]
      BY <1>t, <2>1 DEF OnceReceives, RecvReturns, Returned
    <3> QED
      BY <1>1, <3>1
  <2>2. CASE OnceCalls(t)
    <3>1. inrecv' = inrecv /\ turn[t] # 0 /\ \A u \in Subs : u # t => turn'[u] = turn[u]
      BY <1>t, <2>2 DEF OnceCalls, socketVars
    <3>2. CASE s = t
      BY <1>t, <3>1, <3>2 DEF Waits
    <3> QED
      BY <1>1, <3>1, <3>2
  <2>3. CASE Once(t)
    BY <1>1, <2>3 DEF Once, Recvfrom, subVars
  <2>4. CASE OnceFails(t)
    BY <1>1, <2>4 DEF OnceFails, RecvFails, Returned, subVars
  <2>5. CASE Starts(t) \/ SubEnds(t)
    BY <1>1, <2>5 DEF Starts, SubEnds, Construct, Destroy, subVars
  <2>6. CASE \E a \in Addrs : SubBind(t, a)
    BY <1>1, <2>6 DEF SubBind, Bind, Connect, subVars
  <2>7. CASE \E f \in Callbacks : RegisterCb(t, f)
    BY <1>1, <2>7 DEF RegisterCb, socketVars
  <2>8. CASE \E msec \in Msecs : SubTimeout(t, msec)
    BY <1>1, <2>8 DEF SubTimeout, SetTimeout, subVars
  <2> QED
    BY <1>5, <2>1, <2>2, <2>3, <2>4, <2>5, <2>6, <2>7, <2>8 DEF Sub, InOnce
<1> QED
  BY <1>2, <1>3, <1>4, <1>5 DEF PubSubNext

\* What one subscriber does leaves another's callbacks alone.
LEMMA OthersUntouched ==
  ASSUME PubSubInv, NEW t \in Subs, Sub(t), NEW s \in Subs, s # t
  PROVE  /\ callbacks'[s] = callbacks[s] /\ turn'[s] = turn[s] /\ msg'[s] = msg[s]
         /\ \A f \in Callbacks : /\ heard'[<<s, f>>] = heard[<<s, f>>]
                                 /\ late'[<<s, f>>] = late[<<s, f>>]
<1>t. /\ callbacks \in [Subs -> Seq(Callbacks)] /\ msg \in [Subs -> Data \cup {Empty}]
      /\ turn \in [Subs -> Nat]
      /\ heard \in [Ears -> Seq(Data)] /\ late \in [Ears -> Nat \X Nat]
  BY DEF PubSubInv, PubSubTypes
<1>1. CASE UNCHANGED subVars
  BY <1>1 DEF subVars
<1>2. CASE SubEnds(t)
  BY <1>t, <1>2 DEF SubEnds
<1>3. ASSUME NEW f \in Callbacks, RegisterCb(t, f)
      PROVE  /\ callbacks'[s] = callbacks[s] /\ UNCHANGED <<turn, msg, heard>>
             /\ \A g \in Callbacks : late'[<<s, g>>] = late[<<s, g>>]
  <2>1. PICK x : late' = [late EXCEPT ![<<t, f>>] = x]
    BY <1>3 DEF RegisterCb
  <2>2. \A g \in Callbacks : <<s, g>> # <<t, f>> /\ <<s, g>> \in Ears
    BY DEF Ears
  <2> QED
    BY <1>t, <1>3, <2>1, <2>2 DEF RegisterCb
<1>4. CASE OnceReceives(t)
  BY <1>t, <1>4 DEF OnceReceives
<1>5. CASE OnceCalls(t)
  <2>1. \A f \in Callbacks : \A g : <<s, f>> # <<t, g>> /\ <<s, f>> \in Ears
    BY DEF Ears
  <2> QED
    BY <1>t, <1>5, <2>1 DEF OnceCalls
<1> QED
  BY <1>1, <1>2, <1>3, <1>4, <1>5
  DEF Sub, InOnce, Starts, Once, OnceFails, SubBind, SubTimeout

LEMMA AgreeNext ==
  ASSUME PubSubInv, CallbacksDiffer, AgreeInv, [PubSubNext]_vars
  PROVE  AgreeInv'
<1>1. \A s \in Subs : Waits(s)'
  BY WaitsNext DEF AgreeInv
<1>2. ASSUME NEW s \in Subs, NEW i \in DOMAIN callbacks'[s]
      PROVE  AgreesAt(s, i)'
  <2>1. CASE UNCHANGED subVars
    BY <1>2, <2>1, AgreesKept DEF AgreeInv, subVars
  <2>2. CASE Sub(s)
    BY <1>2, <2>2, AgreeSub
  <2>3. ASSUME NEW t \in Subs, s # t, Sub(t)
        PROVE  AgreesAt(s, i)'
    <3>1. /\ callbacks'[s] = callbacks[s] /\ turn'[s] = turn[s] /\ msg'[s] = msg[s]
          /\ \A f \in Callbacks : /\ heard'[<<s, f>>] = heard[<<s, f>>]
                                  /\ late'[<<s, f>>] = late[<<s, f>>]
      BY <2>3, OthersUntouched
    <3>2. callbacks[s][i] \in Callbacks /\ AgreesAt(s, i) /\ i \in DOMAIN callbacks[s]
      BY <1>2, <3>1, AgreeTypes DEF AgreeInv
    <3> QED
      BY <3>1, <3>2, AgreesKept
  <2>4. ASSUME NEW p \in Pubs, Pub(p)
        PROVE  UNCHANGED subVars
    BY <2>4 DEF Pub, Starts, PubEnds, Publish, PublishTo, PubBind, PubConnect
  <2> QED
    BY <2>1, <2>2, <2>3, <2>4 DEF PubSubNext, Carry, vars
<1> QED
  BY <1>1, <1>2 DEF AgreeInv

\* CallbacksAgree, whatever the network does and whoever is restarted.
THEOREM CallbacksAgreeAlways == PubSubSpec => []CallbacksAgree
<1> DEFINE I == PubSubInv /\ CallbacksDiffer /\ AgreeInv
<1>1. Init => I
  <2> SUFFICES ASSUME Init PROVE I
    OBVIOUS
  <2>1. inrecv = {} /\ \A s \in Subs : callbacks[s] = <<>>
    BY DEF Init, SocketInit
  <2>2. AgreeInv /\ CallbacksDiffer
    BY <2>1 DEF AgreeInv, Waits, CallbacksDiffer
  <2> QED
    BY <2>2, PubSubInvInit
<1>2. I /\ [PubSubNext]_vars => I'
  BY PubSubInvNext, DifferNext, AgreeNext
<1>3. I => CallbacksAgree
  BY DEF AgreeInv, AgreesAt, CallbacksAgree
<1> HIDE DEF I
<1> QED
  BY <1>1, <1>2, <1>3, PTL DEF PubSubSpec

-----------------------------------------------------------------------------
(***************************************************************************)
(* CopiesBounded.                                                          *)
(***************************************************************************)

\* Where a message can be, for a callback: on a wire, in a buffer, with a subscriber
\* that is still to call the callback with it, or among what it has heard.
Places == ({"wire"} \X Ports) \cup ({"buffer"} \X Objects) \cup ({"hand", "heard"} \X Subs)

StillCalls(s, f) ==
  turn[s] # 0 /\ \E i \in DOMAIN callbacks[s] : i >= turn[s] /\ callbacks[s][i] = f

Hand(s, f) == IF StillCalls(s, f) THEN <<msg[s]>> ELSE <<>>

Line(f, p) ==
  CASE p[1] = "wire"   -> wire[p[2]]
    [] p[1] = "buffer" -> BufferOf(p[2])
    [] p[1] = "hand"   -> Hand(p[2], f)
    [] OTHER           -> heard[<<p[2], f>>]

\* The copies of m that are somewhere on the way, or have been heard; and how many
\* of them have been sent.
In(q, m) == {j \in DOMAIN q : q[j] = m}
AllCopies(f, m) == UNION {{p} \X In(Line(f, p), m) : p \in Places}

TimesSent(m) ==
  CASE m[2] > published[m[1]]                   -> 0
    [] m[2] = published[m[1]] /\ at[m[1]] # 0   -> at[m[1]] - 1
    [] OTHER                                    -> Len(clientaddrs[m[1]])

Bounded(f, m) ==
  IsFiniteSet(AllCopies(f, m)) /\ Cardinality(AllCopies(f, m)) <= TimesSent(m)

CopiesInv ==
  /\ PubSubInv /\ CallbacksDiffer
  /\ \A s \in Subs : Waits(s)
  /\ \A f \in Callbacks, m \in Data : Bounded(f, m)

(***************************************************************************)
(* What the lines hold of a message.                                       *)
(***************************************************************************)
LEMMA LineTypes ==
  ASSUME PubSubInv, NEW f \in Callbacks
  PROVE  \A p \in Places : Line(f, p) \in Seq(Data)
<1> USE Members
<1>1. /\ \A a \in Ports : wire[a] \in Seq(Data)
      /\ \A o \in Objects : BufferOf(o) \in Seq(Data)
      /\ \A s \in Subs : heard[<<s, f>>] \in Seq(Data)
      /\ \A s \in Subs : turn[s] # 0 => <<msg[s]>> \in Seq(Data)
  BY WayTypes
<1>2. \A s \in Subs : Hand(s, f) \in Seq(Data)
  BY <1>1 DEF Hand, StillCalls
<1> QED
  BY <1>1, <1>2 DEF Places, Line

OnWire(a) == <<"wire", a>>
InBuffer(o) == <<"buffer", o>>
InHand(s) == <<"hand", s>>
Heard(s) == <<"heard", s>>

LEMMA Lines ==
  ASSUME NEW f \in Callbacks
  PROVE  /\ \A a \in Ports : /\ OnWire(a) \in Places /\ Line(f, OnWire(a)) = wire[a]
                             /\ Line(f, OnWire(a))' = wire'[a]
         /\ \A o \in Objects : /\ InBuffer(o) \in Places /\ Line(f, InBuffer(o)) = BufferOf(o)
                               /\ Line(f, InBuffer(o))' = BufferOf(o)'
         /\ \A s \in Subs : /\ InHand(s) \in Places /\ Line(f, InHand(s)) = Hand(s, f)
                            /\ Line(f, InHand(s))' = Hand(s, f)'
         /\ \A s \in Subs : /\ Heard(s) \in Places /\ Line(f, Heard(s)) = heard[<<s, f>>]
                            /\ Line(f, Heard(s))' = heard'[<<s, f>>]
BY DEF Places, Line, OnWire, InBuffer, InHand, Heard

LEMMA EveryPlace ==
  ASSUME NEW p \in Places
  PROVE  \/ \E a \in Ports : p = OnWire(a)
         \/ \E o \in Objects : p = InBuffer(o)
         \/ \E s \in Subs : p = InHand(s) \/ p = Heard(s)
BY DEF Places, OnWire, InBuffer, InHand, Heard

LEMMA CopyIs ==
  ASSUME NEW f, NEW m
  PROVE  /\ \A t \in AllCopies(f, m) :
              /\ t = <<t[1], t[2]>> /\ t[1] \in Places
              /\ t[2] \in DOMAIN Line(f, t[1]) /\ Line(f, t[1])[t[2]] = m
         /\ \A p \in Places : \A j \in DOMAIN Line(f, p) :
              Line(f, p)[j] = m => <<p, j>> \in AllCopies(f, m)
BY DEF AllCopies, In

LEMMA CopyIsNext ==
  ASSUME NEW f, NEW m
  PROVE  /\ \A t \in AllCopies(f, m)' :
              /\ t = <<t[1], t[2]>> /\ t[1] \in Places
              /\ t[2] \in DOMAIN Line(f, t[1])' /\ Line(f, t[1])'[t[2]] = m
         /\ \A p \in Places : \A j \in DOMAIN Line(f, p)' :
              Line(f, p)'[j] = m => <<p, j>> \in AllCopies(f, m)'
BY DEF AllCopies, In

\* A copy is taken out of place p, and may come to place q.
Moves(f, p, n, q) ==
  /\ p \in Places /\ n \in DOMAIN Line(f, p) /\ Line(f, p)' = Without(Line(f, p), n)
  /\ \A x \in Places \ {p} :
       \/ Line(f, x)' = Line(f, x)
       \/ x = q /\ Line(f, x)' = Append(Line(f, x), Line(f, p)[n])

FewerCopies(f, m) ==
  /\ IsFiniteSet(AllCopies(f, m)')
  /\ Cardinality(AllCopies(f, m)') <= Cardinality(AllCopies(f, m))

LEMMA MovedCopies ==
  ASSUME PubSubInv, NEW f \in Callbacks, NEW m, NEW p, NEW n, NEW q,
         Moves(f, p, n, q), IsFiniteSet(AllCopies(f, m))
  PROVE  FewerCopies(f, m)
<1>m. /\ p \in Places /\ n \in DOMAIN Line(f, p) /\ Line(f, p)' = Without(Line(f, p), n)
      /\ \A x \in Places \ {p} :
           \/ Line(f, x)' = Line(f, x)
           \/ x = q /\ Line(f, x)' = Append(Line(f, x), Line(f, p)[n])
  BY DEF Moves
<1> DEFINE New == AllCopies(f, m)'
           Old == AllCopies(f, m)
           N == Len(Line(f, q)) + 1
           Was(t) == IF t[1] = p THEN IF t[2] < n THEN t ELSE <<p, t[2] + 1>>
                     ELSE IF t[1] = q /\ t[2] = N THEN <<p, n>> ELSE t
           h == [t \in New |-> Was(t)]
<1>0. Line(f, p) \in Seq(Data) /\ n \in Nat
  <2>1. Line(f, p) \in Seq(Data)
    BY <1>m, LineTypes
  <2> QED
    BY <1>m, <2>1
<1>1. ASSUME NEW t \in New, t[1] = p
      PROVE  /\ t[2] \in Nat /\ Was(t) \in Old /\ Was(t) # <<p, n>> /\ Was(t)[1] = p
             /\ Was(t) = <<p, IF t[2] < n THEN t[2] ELSE t[2] + 1>>
  <2>1. t = <<p, t[2]>> /\ t[2] \in DOMAIN Without(Line(f, p), n) /\ Without(Line(f, p), n)[t[2]] = m
    BY <1>1, <1>m, CopyIsNext
  <2>2. /\ t[2] \in Nat
        /\ t[2] < n => t[2] \in DOMAIN Line(f, p) /\ Line(f, p)[t[2]] = m
        /\ t[2] >= n => t[2] + 1 \in DOMAIN Line(f, p) /\ Line(f, p)[t[2] + 1] = m
    BY ONLY <1>0, <1>m, <2>1, WithoutElements
  <2>3. CASE t[2] < n
    BY <1>0, <1>1, <2>1, <2>2, <2>3, <1>m, CopyIs
  <2>4. CASE t[2] >= n
    BY <1>0, <1>1, <2>1, <2>2, <2>4, <1>m, CopyIs
  <2> QED
    BY <1>0, <2>2, <2>3, <2>4
<1>2. ASSUME NEW t \in New, t[1] # p
      PROVE  \/ Was(t) \in Old /\ Was(t) = t
             \/ t[1] = q /\ t[2] = N /\ Was(t) = <<p, n>> /\ <<p, n>> \in Old
  <2>1. /\ t = <<t[1], t[2]>> /\ t[1] \in Places \ {p}
        /\ t[2] \in DOMAIN Line(f, t[1])' /\ Line(f, t[1])'[t[2]] = m
    BY <1>2, CopyIsNext
  <2> DEFINE x == t[1]
             j == t[2]
             r == Line(f, x)
  <2>2. r \in Seq(Data)
    BY <2>1, LineTypes
  <2>3. CASE x = q /\ j = N
    <3>1. Line(f, p)[n] = m
      <4>1. N \notin DOMAIN r
        BY <2>2, <2>3
      <4>2. Line(f, x)' = Append(r, Line(f, p)[n])
        BY <2>1, <2>3, <4>1, <1>m
      <4>3. Append(r, Line(f, p)[n])[N] = Line(f, p)[n]
        BY <1>0, <2>2, <2>3
      <4> QED
        BY <2>1, <2>3, <4>2, <4>3
    <3> QED
      BY <1>2, <2>3, <3>1, <1>m, CopyIs
  <2>4. CASE ~(x = q /\ j = N)
    <3>1. j \in DOMAIN r /\ r[j] = m
      <4>1. CASE Line(f, x)' = r
        BY <2>1, <4>1
      <4>2. CASE x = q /\ Line(f, x)' = Append(r, Line(f, p)[n])
        <5>1. Line(f, p)[n] \in Data
          BY <1>0, <1>m
        <5>2. \A k \in DOMAIN Append(r, Line(f, p)[n]) :
                \/ k \in DOMAIN r /\ Append(r, Line(f, p)[n])[k] = r[k]
                \/ k = Len(r) + 1
          BY <2>2, <5>1
        <5> QED
          BY <2>1, <2>4, <4>2, <5>2
      <4> QED
        BY <2>1, <4>1, <4>2, <1>m
    <3> QED
      BY <1>2, <2>1, <2>4, <3>1, <1>m, CopyIs
  <2> QED
    BY <2>3, <2>4
<1>3. \A t \in New : t = <<t[1], t[2]>>
  BY CopyIsNext
<1> HIDE DEF New, Old, N, Was
<1>4. h \in [New -> Old]
  BY <1>1, <1>2
<1>5. ASSUME NEW s \in New, NEW t \in New, Was(s) = Was(t)
      PROVE  s = t
  <2>1. CASE s[1] = p /\ t[1] = p
    <3>s. s[2] \in Nat /\ Was(s) = <<p, IF s[2] < n THEN s[2] ELSE s[2] + 1>>
      BY <1>1, <2>1
    <3>1. t[2] \in Nat /\ Was(t) = <<p, IF t[2] < n THEN t[2] ELSE t[2] + 1>>
      BY <1>1, <2>1
    <3>2. (IF s[2] < n THEN s[2] ELSE s[2] + 1) = (IF t[2] < n THEN t[2] ELSE t[2] + 1)
      <4> DEFINE a == IF s[2] < n THEN s[2] ELSE s[2] + 1
                 b == IF t[2] < n THEN t[2] ELSE t[2] + 1
      <4> HIDE DEF a, b
      <4>1. <<p, a>> = <<p, b>>
        BY <1>5, <3>s, <3>1 DEF a, b
      <4>2. a = b
        BY ONLY <4>1
      <4> QED
        BY <4>2 DEF a, b
    <3>3. s[2] = t[2]
      BY <1>0, <3>s, <3>1, <3>2
    <3> QED
      BY <1>3, <2>1, <3>3
  <2>2. CASE s[1] = p /\ t[1] # p
    <3>1. Was(s) # <<p, n>> /\ Was(s)[1] = p
      BY <1>1, <2>2
    <3>2. Was(t) = t \/ Was(t) = <<p, n>>
      BY <1>2, <2>2
    <3> QED
      BY <1>5, <2>2, <3>1, <3>2
  <2>3. CASE s[1] # p /\ t[1] = p
    <3>1. Was(t) # <<p, n>> /\ Was(t)[1] = p
      BY <1>1, <2>3
    <3>2. Was(s) = s \/ Was(s) = <<p, n>>
      BY <1>2, <2>3
    <3> QED
      BY <1>5, <2>3, <3>1, <3>2
  <2>4. CASE s[1] # p /\ t[1] # p
    <3>1. \/ Was(s) = s
          \/ s = <<q, N>> /\ Was(s) = <<p, n>>
      BY <1>2, <1>3, <2>4
    <3>2. \/ Was(t) = t
          \/ t = <<q, N>> /\ Was(t) = <<p, n>>
      BY <1>2, <1>3, <2>4
    <3>3. <<p, n>>[1] = p
      OBVIOUS
    <3> QED
      BY <1>5, <2>4, <3>1, <3>2, <3>3
  <2> QED
    BY <2>1, <2>2, <2>3, <2>4
<1>6. h \in Injection(New, Old)
  BY <1>4, <1>5 DEF Injection, IsInjective
<1>7. IsFiniteSet(New) /\ Cardinality(New) <= Cardinality(Old)
  <2>1. IsFiniteSet(Old)
    BY DEF Old
  <2> HIDE DEF h
  <2> QED
    BY <1>6, <2>1, FS_Injection
<1> QED
  BY <1>7 DEF New, Old, FewerCopies

LEMMA SameCopies ==
  ASSUME NEW f \in Callbacks, NEW m, \A p \in Places : Line(f, p)' = Line(f, p)
  PROVE  AllCopies(f, m)' = AllCopies(f, m)
BY DEF AllCopies, In

\* A message is sent.
LEMMA SentCopies ==
  ASSUME PubSubInv, NEW f \in Callbacks, NEW m, NEW p \in Places, NEW d \in Data,
         Line(f, p)' = Append(Line(f, p), d),
         \A x \in Places \ {p} : Line(f, x)' = Line(f, x),
         IsFiniteSet(AllCopies(f, m))
  PROVE  /\ IsFiniteSet(AllCopies(f, m)')
         /\ Cardinality(AllCopies(f, m)') <=
              IF m = d THEN Cardinality(AllCopies(f, m)) + 1 ELSE Cardinality(AllCopies(f, m))
<1> DEFINE N == Len(Line(f, p)) + 1
           New == AllCopies(f, m)'
           Old == AllCopies(f, m)
           More == IF m = d THEN Old \cup {<<p, N>>} ELSE Old
<1>1. Line(f, p) \in Seq(Data)
  BY LineTypes
<1>2. \A k \in DOMAIN Append(Line(f, p), d) :
        \/ k \in DOMAIN Line(f, p) /\ Append(Line(f, p), d)[k] = Line(f, p)[k]
        \/ k = N /\ Append(Line(f, p), d)[k] = d
  BY <1>1
<1>3. ASSUME NEW t \in New
      PROVE  t \in More
  <2>1. /\ t = <<t[1], t[2]>> /\ t[1] \in Places
        /\ t[2] \in DOMAIN Line(f, t[1])' /\ Line(f, t[1])'[t[2]] = m
    BY CopyIsNext
  <2>2. CASE t[1] # p
    BY <2>1, <2>2, CopyIs
  <2>3. CASE t[1] = p
    <3>1. \/ t[2] \in DOMAIN Line(f, p) /\ Line(f, p)[t[2]] = m
          \/ t[2] = N /\ m = d
      BY <1>2, <2>1, <2>3
    <3> QED
      BY <2>1, <2>3, <3>1, CopyIs
  <2> QED
    BY <2>2, <2>3
<1>4. /\ IsFiniteSet(More)
      /\ Cardinality(More) <= IF m = d THEN Cardinality(Old) + 1 ELSE Cardinality(Old)
  <2>1. IsFiniteSet(Old) /\ Cardinality(Old) \in Nat
    BY FS_CardinalityType
  <2> DEFINE one == Old \cup {<<p, N>>}
  <2> HIDE DEF Old, N
  <2>2. IsFiniteSet(one) /\ Cardinality(one) <= Cardinality(Old) + 1
    <3> DEFINE x == <<p, N>>
    <3> HIDE DEF x
    <3>1. /\ IsFiniteSet(Old \cup {x})
          /\ Cardinality(Old \cup {x}) = IF x \in Old THEN Cardinality(Old) ELSE Cardinality(Old) + 1
      BY <2>1, FS_AddElement
    <3>2. Cardinality(Old \cup {x}) <= Cardinality(Old) + 1
      BY <2>1, <3>1
    <3> QED
      BY <3>1, <3>2 DEF x
  <2> HIDE DEF one
  <2>3. CASE m = d
    <3>1. More = one
      BY <2>3 DEF one
    <3> QED
      BY <2>2, <2>3, <3>1
  <2>4. CASE m # d
    BY <2>1, <2>4
  <2> QED
    BY <2>3, <2>4
<1> HIDE DEF More, Old, New
<1>5. New \in SUBSET More
  BY <1>3
<1>6. IsFiniteSet(New) /\ Cardinality(New) <= Cardinality(More)
  BY <1>4, <1>5, FS_Subset
<1>7. Cardinality(New) \in Nat /\ Cardinality(Old) \in Nat /\ Cardinality(More) \in Nat
  <2>1. IsFiniteSet(Old)
    BY DEF Old
  <2> QED
    BY <1>4, <1>6, <2>1, FS_CardinalityType
<1>8. Cardinality(New) <= IF m = d THEN Cardinality(Old) + 1 ELSE Cardinality(Old)
  BY <1>4, <1>6, <1>7
<1> QED
  BY <1>6, <1>8 DEF New, Old

-----------------------------------------------------------------------------
(***************************************************************************)
(* No step makes a copy, other than publish().                             *)
(***************************************************************************)
LEMMA SentTypes ==
  ASSUME PubSubTypes, NEW m \in Data
  PROVE  TimesSent(m) \in Nat /\ TimesSent(m) <= Len(clientaddrs[m[1]])
<1>1. m[1] \in Pubs /\ m[2] \in Nat
  BY Members
<1>2. /\ clientaddrs[m[1]] \in Seq(Addrs) /\ at[m[1]] \in Nat /\ published[m[1]] \in Nat
      /\ at[m[1]] <= Len(clientaddrs[m[1]])
  BY <1>1 DEF PubSubTypes
<1>3. Len(clientaddrs[m[1]]) \in Nat
  BY <1>2
<1> QED
  BY <1>1, <1>2, <1>3 DEF TimesSent

LEMMA SentTypesNext ==
  ASSUME PubSubTypes', NEW m \in Data
  PROVE  TimesSent(m)' \in Nat
<1>1. m[1] \in Pubs /\ m[2] \in Nat
  BY Members
<1>2. clientaddrs'[m[1]] \in Seq(Addrs) /\ at'[m[1]] \in Nat
  BY <1>1 DEF PubSubTypes
<1>3. Len(clientaddrs'[m[1]]) \in Nat
  BY <1>2
<1> QED
  BY <1>1, <1>2, <1>3 DEF TimesSent

\* The counts add up.
LEMMA StillBounded ==
  ASSUME PubSubInv, PubSubTypes', NEW f \in Callbacks, NEW m \in Data, Bounded(f, m),
         FewerCopies(f, m), TimesSent(m) <= TimesSent(m)'
  PROVE  Bounded(f, m)'
<1>1. TimesSent(m) \in Nat /\ TimesSent(m)' \in Nat
  <2>1. TimesSent(m) \in Nat
    BY SentTypes DEF PubSubInv
  <2>2. TimesSent(m)' \in Nat
    BY SentTypesNext
  <2> QED
    BY <2>1, <2>2
<1>2. Cardinality(AllCopies(f, m)) \in Nat /\ Cardinality(AllCopies(f, m)') \in Nat
  BY FS_CardinalityType DEF Bounded, FewerCopies
<1> QED
  BY <1>1, <1>2 DEF Bounded, FewerCopies

\* A subscriber that neither gets a message nor calls a callback.
LEMMA SameEar ==
  ASSUME NEW f \in Callbacks, NEW s \in Subs,
         Hand(s, f)' = Hand(s, f), heard'[<<s, f>>] = heard[<<s, f>>]
  PROVE  \A x : x = InHand(s) \/ x = Heard(s) => Line(f, x)' = Line(f, x)
<1> SUFFICES ASSUME NEW x, x = InHand(s) \/ x = Heard(s)
             PROVE  Line(f, x)' = Line(f, x)
  OBVIOUS
<1>1. CASE x = InHand(s)
  <2>1. Line(f, x) = Hand(s, f) /\ Line(f, x)' = Hand(s, f)'
    BY <1>1 DEF Line, InHand
  <2> QED
    BY <2>1
<1>2. CASE x = Heard(s)
  <2>1. Line(f, x) = heard[<<s, f>>] /\ Line(f, x)' = heard'[<<s, f>>]
    BY <1>2 DEF Line, Heard
  <2> QED
    BY <2>1
<1> QED
  BY <1>1, <1>2

\* A step that takes nothing and brings nothing.
LEMMA QuietCopies ==
  ASSUME NEW f \in Callbacks, NEW m, IsFiniteSet(AllCopies(f, m)),
         wire' = wire, \A o \in Objects : BufferOf(o)' = BufferOf(o),
         \A s \in Subs : Hand(s, f)' = Hand(s, f) /\ heard'[<<s, f>>] = heard[<<s, f>>]
  PROVE  FewerCopies(f, m)
<1>1. \A p \in Places : Line(f, p)' = Line(f, p)
  <2> SUFFICES ASSUME NEW p \in Places PROVE Line(f, p)' = Line(f, p)
    OBVIOUS
  <2>1. CASE \E a \in Ports : p = OnWire(a)
    BY <2>1, Lines
  <2>2. CASE \E o \in Objects : p = InBuffer(o)
    BY <2>2, Lines
  <2>3. CASE \E s \in Subs : p = InHand(s) \/ p = Heard(s)
    BY <2>3, Lines
  <2> QED
    BY <2>1, <2>2, <2>3, EveryPlace
<1>2. AllCopies(f, m)' = AllCopies(f, m)
  BY <1>1, SameCopies
<1>3. Cardinality(AllCopies(f, m)) \in Nat
  BY FS_CardinalityType
<1> QED
  BY <1>2, <1>3 DEF FewerCopies

LEMMA DeliverCopies ==
  ASSUME PubSubInv, Carry, NEW f \in Callbacks, NEW m \in Data, IsFiniteSet(AllCopies(f, m))
  PROVE  FewerCopies(f, m)
<1> USE Members
<1>i. Inv /\ wire \in [Ports -> Seq(Data)]
  BY DEF PubSubInv, Inv, TypeOK
<1>1. PICK a \in Ports : \E n \in DOMAIN wire[a] : Deliver(a, n)
  BY DEF Carry, Network
<1>2. PICK n \in DOMAIN wire[a] : Deliver(a, n)
  BY <1>1
<1>3. /\ wire[a] \in Seq(Data) /\ wire' = [wire EXCEPT ![a] = Without(wire[a], n)]
      /\ \/ \A p \in Objects : SameSocket(p)
         \/ \E o \in Objects :
              /\ OthersSame(o) /\ AddrOf(o) = a /\ AddrOf(o)' = a
              /\ BufferOf(o)' = Append(BufferOf(o), wire[a][n])
  BY <1>i, <1>2, DeliverAny
<1>4. wire'[a] = Without(wire[a], n) /\ \A b \in Ports \ {a} : wire'[b] = wire[b]
  BY <1>i, <1>3
<1>5. \A s \in Subs : Hand(s, f)' = Hand(s, f) /\ heard'[<<s, f>>] = heard[<<s, f>>]
  BY DEF Carry, subVars, Hand, StillCalls
<1>6. PICK o : \A x \in Objects :
                 \/ BufferOf(x)' = BufferOf(x)
                 \/ x = o /\ BufferOf(x)' = Append(BufferOf(x), wire[a][n])
  BY <1>3 DEF OthersSame, SameSocket
<1>7. /\ OnWire(a) \in Places /\ Line(f, OnWire(a)) = wire[a]
      /\ Line(f, OnWire(a))' = Without(wire[a], n)
  BY <1>4, Lines
<1>8. \A x \in Places \ {OnWire(a)} :
        \/ Line(f, x)' = Line(f, x)
        \/ x = InBuffer(o) /\ Line(f, x)' = Append(Line(f, x), wire[a][n])
  <2> SUFFICES ASSUME NEW x \in Places \ {OnWire(a)}
               PROVE  \/ Line(f, x)' = Line(f, x)
                      \/ x = InBuffer(o) /\ Line(f, x)' = Append(Line(f, x), wire[a][n])
    OBVIOUS
  <2>1. ASSUME NEW b \in Ports, x = OnWire(b) PROVE Line(f, x)' = Line(f, x)
    BY <1>4, <2>1, Lines
  <2>2. ASSUME NEW e \in Objects, x = InBuffer(e)
        PROVE  \/ Line(f, x)' = Line(f, x)
               \/ x = InBuffer(o) /\ Line(f, x)' = Append(Line(f, x), wire[a][n])
    <3>1. Line(f, x)' = BufferOf(e)' /\ Line(f, x) = BufferOf(e)
      BY <2>2, Lines
    <3> QED
      BY <1>6, <2>2, <3>1
  <2>3. ASSUME NEW s \in Subs, x = InHand(s) \/ x = Heard(s) PROVE Line(f, x)' = Line(f, x)
    BY <1>5, <2>3, SameEar
  <2> QED
    BY <2>1, <2>2, <2>3, EveryPlace
<1>9. Moves(f, OnWire(a), n, InBuffer(o))
  BY <1>7, <1>8 DEF Moves
<1> QED
  BY <1>9, MovedCopies

LEMMA ReceiveCopies ==
  ASSUME PubSubInv, NEW s \in Subs, Waits(s), OnceReceives(s),
         NEW f \in Callbacks, NEW m \in Data, IsFiniteSet(AllCopies(f, m))
  PROVE  FewerCopies(f, m)
<1> USE Members
<1>i. Inv /\ s \in Objects /\ RecvReturns(s) /\ PubSubTypes
  BY DEF PubSubInv, OnceReceives
<1>t. /\ callbacks \in [Subs -> Seq(Callbacks)] /\ callbacks[s] \in Seq(Callbacks)
      /\ turn \in [Subs -> Nat] /\ msg \in [Subs -> Data \cup {Empty}]
  BY <1>i DEF PubSubTypes
<1>1. /\ OthersSame(s) /\ wire' = wire /\ BufferOf(s) # <<>> /\ BufferOf(s)' = Tail(BufferOf(s))
      /\ LET d == Head(BufferOf(s)) IN result' = <<"recvfrom", IF d = Zero THEN Empty ELSE d>>
  BY <1>i, ReturnSocket
<1>b. BufferOf(s) \in Seq(Data) /\ BufferOf(s) # <<>>
  BY <1>1, WayTypes
<1>2. PICK d \in Data : d = Head(BufferOf(s))
  BY <1>b
<1>3. result'[2] = d /\ d # Empty
  BY <1>1, <1>2
<1>4. turn[s] = 0 /\ UNCHANGED <<callbacks, heard>>
  BY <1>i DEF Waits, RecvReturns, OnceReceives
<1>5. \A x \in Subs \ {s} : turn'[x] = turn[x] /\ msg'[x] = msg[x]
  BY <1>t DEF OnceReceives
<1>6. \A x \in Subs \ {s} : Hand(x, f)' = Hand(x, f)
  BY <1>4, <1>5 DEF Hand, StillCalls
<1>7. Hand(s, f) = <<>> /\ Hand(s, f)' \in {<<>>, <<d>>}
  <2>1. Hand(s, f) = <<>>
    BY <1>4 DEF Hand, StillCalls
  <2>2. CASE callbacks[s] = <<>>
    <3>1. turn'[s] = 0
      BY <1>4, <2>2 DEF OnceReceives
    <3> QED
      BY <2>1, <3>1 DEF Hand, StillCalls
  <2>3. CASE callbacks[s] # <<>>
    <3>1. msg'[s] = d
      BY <1>t, <1>3, <2>3 DEF OnceReceives
    <3> QED
      BY <2>1, <3>1 DEF Hand
  <2> QED
    BY <2>2, <2>3
<1>8. 1 \in DOMAIN BufferOf(s) /\ BufferOf(s)[1] = d /\ Without(BufferOf(s), 1) = Tail(BufferOf(s))
  BY <1>b, <1>2, FirstOut
<1> DEFINE p == InBuffer(s)
           q == InHand(s)
<1>9. /\ p \in Places /\ 1 \in DOMAIN Line(f, p) /\ Line(f, p)' = Without(Line(f, p), 1)
      /\ Line(f, p)[1] = d
  <2>1. p \in Places /\ Line(f, p) = BufferOf(s) /\ Line(f, p)' = BufferOf(s)'
    BY Lines
  <2> QED
    BY <1>1, <1>8, <2>1
<1>10. \A x \in Places \ {p} :
         \/ Line(f, x)' = Line(f, x)
         \/ x = q /\ Line(f, x)' = Append(Line(f, x), Line(f, p)[1])
  <2> SUFFICES ASSUME NEW x \in Places \ {p}
               PROVE  \/ Line(f, x)' = Line(f, x)
                      \/ x = q /\ Line(f, x)' = Append(Line(f, x), Line(f, p)[1])
    OBVIOUS
  <2>1. ASSUME NEW b \in Ports, x = OnWire(b) PROVE Line(f, x)' = Line(f, x)
    BY <1>1, <2>1, Lines
  <2>2. ASSUME NEW e \in Objects, x = InBuffer(e) PROVE Line(f, x)' = Line(f, x)
    <3>1. e # s
      BY <2>2
    <3>2. BufferOf(e)' = BufferOf(e)
      BY <1>1, <3>1 DEF OthersSame, SameSocket
    <3> QED
      BY <2>2, <3>2, Lines
  <2>3. ASSUME NEW e \in Subs, x = Heard(e) PROVE Line(f, x)' = Line(f, x)
    <3>1. Line(f, x) = heard[<<e, f>>] /\ Line(f, x)' = heard'[<<e, f>>]
      BY <2>3, Lines
    <3> QED
      BY <1>4, <3>1
  <2>4. ASSUME NEW e \in Subs, x = InHand(e), e # s PROVE Line(f, x)' = Line(f, x)
    BY <1>6, <2>4, Lines
  <2>5. CASE x = q
    <3>1. Line(f, x) = <<>> /\ Line(f, x)' \in {<<>>, <<d>>}
      BY <1>7, <2>5, Lines
    <3>2. Append(<<>>, d) = <<d>>
      OBVIOUS
    <3> QED
      BY <1>9, <2>5, <3>1, <3>2
  <2> QED
    BY <2>1, <2>2, <2>3, <2>4, <2>5, EveryPlace
<1>11. Moves(f, p, 1, q)
  BY <1>9, <1>10 DEF Moves
<1> QED
  BY <1>11, MovedCopies

LEMMA CallCopies ==
  ASSUME PubSubInv, CallbacksDiffer, NEW s \in Subs, OnceCalls(s),
         NEW f \in Callbacks, NEW m \in Data, IsFiniteSet(AllCopies(f, m))
  PROVE  FewerCopies(f, m)
<1> USE Members
<1>i. PubSubTypes
  BY DEF PubSubInv
<1>t. /\ callbacks[s] \in Seq(Callbacks) /\ turn \in [Subs -> Nat] /\ turn[s] \in Nat
      /\ msg \in [Subs -> Data \cup {Empty}] /\ heard \in [Ears -> Seq(Data)]
      /\ turn[s] # 0 /\ turn[s] <= Len(callbacks[s]) /\ Len(callbacks[s]) \in Nat
      /\ \A e \in Subs : <<e, f>> \in Ears
  BY <1>i DEF PubSubTypes, OnceCalls, Ears
<1> DEFINE g == callbacks[s][turn[s]]
<1>1. /\ heard' = [heard EXCEPT ![<<s, g>>] = Append(heard[<<s, g>>], msg[s])]
      /\ UNCHANGED <<socketVars, callbacks>>
      /\ \A x \in Subs \ {s} : turn'[x] = turn[x] /\ msg'[x] = msg[x]
  BY <1>t DEF OnceCalls
<1>2. /\ turn[s] = Len(callbacks[s]) => turn'[s] = 0
      /\ turn[s] # Len(callbacks[s]) => turn'[s] = turn[s] + 1 /\ msg'[s] = msg[s]
  BY <1>t DEF OnceCalls
<1>3. turn[s] \in DOMAIN callbacks[s] /\ DOMAIN callbacks[s] = 1..Len(callbacks[s])
  BY <1>t
<1>4. \A x \in Subs \ {s} : Hand(x, f)' = Hand(x, f) /\ heard'[<<x, f>>] = heard[<<x, f>>]
  BY <1>t, <1>1 DEF Hand, StillCalls
<1>5. wire' = wire /\ \A o \in Objects : BufferOf(o)' = BufferOf(o)
  BY <1>1 DEF socketVars, BufferOf, IsOpen
<1>6. CASE g # f
  <2>1. heard'[<<s, f>>] = heard[<<s, f>>]
    <3>1. <<s, g>> # <<s, f>>
      BY <1>6
    <3> QED
      BY <1>t, <1>1, <3>1
  <2>2. StillCalls(s, f)' <=> StillCalls(s, f)
    <3>1. \A j \in DOMAIN callbacks[s] :
            callbacks[s][j] = f => (j >= turn[s] <=> j >= turn[s] + 1)
      BY <1>t, <1>3, <1>6
    <3>2. CASE turn[s] = Len(callbacks[s])
      <4>1. \A j \in DOMAIN callbacks[s] : ~(j >= turn[s] + 1)
        BY <1>t, <1>3, <3>2
      <4> QED
        BY <1>1, <1>2, <3>1, <3>2, <4>1 DEF StillCalls
    <3>3. CASE turn[s] # Len(callbacks[s])
      <4>1. turn'[s] # 0
        BY <1>t, <1>2, <3>3
      <4> QED
        BY <1>t, <1>1, <1>2, <3>1, <3>3, <4>1 DEF StillCalls
    <3> QED
      BY <3>2, <3>3
  <2>3. StillCalls(s, f)' => msg'[s] = msg[s]
    BY <1>2 DEF StillCalls
  <2>4. Hand(s, f)' = Hand(s, f)
    BY <2>2, <2>3 DEF Hand
  <2> QED
    BY <1>4, <1>5, <2>1, <2>4, QuietCopies
<1>7. CASE g = f
  <2>1. heard'[<<s, f>>] = Append(heard[<<s, f>>], msg[s])
    BY <1>t, <1>1, <1>7
  <2>2. Hand(s, f) = <<msg[s]>>
    <3>1. StillCalls(s, f)
      BY <1>t, <1>3, <1>7 DEF StillCalls
    <3> QED
      BY <3>1 DEF Hand
  <2>3. Hand(s, f)' = <<>>
    <3>1. ASSUME StillCalls(s, f)' PROVE FALSE
      <4>1. turn'[s] = turn[s] + 1
        BY <1>2, <3>1 DEF StillCalls
      <4>2. PICK j \in DOMAIN callbacks[s] : j >= turn[s] + 1 /\ callbacks[s][j] = f
        BY <1>1, <3>1, <4>1 DEF StillCalls
      <4>3. j = turn[s]
        BY <1>3, <1>7, <4>2 DEF CallbacksDiffer
      <4> QED
        BY <1>t, <4>2, <4>3
    <3> QED
      BY <3>1 DEF Hand
  <2> DEFINE p == InHand(s)
             q == Heard(s)
  <2>4. /\ p \in Places /\ 1 \in DOMAIN Line(f, p) /\ Line(f, p)[1] = msg[s]
        /\ Line(f, p)' = Without(Line(f, p), 1)
    <3>1. p \in Places /\ Line(f, p) = <<msg[s]>> /\ Line(f, p)' = <<>>
      BY <2>2, <2>3, Lines
    <3>2. <<msg[s]>> \in Seq(Data) /\ <<msg[s]>> # <<>>
      BY <1>t, WayTypes
    <3>3. Without(<<msg[s]>>, 1) = Tail(<<msg[s]>>)
      BY <3>2, FirstOut
    <3>4. Tail(<<msg[s]>>) = <<>> /\ 1 \in DOMAIN <<msg[s]>> /\ <<msg[s]>>[1] = msg[s]
      OBVIOUS
    <3> QED
      BY <3>1, <3>3, <3>4
  <2>5. \A x \in Places \ {p} :
          \/ Line(f, x)' = Line(f, x)
          \/ x = q /\ Line(f, x)' = Append(Line(f, x), Line(f, p)[1])
    <3> SUFFICES ASSUME NEW x \in Places \ {p}
                 PROVE  \/ Line(f, x)' = Line(f, x)
                        \/ x = q /\ Line(f, x)' = Append(Line(f, x), Line(f, p)[1])
      OBVIOUS
    <3>1. ASSUME NEW b \in Ports, x = OnWire(b) PROVE Line(f, x)' = Line(f, x)
      BY <1>5, <3>1, Lines
    <3>2. ASSUME NEW e \in Objects, x = InBuffer(e) PROVE Line(f, x)' = Line(f, x)
      BY <1>5, <3>2, Lines
    <3>3. ASSUME NEW e \in Subs \ {s}, x = InHand(e) \/ x = Heard(e)
          PROVE  Line(f, x)' = Line(f, x)
      BY <1>4, <3>3, SameEar
    <3>4. CASE x = q
      BY <2>1, <2>4, <3>4, Lines
    <3> QED
      BY <3>1, <3>2, <3>3, <3>4, EveryPlace
  <2>6. Moves(f, p, 1, q)
    BY <2>4, <2>5 DEF Moves
  <2> QED
    BY <2>6, MovedCopies
<1> QED
  BY <1>6, <1>7


-----------------------------------------------------------------------------
(***************************************************************************)
(* How often a message has been sent.                                      *)
(***************************************************************************)
LEMMA SentSame ==
  ASSUME NEW m, published'[m[1]] = published[m[1]], at'[m[1]] = at[m[1]],
         clientaddrs'[m[1]] = clientaddrs[m[1]]
  PROVE  TimesSent(m)' = TimesSent(m)
BY DEF TimesSent

LEMMA PublishSent ==
  ASSUME PubSubTypes, NEW p \in Pubs, Publish(p), NEW m \in Data
  PROVE  TimesSent(m) <= TimesSent(m)'
<1>t. /\ published \in [Pubs -> 0..MaxPub] /\ at \in [Pubs -> Nat]
      /\ m[1] \in Pubs /\ m[2] \in Nat /\ MaxPub \in Nat
      /\ TimesSent(m) \in Nat /\ TimesSent(m) <= Len(clientaddrs[m[1]])
  BY Members, SentTypes DEF PubSubTypes
<1>1. /\ published' = [published EXCEPT ![p] = published[p] + 1] /\ clientaddrs' = clientaddrs
      /\ at' = [at EXCEPT ![p] = IF clientaddrs[p] = <<>> THEN 0 ELSE 1] /\ at[p] = 0
  BY DEF Publish
<1>2. CASE m[1] # p
  <2>1. TimesSent(m)' = TimesSent(m)
    BY <1>t, <1>1, <1>2, SentSame
  <2> QED
    BY <1>t, <2>1
<1>3. CASE m[1] = p
  <2>1. /\ published'[p] = published[p] + 1 /\ published[p] \in Nat
        /\ at'[p] \in {0, 1} /\ (at'[p] = 0 => clientaddrs[p] = <<>>)
    BY <1>t, <1>1
  <2>2. Len(clientaddrs[p]) \in Nat /\ clientaddrs'[p] = clientaddrs[p]
    <3>1. clientaddrs[p] \in Seq(Addrs)
      BY DEF PubSubTypes
    <3> QED
      BY <1>1, <3>1
  <2>3. CASE m[2] > published[p]
    <3>1. TimesSent(m) = 0
      BY <1>t, <1>3, <2>1, <2>3 DEF TimesSent
    <3>2. TimesSent(m)' \in Nat
      BY <1>t, <1>3, <2>1, <2>2 DEF TimesSent
    <3> QED
      BY <3>1, <3>2
  <2>4. CASE ~(m[2] > published[p])
    <3>1. ~(m[2] > published'[p]) /\ m[2] # published'[p]
      BY <1>t, <2>1, <2>4
    <3>2. TimesSent(m)' = Len(clientaddrs[p])
      BY <1>3, <2>2, <3>1 DEF TimesSent
    <3> QED
      BY <1>t, <1>3, <3>2
  <2> QED
    BY <2>3, <2>4
<1> QED
  BY <1>2, <1>3

LEMMA RegisterSent ==
  ASSUME PubSubTypes, NEW p \in Pubs, NEW a \in Addrs, at[p] = 0, RegisterAddr(p, a),
         UNCHANGED <<published, at>>, NEW m \in Data
  PROVE  TimesSent(m) <= TimesSent(m)'
<1>t. /\ clientaddrs \in [Pubs -> Seq(Addrs)] /\ m[1] \in Pubs /\ TimesSent(m) \in Nat
  BY Members, SentTypes DEF PubSubTypes
<1>1. clientaddrs' = [clientaddrs EXCEPT ![p] = Append(clientaddrs[p], a)]
  BY DEF RegisterAddr
<1>2. CASE m[1] # p
  <2>1. TimesSent(m)' = TimesSent(m)
    BY <1>t, <1>1, <1>2, SentSame
  <2> QED
    BY <1>t, <2>1
<1>3. CASE m[1] = p
  <2>1. clientaddrs[p] \in Seq(Addrs) /\ clientaddrs'[p] = Append(clientaddrs[p], a)
    BY <1>t, <1>1
  <2>2. Len(clientaddrs'[p]) = Len(clientaddrs[p]) + 1 /\ Len(clientaddrs[p]) \in Nat
    BY <2>1
  <2> QED
    BY <1>3, <2>2 DEF TimesSent
<1> QED
  BY <1>2, <1>3

LEMMA PublishToSent ==
  ASSUME PubSubTypes, NEW p \in Pubs, PublishTo(p), NEW m \in Data
  PROVE  TimesSent(m)' = IF m = <<p, published[p]>> THEN TimesSent(m) + 1 ELSE TimesSent(m)
<1>t. /\ at \in [Pubs -> Nat] /\ m = <<m[1], m[2]>> /\ m[1] \in Pubs
      /\ at[p] # 0 /\ at[p] <= Len(clientaddrs[p]) /\ clientaddrs[p] \in Seq(Addrs)
      /\ published[p] \in Nat
  BY PubSubAssumption DEF PubSubTypes, PublishTo
<1>1. /\ at' = [at EXCEPT ![p] = IF at[p] = Len(clientaddrs[p]) THEN 0 ELSE at[p] + 1]
      /\ UNCHANGED <<published, clientaddrs>>
  BY DEF PublishTo
<1>2. CASE m[1] # p
  <2>1. TimesSent(m)' = TimesSent(m)
    BY <1>t, <1>1, <1>2, SentSame
  <2> QED
    BY <1>2, <2>1
<1>3. CASE m[1] = p /\ m[2] # published[p]
  <2>1. TimesSent(m)' = TimesSent(m)
    BY <1>1, <1>3 DEF TimesSent
  <2> QED
    BY <1>3, <2>1
<1>4. CASE m[1] = p /\ m[2] = published[p]
  <2>1. TimesSent(m) = at[p] - 1
    BY <1>t, <1>4 DEF TimesSent
  <2>2. at'[p] = IF at[p] = Len(clientaddrs[p]) THEN 0 ELSE at[p] + 1
    BY <1>t, <1>1
  <2>3. TimesSent(m)' = at[p]
    BY <1>t, <1>1, <1>4, <2>2 DEF TimesSent
  <2> QED
    BY <1>t, <1>4, <2>1, <2>3
<1> QED
  BY <1>t, <1>2, <1>3, <1>4

-----------------------------------------------------------------------------
(***************************************************************************)
(* Every step keeps the bound.                                             *)
(***************************************************************************)
LEMMA PublishBounded ==
  ASSUME PubSubInv, PubSubTypes', NEW p \in Pubs, PublishTo(p),
         NEW f \in Callbacks, NEW m \in Data, Bounded(f, m)
  PROVE  Bounded(f, m)'
<1> USE Members
<1>i. Inv /\ PubSubTypes /\ p \in Objects
  BY DEF PubSubInv
<1>1. PICK a : a = clientaddrs[p][at[p]]
  OBVIOUS
<1>2. PICK d : d = <<p, published[p]>>
  OBVIOUS
<1>3. a \in Addrs /\ a \in Ports /\ d \in Data /\ SendTo(p, a, d)
  BY <1>i, <1>1, <1>2, SendTypes DEF PublishTo
<1>4. /\ OthersSame(p) /\ BufferOf(p)' = BufferOf(p)
      /\ wire' = wire \/ wire' = [wire EXCEPT ![a] = Append(wire[a], d)]
  BY <1>i, <1>3, SendSocket
<1>5. \A o \in Objects : BufferOf(o)' = BufferOf(o)
  BY <1>4 DEF OthersSame, SameSocket
<1>6. \A s \in Subs : Hand(s, f)' = Hand(s, f) /\ heard'[<<s, f>>] = heard[<<s, f>>]
  BY DEF PublishTo, subVars, Hand, StillCalls
<1>7. /\ TimesSent(m)' = IF m = d THEN TimesSent(m) + 1 ELSE TimesSent(m)
      /\ TimesSent(m) \in Nat
  BY <1>i, <1>2, PublishToSent, SentTypes
<1>8. IsFiniteSet(AllCopies(f, m)) /\ Cardinality(AllCopies(f, m)) <= TimesSent(m)
  BY DEF Bounded
<1>9. CASE wire' = wire
  <2>1. FewerCopies(f, m)
    BY <1>5, <1>6, <1>8, <1>9, QuietCopies
  <2>2. TimesSent(m) <= TimesSent(m)'
    BY <1>7
  <2> QED
    BY <2>1, <2>2, StillBounded
<1>10. CASE wire' = [wire EXCEPT ![a] = Append(wire[a], d)]
  <2>1. wire \in [Ports -> Seq(Data)]
    BY WayTypes
  <2>2. OnWire(a) \in Places /\ Line(f, OnWire(a))' = Append(Line(f, OnWire(a)), d)
    BY <1>3, <1>10, <2>1, Lines
  <2>3. ASSUME NEW x \in Places \ {OnWire(a)} PROVE Line(f, x)' = Line(f, x)
    <3>1. ASSUME NEW b \in Ports, x = OnWire(b) PROVE Line(f, x)' = Line(f, x)
      <4>1. wire'[b] = wire[b]
        BY <1>10, <2>1, <2>3, <3>1
      <4> QED
        BY <3>1, <4>1, Lines
    <3>2. ASSUME NEW e \in Objects, x = InBuffer(e) PROVE Line(f, x)' = Line(f, x)
      BY <1>5, <3>2, Lines
    <3>3. ASSUME NEW s \in Subs, x = InHand(s) \/ x = Heard(s) PROVE Line(f, x)' = Line(f, x)
      BY <1>6, <3>3, SameEar
    <3> QED
      BY <3>1, <3>2, <3>3, EveryPlace
  <2>4. /\ IsFiniteSet(AllCopies(f, m)')
        /\ Cardinality(AllCopies(f, m)') <=
             IF m = d THEN Cardinality(AllCopies(f, m)) + 1 ELSE Cardinality(AllCopies(f, m))
    BY <1>3, <1>8, <2>2, <2>3, SentCopies
  <2>5. Cardinality(AllCopies(f, m)) \in Nat /\ Cardinality(AllCopies(f, m)') \in Nat
    BY <1>8, <2>4, FS_CardinalityType
  <2>6. TimesSent(m)' \in Nat
    BY SentTypesNext
  <2>7. Cardinality(AllCopies(f, m)') <= TimesSent(m)'
    BY <1>7, <1>8, <2>4, <2>5, <2>6
  <2> QED
    BY <2>4, <2>7 DEF Bounded
<1> QED
  BY <1>4, <1>9, <1>10

LEMMA PubBounded ==
  ASSUME PubSubInv, PubSubTypes', ~Restarts, NEW p \in Pubs, Pub(p),
         NEW f \in Callbacks, NEW m \in Data, Bounded(f, m)
  PROVE  Bounded(f, m)'
<1> USE Members
<1>i. Inv /\ PubSubTypes /\ p \in Objects /\ IsFiniteSet(AllCopies(f, m)) /\ TimesSent(m) \in Nat
  BY SentTypes DEF PubSubInv, Bounded
<1>1. UNCHANGED subVars
  BY DEF Pub, Starts, PubEnds, Publish, PublishTo, PubBind, PubConnect
<1>2. ASSUME wire' = wire, \A o \in Objects : BufferOf(o)' = BufferOf(o),
             TimesSent(m) <= TimesSent(m)'
      PROVE  Bounded(f, m)'
  <2>1. \A s \in Subs : Hand(s, f)' = Hand(s, f) /\ heard'[<<s, f>>] = heard[<<s, f>>]
    BY <1>1 DEF subVars, Hand, StillCalls
  <2>2. FewerCopies(f, m)
    BY <1>i, <1>2, <2>1, QuietCopies
  <2> QED
    BY <1>2, <2>2, StillBounded
<1>3. CASE Starts(p)
  <2>1. wire' = wire /\ \A o \in Objects : BufferOf(o)' = BufferOf(o)
    BY <1>i, <1>3, ConstructSocket DEF Starts, SameSocket
  <2>2. TimesSent(m)' = TimesSent(m)
    BY <1>3, SentSame DEF Starts, pubVars
  <2> QED
    BY <1>i, <1>2, <2>1, <2>2
<1>4. CASE PubEnds(p)
  BY <1>4 DEF PubEnds
<1>5. CASE Publish(p)
  <2>1. wire' = wire /\ \A o \in Objects : BufferOf(o)' = BufferOf(o)
    BY <1>5, SocketVarsSame DEF Publish, SameSocket
  <2> QED
    BY <1>i, <1>2, <1>5, <2>1, PublishSent
<1>6. CASE PublishTo(p)
  BY <1>6, PublishBounded
<1>7. ASSUME NEW a \in Addrs, PubBind(p, a) \/ PubConnect(p, a)
      PROVE  Bounded(f, m)'
  <2>1. /\ Bind(p, a) \/ Connect(p, a)
        /\ at[p] = 0 /\ RegisterAddr(p, a) /\ UNCHANGED <<published, at>>
    BY <1>7 DEF PubBind, PubConnect, MayRegister
  <2>2. wire' = wire /\ \A o \in Objects : BufferOf(o)' = BufferOf(o)
    BY <1>i, <2>1, BindSocket DEF OthersSame, SameSocket
  <2>3. TimesSent(m) <= TimesSent(m)'
    BY <1>i, <2>1, RegisterSent
  <2> QED
    BY <1>2, <2>2, <2>3
<1> QED
  BY <1>3, <1>4, <1>5, <1>6, <1>7 DEF Pub

LEMMA SubFewer ==
  ASSUME PubSubInv, CallbacksDiffer, ~Restarts, NEW s \in Subs, Sub(s), Waits(s),
         NEW f \in Callbacks, NEW m \in Data, IsFiniteSet(AllCopies(f, m))
  PROVE  FewerCopies(f, m)
<1> USE Members
<1>i. Inv /\ s \in Objects /\ PubSubTypes
  BY DEF PubSubInv
<1>1. ASSUME wire' = wire, \A o \in Objects : SameSocket(o), UNCHANGED subVars
      PROVE  FewerCopies(f, m)
  <2>1. \A x \in Subs : Hand(x, f)' = Hand(x, f) /\ heard'[<<x, f>>] = heard[<<x, f>>]
    BY <1>1 DEF subVars, Hand, StillCalls
  <2>2. \A o \in Objects : BufferOf(o)' = BufferOf(o)
    BY <1>1 DEF SameSocket
  <2> QED
    BY <1>1, <2>1, <2>2, QuietCopies
<1>2. CASE Starts(s)
  BY <1>1, <1>i, <1>2, ConstructSocket DEF Starts
<1>3. CASE SubEnds(s)
  BY <1>3 DEF SubEnds
<1>4. CASE Once(s) \/ OnceFails(s) \/ \E msec \in Msecs : SubTimeout(s, msec)
  BY <1>1, <1>i, <1>4, QuietSocket DEF Once, OnceFails, SubTimeout
<1>5. ASSUME NEW a \in Addrs, SubBind(s, a)
      PROVE  FewerCopies(f, m)
  <2>1. (Bind(s, a) \/ Connect(s, a)) /\ UNCHANGED subVars
    BY <1>5 DEF SubBind
  <2>2. wire' = wire /\ \A o \in Objects : BufferOf(o)' = BufferOf(o)
    BY <1>i, <2>1, BindSocket DEF OthersSame, SameSocket
  <2>3. \A x \in Subs : Hand(x, f)' = Hand(x, f) /\ heard'[<<x, f>>] = heard[<<x, f>>]
    BY <2>1 DEF subVars, Hand, StillCalls
  <2> QED
    BY <2>2, <2>3, QuietCopies
<1>6. ASSUME NEW g \in Callbacks, RegisterCb(s, g)
      PROVE  FewerCopies(f, m)
  <2>1. /\ turn[s] = 0 /\ UNCHANGED <<heard, turn, msg, socketVars>>
        /\ \A x \in Subs : x # s => callbacks'[x] = callbacks[x]
    BY <1>i, <1>6 DEF RegisterCb, PubSubTypes
  <2>2. \A x \in Subs : Hand(x, f)' = Hand(x, f) /\ heard'[<<x, f>>] = heard[<<x, f>>]
    BY <2>1 DEF Hand, StillCalls
  <2>3. wire' = wire /\ \A o \in Objects : BufferOf(o)' = BufferOf(o)
    BY <2>1, SocketVarsSame DEF SameSocket
  <2> QED
    BY <2>2, <2>3, QuietCopies
<1>7. CASE OnceReceives(s)
  BY <1>7, ReceiveCopies
<1>8. CASE OnceCalls(s)
  BY <1>8, CallCopies
<1> QED
  BY <1>2, <1>3, <1>4, <1>5, <1>6, <1>7, <1>8 DEF Sub, InOnce

LEMMA CopiesNext ==
  ASSUME CopiesInv, ~Restarts, [PubSubNext]_vars
  PROVE  CopiesInv'
<1> USE Members
<1>1. PubSubInv /\ CallbacksDiffer /\ \A s \in Subs : Waits(s)
  BY DEF CopiesInv
<1>2. PubSubInv' /\ CallbacksDiffer' /\ \A s \in Subs : Waits(s)'
  BY <1>1, PubSubInvNext, DifferNext, WaitsNext
<1>3. ASSUME NEW f \in Callbacks, NEW m \in Data
      PROVE  Bounded(f, m)'
  <2>1. /\ Bounded(f, m) /\ IsFiniteSet(AllCopies(f, m)) /\ PubSubTypes'
        /\ TimesSent(m) \in Nat
    BY <1>1, <1>2, SentTypes DEF CopiesInv, Bounded, PubSubInv
  <2>2. ASSUME FewerCopies(f, m), UNCHANGED pubVars
        PROVE  Bounded(f, m)'
    <3>1. TimesSent(m)' = TimesSent(m)
      BY <2>2, SentSame DEF pubVars
    <3> QED
      BY <1>1, <2>1, <2>2, <3>1, StillBounded
  <2>3. CASE UNCHANGED vars
    <3>1. wire' = wire /\ \A o \in Objects : BufferOf(o)' = BufferOf(o)
      BY <2>3, SocketVarsSame DEF vars, SameSocket
    <3>2. \A s \in Subs : Hand(s, f)' = Hand(s, f) /\ heard'[<<s, f>>] = heard[<<s, f>>]
      BY <2>3 DEF vars, subVars, Hand, StillCalls
    <3>3. FewerCopies(f, m)
      BY <2>1, <3>1, <3>2, QuietCopies
    <3> QED
      BY <2>2, <2>3, <3>3 DEF vars
  <2>4. CASE Carry
    BY <1>1, <2>1, <2>2, <2>4, DeliverCopies DEF Carry
  <2>5. ASSUME NEW p \in Pubs, Pub(p)
        PROVE  Bounded(f, m)'
    BY <1>1, <2>1, <2>5, PubBounded
  <2>6. ASSUME NEW s \in Subs, Sub(s)
        PROVE  Bounded(f, m)'
    <3>1. FewerCopies(f, m)
      BY <1>1, <2>1, <2>6, SubFewer
    <3>2. UNCHANGED pubVars
      BY <2>6 DEF Sub, InOnce, Starts, SubEnds, Once, OnceReceives, OnceFails, OnceCalls,
         SubBind, RegisterCb, SubTimeout
    <3> QED
      BY <2>2, <3>1, <3>2
  <2> QED
    BY <2>3, <2>4, <2>5, <2>6 DEF PubSubNext
<1> QED
  BY <1>2, <1>3 DEF CopiesInv

LEMMA CopiesInit == Init => CopiesInv
<1> SUFFICES ASSUME Init PROVE CopiesInv
  OBVIOUS
<1> USE Members
<1>1. PubSubInv /\ CallbacksDiffer /\ \A s \in Subs : Waits(s)
  BY PubSubInvInit, OrderInit DEF Init, SocketInit, Waits
<1>2. ASSUME NEW f \in Callbacks, NEW m \in Data
      PROVE  Bounded(f, m)
  <2>1. /\ \A a \in Ports : wire[a] = <<>>
        /\ \A o \in Objects : BufferOf(o) = <<>>
        /\ \A s \in Subs : Hand(s, f) = <<>> /\ heard[<<s, f>>] = <<>>
    BY DEF Init, SocketInit, BufferOf, IsOpen, Ears, Hand, StillCalls
  <2>2. \A p \in Places : Line(f, p) = <<>>
    BY <2>1 DEF Places, Line
  <2>3. AllCopies(f, m) = {}
    BY <2>2 DEF AllCopies, In
  <2>4. IsFiniteSet({}) /\ Cardinality({}) = 0
    BY FS_EmptySet
  <2>5. TimesSent(m) \in Nat
    BY <1>1, SentTypes DEF PubSubInv
  <2> QED
    BY <2>3, <2>4, <2>5 DEF Bounded
<1> QED
  BY <1>1, <1>2 DEF CopiesInv

\* What has been heard is among the copies.
LEMMA CopiesCounted ==
  ASSUME CopiesInv, NEW f \in Callbacks, NEW m \in Data
  PROVE  Cardinality(Copies(f, m)) <= Len(clientaddrs[m[1]])
<1> DEFINE Few == Copies(f, m)
           All == AllCopies(f, m)
           h == [c \in Few |-> <<Heard(c[1]), c[2]>>]
<1>1. ASSUME NEW c \in Few
      PROVE  c = <<c[1], c[2]>> /\ c[1] \in Subs /\ <<Heard(c[1]), c[2]>> \in All
  <2>1. /\ c = <<c[1], c[2]>> /\ c[1] \in Subs
        /\ c[2] \in DOMAIN heard[<<c[1], f>>] /\ heard[<<c[1], f>>][c[2]] = m
    <3>1. PICK s \in Subs : c \in {s} \X HeardAt(<<s, f>>, m)
      BY DEF Copies
    <3> QED
      BY <3>1 DEF HeardAt
  <2>2. Heard(c[1]) \in Places /\ Line(f, Heard(c[1])) = heard[<<c[1], f>>]
    BY <2>1, Lines
  <2> QED
    BY <2>1, <2>2, CopyIs
<1>2. \A c, d \in Few : <<Heard(c[1]), c[2]>> = <<Heard(d[1]), d[2]>> => c = d
  BY <1>1 DEF Heard
<1>3. IsFiniteSet(All) /\ Cardinality(All) <= TimesSent(m)
  BY DEF CopiesInv, Bounded
<1> HIDE DEF Few, All
<1>4. h \in Injection(Few, All)
  BY <1>1, <1>2 DEF Injection, IsInjective
<1> HIDE DEF h
<1>5. IsFiniteSet(Few) /\ Cardinality(Few) <= Cardinality(All)
  BY <1>3, <1>4, FS_Injection
<1>6. Cardinality(Few) \in Nat /\ Cardinality(All) \in Nat
  BY <1>3, <1>5, FS_CardinalityType
<1>7. TimesSent(m) \in Nat /\ TimesSent(m) <= Len(clientaddrs[m[1]])
  BY SentTypes DEF CopiesInv, PubSubInv
<1>8. Len(clientaddrs[m[1]]) \in Nat
  <2>1. clientaddrs[m[1]] \in Seq(Addrs)
    BY Members DEF CopiesInv, PubSubInv, PubSubTypes
  <2> QED
    BY <2>1
<1> QED
  BY <1>3, <1>5, <1>6, <1>7, <1>8 DEF Few

\* CopiesBounded, for any number of publishers and subscribers and whatever the
\* network loses or reorders.  A publisher that starts anew forgets its addresses,
\* and what it sent to them may still be under way: the theorem is about programs
\* that construct their objects once.
THEOREM CopiesBoundedAlways ==
  ASSUME ~Restarts
  PROVE  PubSubSpec => []CopiesBounded
<1>1. Init => CopiesInv
  BY CopiesInit
<1>2. CopiesInv /\ [PubSubNext]_vars => CopiesInv'
  BY CopiesNext
<1>3. CopiesInv => CopiesBounded
  BY CopiesCounted DEF CopiesBounded
<1> QED
  BY <1>1, <1>2, <1>3, PTL DEF PubSubSpec

=============================================================================
