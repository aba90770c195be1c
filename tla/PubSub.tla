------------------------------- MODULE PubSub -------------------------------
(***************************************************************************)
(* Publisher and Subscriber of cpp/src/marko/pub_sub.hpp on top of the     *)
(* sockets they inherit from.  Every publisher and every subscriber is     *)
(* driven by a thread of its own.  publish() is a loop over the addresses  *)
(* that bind() and connect() have registered, once() a loop over the       *)
(* callbacks; both are interleaved with everything else, step by step.     *)
(***************************************************************************)
EXTENDS Sockets, FiniteSets

CONSTANTS
  Pubs,      \* the Publisher objects
  Subs,      \* the Subscriber objects
  Callbacks, \* the functions passed to register_cb
  MaxPub,    \* bound: messages a publisher publishes
  MaxAddrs,  \* bound: calls of bind() and connect() on one Publisher
  Restarts   \* publishers and subscribers are destroyed and constructed again

ASSUME PubSubAssumption ==
  /\ Pubs \cup Subs = Objects /\ Pubs \cap Subs = {}
  /\ Data = Pubs \X (1..MaxPub) /\ Zero \notin Data
  /\ MaxPub \in Nat /\ MaxAddrs \in Nat
  /\ Restarts \in BOOLEAN

VARIABLES
  clientaddrs, \* clientaddrs[p]: the addresses publisher p sends to
  published,   \* published[p]: how many times p has called publish()
  at,          \* at[p]: the position in clientaddrs[p] of the sendto() that is
               \* next in publish(); 0 outside publish()
  callbacks,   \* callbacks[s]: the registered callbacks of subscriber s
  msg,         \* msg[s]: the message once() is calling them with
  turn,        \* turn[s]: the position of the one that is next; 0 outside
  heard,       \* history: heard[<<s, f>>], what s has called f with
  late         \* history: late[<<s, f>>], how many messages f and the first
               \* callback of s had heard when f was registered

pubVars == <<clientaddrs, published, at>>
subVars == <<callbacks, msg, turn, heard, late>>
vars == <<socketVars, pubVars, subVars>>

Ears == Subs \X Callbacks
HeardBy(s, i) == heard[<<s, callbacks[s][i]>>]

Init ==
  /\ SocketInit
  /\ clientaddrs = [p \in Pubs |-> <<>>]
  /\ published = [p \in Pubs |-> 0]
  /\ at = [p \in Pubs |-> 0]
  /\ callbacks = [s \in Subs |-> <<>>]
  /\ msg = [s \in Subs |-> Empty]
  /\ turn = [s \in Subs |-> 0]
  /\ heard = [e \in Ears |-> <<>>]
  /\ late = [e \in Ears |-> <<0, 0>>]

-----------------------------------------------------------------------------
(***************************************************************************)
(* The publisher.                                                          *)
(***************************************************************************)

\* bind() and connect() register the address before they try it.
RegisterAddr(p, a) == clientaddrs' = [clientaddrs EXCEPT ![p] = Append(@, a)]

MayRegister(p) == at[p] = 0 /\ Len(clientaddrs[p]) < MaxAddrs

PubBind(p, a) ==
  /\ MayRegister(p)
  /\ RegisterAddr(p, a)
  /\ Bind(p, a)
  /\ UNCHANGED <<published, at, subVars>>

PubConnect(p, a) ==
  /\ MayRegister(p)
  /\ RegisterAddr(p, a)
  /\ Connect(p, a)
  /\ UNCHANGED <<published, at, subVars>>

\* publish(): one sendto() after the other, whatever they return.
Publish(p) ==
  /\ Idle(p)
  /\ at[p] = 0
  /\ published[p] < MaxPub
  /\ published' = [published EXCEPT ![p] = @ + 1]
  /\ at' = [at EXCEPT ![p] = IF clientaddrs[p] = <<>> THEN 0 ELSE 1]
  /\ UNCHANGED <<socketVars, clientaddrs, subVars>>

\* (Mutant: the loop does not move on to the next address.)
PublishToStays(p) ==
  /\ at[p] # 0
  /\ SendTo(p, clientaddrs[p][at[p]], <<p, published[p]>>)
  /\ UNCHANGED <<clientaddrs, published, at, subVars>>

PublishTo(p) ==
  /\ at[p] # 0
  /\ SendTo(p, clientaddrs[p][at[p]], <<p, published[p]>>)
  /\ at' = [at EXCEPT ![p] = IF @ = Len(clientaddrs[p]) THEN 0 ELSE @ + 1]
  /\ UNCHANGED <<clientaddrs, published, subVars>>

(***************************************************************************)
(* The subscriber.                                                         *)
(***************************************************************************)
SubBind(s, a) ==
  /\ turn[s] = 0
  /\ Bind(s, a) \/ Connect(s, a)
  /\ UNCHANGED <<pubVars, subVars>>

\* settimeout() and nothing else of Socket is used on a subscriber here.
SubTimeout(s, msec) ==
  /\ turn[s] = 0
  /\ SetTimeout(s, msec)
  /\ UNCHANGED <<pubVars, subVars>>

\* A program registers different functions (f stands for one in `heard`).
RegisterCb(s, f) ==
  /\ Idle(s)
  /\ turn[s] = 0
  /\ \A i \in DOMAIN callbacks[s] : callbacks[s][i] # f
  /\ callbacks' = [callbacks EXCEPT ![s] = Append(@, f)]
  /\ LET e == <<s, f>>
         first == IF callbacks[s] = <<>> THEN heard[e] ELSE HeardBy(s, 1)
     IN late' = [late EXCEPT ![e] = <<Len(heard[e]), Len(first)>>]
  /\ UNCHANGED <<socketVars, pubVars, msg, turn, heard>>

\* once(): wait for a message, return if it is empty, call the callbacks.
Once(s) ==
  /\ turn[s] = 0
  /\ Recvfrom(s)
  /\ UNCHANGED <<pubVars, subVars>>

OnceReceives(s) ==
  /\ RecvReturns(s)
  /\ LET m == result'[2]
     IN IF m = Empty \/ callbacks[s] = <<>>
        THEN UNCHANGED <<msg, turn>>
        ELSE msg' = [msg EXCEPT ![s] = m] /\ turn' = [turn EXCEPT ![s] = 1]
  /\ UNCHANGED <<pubVars, callbacks, heard, late>>

\* (Mutant: once() does not look at the size of the message.)
OnceFailsCalls(s) ==
  /\ RecvFails(s)
  /\ turn' = [turn EXCEPT ![s] = IF callbacks[s] = <<>> THEN 0 ELSE 1]
  /\ UNCHANGED <<pubVars, callbacks, msg, heard, late>>

OnceFails(s) ==
  /\ RecvFails(s)
  /\ UNCHANGED <<pubVars, subVars>>

\* (Mutant: the loop ends after the first callback.)
OnceCallsFirst(s) ==
  /\ turn[s] # 0
  /\ LET e == <<s, callbacks[s][turn[s]]>>
     IN heard' = [heard EXCEPT ![e] = Append(@, msg[s])]
  /\ turn' = [turn EXCEPT ![s] = 0]
  /\ msg' = [msg EXCEPT ![s] = Empty]
  /\ UNCHANGED <<socketVars, pubVars, callbacks, late>>

OnceCalls(s) ==
  /\ turn[s] # 0
  /\ LET e == <<s, callbacks[s][turn[s]]>>
     IN heard' = [heard EXCEPT ![e] = Append(@, msg[s])]
  /\ IF turn[s] = Len(callbacks[s])
     THEN turn' = [turn EXCEPT ![s] = 0] /\ msg' = [msg EXCEPT ![s] = Empty]
     ELSE turn' = [turn EXCEPT ![s] = @ + 1] /\ UNCHANGED msg
  /\ UNCHANGED <<socketVars, pubVars, callbacks, late>>

(***************************************************************************)
(* Objects come and go.  A new one has no addresses and no callbacks.      *)
(***************************************************************************)
Starts(o) ==
  /\ Construct(o)
  /\ UNCHANGED <<pubVars, subVars>>

PubEnds(p) ==
  /\ Restarts
  /\ at[p] = 0
  /\ Destroy(p)
  /\ clientaddrs' = [clientaddrs EXCEPT ![p] = <<>>]
  /\ UNCHANGED <<published, at, subVars>>

\* (Mutant: a subscriber is destroyed while it calls its callbacks.)
SubEndsAnytime(s) ==
  /\ Restarts
  /\ Destroy(s)
  /\ callbacks' = [callbacks EXCEPT ![s] = <<>>]
  /\ UNCHANGED <<pubVars, msg, turn, heard, late>>

SubEnds(s) ==
  /\ Restarts
  /\ turn[s] = 0
  /\ Destroy(s)
  /\ callbacks' = [callbacks EXCEPT ![s] = <<>>]
  /\ UNCHANGED <<pubVars, msg, turn, heard, late>>

-----------------------------------------------------------------------------
Pub(p) == \/ Starts(p) \/ PubEnds(p) \/ Publish(p) \/ PublishTo(p)
          \/ \E a \in Addrs : PubBind(p, a) \/ PubConnect(p, a)

InOnce(s) == OnceReceives(s) \/ OnceFails(s) \/ OnceCalls(s)

Sub(s) == \/ Starts(s) \/ SubEnds(s) \/ Once(s) \/ InOnce(s)
          \/ \E a \in Addrs : SubBind(s, a)
          \/ \E f \in Callbacks : RegisterCb(s, f)
          \/ \E msec \in Msecs : SubTimeout(s, msec)

Carry == Network /\ UNCHANGED <<pubVars, subVars>>

PubSubNext == \/ \E p \in Pubs : Pub(p)
              \/ \E s \in Subs : Sub(s)
              \/ Carry

PubSubSpec == Init /\ [][PubSubNext]_vars

\* A thread that is inside once() goes on, unless it waits for a message.
FairPubSubSpec == PubSubSpec /\ \A s \in Subs : WF_vars(InOnce(s))

-----------------------------------------------------------------------------
PubSubTypeOK ==
  /\ TypeOK
  /\ clientaddrs \in [Pubs -> Seq(Addrs)]
  /\ published \in [Pubs -> 0..MaxPub]
  /\ \A p \in Pubs : at[p] \in 0..Len(clientaddrs[p])
  /\ callbacks \in [Subs -> Seq(Callbacks)]
  /\ msg \in [Subs -> Data \cup {Empty}]
  /\ \A s \in Subs : /\ turn[s] \in 0..Len(callbacks[s])
                     /\ turn[s] # 0 => msg[s] \in Data
  /\ heard \in [Ears -> Seq(Data)]
  /\ late \in [Ears -> Nat \X Nat]

(***************************************************************************)
(* InOrder: as long as no publisher registers an address twice and the     *)
(* network keeps the order, a callback hears the messages of a publisher   *)
(* in the order in which they were published and none of them twice, which *)
(* is what the callback of test_ps.cpp expects; losses, restarts and ports *)
(* that are shared make no difference.  (A subscriber that is restarted    *)
(* must come back to its address: on its way to another one a message may  *)
(* still be that it has heard already.)                                    *)
(***************************************************************************)
InOrder ==
  \A e \in Ears : \A i, j \in DOMAIN heard[e] :
    i < j /\ heard[e][i][1] = heard[e][j][1] => heard[e][i][2] < heard[e][j][2]

(***************************************************************************)
(* CopiesBounded: bind() and connect() register their address whether they *)
(* succeed or not, so after a second attempt every message is sent once    *)
(* for each of them.  All the subscribers that share an address together   *)
(* hear a message no more often than that, in whatever order the network   *)
(* brings it: they share the messages, they do not all get them.           *)
(***************************************************************************)
HeardAt(e, m) == {i \in DOMAIN heard[e] : heard[e][i] = m}
Copies(f, m) == UNION {{s} \X HeardAt(<<s, f>>, m) : s \in Subs}

CopiesBounded ==
  \A f \in Callbacks, m \in Data : Cardinality(Copies(f, m)) <= Len(clientaddrs[m[1]])

(***************************************************************************)
(* CallbacksAgree: since it was registered, a callback has heard exactly   *)
(* what the first callback of its subscriber has heard since then; the     *)
(* message once() is calling them with is put in for those whose turn has  *)
(* not come.                                                               *)
(***************************************************************************)
InTheEnd(s, i) ==
  IF turn[s] # 0 /\ turn[s] <= i THEN Append(HeardBy(s, i), msg[s]) ELSE HeardBy(s, i)

From(seq, k) == SubSeq(seq, k + 1, Len(seq))

CallbacksAgree ==
  \A s \in Subs : \A i \in DOMAIN callbacks[s] :
    LET l == late[<<s, callbacks[s][i]>>]
    IN From(InTheEnd(s, i), l[1]) = From(InTheEnd(s, 1), l[2])

(***************************************************************************)
(* OneWay: data goes from publishers to subscribers; it never comes to the *)
(* socket of a publisher that has connected to a remote host (connect()    *)
(* asks to share the address, and a publisher's bind() does not; where     *)
(* MaxAddrs = 1 that connect() is all it has called).                      *)
(***************************************************************************)
OneWay == \A p \in Pubs \cap shared : IsOpen(p) => file[fd[p]].buffer = <<>>

(***************************************************************************)
(* ReceivedIsHeard: when once() is called, or waits, with a message at the *)
(* front of the socket's buffer, every callback registered by then hears   *)
(* that message.                                                           *)
(***************************************************************************)
InFront(s, m) ==
  /\ s \in inrecv /\ IsOpen(s)
  /\ file[fd[s]].buffer # <<>>
  /\ Head(file[fd[s]].buffer) = m

HasCallback(s, f) == \E i \in DOMAIN callbacks[s] : callbacks[s][i] = f

ReceivedIsHeard ==
  \A s \in Subs, f \in Callbacks, m \in Data :
    (InFront(s, m) /\ HasCallback(s, f)) ~> (HeardAt(<<s, f>>, m) # {})

(***************************************************************************)
(* RefinesTopic: all in all, Publisher and Subscriber implement Topic.     *)
(***************************************************************************)
T == INSTANCE Topic WITH Pubs <- Pubs, Ears <- Ears, published <- published, heard <- heard
RefinesTopic == T!Spec

=============================================================================
