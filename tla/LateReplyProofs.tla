--------------------------- MODULE LateReplyProofs ---------------------------
(***************************************************************************)
(* What is left of CallMatch when clients time out, late answers come and  *)
(* the server's process dies, for every value of the constants: OwnReply,  *)
(* on a network that makes copies too, and without copies AtMostOnce and   *)
(* NoReplyTwice.                                                           *)
(*                                                                         *)
(* The first inductive invariant says of a datagram, wherever it is, that  *)
(* it is a request or a reply of a call that was made, going from or to    *)
(* the client that made it, and if it is a reply, the call was executed.   *)
(* The second one says that a call is at one place at most.                *)
(***************************************************************************)
EXTENDS RequestReplyProofs

Real(d) ==
  /\ d.call[2] <= n[d.call[1]]
  /\ IF d.dst = Server THEN d.src = d.call[1]
     ELSE d.dst = d.call[1] /\ d.call \in executed

Genuine ==
  /\ \A d \in wire : Real(d)
  /\ \A a \in Addrs : \A k \in DOMAIN rcvq[a] : Real(rcvq[a][k]) /\ rcvq[a][k].dst = a
  /\ spc \in {"call", "send"} =>
       /\ job.m.call[2] <= n[job.m.call[1]]
       /\ job.to = job.m.call[1]
       /\ spc = "send" => job.m.call \in executed
  /\ \A c \in Clients : n[c] = IF waiting[c] THEN Len(got[c]) + 1 ELSE Len(got[c])

LateInv == TypeOK /\ Genuine /\ OwnReply

\* More calls and more executed calls leave what is real so.
LEMMA StaysReal ==
  ASSUME NEW d \in Datagrams, Real(d), executed \subseteq executed',
         \A c \in Clients : n[c] \in Nat /\ n'[c] \in Nat /\ n[c] <= n'[c]
  PROVE  d.call[2] <= n'[d.call[1]] /\ Real(d)'
<1>1. d.call[1] \in Clients /\ d.call[2] \in Nat
  BY DatagramFacts
<1>2. d.call[2] <= n'[d.call[1]]
  BY <1>1 DEF Real
<1> QED
  BY <1>2 DEF Real

\* A step that puts nothing but real datagrams anywhere, and starts no once().
LEMMA CarriesReal ==
  ASSUME LateInv, UNCHANGED <<n, waiting, got, executed>>,
         \A d \in wire' : Real(d),
         \A a \in Addrs : \A k \in DOMAIN rcvq'[a] : Real(rcvq'[a][k]) /\ rcvq'[a][k].dst = a,
         \/ UNCHANGED <<spc, job>>
         \/ spc' \in {"down", "ready"}
  PROVE  Genuine' /\ OwnReply'
BY DEF LateInv, Genuine, OwnReply, Real, Answered

\* recv() of request() ends, with an answer or without.
LEMMA ReturnKeeps ==
  ASSUME LateInv, NEW c \in Clients, NEW m \in Messages, Return(c, m), waiting[c],
         m # Empty => m.call[1] = c /\ m.call[2] <= n[c] /\ m.call \in executed,
         \A a \in Addrs : \A k \in DOMAIN rcvq'[a] : Real(rcvq'[a][k]) /\ rcvq'[a][k].dst = a
  PROVE  Genuine' /\ OwnReply'
<1>1. /\ n[c] = Len(got[c]) + 1 /\ got[c] \in Seq(Messages)
      /\ got \in [Clients -> Seq(Messages)] /\ waiting \in [Clients -> BOOLEAN]
  BY DEF LateInv, Genuine, TypeOK
<1>2. /\ UNCHANGED <<n, wire, spc, job, executed>>
      /\ got' = [got EXCEPT ![c] = Append(got[c], m)]
      /\ waiting' = [waiting EXCEPT ![c] = FALSE]
  BY DEF Return, serverVars
<1>3. /\ Len(Append(got[c], m)) = n[c]
      /\ \A k \in DOMAIN Append(got[c], m) :
           \/ k \in DOMAIN got[c] /\ Append(got[c], m)[k] = got[c][k]
           \/ k = n[c] /\ Append(got[c], m)[k] = m
  BY <1>1, AppendFacts
<1>4. Genuine'
  <2>1. \A b \in Clients : (n[b] = IF waiting[b] THEN Len(got[b]) + 1 ELSE Len(got[b]))'
    BY <1>1, <1>2, <1>3 DEF LateInv, Genuine
  <2> QED
    BY <1>2, <2>1 DEF LateInv, Genuine, Real
<1>5. OwnReply'
  <2> SUFFICES ASSUME NEW b \in Clients, NEW i \in Answered(b)'
               PROVE  LET call == got'[b][i].call
                      IN call[1] = b /\ call[2] <= i /\ call \in executed'
    BY DEF OwnReply
  <2>1. CASE b # c
    BY <1>1, <1>2, <2>1 DEF LateInv, OwnReply, Answered
  <2>2. CASE b = c
    <3>1. got'[c] = Append(got[c], m) /\ i \in DOMAIN got'[c] /\ got'[c][i] # Empty
      BY <1>1, <1>2, <2>2 DEF Answered
    <3>2. CASE i \in DOMAIN got[c] /\ got'[c][i] = got[c][i]
      BY <1>2, <2>2, <3>1, <3>2 DEF LateInv, OwnReply, Answered
    <3>3. CASE i = n[c] /\ got'[c][i] = m
      BY <1>2, <2>2, <3>1, <3>3
    <3> QED
      BY <1>3, <3>1, <3>2, <3>3
  <2> QED
    BY <2>1, <2>2
<1> QED
  BY <1>4, <1>5

LEMMA LateStep == LateInv /\ TypeOK' /\ [Next]_vars => (Genuine /\ OwnReply)'
<1> SUFFICES ASSUME LateInv, TypeOK', [Next]_vars
             PROVE  (Genuine /\ OwnReply)'
  OBVIOUS
<1> USE RRAssumption
<1>t. TypeOK /\ Genuine /\ OwnReply
  BY DEF LateInv
<1>w. /\ wire \subseteq Datagrams
      /\ \A a \in Addrs : /\ rcvq[a] \in Seq(Datagrams)
                          /\ \A k \in DOMAIN rcvq[a] : rcvq[a][k] \in Datagrams
      /\ Server \in Addrs /\ Clients \subseteq Addrs
      /\ rcvq \in [Addrs -> Seq(Datagrams)]
  BY <1>t, Everywhere DEF TypeOK
\* The first datagram of a buffer, and the others when it is taken.
<1>h. ASSUME NEW a \in Addrs, rcvq[a] # <<>>
      PROVE  /\ Head(rcvq[a]) \in Datagrams /\ Real(Head(rcvq[a])) /\ Head(rcvq[a]).dst = a
             /\ rcvq' = [rcvq EXCEPT ![a] = Tail(rcvq[a])] =>
                  \A b \in Addrs : \A k \in DOMAIN rcvq'[b] :
                    Real(rcvq'[b][k]) /\ rcvq'[b][k].dst = b
  <2>1. /\ Head(rcvq[a]) \in Datagrams /\ Head(rcvq[a]) = rcvq[a][1] /\ 1 \in DOMAIN rcvq[a]
        /\ \A k \in DOMAIN Tail(rcvq[a]) :
             k + 1 \in DOMAIN rcvq[a] /\ Tail(rcvq[a])[k] = rcvq[a][k + 1]
    BY <1>h, <1>w, TailFacts
  <2>2. ASSUME rcvq' = [rcvq EXCEPT ![a] = Tail(rcvq[a])], NEW b \in Addrs,
               NEW k \in DOMAIN rcvq'[b]
        PROVE  Real(rcvq'[b][k]) /\ rcvq'[b][k].dst = b
    <3>1. CASE b = a
      BY <1>t, <1>w, <2>1, <2>2, <3>1 DEF Genuine
    <3>2. CASE b # a
      BY <1>t, <1>w, <2>2, <3>2 DEF Genuine
    <3> QED
      BY <3>1, <3>2
  <2> QED
    BY <1>t, <2>1, <2>2 DEF Genuine
<1>1. ASSUME NEW c \in Clients, Request(c)
      PROVE  (Genuine /\ OwnReply)'
  <2>1. PICK d0 \in Datagrams :
          d0.src = c /\ d0.dst = Server /\ d0.call = <<c, n[c] + 1>> /\ Send(d0)
    <3>1. PICK len \in ReqLens :
            Send([src |-> c, dst |-> Server, call |-> <<c, n[c] + 1>>, len |-> len])
      BY <1>1 DEF Request
    <3>2. [src |-> c, dst |-> Server, call |-> <<c, n[c] + 1>>, len |-> len] \in Datagrams
      <4>1. <<c, n[c] + 1>> \in Calls
        BY <1>t DEF TypeOK, Calls
      <4>2. c \in Addrs /\ Server \in Addrs /\ len \in Nat
        BY <1>w, <3>1
      <4> QED
        BY <4>1, <4>2 DEF Datagrams
    <3> QED
      BY <3>1, <3>2
  <2>2. /\ UNCHANGED <<got, rcvq, spc, job, executed>>
        /\ n' = [n EXCEPT ![c] = n[c] + 1] /\ waiting' = [waiting EXCEPT ![c] = TRUE]
        /\ ~waiting[c]
    BY <1>1 DEF Request, serverVars
  <2>3. /\ n \in [Clients -> Nat] /\ waiting \in [Clients -> BOOLEAN]
    BY <1>t DEF TypeOK
  <2>4. \A b \in Clients : n[b] \in Nat /\ n'[b] \in Nat /\ n[b] <= n'[b]
    BY <2>2, <2>3
  <2>5. Real(d0)'
    BY <2>1, <2>2, <2>3 DEF Real
  <2>6. \A d \in wire' : Real(d)'
    BY <1>t, <1>w, <2>1, <2>2, <2>4, <2>5, SendFacts, StaysReal DEF Genuine
  <2>7. \A a \in Addrs : \A k \in DOMAIN rcvq'[a] : Real(rcvq[a][k])' /\ rcvq'[a][k].dst = a
    BY <1>t, <1>w, <2>2, <2>4, StaysReal DEF Genuine
  <2>8. (spc \in {"call", "send"} =>
           /\ job.m.call[2] <= n[job.m.call[1]]
           /\ job.to = job.m.call[1]
           /\ spc = "send" => job.m.call \in executed)'
    <3>1. spc \in {"call", "send"} => job.m.call \in Calls
      BY <1>t DEF TypeOK, Messages
    <3> QED
      BY <1>t, <2>2, <2>4, <3>1 DEF Genuine, Calls
  <2>9. \A b \in Clients : (n[b] = IF waiting[b] THEN Len(got[b]) + 1 ELSE Len(got[b]))'
    BY <1>t, <2>2, <2>3 DEF Genuine
  <2>10. Genuine'
    BY <2>2, <2>6, <2>7, <2>8, <2>9 DEF Genuine
  <2> QED
    BY <1>t, <2>2, <2>10 DEF OwnReply, Answered
<1>2. ASSUME NEW c \in Clients, RequestReturns(c)
      PROVE  (Genuine /\ OwnReply)'
  <2> DEFINE h == Head(rcvq[c])
             m == Recvfrom(h, RepSize)
  <2>1. /\ waiting[c] /\ rcvq[c] # <<>> /\ Return(c, m)
        /\ rcvq' = [rcvq EXCEPT ![c] = Tail(rcvq[c])]
    BY <1>2 DEF RequestReturns
  <2>2. /\ h \in Datagrams /\ Real(h) /\ h.dst = c
        /\ \A b \in Addrs : \A k \in DOMAIN rcvq'[b] : Real(rcvq'[b][k]) /\ rcvq'[b][k].dst = b
    BY <1>h, <1>w, <2>1
  <2>3. m \in Messages /\ (m # Empty => m.call = h.call)
    BY <2>2, RecvfromType
  <2>4. m # Empty => m.call[1] = c /\ m.call[2] <= n[c] /\ m.call \in executed
    BY <2>2, <2>3 DEF Real
  <2> QED
    BY <2>1, <2>2, <2>3, <2>4, ReturnKeeps
<1>3. ASSUME NEW c \in Clients, RequestTimesOut(c)
      PROVE  (Genuine /\ OwnReply)'
  <2>1. Return(c, Empty) /\ waiting[c] /\ rcvq' = rcvq /\ Empty \in Messages
    BY <1>3 DEF RequestTimesOut, Messages
  <2> QED
    BY <1>t, <2>1, ReturnKeeps DEF Genuine
<1>4. CASE ServerStart \/ \E f \in Callbacks : RegisterCb(f)
  <2>1. UNCHANGED <<n, waiting, got, executed, wire, rcvq>> /\ spc' \in {"down", "ready"}
    BY <1>4 DEF ServerStart, RegisterCb, clientVars
  <2> QED
    BY <1>t, <2>1, CarriesReal DEF Genuine
<1>5. CASE OnceFrom
  <2> DEFINE h == Head(rcvq[Server])
             m == Recvfrom(h, ReqSize)
  <2>1. /\ spc = "ready" /\ rcvq[Server] # <<>>
        /\ rcvq' = [rcvq EXCEPT ![Server] = Tail(rcvq[Server])]
        /\ UNCHANGED <<n, waiting, got, wire, executed>>
        /\ \/ UNCHANGED <<spc, job>>
           \/ m.size # 0 /\ spc' = "call" /\ job' = [m |-> m, to |-> h.src]
    BY <1>5 DEF OnceFrom, OnceReceives, clientVars
  <2>2. /\ h \in Datagrams /\ Real(h) /\ h.dst = Server
        /\ \A b \in Addrs : \A k \in DOMAIN rcvq'[b] : Real(rcvq'[b][k]) /\ rcvq'[b][k].dst = b
    BY <1>h, <1>w, <2>1
  <2>3. CASE UNCHANGED <<spc, job>>
    BY <1>t, <2>1, <2>2, <2>3, CarriesReal DEF Genuine
  <2>4. CASE m.size # 0 /\ spc' = "call" /\ job' = [m |-> m, to |-> h.src]
    <3>1. m.call = h.call
      BY <2>2, <2>4, RecvfromType DEF Empty
    <3>2. job'.m.call[2] <= n'[job'.m.call[1]] /\ job'.to = job'.m.call[1] /\ spc' # "send"
      BY <2>1, <2>2, <2>4, <3>1 DEF Real
    <3>3. Genuine'
      <4>1. \A d \in wire' : Real(d)'
        BY <1>t, <2>1 DEF Genuine, Real
      <4>2. \A a \in Addrs : \A k \in DOMAIN rcvq'[a] : Real(rcvq[a][k])' /\ rcvq'[a][k].dst = a
        BY <2>1, <2>2, SMTT(20) DEF Real
      <4>3. spc' \notin {"send"} /\ spc' = "call"
        BY <2>4
      <4> QED
        BY <1>t, <2>1, <3>2, <4>1, <4>2, <4>3 DEF Genuine
    <3> QED
      BY <1>t, <2>1, <3>3 DEF OwnReply, Answered
  <2> QED
    BY <2>1, <2>3, <2>4
<1>6. CASE OnceCalls
  <2>1. /\ spc = "call" /\ spc' = "send" /\ executed' = executed \cup {job.m.call}
        /\ UNCHANGED <<n, waiting, got, wire, rcvq, job>>
    BY <1>6 DEF OnceCalls, clientVars
  <2>2. Genuine'
    <3>1. \A d \in wire' : Real(d)'
      BY <1>t, <2>1 DEF Genuine, Real
    <3>2. \A a \in Addrs : \A k \in DOMAIN rcvq'[a] : Real(rcvq[a][k])' /\ rcvq'[a][k].dst = a
      BY <1>t, <2>1 DEF Genuine, Real
    <3> QED
      BY <1>t, <2>1, <3>1, <3>2 DEF Genuine
  <2> QED
    BY <1>t, <2>1, <2>2 DEF OwnReply, Answered
<1>7. CASE Dies /\ UNCHANGED <<clientVars, wire, executed>>
  <2>1. /\ UNCHANGED <<n, waiting, got, executed, wire>> /\ spc' \in {"down", "ready"}
        /\ rcvq' = [rcvq EXCEPT ![Server] = <<>>]
    BY <1>7 DEF Dies, clientVars
  <2>2. \A a \in Addrs : \A k \in DOMAIN rcvq'[a] : Real(rcvq'[a][k]) /\ rcvq'[a][k].dst = a
    BY <1>t, <1>w, <2>1 DEF Genuine
  <2> QED
    BY <1>t, <2>1, <2>2, CarriesReal DEF Genuine
<1>8. CASE OnceSends
  <2>1. PICK len \in RepLens :
          Send([src |-> Server, dst |-> job.to, call |-> job.m.call, len |-> len])
    BY <1>8 DEF OnceSends
  <2>2. /\ spc = "send" /\ spc' \in {"down", "ready"}
        /\ UNCHANGED <<n, waiting, got, executed, rcvq>>
    BY <1>8 DEF OnceSends, clientVars
  <2>3. job.m.call \in Calls /\ Server \notin Clients
    BY <1>t, <2>2 DEF TypeOK, Messages
  <2>4. Real([src |-> Server, dst |-> job.to, call |-> job.m.call, len |-> len])
    BY <1>t, <2>2, <2>3 DEF Genuine, Real, Calls
  <2>5. \A d \in wire' : Real(d)
    BY <1>t, <2>1, <2>4, SendFacts DEF Genuine
  <2> QED
    BY <1>t, <2>2, <2>5, CarriesReal DEF Genuine
<1>9. ASSUME NEW d \in wire, Deliver(d)
      PROVE  (Genuine /\ OwnReply)'
  <2>1. /\ wire' \subseteq wire /\ UNCHANGED <<n, waiting, got, executed, spc, job>>
        /\ d \in Datagrams /\ d.dst \in Addrs /\ Real(d)
        /\ rcvq' = rcvq \/ rcvq' = [rcvq EXCEPT ![d.dst] = Append(rcvq[d.dst], d)]
    BY <1>9, <1>t, <1>w DEF Deliver, clientVars, serverVars, Datagrams, Genuine
  <2>2. \A k \in DOMAIN Append(rcvq[d.dst], d) :
          \/ k \in DOMAIN rcvq[d.dst] /\ Append(rcvq[d.dst], d)[k] = rcvq[d.dst][k]
          \/ k = Len(rcvq[d.dst]) + 1 /\ Append(rcvq[d.dst], d)[k] = d
    BY <1>w, <2>1, AppendFacts
  <2>3. \A a \in Addrs : \A k \in DOMAIN rcvq'[a] : Real(rcvq'[a][k]) /\ rcvq'[a][k].dst = a
    <3> SUFFICES ASSUME NEW a \in Addrs, NEW k \in DOMAIN rcvq'[a]
                 PROVE  Real(rcvq'[a][k]) /\ rcvq'[a][k].dst = a
      OBVIOUS
    <3>1. CASE rcvq'[a] = rcvq[a]
      BY <1>t, <3>1 DEF Genuine
    <3>2. CASE a = d.dst /\ rcvq'[a] = Append(rcvq[d.dst], d)
      BY <1>t, <2>1, <2>2, <3>2 DEF Genuine
    <3> QED
      BY <1>w, <2>1, <3>1, <3>2
  <2> QED
    BY <1>t, <2>1, <2>3, CarriesReal DEF Genuine
<1>10. ASSUME NEW d \in wire, Lose(d)
       PROVE  (Genuine /\ OwnReply)'
  <2>1. wire' \subseteq wire /\ UNCHANGED <<n, waiting, got, executed, rcvq, spc, job>>
    BY <1>10 DEF Lose, clientVars, serverVars
  <2> QED
    BY <1>t, <2>1, CarriesReal DEF Genuine
<1>11. CASE UNCHANGED vars
  <2>1. UNCHANGED <<wire, n, waiting, got, executed, rcvq, spc, job>>
    BY <1>11 DEF vars, clientVars, serverVars
  <2> QED
    BY <1>t, <2>1, CarriesReal DEF Genuine
<1> QED
  BY <1>1, <1>2, <1>3, <1>4, <1>5, <1>6, <1>7, <1>8, <1>9, <1>10, <1>11
  DEF Next, Client, Once, OnceThrows, ServerCrash

\* OwnReply: whatever is lost, copied, reordered, late or restarted, a call
\* never returns the answer to another client's request, nor to a request that
\* was made after it, nor to one that was not executed.
THEOREM OwnReplyAlways == Spec => []OwnReply
<1>1. Init => Genuine /\ OwnReply
  BY RRAssumption DEF Init, Addrs, Genuine, OwnReply, Answered
<1>2. TypeOK /\ TypeOK' /\ (Genuine /\ OwnReply) /\ [Next]_vars => (Genuine /\ OwnReply)'
  BY LateStep DEF LateInv
<1> QED
  BY <1>1, <1>2, Typing, PTL DEF Spec

-----------------------------------------------------------------------------
(***************************************************************************)
(* Without copies, a call is at one place at most: its datagram on the     *)
(* wire, in the server's buffer, in once(), in its client's buffer, or     *)
(* returned.  OneCall says so of a client; with timeouts a client may have *)
(* many calls under way, and this is what is left of it.                   *)
(***************************************************************************)
PlacesIn(s, x) == {k \in DOMAIN s : s[k].call = x}

OnWire(x) == {d \in wire : d.call = x}
AtServer(x) == PlacesIn(rcvq[Server], x)
AtWork(x) == {j \in {job} : spc \in {"call", "send"} /\ j.m.call = x}
AtClient(x) == PlacesIn(rcvq[x[1]], x)
Returned(x) == {i \in Answered(x[1]) : got[x[1]][i].call = x}

Single(A) == \A a, b \in A : a = b

OneOf(A, B, C, D, E) ==
  /\ Single(A) /\ Single(B) /\ Single(C) /\ Single(D) /\ Single(E)
  /\ A # {} => B = {} /\ C = {} /\ D = {} /\ E = {}
  /\ B # {} => C = {} /\ D = {} /\ E = {}
  /\ C # {} => D = {} /\ E = {}
  /\ D # {} => E = {}

AtOnePlaceOnly ==
  \A x \in Calls : OneOf(OnWire(x), AtServer(x), AtWork(x), AtClient(x), Returned(x))

\* What still asks for an execution has not been executed.
NotYetExecuted ==
  /\ \A d \in wire : d.dst = Server => d.call \notin executed
  /\ \A k \in DOMAIN rcvq[Server] : rcvq[Server][k].call \notin executed
  /\ AtMostOnce
  /\ \A x \in executed : x[2] <= n[x[1]]

OnceInv == AtOnePlaceOnly /\ NotYetExecuted

\* Removing the first datagram of a buffer moves the others of a call by one.
LEMMA TailMoves ==
  ASSUME NEW s \in Seq(Datagrams), s # <<>>, NEW x, Single(PlacesIn(s, x))
  PROVE  /\ Single(PlacesIn(Tail(s), x))
         /\ PlacesIn(Tail(s), x) # {} => PlacesIn(s, x) # {}
         /\ Head(s).call = x => PlacesIn(Tail(s), x) = {} /\ PlacesIn(s, x) # {}
<1>1. /\ \A k \in PlacesIn(Tail(s), x) : k \in Nat \ {0} /\ k + 1 \in PlacesIn(s, x)
      /\ Head(s).call = x => 1 \in PlacesIn(s, x)
  BY TailFacts DEF PlacesIn
<1>2. Single(PlacesIn(Tail(s), x))
  BY <1>1 DEF Single
<1>3. Head(s).call = x => PlacesIn(Tail(s), x) = {} /\ PlacesIn(s, x) # {}
  BY <1>1 DEF Single
<1> QED
  BY <1>1, <1>2, <1>3

\* Appending a datagram to a buffer adds one place to its call, none to others.
LEMMA AppendAdds ==
  ASSUME NEW s \in Seq(Datagrams), NEW d \in Datagrams, NEW x
  PROVE  /\ d.call # x => PlacesIn(Append(s, d), x) = PlacesIn(s, x)
         /\ PlacesIn(s, x) = {} => Single(PlacesIn(Append(s, d), x))
<1>1. /\ \A k \in DOMAIN Append(s, d) :
           \/ k \in DOMAIN s /\ Append(s, d)[k] = s[k]
           \/ k = Len(s) + 1 /\ Append(s, d)[k] = d
      /\ \A k \in DOMAIN s : k \in DOMAIN Append(s, d) /\ Append(s, d)[k] = s[k]
  BY AppendFacts
<1> QED
  BY <1>1 DEF PlacesIn, Single

\* One lemma per half of OnceInv: a step per action, and per call.
LEMMA PlacesStep ==
  ASSUME ~Duplicating, LateInv, OnceInv, [Next]_vars, NEW x \in Calls
  PROVE  OneOf(OnWire(x), AtServer(x), AtWork(x), AtClient(x), Returned(x))'
<1> USE RRAssumption
<1> DEFINE W == OnWire(x)
           S == AtServer(x)
           J == AtWork(x)
           C == AtClient(x)
           G == Returned(x)
<1>t. TypeOK /\ Genuine /\ OwnReply
  BY DEF LateInv
<1>w. /\ wire \subseteq Datagrams
      /\ \A a \in Addrs : rcvq[a] \in Seq(Datagrams)
      /\ Server \in Addrs /\ Clients \subseteq Addrs
      /\ rcvq \in [Addrs -> Seq(Datagrams)]
      /\ x[1] \in Clients /\ x[1] # Server /\ x[2] \in Nat
  BY <1>t, Everywhere DEF TypeOK, Calls
<1>o. OneOf(W, S, J, C, G)
  BY DEF OnceInv, AtOnePlaceOnly
\* Nothing is added anywhere.
<1>f. ASSUME W' \subseteq W, S' \subseteq S, J' \subseteq J, C' \subseteq C, G' \subseteq G
      PROVE  OneOf(W, S, J, C, G)'
  BY <1>o, <1>f DEF OneOf, Single
<1>1. ASSUME NEW c \in Clients, Request(c)
      PROVE  OneOf(W, S, J, C, G)'
  <2>1. /\ UNCHANGED <<got, rcvq, spc, job>>
        /\ ~waiting[c] /\ n[c] \in Nat
    BY <1>1, <1>t DEF Request, serverVars, TypeOK
  <2>2. PICK d0 : wire' \subseteq wire \cup {d0} /\ d0.call = <<c, n[c] + 1>>
    <3>1. PICK len \in ReqLens :
            Send([src |-> c, dst |-> Server, call |-> <<c, n[c] + 1>>, len |-> len])
      BY <1>1 DEF Request
    <3> QED
      BY <3>1, SendFacts
  <2>3. S' = S /\ J' = J /\ C' = C /\ G' = G
    BY <2>1 DEF AtServer, AtWork, AtClient, Returned, Answered
  <2>4. CASE x = <<c, n[c] + 1>>
    <3>1. x[1] = c /\ ~(x[2] <= n[x[1]])
      BY <2>1, <2>4
    <3>2. W = {} /\ S = {} /\ C = {}
      BY <1>t, <1>w, <3>1 DEF Genuine, Real, OnWire, AtServer, AtClient, PlacesIn
    <3>3. J = {}
      BY <1>t, <3>1 DEF Genuine, AtWork
    <3>4. G = {}
      <4>1. n[c] = Len(got[c]) /\ got[c] \in Seq(Messages)
        BY <1>t, <2>1 DEF Genuine, TypeOK
      <4>2. \A i \in DOMAIN got[c] : i \in Nat /\ i <= n[c]
        BY <4>1
      <4> QED
        BY <1>t, <1>w, <2>1, <3>1, <4>2 DEF OwnReply, Returned, Answered
    <3>5. W' \subseteq {d0}
      BY <2>2, <3>2 DEF OnWire
    <3> QED
      BY <2>3, <3>2, <3>3, <3>4, <3>5 DEF OneOf, Single
  <2>5. CASE x # <<c, n[c] + 1>>
    <3>1. W' \subseteq W
      BY <2>2, <2>5 DEF OnWire
    <3> QED
      BY <1>f, <2>3, <3>1
  <2> QED
    BY <2>4, <2>5
<1>2. ASSUME NEW c \in Clients, RequestReturns(c)
      PROVE  OneOf(W, S, J, C, G)'
  <2> DEFINE h == Head(rcvq[c])
             m == Recvfrom(h, RepSize)
  <2>1. /\ rcvq[c] # <<>> /\ rcvq[c] \in Seq(Datagrams) /\ c # Server
        /\ rcvq' = [rcvq EXCEPT ![c] = Tail(rcvq[c])]
        /\ got' = [got EXCEPT ![c] = Append(got[c], m)]
        /\ UNCHANGED <<wire, spc, job>>
    BY <1>2, <1>w DEF RequestReturns, Return, serverVars
  <2>2. /\ h \in Datagrams /\ h.call[1] = c
        /\ m \in Messages /\ (m # Empty => m.call = h.call)
    <3>1. h \in Datagrams /\ h = rcvq[c][1] /\ 1 \in DOMAIN rcvq[c]
      BY <2>1, TailFacts
    <3>2. h.dst = c /\ Real(h)
      BY <1>t, <1>w, <3>1 DEF Genuine
    <3> QED
      BY <2>1, <3>1, <3>2, RecvfromType DEF Real
  <2>3. W' = W /\ S' = S /\ J' = J
    BY <1>w, <2>1 DEF OnWire, AtServer, AtWork
  <2>4. /\ got \in [Clients -> Seq(Messages)] /\ got[c] \in Seq(Messages)
        /\ \A k \in DOMAIN Append(got[c], m) :
             \/ k \in DOMAIN got[c] /\ Append(got[c], m)[k] = got[c][k]
             \/ k = Len(got[c]) + 1 /\ Append(got[c], m)[k] = m
    BY <1>t, <2>2, AppendFacts DEF TypeOK
  <2>5. CASE h.call = x
    <3>1. x[1] = c /\ C' = {} /\ C # {}
      <4>1. x[1] = c /\ Single(C)
        BY <1>o, <2>2, <2>5 DEF OneOf
      <4> QED
        BY <1>w, <2>1, <2>5, <4>1, TailMoves DEF AtClient
    <3>2. W = {} /\ S = {} /\ J = {} /\ G = {}
      BY <1>o, <3>1 DEF OneOf
    <3>3. G' \subseteq {Len(got[c]) + 1}
      BY <2>1, <2>4, <3>1, <3>2 DEF Returned, Answered
    <3> QED
      BY <2>3, <3>1, <3>2, <3>3 DEF OneOf, Single
  <2>6. CASE h.call # x
    <3>1. G' \subseteq G
      BY <1>w, <2>1, <2>2, <2>4, <2>6, SMTT(20) DEF Returned, Answered
    <3>2. Single(C') /\ (C' # {} => C # {})
      <4>1. Single(C)
        BY <1>o DEF OneOf
      <4>2. CASE x[1] = c
        BY <1>w, <2>1, <4>1, <4>2, TailMoves DEF AtClient
      <4>3. CASE x[1] # c
        <5>1. C' = C
          BY <1>w, <2>1, <4>3 DEF AtClient
        <5> QED
          BY <4>1, <5>1
      <4> QED
        BY <4>2, <4>3
    <3> QED
      BY <1>o, <2>3, <3>1, <3>2 DEF OneOf, Single
  <2> QED
    BY <2>5, <2>6
<1>3. ASSUME NEW c \in Clients, RequestTimesOut(c)
      PROVE  OneOf(W, S, J, C, G)'
  <2>1. /\ UNCHANGED <<wire, rcvq, spc, job>> /\ got[c] \in Seq(Messages)
        /\ got \in [Clients -> Seq(Messages)] /\ Empty \in Messages
        /\ got' = [got EXCEPT ![c] = Append(got[c], Empty)]
    BY <1>3, <1>t DEF RequestTimesOut, Return, serverVars, TypeOK, Messages
  <2>2. W' = W /\ S' = S /\ J' = J /\ C' = C
    BY <2>1 DEF OnWire, AtServer, AtWork, AtClient
  <2>3. G' \subseteq G
    <3>1. \A k \in DOMAIN Append(got[c], Empty) :
            \/ k \in DOMAIN got[c] /\ Append(got[c], Empty)[k] = got[c][k]
            \/ k = Len(got[c]) + 1 /\ Append(got[c], Empty)[k] = Empty
      BY <2>1, AppendFacts
    <3> QED
      BY <1>w, <2>1, <3>1 DEF Returned, Answered
  <2> QED
    BY <1>f, <2>2, <2>3
<1>4. CASE ServerStart \/ \E f \in Callbacks : RegisterCb(f)
  <2>1. UNCHANGED <<got, wire, rcvq>> /\ spc' = "ready"
    BY <1>4 DEF ServerStart, RegisterCb, clientVars
  <2>2. W' = W /\ S' = S /\ J' = {} /\ C' = C /\ G' = G
    BY <2>1 DEF OnWire, AtServer, AtWork, AtClient, Returned, Answered
  <2> QED
    BY <1>f, <2>2
<1>5. CASE OnceFrom
  <2> DEFINE h == Head(rcvq[Server])
             m == Recvfrom(h, ReqSize)
  <2>1. /\ rcvq[Server] # <<>> /\ rcvq[Server] \in Seq(Datagrams) /\ h \in Datagrams
        /\ rcvq' = [rcvq EXCEPT ![Server] = Tail(rcvq[Server])]
        /\ spc = "ready"
        /\ UNCHANGED <<got, wire>>
        /\ \/ UNCHANGED <<spc, job>>
           \/ m.size # 0 /\ spc' = "call" /\ job' = [m |-> m, to |-> h.src]
    BY <1>5, <1>w, TailFacts DEF OnceFrom, OnceReceives, clientVars
  <2>2. W' = W /\ C' = C /\ G' = G /\ J = {}
    BY <1>w, <2>1 DEF OnWire, AtWork, AtClient, Returned, Answered
  <2>3. Single(J') /\ (J' # {} => h.call = x)
    <3>1. m.size # 0 => m.call = h.call
      BY <2>1, RecvfromType DEF Empty
    <3> QED
      BY <2>1, <3>1 DEF AtWork, Single
  <2>4. Single(S)
    BY <1>o DEF OneOf
  <2>5. CASE h.call = x
    <3>1. S' = {} /\ S # {}
      BY <1>w, <2>1, <2>4, <2>5, TailMoves DEF AtServer
    <3> QED
      BY <1>o, <2>2, <2>3, <3>1 DEF OneOf, Single
  <2>6. CASE h.call # x
    <3>1. Single(S') /\ (S' # {} => S # {})
      BY <1>w, <2>1, <2>4, TailMoves DEF AtServer
    <3> QED
      BY <1>o, <2>2, <2>3, <2>6, <3>1 DEF OneOf, Single
  <2> QED
    BY <2>5, <2>6
<1>6. CASE OnceCalls
  <2>1. UNCHANGED <<got, wire, rcvq, job>> /\ spc = "call" /\ spc' = "send"
    BY <1>6 DEF OnceCalls, clientVars
  <2>2. W' = W /\ S' = S /\ J' = J /\ C' = C /\ G' = G
    BY <2>1 DEF OnWire, AtServer, AtWork, AtClient, Returned, Answered
  <2> QED
    BY <1>f, <2>2
<1>7. CASE Dies /\ UNCHANGED <<clientVars, wire, executed>>
  <2>1. UNCHANGED <<got, wire>> /\ spc' = "down" /\ rcvq' = [rcvq EXCEPT ![Server] = <<>>]
    BY <1>7 DEF Dies, clientVars
  <2>2. W' = W /\ S' = {} /\ J' = {} /\ C' = C /\ G' = G
    BY <1>w, <2>1 DEF OnWire, AtServer, AtWork, AtClient, Returned, Answered, PlacesIn
  <2> QED
    BY <1>f, <2>2
<1>8. CASE OnceSends
  <2>1. UNCHANGED <<got, rcvq>> /\ spc = "send" /\ spc' = "ready"
    BY <1>8 DEF OnceSends, clientVars
  <2>2. PICK d0 : wire' \subseteq wire \cup {d0} /\ d0.call = job.m.call
    <3>1. PICK len \in RepLens :
            Send([src |-> Server, dst |-> job.to, call |-> job.m.call, len |-> len])
      BY <1>8 DEF OnceSends
    <3> QED
      BY <3>1, SendFacts
  <2>3. S' = S /\ J' = {} /\ C' = C /\ G' = G
    BY <2>1 DEF AtServer, AtWork, AtClient, Returned, Answered
  <2>4. CASE job.m.call = x
    <3>1. J # {}
      BY <2>1, <2>4 DEF AtWork
    <3>2. W = {} /\ S = {} /\ C = {} /\ G = {}
      BY <1>o, <3>1 DEF OneOf
    <3>3. W' \subseteq {d0}
      BY <2>2, <3>2 DEF OnWire
    <3> QED
      BY <2>3, <3>2, <3>3 DEF OneOf, Single
  <2>5. CASE job.m.call # x
    <3>1. W' \subseteq W
      BY <2>2, <2>5 DEF OnWire
    <3> QED
      BY <1>f, <2>3, <3>1
  <2> QED
    BY <2>4, <2>5
<1>9. ASSUME NEW d \in wire, Deliver(d)
      PROVE  OneOf(W, S, J, C, G)'
  <2>1. /\ wire' = wire \ {d} /\ UNCHANGED <<got, spc, job>>
        /\ d \in Datagrams /\ d.dst \in Addrs /\ rcvq[d.dst] \in Seq(Datagrams)
        /\ d.dst = Server \/ d.dst = d.call[1]
        /\ rcvq' = rcvq \/ rcvq' = [rcvq EXCEPT ![d.dst] = Append(rcvq[d.dst], d)]
    BY <1>9, <1>t, <1>w DEF Deliver, clientVars, serverVars, Datagrams, Genuine, Real
  <2>2. J' = J /\ G' = G /\ W' \subseteq W
    BY <2>1 DEF OnWire, AtWork, Returned, Answered
  <2>3. /\ d.call # x => S' = S /\ C' = C
        /\ S = {} => Single(S')
        /\ C = {} => Single(C')
        /\ d.dst = Server => C' = C
        /\ d.dst # Server => S' = S
    <3>1. ASSUME NEW a \in Addrs
          PROVE  /\ d.call # x => PlacesIn(rcvq'[a], x) = PlacesIn(rcvq[a], x)
                 /\ PlacesIn(rcvq[a], x) = {} => Single(PlacesIn(rcvq'[a], x))
                 /\ d.dst # a => rcvq'[a] = rcvq[a]
      <4>1. CASE rcvq'[a] = rcvq[a]
        BY <4>1 DEF Single
      <4>2. CASE a = d.dst /\ rcvq'[a] = Append(rcvq[a], d)
        BY <1>w, <2>1, <4>2, AppendAdds
      <4> QED
        BY <1>w, <2>1, <4>1, <4>2
    <3> QED
      BY <1>w, <3>1 DEF AtServer, AtClient
  <2>4. CASE d.call = x
    <3>1. W # {} /\ W' = {}
      BY <1>o, <2>1, <2>4 DEF OnWire, OneOf, Single
    <3>2. S = {} /\ J = {} /\ C = {} /\ G = {}
      BY <1>o, <3>1 DEF OneOf
    <3> QED
      BY <2>2, <2>3, <3>1, <3>2 DEF OneOf, Single
  <2>5. CASE d.call # x
    BY <1>f, <2>2, <2>3, <2>5
  <2> QED
    BY <2>4, <2>5
<1>10. ASSUME NEW d \in wire, Lose(d)
       PROVE  OneOf(W, S, J, C, G)'
  <2>1. UNCHANGED <<got, rcvq, spc, job>> /\ wire' \subseteq wire
    BY <1>10 DEF Lose, clientVars, serverVars
  <2>2. W' \subseteq W /\ S' = S /\ J' = J /\ C' = C /\ G' = G
    BY <2>1 DEF OnWire, AtServer, AtWork, AtClient, Returned, Answered
  <2> QED
    BY <1>f, <2>2
<1>11. CASE UNCHANGED vars
  <2>1. UNCHANGED <<got, wire, rcvq, spc, job>>
    BY <1>11 DEF vars, clientVars, serverVars
  <2>2. W' = W /\ S' = S /\ J' = J /\ C' = C /\ G' = G
    BY <2>1 DEF OnWire, AtServer, AtWork, AtClient, Returned, Answered
  <2> QED
    BY <1>f, <2>2
<1> QED
  BY <1>1, <1>2, <1>3, <1>4, <1>5, <1>6, <1>7, <1>8, <1>9, <1>10, <1>11
  DEF Next, Client, Once, OnceThrows, ServerCrash

LEMMA ExecutedStep ==
  ASSUME LateInv, OnceInv, [Next]_vars
  PROVE  NotYetExecuted'
<1> USE RRAssumption
<1>t. TypeOK /\ Genuine /\ OwnReply /\ NotYetExecuted
  BY DEF LateInv, OnceInv
<1>w. /\ wire \subseteq Datagrams
      /\ \A a \in Addrs : rcvq[a] \in Seq(Datagrams)
      /\ Server \in Addrs /\ Clients \subseteq Addrs /\ Server \notin Clients
      /\ rcvq \in [Addrs -> Seq(Datagrams)]
      /\ n \in [Clients -> Nat]
  BY <1>t, Everywhere DEF TypeOK
\* No more is executed, and what is new on the wire or in the buffer of the
\* server is no request, or none that was executed.
<1>k. ASSUME UNCHANGED <<n, executed>>,
             \A d \in wire' \ wire : d.dst # Server \/ d.call \notin executed,
             \A k \in DOMAIN rcvq'[Server] : rcvq'[Server][k].call \notin executed,
             spc' = "call" => job'.m.call \notin executed
      PROVE  NotYetExecuted'
  BY <1>t, <1>k DEF NotYetExecuted, AtMostOnce
<1>h. ASSUME rcvq[Server] # <<>>
      PROVE  /\ Head(rcvq[Server]) \in Datagrams /\ Head(rcvq[Server]).call \notin executed
             /\ \A k \in DOMAIN Tail(rcvq[Server]) : Tail(rcvq[Server])[k].call \notin executed
  <2>1. /\ Head(rcvq[Server]) \in Datagrams /\ Head(rcvq[Server]) = rcvq[Server][1]
        /\ 1 \in DOMAIN rcvq[Server]
        /\ \A k \in DOMAIN Tail(rcvq[Server]) :
             k + 1 \in DOMAIN rcvq[Server] /\ Tail(rcvq[Server])[k] = rcvq[Server][k + 1]
    BY <1>h, <1>w, TailFacts
  <2> QED
    BY <1>t, <2>1 DEF NotYetExecuted
<1>1. ASSUME NEW c \in Clients, Request(c)
      PROVE  NotYetExecuted'
  <2>1. PICK d0 : wire' \subseteq wire \cup {d0} /\ d0.call = <<c, n[c] + 1>>
    <3>1. PICK len \in ReqLens :
            Send([src |-> c, dst |-> Server, call |-> <<c, n[c] + 1>>, len |-> len])
      BY <1>1 DEF Request
    <3> QED
      BY <3>1, SendFacts
  <2>2. UNCHANGED <<executed, rcvq, spc, job>> /\ n' = [n EXCEPT ![c] = n[c] + 1]
    BY <1>1 DEF Request, serverVars
  <2>3. \A x \in executed : x[1] \in Clients /\ x[2] \in Nat
    BY <1>t DEF TypeOK, Calls
  <2>4. <<c, n[c] + 1>> \notin executed
    BY <1>t, <1>w DEF NotYetExecuted
  <2>5. \A x \in executed' : x[2] <= n'[x[1]]
    BY <1>t, <1>w, <2>2, <2>3 DEF NotYetExecuted
  <2> QED
    BY <1>t, <2>1, <2>2, <2>4, <2>5 DEF NotYetExecuted, AtMostOnce
<1>2. ASSUME NEW c \in Clients, RequestReturns(c)
      PROVE  NotYetExecuted'
  <2>1. UNCHANGED <<n, executed, wire, spc, job>> /\ rcvq'[Server] = rcvq[Server]
    BY <1>2, <1>w DEF RequestReturns, Return, serverVars
  <2> QED
    BY <1>k, <1>t, <2>1 DEF NotYetExecuted, AtMostOnce
<1>3. CASE \/ ServerStart \/ \E f \in Callbacks : RegisterCb(f)
           \/ \E c \in Clients : RequestTimesOut(c)
           \/ UNCHANGED vars
  <2>1. /\ UNCHANGED <<n, executed, wire, rcvq>>
        /\ UNCHANGED <<spc, job>> \/ spc' = "ready"
    BY <1>3 DEF ServerStart, RegisterCb, RequestTimesOut, Return, clientVars, serverVars, vars
  <2> QED
    BY <1>k, <1>t, <2>1 DEF NotYetExecuted, AtMostOnce
<1>4. CASE OnceFrom
  <2> DEFINE h == Head(rcvq[Server])
             m == Recvfrom(h, ReqSize)
  <2>1. /\ rcvq[Server] # <<>> /\ rcvq'[Server] = Tail(rcvq[Server])
        /\ UNCHANGED <<n, executed, wire>> /\ spc = "ready"
        /\ \/ UNCHANGED <<spc, job>>
           \/ m.size # 0 /\ spc' = "call" /\ job' = [m |-> m, to |-> h.src]
    BY <1>4, <1>w DEF OnceFrom, OnceReceives, clientVars
  <2>2. m.size # 0 => m.call = h.call
    BY <1>h, <2>1, RecvfromType DEF Empty
  <2>3. spc' = "call" => job'.m.call \notin executed
    BY <1>h, <2>1, <2>2
  <2> QED
    BY <1>h, <1>k, <2>1, <2>3
\* A call that is in once() is nowhere else.
<1>5. CASE OnceCalls
  <2> DEFINE x == job.m.call
  <2>1. /\ UNCHANGED <<n, wire, rcvq, job>> /\ spc = "call" /\ spc' = "send"
        /\ executed' = executed \cup {x}
    BY <1>5 DEF OnceCalls, clientVars
  <2>2. x \in Calls /\ AtWork(x) # {}
    BY <1>t, <2>1 DEF TypeOK, Messages, AtWork
  <2>3. OnWire(x) = {} /\ AtServer(x) = {}
    BY <2>2 DEF OnceInv, AtOnePlaceOnly, OneOf
  <2>4. /\ \A d \in wire : d.call # x
        /\ \A k \in DOMAIN rcvq[Server] : rcvq[Server][k].call # x
    BY <2>3 DEF OnWire, AtServer, PlacesIn
  <2>5. x[2] <= n[x[1]]
    BY <1>t, <2>1 DEF Genuine
  <2> QED
    BY <1>t, <2>1, <2>4, <2>5 DEF NotYetExecuted, AtMostOnce
<1>6. CASE Dies /\ UNCHANGED <<clientVars, wire, executed>>
  <2>1. UNCHANGED <<n, wire, executed>> /\ spc' = "down" /\ rcvq'[Server] = <<>>
    BY <1>6, <1>w DEF Dies, clientVars
  <2> QED
    BY <1>k, <2>1
<1>7. CASE OnceSends
  <2>1. PICK d0 : wire' \subseteq wire \cup {d0} /\ d0.dst = job.to
    <3>1. PICK len \in RepLens :
            Send([src |-> Server, dst |-> job.to, call |-> job.m.call, len |-> len])
      BY <1>7 DEF OnceSends
    <3> QED
      BY <3>1, SendFacts
  <2>2. UNCHANGED <<n, executed, rcvq>> /\ spc = "send" /\ spc' = "ready"
    BY <1>7 DEF OnceSends, clientVars
  <2>3. job.to # Server
    BY <1>t, <1>w, <2>2 DEF Genuine, TypeOK, Messages, Calls
  <2> QED
    BY <1>k, <1>t, <2>1, <2>2, <2>3 DEF NotYetExecuted
<1>8. ASSUME NEW d \in wire, Deliver(d)
      PROVE  NotYetExecuted'
  <2>1. /\ wire' \subseteq wire /\ UNCHANGED <<n, executed, spc, job>> /\ d \in Datagrams
        /\ \/ rcvq'[Server] = rcvq[Server]
           \/ d.dst = Server /\ rcvq'[Server] = Append(rcvq[Server], d)
    BY <1>8, <1>w DEF Deliver, clientVars, serverVars, Datagrams
  <2>2. \A k \in DOMAIN Append(rcvq[Server], d) :
          \/ k \in DOMAIN rcvq[Server] /\ Append(rcvq[Server], d)[k] = rcvq[Server][k]
          \/ k = Len(rcvq[Server]) + 1 /\ Append(rcvq[Server], d)[k] = d
    BY <1>w, <2>1, AppendFacts
  <2>3. \A k \in DOMAIN rcvq'[Server] : rcvq'[Server][k].call \notin executed
    BY <1>t, <2>1, <2>2 DEF NotYetExecuted
  <2> QED
    BY <1>k, <1>t, <2>1, <2>3 DEF NotYetExecuted, AtMostOnce
<1>9. ASSUME NEW d \in wire, Lose(d)
      PROVE  NotYetExecuted'
  <2>1. wire' \subseteq wire /\ UNCHANGED <<n, executed, rcvq, spc, job>>
    BY <1>9 DEF Lose, clientVars, serverVars
  <2> QED
    BY <1>k, <1>t, <2>1 DEF NotYetExecuted, AtMostOnce
<1> QED
  BY <1>1, <1>2, <1>3, <1>4, <1>5, <1>6, <1>7, <1>8, <1>9
  DEF Next, Client, Once, OnceThrows, ServerCrash

LEMMA OnceAlways ==
  ASSUME ~Duplicating
  PROVE  Spec => [](LateInv /\ OnceInv)
<1>1. Init => LateInv /\ OnceInv
  <2> SUFFICES ASSUME Init
               PROVE  LateInv /\ OnceInv
    OBVIOUS
  <2>1. TypeOK
    BY RRAssumption DEF Init, TypeOK, Addrs
  <2>2. Genuine /\ OwnReply /\ NotYetExecuted
    BY RRAssumption DEF Init, Addrs, Genuine, OwnReply, Answered, NotYetExecuted, AtMostOnce
  <2>3. AtOnePlaceOnly
    BY RRAssumption DEF Init, Addrs, AtOnePlaceOnly, OneOf, Single, OnWire, AtServer,
      AtWork, AtClient, Returned, Answered, PlacesIn, Calls
  <2> QED
    BY <2>1, <2>2, <2>3 DEF LateInv, OnceInv
<1>2. LateInv /\ OnceInv /\ [Next]_vars => (LateInv /\ OnceInv)'
  <2> SUFFICES ASSUME LateInv, OnceInv, [Next]_vars
               PROVE  (LateInv /\ OnceInv)'
    OBVIOUS
  <2>1. TypeOK'
    BY TypingStep DEF LateInv
  <2>2. AtOnePlaceOnly'
    BY PlacesStep DEF AtOnePlaceOnly
  <2> QED
    BY <2>1, <2>2, LateStep, ExecutedStep DEF LateInv, OnceInv
<1> QED
  BY <1>1, <1>2, PTL DEF Spec

\* AtMostOnce: without copies no callback runs twice on one call, for any number
\* of clients that time out and call again, and of crashes of the server.
THEOREM AtMostOnceAlways ==
  ASSUME ~Duplicating
  PROVE  Spec => []AtMostOnce
<1>1. OnceInv => AtMostOnce
  BY DEF OnceInv, NotYetExecuted
<1> QED
  BY <1>1, OnceAlways, PTL

\* NoReplyTwice: without copies no two calls return the same answer, however late
\* it comes.
THEOREM NoReplyTwiceAlways ==
  ASSUME ~Duplicating
  PROVE  Spec => []NoReplyTwice
<1>1. LateInv /\ OnceInv => NoReplyTwice
  <2> SUFFICES ASSUME LateInv, OnceInv, NEW c \in Clients,
                      NEW i \in Answered(c), NEW j \in Answered(c),
                      got[c][i].call = got[c][j].call
               PROVE  i = j
    BY DEF NoReplyTwice
  <2> DEFINE x == got[c][i].call
  <2>1. got[c] \in Seq(Messages)
    BY DEF LateInv, TypeOK
  <2>2. x \in Calls /\ x[1] = c
    BY <2>1 DEF LateInv, OwnReply, Answered, Messages
  <2>3. i \in Returned(x) /\ j \in Returned(x)
    BY <2>2 DEF Returned
  <2> QED
    BY <2>2, <2>3 DEF OnceInv, AtOnePlaceOnly, OneOf, Single
<1> QED
  BY <1>1, OnceAlways, PTL

-----------------------------------------------------------------------------
(* RequestReply implements LateRpc, when the network makes no copies *)

EndFor(m) == IF m = Empty THEN <<>> ELSE m.call

\* recv() of request() ends, and the call with it.
LEMMA CallEnds ==
  ASSUME LateInv, NEW c \in Clients, NEW m \in Messages, Return(c, m), waiting[c]
  PROVE  Late!EndsWith(c, EndFor(m)) /\ UNCHANGED <<n, executed>>
<1>1. /\ got' = [got EXCEPT ![c] = Append(got[c], m)] /\ UNCHANGED <<n, executed>>
      /\ got \in [Clients -> Seq(Messages)] /\ got[c] \in Seq(Messages)
      /\ n[c] = Len(got[c]) + 1
  BY DEF Return, serverVars, LateInv, TypeOK, Genuine
<1>2. /\ got'[c] = Append(got[c], m)
      /\ \A b \in Clients \ {c} : got'[b] = got[b]
  BY <1>1
<1>3. [i \in DOMAIN got'[c] |-> EndFor(got'[c][i])]
        = Append([i \in DOMAIN got[c] |-> EndFor(got[c][i])], EndFor(m))
  BY <1>1, <1>2
<1>4. Ends = [b \in Clients |-> [i \in DOMAIN got[b] |-> EndFor(got[b][i])]]
  BY DEF Ends, EndFor
<1>5. Ends' = [b \in Clients |-> [i \in DOMAIN got'[b] |-> EndFor(got'[b][i])]]
  BY DEF Ends, EndFor
<1>6. Ends' = [Ends EXCEPT ![c] = Append(Ends[c], EndFor(m))]
  BY <1>2, <1>3, <1>4, <1>5
<1>7. n[c] = Len(Ends[c]) + 1
  BY <1>1, <1>4
<1> QED
  BY <1>1, <1>6, <1>7 DEF Late!EndsWith, Late!Outstanding

\* The answer a call returns is one nobody had, for it was in the buffer.
LEMMA LateReturns ==
  ASSUME LateInv, OnceInv, NEW c \in Clients, RequestReturns(c)
  PROVE  Late!Next
<1> USE RRAssumption
<1> DEFINE h == Head(rcvq[c])
           m == Recvfrom(h, RepSize)
<1>t. TypeOK /\ Genuine
  BY DEF LateInv
<1>1. /\ rcvq[c] # <<>> /\ waiting[c] /\ Return(c, m)
      /\ rcvq[c] \in Seq(Datagrams) /\ c \in Addrs /\ c # Server
  BY <1>t DEF RequestReturns, TypeOK, Addrs
<1>2. h \in Datagrams /\ h = rcvq[c][1] /\ 1 \in DOMAIN rcvq[c]
  BY <1>1, TailFacts
<1>3. Real(h) /\ h.dst = c /\ m \in Messages /\ (m # Empty => m.call = h.call)
  BY <1>1, <1>2, <1>t, RecvfromType DEF Genuine
<1>4. Late!EndsWith(c, EndFor(m)) /\ UNCHANGED <<n, executed>>
  BY <1>1, <1>3, CallEnds
<1>5. CASE m = Empty
  <2>1. Late!GiveUp(c)
    BY <1>4, <1>5 DEF EndFor, Late!GiveUp, Late!Nothing
  <2> QED
    BY <2>1 DEF Late!Next
<1>6. CASE m # Empty
  <2> DEFINE k == h.call[2]
  <2>1. /\ h.call \in Calls /\ h.call = <<c, k>> /\ k \in Nat \ {0} /\ k <= n[c]
        /\ <<c, k>> \in executed
    <3> HIDE DEF h, m
    <3>0. h.call \in Calls
      BY ONLY <1>2 DEF Datagrams
    <3>1. h.call \in Calls /\ h.call[1] = c /\ h.call[2] <= n[c] /\ h.call \in executed
      BY <1>1, <1>3, <3>0 DEF Real
    <3>2. h.call = <<c, h.call[2]>> /\ h.call[2] \in Nat \ {0}
      BY <3>1 DEF Calls
    <3> QED
      BY <3>1, <3>2
  <2>2. Returned(<<c, k>>) = {}
    <3>1. 1 \in PlacesIn(rcvq[c], <<c, k>>)
      BY <1>2, <2>1 DEF PlacesIn
    <3>2. AtClient(<<c, k>>) # {}
      BY <3>1 DEF AtClient
    <3> QED
      BY <2>1, <3>2 DEF OnceInv, AtOnePlaceOnly, OneOf
  <2>3. \A i \in DOMAIN Ends[c] : Ends[c][i] # <<c, k>>
    <3> SUFFICES ASSUME NEW i \in DOMAIN Ends[c], Ends[c][i] = <<c, k>>
                 PROVE  FALSE
      OBVIOUS
    <3>1. i \in DOMAIN got[c] /\ (got[c][i] # Empty => got[c][i].call = <<c, k>>)
      BY DEF Ends
    <3>2. got[c][i] # Empty
      BY <3>1 DEF Ends
    <3> QED
      BY <2>2, <3>1, <3>2 DEF Returned, Answered
  <2>4. k \in 1..n[c]
    BY <2>1, <1>t DEF TypeOK
  <2>5. EndFor(m) = <<c, k>>
    BY <1>3, <1>6, <2>1 DEF EndFor
  <2> HIDE DEF k, m
  <2>6. Late!Answer(c, k)
    BY <1>4, <2>1, <2>3, <2>4, <2>5 DEF Late!Answer
  <2> QED
    BY <2>4, <2>6 DEF Late!Next
<1> QED
  BY <1>5, <1>6

\* Every step of the system is a step of LateRpc or none.
LEMMA LateRpcStep ==
  ASSUME LateInv, OnceInv, [Next]_vars
  PROVE  [Late!Next]_(Late!vars)
<1>t. TypeOK /\ Genuine
  BY DEF LateInv
<1>1. ASSUME UNCHANGED <<n, got, executed>>
      PROVE  UNCHANGED Late!vars
  BY <1>1 DEF Late!vars, Ends
<1>2. ASSUME NEW c \in Clients, Request(c)
      PROVE  Late!Next
  <2>1. n[c] = Len(got[c]) /\ got[c] \in Seq(Messages) /\ ~waiting[c]
    BY <1>2, <1>t DEF Request, Genuine, TypeOK
  <2>2. n[c] = Len(Ends[c])
    BY <2>1 DEF Ends
  <2>3. n' = [n EXCEPT ![c] = @ + 1] /\ UNCHANGED <<got, executed>>
    BY <1>2 DEF Request, serverVars
  <2>4. Late!Ask(c)
    BY <2>2, <2>3 DEF Late!Ask, Ends
  <2> QED
    BY <2>4 DEF Late!Next
<1>3. ASSUME NEW c \in Clients, RequestReturns(c)
      PROVE  Late!Next
  BY <1>3, LateReturns
<1>4. ASSUME NEW c \in Clients, RequestTimesOut(c)
      PROVE  Late!Next
  <2>1. Return(c, Empty) /\ waiting[c] /\ Empty \in Messages
    BY <1>4 DEF RequestTimesOut, Messages
  <2>2. Late!GiveUp(c)
    BY <2>1, CallEnds DEF EndFor, Late!GiveUp, Late!Nothing
  <2> QED
    BY <2>2 DEF Late!Next
<1>5. CASE OnceCalls
  <2>1. job.m.call \in Calls /\ job.m.call \notin executed
        /\ job.m.call[2] <= n[job.m.call[1]]
    BY <1>5, <1>t DEF OnceCalls, TypeOK, Messages, Genuine, OnceInv, NotYetExecuted, AtMostOnce
  <2>2. PICK c \in Clients, k \in Nat \ {0} : job.m.call = <<c, k>>
    BY <2>1 DEF Calls
  <2>3. k \in 1..n[c]
    BY <2>1, <2>2, <1>t DEF TypeOK
  <2>4. executed' = executed \cup {<<c, k>>} /\ UNCHANGED <<n, got>>
    BY <1>5, <2>2 DEF OnceCalls, clientVars
  <2>5. Late!Execute(c, k)
    BY <2>1, <2>2, <2>3, <2>4 DEF Late!Execute, Ends
  <2> QED
    BY <2>3, <2>5 DEF Late!Next
<1>6. ASSUME \/ ServerStart \/ \E f \in Callbacks : RegisterCb(f)
             \/ OnceFrom \/ OnceThrows \/ OnceSends
             \/ ServerCrash
             \/ \E d \in wire : Deliver(d) \/ Lose(d)
      PROVE  UNCHANGED <<n, got, executed>>
  BY <1>6
  DEF ServerStart, RegisterCb, OnceFrom, OnceReceives, OnceThrows, OnceSends,
      ServerCrash, Deliver, Lose, clientVars, serverVars
<1>7. CASE UNCHANGED vars
  BY <1>1, <1>7 DEF vars, clientVars, serverVars
<1> QED
  BY <1>1, <1>2, <1>3, <1>4, <1>5, <1>6, <1>7 DEF Next, Client, Once

\* ImplementsLateRpc: without copies the system implements LateRpc, with any
\* timeouts, losses, late answers and crashes: a call ends with nothing or with
\* an answer that no other call returned, to itself or to an earlier one, which
\* the callback has run on.
THEOREM ImplementsLateRpc ==
  ASSUME ~Duplicating
  PROVE  Spec => RefinesLateRpc
<1>1. Init => Late!Init
  BY DEF Init, Late!Init, Ends
<1>2. (LateInv /\ OnceInv) /\ [Next]_vars => [Late!Next]_(Late!vars)
  BY LateRpcStep
<1> QED
  BY <1>1, <1>2, OnceAlways, PTL DEF Spec, RefinesLateRpc, Late!Spec

=============================================================================
