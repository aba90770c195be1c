------------------------- MODULE RequestReplyProofs -------------------------
(***************************************************************************)
(* What holds of RequestReply for every number of clients, every message   *)
(* length, every buffer size and every bound: the typing invariant, and    *)
(* CallMatch as long as no client uses a timeout and the network makes no  *)
(* copies.                                                                 *)
(***************************************************************************)
EXTENDS RequestReply, TLAPS

\* What the proofs use of sequences: Tail and Append, element by element.
LEMMA TailFacts ==
  ASSUME NEW S, NEW s \in Seq(S), s # <<>>
  PROVE  /\ Head(s) \in S
         /\ Head(s) = s[1]
         /\ 1 \in DOMAIN s
         /\ Tail(s) \in Seq(S)
         /\ \A k \in DOMAIN Tail(s) : k + 1 \in DOMAIN s /\ Tail(s)[k] = s[k + 1]
  OBVIOUS

LEMMA AppendFacts ==
  ASSUME NEW S, NEW s \in Seq(S), NEW e \in S
  PROVE  /\ Append(s, e) \in Seq(S)
         /\ Len(Append(s, e)) = Len(s) + 1
         /\ \A k \in DOMAIN Append(s, e) :
              \/ k \in DOMAIN s /\ Append(s, e)[k] = s[k]
              \/ k = Len(s) + 1 /\ Append(s, e)[k] = e
  OBVIOUS

-----------------------------------------------------------------------------
(* Typing *)

\* recvfrom() and recv() return an empty message or one of msg_size bytes.
LEMMA RecvfromType ==
  ASSUME NEW d \in Datagrams, NEW size \in Nat \ {0}
  PROVE  /\ Recvfrom(d, size) \in Messages
         /\ Recvfrom(d, size) # Empty => /\ Recvfrom(d, size).size = size
                                         /\ Recvfrom(d, size).call = d.call
                                         /\ Recvfrom(d, size).call \in Calls
  BY DEF Recvfrom, Datagrams, Messages, Empty

\* Send puts at most its argument on the wire.
LEMMA SendFacts ==
  ASSUME NEW d, Send(d)
  PROVE  wire' \subseteq wire \cup {d}
  BY DEF Send

LEMMA TypingStep == TypeOK /\ [Next]_vars => TypeOK'
<1> SUFFICES ASSUME TypeOK, [Next]_vars
             PROVE  TypeOK'
  OBVIOUS
<1> USE RRAssumption
<1>1. ASSUME NEW c \in Clients, Request(c)
      PROVE  TypeOK'
  <2>1. PICK len \in ReqLens :
          Send([src |-> c, dst |-> Server, call |-> <<c, n[c] + 1>>, len |-> len])
    BY <1>1 DEF Request
  <2>2. [src |-> c, dst |-> Server, call |-> <<c, n[c] + 1>>, len |-> len] \in Datagrams
    BY DEF TypeOK, Datagrams, Addrs, Calls
  <2>3. wire' \subseteq Datagrams
    BY <2>1, <2>2, SendFacts DEF TypeOK
  <2> QED
    BY <1>1, <2>3 DEF Request, TypeOK, serverVars
<1>2. ASSUME NEW c \in Clients, NEW m \in Messages, Return(c, m), rcvq' \in [Addrs -> Seq(Datagrams)]
      PROVE  TypeOK'
  BY <1>2 DEF Return, TypeOK, serverVars
<1>3. ASSUME NEW c \in Clients, RequestReturns(c)
      PROVE  TypeOK'
  <2>1. /\ rcvq[c] \in Seq(Datagrams)
        /\ rcvq[c] # <<>>
    BY <1>3 DEF RequestReturns, TypeOK, Addrs
  <2>2. Head(rcvq[c]) \in Datagrams /\ Tail(rcvq[c]) \in Seq(Datagrams)
    BY <2>1, TailFacts
  <2>3. Recvfrom(Head(rcvq[c]), RepSize) \in Messages
    BY <2>2, RecvfromType
  <2>4. rcvq' \in [Addrs -> Seq(Datagrams)]
    BY <1>3, <2>2 DEF RequestReturns, TypeOK
  <2> QED
    BY <1>2, <1>3, <2>3, <2>4 DEF RequestReturns
<1>4. ASSUME NEW c \in Clients, RequestTimesOut(c)
      PROVE  TypeOK'
  <2>1. Empty \in Messages
    BY DEF Messages
  <2> QED
    BY <1>2, <1>4, <2>1 DEF RequestTimesOut, TypeOK
<1>5. CASE ServerStart
  BY <1>5 DEF ServerStart, TypeOK, clientVars
<1>6. ASSUME NEW f \in Callbacks, RegisterCb(f)
      PROVE  TypeOK'
  BY <1>6 DEF RegisterCb, TypeOK, clientVars
<1>7. ASSUME NEW to \in Addrs, OnceReceives(to)
      PROVE  TypeOK'
  <2> DEFINE m == Recvfrom(Head(rcvq[Server]), ReqSize)
  <2>1. /\ rcvq[Server] \in Seq(Datagrams)
        /\ rcvq[Server] # <<>>
    BY <1>7 DEF OnceReceives, TypeOK, Addrs
  <2>2. Head(rcvq[Server]) \in Datagrams /\ Tail(rcvq[Server]) \in Seq(Datagrams)
    BY <2>1, TailFacts
  <2>3. rcvq' \in [Addrs -> Seq(Datagrams)]
    BY <1>7, <2>2 DEF OnceReceives, TypeOK
  <2>4. m \in Messages
    BY <2>2, RecvfromType
  <2>5. CASE m.size = 0 \/ m.size # ReqSize
    BY <1>7, <2>3, <2>5 DEF OnceReceives, TypeOK, clientVars
  <2>6. CASE ~(m.size = 0 \/ m.size # ReqSize)
    <3>1. m \in Messages \ {Empty}
      BY <2>4, <2>6 DEF Empty
    <3>2. spc' = "call" /\ job' = [m |-> m, to |-> to]
      BY <1>7, <2>6 DEF OnceReceives
    <3>3. job' \in [m : Messages \ {Empty}, to : Addrs] /\ job' # <<>>
      BY <3>1, <3>2
    <3> QED
      BY <1>7, <2>3, <3>2, <3>3 DEF OnceReceives, TypeOK, clientVars
  <2> QED
    BY <2>5, <2>6
<1>8. CASE OnceFrom
  <2>1. rcvq[Server] \in Seq(Datagrams) /\ rcvq[Server] # <<>>
    BY <1>8 DEF OnceFrom, TypeOK, Addrs
  <2>2. Head(rcvq[Server]) \in Datagrams
    BY <2>1, TailFacts
  <2>3. Head(rcvq[Server]).src \in Addrs
    BY <2>2 DEF Datagrams
  <2> QED
    BY <1>7, <1>8, <2>3 DEF OnceFrom
<1>10. CASE OnceCalls
  <2>1. job.m.call \in Calls
    BY <1>10 DEF OnceCalls, TypeOK, Messages
  <2> QED
    BY <1>10, <2>1 DEF OnceCalls, TypeOK, clientVars
<1>11. CASE Dies /\ UNCHANGED <<clientVars, wire, executed>>
  <2>0. <<>> \in Seq(Datagrams)
    OBVIOUS
  <2>1. rcvq' \in [Addrs -> Seq(Datagrams)]
    BY <1>11, <2>0 DEF Dies, TypeOK
  <2>2. /\ spc' = "down"
        /\ job' = <<>>
        /\ callback' = NoCallback
        /\ UNCHANGED <<n, waiting, got, wire, executed>>
    BY <1>11 DEF Dies, clientVars
  <2> QED
    BY <2>1, <2>2 DEF TypeOK
<1>12. CASE OnceSends
  <2>1. job \in [m : Messages \ {Empty}, to : Addrs]
    BY <1>12 DEF OnceSends, TypeOK
  <2>2. PICK len \in RepLens :
          Send([src |-> Server, dst |-> job.to, call |-> job.m.call, len |-> len])
    BY <1>12 DEF OnceSends
  <2>3. [src |-> Server, dst |-> job.to, call |-> job.m.call, len |-> len] \in Datagrams
    BY <2>1 DEF Datagrams, Messages, Addrs
  <2>4. wire' \subseteq Datagrams
    BY <2>2, <2>3, SendFacts DEF TypeOK
  <2> QED
    BY <1>12, <2>4 DEF OnceSends, TypeOK, clientVars
<1>13. ASSUME NEW d \in wire, Deliver(d)
       PROVE  TypeOK'
  <2>1. d \in Datagrams /\ d.dst \in Addrs
    BY DEF TypeOK, Datagrams
  <2>2. Append(rcvq[d.dst], d) \in Seq(Datagrams)
    BY <2>1, AppendFacts DEF TypeOK
  <2>3. rcvq' \in [Addrs -> Seq(Datagrams)]
    BY <1>13, <2>2 DEF Deliver, TypeOK
  <2>4. wire' \subseteq Datagrams
    BY <1>13 DEF Deliver, TypeOK
  <2> QED
    BY <1>13, <2>3, <2>4 DEF Deliver, TypeOK, clientVars, serverVars
<1>14. ASSUME NEW d \in wire, Lose(d)
       PROVE  TypeOK'
  BY <1>14 DEF Lose, TypeOK, clientVars, serverVars
<1>15. CASE UNCHANGED vars
  BY <1>15 DEF vars, clientVars, serverVars, TypeOK
<1> QED
  BY <1>1, <1>3, <1>4, <1>5, <1>6, <1>8, <1>10, <1>11, <1>12, <1>13, <1>14, <1>15
  DEF Next, Client, Once, OnceThrows, ServerCrash

\* Typing: every variable keeps its type; in particular a reply is only ever
\* computed from a message that passed the test of once().
THEOREM Typing == Spec => []TypeOK
<1>1. Init => TypeOK
  BY RRAssumption DEF Init, TypeOK, Addrs
<1> QED
  BY <1>1, TypingStep, PTL DEF Spec

-----------------------------------------------------------------------------
(* A blocking client gets the answer to its call *)

\* What typing says of a datagram, wherever it is.
LEMMA DatagramFacts ==
  ASSUME NEW d \in Datagrams
  PROVE  /\ d.call[1] \in Clients
         /\ d.call[2] \in Nat \ {0}
         /\ d.call = <<d.call[1], d.call[2]>>
  BY DEF Datagrams, Calls

\* The same, of all datagrams there are.
LEMMA Everywhere ==
  ASSUME TypeOK
  PROVE  /\ wire \subseteq Datagrams
         /\ \A a \in Addrs : /\ rcvq[a] \in Seq(Datagrams)
                             /\ \A k \in DOMAIN rcvq[a] : rcvq[a][k] \in Datagrams
         /\ Server \in Addrs
         /\ Clients \subseteq Addrs
  BY DEF TypeOK, Addrs

\* Nothing is about a client that is in no call.
LEMMA Idle ==
  ASSUME TypeOK, OneCall, NEW c \in Clients, ~waiting[c]
  PROVE  /\ About(c) = {}
         /\ Held(c) = {}
         /\ ~InOnce(c)
         /\ rcvq[c] = <<>>
<1>1. ASSUME NEW d \in About(c)
      PROVE  FALSE
  BY <1>1 DEF About, OneCall, OfPendingCall, AsRequest, AsReply, Pending
<1>2. ASSUME NEW k \in Held(c)
      PROVE  FALSE
  BY <1>2 DEF Held, OneCall, OfPendingCall, AsRequest, Pending
<1>3. ~InOnce(c)
  BY DEF InOnce, OneCall, OfPendingCall, Pending
<1>4. rcvq[c] = <<>>
  <2>1. rcvq[c] \in Seq(Datagrams)
    BY Everywhere
  <2>2. ASSUME rcvq[c] # <<>>
        PROVE  FALSE
    <3>1. 1 \in DOMAIN rcvq[c]
      BY <2>1, <2>2, TailFacts
    <3>2. rcvq[c][1].dst = c /\ rcvq[c][1].dst = rcvq[c][1].call[1] /\ Pending(rcvq[c][1].call)
      BY <3>1 DEF OneCall, OfPendingCall, AsReply
    <3> QED
      BY <3>2 DEF Pending
  <2> QED
    BY <2>2
<1> QED
  BY <1>1, <1>2, <1>3, <1>4

\* request() puts the one datagram of its call on the wire.
LEMMA RequestOneCall ==
  ASSUME TypeOK, OneCall, NEW c \in Clients, Request(c)
  PROVE  OneCall'
<1> USE RRAssumption
<1>1. PICK len \in ReqLens :
        Send([src |-> c, dst |-> Server, call |-> <<c, n[c] + 1>>, len |-> len])
  BY DEF Request
<1>2. PICK d0 : /\ d0 = [src |-> c, dst |-> Server, call |-> <<c, n[c] + 1>>, len |-> len]
                /\ wire' \subseteq wire \cup {d0}
  BY <1>1, SendFacts
<1>3. /\ n' = [n EXCEPT ![c] = n[c] + 1]
      /\ waiting' = [waiting EXCEPT ![c] = TRUE]
      /\ ~waiting[c]
      /\ UNCHANGED <<got, rcvq, spc, job, executed>>
  BY DEF Request, serverVars
<1>4. n \in [Clients -> Nat] /\ waiting \in [Clients -> BOOLEAN] /\ executed \subseteq Calls
  BY DEF TypeOK
<1>5. n'[c] = n[c] + 1 /\ waiting'[c] /\ \A b \in Clients \ {c} : n'[b] = n[b] /\ waiting'[b] = waiting[b]
  BY <1>3, <1>4
<1>6. About(c) = {} /\ Held(c) = {} /\ ~InOnce(c) /\ rcvq[c] = <<>>
  BY <1>3, Idle
<1>7. About(c)' \subseteq {d0} /\ \A b \in Clients \ {c} : About(b)' \subseteq About(b)
  BY <1>2, <1>6 DEF About
<1>8. \A b \in Clients : Held(b)' = Held(b) /\ InOnce(b)' = InOnce(b)
  BY <1>3 DEF Held, InOnce
<1>9. AtOnePlace'
  <2> SUFFICES ASSUME NEW b \in Clients
               PROVE  /\ \A d, e \in About(b)' : d = e
                      /\ \A k, l \in Held(b)' : k = l
                      /\ Len(rcvq'[b]) <= 1
                      /\ About(b)' # {} => Held(b)' = {} /\ ~InOnce(b)' /\ rcvq'[b] = <<>>
                      /\ Held(b)' # {} => ~InOnce(b)' /\ rcvq'[b] = <<>>
                      /\ InOnce(b)' => rcvq'[b] = <<>>
    BY DEF AtOnePlace
  <2>1. CASE b = c
    BY <1>3, <1>6, <1>7, <1>8, <2>1 DEF About, Held, InOnce
  <2>2. CASE b # c
    BY <1>3, <1>7, <1>8, <2>2 DEF OneCall, AtOnePlace
  <2> QED
    BY <2>1, <2>2
<1>10. ASSUME NEW call, call[1] \in Clients, waiting[call[1]], call[2] = n[call[1]]
       PROVE  waiting'[call[1]] /\ call[2] = n'[call[1]]
  BY <1>3, <1>5, <1>10
<1>11. OfPendingCall'
  <2>1. <<c, n[c] + 1>> \notin executed
    BY <1>4 DEF OneCall, Counted
  <2>2. AsRequest(d0)'
    BY <1>2, <1>3, <1>5, <2>1 DEF AsRequest, Pending
  <2>3. ASSUME NEW d \in Datagrams
        PROVE  (AsRequest(d) => AsRequest(d)') /\ (AsReply(d) => AsReply(d)')
    <3>1. d.call[1] \in Clients
      BY DatagramFacts
    <3> QED
      BY <1>3, <1>10, <3>1 DEF AsRequest, AsReply, Pending
  <2>4. (\A d \in wire : AsRequest(d) \/ AsReply(d))'
    <3> SUFFICES ASSUME NEW d \in wire'
                 PROVE  AsRequest(d)' \/ AsReply(d)'
      OBVIOUS
    <3>1. CASE d = d0
      BY <2>2, <3>1
    <3>2. CASE d \in wire
      BY <2>3, <3>2, Everywhere DEF OneCall, OfPendingCall
    <3> QED
      BY <1>2, <3>1, <3>2
  <2>5. ASSUME NEW a \in Addrs, NEW k \in DOMAIN rcvq[a]
        PROVE  /\ AsRequest(rcvq[a][k]) => AsRequest(rcvq[a][k])'
               /\ AsReply(rcvq[a][k]) => AsReply(rcvq[a][k])'
    <3>1. rcvq[a][k] \in Datagrams
      BY Everywhere
    <3>2. rcvq[a][k].call[1] \in Clients
      BY <3>1, DatagramFacts
    <3> QED
      BY <1>3, <1>10, <3>2 DEF AsRequest, AsReply, Pending
  <2>6. (\A k \in DOMAIN rcvq[Server] : AsRequest(rcvq[Server][k]))'
    BY <1>3, <2>5, Everywhere DEF OneCall, OfPendingCall
  <2>7. (\A b \in Clients : \A k \in DOMAIN rcvq[b] : AsReply(rcvq[b][k]) /\ rcvq[b][k].dst = b)'
    BY <1>3, <2>5, Everywhere DEF OneCall, OfPendingCall
  <2>8. (spc \in {"call", "send"} =>
          /\ Pending(job.m.call)
          /\ job.to = job.m.call[1]
          /\ job.m.call \in executed <=> spc = "send")'
    <3>1. spc \in {"call", "send"} => job.m.call[1] \in Clients
      BY DEF TypeOK, Messages, Calls
    <3> QED
      BY <1>3, <1>10, <3>1 DEF OneCall, OfPendingCall, Pending
  <2> QED
    BY <2>4, <2>6, <2>7, <2>8 DEF OfPendingCall
<1>12. Counted'
  BY <1>3, <1>4, <1>5 DEF OneCall, Counted, Calls, TypeOK
<1> QED
  BY <1>9, <1>11, <1>12 DEF OneCall

\* A step after which less is under way than before: something is dropped, a
\* buffer or the server's process is gone, or nothing of this is touched.
LEMMA LessUnderWay ==
  ASSUME TypeOK, OneCall,
         UNCHANGED <<n, waiting, got, executed>>,
         wire' \subseteq wire,
         \A b \in Clients : rcvq'[b] = rcvq[b],
         NEW s \in Nat,
         rcvq'[Server] \in Seq(Datagrams),
         \A k \in DOMAIN rcvq'[Server] :
           k + s \in DOMAIN rcvq[Server] /\ rcvq'[Server][k] = rcvq[Server][k + s],
         spc' \in {"call", "send"} => spc' = spc /\ job' = job
  PROVE  OneCall'
<1>1. \A b \in Clients : /\ About(b)' \subseteq About(b)
                         /\ \A k \in Held(b)' : k + s \in Held(b)
                         /\ InOnce(b)' => InOnce(b)
  BY DEF About, Held, InOnce
<1>2. \A b \in Clients : \A k \in Held(b)' : k \in Nat
  BY DEF Held
<1>3. AtOnePlace'
  <2> SUFFICES ASSUME NEW b \in Clients
               PROVE  /\ \A d, e \in About(b)' : d = e
                      /\ \A k, l \in Held(b)' : k = l
                      /\ Len(rcvq'[b]) <= 1
                      /\ About(b)' # {} => Held(b)' = {} /\ ~InOnce(b)' /\ rcvq'[b] = <<>>
                      /\ Held(b)' # {} => ~InOnce(b)' /\ rcvq'[b] = <<>>
                      /\ InOnce(b)' => rcvq'[b] = <<>>
    BY DEF AtOnePlace
  <2>1. \A k, l \in Held(b)' : k = l
    <3>1. ASSUME NEW k \in Held(b)', NEW l \in Held(b)'
          PROVE  k = l
      <4>1. k + s = l + s
        BY <1>1 DEF OneCall, AtOnePlace
      <4> QED
        BY <1>2, <4>1
    <3> QED
      BY <3>1
  <2>2. Held(b)' # {} => Held(b) # {}
    BY <1>1
  <2>3. About(b)' # {} => About(b) # {}
    BY <1>1
  <2> QED
    BY <1>1, <2>1, <2>2, <2>3 DEF OneCall, AtOnePlace
<1>4. OfPendingCall'
  <2>1. (\A d \in wire : AsRequest(d) \/ AsReply(d))'
    BY DEF OneCall, OfPendingCall, AsRequest, AsReply, Pending
  <2>2. (\A k \in DOMAIN rcvq[Server] : AsRequest(rcvq[Server][k]))'
    BY DEF OneCall, OfPendingCall, AsRequest, Pending
  <2>3. (\A b \in Clients : \A k \in DOMAIN rcvq[b] : AsReply(rcvq[b][k]) /\ rcvq[b][k].dst = b)'
    BY DEF OneCall, OfPendingCall, AsReply, Pending
  <2>4. (spc \in {"call", "send"} =>
          /\ Pending(job.m.call)
          /\ job.to = job.m.call[1]
          /\ job.m.call \in executed <=> spc = "send")'
    BY DEF OneCall, OfPendingCall, Pending
  <2> QED
    BY <2>1, <2>2, <2>3, <2>4 DEF OfPendingCall
<1>5. Counted'
  BY DEF OneCall, Counted
<1> QED
  BY <1>3, <1>4, <1>5 DEF OneCall

\* recv() of request() takes the only datagram there is about the client: it
\* is the answer to the call, and nothing is left behind.
LEMMA ReturnOneCall ==
  ASSUME TypeOK, OneCall, CallMatch, NEW c \in Clients, RequestReturns(c)
  PROVE  OneCall' /\ CallMatch'
<1> USE RRAssumption
<1> DEFINE m == Recvfrom(Head(rcvq[c]), RepSize)
<1>1. /\ waiting' = [waiting EXCEPT ![c] = FALSE]
      /\ got' = [got EXCEPT ![c] = Append(got[c], m)]
      /\ rcvq' = [rcvq EXCEPT ![c] = Tail(rcvq[c])]
      /\ waiting[c] /\ rcvq[c] # <<>>
      /\ UNCHANGED <<n, wire, spc, job, executed>>
  BY DEF RequestReturns, Return, serverVars
<1>2. /\ n \in [Clients -> Nat] /\ waiting \in [Clients -> BOOLEAN]
      /\ got \in [Clients -> Seq(Messages)] /\ rcvq \in [Addrs -> Seq(Datagrams)]
      /\ c \in Addrs /\ Server \in Addrs /\ Server # c
  BY DEF TypeOK, Addrs
<1>3. /\ Head(rcvq[c]) \in Datagrams
      /\ Head(rcvq[c]) = rcvq[c][1]
      /\ 1 \in DOMAIN rcvq[c]
  BY <1>1, <1>2, TailFacts
<1>4. AsReply(Head(rcvq[c])) /\ Head(rcvq[c]).dst = c
  BY <1>3 DEF OneCall, OfPendingCall
<1>5. Head(rcvq[c]).call = <<c, n[c]>>
  BY <1>3, <1>4, DatagramFacts DEF AsReply, Pending
<1>6. rcvq'[c] = <<>> /\ \A b \in Addrs \ {c} : rcvq'[b] = rcvq[b]
  BY <1>1, <1>2 DEF OneCall, AtOnePlace
<1>7. About(c) = {} /\ Held(c) = {} /\ ~InOnce(c)
  BY <1>1 DEF OneCall, AtOnePlace
<1>8. \A b \in Clients : /\ About(b)' = About(b)
                         /\ Held(b)' = Held(b)
                         /\ InOnce(b)' = InOnce(b)
  BY <1>1, <1>2, <1>6 DEF About, Held, InOnce
<1>9. \A b \in Clients \ {c} : waiting'[b] = waiting[b] /\ got'[b] = got[b]
  BY <1>1, <1>2
<1>10. AtOnePlace'
  <2> SUFFICES ASSUME NEW b \in Clients
               PROVE  /\ \A d, e \in About(b)' : d = e
                      /\ \A k, l \in Held(b)' : k = l
                      /\ Len(rcvq'[b]) <= 1
                      /\ About(b)' # {} => Held(b)' = {} /\ ~InOnce(b)' /\ rcvq'[b] = <<>>
                      /\ Held(b)' # {} => ~InOnce(b)' /\ rcvq'[b] = <<>>
                      /\ InOnce(b)' => rcvq'[b] = <<>>
    BY DEF AtOnePlace
  <2>1. b \in Addrs
    BY DEF Addrs
  <2>2. CASE b = c
    BY <1>6, <1>8, <2>2 DEF OneCall, AtOnePlace
  <2>3. CASE b # c
    BY <1>6, <1>8, <2>1, <2>3 DEF OneCall, AtOnePlace
  <2> QED
    BY <2>2, <2>3
<1>11. OfPendingCall'
  <2>1. \A d \in wire : d.call[1] # c
    BY <1>7 DEF About
  <2>2. (\A d \in wire : AsRequest(d) \/ AsReply(d))'
    <3>1. \A d \in wire : d.call[1] \in Clients
      BY Everywhere, DatagramFacts
    <3> QED
      BY <1>1, <1>9, <2>1, <3>1 DEF OneCall, OfPendingCall, AsRequest, AsReply, Pending
  <2>3. (\A k \in DOMAIN rcvq[Server] : AsRequest(rcvq[Server][k]))'
    <3>1. \A k \in DOMAIN rcvq[Server] : rcvq[Server][k].call[1] \in Clients \ {c}
      BY <1>7, Everywhere, DatagramFacts DEF Held
    <3> QED
      BY <1>1, <1>2, <1>6, <1>9, <3>1 DEF OneCall, OfPendingCall, AsRequest, Pending
  <2>4. (\A b \in Clients : \A k \in DOMAIN rcvq[b] : AsReply(rcvq[b][k]) /\ rcvq[b][k].dst = b)'
    <3> SUFFICES ASSUME NEW b \in Clients, NEW k \in DOMAIN rcvq'[b]
                 PROVE  (AsReply(rcvq[b][k]) /\ rcvq[b][k].dst = b)'
      OBVIOUS
    <3>1. b # c
      BY <1>6
    <3>2. rcvq'[b] = rcvq[b]
      BY <1>6, <3>1 DEF Addrs
    <3>3. AsReply(rcvq[b][k]) /\ rcvq[b][k].dst = b
      BY <3>2 DEF OneCall, OfPendingCall
    <3>4. rcvq[b][k].call[1] = b
      BY <3>3 DEF AsReply
    <3>5. waiting'[b] = waiting[b] /\ n' = n /\ executed' = executed
      BY <1>1, <1>9, <3>1
    <3> QED
      BY <3>2, <3>3, <3>4, <3>5 DEF AsReply, Pending
  <2>5. (spc \in {"call", "send"} =>
          /\ Pending(job.m.call)
          /\ job.to = job.m.call[1]
          /\ job.m.call \in executed <=> spc = "send")'
    <3>1. spc \in {"call", "send"} => job.m.call[1] \in Clients \ {c}
      BY <1>7 DEF TypeOK, Messages, Calls, InOnce
    <3> QED
      BY <1>1, <1>9, <3>1 DEF OneCall, OfPendingCall, Pending
  <2> QED
    BY <2>2, <2>3, <2>4, <2>5 DEF OfPendingCall
<1>12. m \in Messages /\ (m # Empty => m.call = <<c, n[c]>>)
  BY <1>3, <1>5, RecvfromType
<1>13. Len(got'[c]) = n[c] /\ n[c] = Len(got[c]) + 1
  BY <1>1, <1>2, <1>12 DEF OneCall, Counted
<1>14. Counted'
  BY <1>1, <1>2, <1>9, <1>13 DEF OneCall, Counted
<1>15. CallMatch'
  <2> SUFFICES ASSUME NEW b \in Clients, NEW i \in Answered(b)'
               PROVE  got'[b][i].call = <<b, i>>
    BY DEF CallMatch
  <2>1. CASE b = c
    <3>1. i \in DOMAIN got'[c] /\ got'[c][i] # Empty
      BY <2>1 DEF Answered
    <3>2. got'[c] = Append(got[c], m)
      BY <1>1, <1>2
    <3>3. CASE i \in DOMAIN got[c] /\ got'[c][i] = got[c][i]
      BY <2>1, <3>1, <3>3 DEF CallMatch, Answered
    <3>4. CASE i = Len(got[c]) + 1 /\ got'[c][i] = m
      BY <1>12, <1>13, <2>1, <3>1, <3>4
    <3> QED
      BY <1>2, <1>12, <3>1, <3>2, <3>3, <3>4, AppendFacts
  <2>2. CASE b # c
    BY <1>9, <2>2 DEF CallMatch, Answered
  <2> QED
    BY <2>1, <2>2
<1> QED
  BY <1>10, <1>11, <1>14, <1>15 DEF OneCall

\* once() takes a request out of the buffer and starts working on it.
LEMMA ReceiveOneCall ==
  ASSUME TypeOK, OneCall, NEW to \in Addrs, OnceReceives(to),
         to = Head(rcvq[Server]).call[1]
  PROVE  OneCall'
<1> USE RRAssumption
<1> DEFINE h == Head(rcvq[Server])
           m == Recvfrom(h, ReqSize)
<1>1. /\ spc = "ready" /\ rcvq[Server] # <<>>
      /\ rcvq' = [rcvq EXCEPT ![Server] = Tail(rcvq[Server])]
      /\ UNCHANGED <<n, waiting, got, wire, executed>>
  BY DEF OnceReceives, clientVars
<1>2. rcvq \in [Addrs -> Seq(Datagrams)] /\ Server \in Addrs /\ Clients \subseteq Addrs
  BY DEF TypeOK, Addrs
<1>3. /\ h \in Datagrams /\ h = rcvq[Server][1] /\ 1 \in DOMAIN rcvq[Server]
      /\ Tail(rcvq[Server]) \in Seq(Datagrams)
      /\ \A k \in DOMAIN Tail(rcvq[Server]) :
           k + 1 \in DOMAIN rcvq[Server] /\ Tail(rcvq[Server])[k] = rcvq[Server][k + 1]
  BY <1>1, <1>2, TailFacts
<1>4. /\ rcvq'[Server] = Tail(rcvq[Server])
      /\ \A b \in Clients : rcvq'[b] = rcvq[b]
  BY <1>1, <1>2
<1>5. CASE m.size = 0 \/ m.size # ReqSize
  <2>1. UNCHANGED <<spc, job>>
    BY <1>5 DEF OnceReceives
  <2> QED
    BY <1>1, <1>3, <1>4, <2>1, LessUnderWay
<1>6. CASE ~(m.size = 0 \/ m.size # ReqSize)
  <2>1. /\ spc' = "call" /\ job' = [m |-> m, to |-> to]
        /\ m \in Messages /\ m.call = h.call
    BY <1>3, <1>6, RecvfromType DEF OnceReceives, Empty
  <2>2. h.call[1] \in Clients
    BY <1>3, DatagramFacts
  <2>3. AsRequest(h)
    BY <1>3 DEF OneCall, OfPendingCall
  <2>4. 1 \in Held(h.call[1])
    BY <1>3 DEF Held
  <2>5. /\ About(h.call[1]) = {} /\ rcvq[h.call[1]] = <<>>
        /\ \A k \in Held(h.call[1]) : k = 1
    BY <2>2, <2>4 DEF OneCall, AtOnePlace
  <2>6. \A b \in Clients : /\ About(b)' = About(b)
                           /\ \A k \in Held(b)' : k + 1 \in Held(b) /\ k \in Nat \ {0}
                           /\ InOnce(b)' <=> b = h.call[1]
    <3> SUFFICES ASSUME NEW b \in Clients
                 PROVE  /\ About(b)' = About(b)
                        /\ \A k \in Held(b)' : k + 1 \in Held(b) /\ k \in Nat \ {0}
                        /\ InOnce(b)' <=> b = h.call[1]
      OBVIOUS
    <3>1. About(b)' = About(b)
      BY <1>1 DEF About
    <3>2. \A k \in DOMAIN Tail(rcvq[Server]) : k \in Nat \ {0}
      BY <1>3
    <3>3. \A k \in Held(b)' : k + 1 \in Held(b) /\ k \in Nat \ {0}
      BY <1>3, <1>4, <3>2 DEF Held
    <3>4. job'.m.call = h.call
      BY <2>1
    <3>5. InOnce(b)' <=> b = h.call[1]
      BY <2>1, <3>4 DEF InOnce
    <3> QED
      BY <3>1, <3>3, <3>5
  <2>7. AtOnePlace'
    <3> SUFFICES ASSUME NEW b \in Clients
                 PROVE  /\ \A d, e \in About(b)' : d = e
                        /\ \A k, l \in Held(b)' : k = l
                        /\ Len(rcvq'[b]) <= 1
                        /\ About(b)' # {} => Held(b)' = {} /\ ~InOnce(b)' /\ rcvq'[b] = <<>>
                        /\ Held(b)' # {} => ~InOnce(b)' /\ rcvq'[b] = <<>>
                        /\ InOnce(b)' => rcvq'[b] = <<>>
      BY DEF AtOnePlace
    <3>1. CASE b = h.call[1]
      <4>1. Held(b)' = {}
        <5>1. ASSUME NEW k \in Held(b)'
              PROVE  FALSE
          <6>1. k + 1 = 1
            BY <2>5, <2>6, <3>1
          <6> QED
            BY <2>6, <6>1
        <5> QED
          BY <5>1
      <4>2. About(b)' = {}
        BY <2>5, <2>6, <3>1
      <4>3. rcvq'[b] = <<>>
        BY <1>4, <2>5, <3>1
      <4> QED
        BY <4>1, <4>2, <4>3
    <3>2. CASE b # h.call[1]
      <4>1. \A k, l \in Held(b)' : k = l
        <5>1. ASSUME NEW k \in Held(b)', NEW l \in Held(b)'
              PROVE  k = l
          <6>1. k + 1 = l + 1
            BY <2>6 DEF OneCall, AtOnePlace
          <6> QED
            BY <2>6, <6>1
        <5> QED
          BY <5>1
      <4>2. Held(b)' # {} => Held(b) # {}
        BY <2>6
      <4> QED
        BY <1>4, <2>6, <3>2, <4>1, <4>2 DEF OneCall, AtOnePlace
    <3> QED
      BY <3>1, <3>2
  <2>8. OfPendingCall'
    <3>1. (\A d \in wire : AsRequest(d) \/ AsReply(d))'
      BY <1>1 DEF OneCall, OfPendingCall, AsRequest, AsReply, Pending
    <3>2. (\A k \in DOMAIN rcvq[Server] : AsRequest(rcvq[Server][k]))'
      BY <1>1, <1>3, <1>4 DEF OneCall, OfPendingCall, AsRequest, Pending
    <3>3. (\A b \in Clients : \A k \in DOMAIN rcvq[b] : AsReply(rcvq[b][k]) /\ rcvq[b][k].dst = b)'
      BY <1>1, <1>4 DEF OneCall, OfPendingCall, AsReply, Pending
    <3>4. (spc \in {"call", "send"} =>
            /\ Pending(job.m.call)
            /\ job.to = job.m.call[1]
            /\ job.m.call \in executed <=> spc = "send")'
      BY <1>1, <2>1, <2>3 DEF AsRequest, Pending
    <3> QED
      BY <3>1, <3>2, <3>3, <3>4 DEF OfPendingCall
  <2>9. Counted'
    BY <1>1 DEF OneCall, Counted
  <2> QED
    BY <2>7, <2>8, <2>9 DEF OneCall
<1> QED
  BY <1>5, <1>6

\* The callback runs on the call once() is working on, and on no other.
LEMMA CallOneCall ==
  ASSUME TypeOK, OneCall, OnceCalls
  PROVE  OneCall'
<1>1. /\ spc = "call" /\ spc' = "send"
      /\ executed' = executed \cup {job.m.call}
      /\ UNCHANGED <<n, waiting, got, wire, rcvq, job>>
  BY DEF OnceCalls, clientVars
<1>2. /\ job.m.call \in Calls
      /\ Pending(job.m.call)
      /\ job.to = job.m.call[1]
  BY <1>1 DEF TypeOK, Messages, OneCall, OfPendingCall
<1>3. job.m.call[1] \in Clients /\ InOnce(job.m.call[1])
  BY <1>1, <1>2 DEF Calls, InOnce
<1>4. About(job.m.call[1]) = {} /\ Held(job.m.call[1]) = {}
  BY <1>3 DEF OneCall, AtOnePlace
<1>5. AtOnePlace'
  BY <1>1 DEF OneCall, AtOnePlace, About, Held, InOnce
<1>6. OfPendingCall'
  <2>1. (\A d \in wire : AsRequest(d) \/ AsReply(d))'
    <3>1. \A d \in wire : d.call # job.m.call
      BY <1>4 DEF About
    <3> QED
      BY <1>1, <3>1 DEF OneCall, OfPendingCall, AsRequest, AsReply, Pending
  <2>2. (\A k \in DOMAIN rcvq[Server] : AsRequest(rcvq[Server][k]))'
    <3>1. \A k \in DOMAIN rcvq[Server] : rcvq[Server][k].call # job.m.call
      BY <1>4 DEF Held
    <3> QED
      BY <1>1, <3>1 DEF OneCall, OfPendingCall, AsRequest, Pending
  <2>3. (\A b \in Clients : \A k \in DOMAIN rcvq[b] : AsReply(rcvq[b][k]) /\ rcvq[b][k].dst = b)'
    BY <1>1 DEF OneCall, OfPendingCall, AsReply, Pending
  <2>4. (spc \in {"call", "send"} =>
          /\ Pending(job.m.call)
          /\ job.to = job.m.call[1]
          /\ job.m.call \in executed <=> spc = "send")'
    BY <1>1, <1>2 DEF Pending
  <2> QED
    BY <2>1, <2>2, <2>3, <2>4 DEF OfPendingCall
<1>7. Counted'
  <2>1. job.m.call[2] <= n[job.m.call[1]]
    BY <1>2 DEF Pending, Calls
  <2> QED
    BY <1>1, <2>1 DEF OneCall, Counted
<1> QED
  BY <1>5, <1>6, <1>7 DEF OneCall

\* once() sends the reply to the client whose call it has worked on.
LEMMA SendOneCall ==
  ASSUME TypeOK, OneCall, OnceSends
  PROVE  OneCall'
<1> USE RRAssumption
<1>1. PICK len \in RepLens :
        Send([src |-> Server, dst |-> job.to, call |-> job.m.call, len |-> len])
  BY DEF OnceSends
<1>2. PICK d0 :
        /\ d0 = [src |-> Server, dst |-> job.to, call |-> job.m.call, len |-> len]
        /\ wire' \subseteq wire \cup {d0}
  BY <1>1, SendFacts
<1>3. /\ spc = "send" /\ spc' = "ready"
      /\ UNCHANGED <<n, waiting, got, rcvq, executed>>
  BY DEF OnceSends, clientVars
<1>4. /\ job.m.call \in Calls
      /\ Pending(job.m.call)
      /\ job.to = job.m.call[1]
      /\ job.m.call \in executed
  BY <1>3 DEF TypeOK, Messages, OneCall, OfPendingCall
<1>5. PICK b0 \in Clients : b0 = job.m.call[1]
  BY <1>4 DEF Calls
<1>6. InOnce(b0)
  BY <1>3, <1>5 DEF InOnce
<1>7. About(b0) = {} /\ Held(b0) = {} /\ rcvq[b0] = <<>>
  BY <1>6 DEF OneCall, AtOnePlace
<1>8. d0.call = job.m.call /\ d0.call[1] = b0
  BY <1>2, <1>5
<1>9. /\ About(b0)' \subseteq {d0}
      /\ \A b \in Clients \ {b0} : About(b)' \subseteq About(b)
  BY <1>2, <1>7, <1>8 DEF About
<1>10. \A b \in Clients : Held(b)' = Held(b) /\ ~InOnce(b)'
  BY <1>3 DEF Held, InOnce
<1>11. AtOnePlace'
  <2> SUFFICES ASSUME NEW b \in Clients
               PROVE  /\ \A d, e \in About(b)' : d = e
                      /\ \A k, l \in Held(b)' : k = l
                      /\ Len(rcvq'[b]) <= 1
                      /\ About(b)' # {} => Held(b)' = {} /\ ~InOnce(b)' /\ rcvq'[b] = <<>>
                      /\ Held(b)' # {} => ~InOnce(b)' /\ rcvq'[b] = <<>>
                      /\ InOnce(b)' => rcvq'[b] = <<>>
    BY DEF AtOnePlace
  <2>1. CASE b = b0
    BY <1>3, <1>7, <1>9, <1>10, <2>1 DEF About, Held, InOnce
  <2>2. CASE b # b0
    BY <1>3, <1>9, <1>10, <2>2 DEF OneCall, AtOnePlace
  <2> QED
    BY <2>1, <2>2
<1>12. OfPendingCall'
  <2>1. AsReply(d0)'
    BY <1>2, <1>3, <1>4 DEF AsReply, Pending
  <2>2. (\A d \in wire : AsRequest(d) \/ AsReply(d))'
    <3> SUFFICES ASSUME NEW d \in wire'
                 PROVE  AsRequest(d)' \/ AsReply(d)'
      OBVIOUS
    <3>1. CASE d = d0
      BY <2>1, <3>1
    <3>2. CASE d \in wire
      BY <1>3, <3>2 DEF OneCall, OfPendingCall, AsRequest, AsReply, Pending
    <3> QED
      BY <1>2, <3>1, <3>2
  <2>3. (\A k \in DOMAIN rcvq[Server] : AsRequest(rcvq[Server][k]))'
    BY <1>3 DEF OneCall, OfPendingCall, AsRequest, Pending
  <2>4. (\A b \in Clients : \A k \in DOMAIN rcvq[b] : AsReply(rcvq[b][k]) /\ rcvq[b][k].dst = b)'
    BY <1>3 DEF OneCall, OfPendingCall, AsReply, Pending
  <2> QED
    BY <1>3, <2>2, <2>3, <2>4 DEF OfPendingCall
<1>13. Counted'
  BY <1>3 DEF OneCall, Counted
<1> QED
  BY <1>11, <1>12, <1>13 DEF OneCall

\* The network moves a datagram into the buffer it is addressed to.
LEMMA DeliverOneCall ==
  ASSUME TypeOK, OneCall, ~Duplicating, NEW d0 \in wire, Deliver(d0)
  PROVE  OneCall'
<1> USE RRAssumption
<1>1. /\ wire' = wire \ {d0}
      /\ UNCHANGED <<n, waiting, got, spc, job, executed>>
  BY DEF Deliver, clientVars, serverVars
<1>2. /\ rcvq \in [Addrs -> Seq(Datagrams)] /\ Server \in Addrs /\ Clients \subseteq Addrs
      /\ d0 \in Datagrams /\ d0.dst \in Addrs
  BY DEF TypeOK, Addrs, Datagrams
<1>3. CASE ~Accepts(d0.dst)
  <2>1. rcvq' = rcvq
    BY <1>3 DEF Deliver
  <2>2. \A k \in DOMAIN rcvq[Server] : k + 0 = k
    BY <1>2
  <2> QED
    BY <1>1, <1>2, <2>1, <2>2, LessUnderWay
<1>4. CASE Accepts(d0.dst)
  <2>1. rcvq' = [rcvq EXCEPT ![d0.dst] = Append(rcvq[d0.dst], d0)]
    BY <1>4 DEF Deliver
  <2>2. PICK b0 \in Clients : b0 = d0.call[1]
    BY <1>2, DatagramFacts
  <2>3. d0 \in About(b0)
    BY <2>2 DEF About
  <2>4. /\ \A d \in About(b0) : d = d0
        /\ Held(b0) = {} /\ ~InOnce(b0) /\ rcvq[b0] = <<>>
    BY <2>3 DEF OneCall, AtOnePlace
  <2>5. /\ About(b0)' = {}
        /\ \A b \in Clients : About(b)' \subseteq About(b) /\ InOnce(b)' = InOnce(b)
    BY <1>1, <2>4 DEF About, InOnce
  <2>6. /\ rcvq[d0.dst] \in Seq(Datagrams)
        /\ Len(Append(rcvq[d0.dst], d0)) = Len(rcvq[d0.dst]) + 1
        /\ \A k \in DOMAIN Append(rcvq[d0.dst], d0) :
             \/ k \in DOMAIN rcvq[d0.dst] /\ Append(rcvq[d0.dst], d0)[k] = rcvq[d0.dst][k]
             \/ k = Len(rcvq[d0.dst]) + 1 /\ Append(rcvq[d0.dst], d0)[k] = d0
    BY <1>2, AppendFacts
  <2>7. Counted'
    BY <1>1 DEF OneCall, Counted
  <2>8. (\A d \in wire : AsRequest(d) \/ AsReply(d))'
    BY <1>1 DEF OneCall, OfPendingCall, AsRequest, AsReply, Pending
  <2>9. (spc \in {"call", "send"} =>
          /\ Pending(job.m.call)
          /\ job.to = job.m.call[1]
          /\ job.m.call \in executed <=> spc = "send")'
    BY <1>1 DEF OneCall, OfPendingCall, Pending
  <2>10. AsRequest(d0) \/ AsReply(d0)
    BY DEF OneCall, OfPendingCall
  <2>11. CASE AsRequest(d0)
    <3>1. d0.dst = Server
      BY <2>11 DEF AsRequest
    <3>2. /\ rcvq'[Server] = Append(rcvq[d0.dst], d0)
          /\ \A b \in Clients : rcvq'[b] = rcvq[b]
      BY <1>2, <2>1, <3>1
    <3>3. /\ \A k \in Held(b0)' : k = Len(rcvq[Server]) + 1
          /\ \A b \in Clients \ {b0} : \A k \in Held(b)' : k \in Held(b)
      BY <2>2, <2>4, <2>6, <3>1, <3>2 DEF Held
    <3>4. AtOnePlace'
      <4> SUFFICES ASSUME NEW b \in Clients
                   PROVE  /\ \A d, e \in About(b)' : d = e
                          /\ \A k, l \in Held(b)' : k = l
                          /\ Len(rcvq'[b]) <= 1
                          /\ About(b)' # {} => Held(b)' = {} /\ ~InOnce(b)' /\ rcvq'[b] = <<>>
                          /\ Held(b)' # {} => ~InOnce(b)' /\ rcvq'[b] = <<>>
                          /\ InOnce(b)' => rcvq'[b] = <<>>
        BY DEF AtOnePlace
      <4>1. CASE b = b0
        BY <2>4, <2>5, <3>2, <3>3, <4>1, SMTT(20) DEF Held, About, InOnce
      <4>2. CASE b # b0
        BY <2>5, <3>2, <3>3, <4>2 DEF OneCall, AtOnePlace
      <4> QED
        BY <4>1, <4>2
    <3>5. (\A k \in DOMAIN rcvq[Server] : AsRequest(rcvq[Server][k]))'
      BY <1>1, <2>6, <2>11, <3>1, <3>2 DEF OneCall, OfPendingCall, AsRequest, Pending
    <3>6. (\A b \in Clients : \A k \in DOMAIN rcvq[b] : AsReply(rcvq[b][k]) /\ rcvq[b][k].dst = b)'
      BY <1>1, <3>2 DEF OneCall, OfPendingCall, AsReply, Pending
    <3> QED
      BY <2>7, <2>8, <2>9, <3>4, <3>5, <3>6 DEF OneCall, OfPendingCall
  <2>12. CASE AsReply(d0)
    <3>1. d0.dst = b0 /\ Server # b0
      BY <2>2, <2>12 DEF AsReply
    <3>2. /\ rcvq'[b0] = Append(rcvq[d0.dst], d0)
          /\ \A b \in Addrs \ {b0} : rcvq'[b] = rcvq[b]
      BY <1>2, <2>1, <3>1
    <3>3. Len(rcvq'[b0]) = 1 /\ \A k \in DOMAIN rcvq'[b0] : rcvq'[b0][k] = d0
      BY <2>4, <2>6, <3>1, <3>2
    <3>4. rcvq'[Server] = rcvq[Server] /\ \A b \in Clients : Held(b)' = Held(b)
      BY <1>2, <3>1, <3>2 DEF Held
    <3>5. AtOnePlace'
      <4> SUFFICES ASSUME NEW b \in Clients
                   PROVE  /\ \A d, e \in About(b)' : d = e
                          /\ \A k, l \in Held(b)' : k = l
                          /\ Len(rcvq'[b]) <= 1
                          /\ About(b)' # {} => Held(b)' = {} /\ ~InOnce(b)' /\ rcvq'[b] = <<>>
                          /\ Held(b)' # {} => ~InOnce(b)' /\ rcvq'[b] = <<>>
                          /\ InOnce(b)' => rcvq'[b] = <<>>
        BY DEF AtOnePlace
      <4>1. CASE b = b0
        <5>1. About(b)' = {} /\ ~InOnce(b)'
          BY <2>4, <2>5, <4>1 DEF About, InOnce
        <5>2. Held(b)' = {}
          BY <2>4, <3>4, <4>1 DEF Held
        <5>3. Len(rcvq'[b]) <= 1
          BY <3>3, <4>1
        <5> QED
          BY <5>1, <5>2, <5>3
      <4>2. CASE b # b0
        BY <1>2, <2>5, <3>2, <3>4, <4>2 DEF OneCall, AtOnePlace
      <4> QED
        BY <4>1, <4>2
    <3>6. (\A k \in DOMAIN rcvq[Server] : AsRequest(rcvq[Server][k]))'
      BY <1>1, <3>4 DEF OneCall, OfPendingCall, AsRequest, Pending
    <3>7. (\A b \in Clients : \A k \in DOMAIN rcvq[b] : AsReply(rcvq[b][k]) /\ rcvq[b][k].dst = b)'
      <4> SUFFICES ASSUME NEW b \in Clients, NEW k \in DOMAIN rcvq'[b]
                   PROVE  (AsReply(rcvq[b][k]) /\ rcvq[b][k].dst = b)'
        OBVIOUS
      <4>1. CASE b = b0
        BY <1>1, <2>12, <3>1, <3>3, <4>1 DEF AsReply, Pending
      <4>2. CASE b # b0
        BY <1>1, <1>2, <3>2, <4>2 DEF OneCall, OfPendingCall, AsReply, Pending
      <4> QED
        BY <4>1, <4>2
    <3> QED
      BY <2>7, <2>8, <2>9, <3>5, <3>6, <3>7 DEF OneCall, OfPendingCall
  <2> QED
    BY <2>10, <2>11, <2>12
<1> QED
  BY <1>3, <1>4

\* No step of the system leads out of OneCall and CallMatch.
LEMMA OneCallStep ==
  ASSUME ~Timeouts, ~Duplicating, TypeOK, TypeOK', OneCall, CallMatch, [Next]_vars
  PROVE  OneCall' /\ CallMatch'
<1>1. ASSUME UNCHANGED got
      PROVE  CallMatch'
  BY <1>1 DEF CallMatch, Answered
<1>2. /\ rcvq'[Server] \in Seq(Datagrams)
      /\ rcvq[Server] \in Seq(Datagrams)
  BY DEF TypeOK, Addrs
<1>3. ASSUME UNCHANGED <<n, waiting, got, rcvq, executed>>, wire' \subseteq wire,
             spc' \in {"call", "send"} => spc' = spc /\ job' = job
      PROVE  OneCall' /\ CallMatch'
  <2>1. \A k \in DOMAIN rcvq[Server] : k + 0 = k
    BY <1>2
  <2> QED
    BY <1>1, <1>2, <1>3, <2>1, LessUnderWay
<1>4. ASSUME Dies, UNCHANGED <<clientVars, wire, executed>>
      PROVE  OneCall' /\ CallMatch'
  <2>1. rcvq \in [Addrs -> Seq(Datagrams)] /\ Server \in Addrs /\ Clients \subseteq Addrs
    BY DEF TypeOK, Addrs
  <2>2. /\ rcvq'[Server] = <<>> /\ \A b \in Clients : rcvq'[b] = rcvq[b]
        /\ spc' = "down"
    BY <1>4, <2>1, RRAssumption DEF Dies
  <2>3. UNCHANGED <<n, waiting, got, wire, executed>>
    BY <1>4 DEF clientVars
  <2> QED
    BY <1>1, <1>2, <2>2, <2>3, LessUnderWay
<1>5. ASSUME NEW c \in Clients, Client(c)
      PROVE  OneCall' /\ CallMatch'
  <2>1. CASE Request(c)
    BY <1>1, <2>1, RequestOneCall DEF Request
  <2>2. CASE RequestReturns(c)
    BY <2>2, ReturnOneCall
  <2>3. CASE RequestTimesOut(c)
    BY <2>3 DEF RequestTimesOut
  <2> QED
    BY <1>5, <2>1, <2>2, <2>3 DEF Client
<1>6. CASE ServerStart
  BY <1>3, <1>6 DEF ServerStart, clientVars
<1>7. ASSUME NEW f \in Callbacks, RegisterCb(f)
      PROVE  OneCall' /\ CallMatch'
  BY <1>3, <1>7 DEF RegisterCb, clientVars
<1>8. CASE Once
  <2>1. ASSUME rcvq[Server] # <<>>
        PROVE  /\ Head(rcvq[Server]).src = Head(rcvq[Server]).call[1]
               /\ Head(rcvq[Server]).call[1] \in Clients
    <3>1. 1 \in DOMAIN rcvq[Server] /\ Head(rcvq[Server]) = rcvq[Server][1]
      BY <1>2, <2>1, TailFacts
    <3>2. rcvq[Server][1] \in Datagrams
      BY <3>1, Everywhere
    <3> QED
      BY <3>1, <3>2, DatagramFacts DEF OneCall, OfPendingCall, AsRequest
  <2>2. CASE OnceFrom
    <3>1. Head(rcvq[Server]).src \in Addrs
      BY <2>1, <2>2 DEF OnceFrom, Addrs
    <3>2. OneCall'
      BY <2>1, <2>2, <3>1, ReceiveOneCall DEF OnceFrom
    <3> QED
      BY <1>1, <2>2, <3>2 DEF OnceFrom, OnceReceives, clientVars
  <2>4. CASE OnceCalls
    BY <1>1, <2>4, CallOneCall DEF OnceCalls, clientVars
  <2>5. CASE OnceThrows
    BY <1>4, <2>5 DEF OnceThrows
  <2>6. CASE OnceSends
    BY <1>1, <2>6, SendOneCall DEF OnceSends, clientVars
  <2> QED
    BY <1>8, <2>2, <2>4, <2>5, <2>6 DEF Once
<1>9. CASE ServerCrash
  BY <1>4, <1>9 DEF ServerCrash
<1>10. ASSUME NEW d \in wire, Deliver(d)
       PROVE  OneCall' /\ CallMatch'
  BY <1>1, <1>10, DeliverOneCall DEF Deliver, clientVars
<1>11. ASSUME NEW d \in wire, Lose(d)
       PROVE  OneCall' /\ CallMatch'
  BY <1>3, <1>11 DEF Lose, clientVars, serverVars
<1>12. CASE UNCHANGED vars
  BY <1>3, <1>12 DEF vars, clientVars, serverVars
<1> QED
  BY <1>5, <1>6, <1>7, <1>8, <1>9, <1>10, <1>11, <1>12 DEF Next

\* OneCallAlways: as long as clients wait for their answers and the network
\* makes no copies, a call is at one place at a time, whatever is lost and
\* however often the server's process dies.
THEOREM OneCallAlways ==
  ASSUME ~Timeouts, ~Duplicating
  PROVE  Spec => [](OneCall /\ CallMatch)
<1>1. Init => OneCall /\ CallMatch
  BY RRAssumption
  DEF Init, Addrs, OneCall, CallMatch, Answered, AtOnePlace, OfPendingCall, Counted,
      About, Held, InOnce
<1>2. TypeOK /\ TypeOK' /\ (OneCall /\ CallMatch) /\ [Next]_vars => (OneCall /\ CallMatch)'
  BY OneCallStep
<1> QED
  BY <1>1, <1>2, Typing, PTL DEF Spec

\* BlockingCallMatch: what a client that waits for its answers gets from a
\* call is the answer to that call.
THEOREM BlockingCallMatch ==
  ASSUME ~Timeouts, ~Duplicating
  PROVE  Spec => []CallMatch
BY OneCallAlways, PTL

-----------------------------------------------------------------------------
(* RequestReply implements Rpc *)

\* A call that returns appends the answer to itself to what its client got.
LEMMA ReturnAnswers ==
  ASSUME TypeOK, OneCall, 0 \notin RepLens, NEW c \in Clients, RequestReturns(c)
  PROVE  R!Answer(c)
<1> USE RRAssumption
<1> DEFINE m == Recvfrom(Head(rcvq[c]), RepSize)
<1>1. /\ waiting' = [waiting EXCEPT ![c] = FALSE]
      /\ got' = [got EXCEPT ![c] = Append(got[c], m)]
      /\ waiting[c] /\ rcvq[c] # <<>>
      /\ UNCHANGED <<n, executed>>
  BY DEF RequestReturns, Return, serverVars
<1>2. /\ got \in [Clients -> Seq(Messages)]
      /\ rcvq[c] \in Seq(Datagrams)
  BY DEF TypeOK, Addrs
<1>3. Head(rcvq[c]) \in Datagrams /\ Head(rcvq[c]) = rcvq[c][1] /\ 1 \in DOMAIN rcvq[c]
  BY <1>1, <1>2, TailFacts
<1>4. AsReply(Head(rcvq[c])) /\ Head(rcvq[c]).dst = c
  BY <1>3 DEF OneCall, OfPendingCall
<1>5. Head(rcvq[c]).call = <<c, n[c]>> /\ <<c, n[c]>> \in executed /\ Head(rcvq[c]).len # 0
  BY <1>3, <1>4, DatagramFacts DEF AsReply, Pending
<1>6. m \in Messages /\ m.call = <<c, n[c]>>
  BY <1>3, <1>5, RecvfromType DEF Recvfrom
<1>7. AboutCall' = [AboutCall EXCEPT ![c] = Append(AboutCall[c], <<c, n[c]>>)]
  <2>1. /\ got[c] \in Seq(Messages) /\ got'[c] = Append(got[c], m)
        /\ \A b \in Clients \ {c} : got'[b] = got[b]
    BY <1>1, <1>2
  <2>2. [i \in DOMAIN got'[c] |-> got'[c][i].call]
          = Append([i \in DOMAIN got[c] |-> got[c][i].call], <<c, n[c]>>)
    BY <1>6, <2>1
  <2>3. \A b \in Clients : AboutCall'[b] = IF b = c THEN Append(AboutCall[c], <<c, n[c]>>) ELSE AboutCall[b]
    BY <2>1, <2>2 DEF AboutCall
  <2>4. DOMAIN AboutCall = Clients /\ DOMAIN AboutCall' = Clients
    BY DEF AboutCall
  <2> QED
    BY <2>3, <2>4 DEF AboutCall
<1>8. n[c] = Len(AboutCall[c]) + 1
  <2>1. n[c] = Len(got[c]) + 1 /\ got[c] \in Seq(Messages)
    BY <1>1, <1>2 DEF OneCall, Counted
  <2> QED
    BY <2>1 DEF AboutCall
<1> QED
  BY <1>1, <1>5, <1>7, <1>8 DEF R!Answer, R!Outstanding, R!Current

\* Every step of the system is a step of Rpc or none.
LEMMA RpcStep ==
  ASSUME ~Timeouts, 0 \notin RepLens, TypeOK, OneCall, [Next]_vars
  PROVE  [R!Next]_(R!vars)
<1>1. ASSUME UNCHANGED <<n, waiting, got, executed>>
      PROVE  UNCHANGED R!vars
  BY <1>1 DEF R!vars, AboutCall
<1>l. ASSUME NEW c \in Clients
      PROVE  n[c] = IF waiting[c] THEN Len(AboutCall[c]) + 1 ELSE Len(AboutCall[c])
  <2>1. n[c] = (IF waiting[c] THEN Len(got[c]) + 1 ELSE Len(got[c])) /\ got[c] \in Seq(Messages)
    BY <1>l DEF OneCall, Counted, TypeOK
  <2> QED
    BY <2>1 DEF AboutCall
<1>2. ASSUME NEW c \in Clients, Request(c)
      PROVE  R!Next
  <2>1. R!Ask(c)
    BY <1>2, <1>l DEF R!Ask, Request, serverVars, AboutCall
  <2> QED
    BY <2>1 DEF R!Next
<1>3. ASSUME NEW c \in Clients, RequestReturns(c)
      PROVE  R!Next
  BY <1>3, ReturnAnswers DEF R!Next
<1>4. CASE OnceCalls
  <2>1. job.m.call \in Calls /\ Pending(job.m.call) /\ job.m.call \notin executed
    BY <1>4 DEF OnceCalls, TypeOK, Messages, OneCall, OfPendingCall
  <2>2. PICK c \in Clients : job.m.call = <<c, n[c]>> /\ waiting[c]
    BY <2>1 DEF Calls, Pending
  <2>3. R!Execute(c)
    BY <1>4, <1>l, <2>1, <2>2
    DEF R!Execute, R!Outstanding, R!Current, OnceCalls, clientVars, AboutCall
  <2> QED
    BY <2>3 DEF R!Next
<1>5. ASSUME NEW c \in Clients, RequestTimesOut(c)
      PROVE  FALSE
  BY <1>5 DEF RequestTimesOut
<1>6. ASSUME \/ ServerStart \/ \E f \in Callbacks : RegisterCb(f)
             \/ OnceFrom \/ OnceThrows \/ OnceSends
             \/ ServerCrash
             \/ \E d \in wire : Deliver(d) \/ Lose(d)
      PROVE  UNCHANGED <<n, waiting, got, executed>>
  BY <1>6
  DEF ServerStart, RegisterCb, OnceFrom, OnceReceives, OnceThrows, OnceSends,
      ServerCrash, Deliver, Lose, clientVars, serverVars
<1>7. CASE UNCHANGED vars
  BY <1>1, <1>7 DEF vars, clientVars, serverVars
<1> QED
  BY <1>1, <1>2, <1>3, <1>4, <1>5, <1>6, <1>7 DEF Next, Client, Once

\* ImplementsRpc: as long as no callback returns an empty message, blocking
\* clients see Rpc: the callback runs at most once on a call, before the call
\* returns, and the call returns the answer to itself.
THEOREM ImplementsRpc ==
  ASSUME ~Timeouts, ~Duplicating, 0 \notin RepLens
  PROVE  Spec => RefinesRpc
<1>1. Init => R!Init
  BY DEF Init, R!Init, AboutCall
<1>2. TypeOK /\ (OneCall /\ CallMatch) /\ [Next]_vars => [R!Next]_(R!vars)
  BY RpcStep
<1> QED
  BY <1>1, <1>2, Typing, OneCallAlways, PTL DEF Spec, RefinesRpc, R!Spec

=============================================================================
