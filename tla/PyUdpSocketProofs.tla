-------------------------- MODULE PyUdpSocketProofs --------------------------
(***************************************************************************)
(* Proofs about PyUdpSocket, for any number of objects, addresses,         *)
(* callbacks and messages: the typing invariant, HeardByAll,               *)
(* PublishReaches, OwnAnswers and AnswersOnce.                             *)
(*                                                                         *)
(* The second and the third are about a loop over a list that others       *)
(* append to meanwhile.  UdpInv says how far a loop has come: what is      *)
(* still due is at its position or later, and what was sent is what stands *)
(* before it.  The last two are about where a request and its answer can   *)
(* be (OwnInv): with one callback, at one place at a time, and nowhere     *)
(* when it has not been sent or its answer has been returned.              *)
(***************************************************************************)
EXTENDS PyUdpSocket, SequenceTheorems, TLAPS

Places ==
  /\ DOMAIN at = Objects
  /\ \A s \in Servers : at[s] \in {"off", "idle", "recv", "calls", "replies", "raised", "over"}
  /\ \A c \in Callers : at[c] \in {"idle", "sends", "recv"}

Types ==
  /\ Places
  /\ kind \in {"ps", "rr"} /\ timed \subseteq Objects
  /\ cb \in Seq(Callbacks)
  /\ addr \in [Servers -> Addrs \cup {NoAddr}]
  /\ event \in [Servers -> BOOLEAN]
  /\ mail \in [Objects -> Seq(Datagrams)]
  /\ got \in [Servers -> Datagrams \cup {NoDatagram}]
  /\ turn \in [Servers -> Nat]
  /\ replied \in [Servers -> 0..NUM]
  /\ due \in [Servers -> SUBSET Callbacks]
  /\ clientaddr \in Seq(Addrs)
  /\ sent \in [Callers -> Nat]
  /\ to \in [Callers -> Seq(Addrs)]
  /\ next \in [Callers -> Nat]
  /\ part \in [Callers -> 0..NUM]
  /\ answers \in [Callers -> Seq(Datagrams \cup {NoDatagram})]
  /\ reached \in [Callers -> SUBSET Addrs]

ServerOK(s) ==
  /\ addr[s] = NoAddr <=> at[s] = "off"
  /\ at[s] = "off" => mail[s] = <<>>
  /\ at[s] = "calls" =>
       /\ got[s] \in Datagrams
       /\ turn[s] \in 1..Len(cb) + 1
       /\ \A f \in due[s] : \E k \in DOMAIN cb : k >= turn[s] /\ cb[k] = f
  /\ at[s] \in {"replies", "raised"} =>
       /\ got[s] \in Datagrams
       /\ turn[s] \in DOMAIN cb
       /\ "long" \in Returns(cb[turn[s]])
       /\ \A f \in due[s] : \E k \in DOMAIN cb : k > turn[s] /\ cb[k] = f
  /\ at[s] \notin {"calls", "replies", "raised"} => due[s] = {}

\* No callback is in the list twice.
Different == \A j, k \in DOMAIN cb : cb[j] = cb[k] => j = k

Distinct ==
  /\ \A j, k \in DOMAIN clientaddr : clientaddr[j] = clientaddr[k] => j = k
  /\ kind = "rr" => \A c \in Callers : Len(to[c]) <= 1

\* Where the loop of publish(), or the sendto() of request(), is.
Sending(c) ==
  /\ next[c] > 0
  /\ kind = "ps" => /\ Len(to[c]) <= Len(clientaddr)
                    /\ \A k \in DOMAIN to[c] : to[c][k] = clientaddr[k]
  /\ IF IsLong(c)
     THEN next[c] = 1
     ELSE /\ part[c] = 0
          /\ \A k \in DOMAIN Targets(c) : k < next[c] => Targets(c)[k] \in reached[c]

CallerOK(c) ==
  /\ sent[c] <= Len(Sizes[c])
  /\ Len(answers[c]) <= sent[c]
  /\ at[c] # "idle" => Len(answers[c]) < sent[c]
  /\ next[c] <= Len(Targets(c)) + 1
  /\ at[c] = "sends" => Sending(c)
  /\ IsLong(c) => \A a \in reached[c] : Targets(c) # <<>> /\ a = Targets(c)[1]
  /\ at[c] # "sends" /\ sent[c] > 0 /\ ~IsLong(c) =>
       \A k \in DOMAIN to[c] : to[c][k] \in reached[c]

UdpInv ==
  /\ Types
  /\ Different
  /\ \A s \in Servers : ServerOK(s)
  /\ Distinct
  /\ \A c \in Callers : CallerOK(c)

-----------------------------------------------------------------------------
(***************************************************************************)
(* Why the answers are a Request's own.  The datagram of a request is in a *)
(* buffer, or in the loop of a Reply that has not called its callback yet, *)
(* or is the answer in the buffer of the Request.  With one callback, and  *)
(* no message in parts, there is one such place at a time; and it has been *)
(* sent, and not returned by request().                                    *)
(***************************************************************************)
About(q, d) == {i \in DOMAIN q : q[i] = d}
InBuffer(o, d) == About(mail[o], d) # {}
Working(s, d) == at[s] = "calls" /\ turn[s] = 1 /\ got[s] = d

\* c has sent the request of its last call.
Asked(c) == at[c] # "sends" \/ next[c] > 1

Sent(d) == \/ d.n < sent[d.from]
           \/ d.n = sent[d.from] /\ Asked(d.from)
Waiting(d) == Sent(d) /\ \A k \in DOMAIN answers[d.from] : answers[d.from][k] # d

OneInBuffers(d) ==
  /\ \A o \in Objects : \A i, j \in About(mail[o], d) : i = j
  /\ \A o, p \in Objects : InBuffer(o, d) /\ InBuffer(p, d) => o = p

OneAtWork(d) ==
  /\ \A s, t \in Servers : Working(s, d) /\ Working(t, d) => s = t
  /\ \A s \in Servers, o \in Objects : ~(Working(s, d) /\ InBuffer(o, d))

Unanswered(d) ==
  (\E o \in Objects : InBuffer(o, d)) \/ (\E s \in Servers : Working(s, d)) => Waiting(d)

UnderWay(d) == OneInBuffers(d) /\ OneAtWork(d) /\ Unanswered(d)

\* What request() has returned, at most one thing a call.
Returned(c) ==
  /\ Len(answers[c]) = IF at[c] = "idle" THEN sent[c] ELSE sent[c] - 1
  /\ \A k \in DOMAIN answers[c] : answers[c][k] # NoDatagram =>
       answers[c][k].from = c /\ answers[c][k].n \in 1..k
  /\ \A j, k \in DOMAIN answers[c] :
       answers[c][k] # NoDatagram /\ answers[c][j] = answers[c][k] => j = k

InStep(c) == \A k \in DOMAIN answers[c] : answers[c][k] = [from |-> c, n |-> k]

Answered(c) == Returned(c) /\ (c \notin timed => InStep(c))

OneCall(c) == (\A d \in Datagrams : d.from = c => UnderWay(d)) /\ Answered(c)

\* Only replies are in the buffer of a Request, and nothing in that of a Publisher.
ToItself(c) == \A i \in DOMAIN mail[c] : mail[c][i].from = c
NoAnswers(c) == answers[c] = <<>> /\ at[c] # "recv"

OwnInv ==
  /\ UdpInv
  /\ \A c \in Callers : ToItself(c)
  /\ kind = "ps" => \A c \in Callers : NoAnswers(c)
  /\ kind = "rr" /\ OneShort => \A c \in Callers : NoneLong(c) => OneCall(c)

-----------------------------------------------------------------------------
LEMMA Lists ==
  ASSUME NEW S, NEW q \in Seq(S)
  PROVE  /\ q # <<>> => Head(q) \in S /\ Tail(q) \in Seq(S)
         /\ \A e \in S :
              /\ Append(q, e) \in Seq(S) /\ Len(Append(q, e)) = Len(q) + 1
              /\ \A k \in DOMAIN q : k \in DOMAIN Append(q, e) /\ Append(q, e)[k] = q[k]
              /\ \A k \in DOMAIN Append(q, e) :
                   \/ k \in DOMAIN q /\ Append(q, e)[k] = q[k]
                   \/ k = Len(q) + 1 /\ Append(q, e)[k] = e
OBVIOUS

LEMMA DatagramFacts ==
  ASSUME NEW d \in Datagrams
  PROVE  d.from \in Callers /\ d.n \in DOMAIN Sizes[d.from]
BY DEF Datagrams

\* What is sent to an address changes one buffer, of a server with that address.
LEMMA PutAtFacts ==
  ASSUME Types, NEW a \in Addrs, NEW d \in Datagrams, PutAt(a, d)
  PROVE  /\ mail' \in [Objects -> Seq(Datagrams)]
         /\ \A o \in Objects : mail'[o] # mail[o] => o \in Servers /\ addr[o] = a
<1>1. CASE UNCHANGED mail
  BY <1>1 DEF Types
<1>2. ASSUME NEW s \in Servers, addr[s] = a, Put(s, d)
      PROVE  /\ mail' \in [Objects -> Seq(Datagrams)]
             /\ \A o \in Objects : mail'[o] # mail[o] => o \in Servers /\ addr[o] = a
  <2>1. mail[s] \in Seq(Datagrams) /\ s \in Objects
    BY DEF Types, Objects
  <2>2. Append(mail[s], d) \in Seq(Datagrams)
    BY <2>1
  <2> QED
    BY <1>2, <2>2 DEF Types, Put
<1> QED
  BY <1>1, <1>2 DEF PutAt

\* A reply changes the buffer of a caller, or nothing.
LEMMA AnswerFacts ==
  ASSUME Types, NEW d \in Datagrams, Put(d.from, d)
  PROVE  /\ mail' \in [Objects -> Seq(Datagrams)]
         /\ \A s \in Servers : mail'[s] = mail[s]
<1> USE UdpAssumption
<1>1. d.from \in Callers /\ d.from \in Objects /\ d.from \notin Servers
  BY DatagramFacts DEF Objects
<1>2. Append(mail[d.from], d) \in Seq(Datagrams)
  BY <1>1 DEF Types
<1> QED
  BY <1>1, <1>2 DEF Types, Put, Objects

LEMMA RepliesFacts ==
  ASSUME Types, NEW r, NEW d \in Datagrams, Replies(r, d)
  PROVE  /\ mail' \in [Objects -> Seq(Datagrams)]
         /\ \A s \in Servers : mail'[s] = mail[s]
BY AnswerFacts DEF Replies, Types

-----------------------------------------------------------------------------
(* The places the threads go to. *)

LEMMA Moves ==
  ASSUME Types, NEW o \in Objects, NEW place, Goto(o, place)
  PROVE  /\ DOMAIN at' = Objects
         /\ at'[o] = place
         /\ \A p \in Objects : p # o => at'[p] = at[p]
BY DEF Types, Places, Goto

LEMMA Members ==
  /\ Servers \subseteq Objects /\ Callers \subseteq Objects
  /\ Servers \cap Callers = {}
  /\ NUM \in Nat \ {0} /\ NoAddr \notin Addrs
  /\ \A c \in Callers : Len(Sizes[c]) \in Nat /\ DOMAIN Sizes[c] = 1..Len(Sizes[c])
BY UdpAssumption DEF Objects

LEMMA ServerPlaces ==
  ASSUME Types, NEW s \in Servers, NEW place \in {"off", "idle", "recv", "calls", "replies", "raised", "over"},
         Goto(s, place)
  PROVE  Places'
<1>1. s \in Objects /\ Places
  BY Members DEF Types
<1>2. /\ DOMAIN at' = Objects /\ at'[s] = place
      /\ \A p \in Objects : p # s => at'[p] = at[p]
  BY <1>1, Moves
<1> QED
  BY Members, <1>1, <1>2 DEF Places

LEMMA CallerPlaces ==
  ASSUME Types, NEW c \in Callers, NEW place \in {"idle", "sends", "recv"}, Goto(c, place)
  PROVE  Places'
<1>1. c \in Objects /\ Places
  BY Members DEF Types
<1>2. /\ DOMAIN at' = Objects /\ at'[c] = place
      /\ \A p \in Objects : p # c => at'[p] = at[p]
  BY <1>1, Moves
<1> QED
  BY Members, <1>1, <1>2 DEF Places

\* A server's step changes its own place and variables, and the list.
LEMMA ServerFrame ==
  ASSUME Types, NEW s \in Servers, Server(s)
  PROVE  /\ UNCHANGED <<kind, timed, callerVars>>
         /\ \A o \in Objects \ {s} : at'[o] = at[o]
         /\ cb' = cb \/ \E f \in Callbacks : RegisterCb(s, f)
<1>1. \A place : Goto(s, place) => \A o \in Objects \ {s} : at'[o] = at[o]
  BY DEF Types, Places, Goto
<1>2. CASE \E a \in Addrs : ServerStarts(s, a)
  BY <1>1, <1>2 DEF ServerStarts
<1>3. CASE \E f \in Callbacks : RegisterCb(s, f)
  BY <1>3 DEF RegisterCb
<1>4. CASE Loops(s) \/ Receives(s) \/ ReceivesNothing(s)
  BY <1>1, <1>4 DEF Loops, Receives, ReceivesNothing, serverVars
<1>5. CASE Calls(s) \/ CallsLong(s) \/ RepliesPart(s)
  BY <1>1, <1>5 DEF Calls, CallsLong, RepliesPart
<1>6. CASE ReplyRaises(s) \/ LoopsAgain(s) \/ Stops(s) \/ ServerEnds(s)
  BY <1>1, <1>6 DEF ReplyRaises, LoopsAgain, Stops, ServerEnds
<1> QED
  BY <1>2, <1>3, <1>4, <1>5, <1>6 DEF Server

\* The steps of servers.
LEMMA ServerTypes ==
  ASSUME UdpInv, NEW s \in Servers, Server(s)
  PROVE  Types'
<1> USE Members
<1>t. Types /\ ServerOK(s)
  BY DEF UdpInv
<1>1. ASSUME NEW a \in Addrs, ServerStarts(s, a)
      PROVE  Types'
  BY <1>t, <1>1, ServerPlaces DEF ServerStarts, Types, callerVars
<1>2. ASSUME NEW f \in Callbacks, RegisterCb(s, f)
      PROVE  Types'
  <2>1. Append(cb, f) \in Seq(Callbacks)
    BY <1>t DEF Types
  <2> QED
    BY <1>t, <1>2, <2>1 DEF RegisterCb, Types, Places, callerVars
<1>3. CASE Loops(s)
  <2>1. PICK place \in {"recv", "over"} : Goto(s, place)
    BY <1>3 DEF Loops
  <2> QED
    BY <1>t, <1>3, <2>1, ServerPlaces DEF Loops, Types, callerVars
<1>4. CASE Receives(s)
  <2>1. mail[s] # <<>> /\ mail[s] \in Seq(Datagrams)
    BY <1>t, <1>4 DEF Receives, Types
  <2>2. Head(mail[s]) \in Datagrams /\ Tail(mail[s]) \in Seq(Datagrams)
    BY <2>1, Lists
  <2>3. {cb[k] : k \in DOMAIN cb} \subseteq Callbacks
    BY <1>t DEF Types
  <2>4. PICK place \in {"idle", "calls"} : Goto(s, place)
    BY <1>4 DEF Receives
  <2>5. /\ mail' = [mail EXCEPT ![s] = Tail(mail[s])]
        /\ UNCHANGED <<kind, timed, cb, addr, event, replied, callerVars>>
        /\ \/ UNCHANGED <<got, turn, due>>
           \/ /\ got' = [got EXCEPT ![s] = Head(mail[s])]
              /\ turn' = [turn EXCEPT ![s] = 1]
              /\ due' = [due EXCEPT ![s] = {cb[k] : k \in DOMAIN cb}]
    BY <1>4 DEF Receives
  <2>6. Places'
    BY <1>t, <2>4, ServerPlaces
  <2>7. /\ mail' \in [Objects -> Seq(Datagrams)]
        /\ got' \in [Servers -> Datagrams \cup {NoDatagram}]
        /\ turn' \in [Servers -> Nat]
        /\ due' \in [Servers -> SUBSET Callbacks]
    <3>1. /\ mail \in [Objects -> Seq(Datagrams)]
          /\ got \in [Servers -> Datagrams \cup {NoDatagram}]
          /\ turn \in [Servers -> Nat]
          /\ due \in [Servers -> SUBSET Callbacks]
      BY <1>t DEF Types
    <3>2. mail' \in [Objects -> Seq(Datagrams)]
      BY <2>2, <2>5, <3>1
    <3>3. CASE UNCHANGED <<got, turn, due>>
      BY <3>1, <3>2, <3>3
    <3>4. CASE /\ got' = [got EXCEPT ![s] = Head(mail[s])]
               /\ turn' = [turn EXCEPT ![s] = 1]
               /\ due' = [due EXCEPT ![s] = {cb[k] : k \in DOMAIN cb}]
      <4> DEFINE D == {cb[k] : k \in DOMAIN cb}
                 h == Head(mail[s])
      <4>1. got' = [got EXCEPT ![s] = h] /\ due' = [due EXCEPT ![s] = D]
        BY <3>4
      <4>2. h \in Datagrams \cup {NoDatagram} /\ D \in SUBSET Callbacks
        BY <2>2, <2>3
      <4> HIDE DEF D, h
      <4>3. got' \in [Servers -> Datagrams \cup {NoDatagram}]
        BY <3>1, <4>1, <4>2
      <4>4. due' \in [Servers -> SUBSET Callbacks]
        BY <3>1, <4>1, <4>2
      <4>5. turn' \in [Servers -> Nat]
        BY <3>1, <3>4
      <4> QED
        BY <3>2, <4>3, <4>4, <4>5
    <3> QED
      BY <2>5, <3>3, <3>4
  <2> QED
    BY <1>t, <2>5, <2>6, <2>7 DEF Types, callerVars
<1>5. CASE Calls(s)
  <2>1. PICK r : Called(s, r) /\ Replies(r, got[s])
    BY <1>5 DEF Calls
  <2>2. /\ got[s] \in Datagrams
        /\ due' = [due EXCEPT ![s] = due[s] \ {cb[turn[s]]}]
        /\ turn' = [turn EXCEPT ![s] = turn[s] + 1]
        /\ UNCHANGED <<kind, timed, at, cb, addr, event, got, replied, callerVars>>
    BY <1>t, <1>5, <2>1 DEF Calls, Called, ServerOK
  <2>3. mail' \in [Objects -> Seq(Datagrams)]
    BY <1>t, <2>1, <2>2, RepliesFacts
  <2>4. turn' \in [Servers -> Nat]
    <3>1. turn \in [Servers -> Nat]
      BY <1>t DEF Types
    <3> QED
      BY <2>2, <3>1
  <2>5. due' \in [Servers -> SUBSET Callbacks]
    <3>1. due \in [Servers -> SUBSET Callbacks]
      BY <1>t DEF Types
    <3>2. due[s] \ {cb[turn[s]]} \in SUBSET Callbacks
      BY <3>1
    <3> QED
      BY <2>2, <3>1, <3>2
  <2>6. Places'
    BY <1>t, <2>2 DEF Types, Places
  <2> QED
    BY <1>t, <2>2, <2>3, <2>4, <2>5, <2>6 DEF Types, callerVars
<1>6. CASE Stops(s)
  BY <1>t, <1>6 DEF Stops, Types, Places, callerVars
<1>7. CASE ServerEnds(s) \/ LoopsAgain(s)
  <2>1. PICK place \in {"idle", "off"} : Goto(s, place)
    BY <1>7 DEF ServerEnds, LoopsAgain
  <2>2. Places'
    BY <1>t, <2>1, ServerPlaces
  <2>3. /\ got' = [got EXCEPT ![s] = NoDatagram] /\ turn' = [turn EXCEPT ![s] = 0]
        /\ due' = [due EXCEPT ![s] = {}]
        /\ addr' = addr \/ addr' = [addr EXCEPT ![s] = NoAddr]
        /\ mail' = mail \/ mail' = [mail EXCEPT ![s] = <<>>]
        /\ UNCHANGED <<kind, timed, cb, event, replied, callerVars>>
    BY <1>7 DEF ServerEnds, LoopsAgain, Forgets
  <2>4. addr' \in [Servers -> Addrs \cup {NoAddr}]
    BY <1>t, <2>3 DEF Types
  <2>5. mail' \in [Objects -> Seq(Datagrams)]
    <3>1. mail \in [Objects -> Seq(Datagrams)] /\ <<>> \in Seq(Datagrams)
      BY <1>t DEF Types
    <3> QED
      BY <2>3, <3>1
  <2>6. /\ got' \in [Servers -> Datagrams \cup {NoDatagram}]
        /\ turn' \in [Servers -> Nat]
        /\ due' \in [Servers -> SUBSET Callbacks]
    BY <1>t, <2>3 DEF Types
  <2> QED
    BY <1>t, <2>2, <2>3, <2>4, <2>5, <2>6 DEF Types, callerVars
<1>8. CASE ReceivesNothing(s)
  BY <1>t, <1>8, ServerPlaces DEF ReceivesNothing, Types, serverVars, callerVars
<1>9. CASE CallsLong(s)
  BY <1>t, <1>9, ServerPlaces DEF CallsLong, Called, Types, callerVars
<1>10. CASE RepliesPart(s)
  <2>1. /\ at[s] = "replies" /\ Put(got[s].from, got[s]) /\ replied[s] < NUM
        /\ replied' = [replied EXCEPT ![s] = replied[s] + 1]
        /\ UNCHANGED <<kind, timed, at, cb, addr, event, got, turn, due, callerVars>>
    BY <1>10 DEF RepliesPart
  <2>2. mail' \in [Objects -> Seq(Datagrams)]
    BY <1>t, <2>1, AnswerFacts DEF ServerOK
  <2>3. replied \in [Servers -> 0..NUM] /\ replied[s] + 1 \in 0..NUM
    BY <1>t, <2>1 DEF Types
  <2>4. replied' \in [Servers -> 0..NUM]
    BY <2>1, <2>3
  <2>5. Places'
    BY <1>t, <2>1 DEF Types, Places
  <2> QED
    BY <1>t, <2>1, <2>2, <2>4, <2>5 DEF Types, callerVars
<1>11. CASE ReplyRaises(s)
  <2>1. 0 \in 0..NUM
    OBVIOUS
  <2>2. replied' \in [Servers -> 0..NUM]
    BY <1>t, <1>11, <2>1 DEF ReplyRaises, Types
  <2>3. Places'
    BY <1>t, <1>11, ServerPlaces DEF ReplyRaises
  <2> QED
    BY <1>t, <1>11, <2>2, <2>3 DEF ReplyRaises, Types, callerVars
<1> QED
  BY <1>1, <1>2, <1>3, <1>4, <1>5, <1>6, <1>7, <1>8, <1>9, <1>10, <1>11 DEF Server

\* The callbacks that are due when one has been called stand after it.
LEMMA DueLater ==
  ASSUME Types, NEW s \in Servers, ServerOK(s), at[s] = "calls",
         NEW f \in due[s] \ {cb[turn[s]]}
  PROVE  \E k \in DOMAIN cb : k > turn[s] /\ cb[k] = f
<1>1. PICK k \in DOMAIN cb : k >= turn[s] /\ cb[k] = f
  BY DEF ServerOK
<1>2. k # turn[s] /\ k \in Nat /\ turn[s] \in Nat
  BY <1>1 DEF Types
<1> QED
  BY <1>1, <1>2

\* Other servers keep all they have.
LEMMA OtherServers ==
  ASSUME UdpInv, NEW s \in Servers, Server(s), NEW t \in Servers, t # s
  PROVE  /\ addr'[t] = addr[t] /\ mail'[t] = mail[t] /\ got'[t] = got[t]
         /\ turn'[t] = turn[t] /\ due'[t] = due[t]
<1> USE Members
<1>t. Types /\ ServerOK(s)
  BY DEF UdpInv
<1>1. CASE \E a \in Addrs : ServerStarts(s, a)
  BY <1>t, <1>1 DEF ServerStarts, Types
<1>2. CASE \E f \in Callbacks : RegisterCb(s, f)
  BY <1>2 DEF RegisterCb
<1>3. CASE Loops(s)
  BY <1>t, <1>3 DEF Loops, Types
<1>4. CASE Receives(s)
  BY <1>t, <1>4 DEF Receives, Types
<1>5. CASE Calls(s)
  <2>1. PICK r : Called(s, r) /\ Replies(r, got[s])
    BY <1>5 DEF Calls
  <2>2. got[s] \in Datagrams
    BY <1>t, <2>1 DEF Called, ServerOK
  <2>3. mail'[t] = mail[t]
    BY <1>t, <2>1, <2>2, RepliesFacts
  <2> QED
    BY <1>t, <1>5, <2>1, <2>3 DEF Calls, Called, Types
<1>6. CASE CallsLong(s) \/ Stops(s) \/ ReceivesNothing(s) \/ ReplyRaises(s)
  BY <1>t, <1>6 DEF CallsLong, Called, Stops, ReceivesNothing, ReplyRaises, serverVars, Types
<1>7. CASE RepliesPart(s)
  <2>1. got[s] \in Datagrams
    BY <1>t, <1>7 DEF RepliesPart, ServerOK
  <2>2. mail'[t] = mail[t]
    BY <1>t, <1>7, <2>1, AnswerFacts DEF RepliesPart
  <2> QED
    BY <1>7, <2>2 DEF RepliesPart
<1>8. CASE LoopsAgain(s) \/ ServerEnds(s)
  BY <1>t, <1>8 DEF LoopsAgain, ServerEnds, Forgets, Types
<1> QED
  BY <1>1, <1>2, <1>3, <1>4, <1>5, <1>6, <1>7, <1>8 DEF Server

\* Its list is the same or longer.
LEMMA ServerStays ==
  ASSUME Types, NEW t \in Servers, ServerOK(t), kind' = kind,
         cb' = cb \/ \E f \in Callbacks : cb' = Append(cb, f),
         at'[t] = at[t], addr'[t] = addr[t], mail'[t] = mail[t], got'[t] = got[t],
         turn'[t] = turn[t], due'[t] = due[t]
  PROVE  ServerOK(t)'
<1>1. cb \in Seq(Callbacks) /\ Len(cb) \in Nat /\ turn[t] \in Nat
  BY DEF Types
<1>2. /\ DOMAIN cb \subseteq DOMAIN cb' /\ Len(cb') >= Len(cb) /\ Len(cb') \in Nat
      /\ \A k \in DOMAIN cb : cb'[k] = cb[k]
  <2>1. CASE cb' = cb
    BY <1>1, <2>1
  <2>2. ASSUME NEW f \in Callbacks, cb' = Append(cb, f)
        PROVE  /\ DOMAIN cb \subseteq DOMAIN cb' /\ Len(cb') >= Len(cb) /\ Len(cb') \in Nat
               /\ \A k \in DOMAIN cb : cb'[k] = cb[k]
    BY <1>1, <2>2, Lists
  <2> QED
    BY <2>1, <2>2
<1>3. CASE at[t] = "calls"
  <2>1. \A f \in due'[t] : \E k \in DOMAIN cb' : k >= turn'[t] /\ cb'[k] = f
    BY <1>2, <1>3 DEF ServerOK
  <2>2. turn'[t] \in 1..Len(cb') + 1
    BY <1>1, <1>2, <1>3 DEF ServerOK
  <2> QED
    BY <1>3, <2>1, <2>2 DEF ServerOK
<1>4. CASE at[t] \in {"replies", "raised"}
  <2>1. \A f \in due'[t] : \E k \in DOMAIN cb' : k > turn'[t] /\ cb'[k] = f
    BY <1>2, <1>4 DEF ServerOK
  <2>2. turn'[t] \in DOMAIN cb' /\ cb'[turn'[t]] = cb[turn[t]]
    BY <1>2, <1>4 DEF ServerOK
  <2>3. ("long" \in Returns(cb[turn[t]]))'
    BY <1>4, <2>2 DEF ServerOK, Returns
  <2> QED
    BY <1>4, <2>1, <2>2, <2>3 DEF ServerOK
<1>5. CASE at[t] \notin {"calls", "replies", "raised"}
  BY <1>5 DEF ServerOK
<1> QED
  BY <1>3, <1>4, <1>5

LEMMA ServerSteps ==
  ASSUME UdpInv, NEW s \in Servers, Server(s), NEW t \in Servers
  PROVE  ServerOK(t)'
<1> USE Members
<1>t. Types /\ ServerOK(s) /\ ServerOK(t) /\ cb \in Seq(Callbacks) /\ Len(cb) \in Nat
  <2>1. Types /\ ServerOK(s) /\ ServerOK(t)
    BY DEF UdpInv
  <2>2. cb \in Seq(Callbacks)
    BY <2>1 DEF Types
  <2>3. Len(cb) \in Nat
    BY <2>2
  <2> QED
    BY <2>1, <2>2, <2>3
<1>k. kind' = kind /\ (cb' = cb \/ \E f \in Callbacks : cb' = Append(cb, f))
  BY <1>t, ServerFrame DEF RegisterCb
<1>0. CASE t # s
  <2>1. at'[t] = at[t]
    BY <1>t, <1>0, ServerFrame
  <2> QED
    BY <1>t, <1>k, <1>0, <2>1, OtherServers, ServerStays
<1> SUFFICES ASSUME t = s PROVE ServerOK(s)'
  BY <1>0
<1>1. ASSUME NEW a \in Addrs, ServerStarts(s, a)
      PROVE  ServerOK(s)'
  <2>1. at'[s] = "idle" /\ addr'[s] = a /\ a # NoAddr /\ due'[s] = due[s] /\ at[s] = "off"
    BY <1>t, <1>1, Moves DEF ServerStarts, Types
  <2> QED
    BY <1>t, <2>1 DEF ServerOK
<1>2. ASSUME NEW f \in Callbacks, RegisterCb(s, f)
      PROVE  ServerOK(s)'
  BY <1>t, <1>k, <1>2, ServerStays DEF RegisterCb
<1>3. CASE Loops(s)
  <2>1. at'[s] \in {"recv", "over"} /\ addr'[s] = addr[s] /\ due'[s] = due[s]
        /\ at[s] \in {"idle", "calls"}
    BY <1>t, <1>3, Moves DEF Loops, Types
  <2>2. due[s] = {}
    <3>1. CASE at[s] = "calls" /\ turn[s] > Len(cb)
      <4>1. turn[s] \in Nat /\ \A k \in DOMAIN cb : ~(k >= turn[s])
        BY <1>t, <3>1 DEF Types
      <4> QED
        BY <1>t, <3>1, <4>1 DEF ServerOK
    <3>2. CASE at[s] = "idle"
      BY <1>t, <3>2 DEF ServerOK
    <3> QED
      BY <1>3, <3>1, <3>2 DEF Loops
  <2> QED
    BY <1>t, <2>1, <2>2 DEF ServerOK
<1>4. CASE Receives(s)
  <2>1. /\ at[s] = "recv" /\ mail[s] # <<>> /\ mail[s] \in Seq(Datagrams)
        /\ UNCHANGED <<cb, addr>>
    BY <1>t, <1>4 DEF Receives, Types
  <2>2. CASE Goto(s, "idle") /\ UNCHANGED <<got, turn, due>>
    <3>1. at'[s] = "idle"
      BY <1>t, <2>2, Moves
    <3> QED
      BY <1>t, <2>1, <2>2, <3>1 DEF ServerOK
  <2>3. CASE /\ Goto(s, "calls")
             /\ got' = [got EXCEPT ![s] = Head(mail[s])]
             /\ turn' = [turn EXCEPT ![s] = 1]
             /\ due' = [due EXCEPT ![s] = {cb[k] : k \in DOMAIN cb}]
    <3>1. Head(mail[s]) \in Datagrams
      BY <2>1, Lists
    <3>2. /\ at'[s] = "calls" /\ got'[s] = Head(mail[s]) /\ turn'[s] = 1
          /\ due'[s] = {cb[k] : k \in DOMAIN cb}
      BY <1>t, <2>3, Moves DEF Types
    <3>3. \A f \in due'[s] : \E k \in DOMAIN cb : k >= 1 /\ cb[k] = f
      BY <1>t, <3>2
    <3>4. 1 \in 1..Len(cb) + 1
      BY <1>t
    <3> QED
      BY <1>t, <2>1, <3>1, <3>2, <3>3, <3>4 DEF ServerOK
  <2> QED
    BY <1>4, <2>2, <2>3 DEF Receives
<1>5. CASE Calls(s)
  <2>1. /\ at[s] = "calls" /\ got[s] \in Datagrams /\ turn[s] <= Len(cb)
        /\ due'[s] = due[s] \ {cb[turn[s]]} /\ turn'[s] = turn[s] + 1
        /\ UNCHANGED <<at, cb, addr, got>>
    BY <1>t, <1>5 DEF Calls, Called, ServerOK, Types
  <2>2. turn[s] \in 1..Len(cb) + 1 /\ addr[s] # NoAddr
    BY <1>t, <2>1 DEF ServerOK
  <2>3. turn'[s] \in 1..Len(cb) + 1
    BY <1>t, <2>1, <2>2
  <2>4. \A f \in due'[s] : \E k \in DOMAIN cb : k >= turn'[s] /\ cb[k] = f
    <3> SUFFICES ASSUME NEW f \in due[s] \ {cb[turn[s]]}
                 PROVE  \E k \in DOMAIN cb : k >= turn[s] + 1 /\ cb[k] = f
      BY <2>1
    <3>1. PICK k \in DOMAIN cb : k > turn[s] /\ cb[k] = f
      BY <1>t, <2>1, DueLater
    <3> QED
      BY <1>t, <2>2, <3>1
  <2> QED
    BY <1>t, <2>1, <2>2, <2>3, <2>4 DEF ServerOK
<1>6. CASE Stops(s)
  BY <1>t, <1>k, <1>6, ServerStays DEF Stops
<1>7. CASE ServerEnds(s) \/ LoopsAgain(s)
  <2>1. due'[s] = {} /\ at[s] \in {"over", "raised"}
    BY <1>t, <1>7 DEF ServerEnds, LoopsAgain, Forgets, Types
  <2>2. CASE ServerEnds(s)
    <3>1. at'[s] = "off" /\ addr'[s] = NoAddr /\ mail'[s] = <<>>
      BY <1>t, <2>2, Moves DEF ServerEnds, Types
    <3> QED
      BY <2>1, <3>1 DEF ServerOK
  <2>3. CASE LoopsAgain(s)
    <3>1. at'[s] = "idle" /\ addr'[s] = addr[s]
      BY <1>t, <2>3, Moves DEF LoopsAgain, Types
    <3> QED
      BY <1>t, <2>1, <3>1 DEF ServerOK
  <2> QED
    BY <1>7, <2>2, <2>3
<1>8. CASE ReceivesNothing(s)
  <2>1. at'[s] = "idle" /\ at[s] = "recv" /\ UNCHANGED <<addr, due>>
    BY <1>t, <1>8, Moves DEF ReceivesNothing, serverVars
  <2> QED
    BY <1>t, <2>1 DEF ServerOK
<1>9. CASE CallsLong(s)
  <2>1. /\ at[s] = "calls" /\ got[s] \in Datagrams /\ turn[s] <= Len(cb)
        /\ "long" \in Returns(cb[turn[s]]) /\ at'[s] = "replies"
        /\ due'[s] = due[s] \ {cb[turn[s]]}
        /\ UNCHANGED <<kind, cb, addr, got, turn>>
    <3>1. at'[s] = "replies"
      BY <1>t, <1>9, Moves DEF CallsLong
    <3>2. at[s] = "calls" /\ got[s] \in Datagrams
      BY <1>t, <1>9 DEF CallsLong, Called, ServerOK
    <3>3. due'[s] = due[s] \ {cb[turn[s]]}
      BY <1>t, <1>9 DEF CallsLong, Called, Types
    <3>4. /\ turn[s] <= Len(cb) /\ "long" \in Returns(cb[turn[s]])
          /\ UNCHANGED <<kind, cb, addr, got, turn>>
      BY <1>9 DEF CallsLong, Called
    <3> QED
      BY <3>1, <3>2, <3>3, <3>4
  <2>2. turn[s] \in DOMAIN cb /\ addr[s] # NoAddr
    BY <1>t, <2>1 DEF ServerOK
  <2>3. \A f \in due'[s] : \E k \in DOMAIN cb : k > turn[s] /\ cb[k] = f
    BY <1>t, <2>1, DueLater
  <2> QED
    BY <1>t, <2>1, <2>2, <2>3 DEF ServerOK, Returns
<1>10. CASE RepliesPart(s)
  <2>1. at[s] = "replies" /\ UNCHANGED <<kind, at, cb, addr, got, turn, due>>
    BY <1>10 DEF RepliesPart
  <2> QED
    BY <1>t, <2>1 DEF ServerOK, Returns
<1>11. CASE ReplyRaises(s)
  <2>1. at[s] = "replies" /\ at'[s] = "raised" /\ UNCHANGED <<kind, cb, addr, got, turn, due>>
    BY <1>t, <1>11, Moves DEF ReplyRaises
  <2> QED
    BY <1>t, <2>1 DEF ServerOK, Returns
<1> QED
  BY <1>1, <1>2, <1>3, <1>4, <1>5, <1>6, <1>7, <1>8, <1>9, <1>10, <1>11 DEF Server

\* register_cb() adds what is not in the list.
LEMMA ServerDifferent ==
  ASSUME UdpInv, NEW s \in Servers, Server(s)
  PROVE  Different'
<1>1. Types /\ cb \in Seq(Callbacks) /\ Different
  BY DEF UdpInv, Types
<1>2. ASSUME NEW f \in Callbacks, RegisterCb(s, f)
      PROVE  Different'
  <2>1. cb' = Append(cb, f) /\ \A k \in DOMAIN cb : cb[k] # f
    BY <1>2 DEF RegisterCb
  <2>2. \A k \in DOMAIN cb' : \/ k \in DOMAIN cb /\ cb'[k] = cb[k]
                              \/ k = Len(cb) + 1 /\ cb'[k] = f
    BY <1>1, <2>1, Lists
  <2> QED
    BY <1>1, <2>1, <2>2 DEF Different
<1> QED
  BY <1>1, <1>2, ServerFrame DEF Different

\* What servers do, the callers' variables do not notice.
LEMMA ServerCallers ==
  ASSUME UdpInv, NEW s \in Servers, Server(s)
  PROVE  Distinct' /\ \A c \in Callers : CallerOK(c)'
<1> USE Members
<1>1. UNCHANGED <<kind, callerVars>> /\ \A c \in Callers : at'[c] = at[c]
  BY ServerFrame DEF UdpInv
<1> QED
  BY <1>1 DEF UdpInv, Distinct, CallerOK, Sending, IsLong, Size, Targets, callerVars

-----------------------------------------------------------------------------
(* The steps of callers. *)

\* One sendto(): a buffer of a server that has an address may get the datagram.
LEMMA SendsFacts ==
  ASSUME UdpInv, NEW c \in Callers, SendsOne(c)
  PROVE  /\ mail' \in [Objects -> Seq(Datagrams)]
         /\ \A s \in Servers : addr[s] = NoAddr => mail'[s] = mail[s]
         /\ at[c] = "sends" /\ next[c] \in DOMAIN Targets(c)
         /\ Targets(c)[next[c]] \in Addrs
         /\ reached' = [reached EXCEPT ![c] = reached[c] \cup {Targets(c)[next[c]]}]
         /\ UNCHANGED <<kind, timed, serverVars, clientaddr, sent, to, answers>>
<1> USE Members
<1> DEFINE a == Targets(c)[next[c]]
           d == [from |-> c, n |-> sent[c]]
<1>1. Types /\ CallerOK(c)
  BY DEF UdpInv
<1>2. /\ at[c] = "sends" /\ next[c] <= Len(Targets(c)) /\ PutAt(a, d)
      /\ reached' = [reached EXCEPT ![c] = reached[c] \cup {a}]
      /\ UNCHANGED <<kind, timed, serverVars, clientaddr, sent, to, answers>>
  BY DEF SendsOne
<1>3. Targets(c) \in Seq(Addrs) /\ next[c] \in Nat /\ sent[c] \in Nat /\ Len(answers[c]) \in Nat
  BY <1>1 DEF Types, Targets
<1>4. next[c] \in DOMAIN Targets(c) /\ a \in Addrs
  BY <1>1, <1>2, <1>3 DEF CallerOK, Sending
<1>5. d \in Datagrams
  <2>1. sent[c] \in DOMAIN Sizes[c]
    BY <1>1, <1>2, <1>3 DEF CallerOK
  <2> QED
    BY <2>1 DEF Datagrams
<1>6. /\ mail' \in [Objects -> Seq(Datagrams)]
      /\ \A o \in Objects : mail'[o] # mail[o] => o \in Servers /\ addr[o] = a
  BY <1>1, <1>2, <1>4, <1>5, PutAtFacts
<1> QED
  BY <1>2, <1>4, <1>6

\* publish() and request() begin with a list of addresses.
LEMMA BeginsFacts ==
  ASSUME UdpInv, NEW c \in Callers, Caller(c), ~SendsShort(c), ~SendsPart(c), ~Raises(c),
         ~SendsNoMore(c), ~RequestReturns(c), ~RequestTimesOut(c)
  PROVE  /\ Begins(c)
         /\ \/ kind = "ps" /\ to' = [to EXCEPT ![c] = clientaddr]
            \/ kind = "rr" /\ \E a \in Addrs : to' = [to EXCEPT ![c] = <<a>>]
BY DEF Caller, Publish, Request

LEMMA CallerTypes ==
  ASSUME UdpInv, NEW c \in Callers, Caller(c)
  PROVE  Types'
<1> USE Members
<1>t. Types /\ CallerOK(c)
  BY DEF UdpInv
<1>1. CASE /\ Begins(c)
           /\ \/ kind = "ps" /\ to' = [to EXCEPT ![c] = clientaddr]
              \/ kind = "rr" /\ \E a \in Addrs : to' = [to EXCEPT ![c] = <<a>>]
  <2>1. to' \in [Callers -> Seq(Addrs)]
    <3>1. clientaddr \in Seq(Addrs) /\ \A a \in Addrs : <<a>> \in Seq(Addrs)
      BY <1>t DEF Types
    <3>2. to \in [Callers -> Seq(Addrs)]
      BY <1>t DEF Types
    <3> QED
      BY <1>1, <3>1, <3>2
  <2>2. Goto(c, "sends") /\ UNCHANGED <<kind, timed, mail, serverVars, clientaddr, answers>>
    BY <1>1 DEF Begins
  <2>3. Places'
    BY <1>t, <2>2, CallerPlaces
  <2>4. /\ sent' \in [Callers -> Nat] /\ next' \in [Callers -> Nat]
        /\ part' \in [Callers -> 0..NUM] /\ reached' \in [Callers -> SUBSET Addrs]
    <3>1. /\ sent \in [Callers -> Nat] /\ next \in [Callers -> Nat]
          /\ part \in [Callers -> 0..NUM] /\ reached \in [Callers -> SUBSET Addrs]
      BY <1>t DEF Types
    <3>2. /\ sent' = [sent EXCEPT ![c] = sent[c] + 1]
          /\ next' = [next EXCEPT ![c] = 1]
          /\ part' = [part EXCEPT ![c] = 0]
          /\ reached' = [reached EXCEPT ![c] = {}]
      BY <1>1 DEF Begins
    <3> QED
      BY <3>1, <3>2
  <2>5. /\ kind' \in {"ps", "rr"} /\ timed' \subseteq Objects /\ cb' \in Seq(Callbacks)
        /\ addr' \in [Servers -> Addrs \cup {NoAddr}] /\ event' \in [Servers -> BOOLEAN]
        /\ mail' \in [Objects -> Seq(Datagrams)]
        /\ got' \in [Servers -> Datagrams \cup {NoDatagram}] /\ turn' \in [Servers -> Nat]
        /\ due' \in [Servers -> SUBSET Callbacks] /\ clientaddr' \in Seq(Addrs)
        /\ replied' \in [Servers -> 0..NUM]
        /\ answers' \in [Callers -> Seq(Datagrams \cup {NoDatagram})]
    BY <1>t, <2>2 DEF Types, serverVars
  <2> QED
    BY <2>1, <2>3, <2>4, <2>5 DEF Types
<1>2. CASE SendsShort(c) \/ SendsPart(c)
  <2>1. SendsOne(c) /\ UNCHANGED at
    BY <1>2 DEF SendsShort, SendsPart
  <2>2. /\ mail' \in [Objects -> Seq(Datagrams)]
        /\ Targets(c)[next[c]] \in Addrs
        /\ reached' = [reached EXCEPT ![c] = reached[c] \cup {Targets(c)[next[c]]}]
        /\ UNCHANGED <<kind, timed, serverVars, clientaddr, sent, to, answers>>
    BY <2>1, SendsFacts
  <2>3. /\ next \in [Callers -> Nat] /\ part \in [Callers -> 0..NUM]
        /\ reached \in [Callers -> SUBSET Addrs]
    BY <1>t DEF Types
  <2>4. reached' \in [Callers -> SUBSET Addrs]
    BY <2>2, <2>3
  <2>5. next' \in [Callers -> Nat] /\ part' \in [Callers -> 0..NUM]
    <3>1. CASE SendsShort(c)
      BY <2>3, <3>1 DEF SendsShort
    <3>2. CASE SendsPart(c)
      BY <2>3, <3>2 DEF SendsPart
    <3> QED
      BY <1>2, <3>1, <3>2
  <2>6. Places'
    BY <1>t, <2>1 DEF Types, Places
  <2>7. /\ kind' \in {"ps", "rr"} /\ timed' \subseteq Objects /\ cb' \in Seq(Callbacks)
        /\ addr' \in [Servers -> Addrs \cup {NoAddr}] /\ event' \in [Servers -> BOOLEAN]
        /\ got' \in [Servers -> Datagrams \cup {NoDatagram}] /\ turn' \in [Servers -> Nat]
        /\ due' \in [Servers -> SUBSET Callbacks] /\ clientaddr' \in Seq(Addrs)
        /\ sent' \in [Callers -> Nat] /\ to' \in [Callers -> Seq(Addrs)]
        /\ replied' \in [Servers -> 0..NUM]
        /\ answers' \in [Callers -> Seq(Datagrams \cup {NoDatagram})]
    BY <1>t, <2>2 DEF Types, serverVars
  <2> QED
    BY <2>2, <2>4, <2>5, <2>6, <2>7 DEF Types
<1>3. CASE Raises(c) \/ SendsNoMore(c)
  <2>1. PICK place \in {"idle", "recv"} : Goto(c, place)
    BY <1>3 DEF Raises, SendsNoMore
  <2>2. Places'
    BY <1>t, <2>1, CallerPlaces
  <2>3. UNCHANGED <<kind, timed, mail, serverVars, callerVars>>
    BY <1>3 DEF Raises, SendsNoMore
  <2> QED
    BY <1>t, <2>2, <2>3 DEF Types, serverVars, callerVars
<1>4. CASE RequestReturns(c) \/ RequestTimesOut(c)
  <2>1. PICK d \in Datagrams \cup {NoDatagram} :
          /\ answers' = [answers EXCEPT ![c] = Append(answers[c], d)]
          /\ mail' = mail \/ (mail[c] # <<>> /\ mail' = [mail EXCEPT ![c] = Tail(mail[c])])
    <3>1. CASE RequestReturns(c)
      <4>1. mail[c] # <<>> /\ mail[c] \in Seq(Datagrams)
        BY <1>t, <3>1 DEF RequestReturns, Types
      <4>2. Head(mail[c]) \in Datagrams
        BY <4>1, Lists
      <4> QED
        BY <3>1, <4>1, <4>2 DEF RequestReturns
    <3>2. CASE RequestTimesOut(c)
      BY <3>2 DEF RequestTimesOut
    <3> QED
      BY <1>4, <3>1, <3>2
  <2>2. mail' \in [Objects -> Seq(Datagrams)]
    <3>1. mail \in [Objects -> Seq(Datagrams)] /\ mail[c] \in Seq(Datagrams)
      BY <1>t DEF Types
    <3>2. mail[c] # <<>> => Tail(mail[c]) \in Seq(Datagrams)
      BY <3>1, Lists
    <3> QED
      BY <2>1, <3>1, <3>2
  <2>3. answers' \in [Callers -> Seq(Datagrams \cup {NoDatagram})]
    <3>1. answers \in [Callers -> Seq(Datagrams \cup {NoDatagram})]
      BY <1>t DEF Types
    <3>2. Append(answers[c], d) \in Seq(Datagrams \cup {NoDatagram})
      BY <3>1, Lists
    <3> QED
      BY <2>1, <3>1, <3>2
  <2>4. Goto(c, "idle")
        /\ UNCHANGED <<kind, timed, serverVars, clientaddr, sent, to, next, part, reached>>
    BY <1>4 DEF RequestReturns, RequestTimesOut
  <2>5. Places'
    BY <1>t, <2>4, CallerPlaces
  <2> QED
    BY <1>t, <2>2, <2>3, <2>4, <2>5 DEF Types, serverVars
<1> QED
  BY <1>1, <1>2, <1>3, <1>4, BeginsFacts

LEMMA CallerServers ==
  ASSUME UdpInv, NEW c \in Callers, Caller(c), NEW s \in Servers
  PROVE  ServerOK(s)'
<1> USE Members
<1>t. Types /\ ServerOK(s)
  BY DEF UdpInv
<1>1. UNCHANGED <<kind, serverVars>> /\ at'[s] = at[s]
  <2>1. \A place : Goto(c, place) => at'[s] = at[s]
    BY <1>t DEF Types, Places, Goto
  <2> QED
    BY <2>1
    DEF Caller, Publish, Request, Begins, SendsShort, SendsPart, SendsOne, Raises, SendsNoMore,
        RequestReturns, RequestTimesOut
<1>2. at[s] = "off" => mail'[s] = mail[s]
  <2>1. CASE SendsShort(c) \/ SendsPart(c)
    BY <1>t, <2>1, SendsFacts DEF SendsShort, SendsPart, ServerOK
  <2>2. CASE RequestReturns(c)
    BY <1>t, <2>2 DEF RequestReturns, Types
  <2>3. CASE Raises(c) \/ SendsNoMore(c) \/ Begins(c) \/ RequestTimesOut(c)
    BY <2>3 DEF Raises, SendsNoMore, Begins, RequestTimesOut
  <2> QED
    BY <2>1, <2>2, <2>3, BeginsFacts
<1> QED
  BY <1>t, <1>1, <1>2 DEF ServerOK, Returns, serverVars

\* A caller's condition is about the variables of that caller, and the list.
SameCaller(x) ==
  /\ kind' = kind /\ clientaddr' = clientaddr
  /\ at'[x] = at[x] /\ sent'[x] = sent[x] /\ to'[x] = to[x] /\ next'[x] = next[x]
  /\ part'[x] = part[x] /\ answers'[x] = answers[x] /\ reached'[x] = reached[x]

LEMMA SameCallerOK ==
  ASSUME NEW x \in Callers, CallerOK(x), SameCaller(x)
  PROVE  CallerOK(x)'
BY DEF SameCaller, CallerOK, Sending, IsLong, Size, Targets

LEMMA OtherCallers ==
  ASSUME UdpInv, NEW c \in Callers, Caller(c), NEW x \in Callers, x # c
  PROVE  SameCaller(x)
<1> USE Members
<1>t. Types
  BY DEF UdpInv
<1>1. \A place : Goto(c, place) => at'[x] = at[x]
  BY <1>t DEF Types, Places, Goto
<1>2. CASE \/ Begins(c) /\ kind = "ps" /\ to' = [to EXCEPT ![c] = clientaddr]
           \/ Begins(c) /\ kind = "rr" /\ \E a \in Addrs : to' = [to EXCEPT ![c] = <<a>>]
  BY <1>t, <1>1, <1>2 DEF Begins, SameCaller, Types
<1>3. CASE SendsShort(c) \/ SendsPart(c)
  BY <1>t, <1>3 DEF SendsShort, SendsPart, SendsOne, SameCaller, Types
<1>4. CASE Raises(c) \/ SendsNoMore(c)
  BY <1>1, <1>4 DEF Raises, SendsNoMore, SameCaller, callerVars
<1>5. CASE RequestReturns(c) \/ RequestTimesOut(c)
  BY <1>t, <1>1, <1>5 DEF RequestReturns, RequestTimesOut, SameCaller, Types
<1> QED
  BY <1>2, <1>3, <1>4, <1>5, BeginsFacts

\* publish() and request() begin: nothing has been sent yet.
LEMMA BeginsOK ==
  ASSUME UdpInv, NEW c \in Callers, Begins(c),
         \/ kind = "ps" /\ to' = [to EXCEPT ![c] = clientaddr]
         \/ kind = "rr" /\ \E a \in Addrs : to' = [to EXCEPT ![c] = <<a>>]
  PROVE  CallerOK(c)' /\ (kind = "rr" => Len(to'[c]) <= 1)
<1> USE Members
<1>t. Types /\ CallerOK(c) /\ c \in Objects /\ kind \in {"ps", "rr"}
  BY DEF UdpInv, Types
<1>1. /\ sent[c] \in Nat /\ sent[c] < Len(Sizes[c]) /\ Len(answers[c]) \in Nat
      /\ sent'[c] = sent[c] + 1 /\ next'[c] = 1 /\ part'[c] = 0 /\ reached'[c] = {}
      /\ at'[c] = "sends"
      /\ kind' = kind /\ clientaddr' = clientaddr /\ answers' = answers
  <2>1. /\ sent \in [Callers -> Nat] /\ DOMAIN next = Callers /\ DOMAIN part = Callers
        /\ DOMAIN reached = Callers /\ Len(answers[c]) \in Nat
    BY <1>t DEF Types
  <2>2. at'[c] = "sends"
    BY <1>t, Moves DEF Begins
  <2> QED
    BY <2>1, <2>2 DEF Begins
<1>2. /\ clientaddr \in Seq(Addrs)
      /\ kind = "ps" => to'[c] = clientaddr
      /\ kind = "rr" => to'[c] \in Seq(Addrs) /\ Len(to'[c]) = 1
  <2>1. clientaddr \in Seq(Addrs) /\ DOMAIN to = Callers
    BY <1>t DEF Types
  <2>2. CASE kind = "ps"
    BY <2>1, <2>2
  <2>3. CASE kind = "rr"
    <3>1. PICK a \in Addrs : to' = [to EXCEPT ![c] = <<a>>]
      BY <2>3
    <3>2. to'[c] = <<a>>
      BY <2>1, <3>1
    <3> QED
      BY <2>1, <2>3, <3>2
  <2> QED
    BY <1>t, <2>2, <2>3
<1>3. Targets(c)' \in Seq(Addrs)
  BY <1>1, <1>2, <1>t DEF Targets
<1>4. Len(answers[c]) \in Nat /\ Len(answers[c]) <= sent[c]
  BY <1>t, <1>1 DEF CallerOK
<1>5. Sending(c)'
  <2>1. \A k \in DOMAIN Targets(c)' : ~(k < 1)
    BY <1>3
  <2> QED
    BY <1>1, <1>2, <2>1 DEF Sending
<1>6. (next[c] <= Len(Targets(c)) + 1)'
  BY <1>1, <1>3
<1>7. CallerOK(c)'
  <2>1. /\ sent'[c] <= Len(Sizes[c]) /\ Len(answers'[c]) < sent'[c]
        /\ Len(answers'[c]) <= sent'[c]
    BY <1>1, <1>4
  <2>2. at'[c] = "sends" /\ reached'[c] = {}
    BY <1>1
  <2> QED
    BY <1>5, <1>6, <2>1, <2>2 DEF CallerOK
<1>8. ASSUME kind = "rr"
      PROVE  Len(to'[c]) <= 1
  <2>1. Len(to'[c]) = 1
    BY <1>2, <1>8
  <2> HIDE Members
  <2> QED
    BY <2>1
<1> QED
  BY <1>7, <1>8

\* One sendto() of the loop.
LEMMA SendsOK ==
  ASSUME UdpInv, NEW c \in Callers, SendsShort(c) \/ SendsPart(c)
  PROVE  CallerOK(c)'
<1> USE Members
<1> DEFINE q == Targets(c)
<1>t. Types /\ CallerOK(c) /\ Sending(c)
  BY DEF UdpInv, CallerOK, SendsShort, SendsPart, SendsOne
<1>1. /\ at[c] = "sends" /\ at' = at
      /\ next[c] \in DOMAIN q
      /\ reached'[c] = reached[c] \cup {q[next[c]]}
      /\ UNCHANGED <<kind, clientaddr, sent, to, answers>>
  BY <1>t, SendsFacts DEF SendsShort, SendsPart, Types
<1>2. q' = q /\ (IsLong(c)' <=> IsLong(c)) /\ q \in Seq(Addrs) /\ next[c] \in Nat
  BY <1>t, <1>1 DEF Targets, IsLong, Size, Types
<1>3. CASE SendsShort(c)
  <2>1. ~IsLong(c) /\ next'[c] = next[c] + 1 /\ part' = part
    BY <1>t, <1>3 DEF SendsShort, Types
  <2>2. \A k \in DOMAIN q : k < next[c] + 1 => q[k] \in reached'[c]
    <3> SUFFICES ASSUME NEW k \in DOMAIN q, k < next[c] + 1
                 PROVE  q[k] \in reached'[c]
      OBVIOUS
    <3>1. k \in Nat /\ (k < next[c] \/ k = next[c])
      BY <1>2
    <3> QED
      BY <1>t, <1>1, <2>1, <3>1 DEF Sending
  <2>3. Sending(c)'
    BY <1>t, <1>1, <1>2, <2>1, <2>2 DEF Sending
  <2>4. next'[c] <= Len(q) + 1
    BY <1>1, <1>2, <2>1
  <2> QED
    BY <1>t, <1>1, <1>2, <2>1, <2>3, <2>4 DEF CallerOK
<1>4. CASE SendsPart(c)
  <2>1. IsLong(c) /\ next' = next /\ next[c] = 1
    BY <1>t, <1>4 DEF SendsPart, Sending
  <2>2. Sending(c)'
    BY <1>t, <1>1, <1>2, <2>1 DEF Sending
  <2>3. \A a \in reached'[c] : q # <<>> /\ a = q[1]
    BY <1>t, <1>1, <1>2, <2>1 DEF CallerOK
  <2> QED
    BY <1>t, <1>1, <1>2, <2>1, <2>2, <2>3 DEF CallerOK
<1> QED
  BY <1>3, <1>4

\* The loop is left, by the end of the list or by the exception.
LEMMA LeavesOK ==
  ASSUME UdpInv, NEW c \in Callers, Raises(c) \/ SendsNoMore(c)
  PROVE  CallerOK(c)'
<1> USE Members
<1>t. Types /\ CallerOK(c) /\ Sending(c) /\ c \in Objects
  BY DEF UdpInv, CallerOK, Raises, SendsNoMore
<1>1. /\ at[c] = "sends" /\ at'[c] # "sends"
      /\ UNCHANGED <<kind, clientaddr, sent, to, next, part, answers, reached>>
  <2>1. \A place \in {"idle", "recv"} : Goto(c, place) => at'[c] = place
    BY <1>t, Moves
  <2> QED
    BY <2>1 DEF Raises, SendsNoMore, callerVars
<1>2. Targets(c)' = Targets(c) /\ (IsLong(c)' <=> IsLong(c))
  BY <1>1 DEF Targets, IsLong, Size
<1>3. sent[c] \in Nat /\ Len(answers[c]) \in Nat
  BY <1>t DEF Types
<1>4. ~IsLong(c) => \A k \in DOMAIN to[c] : to[c][k] \in reached[c]
  <2> SUFFICES ASSUME ~IsLong(c), NEW k \in DOMAIN to[c]
               PROVE  to[c][k] \in reached[c]
    OBVIOUS
  <2>1. part[c] = 0 /\ \A j \in DOMAIN Targets(c) : j < next[c] => Targets(c)[j] \in reached[c]
    BY <1>t DEF Sending
  <2>2. next[c] > Len(Targets(c))
    BY <2>1 DEF Raises, SendsNoMore
  <2>3. /\ to[c] \in Seq(Addrs) /\ clientaddr \in Seq(Addrs)
        /\ next[c] \in Nat /\ kind \in {"ps", "rr"}
    BY <1>t DEF Types
  <2>4. k \in DOMAIN Targets(c) /\ to[c][k] = Targets(c)[k]
    BY <1>t, <2>3 DEF Sending, Targets
  <2>5. k < next[c]
    BY <2>2, <2>3, <2>4 DEF Targets
  <2> QED
    BY <2>1, <2>4, <2>5
<1> QED
  BY <1>t, <1>1, <1>2, <1>3, <1>4 DEF CallerOK

LEMMA ReturnsOK ==
  ASSUME UdpInv, NEW c \in Callers, RequestReturns(c) \/ RequestTimesOut(c)
  PROVE  CallerOK(c)'
<1> USE Members
<1>t. Types /\ CallerOK(c) /\ c \in Objects
  BY DEF UdpInv
<1>1. PICK d \in Datagrams \cup {NoDatagram} : answers'[c] = Append(answers[c], d)
  <2>1. CASE RequestReturns(c)
    <3>1. mail[c] # <<>> /\ mail[c] \in Seq(Datagrams)
      BY <1>t, <2>1 DEF RequestReturns, Types
    <3>2. Head(mail[c]) \in Datagrams
      BY <3>1, Lists
    <3> QED
      BY <1>t, <2>1, <3>2 DEF RequestReturns, Types
  <2>2. CASE RequestTimesOut(c)
    BY <1>t, <2>2 DEF RequestTimesOut, Types
  <2> QED
    BY <2>1, <2>2
<1>2. /\ at[c] = "recv" /\ at'[c] = "idle"
      /\ UNCHANGED <<kind, clientaddr, sent, to, next, part, reached>>
  BY <1>t, Moves DEF RequestReturns, RequestTimesOut
<1>3. answers[c] \in Seq(Datagrams \cup {NoDatagram}) /\ sent[c] \in Nat
  BY <1>t DEF Types
<1>4. Len(answers'[c]) = Len(answers[c]) + 1 /\ Len(answers[c]) \in Nat
  BY <1>1, <1>3, Lists
<1>5. Len(answers[c]) < sent[c]
  BY <1>t, <1>2 DEF CallerOK
<1>6. Targets(c)' = Targets(c) /\ (IsLong(c)' <=> IsLong(c))
  BY <1>2 DEF Targets, IsLong, Size
<1>7. Len(answers'[c]) <= sent'[c]
  BY <1>2, <1>3, <1>4, <1>5
<1> QED
  BY <1>t, <1>2, <1>6, <1>7 DEF CallerOK

LEMMA CallerSteps ==
  ASSUME UdpInv, NEW c \in Callers, Caller(c)
  PROVE  Distinct' /\ \A x \in Callers : CallerOK(x)'
<1> DEFINE begins == /\ Begins(c)
                     /\ \/ kind = "ps" /\ to' = [to EXCEPT ![c] = clientaddr]
                        \/ kind = "rr" /\ \E a \in Addrs : to' = [to EXCEPT ![c] = <<a>>]
<1>1. \/ begins \/ SendsShort(c) \/ SendsPart(c) \/ Raises(c) \/ SendsNoMore(c)
      \/ RequestReturns(c) \/ RequestTimesOut(c)
  BY BeginsFacts
<1>2. ASSUME NEW x \in Callers
      PROVE  CallerOK(x)'
  <2>1. CASE x = c
    BY <1>1, <2>1, BeginsOK, SendsOK, LeavesOK, ReturnsOK
  <2>2. CASE x # c
    BY <2>2, OtherCallers, SameCallerOK DEF UdpInv
  <2> QED
    BY <2>1, <2>2
<1>3. /\ kind' = kind /\ clientaddr' = clientaddr
      /\ kind = "rr" => Len(to'[c]) <= 1
  <2>1. CASE begins
    BY <2>1, BeginsOK DEF Begins
  <2>2. CASE ~begins
    BY <1>1, <2>2
    DEF UdpInv, Distinct, SendsShort, SendsPart, SendsOne, Raises, SendsNoMore, RequestReturns,
        RequestTimesOut, callerVars
  <2> QED
    BY <2>1, <2>2
<1>4. \A x \in Callers : x # c => to'[x] = to[x]
  BY OtherCallers DEF SameCaller
<1> QED
  BY <1>2, <1>3, <1>4 DEF Distinct, UdpInv

\* clientaddr.append(): the list gets longer, and what has been sent stays at
\* its front.
LEMMA AddClientOK ==
  ASSUME UdpInv, NEW a \in Addrs, AddClient(a)
  PROVE  UdpInv'
<1> USE Members
<1>t. /\ Types /\ Different /\ Distinct /\ kind = "ps"
      /\ clientaddr \in Seq(Addrs)
      /\ \A k \in DOMAIN clientaddr : clientaddr[k] # a
      /\ clientaddr' = Append(clientaddr, a)
      /\ UNCHANGED <<kind, timed, at, mail, serverVars, sent, to, next, part, answers, reached>>
  BY DEF UdpInv, AddClient, Types
<1>1. /\ clientaddr' \in Seq(Addrs) /\ Len(clientaddr') = Len(clientaddr) + 1
      /\ \A k \in DOMAIN clientaddr : k \in DOMAIN clientaddr' /\ clientaddr'[k] = clientaddr[k]
      /\ \A k \in DOMAIN clientaddr' :
           \/ k \in DOMAIN clientaddr /\ clientaddr'[k] = clientaddr[k]
           \/ k = Len(clientaddr) + 1 /\ clientaddr'[k] = a
  BY <1>t, Lists
<1>2. Types'
  BY <1>t, <1>1 DEF Types, Places, serverVars
<1>3. \A s \in Servers : ServerOK(s)'
  BY <1>t DEF UdpInv, ServerOK, Returns, serverVars
<1>4. Different' /\ Distinct'
  BY <1>t, <1>1 DEF Different, Distinct, serverVars
<1>5. ASSUME NEW c \in Callers
      PROVE  CallerOK(c)'
  <2>1. /\ CallerOK(c) /\ Targets(c) = clientaddr /\ Targets(c)' = clientaddr'
        /\ IsLong(c)' <=> IsLong(c)
    BY <1>t DEF UdpInv, Targets, IsLong, Size
  <2>2. next[c] \in Nat /\ to[c] \in Seq(Addrs) /\ next'[c] = next[c] /\ reached' = reached
    BY <1>t DEF Types
  <2>3. next[c] <= Len(clientaddr) + 1
    BY <2>1 DEF CallerOK
  <2>4. ASSUME at[c] = "sends"
        PROVE  Sending(c)'
    <3>1. Sending(c)
      BY <2>1, <2>4 DEF CallerOK
    <3>2. /\ Len(to[c]) <= Len(clientaddr')
          /\ \A k \in DOMAIN to[c] : to[c][k] = clientaddr'[k]
      <4>1. Len(to[c]) <= Len(clientaddr) /\ \A k \in DOMAIN to[c] : to[c][k] = clientaddr[k]
        BY <1>t, <3>1 DEF Sending
      <4>2. \A k \in DOMAIN to[c] : k \in DOMAIN clientaddr
        BY <1>t, <2>2, <4>1
      <4> QED
        BY <1>t, <1>1, <2>2, <4>1, <4>2
    <3>3. \A k \in DOMAIN clientaddr' : k < next[c] =>
            k \in DOMAIN clientaddr /\ clientaddr'[k] = clientaddr[k]
      BY <1>t, <1>1, <2>2, <2>3
    <3> QED
      BY <1>t, <2>1, <2>2, <3>1, <3>2, <3>3 DEF Sending
  <2>5. IsLong(c) => \A b \in reached[c] : clientaddr' # <<>> /\ b = clientaddr'[1]
    <3> SUFFICES ASSUME IsLong(c), NEW b \in reached[c]
                 PROVE  clientaddr' # <<>> /\ b = clientaddr'[1]
      OBVIOUS
    <3>1. clientaddr # <<>> /\ b = clientaddr[1]
      BY <2>1 DEF CallerOK
    <3>2. 1 \in DOMAIN clientaddr
      BY <1>t, <3>1
    <3> QED
      BY <1>1, <3>1, <3>2
  <2>6. next'[c] <= Len(clientaddr') + 1
    BY <1>t, <1>1, <2>2, <2>3
  <2> QED
    BY <1>t, <2>1, <2>2, <2>4, <2>5, <2>6 DEF CallerOK
<1> QED
  BY <1>2, <1>3, <1>4, <1>5 DEF UdpInv

-----------------------------------------------------------------------------
LEMMA InitOK == Init => UdpInv
<1> USE Members
<1> SUFFICES ASSUME Init PROVE UdpInv
  OBVIOUS
<1>1. Types
  <2>1. /\ Places /\ kind \in {"ps", "rr"} /\ timed \subseteq Objects
        /\ mail \in [Objects -> Seq(Datagrams)]
        /\ got \in [Servers -> Datagrams \cup {NoDatagram}]
    BY UdpAssumption DEF Init, Places, Objects
  <2> QED
    BY <2>1 DEF Init, Types
<1>2. ASSUME NEW s \in Servers PROVE ServerOK(s)
  BY <1>2 DEF Init, ServerOK
<1>3. Different /\ Distinct
  BY DEF Init, Different, Distinct
<1>4. ASSUME NEW c \in Callers PROVE CallerOK(c)
  <2>1. /\ at[c] = "idle" /\ sent[c] = 0 /\ answers[c] = <<>> /\ next[c] = 0
        /\ Targets(c) = <<>> /\ Len(Sizes[c]) \in Nat
    BY <1>4 DEF Init, Targets
  <2> QED
    BY <2>1 DEF CallerOK, IsLong
<1> QED
  BY <1>1, <1>2, <1>3, <1>4 DEF UdpInv

LEMMA NextOK == UdpInv /\ [Next]_vars => UdpInv'
<1> SUFFICES ASSUME UdpInv, [Next]_vars
             PROVE  UdpInv'
  OBVIOUS
<1>1. ASSUME NEW s \in Servers, Server(s)
      PROVE  UdpInv'
  BY <1>1, ServerTypes, ServerDifferent, ServerSteps, ServerCallers DEF UdpInv
<1>2. ASSUME NEW c \in Callers, Caller(c)
      PROVE  UdpInv'
  <2>1. Different'
    BY <1>2
    DEF UdpInv, Different, Caller, Publish, Request, Begins, SendsShort, SendsPart, SendsOne,
        Raises, SendsNoMore, RequestReturns, RequestTimesOut, serverVars
  <2> QED
    BY <1>2, <2>1, CallerTypes, CallerServers, CallerSteps DEF UdpInv
<1>3. ASSUME NEW a \in Addrs, AddClient(a)
      PROVE  UdpInv'
  BY <1>3, AddClientOK
<1>4. CASE UNCHANGED vars
  BY <1>4
  DEF vars, serverVars, callerVars, UdpInv, Types, Places, ServerOK, Returns, Different,
      Distinct, CallerOK, Sending, IsLong, Size, Targets
<1> QED
  BY <1>1, <1>2, <1>3, <1>4 DEF Next

\* The invariant of the proofs: the types, and how far the loop of every
\* receiving and every sending object has come in the list it goes through.
THEOREM UdpInvAlways == Spec => []UdpInv
BY InitOK, NextOK, PTL DEF Spec

\* HeardByAll, for any number of objects and callbacks, whatever they return:
\* no callback that had been registered when a message was received is skipped,
\* although others are registered while the loop over the list of the class
\* goes on; unless the reply of an earlier one is too long, and then the loop
\* has ended at that one.
THEOREM HeardByAllAlways == Spec => []HeardByAll
<1>1. UdpInv => HeardByAll
  <2> SUFFICES ASSUME UdpInv, NEW s \in Servers
               PROVE  /\ at[s] \in {"recv", "over"} => due[s] = {}
                      /\ at[s] = "raised" =>
                           /\ "long" \in Returns(cb[turn[s]])
                           /\ \A k \in 1..turn[s] : cb[k] \notin due[s]
    BY DEF HeardByAll
  <2>1. ServerOK(s) /\ Different /\ cb \in Seq(Callbacks)
    BY DEF UdpInv, Types
  <2>2. ASSUME at[s] = "raised", NEW k \in 1..turn[s], cb[k] \in due[s]
        PROVE  FALSE
    <3>1. turn[s] \in DOMAIN cb
      BY <2>1, <2>2 DEF ServerOK
    <3>2. PICK j \in DOMAIN cb : j > turn[s] /\ cb[j] = cb[k]
      BY <2>1, <2>2 DEF ServerOK
    <3>3. k \in DOMAIN cb /\ k < j
      BY <2>1, <3>1, <3>2
    <3> QED
      BY <2>1, <3>2, <3>3 DEF Different
  <2> QED
    BY <2>1, <2>2 DEF ServerOK
<1> QED
  BY UdpInvAlways, <1>1, PTL

\* PublishReaches, for any number of publishers, addresses and messages: a
\* short message has been sent to every address of the list publish() began
\* with, and a long one to its first address only.
THEOREM PublishReachesAlways == Spec => []PublishReaches
<1>1. UdpInv => PublishReaches
  <2> SUFFICES ASSUME UdpInv, NEW c \in Callers, at[c] = "idle", sent[c] > 0
               PROVE  IF IsLong(c)
                      THEN \A k \in DOMAIN Targets(c) : Targets(c)[k] \in reached[c] => k = 1
                      ELSE \A k \in DOMAIN to[c] : to[c][k] \in reached[c]
    BY DEF PublishReaches
  <2>1. CallerOK(c) /\ Types /\ Distinct
    BY DEF UdpInv
  <2>2. CASE IsLong(c)
    <3> SUFFICES ASSUME NEW k \in DOMAIN Targets(c), Targets(c)[k] \in reached[c]
                 PROVE  k = 1
      BY <2>2
    <3>1. Targets(c) # <<>> /\ Targets(c)[k] = Targets(c)[1]
      BY <2>1, <2>2 DEF CallerOK
    <3>2. Targets(c) \in Seq(Addrs) /\ kind \in {"ps", "rr"}
      BY <2>1 DEF Types, Targets
    <3>3. 1 \in DOMAIN Targets(c)
      BY <3>1, <3>2
    <3>4. CASE kind = "ps"
      BY <2>1, <3>1, <3>3, <3>4 DEF Distinct, Targets
    <3>5. CASE kind = "rr"
      <4>1. Targets(c) = to[c] /\ Len(to[c]) <= 1
        BY <2>1, <3>5 DEF Distinct, Targets
      <4> QED
        BY <3>2, <4>1
    <3> QED
      BY <3>2, <3>4, <3>5
  <2>3. CASE ~IsLong(c)
    BY <2>1, <2>3 DEF CallerOK
  <2> QED
    BY <2>2, <2>3
<1> QED
  BY UdpInvAlways, <1>1, PTL

\* UdpTypeOK, for every program: the types, and that the position of a loop
\* stays within its list or one past it, however the list grows.
THEOREM UdpTypeAlways == Spec => []UdpTypeOK
<1>1. UdpInv => UdpTypeOK
  <2> USE Members
  <2> SUFFICES ASSUME UdpInv PROVE UdpTypeOK
    OBVIOUS
  <2>1. Types /\ Places
    BY DEF UdpInv, Types
  <2>2. ASSUME NEW s \in Servers
        PROVE  /\ at[s] \in {"off", "idle", "recv", "calls", "replies", "raised", "over"}
               /\ addr[s] \in Addrs \cup {NoAddr} /\ (addr[s] = NoAddr <=> at[s] = "off")
               /\ mail[s] \in Seq(Datagrams) /\ (at[s] = "off" => mail[s] = <<>>)
               /\ at[s] = "calls" => got[s] \in Datagrams /\ turn[s] \in 1..Len(cb) + 1
               /\ at[s] \in {"replies", "raised"} => got[s] \in Datagrams /\ turn[s] \in DOMAIN cb
               /\ replied[s] \in 0..NUM /\ event[s] \in BOOLEAN
    BY <2>1 DEF UdpInv, Types, Places, ServerOK
  <2>3. ASSUME NEW c \in Callers
        PROVE  /\ at[c] \in {"idle", "sends", "recv"}
               /\ sent[c] \in 0..Len(Sizes[c]) /\ part[c] \in 0..NUM
               /\ next[c] \in 0..Len(Targets(c)) + 1
               /\ mail[c] \in Seq(Datagrams)
               /\ answers[c] \in Seq(Datagrams \cup {NoDatagram}) /\ Len(answers[c]) <= sent[c]
    <3>1. /\ CallerOK(c) /\ sent[c] \in Nat /\ next[c] \in Nat /\ part[c] \in 0..NUM
          /\ Targets(c) \in Seq(Addrs) /\ mail[c] \in Seq(Datagrams)
          /\ answers[c] \in Seq(Datagrams \cup {NoDatagram})
          /\ at[c] \in {"idle", "sends", "recv"}
      BY <2>1 DEF UdpInv, Types, Places, Targets
    <3>2. Len(Targets(c)) \in Nat
      BY <3>1
    <3> QED
      BY <3>1, <3>2 DEF CallerOK
  <2> QED
    BY <2>1, <2>2, <2>3 DEF UdpTypeOK, Types
<1> QED
  BY UdpInvAlways, <1>1, PTL

-----------------------------------------------------------------------------
(* What is under way. *)

\* r holds no more copies of d than q does.
NoMore(r, q, d) ==
  /\ About(r, d) # {} => About(q, d) # {}
  /\ (\A i, j \in About(q, d) : i = j) => \A i, j \in About(r, d) : i = j

Nowhere(d) ==
  /\ \A o \in Objects : About(mail[o], d) = {}
  /\ \A s \in Servers : ~Working(s, d)

LEMMA SameNoMore ==
  ASSUME NEW q, NEW d
  PROVE  NoMore(q, q, d)
BY DEF NoMore

LEMMA EmptyNoMore ==
  ASSUME NEW q, NEW d
  PROVE  NoMore(<<>>, q, d) /\ About(<<>>, d) = {}
BY DEF NoMore, About

\* The first datagram is taken.
LEMMA TailNoMore ==
  ASSUME NEW q \in Seq(Datagrams), q # <<>>, NEW d
  PROVE  /\ NoMore(Tail(q), q, d)
         /\ Head(q) = d => 1 \in About(q, d)
         /\ Head(q) = d /\ (\A i, j \in About(q, d) : i = j) => About(Tail(q), d) = {}
<1>1. /\ 1 \in DOMAIN q /\ Head(q) = q[1] /\ Tail(q) \in Seq(Datagrams)
      /\ \A i \in DOMAIN Tail(q) : i \in Nat /\ i + 1 \in DOMAIN q /\ Tail(q)[i] = q[i + 1]
  OBVIOUS
<1>2. \A i \in About(Tail(q), d) : i \in Nat /\ i + 1 \in About(q, d)
  BY <1>1 DEF About
<1>3. \A i, j \in Nat : i + 1 = j + 1 => i = j
  OBVIOUS
<1>4. Head(q) = d => 1 \in About(q, d)
  BY <1>1 DEF About
<1>5. \A i \in Nat : i + 1 = 1 => i = 0
  OBVIOUS
<1>6. 0 \notin About(Tail(q), d)
  <2>1. DOMAIN Tail(q) = 1..Len(Tail(q)) /\ Len(Tail(q)) \in Nat
    BY <1>1
  <2> QED
    BY <2>1 DEF About
<1>7. NoMore(Tail(q), q, d)
  BY <1>2, <1>3 DEF NoMore
<1> QED
  BY <1>1, <1>2, <1>4, <1>5, <1>6, <1>7

LEMMA HeadAbout ==
  ASSUME NEW q \in Seq(Datagrams), q # <<>>, NEW d \in Datagrams, Head(q) = d
  PROVE  /\ 1 \in About(q, d)
         /\ (\A i, j \in About(q, d) : i = j) => About(Tail(q), d) = {}
<1> DEFINE One == \A i, j \in About(q, d) : i = j
           A == About(q, d)
           B == About(Tail(q), d)
<1>1. (Head(q) = d => 1 \in A) /\ (Head(q) = d /\ One => B = {})
  BY TailNoMore
<1> HIDE DEF One, A, B
<1>2. 1 \in A /\ (One => B = {})
  BY <1>1
<1> QED
  BY <1>2 DEF One, A, B

\* One arrives.
LEMMA AppendNoMore ==
  ASSUME NEW q \in Seq(Datagrams), NEW e \in Datagrams, NEW d
  PROVE  /\ e # d => NoMore(Append(q, e), q, d)
         /\ e = d /\ About(q, d) = {} => About(Append(q, e), d) = {Len(q) + 1}
<1> DEFINE r == Append(q, e)
<1>1. /\ \A k \in DOMAIN q : k \in DOMAIN r /\ r[k] = q[k]
      /\ \A k \in DOMAIN r : \/ k \in DOMAIN q /\ r[k] = q[k]
                             \/ k = Len(q) + 1 /\ r[k] = e
  BY Lists
<1>2. Len(q) + 1 \in DOMAIN r /\ r[Len(q) + 1] = e
  BY AppendProperties
<1> HIDE DEF r
<1>3. e # d => \A i \in About(r, d) : i \in About(q, d)
  BY <1>1 DEF About
<1>4. e # d => NoMore(r, q, d)
  BY <1>3 DEF NoMore
<1>5. e = d /\ About(q, d) = {} => About(r, d) = {Len(q) + 1}
  <2> SUFFICES ASSUME e = d, About(q, d) = {} PROVE About(r, d) = {Len(q) + 1}
    OBVIOUS
  <2>1. \A k \in DOMAIN r : r[k] = d => k = Len(q) + 1
    BY <1>1 DEF About
  <2> QED
    BY <1>2, <2>1 DEF About
<1> QED
  BY <1>4, <1>5 DEF r

\* A step that brings no copy of d keeps what is under way in order.
LEMMA KeptUnderWay ==
  ASSUME NEW d, UnderWay(d),
         \A o \in Objects : NoMore(mail'[o], mail[o], d),
         \A s \in Servers : Working(s, d)' => Working(s, d),
         Waiting(d) => Waiting(d)'
  PROVE  UnderWay(d)'
<1>1. \A o \in Objects : InBuffer(o, d)' => InBuffer(o, d)
  BY DEF InBuffer, NoMore
<1>2. OneInBuffers(d)'
  BY <1>1 DEF UnderWay, OneInBuffers, NoMore
<1>3. OneAtWork(d)'
  BY <1>1 DEF UnderWay, OneAtWork
<1>4. Unanswered(d)'
  BY <1>1 DEF UnderWay, Unanswered
<1> QED
  BY <1>2, <1>3, <1>4 DEF UnderWay

LEMMA NowhereUnderWay ==
  ASSUME NEW d, Nowhere(d)'
  PROVE  UnderWay(d)'
BY DEF Nowhere, UnderWay, OneInBuffers, OneAtWork, Unanswered, InBuffer

LEMMA UnsentNowhere ==
  ASSUME NEW d, UnderWay(d), ~Waiting(d)
  PROVE  Nowhere(d)
BY DEF Nowhere, UnderWay, Unanswered, InBuffer

\* The only place is a buffer.
LEMMA BufferUnderWay ==
  ASSUME NEW d, NEW p \in Objects, NEW k, About(mail'[p], d) = {k}, Waiting(d)',
         \A o \in Objects \ {p} : About(mail'[o], d) = {},
         \A s \in Servers : ~Working(s, d)'
  PROVE  UnderWay(d)'
BY DEF UnderWay, OneInBuffers, OneAtWork, Unanswered, InBuffer

\* The only place is the loop of a Reply.
LEMMA WorkUnderWay ==
  ASSUME NEW d, NEW t \in Servers, Waiting(d)',
         \A o \in Objects : About(mail'[o], d) = {},
         \A s \in Servers \ {t} : ~Working(s, d)'
  PROVE  UnderWay(d)'
BY DEF UnderWay, OneInBuffers, OneAtWork, Unanswered, InBuffer

\* A datagram is put into a buffer, or lost.
LEMMA PutOther ==
  ASSUME Types, NEW p \in Objects, NEW e \in Datagrams, Put(p, e), NEW d, e # d
  PROVE  \A o \in Objects : NoMore(mail'[o], mail[o], d)
<1>1. mail \in [Objects -> Seq(Datagrams)]
  BY DEF Types
<1>2. CASE mail' = mail
  BY <1>2, SameNoMore
<1>3. CASE mail' = [mail EXCEPT ![p] = Append(mail[p], e)]
  <2> SUFFICES ASSUME NEW o \in Objects PROVE NoMore(mail'[o], mail[o], d)
    OBVIOUS
  <2>1. CASE o = p
    <3>1. mail'[o] = Append(mail[o], e) /\ mail[o] \in Seq(Datagrams)
      BY <1>1, <1>3, <2>1
    <3> QED
      BY <3>1, AppendNoMore
  <2>2. CASE o # p
    BY <1>1, <1>3, <2>2, SameNoMore
  <2> QED
    BY <2>1, <2>2
<1> QED
  BY <1>2, <1>3 DEF Put

\* The only copy comes into a buffer, or is lost.
LEMMA PutUnderWay ==
  ASSUME Types, NEW p \in Objects, NEW d \in Datagrams, Put(p, d), Waiting(d)',
         \A o \in Objects : About(mail[o], d) = {},
         \A s \in Servers : ~Working(s, d)'
  PROVE  UnderWay(d)'
<1>1. mail \in [Objects -> Seq(Datagrams)]
  BY DEF Types
<1>2. CASE mail' = mail
  <2>1. Nowhere(d)'
    BY <1>2 DEF Nowhere
  <2> QED
    BY <2>1, NowhereUnderWay
<1>3. CASE mail' = [mail EXCEPT ![p] = Append(mail[p], d)]
  <2>1. mail'[p] = Append(mail[p], d) /\ mail[p] \in Seq(Datagrams)
    BY <1>1, <1>3
  <2>2. About(mail'[p], d) = {Len(mail[p]) + 1}
    <3>1. About(mail[p], d) = {}
      OBVIOUS
    <3>2. d = d /\ About(mail[p], d) = {} => About(Append(mail[p], d), d) = {Len(mail[p]) + 1}
      BY ONLY <2>1, d \in Datagrams, AppendNoMore
    <3> QED
      BY <2>1, <3>1, <3>2
  <2>3. \A o \in Objects \ {p} : About(mail'[o], d) = {}
    BY <1>1, <1>3
  <2> QED
    BY <2>2, <2>3, BufferUnderWay
<1> QED
  BY <1>2, <1>3 DEF Put

-----------------------------------------------------------------------------
(* With one callback, servers keep what is under way in order. *)

LEMMA ServerKeepsOne ==
  ASSUME UdpInv, NEW s \in Servers, Server(s), kind = "rr", OneShort, Len(cb') <= 1,
         NEW d \in Datagrams, UnderWay(d)
  PROVE  UnderWay(d)'
<1> USE Members
<1>t. /\ Types /\ ServerOK(s) /\ s \in Objects /\ d.from \in Callers
      /\ mail \in [Objects -> Seq(Datagrams)] /\ mail[s] \in Seq(Datagrams)
      /\ got \in [Servers -> Datagrams \cup {NoDatagram}] /\ turn \in [Servers -> Nat]
      /\ \A f \in {cb[k] : k \in DOMAIN cb} : "long" \notin Returns(f)
  BY DatagramFacts DEF UdpInv, Types, OneShort, Returns
<1>a. Waiting(d)' = Waiting(d)
  <2>1. UNCHANGED <<sent, next, answers>> /\ at'[d.from] = at[d.from]
    BY <1>t, ServerFrame DEF callerVars
  <2> QED
    BY <2>1 DEF Waiting, Sent, Asked
<1>k. ASSUME \A o \in Objects : NoMore(mail'[o], mail[o], d),
             \A t \in Servers : Working(t, d)' => Working(t, d)
      PROVE  UnderWay(d)'
  BY <1>a, <1>k, KeptUnderWay
<1>m. ASSUME UNCHANGED mail
      PROVE  \A o \in Objects : NoMore(mail'[o], mail[o], d)
  BY <1>m, SameNoMore
<1>o. \A t \in Servers \ {s} : Working(t, d)' => Working(t, d)
  BY <1>t, OtherServers, ServerFrame DEF Working
<1>w. ASSUME at'[s] # "calls"
      PROVE  \A t \in Servers : Working(t, d)' => Working(t, d)
  BY <1>o, <1>w DEF Working
<1>1. ASSUME NEW a \in Addrs, ServerStarts(s, a)
      PROVE  UnderWay(d)'
  <2>1. at'[s] # "calls" /\ mail' = mail
    BY <1>t, <1>1, Moves DEF ServerStarts
  <2> QED
    BY <1>k, <1>m, <1>w, <2>1
<1>2. ASSUME NEW f \in Callbacks, RegisterCb(s, f)
      PROVE  UnderWay(d)'
  BY <1>2, <1>k, <1>m DEF RegisterCb, Working
<1>3. CASE Loops(s)
  <2>1. at'[s] # "calls" /\ mail' = mail
    BY <1>t, <1>3, Moves DEF Loops
  <2> QED
    BY <1>k, <1>m, <1>w, <2>1
<1>4. CASE Receives(s)
  <2>1. /\ at[s] = "recv" /\ mail[s] # <<>>
        /\ mail' = [mail EXCEPT ![s] = Tail(mail[s])]
    BY <1>4 DEF Receives
  <2>2. /\ mail'[s] = Tail(mail[s]) /\ NoMore(mail'[s], mail[s], d)
        /\ \A o \in Objects \ {s} : mail'[o] = mail[o]
    BY <1>t, <2>1, TailNoMore
  <2>3. \A o \in Objects : NoMore(mail'[o], mail[o], d)
    BY <2>2, SameNoMore
  <2>4. CASE Goto(s, "idle")
    <3>1. at'[s] # "calls"
      BY <1>t, <2>4, Moves
    <3> QED
      BY <1>k, <1>w, <2>3, <3>1
  <2>5. CASE got' = [got EXCEPT ![s] = Head(mail[s])]
    <3>1. got'[s] = Head(mail[s])
      BY <1>t, <2>5
    <3>2. CASE Head(mail[s]) # d
      <4>1. ~Working(s, d)'
        BY <3>1, <3>2 DEF Working
      <4> QED
        BY <1>k, <1>o, <2>3, <4>1
    <3>3. CASE Head(mail[s]) = d
      <4>1. /\ 1 \in About(mail[s], d)
            /\ (\A i, j \in About(mail[s], d) : i = j) => About(Tail(mail[s]), d) = {}
        <5>1. PICK q \in Seq(Datagrams) : q = mail[s]
          BY <1>t
        <5>2. q # <<>> /\ Head(q) = d
          BY <2>1, <3>3, <5>1
        <5>3. 1 \in About(q, d) /\ ((\A i, j \in About(q, d) : i = j) => About(Tail(q), d) = {})
          BY ONLY <5>2, q \in Seq(Datagrams), d \in Datagrams, HeadAbout
        <5> QED
          BY <5>1, <5>3
      <4>2. InBuffer(s, d)
        BY <4>1 DEF InBuffer
      <4>3. About(mail'[s], d) = {}
        BY <1>t, <2>2, <4>1 DEF UnderWay, OneInBuffers
      <4>4. \A o \in Objects \ {s} : About(mail'[o], d) = {}
        BY <1>t, <2>2, <4>2 DEF UnderWay, OneInBuffers, InBuffer
      <4>5. \A t \in Servers : ~Working(t, d)
        BY <1>t, <4>2 DEF UnderWay, OneAtWork
      <4>6. Waiting(d)'
        BY <1>a, <1>t, <4>2 DEF UnderWay, Unanswered
      <4>7. \A t \in Servers \ {s} : ~Working(t, d)'
        BY <1>o, <4>5
      <4>8. \A o \in Objects : About(mail'[o], d) = {}
        BY <4>3, <4>4
      <4> QED
        BY <4>6, <4>7, <4>8, WorkUnderWay
    <3> QED
      BY <3>2, <3>3
  <2> QED
    BY <1>4, <2>4, <2>5 DEF Receives
<1>5. CASE Calls(s)
  <2>1. PICK r : Called(s, r) /\ Replies(r, got[s])
    BY <1>5 DEF Calls
  <2>2. /\ at[s] = "calls" /\ got[s] \in Datagrams /\ turn[s] <= Len(cb)
        /\ turn'[s] = turn[s] + 1 /\ cb' = cb
    BY <1>t, <1>5, <2>1 DEF Calls, Called, ServerOK
  <2>3. turn[s] = 1
    <3>1. turn[s] \in Nat /\ turn[s] >= 1 /\ Len(cb) \in Nat
      BY <1>t, <2>2 DEF ServerOK, Types
    <3>2. Len(cb) <= 1
      BY <2>2
    <3> QED
      BY <2>2, <3>1, <3>2
  <2>4. ~Working(s, d)'
    <3>1. turn'[s] # 1
      BY <2>2, <2>3
    <3> QED
      BY <3>1 DEF Working
  <2>5. \A t \in Servers : Working(t, d)' => Working(t, d)
    BY <1>o, <2>4
  <2>6. CASE UNCHANGED mail
    BY <1>k, <1>m, <2>5, <2>6
  <2>7. CASE Put(got[s].from, got[s])
    <3>1. got[s].from \in Objects
      BY <2>2, DatagramFacts
    <3>2. CASE got[s] # d
      <4>1. \A o \in Objects : NoMore(mail'[o], mail[o], d)
        BY <1>t, <2>2, <2>7, <3>1, <3>2, PutOther
      <4> QED
        BY <1>k, <2>5, <4>1
    <3>3. CASE got[s] = d
      <4>1. Working(s, d)
        BY <2>2, <2>3, <3>3 DEF Working
      <4>2. \A o \in Objects : About(mail[o], d) = {}
        BY <4>1 DEF UnderWay, OneAtWork, InBuffer
      <4>3. \A t \in Servers : ~Working(t, d)'
        BY <2>4, <2>5, <4>1 DEF UnderWay, OneAtWork
      <4>4. Waiting(d)'
        BY <1>a, <4>1 DEF UnderWay, Unanswered
      <4>5. Put(d.from, d) /\ d.from \in Objects
        BY <2>7, <3>1, <3>3
      <4> QED
        BY <1>t, <4>2, <4>3, <4>4, <4>5, PutUnderWay
    <3> QED
      BY <3>2, <3>3
  <2> QED
    BY <2>1, <2>6, <2>7 DEF Replies
<1>6. CASE Stops(s)
  BY <1>6, <1>k, <1>m DEF Stops, Working
<1>7. CASE ServerEnds(s)
  <2>1. mail'[s] = <<>> /\ at'[s] # "calls" /\ \A o \in Objects \ {s} : mail'[o] = mail[o]
    BY <1>t, <1>7, Moves DEF ServerEnds
  <2>2. \A o \in Objects : NoMore(mail'[o], mail[o], d)
    BY <2>1, SameNoMore, EmptyNoMore
  <2> QED
    BY <1>k, <1>w, <2>1, <2>2
<1>8. CASE ReceivesNothing(s) \/ ReplyRaises(s) \/ LoopsAgain(s)
  <2>1. at'[s] # "calls" /\ mail' = mail
    BY <1>t, <1>8, Moves DEF ReceivesNothing, ReplyRaises, LoopsAgain
  <2> QED
    BY <1>k, <1>m, <1>w, <2>1
<1>9. ~CallsLong(s)
  <2> SUFFICES ASSUME CallsLong(s) PROVE FALSE
    OBVIOUS
  <2>1. at[s] = "calls" /\ turn[s] <= Len(cb) /\ "long" \in Returns(cb[turn[s]])
    BY DEF CallsLong, Called
  <2>2. turn[s] \in DOMAIN cb
    BY <1>t, <2>1 DEF ServerOK, Types
  <2> QED
    BY <1>t, <2>1, <2>2
<1>10. ~RepliesPart(s)
  BY <1>t DEF RepliesPart, ServerOK
<1> QED
  BY <1>1, <1>2, <1>3, <1>4, <1>5, <1>6, <1>7, <1>8, <1>9, <1>10 DEF Server

-----------------------------------------------------------------------------
(* So do callers. *)

\* A caller's step changes its own place and variables, and nothing of servers.
LEMMA CallerFrame ==
  ASSUME UdpInv, NEW e \in Callers, Caller(e)
  PROVE  /\ UNCHANGED <<kind, timed, serverVars>>
         /\ \A o \in Objects \ {e} : at'[o] = at[o]
         /\ \A c \in Callers \ {e} :
              sent'[c] = sent[c] /\ next'[c] = next[c] /\ answers'[c] = answers[c]
         /\ \A s \in Servers, d \in Datagrams : Working(s, d)' <=> Working(s, d)
<1> USE Members
<1>t. /\ Types /\ e \in Objects /\ \A s \in Servers : s \in Objects \ {e}
  BY DEF UdpInv
<1>1. /\ UNCHANGED <<kind, timed, serverVars>>
      /\ \A o \in Objects \ {e} : at'[o] = at[o]
      /\ \A c \in Callers \ {e} :
           sent'[c] = sent[c] /\ next'[c] = next[c] /\ answers'[c] = answers[c]
  <2>g. ASSUME NEW place, Goto(e, place)
        PROVE  \A o \in Objects \ {e} : at'[o] = at[o]
    BY <1>t, <2>g, Moves
  <2>1. CASE SendsShort(e) \/ SendsPart(e)
    <3>1. UNCHANGED <<kind, timed, serverVars, sent, answers>> /\ UNCHANGED at
      BY <2>1 DEF SendsShort, SendsPart, SendsOne
    <3>2. next' = next \/ next' = [next EXCEPT ![e] = @ + 1]
      BY <2>1 DEF SendsShort, SendsPart
    <3> QED
      BY <1>t, <3>1, <3>2 DEF Types
  <2>2. CASE Raises(e)
    BY <2>2, <2>g DEF Raises, callerVars
  <2>3. CASE SendsNoMore(e)
    BY <2>3, <2>g DEF SendsNoMore, callerVars
  <2>4. CASE RequestReturns(e) \/ RequestTimesOut(e)
    BY <1>t, <2>4, <2>g DEF RequestReturns, RequestTimesOut, Types
  <2>5. CASE Begins(e)
    BY <1>t, <2>5, <2>g DEF Begins, Types
  <2> QED
    BY <2>1, <2>2, <2>3, <2>4, <2>5, BeginsFacts
<1>2. UNCHANGED <<got, turn>> /\ \A s \in Servers : at'[s] = at[s]
  BY <1>t, <1>1 DEF serverVars
<1> QED
  BY <1>1, <1>2 DEF Working

\* A request that is being sent is a datagram.
LEMMA BeingSent ==
  ASSUME UdpInv, NEW e \in Callers, at[e] = "sends"
  PROVE  [from |-> e, n |-> sent[e]] \in Datagrams
<1> USE Members
<1>1. CallerOK(e) /\ sent[e] \in Nat /\ Len(answers[e]) \in Nat
  BY DEF UdpInv, Types
<1>2. sent[e] \in DOMAIN Sizes[e]
  BY <1>1 DEF CallerOK
<1> QED
  BY <1>2 DEF Datagrams

\* A caller brings a copy of no other datagram than that of its call.
LEMMA BringsNone ==
  ASSUME UdpInv, NEW e \in Callers, Caller(e), NEW d \in Datagrams,
         d # [from |-> e, n |-> sent[e]] \/ ~SendsOne(e)
  PROVE  \A o \in Objects : NoMore(mail'[o], mail[o], d)
<1> USE Members
<1>t. Types /\ e \in Objects /\ mail \in [Objects -> Seq(Datagrams)]
  BY DEF UdpInv, Types
<1>1. CASE UNCHANGED mail
  BY <1>1, SameNoMore
<1>2. CASE SendsOne(e)
  <2> DEFINE m == [from |-> e, n |-> sent[e]]
  <2>1. PICK a : PutAt(a, m)
    BY <1>2 DEF SendsOne
  <2>2. m \in Datagrams
    BY <1>2, BeingSent DEF SendsOne
  <2>3. m # d
    BY <1>2
  <2> HIDE DEF m
  <2>4. ASSUME NEW s \in Servers, Put(s, m)
        PROVE  \A o \in Objects : NoMore(mail'[o], mail[o], d)
    <3>1. s \in Objects
      OBVIOUS
    <3> QED
      BY <1>t, <2>2, <2>3, <2>4, <3>1, PutOther
  <2> QED
    BY <1>1, <2>1, <2>4 DEF PutAt
<1>3. CASE RequestReturns(e)
  <2>1. /\ mail[e] # <<>> /\ mail[e] \in Seq(Datagrams)
        /\ mail'[e] = Tail(mail[e]) /\ \A o \in Objects \ {e} : mail'[o] = mail[o]
    BY <1>t, <1>3 DEF RequestReturns
  <2>2. NoMore(mail'[e], mail[e], d)
    BY <2>1, TailNoMore
  <2> QED
    BY <2>1, <2>2, SameNoMore
<1>4. CASE Begins(e) \/ RequestTimesOut(e) \/ Raises(e) \/ SendsNoMore(e)
  BY <1>1, <1>4 DEF Begins, RequestTimesOut, Raises, SendsNoMore
<1> QED
  BY <1>2, <1>3, <1>4, BeginsFacts DEF SendsShort, SendsPart

\* What another caller does brings c nothing.
LEMMA OthersKeepOne ==
  ASSUME UdpInv, NEW e \in Callers, Caller(e), NEW c \in Callers, c # e, OneCall(c)
  PROVE  OneCall(c)'
<1> USE Members
<1>1. /\ timed' = timed /\ at'[c] = at[c]
      /\ sent'[c] = sent[c] /\ next'[c] = next[c] /\ answers'[c] = answers[c]
  BY CallerFrame
<1>2. Answered(c)'
  BY <1>1 DEF OneCall, Answered, Returned, InStep
<1>3. ASSUME NEW d \in Datagrams, d.from = c
      PROVE  UnderWay(d)'
  <2>1. UnderWay(d) /\ (Waiting(d)' <=> Waiting(d))
    BY <1>1, <1>3 DEF OneCall, Waiting, Sent, Asked
  <2>2. \A o \in Objects : NoMore(mail'[o], mail[o], d)
    BY <1>3, BringsNone
  <2>3. \A s \in Servers : Working(s, d)' => Working(s, d)
    BY CallerFrame
  <2> QED
    BY <2>1, <2>2, <2>3, KeptUnderWay
<1> QED
  BY <1>2, <1>3 DEF OneCall

\* request() sends: its call has a place in a buffer from now on, or nowhere.
LEMMA SendKeepsOne ==
  ASSUME UdpInv, kind = "rr", NEW c \in Callers, SendsShort(c), NoneLong(c), OneCall(c)
  PROVE  OneCall(c)'
<1> USE Members
<1>m. PICK m : m = [from |-> c, n |-> sent[c]]
  OBVIOUS
<1>t. /\ Types /\ CallerOK(c) /\ c \in Objects /\ sent[c] \in Nat /\ next[c] \in Nat
      /\ next \in [Callers -> Nat] /\ at[c] = "sends" /\ Returned(c)
  BY DEF UdpInv, Types, OneCall, Answered, SendsShort, SendsOne
<1>c. Caller(c)
  BY DEF Caller
<1>1. /\ UNCHANGED <<kind, timed, at, sent, answers>> /\ next'[c] = next[c] + 1
      /\ next[c] <= Len(to[c]) /\ \E a : PutAt(a, m)
  BY <1>m, <1>t DEF SendsShort, SendsOne, Targets
<1>2. next[c] = 1
  <2>1. next[c] > 0 /\ Len(to[c]) <= 1 /\ Len(to[c]) \in Nat
    BY <1>t, <1>1 DEF CallerOK, Sending, UdpInv, Distinct, Types
  <2> QED
    BY <1>t, <1>1, <2>1
<1>3. Answered(c)'
  BY <1>1 DEF OneCall, Answered, Returned, InStep
<1>4. \A s \in Servers, d \in Datagrams : Working(s, d)' <=> Working(s, d)
  BY <1>c, CallerFrame
<1>5. m \in Datagrams /\ m.from = c /\ m.n = sent[c]
  BY <1>m, <1>t, BeingSent
<1>6. ASSUME NEW d \in Datagrams, d.from = c, d # m
      PROVE  UnderWay(d)'
  <2>1. UnderWay(d) /\ (Waiting(d) => Waiting(d)')
    <3>1. Asked(c)'
      BY <1>1, <1>2 DEF Asked
    <3> QED
      BY <1>1, <1>6, <3>1 DEF OneCall, Waiting, Sent
  <2>2. \A o \in Objects : NoMore(mail'[o], mail[o], d)
    BY <1>c, <1>m, <1>6, BringsNone
  <2> QED
    BY <1>4, <2>1, <2>2, KeptUnderWay
<1>7. UnderWay(m)'
  <2>1. \A k \in DOMAIN answers[c] : answers[c][k] # m
    <3> SUFFICES ASSUME NEW k \in DOMAIN answers[c], answers[c][k] = m PROVE FALSE
      OBVIOUS
    <3>1. m # NoDatagram
      BY <1>5, DatagramFacts DEF NoDatagram
    <3>2. m.n \in 1..k
      BY <1>t, <3>1 DEF Returned
    <3>3. Len(answers[c]) = sent[c] - 1 /\ answers[c] \in Seq(Datagrams \cup {NoDatagram})
      BY <1>t DEF Returned, Types
    <3>4. k \in Nat /\ k <= sent[c] - 1
      BY <3>3
    <3> QED
      BY <1>5, <1>t, <3>2, <3>4
  <2>2. ~Waiting(m)
    <3>1. ~(sent[c] < sent[c]) /\ ~Asked(c)
      BY <1>t, <1>2 DEF Asked
    <3> QED
      BY <1>5, <3>1 DEF Waiting, Sent
  <2>3. Nowhere(m)
    BY <1>5, <2>2, UnsentNowhere DEF OneCall
  <2>4. Waiting(m)'
    <3>1. Asked(c)'
      BY <1>1, <1>2 DEF Asked
    <3> QED
      BY <1>1, <1>5, <2>1, <3>1 DEF Waiting, Sent
  <2>5. \A s \in Servers : ~Working(s, m)'
    BY <1>4, <1>5, <2>3 DEF Nowhere
  <2>6. \A o \in Objects : About(mail[o], m) = {}
    BY <2>3 DEF Nowhere
  <2>7. CASE UNCHANGED mail
    <3>1. Nowhere(m)'
      BY <2>5, <2>6, <2>7 DEF Nowhere
    <3> QED
      BY <3>1, NowhereUnderWay
  <2>8. ASSUME NEW s \in Servers, Put(s, m)
        PROVE  UnderWay(m)'
    <3>1. s \in Objects
      OBVIOUS
    <3> QED
      BY <1>t, <1>5, <2>4, <2>5, <2>6, <2>8, <3>1, PutUnderWay
  <2> QED
    BY <1>1, <2>7, <2>8 DEF PutAt
<1> QED
  BY <1>3, <1>6, <1>7 DEF OneCall

\* What request() appends to its answers.
LEMMA AppendsAnswer ==
  ASSUME NEW c \in Callers, Returned(c), at[c] = "recv", at'[c] = "idle", sent'[c] = sent[c],
         sent[c] \in Nat, answers[c] \in Seq(Datagrams \cup {NoDatagram}),
         NEW e \in Datagrams \cup {NoDatagram}, answers'[c] = Append(answers[c], e),
         e # NoDatagram => /\ e.from = c /\ e.n \in 1..sent[c]
                           /\ \A k \in DOMAIN answers[c] : answers[c][k] # e
  PROVE  /\ Returned(c)' /\ Len(answers[c]) + 1 = sent[c]
         /\ \A k \in DOMAIN answers'[c] :
              \/ k \in DOMAIN answers[c] /\ answers'[c][k] = answers[c][k]
              \/ k = sent[c] /\ answers'[c][k] = e
<1> DEFINE q == answers[c]
           r == answers'[c]
<1>1. Len(q) + 1 = sent[c] /\ Len(q) \in Nat
  BY DEF Returned
<1>2. /\ Len(r) = Len(q) + 1
      /\ \A k \in DOMAIN r : \/ k \in DOMAIN q /\ r[k] = q[k]
                             \/ k = sent[c] /\ r[k] = e
  BY <1>1, Lists
<1>3. /\ \A k \in DOMAIN q : q[k] # NoDatagram => q[k].from = c /\ q[k].n \in 1..k
      /\ \A j, k \in DOMAIN q : q[k] # NoDatagram /\ q[j] = q[k] => j = k
  BY DEF Returned
<1> HIDE DEF q, r
<1>4. \A k \in DOMAIN r : r[k] # NoDatagram => r[k].from = c /\ r[k].n \in 1..k
  BY <1>2, <1>3 DEF q
<1>5. \A j, k \in DOMAIN r : r[k] # NoDatagram /\ r[j] = r[k] => j = k
  BY <1>2, <1>3 DEF q
<1>6. Returned(c)'
  BY <1>1, <1>2, <1>4, <1>5 DEF Returned, r
<1> QED
  BY <1>1, <1>2, <1>6 DEF q, r

\* request() takes what is first in its buffer: an answer to a request that it
\* has sent and has not returned the answer to.
LEMMA ReturnKeepsOne ==
  ASSUME UdpInv, kind = "rr", NEW c \in Callers, RequestReturns(c), ToItself(c), OneCall(c)
  PROVE  OneCall(c)'
<1> USE Members
<1>h. PICK h : h = Head(mail[c])
  OBVIOUS
<1>t. /\ Types /\ c \in Objects /\ mail \in [Objects -> Seq(Datagrams)]
      /\ sent[c] \in Nat /\ answers \in [Callers -> Seq(Datagrams \cup {NoDatagram})]
      /\ answers[c] \in Seq(Datagrams \cup {NoDatagram}) /\ Returned(c)
      /\ Caller(c)
  BY DEF UdpInv, Types, OneCall, Answered, Caller
<1>1. /\ at[c] = "recv" /\ mail[c] # <<>> /\ mail[c] \in Seq(Datagrams) /\ at'[c] = "idle"
      /\ UNCHANGED <<kind, timed, sent, next>>
      /\ mail'[c] = Tail(mail[c]) /\ \A o \in Objects \ {c} : mail'[o] = mail[o]
      /\ answers'[c] = Append(answers[c], h)
  BY <1>h, <1>t, Moves DEF RequestReturns
<1>2. h \in Datagrams /\ 1 \in DOMAIN mail[c] /\ mail[c][1] = h
  BY <1>h, <1>1
<1>3. h.from = c /\ h.n \in Nat /\ h.n >= 1
  <2>1. h.from = c
    BY <1>2 DEF ToItself
  <2>2. h.n \in DOMAIN Sizes[c]
    BY <1>2, <2>1, DatagramFacts
  <2> QED
    BY <2>1, <2>2
<1>4. UnderWay(h) /\ InBuffer(c, h)
  BY <1>2, <1>3 DEF OneCall, InBuffer, About
<1>5. Waiting(h)
  BY <1>t, <1>4 DEF UnderWay, Unanswered
<1>6. h.n \in 1..sent[c] /\ \A k \in DOMAIN answers[c] : answers[c][k] # h
  BY <1>t, <1>3, <1>5 DEF Waiting, Sent
<1>7. /\ Returned(c)' /\ Len(answers[c]) + 1 = sent[c]
      /\ \A k \in DOMAIN answers'[c] :
           \/ k \in DOMAIN answers[c] /\ answers'[c][k] = answers[c][k]
           \/ k = sent[c] /\ answers'[c][k] = h
  <2>1. h \in Datagrams \cup {NoDatagram} /\ sent'[c] = sent[c]
    BY <1>1, <1>2
  <2> QED
    BY ONLY <1>t, <1>1, <1>3, <1>6, <2>1, c \in Callers, AppendsAnswer
<1>8. ASSUME c \notin timed
      PROVE  InStep(c)'
  <2>1. InStep(c)
    BY <1>8 DEF OneCall, Answered
  <2>2. h.n = sent[c]
    <3> SUFFICES ASSUME h.n # sent[c] PROVE FALSE
      OBVIOUS
    <3>1. h.n \in DOMAIN answers[c]
      BY <1>t, <1>6, <1>7
    <3>2. answers[c][h.n] = [from |-> c, n |-> h.n]
      BY <2>1, <3>1 DEF InStep
    <3>3. h = [from |-> c, n |-> h.n]
      BY <1>2, <1>3 DEF Datagrams
    <3> QED
      BY <1>6, <3>1, <3>2, <3>3
  <2>3. h = [from |-> c, n |-> sent[c]]
    BY <1>2, <1>3, <2>2 DEF Datagrams
  <2> QED
    BY <1>7, <2>1, <2>3 DEF InStep
<1>9. Answered(c)'
  BY <1>1, <1>7, <1>8 DEF Answered
<1>w. \A s \in Servers, d \in Datagrams : Working(s, d)' <=> Working(s, d)
  BY <1>t, CallerFrame
<1>10. UnderWay(h)'
  <2>1. \A s \in Servers : ~Working(s, h)'
    BY <1>t, <1>2, <1>4, <1>w DEF UnderWay, OneAtWork
  <2>2. \A o \in Objects \ {c} : About(mail'[o], h) = {}
    BY <1>t, <1>1, <1>4 DEF UnderWay, OneInBuffers, InBuffer
  <2>3. About(mail'[c], h) = {}
    <3>1. \A i, j \in About(mail[c], h) : i = j
      BY <1>t, <1>4 DEF UnderWay, OneInBuffers
    <3>2. About(Tail(mail[c]), h) = {}
      <4>1. PICK q \in Seq(Datagrams) : q = mail[c]
        BY <1>1
      <4>2. q # <<>> /\ Head(q) = h
        BY <1>h, <1>1, <4>1
      <4>3. (\A i, j \in About(q, h) : i = j) => About(Tail(q), h) = {}
        BY ONLY <1>2, <4>2, q \in Seq(Datagrams), HeadAbout
      <4> QED
        BY <3>1, <4>1, <4>3
    <3> QED
      BY <1>1, <3>2
  <2>4. Nowhere(h)'
    BY <2>1, <2>2, <2>3 DEF Nowhere
  <2> QED
    BY <2>4, NowhereUnderWay
<1>11. ASSUME NEW d \in Datagrams, d.from = c, d # h
       PROVE  UnderWay(d)'
  <2>1. UnderWay(d)
    BY <1>11 DEF OneCall
  <2>2. Waiting(d) => Waiting(d)'
    <3>1. Asked(c)'
      BY <1>1 DEF Asked
    <3>2. (\A k \in DOMAIN answers[c] : answers[c][k] # d)
            => \A k \in DOMAIN answers'[c] : answers'[c][k] # d
      BY <1>7, <1>11
    <3> QED
      BY <1>1, <1>11, <3>1, <3>2 DEF Waiting, Sent
  <2>3. ~SendsOne(c)
    BY <1>1 DEF SendsOne
  <2>4. \A o \in Objects : NoMore(mail'[o], mail[o], d)
    BY <1>t, <2>3, BringsNone
  <2> QED
    BY <1>w, <2>1, <2>2, <2>4, KeptUnderWay
<1> QED
  BY <1>9, <1>10, <1>11 DEF OneCall

\* request() begins, has sent, or finds nothing in time: nothing moves.
LEMMA OtherwiseKeepsOne ==
  ASSUME UdpInv, kind = "rr", NEW c \in Callers, Caller(c), OneCall(c),
         Begins(c) \/ SendsNoMore(c) \/ RequestTimesOut(c)
  PROVE  OneCall(c)'
<1> USE Members
<1>t. /\ Types /\ c \in Objects /\ sent \in [Callers -> Nat] /\ sent[c] \in Nat
      /\ answers \in [Callers -> Seq(Datagrams \cup {NoDatagram})]
      /\ answers[c] \in Seq(Datagrams \cup {NoDatagram})
      /\ Answered(c) /\ Returned(c)
  BY DEF UdpInv, Types, OneCall, Answered
<1>d. (\A d \in Datagrams : d.n \in Nat) /\ NoDatagram \notin Datagrams
  <2>1. \A d \in Datagrams : d.n \in Nat \ {0}
    BY DatagramFacts
  <2>2. NoDatagram \notin Datagrams
    BY <2>1 DEF NoDatagram
  <2> QED
    BY <2>1, <2>2
<1>w. \A s \in Servers, d \in Datagrams : Working(s, d)' <=> Working(s, d)
  BY CallerFrame
<1>m. mail' = mail /\ timed' = timed
  BY DEF Begins, SendsNoMore, RequestTimesOut
<1>1. Answered(c)' /\ \A d \in Datagrams : d.from = c /\ Waiting(d) => Waiting(d)'
  <2>1. CASE Begins(c)
    <3>1. /\ at[c] = "idle" /\ sent'[c] = sent[c] + 1 /\ answers' = answers
          /\ at'[c] = "sends"
      BY <1>t, <2>1, Moves DEF Begins
    <3>2. Answered(c)'
      BY <1>m, <1>t, <3>1 DEF Answered, Returned, InStep
    <3>3. ASSUME NEW d \in Datagrams, d.from = c, Waiting(d)
          PROVE  Waiting(d)'
      <4>1. d.n < sent[c] + 1
        BY <1>t, <1>d, <3>3 DEF Waiting, Sent
      <4> QED
        BY <3>1, <3>3, <4>1 DEF Waiting, Sent
    <3> QED
      BY <3>2, <3>3
  <2>2. CASE SendsNoMore(c)
    <3>1. at[c] = "sends" /\ at'[c] = "recv" /\ UNCHANGED <<sent, answers>>
      BY <1>t, <2>2, Moves DEF SendsNoMore, callerVars
    <3> QED
      BY <1>m, <1>t, <3>1 DEF Answered, Returned, InStep, Waiting, Sent, Asked
  <2>3. CASE RequestTimesOut(c)
    <3>1. /\ at[c] = "recv" /\ at'[c] = "idle" /\ c \in timed /\ sent' = sent
          /\ answers'[c] = Append(answers[c], NoDatagram)
      BY <1>t, <2>3, Moves DEF RequestTimesOut
    <3>2. /\ Returned(c)'
          /\ \A k \in DOMAIN answers'[c] :
               \/ k \in DOMAIN answers[c] /\ answers'[c][k] = answers[c][k]
               \/ k = sent[c] /\ answers'[c][k] = NoDatagram
      BY <1>t, <3>1, AppendsAnswer
    <3>3. ASSUME NEW d \in Datagrams, d.from = c, Waiting(d)
          PROVE  Waiting(d)'
      <4>1. \A k \in DOMAIN answers'[c] : answers'[c][k] # d
        BY <1>d, <3>2, <3>3 DEF Waiting
      <4> QED
        BY <3>1, <3>3, <4>1 DEF Waiting, Sent, Asked
    <3> QED
      BY <1>m, <3>1, <3>2, <3>3 DEF Answered
  <2> QED
    BY <2>1, <2>2, <2>3
<1>2. ASSUME NEW d \in Datagrams, d.from = c
      PROVE  UnderWay(d)'
  <2>1. \A o \in Objects : NoMore(mail'[o], mail[o], d)
    BY <1>m, SameNoMore
  <2> QED
    BY <1>1, <1>2, <1>w, <2>1, KeptUnderWay DEF OneCall
<1> QED
  BY <1>1, <1>2 DEF OneCall

\* What a caller does itself.
LEMMA ItselfKeepsOne ==
  ASSUME UdpInv, kind = "rr", NEW c \in Callers, Caller(c), ToItself(c), NoneLong(c), OneCall(c)
  PROVE  OneCall(c)'
<1> USE Members
<1>1. ~IsLong(c)
  <2>1. sent[c] \in Nat
    BY DEF UdpInv, Types
  <2> QED
    BY <2>1 DEF IsLong, NoneLong
<1>2. ~SendsPart(c)
  BY <1>1 DEF SendsPart
<1>3. ~Raises(c)
  <2> SUFFICES ASSUME Raises(c) PROVE FALSE
    OBVIOUS
  <2>1. part[c] = 0 /\ part[c] = NUM
    BY <1>1 DEF Raises, UdpInv, CallerOK, Sending
  <2> QED
    BY <2>1
<1> QED
  BY <1>2, <1>3, SendKeepsOne, ReturnKeepsOne, OtherwiseKeepsOne, BeginsFacts

-----------------------------------------------------------------------------
\* Nobody else's datagrams get into the buffer of a caller.
LEMMA ToItselfKept ==
  ASSUME UdpInv, Next, NEW c \in Callers, ToItself(c)
  PROVE  ToItself(c)'
<1> USE Members
<1>t. /\ Types /\ c \in Objects /\ c \notin Servers /\ mail \in [Objects -> Seq(Datagrams)]
      /\ mail[c] \in Seq(Datagrams)
  BY DEF UdpInv, Types
<1>1. CASE mail'[c] = mail[c]
  BY <1>1 DEF ToItself
<1>2. ASSUME NEW s \in Servers, Server(s)
      PROVE  ToItself(c)'
  <2>1. ServerOK(s)
    BY DEF UdpInv
  <2>2. CASE Calls(s) \/ RepliesPart(s)
    <3>1. got[s] \in Datagrams /\ (UNCHANGED mail \/ Put(got[s].from, got[s]))
      BY <2>1, <2>2 DEF Calls, Called, RepliesPart, ServerOK, Replies
    <3>2. CASE Put(got[s].from, got[s]) /\ got[s].from = c /\ mail'[c] # mail[c]
      <4> DEFINE d == got[s]
                 r == mail'[c]
      <4>1. r = Append(mail[c], d)
        BY <1>t, <3>2 DEF Put
      <4>2. \A k \in DOMAIN r : \/ k \in DOMAIN mail[c] /\ r[k] = mail[c][k]
                                \/ k = Len(mail[c]) + 1 /\ r[k] = d
        BY <1>t, <3>1, <4>1, Lists
      <4> QED
        BY <3>2, <4>2 DEF ToItself
    <3>3. CASE Put(got[s].from, got[s]) /\ got[s].from # c
      BY <1>t, <1>1, <3>3 DEF Put
    <3> QED
      BY <1>1, <3>1, <3>2, <3>3
  <2>3. CASE ~Calls(s) /\ ~RepliesPart(s)
    <3>1. mail'[c] = mail[c]
      BY <1>2, <1>t, <2>3
      DEF Server, ServerStarts, RegisterCb, Loops, Receives, ReceivesNothing, CallsLong,
          ReplyRaises, LoopsAgain, Stops, ServerEnds
    <3> QED
      BY <1>1, <3>1
  <2> QED
    BY <2>2, <2>3
<1>3. ASSUME NEW e \in Callers, Caller(e)
      PROVE  ToItself(c)'
  <2>1. CASE SendsShort(e) \/ SendsPart(e)
    <3>1. PICK a, d : PutAt(a, d)
      BY <2>1 DEF SendsShort, SendsPart, SendsOne
    <3>2. mail'[c] = mail[c]
      BY <1>t, <3>1 DEF PutAt, Put
    <3> QED
      BY <1>1, <3>2
  <2>2. CASE RequestReturns(e)
    <3>1. mail' = [mail EXCEPT ![e] = Tail(mail[e])] /\ mail[e] # <<>>
      BY <2>2 DEF RequestReturns
    <3>2. CASE e = c
      <4> DEFINE q == mail[c]
      <4>1. mail'[c] = Tail(q) /\ q \in Seq(Datagrams) /\ q # <<>>
        BY <1>t, <3>1, <3>2
      <4> HIDE DEF q
      <4>2. \A i \in DOMAIN Tail(q) : i + 1 \in DOMAIN q /\ Tail(q)[i] = q[i + 1]
        BY <4>1
      <4>3. \A i \in DOMAIN q : q[i].from = c
        BY DEF ToItself, q
      <4> QED
        BY <4>1, <4>2, <4>3 DEF ToItself
    <3>3. CASE e # c
      BY <1>t, <1>1, <3>1, <3>3
    <3> QED
      BY <3>2, <3>3
  <2>3. CASE Raises(e) \/ SendsNoMore(e) \/ Begins(e) \/ RequestTimesOut(e)
    BY <1>1, <2>3 DEF Raises, SendsNoMore, Begins, RequestTimesOut
  <2> QED
    BY <1>3, <2>1, <2>2, <2>3, BeginsFacts
<1>4. ASSUME NEW a \in Addrs, AddClient(a)
      PROVE  ToItself(c)'
  BY <1>1, <1>4 DEF AddClient
<1> QED
  BY <1>2, <1>3, <1>4 DEF Next

\* A Publisher gets no answers.
LEMMA NoAnswersKept ==
  ASSUME UdpInv, Next, kind = "ps", NEW c \in Callers, NoAnswers(c)
  PROVE  NoAnswers(c)'
<1> USE Members
<1>t. Types /\ c \in Objects /\ at[c] # "recv"
  BY DEF UdpInv, NoAnswers
<1>1. ASSUME NEW s \in Servers, Server(s)
      PROVE  NoAnswers(c)'
  <2>1. at'[c] = at[c] /\ UNCHANGED callerVars
    BY <1>t, <1>1, ServerFrame
  <2> QED
    BY <2>1 DEF NoAnswers, callerVars
<1>2. ASSUME NEW e \in Callers, Caller(e), e # c
      PROVE  NoAnswers(c)'
  BY <1>t, <1>2, CallerFrame DEF NoAnswers
<1>3. CASE Caller(c)
  <2>1. CASE SendsShort(c) \/ SendsPart(c)
    BY <2>1 DEF SendsShort, SendsPart, SendsOne, NoAnswers
  <2>2. CASE Raises(c) \/ SendsNoMore(c)
    BY <1>t, <2>2, Moves DEF Raises, SendsNoMore, callerVars, NoAnswers
  <2>3. CASE Begins(c)
    BY <1>t, <2>3, Moves DEF Begins, NoAnswers
  <2>4. CASE RequestReturns(c) \/ RequestTimesOut(c)
    BY <1>t, <2>4 DEF RequestReturns, RequestTimesOut
  <2> QED
    BY <1>3, <2>1, <2>2, <2>3, <2>4, BeginsFacts
<1>4. ASSUME NEW a \in Addrs, AddClient(a)
      PROVE  NoAnswers(c)'
  BY <1>4 DEF AddClient, NoAnswers
<1> QED
  BY <1>1, <1>2, <1>3, <1>4 DEF Next

\* A callback is never taken out of the list.
LEMMA ShortBefore ==
  ASSUME Types, cb' = cb \/ \E f \in Callbacks : cb' = Append(cb, f), OneShort'
  PROVE  OneShort /\ Len(cb') <= 1
<1>1. cb \in Seq(Callbacks) /\ Len(cb) \in Nat
  BY DEF Types
<1>2. CASE cb' = cb
  BY <1>2 DEF OneShort
<1>3. ASSUME NEW f \in Callbacks, cb' = Append(cb, f)
      PROVE  OneShort /\ Len(cb') <= 1
  <2>1. Len(cb') <= 1 /\ Len(cb') = Len(cb) + 1
    BY <1>1, <1>3, Lists DEF OneShort
  <2>2. Len(cb) = 0
    BY <1>1, <2>1
  <2>3. DOMAIN cb = {}
    BY <1>1, <2>2
  <2> QED
    BY <2>1, <2>2, <2>3 DEF OneShort
<1> QED
  BY <1>2, <1>3

LEMMA OneCallKept ==
  ASSUME OwnInv, Next, kind = "rr", OneShort', NEW c \in Callers, NoneLong(c)'
  PROVE  OneCall(c)'
<1> USE Members
<1>t. /\ UdpInv /\ Types /\ c \in Objects
      /\ sent \in [Callers -> Nat] /\ \A e \in Callers : ToItself(e)
  BY DEF OwnInv, UdpInv, Types
<1>1. ASSUME NEW s \in Servers, Server(s)
      PROVE  OneCall(c)'
  <2>1. /\ UNCHANGED <<timed, callerVars>> /\ at'[c] = at[c]
        /\ cb' = cb \/ \E f \in Callbacks : cb' = Append(cb, f)
    BY <1>t, <1>1, ServerFrame DEF RegisterCb
  <2>2. OneShort /\ Len(cb') <= 1
    BY <1>t, <2>1, ShortBefore
  <2>3. NoneLong(c)
    BY <2>1 DEF NoneLong, callerVars
  <2>4. OneCall(c)
    BY <2>2, <2>3 DEF OwnInv
  <2>5. \A d \in Datagrams : d.from = c => UnderWay(d)'
    BY <1>t, <1>1, <2>2, <2>4, ServerKeepsOne DEF OneCall
  <2>6. Answered(c)'
    BY <2>1, <2>4 DEF OneCall, Answered, Returned, InStep, callerVars
  <2> QED
    BY <2>5, <2>6 DEF OneCall
<1>2. ASSUME NEW e \in Callers, Caller(e)
      PROVE  OneCall(c)'
  <2>1. OneShort
    <3>1. cb' = cb
      BY <1>t, <1>2, CallerFrame DEF serverVars
    <3> QED
      BY <1>t, <3>1, ShortBefore
  <2>2. sent'[c] = sent[c] \/ sent'[c] = sent[c] + 1
    <3>1. CASE Begins(e)
      BY <1>t, <3>1 DEF Begins
    <3>2. CASE UNCHANGED sent
      BY <3>2
    <3> QED
      BY <1>t, <1>2, <3>1, <3>2, BeginsFacts DEF SendsShort, SendsPart, SendsOne, Raises,
         SendsNoMore, RequestReturns, RequestTimesOut, callerVars
  <2>3. NoneLong(c)
    <3>1. \A n \in 1..sent[c] : n \in 1..sent'[c]
      BY <1>t, <2>2
    <3> QED
      BY <3>1 DEF NoneLong
  <2>4. OneCall(c)
    BY <2>1, <2>3 DEF OwnInv
  <2>5. CASE e = c
    BY <1>t, <1>2, <2>3, <2>4, <2>5, ItselfKeepsOne
  <2>6. CASE e # c
    BY <1>t, <1>2, <2>4, <2>6, OthersKeepOne
  <2> QED
    BY <2>5, <2>6
<1>3. ASSUME NEW a \in Addrs, AddClient(a)
      PROVE  OneCall(c)'
  BY <1>3 DEF AddClient
<1> QED
  BY <1>1, <1>2, <1>3 DEF Next

LEMMA InitOwn == Init => OwnInv
<1> USE Members
<1> SUFFICES ASSUME Init PROVE OwnInv
  OBVIOUS
<1>1. UdpInv
  BY InitOK
<1>2. \A o \in Objects : mail[o] = <<>> /\ \A s \in Servers : at[s] = "off"
  BY DEF Init
<1>3. ASSUME NEW c \in Callers
      PROVE  ToItself(c) /\ NoAnswers(c) /\ OneCall(c)
  <2>1. at[c] = "idle" /\ answers[c] = <<>> /\ sent[c] = 0 /\ mail[c] = <<>>
    BY DEF Init
  <2>2. ToItself(c) /\ NoAnswers(c) /\ Answered(c)
    BY <2>1 DEF ToItself, NoAnswers, Answered, Returned, InStep
  <2>3. ASSUME NEW d \in Datagrams
        PROVE  UnderWay(d)
    <3>1. \A o \in Objects : About(mail[o], d) = {}
      BY <1>2 DEF About
    <3>2. \A s \in Servers : ~Working(s, d)
      BY <1>2 DEF Working
    <3> QED
      BY <3>1, <3>2 DEF UnderWay, OneInBuffers, OneAtWork, Unanswered, InBuffer
  <2> QED
    BY <2>2, <2>3 DEF OneCall
<1> QED
  BY <1>1, <1>3 DEF OwnInv

LEMMA NextOwn == OwnInv /\ [Next]_vars => OwnInv'
<1> SUFFICES ASSUME OwnInv, [Next]_vars PROVE OwnInv'
  OBVIOUS
<1>1. UdpInv'
  BY NextOK DEF OwnInv
<1>2. CASE Next
  <2>1. kind' = kind
    <3>1. \A e \in Callers : Caller(e) => kind' = kind
      BY CallerFrame DEF OwnInv
    <3>2. \A s \in Servers : Server(s) => kind' = kind
      BY ServerFrame DEF OwnInv, UdpInv
    <3> QED
      BY <1>2, <3>1, <3>2 DEF Next, AddClient
  <2>2. \A c \in Callers : ToItself(c)'
    BY <1>2, ToItselfKept DEF OwnInv
  <2>3. kind = "ps" => \A c \in Callers : NoAnswers(c)'
    BY <1>2, NoAnswersKept DEF OwnInv
  <2>4. kind = "rr" /\ OneShort' => \A c \in Callers : NoneLong(c)' => OneCall(c)'
    BY <1>2, OneCallKept
  <2> QED
    BY <1>1, <2>1, <2>2, <2>3, <2>4 DEF OwnInv
<1>3. CASE UNCHANGED vars
  <2>1. UNCHANGED <<kind, timed, cb, at, mail, got, turn, sent, next, answers>>
    BY <1>3 DEF vars, serverVars, callerVars
  <2>2. \A d \in Datagrams : UnderWay(d)' = UnderWay(d)
    BY <2>1
    DEF UnderWay, OneInBuffers, OneAtWork, Unanswered, InBuffer, Working, Waiting, Sent, Asked
  <2>3. \A c \in Callers :
          /\ ToItself(c)' = ToItself(c) /\ NoAnswers(c)' = NoAnswers(c)
          /\ NoneLong(c)' = NoneLong(c) /\ Answered(c)' = Answered(c)
    BY <2>1 DEF ToItself, NoAnswers, NoneLong, Answered, Returned, InStep
  <2>4. OneShort' = OneShort
    BY <2>1 DEF OneShort
  <2> QED
    BY <1>1, <2>1, <2>2, <2>3, <2>4 DEF OwnInv, OneCall
<1> QED
  BY <1>2, <1>3

\* OwnAnswers, for any number of Reply and Request objects: with one callback in
\* the list of the class whose replies are short, a Request without a timeout
\* whose requests were not too long has got the answer to each from it, however
\* many Reply objects come and go, and whatever other Requests send, those with
\* long requests and with timeouts too.
THEOREM OwnAnswersAlways == Spec => []OwnAnswers
<1>1. OwnInv => OwnAnswers
  <2> SUFFICES ASSUME OwnInv, OneShort, NEW c \in Callers \ timed, NoneLong(c),
                      NEW k \in DOMAIN answers[c]
               PROVE  answers[c][k] = [from |-> c, n |-> k]
    BY DEF OwnAnswers
  <2>1. kind \in {"ps", "rr"}
    BY DEF OwnInv, UdpInv, Types
  <2>2. CASE kind = "ps"
    BY <2>2 DEF OwnInv, NoAnswers
  <2>3. CASE kind = "rr"
    BY <2>3 DEF OwnInv, OneCall, Answered, InStep
  <2> QED
    BY <2>1, <2>2, <2>3
<1> QED
  BY InitOwn, NextOwn, <1>1, PTL DEF Spec

\* AnswersOnce, for any number of Reply and Request objects: under the same
\* conditions, what a Request with a timeout has got is None or the answer to
\* one of its own requests, this or an earlier one, and none of them twice.
THEOREM AnswersOnceAlways == Spec => []AnswersOnce
<1>1. OwnInv => AnswersOnce
  <2> SUFFICES ASSUME OwnInv, OneShort, NEW c \in Callers, NoneLong(c),
                      NEW k \in DOMAIN answers[c], answers[c][k] # NoDatagram
               PROVE  /\ answers[c][k].from = c /\ answers[c][k].n \in 1..k
                      /\ \A j \in DOMAIN answers[c] : answers[c][j] = answers[c][k] => j = k
    BY DEF AnswersOnce
  <2>1. kind \in {"ps", "rr"}
    BY DEF OwnInv, UdpInv, Types
  <2>2. CASE kind = "ps"
    BY <2>2 DEF OwnInv, NoAnswers
  <2>3. CASE kind = "rr"
    BY <2>3 DEF OwnInv, OneCall, Answered, Returned
  <2> QED
    BY <2>1, <2>2, <2>3
<1> QED
  BY InitOwn, NextOwn, <1>1, PTL DEF Spec

=============================================================================
