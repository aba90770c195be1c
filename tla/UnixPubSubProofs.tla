--------------------------- MODULE UnixPubSubProofs --------------------------
(***************************************************************************)
(* Proofs about UnixCalls and UnixPubSub, for any number of clients or     *)
(* subscribers, any queue and any bounds.                                  *)
(*                                                                         *)
(* Deafness is about a step.  What makes it true is where names are: a     *)
(* file that its owner has left behind stays stale whatever the owner      *)
(* does, so nobody can queue a message there, and a server that works on   *)
(* a message must have its name (Inv).                                     *)
(*                                                                         *)
(* Order and backlog of calls come from one line per client (ClientOK):    *)
(* what its queue holds is older than what the server works on, which is   *)
(* older than what waits for the server, and all of it counts as calls     *)
(* that the client has made and not seen the end of.                       *)
(*                                                                         *)
(* That a subscriber misses nothing is about the sequence of what it has   *)
(* heard and what waits for it (Reached): that sequence grows only at its  *)
(* end, by the publisher's send, and holds all that is due and not yet to  *)
(* come from the loop of publish() (MissesNone).                           *)
(***************************************************************************)
EXTENDS UnixPubSub, FiniteSetTheorems, SequenceTheorems, TLAPS

\* A client that is in request() has made a call.
Called == \A c \in Clients : pc[c] \in {"sendto", "recv"} => n[c] # 0

\* A file that was left behind is stale.
LeftStale == \A a \in left : file[a] = "stale"

\* A server that works on a message has its name.
WorksNamed == spc \in {"call", "send"} => file[Server] = "bound"

Inv == UnixTypeOK /\ Called /\ LeftStale /\ WorksNamed

LEMMA ServerIsName == Server \in Names /\ Clients \subseteq Names
BY DEF Names

\* The elements of a sequence.
LEMMA ElementIn ==
  ASSUME NEW S, NEW q \in Seq(S), NEW i \in DOMAIN q
  PROVE  q[i] \in S
OBVIOUS

\* What is at the head of a queue is a message, and the rest is shorter.
LEMMA HeadTail ==
  ASSUME NEW S, NEW q \in Seq(S), q # <<>>
  PROVE  Head(q) \in S /\ Tail(q) \in Seq(S) /\ Len(Tail(q)) = Len(q) - 1 /\ Len(q) \in Nat
OBVIOUS

\* A sendto() that returns leaves queues that are in bounds and belong to
\* sockets with a name.
LEMMA SendtoKept ==
  ASSUME UnixTypeOK, NEW a \in Names, NEW m \in Messages, Sendto(a, m), UNCHANGED file
  PROVE  /\ queue' \in [Names -> Seq(Messages)]
         /\ \A b \in Names : Len(queue'[b]) <= QLen /\ (queue'[b] # <<>> => file'[b] = "bound")
<1>1. CASE file[a] # "bound"
  BY <1>1 DEF UnixTypeOK, Sendto
<1>2. CASE file[a] = "bound"
  <2>1. queue' = [queue EXCEPT ![a] = Append(@, m)] /\ Len(queue[a]) < QLen
    BY <1>2 DEF Sendto, MayReturn
  <2>2. queue \in [Names -> Seq(Messages)] /\ queue[a] \in Seq(Messages)
    BY DEF UnixTypeOK
  <2>3. Append(queue[a], m) \in Seq(Messages) /\ Len(Append(queue[a], m)) = Len(queue[a]) + 1
    BY <2>2
  <2>4. QLen \in Nat /\ Len(queue[a]) \in Nat
    BY <2>2, UnixAssumption
  <2> QED
    BY <1>2, <2>1, <2>2, <2>3, <2>4 DEF UnixTypeOK
<1> QED
  BY <1>1, <1>2

\* Taking the first message leaves such queues too.
LEMMA TakeKept ==
  ASSUME UnixTypeOK, NEW a \in Names, queue[a] # <<>>,
         queue' = [queue EXCEPT ![a] = Tail(@)], UNCHANGED file
  PROVE  /\ queue' \in [Names -> Seq(Messages)]
         /\ \A b \in Names : Len(queue'[b]) <= QLen /\ (queue'[b] # <<>> => file'[b] = "bound")
         /\ Head(queue[a]) \in Messages /\ file[a] = "bound"
<1>1. queue \in [Names -> Seq(Messages)] /\ queue[a] \in Seq(Messages)
  BY DEF UnixTypeOK
<1>2. /\ Head(queue[a]) \in Messages /\ Tail(queue[a]) \in Seq(Messages)
      /\ Len(Tail(queue[a])) <= Len(queue[a])
  BY <1>1, HeadTail
<1>3. QLen \in Nat /\ Len(queue[a]) \in Nat /\ Len(Tail(queue[a])) \in Nat
  BY <1>1, <1>2, UnixAssumption
<1> QED
  BY <1>1, <1>2, <1>3 DEF UnixTypeOK

\* A socket that closes leaves a stale file if it had one, and no messages.
LEMMA GoneKept ==
  ASSUME UnixTypeOK, LeftStale, NEW a \in Names, SocketGone(a)
  PROVE  /\ file' \in [Names -> {"absent", "stale", "bound"}]
         /\ queue' \in [Names -> Seq(Messages)]
         /\ \A b \in Names : Len(queue'[b]) <= QLen /\ (queue'[b] # <<>> => file'[b] = "bound")
         /\ left' \subseteq Names /\ LeftStale' /\ deaths' \in 0..MaxDeaths
         /\ \A b \in Names \ {a} : file'[b] = file[b]
<1>1. /\ file \in [Names -> {"absent", "stale", "bound"}]
      /\ queue \in [Names -> Seq(Messages)]
      /\ left \subseteq Names /\ deaths \in 0..MaxDeaths
  BY DEF UnixTypeOK
<1>2. <<>> \in Seq(Messages) /\ Len(<<>>) = 0 /\ QLen \in Nat /\ MaxDeaths \in Nat
  BY UnixAssumption
<1>3. /\ file' = [file EXCEPT ![a] = IF @ = "bound" THEN "stale" ELSE @]
      /\ left' = IF file[a] = "bound" THEN left \cup {a} ELSE left
      /\ queue' = [queue EXCEPT ![a] = <<>>]
      /\ deaths < MaxDeaths /\ deaths' = deaths + 1
  BY DEF SocketGone
<1>4. LeftStale'
  BY <1>1, <1>3 DEF LeftStale
<1>5. \A b \in Names : Len(queue'[b]) <= QLen /\ (queue'[b] # <<>> => file'[b] = "bound")
  BY <1>1, <1>2, <1>3 DEF UnixTypeOK
<1>6. deaths' \in 0..MaxDeaths
  BY <1>1, <1>2, <1>3
<1> QED
  BY <1>1, <1>2, <1>3, <1>4, <1>5, <1>6

-----------------------------------------------------------------------------
LEMMA InitInv == Init => Inv
<1> SUFFICES ASSUME Init PROVE Inv
  OBVIOUS
<1>1. <<>> \in Seq(Messages) /\ Len(<<>>) = 0 /\ QLen \in Nat /\ MaxCalls \in Nat /\ MaxDeaths \in Nat
  BY UnixAssumption
<1>2. <<>> \in Seq([at : Nat, answer : Calls])
  OBVIOUS
<1>3. UnixTypeOK
  BY <1>1, <1>2 DEF Init, UnixTypeOK
<1> QED
  BY <1>3 DEF Init, Inv, Called, LeftStale, WorksNamed

LEMMA NextInv == Inv /\ [Next]_vars => Inv'
<1> SUFFICES ASSUME Inv, [Next]_vars PROVE Inv'
  OBVIOUS
<1> USE ServerIsName
<1>t. UnixTypeOK
  BY DEF Inv
<1>1. ASSUME NEW c \in Clients, ClientStarts(c) PROVE Inv'
  <2>1. file' \in [Names -> {"absent", "stale", "bound"}]
    BY <1>1, <1>t DEF ClientStarts, Bind, UnixTypeOK
  <2>2. \A a \in Names : file[a] # "absent" => file'[a] = file[a]
    BY <1>1, <1>t DEF ClientStarts, Bind, UnixTypeOK
  <2>3. UnixTypeOK'
    BY <1>1, <1>t, <2>1, <2>2 DEF ClientStarts, UnixTypeOK, serverVars
  <2>4. LeftStale'
    BY <1>1, <1>t, <2>2 DEF ClientStarts, Inv, LeftStale, UnixTypeOK
  <2>5. Called'
    BY <1>1, <1>t DEF ClientStarts, Inv, Called, UnixTypeOK
  <2>6. WorksNamed'
    BY <1>1, <2>2 DEF ClientStarts, Inv, WorksNamed, serverVars
  <2> QED
    BY <2>3, <2>4, <2>5, <2>6 DEF Inv
<1>2. ASSUME NEW c \in Clients, Request(c) PROVE Inv'
  <2>1. n[c] \in 0..MaxCalls /\ n[c] < MaxCalls /\ MaxCalls \in Nat
    BY <1>2, <1>t, UnixAssumption DEF Request, UnixTypeOK
  <2>2. n[c] + 1 \in 0..MaxCalls /\ n[c] + 1 # 0
    BY <2>1
  <2>3. UnixTypeOK'
    BY <1>2, <1>t, <2>2 DEF Request, UnixTypeOK, serverVars
  <2>4. Called'
    BY <1>2, <1>t, <2>2 DEF Request, Inv, Called, UnixTypeOK
  <2> QED
    BY <1>2, <2>3, <2>4 DEF Request, Inv, LeftStale, WorksNamed, serverVars
<1>3. ASSUME NEW c \in Clients, RequestSent(c) PROVE Inv'
  <2>1. n[c] \in Nat \ {0}
    BY <1>3, <1>t, UnixAssumption DEF RequestSent, Inv, Called, UnixTypeOK
  <2>2. [from |-> NameOf(c), call |-> <<c, n[c]>>] \in Messages
    BY <2>1 DEF Messages, NameOf, Calls
  <2>3. Sendto(Server, [from |-> NameOf(c), call |-> <<c, n[c]>>]) /\ UNCHANGED file
    BY <1>3 DEF RequestSent
  <2>4. /\ queue' \in [Names -> Seq(Messages)]
        /\ \A b \in Names : Len(queue'[b]) <= QLen /\ (queue'[b] # <<>> => file'[b] = "bound")
    BY <1>t, <2>2, <2>3, SendtoKept
  <2>5. UnixTypeOK'
    BY <1>3, <1>t, <2>4 DEF RequestSent, UnixTypeOK, serverVars
  <2>6. Called'
    BY <1>3, <1>t DEF RequestSent, Inv, Called, UnixTypeOK
  <2> QED
    BY <1>3, <2>5, <2>6 DEF RequestSent, Inv, LeftStale, WorksNamed, serverVars
<1>4. ASSUME NEW c \in Clients, RequestReturns(c) PROVE Inv'
  <2>1. /\ queue' \in [Names -> Seq(Messages)]
        /\ \A b \in Names : Len(queue'[b]) <= QLen /\ (queue'[b] # <<>> => file'[b] = "bound")
        /\ Head(queue[c]) \in Messages
    BY <1>4, <1>t, TakeKept DEF RequestReturns
  <2>2. n[c] \in Nat /\ Head(queue[c]).call \in Calls
    BY <1>t, <2>1, UnixAssumption DEF UnixTypeOK, Messages
  <2>3. got[c] \in Seq([at : Nat, answer : Calls])
    BY <1>t DEF UnixTypeOK
  <2>4. Append(got[c], [at |-> n[c], answer |-> Head(queue[c]).call]) \in Seq([at : Nat, answer : Calls])
    BY <2>2, <2>3
  <2>5. UnixTypeOK'
    BY <1>4, <1>t, <2>1, <2>4 DEF RequestReturns, UnixTypeOK, serverVars
  <2>6. Called'
    BY <1>4, <1>t DEF RequestReturns, Inv, Called, UnixTypeOK
  <2> QED
    BY <1>4, <2>5, <2>6 DEF RequestReturns, Inv, LeftStale, WorksNamed, serverVars
<1>5. ASSUME NEW c \in Clients, RequestTimesOut(c) PROVE Inv'
  <2>1. /\ pc' \in [Clients -> {"down", "idle", "sendto", "recv"}]
        /\ givenup' \in [Clients -> Nat]
    BY <1>5, <1>t DEF RequestTimesOut, UnixTypeOK
  <2>2. UnixTypeOK'
    BY <1>5, <1>t, <2>1 DEF RequestTimesOut, UnixTypeOK, serverVars
  <2>3. Called'
    BY <1>5, <1>t DEF RequestTimesOut, Inv, Called, UnixTypeOK
  <2> QED
    BY <1>5, <2>2, <2>3 DEF RequestTimesOut, Inv, LeftStale, WorksNamed, serverVars
<1>6. ASSUME NEW c \in Clients, ClientDies(c) PROVE Inv'
  <2>1. /\ file' \in [Names -> {"absent", "stale", "bound"}]
        /\ queue' \in [Names -> Seq(Messages)]
        /\ \A b \in Names : Len(queue'[b]) <= QLen /\ (queue'[b] # <<>> => file'[b] = "bound")
        /\ left' \subseteq Names /\ LeftStale' /\ deaths' \in 0..MaxDeaths
        /\ file'[Server] = file[Server]
    BY <1>6, <1>t, GoneKept, UnixAssumption DEF ClientDies, Inv
  <2>g. /\ pc' \in [Clients -> {"down", "idle", "sendto", "recv"}]
        /\ givenup' \in [Clients -> Nat]
    BY <1>6, <1>t DEF ClientDies, UnixTypeOK
  <2>2. UnixTypeOK'
    BY <1>6, <1>t, <2>1, <2>g DEF ClientDies, UnixTypeOK, serverVars
  <2>3. Called'
    BY <1>6, <1>t DEF ClientDies, Inv, Called, UnixTypeOK
  <2> QED
    BY <1>6, <2>1, <2>2, <2>3 DEF ClientDies, Inv, WorksNamed, serverVars
<1>7. CASE ServerStarts
  <2>1. file' \in [Names -> {"absent", "stale", "bound"}]
    BY <1>7, <1>t DEF ServerStarts, Bind, UnixTypeOK
  <2>2. \A a \in Names : file[a] # "absent" => file'[a] = file[a]
    BY <1>7, <1>t DEF ServerStarts, Bind, UnixTypeOK
  <2>3. UnixTypeOK'
    BY <1>7, <1>t, <2>1, <2>2 DEF ServerStarts, UnixTypeOK, clientVars
  <2>4. LeftStale'
    BY <1>7, <1>t, <2>2 DEF ServerStarts, Inv, LeftStale, UnixTypeOK
  <2> QED
    BY <1>7, <2>3, <2>4 DEF ServerStarts, Inv, Called, WorksNamed, clientVars
<1>8. CASE OnceReceives
  <2>1. /\ queue' \in [Names -> Seq(Messages)]
        /\ \A b \in Names : Len(queue'[b]) <= QLen /\ (queue'[b] # <<>> => file'[b] = "bound")
        /\ Head(queue[Server]) \in Messages /\ file[Server] = "bound"
    BY <1>8, <1>t, TakeKept DEF OnceReceives
  <2>2. UnixTypeOK'
    BY <1>8, <1>t, <2>1 DEF OnceReceives, UnixTypeOK, clientVars
  <2> QED
    BY <1>8, <2>1, <2>2 DEF OnceReceives, Inv, Called, LeftStale, WorksNamed, clientVars
<1>9. CASE OnceCalls
  <2>1. job \in Messages
    BY <1>9, <1>t DEF OnceCalls, UnixTypeOK
  <2>2. job.call \in Calls
    BY <2>1 DEF Messages
  <2>3. UnixTypeOK'
    BY <1>9, <1>t, <2>1, <2>2 DEF OnceCalls, UnixTypeOK, clientVars
  <2> QED
    BY <1>9, <2>3 DEF OnceCalls, Inv, Called, LeftStale, WorksNamed, clientVars
<1>10. CASE OnceSends
  <2>1. job \in Messages
    BY <1>10, <1>t DEF OnceSends, UnixTypeOK
  <2>2. job.call \in Calls /\ job.from \in Names \cup {NoName}
    BY <2>1 DEF Messages
  <2>3. [from |-> NameOf(Server), call |-> job.call] \in Messages
    BY <2>2 DEF Messages, NameOf
  <2>4. Target \in Names \cup {NoName}
    BY <1>t, <2>2, UnixAssumption DEF Target, UnixTypeOK
  <2>5. /\ queue' \in [Names -> Seq(Messages)]
        /\ \A b \in Names : Len(queue'[b]) <= QLen /\ (queue'[b] # <<>> => file'[b] = "bound")
    <3>1. CASE Target = NoName
      BY <1>10, <1>t, <3>1 DEF OnceSends, UnixTypeOK
    <3>2. CASE Target # NoName
      <4>1. Target \in Names /\ UNCHANGED file
            /\ Sendto(Target, [from |-> NameOf(Server), call |-> job.call])
        BY <1>10, <2>4, <3>2 DEF OnceSends
      <4> QED
        BY <1>t, <2>3, <4>1, SendtoKept
    <3> QED
      BY <3>1, <3>2
  <2>6. UnixTypeOK'
    BY <1>10, <1>t, <2>5 DEF OnceSends, UnixTypeOK, clientVars
  <2> QED
    BY <1>10, <2>6 DEF OnceSends, Inv, Called, LeftStale, WorksNamed, clientVars
<1>11. CASE ServerDies
  <2>1. /\ file' \in [Names -> {"absent", "stale", "bound"}]
        /\ queue' \in [Names -> Seq(Messages)]
        /\ \A b \in Names : Len(queue'[b]) <= QLen /\ (queue'[b] # <<>> => file'[b] = "bound")
        /\ left' \subseteq Names /\ LeftStale' /\ deaths' \in 0..MaxDeaths
    BY <1>11, <1>t, GoneKept DEF ServerDies, Inv
  <2>2. UnixTypeOK'
    BY <1>11, <1>t, <2>1 DEF ServerDies, UnixTypeOK, clientVars
  <2> QED
    BY <1>11, <2>1, <2>2 DEF ServerDies, Inv, Called, WorksNamed, clientVars
<1>12. ASSUME NEW a \in Names, UserRemoves(a) PROVE Inv'
  <2>1. file' \in [Names -> {"absent", "stale", "bound"}] /\ left' = left \ {a}
    BY <1>12, <1>t DEF UserRemoves, UnixTypeOK
  <2>2. \A b \in Names \ {a} : file'[b] = file[b]
    BY <1>12, <1>t DEF UserRemoves, UnixTypeOK
  <2>3. UnixTypeOK'
    BY <1>12, <1>t, <2>1, <2>2 DEF UserRemoves, UnixTypeOK, clientVars, serverVars
  <2>4. LeftStale'
    BY <1>t, <2>1, <2>2 DEF Inv, LeftStale, UnixTypeOK
  <2>5. WorksNamed'
    BY <1>12, <2>2 DEF UserRemoves, Inv, WorksNamed, serverVars
  <2> QED
    BY <1>12, <2>3, <2>4, <2>5 DEF UserRemoves, Inv, Called, clientVars
<1>13. CASE UNCHANGED vars
  BY <1>13 DEF Inv, UnixTypeOK, Called, LeftStale, WorksNamed, vars, clientVars, serverVars
<1> QED
  BY <1>1, <1>2, <1>3, <1>4, <1>5, <1>6, <1>7, <1>8, <1>9, <1>10, <1>11, <1>12, <1>13
     DEF Next, Client, InCall, Once

\* The invariant, of the specification with and without fairness.
THEOREM InvAlways == Spec => []Inv
BY InitInv, NextInv, PTL DEF Spec

\* The type invariant of UnixCalls holds for every value of its constants.
THEOREM Typing == Spec => []UnixTypeOK
<1>1. Inv => UnixTypeOK
  BY DEF Inv
<1> QED
  BY <1>1, InvAlways, PTL

\* Only a server that has its name executes a request.
LEMMA ExecutesNamed == Inv /\ [Next]_vars => (executed' # executed => Server \notin left)
<1> SUFFICES ASSUME Inv, [Next]_vars, executed' # executed PROVE Server \notin left
  OBVIOUS
<1>1. OnceCalls
  BY DEF Next, Client, InCall, Once, ClientStarts, Request, RequestSent, RequestReturns,
         RequestTimesOut, ClientDies, ServerStarts, OnceReceives, OnceSends, ServerDies,
         UserRemoves, vars, serverVars
<1>2. file[Server] = "bound"
  BY <1>1 DEF OnceCalls, Inv, WorksNamed
<1> QED
  BY <1>2 DEF Inv, LeftStale

\* A server that has left its file behind executes nothing until somebody has
\* removed the file, however often it is started again.
THEOREM Deaf == Spec => DeafAfterDeath
<1>1. Inv /\ [Next]_vars => [executed' # executed => Server \notin left]_vars
  BY ExecutesNamed
<1> QED
  BY <1>1, InvAlways, PTL DEF Spec, DeafAfterDeath

-----------------------------------------------------------------------------
\* The numbers of the calls of c whose messages are in the queue q.
Numbers(q, c) == {q[i].call[2] : i \in {j \in DOMAIN q : q[j].call[1] = c}}

\* They rise.
Rising(q, c) ==
  \A i, j \in DOMAIN q :
    i < j /\ q[i].call[1] = c /\ q[j].call[1] = c => q[i].call[2] < q[j].call[2]

Below(S, T) == \A x \in S, y \in T : x < y

\* The way of the calls of c: what the server has still to receive, what it works
\* on, what the client has still to receive and what has been returned.
AtServer(c) == Numbers(queue[Server], c)
InHand(c) == IF InOnce(c) THEN {job.call[2]} ELSE {}
AtClient(c) == Numbers(queue[c], c)
Returned(c) == {got[c][i].answer[2] : i \in DOMAIN got[c]}

InLine(c) ==
  /\ Rising(queue[Server], c) /\ Rising(queue[c], c)
  /\ Below(InHand(c), AtServer(c))
  /\ Below(AtClient(c), InHand(c) \cup AtServer(c))
  /\ Below(Returned(c), AtClient(c) \cup InHand(c) \cup AtServer(c))
  /\ \A x \in Returned(c) \cup AtClient(c) \cup InHand(c) \cup AtServer(c) :
       x <= n[c] /\ (pc[c] = "sendto" => x < n[c])

\* A message of a client says whose it is, and once(to) is called for that client.
OfClient(m) ==
  m.call[1] \in Clients /\ m.from \in {m.call[1], NoName} /\ to \in {m.call[1], NoName}

FromClients ==
  /\ \A i \in DOMAIN queue[Server] : OfClient(queue[Server][i])
  /\ spc \in {"call", "send"} => OfClient(job)
  /\ \A c \in Clients : pc[c] # "down" => to \in {c, NoName}

\* What is on its way to a client is an answer to it.
Answers ==
  /\ spc = "send" => job.call \in executed
  /\ \A c \in Clients : \A i \in DOMAIN queue[c] :
       queue[c][i].call[1] = c /\ queue[c][i].call \in executed

\* Of InStep and Backlogged, what concerns one client; and why an answer is not
\* further behind: every call has returned an answer, was given up or still runs,
\* and as answers rise, the i-th is one to the i-th call or a later one.
InStepOf(c) ==
  \A i \in DOMAIN got[c] :
    /\ got[c][i].answer[1] = c /\ got[c][i].answer \in executed
    /\ got[c][i].answer[2] <= got[c][i].at
    /\ got[c][i].at <= got[c][i].answer[2] + givenup[c]
    /\ i > 1 => got[c][i - 1].answer[2] < got[c][i].answer[2]
    /\ i <= got[c][i].answer[2]

Allowed(c) == givenup[c] + (IF pc[c] = "recv" THEN 1 ELSE 0)

ClientOK(c) ==
  /\ n[c] = Len(got[c]) + givenup[c] + Runs(c)
  /\ InStepOf(c)
  /\ Backlog(c) <= Allowed(c)
  /\ InLine(c)

CallsInv == Inv /\ FromClients /\ Answers /\ \A c \in Clients : ClientOK(c)

-----------------------------------------------------------------------------
\* Under Publisher and Subscriber.
PsTypeOK ==
  /\ UnixTypeOK
  /\ clientaddrs \in Seq(Names)
  /\ published \in Nat /\ at \in Nat
  /\ hers \in Names \cup {NoName}
  /\ heard \in [Clients -> Seq(Nat)]
  /\ due \in [Clients -> SUBSET Nat]

\* No requests: every message is one of the publisher's.
NoCalls ==
  /\ spc \in {"down", "ready"}
  /\ executed = {}
  /\ \A c \in Clients : got[c] = <<>> /\ pc[c] # "sendto"
  /\ \A a \in Names : \A i \in DOMAIN queue[a] :
       queue[a][i].call[1] = Server /\ queue[a][i].call[2] <= published

\* The publisher's name is its own while it lives; publish() runs only then.
Hers ==
  /\ hers # NoName => file[hers] = "bound" /\ spc = "ready"
  /\ at > 0 => spc = "ready" /\ published > 0

\* A subscriber that is down has no name, has heard nothing and is due nothing.
Fresh(c) == pc[c] = "down" => ~HasName(c) /\ heard[c] = <<>> /\ due[c] = {}

\* Of NothingMissed, what concerns one subscriber; and that nothing is ahead of
\* the publisher.
UpTo(s, p) == \A k \in DOMAIN s : s[k] <= p
InOrder(s) == \A k \in DOMAIN s : k > 1 => s[k - 1] <= s[k]
Has(s, m) == \E k \in DOMAIN s : s[k] = m

MissesNone(c) ==
  HasName(c) =>
    /\ UpTo(Reached(c), published) /\ InOrder(Reached(c))
    /\ \A m \in due[c] : Has(Reached(c), m) \/ (m = published /\ ToCome(c))

PsInv ==
  /\ PsTypeOK /\ LeftStale /\ NoCalls /\ Hers
  /\ \A c \in Clients : Fresh(c) /\ MissesNone(c)

\* Nobody uses them under Request and Reply.
Unused == at = 0 /\ \A c \in Clients : heard[c] = <<>> /\ due[c] = {}

UnixInv ==
  \/ pattern = "rr" /\ CallsInv /\ Unused
  \/ pattern = "ps" /\ PsInv

-----------------------------------------------------------------------------
(***************************************************************************)
(* Messages of one client in a queue: their numbers, whether these rise,   *)
(* and how many they are, when a message is added or taken.                *)
(***************************************************************************)
Positions(q, c) == {i \in DOMAIN q : q[i].call[1] = c}

LEMMA AppendedNumbers ==
  ASSUME NEW q \in Seq(Messages), NEW m \in Messages, NEW c
  PROVE  Numbers(Append(q, m), c) =
           IF m.call[1] = c THEN Numbers(q, c) \cup {m.call[2]} ELSE Numbers(q, c)
<1> DEFINE r == Append(q, m)
<1>1. /\ Len(q) \in Nat /\ DOMAIN q = 1..Len(q) /\ DOMAIN r = 1..(Len(q) + 1)
      /\ \A i \in 1..Len(q) : r[i] = q[i]
      /\ r[Len(q) + 1] = m
  OBVIOUS
<1> HIDE DEF r
<1>2. DOMAIN r = DOMAIN q \cup {Len(q) + 1}
  BY <1>1
<1>3. ASSUME NEW x \in Numbers(r, c)
      PROVE  x \in Numbers(q, c) \/ (m.call[1] = c /\ x = m.call[2])
  BY <1>1, <1>2, <1>3 DEF Numbers
<1>4. Numbers(q, c) \subseteq Numbers(r, c)
  BY <1>1, <1>2 DEF Numbers
<1>5. m.call[1] = c => m.call[2] \in Numbers(r, c)
  BY <1>1, <1>2 DEF Numbers
<1>6. Numbers(r, c) = IF m.call[1] = c THEN Numbers(q, c) \cup {m.call[2]} ELSE Numbers(q, c)
  BY <1>3, <1>4, <1>5
<1> QED
  BY <1>6 DEF r

LEMMA AppendedRises ==
  ASSUME NEW q \in Seq(Messages), NEW m \in Messages, NEW c, Rising(q, c),
         m.call[1] = c => Below(Numbers(q, c), {m.call[2]})
  PROVE  Rising(Append(q, m), c)
<1> DEFINE r == Append(q, m)
<1>1. /\ Len(q) \in Nat /\ DOMAIN q = 1..Len(q) /\ DOMAIN r = 1..(Len(q) + 1)
      /\ \A i \in 1..Len(q) : r[i] = q[i]
      /\ r[Len(q) + 1] = m
  OBVIOUS
<1> HIDE DEF r
<1>2. ASSUME NEW i \in DOMAIN r, NEW j \in DOMAIN r, i < j, r[i].call[1] = c, r[j].call[1] = c
      PROVE  r[i].call[2] < r[j].call[2]
  <2>1. i \in 1..Len(q) /\ r[i] = q[i]
    BY <1>1, <1>2
  <2>2. CASE j \in 1..Len(q)
    BY <1>1, <1>2, <2>1, <2>2 DEF Rising
  <2>3. CASE j = Len(q) + 1
    <3>1. r[i].call[2] \in Numbers(q, c)
      BY <1>1, <1>2, <2>1 DEF Numbers
    <3>2. r[j] = m /\ m.call[1] = c
      BY <1>1, <1>2, <2>3
    <3> QED
      BY <3>1, <3>2 DEF Below
  <2> QED
    BY <1>1, <1>2, <2>2, <2>3
<1>3. Rising(r, c)
  BY <1>2 DEF Rising
<1> QED
  BY <1>3 DEF r

LEMMA TakenRises ==
  ASSUME NEW q \in Seq(Messages), q # <<>>, NEW c, Rising(q, c)
  PROVE  /\ Rising(Tail(q), c)
         /\ Numbers(Tail(q), c) \subseteq Numbers(q, c)
         /\ Head(q).call[1] = c => /\ Head(q).call[2] \in Numbers(q, c)
                                   /\ Below({Head(q).call[2]}, Numbers(Tail(q), c))
<1> DEFINE t == Tail(q)
           h == Head(q)
<1>1. /\ Len(q) \in Nat /\ Len(q) >= 1 /\ DOMAIN q = 1..Len(q)
      /\ DOMAIN t = 1..(Len(q) - 1)
      /\ \A i \in 1..(Len(q) - 1) : t[i] = q[i + 1]
      /\ h = q[1]
  OBVIOUS
<1> HIDE DEF t, h
<1>2. \A i \in DOMAIN t : i + 1 \in DOMAIN q /\ t[i] = q[i + 1] /\ 1 < i + 1
  BY <1>1
<1>3. Rising(t, c)
  <2> SUFFICES ASSUME NEW i \in DOMAIN t, NEW j \in DOMAIN t, i < j,
                      t[i].call[1] = c, t[j].call[1] = c
               PROVE  t[i].call[2] < t[j].call[2]
    BY DEF Rising
  <2>1. i + 1 < j + 1
    BY <1>1
  <2> QED
    BY <1>2, <2>1 DEF Rising
<1>4. Numbers(t, c) \subseteq Numbers(q, c)
  BY <1>2 DEF Numbers
<1>5. ASSUME h.call[1] = c
      PROVE  h.call[2] \in Numbers(q, c) /\ Below({h.call[2]}, Numbers(t, c))
  <2>1. 1 \in DOMAIN q
    BY <1>1
  <2>2. h.call[2] \in Numbers(q, c)
    BY <1>1, <1>5, <2>1 DEF Numbers
  <2>3. ASSUME NEW y \in Numbers(t, c) PROVE h.call[2] < y
    <3>1. PICK i \in DOMAIN t : t[i].call[1] = c /\ y = t[i].call[2]
      BY <2>3 DEF Numbers
    <3> QED
      BY <1>1, <1>2, <1>5, <2>1, <3>1 DEF Rising
  <2> QED
    BY <2>2, <2>3 DEF Below
<1> QED
  BY <1>3, <1>4, <1>5 DEF t, h

\* An empty queue has none.
LEMMA NoneInLine ==
  ASSUME NEW c
  PROVE  Numbers(<<>>, c) = {} /\ Rising(<<>>, c) /\ Cardinality(Positions(<<>>, c)) = 0
<1>1. DOMAIN << >> = {}
  OBVIOUS
<1>2. Numbers(<<>>, c) = {} /\ Rising(<<>>, c) /\ Positions(<<>>, c) = {}
  BY <1>1 DEF Numbers, Rising, Positions
<1> QED
  BY <1>2, FS_EmptySet

LEMMA CountIsFinite ==
  ASSUME NEW q \in Seq(Messages), NEW c
  PROVE  IsFiniteSet(Positions(q, c)) /\ Cardinality(Positions(q, c)) \in Nat
<1>1. Len(q) \in Nat /\ DOMAIN q = 1..Len(q)
  OBVIOUS
<1>2. IsFiniteSet(1..Len(q))
  BY <1>1, FS_Interval
<1>3. Positions(q, c) \subseteq 1..Len(q)
  BY <1>1 DEF Positions
<1>4. IsFiniteSet(Positions(q, c))
  BY <1>2, <1>3, FS_Subset
<1> QED
  BY <1>4, FS_CardinalityType

LEMMA AppendedCount ==
  ASSUME NEW q \in Seq(Messages), NEW m \in Messages, NEW c
  PROVE  Cardinality(Positions(Append(q, m), c)) =
           Cardinality(Positions(q, c)) + (IF m.call[1] = c THEN 1 ELSE 0)
<1> DEFINE r == Append(q, m)
<1>1. /\ Len(q) \in Nat /\ DOMAIN q = 1..Len(q) /\ DOMAIN r = 1..(Len(q) + 1)
      /\ \A i \in 1..Len(q) : r[i] = q[i]
      /\ r[Len(q) + 1] = m
  OBVIOUS
<1>2. IsFiniteSet(Positions(q, c)) /\ Cardinality(Positions(q, c)) \in Nat
  BY CountIsFinite
<1> HIDE DEF r
<1>3. DOMAIN r = DOMAIN q \cup {Len(q) + 1} /\ Len(q) + 1 \notin DOMAIN q
  BY <1>1
<1>4. CASE m.call[1] = c
  <2>1. Positions(r, c) = Positions(q, c) \cup {Len(q) + 1}
    BY <1>1, <1>3, <1>4 DEF Positions
  <2>2. Len(q) + 1 \notin Positions(q, c)
    BY <1>3 DEF Positions
  <2>3. Cardinality(Positions(r, c)) = Cardinality(Positions(q, c)) + 1
    BY <1>2, <2>1, <2>2, FS_AddElement
  <2> QED
    BY <1>4, <2>3 DEF r
<1>5. CASE m.call[1] # c
  <2>1. Positions(r, c) = Positions(q, c)
    BY <1>1, <1>3, <1>5 DEF Positions
  <2> QED
    BY <1>2, <1>5, <2>1 DEF r
<1> QED
  BY <1>4, <1>5

LEMMA TakenCount ==
  ASSUME NEW q \in Seq(Messages), q # <<>>, NEW c
  PROVE  Cardinality(Positions(q, c)) =
           Cardinality(Positions(Tail(q), c)) + (IF Head(q).call[1] = c THEN 1 ELSE 0)
<1> DEFINE t == Tail(q)
           P == Positions(t, c)
           Q == Positions(q, c) \ {1}
           f == [i \in P |-> i + 1]
<1>1. /\ Len(q) \in Nat /\ Len(q) >= 1 /\ DOMAIN q = 1..Len(q)
      /\ t \in Seq(Messages) /\ DOMAIN t = 1..(Len(q) - 1)
      /\ \A i \in 1..(Len(q) - 1) : t[i] = q[i + 1]
      /\ Head(q) = q[1]
  OBVIOUS
<1>2. IsFiniteSet(P) /\ Cardinality(P) \in Nat
  BY <1>1, CountIsFinite
<1>3. IsFiniteSet(Positions(q, c)) /\ Cardinality(Positions(q, c)) \in Nat
  BY CountIsFinite
<1> HIDE DEF t
<1>4. \A i \in P : i \in Nat /\ i + 1 \in Q
  BY <1>1 DEF Positions
<1>5. \A k \in Q : k - 1 \in P /\ (k - 1) + 1 = k
  BY <1>1 DEF Positions
<1>6. f \in Bijection(P, Q)
  <2>1. f \in [P -> Q]
    BY <1>4
  <2>2. \A a, b \in P : f[a] = f[b] => a = b
    BY <1>4
  <2>3. \A k \in Q : \E i \in P : f[i] = k
    BY <1>5
  <2> HIDE DEF f, P, Q
  <2> QED
    BY <2>1, <2>2, <2>3 DEF Bijection, Injection, Surjection, IsInjective
<1>7. Cardinality(Q) = Cardinality(P)
  BY <1>2, <1>6, FS_Bijection DEF ExistsBijection
<1>8. CASE Head(q).call[1] = c
  <2>1. 1 \in Positions(q, c)
    BY <1>1, <1>8 DEF Positions
  <2>2. Cardinality(Q) = Cardinality(Positions(q, c)) - 1
    BY <1>3, <2>1, FS_RemoveElement
  <2> QED
    BY <1>2, <1>3, <1>7, <1>8, <2>2 DEF t
<1>9. CASE Head(q).call[1] # c
  <2>1. Q = Positions(q, c)
    BY <1>1, <1>9 DEF Positions
  <2>2. Cardinality(Positions(q, c)) = Cardinality(P) + 0
    <3> HIDE DEF P, Q
    <3> QED
      BY <1>2, <1>7, <2>1
  <2> QED
    BY <1>9, <2>2 DEF t
<1> QED
  BY <1>8, <1>9

-----------------------------------------------------------------------------
(***************************************************************************)
(* What the steps do to the messages of a client in a queue.               *)
(***************************************************************************)

\* Of c, the queue r has no more messages than q, in the same order.
NoMore(q, r, c) ==
  /\ Numbers(r, c) \subseteq Numbers(q, c)
  /\ Rising(q, c) => Rising(r, c)
  /\ Cardinality(Positions(r, c)) <= Cardinality(Positions(q, c))

LEMMA SameNoMore ==
  ASSUME NEW q \in Seq(Messages), NEW c
  PROVE  NoMore(q, q, c)
<1>1. Cardinality(Positions(q, c)) \in Nat
  BY CountIsFinite
<1> HIDE DEF Positions
<1> QED
  BY <1>1 DEF NoMore

LEMMA EmptyNoMore ==
  ASSUME NEW q \in Seq(Messages), NEW c
  PROVE  NoMore(q, <<>>, c)
<1>1. Cardinality(Positions(q, c)) \in Nat
  BY CountIsFinite
<1>2. DOMAIN <<>> = {}
  OBVIOUS
<1> QED
  BY <1>1, <1>2, NoneInLine DEF NoMore

LEMMA TailNoMore ==
  ASSUME NEW q \in Seq(Messages), q # <<>>, NEW c
  PROVE  /\ NoMore(q, Tail(q), c)
         /\ \E j \in DOMAIN q : Head(q) = q[j]
         /\ \A i \in DOMAIN Tail(q) : \E j \in DOMAIN q : Tail(q)[i] = q[j]
<1>1. Tail(q) \in Seq(Messages)
  BY HeadTail
<1>2. /\ Cardinality(Positions(q, c)) \in Nat
      /\ Cardinality(Positions(Tail(q), c)) \in Nat
  BY <1>1, CountIsFinite
<1>3. Cardinality(Positions(Tail(q), c)) <= Cardinality(Positions(q, c))
  BY <1>2, TakenCount
<1>4. \A i \in DOMAIN Tail(q) : i + 1 \in DOMAIN q /\ Tail(q)[i] = q[i + 1]
  OBVIOUS
<1>5. 1 \in DOMAIN q /\ Head(q) = q[1]
  OBVIOUS
<1>6. Numbers(Tail(q), c) \subseteq Numbers(q, c) /\ (Rising(q, c) => Rising(Tail(q), c))
  <2>1. Numbers(Tail(q), c) \subseteq Numbers(q, c)
    BY <1>4 DEF Numbers
  <2> QED
    BY <2>1, TakenRises
<1> QED
  BY <1>3, <1>4, <1>5, <1>6 DEF NoMore

\* sendto() adds one message to one queue, or none.
LEMMA SendtoLine ==
  ASSUME UnixTypeOK, NEW a \in Names, NEW m \in Messages, Sendto(a, m), NEW c
  PROVE  /\ \A b \in Names \ {a} : queue'[b] = queue[b]
         /\ m.call[1] # c => Numbers(queue'[a], c) \subseteq Numbers(queue[a], c)
         /\ Numbers(queue'[a], c) \subseteq Numbers(queue[a], c) \cup {m.call[2]}
         /\ Rising(queue[a], c) /\ (m.call[1] = c => Below(Numbers(queue[a], c), {m.call[2]}))
              => Rising(queue'[a], c)
         /\ Cardinality(Positions(queue'[a], c)) <=
              Cardinality(Positions(queue[a], c)) + (IF m.call[1] = c THEN 1 ELSE 0)
         /\ \A i \in DOMAIN queue'[a] :
              queue'[a][i] = m \/ \E j \in DOMAIN queue[a] : queue'[a][i] = queue[a][j]
<1>1. queue \in [Names -> Seq(Messages)] /\ queue[a] \in Seq(Messages)
  BY DEF UnixTypeOK
<1>2. Cardinality(Positions(queue[a], c)) \in Nat
  BY <1>1, CountIsFinite
<1>3. CASE file[a] = "bound"
  <2>1. queue' = [queue EXCEPT ![a] = Append(@, m)]
    BY <1>3 DEF Sendto
  <2>2. queue'[a] = Append(queue[a], m) /\ \A b \in Names \ {a} : queue'[b] = queue[b]
    BY <1>1, <2>1
  <2>3. Numbers(queue'[a], c) =
          IF m.call[1] = c THEN Numbers(queue[a], c) \cup {m.call[2]} ELSE Numbers(queue[a], c)
    BY <1>1, <2>2, AppendedNumbers
  <2>4. Rising(queue[a], c) /\ (m.call[1] = c => Below(Numbers(queue[a], c), {m.call[2]}))
              => Rising(queue'[a], c)
    BY <1>1, <2>2, AppendedRises
  <2>5. Cardinality(Positions(queue'[a], c)) <=
              Cardinality(Positions(queue[a], c)) + (IF m.call[1] = c THEN 1 ELSE 0)
    BY <1>1, <1>2, <2>2, AppendedCount
  <2>6. \A i \in DOMAIN queue'[a] :
              queue'[a][i] = m \/ \E j \in DOMAIN queue[a] : queue'[a][i] = queue[a][j]
    <3> SUFFICES ASSUME NEW i \in DOMAIN Append(queue[a], m)
                 PROVE  Append(queue[a], m)[i] = m
                        \/ \E j \in DOMAIN queue[a] : Append(queue[a], m)[i] = queue[a][j]
      BY <2>2
    <3> QED
      BY <1>1
  <2> QED
    BY <2>2, <2>3, <2>4, <2>5, <2>6
<1>4. CASE file[a] # "bound"
  <2>1. queue' = queue
    BY <1>4 DEF Sendto
  <2>2. Cardinality(Positions(queue[a], c)) <=
          Cardinality(Positions(queue[a], c)) + (IF m.call[1] = c THEN 1 ELSE 0)
    BY <1>2
  <2> QED
    BY <2>1, <2>2
<1> QED
  BY <1>3, <1>4

-----------------------------------------------------------------------------
(***************************************************************************)
(* The calls keep their order.                                             *)
(***************************************************************************)
LEMMA LineIsNat ==
  ASSUME UnixTypeOK, NEW c \in Clients
  PROVE  /\ Returned(c) \subseteq Nat /\ AtClient(c) \subseteq Nat
         /\ InHand(c) \subseteq Nat /\ AtServer(c) \subseteq Nat
         /\ n[c] \in Nat /\ givenup[c] \in Nat /\ Len(got[c]) \in Nat
<1>1. /\ queue \in [Names -> Seq(Messages)] /\ got[c] \in Seq([at : Nat, answer : Calls])
      /\ n[c] \in 0..MaxCalls /\ givenup[c] \in Nat
  BY DEF UnixTypeOK
<1>2. \A m \in Messages : m.call[2] \in Nat
  BY DEF Messages, Calls
<1>3. AtClient(c) \subseteq Nat /\ AtServer(c) \subseteq Nat
  <2>1. ASSUME NEW q \in Seq(Messages) PROVE Numbers(q, c) \subseteq Nat
    <3> SUFFICES ASSUME NEW i \in DOMAIN q PROVE q[i].call[2] \in Nat
      BY DEF Numbers
    <3>1. q[i] \in Messages
      OBVIOUS
    <3> QED
      BY <1>2, <3>1
  <2>2. queue[c] \in Seq(Messages) /\ queue[Server] \in Seq(Messages)
    BY <1>1, ServerIsName
  <2> QED
    BY <2>1, <2>2 DEF AtClient, AtServer
<1>4. InHand(c) \subseteq Nat
  BY <1>2 DEF InHand, InOnce, UnixTypeOK
<1>5. Returned(c) \subseteq Nat
  <2> SUFFICES ASSUME NEW i \in DOMAIN got[c] PROVE got[c][i].answer[2] \in Nat
    BY DEF Returned
  <2>1. got[c][i] \in [at : Nat, answer : Calls]
    BY <1>1, ElementIn
  <2>2. got[c][i].answer \in Calls
    BY <2>1
  <2> QED
    BY <2>2 DEF Calls
<1>6. Len(got[c]) \in Nat /\ n[c] \in Nat
  BY <1>1, UnixAssumption
<1> QED
  BY <1>1, <1>3, <1>4, <1>5, <1>6

\* A step that only takes away keeps the line.
LEMMA LineKept ==
  ASSUME NEW c \in Clients, InLine(c),
         Returned(c)' = Returned(c), n'[c] = n[c],
         AtClient(c)' \subseteq AtClient(c), InHand(c)' \subseteq InHand(c),
         AtServer(c)' \subseteq AtServer(c),
         Rising(queue[Server], c) => Rising(queue'[Server], c),
         Rising(queue[c], c) => Rising(queue'[c], c),
         pc'[c] = "sendto" => pc[c] = "sendto"
  PROVE  InLine(c)'
<1>1. Rising(queue[Server], c)' /\ Rising(queue[c], c)'
  BY DEF InLine, Rising
<1>2. Below(InHand(c), AtServer(c))' /\ Below(AtClient(c), InHand(c) \cup AtServer(c))'
      /\ Below(Returned(c), AtClient(c) \cup InHand(c) \cup AtServer(c))'
  BY DEF InLine, Below
<1>3. \A x \in Returned(c)' \cup AtClient(c)' \cup InHand(c)' \cup AtServer(c)' :
        x <= n'[c] /\ (pc'[c] = "sendto" => x < n'[c])
  BY DEF InLine
<1> QED
  BY <1>1, <1>2, <1>3 DEF InLine

-----------------------------------------------------------------------------
(***************************************************************************)
(* A client that a step does not help keeps its place.                     *)
(***************************************************************************)
LEMMA Untouched ==
  ASSUME NEW d \in Clients, UnixTypeOK, UnixTypeOK', ClientOK(d),
         NoMore(queue[Server], queue'[Server], d), NoMore(queue[d], queue'[d], d),
         InOnce(d)' => InOnce(d) /\ job' = job,
         got'[d] = got[d], n'[d] = n[d], executed \subseteq executed',
         pc'[d] = "sendto" => pc[d] = "sendto",
         \/ givenup'[d] = givenup[d] /\ Runs(d)' = Runs(d) /\ (pc[d] = "recv" => pc'[d] = "recv")
         \/ givenup'[d] = givenup[d] + 1 /\ Runs(d) = 1 /\ Runs(d)' = 0
  PROVE  ClientOK(d)'
<1>t. /\ Len(got[d]) \in Nat /\ n[d] \in Nat /\ givenup[d] \in Nat /\ givenup'[d] \in Nat
      /\ Returned(d) \subseteq Nat
      /\ Runs(d) \in {0, 1} /\ Runs(d)' \in {0, 1}
  BY LineIsNat DEF UnixTypeOK, Runs
<1>1. n'[d] = Len(got'[d]) + givenup'[d] + Runs(d)'
  <2>1. n[d] = Len(got[d]) + givenup[d] + Runs(d)
    BY DEF ClientOK
  <2>2. Len(got'[d]) = Len(got[d])
    OBVIOUS
  <2>3. givenup'[d] + Runs(d)' = givenup[d] + Runs(d)
    <3>1. CASE givenup'[d] = givenup[d] /\ Runs(d)' = Runs(d)
      BY <3>1
    <3>2. CASE givenup'[d] = givenup[d] + 1 /\ Runs(d) = 1 /\ Runs(d)' = 0
      BY <1>t, <3>2
    <3> QED
      BY <3>1, <3>2
  <2>4. ASSUME NEW l \in Nat, NEW g \in Nat, NEW r \in Nat, NEW h \in Nat, NEW s \in Nat,
               h + s = g + r
        PROVE  l + g + r = l + h + s
    BY <2>4
  <2>5. Runs(d) \in Nat /\ Runs(d)' \in Nat
    BY <1>t
  <2>6. Len(got[d]) + givenup[d] + Runs(d) = Len(got[d]) + givenup'[d] + Runs(d)'
    BY <1>t, <2>3, <2>4, <2>5
  <2> QED
    BY <2>1, <2>2, <2>6
<1>2. InStepOf(d)'
  <2>0. givenup[d] <= givenup'[d]
    BY <1>t
  <2> SUFFICES ASSUME NEW i \in DOMAIN got[d]
               PROVE  /\ got[d][i].answer[1] = d /\ got[d][i].answer \in executed'
                      /\ got[d][i].answer[2] <= got[d][i].at
                      /\ got[d][i].at <= got[d][i].answer[2] + givenup'[d]
                      /\ i > 1 => got[d][i - 1].answer[2] < got[d][i].answer[2]
                      /\ i <= got[d][i].answer[2]
    BY DEF InStepOf
  <2>1. /\ got[d][i].answer[1] = d /\ got[d][i].answer \in executed
        /\ got[d][i].answer[2] <= got[d][i].at
        /\ got[d][i].at <= got[d][i].answer[2] + givenup[d]
        /\ i > 1 => got[d][i - 1].answer[2] < got[d][i].answer[2]
        /\ i <= got[d][i].answer[2]
    BY DEF ClientOK, InStepOf
  <2>2. got[d][i].answer[2] \in Nat /\ got[d][i].at \in Nat
    <3>1. got[d] \in Seq([at : Nat, answer : Calls])
      BY DEF UnixTypeOK
    <3>2. got[d][i] \in [at : Nat, answer : Calls]
      BY <3>1, ElementIn
    <3>3. got[d][i].answer \in Calls /\ got[d][i].at \in Nat
      BY <3>2
    <3> QED
      BY <3>3 DEF Calls
  <2>3. got[d][i].at <= got[d][i].answer[2] + givenup'[d]
    BY <1>t, <2>0, <2>1, <2>2
  <2> QED
    BY <2>1, <2>3
<1>3. Backlog(d)' <= Allowed(d)'
  <2> DEFINE s == Cardinality(Positions(queue[Server], d))
             w == Cardinality(Positions(queue[d], d))
             ss == Cardinality(Positions(queue'[Server], d))
             ww == Cardinality(Positions(queue'[d], d))
  <2>1. /\ Backlog(d) = s + (IF InOnce(d) THEN 1 ELSE 0) + w
        /\ Backlog(d)' = ss + (IF InOnce(d)' THEN 1 ELSE 0) + ww
    BY DEF Backlog, Of, Positions
  <2>2. s \in Nat /\ w \in Nat /\ ss \in Nat /\ ww \in Nat
    BY ServerIsName, CountIsFinite DEF UnixTypeOK
  <2>3. ss <= s /\ ww <= w
    BY DEF NoMore
  <2>4. Backlog(d) <= Allowed(d)
    BY DEF ClientOK
  <2>5. Allowed(d) = givenup[d] + (IF pc[d] = "recv" THEN 1 ELSE 0)
        /\ Allowed(d)' = givenup'[d] + (IF pc'[d] = "recv" THEN 1 ELSE 0)
    BY DEF Allowed
  <2>6. Allowed(d) <= Allowed(d)'
    BY <1>t, <2>5 DEF Runs
  <2> HIDE DEF s, w, ss, ww
  <2>7. Backlog(d)' <= Backlog(d)
    BY <2>1, <2>2, <2>3
  <2>8. Backlog(d) \in Nat /\ Backlog(d)' \in Nat /\ Allowed(d) \in Nat /\ Allowed(d)' \in Nat
    BY <1>t, <2>1, <2>2, <2>5
  <2> QED
    BY <2>4, <2>6, <2>7, <2>8
<1>4. InLine(d)'
  <2>1. InLine(d)
    BY DEF ClientOK
  <2>2. /\ Returned(d)' = Returned(d)
        /\ AtClient(d)' \subseteq AtClient(d) /\ AtServer(d)' \subseteq AtServer(d)
        /\ Rising(queue[Server], d) => Rising(queue'[Server], d)
        /\ Rising(queue[d], d) => Rising(queue'[d], d)
    BY DEF NoMore, Returned, AtClient, AtServer
  <2>3. InHand(d)' \subseteq InHand(d)
    BY DEF InHand
  <2> QED
    BY <2>1, <2>2, <2>3, LineKept
<1> QED
  BY <1>1, <1>2, <1>3, <1>4 DEF ClientOK

-----------------------------------------------------------------------------
(***************************************************************************)
(* The client whose call makes its next step.                              *)
(***************************************************************************)
LEMMA BacklogCounts ==
  ASSUME NEW c \in Clients, UnixTypeOK
  PROVE  /\ Backlog(c) = Cardinality(Positions(queue[Server], c))
                         + (IF InOnce(c) THEN 1 ELSE 0) + Cardinality(Positions(queue[c], c))
         /\ Cardinality(Positions(queue[Server], c)) \in Nat
         /\ Cardinality(Positions(queue[c], c)) \in Nat
         /\ Backlog(c) \in Nat /\ Allowed(c) \in Nat
<1>1. Backlog(c) = Cardinality(Positions(queue[Server], c))
                   + (IF InOnce(c) THEN 1 ELSE 0) + Cardinality(Positions(queue[c], c))
  BY DEF Backlog, Of, Positions
<1>2. /\ Cardinality(Positions(queue[Server], c)) \in Nat
      /\ Cardinality(Positions(queue[c], c)) \in Nat
  BY ServerIsName, CountIsFinite DEF UnixTypeOK
<1>3. Backlog(c) \in Nat
  <2>1. (IF InOnce(c) THEN 1 ELSE 0) \in Nat
    OBVIOUS
  <2> QED
    BY <1>1, <1>2, <2>1
<1>4. givenup[c] \in Nat
  BY DEF UnixTypeOK
<1>5. Allowed(c) \in Nat
  BY <1>4 DEF Allowed
<1> QED
  BY <1>1, <1>2, <1>3, <1>5

LEMMA RequestLine ==
  ASSUME UnixTypeOK, NEW c \in Clients, ClientOK(c), Request(c)
  PROVE  ClientOK(c)'
<1>1. /\ pc[c] = "idle" /\ pc'[c] = "sendto" /\ n'[c] = n[c] + 1
      /\ UNCHANGED <<queue, got, givenup, spc, job, executed>>
  BY DEF Request, UnixTypeOK, serverVars
<1>2. /\ n[c] \in Nat /\ givenup[c] \in Nat /\ Len(got[c]) \in Nat
      /\ Returned(c) \subseteq Nat /\ AtClient(c) \subseteq Nat
      /\ InHand(c) \subseteq Nat /\ AtServer(c) \subseteq Nat
  BY LineIsNat
<1>3. n[c] = Len(got[c]) + givenup[c] + 0
  BY <1>1 DEF ClientOK, Runs
<1>4. n'[c] = Len(got'[c]) + givenup'[c] + Runs(c)'
  <2>1. Runs(c)' = 1
    BY <1>1 DEF Runs
  <2>2. Len(got'[c]) = Len(got[c]) /\ givenup'[c] = givenup[c]
    BY <1>1
  <2> QED
    BY <1>1, <1>2, <1>3, <2>1, <2>2
<1>5. InStepOf(c)'
  BY <1>1 DEF ClientOK, InStepOf
<1>6. Backlog(c)' <= Allowed(c)'
  <2>1. Backlog(c)' = Backlog(c)
    BY <1>1 DEF Backlog, Of, InOnce
  <2>2. Allowed(c)' = Allowed(c)
    BY <1>1 DEF Allowed
  <2> QED
    BY <2>1, <2>2 DEF ClientOK
<1>7. InLine(c)'
  <2>1. /\ Returned(c)' = Returned(c) /\ AtClient(c)' = AtClient(c)
        /\ InHand(c)' = InHand(c) /\ AtServer(c)' = AtServer(c)
    BY <1>1 DEF Returned, AtClient, InHand, InOnce, AtServer
  <2>2. ASSUME NEW x \in Returned(c) \cup AtClient(c) \cup InHand(c) \cup AtServer(c)
        PROVE  x <= n'[c] /\ x < n'[c]
    <3>1. x <= n[c] /\ x \in Nat
      BY <1>2 DEF ClientOK, InLine
    <3> QED
      BY <1>1, <1>2, <3>1
  <2>3. /\ Rising(queue[Server], c) /\ Rising(queue[c], c)
        /\ Below(InHand(c), AtServer(c))
        /\ Below(AtClient(c), InHand(c) \cup AtServer(c))
        /\ Below(Returned(c), AtClient(c) \cup InHand(c) \cup AtServer(c))
    BY DEF ClientOK, InLine
  <2>4. (Rising(queue[Server], c) /\ Rising(queue[c], c))'
    BY <1>1, <2>3 DEF Rising
  <2>5. (/\ Below(InHand(c), AtServer(c))
         /\ Below(AtClient(c), InHand(c) \cup AtServer(c))
         /\ Below(Returned(c), AtClient(c) \cup InHand(c) \cup AtServer(c)))'
    BY <2>1, <2>3 DEF Below
  <2> QED
    BY <2>1, <2>2, <2>4, <2>5 DEF InLine
<1> QED
  BY <1>4, <1>5, <1>6, <1>7 DEF ClientOK

LEMMA SentLine ==
  ASSUME Inv, UnixTypeOK', NEW c \in Clients, ClientOK(c), RequestSent(c)
  PROVE  ClientOK(c)'
<1> DEFINE m == [from |-> NameOf(c), call |-> <<c, n[c]>>]
<1>t. UnixTypeOK /\ Server # c /\ Server \in Names /\ c \in Names
  BY UnixAssumption DEF Inv, Names
<1>1. /\ pc[c] = "sendto" /\ pc'[c] = "recv"
      /\ UNCHANGED <<n, got, givenup, spc, job, executed>>
      /\ Sendto(Server, m)
  BY <1>t DEF RequestSent, UnixTypeOK, serverVars
<1>2. /\ n[c] \in Nat /\ givenup[c] \in Nat /\ Len(got[c]) \in Nat
      /\ Returned(c) \subseteq Nat /\ AtClient(c) \subseteq Nat
      /\ InHand(c) \subseteq Nat /\ AtServer(c) \subseteq Nat
  BY <1>t, LineIsNat
<1>m. m \in Messages /\ m.call[1] = c /\ m.call[2] = n[c]
  <2>1. n[c] # 0
    BY <1>1 DEF Inv, Called
  <2> QED
    BY <1>2, <2>1 DEF Messages, NameOf, Calls, Names
<1> HIDE DEF m
<1>3. /\ queue'[c] = queue[c]
      /\ Numbers(queue'[Server], c) \subseteq Numbers(queue[Server], c) \cup {n[c]}
      /\ Rising(queue[Server], c) /\ Below(Numbers(queue[Server], c), {n[c]})
           => Rising(queue'[Server], c)
      /\ Cardinality(Positions(queue'[Server], c)) <= Cardinality(Positions(queue[Server], c)) + 1
  BY <1>t, <1>1, <1>m, SendtoLine
<1>4. n'[c] = Len(got'[c]) + givenup'[c] + Runs(c)'
  BY <1>1 DEF ClientOK, Runs
<1>5. InStepOf(c)'
  BY <1>1 DEF ClientOK, InStepOf
<1>6. Backlog(c)' <= Allowed(c)'
  <2> DEFINE s == Cardinality(Positions(queue[Server], c))
             w == Cardinality(Positions(queue[c], c))
             ss == Cardinality(Positions(queue'[Server], c))
             h == IF InOnce(c) THEN 1 ELSE 0
  <2>1. /\ Backlog(c) = s + h + w /\ s \in Nat /\ w \in Nat
        /\ Backlog(c) \in Nat /\ Allowed(c) \in Nat
    BY <1>t, BacklogCounts
  <2>2. InOnce(c)' = InOnce(c)
    BY <1>1 DEF InOnce
  <2>3. Backlog(c)' = ss + h + w
    BY <1>3, <2>2 DEF Backlog, Of, Positions
  <2>4. ss <= s + 1 /\ ss \in Nat
    BY <1>3, <1>t, ServerIsName, CountIsFinite DEF UnixTypeOK
  <2>5. h \in Nat
    OBVIOUS
  <2>6. Allowed(c) = givenup[c] /\ Allowed(c)' = givenup[c] + 1
    BY <1>1, <1>2 DEF Allowed
  <2>7. Backlog(c) <= Allowed(c)
    BY DEF ClientOK
  <2> HIDE DEF s, w, ss, h
  <2>8. s + h + w <= givenup[c]
    BY <2>1, <2>6, <2>7
  <2>9. ss + h + w <= givenup[c] + 1
    BY <1>2, <2>1, <2>4, <2>5, <2>8
  <2> QED
    BY <2>3, <2>6, <2>9
<1>7. InLine(c)'
  <2>1. /\ Returned(c)' = Returned(c) /\ AtClient(c)' = AtClient(c)
        /\ InHand(c)' = InHand(c) /\ AtServer(c)' \subseteq AtServer(c) \cup {n[c]}
    BY <1>1, <1>3 DEF Returned, AtClient, InHand, InOnce, AtServer
  <2>2. \A x \in Returned(c) \cup AtClient(c) \cup InHand(c) \cup AtServer(c) : x < n[c] /\ x <= n[c]
    BY <1>1 DEF ClientOK, InLine
  <2>3. /\ Rising(queue[Server], c) /\ Rising(queue[c], c)
        /\ Below(InHand(c), AtServer(c))
        /\ Below(AtClient(c), InHand(c) \cup AtServer(c))
        /\ Below(Returned(c), AtClient(c) \cup InHand(c) \cup AtServer(c))
    BY DEF ClientOK, InLine
  <2>4. (Rising(queue[Server], c) /\ Rising(queue[c], c))'
    <3>1. Below(Numbers(queue[Server], c), {n[c]})
      BY <2>2 DEF Below, AtServer
    <3>2. Rising(queue'[Server], c) /\ Rising(queue'[c], c)
      BY <1>3, <2>3, <3>1
    <3> QED
      BY <3>2 DEF Rising
  <2>5. (/\ Below(InHand(c), AtServer(c))
         /\ Below(AtClient(c), InHand(c) \cup AtServer(c))
         /\ Below(Returned(c), AtClient(c) \cup InHand(c) \cup AtServer(c)))'
    BY <2>1, <2>2, <2>3 DEF Below
  <2>6. n[c] <= n[c] /\ n'[c] = n[c] /\ pc'[c] # "sendto"
    BY <1>1, <1>2
  <2> QED
    BY <2>1, <2>2, <2>4, <2>5, <2>6 DEF InLine
<1> QED
  BY <1>4, <1>5, <1>6, <1>7 DEF ClientOK

LEMMA ReturnsLine ==
  ASSUME Inv, UnixTypeOK', NEW c \in Clients, ClientOK(c), FromClients, Answers, RequestReturns(c)
  PROVE  ClientOK(c)'
<1> DEFINE h == Head(queue[c])
           k == h.call[2]
           L == Len(got[c])
<1>t. UnixTypeOK /\ Server # c /\ Server \in Names /\ c \in Names
  BY UnixAssumption DEF Inv, Names
<1>q. queue[c] \in Seq(Messages) /\ queue[c] # <<>> /\ got[c] \in Seq([at : Nat, answer : Calls])
  BY <1>t DEF UnixTypeOK, RequestReturns
<1>1. /\ pc[c] = "recv" /\ pc'[c] = "idle"
      /\ UNCHANGED <<n, givenup, spc, job, executed>>
      /\ queue'[c] = Tail(queue[c]) /\ queue'[Server] = queue[Server]
      /\ got'[c] = Append(got[c], [at |-> n[c], answer |-> h.call])
  BY <1>t DEF RequestReturns, UnixTypeOK, serverVars
<1>2. /\ n[c] \in Nat /\ givenup[c] \in Nat /\ L \in Nat
      /\ Returned(c) \subseteq Nat /\ AtClient(c) \subseteq Nat
      /\ InHand(c) \subseteq Nat /\ AtServer(c) \subseteq Nat
  BY <1>t, LineIsNat
<1>h. h \in Messages /\ h.call[1] = c /\ h.call \in executed
  <2>1. PICK j \in DOMAIN queue[c] : h = queue[c][j]
    BY <1>q, TailNoMore
  <2> QED
    BY <1>q, <2>1, HeadTail DEF Answers
<1>c. h.call \in Calls /\ k \in Nat \ {0}
  BY <1>h DEF Messages, Calls
<1>3. /\ Rising(queue'[c], c) /\ Numbers(queue'[c], c) \subseteq Numbers(queue[c], c)
      /\ k \in Numbers(queue[c], c) /\ Below({k}, Numbers(queue'[c], c))
  <2>1. Rising(queue[c], c)
    BY DEF ClientOK, InLine
  <2> QED
    BY <1>1, <1>q, <1>h, <2>1, TakenRises
<1>k. /\ \A x \in Returned(c) : x < k
      /\ k <= n[c]
      /\ n[c] = L + givenup[c] + 1
  <2>1. k \in AtClient(c)
    BY <1>3 DEF AtClient
  <2>2. Runs(c) = 1
    BY <1>1 DEF Runs
  <2> QED
    BY <2>1, <2>2 DEF ClientOK, InLine, Below
<1>g. /\ Len(got'[c]) = L + 1 /\ DOMAIN got'[c] = 1..(L + 1) /\ DOMAIN got[c] = 1..L
      /\ \A i \in 1..L : got'[c][i] = got[c][i]
      /\ got'[c][L + 1] = [at |-> n[c], answer |-> h.call]
  <2> HIDE DEF h
  <2> QED
    BY <1>1, <1>q
<1> HIDE DEF h, k, L
<1>4. n'[c] = Len(got'[c]) + givenup'[c] + Runs(c)'
  <2>1. Runs(c)' = 0
    BY <1>1 DEF Runs
  <2>2. L + givenup[c] + 1 = (L + 1) + givenup[c] + 0
    BY <1>2
  <2> QED
    BY <1>1, <1>k, <1>g, <2>1, <2>2
<1>l. L + 1 <= k
  <2>1. CASE L = 0
    BY <1>c, <2>1
  <2>2. CASE L # 0
    <3>1. L \in DOMAIN got[c]
      BY <1>2, <1>g, <2>2
    <3>2. L <= got[c][L].answer[2] /\ got[c][L].answer[2] \in Returned(c)
      BY <3>1 DEF ClientOK, InStepOf, Returned
    <3>3. got[c][L].answer[2] < k /\ got[c][L].answer[2] \in Nat
      BY <1>2, <1>k, <3>2
    <3> QED
      BY <1>2, <1>c, <3>2, <3>3
  <2> QED
    BY <2>1, <2>2
<1>5. InStepOf(c)'
  <2> SUFFICES ASSUME NEW i \in 1..(L + 1)
               PROVE  /\ got'[c][i].answer[1] = c /\ got'[c][i].answer \in executed
                      /\ got'[c][i].answer[2] <= got'[c][i].at
                      /\ got'[c][i].at <= got'[c][i].answer[2] + givenup[c]
                      /\ i > 1 => got'[c][i - 1].answer[2] < got'[c][i].answer[2]
                      /\ i <= got'[c][i].answer[2]
    BY <1>1, <1>g DEF InStepOf
  <2>1. CASE i \in 1..L
    <3>1. /\ got[c][i].answer[1] = c /\ got[c][i].answer \in executed
          /\ got[c][i].answer[2] <= got[c][i].at
          /\ got[c][i].at <= got[c][i].answer[2] + givenup[c]
          /\ i > 1 => got[c][i - 1].answer[2] < got[c][i].answer[2]
          /\ i <= got[c][i].answer[2]
      BY <1>g, <2>1 DEF ClientOK, InStepOf
    <3>2. got'[c][i] = got[c][i] /\ (i > 1 => got'[c][i - 1] = got[c][i - 1])
      BY <1>2, <1>g, <2>1
    <3> QED
      BY <3>1, <3>2
  <2>2. CASE i = L + 1
    <3>1. got'[c][i].at = n[c] /\ got'[c][i].answer = h.call
      BY <1>g, <2>2
    <3>2. h.call[2] = k
      BY DEF k
    <3>3. n[c] <= k + givenup[c]
      BY <1>2, <1>c, <1>k, <1>l
    <3>4. i > 1 => got'[c][i - 1].answer[2] < k
      <4> SUFFICES ASSUME i > 1 PROVE got'[c][i - 1].answer[2] < k
        OBVIOUS
      <4>1. i - 1 \in 1..L /\ got'[c][i - 1] = got[c][i - 1]
        BY <1>2, <1>g, <2>2
      <4>2. got[c][i - 1].answer[2] \in Returned(c)
        BY <1>g, <4>1 DEF Returned
      <4> QED
        BY <1>k, <4>1, <4>2
    <3>5. i <= k
      BY <1>l, <2>2
    <3>6. got'[c][i].answer[2] = k
      BY <3>1, <3>2
    <3>7. got'[c][i].answer[1] = c /\ got'[c][i].answer \in executed
      BY <1>h, <3>1
    <3> QED
      BY <1>k, <3>1, <3>3, <3>4, <3>5, <3>6, <3>7
  <2> QED
    BY <1>2, <2>1, <2>2
<1>6. Backlog(c)' <= Allowed(c)'
  <2> DEFINE s == Cardinality(Positions(queue[Server], c))
             w == Cardinality(Positions(queue[c], c))
             ww == Cardinality(Positions(queue'[c], c))
             o == IF InOnce(c) THEN 1 ELSE 0
  <2>1. /\ Backlog(c) = s + o + w /\ s \in Nat /\ w \in Nat
        /\ Backlog(c) \in Nat /\ Allowed(c) \in Nat
    BY <1>t, BacklogCounts
  <2>2. InOnce(c)' = InOnce(c)
    BY <1>1 DEF InOnce
  <2>3. Backlog(c)' = s + o + ww
    BY <1>1, <2>2 DEF Backlog, Of, Positions
  <2>4. w = ww + 1 /\ ww \in Nat
    <3>1. w = ww + (IF h.call[1] = c THEN 1 ELSE 0)
      BY <1>1, <1>q, TakenCount DEF h
    <3>2. ww \in Nat
      BY <1>t, CountIsFinite DEF UnixTypeOK
    <3> QED
      BY <1>h, <3>1, <3>2
  <2>5. o \in Nat
    OBVIOUS
  <2>6. Allowed(c) = givenup[c] + 1 /\ Allowed(c)' = givenup[c]
    BY <1>1, <1>2 DEF Allowed
  <2>7. Backlog(c) <= Allowed(c)
    BY DEF ClientOK
  <2> HIDE DEF s, w, ww, o
  <2>8. s + o + w <= givenup[c] + 1
    BY <2>1, <2>6, <2>7
  <2>9. s + o + ww <= givenup[c]
    BY <1>2, <2>1, <2>4, <2>5, <2>8
  <2> QED
    BY <2>3, <2>6, <2>9
<1>7. InLine(c)'
  <2>1. /\ Returned(c)' \subseteq Returned(c) \cup {k}
        /\ AtClient(c)' \subseteq AtClient(c) /\ k \in AtClient(c) /\ Below({k}, AtClient(c)')
        /\ InHand(c)' = InHand(c) /\ AtServer(c)' = AtServer(c)
    <3>1. Returned(c)' \subseteq Returned(c) \cup {k}
      <4>1. ASSUME NEW i \in 1..(L + 1) PROVE got'[c][i].answer[2] \in Returned(c) \cup {k}
        <5>1. CASE i \in 1..L
          BY <1>g, <5>1 DEF Returned
        <5>2. CASE i = L + 1
          BY <1>g, <5>2 DEF k
        <5> QED
          BY <1>2, <5>1, <5>2
      <4> QED
        BY <1>g, <4>1 DEF Returned
    <3> QED
      BY <1>1, <1>3, <3>1 DEF AtClient, InHand, InOnce, AtServer
  <2>2. \A x \in Returned(c) \cup AtClient(c) \cup InHand(c) \cup AtServer(c) : x <= n[c]
    BY DEF ClientOK, InLine
  <2>3. /\ Rising(queue[Server], c)
        /\ Below(InHand(c), AtServer(c))
        /\ Below(AtClient(c), InHand(c) \cup AtServer(c))
        /\ Below(Returned(c), AtClient(c) \cup InHand(c) \cup AtServer(c))
    BY DEF ClientOK, InLine
  <2>4. (Rising(queue[Server], c) /\ Rising(queue[c], c))'
    BY <1>1, <1>3, <2>3 DEF Rising
  <2>5. (/\ Below(InHand(c), AtServer(c))
         /\ Below(AtClient(c), InHand(c) \cup AtServer(c))
         /\ Below(Returned(c), AtClient(c) \cup InHand(c) \cup AtServer(c)))'
    BY <2>1, <2>3 DEF Below
  <2> QED
    BY <1>1, <1>k, <2>1, <2>2, <2>4, <2>5 DEF InLine
<1> QED
  BY <1>4, <1>5, <1>6, <1>7 DEF ClientOK

\* What the server takes from its queue it works on next.
LEMMA ReceivesLine ==
  ASSUME Inv, UnixTypeOK', NEW c \in Clients, ClientOK(c), OnceReceives,
         Head(queue[Server]).call[1] = c
  PROVE  ClientOK(c)'
<1> DEFINE h == Head(queue[Server])
           k == h.call[2]
<1>t. UnixTypeOK /\ Server # c /\ Server \in Names /\ c \in Names
  BY UnixAssumption DEF Inv, Names
<1>q. queue[Server] \in Seq(Messages) /\ queue[Server] # <<>>
  BY <1>t DEF UnixTypeOK, OnceReceives
<1>1. /\ spc = "ready" /\ spc' = "call" /\ job' = h
      /\ UNCHANGED <<pc, n, got, givenup, executed>>
      /\ queue'[Server] = Tail(queue[Server]) /\ queue'[c] = queue[c]
  BY <1>t DEF OnceReceives, UnixTypeOK, clientVars
<1>3. /\ Rising(queue'[Server], c)
      /\ Numbers(queue'[Server], c) \subseteq Numbers(queue[Server], c)
      /\ k \in Numbers(queue[Server], c) /\ Below({k}, Numbers(queue'[Server], c))
  <2>1. Rising(queue[Server], c)
    BY DEF ClientOK, InLine
  <2> QED
    BY <1>1, <1>q, <2>1, TakenRises
<1>5. n'[c] = Len(got'[c]) + givenup'[c] + Runs(c)' /\ InStepOf(c)'
  BY <1>1 DEF ClientOK, Runs, InStepOf
<1>6. Backlog(c)' <= Allowed(c)'
  <2> DEFINE s == Cardinality(Positions(queue[Server], c))
             w == Cardinality(Positions(queue[c], c))
             ss == Cardinality(Positions(queue'[Server], c))
  <2>1. ~InOnce(c) /\ InOnce(c)'
    BY <1>1 DEF InOnce
  <2>2. /\ Backlog(c) = s + 0 + w /\ s \in Nat /\ w \in Nat
    BY <1>t, <2>1, BacklogCounts
  <2>3. Backlog(c)' = ss + 1 + w
    BY <1>1, <2>1 DEF Backlog, Of, Positions
  <2>4. s = ss + 1 /\ ss \in Nat
    <3>1. s = ss + (IF h.call[1] = c THEN 1 ELSE 0)
      BY <1>1, <1>q, TakenCount
    <3>2. ss \in Nat
      BY <1>t, CountIsFinite DEF UnixTypeOK
    <3> QED
      BY <3>1, <3>2
  <2>5. Allowed(c)' = Allowed(c)
    BY <1>1 DEF Allowed
  <2>6. Backlog(c) <= Allowed(c)
    BY DEF ClientOK
  <2> HIDE DEF s, w, ss
  <2>7. Backlog(c)' = Backlog(c)
    BY <2>2, <2>3, <2>4
  <2> QED
    BY <2>5, <2>6, <2>7
<1>7. InLine(c)'
  <2>1. /\ Returned(c)' = Returned(c) /\ AtClient(c)' = AtClient(c)
        /\ InHand(c)' = {k} /\ k \in AtServer(c)
        /\ AtServer(c)' \subseteq AtServer(c) /\ Below({k}, AtServer(c)')
    BY <1>1, <1>3 DEF Returned, AtClient, InHand, InOnce, AtServer
  <2>2. \A x \in Returned(c) \cup AtClient(c) \cup InHand(c) \cup AtServer(c) :
          x <= n[c] /\ (pc[c] = "sendto" => x < n[c])
    BY DEF ClientOK, InLine
  <2>3. /\ Rising(queue[c], c)
        /\ Below(AtClient(c), InHand(c) \cup AtServer(c))
        /\ Below(Returned(c), AtClient(c) \cup InHand(c) \cup AtServer(c))
    BY DEF ClientOK, InLine
  <2>4. (Rising(queue[Server], c) /\ Rising(queue[c], c))'
    BY <1>1, <1>3, <2>3, ZenonT(30) DEF Rising
  <2>5. (/\ Below(InHand(c), AtServer(c))
         /\ Below(AtClient(c), InHand(c) \cup AtServer(c))
         /\ Below(Returned(c), AtClient(c) \cup InHand(c) \cup AtServer(c)))'
    BY <2>1, <2>3 DEF Below
  <2> QED
    BY <1>1, <2>1, <2>2, <2>4, <2>5 DEF InLine
<1> QED
  BY <1>5, <1>6, <1>7 DEF ClientOK

\* What the server sends goes to the client whose call it is, or to nobody.
LEMMA SendsLine ==
  ASSUME Inv, UnixTypeOK', NEW c \in Clients, ClientOK(c), OnceSends,
         job.call[1] = c, Target \in {c, NoName}
  PROVE  ClientOK(c)'
<1> DEFINE k == job.call[2]
           s == Cardinality(Positions(queue[Server], c))
           w == Cardinality(Positions(queue[c], c))
           ww == Cardinality(Positions(queue'[c], c))
           m == [from |-> NameOf(Server), call |-> job.call]
<1>t. UnixTypeOK /\ Server # c /\ Server \in Names /\ c \in Names /\ c # NoName
  BY UnixAssumption DEF Inv, Names
<1>1. /\ spc = "send" /\ spc' = "ready"
      /\ UNCHANGED <<pc, n, got, givenup, executed>>
  BY DEF OnceSends, clientVars
<1>m. m \in Messages /\ m.call = job.call
  <2>1. job.call \in Calls
    BY <1>1, <1>t DEF UnixTypeOK, Messages
  <2> QED
    BY <2>1 DEF Messages, NameOf, Names
<1>b. InOnce(c) /\ ~InOnce(c)' /\ k \in InHand(c) /\ InHand(c)' = {}
  BY <1>1 DEF InOnce, InHand
<1>l. /\ Rising(queue[Server], c) /\ Rising(queue[c], c)
      /\ Below(InHand(c), AtServer(c))
      /\ Below(AtClient(c), InHand(c) \cup AtServer(c))
      /\ Below(Returned(c), AtClient(c) \cup InHand(c) \cup AtServer(c))
      /\ \A x \in Returned(c) \cup AtClient(c) \cup InHand(c) \cup AtServer(c) :
           x <= n[c] /\ (pc[c] = "sendto" => x < n[c])
  BY DEF ClientOK, InLine
<1>c. w \in Nat /\ ww \in Nat /\ s \in Nat /\ Backlog(c) = s + 1 + w
  BY <1>t, <1>b, BacklogCounts, CountIsFinite DEF UnixTypeOK
<1> HIDE DEF k, s, w, ww, m
<1>2. /\ queue'[Server] = queue[Server]
      /\ Rising(queue'[c], c)
      /\ Numbers(queue'[c], c) \subseteq Numbers(queue[c], c) \cup {k}
      /\ ww <= w + 1
  <2>1. CASE Target = NoName
    <3>1. queue' = queue
      BY <2>1 DEF OnceSends
    <3>2. ww = w
      BY <3>1 DEF w, ww
    <3> QED
      BY <1>c, <1>l, <3>1, <3>2
  <2>2. CASE Target = c
    <3>1. Sendto(c, m)
      BY <1>t, <2>2 DEF OnceSends, m
    <3>2. m.call[1] = c /\ m.call[2] = k
      BY <1>m DEF k
    <3>3. Below(Numbers(queue[c], c), {k})
      BY <1>b, <1>l DEF Below, AtClient
    <3>4. /\ queue'[Server] = queue[Server]
          /\ Rising(queue[c], c) /\ Below(Numbers(queue[c], c), {k}) => Rising(queue'[c], c)
          /\ Numbers(queue'[c], c) \subseteq Numbers(queue[c], c) \cup {k}
      BY <1>t, <1>m, <3>1, <3>2, SendtoLine
    <3>5. ww <= w + (IF m.call[1] = c THEN 1 ELSE 0)
      BY <1>t, <1>m, <3>1, SendtoLine DEF w, ww
    <3>6. ww <= w + 1
      BY <3>2, <3>5
    <3> QED
      BY <1>l, <3>3, <3>4, <3>6
  <2> QED
    BY <2>1, <2>2
<1>5. n'[c] = Len(got'[c]) + givenup'[c] + Runs(c)' /\ InStepOf(c)'
  BY <1>1 DEF ClientOK, Runs, InStepOf
<1>6. Backlog(c)' <= Allowed(c)'
  <2>1. Backlog(c)' = s + 0 + ww
    BY <1>b, <1>2 DEF Backlog, Of, Positions, s, ww
  <2>2. Allowed(c)' = Allowed(c) /\ Allowed(c) \in Nat
    BY <1>t, <1>1, BacklogCounts DEF Allowed
  <2>3. Backlog(c) <= Allowed(c)
    BY DEF ClientOK
  <2>4. s + 0 + ww <= Allowed(c)
    BY <1>c, <1>2, <2>2, <2>3
  <2> QED
    BY <2>1, <2>2, <2>4
<1>7. InLine(c)'
  <2>1. /\ Returned(c)' = Returned(c) /\ AtServer(c)' = AtServer(c)
        /\ AtClient(c)' \subseteq AtClient(c) \cup {k}
    BY <1>1, <1>2 DEF Returned, AtClient, AtServer
  <2>2. (Rising(queue[Server], c) /\ Rising(queue[c], c))'
    BY <1>2, <1>l DEF Rising
  <2>3. (/\ Below(InHand(c), AtServer(c))
         /\ Below(AtClient(c), InHand(c) \cup AtServer(c))
         /\ Below(Returned(c), AtClient(c) \cup InHand(c) \cup AtServer(c)))'
    BY <1>b, <1>l, <2>1 DEF Below
  <2> QED
    BY <1>1, <1>b, <1>l, <2>1, <2>2, <2>3 DEF InLine
<1> QED
  BY <1>5, <1>6, <1>7 DEF ClientOK

-----------------------------------------------------------------------------
(***************************************************************************)
(* Every step.                                                             *)
(***************************************************************************)

\* A step that leaves the queues and what the server works on alone.
LEMMA QuietCalls ==
  ASSUME CallsInv, UnixTypeOK', queue' = queue, job' = job, to' = to,
         got' = got, n' = n, executed \subseteq executed',
         \A d \in Clients : InOnce(d)' => InOnce(d),
         \A d \in Clients :
           /\ pc'[d] = "sendto" => pc[d] = "sendto"
           /\ \/ givenup'[d] = givenup[d] /\ Runs(d)' = Runs(d) /\ (pc[d] = "recv" => pc'[d] = "recv")
              \/ givenup'[d] = givenup[d] + 1 /\ Runs(d) = 1 /\ Runs(d)' = 0
           /\ pc'[d] # "down" => to \in {d, NoName},
         spc' \in {"call", "send"} => OfClient(job),
         spc' = "send" => job.call \in executed'
  PROVE  FromClients' /\ Answers' /\ \A d \in Clients : ClientOK(d)'
<1>t. UnixTypeOK /\ Server \in Names /\ Clients \subseteq Names
  BY ServerIsName DEF CallsInv, Inv
<1>1. ASSUME NEW d \in Clients PROVE ClientOK(d)'
  <2>1. NoMore(queue[Server], queue[Server], d) /\ NoMore(queue[d], queue[d], d)
    BY <1>t, SameNoMore DEF UnixTypeOK
  <2>2. NoMore(queue[Server], queue'[Server], d) /\ NoMore(queue[d], queue'[d], d)
    BY <2>1
  <2>3. ClientOK(d)
    BY DEF CallsInv
  <2> QED
    BY <1>t, <2>2, <2>3, Untouched
<1>2. FromClients'
  BY DEF CallsInv, FromClients, OfClient
<1>3. Answers'
  BY DEF CallsInv, Answers
<1> QED
  BY <1>1, <1>2, <1>3

\* A socket that closes takes its messages with it.
LEMMA GoneCalls ==
  ASSUME CallsInv, UnixTypeOK', NEW a \in Names, SocketGone(a), to' = to,
         got' = got, n' = n, executed' = executed,
         spc' \in {"call", "send"} => spc' = spc /\ job' = job,
         \A d \in Clients :
           /\ pc'[d] = "sendto" => pc[d] = "sendto"
           /\ \/ givenup'[d] = givenup[d] /\ Runs(d)' = Runs(d) /\ (pc[d] = "recv" => pc'[d] = "recv")
              \/ givenup'[d] = givenup[d] + 1 /\ Runs(d) = 1 /\ Runs(d)' = 0
           /\ pc'[d] # "down" => pc[d] # "down"
  PROVE  FromClients' /\ Answers' /\ \A d \in Clients : ClientOK(d)'
<1>t. UnixTypeOK /\ Server \in Names /\ Clients \subseteq Names
  BY ServerIsName DEF CallsInv, Inv
<1>q. queue'[a] = <<>> /\ \A b \in Names \ {a} : queue'[b] = queue[b]
  BY <1>t DEF SocketGone, UnixTypeOK
<1>e. DOMAIN <<>> = {}
  OBVIOUS
<1>1. ASSUME NEW d \in Clients PROVE ClientOK(d)'
  <2>1. \A b \in Names : NoMore(queue[b], queue'[b], d)
    <3> SUFFICES ASSUME NEW b \in Names PROVE NoMore(queue[b], queue'[b], d)
      OBVIOUS
    <3>1. queue[b] \in Seq(Messages)
      BY <1>t DEF UnixTypeOK
    <3>2. NoMore(queue[b], queue[b], d) /\ NoMore(queue[b], <<>>, d)
      BY <3>1, SameNoMore, EmptyNoMore
    <3> QED
      BY <1>q, <3>2
  <2>2. ClientOK(d)
    BY DEF CallsInv
  <2>3. InOnce(d)' => InOnce(d) /\ job' = job
    BY DEF InOnce
  <2>4. NoMore(queue[Server], queue'[Server], d) /\ NoMore(queue[d], queue'[d], d)
    BY <1>t, <2>1
  <2>5. got'[d] = got[d] /\ n'[d] = n[d] /\ executed \subseteq executed'
    OBVIOUS
  <2>6. /\ pc'[d] = "sendto" => pc[d] = "sendto"
        /\ \/ givenup'[d] = givenup[d] /\ Runs(d)' = Runs(d) /\ (pc[d] = "recv" => pc'[d] = "recv")
           \/ givenup'[d] = givenup[d] + 1 /\ Runs(d) = 1 /\ Runs(d)' = 0
    OBVIOUS
  <2> QED
    BY <1>t, <2>2, <2>3, <2>4, <2>5, <2>6, Untouched
<1>2. FromClients'
  <2>1. \A i \in DOMAIN queue'[Server] : OfClient(queue'[Server][i])
    BY <1>t, <1>q, <1>e DEF CallsInv, FromClients
  <2> QED
    BY <2>1 DEF CallsInv, FromClients, OfClient
<1>3. Answers'
  <2>1. ASSUME NEW d \in Clients, NEW i \in DOMAIN queue'[d]
        PROVE  queue'[d][i].call[1] = d /\ queue'[d][i].call \in executed
    <3>1. d # a
      BY <1>q, <1>e, <2>1
    <3>2. queue'[d] = queue[d]
      BY <1>t, <1>q, <3>1
    <3> QED
      BY <2>1, <3>2 DEF CallsInv, Answers
  <2> QED
    BY <2>1 DEF CallsInv, Answers
<1> QED
  BY <1>1, <1>2, <1>3

LEMMA SentCalls ==
  ASSUME CallsInv, UnixTypeOK', NEW c \in Clients, RequestSent(c)
  PROVE  FromClients' /\ Answers' /\ \A d \in Clients : ClientOK(d)'
<1> DEFINE m == [from |-> NameOf(c), call |-> <<c, n[c]>>]
<1>t. /\ UnixTypeOK /\ Inv /\ Server \in Names /\ c \in Names /\ Server \notin Clients
      /\ Clients \subseteq Names
  BY ServerIsName, UnixAssumption DEF CallsInv, Inv
<1>1. /\ pc[c] = "sendto" /\ pc' = [pc EXCEPT ![c] = "recv"]
      /\ UNCHANGED <<n, got, givenup, spc, job, executed, to>>
      /\ Sendto(Server, m)
  BY <1>t DEF RequestSent, serverVars
<1>m. m \in Messages /\ m.call = <<c, n[c]>> /\ m.from = NameOf(c)
  <2>1. n[c] # 0 /\ n[c] \in 0..MaxCalls /\ MaxCalls \in Nat
    BY <1>t, <1>1, UnixAssumption DEF Inv, Called, UnixTypeOK
  <2> QED
    BY <2>1 DEF Messages, NameOf, Calls, Names
<1>b. m.call[1] = c
  BY <1>m
<1>o. OfClient(m)
  BY <1>1, <1>m, <1>b DEF CallsInv, FromClients, OfClient, NameOf
<1> HIDE DEF m
<1>2. ASSUME NEW d \in Clients PROVE ClientOK(d)'
  <2>1. ClientOK(d)
    BY DEF CallsInv
  <2>2. CASE d = c
    BY <1>t, <2>1, <2>2, SentLine
  <2>3. CASE d # c
    <3>1. queue'[d] = queue[d] /\ NoMore(queue[Server], queue'[Server], d)
      <4>1. m.call[1] # d
        BY <1>b, <2>3
      <4>2. /\ queue'[d] = queue[d]
            /\ Numbers(queue'[Server], d) \subseteq Numbers(queue[Server], d)
            /\ Rising(queue[Server], d) => Rising(queue'[Server], d)
        BY <1>t, <1>1, <1>m, <4>1, SendtoLine
      <4>3. Cardinality(Positions(queue'[Server], d)) <=
              Cardinality(Positions(queue[Server], d)) + (IF m.call[1] = d THEN 1 ELSE 0)
        BY <1>t, <1>1, <1>m, SendtoLine
      <4>4. Cardinality(Positions(queue[Server], d)) \in Nat
        BY <1>t, CountIsFinite DEF UnixTypeOK
      <4>5. Cardinality(Positions(queue'[Server], d)) <= Cardinality(Positions(queue[Server], d))
        <5> HIDE DEF Positions
        <5> QED
          BY <4>1, <4>3, <4>4
      <4> QED
        BY <4>2, <4>5 DEF NoMore
    <3>2. NoMore(queue[d], queue'[d], d)
      BY <1>t, <3>1, SameNoMore DEF UnixTypeOK
    <3>3. pc'[d] = pc[d]
      BY <1>1, <1>t, <2>3 DEF UnixTypeOK
    <3>4. Runs(d)' = Runs(d) /\ InOnce(d)' = InOnce(d)
      BY <1>1, <3>3 DEF Runs, InOnce
    <3> QED
      BY <1>t, <1>1, <2>1, <3>1, <3>2, <3>3, <3>4, Untouched
  <2> QED
    BY <2>2, <2>3
<1>3. FromClients'
  <2>1. \A i \in DOMAIN queue'[Server] : OfClient(queue'[Server][i])
    <3>1. \A i \in DOMAIN queue'[Server] :
            queue'[Server][i] = m \/ \E j \in DOMAIN queue[Server] : queue'[Server][i] = queue[Server][j]
      BY <1>t, <1>1, <1>m, SendtoLine
    <3>2. \A j \in DOMAIN queue[Server] : OfClient(queue[Server][j])
      BY DEF CallsInv, FromClients
    <3> QED
      BY <1>o, <3>1, <3>2
  <2>2. \A d \in Clients : pc'[d] # "down" => pc[d] # "down"
    BY <1>1, <1>t DEF UnixTypeOK
  <2> QED
    BY <1>1, <2>1, <2>2 DEF CallsInv, FromClients, OfClient
<1>4. Answers'
  <2>1. \A d \in Clients : queue'[d] = queue[d]
    BY <1>t, <1>1, <1>m, SendtoLine
  <2> QED
    BY <1>1, <2>1 DEF CallsInv, Answers
<1> QED
  BY <1>2, <1>3, <1>4

LEMMA ReturnsCalls ==
  ASSUME CallsInv, UnixTypeOK', NEW c \in Clients, RequestReturns(c)
  PROVE  FromClients' /\ Answers' /\ \A d \in Clients : ClientOK(d)'
<1>t. /\ UnixTypeOK /\ Inv /\ Server \in Names /\ c \in Names /\ Server # c
      /\ Clients \subseteq Names
  BY ServerIsName, UnixAssumption DEF CallsInv, Inv
<1>1. /\ UNCHANGED <<n, givenup, spc, job, executed, to>>
      /\ pc' = [pc EXCEPT ![c] = "idle"] /\ pc[c] = "recv"
      /\ \A b \in Names \ {c} : queue'[b] = queue[b]
      /\ queue'[c] = Tail(queue[c])
      /\ \A d \in Clients \ {c} : got'[d] = got[d]
  BY <1>t DEF RequestReturns, UnixTypeOK, serverVars
<1>2. ASSUME NEW d \in Clients PROVE ClientOK(d)'
  <2>1. ClientOK(d) /\ FromClients /\ Answers
    BY DEF CallsInv
  <2>2. CASE d = c
    BY <1>t, <2>1, <2>2, ReturnsLine
  <2>3. CASE d # c
    <3>1. queue'[d] = queue[d] /\ queue'[Server] = queue[Server]
          /\ got'[d] = got[d] /\ pc'[d] = pc[d]
      BY <1>t, <1>1, <2>3 DEF UnixTypeOK
    <3>2. NoMore(queue[Server], queue'[Server], d) /\ NoMore(queue[d], queue'[d], d)
      BY <1>t, <3>1, SameNoMore DEF UnixTypeOK
    <3>3. Runs(d)' = Runs(d) /\ InOnce(d)' = InOnce(d)
      BY <1>1, <3>1 DEF Runs, InOnce
    <3>4. job' = job /\ n'[d] = n[d] /\ givenup'[d] = givenup[d] /\ executed \subseteq executed'
      BY <1>1
    <3> QED
      BY <1>t, <2>1, <3>1, <3>2, <3>3, <3>4, Untouched
  <2> QED
    BY <2>2, <2>3
<1>3. FromClients'
  <2>1. \A d \in Clients : pc'[d] # "down" => pc[d] # "down"
    BY <1>1, <1>t DEF UnixTypeOK
  <2>2. queue'[Server] = queue[Server]
    BY <1>1, <1>t
  <2> QED
    BY <1>1, <2>1, <2>2 DEF CallsInv, FromClients, OfClient
<1>4. Answers'
  <2>1. ASSUME NEW d \in Clients, NEW i \in DOMAIN queue'[d]
        PROVE  queue'[d][i].call[1] = d /\ queue'[d][i].call \in executed
    <3>1. \E j \in DOMAIN queue[d] : queue'[d][i] = queue[d][j]
      <4>1. CASE d = c
        <5>1. queue[c] \in Seq(Messages) /\ queue[c] # <<>>
          BY <1>t DEF UnixTypeOK, RequestReturns
        <5>2. \A l \in DOMAIN Tail(queue[c]) : \E j \in DOMAIN queue[c] : Tail(queue[c])[l] = queue[c][j]
          BY <5>1, TailNoMore
        <5> QED
          BY <1>1, <2>1, <4>1, <5>2
      <4>2. CASE d # c
        BY <1>t, <1>1, <2>1, <4>2
      <4> QED
        BY <4>1, <4>2
    <3> QED
      BY <3>1 DEF CallsInv, Answers
  <2> QED
    BY <1>1, <2>1 DEF CallsInv, Answers
<1> QED
  BY <1>2, <1>3, <1>4

LEMMA ReceivesCalls ==
  ASSUME CallsInv, UnixTypeOK', OnceReceives
  PROVE  FromClients' /\ Answers' /\ \A d \in Clients : ClientOK(d)'
<1> DEFINE h == Head(queue[Server])
<1>t. /\ UnixTypeOK /\ Inv /\ Server \in Names /\ Server \notin Clients /\ Clients \subseteq Names
  BY ServerIsName, UnixAssumption DEF CallsInv, Inv
<1>1. /\ UNCHANGED <<pc, n, got, givenup, executed, to>>
      /\ spc = "ready" /\ spc' = "call" /\ job' = h
      /\ \A b \in Names \ {Server} : queue'[b] = queue[b]
      /\ queue'[Server] = Tail(queue[Server])
  BY <1>t DEF OnceReceives, UnixTypeOK, clientVars
<1>q. queue[Server] \in Seq(Messages) /\ queue[Server] # <<>>
  BY <1>t DEF UnixTypeOK, OnceReceives
<1>h. /\ OfClient(h)
      /\ \A i \in DOMAIN queue'[Server] : OfClient(queue'[Server][i])
  <2>1. \E j \in DOMAIN queue[Server] : h = queue[Server][j]
    BY <1>q, TailNoMore
  <2>2. \A i \in DOMAIN Tail(queue[Server]) :
          \E j \in DOMAIN queue[Server] : Tail(queue[Server])[i] = queue[Server][j]
    BY <1>q, TailNoMore
  <2>3. \A j \in DOMAIN queue[Server] : OfClient(queue[Server][j])
    BY DEF CallsInv, FromClients
  <2> QED
    BY <1>1, <2>1, <2>2, <2>3
<1>2. ASSUME NEW d \in Clients PROVE ClientOK(d)'
  <2>1. ClientOK(d)
    BY DEF CallsInv
  <2>2. CASE h.call[1] = d
    BY <1>t, <2>1, <2>2, ReceivesLine
  <2>3. CASE h.call[1] # d
    <3>1. queue'[d] = queue[d] /\ ~InOnce(d)'
      BY <1>t, <1>1, <2>3 DEF InOnce
    <3>2. NoMore(queue[Server], queue'[Server], d)
      BY <1>1, <1>q, TailNoMore
    <3>3. NoMore(queue[d], queue'[d], d)
      BY <1>t, <3>1, SameNoMore DEF UnixTypeOK
    <3>4. /\ Runs(d)' = Runs(d) /\ n'[d] = n[d] /\ got'[d] = got[d] /\ pc'[d] = pc[d]
          /\ givenup'[d] = givenup[d] /\ executed \subseteq executed'
      BY <1>1 DEF Runs
    <3> QED
      BY <1>t, <2>1, <3>1, <3>2, <3>3, <3>4, Untouched
  <2> QED
    BY <2>2, <2>3
<1>3. FromClients'
  BY <1>1, <1>h DEF CallsInv, FromClients, OfClient
<1>4. Answers'
  <2>1. \A d \in Clients : queue'[d] = queue[d]
    BY <1>t, <1>1
  <2> QED
    BY <1>1, <2>1 DEF CallsInv, Answers
<1> QED
  BY <1>2, <1>3, <1>4

LEMMA SendsCalls ==
  ASSUME CallsInv, UnixTypeOK', OnceSends
  PROVE  FromClients' /\ Answers' /\ \A d \in Clients : ClientOK(d)'
<1> DEFINE c == job.call[1]
           m == [from |-> NameOf(Server), call |-> job.call]
<1>t. /\ UnixTypeOK /\ Inv /\ Server \in Names /\ Server \notin Clients
      /\ Clients \subseteq Names /\ NoName \notin Names
  BY ServerIsName, UnixAssumption DEF CallsInv, Inv, Names
<1>1. /\ UNCHANGED <<pc, n, got, givenup, executed, to>>
      /\ spc = "send" /\ spc' = "ready"
  BY DEF OnceSends, clientVars
<1>o. OfClient(job) /\ job.call \in executed
  BY <1>1 DEF CallsInv, FromClients, Answers
<1>c. c \in Clients /\ Target \in {c, NoName}
  BY <1>o DEF OfClient, Target
<1>m. m \in Messages /\ m.call = job.call
  <2>1. job.call \in Calls
    BY <1>1, <1>t DEF UnixTypeOK, Messages
  <2> QED
    BY <1>t, <2>1 DEF Messages, NameOf
<1>q. queue' = queue \/ Sendto(c, m)
  BY <1>t, <1>c DEF OnceSends
<1> HIDE DEF c, m
<1>b. \A b \in Names \ {c} : queue'[b] = queue[b]
  <2>1. CASE queue' = queue
    BY <2>1
  <2>2. CASE Sendto(c, m)
    BY <1>t, <1>c, <1>m, <2>2, SendtoLine
  <2> QED
    BY <1>q, <2>1, <2>2
<1>2. ASSUME NEW d \in Clients PROVE ClientOK(d)'
  <2>1. ClientOK(d)
    BY DEF CallsInv
  <2>2. CASE d = c
    BY <1>t, <1>c, <2>1, <2>2, SendsLine DEF c
  <2>3. CASE d # c
    <3>1. queue'[d] = queue[d] /\ queue'[Server] = queue[Server]
      BY <1>t, <1>b, <1>c, <2>3
    <3>2. NoMore(queue[Server], queue'[Server], d) /\ NoMore(queue[d], queue'[d], d)
      BY <1>t, <3>1, SameNoMore DEF UnixTypeOK
    <3>3. ~InOnce(d)'
      BY <1>1 DEF InOnce
    <3>4. /\ Runs(d)' = Runs(d) /\ n'[d] = n[d] /\ got'[d] = got[d] /\ pc'[d] = pc[d]
          /\ givenup'[d] = givenup[d] /\ executed \subseteq executed'
      BY <1>1 DEF Runs
    <3> QED
      BY <1>t, <2>1, <3>2, <3>3, <3>4, Untouched
  <2> QED
    BY <2>2, <2>3
<1>3. FromClients'
  <2>1. queue'[Server] = queue[Server]
    BY <1>t, <1>b, <1>c
  <2> QED
    BY <1>1, <2>1 DEF CallsInv, FromClients, OfClient
<1>4. Answers'
  <2>1. ASSUME NEW d \in Clients
        PROVE  \A i \in DOMAIN queue'[d] :
                 queue'[d][i].call[1] = d /\ queue'[d][i].call \in executed
    <3>1. \A i \in DOMAIN queue[d] : queue[d][i].call[1] = d /\ queue[d][i].call \in executed
      BY DEF CallsInv, Answers
    <3>2. CASE queue'[d] = queue[d]
      BY <3>1, <3>2
    <3>3. CASE queue'[d] # queue[d]
      <4>1. d = c /\ Sendto(d, m)
        BY <1>t, <1>b, <1>q, <3>3
      <4>2. \A i \in DOMAIN queue'[d] :
              queue'[d][i] = m \/ \E j \in DOMAIN queue[d] : queue'[d][i] = queue[d][j]
        BY <1>t, <1>m, <4>1, SendtoLine, ZenonT(30)
      <4>3. m.call[1] = d /\ m.call \in executed
        BY <1>m, <1>o, <4>1 DEF c
      <4> QED
        BY <3>1, <4>2, <4>3
    <3> QED
      BY <3>2, <3>3
  <2> QED
    BY <1>1, <2>1 DEF Answers
<1> QED
  BY <1>2, <1>3, <1>4

LEMMA InitCalls == Init => CallsInv
<1> SUFFICES ASSUME Init PROVE CallsInv
  OBVIOUS
<1> USE ServerIsName
<1>1. Inv
  BY InitInv
<1>2. DOMAIN <<>> = {} /\ Len(<<>>) = 0
  OBVIOUS
<1>3. FromClients
  BY <1>2 DEF Init, FromClients
<1>4. Answers
  BY <1>2 DEF Init, Answers
<1>5. ASSUME NEW c \in Clients PROVE ClientOK(c)
  <2>1. /\ queue[c] = <<>> /\ queue[Server] = <<>> /\ got[c] = <<>>
        /\ n[c] = 0 /\ givenup[c] = 0 /\ pc[c] = "down" /\ spc = "down"
    BY DEF Init
  <2>2. Returned(c) = {} /\ AtClient(c) = {} /\ InHand(c) = {} /\ AtServer(c) = {}
    BY <1>2, <2>1, NoneInLine DEF Returned, AtClient, InHand, InOnce, AtServer
  <2>3. InLine(c)
    BY <2>1, <2>2, NoneInLine DEF InLine, Below
  <2>4. Backlog(c) = 0
    <3>1. ~InOnce(c)
      BY <2>1 DEF InOnce
    <3>2. /\ Cardinality(Positions(queue[Server], c)) = 0
          /\ Cardinality(Positions(queue[c], c)) = 0
      BY <2>1, NoneInLine
    <3>3. Backlog(c) = 0 + 0 + 0
      BY <1>1, <3>1, <3>2, BacklogCounts DEF Inv
    <3> QED
      BY <3>3
  <2>5. Allowed(c) = 0 /\ Runs(c) = 0
    BY <2>1 DEF Allowed, Runs
  <2>6. InStepOf(c)
    BY <1>2, <2>1 DEF InStepOf
  <2>7. n[c] = Len(got[c]) + givenup[c] + Runs(c)
    BY <1>2, <2>1, <2>5
  <2> QED
    BY <2>3, <2>4, <2>5, <2>6, <2>7 DEF ClientOK
<1> QED
  BY <1>1, <1>3, <1>4, <1>5 DEF CallsInv

LEMMA NextCalls == CallsInv /\ [Next]_vars => CallsInv'
<1> SUFFICES ASSUME CallsInv, [Next]_vars PROVE CallsInv'
  OBVIOUS
<1> USE ServerIsName
<1>i. Inv /\ Inv' /\ UnixTypeOK /\ UnixTypeOK'
  BY NextInv DEF CallsInv, Inv
<1> SUFFICES FromClients' /\ Answers' /\ \A d \in Clients : ClientOK(d)'
  BY <1>i DEF CallsInv
<1>o. /\ \A d \in Clients : pc[d] # "down" => to \in {d, NoName}
      /\ spc \in {"call", "send"} => OfClient(job)
      /\ spc = "send" => job.call \in executed
  BY DEF CallsInv, FromClients, Answers
<1>1. ASSUME NEW c \in Clients, ClientStarts(c)
      PROVE  FromClients' /\ Answers' /\ \A d \in Clients : ClientOK(d)'
  <2>1. /\ pc[c] = "down" /\ pc' = [pc EXCEPT ![c] = "idle"] /\ to \in {c, NoName}
        /\ UNCHANGED <<queue, n, got, givenup, spc, job, executed, to>>
    BY <1>1 DEF ClientStarts, serverVars
  <2>2. \A d \in Clients : InOnce(d)' => InOnce(d)
    BY <2>1 DEF InOnce
  <2>3. \A d \in Clients :
           /\ pc'[d] = "sendto" => pc[d] = "sendto"
           /\ Runs(d)' = Runs(d) /\ (pc[d] = "recv" => pc'[d] = "recv")
           /\ pc'[d] # "down" => to \in {d, NoName}
    BY <1>i, <1>o, <2>1 DEF UnixTypeOK, Runs
  <2> QED
    BY <1>i, <1>o, <2>1, <2>2, <2>3, QuietCalls
<1>2. ASSUME NEW c \in Clients, Request(c)
      PROVE  FromClients' /\ Answers' /\ \A d \in Clients : ClientOK(d)'
  <2>1. /\ pc[c] = "idle" /\ pc' = [pc EXCEPT ![c] = "sendto"] /\ n' = [n EXCEPT ![c] = @ + 1]
        /\ UNCHANGED <<queue, got, givenup, spc, job, executed, to>>
    BY <1>2 DEF Request, serverVars
  <2>2. ASSUME NEW d \in Clients PROVE ClientOK(d)'
    <3>1. ClientOK(d)
      BY DEF CallsInv
    <3>2. CASE d = c
      BY <1>i, <1>2, <3>1, <3>2, RequestLine
    <3>3. CASE d # c
      <4>1. pc'[d] = pc[d] /\ n'[d] = n[d]
        BY <1>i, <2>1, <3>3 DEF UnixTypeOK
      <4>2. NoMore(queue[Server], queue'[Server], d) /\ NoMore(queue[d], queue'[d], d)
        BY <1>i, <2>1, SameNoMore DEF UnixTypeOK
      <4>3. Runs(d)' = Runs(d) /\ InOnce(d)' = InOnce(d)
        BY <2>1, <4>1 DEF Runs, InOnce
      <4>4. job' = job /\ got'[d] = got[d] /\ givenup'[d] = givenup[d] /\ executed \subseteq executed'
        BY <2>1
      <4> QED
        BY <1>i, <3>1, <4>1, <4>2, <4>3, <4>4, Untouched
    <3> QED
      BY <3>2, <3>3
  <2>3. \A d \in Clients : pc'[d] # "down" => pc[d] # "down"
    BY <1>i, <2>1 DEF UnixTypeOK
  <2>4. FromClients'
    BY <2>1, <2>3 DEF CallsInv, FromClients, OfClient
  <2>5. Answers'
    BY <2>1 DEF CallsInv, Answers
  <2> QED
    BY <2>2, <2>4, <2>5
<1>3. ASSUME NEW c \in Clients, RequestSent(c)
      PROVE  FromClients' /\ Answers' /\ \A d \in Clients : ClientOK(d)'
  BY <1>i, <1>3, SentCalls
<1>4. ASSUME NEW c \in Clients, RequestReturns(c)
      PROVE  FromClients' /\ Answers' /\ \A d \in Clients : ClientOK(d)'
  BY <1>i, <1>4, ReturnsCalls
<1>5. ASSUME NEW c \in Clients, RequestTimesOut(c)
      PROVE  FromClients' /\ Answers' /\ \A d \in Clients : ClientOK(d)'
  <2>1. /\ pc[c] = "recv" /\ pc' = [pc EXCEPT ![c] = "idle"]
        /\ givenup' = [givenup EXCEPT ![c] = @ + 1]
        /\ UNCHANGED <<queue, n, got, spc, job, executed, to>>
    BY <1>5 DEF RequestTimesOut, serverVars
  <2>2. \A d \in Clients : InOnce(d)' => InOnce(d)
    BY <2>1 DEF InOnce
  <2>3. ASSUME NEW d \in Clients
        PROVE  /\ pc'[d] = "sendto" => pc[d] = "sendto"
               /\ \/ givenup'[d] = givenup[d] /\ Runs(d)' = Runs(d) /\ (pc[d] = "recv" => pc'[d] = "recv")
                  \/ givenup'[d] = givenup[d] + 1 /\ Runs(d) = 1 /\ Runs(d)' = 0
               /\ pc'[d] # "down" => to \in {d, NoName}
    <3>1. CASE d = c
      BY <1>i, <1>o, <2>1, <3>1 DEF UnixTypeOK, Runs
    <3>2. CASE d # c
      BY <1>i, <1>o, <2>1, <3>2 DEF UnixTypeOK, Runs
    <3> QED
      BY <3>1, <3>2
  <2> QED
    BY <1>i, <1>o, <2>1, <2>2, <2>3, QuietCalls
<1>6. ASSUME NEW c \in Clients, ClientDies(c)
      PROVE  FromClients' /\ Answers' /\ \A d \in Clients : ClientOK(d)'
  <2>1. /\ pc[c] # "down" /\ pc' = [pc EXCEPT ![c] = "down"]
        /\ givenup' = IF pc[c] # "idle" THEN [givenup EXCEPT ![c] = @ + 1] ELSE givenup
        /\ SocketGone(c) /\ UNCHANGED <<n, got, spc, job, executed, to>>
    BY <1>6 DEF ClientDies, serverVars
  <2>2. ASSUME NEW d \in Clients
        PROVE  /\ pc'[d] = "sendto" => pc[d] = "sendto"
               /\ \/ givenup'[d] = givenup[d] /\ Runs(d)' = Runs(d) /\ (pc[d] = "recv" => pc'[d] = "recv")
                  \/ givenup'[d] = givenup[d] + 1 /\ Runs(d) = 1 /\ Runs(d)' = 0
               /\ pc'[d] # "down" => pc[d] # "down"
    <3>1. CASE d = c /\ pc[c] = "idle"
      BY <1>i, <2>1, <3>1 DEF UnixTypeOK, Runs
    <3>2. CASE d = c /\ pc[c] # "idle"
      <4>1. pc[c] \in {"sendto", "recv"} /\ pc'[c] = "down" /\ givenup'[c] = givenup[c] + 1
        BY <1>i, <2>1, <3>2 DEF UnixTypeOK
      <4> QED
        BY <3>2, <4>1 DEF Runs
    <3>3. CASE d # c
      BY <1>i, <2>1, <3>3 DEF UnixTypeOK, Runs
    <3> QED
      BY <3>1, <3>2, <3>3
  <2> QED
    BY <1>i, <2>1, <2>2, GoneCalls
<1>7. CASE ServerStarts
  <2>1. /\ spc' = "ready" /\ UNCHANGED <<queue, pc, n, got, givenup, job, executed, to>>
    BY <1>7 DEF ServerStarts, clientVars
  <2>2. \A d \in Clients : InOnce(d)' => InOnce(d)
    BY <2>1 DEF InOnce
  <2>3. \A d \in Clients : Runs(d)' = Runs(d)
    BY <2>1 DEF Runs
  <2> QED
    BY <1>i, <1>o, <2>1, <2>2, <2>3, QuietCalls
<1>8. CASE OnceReceives
  BY <1>i, <1>8, ReceivesCalls
<1>9. CASE OnceCalls
  <2>1. /\ spc = "call" /\ spc' = "send" /\ executed' = executed \cup {job.call}
        /\ UNCHANGED <<queue, pc, n, got, givenup, job, to>>
    BY <1>9 DEF OnceCalls, clientVars
  <2>2. \A d \in Clients : InOnce(d)' => InOnce(d)
    BY <2>1 DEF InOnce
  <2>3. \A d \in Clients : Runs(d)' = Runs(d)
    BY <2>1 DEF Runs
  <2> QED
    BY <1>i, <1>o, <2>1, <2>2, <2>3, QuietCalls
<1>10. CASE OnceSends
  BY <1>i, <1>10, SendsCalls
<1>11. CASE ServerDies
  <2>1. /\ spc' = "down" /\ SocketGone(Server)
        /\ UNCHANGED <<pc, n, got, givenup, executed, to>>
    BY <1>11 DEF ServerDies, clientVars
  <2>2. \A d \in Clients : Runs(d)' = Runs(d)
    BY <2>1 DEF Runs
  <2> QED
    BY <1>i, <2>1, <2>2, GoneCalls
<1>12. ASSUME NEW a \in Names, UserRemoves(a)
       PROVE  FromClients' /\ Answers' /\ \A d \in Clients : ClientOK(d)'
  <2>1. UNCHANGED <<queue, pc, n, got, givenup, spc, job, executed, to>>
    BY <1>12 DEF UserRemoves, clientVars, serverVars
  <2>2. \A d \in Clients : Runs(d)' = Runs(d) /\ (InOnce(d)' => InOnce(d))
    BY <2>1 DEF Runs, InOnce
  <2> QED
    BY <1>i, <1>o, <2>1, <2>2, QuietCalls
<1>13. CASE UNCHANGED vars
  <2>1. UNCHANGED <<queue, pc, n, got, givenup, spc, job, executed, to>>
    BY <1>13 DEF vars, clientVars, serverVars
  <2>2. \A d \in Clients : Runs(d)' = Runs(d) /\ (InOnce(d)' => InOnce(d))
    BY <2>1 DEF Runs, InOnce
  <2> QED
    BY <1>i, <1>o, <2>1, <2>2, QuietCalls
<1> QED
  BY <1>1, <1>2, <1>3, <1>4, <1>5, <1>6, <1>7, <1>8, <1>9, <1>10, <1>11, <1>12, <1>13
     DEF Next, Client, InCall, Once

\* What the invariant says of the answers and of the queues.
LEMMA CallsShow == CallsInv => InStep /\ Backlogged
<1> SUFFICES ASSUME CallsInv PROVE InStep /\ Backlogged
  OBVIOUS
<1>1. InStep
  BY DEF CallsInv, ClientOK, InStepOf, InStep
<1>2. Backlogged
  BY DEF CallsInv, ClientOK, Allowed, Backlogged
<1> QED
  BY <1>1, <1>2

\* The lines of all clients are in order, in every state of UnixCalls: the
\* invariant of the two theorems that follow.
THEOREM CallsInvAlways == Spec => []CallsInv
BY InitCalls, NextCalls, PTL DEF Spec

\* Over Unix sockets a call returns an answer to the same client, later than the
\* one before, and at most as many calls late as the client has given up.
THEOREM AnswersInStep == Spec => []InStep
BY CallsInvAlways, CallsShow, PTL

\* What waits for a client or because of it is no more than the calls it has not
\* seen the end of, so the server gets stuck only behind one that has given up
\* as many calls as its queue holds messages.
THEOREM QueuesBacklogged == Spec => []Backlogged
BY CallsInvAlways, CallsShow, PTL

-----------------------------------------------------------------------------
(***************************************************************************)
(* Publisher and Subscriber.                                               *)
(***************************************************************************)

\* A step of theirs changes little of what UnixTypeOK is about.
LEMMA HostTyped ==
  ASSUME UnixTypeOK, spc \in {"down", "ready"}, spc' \in {"down", "ready"},
         UNCHANGED <<n, got, givenup, job, to, executed>>,
         pc' \in [Clients -> {"down", "idle", "sendto", "recv"}],
         file' \in [Names -> {"absent", "stale", "bound"}],
         queue' \in [Names -> Seq(Messages)],
         \A b \in Names : Len(queue'[b]) <= QLen /\ (queue'[b] # <<>> => file'[b] = "bound"),
         left' \subseteq Names, deaths' \in 0..MaxDeaths
  PROVE  UnixTypeOK'
BY DEF UnixTypeOK

\* Sequences of numbers, with one more at the end, and taken apart.
LEMMA AppendedNumber ==
  ASSUME NEW s \in Seq(Nat), NEW p \in Nat, UpTo(s, p), InOrder(s)
  PROVE  /\ UpTo(Append(s, p), p) /\ InOrder(Append(s, p)) /\ Has(Append(s, p), p)
         /\ \A m : Has(s, m) => Has(Append(s, p), m)
<1>1. /\ Len(s) \in Nat /\ DOMAIN s = 1..Len(s) /\ DOMAIN Append(s, p) = 1..(Len(s) + 1)
      /\ \A k \in 1..Len(s) : Append(s, p)[k] = s[k]
      /\ Append(s, p)[Len(s) + 1] = p
  OBVIOUS
<1> DEFINE t == Append(s, p)
<1> HIDE DEF t
<1>2. UpTo(t, p)
  BY <1>1 DEF UpTo, t
<1>3. InOrder(t)
  <2> SUFFICES ASSUME NEW k \in 1..(Len(s) + 1), k > 1 PROVE t[k - 1] <= t[k]
    BY <1>1 DEF InOrder, t
  <2>1. k - 1 \in 1..Len(s) /\ t[k - 1] = s[k - 1]
    BY <1>1 DEF t
  <2>2. CASE k \in 1..Len(s)
    BY <1>1, <2>1, <2>2 DEF InOrder, t
  <2>3. CASE k = Len(s) + 1
    BY <1>1, <2>1, <2>3 DEF UpTo, t
  <2> QED
    BY <1>1, <2>2, <2>3
<1>4. Has(t, p)
  BY <1>1 DEF Has, t
<1>5. \A m : Has(s, m) => Has(t, m)
  BY <1>1 DEF Has, t
<1> QED
  BY <1>2, <1>3, <1>4, <1>5 DEF t

LEMMA NoNumbers == UpTo(<<>>, published) /\ InOrder(<<>>) /\ <<>> \o <<>> = <<>>
<1>1. DOMAIN <<>> = {}
  OBVIOUS
<1> QED
  BY <1>1 DEF UpTo, InOrder

Told(q) == [k \in DOMAIN q |-> q[k].call[2]]

LEMMA ToldIsSeq ==
  ASSUME NEW q \in Seq(Messages)
  PROVE  Told(q) \in Seq(Nat) /\ Len(Told(q)) = Len(q) /\ DOMAIN Told(q) = 1..Len(q)
<1>1. Len(q) \in Nat /\ DOMAIN q = 1..Len(q)
  OBVIOUS
<1>2. ASSUME NEW k \in 1..Len(q) PROVE q[k].call[2] \in Nat
  <2>1. q[k] \in Messages
    BY <1>1, ElementIn
  <2>2. q[k].call \in Calls
    BY <2>1 DEF Messages
  <2> QED
    BY <2>2 DEF Calls
<1>3. Told(q) = [k \in 1..Len(q) |-> q[k].call[2]]
  BY <1>1 DEF Told
<1>4. Told(q) \in [1..Len(q) -> Nat]
  BY <1>2, <1>3
<1>5. Told(q) \in Seq(Nat)
  BY <1>1, <1>4
<1>6. Len(Told(q)) = Len(q)
  BY <1>1, <1>3
<1> QED
  BY <1>3, <1>5, <1>6

\* The sequence v is u with x behind it; or in front of it.
Behind(v, u, x) == Len(v) = Len(u) + 1 /\ (\A k \in 1..Len(u) : v[k] = u[k]) /\ v[Len(u) + 1] = x
InFront(v, u, x) == Len(v) = Len(u) + 1 /\ (\A k \in 1..Len(u) : v[k + 1] = u[k]) /\ v[1] = x

LEMMA LongerBehind ==
  ASSUME NEW h \in Seq(Nat), NEW u \in Seq(Nat), NEW v \in Seq(Nat), NEW x \in Nat,
         Behind(v, u, x)
  PROVE  h \o v = Append(h \o u, x)
<1>1. v = Append(u, x)
  <2> DEFINE a == Append(u, x)
  <2>1. /\ a \in Seq(Nat) /\ Len(a) = Len(u) + 1
        /\ \A k \in 1..Len(u) : a[k] = u[k]
        /\ a[Len(u) + 1] = x
    BY AppendProperties
  <2> HIDE DEF a
  <2>2. Len(v) = Len(u) + 1 /\ Len(u) \in Nat
    BY DEF Behind
  <2>3. ASSUME NEW k \in 1..Len(v) PROVE v[k] = a[k]
    <3>1. k \in 1..Len(u) \/ k = Len(u) + 1
      BY <2>2
    <3> QED
      BY <2>1, <3>1 DEF Behind
  <2>4. v = a
    BY <2>1, <2>2, <2>3, SeqEqual
  <2> QED
    BY <2>4 DEF a
<1>2. <<x>> \in Seq(Nat) /\ h \o u \in Seq(Nat)
  BY ConcatProperties
<1>3. v = u \o <<x>> /\ Append(h \o u, x) = (h \o u) \o <<x>>
  BY <1>1, <1>2, AppendIsConcat
<1> QED
  BY <1>2, <1>3, ConcatAssociative

LEMMA LongerInFront ==
  ASSUME NEW h \in Seq(Nat), NEW u \in Seq(Nat), NEW v \in Seq(Nat), NEW x \in Nat,
         InFront(v, u, x)
  PROVE  Append(h, x) \o u = h \o v
<1>1. <<x>> \in Seq(Nat) /\ Len(<<x>>) = 1 /\ <<x>>[1] = x
  OBVIOUS
<1>2. v = <<x>> \o u
  <2> DEFINE w == <<x>> \o u
  <2>1. w \in Seq(Nat) /\ Len(w) = 1 + Len(u)
        /\ \A i \in 1..(1 + Len(u)) : w[i] = IF i <= 1 THEN <<x>>[i] ELSE u[i - 1]
    BY <1>1, ConcatProperties
  <2> HIDE DEF w
  <2>2. Len(v) = Len(u) + 1 /\ Len(u) \in Nat /\ Len(w) = Len(v)
    BY <2>1 DEF InFront
  <2>3. ASSUME NEW k \in 1..Len(v) PROVE v[k] = w[k]
    <3>1. CASE k = 1
      BY <1>1, <2>1, <2>2, <3>1 DEF InFront
    <3>2. CASE k # 1
      <4>1. k - 1 \in 1..Len(u) /\ (k - 1) + 1 = k /\ ~(k <= 1) /\ k \in 1..(1 + Len(u))
        BY <2>2, <3>2
      <4>2. w[k] = u[k - 1]
        BY <2>1, <4>1
      <4>3. v[(k - 1) + 1] = u[k - 1]
        BY <4>1 DEF InFront
      <4> QED
        BY <4>1, <4>2, <4>3
    <3> QED
      BY <3>1, <3>2
  <2>4. v = w
    BY <2>1, <2>2, <2>3, SeqEqual
  <2> QED
    BY <2>4 DEF w
<1>3. Append(h, x) = h \o <<x>>
  BY AppendIsConcat
<1> QED
  BY <1>1, <1>2, <1>3, ConcatAssociative

LEMMA ToldAppended ==
  ASSUME NEW h \in Seq(Nat), NEW q \in Seq(Messages), NEW m \in Messages
  PROVE  h \o Told(Append(q, m)) = Append(h \o Told(q), m.call[2])
<1> DEFINE r == Append(q, m)
           u == Told(q)
           v == Told(r)
<1>1. /\ Len(q) \in Nat /\ DOMAIN r = 1..(Len(q) + 1) /\ Len(r) = Len(q) + 1
      /\ \A k \in 1..Len(q) : r[k] = q[k]
      /\ r[Len(q) + 1] = m /\ r \in Seq(Messages)
  OBVIOUS
<1>2. m.call[2] \in Nat
  <2>1. m.call \in Calls
    BY DEF Messages
  <2> QED
    BY <2>1 DEF Calls
<1> HIDE DEF r
<1>3. /\ u \in Seq(Nat) /\ Len(u) = Len(q) /\ DOMAIN u = 1..Len(q)
      /\ v \in Seq(Nat) /\ Len(v) = Len(q) + 1 /\ DOMAIN v = 1..(Len(q) + 1)
  BY <1>1, ToldIsSeq
<1>4. /\ \A k \in 1..Len(q) : v[k] = u[k]
      /\ v[Len(q) + 1] = m.call[2]
  BY <1>1, <1>3 DEF Told
<1> HIDE DEF u, v
<1>5. Behind(v, u, m.call[2])
  BY <1>1, <1>3, <1>4 DEF Behind
<1>6. h \o v = Append(h \o u, m.call[2])
  BY <1>2, <1>3, <1>5, LongerBehind, ZenonT(30)
<1> QED
  BY <1>6 DEF r, u, v

LEMMA ToldTaken ==
  ASSUME NEW h \in Seq(Nat), NEW q \in Seq(Messages), q # <<>>
  PROVE  Append(h, Head(q).call[2]) \o Told(Tail(q)) = h \o Told(q)
<1> DEFINE r == Tail(q)
           x == Head(q).call[2]
           u == Told(q)
           v == Told(r)
<1>1. /\ Len(q) \in Nat /\ Len(q) >= 1 /\ Len(r) = Len(q) - 1
      /\ DOMAIN r = 1..(Len(q) - 1) /\ DOMAIN q = 1..Len(q)
      /\ \A k \in 1..(Len(q) - 1) : r[k] = q[k + 1]
      /\ Head(q) = q[1] /\ r \in Seq(Messages)
  OBVIOUS
<1> HIDE DEF r
<1>3. /\ u \in Seq(Nat) /\ Len(u) = Len(q) /\ DOMAIN u = 1..Len(q)
      /\ v \in Seq(Nat) /\ Len(v) = Len(q) - 1 /\ DOMAIN v = 1..(Len(q) - 1)
  BY <1>1, ToldIsSeq
<1>4. /\ \A k \in 1..(Len(q) - 1) : v[k] = u[k + 1]
      /\ x = u[1]
  BY <1>1, <1>3 DEF Told
<1>2. x \in Nat
  BY <1>1, <1>3, <1>4
<1> HIDE DEF u, v, x
<1>5. InFront(u, v, x)
  BY <1>1, <1>3, <1>4 DEF InFront
<1>6. Append(h, x) \o v = h \o u
  BY <1>2, <1>3, <1>5, LongerInFront
<1> QED
  BY <1>6 DEF r, u, v, x

\* What a subscriber has heard and has waiting, as one sequence.
LEMMA ReachedIs ==
  ASSUME PsTypeOK, NEW c \in Clients
  PROVE  /\ queue[c] \in Seq(Messages) /\ heard[c] \in Seq(Nat)
         /\ Reached(c) = heard[c] \o Told(queue[c])
         /\ Reached(c) \in Seq(Nat)
<1>1. queue[c] \in Seq(Messages) /\ heard[c] \in Seq(Nat)
  BY ServerIsName DEF PsTypeOK, UnixTypeOK
<1>2. Told(queue[c]) \in Seq(Nat)
  BY <1>1, ToldIsSeq
<1>3. heard[c] \o Told(queue[c]) \in Seq(Nat)
  BY <1>1, <1>2, ConcatProperties
<1>4. Reached(c) = heard[c] \o Told(queue[c])
  BY DEF Reached, Waiting, Told
<1> QED
  BY <1>1, <1>3, <1>4

\* A subscriber that hears and is sent nothing, and is due nothing more.
LEMMA SubSame ==
  ASSUME PsInv, NEW c \in Clients,
         pc'[c] = "down" => pc[c] = "down",
         HasName(c)' => HasName(c),
         queue'[c] = queue[c], heard'[c] = heard[c], published' = published,
         \A m \in due'[c] : m \in due[c] /\ (m = published /\ ToCome(c) => ToCome(c)')
  PROVE  Fresh(c)' /\ MissesNone(c)'
<1>1. Reached(c)' = Reached(c)
  BY DEF Reached, Waiting
<1>2. Fresh(c) /\ MissesNone(c)
  BY DEF PsInv
<1>3. Fresh(c)'
  BY <1>2 DEF Fresh
<1>4. ASSUME HasName(c)'
      PROVE  /\ UpTo(Reached(c)', published') /\ InOrder(Reached(c)')
             /\ \A m \in due'[c] : Has(Reached(c)', m) \/ (m = published' /\ ToCome(c)')
  BY <1>1, <1>2, <1>4 DEF MissesNone
<1>5. MissesNone(c)'
  BY <1>4 DEF MissesNone, UpTo, InOrder, Has
<1> QED
  BY <1>3, <1>5

\* The number of times publish() was called rises.
LEMMA UpToMore ==
  ASSUME NEW s \in Seq(Nat), NEW p \in Nat, UpTo(s, p)
  PROVE  UpTo(s, p + 1)
<1> SUFFICES ASSUME NEW k \in DOMAIN s PROVE s[k] <= p + 1
  BY DEF UpTo
<1>1. s[k] \in Nat /\ s[k] <= p
  BY ElementIn DEF UpTo
<1> QED
  BY <1>1

LEMMA PubStartsKeeps ==
  ASSUME PsInv, PubStarts
  PROVE  PsInv'
<1>t. PsTypeOK /\ UnixTypeOK
  BY DEF PsInv, PsTypeOK
<1>1. /\ spc = "down" /\ spc' = "ready" /\ clientaddrs' = <<>>
      /\ UNCHANGED <<file, queue, pc, n, got, givenup, job, executed, to, left, deaths>>
      /\ UNCHANGED <<published, at, hers, heard, due>>
  BY DEF PubStarts, clientVars, subVars
<1>2. at = 0
  BY <1>1, <1>t DEF PsInv, Hers, PsTypeOK
<1>3. PsTypeOK'
  <2>1. UnixTypeOK'
    BY <1>t, <1>1 DEF UnixTypeOK
  <2>2. <<>> \in Seq(Names)
    OBVIOUS
  <2> QED
    BY <1>t, <1>1, <2>1, <2>2 DEF PsTypeOK
<1>4. LeftStale' /\ NoCalls' /\ Hers'
  BY <1>1, <1>2 DEF PsInv, LeftStale, NoCalls, Hers
<1>5. ASSUME NEW c \in Clients PROVE Fresh(c)' /\ MissesNone(c)'
  <2>1. ~ToCome(c)
    BY <1>2 DEF ToCome
  <2>2. HasName(c)' = HasName(c)
    BY <1>1 DEF HasName
  <2> QED
    BY <1>1, <2>1, <2>2, SubSame
<1> QED
  BY <1>3, <1>4, <1>5 DEF PsInv

LEMMA RegisterKeeps ==
  ASSUME PsInv, NEW a \in Names, PubConnect(a) \/ PubBind(a)
  PROVE  PsInv'
<1>t. PsTypeOK /\ UnixTypeOK /\ NoName \notin Names /\ Clients \subseteq Names
  BY UnixAssumption DEF PsInv, PsTypeOK, Names
<1>1. /\ spc = "ready" /\ at = 0 /\ clientaddrs' = Append(clientaddrs, a)
      /\ UNCHANGED <<queue, pc, n, got, givenup, spc, job, executed, to, left, deaths>>
      /\ UNCHANGED <<published, at, heard, due>>
  BY DEF PubConnect, PubBind, RegisterAddr, clientVars, serverVars, subVars
<1>2. \/ UNCHANGED <<file, hers>>
      \/ /\ hers = NoName /\ file[a] = "absent"
         /\ file' = [file EXCEPT ![a] = "bound"] /\ hers' = a
  BY DEF PubConnect, PubBind
<1>3. /\ file' \in [Names -> {"absent", "stale", "bound"}]
      /\ \A b \in Names : file[b] # "absent" => file'[b] = file[b]
      /\ hers' \in Names \cup {NoName}
  BY <1>t, <1>2 DEF UnixTypeOK, PsTypeOK
<1>4. PsTypeOK'
  <2>1. UnixTypeOK'
    BY <1>t, <1>1, <1>3 DEF UnixTypeOK
  <2>2. clientaddrs' \in Seq(Names)
    BY <1>t, <1>1, AppendProperties DEF PsTypeOK
  <2> QED
    BY <1>t, <1>1, <1>3, <2>1, <2>2 DEF PsTypeOK
<1>5. LeftStale'
  BY <1>t, <1>1, <1>3 DEF PsInv, LeftStale, UnixTypeOK
<1>6. NoCalls'
  BY <1>1 DEF PsInv, NoCalls
<1>7. Hers'
  BY <1>t, <1>1, <1>2 DEF PsInv, Hers, UnixTypeOK
<1>8. ASSUME NEW c \in Clients PROVE Fresh(c)' /\ MissesNone(c)'
  <2>1. ~ToCome(c)
    BY <1>1 DEF ToCome
  <2>2. HasName(c)' => HasName(c)
    <3>1. CASE UNCHANGED <<file, hers>>
      BY <3>1 DEF HasName
    <3>2. CASE /\ hers = NoName /\ file[a] = "absent"
               /\ file' = [file EXCEPT ![a] = "bound"] /\ hers' = a
      BY <1>t, <3>2 DEF HasName, UnixTypeOK
    <3> QED
      BY <1>2, <3>1, <3>2
  <2> QED
    BY <1>1, <2>1, <2>2, SubSame
<1> QED
  BY <1>4, <1>5, <1>6, <1>7, <1>8 DEF PsInv

LEMMA PublishKeeps ==
  ASSUME PsInv, Publish
  PROVE  PsInv'
<1>t. PsTypeOK /\ UnixTypeOK
  BY DEF PsInv, PsTypeOK
<1>1. /\ spc = "ready" /\ at = 0 /\ published' = published + 1 /\ at' = 1
      /\ due' = [c \in Clients |-> IF HasName(c) /\ Registered(c)
                                   THEN due[c] \cup {published'} ELSE due[c]]
      /\ UNCHANGED <<file, queue, pc, n, got, givenup, spc, job, executed, to, left, deaths>>
      /\ UNCHANGED <<clientaddrs, hers, heard>>
  BY DEF Publish, vars, clientVars, serverVars
<1>p. published \in Nat /\ published' \in Nat /\ published' > 0
  BY <1>t, <1>1 DEF PsTypeOK
<1>3. PsTypeOK'
  <2>1. UnixTypeOK'
    BY <1>t, <1>1 DEF UnixTypeOK
  <2>2. due' \in [Clients -> SUBSET Nat]
    BY <1>t, <1>1, <1>p DEF PsTypeOK
  <2> QED
    BY <1>t, <1>1, <1>p, <2>1, <2>2 DEF PsTypeOK
<1>4. LeftStale' /\ Hers'
  BY <1>1, <1>p DEF PsInv, LeftStale, Hers
<1>5. NoCalls'
  <2>1. ASSUME NEW a \in Names, NEW i \in DOMAIN queue[a]
        PROVE  queue[a][i].call[1] = Server /\ queue[a][i].call[2] <= published'
    <3>1. queue[a][i] \in Messages
      <4>1. queue[a] \in Seq(Messages)
        BY <1>t DEF UnixTypeOK
      <4> QED
        BY <4>1, ElementIn
    <3>2. queue[a][i].call[2] \in Nat
      <4>1. queue[a][i].call \in Calls
        BY <3>1 DEF Messages
      <4> QED
        BY <4>1 DEF Calls
    <3>3. queue[a][i].call[1] = Server /\ queue[a][i].call[2] <= published
      BY DEF PsInv, NoCalls
    <3> QED
      BY <1>1, <1>p, <3>2, <3>3
  <2> QED
    BY <1>1, <2>1 DEF PsInv, NoCalls
<1>6. ASSUME NEW c \in Clients PROVE Fresh(c)' /\ MissesNone(c)'
  <2>1. Fresh(c) /\ MissesNone(c) /\ ~ToCome(c)
    BY <1>1 DEF PsInv, ToCome
  <2>2. HasName(c)' = HasName(c) /\ Reached(c)' = Reached(c)
    BY <1>1 DEF HasName, Reached, Waiting
  <2>3. Fresh(c)'
    BY <1>1, <2>1, <2>2 DEF Fresh
  <2>4. ASSUME HasName(c)
        PROVE  /\ UpTo(Reached(c), published') /\ InOrder(Reached(c))
               /\ \A m \in due'[c] : Has(Reached(c), m) \/ (m = published' /\ ToCome(c)')
    <3>1. UpTo(Reached(c), published') /\ InOrder(Reached(c))
      BY <1>t, <1>1, <1>p, <2>1, <2>4, ReachedIs, UpToMore DEF MissesNone
    <3>2. ASSUME NEW m \in due'[c], ~Has(Reached(c), m) PROVE m = published' /\ ToCome(c)'
      <4>1. \A x \in due[c] : Has(Reached(c), x)
        BY <2>1, <2>4 DEF MissesNone
      <4>2. m = published' /\ Registered(c)
        BY <1>1, <3>2, <4>1
      <4>3. PICK k \in DOMAIN clientaddrs : clientaddrs[k] = c
        BY <4>2 DEF Registered
      <4>4. k >= 1 /\ clientaddrs' = clientaddrs /\ at' = 1
        BY <1>t, <1>1, <4>3 DEF PsTypeOK
      <4> QED
        BY <4>2, <4>3, <4>4 DEF ToCome
    <3> QED
      BY <3>1, <3>2
  <2>5. MissesNone(c)'
    BY <2>2, <2>4 DEF MissesNone, UpTo, InOrder, Has
  <2> QED
    BY <2>3, <2>5
<1> QED
  BY <1>3, <1>4, <1>5, <1>6 DEF PsInv

LEMMA PublishReturnsKeeps ==
  ASSUME PsInv, PublishReturns
  PROVE  PsInv'
<1>t. PsTypeOK /\ UnixTypeOK
  BY DEF PsInv, PsTypeOK
<1>1. /\ at > Len(clientaddrs) /\ at' = 0
      /\ UNCHANGED <<file, queue, pc, n, got, givenup, spc, job, executed, to, left, deaths>>
      /\ UNCHANGED <<clientaddrs, published, hers, heard, due>>
  BY DEF PublishReturns, vars, clientVars, serverVars, subVars
<1>3. PsTypeOK'
  <2>1. UnixTypeOK'
    BY <1>t, <1>1 DEF UnixTypeOK
  <2> QED
    BY <1>t, <1>1, <2>1 DEF PsTypeOK
<1>4. LeftStale' /\ Hers' /\ NoCalls'
  BY <1>1 DEF PsInv, LeftStale, Hers, NoCalls
<1>6. ASSUME NEW c \in Clients PROVE Fresh(c)' /\ MissesNone(c)'
  <2>1. ~ToCome(c)
    <3>1. clientaddrs \in Seq(Names) /\ at \in Nat
      BY <1>t DEF PsTypeOK
    <3>2. \A k \in DOMAIN clientaddrs : ~(k >= at)
      BY <1>1, <3>1
    <3> QED
      BY <3>2 DEF ToCome
  <2>2. HasName(c)' = HasName(c)
    BY <1>1 DEF HasName
  <2> QED
    BY <1>1, <2>1, <2>2, SubSame
<1> QED
  BY <1>3, <1>4, <1>6 DEF PsInv

LEMMA PublishToKeeps ==
  ASSUME PsInv, PublishTo
  PROVE  PsInv'
<1> DEFINE a == clientaddrs[at]
           m == [from |-> hers, call |-> <<Server, published>>]
<1>t. /\ PsTypeOK /\ UnixTypeOK /\ clientaddrs \in Seq(Names) /\ at \in Nat /\ published \in Nat
      /\ Clients \subseteq Names /\ Server \notin Clients
  BY UnixAssumption DEF PsInv, PsTypeOK, Names
<1>1. /\ at \in DOMAIN clientaddrs /\ at' = at + 1 /\ Sendto(a, m)
      /\ UNCHANGED <<file, pc, n, got, givenup, spc, job, executed, to, left, deaths>>
      /\ UNCHANGED <<clientaddrs, published, hers, heard, due>>
  BY DEF PublishTo, clientVars, serverVars, subVars
<1>2. a \in Names /\ at > 0 /\ spc = "ready" /\ published > 0
  <2>1. a \in Names /\ at > 0
    BY <1>t, <1>1
  <2> QED
    BY <2>1 DEF PsInv, Hers
<1>m. /\ m \in Messages /\ m.call[1] = Server /\ m.call[2] = published
  BY <1>t, <1>2 DEF PsTypeOK, Messages, Calls, Names
<1> HIDE DEF a, m
<1>3. /\ queue' \in [Names -> Seq(Messages)]
      /\ \A b \in Names : Len(queue'[b]) <= QLen /\ (queue'[b] # <<>> => file'[b] = "bound")
  BY <1>t, <1>1, <1>2, <1>m, SendtoKept
<1>o. \A b \in Names \ {a} : queue'[b] = queue[b]
  BY <1>t, <1>1 DEF Sendto, UnixTypeOK
<1>4. PsTypeOK'
  <2>1. UnixTypeOK'
    BY <1>t, <1>1, <1>3 DEF UnixTypeOK
  <2> QED
    BY <1>t, <1>1, <2>1 DEF PsTypeOK
<1>5. LeftStale' /\ Hers'
  BY <1>1, <1>2 DEF PsInv, LeftStale, Hers
<1>6. NoCalls'
  <2>1. ASSUME NEW b \in Names, NEW i \in DOMAIN queue'[b]
        PROVE  queue'[b][i].call[1] = Server /\ queue'[b][i].call[2] <= published
    <3>1. \A j \in DOMAIN queue[b] : queue[b][j].call[1] = Server /\ queue[b][j].call[2] <= published
      BY DEF PsInv, NoCalls
    <3>2. published <= published
      BY <1>t
    <3>3. CASE b = a
      <4>1. \A l \in DOMAIN queue'[a] :
              queue'[a][l] = m \/ \E j \in DOMAIN queue[a] : queue'[a][l] = queue[a][j]
        BY <1>t, <1>1, <1>2, <1>m, SendtoLine
      <4> QED
        BY <1>m, <2>1, <3>1, <3>2, <3>3, <4>1
    <3>4. CASE b # a
      <4>1. queue'[b] = queue[b]
        BY <1>o, <3>4
      <4> QED
        BY <2>1, <3>1, <4>1
    <3> QED
      BY <3>3, <3>4
  <2> QED
    BY <1>1, <2>1 DEF PsInv, NoCalls
<1>7. ASSUME NEW c \in Clients PROVE Fresh(c)' /\ MissesNone(c)'
  <2>1. Fresh(c) /\ MissesNone(c)
    BY DEF PsInv
  <2>2. HasName(c)' = HasName(c)
    BY <1>1 DEF HasName
  <2>3. Fresh(c)'
    BY <1>1, <2>1, <2>2 DEF Fresh
  <2>4. CASE c # a
    <3>1. queue'[c] = queue[c]
      BY <1>t, <1>o, <2>4
    <3>2. ToCome(c) => ToCome(c)'
      <4> SUFFICES ASSUME ToCome(c) PROVE ToCome(c)'
        OBVIOUS
      <4>1. PICK k \in DOMAIN clientaddrs : k >= at /\ clientaddrs[k] = c
        BY DEF ToCome
      <4>2. k # at /\ k \in Nat
        BY <1>t, <2>4, <4>1 DEF a
      <4>3. k >= at + 1 /\ at + 1 > 0
        BY <1>t, <4>1, <4>2
      <4> QED
        BY <1>1, <4>1, <4>3 DEF ToCome
    <3> QED
      BY <1>1, <2>2, <3>1, <3>2, SubSame
  <2>5. CASE c = a
    <3>1. SUFFICES ASSUME HasName(c) PROVE MissesNone(c)'
      BY <2>2, <2>3 DEF MissesNone
    <3>2. queue'[c] = Append(queue[c], m)
      BY <1>t, <1>1, <2>5, <3>1 DEF Sendto, HasName, UnixTypeOK
    <3>3. /\ queue[c] \in Seq(Messages) /\ heard[c] \in Seq(Nat)
          /\ Reached(c) = heard[c] \o Told(queue[c]) /\ Reached(c) \in Seq(Nat)
      BY <1>t, ReachedIs
    <3>4. Reached(c)' = heard[c] \o Told(queue'[c])
      BY <1>1 DEF Reached, Waiting, Told
    <3>5. Reached(c)' = Append(Reached(c), published)
      BY <1>m, <3>2, <3>3, <3>4, ToldAppended
    <3>6. UpTo(Reached(c), published) /\ InOrder(Reached(c))
      BY <2>1, <3>1 DEF MissesNone
    <3> DEFINE r == Append(Reached(c), published)
    <3>7. /\ UpTo(r, published) /\ InOrder(r) /\ Has(r, published)
          /\ \A x : Has(Reached(c), x) => Has(r, x)
      BY <1>t, <3>3, <3>6, AppendedNumber
    <3>8. \A x \in due[c] : Has(r, x)
      BY <2>1, <3>1, <3>7 DEF MissesNone
    <3> HIDE DEF r
    <3>9. Reached(c)' = r
      BY <3>5 DEF r
    <3> QED
      BY <1>1, <3>7, <3>8, <3>9 DEF MissesNone, UpTo, InOrder, Has
  <2> QED
    BY <2>3, <2>4, <2>5
<1> QED
  BY <1>4, <1>5, <1>6, <1>7 DEF PsInv

\* What the end of a program changes for the others.
LEMMA EndKeeps ==
  ASSUME PsInv, NEW a \in Names \cup {NoName},
         a # NoName => SocketGone(a),
         a = NoName => deaths < MaxDeaths /\ deaths' = deaths + 1 /\ UNCHANGED <<file, queue, left>>,
         spc' \in {"down", "ready"}, UNCHANGED <<n, got, givenup, job, to, executed, published>>,
         pc' \in [Clients -> {"down", "idle", "sendto", "recv"}],
         \A c \in Clients : pc'[c] # "sendto"
  PROVE  /\ UnixTypeOK' /\ LeftStale' /\ NoCalls'
         /\ \A b \in Names \ {a} : file'[b] = file[b] /\ queue'[b] = queue[b]
         /\ a # NoName => file'[a] # "bound" /\ queue'[a] = <<>>
<1>t. UnixTypeOK /\ LeftStale /\ spc \in {"down", "ready"} /\ deaths \in 0..MaxDeaths
  BY DEF PsInv, PsTypeOK, UnixTypeOK, NoCalls
<1>n. NoName \notin Names
  BY UnixAssumption DEF Names
<1>1. /\ file' \in [Names -> {"absent", "stale", "bound"}]
      /\ queue' \in [Names -> Seq(Messages)]
      /\ \A b \in Names : Len(queue'[b]) <= QLen /\ (queue'[b] # <<>> => file'[b] = "bound")
      /\ left' \subseteq Names /\ LeftStale' /\ deaths' \in 0..MaxDeaths
      /\ \A b \in Names \ {a} : file'[b] = file[b] /\ queue'[b] = queue[b]
      /\ a # NoName => file'[a] # "bound" /\ queue'[a] = <<>>
  <2>1. CASE a = NoName
    <3>1. deaths' \in 0..MaxDeaths
      BY <1>t, <2>1, UnixAssumption
    <3>2. LeftStale'
      BY <1>t, <2>1 DEF LeftStale
    <3> QED
      BY <1>t, <2>1, <3>1, <3>2 DEF UnixTypeOK
  <2>2. CASE a # NoName
    <3>1. a \in Names /\ SocketGone(a)
      BY <2>2
    <3>2. /\ file' \in [Names -> {"absent", "stale", "bound"}]
          /\ queue' \in [Names -> Seq(Messages)]
          /\ \A b \in Names : Len(queue'[b]) <= QLen /\ (queue'[b] # <<>> => file'[b] = "bound")
          /\ left' \subseteq Names /\ LeftStale' /\ deaths' \in 0..MaxDeaths
          /\ \A b \in Names \ {a} : file'[b] = file[b]
      BY <1>t, <3>1, GoneKept
    <3>3. /\ queue'[a] = <<>> /\ file'[a] # "bound"
          /\ \A b \in Names \ {a} : queue'[b] = queue[b]
      BY <1>t, <3>1 DEF SocketGone, UnixTypeOK
    <3> QED
      BY <3>2, <3>3
  <2> QED
    BY <2>1, <2>2
<1>2. UnixTypeOK'
  BY <1>t, <1>1, HostTyped
<1>3. NoCalls'
  <2>1. DOMAIN <<>> = {}
    OBVIOUS
  <2>2. ASSUME NEW b \in Names, NEW i \in DOMAIN queue'[b]
        PROVE  queue'[b][i].call[1] = Server /\ queue'[b][i].call[2] <= published
    <3>1. b # a
      BY <1>1, <1>n, <2>1, <2>2
    <3>2. queue'[b] = queue[b]
      BY <1>1, <3>1
    <3> QED
      BY <2>2, <3>2 DEF PsInv, NoCalls
  <2> QED
    BY <2>2 DEF PsInv, NoCalls
<1> QED
  BY <1>1, <1>2, <1>3

LEMMA PubDiesKeeps ==
  ASSUME PsInv, PubDies
  PROVE  PsInv'
<1>t. /\ PsTypeOK /\ UnixTypeOK /\ hers \in Names \cup {NoName} /\ NoName \notin Names
      /\ Clients \subseteq Names
  BY UnixAssumption DEF PsInv, PsTypeOK, Names
<1>1. /\ spc' = "down" /\ at' = 0 /\ hers' = NoName
      /\ due' = [c \in Clients |-> IF ToCome(c) THEN due[c] \ {published} ELSE due[c]]
      /\ UNCHANGED <<pc, n, got, givenup, job, executed, to, clientaddrs, published, heard>>
  BY DEF PubDies, clientVars
<1>2. /\ hers # NoName => SocketGone(hers)
      /\ hers = NoName => deaths < MaxDeaths /\ deaths' = deaths + 1 /\ UNCHANGED <<file, queue, left>>
  BY DEF PubDies
<1>3. /\ UnixTypeOK' /\ LeftStale' /\ NoCalls'
      /\ \A b \in Names \ {hers} : file'[b] = file[b] /\ queue'[b] = queue[b]
      /\ hers # NoName => file'[hers] # "bound" /\ queue'[hers] = <<>>
  <2>1. /\ pc' \in [Clients -> {"down", "idle", "sendto", "recv"}]
        /\ \A c \in Clients : pc'[c] # "sendto"
    BY <1>t, <1>1 DEF UnixTypeOK, PsInv, NoCalls
  <2> QED
    BY <1>t, <1>1, <1>2, <2>1, EndKeeps
<1>4. PsTypeOK'
  <2>1. due' \in [Clients -> SUBSET Nat]
    BY <1>t, <1>1 DEF PsTypeOK
  <2> QED
    BY <1>t, <1>1, <1>3, <2>1 DEF PsTypeOK
<1>5. Hers'
  BY <1>1 DEF Hers
<1>6. ASSUME NEW c \in Clients PROVE Fresh(c)' /\ MissesNone(c)'
  <2>1. CASE c = hers
    <3>1. ~HasName(c)'
      BY <1>t, <1>3, <2>1 DEF HasName
    <3>2. Fresh(c)
      BY DEF PsInv
    <3>3. due'[c] \subseteq due[c] /\ heard'[c] = heard[c] /\ pc'[c] = pc[c]
      BY <1>1
    <3>4. Fresh(c)'
      BY <3>1, <3>2, <3>3 DEF Fresh
    <3> QED
      BY <3>1, <3>4 DEF MissesNone
  <2>2. CASE c # hers
    <3>1. queue'[c] = queue[c] /\ file'[c] = file[c]
      BY <1>t, <1>3, <2>2
    <3>2. HasName(c)' => HasName(c)
      BY <2>2, <3>1 DEF HasName
    <3>3. \A m \in due'[c] : m \in due[c] /\ (m = published /\ ToCome(c) => ToCome(c)')
      BY <1>1
    <3> QED
      BY <1>1, <3>1, <3>2, <3>3, SubSame
  <2> QED
    BY <2>1, <2>2
<1> QED
  BY <1>3, <1>4, <1>5, <1>6 DEF PsInv

LEMMA SubStartsKeeps ==
  ASSUME PsInv, NEW c \in Clients, SubStarts(c)
  PROVE  PsInv'
<1>t. /\ PsTypeOK /\ UnixTypeOK /\ NoName \notin Names /\ Clients \subseteq Names
  BY UnixAssumption DEF PsInv, PsTypeOK, Names
<1>1. /\ pc[c] = "down" /\ pc' = [pc EXCEPT ![c] = "idle"]
      /\ IF c \in Binders THEN Bind(c) ELSE UNCHANGED file
      /\ UNCHANGED <<queue, n, got, givenup, spc, job, executed, to, left, deaths>>
      /\ UNCHANGED <<clientaddrs, published, at, hers, heard, due>>
  BY DEF SubStarts, ClientStarts, serverVars, psVars, pubVars, subVars
<1>2. /\ file' \in [Names -> {"absent", "stale", "bound"}]
      /\ \A b \in Names : file[b] # "absent" \/ b # c => file'[b] = file[b]
  BY <1>t, <1>1 DEF Bind, UnixTypeOK
<1>p. /\ pc' \in [Clients -> {"down", "idle", "sendto", "recv"}]
      /\ pc'[c] = "idle" /\ \A d \in Clients \ {c} : pc'[d] = pc[d]
  BY <1>t, <1>1 DEF UnixTypeOK
<1>3. PsTypeOK'
  <2>1. \A b \in Names : Len(queue'[b]) <= QLen /\ (queue'[b] # <<>> => file'[b] = "bound")
    BY <1>t, <1>1, <1>2 DEF UnixTypeOK
  <2>2. UnixTypeOK'
    BY <1>t, <1>1, <1>2, <1>p, <2>1, HostTyped DEF PsInv, NoCalls, UnixTypeOK
  <2> QED
    BY <1>t, <1>1, <2>2 DEF PsTypeOK
<1>4. LeftStale'
  BY <1>t, <1>1, <1>2 DEF PsInv, LeftStale, UnixTypeOK
<1>5. NoCalls'
  BY <1>1, <1>p DEF PsInv, NoCalls
<1>6. Hers'
  BY <1>t, <1>1, <1>2 DEF PsInv, Hers, PsTypeOK
<1>7. ASSUME NEW d \in Clients PROVE Fresh(d)' /\ MissesNone(d)'
  <2>1. CASE d # c
    <3>1. HasName(d)' = HasName(d) /\ pc'[d] = pc[d]
      BY <1>t, <1>1, <1>2, <1>p, <2>1 DEF HasName
    <3>2. \A m \in due'[d] : m \in due[d] /\ (m = published /\ ToCome(d) => ToCome(d)')
      BY <1>1 DEF ToCome
    <3> QED
      BY <1>1, <3>1, <3>2, SubSame
  <2>2. CASE d = c
    <3>1. Fresh(c)'
      BY <1>p DEF Fresh
    <3>2. ~HasName(c) /\ heard[c] = <<>> /\ due[c] = {}
      BY <1>1 DEF PsInv, Fresh
    <3>3. ASSUME HasName(c)' PROVE Reached(c)' = <<>>
      <4>1. file[c] # "bound"
        BY <1>1, <3>2, <3>3 DEF HasName
      <4>2. queue[c] = <<>>
        BY <1>t, <4>1 DEF UnixTypeOK
      <4>3. Waiting(c)' = <<>>
        BY <1>1, <4>2 DEF Waiting
      <4> QED
        BY <1>1, <3>2, <4>3, NoNumbers DEF Reached
    <3>4. MissesNone(c)'
      <4> SUFFICES ASSUME HasName(c)'
                   PROVE  (/\ UpTo(Reached(c), published) /\ InOrder(Reached(c))
                           /\ \A m \in due[c] : Has(Reached(c), m) \/ (m = published /\ ToCome(c)))'
        BY DEF MissesNone
      <4>1. Reached(c)' = <<>> /\ due'[c] = {}
        BY <1>1, <3>2, <3>3
      <4>2. DOMAIN <<>> = {}
        OBVIOUS
      <4> QED
        BY <4>1, <4>2 DEF UpTo, InOrder, Has
    <3> QED
      BY <2>2, <3>1, <3>4
  <2> QED
    BY <2>1, <2>2
<1> QED
  BY <1>3, <1>4, <1>5, <1>6, <1>7 DEF PsInv

LEMMA SubWaitsKeeps ==
  ASSUME PsInv, NEW c \in Clients, SubOnce(c) \/ SubTimesOut(c)
  PROVE  PsInv'
<1>t. PsTypeOK /\ UnixTypeOK
  BY DEF PsInv, PsTypeOK
<1>1. /\ pc[c] # "down"
      /\ \/ pc' = [pc EXCEPT ![c] = "recv"]
         \/ pc' = [pc EXCEPT ![c] = "idle"]
      /\ UNCHANGED <<file, queue, n, got, givenup, spc, job, executed, to, left, deaths>>
      /\ UNCHANGED <<clientaddrs, published, at, hers, heard, due>>
  BY DEF SubOnce, SubTimesOut, serverVars, psVars, pubVars, subVars
<1>p. /\ pc' \in [Clients -> {"down", "idle", "sendto", "recv"}]
      /\ pc'[c] \in {"recv", "idle"} /\ \A d \in Clients \ {c} : pc'[d] = pc[d]
  BY <1>t, <1>1 DEF UnixTypeOK
<1>3. PsTypeOK'
  <2>1. UnixTypeOK'
    BY <1>t, <1>1, <1>p DEF UnixTypeOK
  <2> QED
    BY <1>t, <1>1, <2>1 DEF PsTypeOK
<1>4. LeftStale' /\ Hers'
  BY <1>1 DEF PsInv, LeftStale, Hers
<1>5. NoCalls'
  BY <1>1, <1>p DEF PsInv, NoCalls
<1>6. ASSUME NEW d \in Clients PROVE Fresh(d)' /\ MissesNone(d)'
  <2>1. HasName(d)' = HasName(d) /\ ToCome(d)' = ToCome(d)
    BY <1>1 DEF HasName, ToCome
  <2>2. pc'[d] = "down" => pc[d] = "down"
    BY <1>p
  <2> QED
    BY <1>1, <2>1, <2>2, SubSame
<1> QED
  BY <1>3, <1>4, <1>5, <1>6 DEF PsInv

LEMMA SubHearsKeeps ==
  ASSUME PsInv, NEW c \in Clients, SubHears(c)
  PROVE  PsInv'
<1> DEFINE h == Head(queue[c])
<1>t. PsTypeOK /\ UnixTypeOK /\ c \in Names /\ Clients \subseteq Names
  BY DEF PsInv, PsTypeOK, Names
<1>1. /\ pc[c] = "recv" /\ pc' = [pc EXCEPT ![c] = "idle"] /\ queue[c] # <<>>
      /\ queue' = [queue EXCEPT ![c] = Tail(@)]
      /\ heard' = [heard EXCEPT ![c] = Append(@, h.call[2])]
      /\ UNCHANGED <<file, n, got, givenup, spc, job, executed, to, left, deaths>>
      /\ UNCHANGED <<clientaddrs, published, at, hers, due>>
  BY DEF SubHears, serverVars, pubVars
<1>p. /\ pc' \in [Clients -> {"down", "idle", "sendto", "recv"}]
      /\ pc'[c] = "idle" /\ \A d \in Clients \ {c} : pc'[d] = pc[d]
  BY <1>t, <1>1 DEF UnixTypeOK
<1>q. queue[c] \in Seq(Messages) /\ heard[c] \in Seq(Nat)
  BY <1>t DEF PsTypeOK, UnixTypeOK
<1>2. /\ queue' \in [Names -> Seq(Messages)]
      /\ \A b \in Names : Len(queue'[b]) <= QLen /\ (queue'[b] # <<>> => file'[b] = "bound")
      /\ h \in Messages
  BY <1>t, <1>1, TakeKept
<1>h. h.call[2] \in Nat
  <2>1. h.call \in Calls
    BY <1>2 DEF Messages
  <2> QED
    BY <2>1 DEF Calls
<1> HIDE DEF h
<1>e. /\ queue'[c] = Tail(queue[c]) /\ heard'[c] = Append(heard[c], h.call[2])
      /\ \A b \in Names \ {c} : queue'[b] = queue[b]
      /\ \A d \in Clients \ {c} : heard'[d] = heard[d]
  BY <1>t, <1>1 DEF PsTypeOK, UnixTypeOK
<1>3. PsTypeOK'
  <2>1. UnixTypeOK'
    BY <1>t, <1>1, <1>2, <1>p DEF UnixTypeOK
  <2>2. heard' \in [Clients -> Seq(Nat)]
    <3>1. Append(heard[c], h.call[2]) \in Seq(Nat)
      BY <1>q, <1>h, AppendProperties
    <3> QED
      BY <1>t, <1>1, <3>1 DEF PsTypeOK
  <2> QED
    BY <1>t, <1>1, <2>1, <2>2 DEF PsTypeOK
<1>4. LeftStale' /\ Hers'
  BY <1>1 DEF PsInv, LeftStale, Hers
<1>5. NoCalls'
  <2>1. ASSUME NEW b \in Names, NEW i \in DOMAIN queue'[b]
        PROVE  queue'[b][i].call[1] = Server /\ queue'[b][i].call[2] <= published
    <3>1. \A j \in DOMAIN queue[b] : queue[b][j].call[1] = Server /\ queue[b][j].call[2] <= published
      BY DEF PsInv, NoCalls
    <3>2. CASE b = c
      <4>1. \A l \in DOMAIN Tail(queue[c]) :
              \E j \in DOMAIN queue[c] : Tail(queue[c])[l] = queue[c][j]
        BY <1>1, <1>q, TailNoMore
      <4>2. queue'[b] = Tail(queue[c])
        BY <1>e, <3>2
      <4>3. PICK j \in DOMAIN queue[c] : queue'[b][i] = queue[c][j]
        BY <2>1, <4>1, <4>2
      <4> QED
        BY <3>1, <3>2, <4>3
    <3>3. CASE b # c
      BY <1>e, <2>1, <3>1, <3>3
    <3> QED
      BY <3>2, <3>3
  <2> QED
    BY <1>1, <1>p, <2>1 DEF PsInv, NoCalls
<1>6. ASSUME NEW d \in Clients PROVE Fresh(d)' /\ MissesNone(d)'
  <2>1. HasName(d)' = HasName(d) /\ ToCome(d)' = ToCome(d)
    BY <1>1 DEF HasName, ToCome
  <2>2. CASE d # c
    <3>1. queue'[d] = queue[d] /\ heard'[d] = heard[d] /\ pc'[d] = pc[d]
      BY <1>t, <1>e, <1>p, <2>2
    <3> QED
      BY <1>1, <2>1, <3>1, SubSame
  <2>3. CASE d = c
    <3>1. Reached(c)' = Reached(c)
      <4>1. Append(heard[c], h.call[2]) \o Told(Tail(queue[c])) = heard[c] \o Told(queue[c])
        BY <1>1, <1>q, ToldTaken DEF h
      <4>2. Reached(c)' = heard'[c] \o Told(queue'[c]) /\ Reached(c) = heard[c] \o Told(queue[c])
        BY DEF Reached, Waiting, Told
      <4> QED
        BY <1>e, <4>1, <4>2
    <3>2. Fresh(c)'
      BY <1>p DEF Fresh
    <3>3. MissesNone(c)
      BY DEF PsInv
    <3>4. ASSUME HasName(c)'
          PROVE  /\ UpTo(Reached(c)', published') /\ InOrder(Reached(c)')
                 /\ \A m \in due'[c] : Has(Reached(c)', m) \/ (m = published' /\ ToCome(c)')
      BY <1>1, <2>1, <2>3, <3>1, <3>3, <3>4 DEF MissesNone
    <3>5. MissesNone(c)'
      BY <3>4 DEF MissesNone, UpTo, InOrder, Has
    <3> QED
      BY <2>3, <3>2, <3>5
  <2> QED
    BY <2>2, <2>3
<1> QED
  BY <1>3, <1>4, <1>5, <1>6 DEF PsInv

LEMMA SubDiesKeeps ==
  ASSUME PsInv, NEW c \in Clients, SubDies(c)
  PROVE  PsInv'
<1> DEFINE a == IF HasName(c) THEN c ELSE NoName
<1>t. /\ PsTypeOK /\ UnixTypeOK /\ c \in Names /\ NoName \notin Names /\ Clients \subseteq Names
      /\ spc \in {"down", "ready"}
  BY UnixAssumption DEF PsInv, PsTypeOK, NoCalls, Names
<1>1. /\ pc[c] # "down" /\ pc' = [pc EXCEPT ![c] = "down"]
      /\ heard' = [heard EXCEPT ![c] = <<>>]
      /\ due' = [due EXCEPT ![c] = {}]
      /\ UNCHANGED <<n, got, givenup, spc, job, executed, to>>
      /\ UNCHANGED <<clientaddrs, published, at, hers>>
  BY DEF SubDies, serverVars, pubVars
<1>2. /\ a \in Names \cup {NoName}
      /\ a # NoName => SocketGone(a)
      /\ a = NoName => deaths < MaxDeaths /\ deaths' = deaths + 1 /\ UNCHANGED <<file, queue, left>>
  BY <1>t DEF SubDies
<1>p. /\ pc' \in [Clients -> {"down", "idle", "sendto", "recv"}]
      /\ pc'[c] = "down" /\ \A d \in Clients \ {c} : pc'[d] = pc[d]
  BY <1>t, <1>1 DEF UnixTypeOK
<1>a. (HasName(c) => a = c) /\ (~HasName(c) => a = NoName)
  OBVIOUS
<1> HIDE DEF a
<1>3. /\ UnixTypeOK' /\ LeftStale' /\ NoCalls'
      /\ \A b \in Names \ {a} : file'[b] = file[b] /\ queue'[b] = queue[b]
      /\ a # NoName => file'[a] # "bound" /\ queue'[a] = <<>>
  <2>1. \A d \in Clients : pc'[d] # "sendto"
    BY <1>p DEF PsInv, NoCalls
  <2> QED
    BY <1>t, <1>1, <1>2, <1>p, <2>1, EndKeeps
<1>4. PsTypeOK'
  <2>1. <<>> \in Seq(Nat) /\ {} \in SUBSET Nat
    OBVIOUS
  <2> QED
    BY <1>t, <1>1, <1>3, <2>1 DEF PsTypeOK
<1>5. Hers'
  <2>1. hers # NoName => hers # a
    BY <1>t, <1>a DEF HasName
  <2> QED
    BY <1>t, <1>1, <1>3, <2>1 DEF PsInv, Hers, PsTypeOK
<1>6. ASSUME NEW d \in Clients PROVE Fresh(d)' /\ MissesNone(d)'
  <2>1. CASE d # c
    <3>1. d # a
      BY <1>t, <1>a, <2>1
    <3>2. queue'[d] = queue[d] /\ file'[d] = file[d]
      BY <1>t, <1>3, <3>1
    <3>3. /\ heard'[d] = heard[d] /\ due'[d] = due[d] /\ pc'[d] = pc[d]
          /\ HasName(d)' = HasName(d) /\ ToCome(d)' = ToCome(d)
      BY <1>t, <1>1, <1>p, <2>1, <3>2 DEF PsTypeOK, HasName, ToCome
    <3> QED
      BY <1>1, <3>2, <3>3, SubSame
  <2>2. CASE d = c
    <3>1. ~HasName(c)'
      <4>1. CASE HasName(c)
        <5>1. a = c /\ a # NoName
          BY <1>t, <1>a, <4>1
        <5>2. file'[c] # "bound"
          BY <1>3, <5>1
        <5> QED
          BY <5>2 DEF HasName
      <4>2. CASE ~HasName(c)
        <5>1. c # a
          BY <1>t, <1>a, <4>2
        <5>2. file'[c] = file[c]
          BY <1>t, <1>3, <5>1
        <5> QED
          BY <1>1, <4>2, <5>2 DEF HasName
      <4> QED
        BY <4>1, <4>2
    <3>2. heard'[c] = <<>> /\ due'[c] = {}
      BY <1>t, <1>1 DEF PsTypeOK
    <3> QED
      BY <2>2, <3>1, <3>2 DEF Fresh, MissesNone
  <2> QED
    BY <2>1, <2>2
<1> QED
  BY <1>3, <1>4, <1>5, <1>6 DEF PsInv

LEMMA UserRemovesKeeps ==
  ASSUME PsInv, NEW a \in Names, UserRemoves(a), UNCHANGED psVars
  PROVE  PsInv'
<1>t. PsTypeOK /\ UnixTypeOK /\ Clients \subseteq Names
  BY DEF PsInv, PsTypeOK, Names
<1>1. /\ file[a] = "stale" /\ file' = [file EXCEPT ![a] = "absent"] /\ left' = left \ {a}
      /\ UNCHANGED <<queue, pc, n, got, givenup, spc, job, executed, to, deaths>>
      /\ UNCHANGED <<clientaddrs, published, at, hers, heard, due>>
  BY DEF UserRemoves, clientVars, serverVars, psVars, pubVars, subVars
<1>2. /\ file' \in [Names -> {"absent", "stale", "bound"}]
      /\ file'[a] = "absent" /\ \A b \in Names \ {a} : file'[b] = file[b]
  BY <1>t, <1>1 DEF UnixTypeOK
<1>3. PsTypeOK'
  <2>1. UnixTypeOK'
    BY <1>t, <1>1, <1>2 DEF UnixTypeOK
  <2> QED
    BY <1>t, <1>1, <2>1 DEF PsTypeOK
<1>4. LeftStale'
  BY <1>t, <1>1, <1>2 DEF PsInv, LeftStale, UnixTypeOK
<1>5. NoCalls' /\ Hers'
  <2>1. hers # NoName => file'[hers] = "bound"
    BY <1>t, <1>1, <1>2 DEF PsInv, Hers, PsTypeOK
  <2> QED
    BY <1>1, <2>1 DEF PsInv, NoCalls, Hers
<1>6. ASSUME NEW d \in Clients PROVE Fresh(d)' /\ MissesNone(d)'
  <2>1. HasName(d)' = HasName(d) /\ ToCome(d)' = ToCome(d)
    BY <1>t, <1>1, <1>2 DEF HasName, ToCome
  <2> QED
    BY <1>1, <2>1, SubSame
<1> QED
  BY <1>3, <1>4, <1>5, <1>6 DEF PsInv

-----------------------------------------------------------------------------
(***************************************************************************)
(* Either pattern.                                                         *)
(***************************************************************************)
LEMMA InitUnix == UnixInit => UnixInv
<1> SUFFICES ASSUME UnixInit PROVE UnixInv
  OBVIOUS
<1>1. CASE pattern = "rr"
  BY <1>1, InitCalls DEF UnixInit, UnixInv, Unused
<1>2. CASE pattern = "ps"
  <2>1. UnixTypeOK
    BY InitInv DEF UnixInit, Inv
  <2>2. <<>> \in Seq(Names) /\ <<>> \in Seq(Nat) /\ DOMAIN <<>> = {}
    OBVIOUS
  <2>3. PsTypeOK
    BY <2>1, <2>2 DEF UnixInit, PsTypeOK
  <2>4. LeftStale /\ Hers
    BY DEF UnixInit, Init, LeftStale, Hers
  <2>5. NoCalls
    BY <2>2 DEF UnixInit, Init, NoCalls
  <2>6. ASSUME NEW c \in Clients PROVE Fresh(c) /\ MissesNone(c)
    <3>1. ~HasName(c) /\ heard[c] = <<>> /\ due[c] = {}
      BY ServerIsName DEF UnixInit, Init, HasName
    <3> QED
      BY <3>1 DEF Fresh, MissesNone
  <2> QED
    BY <1>2, <2>3, <2>4, <2>5, <2>6 DEF UnixInv, PsInv
<1> QED
  BY <1>1, <1>2 DEF UnixInit

LEMMA NextUnix == UnixInv /\ [UnixNext]_unixVars => UnixInv'
<1> SUFFICES ASSUME UnixInv, [UnixNext]_unixVars PROVE UnixInv'
  OBVIOUS
<1>1. CASE PubSubNext
  <2>1. pattern = "ps" /\ pattern' = "ps" /\ PsInv
    BY <1>1 DEF PubSubNext, UnixInv
  <2>2. PsInv'
    BY <1>1, <2>1, PubStartsKeeps, RegisterKeeps, PublishKeeps, PublishReturnsKeeps,
       PublishToKeeps, PubDiesKeeps, SubStartsKeeps, SubWaitsKeeps, SubHearsKeeps,
       SubDiesKeeps, UserRemovesKeeps
       DEF PubSubNext, Pub, PubLoop, Sub, SubLoop
  <2> QED
    BY <2>1, <2>2 DEF UnixInv
<1>2. CASE CallsNext
  <2>1. pattern = "rr" /\ pattern' = "rr" /\ CallsInv /\ Unused
    BY <1>2 DEF CallsNext, UnixInv
  <2>2. CallsInv'
    BY <1>2, <2>1, NextCalls DEF CallsNext
  <2>3. Unused'
    BY <1>2, <2>1 DEF CallsNext, Unused, psVars, pubVars, subVars
  <2> QED
    BY <2>1, <2>2, <2>3 DEF UnixInv
<1>3. CASE UNCHANGED unixVars
  <2>1. UNCHANGED vars /\ pattern' = pattern /\ UNCHANGED <<clientaddrs, published, at, hers, heard, due>>
    BY <1>3 DEF unixVars, psVars, pubVars, subVars
  <2>2. CASE pattern = "rr"
    <3>1. CallsInv'
      BY <2>1, <2>2, NextCalls DEF UnixInv
    <3> QED
      BY <2>1, <2>2, <3>1 DEF UnixInv, Unused
  <2>3. CASE pattern = "ps"
    <3>1. UNCHANGED <<file, queue, pc, n, got, givenup, spc, job, executed, to, left, deaths>>
      BY <2>1 DEF vars, clientVars, serverVars
    <3>2. PsInv
      BY <2>3 DEF UnixInv
    <3>3. PsTypeOK'
      BY <2>1, <3>1, <3>2 DEF PsInv, PsTypeOK, UnixTypeOK
    <3>4. LeftStale' /\ NoCalls' /\ Hers'
      BY <2>1, <3>1, <3>2 DEF PsInv, LeftStale, NoCalls, Hers
    <3>5. ASSUME NEW d \in Clients PROVE Fresh(d)' /\ MissesNone(d)'
      <4>1. HasName(d)' = HasName(d) /\ ToCome(d)' = ToCome(d)
        BY <2>1, <3>1 DEF HasName, ToCome
      <4> QED
        BY <2>1, <3>1, <3>2, <4>1, SubSame
    <3>6. PsInv'
      BY <3>3, <3>4, <3>5 DEF PsInv
    <3> QED
      BY <2>1, <2>3, <3>6 DEF UnixInv
  <2> QED
    BY <2>2, <2>3 DEF UnixInv
<1> QED
  BY <1>1, <1>2, <1>3 DEF UnixNext

\* What the invariant says under Publisher and Subscriber, and of a queue of
\* answers, which rise.
LEMMA UnixShows == UnixInv => UnixTypeOK /\ InStep /\ Backlogged /\ NothingMissed
<1> SUFFICES ASSUME UnixInv PROVE UnixTypeOK /\ InStep /\ Backlogged /\ NothingMissed
  OBVIOUS
<1>1. CASE pattern = "rr"
  <2>1. CallsInv /\ Unused /\ UnixTypeOK /\ InStep /\ Backlogged
    BY <1>1, CallsShow DEF UnixInv, CallsInv, Inv
  <2>2. ASSUME NEW c \in Clients
        PROVE  /\ \A k \in DOMAIN Reached(c) : k > 1 => Reached(c)[k - 1] <= Reached(c)[k]
               /\ due[c] = {}
    <3>1. queue[c] \in Seq(Messages)
      BY <2>1, ServerIsName DEF UnixTypeOK
    <3>2. heard[c] = <<>> /\ due[c] = {}
      BY <2>1 DEF Unused
    <3>3. Told(queue[c]) \in Seq(Nat) /\ DOMAIN Told(queue[c]) = DOMAIN queue[c]
      BY <3>1, ToldIsSeq DEF Told
    <3>4. Reached(c) = Told(queue[c])
      <4>1. <<>> \o Told(queue[c]) = Told(queue[c])
        BY <3>3, ConcatEmptySeq
      <4> QED
        BY <3>2, <4>1 DEF Reached, Waiting, Told
    <3>5. ASSUME NEW k \in DOMAIN queue[c], k > 1
          PROVE  Told(queue[c])[k - 1] <= Told(queue[c])[k]
      <4>1. k - 1 \in DOMAIN queue[c] /\ k - 1 < k
        BY <3>1, <3>5
      <4>2. queue[c][k - 1].call[1] = c /\ queue[c][k].call[1] = c
        BY <2>1, <4>1 DEF CallsInv, Answers
      <4>3. queue[c][k - 1].call[2] < queue[c][k].call[2]
        BY <2>1, <4>1, <4>2 DEF CallsInv, ClientOK, InLine, Rising
      <4>4. Told(queue[c])[k - 1] < Told(queue[c])[k]
        BY <4>1, <4>3 DEF Told
      <4>5. Told(queue[c])[k - 1] \in Nat /\ Told(queue[c])[k] \in Nat
        BY <3>3, <4>1, ElementIn
      <4> QED
        BY <4>4, <4>5
    <3> QED
      BY <3>2, <3>3, <3>4, <3>5
  <2>3. NothingMissed
    BY <2>2 DEF NothingMissed
  <2> QED
    BY <2>1, <2>3
<1>2. CASE pattern = "ps"
  <2>1. PsInv /\ UnixTypeOK
    BY <1>2 DEF UnixInv, PsInv, PsTypeOK
  <2>2. NothingMissed
    BY <2>1 DEF PsInv, MissesNone, InOrder, Has, NothingMissed
  <2>3. InStep
    <3>1. DOMAIN <<>> = {}
      OBVIOUS
    <3> QED
      BY <2>1, <3>1 DEF PsInv, NoCalls, InStep
  <2>4. Backlogged
    <3> SUFFICES ASSUME NEW c \in Clients PROVE Backlog(c) <= Allowed(c)
      BY DEF Backlogged, Allowed
    <3>1. Positions(queue[Server], c) = {} /\ Positions(queue[c], c) = {}
      BY <2>1, ServerIsName, UnixAssumption DEF PsInv, NoCalls, Positions
    <3>2. ~InOnce(c)
      BY <2>1 DEF PsInv, NoCalls, InOnce
    <3>3. Cardinality({}) = 0
      BY FS_EmptySet
    <3>4. Backlog(c) = 0 + 0 + 0 /\ Allowed(c) \in Nat
      BY <2>1, <3>1, <3>2, <3>3, BacklogCounts
    <3> QED
      BY <3>4
  <2> QED
    BY <2>1, <2>2, <2>3, <2>4
<1> QED
  BY <1>1, <1>2 DEF UnixInv

\* The invariant under either pattern.
THEOREM UnixInvAlways == UnixSpec => []UnixInv
BY InitUnix, NextUnix, PTL DEF UnixSpec

\* The type invariant of UnixCalls, under either pattern.
THEOREM UnixTyping == UnixSpec => []UnixTypeOK
BY UnixInvAlways, UnixShows, PTL

\* A call over Unix sockets returns an answer to the same client, later than the
\* one before, and at most as many calls late as the client has given up.
THEOREM UnixInStep == UnixSpec => []InStep
BY UnixInvAlways, UnixShows, PTL

\* What waits for a client or because of it is no more than the calls it has not
\* seen the end of, so the server gets stuck only behind one that has given up
\* as many calls as its queue holds messages.
THEOREM UnixBacklogged == UnixSpec => []Backlogged
BY UnixInvAlways, UnixShows, PTL

\* A subscriber that has its name hears, or has waiting, what is published to it
\* in the order of publication with nothing missing, whatever queues are full and
\* however often the publisher ends and starts again.
THEOREM UnixNothingMissed == UnixSpec => []NothingMissed
BY UnixInvAlways, UnixShows, PTL

\* A server that has left its file behind executes nothing until somebody has
\* removed the file, under either pattern.
THEOREM UnixDeaf == UnixSpec => DeafAfterDeath
<1>1. UnixInv /\ [UnixNext]_unixVars => [executed' # executed => Server \notin left]_vars
  <2> SUFFICES ASSUME UnixInv, [UnixNext]_unixVars, executed' # executed
               PROVE  Server \notin left
    OBVIOUS
  <2>1. CASE pattern = "rr"
    <3>1. Inv /\ [Next]_vars
      <4>1. Inv
        BY <2>1 DEF UnixInv, CallsInv
      <4>2. [Next]_vars
        BY <2>1 DEF UnixNext, PubSubNext, CallsNext, unixVars
      <4> QED
        BY <4>1, <4>2
    <3> QED
      BY <3>1, ExecutesNamed
  <2>2. CASE pattern = "ps"
    <3>1. PsInv' /\ PsInv
      BY <2>2, NextUnix DEF UnixInv, UnixNext, PubSubNext, CallsNext, unixVars
    <3> QED
      BY <3>1 DEF PsInv, NoCalls
  <2> QED
    BY <2>1, <2>2 DEF UnixInv
<1> QED
  BY <1>1, UnixInvAlways, PTL DEF UnixSpec, DeafAfterDeath

-----------------------------------------------------------------------------
(***************************************************************************)
(* UnixCalls implements LateRpc.  What the implementation needs beside the *)
(* order of the calls: that an answer was returned by a call that is over, *)
(* and that the callback has run on no call that the server has still to   *)
(* receive or that was not sent.                                           *)
(***************************************************************************)
ReturnedAt == \A c \in Clients : \A i \in DOMAIN got[c] : got[c][i].at <= n[c] - Runs(c)

Sent(x) ==
  x[1] \in Clients /\ x[2] <= n[x[1]] /\ (pc[x[1]] = "sendto" => x[2] < n[x[1]])

NotYetExecuted ==
  /\ \A i \in DOMAIN queue[Server] : queue[Server][i].call \notin executed
  /\ AtMostOnce
  /\ \A x \in executed : Sent(x)

LateInv == CallsInv /\ ReturnedAt /\ NotYetExecuted

\* What a client's answers and counters are, and how many of its calls are over.
LEMMA CallsOver ==
  ASSUME CallsInv, NEW c \in Clients
  PROVE  /\ got[c] \in Seq([at : Nat, answer : Calls]) /\ got \in [Clients -> Seq([at : Nat, answer : Calls])]
         /\ n[c] \in Nat /\ Runs(c) \in {0, 1} /\ n[c] - Runs(c) \in Nat
<1>1. UnixTypeOK /\ ClientOK(c)
  BY DEF CallsInv, Inv
<1>2. /\ got \in [Clients -> Seq([at : Nat, answer : Calls])]
      /\ got[c] \in Seq([at : Nat, answer : Calls])
  BY <1>1 DEF UnixTypeOK
<1>3. n[c] \in Nat /\ Len(got[c]) \in Nat /\ givenup[c] \in Nat
  BY <1>1, LineIsNat
<1>4. Runs(c) \in {0, 1}
  BY DEF Runs
<1>5. n[c] = Len(got[c]) + givenup[c] + Runs(c)
  BY <1>1 DEF ClientOK
<1>6. n[c] - Runs(c) \in Nat
  BY <1>3, <1>4, <1>5
<1> QED
  BY <1>2, <1>3, <1>4, <1>6

\* A step that returns no answer, and executes and queues for the server nothing
\* new; a client whose call begins or is sent is treated apart.
LEMMA QuietLate ==
  ASSUME LateInv, n' = n, got' = got, executed' = executed,
         \A d \in Clients : /\ Runs(d)' = Runs(d) \/ Runs(d)' = 0
                            /\ pc'[d] = "sendto" => pc[d] = "sendto",
         \A i \in DOMAIN queue'[Server] :
           queue'[Server][i].call \notin executed,
         spc' = "call" => job'.call \notin executed
  PROVE  ReturnedAt' /\ NotYetExecuted'
<1>1. ReturnedAt'
  <2> SUFFICES ASSUME NEW c \in Clients, NEW i \in DOMAIN got[c]
               PROVE  got[c][i].at <= n[c] - Runs(c)'
    BY DEF ReturnedAt
  <2>1. /\ got[c][i].at <= n[c] - Runs(c)
        /\ got[c] \in Seq([at : Nat, answer : Calls])
        /\ n[c] \in Nat /\ Runs(c) \in {0, 1}
    BY CallsOver DEF LateInv, ReturnedAt
  <2>2. got[c][i] \in [at : Nat, answer : Calls]
    BY <2>1, ElementIn
  <2>3. got[c][i].at \in Nat
    BY <2>2
  <2>4. Runs(c)' = Runs(c) \/ Runs(c)' = 0
    OBVIOUS
  <2> QED
    BY <2>1, <2>3, <2>4
<1>2. NotYetExecuted'
  BY DEF LateInv, NotYetExecuted, AtMostOnce, Sent
<1> QED
  BY <1>1, <1>2

LEMMA InitLate == Init => ReturnedAt /\ NotYetExecuted
<1> SUFFICES ASSUME Init PROVE ReturnedAt /\ NotYetExecuted
  OBVIOUS
<1>1. DOMAIN <<>> = {}
  OBVIOUS
<1> QED
  BY <1>1, ServerIsName DEF Init, ReturnedAt, NotYetExecuted, AtMostOnce

LEMMA NextLate == LateInv /\ CallsInv' /\ [Next]_vars => ReturnedAt' /\ NotYetExecuted'
<1> SUFFICES ASSUME LateInv, CallsInv', [Next]_vars PROVE ReturnedAt' /\ NotYetExecuted'
  OBVIOUS
<1> USE ServerIsName
<1>t. UnixTypeOK /\ UnixTypeOK' /\ CallsInv /\ ReturnedAt /\ NotYetExecuted /\ Server \notin Clients
  BY UnixAssumption DEF LateInv, CallsInv, Inv
<1>q. queue \in [Names -> Seq(Messages)] /\ queue[Server] \in Seq(Messages)
      /\ pc \in [Clients -> {"down", "idle", "sendto", "recv"}] /\ n \in [Clients -> Nat]
  BY <1>t, UnixAssumption DEF UnixTypeOK
<1>s. /\ \A i \in DOMAIN queue[Server] : queue[Server][i].call \notin executed
      /\ spc = "call" => job.call \notin executed
      /\ \A x \in executed : Sent(x)
  BY <1>t DEF NotYetExecuted, AtMostOnce
<1>1. ASSUME NEW c \in Clients, ClientStarts(c)
      PROVE  ReturnedAt' /\ NotYetExecuted'
  <2>1. /\ pc[c] = "down" /\ pc' = [pc EXCEPT ![c] = "idle"]
        /\ UNCHANGED <<queue, n, got, spc, job, executed>>
    BY <1>1 DEF ClientStarts, serverVars
  <2>2. \A d \in Clients : Runs(d)' = Runs(d) /\ (pc'[d] = "sendto" => pc[d] = "sendto")
    BY <1>q, <2>1 DEF Runs
  <2> QED
    BY <1>s, <2>1, <2>2, QuietLate
<1>2. ASSUME NEW c \in Clients, Request(c)
      PROVE  ReturnedAt' /\ NotYetExecuted'
  <2>1. /\ pc[c] = "idle" /\ pc' = [pc EXCEPT ![c] = "sendto"] /\ n' = [n EXCEPT ![c] = @ + 1]
        /\ UNCHANGED <<queue, got, spc, job, executed>>
    BY <1>2 DEF Request, serverVars
  <2>2. ASSUME NEW d \in Clients
        PROVE  /\ n'[d] - Runs(d)' = n[d] - Runs(d)
               /\ n[d] <= n'[d] /\ (pc'[d] = "sendto" => pc[d] = "sendto" \/ n'[d] = n[d] + 1)
    BY <1>q, <2>1 DEF Runs
  <2>3. ReturnedAt'
    BY <1>t, <2>1, <2>2 DEF ReturnedAt
  <2>4. ASSUME NEW x \in executed PROVE Sent(x)'
    <3>1. Sent(x) /\ x \in Calls
      BY <1>s, <1>t DEF UnixTypeOK
    <3>2. x[1] \in Clients /\ x[2] \in Nat /\ x[2] <= n[x[1]]
      BY <3>1 DEF Sent, Calls
    <3> QED
      BY <1>q, <2>1, <2>2, <3>1, <3>2 DEF Sent
  <2> QED
    BY <1>s, <2>1, <2>3, <2>4 DEF NotYetExecuted, AtMostOnce
<1>3. ASSUME NEW c \in Clients, RequestSent(c)
      PROVE  ReturnedAt' /\ NotYetExecuted'
  <2> DEFINE m == [from |-> NameOf(c), call |-> <<c, n[c]>>]
  <2>1. /\ pc[c] = "sendto" /\ pc' = [pc EXCEPT ![c] = "recv"] /\ Sendto(Server, m)
        /\ UNCHANGED <<n, got, spc, job, executed>>
    BY <1>3 DEF RequestSent, serverVars
  <2>2. \A d \in Clients : Runs(d)' = Runs(d) /\ (pc'[d] = "sendto" => pc[d] = "sendto")
    BY <1>q, <2>1 DEF Runs
  <2>3. m.call \notin executed
    <3>1. ~Sent(<<c, n[c]>>)
      BY <1>q, <2>1 DEF Sent
    <3> QED
      BY <1>s, <3>1
  <2>4. \A i \in DOMAIN queue'[Server] : queue'[Server][i].call \notin executed
    <3>1. CASE queue' = queue
      BY <1>s, <3>1
    <3>2. CASE queue' = [queue EXCEPT ![Server] = Append(@, m)]
      <4>1. queue'[Server] = Append(queue[Server], m)
        BY <1>q, <3>2
      <4> HIDE DEF m
      <4>2. \A i \in DOMAIN Append(queue[Server], m) :
              \/ Append(queue[Server], m)[i] = m
              \/ i \in DOMAIN queue[Server] /\ Append(queue[Server], m)[i] = queue[Server][i]
        BY <1>q
      <4> QED
        BY <1>s, <2>3, <4>1, <4>2
    <3> QED
      BY <2>1, <3>1, <3>2 DEF Sendto
  <2> QED
    BY <1>s, <2>1, <2>2, <2>4, QuietLate
<1>4. ASSUME NEW c \in Clients, RequestReturns(c)
      PROVE  ReturnedAt' /\ NotYetExecuted'
  <2> DEFINE g == [at |-> n[c], answer |-> Head(queue[c]).call]
  <2>1. /\ pc[c] = "recv" /\ pc' = [pc EXCEPT ![c] = "idle"]
        /\ got' = [got EXCEPT ![c] = Append(got[c], g)]
        /\ queue' = [queue EXCEPT ![c] = Tail(@)]
        /\ UNCHANGED <<n, spc, job, executed>>
    BY <1>4 DEF RequestReturns, serverVars
  <2>2. queue'[Server] = queue[Server]
    BY <1>q, <1>t, <2>1
  <2>3. \A d \in Clients : (pc'[d] = "sendto" => pc[d] = "sendto")
    BY <1>q, <2>1
  <2>4. NotYetExecuted'
    <3>1. n' = n /\ spc' = spc /\ job' = job /\ executed' = executed
      BY <2>1
    <3>2. \A x \in executed : Sent(x)'
      BY ONLY <1>s, <2>3, <3>1 DEF Sent
    <3> QED
      BY ONLY <1>s, <2>2, <3>1, <3>2 DEF NotYetExecuted, AtMostOnce
  <2>5. ASSUME NEW d \in Clients, NEW i \in DOMAIN got'[d]
        PROVE  got'[d][i].at <= n[d] - Runs(d)'
    <3>1. /\ got[c] \in Seq([at : Nat, answer : Calls])
          /\ got \in [Clients -> Seq([at : Nat, answer : Calls])]
          /\ n[c] \in Nat /\ n[d] \in Nat
      BY <1>t, CallsOver
    <3>2. CASE d # c
      <4>1. got'[d] = got[d] /\ Runs(d)' = Runs(d)
        BY <1>q, <2>1, <3>1, <3>2 DEF Runs
      <4> QED
        BY <1>t, <4>1 DEF ReturnedAt
    <3>3. CASE d = c
      <4>1. got'[c] = Append(got[c], g) /\ Runs(c)' = 0 /\ Runs(c) = 1
        BY <1>q, <2>1, <3>1 DEF Runs
      <4>2. g.at = n[c]
        OBVIOUS
      <4> HIDE DEF g
      <4>3. CASE i \in DOMAIN got[c] /\ got'[c][i] = got[c][i]
        <5>1. got[c][i].at <= n[c] - 1
          BY <1>t, <4>1, <4>3 DEF ReturnedAt
        <5>2. got[c][i] \in [at : Nat, answer : Calls]
          BY <3>1, <4>3, ElementIn
        <5>3. got[c][i].at \in Nat
          BY <5>2
        <5> QED
          BY <3>1, <3>3, <4>1, <4>3, <5>1, <5>3
      <4>4. CASE got'[c][i] = g
        BY <3>1, <3>3, <4>1, <4>2, <4>4
      <4> QED
        BY <3>1, <3>3, <4>1, <4>3, <4>4
    <3> QED
      BY <3>2, <3>3
  <2>6. ReturnedAt'
    BY <2>1, <2>5 DEF ReturnedAt
  <2> QED
    BY <2>4, <2>6
<1>5. ASSUME NEW c \in Clients, RequestTimesOut(c)
      PROVE  ReturnedAt' /\ NotYetExecuted'
  <2>1. /\ pc[c] = "recv" /\ pc' = [pc EXCEPT ![c] = "idle"]
        /\ UNCHANGED <<queue, n, got, spc, job, executed>>
    BY <1>5 DEF RequestTimesOut, serverVars
  <2>2. \A d \in Clients : /\ Runs(d)' = Runs(d) \/ Runs(d)' = 0
                           /\ pc'[d] = "sendto" => pc[d] = "sendto"
    BY <1>q, <2>1 DEF Runs
  <2> QED
    BY <1>s, <2>1, <2>2, QuietLate
<1>6. ASSUME NEW c \in Clients, ClientDies(c)
      PROVE  ReturnedAt' /\ NotYetExecuted'
  <2>1. /\ pc' = [pc EXCEPT ![c] = "down"] /\ SocketGone(c)
        /\ UNCHANGED <<n, got, spc, job, executed>>
    BY <1>6 DEF ClientDies, serverVars
  <2>2. queue'[Server] = queue[Server]
    BY <1>q, <1>t, <2>1 DEF SocketGone
  <2>3. \A d \in Clients : /\ Runs(d)' = Runs(d) \/ Runs(d)' = 0
                           /\ pc'[d] = "sendto" => pc[d] = "sendto"
    BY <1>q, <2>1 DEF Runs
  <2> QED
    BY <1>s, <2>1, <2>2, <2>3, QuietLate
<1>7. CASE ServerStarts
  <2>1. /\ spc' = "ready" /\ UNCHANGED <<queue, pc, n, got, executed>>
    BY <1>7 DEF ServerStarts, clientVars
  <2>2. \A d \in Clients : Runs(d)' = Runs(d) /\ (pc'[d] = "sendto" => pc[d] = "sendto")
    BY <2>1 DEF Runs
  <2> QED
    BY <1>s, <2>1, <2>2, QuietLate
<1>8. CASE OnceReceives
  <2>1. /\ queue[Server] # <<>> /\ queue'[Server] = Tail(queue[Server])
        /\ job' = Head(queue[Server]) /\ UNCHANGED <<pc, n, got, executed>>
    BY <1>8, <1>q DEF OnceReceives, clientVars
  <2>2. \A d \in Clients : Runs(d)' = Runs(d) /\ (pc'[d] = "sendto" => pc[d] = "sendto")
    BY <2>1 DEF Runs
  <2>3. /\ \E j \in DOMAIN queue[Server] : Head(queue[Server]) = queue[Server][j]
        /\ \A i \in DOMAIN Tail(queue[Server]) :
             \E j \in DOMAIN queue[Server] : Tail(queue[Server])[i] = queue[Server][j]
    BY <1>q, <2>1, TailNoMore
  <2>4. job'.call \notin executed
    BY <1>s, <2>1, <2>3
  <2>5. \A i \in DOMAIN queue'[Server] : queue'[Server][i].call \notin executed
    BY <1>s, <2>1, <2>3
  <2> QED
    BY <2>1, <2>2, <2>4, <2>5, QuietLate
<1>9. CASE OnceCalls
  <2> DEFINE x == job.call
             c == x[1]
  <2>1. /\ spc = "call" /\ spc' = "send" /\ executed' = executed \cup {x}
        /\ UNCHANGED <<queue, pc, n, got, job>>
    BY <1>9 DEF OnceCalls, clientVars
  <2>2. c \in Clients /\ InOnce(c) /\ ClientOK(c)
    BY <1>t, <2>1 DEF CallsInv, FromClients, OfClient, InOnce
  <2>3. x[2] \in InHand(c)
    BY <2>2 DEF InHand
  <2>4. Sent(x)
    BY <2>2, <2>3 DEF ClientOK, InLine, Sent
  <2>5. \A i \in DOMAIN queue[Server] : queue[Server][i].call # x
    <3> SUFFICES ASSUME NEW i \in DOMAIN queue[Server], queue[Server][i].call = x
                 PROVE  FALSE
      OBVIOUS
    <3>1. x[2] \in AtServer(c)
      BY DEF AtServer, Numbers
    <3>2. x[2] < x[2]
      BY <2>2, <2>3, <3>1 DEF ClientOK, InLine, Below
    <3>3. x[2] \in Nat
      BY <1>t, <2>2, <2>3, LineIsNat
    <3> HIDE DEF x
    <3> QED
      BY <3>2, <3>3
  <2>6. \A d \in Clients : Runs(d)' = Runs(d)
    BY <2>1 DEF Runs
  <2>7. ReturnedAt'
    BY <1>t, <2>1, <2>6 DEF ReturnedAt
  <2> HIDE DEF x
  <2>8. \A y \in executed' : Sent(y)'
    BY <1>s, <2>1, <2>4 DEF Sent
  <2>9. NotYetExecuted'
    BY <1>s, <2>1, <2>5, <2>8 DEF NotYetExecuted, AtMostOnce
  <2> QED
    BY <2>7, <2>9
<1>10. CASE OnceSends
  <2>1. /\ spc' = "ready" /\ UNCHANGED <<pc, n, got, executed>>
    BY <1>10 DEF OnceSends, clientVars
  <2>2. \A d \in Clients : Runs(d)' = Runs(d) /\ (pc'[d] = "sendto" => pc[d] = "sendto")
    BY <2>1 DEF Runs
  <2>3. queue'[Server] = queue[Server]
    <3>1. Target \in Clients \cup {NoName}
      BY <1>10, <1>t DEF OnceSends, CallsInv, FromClients, OfClient, Target
    <3>2. CASE Target = NoName
      BY <1>10, <3>2 DEF OnceSends
    <3>3. CASE Target # NoName
      <4>1. Target \in Names /\ Target # Server
        BY <1>t, <3>1, <3>3
      <4>2. Sendto(Target, [from |-> NameOf(Server), call |-> job.call])
        BY <1>10, <3>3 DEF OnceSends
      <4> QED
        BY <1>q, <4>1, <4>2 DEF Sendto
    <3> QED
      BY <3>2, <3>3
  <2> QED
    BY <1>s, <2>1, <2>2, <2>3, QuietLate
<1>11. CASE ServerDies
  <2>1. /\ spc' = "down" /\ SocketGone(Server) /\ UNCHANGED <<pc, n, got, executed>>
    BY <1>11 DEF ServerDies, clientVars
  <2>2. \A d \in Clients : Runs(d)' = Runs(d) /\ (pc'[d] = "sendto" => pc[d] = "sendto")
    BY <2>1 DEF Runs
  <2>3. queue'[Server] = <<>> /\ DOMAIN <<>> = {}
    BY <1>q, <2>1 DEF SocketGone
  <2> QED
    BY <2>1, <2>2, <2>3, QuietLate
<1>12. ASSUME \/ \E a \in Names : UserRemoves(a)
              \/ UNCHANGED vars
       PROVE  ReturnedAt' /\ NotYetExecuted'
  <2>1. UNCHANGED <<queue, pc, n, got, spc, job, executed>>
    BY <1>12 DEF UserRemoves, vars, clientVars, serverVars
  <2>2. \A d \in Clients : Runs(d)' = Runs(d)
    BY <2>1 DEF Runs
  <2> QED
    BY <1>s, <2>1, <2>2, QuietLate
<1> QED
  BY <1>1, <1>2, <1>3, <1>4, <1>5, <1>6, <1>7, <1>8, <1>9, <1>10, <1>11, <1>12
     DEF Next, Client, InCall, Once

-----------------------------------------------------------------------------
\* How the i-th call ended that a client with the answers s made, as EndOf.
EndIn(s, i) ==
  LET g == {j \in DOMAIN s : s[j].at = i}
  IN IF g = {} THEN <<>> ELSE s[CHOOSE j \in g : TRUE].answer

LEMMA EndsAre ==
  /\ Ends = [c \in Clients |-> [i \in 1..(n[c] - Runs(c)) |-> EndIn(got[c], i)]]
  /\ Ends' = [c \in Clients |-> [i \in 1..(n'[c] - Runs(c)') |-> EndIn(got'[c], i)]]
BY DEF Ends, EndOf, EndIn

\* An answer returned by call k, when those before were returned by earlier ones.
LEMMA AppendedEnd ==
  ASSUME NEW s \in Seq([at : Nat, answer : Calls]), NEW k \in Nat, NEW y \in Calls,
         \A j \in DOMAIN s : s[j].at < k
  PROVE  /\ EndIn(s, k) = <<>>
         /\ EndIn(Append(s, [at |-> k, answer |-> y]), k) = y
         /\ \A i \in Nat : i < k => EndIn(Append(s, [at |-> k, answer |-> y]), i) = EndIn(s, i)
<1> DEFINE g == [at |-> k, answer |-> y]
           t == Append(s, g)
<1>1. /\ Len(s) \in Nat /\ DOMAIN s = 1..Len(s) /\ DOMAIN t = 1..(Len(s) + 1)
      /\ \A j \in 1..Len(s) : t[j] = s[j]
      /\ t[Len(s) + 1] = g
  <2> HIDE DEF g
  <2>1. g \in [at : Nat, answer : Calls]
    BY DEF g
  <2> QED
    BY <2>1
<1>2. g.at = k /\ g.answer = y
  OBVIOUS
<1>3. \A j \in DOMAIN s : s[j].at \in Nat
  <2> SUFFICES ASSUME NEW j \in DOMAIN s PROVE s[j].at \in Nat
    OBVIOUS
  <2>1. s[j] \in [at : Nat, answer : Calls]
    BY ElementIn
  <2> QED
    BY <2>1
<1> HIDE DEF g, t
<1>4. \A j \in DOMAIN s : s[j].at # k
  BY <1>3
<1>5. EndIn(s, k) = <<>>
  BY <1>4 DEF EndIn
<1>6. EndIn(t, k) = y
  <2>1. {j \in DOMAIN t : t[j].at = k} = {Len(s) + 1}
    <3>1. ASSUME NEW j \in DOMAIN t PROVE t[j].at = k <=> j = Len(s) + 1
      <4>1. CASE j \in DOMAIN s
        BY <1>1, <1>4, <4>1
      <4>2. CASE j = Len(s) + 1
        BY <1>1, <1>2, <4>2
      <4> QED
        BY <1>1, <4>1, <4>2
    <3>2. Len(s) + 1 \in DOMAIN t
      BY <1>1
    <3> QED
      BY <3>1, <3>2
  <2>2. (CHOOSE j \in {Len(s) + 1} : TRUE) = Len(s) + 1
    OBVIOUS
  <2> QED
    BY <1>1, <1>2, <2>1, <2>2 DEF EndIn
<1>7. ASSUME NEW i \in Nat, i < k PROVE EndIn(t, i) = EndIn(s, i)
  <2> DEFINE G == {j \in DOMAIN s : s[j].at = i}
  <2>1. {j \in DOMAIN t : t[j].at = i} = G
    <3>1. ASSUME NEW j \in DOMAIN t
          PROVE  t[j].at = i <=> j \in DOMAIN s /\ s[j].at = i
      <4>1. CASE j \in DOMAIN s
        BY <1>1, <4>1
      <4>2. CASE j = Len(s) + 1
        BY <1>1, <1>2, <1>7, <4>2
      <4> QED
        BY <1>1, <4>1, <4>2
    <3>2. DOMAIN s \subseteq DOMAIN t
      BY <1>1
    <3> QED
      BY <3>1, <3>2
  <2>2. G # {} => t[CHOOSE j \in G : TRUE] = s[CHOOSE j \in G : TRUE]
    <3> SUFFICES ASSUME G # {} PROVE (CHOOSE j \in G : TRUE) \in 1..Len(s)
      BY <1>1
    <3>1. (CHOOSE j \in G : TRUE) \in G
      OBVIOUS
    <3> QED
      BY <1>1, <3>1
  <2>3. EndIn(t, i) = IF G = {} THEN <<>> ELSE t[CHOOSE j \in G : TRUE].answer
    <3> DEFINE H == {j \in DOMAIN t : t[j].at = i}
    <3>1. EndIn(t, i) = IF H = {} THEN <<>> ELSE t[CHOOSE j \in H : TRUE].answer
      BY DEF EndIn
    <3>2. H = G
      BY <2>1
    <3> HIDE DEF G, H
    <3> QED
      BY ONLY <3>1, <3>2
  <2>4. EndIn(s, i) = IF G = {} THEN <<>> ELSE s[CHOOSE j \in G : TRUE].answer
    BY DEF EndIn
  <2> QED
    BY <2>2, <2>3, <2>4, SMTT(20)
<1> QED
  BY <1>5, <1>6, <1>7 DEF t, g

LEMMA OneLonger ==
  ASSUME NEW m \in Nat, NEW S, NEW s \in [1..m -> S], NEW x \in S,
         NEW t \in [1..(m + 1) -> S], \A i \in 1..m : t[i] = s[i], t[m + 1] = x
  PROVE  t = Append(s, x)
<1>1. s \in Seq(S) /\ Len(s) = m /\ t \in Seq(S) /\ Len(t) = m + 1
  OBVIOUS
<1>2. /\ Len(Append(s, x)) = m + 1 /\ Append(s, x) \in Seq(S)
      /\ \A i \in 1..m : Append(s, x)[i] = s[i]
      /\ Append(s, x)[m + 1] = x
  BY <1>1
<1>3. \A i \in 1..Len(t) : t[i] = Append(s, x)[i]
  BY <1>1, <1>2
<1> QED
  BY <1>1, <1>2, <1>3

\* A step that ends no call.
LEMMA EndsSame ==
  ASSUME got' = got, \A c \in Clients : n'[c] - Runs(c)' = n[c] - Runs(c)
  PROVE  Ends' = Ends
BY EndsAre

\* A step that ends the running call of c, with x.
LEMMA CallEnds ==
  ASSUME LateInv, NEW c \in Clients, NEW x, n' = n, Runs(c) = 1, Runs(c)' = 0,
         \A d \in Clients \ {c} : got'[d] = got[d] /\ Runs(d)' = Runs(d),
         \A i \in Nat : i < n[c] => EndIn(got'[c], i) = EndIn(got[c], i),
         EndIn(got'[c], n[c]) = x
  PROVE  Late!EndsWith(c, x)
<1>1. n[c] \in Nat /\ n[c] - 1 \in Nat
  BY CallsOver DEF LateInv
<1>2. Ends[c] = [i \in 1..(n[c] - 1) |-> EndIn(got[c], i)]
  BY EndsAre
<1>3. Ends'[c] = [i \in 1..n[c] |-> EndIn(got'[c], i)]
  <2>1. n'[c] - Runs(c)' = n[c]
    BY <1>1
  <2>2. Ends'[c] = [i \in 1..(n'[c] - Runs(c)') |-> EndIn(got'[c], i)]
    BY EndsAre
  <2> QED
    BY <2>1, <2>2
<1>4. Len(Ends[c]) = n[c] - 1 /\ n[c] = Len(Ends[c]) + 1
  BY <1>1, <1>2
<1>5. Ends'[c] = Append(Ends[c], x)
  <2> DEFINE s == [i \in 1..(n[c] - 1) |-> EndIn(got[c], i)]
             t == [i \in 1..n[c] |-> EndIn(got'[c], i)]
  <2>1. \A i \in 1..(n[c] - 1) : t[i] = s[i]
    <3> SUFFICES ASSUME NEW i \in 1..(n[c] - 1) PROVE EndIn(got'[c], i) = EndIn(got[c], i)
      BY <1>1
    <3> QED
      BY <1>1
  <2>2. t[n[c]] = x
    BY <1>1, <1>4
  <2>3. t = Append(s, x)
    <3> DEFINE S == {t[i] : i \in 1..n[c]}
    <3>1. x \in S /\ t \in [1..n[c] -> S]
      BY <1>1, <2>2
    <3>2. s \in [1..(n[c] - 1) -> S]
      BY <1>1, <2>1
    <3> HIDE DEF s, t, S
    <3> QED
      BY <1>1, <2>1, <2>2, <3>1, <3>2, OneLonger, n[c] = (n[c] - 1) + 1
  <2> QED
    BY <1>2, <1>3, <2>3
<1>6. Ends' = [Ends EXCEPT ![c] = Append(Ends[c], x)]
  <2>1. \A d \in Clients \ {c} : Ends'[d] = Ends[d]
    BY EndsAre
  <2>2. DOMAIN Ends = Clients /\ DOMAIN Ends' = Clients
    BY EndsAre
  <2>3. Ends = [d \in Clients |-> Ends[d]] /\ Ends' = [d \in Clients |-> Ends'[d]]
    BY EndsAre
  <2> QED
    BY <1>5, <2>1, <2>2, <2>3
<1> QED
  BY <1>4, <1>6 DEF Late!EndsWith, Late!Outstanding

\* What has been returned was returned by calls that are over.
LEMMA EarlierAnswers ==
  ASSUME LateInv, NEW c \in Clients, Runs(c) = 1
  PROVE  \A j \in DOMAIN got[c] : got[c][j].at < n[c]
<1> SUFFICES ASSUME NEW j \in DOMAIN got[c] PROVE got[c][j].at < n[c]
  OBVIOUS
<1>1. got[c] \in Seq([at : Nat, answer : Calls]) /\ n[c] \in Nat
  BY CallsOver DEF LateInv
<1>2. got[c][j] \in [at : Nat, answer : Calls]
  BY <1>1, ElementIn
<1>3. got[c][j].at \in Nat /\ got[c][j].at <= n[c] - 1
  BY <1>2 DEF LateInv, ReturnedAt
<1> QED
  BY <1>1, <1>3

\* A client that stops waiting ends its call with nothing.
LEMMA CallGivenUp ==
  ASSUME LateInv, NEW c \in Clients, UNCHANGED <<n, got, executed>>,
         Runs(c) = 1, Runs(c)' = 0, \A d \in Clients \ {c} : Runs(d)' = Runs(d)
  PROVE  Late!Next
<1>1. got[c] \in Seq([at : Nat, answer : Calls]) /\ n[c] \in Nat
  BY CallsOver DEF LateInv
<1>2. EndIn(got[c], n[c]) = <<>>
  <2>1. \A j \in DOMAIN got[c] : got[c][j].at < n[c]
    BY EarlierAnswers
  <2>2. CASE got[c] = <<>>
    BY <2>2 DEF EndIn
  <2>3. CASE got[c] # <<>>
    <3>1. PICK y : y \in Calls
      <4>0. 1 \in DOMAIN got[c]
        BY <1>1, <2>3
      <4>1. got[c][1] \in [at : Nat, answer : Calls]
        BY <1>1, <4>0, ElementIn
      <4> QED
        BY <4>1
    <3> QED
      BY <1>1, <2>1, <3>1, AppendedEnd
  <2> QED
    BY <2>2, <2>3
<1>3. Late!EndsWith(c, <<>>)
  BY <1>2, CallEnds
<1>4. Late!GiveUp(c)
  BY <1>3 DEF Late!GiveUp, Late!Nothing
<1> QED
  BY <1>4 DEF Late!Next

\* The answer that a call returns is later than those returned before.
LEMMA CallAnswered ==
  ASSUME LateInv, NEW c \in Clients, RequestReturns(c)
  PROVE  Late!Next
<1> DEFINE h == Head(queue[c])
           k == h.call[2]
<1>t. CallsInv /\ UnixTypeOK /\ ClientOK(c) /\ c \in Names /\ c # Server
  BY ServerIsName, UnixAssumption DEF LateInv, CallsInv, Inv
<1>1. /\ pc[c] = "recv" /\ pc' = [pc EXCEPT ![c] = "idle"] /\ queue[c] # <<>>
      /\ got' = [got EXCEPT ![c] = Append(@, [at |-> n[c], answer |-> h.call])]
      /\ UNCHANGED <<n, executed>>
  BY DEF RequestReturns, serverVars
<1>2. /\ queue[c] \in Seq(Messages) /\ pc \in [Clients -> {"down", "idle", "sendto", "recv"}]
      /\ got \in [Clients -> Seq([at : Nat, answer : Calls])]
      /\ got[c] \in Seq([at : Nat, answer : Calls]) /\ n[c] \in Nat
  BY <1>t, CallsOver DEF UnixTypeOK
<1>3. /\ h \in Messages /\ h.call[1] = c /\ h.call \in executed
  <2>1. PICK j \in DOMAIN queue[c] : h = queue[c][j]
    BY <1>1, <1>2, TailNoMore
  <2> QED
    BY <1>t, <1>2, <1>1, <2>1, HeadTail DEF CallsInv, Answers
<1> HIDE DEF h
<1>4. h.call \in Calls /\ h.call = <<c, k>> /\ k \in Nat \ {0}
  BY <1>3 DEF Messages, Calls
<1>5. k \in AtClient(c)
  <2>1. Rising(queue[c], c)
    BY <1>t DEF ClientOK, InLine
  <2> QED
    BY <1>1, <1>2, <1>3, <2>1, TakenRises DEF AtClient, h
<1>6. k <= n[c] /\ \A y \in Returned(c) : y < k
  BY <1>t, <1>5 DEF ClientOK, InLine, Below
<1> HIDE DEF k
<1>7. Runs(c) = 1 /\ Runs(c)' = 0
  BY <1>1, <1>2 DEF Runs
<1>8. /\ got'[c] = Append(got[c], [at |-> n[c], answer |-> h.call])
      /\ \A d \in Clients \ {c} : got'[d] = got[d] /\ Runs(d)' = Runs(d)
  BY <1>1, <1>2 DEF Runs
<1>9. Late!EndsWith(c, <<c, k>>)
  <2>1. \A j \in DOMAIN got[c] : got[c][j].at < n[c]
    BY <1>7, EarlierAnswers
  <2>2. /\ EndIn(got'[c], n[c]) = h.call
        /\ \A i \in Nat : i < n[c] => EndIn(got'[c], i) = EndIn(got[c], i)
    <3> DEFINE r == Append(got[c], [at |-> n[c], answer |-> h.call])
    <3>1. /\ EndIn(r, n[c]) = h.call
          /\ \A i \in Nat : i < n[c] => EndIn(r, i) = EndIn(got[c], i)
      <4>1. got[c] \in Seq([at : Nat, answer : Calls]) /\ n[c] \in Nat /\ h.call \in Calls
        BY <1>2, <1>4
      <4> QED
        BY ONLY <2>1, <4>1, AppendedEnd, ZenonT(30)
    <3>2. got'[c] = r
      BY <1>8
    <3> HIDE DEF r
    <3> QED
      BY <3>1, <3>2
  <2>3. n' = n /\ EndIn(got'[c], n[c]) = <<c, k>>
    BY <1>1, <1>4, <2>2
  <2> QED
    BY <1>7, <1>8, <2>2, <2>3, CallEnds
<1>10. \A i \in DOMAIN Ends[c] : Ends[c][i] # <<c, k>>
  <2> SUFFICES ASSUME NEW i \in DOMAIN Ends[c], Ends[c][i] = <<c, k>>
               PROVE  FALSE
    OBVIOUS
  <2>1. EndIn(got[c], i) = <<c, k>>
    BY EndsAre
  <2> DEFINE g == {j \in DOMAIN got[c] : got[c][j].at = i}
  <2>2. g # {} /\ got[c][CHOOSE j \in g : TRUE].answer = <<c, k>>
    <3>1. EndIn(got[c], i) = IF g = {} THEN <<>> ELSE got[c][CHOOSE j \in g : TRUE].answer
      BY DEF EndIn
    <3>2. <<>> # <<c, k>>
      OBVIOUS
    <3> HIDE DEF g
    <3> QED
      BY <2>1, <3>1, <3>2
  <2>3. PICK j \in DOMAIN got[c] : got[c][j].answer = <<c, k>>
    BY <2>2
  <2>4. k \in Returned(c)
    BY <2>3 DEF Returned
  <2> QED
    BY <1>4, <1>6, <2>4
<1>11. k \in 1..n[c] /\ <<c, k>> \in executed
  BY <1>2, <1>3, <1>4, <1>6
<1>12. Late!Answer(c, k)
  BY <1>1, <1>9, <1>10, <1>11 DEF Late!Answer
<1> QED
  BY <1>11, <1>12 DEF Late!Next

\* Every step of the programs is a step of LateRpc or none.
LEMMA UnixLateStep ==
  ASSUME LateInv, [Next]_vars
  PROVE  [Late!Next]_(Late!vars)
<1>t. CallsInv /\ UnixTypeOK /\ NotYetExecuted
  BY DEF LateInv, CallsInv, Inv
<1>p. pc \in [Clients -> {"down", "idle", "sendto", "recv"}]
      /\ \A c \in Clients : n[c] \in Nat /\ n \in [Clients -> Nat]
  BY <1>t, UnixAssumption DEF UnixTypeOK
<1>0. ASSUME UNCHANGED <<n, got, executed>>, \A c \in Clients : Runs(c)' = Runs(c)
      PROVE  UNCHANGED Late!vars
  <2>1. Ends' = Ends
    BY <1>0, EndsSame
  <2> QED
    BY <1>0, <2>1 DEF Late!vars
<1>1. ASSUME NEW c \in Clients, ClientStarts(c) \/ RequestSent(c)
      PROVE  UNCHANGED Late!vars
  <2>1. UNCHANGED <<n, got, executed>>
    BY <1>1 DEF ClientStarts, RequestSent, serverVars
  <2>2. \A d \in Clients : Runs(d)' = Runs(d)
    BY <1>1, <1>p DEF ClientStarts, RequestSent, Runs
  <2> QED
    BY <1>0, <2>1, <2>2
<1>2. ASSUME NEW c \in Clients, Request(c)
      PROVE  Late!Next
  <2>1. /\ pc[c] = "idle" /\ pc' = [pc EXCEPT ![c] = "sendto"] /\ n' = [n EXCEPT ![c] = @ + 1]
        /\ UNCHANGED <<got, executed>>
    BY <1>2 DEF Request, serverVars
  <2>2. \A d \in Clients : n'[d] - Runs(d)' = n[d] - Runs(d)
    BY <1>p, <2>1 DEF Runs
  <2>3. Ends' = Ends
    BY <2>1, <2>2, EndsSame
  <2>4. n[c] = Len(Ends[c])
    <3>1. Runs(c) = 0 /\ n[c] \in Nat
      BY <1>p, <2>1 DEF Runs
    <3>2. Ends[c] = [i \in 1..n[c] |-> EndIn(got[c], i)]
      BY <3>1, EndsAre
    <3> QED
      BY <3>1, <3>2
  <2>5. Late!Ask(c)
    BY <2>1, <2>3, <2>4 DEF Late!Ask
  <2> QED
    BY <2>5 DEF Late!Next
<1>3. ASSUME NEW c \in Clients, RequestReturns(c)
      PROVE  Late!Next
  BY <1>3, CallAnswered
<1>4. ASSUME NEW c \in Clients, RequestTimesOut(c)
      PROVE  Late!Next
  <2>1. pc[c] = "recv" /\ pc' = [pc EXCEPT ![c] = "idle"] /\ UNCHANGED <<n, got, executed>>
    BY <1>4 DEF RequestTimesOut, serverVars
  <2>2. Runs(c) = 1 /\ Runs(c)' = 0 /\ \A d \in Clients \ {c} : Runs(d)' = Runs(d)
    BY <1>p, <2>1 DEF Runs
  <2> QED
    BY <2>1, <2>2, CallGivenUp
<1>5. ASSUME NEW c \in Clients, ClientDies(c)
      PROVE  Late!Next \/ UNCHANGED Late!vars
  <2>1. pc[c] # "down" /\ pc' = [pc EXCEPT ![c] = "down"] /\ UNCHANGED <<n, got, executed>>
    BY <1>5 DEF ClientDies, serverVars
  <2>2. Runs(c)' = 0 /\ Runs(c) \in {0, 1} /\ \A d \in Clients \ {c} : Runs(d)' = Runs(d)
    BY <1>p, <2>1 DEF Runs
  <2>3. CASE Runs(c) = 1
    BY <2>1, <2>2, <2>3, CallGivenUp
  <2>4. CASE Runs(c) = 0
    BY <1>0, <2>1, <2>2, <2>4
  <2> QED
    BY <2>2, <2>3, <2>4
<1>6. CASE OnceCalls
  <2> DEFINE x == job.call
  <2>1. spc = "call" /\ executed' = executed \cup {x} /\ UNCHANGED <<n, pc, got>>
    BY <1>6 DEF OnceCalls, clientVars
  <2>2. x \in Calls /\ x \notin executed
    BY <1>t, <2>1 DEF UnixTypeOK, Messages, NotYetExecuted, AtMostOnce
  <2>3. x[1] \in Clients /\ InOnce(x[1]) /\ ClientOK(x[1])
    BY <1>t, <2>1 DEF CallsInv, FromClients, OfClient, InOnce
  <2>4. x[2] <= n[x[1]]
    <3>1. x[2] \in InHand(x[1])
      BY <2>3 DEF InHand
    <3> QED
      BY <2>3, <3>1 DEF ClientOK, InLine
  <2> HIDE DEF x
  <2>5. PICK c \in Clients, k \in Nat \ {0} : x = <<c, k>>
    BY <2>2, <2>3 DEF Calls
  <2>6. k \in 1..n[c]
    BY <1>p, <2>4, <2>5
  <2>7. Ends' = Ends
    <3>1. \A d \in Clients : n'[d] - Runs(d)' = n[d] - Runs(d)
      BY <2>1 DEF Runs
    <3> QED
      BY <2>1, <3>1, EndsSame
  <2>8. Late!Execute(c, k)
    BY <2>1, <2>2, <2>5, <2>6, <2>7 DEF Late!Execute
  <2> QED
    BY <2>6, <2>8 DEF Late!Next
<1>7. ASSUME \/ ServerStarts \/ OnceReceives \/ OnceSends \/ ServerDies
             \/ \E a \in Names : UserRemoves(a)
             \/ UNCHANGED vars
      PROVE  UNCHANGED Late!vars
  <2>1. UNCHANGED <<n, pc, got, executed>>
    BY <1>7 DEF ServerStarts, OnceReceives, OnceSends, ServerDies, UserRemoves, vars,
      clientVars, serverVars
  <2>2. \A c \in Clients : Runs(c)' = Runs(c)
    BY <2>1 DEF Runs
  <2> QED
    BY <1>0, <2>1, <2>2
<1> QED
  BY <1>1, <1>2, <1>3, <1>4, <1>5, <1>6, <1>7 DEF Next, Client, InCall, Once

\* Under Publisher and Subscriber nobody calls.
LateUnix ==
  IF pattern = "rr" THEN ReturnedAt /\ NotYetExecuted ELSE \A c \in Clients : n[c] = 0

LEMMA InitLateUnix == UnixInit => LateUnix /\ Late!Init
<1> SUFFICES ASSUME UnixInit PROVE LateUnix /\ Late!Init
  OBVIOUS
<1>1. /\ n = [c \in Clients |-> 0] /\ executed = {} /\ \A c \in Clients : pc[c] = "down"
  BY DEF UnixInit, Init
<1>2. LateUnix
  BY <1>1, InitLate DEF UnixInit, LateUnix
<1>3. Ends = [c \in Clients |-> <<>>]
  <2>1. ASSUME NEW c \in Clients PROVE n[c] - Runs(c) = 0
    BY <1>1 DEF Runs
  <2>2. ASSUME NEW c \in Clients
        PROVE  [i \in 1..(n[c] - Runs(c)) |-> EndIn(got[c], i)] = <<>>
    BY <2>1
  <2> QED
    BY <2>2, EndsAre
<1> QED
  BY <1>1, <1>2, <1>3 DEF Late!Init

LEMMA NextLateUnix ==
  ASSUME UnixInv, LateUnix, UnixInv', [UnixNext]_unixVars
  PROVE  LateUnix' /\ [Late!Next]_(Late!vars)
<1>0. pattern' = pattern
  BY DEF UnixNext, PubSubNext, CallsNext, unixVars
<1>1. CASE pattern = "rr"
  <2>1. [Next]_vars
    BY <1>1 DEF UnixNext, PubSubNext, CallsNext, unixVars
  <2>2. LateInv /\ CallsInv'
    BY <1>0, <1>1 DEF UnixInv, LateUnix, LateInv
  <2>3. ReturnedAt' /\ NotYetExecuted' /\ [Late!Next]_(Late!vars)
    BY <2>1, <2>2, NextLate, UnixLateStep
  <2> QED
    BY <1>0, <1>1, <2>3 DEF LateUnix
<1>2. CASE pattern # "rr"
  <2>1. UNCHANGED <<n, got, executed>>
    BY <1>2 DEF UnixNext, PubSubNext, CallsNext, Pub, PubLoop, Sub, SubLoop, PubStarts,
      PubConnect, PubBind, RegisterAddr, Publish, PublishTo, PublishReturns, PubDies,
      SubStarts, SubOnce, SubHears, SubTimesOut, SubDies, ClientStarts, UserRemoves,
      unixVars, vars, clientVars, serverVars
  <2>2. LateUnix' /\ \A c \in Clients : n[c] = 0 /\ n'[c] = 0
    BY <1>0, <1>2, <2>1 DEF LateUnix
  <2>3. ASSUME NEW c \in Clients
        PROVE  1..(n[c] - Runs(c)) = {} /\ 1..(n'[c] - Runs(c)') = {}
    <3>1. Runs(c) \in {0, 1} /\ Runs(c)' \in {0, 1}
      BY DEF Runs
    <3> QED
      BY <2>2, <3>1
  <2>4. Ends' = Ends
    BY <2>3, EndsAre
  <2> QED
    BY <2>1, <2>2, <2>4 DEF Late!vars
<1> QED
  BY <1>1, <1>2

\* Calls over Unix sockets implement LateRpc, whatever times out, dies and is
\* started again: a call ends with nothing or with an answer that no other call
\* returned, to itself or to an earlier one of the same client, which the
\* callback has run on.
THEOREM UnixImplementsLateRpc == UnixSpec => RefinesLateRpc
<1>1. UnixInit => LateUnix /\ Late!Init
  BY InitLateUnix
<1>2. UnixInv /\ LateUnix /\ UnixInv' /\ [UnixNext]_unixVars
        => LateUnix' /\ [Late!Next]_(Late!vars)
  BY NextLateUnix
<1> QED
  BY <1>1, <1>2, UnixInvAlways, PTL DEF UnixSpec, RefinesLateRpc, Late!Spec

\* Over Unix sockets the callback runs on no call twice.
THEOREM UnixAtMostOnce == UnixSpec => []AtMostOnce
<1>1. UnixInit => LateUnix
  BY InitLateUnix
<1>2. UnixInv /\ LateUnix /\ UnixInv' /\ [UnixNext]_unixVars => LateUnix'
  BY NextLateUnix
<1>3. UnixInv /\ LateUnix => AtMostOnce
  BY DEF UnixInv, PsInv, NoCalls, LateUnix, NotYetExecuted, AtMostOnce
<1> QED
  BY <1>1, <1>2, <1>3, UnixInvAlways, PTL DEF UnixSpec

=============================================================================
