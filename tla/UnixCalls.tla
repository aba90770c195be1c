------------------------------ MODULE UnixCalls ------------------------------
(***************************************************************************)
(* SocketUnix of cpp/src/marko/socket_uds.hpp under Request and Reply, as  *)
(* the test req_rep_unix of cpp/gtests/test_rr.cpp uses them: programs     *)
(* that bind names in the file system and send to each other's.            *)
(*                                                                         *)
(* A Unix socket differs from a UDP socket in what goes wrong.  Nothing is *)
(* lost, copied or overtaken between two sockets; sendto() puts a message  *)
(* in the receiver's queue, waits when that is full, and fails when nobody *)
(* has the name.  A name is a file: it outlives its socket, bind() fails   *)
(* while the file is there, and no operation of SocketUnix removes it.     *)
(***************************************************************************)
EXTENDS Naturals, Sequences, FiniteSets

CONSTANTS
  Clients,   \* the programs with a Request object, and the names they bind
  Server,    \* the program with the Reply object, and the name it binds
  Binders,   \* the clients whose program calls bind()
  Timed,     \* the clients whose program calls settimeout()
  NoName,    \* where a message comes from whose socket has no name
  OnceTos,   \* the names the server may pass to once(to); NoName: it calls once()
  QLen,      \* messages a socket's queue holds
  MaxCalls,  \* bound: calls of a client
  MaxDeaths  \* bound: how often programs end, or are killed

ASSUME UnixAssumption ==
  /\ Server \notin Clients /\ NoName \notin Clients \cup {Server}
  /\ Binders \subseteq Clients /\ Timed \subseteq Clients
  /\ OnceTos \subseteq Clients \cup {NoName}
  /\ QLen \in Nat \ {0} /\ MaxCalls \in Nat /\ MaxDeaths \in Nat

VARIABLES
  file,      \* file[a]: name a is "absent", a "stale" file, or "bound" by a
  queue,     \* queue[a]: the messages for the socket of program a
  pc,        \* pc[c]: client c is "down", "idle", in "sendto" or in "recv"
  n,         \* n[c]: how many calls c has made, in all its lives
  got,       \* got[c]: which answer which of its calls returned
  spc,       \* the server is "down", "ready" (or in recvfrom), in "call" or "send"
  job,       \* the message once() works on
  to,        \* what the server passes to once(to)
  executed,  \* history: the calls the callback has run on
  givenup,   \* history: givenup[c], the calls c did not wait for the end of
  left,      \* history: the names whose file nobody has removed since its owner died
  deaths     \* how often programs have died

clientVars == <<pc, n, got, givenup>>
serverVars == <<spc, job, executed>>
vars == <<file, queue, clientVars, serverVars, to, left, deaths>>

Names == Clients \cup {Server}

\* A client's calls, and what a publisher in the place of the server publishes
\* (UnixPubSub), are numbered.
Calls == Names \X (Nat \ {0})
Messages == [from : Names \cup {NoName}, call : Calls]

Init ==
  /\ file = [a \in Names |-> "absent"]
  /\ queue = [a \in Names |-> <<>>]
  /\ pc = [c \in Clients |-> "down"]
  /\ n = [c \in Clients |-> 0]
  /\ got = [c \in Clients |-> <<>>]
  /\ spc = "down" /\ job = <<>>
  /\ to \in OnceTos
  /\ executed = {}
  /\ givenup = [c \in Clients |-> 0]
  /\ left = {}
  /\ deaths = 0

-----------------------------------------------------------------------------
(***************************************************************************)
(* SocketUnix.                                                             *)
(***************************************************************************)

\* (Mutant: the unlink() that is commented out in bind() is back.)
BindUnlinks(a) == file' = [file EXCEPT ![a] = "bound"]

\* bind(): fails when there is a file of that name; its programs go on.
Bind(a) ==
  file' = [file EXCEPT ![a] = IF @ = "absent" THEN "bound" ELSE @]

NameOf(a) == IF file[a] = "bound" THEN a ELSE NoName

\* sendto(): the message is queued, or nobody has the name.  While the queue
\* of a live receiver is full the call does not return.
\* (Mutant of it: nobody looks whether there is room.)
ReturnsAtOnce(a) == TRUE

MayReturn(a) == file[a] = "bound" => Len(queue[a]) < QLen

Sendto(a, m) ==
  /\ MayReturn(a)
  /\ queue' = IF file[a] = "bound" THEN [queue EXCEPT ![a] = Append(@, m)] ELSE queue

\* The destructor, or the kernel, closes the socket; the file stays.
SocketGone(a) ==
  /\ file' = [file EXCEPT ![a] = IF @ = "bound" THEN "stale" ELSE @]
  /\ left' = IF file[a] = "bound" THEN left \cup {a} ELSE left
  /\ queue' = [queue EXCEPT ![a] = <<>>]
  /\ deaths < MaxDeaths
  /\ deaths' = deaths + 1

-----------------------------------------------------------------------------
(***************************************************************************)
(* The client.  A server that calls once(to) is only meant for the client  *)
(* whose name that is.  connect() does nothing at all, and is no step.     *)
(***************************************************************************)
ClientStarts(c) ==
  /\ pc[c] = "down"
  /\ to \in {NoName, c}
  /\ pc' = [pc EXCEPT ![c] = "idle"]
  /\ IF c \in Binders THEN Bind(c) ELSE UNCHANGED file
  /\ UNCHANGED <<queue, n, got, givenup, serverVars, to, left, deaths>>

Request(c) ==
  /\ pc[c] = "idle"
  /\ n[c] < MaxCalls
  /\ pc' = [pc EXCEPT ![c] = "sendto"]
  /\ n' = [n EXCEPT ![c] = @ + 1]
  /\ UNCHANGED <<file, queue, got, givenup, serverVars, to, left, deaths>>

RequestSent(c) ==
  /\ pc[c] = "sendto"
  /\ Sendto(Server, [from |-> NameOf(c), call |-> <<c, n[c]>>])
  /\ pc' = [pc EXCEPT ![c] = "recv"]
  /\ UNCHANGED <<file, n, got, givenup, serverVars, to, left, deaths>>

\* (Mutant: recv with MSG_PEEK.)
RequestPeeks(c) ==
  /\ pc[c] = "recv"
  /\ queue[c] # <<>>
  /\ got' = [got EXCEPT ![c] = Append(@, [at |-> n[c], answer |-> Head(queue[c]).call])]
  /\ pc' = [pc EXCEPT ![c] = "idle"]
  /\ UNCHANGED <<file, queue, n, givenup, serverVars, to, left, deaths>>

RequestReturns(c) ==
  /\ pc[c] = "recv"
  /\ queue[c] # <<>>
  /\ queue' = [queue EXCEPT ![c] = Tail(@)]
  /\ got' = [got EXCEPT ![c] = Append(@, [at |-> n[c], answer |-> Head(queue[c]).call])]
  /\ pc' = [pc EXCEPT ![c] = "idle"]
  /\ UNCHANGED <<file, n, givenup, serverVars, to, left, deaths>>

\* SO_RCVTIMEO, which is no limit on sendto().
RequestTimesOut(c) ==
  /\ c \in Timed
  /\ pc[c] = "recv"
  /\ queue[c] = <<>>
  /\ pc' = [pc EXCEPT ![c] = "idle"]
  /\ givenup' = [givenup EXCEPT ![c] = @ + 1]
  /\ UNCHANGED <<file, queue, n, got, serverVars, to, left, deaths>>

\* The program returns from main() or is killed, at any point.
ClientDies(c) ==
  /\ pc[c] # "down"
  /\ SocketGone(c)
  /\ pc' = [pc EXCEPT ![c] = "down"]
  /\ givenup' = IF pc[c] # "idle" THEN [givenup EXCEPT ![c] = @ + 1] ELSE givenup
  /\ UNCHANGED <<n, got, serverVars, to>>

-----------------------------------------------------------------------------
(***************************************************************************)
(* The server.                                                             *)
(***************************************************************************)
ServerStarts ==
  /\ spc = "down"
  /\ spc' = "ready"
  /\ Bind(Server)
  /\ UNCHANGED <<queue, clientVars, job, executed, to, left, deaths>>

\* (Mutant: recvfrom with MSG_PEEK.)
OncePeeks ==
  /\ spc = "ready"
  /\ queue[Server] # <<>>
  /\ job' = Head(queue[Server])
  /\ spc' = "call"
  /\ UNCHANGED <<file, queue, clientVars, executed, to, left, deaths>>

\* once() and once(to): recvfrom(), recv().
OnceReceives ==
  /\ spc = "ready"
  /\ queue[Server] # <<>>
  /\ queue' = [queue EXCEPT ![Server] = Tail(@)]
  /\ job' = Head(queue[Server])
  /\ spc' = "call"
  /\ UNCHANGED <<file, clientVars, executed, to, left, deaths>>

OnceCalls ==
  /\ spc = "call"
  /\ executed' = executed \cup {job.call}
  /\ spc' = "send"
  /\ UNCHANGED <<file, queue, clientVars, job, to, left, deaths>>

\* once() answers where the message came from, once(to) answers `to`.
Target == IF to = NoName THEN job.from ELSE to

OnceSends ==
  /\ spc = "send"
  /\ IF Target = NoName THEN UNCHANGED queue
     ELSE Sendto(Target, [from |-> NameOf(Server), call |-> job.call])
  /\ spc' = "ready"
  /\ job' = <<>>
  /\ UNCHANGED <<file, clientVars, executed, to, left, deaths>>

ServerDies ==
  /\ spc # "down"
  /\ SocketGone(Server)
  /\ spc' = "down"
  /\ job' = <<>>
  /\ UNCHANGED <<clientVars, executed, to>>

\* The user removes the file of a program that is gone.
UserRemoves(a) ==
  /\ file[a] = "stale"
  /\ file' = [file EXCEPT ![a] = "absent"]
  /\ left' = left \ {a}
  /\ UNCHANGED <<queue, clientVars, serverVars, to, deaths>>

-----------------------------------------------------------------------------
InCall(c) == RequestSent(c) \/ RequestReturns(c) \/ RequestTimesOut(c)
Client(c) == ClientStarts(c) \/ Request(c) \/ InCall(c) \/ ClientDies(c)
Once == OnceReceives \/ OnceCalls \/ OnceSends

Next ==
  \/ \E c \in Clients : Client(c)
  \/ ServerStarts \/ Once \/ ServerDies
  \/ \E a \in Names : UserRemoves(a)

Spec == Init /\ [][Next]_vars

\* The server's thread, and a client's inside request(), are scheduled.  Nobody
\* has to call, to start again or to clean up.
FairSpec == Spec /\ WF_vars(Once) /\ \A c \in Clients : WF_vars(InCall(c))

-----------------------------------------------------------------------------
UnixTypeOK ==
  /\ file \in [Names -> {"absent", "stale", "bound"}]
  /\ queue \in [Names -> Seq(Messages)]
  /\ \A a \in Names : /\ Len(queue[a]) <= QLen
                      /\ queue[a] # <<>> => file[a] = "bound"
  /\ pc \in [Clients -> {"down", "idle", "sendto", "recv"}]
  /\ n \in [Clients -> 0..MaxCalls]
  /\ got \in [Clients -> Seq([at : Nat, answer : Calls])]
  /\ spc \in {"down", "ready", "call", "send"}
  /\ IF spc \in {"call", "send"} THEN job \in Messages ELSE job = <<>>
  /\ to \in OnceTos
  /\ executed \subseteq Calls
  /\ givenup \in [Clients -> Nat]
  /\ left \subseteq Names
  /\ deaths \in 0..MaxDeaths

(***************************************************************************)
(* InStep: an answer that a call returns is one to the same client, the    *)
(* answers come in the order of the calls, none twice, and a call is       *)
(* behind by at most as many answers as the client has given up waiting    *)
(* for, in this life or an earlier one.  In particular a client that       *)
(* neither has a timeout nor was killed gets the answer to each call, as   *)
(* cpp/gtests/test_rr.cpp:95 expects.                                      *)
(***************************************************************************)
InStep ==
  \A c \in Clients : \A i \in DOMAIN got[c] :
    LET g == got[c][i]
    IN /\ g.answer[1] = c /\ g.answer \in executed
       /\ g.answer[2] <= g.at /\ g.at <= g.answer[2] + givenup[c]
       /\ i > 1 => got[c][i - 1].answer[2] < g.answer[2]

(***************************************************************************)
(* Backlogged: what is queued for the server from a client, worked on in   *)
(* once() and queued for the client is together no more than the call it   *)
(* waits in and those it has given up.  So the server waits in sendto(),   *)
(* with everybody's requests behind it, only for a client that has given   *)
(* up QLen calls; and the two wait for each other, which no timeout ends,  *)
(* only if that client has given up one more and others fill the queue.    *)
(***************************************************************************)
Of(c, a) == {i \in DOMAIN queue[a] : queue[a][i].call[1] = c}
InOnce(c) == spc \in {"call", "send"} /\ job.call[1] = c

Backlog(c) ==
  Cardinality(Of(c, Server)) + (IF InOnce(c) THEN 1 ELSE 0) + Cardinality(Of(c, c))

Backlogged ==
  \A c \in Clients : Backlog(c) <= givenup[c] + (IF pc[c] = "recv" THEN 1 ELSE 0)

(***************************************************************************)
(* AtMostOnce: the callback does not run on a call a second time, whoever  *)
(* gives up, dies and is started again meanwhile.                          *)
(***************************************************************************)
AtMostOnce == spc = "call" => job.call \notin executed

(***************************************************************************)
(* DeafAfterDeath: when a server that had bound its name is gone, starting *)
(* it again does not help: bind() fails, nobody notices, and no request is *)
(* executed until somebody has removed the file.                           *)
(***************************************************************************)
DeafAfterDeath == [][executed' # executed => Server \notin left]_vars

(***************************************************************************)
(* ServerGoesOn: once() comes back from the reply to a client that has not *)
(* given up QLen calls, so that the others have their turn.                *)
(***************************************************************************)
ServerGoesOn ==
  \A c \in Clients :
    (spc = "send" /\ Target = c /\ givenup[c] < QLen) ~> (spc # "send")

(***************************************************************************)
(* RefinesLateRpc: it implements LateRpc, as RequestReply does over UDP,   *)
(* and a call that a client did not live to see the end of is one that was *)
(* given up.                                                               *)
(***************************************************************************)
Runs(c) == IF pc[c] \in {"sendto", "recv"} THEN 1 ELSE 0

EndOf(c, i) ==
  LET g == {j \in DOMAIN got[c] : got[c][j].at = i}
  IN IF g = {} THEN <<>> ELSE got[c][CHOOSE j \in g : TRUE].answer

Ends == [c \in Clients |-> [i \in 1..(n[c] - Runs(c)) |-> EndOf(c, i)]]

Late == INSTANCE LateRpc WITH Clients <- Clients, asked <- n, done <- executed, ends <- Ends
RefinesLateRpc == Late!Spec

=============================================================================
