------------------------------ MODULE Examples ------------------------------
(***************************************************************************)
(* The example programs cpp/examples/ps.cpp, rr.cpp and simple.cpp on the  *)
(* sockets they use.  A user starts processes of one of the programs, each *)
(* in the role its argument names: p publishes, s subscribes, request asks *)
(* and reply answers.  They meet at the one port the program has compiled  *)
(* in, and every one of them gives up after a fixed number of messages.    *)
(*                                                                         *)
(* An object of Sockets is here a process with its one socket.             *)
(***************************************************************************)
EXTENDS Sockets, FiniteSets

CONSTANTS
  Programs,  \* the programs there are: a subset of {"ps", "rr", "simple"}
  port,      \* PORT: the port the processes of a program meet at
  LOOP       \* the messages a process sends, takes or answers

ASSUME ExamplesAssumption ==
  /\ Programs \subseteq {"ps", "rr", "simple"}
  /\ Addrs = {port}
  /\ Data = Objects \X (1..LOOP) /\ Zero \notin Data
  /\ LOOP \in Nat \ {0}

VARIABLES
  program,  \* the program the processes run
  role,     \* role[o]: the argument of process o; "none" if there is no such process
  pc,       \* pc[o]: where process o is
  i,        \* i[o]: how many rounds of its loop it has begun
  heard     \* heard[o]: the messages (for a requester: the answers) it has taken

procVars == <<program, role, pc, i, heard>>
vars == <<socketVars, procVars>>

Arguments(p) == IF p = "rr" THEN {"request", "reply"} ELSE {"p", "s"}

Is(o, argument) == role[o] = argument
Sender(o) == role[o] \in {"p", "request"}
Receiver(o) == role[o] \in {"s", "reply"}

Init ==
  /\ SocketInit
  /\ program \in Programs
  /\ role \in [Objects -> Arguments(program) \cup {"none"}]
  /\ pc = [o \in Objects |-> "off"]
  /\ i = [o \in Objects |-> 0]
  /\ heard = [o \in Objects |-> <<>>]

Goto(o, place) == pc' = [pc EXCEPT ![o] = place]

-----------------------------------------------------------------------------
(***************************************************************************)
(* The start of a process.  Only simple.cpp looks at what socket() and     *)
(* bind() return, and exits; the others go on with a socket that is not    *)
(* there, or that has no name.                                             *)
(***************************************************************************)
NeedsName(o) == Receiver(o) \/ (program = "ps" /\ Is(o, "p"))

Begins(o) ==
  /\ pc[o] = "off" /\ role[o] # "none"
  /\ Construct(o)
  /\ Goto(o, IF program = "simple" /\ fd'[o] = SOCKET_ERR THEN "end"
             ELSE IF NeedsName(o) THEN "made" ELSE "loop")
  /\ UNCHANGED <<program, role, i, heard>>

\* The publisher of ps.cpp and reply() of rr.cpp.
BindsPort(o) ==
  /\ pc[o] = "made"
  /\ Is(o, "p") \/ Is(o, "reply")
  /\ Bind(o, port)
  /\ Goto(o, "loop")
  /\ UNCHANGED <<program, role, i, heard>>

\* The subscribers: simple.cpp makes the calls that connect() is made of.
ConnectsPort(o) ==
  /\ pc[o] = "made"
  /\ Is(o, "s")
  /\ Connect(o, port)
  /\ Goto(o, IF program = "simple" /\ ~result'[2] THEN "end" ELSE "loop")
  /\ UNCHANGED <<program, role, i, heard>>

(***************************************************************************)
(* The loops.                                                              *)
(***************************************************************************)
AfterRound(o) == IF i'[o] = LOOP THEN "end" ELSE "loop"

\* publish(), the first half of request(), sendto() in simple.cpp.
Sends(o) ==
  /\ pc[o] = "loop" /\ Sender(o)
  /\ SendTo(o, port, <<o, i[o] + 1>>)
  /\ i' = [i EXCEPT ![o] = @ + 1]
  /\ Goto(o, IF Is(o, "request") THEN "asked" ELSE AfterRound(o))
  /\ UNCHANGED <<program, role, heard>>

\* once(), the second half of request(), recvfrom() in simple.cpp.
Waits(o) ==
  /\ \/ pc[o] = "loop" /\ Receiver(o) /\ i' = [i EXCEPT ![o] = @ + 1]
     \/ pc[o] = "asked" /\ UNCHANGED i
  /\ Recvfrom(o)
  /\ Goto(o, "waits")
  /\ UNCHANGED <<program, role, heard>>

\* (Mutant: the loop runs one round too many.)
TakesOneMore(o) ==
  /\ pc[o] = "waits"
  /\ RecvReturns(o)
  /\ heard' = [heard EXCEPT ![o] = Append(@, result'[2])]
  /\ Goto(o, IF Is(o, "reply") THEN "answers"
             ELSE IF i[o] > LOOP THEN "end" ELSE "loop")
  /\ UNCHANGED <<program, role, i>>

Takes(o) ==
  /\ pc[o] = "waits"
  /\ RecvReturns(o)
  /\ heard' = [heard EXCEPT ![o] = Append(@, result'[2])]
  /\ UNCHANGED i
  /\ Goto(o, IF Is(o, "reply") THEN "answers" ELSE AfterRound(o))
  /\ UNCHANGED <<program, role>>

TakesNothing(o) ==
  /\ pc[o] = "waits"
  /\ RecvFails(o)
  /\ UNCHANGED i
  /\ Goto(o, AfterRound(o))
  /\ UNCHANGED <<program, role, heard>>

\* cb() answers with the number that is in the request; the other half of a
\* message is the address it came from, where the answer goes.
Asked(o) == heard[o][Len(heard[o])]

\* (Mutant: the answer to the first request, again and again.)
AnswersFirst(o) ==
  /\ pc[o] = "answers"
  /\ SendTo(o, heard[o][1][1], heard[o][1])
  /\ UNCHANGED i
  /\ Goto(o, AfterRound(o))
  /\ UNCHANGED <<program, role, heard>>

\* (Mutant: the answer goes to the address the requester has sent to.)
AnswersPort(o) ==
  /\ pc[o] = "answers"
  /\ SendTo(o, port, Asked(o))
  /\ UNCHANGED i
  /\ Goto(o, AfterRound(o))
  /\ UNCHANGED <<program, role, heard>>

Answers(o) ==
  /\ pc[o] = "answers"
  /\ LET m == Asked(o) IN SendTo(o, m[1], m)
  /\ UNCHANGED i
  /\ Goto(o, AfterRound(o))
  /\ UNCHANGED <<program, role, heard>>

\* The function returns, or the process exits.
Ends(o) ==
  /\ pc[o] = "end"
  /\ Destroy(o)
  /\ Goto(o, "ended")
  /\ UNCHANGED <<program, role, i, heard>>

Carry == Network /\ UNCHANGED procVars

Process(o) == \/ Begins(o) \/ BindsPort(o) \/ ConnectsPort(o) \/ Sends(o) \/ Waits(o)
              \/ Takes(o) \/ TakesNothing(o) \/ Answers(o) \/ Ends(o)

ExamplesNext == Carry \/ \E o \in Objects : Process(o)

\* The user does start the processes, the host runs them all, and datagrams
\* of one host arrive.
ExamplesSpec ==
  /\ Init
  /\ [][ExamplesNext]_vars
  /\ \A o \in Objects : WF_vars(Process(o))
  /\ WF_vars(Carry)

-----------------------------------------------------------------------------
(***************************************************************************)
(* ExamplesTypeOK: the types, and where a process is says what it holds:   *)
(* one that has not begun or has ended holds no socket, and it is inside   *)
(* recvfrom() exactly when its program waits.                              *)
(***************************************************************************)
ExamplesTypeOK ==
  /\ TypeOK
  /\ \A o \in Objects :
       /\ pc[o] \in {"off", "made", "loop", "asked", "waits", "answers", "end", "ended"}
       /\ i[o] \in 0..LOOP
       /\ heard[o] \in Seq(Data) /\ Len(heard[o]) <= i[o]
       /\ pc[o] \in {"off", "ended"} <=> o \notin objs
       /\ pc[o] = "waits" <=> o \in inrecv

(***************************************************************************)
(* ResponsesMatch: nothing tells a requester of rr.cpp which request a     *)
(* response is for; it takes the n-th for the response to its n-th         *)
(* request, and it is, however many requesters and repliers there are and  *)
(* whichever of them own the port.                                         *)
(***************************************************************************)
ResponsesMatch ==
  \A o \in Objects : Is(o, "request") =>
    \A n \in DOMAIN heard[o] : heard[o][n] = <<o, n>>

(***************************************************************************)
(* SubscriberEnds: a subscriber of ps.cpp or simple.cpp that has the port, *)
(* and shares it with nobody, before any process sends, hears as many      *)
(* messages as it waits for and ends.  (One that comes late, or whose      *)
(* publisher has taken the port, waits for ever.)                          *)
(***************************************************************************)
HasPort(o) == IsOpen(o) /\ file[fd[o]].addr = port
NoneHasSent == \A o \in Objects : Sender(o) => i[o] = 0
Alone(o) == \A q \in Objects \ {o} : role[q] # role[o]
SomeSender == \E q \in Objects : Sender(q) /\ (pc[q] = "off" \/ IsOpen(q))

HeardAll(o) == pc[o] = "ended" /\ Len(heard[o]) = LOOP

SubscriberReady ==
  /\ NoneHasSent /\ SomeSender
  /\ \E o \in Objects : Is(o, "s") /\ Alone(o) /\ HasPort(o)

SubscriberEnds ==
  SubscriberReady ~> \A o \in Objects : Is(o, "s") => HeardAll(o)

(***************************************************************************)
(* PairEnds: a requester and a replier that has the port before the first  *)
(* request both end, with all their messages.                              *)
(***************************************************************************)
PairReady ==
  /\ NoneHasSent
  /\ \E o, q \in Objects :
       Is(o, "reply") /\ Alone(o) /\ HasPort(o) /\ Is(q, "request") /\ Alone(q)

PairEnds ==
  PairReady ~> \A o \in Objects : role[o] # "none" => HeardAll(o)

=============================================================================
