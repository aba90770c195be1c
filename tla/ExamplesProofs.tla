---------------------------- MODULE ExamplesProofs ----------------------------
(***************************************************************************)
(* Proofs about Examples, for any number of processes, descriptors and     *)
(* rounds: the types, and that requesters get the answers to their         *)
(* requests, also when datagrams are lost or overtake each other.          *)
(*                                                                         *)
(* A requester has one request at a time: it, or the answer to it, is on   *)
(* one wire, in one buffer or with one replier (OneAway), and nothing of   *)
(* an earlier round is left anywhere (OfTheRound).  Nothing else gets into *)
(* its buffer, because its port is one the kernel chose (HasOwnPort).      *)
(***************************************************************************)
EXTENDS Examples, SocketsProofs

AllPlaces == {"off", "made", "loop", "asked", "waits", "answers", "end", "ended"}

\* The rounds of a process: it has heard no more than it has asked or waited for.
Rounds(o) ==
  /\ Len(heard[o]) <= i[o]
  /\ pc[o] \in {"off", "made", "loop"} => i[o] < LOOP
  /\ pc[o] = "off" => i[o] = 0 /\ heard[o] = <<>>
  /\ pc[o] \in {"asked", "waits"} => Len(heard[o]) < i[o]
  /\ pc[o] = "asked" => Is(o, "request")
  /\ pc[o] = "answers" => Is(o, "reply") /\ heard[o] # <<>>

\* Its socket is there as long as the process is, and is used by its thread only.
Lives(o) ==
  /\ pc[o] \in {"off", "ended"} <=> o \notin objs
  /\ pc[o] = "waits" <=> o \in inrecv

ProcTypes ==
  /\ role \in [Objects -> Arguments(program) \cup {"none"}]
  /\ pc \in [Objects -> AllPlaces]
  /\ i \in [Objects -> 0..LOOP]
  /\ heard \in [Objects -> Seq(Data)]

ProcInv == Inv /\ ProcTypes /\ \A o \in Objects : Rounds(o) /\ Lives(o)

-----------------------------------------------------------------------------
\* No process sets a timeout.
Patient == \A f \in Fds : file[f] # NotOpen => ~file[f].nonblocking /\ file[f].timeout = Forever

\* The messages of a queue that are about o; all of them are.
About(q, o) == {k \in DOMAIN q : q[k][1] = o}
AllOf(q, o) == \A k \in DOMAIN q : q[k][1] = o

\* A requester has the port the kernel gave it, where nothing but answers to it
\* are sent.
HasOwnPort(o) ==
  /\ AddrOf(o) \in {NoAddr, port, o}
  /\ AddrOf(o) = NoAddr => BufferOf(o) = <<>>
  /\ Is(o, "request") => AddrOf(o) # port
  /\ AddrOf(o) = o => AllOf(BufferOf(o), o)
  /\ AllOf(wire[o], o)

\* Where a request, or the answer to it, can be: on a wire, in a buffer, or with
\* a replier that has not answered it.
Places == ({"wire"} \X Ports) \cup ({"buffer", "hand"} \X Objects)

Hand(o) == IF pc[o] = "answers" THEN <<Asked(o)>> ELSE <<>>

Line(p) ==
  CASE p[1] = "wire"   -> wire[p[2]]
    [] p[1] = "buffer" -> BufferOf(p[2])
    [] OTHER           -> Hand(p[2])

OneAway(o) ==
  \A p, q \in Places : \A j \in About(Line(p), o), k \in About(Line(q), o) : p = q /\ j = k

OfTheRound(o) ==
  \A p \in Places : \A k \in About(Line(p), o) :
    Line(p)[k] = <<o, i[o]>> /\ pc[o] \in {"asked", "waits"} /\ IsOpen(o)

HeardInTurn(o) ==
  /\ \A n \in DOMAIN heard[o] : heard[o][n] = <<o, n>>
  /\ IsOpen(o) => Len(heard[o]) = IF pc[o] \in {"asked", "waits"} THEN i[o] - 1 ELSE i[o]

Requester(o) == Is(o, "request") => OneAway(o) /\ OfTheRound(o) /\ HeardInTurn(o)

AnswerInv ==
  ProcInv /\ Patient /\ \A o \in Objects : HasOwnPort(o) /\ Requester(o)

-----------------------------------------------------------------------------
(***************************************************************************)
(* Processes, and the calls they make.                                     *)
(***************************************************************************)
LEMMA Members ==
  /\ Addrs = {port} /\ port \notin Objects /\ NoAddr \notin Objects /\ NoAddr # port
  /\ port \in Ports /\ Objects \subseteq Ports /\ Ports = {port} \cup Objects
  /\ LOOP \in Nat /\ LOOP > 0
  /\ Zero \notin Data /\ Empty \notin Data
  /\ \A m \in Data : m[1] \in Objects /\ m[2] \in 1..LOOP /\ m = <<m[1], m[2]>>
  /\ \A o \in Objects : \A n \in 1..LOOP :
       <<o, n>> \in Data /\ <<o, n>>[1] = o /\ <<o, n>>[2] = n
<1>1. /\ Addrs = {port} /\ Data = Objects \X (1..LOOP) /\ Zero \notin Data
      /\ LOOP \in Nat \ {0}
  BY ExamplesAssumption
<1>2. NoAddr \notin Addrs \cup Objects /\ Addrs \cap Objects = {} /\ Empty \notin Data
  BY SocketsAssumption
<1> QED
  BY <1>1, <1>2 DEF Ports

LEMMA Moves ==
  ASSUME ProcTypes, NEW o \in Objects, NEW place \in AllPlaces, Goto(o, place)
  PROVE  /\ pc' \in [Objects -> AllPlaces]
         /\ pc'[o] = place
         /\ \A p \in Objects \ {o} : pc'[p] = pc[p]
BY DEF ProcTypes, Goto, AllPlaces

\* The types of what belongs to one process.
LEMMA ProcOf ==
  ASSUME ProcTypes, NEW o \in Objects
  PROVE  /\ pc[o] \in AllPlaces /\ i[o] \in 0..LOOP /\ i[o] \in Nat
         /\ heard[o] \in Seq(Data) /\ Len(heard[o]) \in Nat
         /\ role[o] \in {"p", "s", "request", "reply", "none"}
<1>1. heard[o] \in Seq(Data)
  BY DEF ProcTypes
<1> QED
  BY <1>1, Members DEF ProcTypes, Arguments, AllPlaces

\* A replier that answers has taken a message, and knows where it came from.
LEMMA AskedIs ==
  ASSUME ProcInv, NEW o \in Objects, pc[o] = "answers"
  PROVE  Asked(o) \in Data /\ Asked(o)[1] \in Objects /\ Asked(o)[1] \in Ports
<1>1. heard[o] \in Seq(Data) /\ heard[o] # <<>>
  BY ProcOf DEF ProcInv, Rounds
<1>2. Asked(o) \in Data
  BY <1>1 DEF Asked
<1> QED
  BY <1>2, Members

\* Every round has a message of its own.
LEMMA SendsData ==
  ASSUME ProcInv, NEW o \in Objects, pc[o] = "loop"
  PROVE  i[o] + 1 \in 0..LOOP /\ <<o, i[o] + 1>> \in Data
<1>1. i[o] \in 0..LOOP /\ i[o] < LOOP /\ LOOP \in Nat
  BY ProcOf, Members DEF ProcInv, Rounds
<1>2. i[o] + 1 \in 1..LOOP
  BY <1>1
<1> QED
  BY <1>1, <1>2, Members

\* What recvfrom() returns is at the head of the buffer.
LEMMA TakesHead ==
  ASSUME Inv, NEW o \in Objects, RecvReturns(o)
  PROVE  /\ result'[2] = Head(BufferOf(o)) /\ BufferOf(o) # <<>>
         /\ BufferOf(o) \in Seq(Data) /\ Head(BufferOf(o)) \in Data
<1>1. BufferOf(o) # <<>> /\ BufferOf(o) \in Seq(Data)
  BY SocketTypes, ReturnSocket
<1>2. Head(BufferOf(o)) \in Data
  BY <1>1
<1>3. result' = <<"recvfrom", Head(BufferOf(o))>>
  <2>1. Head(BufferOf(o)) # Zero
    BY <1>2, Members
  <2> QED
    BY <2>1, ReturnSocket
<1> QED
  BY <1>1, <1>2, <1>3

\* Every step makes calls of Sockets, or has the network make one.
LEMMA CallsOfSockets ==
  ASSUME ProcInv, ExamplesNext
  PROVE  Inv'
<1> USE Members
<1>i. Inv
  BY DEF ProcInv
<1>n. ASSUME Next PROVE Inv'
  BY <1>i, <1>n, NextInv
<1>1. CASE Carry
  BY <1>1, <1>n DEF Carry, Next
<1>2. ASSUME NEW o \in Objects, Process(o)
      PROVE  Inv'
  <2>1. CASE Begins(o)
    BY <1>n, <2>1 DEF Begins, Next, Calls
  <2>2. CASE BindsPort(o) \/ ConnectsPort(o)
    BY <1>n, <2>2 DEF BindsPort, ConnectsPort, Next, Calls, Binds
  <2>3. CASE Sends(o)
    BY <1>i, <2>3, SendsData, SendToInv DEF Sends
  <2>4. CASE Waits(o)
    BY <1>n, <2>4 DEF Waits, Next, Calls, Uses
  <2>5. CASE Takes(o) \/ TakesNothing(o)
    BY <1>n, <2>5 DEF Takes, TakesNothing, Next, Calls, Uses
  <2>6. CASE Answers(o)
    <3>1. pc[o] = "answers" /\ SendTo(o, Asked(o)[1], Asked(o))
      BY <2>6 DEF Answers
    <3>2. Asked(o) \in Data /\ Asked(o)[1] \in Ports
      BY <3>1, AskedIs
    <3> QED
      BY <1>i, <3>1, <3>2, SendToInv
  <2>7. CASE Ends(o)
    BY <1>n, <2>7 DEF Ends, Next, Calls
  <2> QED
    BY <1>2, <2>1, <2>2, <2>3, <2>4, <2>5, <2>6, <2>7 DEF Process
<1> QED
  BY <1>1, <1>2 DEF ExamplesNext

-----------------------------------------------------------------------------
(***************************************************************************)
(* The types, and where processes are.                                     *)
(***************************************************************************)

\* A step of one process leaves the others where they are.
LEMMA ProcFrame ==
  ASSUME ProcInv, NEW o \in Objects, Process(o)
  PROVE  /\ UNCHANGED <<program, role>>
         /\ \A p \in Objects \ {o} :
              /\ pc'[p] = pc[p] /\ i'[p] = i[p] /\ heard'[p] = heard[p]
              /\ (p \in objs' <=> p \in objs) /\ (p \in inrecv' <=> p \in inrecv)
<1>t. ProcTypes
  BY DEF ProcInv
<1>g. ASSUME NEW place, Goto(o, place)
      PROVE  \A p \in Objects \ {o} : pc'[p] = pc[p]
  BY <1>t, <1>g DEF ProcTypes, Goto
<1>1. CASE Begins(o)
  BY <1>1, <1>g DEF Begins, Construct
<1>2. CASE BindsPort(o) \/ ConnectsPort(o)
  BY <1>2, <1>g DEF BindsPort, ConnectsPort, Bind, Connect
<1>3. CASE Sends(o)
  BY <1>t, <1>3, <1>g DEF Sends, SendTo, ProcTypes
<1>4. CASE Waits(o)
  BY <1>t, <1>4, <1>g DEF Waits, Recvfrom, ProcTypes
<1>5. CASE Takes(o)
  BY <1>t, <1>5, <1>g DEF Takes, RecvReturns, Returned, ProcTypes
<1>6. CASE TakesNothing(o)
  BY <1>6, <1>g DEF TakesNothing, RecvFails, Returned
<1>7. CASE Answers(o)
  BY <1>7, <1>g DEF Answers, SendTo
<1>8. CASE Ends(o)
  BY <1>8, <1>g DEF Ends, Destroy
<1> QED
  BY <1>1, <1>2, <1>3, <1>4, <1>5, <1>6, <1>7, <1>8 DEF Process

\* What each of the steps of o does to o.
LEMMA ProcSteps ==
  ASSUME ProcInv, NEW o \in Objects, Process(o)
  PROVE  /\ pc' \in [Objects -> AllPlaces] /\ i' \in [Objects -> 0..LOOP]
         /\ heard' \in [Objects -> Seq(Data)]
         /\ Rounds(o)' /\ Lives(o)'
<1> USE Members
<1>t. /\ ProcTypes /\ Inv /\ Rounds(o) /\ Lives(o)
      /\ pc[o] \in AllPlaces /\ i[o] \in 0..LOOP /\ i[o] \in Nat
      /\ heard[o] \in Seq(Data) /\ Len(heard[o]) \in Nat
      /\ role[o] \in {"p", "s", "request", "reply", "none"}
      /\ i \in [Objects -> 0..LOOP] /\ heard \in [Objects -> Seq(Data)]
      /\ inrecv \subseteq objs
  BY ProcOf DEF ProcInv, ProcTypes, Inv, TypeOK
<1>r. role' = role
  BY ProcFrame
<1>g. ASSUME NEW place \in AllPlaces, Goto(o, place)
      PROVE  pc' \in [Objects -> AllPlaces] /\ pc'[o] = place
  BY <1>t, <1>g, Moves
<1>1. CASE Begins(o)
  <2>1. PICK place \in {"end", "made", "loop"} : Goto(o, place)
    BY <1>1 DEF Begins
  <2>2. /\ pc[o] = "off" /\ UNCHANGED <<i, heard, inrecv>> /\ objs' = objs \cup {o}
    BY <1>1 DEF Begins, Construct
  <2>3. pc' \in [Objects -> AllPlaces] /\ pc'[o] = place
    BY <1>g, <2>1 DEF AllPlaces
  <2>4. i[o] = 0 /\ heard[o] = <<>> /\ Len(heard[o]) = 0 /\ o \notin objs /\ o \notin inrecv
    BY <1>t, <2>2 DEF Rounds, Lives
  <2>5. Rounds(o)'
    BY <2>1, <2>2, <2>3, <2>4 DEF Rounds, Is
  <2>6. Lives(o)'
    BY <2>1, <2>2, <2>3, <2>4 DEF Lives
  <2> QED
    BY <1>t, <2>2, <2>3, <2>5, <2>6
<1>2. CASE BindsPort(o) \/ ConnectsPort(o)
  <2>1. PICK place \in {"end", "loop"} : Goto(o, place)
    BY <1>2 DEF BindsPort, ConnectsPort
  <2>2. /\ pc[o] = "made" /\ UNCHANGED <<i, heard, inrecv, objs>>
    BY <1>2 DEF BindsPort, ConnectsPort, Bind, Connect
  <2>3. pc' \in [Objects -> AllPlaces] /\ pc'[o] = place
    BY <1>g, <2>1 DEF AllPlaces
  <2>4. i[o] < LOOP /\ o \in objs /\ o \notin inrecv /\ Len(heard[o]) <= i[o]
    BY <1>t, <2>2 DEF Rounds, Lives
  <2>5. Rounds(o)'
    BY <2>1, <2>2, <2>3, <2>4 DEF Rounds, Is
  <2>6. Lives(o)'
    BY <2>1, <2>2, <2>3, <2>4 DEF Lives
  <2> QED
    BY <1>t, <2>2, <2>3, <2>5, <2>6
<1>3. CASE Sends(o)
  <2>1. /\ pc[o] = "loop" /\ UNCHANGED <<heard, inrecv, objs>>
        /\ i' = [i EXCEPT ![o] = i[o] + 1]
        /\ Goto(o, IF Is(o, "request") THEN "asked" ELSE AfterRound(o))
    BY <1>3 DEF Sends, SendTo
  <2>n. i[o] + 1 \in 0..LOOP
    BY <2>1, SendsData
  <2>2. i' \in [Objects -> 0..LOOP] /\ i'[o] = i[o] + 1
    BY <1>t, <2>1, <2>n
  <2>3. /\ pc' \in [Objects -> AllPlaces]
        /\ pc'[o] = IF Is(o, "request") THEN "asked" ELSE IF i[o] + 1 = LOOP THEN "end" ELSE "loop"
    BY <1>g, <2>1, <2>2 DEF AllPlaces, AfterRound
  <2>4. i[o] + 1 <= LOOP /\ Len(heard[o]) < i[o] + 1 /\ o \in objs /\ o \notin inrecv
    BY <1>t, <2>1 DEF Rounds, Lives
  <2>d. /\ pc'[o] \in {"asked", "end", "loop"} /\ (pc'[o] = "loop" => i[o] + 1 # LOOP)
        /\ (pc'[o] = "asked" => role'[o] = "request")
    BY <1>r, <2>3 DEF Is
  <2>5. Rounds(o)'
    BY <1>t, <2>1, <2>2, <2>d, <2>4 DEF Rounds, Is
  <2>6. Lives(o)'
    BY <2>1, <2>3, <2>4 DEF Lives
  <2> QED
    BY <1>t, <2>1, <2>2, <2>3, <2>5, <2>6
<1>4. CASE Waits(o)
  <2>1. /\ \/ pc[o] = "loop" /\ Receiver(o) /\ i' = [i EXCEPT ![o] = i[o] + 1]
           \/ pc[o] = "asked" /\ UNCHANGED i
        /\ UNCHANGED <<heard, objs>> /\ inrecv' = inrecv \cup {o}
    BY <1>4 DEF Waits, Recvfrom
  <2>2. pc' \in [Objects -> AllPlaces] /\ pc'[o] = "waits"
    BY <1>4, <1>g DEF Waits, AllPlaces
  <2>3. i' \in [Objects -> 0..LOOP] /\ Len(heard[o]) < i'[o]
    <3>1. CASE pc[o] = "loop" /\ i' = [i EXCEPT ![o] = i[o] + 1]
      <4>n. i[o] + 1 \in 0..LOOP
        BY <3>1, SendsData
      <4>1. i' \in [Objects -> 0..LOOP] /\ i'[o] = i[o] + 1
        BY <1>t, <3>1, <4>n
      <4> QED
        BY <1>t, <4>1 DEF Rounds
    <3>2. CASE pc[o] = "asked" /\ UNCHANGED i
      BY <1>t, <3>2 DEF Rounds
    <3> QED
      BY <2>1, <3>1, <3>2
  <2>4. o \in objs /\ o \in inrecv'
    BY <1>t, <2>1 DEF Lives
  <2>5. i'[o] \in Nat
    BY <2>3
  <2>e. Len(heard'[o]) < i'[o]
    BY <2>1, <2>3
  <2>6. Rounds(o)'
    BY <1>t, <2>2, <2>e, <2>5 DEF Rounds
  <2>7. Lives(o)'
    BY <2>1, <2>2, <2>4 DEF Lives
  <2> QED
    BY <1>t, <2>1, <2>2, <2>3, <2>6, <2>7
<1>5. CASE Takes(o)
  <2> DEFINE m == result'[2]
  <2>1. /\ pc[o] = "waits" /\ UNCHANGED <<i, objs>> /\ inrecv' = inrecv \ {o}
        /\ RecvReturns(o) /\ heard' = [heard EXCEPT ![o] = Append(heard[o], m)]
        /\ Goto(o, IF Is(o, "reply") THEN "answers" ELSE AfterRound(o))
    BY <1>5 DEF Takes, RecvReturns, Returned
  <2>2. m \in Data
    <3>1. RecvReturns(o) /\ Inv
      BY <1>t, <2>1
    <3>2. m = Head(BufferOf(o)) /\ Head(BufferOf(o)) \in Data
      BY <3>1, TakesHead
    <3> QED
      BY <3>2
  <2> HIDE DEF m
  <2>h. heard[o] \in Seq(Data) /\ m \in Data
    BY <1>t, <2>2
  <2>3. /\ Append(heard[o], m) \in Seq(Data) /\ Len(Append(heard[o], m)) = Len(heard[o]) + 1
        /\ Append(heard[o], m) # <<>>
    BY ONLY <2>h, AppendProperties
  <2>4. heard' \in [Objects -> Seq(Data)] /\ heard'[o] = Append(heard[o], m)
    BY <1>t, <2>1, <2>3
  <2>5. /\ pc' \in [Objects -> AllPlaces]
        /\ pc'[o] = IF Is(o, "reply") THEN "answers" ELSE IF i[o] = LOOP THEN "end" ELSE "loop"
    BY <1>g, <2>1 DEF AllPlaces, AfterRound
  <2>6. Len(heard[o]) < i[o] /\ i[o] <= LOOP
    BY <1>t, <2>1 DEF Rounds
  <2>d. /\ pc'[o] \in {"answers", "end", "loop"} /\ (pc'[o] = "loop" => i[o] # LOOP)
        /\ (pc'[o] = "answers" => role'[o] = "reply")
    BY <1>r, <2>5 DEF Is
  <2>e. heard'[o] # <<>> /\ Len(heard'[o]) = Len(heard[o]) + 1 /\ i' = i
    BY <2>1, <2>3, <2>4
  <2>7. Rounds(o)'
    BY <1>t, <2>d, <2>e, <2>6 DEF Rounds, Is
  <2>f. o \in objs /\ o \notin inrecv' /\ objs' = objs
    BY <1>t, <2>1 DEF Lives
  <2>8. Lives(o)'
    BY <2>d, <2>f DEF Lives
  <2> QED
    BY <1>t, <2>1, <2>4, <2>5, <2>7, <2>8
<1>6. CASE TakesNothing(o)
  <2>1. /\ pc[o] = "waits" /\ UNCHANGED <<i, heard, objs>> /\ inrecv' = inrecv \ {o}
        /\ Goto(o, AfterRound(o))
    BY <1>6 DEF TakesNothing, RecvFails, Returned
  <2>2. /\ pc' \in [Objects -> AllPlaces]
        /\ pc'[o] = IF i[o] = LOOP THEN "end" ELSE "loop"
    BY <1>g, <2>1 DEF AllPlaces, AfterRound
  <2>3. Rounds(o)'
    BY <1>t, <1>r, <2>1, <2>2 DEF Rounds, Is
  <2>4. Lives(o)'
    BY <1>t, <2>1, <2>2 DEF Lives
  <2> QED
    BY <1>t, <2>1, <2>2, <2>3, <2>4
<1>7. CASE Answers(o)
  <2>1. /\ pc[o] = "answers" /\ UNCHANGED <<i, heard, objs, inrecv>>
        /\ Goto(o, AfterRound(o))
    BY <1>7 DEF Answers, SendTo
  <2>2. /\ pc' \in [Objects -> AllPlaces]
        /\ pc'[o] = IF i[o] = LOOP THEN "end" ELSE "loop"
    BY <1>g, <2>1 DEF AllPlaces, AfterRound
  <2>3. Rounds(o)'
    BY <1>t, <1>r, <2>1, <2>2 DEF Rounds, Is
  <2>4. Lives(o)'
    BY <1>t, <2>1, <2>2 DEF Lives
  <2> QED
    BY <1>t, <2>1, <2>2, <2>3, <2>4
<1>8. CASE Ends(o)
  <2>1. /\ pc[o] = "end" /\ UNCHANGED <<i, heard, inrecv>> /\ objs' = objs \ {o}
    BY <1>8 DEF Ends, Destroy
  <2>2. pc' \in [Objects -> AllPlaces] /\ pc'[o] = "ended"
    BY <1>8, <1>g DEF Ends, AllPlaces
  <2>3. Rounds(o)'
    BY <1>t, <2>1, <2>2 DEF Rounds
  <2>4. Lives(o)'
    BY <1>t, <2>1, <2>2 DEF Lives
  <2> QED
    BY <1>t, <2>1, <2>2, <2>3, <2>4
<1> QED
  BY <1>1, <1>2, <1>3, <1>4, <1>5, <1>6, <1>7, <1>8 DEF Process

LEMMA ProcNext == ProcInv /\ [ExamplesNext]_vars => ProcInv'
<1> SUFFICES ASSUME ProcInv, [ExamplesNext]_vars PROVE ProcInv'
  OBVIOUS
<1>1. ASSUME NEW o \in Objects, Process(o)
      PROVE  ProcInv'
  <2>1. Inv'
    BY <1>1, CallsOfSockets DEF ExamplesNext
  <2>2. ProcTypes'
    BY <1>1, ProcFrame, ProcSteps DEF ProcInv, ProcTypes
  <2>3. ASSUME NEW p \in Objects
        PROVE  Rounds(p)' /\ Lives(p)'
    <3>1. CASE p = o
      BY <1>1, <3>1, ProcSteps
    <3>2. CASE p # o
      BY <1>1, <3>2, ProcFrame DEF ProcInv, Rounds, Lives, Is
    <3> QED
      BY <3>1, <3>2
  <2> QED
    BY <2>1, <2>2, <2>3 DEF ProcInv
<1>2. CASE Carry
  <2>1. Inv'
    BY <1>2, CallsOfSockets DEF ExamplesNext
  <2>2. UNCHANGED <<objs, inrecv, program, role, pc, i, heard>>
    BY <1>2 DEF Carry, Network, Deliver, procVars
  <2> QED
    BY <2>1, <2>2 DEF ProcInv, ProcTypes, Rounds, Lives, Is
<1>3. CASE UNCHANGED vars
  <2>1. Inv'
    BY <1>3, NextInv DEF ProcInv, vars
  <2>2. UNCHANGED <<objs, inrecv, program, role, pc, i, heard>>
    BY <1>3 DEF vars, socketVars, procVars
  <2> QED
    BY <2>1, <2>2 DEF ProcInv, ProcTypes, Rounds, Lives, Is
<1> QED
  BY <1>1, <1>2, <1>3 DEF ExamplesNext

LEMMA ProcInit == Init => ProcInv
<1> SUFFICES ASSUME Init PROVE ProcInv
  OBVIOUS
<1> USE Members
<1>1. Inv
  BY InitInv DEF Init
<1>2. ProcTypes
  BY DEF Init, ProcTypes, AllPlaces
<1>3. \A o \in Objects : Rounds(o) /\ Lives(o)
  BY DEF Init, SocketInit, Rounds, Lives
<1> QED
  BY <1>1, <1>2, <1>3 DEF ProcInv

\* ExamplesTypeOK, for any number of processes: where a process is says whether it
\* holds a socket and whether it is inside recvfrom(), and it has heard no more
\* than it has had rounds.
THEOREM ExamplesTyping == ExamplesSpec => []ExamplesTypeOK
<1>1. ProcInv => ExamplesTypeOK
  <2> SUFFICES ASSUME ProcInv PROVE ExamplesTypeOK
    OBVIOUS
  <2>1. TypeOK
    BY DEF ProcInv, Inv
  <2>2. ASSUME NEW o \in Objects
        PROVE  /\ pc[o] \in AllPlaces /\ i[o] \in 0..LOOP
               /\ heard[o] \in Seq(Data) /\ Len(heard[o]) <= i[o]
               /\ pc[o] \in {"off", "ended"} <=> o \notin objs
               /\ pc[o] = "waits" <=> o \in inrecv
    BY ProcOf DEF ProcInv, Rounds, Lives
  <2> QED
    BY <2>1, <2>2 DEF ExamplesTypeOK, AllPlaces
<1> QED
  BY ProcInit, ProcNext, <1>1, PTL DEF ExamplesSpec
-----------------------------------------------------------------------------
(***************************************************************************)
(* What the queues hold of a process: lemmas about sequences.              *)
(***************************************************************************)

\* r holds no more about o than q does, and the same.
NoMore(r, q, o) ==
  /\ \A j \in About(r, o) : \E k \in About(q, o) : r[j] = q[k]
  /\ (\A j, k \in About(q, o) : j = k) => \A j, k \in About(r, o) : j = k

LEMMA SameNoMore == ASSUME NEW q, NEW o PROVE NoMore(q, q, o)
BY DEF NoMore

LEMMA EmptyNoMore == ASSUME NEW q, NEW o PROVE NoMore(<<>>, q, o) /\ About(<<>>, o) = {}
BY DEF NoMore, About

\* The n-th message is taken out.
LEMMA WithoutNoMore ==
  ASSUME NEW q \in Seq(Data), NEW n \in DOMAIN q, NEW o
  PROVE  /\ NoMore(Without(q, n), q, o)
         /\ n \in About(q, o) /\ (\A j, k \in About(q, o) : j = k) =>
              About(Without(q, n), o) = {}
<1> DEFINE r == Without(q, n)
           From(j) == IF j < n THEN j ELSE j + 1
<1>0. n \in Nat
  OBVIOUS
<1>1. \A j \in DOMAIN r :
        j \in Nat /\ From(j) \in DOMAIN q /\ r[j] = q[From(j)] /\ From(j) # n
  BY <1>0, WithoutElements
<1>2. \A j, k \in Nat : From(j) = From(k) => j = k
  BY <1>0
<1> HIDE DEF r, From
<1>3. \A j \in About(r, o) : j \in Nat /\ From(j) \in About(q, o) /\ r[j] = q[From(j)] /\ From(j) # n
  BY <1>1 DEF About
<1>4. NoMore(r, q, o)
  BY <1>2, <1>3 DEF NoMore
<1>5. ASSUME n \in About(q, o), \A j, k \in About(q, o) : j = k
      PROVE  About(r, o) = {}
  BY <1>3, <1>5
<1> QED
  BY <1>4, <1>5 DEF r

\* The first one is.
LEMMA TailNoMore ==
  ASSUME NEW q \in Seq(Data), q # <<>>, NEW o
  PROVE  /\ NoMore(Tail(q), q, o)
         /\ 1 \in DOMAIN q /\ q[1] = Head(q)
         /\ Head(q)[1] = o => 1 \in About(q, o)
         /\ Head(q)[1] = o /\ (\A j, k \in About(q, o) : j = k) => About(Tail(q), o) = {}
<1>1. 1 \in DOMAIN q /\ q[1] = Head(q)
  OBVIOUS
<1>2. Head(q)[1] = o => 1 \in About(q, o)
  BY <1>1 DEF About
<1> QED
  BY <1>1, <1>2, FirstOut, WithoutNoMore

\* One arrives.
LEMMA AppendNoMore ==
  ASSUME NEW q \in Seq(Data), NEW m \in Data, NEW o
  PROVE  /\ m[1] # o => NoMore(Append(q, m), q, o)
         /\ About(q, o) = {} =>
              \A j, k \in About(Append(q, m), o) : j = k /\ Append(q, m)[k] = m
<1> DEFINE r == Append(q, m)
<1>1. \A k \in DOMAIN r : \/ k \in DOMAIN q /\ r[k] = q[k]
                          \/ k = Len(q) + 1 /\ r[k] = m
  OBVIOUS
<1>2. \A k \in DOMAIN q : r[k] = q[k]
  OBVIOUS
<1> HIDE DEF r
<1>3. ASSUME m[1] # o
      PROVE  NoMore(r, q, o)
  <2>1. \A k \in About(r, o) : k \in About(q, o) /\ r[k] = q[k]
    BY <1>1, <1>3 DEF About
  <2> QED
    BY <2>1 DEF NoMore
<1>4. ASSUME About(q, o) = {}
      PROVE  \A j, k \in About(r, o) : j = k /\ r[k] = m
  <2>1. \A k \in About(r, o) : k = Len(q) + 1 /\ r[k] = m
    BY <1>1, <1>4 DEF About
  <2> QED
    BY <2>1
<1> QED
  BY <1>3, <1>4 DEF r

LEMMA AllOfKept ==
  ASSUME NEW q \in Seq(Data), NEW o, AllOf(q, o)
  PROVE  /\ q # <<>> => AllOf(Tail(q), o)
         /\ \A n \in DOMAIN q : AllOf(Without(q, n), o)
         /\ \A m \in Data : m[1] = o => AllOf(Append(q, m), o)
<1>1. ASSUME NEW n \in DOMAIN q
      PROVE  AllOf(Without(q, n), o)
  <2>0. n \in Nat
    OBVIOUS
  <2>1. \A j \in DOMAIN Without(q, n) : \E k \in DOMAIN q : Without(q, n)[j] = q[k]
    BY <2>0, WithoutElements
  <2> QED
    BY <2>1 DEF AllOf
<1>2. ASSUME q # <<>>
      PROVE  AllOf(Tail(q), o)
  <2>1. 1 \in DOMAIN q
    BY <1>2
  <2> QED
    BY <1>1, <1>2, <2>1, FirstOut
<1>3. ASSUME NEW m \in Data, m[1] = o
      PROVE  AllOf(Append(q, m), o)
  <2>1. \A k \in DOMAIN Append(q, m) : \/ k \in DOMAIN q /\ Append(q, m)[k] = q[k]
                                       \/ Append(q, m)[k] = m
    OBVIOUS
  <2> QED
    BY <1>3, <2>1 DEF AllOf
<1> QED
  BY <1>1, <1>2, <1>3
-----------------------------------------------------------------------------
(***************************************************************************)
(* What is under way for a requester.                                      *)
(***************************************************************************)
OnWire(a) == <<"wire", a>>
InBuffer(o) == <<"buffer", o>>
InHand(o) == <<"hand", o>>

LEMMA Lines ==
  /\ \A a \in Ports : OnWire(a) \in Places /\ Line(OnWire(a)) = wire[a]
  /\ \A e \in Objects : InBuffer(e) \in Places /\ Line(InBuffer(e)) = BufferOf(e)
  /\ \A e \in Objects : InHand(e) \in Places /\ Line(InHand(e)) = Hand(e)
  /\ \A p \in Places : \/ \E a \in Ports : p = OnWire(a)
                       \/ \E e \in Objects : p = InBuffer(e) \/ p = InHand(e)
  /\ \A a, b : OnWire(a) # InBuffer(b) /\ OnWire(a) # InHand(b) /\ InBuffer(a) # InHand(b)
  /\ \A a, b : a # b => OnWire(a) # OnWire(b) /\ InBuffer(a) # InBuffer(b) /\ InHand(a) # InHand(b)
BY DEF Places, Line, OnWire, InBuffer, InHand

LEMMA LinesNext ==
  /\ \A a \in Ports : Line(OnWire(a))' = wire'[a]
  /\ \A e \in Objects : Line(InBuffer(e))' = BufferOf(e)'
  /\ \A e \in Objects : Line(InHand(e))' = Hand(e)'
BY DEF Line, OnWire, InBuffer, InHand

Same(p) == Line(p)' = Line(p)
Nowhere(o) == \A p \in Places : About(Line(p), o) = {}

\* A requester that waits for nothing has nothing under way.
LEMMA UnaskedNowhere ==
  ASSUME NEW o \in Objects, OfTheRound(o), pc[o] \notin {"asked", "waits"} \/ ~IsOpen(o)
  PROVE  Nowhere(o)
BY DEF OfTheRound, Nowhere

LEMMA NowhereRequester ==
  ASSUME NEW o \in Objects, Nowhere(o)'
  PROVE  OneAway(o)' /\ OfTheRound(o)'
BY DEF Nowhere, OneAway, OfTheRound

LEMMA NowhereKept ==
  ASSUME NEW o \in Objects, Nowhere(o), \A p \in Places : NoMore(Line(p)', Line(p), o)
  PROVE  Nowhere(o)'
BY DEF Nowhere, NoMore

\* A step that brings o nothing new keeps what is under way in order.
LEMMA KeptAway ==
  ASSUME NEW o \in Objects, OneAway(o), OfTheRound(o),
         \A p \in Places : NoMore(Line(p)', Line(p), o),
         i'[o] = i[o], fd'[o] = fd[o],
         pc[o] \in {"asked", "waits"} => pc'[o] \in {"asked", "waits"}
  PROVE  OneAway(o)' /\ OfTheRound(o)'
<1>1. \A p \in Places : \A j \in About(Line(p)', o) : \E k \in About(Line(p), o) : Line(p)'[j] = Line(p)[k]
  BY DEF NoMore
<1>2. \A p \in Places : \A j, k \in About(Line(p), o) : j = k
  BY DEF OneAway
<1>3. \A p \in Places : \A j, k \in About(Line(p)', o) : j = k
  BY <1>2 DEF NoMore
<1>4. OneAway(o)'
  <2> SUFFICES ASSUME NEW p \in Places, NEW q \in Places,
                      NEW j \in About(Line(p)', o), NEW k \in About(Line(q)', o)
               PROVE  p = q /\ j = k
    BY DEF OneAway
  <2>1. p = q
    BY <1>1 DEF OneAway
  <2> QED
    BY <2>1, <1>3
<1>5. OfTheRound(o)'
  <2> SUFFICES ASSUME NEW p \in Places, NEW j \in About(Line(p)', o)
               PROVE  /\ Line(p)'[j] = <<o, i'[o]>> /\ pc'[o] \in {"asked", "waits"}
                      /\ IsOpen(o)'
    BY DEF OfTheRound
  <2>1. PICK k \in About(Line(p), o) : Line(p)'[j] = Line(p)[k]
    BY <1>1
  <2>2. Line(p)[k] = <<o, i[o]>> /\ pc[o] \in {"asked", "waits"} /\ IsOpen(o)
    BY DEF OfTheRound
  <2> QED
    BY <2>1, <2>2 DEF IsOpen
<1> QED
  BY <1>4, <1>5

\* The message about o leaves place p, and comes to place q.
LEMMA MovedAway ==
  ASSUME NEW o \in Objects, OneAway(o), OfTheRound(o),
         NEW p \in Places, NEW q \in Places, p # q, NEW n \in About(Line(p), o),
         About(Line(p)', o) = {},
         \A j, k \in About(Line(q)', o) : j = k /\ Line(q)'[k] = Line(p)[n],
         \A x \in Places \ {p, q} : Same(x),
         i'[o] = i[o], fd'[o] = fd[o],
         pc[o] \in {"asked", "waits"} => pc'[o] \in {"asked", "waits"}
  PROVE  OneAway(o)' /\ OfTheRound(o)'
<1>1. \A x \in Places \ {p} : About(Line(x), o) = {}
  BY DEF OneAway
<1>2. \A x \in Places \ {q} : About(Line(x)', o) = {}
  BY <1>1 DEF Same
<1>3. OneAway(o)'
  BY <1>2 DEF OneAway
<1>4. Line(p)[n] = <<o, i[o]>> /\ pc[o] \in {"asked", "waits"} /\ IsOpen(o)
  BY DEF OfTheRound
<1>5. ASSUME NEW x \in Places, NEW k \in About(Line(x)', o)
      PROVE  Line(x)'[k] = <<o, i'[o]>> /\ pc'[o] \in {"asked", "waits"} /\ IsOpen(o)'
  <2>1. x = q
    BY <1>2
  <2>2. Line(x)'[k] = Line(p)[n]
    BY <2>1
  <2> QED
    BY <2>2, <1>4 DEF IsOpen
<1>6. OfTheRound(o)'
  BY <1>5 DEF OfTheRound
<1> QED
  BY <1>3, <1>6

\* Nothing is under way, and one message comes to place q.
LEMMA Asks ==
  ASSUME NEW o \in Objects, Nowhere(o), NEW q \in Places,
         \A j, k \in About(Line(q)', o) : j = k /\ Line(q)'[k] = <<o, i'[o]>>,
         \A x \in Places \ {q} : NoMore(Line(x)', Line(x), o),
         IsOpen(o)', pc'[o] \in {"asked", "waits"}
  PROVE  OneAway(o)' /\ OfTheRound(o)'
<1>1. \A x \in Places \ {q} : About(Line(x)', o) = {}
  BY DEF Nowhere, NoMore
<1>2. OneAway(o)'
  BY <1>1 DEF OneAway
<1>3. OfTheRound(o)'
  BY <1>1 DEF OfTheRound
<1> QED
  BY <1>2, <1>3
\* What a step leaves alone of a process it is not a step of.
Unmoved(o) == /\ role' = role /\ pc'[o] = pc[o] /\ i'[o] = i[o]
              /\ heard'[o] = heard[o] /\ fd'[o] = fd[o]

LEMMA OthersUnmoved ==
  ASSUME ProcInv, NEW e \in Objects, Process(e)
  PROVE  \A o \in Objects \ {e} : Unmoved(o) /\ Hand(o)' = Hand(o)
<1>1. \A o \in Objects \ {e} : fd'[o] = fd[o]
  <2>t. fd \in [Objects -> Fds \cup {SOCKET_ERR}]
    BY DEF ProcInv, Inv, TypeOK
  <2>1. CASE Begins(e)
    BY <2>t, <2>1 DEF Begins, Construct
  <2>2. CASE Ends(e)
    BY <2>t, <2>2 DEF Ends, Destroy, CloseFd
  <2>3. CASE ~Begins(e) /\ ~Ends(e)
    BY <2>3 DEF Process, BindsPort, ConnectsPort, Sends, Waits, Takes, TakesNothing, Answers,
         Bind, Connect, SendTo, Recvfrom, RecvReturns, RecvFails, Returned
  <2> QED
    BY <2>1, <2>2, <2>3
<1>2. \A o \in Objects \ {e} : Unmoved(o)
  BY <1>1, ProcFrame DEF Unmoved
<1>3. \A o \in Objects \ {e} : Hand(o)' = Hand(o)
  BY <1>2 DEF Unmoved, Hand, Asked
<1> QED
  BY <1>2, <1>3

\* Nothing new about o: its promises are kept.
LEMMA QuietRequester ==
  ASSUME NEW o \in Objects, Requester(o), Unmoved(o),
         \A p \in Places : NoMore(Line(p)', Line(p), o)
  PROVE  Requester(o)'
<1> SUFFICES ASSUME Is(o, "request")'
             PROVE  OneAway(o)' /\ OfTheRound(o)' /\ HeardInTurn(o)'
  BY DEF Requester
<1>1. OneAway(o) /\ OfTheRound(o) /\ HeardInTurn(o)
  BY DEF Requester, Is, Unmoved
<1>2. OneAway(o)' /\ OfTheRound(o)'
  BY <1>1, KeptAway DEF Unmoved
<1>3. HeardInTurn(o)'
  BY <1>1 DEF HeardInTurn, Unmoved, IsOpen
<1> QED
  BY <1>2, <1>3

\* The n-th message of place p goes to place q.
LEMMA TransferRequester ==
  ASSUME NEW o \in Objects, Requester(o), Unmoved(o),
         NEW p \in Places, NEW q \in Places, p # q, NEW n \in DOMAIN Line(p),
         NoMore(Line(p)', Line(p), o),
         n \in About(Line(p), o) /\ (\A j, k \in About(Line(p), o) : j = k) =>
           About(Line(p)', o) = {},
         Line(p)[n][1] # o => NoMore(Line(q)', Line(q), o),
         About(Line(q), o) = {} =>
           \A j, k \in About(Line(q)', o) : j = k /\ Line(q)'[k] = Line(p)[n],
         \A x \in Places \ {p, q} : Same(x)
  PROVE  Requester(o)'
<1>1. CASE Line(p)[n][1] # o
  <2>1. \A x \in Places : NoMore(Line(x)', Line(x), o)
    BY <1>1, SameNoMore DEF Same
  <2> QED
    BY <2>1, QuietRequester
<1>2. CASE Line(p)[n][1] = o
  <2> SUFFICES ASSUME Is(o, "request")'
               PROVE  OneAway(o)' /\ OfTheRound(o)' /\ HeardInTurn(o)'
    BY DEF Requester
  <2>1. OneAway(o) /\ OfTheRound(o) /\ HeardInTurn(o)
    BY DEF Requester, Is, Unmoved
  <2>2. n \in About(Line(p), o)
    BY <1>2 DEF About
  <2>3. About(Line(p)', o) = {} /\ About(Line(q), o) = {}
    BY <2>1, <2>2 DEF OneAway
  <2>4. OneAway(o)' /\ OfTheRound(o)'
    BY <2>1, <2>2, <2>3, MovedAway DEF Unmoved
  <2>5. HeardInTurn(o)'
    BY <2>1 DEF HeardInTurn, Unmoved, IsOpen
  <2> QED
    BY <2>4, <2>5
<1> QED
  BY <1>1, <1>2

\* A step that moves no message.
LEMMA StillRequester ==
  ASSUME ProcInv, NEW e \in Objects, Process(e), \A o \in Objects : Requester(o),
         wire' = wire,
         \A x \in Objects : \/ BufferOf(x)' = BufferOf(x)
                            \/ BufferOf(x)' = <<>>,
         pc[e] # "answers", pc'[e] # "answers"
  PROVE  /\ \A p \in Places, o \in Objects : NoMore(Line(p)', Line(p), o)
         /\ \A o \in Objects \ {e} : Requester(o)'
<1>1. \A x \in Objects : Hand(x)' = Hand(x)
  BY OthersUnmoved DEF Hand
<1>2. ASSUME NEW p \in Places, NEW o \in Objects
      PROVE  NoMore(Line(p)', Line(p), o)
  <2>1. ASSUME NEW a \in Ports, p = OnWire(a)
        PROVE  NoMore(Line(p)', Line(p), o)
    BY <2>1, Lines, LinesNext, SameNoMore
  <2>2. ASSUME NEW x \in Objects, p = InBuffer(x)
        PROVE  NoMore(Line(p)', Line(p), o)
    <3>1. Line(p)' = BufferOf(x)' /\ Line(p) = BufferOf(x)
      BY <2>2, Lines, LinesNext
    <3>2. NoMore(BufferOf(x), BufferOf(x), o) /\ NoMore(<<>>, BufferOf(x), o)
      BY SameNoMore, EmptyNoMore
    <3> QED
      BY <3>1, <3>2
  <2>3. ASSUME NEW x \in Objects, p = InHand(x)
        PROVE  NoMore(Line(p)', Line(p), o)
    BY <1>1, <2>3, Lines, LinesNext, SameNoMore
  <2> QED
    BY <2>1, <2>2, <2>3, Lines
<1>3. \A o \in Objects \ {e} : Requester(o)'
  BY <1>2, OthersUnmoved, QuietRequester
<1> QED
  BY <1>2, <1>3
-----------------------------------------------------------------------------
(***************************************************************************)
(* Sockets wait for ever, and have the ports they should.                  *)
(***************************************************************************)
PatientFile(k) == k # NotOpen => ~k.nonblocking /\ k.timeout = Forever

LEMMA PatientChange ==
  ASSUME Inv, Patient, NEW f \in Fds, NEW k, PatientFile(k), file' = [file EXCEPT ![f] = k]
  PROVE  Patient'
<1>1. file \in [Fds -> KernelSockets \cup {NotOpen}]
  BY DEF Inv, TypeOK
<1>2. \A g \in Fds : file'[g] = IF g = f THEN k ELSE file[g]
  BY <1>1
<1> QED
  BY <1>2 DEF Patient, PatientFile

LEMMA PatientNext == ProcInv /\ Patient /\ [ExamplesNext]_vars => Patient'
<1> SUFFICES ASSUME ProcInv, Patient, [ExamplesNext]_vars PROVE Patient'
  OBVIOUS
<1>i. Inv
  BY DEF ProcInv
<1>s. ASSUME file' = file PROVE Patient'
  BY <1>s DEF Patient
<1>k. ASSUME NEW f \in Fds, file[f] # NotOpen
      PROVE  file[f] \in KernelSockets /\ ~file[f].nonblocking /\ file[f].timeout = Forever
  BY <1>i, <1>k DEF Inv, TypeOK, Patient
<1>1. ASSUME NEW o \in Objects, Process(o)
      PROVE  Patient'
  <2>h. IsOpen(o) => fd[o] \in Fds /\ file[fd[o]] # NotOpen
    BY <1>i, Held
  <2>1. CASE Begins(o)
    <3>1. PatientFile(Fresh)
      BY DEF PatientFile, Fresh
    <3>2. \/ file' = file
          \/ \E f \in Fds : file' = [file EXCEPT ![f] = Fresh]
      BY <2>1 DEF Begins, Construct
    <3> QED
      BY <1>i, <1>s, <3>1, <3>2, PatientChange
  <2>2. CASE BindsPort(o)
    <3> DEFINE k == [file[fd[o]] EXCEPT !.addr = port]
    <3>1. file' = file \/ (IsOpen(o) /\ file' = [file EXCEPT ![fd[o]] = k])
      BY <2>2 DEF BindsPort, Bind
    <3>2. IsOpen(o) => PatientFile(k)
      BY <1>k, <2>h DEF PatientFile, KernelSockets
    <3> HIDE DEF k
    <3> QED
      BY <1>i, <1>s, <2>h, <3>1, <3>2, PatientChange
  <2>3. CASE ConnectsPort(o)
    <3> DEFINE k == [file[fd[o]] EXCEPT
                       !.reuse = TRUE, !.addr = IF MayBind(fd[o], port, TRUE) THEN port ELSE @]
    <3>1. file' = file \/ (IsOpen(o) /\ file' = [file EXCEPT ![fd[o]] = k])
      <4>1. CASE ~IsOpen(o)
        BY <2>3, <4>1 DEF ConnectsPort, Connect
      <4>2. CASE IsOpen(o)
        BY <1>k, <2>h, <2>3, <4>2 DEF ConnectsPort, Connect, KernelSockets
      <4> QED
        BY <4>1, <4>2
    <3>2. IsOpen(o) => PatientFile(k)
      BY <1>k, <2>h DEF PatientFile, KernelSockets
    <3> HIDE DEF k
    <3> QED
      BY <1>i, <1>s, <2>h, <3>1, <3>2, PatientChange
  <2>4. CASE Sends(o) \/ Answers(o)
    <3> DEFINE k == [file[fd[o]] EXCEPT !.addr = o]
    <3>1. file' = file \/ (IsOpen(o) /\ file' = [file EXCEPT ![fd[o]] = k])
      BY <2>4 DEF Sends, Answers, SendTo
    <3>2. IsOpen(o) => PatientFile(k)
      BY <1>k, <2>h DEF PatientFile, KernelSockets
    <3> HIDE DEF k
    <3> QED
      BY <1>i, <1>s, <2>h, <3>1, <3>2, PatientChange
  <2>5. CASE Waits(o) \/ TakesNothing(o)
    BY <1>s, <2>5 DEF Waits, TakesNothing, Recvfrom, RecvFails
  <2>6. CASE Takes(o)
    <3> DEFINE k == [file[fd[o]] EXCEPT !.buffer = Tail(@)]
    <3>1. IsOpen(o) /\ file' = [file EXCEPT ![fd[o]] = k]
      BY <2>6 DEF Takes, RecvReturns
    <3>2. PatientFile(k)
      BY <1>k, <2>h, <3>1 DEF PatientFile, KernelSockets
    <3> HIDE DEF k
    <3> QED
      BY <1>i, <2>h, <3>1, <3>2, PatientChange
  <2>7. CASE Ends(o)
    <3>1. PatientFile(NotOpen)
      BY DEF PatientFile
    <3>2. file' = file \/ (IsOpen(o) /\ file' = [file EXCEPT ![fd[o]] = NotOpen])
      BY <2>7 DEF Ends, Destroy, CloseFd
    <3> QED
      BY <1>i, <1>s, <2>h, <3>1, <3>2, PatientChange
  <2> QED
    BY <1>1, <2>1, <2>2, <2>3, <2>4, <2>5, <2>6, <2>7 DEF Process
<1>2. CASE Carry
  <2>1. PICK a \in Ports : \E n \in DOMAIN wire[a] : Deliver(a, n)
    BY <1>2 DEF Carry, Network
  <2>2. PICK n \in DOMAIN wire[a] : Deliver(a, n)
    BY <2>1
  <2>3. CASE UNCHANGED file
    BY <1>s, <2>3
  <2>4. ASSUME NEW f \in BoundTo(a),
               file' = [file EXCEPT ![f].buffer = Append(@, wire[a][n])]
        PROVE  Patient'
    <3> DEFINE k == [file[f] EXCEPT !.buffer = Append(@, wire[a][n])]
    <3>1. f \in Fds /\ file[f] # NotOpen /\ file' = [file EXCEPT ![f] = k]
      BY <2>4 DEF BoundTo
    <3>2. PatientFile(k)
      BY <1>k, <3>1 DEF PatientFile, KernelSockets
    <3> HIDE DEF k
    <3> QED
      BY <1>i, <3>1, <3>2, PatientChange
  <2> QED
    BY <2>2, <2>3, <2>4 DEF Deliver
<1>3. CASE UNCHANGED vars
  BY <1>s, <1>3 DEF vars, socketVars
<1> QED
  BY <1>1, <1>2, <1>3 DEF ExamplesNext

LEMMA SamePort ==
  ASSUME NEW o \in Objects, HasOwnPort(o), SameSocket(o), wire'[o] = wire[o], role' = role
  PROVE  HasOwnPort(o)'
BY DEF HasOwnPort, SameSocket, AllOf, Is

LEMMA PortNext ==
  ASSUME ProcInv, \A o \in Objects : HasOwnPort(o), [ExamplesNext]_vars
  PROVE  \A o \in Objects : HasOwnPort(o)'
<1> USE Members
<1>i. Inv
  BY DEF ProcInv
<1>w. /\ \A o \in Objects : o \in Ports /\ wire[o] \in Seq(Data) /\ BufferOf(o) \in Seq(Data)
      /\ wire \in [Ports -> Seq(Data)]
  BY <1>i, SocketTypes DEF Inv, TypeOK
<1>0. ASSUME \A p \in Objects : SameSocket(p), wire' = wire, role' = role
      PROVE  \A p \in Objects : HasOwnPort(p)'
  BY <1>0, SamePort
<1>o. ASSUME NEW o \in Objects, OthersSame(o), wire' = wire, role' = role, HasOwnPort(o)'
      PROVE  \A p \in Objects : HasOwnPort(p)'
  <2>1. \A p \in Objects \ {o} : HasOwnPort(p)'
    BY <1>o, SamePort DEF OthersSame
  <2> QED
    BY <1>o, <2>1
<1>1. ASSUME NEW o \in Objects, Process(o)
      PROVE  \A p \in Objects : HasOwnPort(p)'
  <2>r. role' = role
    BY <1>1, ProcFrame
  <2>p. HasOwnPort(o)
    OBVIOUS
  <2>1. CASE Begins(o)
    BY <1>0, <1>i, <2>1, <2>r, ConstructSocket DEF Begins
  <2>2. CASE BindsPort(o) \/ ConnectsPort(o)
    <3>1. (Bind(o, port) \/ Connect(o, port)) /\ ~Is(o, "request")
      BY <2>2 DEF BindsPort, ConnectsPort, Is
    <3>2. /\ OthersSame(o) /\ BufferOf(o)' = BufferOf(o) /\ wire' = wire
          /\ AddrOf(o)' = AddrOf(o) \/ (AddrOf(o) = NoAddr /\ AddrOf(o)' = port)
      BY <1>i, <3>1, BindSocket
    <3>3. HasOwnPort(o)'
      BY <2>p, <2>r, <3>1, <3>2 DEF HasOwnPort, AllOf, Is
    <3> QED
      BY <1>o, <2>r, <3>2, <3>3
  <2>3. CASE Sends(o) \/ Answers(o)
    <3>1. PICK a \in Ports, m \in Data :
            SendTo(o, a, m) /\ (a = port \/ a = m[1])
      <4>1. CASE Sends(o)
        BY <4>1, SendsData DEF Sends
      <4>2. CASE Answers(o)
        <5>1. pc[o] = "answers" /\ SendTo(o, Asked(o)[1], Asked(o))
          BY <4>2 DEF Answers
        <5>2. Asked(o) \in Data /\ Asked(o)[1] \in Ports
          BY <5>1, AskedIs
        <5> QED
          BY <5>1, <5>2
      <4> QED
        BY <2>3, <4>1, <4>2
    <3>2. /\ OthersSame(o) /\ BufferOf(o)' = BufferOf(o)
          /\ AddrOf(o)' = AddrOf(o) \/ (AddrOf(o) = NoAddr /\ AddrOf(o)' = o)
          /\ \/ wire' = wire
             \/ wire' = [wire EXCEPT ![a] = Append(wire[a], m)]
      BY <1>i, <3>1, SendSocket
    <3>3. \A p \in Objects : AllOf(wire'[p], p)
      <4> SUFFICES ASSUME NEW p \in Objects PROVE AllOf(wire'[p], p)
        OBVIOUS
      <4>1. AllOf(wire[p], p)
        BY DEF HasOwnPort
      <4>2. CASE wire'[p] = wire[p]
        BY <4>1, <4>2
      <4>3. CASE wire'[p] # wire[p]
        <5>1. wire \in [Ports -> Seq(Data)] /\ p \in Ports /\ wire[p] \in Seq(Data)
          BY <1>w
        <5>2. p = a /\ wire'[p] = Append(wire[p], m)
          BY ONLY <3>2, <4>3, <5>1
        <5>3. m[1] = p
          BY <3>1, <5>2
        <5>4. AllOf(Append(wire[p], m), p)
          BY <4>1, <5>1, <5>3, AllOfKept
        <5> QED
          BY <5>2, <5>4
      <4> QED
        BY <4>2, <4>3
    <3>4. HasOwnPort(o)'
      <4>1. /\ AddrOf(o)' \in {NoAddr, port, o}
            /\ AddrOf(o)' = NoAddr => BufferOf(o)' = <<>>
            /\ Is(o, "request") => AddrOf(o)' # port
        BY <2>p, <3>2 DEF HasOwnPort
      <4>2. AddrOf(o)' = o => AllOf(BufferOf(o)', o)
        BY <2>p, <3>2 DEF HasOwnPort, AllOf
      <4> QED
        BY <2>r, <3>3, <4>1, <4>2 DEF HasOwnPort, Is, AllOf
    <3>5. ASSUME NEW p \in Objects \ {o}
          PROVE  HasOwnPort(p)'
      BY <2>r, <3>2, <3>3 DEF HasOwnPort, OthersSame, SameSocket, Is, AllOf
    <3> QED
      BY <3>4, <3>5
  <2>4. CASE Waits(o) \/ TakesNothing(o)
    BY <1>0, <1>i, <2>4, <2>r, QuietSocket DEF Waits, TakesNothing
  <2>5. CASE Takes(o)
    <3>1. RecvReturns(o)
      BY <2>5 DEF Takes
    <3>2. /\ OthersSame(o) /\ AddrOf(o)' = AddrOf(o) /\ wire' = wire
          /\ BufferOf(o) # <<>> /\ BufferOf(o)' = Tail(BufferOf(o))
      BY <1>i, <3>1, ReturnSocket
    <3>3. AllOf(BufferOf(o), o) => AllOf(BufferOf(o)', o)
      BY <1>w, <3>2, AllOfKept
    <3>4. HasOwnPort(o)'
      BY <2>p, <2>r, <3>2, <3>3 DEF HasOwnPort, AllOf, Is
    <3> QED
      BY <1>o, <2>r, <3>2, <3>4
  <2>6. CASE Ends(o)
    <3>1. OthersSame(o) /\ AddrOf(o)' = NoAddr /\ BufferOf(o)' = <<>> /\ wire' = wire
      BY <1>i, <2>6, DestroySocket DEF Ends
    <3>2. HasOwnPort(o)'
      BY <2>p, <2>r, <3>1 DEF HasOwnPort, AllOf, Is
    <3> QED
      BY <1>o, <2>r, <3>1, <3>2
  <2> QED
    BY <1>1, <2>1, <2>2, <2>3, <2>4, <2>5, <2>6 DEF Process
<1>2. CASE Carry
  <2>r. role' = role
    BY <1>2 DEF Carry, procVars
  <2>1. PICK a \in Ports : \E n \in DOMAIN wire[a] : Deliver(a, n)
    BY <1>2 DEF Carry, Network
  <2>2. PICK n \in DOMAIN wire[a] : Deliver(a, n)
    BY <2>1
  <2> DEFINE m == wire[a][n]
  <2>3. /\ wire[a] \in Seq(Data)
        /\ wire' = [wire EXCEPT ![a] = Without(wire[a], n)]
        /\ \/ \A p \in Objects : SameSocket(p)
           \/ \E o \in Objects :
                /\ OthersSame(o) /\ AddrOf(o) = a /\ AddrOf(o)' = a
                /\ BufferOf(o)' = Append(BufferOf(o), m)
    BY <1>i, <2>2, DeliverAny
  <2>m. m \in Data /\ \A o \in Objects : a = o => m[1] = o
    BY <2>3 DEF HasOwnPort, AllOf
  <2> HIDE DEF m
  <2>4. \A p \in Objects : AllOf(wire'[p], p)
    <3> SUFFICES ASSUME NEW p \in Objects PROVE AllOf(wire'[p], p)
      OBVIOUS
    <3>1. AllOf(wire[p], p)
      BY DEF HasOwnPort
    <3>2. CASE p = a
      <4>1. AllOf(Without(wire[a], n), p)
        BY <2>3, <3>1, <3>2, AllOfKept
      <4> QED
        BY <1>w, <2>3, <3>2, <4>1
    <3>3. CASE p # a
      BY <1>w, <2>3, <3>1, <3>3
    <3> QED
      BY <3>2, <3>3
  <2>5. ASSUME NEW p \in Objects, SameSocket(p)
        PROVE  HasOwnPort(p)'
    BY <2>r, <2>4, <2>5 DEF HasOwnPort, SameSocket, Is, AllOf
  <2>6. ASSUME NEW o \in Objects, AddrOf(o) = a, AddrOf(o)' = a,
               BufferOf(o)' = Append(BufferOf(o), m)
        PROVE  HasOwnPort(o)'
    <3>1. HasOwnPort(o) /\ a # NoAddr
      BY DEF Ports
    <3>2. a = o => AllOf(BufferOf(o)', o)
      <4> SUFFICES ASSUME a = o PROVE AllOf(BufferOf(o)', o)
        OBVIOUS
      <4>1. AllOf(BufferOf(o), o) /\ m[1] = o
        BY <2>6, <2>m, <3>1 DEF HasOwnPort
      <4>2. AllOf(Append(BufferOf(o), m), o)
        BY <1>w, <2>m, <4>1, AllOfKept
      <4> QED
        BY <2>6, <4>2
    <3> QED
      BY <2>r, <2>4, <2>6, <3>1, <3>2 DEF HasOwnPort, Is, AllOf
  <2> QED
    BY <2>3, <2>5, <2>6 DEF OthersSame
<1>3. CASE UNCHANGED vars
  BY <1>0, <1>3 DEF vars, socketVars, procVars, SameSocket, AddrOf, BufferOf, IsOpen
<1> QED
  BY <1>1, <1>2, <1>3 DEF ExamplesNext
-----------------------------------------------------------------------------
(***************************************************************************)
(* Every step keeps the promises to the requesters.                        *)
(***************************************************************************)
LEMMA StillStep ==
  ASSUME AnswerInv, NEW e \in Objects,
         \/ Begins(e) \/ BindsPort(e) \/ ConnectsPort(e) \/ Waits(e) \/ TakesNothing(e)
         \/ Ends(e)
  PROVE  \A o \in Objects : Requester(o)'
<1> USE Members
<1>i. ProcInv /\ Inv /\ Process(e) /\ \A o \in Objects : Requester(o)
  BY DEF AnswerInv, ProcInv, Process
<1>t. ProcTypes /\ Rounds(e) /\ Lives(e) /\ i[e] \in Nat /\ Len(heard[e]) \in Nat
  BY <1>i, ProcOf DEF ProcInv
<1>g. ASSUME NEW place \in AllPlaces, Goto(e, place) PROVE pc'[e] = place
  BY <1>t, <1>g, Moves
<1>1. /\ wire' = wire
      /\ \A x \in Objects : BufferOf(x)' = BufferOf(x) \/ BufferOf(x)' = <<>>
  <2>1. CASE Begins(e)
    BY <1>i, <2>1, ConstructSocket DEF Begins, SameSocket
  <2>2. CASE BindsPort(e) \/ ConnectsPort(e)
    <3>1. Bind(e, port) \/ Connect(e, port)
      BY <2>2 DEF BindsPort, ConnectsPort
    <3> QED
      BY <1>i, <3>1, BindSocket DEF OthersSame, SameSocket
  <2>3. CASE Waits(e) \/ TakesNothing(e)
    BY <1>i, <2>3, QuietSocket DEF Waits, TakesNothing, SameSocket
  <2>4. CASE Ends(e)
    BY <1>i, <2>4, DestroySocket DEF Ends, OthersSame, SameSocket
  <2> QED
    BY <2>1, <2>2, <2>3, <2>4
<1>2. pc[e] # "answers" /\ pc'[e] # "answers"
  <2>1. CASE Begins(e)
    <3>1. PICK place \in {"end", "made", "loop"} : Goto(e, place) /\ pc[e] = "off"
      BY <2>1 DEF Begins
    <3> QED
      BY <1>g, <3>1 DEF AllPlaces
  <2>2. CASE BindsPort(e) \/ ConnectsPort(e)
    <3>1. PICK place \in {"end", "loop"} : Goto(e, place) /\ pc[e] = "made"
      BY <2>2 DEF BindsPort, ConnectsPort
    <3> QED
      BY <1>g, <3>1 DEF AllPlaces
  <2>3. CASE Waits(e)
    <3>1. Goto(e, "waits") /\ pc[e] \in {"loop", "asked"}
      BY <2>3 DEF Waits
    <3> QED
      BY <1>g, <3>1 DEF AllPlaces
  <2>4. CASE TakesNothing(e)
    <3>1. PICK place \in {"end", "loop"} : Goto(e, place) /\ pc[e] = "waits"
      BY <2>4 DEF TakesNothing, AfterRound
    <3> QED
      BY <1>g, <3>1 DEF AllPlaces
  <2>5. CASE Ends(e)
    <3>1. Goto(e, "ended") /\ pc[e] = "end"
      BY <2>5 DEF Ends
    <3> QED
      BY <1>g, <3>1 DEF AllPlaces
  <2> QED
    BY <2>1, <2>2, <2>3, <2>4, <2>5
<1>3. /\ \A p \in Places, o \in Objects : NoMore(Line(p)', Line(p), o)
      /\ \A o \in Objects \ {e} : Requester(o)'
  BY <1>1, <1>2, <1>i, StillRequester
<1>4. Requester(e)'
  <2> SUFFICES ASSUME Is(e, "request")'
               PROVE  OneAway(e)' /\ OfTheRound(e)' /\ HeardInTurn(e)'
    BY DEF Requester
  <2>r. role' = role /\ role[e] = "request"
    BY <1>i, ProcFrame DEF Is
  <2>1. OneAway(e) /\ OfTheRound(e) /\ HeardInTurn(e)
    BY <1>i, <2>r DEF Requester, Is
  <2>n. ASSUME pc[e] \notin {"asked", "waits"} \/ ~IsOpen(e)
        PROVE  OneAway(e)' /\ OfTheRound(e)'
    BY <1>3, <2>1, <2>n, UnaskedNowhere, NowhereKept, NowhereRequester
  <2>2. CASE Begins(e)
    <3>1. PICK place \in {"end", "made", "loop"} :
            Goto(e, place) /\ pc[e] = "off" /\ UNCHANGED <<i, heard>>
      BY <2>2 DEF Begins
    <3>2. pc'[e] = place
      BY <1>g, <3>1 DEF AllPlaces
    <3>3. heard'[e] = <<>> /\ i'[e] = 0
      BY <1>t, <3>1 DEF Rounds
    <3> QED
      BY <2>n, <3>1, <3>2, <3>3 DEF HeardInTurn
  <2>3. CASE BindsPort(e) \/ ConnectsPort(e)
    BY <2>r, <2>3 DEF BindsPort, ConnectsPort, Is
  <2>4. CASE Waits(e)
    <3>1. pc[e] = "asked" /\ UNCHANGED <<i, heard, fd>>
      BY <2>r, <2>4 DEF Waits, Receiver, Recvfrom
    <3>2. pc'[e] = "waits"
      BY <1>g, <2>4 DEF Waits, AllPlaces
    <3>3. OneAway(e)' /\ OfTheRound(e)'
      BY <1>3, <2>1, <3>1, <3>2, KeptAway
    <3> QED
      BY <2>1, <3>1, <3>2, <3>3 DEF HeardInTurn, IsOpen
  <2>5. CASE TakesNothing(e)
    <3>1. ~IsOpen(e) /\ UNCHANGED <<heard, fd>>
      <4>1. RecvFails(e) /\ UNCHANGED <<heard, fd>>
        BY <2>5 DEF TakesNothing, RecvFails, Returned
      <4>2. IsOpen(e) => ~MayTimeOut(file[fd[e]])
        BY <1>i, Held DEF AnswerInv, Patient, MayTimeOut
      <4> QED
        BY <4>1, <4>2 DEF RecvFails
    <3> QED
      BY <2>1, <2>n, <3>1 DEF HeardInTurn, IsOpen
  <2>6. CASE Ends(e)
    <3>1. pc[e] = "end" /\ heard' = heard
      BY <2>6 DEF Ends
    <3>2. ~IsOpen(e)'
      <4>1. fd' = [fd EXCEPT ![e] = SOCKET_ERR]
        BY <2>6 DEF Ends, Destroy, CloseFd
      <4> QED
        BY <1>i, <4>1 DEF IsOpen, Inv, TypeOK
    <3> QED
      BY <2>1, <2>n, <3>1, <3>2 DEF HeardInTurn
  <2> QED
    BY <2>2, <2>3, <2>4, <2>5, <2>6
<1> QED
  BY <1>3, <1>4

LEMMA CarryStep ==
  ASSUME AnswerInv, Carry
  PROVE  \A o \in Objects : Requester(o)'
<1> USE Members
<1>i. ProcInv /\ Inv /\ wire \in [Ports -> Seq(Data)]
  BY DEF AnswerInv, ProcInv, Inv, TypeOK
<1>1. PICK a \in Ports : \E n \in DOMAIN wire[a] : Deliver(a, n)
  BY DEF Carry, Network
<1>2. PICK n \in DOMAIN wire[a] : Deliver(a, n)
  BY <1>1
<1>3. /\ wire[a] \in Seq(Data) /\ wire' = [wire EXCEPT ![a] = Without(wire[a], n)]
      /\ \/ \A p \in Objects : SameSocket(p)
         \/ \E e \in Objects :
              /\ OthersSame(e) /\ AddrOf(e) = a /\ AddrOf(e)' = a
              /\ BufferOf(e)' = Append(BufferOf(e), wire[a][n])
  BY <1>i, <1>2, DeliverAny
<1>4. /\ wire'[a] = Without(wire[a], n)
      /\ \A b \in Ports \ {a} : wire'[b] = wire[b]
  BY <1>i, <1>3
<1>5. \A o \in Objects : Unmoved(o) /\ Hand(o)' = Hand(o)
  BY <1>2 DEF Carry, procVars, Unmoved, Hand, Asked, Deliver
<1>6. ASSUME NEW o \in Objects
      PROVE  Requester(o)'
  <2>1. /\ NoMore(Line(OnWire(a))', Line(OnWire(a)), o)
        /\ n \in About(Line(OnWire(a)), o)
             /\ (\A j, k \in About(Line(OnWire(a)), o) : j = k) =>
             About(Line(OnWire(a))', o) = {}
    <3>1. Line(OnWire(a))' = Without(wire[a], n) /\ Line(OnWire(a)) = wire[a]
      BY <1>4, Lines, LinesNext
    <3> QED
      BY <1>3, <3>1, WithoutNoMore
  <2>2. CASE \A p \in Objects : SameSocket(p)
    <3>1. ASSUME NEW x \in Places
          PROVE  NoMore(Line(x)', Line(x), o)
      <4>1. x = OnWire(a) \/ Same(x)
        <5>1. ASSUME NEW b \in Ports, x = OnWire(b) PROVE x = OnWire(a) \/ Same(x)
          BY <1>4, <5>1, Lines, LinesNext DEF Same
        <5>2. ASSUME NEW e \in Objects, x = InBuffer(e) \/ x = InHand(e) PROVE Same(x)
          BY <1>5, <2>2, <5>2, Lines, LinesNext DEF Same, SameSocket
        <5> QED
          BY <5>1, <5>2, Lines
      <4> QED
        BY <2>1, <4>1, SameNoMore DEF Same
    <3> QED
      BY <1>5, <3>1, QuietRequester DEF AnswerInv
  <2>3. ASSUME NEW e \in Objects, OthersSame(e),
               BufferOf(e)' = Append(BufferOf(e), wire[a][n])
        PROVE  Requester(o)'
    <3>1. ASSUME NEW x \in Places \ {OnWire(a), InBuffer(e)}
          PROVE  Same(x)
      <4>1. ASSUME NEW b \in Ports, x = OnWire(b) PROVE Same(x)
        BY <1>4, <4>1, Lines, LinesNext DEF Same
      <4>2. ASSUME NEW d \in Objects, x = InBuffer(d) PROVE Same(x)
        BY <2>3, <4>2, Lines, LinesNext DEF Same, SameSocket, OthersSame
      <4>3. ASSUME NEW d \in Objects, x = InHand(d) PROVE Same(x)
        BY <1>5, <4>3, Lines, LinesNext DEF Same
      <4> QED
        BY <4>1, <4>2, <4>3, Lines
    <3>2. /\ wire[a][n][1] # o => NoMore(Line(InBuffer(e))', Line(InBuffer(e)), o)
          /\ About(Line(InBuffer(e)), o) = {} =>
               \A j, k \in About(Line(InBuffer(e))', o) :
                 j = k /\ Line(InBuffer(e))'[k] = wire[a][n]
      <4>1. /\ Line(InBuffer(e))' = Append(BufferOf(e), wire[a][n])
            /\ Line(InBuffer(e)) = BufferOf(e)
        BY <2>3, Lines, LinesNext
      <4> DEFINE q == BufferOf(e)
                 d == wire[a][n]
      <4>2. q \in Seq(Data) /\ d \in Data
        BY <1>i, <1>3, SocketTypes
      <4> HIDE DEF q, d
      <4>3. /\ d[1] # o => NoMore(Append(q, d), q, o)
            /\ About(q, o) = {} =>
                 \A j, k \in About(Append(q, d), o) : j = k /\ Append(q, d)[k] = d
        BY ONLY <4>2, AppendNoMore
      <4>4. /\ Line(InBuffer(e))' = Append(q, d) /\ Line(InBuffer(e)) = q
            /\ wire[a][n] = d
        BY <4>1 DEF q, d
      <4>5. wire[a][n][1] # o => NoMore(Line(InBuffer(e))', Line(InBuffer(e)), o)
        BY <4>3, <4>4
      <4>6. ASSUME About(Line(InBuffer(e)), o) = {},
                   NEW j \in About(Line(InBuffer(e))', o), NEW k \in About(Line(InBuffer(e))', o)
            PROVE  j = k /\ Line(InBuffer(e))'[k] = wire[a][n]
        BY <4>3, <4>4, <4>6, ZenonT(30)
      <4> QED
        BY <4>5, <4>6
    <3>3. /\ OnWire(a) \in Places /\ InBuffer(e) \in Places /\ OnWire(a) # InBuffer(e)
          /\ Line(OnWire(a)) = wire[a]
      BY Lines
    <3>4. Requester(o) /\ Unmoved(o)
      BY <1>5 DEF AnswerInv
    <3> QED
      BY <2>1, <3>1, <3>2, <3>3, <3>4, TransferRequester
  <2> QED
    BY <1>3, <2>2, <2>3
<1> QED
  BY <1>6
\* A requester asks, and nothing else is under way for it.
LEMMA SendsStep ==
  ASSUME AnswerInv, NEW e \in Objects, Sends(e)
  PROVE  \A o \in Objects : Requester(o)'
<1> USE Members
<1>i. ProcInv /\ Inv /\ Process(e) /\ wire \in [Ports -> Seq(Data)]
  BY DEF AnswerInv, ProcInv, Process, Inv, TypeOK
<1> DEFINE m == <<e, i[e] + 1>>
<1>t. ProcTypes /\ Rounds(e) /\ i[e] \in Nat /\ Len(heard[e]) \in Nat /\ i \in [Objects -> 0..LOOP]
  BY <1>i, ProcOf DEF ProcInv, ProcTypes
<1>1. /\ pc[e] = "loop" /\ SendTo(e, port, m) /\ i' = [i EXCEPT ![e] = i[e] + 1]
      /\ Goto(e, IF Is(e, "request") THEN "asked" ELSE AfterRound(e))
      /\ heard' = heard
  BY DEF Sends
<1>2. m \in Data /\ m[1] = e
  BY <1>i, <1>1, SendsData
<1>3. i'[e] = i[e] + 1 /\ m = <<e, i'[e]>>
  BY <1>t, <1>1
<1> HIDE DEF m
<1>4. /\ \A x \in Objects : BufferOf(x)' = BufferOf(x)
      /\ \/ wire' = wire
         \/ IsOpen(e) /\ wire' = [wire EXCEPT ![port] = Append(wire[port], m)]
  <2>1. /\ OthersSame(e) /\ BufferOf(e)' = BufferOf(e)
        /\ \/ wire' = wire
           \/ IsOpen(e) /\ wire' = [wire EXCEPT ![port] = Append(wire[port], m)]
    <3>1. e \in Objects /\ Inv /\ port \in Ports /\ m \in Data /\ SendTo(e, port, m)
      BY <1>i, <1>1, <1>2
    <3> QED
      BY ONLY <3>1, SendSocket
  <2> QED
    BY <2>1 DEF OthersSame, SameSocket
<1>5. fd' = fd
  BY <1>1 DEF SendTo
<1>6. /\ pc'[e] \in {"asked", "end", "loop"}
      /\ Is(e, "request") => pc'[e] = "asked"
  <2>1. PICK place \in {"asked", "end", "loop"} :
          Goto(e, place) /\ (Is(e, "request") => place = "asked")
    BY <1>1 DEF AfterRound
  <2>2. pc'[e] = place
    BY <1>t, <2>1, Moves DEF AllPlaces
  <2> QED
    BY <2>1, <2>2
<1>7. \A x \in Objects : Hand(x)' = Hand(x)
  <2>1. \A x \in Objects \ {e} : Hand(x)' = Hand(x)
    BY <1>i, OthersUnmoved
  <2>2. Hand(e)' = Hand(e)
    BY <1>1, <1>6 DEF Hand
  <2> QED
    BY <2>1, <2>2
<1>8. \A x \in Places \ {OnWire(port)} : Same(x)
  <2>0. \A b \in Ports \ {port} : wire'[b] = wire[b]
    BY <1>i, <1>4
  <2> SUFFICES ASSUME NEW x \in Places \ {OnWire(port)} PROVE Same(x)
    OBVIOUS
  <2>1. ASSUME NEW b \in Ports, x = OnWire(b) PROVE Same(x)
    BY <2>0, <2>1, Lines, LinesNext DEF Same
  <2>2. ASSUME NEW d \in Objects, x = InBuffer(d) \/ x = InHand(d) PROVE Same(x)
    BY <1>4, <1>7, <2>2, Lines, LinesNext DEF Same
  <2> QED
    BY <2>1, <2>2, Lines
<1>w. /\ OnWire(port) \in Places /\ Line(OnWire(port)) = wire[port]
      /\ Line(OnWire(port))' = wire'[port] /\ wire[port] \in Seq(Data)
  BY <1>i, Lines, LinesNext
<1>9. \/ Same(OnWire(port))
      \/ IsOpen(e) /\ Line(OnWire(port))' = Append(wire[port], m)
  BY <1>i, <1>4, <1>w DEF Same
<1>10. ASSUME NEW o \in Objects \ {e}
       PROVE  Requester(o)'
  <2>1. NoMore(Line(OnWire(port))', Line(OnWire(port)), o)
    <3>1. NoMore(wire[port], wire[port], o)
      BY SameNoMore
    <3>2. NoMore(Append(wire[port], m), wire[port], o)
      BY <1>2, <1>w, AppendNoMore
    <3> QED
      BY <1>9, <1>w, <3>1, <3>2 DEF Same
  <2>2. \A x \in Places : NoMore(Line(x)', Line(x), o)
    BY <1>8, <2>1, SameNoMore DEF Same
  <2>3. Unmoved(o) /\ Requester(o)
    BY <1>i, OthersUnmoved DEF AnswerInv
  <2> QED
    BY <2>2, <2>3, QuietRequester
<1>11. Requester(e)'
  <2> SUFFICES ASSUME Is(e, "request")'
               PROVE  OneAway(e)' /\ OfTheRound(e)' /\ HeardInTurn(e)'
    BY DEF Requester
  <2>r. Is(e, "request")
    BY <1>i, ProcFrame DEF Is
  <2>1. OneAway(e) /\ OfTheRound(e) /\ HeardInTurn(e)
    BY <2>r DEF AnswerInv, Requester
  <2>2. Nowhere(e)
    BY <1>1, <2>1, UnaskedNowhere
  <2>3. OneAway(e)' /\ OfTheRound(e)'
    <3>1. \A x \in Places \ {OnWire(port)} : NoMore(Line(x)', Line(x), e)
      BY <1>8, SameNoMore DEF Same
    <3>2. CASE Same(OnWire(port))
      <4>1. \A x \in Places : NoMore(Line(x)', Line(x), e)
        BY <3>1, <3>2, SameNoMore DEF Same
      <4> QED
        BY <2>2, <4>1, NowhereKept, NowhereRequester
    <3>3. CASE IsOpen(e) /\ Line(OnWire(port))' = Append(wire[port], m)
      <4>1. About(wire[port], e) = {}
        BY <1>w, <2>2 DEF Nowhere
      <4>2. \A j, k \in About(Line(OnWire(port))', e) :
              j = k /\ Line(OnWire(port))'[k] = <<e, i'[e]>>
        <5>1. \A j, k \in About(Append(wire[port], m), e) :
                j = k /\ Append(wire[port], m)[k] = m
          <6> DEFINE q == wire[port]
          <6>1. q \in Seq(Data) /\ m \in Data /\ About(q, e) = {}
            BY <1>2, <1>w, <4>1
          <6> HIDE DEF q
          <6>2. \A j, k \in About(Append(q, m), e) : j = k /\ Append(q, m)[k] = m
            BY ONLY <6>1, AppendNoMore
          <6> QED
            BY <6>2 DEF q
        <5> QED
          BY <1>3, <3>3, <5>1
      <4>3. IsOpen(e)' /\ pc'[e] \in {"asked", "waits"}
        BY <1>5, <1>6, <2>r, <3>3 DEF IsOpen
      <4> QED
        BY <1>w, <2>2, <3>1, <4>2, <4>3, Asks
    <3> QED
      BY <1>9, <3>2, <3>3
  <2>4. HeardInTurn(e)'
    <3>1. IsOpen(e) => Len(heard[e]) = i[e]
      BY <1>1, <2>1 DEF HeardInTurn
    <3>2. (i[e] + 1) - 1 = i[e]
      BY <1>t
    <3>3. pc'[e] = "asked"
      BY <1>6, <2>r
    <3> QED
      BY <1>1, <1>3, <1>5, <2>1, <3>1, <3>2, <3>3 DEF HeardInTurn, IsOpen
  <2> QED
    BY <2>3, <2>4
<1> QED
  BY <1>10, <1>11

\* A replier takes a request from its buffer, or a requester its answer.
LEMMA TakesStep ==
  ASSUME AnswerInv, NEW e \in Objects, Takes(e)
  PROVE  \A o \in Objects : Requester(o)'
<1> USE Members
<1>i. ProcInv /\ Inv /\ Process(e)
  BY DEF AnswerInv, ProcInv, Process
<1>t. /\ ProcTypes /\ Rounds(e) /\ i[e] \in Nat /\ Len(heard[e]) \in Nat
      /\ heard[e] \in Seq(Data) /\ heard \in [Objects -> Seq(Data)]
  BY <1>i, ProcOf DEF ProcInv, ProcTypes
<1> DEFINE m == Head(BufferOf(e))
<1>1. /\ pc[e] = "waits" /\ RecvReturns(e) /\ i' = i
      /\ heard' = [heard EXCEPT ![e] = Append(heard[e], result'[2])]
      /\ Goto(e, IF Is(e, "reply") THEN "answers" ELSE AfterRound(e))
  BY DEF Takes
<1>2. result'[2] = m /\ BufferOf(e) # <<>> /\ BufferOf(e) \in Seq(Data) /\ m \in Data
  BY <1>i, <1>1, TakesHead
<1>3. OthersSame(e) /\ wire' = wire /\ BufferOf(e)' = Tail(BufferOf(e))
  BY <1>i, <1>1, ReturnSocket
<1>4. heard'[e] = Append(heard[e], m)
  BY <1>t, <1>1, <1>2
<1>5. fd' = fd
  BY <1>1 DEF RecvReturns, Returned
<1>6. /\ pc'[e] \in {"answers", "end", "loop"}
      /\ pc'[e] = "answers" <=> Is(e, "reply")
  <2>1. PICK place \in {"answers", "end", "loop"} :
          Goto(e, place) /\ (place = "answers" <=> Is(e, "reply"))
    BY <1>1 DEF AfterRound
  <2>2. pc'[e] = place
    BY <1>t, <2>1, Moves DEF AllPlaces
  <2> QED
    BY <2>1, <2>2
<1>7. \A x \in Objects \ {e} : Hand(x)' = Hand(x) /\ Unmoved(x)
  BY <1>i, OthersUnmoved
<1>8. Hand(e) = <<>> /\ Hand(e)' = IF Is(e, "reply") THEN <<m>> ELSE <<>>
  <2>1. Hand(e) = <<>>
    BY <1>1 DEF Hand
  <2>2. Asked(e)' = m
    <3>1. Append(heard[e], m)[Len(Append(heard[e], m))] = m
      BY ONLY <1>t, <1>2, AppendProperties
    <3> QED
      BY <1>4, <3>1 DEF Asked
  <2> QED
    BY <1>6, <2>1, <2>2 DEF Hand
<1>9. \A x \in Places \ {InBuffer(e), InHand(e)} : Same(x)
  <2> SUFFICES ASSUME NEW x \in Places \ {InBuffer(e), InHand(e)} PROVE Same(x)
    OBVIOUS
  <2>1. ASSUME NEW b \in Ports, x = OnWire(b) PROVE Same(x)
    BY <1>3, <2>1, Lines, LinesNext DEF Same
  <2>2. ASSUME NEW d \in Objects, x = InBuffer(d) PROVE Same(x)
    BY <1>3, <2>2, Lines, LinesNext DEF Same, OthersSame, SameSocket
  <2>3. ASSUME NEW d \in Objects, x = InHand(d) PROVE Same(x)
    BY <1>7, <2>3, Lines, LinesNext DEF Same
  <2> QED
    BY <2>1, <2>2, <2>3, Lines
<1>p. /\ InBuffer(e) \in Places /\ InHand(e) \in Places /\ InBuffer(e) # InHand(e)
      /\ Line(InBuffer(e)) = BufferOf(e) /\ Line(InHand(e)) = <<>>
      /\ Line(InBuffer(e))' = Tail(BufferOf(e)) /\ Line(InHand(e))' = Hand(e)'
  BY <1>3, <1>8, Lines, LinesNext
<1>q. /\ 1 \in DOMAIN BufferOf(e) /\ BufferOf(e)[1] = m
      /\ \A o : /\ NoMore(Line(InBuffer(e))', Line(InBuffer(e)), o)
                /\ m[1] = o => 1 \in About(BufferOf(e), o)
                /\ m[1] = o /\ (\A j, k \in About(BufferOf(e), o) : j = k) =>
                     About(Line(InBuffer(e))', o) = {}
  <2> DEFINE q == BufferOf(e)
  <2>1. q \in Seq(Data) /\ q # <<>>
    BY <1>2
  <2> HIDE DEF q
  <2>2. \A o : /\ NoMore(Tail(q), q, o)
               /\ 1 \in DOMAIN q /\ q[1] = Head(q)
               /\ Head(q)[1] = o => 1 \in About(q, o)
               /\ Head(q)[1] = o /\ (\A j, k \in About(q, o) : j = k) =>
                    About(Tail(q), o) = {}
    BY ONLY <2>1, TailNoMore
  <2>3. /\ BufferOf(e) = q /\ Line(InBuffer(e)) = q /\ Line(InBuffer(e))' = Tail(q)
        /\ m = Head(q)
    BY <1>p DEF q
  <2> HIDE DEF m
  <2> QED
    BY ONLY <2>2, <2>3
<1> HIDE DEF m
<1>10. ASSUME NEW o \in Objects \ {e}
       PROVE  Requester(o)'
  <2>1. Requester(o) /\ Unmoved(o)
    BY <1>7 DEF AnswerInv
  <2>2. CASE Is(e, "reply")
    <3>1. /\ m[1] # o => NoMore(Line(InHand(e))', Line(InHand(e)), o)
          /\ About(Line(InHand(e)), o) = {} =>
               \A j, k \in About(Line(InHand(e))', o) : j = k /\ Line(InHand(e))'[k] = m
      <4>1. Line(InHand(e))' = <<m>> /\ Line(InHand(e)) = <<>>
        BY <1>8, <1>p, <2>2
      <4>2. DOMAIN <<m>> = {1} /\ <<m>>[1] = m
        OBVIOUS
      <4>3. \A k \in About(<<m>>, o) : k = 1 /\ <<m>>[k] = m /\ m[1] = o
        BY <4>2 DEF About
      <4> QED
        BY <4>1, <4>3 DEF NoMore
    <3>2. 1 \in About(BufferOf(e), o) => m[1] = o
      BY <1>q DEF About
    <3> DEFINE p == InBuffer(e)
               q == InHand(e)
    <3>3. /\ p \in Places /\ q \in Places /\ p # q /\ 1 \in DOMAIN Line(p) /\ Line(p)[1] = m
          /\ NoMore(Line(p)', Line(p), o)
          /\ 1 \in About(Line(p), o) /\ (\A j, k \in About(Line(p), o) : j = k) =>
               About(Line(p)', o) = {}
      BY <1>p, <1>q, <3>2
    <3>4. /\ Line(p)[1][1] # o => NoMore(Line(q)', Line(q), o)
          /\ About(Line(q), o) = {} =>
               \A j, k \in About(Line(q)', o) : j = k /\ Line(q)'[k] = Line(p)[1]
      BY <3>1, <3>3
    <3>5. \A x \in Places \ {p, q} : Same(x)
      BY <1>9
    <3> HIDE DEF p, q
    <3> QED
      BY <2>1, <3>3, <3>4, <3>5, TransferRequester
  <2>3. CASE ~Is(e, "reply")
    <3>1. \A x \in Places : NoMore(Line(x)', Line(x), o)
      <4>1. NoMore(Line(InBuffer(e))', Line(InBuffer(e)), o)
        BY <1>q
      <4>2. Same(InHand(e))
        BY <1>8, <1>p, <2>3 DEF Same
      <4> QED
        BY <1>9, <4>1, <4>2, SameNoMore DEF Same
    <3> QED
      BY <2>1, <3>1, QuietRequester
  <2> QED
    BY <2>2, <2>3
<1>11. Requester(e)'
  <2> SUFFICES ASSUME Is(e, "request")'
               PROVE  OneAway(e)' /\ OfTheRound(e)' /\ HeardInTurn(e)'
    BY DEF Requester
  <2>r. Is(e, "request") /\ ~Is(e, "reply")
    BY <1>i, ProcFrame DEF Is
  <2>1. OneAway(e) /\ OfTheRound(e) /\ HeardInTurn(e) /\ HasOwnPort(e)
    BY <2>r DEF AnswerInv, Requester
  <2>2. m[1] = e
    <3>1. AddrOf(e) = e
      BY <1>2, <2>r, <2>1 DEF HasOwnPort
    <3> QED
      BY <1>q, <2>1, <3>1 DEF HasOwnPort, AllOf
  <2>3. 1 \in About(Line(InBuffer(e)), e)
    BY <1>p, <1>q, <2>2
  <2>4. m = <<e, i[e]>> /\ IsOpen(e)
    <3>1. Line(InBuffer(e))[1] = <<e, i[e]>> /\ IsOpen(e)
      BY <1>p, <2>1, <2>3 DEF OfTheRound
    <3> QED
      BY <1>p, <1>q, <3>1
  <2>5. Nowhere(e)'
    <3>1. \A x \in Places \ {InBuffer(e)} : About(Line(x), e) = {}
      BY <1>p, <2>1, <2>3 DEF OneAway
    <3>2. About(Line(InBuffer(e))', e) = {}
      <4>1. \A j, k \in About(BufferOf(e), e) : j = k
        BY <1>p, <2>1 DEF OneAway
      <4> QED
        BY <1>q, <2>2, <4>1
    <3>3. About(Line(InHand(e))', e) = {}
      BY <1>8, <1>p, <2>r, EmptyNoMore
    <3> QED
      BY <1>9, <3>1, <3>2, <3>3 DEF Nowhere, Same
  <2>6. HeardInTurn(e)'
    <3>1. Len(heard[e]) = i[e] - 1 /\ \A n \in DOMAIN heard[e] : heard[e][n] = <<e, n>>
      BY <1>1, <2>1, <2>4 DEF HeardInTurn
    <3>2. /\ Len(Append(heard[e], m)) = Len(heard[e]) + 1
          /\ \A n \in DOMAIN Append(heard[e], m) :
               \/ n \in DOMAIN heard[e] /\ Append(heard[e], m)[n] = heard[e][n]
               \/ n = Len(heard[e]) + 1 /\ Append(heard[e], m)[n] = m
      <4> DEFINE q == heard[e]
      <4>1. q \in Seq(Data) /\ m \in Data
        BY <1>t, <1>2
      <4> HIDE DEF q
      <4>2. /\ Len(Append(q, m)) = Len(q) + 1
            /\ \A n \in DOMAIN Append(q, m) :
                 \/ n \in DOMAIN q /\ Append(q, m)[n] = q[n]
                 \/ n = Len(q) + 1 /\ Append(q, m)[n] = m
        BY ONLY <4>1
      <4> QED
        BY <4>2 DEF q
    <3>3. Len(heard[e]) + 1 = i[e]
      BY <1>t, <3>1
    <3>4. \A n \in DOMAIN heard'[e] : heard'[e][n] = <<e, n>>
      BY <1>4, <2>4, <3>1, <3>2, <3>3
    <3>5. Len(heard'[e]) = i'[e] /\ pc'[e] \notin {"asked", "waits"}
      BY <1>1, <1>4, <1>6, <3>2, <3>3
    <3> QED
      BY <3>4, <3>5 DEF HeardInTurn
  <2> QED
    BY <2>5, <2>6, NowhereRequester
<1> QED
  BY <1>10, <1>11

\* A replier sends what it has in hand to where it came from.
LEMMA AnswersStep ==
  ASSUME AnswerInv, NEW e \in Objects, Answers(e)
  PROVE  \A o \in Objects : Requester(o)'
<1> USE Members
<1>i. ProcInv /\ Inv /\ Process(e) /\ wire \in [Ports -> Seq(Data)]
  BY DEF AnswerInv, ProcInv, Process, Inv, TypeOK
<1>t. ProcTypes /\ Rounds(e)
  BY <1>i DEF ProcInv
<1>0. pc[e] = "answers" /\ Asked(e) \in Data /\ Asked(e)[1] \in Objects /\ Asked(e)[1] \in Ports
  BY <1>i, AskedIs DEF Answers
<1>a. PICK a \in Objects, m \in Data : m = Asked(e) /\ a = m[1]
  BY <1>0
<1>1. pc[e] = "answers" /\ SendTo(e, a, m) /\ Goto(e, AfterRound(e))
  BY <1>a DEF Answers
<1>2. m \in Data /\ a \in Objects /\ a \in Ports /\ m[1] = a
  BY <1>a, <1>0
<1>3. Hand(e) = <<m>>
  BY <1>1, <1>a DEF Hand
<1>4. /\ \A x \in Objects : BufferOf(x)' = BufferOf(x)
      /\ \/ wire' = wire
         \/ wire' = [wire EXCEPT ![a] = Append(wire[a], m)]
  <2>1. /\ OthersSame(e) /\ BufferOf(e)' = BufferOf(e)
        /\ \/ wire' = wire
           \/ wire' = [wire EXCEPT ![a] = Append(wire[a], m)]
    <3>1. e \in Objects /\ Inv /\ a \in Ports /\ m \in Data /\ SendTo(e, a, m)
      BY <1>i, <1>1, <1>2
    <3> QED
      BY ONLY <3>1, SendSocket
  <2> QED
    BY <2>1 DEF OthersSame, SameSocket
<1>5. pc'[e] # "answers"
  <2>1. PICK place \in {"end", "loop"} : Goto(e, place)
    BY <1>1 DEF AfterRound
  <2>2. pc'[e] = place
    BY <1>t, <2>1, Moves DEF AllPlaces
  <2> QED
    BY <2>1, <2>2
<1>6. Hand(e)' = <<>> /\ \A x \in Objects \ {e} : Hand(x)' = Hand(x) /\ Unmoved(x)
  BY <1>i, <1>5, OthersUnmoved DEF Hand
<1>7. \A x \in Places \ {InHand(e), OnWire(a)} : Same(x)
  <2>0. \A b \in Ports \ {a} : wire'[b] = wire[b]
    BY <1>i, <1>4
  <2> SUFFICES ASSUME NEW x \in Places \ {InHand(e), OnWire(a)} PROVE Same(x)
    OBVIOUS
  <2>1. ASSUME NEW b \in Ports, x = OnWire(b) PROVE Same(x)
    BY <2>0, <2>1, Lines, LinesNext DEF Same
  <2>2. ASSUME NEW d \in Objects, x = InBuffer(d) PROVE Same(x)
    BY <1>4, <2>2, Lines, LinesNext DEF Same
  <2>3. ASSUME NEW d \in Objects, x = InHand(d) PROVE Same(x)
    BY <1>6, <2>3, Lines, LinesNext DEF Same
  <2> QED
    BY <2>1, <2>2, <2>3, Lines
<1>p. /\ InHand(e) \in Places /\ OnWire(a) \in Places /\ InHand(e) # OnWire(a)
      /\ Line(InHand(e)) = <<m>> /\ Line(InHand(e))' = <<>>
      /\ Line(OnWire(a)) = wire[a] /\ Line(OnWire(a))' = wire'[a] /\ wire[a] \in Seq(Data)
  <2>1. InHand(e) \in Places /\ OnWire(a) \in Places /\ InHand(e) # OnWire(a)
    BY <1>2, Lines
  <2>2. Line(InHand(e)) = <<m>> /\ Line(InHand(e))' = <<>>
    BY <1>3, <1>6, Lines, LinesNext
  <2>3. Line(OnWire(a)) = wire[a] /\ Line(OnWire(a))' = wire'[a]
    BY <1>2 DEF Line, OnWire
  <2>4. wire[a] \in Seq(Data)
    BY <1>2, <1>i
  <2> QED
    BY <2>1, <2>2, <2>3, <2>4
<1>8. 1 \in DOMAIN Line(InHand(e)) /\ Line(InHand(e))[1] = m
  <2>1. 1 \in DOMAIN <<m>> /\ <<m>>[1] = m
    OBVIOUS
  <2> QED
    BY <1>p, <2>1
<1>9. ASSUME NEW o
      PROVE  NoMore(Line(InHand(e))', Line(InHand(e)), o) /\ About(Line(InHand(e))', o) = {}
  <2>1. NoMore(<<>>, Line(InHand(e)), o) /\ About(<<>>, o) = {}
    BY EmptyNoMore
  <2> QED
    BY <1>p, <2>1
<1>10. ASSUME NEW o \in Objects \ {e}
       PROVE  Requester(o)'
  <2>1. Requester(o) /\ Unmoved(o)
    BY <1>6 DEF AnswerInv
  <2>2. CASE wire' = wire
    <3>1. \A x \in Places : NoMore(Line(x)', Line(x), o)
      <4>1. NoMore(Line(InHand(e))', Line(InHand(e)), o)
        BY <1>9
      <4>2. Same(OnWire(a))
        BY <1>p, <2>2 DEF Same
      <4>3. \A x \in Places \ {InHand(e)} : Same(x)
        BY <1>7, <4>2
      <4> QED
        BY <4>1, <4>3, SameNoMore DEF Same
    <3> QED
      BY <2>1, <3>1, QuietRequester
  <2>3. CASE wire' = [wire EXCEPT ![a] = Append(wire[a], m)]
    <3>1. Line(OnWire(a))' = Append(wire[a], m)
      BY <1>i, <1>2, <1>p, <2>3
    <3>2. /\ m[1] # o => NoMore(Line(OnWire(a))', Line(OnWire(a)), o)
          /\ About(Line(OnWire(a)), o) = {} =>
               \A j, k \in About(Line(OnWire(a))', o) : j = k /\ Line(OnWire(a))'[k] = m
      <4>1. /\ m[1] # o => NoMore(Append(wire[a], m), wire[a], o)
            /\ About(wire[a], o) = {} =>
                 \A j, k \in About(Append(wire[a], m), o) : j = k /\ Append(wire[a], m)[k] = m
        <5> DEFINE q == wire[a]
        <5>1. q \in Seq(Data) /\ m \in Data
          BY <1>2, <1>p
        <5> HIDE DEF q
        <5>2. /\ m[1] # o => NoMore(Append(q, m), q, o)
              /\ About(q, o) = {} =>
                   \A j, k \in About(Append(q, m), o) : j = k /\ Append(q, m)[k] = m
          BY ONLY <5>1, AppendNoMore
        <5> QED
          BY <5>2 DEF q
      <4> QED
        BY <1>p, <3>1, <4>1
    <3> DEFINE p == InHand(e)
               q == OnWire(a)
    <3>3. /\ p \in Places /\ q \in Places /\ p # q /\ 1 \in DOMAIN Line(p) /\ Line(p)[1] = m
          /\ NoMore(Line(p)', Line(p), o)
          /\ 1 \in About(Line(p), o) /\ (\A j, k \in About(Line(p), o) : j = k) =>
               About(Line(p)', o) = {}
      BY <1>8, <1>9, <1>p
    <3>4. /\ Line(p)[1][1] # o => NoMore(Line(q)', Line(q), o)
          /\ About(Line(q), o) = {} =>
               \A j, k \in About(Line(q)', o) : j = k /\ Line(q)'[k] = Line(p)[1]
      BY <3>2, <3>3
    <3>5. \A x \in Places \ {p, q} : Same(x)
      BY <1>7
    <3>6. o \in Objects /\ Requester(o) /\ Unmoved(o)
      BY <2>1
    <3> HIDE DEF p, q
    <3> QED
      BY ONLY <3>3, <3>4, <3>5, <3>6, TransferRequester
  <2> QED
    BY <1>4, <2>2, <2>3
<1>11. Requester(e)'
  <2>1. Is(e, "reply") /\ role' = role
    BY <1>i, <1>t, <1>1, ProcFrame DEF Rounds
  <2> QED
    BY <2>1 DEF Requester, Is
<1> QED
  BY <1>10, <1>11

LEMMA AnswerNext == AnswerInv /\ [ExamplesNext]_vars => AnswerInv'
<1> SUFFICES ASSUME AnswerInv, [ExamplesNext]_vars PROVE AnswerInv'
  OBVIOUS
<1>1. ProcInv' /\ Patient' /\ \A o \in Objects : HasOwnPort(o)'
  BY ProcNext, PatientNext, PortNext DEF AnswerInv
<1>2. \A o \in Objects : Requester(o)'
  <2>1. ASSUME NEW e \in Objects, Process(e)
        PROVE  \A o \in Objects : Requester(o)'
    BY <2>1, StillStep, SendsStep, TakesStep, AnswersStep DEF Process
  <2>2. CASE Carry
    BY <2>2, CarryStep
  <2>3. CASE UNCHANGED vars
    <3>1. ASSUME NEW o \in Objects
          PROVE  Requester(o)'
      <4>1. Unmoved(o) /\ \A x \in Objects : BufferOf(x)' = BufferOf(x) /\ Hand(x)' = Hand(x)
        BY <2>3 DEF vars, socketVars, procVars, Unmoved, BufferOf, IsOpen, Hand, Asked
      <4>2. wire' = wire
        BY <2>3 DEF vars, socketVars
      <4>3. \A x \in Places : Same(x)
        BY <4>1, <4>2, Lines, LinesNext DEF Same
      <4> QED
        BY <4>1, <4>3, SameNoMore, QuietRequester DEF Same, AnswerInv
    <3> QED
      BY <3>1
  <2> QED
    BY <2>1, <2>2, <2>3 DEF ExamplesNext
<1> QED
  BY <1>1, <1>2 DEF AnswerInv

LEMMA AnswerInit == Init => AnswerInv
<1> SUFFICES ASSUME Init PROVE AnswerInv
  OBVIOUS
<1> USE Members
<1>1. /\ \A o \in Objects : ~IsOpen(o) /\ AddrOf(o) = NoAddr /\ BufferOf(o) = <<>>
                            /\ wire[o] = <<>> /\ heard[o] = <<>> /\ Hand(o) = <<>>
      /\ \A a \in Ports : wire[a] = <<>>
      /\ \A f \in Fds : file[f] = NotOpen
  BY DEF Init, SocketInit, IsOpen, AddrOf, BufferOf, Hand
<1>2. Patient
  BY <1>1 DEF Patient
<1>3. \A o \in Objects : HasOwnPort(o)
  BY <1>1 DEF HasOwnPort, AllOf
<1>4. \A p \in Places : Line(p) = <<>>
  BY <1>1, Lines
<1>5. ASSUME NEW o \in Objects
      PROVE  OneAway(o) /\ OfTheRound(o) /\ HeardInTurn(o)
  <2>1. \A p \in Places : About(Line(p), o) = {}
    BY <1>4, EmptyNoMore
  <2>2. HeardInTurn(o)
    BY <1>1 DEF HeardInTurn
  <2> QED
    BY <2>1, <2>2 DEF OneAway, OfTheRound
<1> QED
  BY <1>2, <1>3, <1>5, ProcInit DEF AnswerInv, Requester

\* ResponsesMatch, for any number of processes and rounds, and also when datagrams
\* are lost or overtake each other: a requester of rr.cpp takes the n-th answer it
\* gets for the answer to its n-th request, and it is.
THEOREM ResponsesMatchAlways == ExamplesSpec => []ResponsesMatch
<1>1. AnswerInv => ResponsesMatch
  BY DEF AnswerInv, Requester, HeardInTurn, ResponsesMatch
<1> QED
  BY AnswerInit, AnswerNext, <1>1, PTL DEF ExamplesSpec

=============================================================================
