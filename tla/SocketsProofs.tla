---------------------------- MODULE SocketsProofs ----------------------------
(***************************************************************************)
(* Proofs about Sockets, for every set of objects, descriptors, addresses, *)
(* messages and timeouts.                                                  *)
(*                                                                         *)
(* The invariant says that every object holds a descriptor of its own; it  *)
(* leaves room for descriptors that nobody holds, since a larger system    *)
(* may lose some (SocketInfo).  The calls of Sockets lose none.            *)
(***************************************************************************)
EXTENDS Sockets, SequenceTheorems, TLAPS

\* What was set stays known: a socket with SO_REUSEPORT belongs to an object
\* whose program asked for it.
ReuseIsAsked == \A o \in Objects : IsOpen(o) /\ file[fd[o]].reuse => o \in shared

Inv == TypeOK /\ HeldOnce

\* A step after which every object still has a descriptor of its own, and the
\* descriptors that nobody has are the same.
Matched == HeldOnce' /\ Orphans' = Orphans
Kept == Inv' /\ Orphans' = Orphans

SharingInv == Inv /\ ReuseIsAsked /\ SharingAsked

-----------------------------------------------------------------------------
(***************************************************************************)
(* get_time returns a timeval, which means to wait for ever only when it   *)
(* is given zero.                                                          *)
(***************************************************************************)
LEMMA TimevalType == ASSUME NEW msec \in Int PROVE get_time(msec) \in Timevals
BY DEF get_time, Timevals, CQuotient, CRemainder

\* So settimeout(0), and no other argument, removes the timeout of a socket.
LEMMA ForeverIsZero ==
  ASSUME NEW msec \in Int, get_time(msec) = Forever PROVE msec = 0
<1>1. CQuotient(msec, 1000) = 0
  BY DEF get_time, Forever
<1>2. CRemainder(msec - 0 * 1000, 1000) = 0
  BY <1>1 DEF get_time, Forever
<1>3. msec - 0 * 1000 = msec
  OBVIOUS
<1> QED
  BY <1>1, <1>2, <1>3 DEF CRemainder

\* A socket that ::socket has just made is one, and waits for ever.
LEMMA FreshType == Fresh \in KernelSockets /\ Forever \in Timevals
BY DEF Fresh, KernelSockets, Forever, Timevals

\* An open object holds a descriptor with a kernel's socket behind it.
LEMMA Held ==
  ASSUME Inv, NEW o \in Objects, IsOpen(o)
  PROVE  /\ o \in objs /\ fd[o] \in Fds
         /\ file[fd[o]] \in KernelSockets /\ file[fd[o]] # NotOpen
BY NotOpenAssumption DEF Inv, TypeOK, HeldOnce, IsOpen

-----------------------------------------------------------------------------
(***************************************************************************)
(* The type invariant and the match of descriptors and objects.            *)
(***************************************************************************)
LEMMA InitInv == SocketInit => Inv
<1> SUFFICES ASSUME SocketInit PROVE Inv
  OBVIOUS
<1> USE DEF SocketInit
<1>1. wire \in [Ports -> Seq(Data)]
  OBVIOUS
<1>2. TypeOK
  BY <1>1 DEF TypeOK
<1>3. HeldOnce
  BY DEF HeldOnce, IsOpen
<1> QED
  BY <1>2, <1>3 DEF Inv

(***************************************************************************)
(* The calls that change the kernel's socket of one object, and nothing    *)
(* that says which descriptors are whose.                                  *)
(***************************************************************************)
LEMMA ChangeKept ==
  ASSUME Inv, NEW o \in Objects, NEW k \in KernelSockets,
         file' = IF IsOpen(o) THEN [file EXCEPT ![fd[o]] = k] ELSE file,
         UNCHANGED <<objs, fd>>
  PROVE  file' \in [Fds -> KernelSockets \cup {NotOpen}] /\ Matched
<1>1. CASE IsOpen(o)
  <2>1. fd[o] \in Fds /\ k # NotOpen /\ file[fd[o]] # NotOpen
    BY <1>1, Held, NotOpenAssumption
  <2>2. file \in [Fds -> KernelSockets \cup {NotOpen}]
    BY DEF Inv, TypeOK
  <2>3. \A f \in Fds : file'[f] # NotOpen <=> file[f] # NotOpen
    BY <1>1, <2>1, <2>2
  <2>4. \A p \in Objects : IsOpen(p) => fd[p] \in Fds
    BY DEF Inv, TypeOK, IsOpen
  <2> QED
    BY <1>1, <2>1, <2>2, <2>3, <2>4 DEF Inv, Matched, HeldOnce, Orphans, IsOpen
<1>2. CASE ~IsOpen(o)
  BY <1>2 DEF Inv, TypeOK, Matched, HeldOnce, Orphans, IsOpen
<1> QED
  BY <1>1, <1>2

\* The calls that do not change any kernel's socket.
LEMMA FileKept ==
  ASSUME Inv, UNCHANGED <<objs, fd, file>>
  PROVE  file' \in [Fds -> KernelSockets \cup {NotOpen}] /\ Matched
BY DEF Inv, TypeOK, Matched, HeldOnce, Orphans, IsOpen

\* sendto() to any port, one that the kernel chose included.
LEMMA SendToKept ==
  ASSUME Inv, NEW o \in Objects, NEW a \in Ports, NEW m \in Data, SendTo(o, a, m)
  PROVE  Kept
<1> USE DEF Inv, Matched, Kept
<1> DEFINE k == IF IsOpen(o)
                THEN [file[fd[o]] EXCEPT !.addr = IF @ = NoAddr THEN o ELSE @]
                ELSE Fresh
<1>1. k \in KernelSockets
  BY Held, FreshType DEF KernelSockets, Ports
<1>2. file' = IF IsOpen(o) THEN [file EXCEPT ![fd[o]] = k] ELSE file
  BY Held DEF SendTo, TypeOK, KernelSockets
<1>3. file' \in [Fds -> KernelSockets \cup {NotOpen}] /\ Matched
  <2> HIDE DEF k, Inv, Matched
  <2> QED
    BY <1>1, <1>2, ChangeKept DEF SendTo
<1>4. Append(wire[a], m) \in Seq(Data)
  BY DEF TypeOK, Ports
<1>5. wire' \in [Ports -> Seq(Data)]
  BY <1>4 DEF SendTo, TypeOK
<1> QED
  BY <1>3, <1>5 DEF SendTo, TypeOK

\* So it keeps the invariant.
LEMMA SendToInv ==
  ASSUME Inv, NEW o \in Objects, NEW a \in Ports, NEW m \in Data, SendTo(o, a, m)
  PROVE  Inv'
BY SendToKept DEF Kept

-----------------------------------------------------------------------------
\* Every call, every delivery and every stutter keeps the two.
LEMMA NextKept == Inv /\ [Next]_socketVars => Kept
<1> SUFFICES ASSUME Inv, [Next]_socketVars PROVE Kept
  OBVIOUS
<1> USE DEF Inv, Matched, Kept
<1>t. TypeOK
  OBVIOUS
<1>1. ASSUME NEW o \in Objects, Construct(o) PROVE Kept
  <2> USE <1>1
  <2>1. TypeOK'
    BY FreshType DEF TypeOK, Construct
  <2>2. CASE \A f \in Fds : file[f] # NotOpen
    <3>1. file' = file /\ fd' = [fd EXCEPT ![o] = SOCKET_ERR] /\ o \notin objs
          /\ objs' = objs \cup {o}
      BY <2>2, SocketsAssumption, NotOpenAssumption, FreshType DEF Construct
    <3>2. fd' = fd
      BY <3>1 DEF TypeOK, HeldOnce, IsOpen
    <3> QED
      BY <2>1, <3>1, <3>2 DEF HeldOnce, Orphans, IsOpen
  <2>3. ASSUME NEW f \in Fds, file[f] = NotOpen, fd' = [fd EXCEPT ![o] = f],
               file' = [file EXCEPT ![f] = Fresh]
        PROVE  Matched
    <3>1. objs' = objs \cup {o} /\ fd[o] = SOCKET_ERR
      BY DEF Construct, HeldOnce, IsOpen
    <3>2. \A p \in Objects : fd[p] # f
      BY <2>3, SocketsAssumption DEF HeldOnce, IsOpen
    <3>3. Fresh # NotOpen /\ f # SOCKET_ERR
      BY FreshType, NotOpenAssumption, SocketsAssumption
    <3>4. fd'[o] = f /\ \A p \in Objects \ {o} : fd'[p] = fd[p]
      BY <2>3 DEF TypeOK
    <3>5. file'[f] # NotOpen /\ \A g \in Fds \ {f} : file'[g] = file[g]
      BY <2>3, <3>3 DEF TypeOK
    <3>6. \A p \in Objects : fd'[p] # SOCKET_ERR => p \in objs' /\ file'[fd'[p]] # NotOpen
      BY <3>1, <3>2, <3>4, <3>5 DEF HeldOnce, IsOpen, TypeOK
    <3>7. \A p, q \in Objects : fd'[p] # SOCKET_ERR /\ fd'[p] = fd'[q] => p = q
      BY <3>2, <3>4 DEF HeldOnce, IsOpen
    <3>8. \A g \in Fds : (file'[g] # NotOpen /\ \A p \in Objects : fd'[p] # g)
                        <=> (file[g] # NotOpen /\ \A p \in Objects : fd[p] # g)
      BY <2>3, <3>1, <3>4, <3>5, SocketsAssumption
    <3> QED
      BY <3>6, <3>7, <3>8 DEF HeldOnce, Orphans, IsOpen
  <2> QED
    BY <2>1, <2>2, <2>3 DEF Construct
<1>2. ASSUME NEW o \in Objects, CloseFd(o), o \in objs, o \notin inrecv,
             objs' \in {objs, objs \ {o}},
             UNCHANGED <<wire, inrecv, result, asked, shared>>
      PROVE  Kept
  <2> USE <1>2
  <2>1. TypeOK'
    BY Held DEF TypeOK, CloseFd
  <2>2. fd'[o] = SOCKET_ERR /\ \A p \in Objects \ {o} : fd'[p] = fd[p]
    BY DEF CloseFd, TypeOK
  <2>3. \A p \in Objects \ {o} : IsOpen(p) => file'[fd[p]] = file[fd[p]]
    BY Held DEF CloseFd, TypeOK, HeldOnce
  <2>4. \A f \in Fds : file'[f] # NotOpen => file[f] # NotOpen /\ f # fd[o]
    BY SocketsAssumption, Held DEF CloseFd, TypeOK, IsOpen
  <2>5. \A f \in Fds : (file'[f] # NotOpen /\ \A p \in Objects : fd'[p] # f)
                      <=> (file[f] # NotOpen /\ \A p \in Objects : fd[p] # f)
    <3>1. \A f \in Fds : f # fd[o] => file'[f] = file[f] /\ f # SOCKET_ERR
      BY SocketsAssumption DEF CloseFd, TypeOK
    <3> QED
      BY <2>2, <2>4, <3>1
  <2>6. Matched
    BY <2>2, <2>3, <2>5 DEF HeldOnce, Orphans, IsOpen
  <2> QED
    BY <2>1, <2>6
<1>3. ASSUME NEW o \in Objects, Close(o) \/ Destroy(o) PROVE Kept
  BY <1>2, <1>3 DEF Close, Destroy, Idle
<1>4. ASSUME NEW o \in Objects, NEW msec \in Msecs, SetTimeout(o, msec) PROVE Kept
  <2> DEFINE k == [file[fd[o]] EXCEPT !.timeout = get_time(msec)]
  <2>1. CASE IsOpen(o) /\ Accepted(get_time(msec))
    <3>1. k \in KernelSockets
      BY <2>1, Held, TimevalType, SocketsAssumption DEF KernelSockets
    <3>2. file' = [file EXCEPT ![fd[o]] = k] /\ UNCHANGED <<objs, fd>>
      BY <1>4, <2>1 DEF SetTimeout
    <3>3. file' \in [Fds -> KernelSockets \cup {NotOpen}] /\ Matched
      <4> HIDE DEF k, Inv, Matched
      <4> QED
        BY <2>1, <3>1, <3>2, ChangeKept
    <3> QED
      BY <1>4, <2>1, <3>3, SocketsAssumption DEF SetTimeout, TypeOK
  <2>2. CASE ~(IsOpen(o) /\ Accepted(get_time(msec)))
    BY <1>4, <2>2, FileKept DEF SetTimeout, TypeOK
  <2> QED
    BY <2>1, <2>2
<1>5. ASSUME NEW o \in Objects, NEW on \in BOOLEAN, SetNonblocking(o, on) PROVE Kept
  <2> DEFINE k == IF IsOpen(o) THEN [file[fd[o]] EXCEPT !.nonblocking = on] ELSE Fresh
  <2>1. k \in KernelSockets
    BY Held, FreshType DEF KernelSockets
  <2>2. file' = IF IsOpen(o) THEN [file EXCEPT ![fd[o]] = k] ELSE file
    BY <1>5 DEF SetNonblocking
  <2>3. file' \in [Fds -> KernelSockets \cup {NotOpen}] /\ Matched
    <3> HIDE DEF k, Inv, Matched
    <3> QED
      BY <1>5, <2>1, <2>2, ChangeKept DEF SetNonblocking
  <2> QED
    BY <1>5, <2>3 DEF SetNonblocking, TypeOK, IsOpen
<1>6. ASSUME NEW o \in Objects, NEW on \in BOOLEAN, ReuseSocket(o, on) PROVE Kept
  <2> DEFINE k == IF IsOpen(o) THEN [file[fd[o]] EXCEPT !.reuse = on] ELSE Fresh
  <2>1. k \in KernelSockets
    BY Held, FreshType DEF KernelSockets
  <2>2. file' = IF IsOpen(o) THEN [file EXCEPT ![fd[o]] = k] ELSE file
    BY <1>6 DEF ReuseSocket
  <2>3. file' \in [Fds -> KernelSockets \cup {NotOpen}] /\ Matched
    <3> HIDE DEF k, Inv, Matched
    <3> QED
      BY <1>6, <2>1, <2>2, ChangeKept DEF ReuseSocket
  <2> QED
    BY <1>6, <2>3 DEF ReuseSocket, TypeOK, IsOpen
<1>7. ASSUME NEW o \in Objects, NEW a \in Addrs, Bind(o, a) PROVE Kept
  <2> DEFINE ok == IsOpen(o) /\ MayBind(fd[o], a, file[fd[o]].reuse)
             k == IF IsOpen(o)
                  THEN [file[fd[o]] EXCEPT !.addr = IF ok THEN a ELSE @] ELSE Fresh
  <2>1. k \in KernelSockets
    BY Held, FreshType DEF KernelSockets, Ports
  <2>2. file' = IF IsOpen(o) THEN [file EXCEPT ![fd[o]] = k] ELSE file
    BY <1>7, Held DEF Bind, TypeOK, KernelSockets
  <2>3. file' \in [Fds -> KernelSockets \cup {NotOpen}] /\ Matched
    <3> HIDE DEF k, ok, Inv, Matched
    <3> QED
      BY <1>7, <2>1, <2>2, ChangeKept DEF Bind
  <2>4. result' = <<"bind", ok>> /\ ok \in BOOLEAN
    BY <1>7 DEF Bind, IsOpen, MayBind
  <2> QED
    BY <1>7, <2>3, <2>4 DEF Bind, TypeOK
<1>8. ASSUME NEW o \in Objects, NEW a \in Addrs, Connect(o, a) PROVE Kept
  <2> DEFINE ok == IsOpen(o) /\ MayBind(fd[o], a, TRUE)
             k == IF IsOpen(o)
                  THEN [file[fd[o]] EXCEPT !.reuse = TRUE, !.addr = IF ok THEN a ELSE @]
                  ELSE Fresh
  <2>1. k \in KernelSockets
    BY Held, FreshType DEF KernelSockets, Ports
  <2>2. file' = IF IsOpen(o) THEN [file EXCEPT ![fd[o]] = k] ELSE file
    BY <1>8, Held DEF Connect, TypeOK, KernelSockets
  <2>3. file' \in [Fds -> KernelSockets \cup {NotOpen}] /\ Matched
    <3> HIDE DEF k, ok, Inv, Matched
    <3> QED
      BY <1>8, <2>1, <2>2, ChangeKept DEF Connect
  <2>4. result' = <<"connect", ok>> /\ ok \in BOOLEAN
    BY <1>8 DEF Connect, IsOpen, MayBind
  <2>5. shared' \subseteq Objects
    BY <1>8 DEF Connect, TypeOK
  <2>6. UNCHANGED <<objs, fd, wire, inrecv, asked>>
    BY <1>8 DEF Connect
  <2> HIDE DEF ok, k
  <2> QED
    BY <2>3, <2>4, <2>5, <2>6 DEF TypeOK
<1>9. ASSUME NEW o \in Objects, NEW a \in Addrs, NEW m \in Data, SendTo(o, a, m)
      PROVE  Kept
  BY <1>9, SendToKept DEF Ports
<1>10. ASSUME NEW o \in Objects, Recvfrom(o) PROVE Kept
  BY <1>10, FileKept DEF Recvfrom, Idle, TypeOK
<1>11. ASSUME NEW o \in Objects, RecvReturns(o) PROVE Kept
  <2> DEFINE b == file[fd[o]].buffer
             k == IF IsOpen(o) THEN [file[fd[o]] EXCEPT !.buffer = Tail(@)] ELSE Fresh
  <2>1. b \in Seq(Data) /\ b # <<>>
    BY <1>11, Held DEF RecvReturns, KernelSockets
  <2>2. Tail(b) \in Seq(Data) /\ Head(b) \in Data
    BY <2>1
  <2>3. k \in KernelSockets
    BY <2>2, Held, FreshType DEF KernelSockets
  <2>4. file' = IF IsOpen(o) THEN [file EXCEPT ![fd[o]] = k] ELSE file
    BY <1>11 DEF RecvReturns
  <2>5. file' \in [Fds -> KernelSockets \cup {NotOpen}] /\ Matched
    <3> HIDE DEF k, b, Inv, Matched
    <3> QED
      BY <1>11, <2>3, <2>4, ChangeKept DEF RecvReturns, Returned
  <2>6. result' = <<"recvfrom", IF Head(b) = Zero THEN Empty ELSE Head(b)>>
    BY <1>11 DEF RecvReturns, Returned
  <2> QED
    BY <1>11, <2>2, <2>5, <2>6 DEF RecvReturns, Returned, TypeOK
<1>12. ASSUME NEW o \in Objects, RecvFails(o) PROVE Kept
  BY <1>12, FileKept DEF RecvFails, Returned, TypeOK
<1>13. ASSUME NEW o \in Objects, Available(o) \/ AvailableForWrite(o) PROVE Kept
  <2>1. ASSUME NEW call \in {"available", "availableForWrite"}, NEW ready \in BOOLEAN,
               Tests(o, call, ready)
        PROVE  Kept
    <3>1. UNCHANGED <<objs, fd, file, wire, inrecv, asked, shared>>
      BY <2>1 DEF Tests
    <3>2. (IF Select(ready).err > 0 THEN FALSE ELSE Select(ready).isset) = FALSE
      BY DEF Select
    <3>3. CASE IsOpen(o) /\ result' = <<call, FALSE>>
      BY <3>3, <3>1, FileKept DEF TypeOK
    <3>4. CASE result' \in {call} \X BOOLEAN
      BY <3>4, <3>1, FileKept DEF TypeOK
    <3> QED
      BY <2>1, <3>2, <3>3, <3>4 DEF Tests
  <2> QED
    BY <1>13, <2>1 DEF Available, AvailableForWrite, Readable, IsOpen
<1>14. ASSUME NEW a \in Ports, NEW i \in DOMAIN wire[a], Deliver(a, i) PROVE Kept
  <2>1. Without(wire[a], i) \in Seq(Data) /\ wire[a][i] \in Data
    BY <1>14 DEF TypeOK, Without
  <2>2. wire' \in [Ports -> Seq(Data)]
    BY <1>14, <2>1 DEF Deliver, TypeOK
  <2>3. ASSUME NEW f \in BoundTo(a),
               file' = [file EXCEPT ![f].buffer = Append(@, wire[a][i])]
        PROVE  file' \in [Fds -> KernelSockets \cup {NotOpen}] /\ Matched
    <3> DEFINE k == [file[f] EXCEPT !.buffer = Append(@, wire[a][i])]
    <3>1. file[f] \in KernelSockets /\ file[f] # NotOpen /\ f \in Fds
      BY DEF BoundTo, TypeOK
    <3>2. Append(file[f].buffer, wire[a][i]) \in Seq(Data)
      BY <2>1, <3>1 DEF KernelSockets
    <3>3. k \in KernelSockets
      BY <3>1, <3>2 DEF KernelSockets
    <3>4. k # NotOpen /\ file' = [file EXCEPT ![f] = k] /\ UNCHANGED <<objs, fd>>
      BY <1>14, <2>3, <3>3, NotOpenAssumption DEF Deliver
    <3>5. file \in [Fds -> KernelSockets \cup {NotOpen}] /\ HeldOnce
          /\ \A p \in Objects : IsOpen(p) => fd[p] \in Fds
      BY DEF TypeOK, IsOpen
    <3> HIDE DEF k, Inv
    <3>6. file' \in [Fds -> KernelSockets \cup {NotOpen}]
          /\ \A g \in Fds : file'[g] # NotOpen <=> file[g] # NotOpen
      BY <3>1, <3>3, <3>4, <3>5
    <3> QED
      BY <3>4, <3>5, <3>6 DEF HeldOnce, Orphans, IsOpen
  <2>4. file' \in [Fds -> KernelSockets \cup {NotOpen}] /\ Matched
    BY <1>14, <2>3, FileKept DEF Deliver
  <2> QED
    BY <1>14, <2>2, <2>4 DEF Deliver, TypeOK
<1>15. CASE UNCHANGED socketVars
  BY <1>15, FileKept DEF socketVars, TypeOK
<1> QED
  BY <1>1, <1>3, <1>4, <1>5, <1>6, <1>7, <1>8, <1>9, <1>10, <1>11, <1>12, <1>13,
     <1>14, <1>15 DEF Next, Network, Calls, Binds, Uses

\* So it keeps the invariant.
LEMMA NextInv == Inv /\ [Next]_socketVars => Inv'
BY NextKept DEF Kept

(***************************************************************************)
(* Typing and the match of descriptors with objects: no descriptor is      *)
(* leaked, closed twice or used by two objects, however many there are.    *)
(***************************************************************************)
THEOREM InvAlways == Spec => []Inv
BY InitInv, NextInv, PTL DEF Spec

\* The type invariant of Sockets holds for every value of its constants.
THEOREM Typing == Spec => []TypeOK
<1>1. Inv => TypeOK
  BY DEF Inv
<1> QED
  BY <1>1, InvAlways, PTL

\* Open descriptors and live objects match, one to one, at all times.
THEOREM NoneLeaked == Spec => []DescriptorsMatch
<1>1. SocketInit => Inv /\ Orphans = {}
  BY InitInv DEF SocketInit, Orphans
<1>2. Inv /\ Orphans = {} /\ [Next]_socketVars => (Inv /\ Orphans = {})'
  BY NextKept DEF Kept
<1>3. Inv /\ Orphans = {} => DescriptorsMatch
  BY DEF Inv, DescriptorsMatch
<1> QED
  BY <1>1, <1>2, <1>3, PTL DEF Spec

-----------------------------------------------------------------------------
(***************************************************************************)
(* A call on one object leaves the others alone: their descriptors, the    *)
(* kernel's sockets behind them, and what their programs have asked for.   *)
(***************************************************************************)
OthersKept(o) ==
  \A p \in Objects \ {o} :
    /\ fd'[p] = fd[p]
    /\ IsOpen(p) => file'[fd[p]] = file[fd[p]]
    /\ asked'[p] = asked[p]
    /\ p \in shared' <=> p \in shared

\* o's socket after a call that changed nothing of it but k.
NowHas(o, k) == IsOpen(o) => fd'[o] = fd[o] /\ file'[fd[o]] = k

\* The calls that replace the kernel's socket of one object by k.
LEMMA OneChanged ==
  ASSUME Inv, NEW o \in Objects, NEW k,
         file' = IF IsOpen(o) THEN [file EXCEPT ![fd[o]] = k] ELSE file, UNCHANGED fd
  PROVE  /\ \A p \in Objects \ {o} :
              fd'[p] = fd[p] /\ (IsOpen(p) => file'[fd[p]] = file[fd[p]])
         /\ NowHas(o, k)
<1>1. \A p \in Objects : IsOpen(p) => fd[p] \in Fds
  BY Held
<1>2. \A p \in Objects \ {o} : IsOpen(p) => fd[p] # fd[o]
  BY DEF Inv, HeldOnce
<1>3. file \in [Fds -> KernelSockets \cup {NotOpen}]
  BY DEF Inv, TypeOK
<1> QED
  BY <1>1, <1>2, <1>3 DEF NowHas, IsOpen

\* makeSocket() takes a descriptor that nobody holds, or none.
LEMMA ConstructEffect ==
  ASSUME Inv, NEW o \in Objects, Construct(o)
  PROVE  /\ OthersKept(o) /\ ~IsOpen(o) /\ asked'[o] = 0
         /\ fd'[o] # SOCKET_ERR => file'[fd'[o]] = Fresh
<1>1. ~IsOpen(o) /\ fd[o] = SOCKET_ERR
  BY DEF Construct, Inv, HeldOnce, IsOpen
<1>2. asked' = [asked EXCEPT ![o] = 0] /\ shared' = shared \ {o}
  BY DEF Construct
<1>3. CASE file' = file /\ fd' = [fd EXCEPT ![o] = SOCKET_ERR]
  BY <1>1, <1>2, <1>3 DEF OthersKept, Inv, TypeOK
<1>4. ASSUME NEW f \in Fds, file[f] = NotOpen, fd' = [fd EXCEPT ![o] = f],
             file' = [file EXCEPT ![f] = Fresh]
      PROVE  OthersKept(o) /\ file'[fd'[o]] = Fresh
  <2>1. \A p \in Objects : IsOpen(p) => fd[p] # f
    BY <1>4 DEF Inv, HeldOnce
  <2> QED
    BY <1>2, <1>4, <2>1 DEF OthersKept, Inv, TypeOK, IsOpen
<1>5. \/ file' = file /\ fd' = [fd EXCEPT ![o] = SOCKET_ERR]
      \/ \E f \in Fds : /\ file[f] = NotOpen /\ fd' = [fd EXCEPT ![o] = f]
                        /\ file' = [file EXCEPT ![f] = Fresh]
  BY DEF Construct
<1>6. fd \in [Objects -> Fds \cup {SOCKET_ERR}] /\ asked \in [Objects -> Int]
  BY DEF Inv, TypeOK
<1> QED
  BY <1>1, <1>2, <1>3, <1>4, <1>5, <1>6

\* close() and the destructor give up the descriptor of their own object.
LEMMA CloseEffect ==
  ASSUME Inv, NEW o \in Objects, Close(o) \/ Destroy(o)
  PROVE  OthersKept(o) /\ fd'[o] = SOCKET_ERR
<1>1. /\ file' = IF IsOpen(o) THEN [file EXCEPT ![fd[o]] = NotOpen] ELSE file
      /\ fd' = [fd EXCEPT ![o] = SOCKET_ERR]
      /\ UNCHANGED <<asked, shared>>
  BY DEF Close, Destroy, CloseFd
<1>2. \A p \in Objects \ {o} : IsOpen(p) => fd[p] # fd[o] /\ fd[p] \in Fds
  BY Held DEF Inv, HeldOnce
<1> QED
  BY <1>1, <1>2 DEF OthersKept, Inv, TypeOK, IsOpen

-----------------------------------------------------------------------------
(***************************************************************************)
(* Who shares an address.  The step keeps ReuseIsAsked and SharingAsked if *)
(* it does so for the object o that called: its address, if a program can  *)
(* name it, is the one it had, or all who have it asked for sharing.       *)
(***************************************************************************)
LEMMA SharingKept ==
  ASSUME SharingInv, Inv', NEW o \in Objects, OthersKept(o),
         fd'[o] # SOCKET_ERR /\ file'[fd'[o]].reuse => o \in shared',
         fd'[o] # SOCKET_ERR /\ file'[fd'[o]].addr \in Addrs =>
           \/ /\ IsOpen(o) /\ file'[fd'[o]].addr = file[fd[o]].addr
              /\ o \in shared => o \in shared'
           \/ \A p \in Objects \ {o} :
                IsOpen(p) /\ file[fd[p]].addr = file'[fd'[o]].addr
                => p \in shared /\ o \in shared'
  PROVE  (ReuseIsAsked /\ SharingAsked)'
<1> USE DEF SharingInv
<1>1. ASSUME NEW p \in Objects, fd'[p] # SOCKET_ERR, file'[fd'[p]].reuse
      PROVE  p \in shared'
  <2>1. CASE p = o
    BY <1>1, <2>1
  <2>2. CASE p # o
    BY <1>1, <2>2 DEF OthersKept, ReuseIsAsked, IsOpen
  <2> QED
    BY <2>1, <2>2
<1>2. \A p \in Objects : IsOpen(p) => p \in objs
  BY Held
<1>3. ASSUME NEW p \in Objects, p # o, fd'[p] # SOCKET_ERR, fd'[o] # SOCKET_ERR,
             file'[fd'[p]].addr = file'[fd'[o]].addr, file'[fd'[o]].addr \in Addrs
      PROVE  p \in shared' /\ o \in shared'
  <2>1. IsOpen(p) /\ file[fd[p]].addr = file'[fd'[o]].addr /\ (p \in shared' <=> p \in shared)
    BY <1>3 DEF OthersKept, IsOpen
  <2>2. CASE IsOpen(o) /\ file'[fd'[o]].addr = file[fd[o]].addr
             /\ (o \in shared => o \in shared')
    BY <1>2, <1>3, <2>1, <2>2 DEF SharingAsked
  <2>3. CASE p \in shared /\ o \in shared'
    BY <2>1, <2>3
  <2> QED
    BY <1>3, <2>1, <2>2, <2>3
<1>4. ASSUME NEW p \in Objects \ {o}, NEW q \in Objects \ {o}, p # q,
             fd'[p] # SOCKET_ERR, fd'[q] # SOCKET_ERR,
             file'[fd'[p]].addr = file'[fd'[q]].addr, file'[fd'[p]].addr \in Addrs
      PROVE  p \in shared' /\ q \in shared'
  <2>1. IsOpen(p) /\ IsOpen(q) /\ file[fd[p]].addr = file[fd[q]].addr
        /\ file[fd[p]].addr \in Addrs
    BY <1>4 DEF OthersKept, IsOpen
  <2>2. p \in shared /\ q \in shared
    BY <1>2, <1>4, <2>1 DEF SharingAsked
  <2> QED
    BY <2>2 DEF OthersKept
<1>5. objs' \subseteq Objects
  BY DEF Inv, TypeOK
<1>6. ReuseIsAsked'
  BY <1>1 DEF ReuseIsAsked, IsOpen
<1>7. ASSUME NEW p \in objs', NEW q \in objs', p # q,
             fd'[p] # SOCKET_ERR, fd'[q] # SOCKET_ERR,
             file'[fd'[p]].addr = file'[fd'[q]].addr, file'[fd'[p]].addr \in Addrs
      PROVE  p \in shared' /\ q \in shared'
  <2>1. CASE p = o
    BY <1>3, <1>5, <1>7, <2>1
  <2>2. CASE q = o
    BY <1>3, <1>5, <1>7, <2>2
  <2>3. CASE p # o /\ q # o
    BY <1>4, <1>5, <1>7, <2>3
  <2> QED
    BY <2>1, <2>2, <2>3
<1>8. SharingAsked'
  BY <1>7 DEF SharingAsked, IsOpen
<1> QED
  BY <1>6, <1>8

\* A kernel's socket that o has been given an address by bind().
LEMMA BindShares ==
  ASSUME SharingInv, NEW o \in Objects, NEW a \in Addrs, NEW reuse \in BOOLEAN,
         IsOpen(o), MayBind(fd[o], a, reuse), NEW p \in Objects \ {o},
         IsOpen(p), file[fd[p]].addr = a
  PROVE  p \in shared /\ reuse
<1>1. fd[p] \in BoundTo(a)
  BY Held DEF SharingInv, BoundTo
<1>2. file[fd[p]].reuse /\ reuse
  BY <1>1 DEF MayBind
<1> QED
  BY <1>2 DEF SharingInv, ReuseIsAsked

\* No step makes two sockets share an address without both having asked.
LEMMA SharingNext ==
  SharingInv /\ Inv' /\ [Next]_socketVars => (ReuseIsAsked /\ SharingAsked)'
<1> SUFFICES ASSUME SharingInv, Inv', [Next]_socketVars
             PROVE  (ReuseIsAsked /\ SharingAsked)'
  OBVIOUS
<1> USE DEF SharingInv
<1>1. ASSUME NEW o \in Objects, Construct(o) PROVE (ReuseIsAsked /\ SharingAsked)'
  <2>1. Fresh.addr \notin Addrs /\ ~Fresh.reuse
    BY SocketsAssumption DEF Fresh
  <2> QED
    BY <1>1, <2>1, ConstructEffect, SharingKept
<1>2. ASSUME NEW o \in Objects, Close(o) \/ Destroy(o)
      PROVE  (ReuseIsAsked /\ SharingAsked)'
  BY <1>2, CloseEffect, SharingKept
<1>3. ASSUME NEW o \in Objects, NEW k, UNCHANGED <<fd, shared>>,
             \A p \in Objects \ {o} : asked'[p] = asked[p],
             file' = IF IsOpen(o) THEN [file EXCEPT ![fd[o]] = k] ELSE file,
             IsOpen(o) => /\ k.reuse = file[fd[o]].reuse
                          /\ k.addr = file[fd[o]].addr \/ k.addr \notin Addrs
      PROVE  (ReuseIsAsked /\ SharingAsked)'
  <2>1. OthersKept(o) /\ NowHas(o, k)
    BY <1>3, OneChanged DEF OthersKept
  <2>2. fd'[o] # SOCKET_ERR => IsOpen(o) /\ file'[fd'[o]] = k /\ fd' = fd
    BY <1>3, <2>1 DEF NowHas, IsOpen
  <2>3. fd'[o] # SOCKET_ERR /\ file'[fd'[o]].reuse => o \in shared'
    BY <1>3, <2>2 DEF ReuseIsAsked
  <2> QED
    BY <1>3, <2>1, <2>2, <2>3, SharingKept
<1>4. CASE UNCHANGED <<objs, fd, file, shared>>
  BY <1>4 DEF ReuseIsAsked, SharingAsked, IsOpen
<1>5. ASSUME NEW o \in Objects, NEW msec \in Msecs, SetTimeout(o, msec)
      PROVE  (ReuseIsAsked /\ SharingAsked)'
  <2>1. CASE IsOpen(o) /\ Accepted(get_time(msec))
    <3> DEFINE k == [file[fd[o]] EXCEPT !.timeout = get_time(msec)]
    <3>1. k.reuse = file[fd[o]].reuse /\ k.addr = file[fd[o]].addr
      BY <2>1, Held DEF KernelSockets
    <3>2. /\ file' = [file EXCEPT ![fd[o]] = k] /\ UNCHANGED <<fd, shared>>
          /\ \A p \in Objects \ {o} : asked'[p] = asked[p]
      BY <1>5, <2>1 DEF SetTimeout, Inv, TypeOK
    <3> HIDE DEF k
    <3> QED
      BY <1>3, <2>1, <3>1, <3>2
  <2>2. CASE ~(IsOpen(o) /\ Accepted(get_time(msec)))
    BY <1>4, <1>5, <2>2 DEF SetTimeout
  <2> QED
    BY <2>1, <2>2
<1>6. ASSUME NEW o \in Objects, NEW on \in BOOLEAN, SetNonblocking(o, on)
      PROVE  (ReuseIsAsked /\ SharingAsked)'
  <2> DEFINE k == [file[fd[o]] EXCEPT !.nonblocking = on]
  <2>1. IsOpen(o) => k.reuse = file[fd[o]].reuse /\ k.addr = file[fd[o]].addr
    BY Held DEF KernelSockets
  <2>2. /\ file' = IF IsOpen(o) THEN [file EXCEPT ![fd[o]] = k] ELSE file
        /\ UNCHANGED <<fd, shared, asked>>
    BY <1>6 DEF SetNonblocking
  <2> HIDE DEF k
  <2> QED
    BY <1>3, <2>1, <2>2
<1>7. ASSUME NEW o \in Objects, NEW on \in BOOLEAN, ReuseSocket(o, on)
      PROVE  (ReuseIsAsked /\ SharingAsked)'
  <2> DEFINE k == [file[fd[o]] EXCEPT !.reuse = on]
  <2>1. IsOpen(o) => k.reuse = on /\ k.addr = file[fd[o]].addr
    BY Held DEF KernelSockets
  <2>2. /\ file' = IF IsOpen(o) THEN [file EXCEPT ![fd[o]] = k] ELSE file
        /\ UNCHANGED <<fd, asked>>
        /\ shared' = IF IsOpen(o) /\ on THEN shared \cup {o} ELSE shared
    BY <1>7 DEF ReuseSocket
  <2> HIDE DEF k
  <2>3. OthersKept(o) /\ NowHas(o, k)
    BY <2>2, OneChanged DEF OthersKept
  <2> QED
    BY <2>1, <2>2, <2>3, SharingKept DEF NowHas, IsOpen
<1>8. ASSUME NEW o \in Objects, NEW a \in Addrs, Bind(o, a)
      PROVE  (ReuseIsAsked /\ SharingAsked)'
  <2>1. CASE IsOpen(o) /\ MayBind(fd[o], a, file[fd[o]].reuse)
    <3> DEFINE k == [file[fd[o]] EXCEPT !.addr = a]
    <3>1. k.reuse = file[fd[o]].reuse /\ k.addr = a /\ k.reuse \in BOOLEAN
      BY <2>1, Held DEF KernelSockets
    <3>2. file' = [file EXCEPT ![fd[o]] = k] /\ UNCHANGED <<fd, shared, asked>>
      BY <1>8, <2>1 DEF Bind
    <3> HIDE DEF k
    <3>3. OthersKept(o) /\ NowHas(o, k)
      BY <2>1, <3>2, OneChanged DEF OthersKept
    <3>4. fd'[o] = fd[o] /\ file'[fd'[o]] = k
      BY <2>1, <3>3 DEF NowHas
    <3>5. k.reuse => o \in shared'
      BY <2>1, <3>1, <3>2 DEF ReuseIsAsked
    <3>6. \A p \in Objects \ {o} : IsOpen(p) /\ file[fd[p]].addr = a
                                   => p \in shared /\ o \in shared'
      BY <2>1, <3>1, <3>5, BindShares
    <3> QED
      BY <3>1, <3>3, <3>4, <3>5, <3>6, SharingKept
  <2>2. CASE ~(IsOpen(o) /\ MayBind(fd[o], a, file[fd[o]].reuse))
    BY <1>4, <1>8, <2>2 DEF Bind
  <2> QED
    BY <2>1, <2>2
<1>9. ASSUME NEW o \in Objects, NEW a \in Addrs, Connect(o, a)
      PROVE  (ReuseIsAsked /\ SharingAsked)'
  <2>1. CASE IsOpen(o)
    <3> DEFINE ok == MayBind(fd[o], a, TRUE)
               k == [file[fd[o]] EXCEPT !.reuse = TRUE, !.addr = IF ok THEN a ELSE @]
    <3>1. k.reuse /\ k.addr = IF ok THEN a ELSE file[fd[o]].addr
      BY <2>1, Held DEF KernelSockets
    <3>2. /\ file' = [file EXCEPT ![fd[o]] = k] /\ UNCHANGED <<fd, asked>>
          /\ shared' = shared \cup {o}
      BY <1>9, <2>1, Held DEF Connect, KernelSockets
    <3>3. ok => \A p \in Objects \ {o} : IsOpen(p) /\ file[fd[p]].addr = a => p \in shared
      BY <2>1, BindShares
    <3> HIDE DEF k, ok
    <3>4. OthersKept(o) /\ NowHas(o, k)
      BY <2>1, <3>2, OneChanged DEF OthersKept
    <3>5. fd'[o] = fd[o] /\ file'[fd'[o]] = k
      BY <2>1, <3>4 DEF NowHas
    <3> QED
      BY <2>1, <3>1, <3>2, <3>3, <3>4, <3>5, SharingKept
  <2>2. CASE ~IsOpen(o)
    BY <1>4, <1>9, <2>2 DEF Connect
  <2> QED
    BY <2>1, <2>2
<1>10. ASSUME NEW o \in Objects, NEW a \in Addrs, NEW m \in Data, SendTo(o, a, m)
       PROVE  (ReuseIsAsked /\ SharingAsked)'
  <2>1. CASE IsOpen(o) /\ file[fd[o]].addr = NoAddr
    <3> DEFINE k == [file[fd[o]] EXCEPT !.addr = o]
    <3>1. k.reuse = file[fd[o]].reuse /\ k.addr \notin Addrs
      BY <2>1, Held, SocketsAssumption DEF KernelSockets
    <3>2. file' = [file EXCEPT ![fd[o]] = k] /\ UNCHANGED <<fd, shared, asked>>
      BY <1>10, <2>1 DEF SendTo
    <3> HIDE DEF k
    <3> QED
      BY <1>3, <2>1, <3>1, <3>2
  <2>2. CASE ~(IsOpen(o) /\ file[fd[o]].addr = NoAddr)
    BY <1>4, <1>10, <2>2 DEF SendTo
  <2> QED
    BY <2>1, <2>2
<1>11. ASSUME NEW o \in Objects, RecvReturns(o) PROVE (ReuseIsAsked /\ SharingAsked)'
  <2> DEFINE k == [file[fd[o]] EXCEPT !.buffer = Tail(@)]
  <2>1. IsOpen(o) => k.reuse = file[fd[o]].reuse /\ k.addr = file[fd[o]].addr
    BY Held DEF KernelSockets
  <2>2. /\ file' = [file EXCEPT ![fd[o]] = k] /\ IsOpen(o)
        /\ UNCHANGED <<fd, shared, asked>>
    BY <1>11 DEF RecvReturns, Returned
  <2> HIDE DEF k
  <2> QED
    BY <1>3, <2>1, <2>2
<1>12. ASSUME NEW o \in Objects,
              Recvfrom(o) \/ RecvFails(o) \/ Available(o) \/ AvailableForWrite(o)
       PROVE  (ReuseIsAsked /\ SharingAsked)'
  BY <1>4, <1>12 DEF Recvfrom, RecvFails, Returned, Available, AvailableForWrite, Tests
<1>13. ASSUME NEW a \in Ports, NEW i \in DOMAIN wire[a], Deliver(a, i)
       PROVE  (ReuseIsAsked /\ SharingAsked)'
  <2>1. ASSUME NEW f \in BoundTo(a),
               file' = [file EXCEPT ![f].buffer = Append(@, wire[a][i])]
        PROVE  (ReuseIsAsked /\ SharingAsked)'
    <3> DEFINE k == [file[f] EXCEPT !.buffer = Append(@, wire[a][i])]
    <3>o. CASE \A o \in Objects : fd[o] # f
      <4>1. UNCHANGED <<objs, fd, shared, asked>>
            /\ \A o \in Objects : IsOpen(o) => fd[o] \in Fds /\ file'[fd[o]] = file[fd[o]]
        BY <1>13, <2>1, <3>o, Held DEF Deliver
      <4>2. objs \subseteq Objects /\ ReuseIsAsked /\ SharingAsked
        BY DEF Inv, TypeOK
      <4> QED
        BY <4>1, <4>2 DEF ReuseIsAsked, SharingAsked, IsOpen
    <3>h. ASSUME NEW o \in Objects, fd[o] = f
          PROVE  (ReuseIsAsked /\ SharingAsked)'
      <4>1. IsOpen(o)
        BY <3>h, SocketsAssumption DEF BoundTo, IsOpen
      <4>2. k.reuse = file[f].reuse /\ k.addr = file[f].addr
        BY <3>h, <4>1, Held DEF KernelSockets
      <4>3. file' = [file EXCEPT ![fd[o]] = k] /\ UNCHANGED <<fd, shared, asked>>
        BY <1>13, <2>1, <3>h DEF Deliver
      <4> HIDE DEF k
      <4> QED
        BY <1>3, <3>h, <4>1, <4>2, <4>3
    <3> QED
      BY <3>o, <3>h
  <2> QED
    BY <1>4, <1>13, <2>1 DEF Deliver
<1>14. CASE UNCHANGED socketVars
  BY <1>4, <1>14 DEF socketVars
<1> QED
  BY <1>1, <1>2, <1>5, <1>6, <1>7, <1>8, <1>9, <1>10, <1>11, <1>12, <1>13, <1>14
  DEF Next, Network, Calls, Binds, Uses

(***************************************************************************)
(* An address is shared only by sockets whose programs asked for that, for *)
(* any number of objects, in whatever order they bind, connect and close.  *)
(***************************************************************************)
THEOREM SharedOnPurpose == Spec => []SharingAsked
<1>1. SocketInit => SharingInv
  BY InitInv DEF SharingInv, SocketInit, ReuseIsAsked, SharingAsked, IsOpen
<1>2. SharingInv /\ [Next]_socketVars => SharingInv'
  BY NextInv, SharingNext DEF SharingInv
<1>3. SharingInv => SharingAsked
  BY DEF SharingInv
<1> QED
  BY <1>1, <1>2, <1>3, PTL DEF Spec

-----------------------------------------------------------------------------
(***************************************************************************)
(* Timeouts.                                                               *)
(***************************************************************************)
\* It is enough to look at the object that called.
LEMMA TimeoutOthers ==
  ASSUME Inv, TimeoutKept, NEW o \in Objects, OthersKept(o),
         fd'[o] # SOCKET_ERR /\ asked'[o] # 0 => file'[fd'[o]].timeout # Forever
  PROVE  TimeoutKept'
BY DEF OthersKept, TimeoutKept, IsOpen

\* No step takes a timeout away that was asked for.
LEMMA TimeoutNext == Inv /\ TimeoutKept /\ [Next]_socketVars => TimeoutKept'
<1> SUFFICES ASSUME Inv, TimeoutKept, [Next]_socketVars PROVE TimeoutKept'
  OBVIOUS
<1>1. ASSUME NEW o \in Objects, Construct(o) PROVE TimeoutKept'
  BY <1>1, ConstructEffect, TimeoutOthers
<1>2. ASSUME NEW o \in Objects, Close(o) \/ Destroy(o) PROVE TimeoutKept'
  BY <1>2, CloseEffect, TimeoutOthers
<1>3. ASSUME NEW o \in Objects, NEW k, UNCHANGED fd,
             \A p \in Objects \ {o} : asked'[p] = asked[p] /\ (p \in shared' <=> p \in shared),
             file' = IF IsOpen(o) THEN [file EXCEPT ![fd[o]] = k] ELSE file,
             IsOpen(o) => \/ k.timeout = file[fd[o]].timeout /\ asked'[o] = asked[o]
                          \/ k.timeout = Forever => asked'[o] = 0
      PROVE  TimeoutKept'
  <2>1. OthersKept(o) /\ NowHas(o, k)
    BY <1>3, OneChanged DEF OthersKept
  <2>2. fd'[o] # SOCKET_ERR => IsOpen(o) /\ file'[fd'[o]] = k
    BY <1>3, <2>1 DEF NowHas, IsOpen
  <2> QED
    BY <1>3, <2>1, <2>2, TimeoutOthers DEF TimeoutKept
<1>4. CASE UNCHANGED <<fd, file, asked>>
  BY <1>4 DEF TimeoutKept, IsOpen
<1>5. ASSUME NEW o \in Objects, NEW msec \in Msecs, SetTimeout(o, msec)
      PROVE  TimeoutKept'
  <2>1. CASE IsOpen(o) /\ Accepted(get_time(msec))
    <3> DEFINE k == [file[fd[o]] EXCEPT !.timeout = get_time(msec)]
    <3>1. k.timeout = get_time(msec)
      BY <2>1, Held DEF KernelSockets
    <3>2. /\ file' = [file EXCEPT ![fd[o]] = k] /\ UNCHANGED <<fd, shared>>
          /\ asked'[o] = msec
          /\ \A p \in Objects \ {o} : asked'[p] = asked[p]
      BY <1>5, <2>1 DEF SetTimeout, Inv, TypeOK
    <3>3. k.timeout = Forever => asked'[o] = 0
      BY <3>1, <3>2, ForeverIsZero, SocketsAssumption
    <3> HIDE DEF k
    <3> QED
      BY <1>3, <2>1, <3>2, <3>3
  <2>2. CASE ~(IsOpen(o) /\ Accepted(get_time(msec)))
    BY <1>4, <1>5, <2>2 DEF SetTimeout
  <2> QED
    BY <2>1, <2>2
<1>6. ASSUME NEW o \in Objects, NEW on \in BOOLEAN, SetNonblocking(o, on)
      PROVE  TimeoutKept'
  <2> DEFINE k == [file[fd[o]] EXCEPT !.nonblocking = on]
  <2>1. IsOpen(o) => k.timeout = file[fd[o]].timeout
    BY Held DEF KernelSockets
  <2>2. /\ file' = IF IsOpen(o) THEN [file EXCEPT ![fd[o]] = k] ELSE file
        /\ UNCHANGED <<fd, shared, asked>>
    BY <1>6 DEF SetNonblocking
  <2> HIDE DEF k
  <2> QED
    BY <1>3, <2>1, <2>2
<1>7. ASSUME NEW o \in Objects, NEW on \in BOOLEAN, ReuseSocket(o, on)
      PROVE  TimeoutKept'
  <2> DEFINE k == [file[fd[o]] EXCEPT !.reuse = on]
  <2>1. IsOpen(o) => k.timeout = file[fd[o]].timeout
    BY Held DEF KernelSockets
  <2>2. /\ file' = IF IsOpen(o) THEN [file EXCEPT ![fd[o]] = k] ELSE file
        /\ UNCHANGED <<fd, asked>>
        /\ \A p \in Objects \ {o} : p \in shared' <=> p \in shared
    BY <1>7 DEF ReuseSocket
  <2> HIDE DEF k
  <2> QED
    BY <1>3, <2>1, <2>2
<1>8. ASSUME NEW o \in Objects, NEW a \in Addrs, Bind(o, a) PROVE TimeoutKept'
  <2>1. CASE IsOpen(o) /\ MayBind(fd[o], a, file[fd[o]].reuse)
    <3> DEFINE k == [file[fd[o]] EXCEPT !.addr = a]
    <3>1. k.timeout = file[fd[o]].timeout
      BY <2>1, Held DEF KernelSockets
    <3>2. file' = [file EXCEPT ![fd[o]] = k] /\ UNCHANGED <<fd, shared, asked>>
      BY <1>8, <2>1 DEF Bind
    <3> HIDE DEF k
    <3> QED
      BY <1>3, <2>1, <3>1, <3>2
  <2>2. CASE ~(IsOpen(o) /\ MayBind(fd[o], a, file[fd[o]].reuse))
    BY <1>4, <1>8, <2>2 DEF Bind
  <2> QED
    BY <2>1, <2>2
<1>9. ASSUME NEW o \in Objects, NEW a \in Addrs, Connect(o, a) PROVE TimeoutKept'
  <2>1. CASE IsOpen(o)
    <3> DEFINE k == [file[fd[o]] EXCEPT
                       !.reuse = TRUE,
                       !.addr = IF MayBind(fd[o], a, TRUE) THEN a ELSE @]
    <3>1. k.timeout = file[fd[o]].timeout
      BY <2>1, Held DEF KernelSockets
    <3>2. /\ file' = [file EXCEPT ![fd[o]] = k] /\ UNCHANGED <<fd, asked>>
          /\ shared' = shared \cup {o}
      BY <1>9, <2>1, Held DEF Connect, KernelSockets
    <3> HIDE DEF k
    <3> QED
      BY <1>3, <2>1, <3>1, <3>2
  <2>2. CASE ~IsOpen(o)
    BY <1>4, <1>9, <2>2 DEF Connect
  <2> QED
    BY <2>1, <2>2
<1>10. ASSUME NEW o \in Objects, NEW a \in Addrs, NEW m \in Data, SendTo(o, a, m)
       PROVE  TimeoutKept'
  <2>1. CASE IsOpen(o) /\ file[fd[o]].addr = NoAddr
    <3> DEFINE k == [file[fd[o]] EXCEPT !.addr = o]
    <3>1. k.timeout = file[fd[o]].timeout
      BY <2>1, Held DEF KernelSockets
    <3>2. file' = [file EXCEPT ![fd[o]] = k] /\ UNCHANGED <<fd, shared, asked>>
      BY <1>10, <2>1 DEF SendTo
    <3> HIDE DEF k
    <3> QED
      BY <1>3, <2>1, <3>1, <3>2
  <2>2. CASE ~(IsOpen(o) /\ file[fd[o]].addr = NoAddr)
    BY <1>4, <1>10, <2>2 DEF SendTo
  <2> QED
    BY <2>1, <2>2
<1>11. ASSUME NEW o \in Objects, RecvReturns(o) PROVE TimeoutKept'
  <2> DEFINE k == [file[fd[o]] EXCEPT !.buffer = Tail(@)]
  <2>1. IsOpen(o) => k.timeout = file[fd[o]].timeout
    BY Held DEF KernelSockets
  <2>2. /\ file' = [file EXCEPT ![fd[o]] = k] /\ IsOpen(o)
        /\ UNCHANGED <<fd, shared, asked>>
    BY <1>11 DEF RecvReturns, Returned
  <2> HIDE DEF k
  <2> QED
    BY <1>3, <2>1, <2>2
<1>12. ASSUME NEW o \in Objects,
              Recvfrom(o) \/ RecvFails(o) \/ Available(o) \/ AvailableForWrite(o)
       PROVE  TimeoutKept'
  BY <1>4, <1>12 DEF Recvfrom, RecvFails, Returned, Available, AvailableForWrite, Tests
<1>13. ASSUME NEW a \in Ports, NEW i \in DOMAIN wire[a], Deliver(a, i) PROVE TimeoutKept'
  <2>1. ASSUME NEW f \in BoundTo(a),
               file' = [file EXCEPT ![f].buffer = Append(@, wire[a][i])]
        PROVE  TimeoutKept'
    <3> DEFINE k == [file[f] EXCEPT !.buffer = Append(@, wire[a][i])]
    <3>o. CASE \A o \in Objects : fd[o] # f
      <4>1. UNCHANGED <<objs, fd, shared, asked>>
            /\ \A o \in Objects : IsOpen(o) => fd[o] \in Fds /\ file'[fd[o]] = file[fd[o]]
        BY <1>13, <2>1, <3>o, Held DEF Deliver
      <4> QED
        BY <4>1 DEF TimeoutKept, IsOpen
    <3>h. ASSUME NEW o \in Objects, fd[o] = f
          PROVE  TimeoutKept'
      <4>1. IsOpen(o)
        BY <3>h, SocketsAssumption DEF BoundTo, IsOpen
      <4>2. k.timeout = file[f].timeout
        BY <3>h, <4>1, Held DEF KernelSockets
      <4>3. file' = [file EXCEPT ![fd[o]] = k] /\ UNCHANGED <<fd, shared, asked>>
        BY <1>13, <2>1, <3>h DEF Deliver
      <4> HIDE DEF k
      <4> QED
        BY <1>3, <3>h, <4>1, <4>2, <4>3
    <3> QED
      BY <3>o, <3>h
  <2> QED
    BY <1>4, <1>13, <2>1 DEF Deliver
<1>14. CASE UNCHANGED socketVars
  BY <1>4, <1>14 DEF socketVars
<1> QED
  BY <1>1, <1>2, <1>5, <1>6, <1>7, <1>8, <1>9, <1>10, <1>11, <1>12, <1>13, <1>14
  DEF Next, Network, Calls, Binds, Uses

(***************************************************************************)
(* No timeout that was asked for, of however many milliseconds, becomes    *)
(* the timeval that waits for ever, and none is lost later.                *)
(***************************************************************************)
THEOREM TimeoutsStay == Spec => []TimeoutKept
<1>1. SocketInit => TimeoutKept
  BY DEF SocketInit, TimeoutKept, IsOpen
<1>2. Inv /\ TimeoutKept /\ [Next]_socketVars => (Inv /\ TimeoutKept)'
  BY NextInv, TimeoutNext
<1> QED
  BY <1>1, <1>2, InitInv, PTL DEF Spec

-----------------------------------------------------------------------------
(***************************************************************************)
(* What the calls of Socket do to the objects' sockets.                    *)
(***************************************************************************)

\* An object's socket, whatever its descriptor.
AddrOf(o) == IF IsOpen(o) THEN file[fd[o]].addr ELSE NoAddr
BufferOf(o) == IF IsOpen(o) THEN file[fd[o]].buffer ELSE <<>>

SameSocket(o) == AddrOf(o)' = AddrOf(o) /\ BufferOf(o)' = BufferOf(o)
OthersSame(o) == \A p \in Objects \ {o} : SameSocket(p)

\* The first of a queue, and the rest: what Deliver takes when order is kept.
LEMMA FirstOut ==
  ASSUME NEW q \in Seq(Data), q # <<>>
  PROVE  Without(q, 1) = Tail(q)
<1>1. SubSeq(q, 1, 0) = <<>> /\ SubSeq(q, 2, Len(q)) = Tail(q)
  OBVIOUS
<1>2. <<>> \o Tail(q) = Tail(q)
  OBVIOUS
<1> QED
  BY <1>1, <1>2 DEF Without

\* What is left of a queue when its n-th message is taken out.
LEMMA WithoutElements ==
  ASSUME NEW q \in Seq(Data), NEW n \in DOMAIN q
  PROVE  \A j \in DOMAIN Without(q, n) :
           /\ j \in Nat
           /\ j < n => j \in DOMAIN q /\ Without(q, n)[j] = q[j]
           /\ j >= n => j + 1 \in DOMAIN q /\ Without(q, n)[j] = q[j + 1]
<1> DEFINE s == SubSeq(q, 1, n - 1)
           t == SubSeq(q, n + 1, Len(q))
<1>0. n \in 1..Len(q) /\ Len(q) \in Nat /\ DOMAIN q = 1..Len(q)
  OBVIOUS
<1>1. /\ s \in Seq(Data) /\ Len(s) = n - 1
      /\ \A j \in 1..(n - 1) : s[j] = q[j]
  BY <1>0
<1>2. /\ t \in Seq(Data) /\ Len(t) = Len(q) - n
      /\ \A j \in 1..(Len(q) - n) : t[j] = q[j + n]
  BY <1>0
<1> HIDE DEF s, t
<1>3. /\ Len(s \o t) = Len(q) - 1 /\ DOMAIN (s \o t) = 1..(Len(q) - 1)
      /\ \A j \in 1..(Len(q) - 1) : (s \o t)[j] = IF j <= n - 1 THEN s[j] ELSE t[j - (n - 1)]
  <2>1. Len(s) + Len(t) = Len(q) - 1 /\ Len(s) = n - 1 /\ s \in Seq(Data) /\ t \in Seq(Data)
    BY <1>0, <1>1, <1>2
  <2> QED
    BY ONLY <2>1, ConcatProperties
<1>4. ASSUME NEW j \in DOMAIN (s \o t)
      PROVE  /\ j \in Nat
             /\ j < n => j \in DOMAIN q /\ (s \o t)[j] = q[j]
             /\ j >= n => j + 1 \in DOMAIN q /\ (s \o t)[j] = q[j + 1]
  <2>1. j \in 1..(Len(q) - 1) /\ (s \o t)[j] = IF j <= n - 1 THEN s[j] ELSE t[j - (n - 1)]
    BY <1>3
  <2>2. CASE j < n
    BY <1>0, <1>1, <2>1, <2>2
  <2>3. CASE j >= n
    <3>1. j - (n - 1) \in 1..(Len(q) - n) /\ j - (n - 1) + n = j + 1 /\ ~(j <= n - 1)
      BY <1>0, <2>1, <2>3
    <3>2. (s \o t)[j] = q[j + 1]
      BY <1>2, <2>1, <3>1
    <3> QED
      BY <1>0, <2>1, <2>3, <3>2
  <2> QED
    BY <1>0, <2>1, <2>2, <2>3
<1> QED
  BY <1>4 DEF Without, s, t

LEMMA SocketTypes ==
  ASSUME Inv, NEW o \in Objects
  PROVE  /\ AddrOf(o) \in Ports \cup {NoAddr} /\ BufferOf(o) \in Seq(Data)
         /\ IsOpen(o) => fd[o] \in Fds /\ file[fd[o]] \in KernelSockets
  BY Held DEF AddrOf, BufferOf, KernelSockets

LEMMA ChangedSocket ==
  ASSUME Inv, NEW o \in Objects, NEW k,
         file' = IF IsOpen(o) THEN [file EXCEPT ![fd[o]] = k] ELSE file, UNCHANGED fd
  PROVE  /\ OthersSame(o)
         /\ IsOpen(o) => AddrOf(o)' = k.addr /\ BufferOf(o)' = k.buffer
         /\ ~IsOpen(o) => SameSocket(o)
<1>1. /\ \A p \in Objects \ {o} :
              fd'[p] = fd[p] /\ (IsOpen(p) => file'[fd[p]] = file[fd[p]])
      /\ NowHas(o, k)
  BY OneChanged
<1> QED
  BY <1>1 DEF OthersSame, SameSocket, AddrOf, BufferOf, NowHas, IsOpen

LEMMA FromOthersKept ==
  ASSUME NEW o \in Objects, OthersKept(o)
  PROVE  OthersSame(o)
BY DEF OthersKept, OthersSame, SameSocket, AddrOf, BufferOf, IsOpen

LEMMA ConstructSocket ==
  ASSUME Inv, NEW o \in Objects, Construct(o)
  PROVE  (\A p \in Objects : SameSocket(p)) /\ wire' = wire
<1>1. /\ OthersSame(o) /\ ~IsOpen(o)
      /\ fd'[o] # SOCKET_ERR => file'[fd'[o]] = Fresh
  BY ConstructEffect, FromOthersKept
<1>2. SameSocket(o)
  BY <1>1 DEF SameSocket, AddrOf, BufferOf, IsOpen, Fresh
<1> QED
  BY <1>1, <1>2 DEF OthersSame, Construct

LEMMA DestroySocket ==
  ASSUME Inv, NEW o \in Objects, Destroy(o)
  PROVE  OthersSame(o) /\ AddrOf(o)' = NoAddr /\ BufferOf(o)' = <<>> /\ wire' = wire
<1>1. OthersSame(o) /\ fd'[o] = SOCKET_ERR
  BY CloseEffect, FromOthersKept
<1> QED
  BY <1>1 DEF AddrOf, BufferOf, IsOpen, Destroy

\* Binding gives an address to a socket that has none, and nothing else.
LEMMA BindSocket ==
  ASSUME Inv, NEW o \in Objects, NEW a \in Addrs, Bind(o, a) \/ Connect(o, a)
  PROVE  /\ OthersSame(o) /\ BufferOf(o)' = BufferOf(o) /\ wire' = wire
         /\ AddrOf(o)' = AddrOf(o) \/ (AddrOf(o) = NoAddr /\ AddrOf(o)' = a)
<1>1. IsOpen(o) => file[fd[o]] \in KernelSockets
  BY SocketTypes
<1>2. CASE Bind(o, a)
  <2> DEFINE ok == IsOpen(o) /\ MayBind(fd[o], a, file[fd[o]].reuse)
             k == [file[fd[o]] EXCEPT !.addr = IF ok THEN a ELSE @]
  <2>1. file' = IF IsOpen(o) THEN [file EXCEPT ![fd[o]] = k] ELSE file
    BY <1>1, <1>2, Held DEF Bind, Inv, TypeOK, KernelSockets
  <2>2. IsOpen(o) => /\ k.buffer = BufferOf(o)
                     /\ k.addr = AddrOf(o) \/ (AddrOf(o) = NoAddr /\ k.addr = a)
    BY <1>1 DEF KernelSockets, AddrOf, BufferOf, MayBind
  <2> HIDE DEF k
  <2>3. UNCHANGED <<fd, wire>>
    BY <1>2 DEF Bind
  <2> QED
    BY <2>1, <2>2, <2>3, ChangedSocket DEF SameSocket
<1>3. CASE Connect(o, a)
  <2> DEFINE k == [file[fd[o]] EXCEPT
                     !.reuse = TRUE,
                     !.addr = IF MayBind(fd[o], a, TRUE) THEN a ELSE @]
  <2>1. file' = IF IsOpen(o) THEN [file EXCEPT ![fd[o]] = k] ELSE file
    BY <1>1, <1>3, Held DEF Connect, Inv, TypeOK, KernelSockets
  <2>2. IsOpen(o) => /\ k.buffer = BufferOf(o)
                     /\ k.addr = AddrOf(o) \/ (AddrOf(o) = NoAddr /\ k.addr = a)
    BY <1>1 DEF KernelSockets, AddrOf, BufferOf, MayBind
  <2> HIDE DEF k
  <2>3. UNCHANGED <<fd, wire>>
    BY <1>3 DEF Connect
  <2> QED
    BY <2>1, <2>2, <2>3, ChangedSocket DEF SameSocket
<1> QED
  BY <1>2, <1>3

LEMMA SendSocket ==
  ASSUME Inv, NEW o \in Objects, NEW a \in Ports, NEW m \in Data, SendTo(o, a, m)
  PROVE  /\ OthersSame(o) /\ BufferOf(o)' = BufferOf(o)
         /\ AddrOf(o)' = AddrOf(o) \/ (AddrOf(o) = NoAddr /\ AddrOf(o)' = o)
         /\ \/ wire' = wire
            \/ IsOpen(o) /\ wire' = [wire EXCEPT ![a] = Append(wire[a], m)]
<1>1. IsOpen(o) => file[fd[o]] \in KernelSockets
  BY SocketTypes
<1> DEFINE k == [file[fd[o]] EXCEPT !.addr = IF @ = NoAddr THEN o ELSE @]
<1>2. file' = IF IsOpen(o) THEN [file EXCEPT ![fd[o]] = k] ELSE file
  BY <1>1, Held DEF SendTo, Inv, TypeOK, KernelSockets
<1>3. IsOpen(o) => /\ k.buffer = BufferOf(o)
                   /\ k.addr = AddrOf(o) \/ (AddrOf(o) = NoAddr /\ k.addr = o)
  BY <1>1 DEF KernelSockets, AddrOf, BufferOf
<1> HIDE DEF k
<1>4. /\ UNCHANGED fd
      /\ \/ wire' = wire
         \/ IsOpen(o) /\ wire' = [wire EXCEPT ![a] = Append(wire[a], m)]
  BY DEF SendTo
<1> QED
  BY <1>2, <1>3, <1>4, ChangedSocket DEF SameSocket

LEMMA ReturnSocket ==
  ASSUME Inv, NEW o \in Objects, RecvReturns(o)
  PROVE  /\ OthersSame(o) /\ AddrOf(o)' = AddrOf(o) /\ wire' = wire
         /\ BufferOf(o) # <<>> /\ BufferOf(o)' = Tail(BufferOf(o))
         /\ LET m == Head(BufferOf(o)) IN result' = <<"recvfrom", IF m = Zero THEN Empty ELSE m>>
<1>1. IsOpen(o) /\ file[fd[o]] \in KernelSockets
  BY SocketTypes DEF RecvReturns
<1> DEFINE k == [file[fd[o]] EXCEPT !.buffer = Tail(@)]
<1>2. file' = IF IsOpen(o) THEN [file EXCEPT ![fd[o]] = k] ELSE file
  BY <1>1 DEF RecvReturns
<1>3. k.buffer = Tail(BufferOf(o)) /\ k.addr = AddrOf(o)
  BY <1>1 DEF KernelSockets, AddrOf, BufferOf
<1> HIDE DEF k
<1>4. UNCHANGED <<fd, wire>> /\ BufferOf(o) # <<>>
      /\ LET m == Head(BufferOf(o)) IN result' = <<"recvfrom", IF m = Zero THEN Empty ELSE m>>
  BY <1>1 DEF RecvReturns, Returned, BufferOf
<1> QED
  BY <1>1, <1>2, <1>3, <1>4, ChangedSocket

\* A call that changes nothing that is under way, or has been delivered.
LEMMA QuietSocket ==
  ASSUME Inv, NEW o \in Objects,
         Recvfrom(o) \/ RecvFails(o) \/ \E msec \in Msecs : SetTimeout(o, msec)
  PROVE  (\A p \in Objects : SameSocket(p)) /\ wire' = wire
<1>1. CASE Recvfrom(o) \/ RecvFails(o)
  BY <1>1 DEF Recvfrom, RecvFails, Returned, SameSocket, AddrOf, BufferOf, IsOpen
<1>2. ASSUME NEW msec \in Msecs, SetTimeout(o, msec)
      PROVE  (\A p \in Objects : SameSocket(p)) /\ wire' = wire
  <2>1. CASE IsOpen(o) /\ Accepted(get_time(msec))
    <3> DEFINE k == [file[fd[o]] EXCEPT !.timeout = get_time(msec)]
    <3>1. k.addr = AddrOf(o) /\ k.buffer = BufferOf(o)
      BY <2>1, SocketTypes DEF KernelSockets, AddrOf, BufferOf
    <3>2. file' = [file EXCEPT ![fd[o]] = k] /\ UNCHANGED <<fd, wire>>
      BY <1>2, <2>1 DEF SetTimeout
    <3> HIDE DEF k
    <3> QED
      BY <2>1, <3>1, <3>2, ChangedSocket DEF OthersSame, SameSocket
  <2>2. CASE ~(IsOpen(o) /\ Accepted(get_time(msec)))
    BY <1>2, <2>2 DEF SetTimeout, SameSocket, AddrOf, BufferOf, IsOpen
  <2> QED
    BY <2>1, <2>2
<1> QED
  BY <1>1, <1>2

\* The network brings a datagram of a wire to one socket that has the address, or
\* to none.
LEMMA DeliverAny ==
  ASSUME Inv, NEW a \in Ports, NEW i \in DOMAIN wire[a], Deliver(a, i)
  PROVE  /\ wire[a] \in Seq(Data)
         /\ wire' = [wire EXCEPT ![a] = Without(wire[a], i)]
         /\ \/ \A p \in Objects : SameSocket(p)
            \/ \E o \in Objects :
                 /\ OthersSame(o) /\ AddrOf(o) = a /\ AddrOf(o)' = a
                 /\ BufferOf(o)' = Append(BufferOf(o), wire[a][i])
<1> DEFINE m == wire[a][i]
<1>1. wire[a] \in Seq(Data)
  BY DEF Inv, TypeOK
<1>2. wire' = [wire EXCEPT ![a] = Without(wire[a], i)] /\ UNCHANGED fd
  BY DEF Deliver
<1>3. CASE UNCHANGED file
  BY <1>1, <1>2, <1>3 DEF SameSocket, AddrOf, BufferOf, IsOpen
<1>4. ASSUME NEW f \in BoundTo(a), file' = [file EXCEPT ![f].buffer = Append(@, m)],
             \A o \in Objects : fd[o] # f
      PROVE  \A p \in Objects : SameSocket(p)
  BY <1>2, <1>4, Held DEF SameSocket, AddrOf, BufferOf, IsOpen
<1>5. ASSUME NEW f \in BoundTo(a), file' = [file EXCEPT ![f].buffer = Append(@, m)],
             NEW o \in Objects, fd[o] = f
      PROVE  /\ OthersSame(o) /\ AddrOf(o) = a /\ AddrOf(o)' = a
             /\ BufferOf(o)' = Append(BufferOf(o), m)
  <2> DEFINE k == [file[f] EXCEPT !.buffer = Append(@, m)]
  <2> HIDE DEF m
  <2>1. fd[o] = f /\ IsOpen(o)
    BY <1>5, SocketsAssumption DEF BoundTo, IsOpen
  <2>2. /\ k.buffer = Append(BufferOf(o), m) /\ k.addr = a /\ AddrOf(o) = a
        /\ file' = [file EXCEPT ![fd[o]] = k]
    BY <1>1, <1>5, <2>1, SocketTypes DEF KernelSockets, BufferOf, AddrOf, BoundTo
  <2> HIDE DEF k
  <2> QED
    BY <1>2, <2>1, <2>2, ChangedSocket
<1> QED
  BY <1>1, <1>2, <1>3, <1>4, <1>5 DEF Deliver

\* If it keeps the order, the first one.
LEMMA DeliverSocket ==
  ASSUME Inv, ~Reordering, NEW a \in Ports, NEW i \in DOMAIN wire[a], Deliver(a, i)
  PROVE  /\ wire[a] \in Seq(Data) /\ wire[a] # <<>>
         /\ wire' = [wire EXCEPT ![a] = Tail(wire[a])]
         /\ \/ \A p \in Objects : SameSocket(p)
            \/ \E o \in Objects :
                 /\ OthersSame(o) /\ AddrOf(o) = a /\ AddrOf(o)' = a
                 /\ BufferOf(o)' = Append(BufferOf(o), Head(wire[a]))
<1>1. wire[a] \in Seq(Data) /\ i = 1 /\ wire[a] # <<>> /\ wire[a][i] = Head(wire[a])
  BY DEF Deliver, Inv, TypeOK
<1>2. wire' = [wire EXCEPT ![a] = Tail(wire[a])]
  BY <1>1, FirstOut DEF Deliver
<1> QED
  BY <1>1, <1>2, DeliverAny

=============================================================================
