-------------------------- MODULE SocketInfoProofs --------------------------
(***************************************************************************)
(* Proofs about SocketInfo, for every set of objects, descriptors and      *)
(* options: what was proved of Sockets is true of the larger system, and   *)
(* what SocketInfo prints of an object is what its program has set.        *)
(*                                                                         *)
(* A step of the larger system is a call of Sockets, or leaves objects and *)
(* descriptors alone, or is a get_host_ip() that fails; so the invariant   *)
(* of Sockets carries over, and the descriptors that nobody has are those  *)
(* that such calls have left.  For what is printed, a descriptor's options *)
(* have to be those its owner wants, and the copy of a descriptor that of  *)
(* a live owner: both hold because no two objects have the same one.       *)
(***************************************************************************)
EXTENDS SocketInfo, SocketsProofs

\* The options behind a descriptor are what its owner's program wants.
OptionsWanted == \A o \in Objects : IsOpen(o) => opts[fd[o]] = want[o]

\* A SocketInfo that was made for an object has that object's descriptor.
CopyCurrent == info.of # Nobody => IsOpen(info.of) /\ info.fd = fd[info.of]

InfoInv == InfoTypeOK /\ OnlyLookupsLeak /\ OptionsWanted /\ CopyCurrent

OptionTypes ==
  /\ opts \in [Fds -> SUBSET Options]
  /\ want \in [Objects -> SUBSET Options]
  /\ info \in [fd : Fds \cup {SOCKET_ERR}, of : UDPs \cup BCs \cup {Nobody}]
  /\ printed \in [name : Ports \cup {NoAddr}, on : SUBSET Options]
  /\ leaked \subseteq Fds

\* A step that loses no descriptor.
NoneLost == Orphans' = Orphans /\ leaked' = leaked

LEMMA InvOfInfoInv ==
  InfoInv <=> Inv /\ Orphans = leaked /\ OptionTypes /\ OptionsWanted /\ CopyCurrent
BY DEF InfoInv, Inv, OnlyLookupsLeak, InfoTypeOK, OptionTypes

LEMMA InfoInvNext ==
  ASSUME InfoInv, Inv', NoneLost, OptionTypes', OptionsWanted', CopyCurrent' PROVE InfoInv'
BY InvOfInfoInv DEF NoneLost, InfoInv, Inv, OnlyLookupsLeak, InfoTypeOK, OptionTypes

\* The three kinds of objects make up all of them.
LEMMA Kinds == UDPs \subseteq Objects /\ BCs \subseteq Objects /\ Lookups \subseteq Objects
               /\ Nobody \notin Objects
BY InfoAssumption

LEMMA InfoInitInv == Init => InfoInv
<1> SUFFICES ASSUME Init PROVE InfoInv
  OBVIOUS
<1>1. Inv
  BY InitInv DEF Init
<1>2. OptionTypes
  BY DEF Init, OptionTypes
<1>3. OptionsWanted /\ CopyCurrent
  BY DEF Init, SocketInit, OptionsWanted, CopyCurrent, IsOpen
<1>4. Orphans = leaked
  BY DEF Init, SocketInit, Orphans
<1> QED
  BY <1>1, <1>2, <1>3, <1>4, InvOfInfoInv

-----------------------------------------------------------------------------
(***************************************************************************)
(* Steps that leave the descriptors, the options and the copy alone.       *)
(***************************************************************************)
LEMMA InfoKept ==
  ASSUME InfoInv, Kept, UNCHANGED <<fd, infoVars>>
  PROVE  InfoInv'
BY InvOfInfoInv, InfoInvNext
DEF Kept, NoneLost, infoVars, OptionTypes, OptionsWanted, CopyCurrent, IsOpen

\* Of the variables of Sockets only those that say whose a descriptor is count.
LEMMA SocketsKept ==
  ASSUME Inv, UNCHANGED <<objs, fd, wire, inrecv, asked, shared>>,
         file' \in [Fds -> KernelSockets \cup {NotOpen}],
         \A f \in Fds : file'[f] = NotOpen <=> file[f] = NotOpen,
         result' = result \/ (result'[1] # "recvfrom" /\ result'[2] \in BOOLEAN)
  PROVE  Kept
<1>1. TypeOK'
  BY DEF Inv, TypeOK
<1>2. \A p \in Objects : IsOpen(p) => fd[p] \in Fds
  BY Held
<1>3. HeldOnce'
  BY <1>2 DEF Inv, HeldOnce, IsOpen
<1>4. Orphans' = Orphans
  BY DEF Orphans
<1> QED
  BY <1>1, <1>3, <1>4 DEF Kept, Inv

LEMMA SocketVarsKept == ASSUME Inv, UNCHANGED socketVars PROVE Kept
BY NextKept

LEMMA UsesKeepFd ==
  ASSUME NEW o \in Objects, Binds(o) \/ Uses(o) PROVE UNCHANGED fd
BY DEF Binds, Uses, Bind, Connect, SetTimeout, SetNonblocking, ReuseSocket, SendTo, Recvfrom,
       RecvReturns, RecvFails, Returned, Available, AvailableForWrite, Tests

LEMMA NetworkKeepsFd == Network => UNCHANGED fd
BY DEF Network, Deliver

\* An object is constructed, with the options its constructor sets.
LEMMA ConstructInv ==
  ASSUME InfoInv, NEW o \in Objects, NEW on \in SUBSET Options,
         Construct(o), SetOn(o, on), UNCHANGED <<info, printed, leaked>>
  PROVE  InfoInv'
<1>1. Inv /\ OptionTypes /\ OptionsWanted /\ CopyCurrent
  BY InvOfInfoInv
<1>2. Inv' /\ NoneLost
  BY <1>1, NextKept DEF Next, Calls, Kept, NoneLost
<1>3. OthersKept(o) /\ ~IsOpen(o)
  BY <1>1, ConstructEffect
<1>4. fd' \in [Objects -> Fds \cup {SOCKET_ERR}]
  BY <1>2 DEF Inv, TypeOK
<1>5. /\ opts' = IF fd'[o] # SOCKET_ERR THEN [opts EXCEPT ![fd'[o]] = on] ELSE opts
      /\ want' = [want EXCEPT ![o] = IF fd'[o] # SOCKET_ERR THEN on ELSE {}]
  BY DEF SetOn, IsOpen
<1>6. opts' \in [Fds -> SUBSET Options] /\ want' \in [Objects -> SUBSET Options]
  BY <1>1, <1>4, <1>5 DEF OptionTypes
<1>7. OptionTypes'
  BY <1>1, <1>6 DEF OptionTypes
<1>8. OptionsWanted'
  <2> SUFFICES ASSUME NEW p \in Objects, fd'[p] # SOCKET_ERR PROVE opts'[fd'[p]] = want'[p]
    BY DEF OptionsWanted, IsOpen
  <2>1. CASE p = o
    <3>1. fd'[o] \in Fds
      BY <1>4, <2>1
    <3> QED
      BY <1>1, <1>5, <2>1, <3>1 DEF OptionTypes
  <2>2. CASE p # o
    <3>1. fd'[p] = fd[p] /\ IsOpen(p)
      BY <1>3, <2>2 DEF OthersKept, IsOpen
    <3>2. fd'[p] \in Fds /\ fd'[o] # fd'[p]
      BY <1>2, <1>4, <2>2 DEF Inv, HeldOnce, IsOpen
    <3> QED
      BY <1>1, <1>5, <2>2, <3>1, <3>2 DEF OptionTypes, OptionsWanted
  <2> QED
    BY <2>1, <2>2
<1>9. CopyCurrent'
  <2> SUFFICES ASSUME info.of # Nobody PROVE fd'[info.of] # SOCKET_ERR /\ info.fd = fd'[info.of]
    BY DEF CopyCurrent, IsOpen
  <2>1. info.of \in Objects /\ IsOpen(info.of) /\ info.fd = fd[info.of]
    BY <1>1, Kinds DEF OptionTypes, CopyCurrent
  <2>2. info.of # o
    BY <1>3, <2>1
  <2> QED
    BY <1>3, <2>1, <2>2 DEF OthersKept, IsOpen
<1> QED
  BY <1>2, <1>7, <1>8, <1>9, InfoInvNext

\* An object's descriptor is closed; a copy of it counts for nobody.
LEMMA CloseInv ==
  ASSUME InfoInv, NEW o \in Objects, Close(o) \/ Destroy(o),
         want' = [want EXCEPT ![o] = {}], UNCHANGED <<opts, printed, leaked>>,
         \/ info' = IF info.of = o THEN [info EXCEPT !.of = Nobody] ELSE info
         \/ o \in Lookups /\ UNCHANGED info
  PROVE  InfoInv'
<1>1. Inv /\ OptionTypes /\ OptionsWanted /\ CopyCurrent
  BY InvOfInfoInv
<1>2. Inv' /\ NoneLost
  BY <1>1, NextKept DEF Next, Calls, Kept, NoneLost
<1>3. OthersKept(o) /\ fd'[o] = SOCKET_ERR
  BY <1>1, CloseEffect
<1>4. OptionTypes'
  BY <1>1 DEF OptionTypes
<1>5. OptionsWanted'
  BY <1>1, <1>3 DEF OptionsWanted, OptionTypes, OthersKept, IsOpen
<1>6. CopyCurrent'
  <2> SUFFICES ASSUME info'.of # Nobody PROVE fd'[info'.of] # SOCKET_ERR /\ info'.fd = fd'[info'.of]
    BY DEF CopyCurrent, IsOpen
  <2>1. info' = info /\ info.of # o
    <3>1. info.of \notin Lookups
      BY <1>1, Kinds, InfoAssumption DEF OptionTypes
    <3>2. info \in [fd : Fds \cup {SOCKET_ERR}, of : UDPs \cup BCs \cup {Nobody}]
      BY <1>1 DEF OptionTypes
    <3> QED
      BY <3>1, <3>2
  <2>2. info.of \in Objects /\ IsOpen(info.of) /\ info.fd = fd[info.of]
    BY <1>1, <2>1, Kinds DEF OptionTypes, CopyCurrent
  <2> QED
    BY <1>3, <2>1, <2>2 DEF OthersKept, IsOpen
<1> QED
  BY <1>2, <1>4, <1>5, <1>6, InfoInvNext

\* An option is switched on one object's socket, and on no other.
LEMMA SetsockoptInv ==
  ASSUME InfoInv, NEW o \in Objects, NEW x \in Options, NEW val \in BOOLEAN,
         Setsockopt(o, x, val)
  PROVE  InfoInv'
<1>1. Inv /\ OptionTypes /\ OptionsWanted /\ CopyCurrent
  BY InvOfInfoInv
<1> DEFINE on == Switched(want[o], x, val)
<1>2. on \in SUBSET Options
  BY <1>1 DEF Switched, OptionTypes
<1>3. IsOpen(o) => fd[o] \in Fds /\ Switched(opts[fd[o]], x, val) = on
  BY <1>1, Held DEF OptionsWanted
<1>4. /\ opts' = IF IsOpen(o) THEN [opts EXCEPT ![fd[o]] = on] ELSE opts
      /\ want' = IF IsOpen(o) THEN [want EXCEPT ![o] = on] ELSE want
      /\ result' = <<"setsockopt", IsOpen(o)>>
      /\ UNCHANGED <<objs, fd, file, wire, inrecv, asked, shared, info, printed, leaked>>
  BY <1>3 DEF Setsockopt
<1> HIDE DEF on
<1>5. IsOpen(o) \in BOOLEAN
  BY DEF IsOpen
<1>6. result'[1] # "recvfrom" /\ result'[2] \in BOOLEAN
  BY <1>4, <1>5
<1>7. Inv' /\ NoneLost
  BY <1>1, <1>4, <1>6, SocketsKept DEF Inv, TypeOK, Kept, NoneLost
<1>8. OptionTypes'
  BY <1>1, <1>2, <1>3, <1>4 DEF OptionTypes
<1>9. OptionsWanted'
  <2>1. \A p \in Objects \ {o} : IsOpen(p) => fd[p] # fd[o] /\ fd[p] \in Fds
    BY <1>1, Held DEF Inv, HeldOnce
  <2> QED
    BY <1>1, <1>3, <1>4, <2>1 DEF OptionsWanted, OptionTypes, IsOpen
<1> QED
  BY <1>1, <1>4, <1>7, <1>8, <1>9, InfoInvNext DEF CopyCurrent, IsOpen

\* A cast adds to buffers and names its own socket; whose they are stays.
LEMMA CastInv ==
  ASSUME InfoInv, NEW o \in Objects, NEW m \in Data, Cast(o, m)
  PROVE  InfoInv'
<1>1. Inv
  BY InvOfInfoInv
<1> DEFINE allowed == IsOpen(o) /\ Broadcast \in opts[fd[o]]
           named == IF allowed /\ file[fd[o]].addr = NoAddr
                    THEN [file EXCEPT ![fd[o]].addr = o] ELSE file
<1>2. PICK to \in SUBSET Room(BCPort) :
        file' = [f \in Fds |-> IF f \in to THEN Copied(file[f], m) ELSE named[f]]
  BY DEF Cast
<1>3. UNCHANGED <<objs, fd, wire, inrecv, result, asked, shared, infoVars>>
  BY DEF Cast
<1>4. file \in [Fds -> KernelSockets \cup {NotOpen}]
  BY <1>1 DEF Inv, TypeOK
<1>5. \A f \in Fds : f \in to => Copied(file[f], m) \in KernelSockets /\ file[f] # NotOpen
  <2> SUFFICES ASSUME NEW f \in Fds, f \in to
               PROVE  Copied(file[f], m) \in KernelSockets /\ file[f] # NotOpen
    OBVIOUS
  <2>1. file[f] # NotOpen /\ file[f] \in KernelSockets
    BY <1>4 DEF Room, BoundTo
  <2>2. Append(file[f].buffer, m) \in Seq(Data)
    BY <2>1 DEF KernelSockets
  <2> QED
    BY <2>1, <2>2 DEF Copied, KernelSockets
<1>6. \A f \in Fds : /\ named[f] \in KernelSockets \cup {NotOpen}
                     /\ named[f] = NotOpen <=> file[f] = NotOpen
  <2>1. CASE allowed /\ file[fd[o]].addr = NoAddr
    <3> DEFINE k == [file[fd[o]] EXCEPT !.addr = o]
    <3>1. fd[o] \in Fds /\ file[fd[o]] \in KernelSockets /\ file[fd[o]] # NotOpen
      BY <1>1, <2>1, Held
    <3>2. k \in KernelSockets
      BY <3>1 DEF KernelSockets, Ports
    <3>3. k # NotOpen
      BY <3>2, NotOpenAssumption
    <3>4. named = [file EXCEPT ![fd[o]] = k]
      BY <2>1
    <3> HIDE DEF k, named, allowed
    <3> QED
      BY <1>4, <3>1, <3>2, <3>3, <3>4
  <2>2. CASE ~(allowed /\ file[fd[o]].addr = NoAddr)
    BY <1>4, <2>2
  <2> QED
    BY <2>1, <2>2
<1> HIDE DEF named, allowed
<1>7. file' \in [Fds -> KernelSockets \cup {NotOpen}]
  BY <1>2, <1>5, <1>6
<1>8. \A f \in Fds : file'[f] = NotOpen <=> file[f] = NotOpen
  BY <1>2, <1>5, <1>6, NotOpenAssumption
<1>9. Kept
  BY <1>1, <1>3, <1>7, <1>8, SocketsKept
<1> QED
  BY <1>3, <1>9, InfoKept

\* get_host_ip() fails: the descriptor it had is nobody's, and stays open.
LEMMA LookupFailsInv ==
  ASSUME InfoInv, NEW l \in Lookups, LookupFails(l)
  PROVE  InfoInv'
<1>1. Inv /\ Orphans = leaked /\ OptionTypes /\ OptionsWanted /\ CopyCurrent /\ l \in Objects
  BY InvOfInfoInv, Kinds
<1>2. /\ IsOpen(l) /\ l \notin inrecv /\ objs' = objs \ {l} /\ fd' = [fd EXCEPT ![l] = SOCKET_ERR]
      /\ want' = [want EXCEPT ![l] = {}] /\ leaked' = leaked \cup {fd[l]}
      /\ UNCHANGED <<file, wire, inrecv, result, asked, shared, opts, info, printed>>
  BY DEF LookupFails, Forgets, Idle
<1>3. /\ fd[l] \in Fds /\ file[fd[l]] # NotOpen
      /\ fd'[l] = SOCKET_ERR /\ \A p \in Objects \ {l} : fd'[p] = fd[p]
  BY <1>1, <1>2, Held DEF Inv, TypeOK
<1>4. TypeOK'
  BY <1>1, <1>2 DEF Inv, TypeOK
<1>5. HeldOnce'
  BY <1>1, <1>2, <1>3 DEF Inv, HeldOnce, IsOpen
<1>6. Orphans' = leaked'
  <2>1. ASSUME NEW f \in Fds
        PROVE  f \in Orphans' <=> f \in Orphans \/ f = fd[l]
    <3>1. CASE f = fd[l]
      <4>1. \A p \in Objects : fd'[p] # f
        BY <1>1, <1>2, <1>3, <3>1, SocketsAssumption DEF Inv, HeldOnce
      <4> QED
        BY <1>2, <1>3, <3>1, <4>1 DEF Orphans
    <3>2. CASE f # fd[l]
      <4>1. \A p \in Objects : fd'[p] = f <=> fd[p] = f
        BY <1>3, <3>2, SocketsAssumption
      <4> QED
        BY <1>2, <3>2, <4>1 DEF Orphans
    <3> QED
      BY <3>1, <3>2
  <2>2. Orphans \subseteq Fds /\ Orphans' \subseteq Fds
    BY DEF Orphans
  <2> QED
    BY <1>1, <1>2, <1>3, <2>1, <2>2
<1>7. OptionTypes'
  BY <1>1, <1>2, <1>3 DEF OptionTypes
<1>8. OptionsWanted'
  BY <1>1, <1>2, <1>3 DEF OptionsWanted, OptionTypes, IsOpen
<1>9. CopyCurrent'
  <2>1. info.of \notin Lookups
    <3>1. info \in [fd : Fds \cup {SOCKET_ERR}, of : UDPs \cup BCs \cup {Nobody}]
      BY <1>1 DEF OptionTypes
    <3>2. info.of \in UDPs \cup BCs \cup {Nobody}
      BY <3>1
    <3> QED
      BY <3>2, Kinds, InfoAssumption
  <2>2. info.of # Nobody => info.of \in Objects \ {l}
    <3>1. info \in [fd : Fds \cup {SOCKET_ERR}, of : UDPs \cup BCs \cup {Nobody}]
      BY <1>1 DEF OptionTypes
    <3>2. info.of \in UDPs \cup BCs \cup {Nobody}
      BY <3>1
    <3> QED
      BY <2>1, <3>2, Kinds
  <2> QED
    BY <1>1, <1>2, <1>3, <2>2 DEF CopyCurrent, IsOpen
<1> QED
  BY <1>4, <1>5, <1>6, <1>7, <1>8, <1>9
  DEF InfoInv, InfoTypeOK, OnlyLookupsLeak, OptionTypes

-----------------------------------------------------------------------------
LEMMA InfoNextInv == InfoInv /\ [InfoNext]_vars => InfoInv'
<1> SUFFICES ASSUME InfoInv, [InfoNext]_vars PROVE InfoInv'
  OBVIOUS
<1> USE Kinds
<1>1. Inv /\ OptionTypes /\ OptionsWanted /\ CopyCurrent
  BY InvOfInfoInv
<1>2. DefaultOn \in SUBSET Options /\ DefaultOn \cup BCOptions \in SUBSET Options
  BY InfoAssumption
<1>3. CASE Network /\ UNCHANGED infoVars
  <2>1. Kept
    BY <1>1, <1>3, NextKept DEF Next
  <2> QED
    BY <1>3, <2>1, NetworkKeepsFd, InfoKept
<1>4. ASSUME NEW o \in Objects, (Binds(o) \/ Uses(o)) /\ UNCHANGED infoVars PROVE InfoInv'
  <2>1. Kept
    BY <1>1, <1>4, NextKept DEF Next, Calls
  <2> QED
    BY <1>4, <2>1, UsesKeepFd, InfoKept
<1>5. ASSUME NEW o \in Objects, ConstructUDP(o) PROVE InfoInv'
  BY <1>2, <1>5, ConstructInv DEF ConstructUDP
<1>6. ASSUME NEW o \in Objects, ConstructBC(o) PROVE InfoInv'
  BY <1>2, <1>6, ConstructInv DEF ConstructBC
<1>7. ASSUME NEW o \in Objects, Ends(o) PROVE InfoInv'
  BY <1>7, CloseInv DEF Ends
<1>8. ASSUME NEW o \in Objects, NEW x \in Options, NEW val \in BOOLEAN, Setsockopt(o, x, val)
      PROVE  InfoInv'
  BY <1>8, SetsockoptInv
<1>9. ASSUME NEW o \in UDPs \cup BCs, MakeInfo(o) PROVE InfoInv'
  <2>1. Inv' /\ NoneLost /\ UNCHANGED <<fd, opts, want, printed, leaked>>
    BY <1>1, <1>9, SocketVarsKept DEF MakeInfo, socketVars, Kept, NoneLost
  <2>2. fd[o] \in Fds \cup {SOCKET_ERR}
    BY <1>1 DEF Inv, TypeOK
  <2>3. info' \in [fd : Fds \cup {SOCKET_ERR}, of : UDPs \cup BCs \cup {Nobody}]
    BY <1>9, <2>2 DEF MakeInfo
  <2>4. CopyCurrent'
    BY <1>9, <2>1 DEF MakeInfo, CopyCurrent, IsOpen
  <2> QED
    BY <1>1, <2>1, <2>3, <2>4, InfoInvNext DEF OptionTypes, OptionsWanted, IsOpen
<1>10. ASSUME NEW l \in Lookups, LookupReturns(l) PROVE InfoInv'
  BY <1>10, CloseInv DEF LookupReturns
<1>11. ASSUME NEW l \in Lookups, LookupFails(l) PROVE InfoInv'
  BY <1>11, LookupFailsInv
<1>12. CASE InfoPrints
  <2>1. Inv' /\ NoneLost /\ UNCHANGED <<fd, opts, want, info, leaked>>
    BY <1>1, <1>12, SocketVarsKept DEF InfoPrints, socketVars, Kept, NoneLost
  <2>2. printed' \in [name : Ports \cup {NoAddr}, on : SUBSET Options]
    <3>1. CASE \E f \in Fds : info.fd = f /\ file[f] # NotOpen
      <4>1. file[info.fd] \in KernelSockets /\ opts[info.fd] \in SUBSET Options
        BY <1>1, <3>1 DEF Inv, TypeOK, OptionTypes
      <4> QED
        BY <1>12, <3>1, <4>1 DEF InfoPrints, KernelSockets
    <3>2. CASE ~ \E f \in Fds : info.fd = f /\ file[f] # NotOpen
      BY <1>12, <3>2 DEF InfoPrints
    <3> QED
      BY <3>1, <3>2
  <2> QED
    BY <1>1, <2>1, <2>2, InfoInvNext DEF OptionTypes, OptionsWanted, CopyCurrent, IsOpen
<1>13. CASE UNCHANGED vars
  <2>1. UNCHANGED socketVars /\ UNCHANGED <<fd, infoVars>>
    BY <1>13 DEF vars, socketVars
  <2>2. Kept
    BY <1>1, <2>1, NextKept
  <2> QED
    BY <2>1, <2>2, InfoKept
<1>14. ASSUME NEW o \in UDPs \cup BCs, Programs(o) PROVE InfoInv'
  BY <1>4, <1>5, <1>6, <1>7, <1>8, <1>9, <1>14, CastInv DEF Programs
<1>15. ASSUME NEW l \in Lookups, Lookup(l) PROVE InfoInv'
  BY <1>5, <1>10, <1>11, <1>15 DEF Lookup, LookupBegins
<1> QED
  BY <1>3, <1>12, <1>13, <1>14, <1>15 DEF InfoNext

\* The invariant of the larger system.
THEOREM InfoInvAlways == InfoSpec => []InfoInv
BY InfoInitInv, InfoNextInv, PTL DEF InfoSpec

\* The type invariant of SocketInfo, and with it that of Sockets.
THEOREM InfoTyping == InfoSpec => []InfoTypeOK
<1>1. InfoInv => InfoTypeOK
  BY DEF InfoInv
<1> QED
  BY <1>1, InfoInvAlways, PTL

\* OnlyLookupsLeak, for every number of objects, calls and descriptors: each open
\* descriptor is held by one live object, or was left open by a get_host_ip()
\* that failed.
THEOREM LeaksKnown == InfoSpec => []OnlyLookupsLeak
<1>1. InfoInv => OnlyLookupsLeak
  BY DEF InfoInv
<1> QED
  BY <1>1, InfoInvAlways, PTL

LEMMA PrintsWanted ==
  InfoInv /\ [InfoNext]_vars => (InfoPrints /\ info.of # Nobody => printed'.on = want[info.of])
<1> SUFFICES ASSUME InfoInv, InfoPrints, info.of # Nobody PROVE printed'.on = want[info.of]
  OBVIOUS
<1>1. Inv /\ OptionTypes /\ OptionsWanted /\ CopyCurrent
  BY InvOfInfoInv
<1>2. info.of \in Objects /\ IsOpen(info.of) /\ info.fd = fd[info.of]
  BY <1>1, Kinds DEF OptionTypes, CopyCurrent
<1>3. info.fd \in Fds /\ file[info.fd] # NotOpen
  BY <1>1, <1>2, Held
<1>4. printed'.on = opts[info.fd]
  BY <1>3 DEF InfoPrints
<1> QED
  BY <1>1, <1>2, <1>4 DEF OptionsWanted

\* info() prints of an object, until that closes, the options its program wants.
THEOREM TruthTold == InfoSpec => InfoTellsTruth
<1>1. InfoInv /\ [InfoNext]_vars
      => [InfoPrints /\ info.of # Nobody => printed'.on = want[info.of]]_vars
  BY PrintsWanted
<1> QED
  BY <1>1, InfoInvAlways, PTL DEF InfoSpec, InfoTellsTruth

-----------------------------------------------------------------------------
(***************************************************************************)
(* What was proved of shared addresses and of timeouts.  A step that is no *)
(* call of Sockets changes neither the timeout nor the sharing of any      *)
(* socket, gives none a name that programs could bind, and no object a     *)
(* descriptor.                                                             *)
(***************************************************************************)
Quiet ==
  /\ objs' \subseteq objs /\ UNCHANGED <<asked, shared>>
  /\ \A o \in Objects : IsOpen(o)' =>
       /\ fd'[o] = fd[o]
       /\ file'[fd[o]].reuse = file[fd[o]].reuse
       /\ file'[fd[o]].timeout = file[fd[o]].timeout
       /\ file'[fd[o]].addr \in {file[fd[o]].addr} \cup Objects

LEMMA CastQuiet ==
  ASSUME Inv, NEW o \in Objects, NEW m \in Data, Cast(o, m) PROVE Quiet
<1> DEFINE allowed == IsOpen(o) /\ Broadcast \in opts[fd[o]]
           named == IF allowed /\ file[fd[o]].addr = NoAddr
                    THEN [file EXCEPT ![fd[o]].addr = o] ELSE file
<1>1. PICK to \in SUBSET Room(BCPort) :
        file' = [f \in Fds |-> IF f \in to THEN Copied(file[f], m) ELSE named[f]]
  BY DEF Cast
<1>2. UNCHANGED <<objs, fd, asked, shared>>
  BY DEF Cast
<1>3. file \in [Fds -> KernelSockets \cup {NotOpen}]
  BY DEF Inv, TypeOK
<1>4. ASSUME NEW p \in Objects, IsOpen(p)
      PROVE  /\ file'[fd[p]].reuse = file[fd[p]].reuse
             /\ file'[fd[p]].timeout = file[fd[p]].timeout
             /\ file'[fd[p]].addr \in {file[fd[p]].addr} \cup Objects
  <2>1. fd[p] \in Fds /\ file[fd[p]] \in KernelSockets
    BY <1>4, Held
  <2>2. CASE fd[p] \in to
    BY <1>1, <2>1, <2>2 DEF Copied, KernelSockets
  <2>3. CASE fd[p] \notin to
    <3>1. file'[fd[p]] = named[fd[p]]
      BY <1>1, <2>1, <2>3
    <3>2. CASE named = file
      BY <3>1, <3>2
    <3>3. CASE allowed /\ named = [file EXCEPT ![fd[o]].addr = o]
      <4>1. CASE fd[p] = fd[o]
        <5>1. named[fd[p]] = [file[fd[p]] EXCEPT !.addr = o]
          BY <1>3, <2>1, <3>3, <4>1
        <5> HIDE DEF named
        <5> QED
          BY <2>1, <3>1, <5>1 DEF KernelSockets
      <4>2. CASE fd[p] # fd[o]
        BY <1>3, <2>1, <3>1, <3>3, <4>2
      <4> QED
        BY <4>1, <4>2
    <3> QED
      BY <3>2, <3>3
  <2> QED
    BY <2>2, <2>3
<1>5. \A p \in Objects : IsOpen(p)' => IsOpen(p) /\ fd'[p] = fd[p]
  BY <1>2 DEF IsOpen
<1> HIDE DEF named, allowed
<1> QED
  BY <1>2, <1>4, <1>5 DEF Quiet

\* Every step is a call of Sockets, or quiet.
LEMMA CallOrQuiet ==
  ASSUME Inv, [InfoNext]_vars PROVE [Next]_socketVars \/ Quiet
<1> USE Kinds
<1>1. ASSUME NEW o \in UDPs \cup BCs, Programs(o) PROVE Next \/ UNCHANGED socketVars \/ Quiet
  <2>1. CASE ConstructUDP(o) \/ ConstructBC(o) \/ Ends(o)
    BY <2>1 DEF ConstructUDP, ConstructBC, Ends, Next, Calls
  <2>2. CASE Binds(o) \/ Uses(o)
    BY <2>2 DEF Next, Calls
  <2>3. ASSUME NEW m \in Data, Cast(o, m) PROVE Quiet
    BY <2>3, CastQuiet
  <2>4. ASSUME NEW x \in Options, NEW val \in BOOLEAN, Setsockopt(o, x, val) PROVE Quiet
    BY <2>4 DEF Setsockopt, Quiet, IsOpen
  <2>5. CASE MakeInfo(o)
    BY <2>5 DEF MakeInfo
  <2> QED
    BY <1>1, <2>1, <2>2, <2>3, <2>4, <2>5 DEF Programs
<1>2. ASSUME NEW l \in Lookups, Lookup(l) PROVE Next \/ Quiet
  <2>1. CASE LookupBegins(l) \/ LookupReturns(l)
    BY <2>1 DEF LookupBegins, LookupReturns, ConstructUDP, Next, Calls
  <2>2. CASE LookupFails(l)
    <3>1. /\ objs' = objs \ {l} /\ fd' = [fd EXCEPT ![l] = SOCKET_ERR]
          /\ UNCHANGED <<file, asked, shared>>
      BY <2>2 DEF LookupFails, Forgets
    <3>2. \A o \in Objects : fd'[o] # SOCKET_ERR => fd'[o] = fd[o]
      BY <3>1 DEF Inv, TypeOK
    <3> QED
      BY <3>1, <3>2 DEF Quiet, IsOpen
  <2> QED
    BY <1>2, <2>1, <2>2 DEF Lookup
<1> QED
  BY <1>1, <1>2 DEF InfoNext, InfoPrints, Next, vars

LEMMA QuietKeeps ==
  ASSUME Inv, Quiet
  PROVE  /\ ReuseIsAsked /\ SharingAsked => (ReuseIsAsked /\ SharingAsked)'
         /\ TimeoutKept => TimeoutKept'
<1>1. Addrs \cap Objects = {}
  BY SocketsAssumption
<1>2. ReuseIsAsked => ReuseIsAsked'
  BY DEF Quiet, ReuseIsAsked, IsOpen
<1>3. SharingAsked => SharingAsked'
  <2> SUFFICES ASSUME SharingAsked, NEW o \in objs, NEW p \in objs,
                      o # p, IsOpen(o), IsOpen(p), IsOpen(o)', IsOpen(p)',
                      file'[fd[o]].addr = file'[fd[p]].addr, file'[fd[o]].addr \in Addrs
               PROVE  o \in shared /\ p \in shared
    BY DEF Quiet, SharingAsked, IsOpen, Inv, TypeOK
  <2>1. o \in Objects /\ p \in Objects
    BY DEF Inv, TypeOK
  <2>2. file'[fd[o]].addr = file[fd[o]].addr /\ file'[fd[p]].addr = file[fd[p]].addr
    BY <1>1, <2>1 DEF Quiet
  <2> QED
    BY <2>2 DEF SharingAsked
<1>4. TimeoutKept => TimeoutKept'
  BY DEF Quiet, TimeoutKept, IsOpen
<1> QED
  BY <1>2, <1>3, <1>4

\* In the larger system too, an address is shared only on purpose.
THEOREM InfoSharedOnPurpose == InfoSpec => []SharingAsked
<1>1. Init => SharingInv
  BY InitInv, InfoInitInv DEF Init, SocketInit, SharingInv, ReuseIsAsked, SharingAsked, IsOpen
<1>2. SharingInv /\ InfoInv /\ InfoInv' /\ [InfoNext]_vars => SharingInv'
  <2> SUFFICES ASSUME SharingInv, InfoInv, InfoInv', [InfoNext]_vars PROVE SharingInv'
    OBVIOUS
  <2>1. Inv'
    BY DEF InfoInv, InfoTypeOK, Inv, OnlyLookupsLeak
  <2>2. [Next]_socketVars \/ Quiet
    BY CallOrQuiet DEF SharingInv
  <2> QED
    BY <2>1, <2>2, SharingNext, QuietKeeps DEF SharingInv
<1>3. SharingInv => SharingAsked
  BY DEF SharingInv
<1> QED
  BY <1>1, <1>2, <1>3, InfoInvAlways, PTL DEF InfoSpec

\* And a timeout that was asked for is kept.
THEOREM InfoTimeoutsStay == InfoSpec => []TimeoutKept
<1>1. Init => TimeoutKept
  BY DEF Init, SocketInit, TimeoutKept, IsOpen
<1>2. TimeoutKept /\ InfoInv /\ [InfoNext]_vars => TimeoutKept'
  <2> SUFFICES ASSUME TimeoutKept, InfoInv, [InfoNext]_vars PROVE TimeoutKept'
    OBVIOUS
  <2>1. Inv
    BY InvOfInfoInv
  <2>2. [Next]_socketVars \/ Quiet
    BY <2>1, CallOrQuiet
  <2> QED
    BY <2>1, <2>2, TimeoutNext, QuietKeeps
<1> QED
  BY <1>1, <1>2, InfoInvAlways, PTL DEF InfoSpec

=============================================================================
