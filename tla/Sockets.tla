------------------------------- MODULE Sockets -------------------------------
(***************************************************************************)
(* Socket and SocketUDP of cpp/src/marko/socket.hpp and socket_udp.hpp:    *)
(* objects that hold one descriptor each, the kernel's sockets behind the  *)
(* descriptors, and the datagrams on their way between them.               *)
(*                                                                         *)
(* Every object is used by one thread, as the tests and examples do; the   *)
(* threads run concurrently.  A thread may wait inside recvfrom().  All    *)
(* addresses are of the host the programs run on, as in the tests.         *)
(***************************************************************************)
EXTENDS Timeval, Sequences

CONSTANTS
  Objects,     \* the SocketUDP objects of a program (or of several)
  Fds,         \* the descriptors there are: a program can run out of them
  SOCKET_ERR,  \* the value of socket_fd that is no descriptor
  NotOpen,     \* what is behind a descriptor that is not open
  Addrs,       \* the addresses programs name
  NoAddr,      \* a socket without an address
  Data,        \* the messages
  Zero,        \* the message of no bytes
  Empty,       \* an empty message_t
  Msecs,       \* arguments of settimeout()
  RcvBuf,      \* bound: datagrams a receive buffer holds
  MaxWire,     \* bound: datagrams under way to an address
  Lossy,       \* the network loses datagrams, sendto() may fail
  Reordering   \* the network reorders datagrams

ASSUME SocketsAssumption ==
  /\ SOCKET_ERR \notin Fds
  /\ NoAddr \notin Addrs \cup Objects /\ Addrs \cap Objects = {}
  /\ Empty \notin Data
  /\ Msecs \subseteq Int
  /\ RcvBuf \in Nat /\ MaxWire \in Nat

VARIABLES
  objs,     \* the objects that are constructed and not yet destroyed
  fd,       \* fd[o]: socket_fd of object o
  file,     \* file[f]: the kernel's socket behind descriptor f
  wire,     \* wire[a]: datagrams under way to port a
  inrecv,   \* the objects whose thread is inside recvfrom()
  result,   \* the last call that returned something, and what it returned
  asked,    \* history: asked[o], the timeout o's program has asked for
  shared    \* history: objects whose program asked to share their address

socketVars == <<objs, fd, file, wire, inrecv, result, asked, shared>>

\* A port is one that programs name, or one the kernel chose for an object's
\* socket, for which the object stands.
Ports == Addrs \cup Objects

KernelSockets ==
  [addr : Ports \cup {NoAddr}, reuse : BOOLEAN, timeout : Timevals,
   nonblocking : BOOLEAN, buffer : Seq(Data)]

ASSUME NotOpenAssumption == NotOpen \notin KernelSockets

Fresh == [addr |-> NoAddr, reuse |-> FALSE, timeout |-> Forever,
          nonblocking |-> FALSE, buffer |-> <<>>]

IsOpen(o) == fd[o] # SOCKET_ERR
Idle(o) == o \in objs /\ o \notin inrecv

SocketInit ==
  /\ objs = {}
  /\ fd = [o \in Objects |-> SOCKET_ERR]
  /\ file = [f \in Fds |-> NotOpen]
  /\ wire = [a \in Ports |-> <<>>]
  /\ inrecv = {}
  /\ result = <<"makeSocket", TRUE>>
  /\ asked = [o \in Objects |-> 0]
  /\ shared = {}

-----------------------------------------------------------------------------
(***************************************************************************)
(* Construction and destruction.                                           *)
(***************************************************************************)

\* SocketUDP(): makeSocket() gets a free descriptor, or none is left.
Construct(o) ==
  /\ o \notin objs
  /\ objs' = objs \cup {o}
  /\ \/ \E f \in Fds : /\ file[f] = NotOpen
                       /\ fd' = [fd EXCEPT ![o] = f]
                       /\ file' = [file EXCEPT ![f] = Fresh]
     \/ /\ \A f \in Fds : file[f] # NotOpen
        /\ fd' = [fd EXCEPT ![o] = SOCKET_ERR]
        /\ UNCHANGED file
  /\ asked' = [asked EXCEPT ![o] = 0]
  /\ shared' = shared \ {o}
  /\ UNCHANGED <<wire, inrecv, result>>

\* (Mutant: socket_fd keeps the descriptor that was closed.)
CloseOnly(o) ==
  /\ file' = IF IsOpen(o) THEN [file EXCEPT ![fd[o]] = NotOpen] ELSE file
  /\ UNCHANGED fd

CloseFd(o) ==
  /\ file' = IF IsOpen(o) THEN [file EXCEPT ![fd[o]] = NotOpen] ELSE file
  /\ fd' = [fd EXCEPT ![o] = SOCKET_ERR]

Close(o) ==
  /\ Idle(o)
  /\ CloseFd(o)
  /\ UNCHANGED <<objs, wire, inrecv, result, asked, shared>>

\* (Mutant: nobody waits for the thread that is inside recvfrom().)
DestroyAnytime(o) ==
  /\ o \in objs
  /\ CloseFd(o)
  /\ objs' = objs \ {o}
  /\ UNCHANGED <<wire, inrecv, result, asked, shared>>

Destroy(o) ==
  /\ Idle(o)
  /\ CloseFd(o)
  /\ objs' = objs \ {o}
  /\ UNCHANGED <<wire, inrecv, result, asked, shared>>

-----------------------------------------------------------------------------
(***************************************************************************)
(* Options.  A call on a descriptor that is not open fails.                *)
(***************************************************************************)
SetTimeout(o, msec) ==
  LET tv == get_time(msec)
      ok == IsOpen(o) /\ Accepted(tv)
  IN /\ Idle(o)
     /\ file' = IF ok THEN [file EXCEPT ![fd[o]].timeout = tv] ELSE file
     /\ asked' = IF ok THEN [asked EXCEPT ![o] = msec] ELSE asked
     /\ result' = <<"settimeout", ok>>
     /\ UNCHANGED <<objs, fd, wire, inrecv, shared>>

SetNonblocking(o, val) ==
  /\ Idle(o)
  /\ file' = IF IsOpen(o) THEN [file EXCEPT ![fd[o]].nonblocking = val] ELSE file
  /\ result' = <<"setnonblocking", IsOpen(o)>>
  /\ UNCHANGED <<objs, fd, wire, inrecv, asked, shared>>

\* (Mutant: the else branch of reuseSocket sets the option, as the other does.)
ReuseAlways(o, enable) ==
  /\ Idle(o)
  /\ file' = IF IsOpen(o) THEN [file EXCEPT ![fd[o]].reuse = TRUE] ELSE file
  /\ shared' = IF IsOpen(o) /\ enable THEN shared \cup {o} ELSE shared
  /\ result' = <<"reuseSocket", IsOpen(o)>>
  /\ UNCHANGED <<objs, fd, wire, inrecv, asked>>

ReuseSocket(o, enable) ==
  /\ Idle(o)
  /\ file' = IF IsOpen(o) THEN [file EXCEPT ![fd[o]].reuse = enable] ELSE file
  /\ shared' = IF IsOpen(o) /\ enable THEN shared \cup {o} ELSE shared
  /\ result' = <<"reuseSocket", IsOpen(o)>>
  /\ UNCHANGED <<objs, fd, wire, inrecv, asked>>

(***************************************************************************)
(* Addresses.  The kernel gives an address to a socket that has none, and  *)
(* to a second socket only if both have SO_REUSEPORT set.                  *)
(***************************************************************************)
BoundTo(a) == {f \in Fds : file[f] # NotOpen /\ file[f].addr = a}

MayBind(f, a, reuse) ==
  /\ file[f].addr = NoAddr
  /\ \A g \in BoundTo(a) : reuse /\ file[g].reuse

Bind(o, a) ==
  LET ok == IsOpen(o) /\ MayBind(fd[o], a, file[fd[o]].reuse)
  IN /\ Idle(o)
     /\ file' = IF ok THEN [file EXCEPT ![fd[o]].addr = a] ELSE file
     /\ result' = <<"bind", ok>>
     /\ UNCHANGED <<objs, fd, wire, inrecv, asked, shared>>

\* connect() is reuseSocket(true) and bind() to the address it is given; when
\* bind() fails the option stays set.
Connect(o, a) ==
  LET ok == IsOpen(o) /\ MayBind(fd[o], a, TRUE)
  IN /\ Idle(o)
     /\ file' = IF IsOpen(o)
                THEN [file EXCEPT ![fd[o]].reuse = TRUE,
                                  ![fd[o]].addr = IF ok THEN a ELSE @]
                ELSE file
     /\ shared' = IF IsOpen(o) THEN shared \cup {o} ELSE shared
     /\ result' = <<"connect", ok>>
     /\ UNCHANGED <<objs, fd, wire, inrecv, asked>>

-----------------------------------------------------------------------------
(***************************************************************************)
(* Sending and receiving.                                                  *)
(***************************************************************************)

\* sendto() gives a socket without an address a port of its own.
SendTo(o, a, m) ==
  /\ Idle(o)
  /\ Len(wire[a]) < MaxWire
  /\ file' = IF IsOpen(o) /\ file[fd[o]].addr = NoAddr
             THEN [file EXCEPT ![fd[o]].addr = o] ELSE file
  /\ \/ IsOpen(o) /\ wire' = [wire EXCEPT ![a] = Append(@, m)]
     \/ (~IsOpen(o) \/ Lossy) /\ UNCHANGED wire
  /\ UNCHANGED <<objs, fd, inrecv, result, asked, shared>>

Recvfrom(o) ==
  /\ Idle(o)
  /\ inrecv' = inrecv \cup {o}
  /\ UNCHANGED <<objs, fd, file, wire, result, asked, shared>>

Returned(o, m) ==
  /\ inrecv' = inrecv \ {o}
  /\ result' = <<"recvfrom", m>>
  /\ UNCHANGED <<objs, fd, wire, asked, shared>>

\* (Mutant: flags is MSG_PEEK.)
RecvPeeks(o) ==
  /\ o \in inrecv
  /\ IsOpen(o)
  /\ file[fd[o]].buffer # <<>>
  /\ LET m == Head(file[fd[o]].buffer)
     IN Returned(o, IF m = Zero THEN Empty ELSE m)
  /\ UNCHANGED file

\* The message is cleared when no bytes came.
RecvReturns(o) ==
  /\ o \in inrecv
  /\ IsOpen(o)
  /\ file[fd[o]].buffer # <<>>
  /\ file' = [file EXCEPT ![fd[o]].buffer = Tail(@)]
  /\ LET m == Head(file[fd[o]].buffer)
     IN Returned(o, IF m = Zero THEN Empty ELSE m)

\* ::recvfrom returns -1: there is no such descriptor, the socket does not
\* block, or SO_RCVTIMEO has expired.
MayTimeOut(k) == k.buffer = <<>> /\ (k.nonblocking \/ k.timeout # Forever)

RecvFails(o) ==
  /\ o \in inrecv
  /\ IsOpen(o) => MayTimeOut(file[fd[o]])
  /\ Returned(o, Empty)
  /\ UNCHANGED file

(***************************************************************************)
(* available(): select() on the one descriptor, for a millisecond.  It     *)
(* returns 1 when there is something to read, and available() is false;    *)
(* it returns 0 when there is nothing and clears the set, and available()  *)
(* is false.  FD_SET of SOCKET_ERR is undefined.  availableForWrite() is   *)
(* the same for a socket that one can always write to.                     *)
(***************************************************************************)
Readable(o) == IsOpen(o) /\ file[fd[o]].buffer # <<>>

Select(ready) == IF ready THEN [err |-> 1, isset |-> TRUE]
                 ELSE [err |-> 0, isset |-> FALSE]

Tests(o, call, ready) ==
  /\ Idle(o)
  /\ LET s == Select(ready)
     IN \/ IsOpen(o) /\ result' = <<call, IF s.err > 0 THEN FALSE ELSE s.isset>>
        \/ ~IsOpen(o) /\ result' \in {call} \X BOOLEAN
  /\ UNCHANGED <<objs, fd, file, wire, inrecv, asked, shared>>

Available(o) == Tests(o, "available", Readable(o))
AvailableForWrite(o) == Tests(o, "availableForWrite", TRUE)

(***************************************************************************)
(* The network and the kernel: a datagram goes to one of the sockets that  *)
(* have its address, or is dropped when there is none or its buffer is     *)
(* full.                                                                   *)
(***************************************************************************)
Without(s, i) == SubSeq(s, 1, i - 1) \o SubSeq(s, i + 1, Len(s))

Deliver(a, i) ==
  /\ i \in DOMAIN wire[a]
  /\ Reordering \/ i = 1
  /\ wire' = [wire EXCEPT ![a] = Without(@, i)]
  /\ \/ \E f \in BoundTo(a) :
          /\ Len(file[f].buffer) < RcvBuf
          /\ file' = [file EXCEPT ![f].buffer = Append(@, wire[a][i])]
     \/ /\ Lossy \/ \A f \in BoundTo(a) : Len(file[f].buffer) >= RcvBuf
        /\ UNCHANGED file
  /\ UNCHANGED <<objs, fd, inrecv, result, asked, shared>>

-----------------------------------------------------------------------------
Binds(o) == \E a \in Addrs : Bind(o, a) \/ Connect(o, a)

Uses(o) ==
  \/ \E msec \in Msecs : SetTimeout(o, msec)
  \/ \E on \in BOOLEAN : SetNonblocking(o, on) \/ ReuseSocket(o, on)
  \/ \E a \in Addrs, m \in Data : SendTo(o, a, m)
  \/ Recvfrom(o) \/ RecvReturns(o) \/ RecvFails(o)
  \/ Available(o) \/ AvailableForWrite(o)

Calls(o) == Construct(o) \/ Close(o) \/ Destroy(o) \/ Binds(o) \/ Uses(o)

Network == \E a \in Ports : \E i \in DOMAIN wire[a] : Deliver(a, i)

Next == Network \/ \E o \in Objects : Calls(o)

Spec == SocketInit /\ [][Next]_socketVars

-----------------------------------------------------------------------------
TypeOK ==
  /\ objs \subseteq Objects
  /\ fd \in [Objects -> Fds \cup {SOCKET_ERR}]
  /\ file \in [Fds -> KernelSockets \cup {NotOpen}]
  /\ wire \in [Ports -> Seq(Data)]
  /\ inrecv \subseteq objs
  /\ IF result[1] = "recvfrom" THEN result[2] \in Data \cup {Empty}
                               ELSE result[2] \in BOOLEAN
  /\ asked \in [Objects -> Int]
  /\ shared \subseteq Objects

\* An object's descriptor is open, and its own.
HeldOnce ==
  /\ \A o \in Objects : IsOpen(o) => o \in objs /\ file[fd[o]] # NotOpen
  /\ \A o, p \in Objects : IsOpen(o) /\ fd[o] = fd[p] => o = p

\* The descriptors that are open and that no object has.
Orphans == {f \in Fds : file[f] # NotOpen /\ \A o \in Objects : fd[o] # f}

(***************************************************************************)
(* DescriptorsMatch: the open descriptors are those of the live objects,   *)
(* each held by one: none is leaked, and no object holds one that another  *)
(* object, or the kernel, has taken over.                                  *)
(***************************************************************************)
DescriptorsMatch == HeldOnce /\ Orphans = {}

(***************************************************************************)
(* SharingAsked: two sockets have the same address only if the programs of *)
(* both asked for it, with reuseSocket(true) or connect().                 *)
(***************************************************************************)
SharingAsked ==
  \A o, p \in objs :
    /\ o # p /\ IsOpen(o) /\ IsOpen(p)
    /\ file[fd[o]].addr = file[fd[p]].addr
    /\ file[fd[o]].addr \in Addrs
    => o \in shared /\ p \in shared

(***************************************************************************)
(* TimeoutKept: a timeout that was asked for stays with the object's       *)
(* socket, and is never turned into the timeval that means to wait for     *)
(* ever, however many milliseconds it has.                                 *)
(***************************************************************************)
TimeoutKept ==
  \A o \in Objects : IsOpen(o) /\ asked[o] # 0 => file[fd[o]].timeout # Forever

(***************************************************************************)
(* TimeoutAsAsked: it is as long as was asked for.  docs/notes.md computes *)
(* the microseconds of the timeval as msec * 1000.                         *)
(***************************************************************************)
TimeoutAsAsked ==
  \A o \in Objects :
    IsOpen(o) => Microseconds(file[fd[o]].timeout) = 1000 * asked[o]

(***************************************************************************)
(* AvailableTellsTruth: available() of an open socket says whether there   *)
(* is something to read, which select() tells it.                          *)
(***************************************************************************)
AvailableTellsTruth ==
  [][\A o \in Objects : Available(o) /\ IsOpen(o) => result'[2] = Readable(o)]_socketVars

=============================================================================
