----------------------------- MODULE SocketInfo -----------------------------
(***************************************************************************)
(* What cpp/src/marko adds to SocketUDP without changing it: setsockopt()  *)
(* with any option, SocketBC, which casts to everybody on a port, and the  *)
(* functions of info.hpp: get_host_ip(), which makes a socket of its own,  *)
(* and SocketInfo, which prints what the kernel says of a descriptor that  *)
(* it has a copy of.                                                       *)
(*                                                                         *)
(* Of the options only those that are on or off are modelled: info() reads *)
(* them into a byte, which cuts off the rest of a number.                  *)
(***************************************************************************)
EXTENDS Sockets

CONSTANTS
  UDPs,      \* the SocketUDP objects
  BCs,       \* the SocketBC objects
  Lookups,   \* calls of get_host_ip(), each with its local descriptor
  Nobody,    \* a SocketInfo that was made for none of the objects
  Options,   \* the options that are on or off
  DefaultOn, \* those that a new socket has on
  BCOptions, \* SO_BROADCAST and IP_MULTICAST_LOOP, which SocketBC() sets
  Broadcast, \* SO_BROADCAST, without which the kernel refuses to cast
  BCPort     \* the port the SocketBC objects cast to

ASSUME InfoAssumption ==
  /\ UDPs \cup BCs \cup Lookups = Objects
  /\ UDPs \cap BCs = {} /\ (UDPs \cup BCs) \cap Lookups = {}
  /\ Nobody \notin Objects
  /\ DefaultOn \subseteq Options /\ BCOptions \subseteq Options
  /\ Broadcast \in BCOptions /\ BCPort \in Addrs

VARIABLES
  opts,     \* opts[f]: the options that the socket behind descriptor f has on
  want,     \* history: want[o], the options the program of object o wants on
  info,     \* the SocketInfo object: its copy of a descriptor, and (history)
            \* the object it was made for, until that closes the descriptor
  printed,  \* what info() printed last: the socket's name, the options that are on
  leaked    \* history: the descriptors that get_host_ip() has left open

infoVars == <<opts, want, info, printed, leaked>>
vars == <<socketVars, infoVars>>

Init ==
  /\ SocketInit
  /\ opts = [f \in Fds |-> {}]
  /\ want = [o \in Objects |-> {}]
  /\ info = [fd |-> SOCKET_ERR, of |-> Nobody]
  /\ printed = [name |-> NoAddr, on |-> {}]
  /\ leaked = {}

-----------------------------------------------------------------------------
(***************************************************************************)
(* Constructors and destructors.  A new socket has the kernel's defaults;  *)
(* SocketBC() sets its two options on whatever makeSocket() has made.      *)
(***************************************************************************)
SetOn(o, on) ==
  /\ opts' = IF IsOpen(o)' THEN [opts EXCEPT ![fd'[o]] = on] ELSE opts
  /\ want' = [want EXCEPT ![o] = IF IsOpen(o)' THEN on ELSE {}]

ConstructUDP(o) ==
  /\ Construct(o)
  /\ SetOn(o, DefaultOn)
  /\ UNCHANGED <<info, printed, leaked>>

ConstructBC(o) ==
  /\ Construct(o)
  /\ SetOn(o, DefaultOn \cup BCOptions)
  /\ UNCHANGED <<info, printed, leaked>>

Ends(o) ==
  /\ Close(o) \/ Destroy(o)
  /\ info' = IF info.of = o THEN [info EXCEPT !.of = Nobody] ELSE info
  /\ want' = [want EXCEPT ![o] = {}]
  /\ UNCHANGED <<opts, printed, leaked>>

(***************************************************************************)
(* Socket::setsockopt, with an option that is on or off.                   *)
(***************************************************************************)
Switched(set, x, val) == IF val THEN set \cup {x} ELSE set \ {x}

\* (Mutant: the value is not passed on.)
SetsockoptOn(o, x, val) ==
  /\ Idle(o)
  /\ opts' = IF IsOpen(o) THEN [opts EXCEPT ![fd[o]] = @ \cup {x}] ELSE opts
  /\ want' = IF IsOpen(o) THEN [want EXCEPT ![o] = Switched(@, x, val)] ELSE want
  /\ result' = <<"setsockopt", IsOpen(o)>>
  /\ UNCHANGED <<objs, fd, file, wire, inrecv, asked, shared, info, printed, leaked>>

Setsockopt(o, x, val) ==
  /\ Idle(o)
  /\ opts' = IF IsOpen(o) THEN [opts EXCEPT ![fd[o]] = Switched(@, x, val)] ELSE opts
  /\ want' = IF IsOpen(o) THEN [want EXCEPT ![o] = Switched(@, x, val)] ELSE want
  /\ result' = <<"setsockopt", IsOpen(o)>>
  /\ UNCHANGED <<objs, fd, file, wire, inrecv, asked, shared, info, printed, leaked>>

(***************************************************************************)
(* SocketBC::cast.  The kernel asks for SO_BROADCAST; every socket on the  *)
(* port gets a copy, if it has room and the network does not lose it.      *)
(***************************************************************************)
Room(a) == {f \in BoundTo(a) : Len(file[f].buffer) < RcvBuf}

Copied(k, m) == [k EXCEPT !.buffer = Append(@, m)]

Cast(o, m) ==
  LET allowed == IsOpen(o) /\ Broadcast \in opts[fd[o]]
      named == IF allowed /\ file[fd[o]].addr = NoAddr
               THEN [file EXCEPT ![fd[o]].addr = o] ELSE file
  IN /\ Idle(o)
     /\ \E to \in SUBSET Room(BCPort) :
          /\ to = {} \/ allowed
          /\ to # Room(BCPort) => Lossy \/ ~allowed
          /\ file' = [f \in Fds |-> IF f \in to THEN Copied(file[f], m) ELSE named[f]]
     /\ UNCHANGED <<objs, fd, wire, inrecv, result, asked, shared, infoVars>>

-----------------------------------------------------------------------------
(***************************************************************************)
(* get_host_ip(): a socket of its own, connect(), getsockname(), close().  *)
(* A call that gets no descriptor returns at once.  When getsockname()     *)
(* fails it returns without close(): the descriptor stays open, and        *)
(* sockfd, which alone knew it, is gone.                                   *)
(***************************************************************************)
LookupBegins(l) ==
  /\ ConstructUDP(l)
  /\ IsOpen(l)'

\* The call is over; its local variable held the descriptor.
Forgets(l) ==
  /\ Idle(l) /\ IsOpen(l)
  /\ objs' = objs \ {l}
  /\ fd' = [fd EXCEPT ![l] = SOCKET_ERR]
  /\ want' = [want EXCEPT ![l] = {}]
  /\ UNCHANGED <<file, wire, inrecv, result, asked, shared, opts, info, printed>>

\* (Mutant: there is no close() at the end either.)
LookupNoClose(l) ==
  /\ Forgets(l)
  /\ UNCHANGED leaked

LookupReturns(l) ==
  /\ Destroy(l)
  /\ want' = [want EXCEPT ![l] = {}]
  /\ UNCHANGED <<opts, info, printed, leaked>>

LookupFails(l) ==
  /\ Forgets(l)
  /\ leaked' = leaked \cup {fd[l]}

(***************************************************************************)
(* SocketInfo.  A class that is derived from SocketUDP can hand over its   *)
(* socket_fd; SocketInfo keeps the number, whatever becomes of it.         *)
(***************************************************************************)
MakeInfo(o) ==
  /\ o \in objs
  /\ info' = [fd |-> fd[o], of |-> IF IsOpen(o) THEN o ELSE Nobody]
  /\ UNCHANGED <<socketVars, opts, want, printed, leaked>>

\* info(), info_so() and info_ip(): getsockname() and a row of getsockopt().
\* When the descriptor is not open they all fail, and the byte that the values
\* are read into, and the type of the socket, are never set.
InfoPrints ==
  /\ IF \E f \in Fds : info.fd = f /\ file[f] # NotOpen
     THEN printed' = [name |-> file[info.fd].addr, on |-> opts[info.fd]]
     ELSE \E on \in {{}, Options} : printed' = [name |-> NoAddr, on |-> on]
  /\ UNCHANGED <<socketVars, opts, want, info, leaked>>

-----------------------------------------------------------------------------
\* bind() and connect() of a SocketBC are SocketUDP::bind() and connect(): its own
\* take a string and are deleted.
Programs(o) ==
  \/ o \in UDPs /\ ConstructUDP(o)
  \/ o \in BCs /\ (ConstructBC(o) \/ \E m \in Data : Cast(o, m))
  \/ Ends(o)
  \/ \E x \in Options, val \in BOOLEAN : Setsockopt(o, x, val)
  \/ (Binds(o) \/ Uses(o)) /\ UNCHANGED infoVars
  \/ MakeInfo(o)

Lookup(l) == LookupBegins(l) \/ LookupReturns(l) \/ LookupFails(l)

InfoNext ==
  \/ Network /\ UNCHANGED infoVars
  \/ \E o \in UDPs \cup BCs : Programs(o)
  \/ \E l \in Lookups : Lookup(l)
  \/ InfoPrints

InfoSpec == Init /\ [][InfoNext]_vars

-----------------------------------------------------------------------------
InfoTypeOK ==
  /\ TypeOK
  /\ opts \in [Fds -> SUBSET Options]
  /\ want \in [Objects -> SUBSET Options]
  /\ info \in [fd : Fds \cup {SOCKET_ERR}, of : UDPs \cup BCs \cup {Nobody}]
  /\ printed \in [name : Ports \cup {NoAddr}, on : SUBSET Options]
  /\ leaked \subseteq Fds

(***************************************************************************)
(* OnlyLookupsLeak: with broadcasts, options, copies of descriptors and    *)
(* get_host_ip() too, every open descriptor is held by one live object,    *)
(* except those that a get_host_ip() whose getsockname() failed has left.  *)
(* Each such call costs the process one descriptor for good: no object     *)
(* gets it any more, and nothing closes it.                                *)
(***************************************************************************)
OnlyLookupsLeak == HeldOnce /\ Orphans = leaked

(***************************************************************************)
(* InfoTellsTruth: what info() prints of an object whose descriptor it was *)
(* given is what the object's program has asked for, as long as that has   *)
(* not closed the descriptor; other objects, casts and calls of            *)
(* get_host_ip(), which use and give back descriptors all the time, make   *)
(* no difference.  (Afterwards it may print what another object has set.)  *)
(***************************************************************************)
InfoTellsTruth ==
  [][InfoPrints /\ info.of # Nobody => printed'.on = want[info.of]]_vars

=============================================================================
