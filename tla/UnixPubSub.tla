----------------------------- MODULE UnixPubSub -----------------------------
(***************************************************************************)
(* Unix sockets under either pattern: Request and Reply, as UnixCalls has  *)
(* them, or Publisher and Subscriber, as the test pub_sub_unix of          *)
(* cpp/gtests/test_ps.cpp uses them.  The program in the place of the      *)
(* server then has a PublisherUnix and each client a SubscriberUnix.       *)
(*                                                                         *)
(* The patterns differ in more than UDP lets one see: publish() waits for  *)
(* every subscriber whose queue is full, connect() does nothing, and bind()*)
(* of a publisher takes a name that it never reads from.                   *)
(***************************************************************************)
EXTENDS UnixCalls

CONSTANTS
  MaxAddrs,  \* bound: calls of bind() and connect() on one Publisher
  MaxPub     \* bound: messages that are published

ASSUME UnixPubSubAssumption == MaxAddrs \in Nat /\ MaxPub \in Nat

VARIABLES
  pattern,     \* "rr" or "ps": what the programs of this host use
  clientaddrs, \* the names the publisher sends to
  published,   \* how many times publish() was called, in all the publisher's lives
  at,          \* the position in clientaddrs of the sendto() that is next in
               \* publish(); 0 outside
  hers,        \* the name of the publisher's socket
  heard,       \* heard[c]: the messages the callback of subscriber c has heard,
               \* in this life
  due          \* history: due[c], the messages published in this life of c while
               \* c's name was bound by c and in clientaddrs

subVars == <<heard, due>>
pubVars == <<clientaddrs, published, at, hers>>
psVars == <<pubVars, subVars>>
unixVars == <<vars, pattern, psVars>>

UnixInit ==
  /\ Init
  /\ pattern \in {"rr", "ps"}
  /\ pattern = "ps" => to = NoName
  /\ clientaddrs = <<>> /\ published = 0 /\ at = 0
  /\ hers = NoName
  /\ heard = [c \in Clients |-> <<>>]
  /\ due = [c \in Clients |-> {}]

HasName(c) == file[c] = "bound" /\ hers # c

-----------------------------------------------------------------------------
(***************************************************************************)
(* The publisher.                                                          *)
(***************************************************************************)
PubStarts ==
  /\ spc = "down"
  /\ spc' = "ready"
  /\ clientaddrs' = <<>>
  /\ UNCHANGED <<file, queue, clientVars, job, executed, to, left, deaths>>
  /\ UNCHANGED <<published, at, hers, subVars>>

RegisterAddr(a) ==
  /\ spc = "ready" /\ at = 0
  /\ Len(clientaddrs) < MaxAddrs
  /\ clientaddrs' = Append(clientaddrs, a)
  /\ UNCHANGED <<queue, clientVars, serverVars, to, left, deaths>>
  /\ UNCHANGED <<published, at, subVars>>

\* connect() of SocketUnix does nothing.
PubConnect(a) == RegisterAddr(a) /\ UNCHANGED <<file, hers>>

\* bind() fails when the file is there, or the socket has a name already.
PubBind(a) ==
  /\ RegisterAddr(a)
  /\ IF hers = NoName /\ file[a] = "absent"
     THEN file' = [file EXCEPT ![a] = "bound"] /\ hers' = a
     ELSE UNCHANGED <<file, hers>>

Registered(c) == \E k \in DOMAIN clientaddrs : clientaddrs[k] = c

Publish ==
  /\ spc = "ready" /\ at = 0
  /\ published < MaxPub
  /\ published' = published + 1
  /\ at' = 1
  /\ due' = [c \in Clients |-> IF HasName(c) /\ Registered(c)
                               THEN due[c] \cup {published'} ELSE due[c]]
  /\ UNCHANGED <<vars, clientaddrs, hers, heard>>

\* (Mutant: flags is MSG_DONTWAIT.)
PublishToSkips ==
  /\ at \in DOMAIN clientaddrs
  /\ LET m == [from |-> hers, call |-> <<Server, published>>]
     IN \/ Sendto(clientaddrs[at], m)
        \/ ~MayReturn(clientaddrs[at]) /\ UNCHANGED queue
  /\ at' = at + 1
  /\ UNCHANGED <<file, clientVars, serverVars, to, left, deaths>>
  /\ UNCHANGED <<clientaddrs, published, hers, subVars>>

PublishTo ==
  /\ at \in DOMAIN clientaddrs
  /\ Sendto(clientaddrs[at], [from |-> hers, call |-> <<Server, published>>])
  /\ at' = at + 1
  /\ UNCHANGED <<file, clientVars, serverVars, to, left, deaths>>
  /\ UNCHANGED <<clientaddrs, published, hers, subVars>>

\* (Mutant: the loop is over one address too late.)
PublishOverruns ==
  /\ at > Len(clientaddrs) + 1
  /\ at' = 0
  /\ UNCHANGED <<vars, clientaddrs, published, hers, subVars>>

PublishReturns ==
  /\ at > Len(clientaddrs)
  /\ at' = 0
  /\ UNCHANGED <<vars, clientaddrs, published, hers, subVars>>

\* What publish() has still to send when the program is gone.
ToCome(c) == \E k \in DOMAIN clientaddrs : at > 0 /\ k >= at /\ clientaddrs[k] = c

PubDies ==
  /\ spc # "down"
  /\ spc' = "down" /\ at' = 0 /\ hers' = NoName
  /\ due' = [c \in Clients |-> IF ToCome(c) THEN due[c] \ {published} ELSE due[c]]
  /\ IF hers = NoName
     THEN deaths < MaxDeaths /\ deaths' = deaths + 1 /\ UNCHANGED <<file, queue, left>>
     ELSE SocketGone(hers)
  /\ UNCHANGED <<clientVars, job, executed, to, clientaddrs, published, heard>>

-----------------------------------------------------------------------------
(***************************************************************************)
(* A subscriber.  One that calls connect(), as the example programs do,    *)
(* has no name and hears nothing.                                          *)
(***************************************************************************)
SubStarts(c) == ClientStarts(c) /\ UNCHANGED psVars

SubOnce(c) ==
  /\ pc[c] = "idle"
  /\ pc' = [pc EXCEPT ![c] = "recv"]
  /\ UNCHANGED <<file, queue, n, got, givenup, serverVars, to, left, deaths, psVars>>

SubHears(c) ==
  /\ pc[c] = "recv" /\ HasName(c) /\ queue[c] # <<>>
  /\ queue' = [queue EXCEPT ![c] = Tail(@)]
  /\ heard' = [heard EXCEPT ![c] = Append(@, Head(queue[c]).call[2])]
  /\ pc' = [pc EXCEPT ![c] = "idle"]
  /\ UNCHANGED <<file, n, got, givenup, serverVars, to, left, deaths, pubVars, due>>

SubTimesOut(c) ==
  /\ c \in Timed
  /\ pc[c] = "recv" /\ ~(HasName(c) /\ queue[c] # <<>>)
  /\ pc' = [pc EXCEPT ![c] = "idle"]
  /\ UNCHANGED <<file, queue, n, got, givenup, serverVars, to, left, deaths, psVars>>

SubDies(c) ==
  /\ pc[c] # "down"
  /\ pc' = [pc EXCEPT ![c] = "down"]
  /\ IF HasName(c) THEN SocketGone(c)
     ELSE deaths < MaxDeaths /\ deaths' = deaths + 1 /\ UNCHANGED <<file, queue, left>>
  /\ heard' = [heard EXCEPT ![c] = <<>>]
  /\ due' = [due EXCEPT ![c] = {}]
  /\ UNCHANGED <<n, got, givenup, serverVars, to, pubVars>>

-----------------------------------------------------------------------------
PubLoop == PublishTo \/ PublishReturns

Pub == PubStarts \/ Publish \/ PubLoop \/ PubDies
       \/ \E a \in Names : PubConnect(a) \/ PubBind(a)

SubLoop(c) == SubOnce(c) \/ SubHears(c)
Sub(c) == SubStarts(c) \/ SubLoop(c) \/ SubTimesOut(c) \/ SubDies(c)

PubSubNext ==
  /\ pattern = "ps"
  /\ \/ Pub
     \/ \E c \in Clients : Sub(c)
     \/ \E a \in Names : UserRemoves(a) /\ UNCHANGED psVars
  /\ UNCHANGED pattern

CallsNext == pattern = "rr" /\ Next /\ UNCHANGED <<pattern, psVars>>

UnixNext == PubSubNext \/ CallsNext

\* The threads inside once(), request() and publish() are scheduled, and a
\* subscriber's program calls once() again.
Fairly(A) == pattern = "rr" /\ A /\ UNCHANGED <<pattern, psVars>>

UnixSpec ==
  /\ UnixInit
  /\ [][UnixNext]_unixVars
  /\ WF_unixVars(Fairly(Once))
  /\ WF_unixVars(pattern = "ps" /\ PubLoop /\ UNCHANGED pattern)
  /\ \A c \in Clients :
       /\ WF_unixVars(Fairly(InCall(c)))
       /\ WF_unixVars(pattern = "ps" /\ SubLoop(c) /\ UNCHANGED pattern)

-----------------------------------------------------------------------------
(***************************************************************************)
(* NothingMissed: a subscriber that has its name hears, or has in its      *)
(* queue, the messages in the order they were published, and none that was *)
(* published to it is missing, full queues and restarts of the publisher   *)
(* notwithstanding: cpp/gtests/test_ps.cpp:27 expects one after the other. *)
(***************************************************************************)
Waiting(c) == [k \in DOMAIN queue[c] |-> queue[c][k].call[2]]
Reached(c) == heard[c] \o Waiting(c)

NothingMissed ==
  \A c \in Clients : HasName(c) =>
    /\ \A k \in DOMAIN Reached(c) : k > 1 => Reached(c)[k - 1] <= Reached(c)[k]
    /\ \A m \in due[c] : \/ \E k \in DOMAIN Reached(c) : Reached(c)[k] = m
                         \/ m = published /\ ToCome(c)

(***************************************************************************)
(* PublishEnds: publish() comes back, however slow the subscribers are, if *)
(* each calls once() again and again or ends, and the publisher does not   *)
(* send to its own name.  (One that does, as pub() of examples/ps.cpp      *)
(* would over Unix sockets, waits for ever when its queue is full.)        *)
(***************************************************************************)
ToItself == \E k \in DOMAIN clientaddrs : clientaddrs[k] = hers

PublishEnds == (at > 0 /\ ~ToItself) ~> (at = 0)

=============================================================================
