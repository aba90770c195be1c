---------------------------- MODULE RequestReply ----------------------------
(***************************************************************************)
(* The request/reply pattern of cpp/src/marko/request_reply.hpp over       *)
(* SocketUDP: Request objects, each driven by a thread of its own, call    *)
(* one Reply object, whose thread runs once() in a loop.  The network and  *)
(* the sockets' receive buffers stand between them.                        *)
(*                                                                         *)
(* A Request object never binds; its first sendto gives its socket a port  *)
(* of its own, so a client stands for its own address.  What the bytes of  *)
(* a message mean does not matter here: a datagram says which call its     *)
(* bytes are about and how many of them there are.                         *)
(***************************************************************************)
EXTENDS Naturals, Sequences

CONSTANTS
  Clients,     \* the Request objects (and the addresses of their sockets)
  Server,      \* the address the Reply object binds
  Callbacks,   \* the functions a program may pass to register_cb
  NoCallback,  \* the empty std::function of a Reply nothing was registered with
  Setups,      \* what programs register before the first once()
  ReqSize,     \* msg_size of the Reply object: sizeof(request_t)
  RepSize,     \* msg_size of the Request objects: sizeof(response_t)
  ReqLens,     \* lengths of the messages passed to request()
  RepLens,     \* lengths of the messages callbacks return
  MaxCalls,    \* bound: MaxCalls[c] is how many calls client c makes
  RcvBuf,      \* bound: datagrams a socket's receive buffer holds
  Lossy,       \* the network loses datagrams, sendto may fail
  Duplicating, \* the network duplicates datagrams
  Timeouts,    \* the clients have called settimeout()
  Crashes      \* the process of the Reply object may die and be started again

Flags == <<Lossy, Duplicating, Timeouts, Crashes>>

ASSUME RRAssumption ==
  /\ Server \notin Clients
  /\ NoCallback \notin Callbacks
  /\ Setups \subseteq Callbacks \cup {NoCallback}
  /\ ReqSize \in Nat \ {0} /\ RepSize \in Nat \ {0}
  /\ ReqLens \subseteq Nat /\ RepLens \subseteq Nat
  /\ MaxCalls \in [Clients -> Nat] /\ RcvBuf \in Nat
  /\ Flags \in BOOLEAN \X BOOLEAN \X BOOLEAN \X BOOLEAN

VARIABLES
  n,           \* n[c]: how many calls client c has made
  waiting,     \* waiting[c]: client c is inside recv() of request()
  got,         \* got[c]: what its calls have returned
  wire,        \* datagrams under way
  rcvq,        \* rcvq[a]: the receive buffer of the socket at address a
  spc,         \* where the server's thread is: "down", "ready" (between two
               \* once(), or blocked in their recvfrom), "call", "send"
  job,         \* the message once() is working on and where its reply goes
  callback,    \* the Reply object's callback
  executed     \* history: the calls a callback has run on

clientVars == <<n, waiting, got>>
serverVars == <<spc, job, callback, executed>>
vars == <<clientVars, wire, rcvq, serverVars>>

Addrs == Clients \cup {Server}
Calls == Clients \X (Nat \ {0})
Datagrams == [src : Addrs, dst : Addrs, call : Calls, len : Nat]

-----------------------------------------------------------------------------
(***************************************************************************)
(* message_t, as recvfrom() and recv() return it.  The vector is made with *)
(* msg_size elements and never resized to the number of bytes received: it *)
(* is cleared when the call returns -1 or 0, and has msg_size elements     *)
(* otherwise.  A longer datagram is cut, a shorter one zero-padded.        *)
(***************************************************************************)
Empty == [size |-> 0]
Messages == [call : Calls, size : Nat \ {0}] \cup {Empty}

Recvfrom(d, size) ==
  IF d.len = 0
  THEN Empty
  ELSE [call |-> d.call, size |-> size]

\* A socket takes a datagram while its buffer has room; nobody listens on the
\* server's port while its process is down.
Accepts(a) == /\ Len(rcvq[a]) < RcvBuf
              /\ a = Server => spc # "down"

\* sendto(): the datagram is under way, or the call fails.  Nobody looks at
\* its return value.
Send(d) == \/ wire' = wire \cup {d}
           \/ Lossy /\ UNCHANGED wire

-----------------------------------------------------------------------------
Init ==
  /\ n = [c \in Clients |-> 0]
  /\ waiting = [c \in Clients |-> FALSE]
  /\ got = [c \in Clients |-> <<>>]
  /\ wire = {}
  /\ rcvq = [a \in Addrs |-> <<>>]
  /\ spc = "down"
  /\ job = <<>>
  /\ callback = NoCallback
  /\ executed = {}

(***************************************************************************)
(* Request::request.  Its sendto returns at once; its recv blocks until a  *)
(* datagram is there, whoever sent it, or until SO_RCVTIMEO expires.       *)
(***************************************************************************)
Request(c) ==
  /\ ~waiting[c]
  /\ n[c] < MaxCalls[c]
  /\ n' = [n EXCEPT ![c] = @ + 1]
  /\ waiting' = [waiting EXCEPT ![c] = TRUE]
  /\ \E len \in ReqLens :
       Send([src |-> c, dst |-> Server, call |-> <<c, n[c] + 1>>, len |-> len])
  /\ UNCHANGED <<got, rcvq, serverVars>>

Return(c, m) ==
  /\ waiting' = [waiting EXCEPT ![c] = FALSE]
  /\ got' = [got EXCEPT ![c] = Append(@, m)]
  /\ UNCHANGED <<n, wire, serverVars>>

\* (Mutant: recv with MSG_PEEK, which leaves the datagram in the buffer.)
RequestPeeks(c) ==
  /\ waiting[c]
  /\ rcvq[c] # <<>>
  /\ Return(c, Recvfrom(Head(rcvq[c]), RepSize))
  /\ UNCHANGED rcvq

RequestReturns(c) ==
  /\ waiting[c]
  /\ rcvq[c] # <<>>
  /\ rcvq' = [rcvq EXCEPT ![c] = Tail(@)]
  /\ Return(c, Recvfrom(Head(rcvq[c]), RepSize))

RequestTimesOut(c) ==
  /\ Timeouts
  /\ waiting[c]
  /\ rcvq[c] = <<>>
  /\ Return(c, Empty)
  /\ UNCHANGED rcvq

(***************************************************************************)
(* The Reply object.  Its program constructs it, binds it and registers a  *)
(* callback (or forgets to), then calls once() for ever, and may register  *)
(* another callback between two of them.                                   *)
(***************************************************************************)
ServerStart ==
  /\ spc = "down"
  /\ callback' \in Setups
  /\ spc' = "ready"
  /\ UNCHANGED <<clientVars, wire, rcvq, job, executed>>

RegisterCb(f) ==
  /\ spc = "ready"
  /\ callback' = f
  /\ UNCHANGED <<clientVars, wire, rcvq, spc, job, executed>>

\* (Mutants: once() without the test of the size, and with MSG_PEEK.)
OnceReceivesAny(to) ==
  /\ spc = "ready"
  /\ rcvq[Server] # <<>>
  /\ rcvq' = [rcvq EXCEPT ![Server] = Tail(@)]
  /\ spc' = "call" /\ job' = [m |-> Recvfrom(Head(rcvq[Server]), ReqSize), to |-> to]
  /\ UNCHANGED <<clientVars, wire, callback, executed>>

OncePeeks(to) ==
  /\ spc = "ready"
  /\ rcvq[Server] # <<>>
  /\ LET m == Recvfrom(Head(rcvq[Server]), ReqSize)
     IN m.size = ReqSize /\ spc' = "call" /\ job' = [m |-> m, to |-> to]
  /\ UNCHANGED <<clientVars, wire, rcvq, callback, executed>>

\* The first half of once(): recvfrom(), the test of the message's size, and
\* the early return when the message is no good.
OnceReceives(to) ==
  /\ spc = "ready"
  /\ rcvq[Server] # <<>>
  /\ rcvq' = [rcvq EXCEPT ![Server] = Tail(@)]
  /\ LET m == Recvfrom(Head(rcvq[Server]), ReqSize)
     IN IF m.size = 0 \/ m.size # ReqSize
        THEN UNCHANGED <<spc, job>>
        ELSE spc' = "call" /\ job' = [m |-> m, to |-> to]
  /\ UNCHANGED <<clientVars, wire, callback, executed>>

\* (Mutant: from_addr is not filled in, so the reply goes to some client.)
OnceFromAnyone == \E c \in Clients : OnceReceives(c)

OnceFrom == rcvq[Server] # <<>> /\ OnceReceives(Head(rcvq[Server]).src)

\* The process is gone: its socket and what is buffered there, its Reply
\* object and its callback.
Dies ==
  /\ spc' = "down"
  /\ rcvq' = [rcvq EXCEPT ![Server] = <<>>]
  /\ job' = <<>>
  /\ callback' = NoCallback

\* callback(m).
OnceCalls ==
  /\ spc = "call"
  /\ callback # NoCallback
  /\ executed' = executed \cup {job.m.call}
  /\ spc' = "send"
  /\ UNCHANGED <<clientVars, wire, rcvq, job, callback>>

\* (Mutant: an empty callback is skipped and the request answered all the same.)
OnceSkips ==
  /\ spc = "call"
  /\ callback = NoCallback
  /\ spc' = "send"
  /\ UNCHANGED <<clientVars, wire, rcvq, job, callback, executed>>

\* An empty std::function throws bad_function_call, which once() does not catch.
OnceThrows ==
  /\ spc = "call"
  /\ callback = NoCallback
  /\ Dies
  /\ UNCHANGED <<clientVars, wire, executed>>

\* sendto(r, from_addr); once() returns true whatever it returned.
OnceSends ==
  /\ spc = "send"
  /\ \E len \in RepLens :
       Send([src |-> Server, dst |-> job.to, call |-> job.m.call,
             len |-> len])
  /\ spc' = "ready"
  /\ job' = <<>>
  /\ UNCHANGED <<clientVars, rcvq, callback, executed>>

ServerCrash ==
  /\ Crashes
  /\ spc # "down"
  /\ Dies
  /\ UNCHANGED <<clientVars, wire, executed>>

(***************************************************************************)
(* The network.                                                            *)
(***************************************************************************)
Deliver(d) ==
  /\ d \in wire
  /\ \/ wire' = wire \ {d}
     \/ Duplicating /\ UNCHANGED wire
  /\ rcvq' = IF Accepts(d.dst) THEN [rcvq EXCEPT ![d.dst] = Append(@, d)] ELSE rcvq
  /\ UNCHANGED <<clientVars, serverVars>>

Lose(d) ==
  /\ Lossy
  /\ d \in wire
  /\ wire' = wire \ {d}
  /\ UNCHANGED <<clientVars, rcvq, serverVars>>

-----------------------------------------------------------------------------
Client(c) == Request(c) \/ RequestReturns(c) \/ RequestTimesOut(c)
Once == OnceFrom \/ OnceCalls \/ OnceThrows \/ OnceSends

Next ==
  \/ \E c \in Clients : Client(c)
  \/ ServerStart
  \/ \E f \in Callbacks : RegisterCb(f)
  \/ Once
  \/ ServerCrash
  \/ \E d \in wire : Deliver(d) \/ Lose(d)

Spec == Init /\ [][Next]_vars

(***************************************************************************)
(* Fairness.  The server's thread and a waiting client are scheduled, and  *)
(* the kernel hands over datagrams that are not lost, for every client.    *)
(* No client has to call, nobody has to start a server that died, nothing  *)
(* has to be lost and nobody has to crash.                                 *)
(***************************************************************************)
About(c) == {d \in wire : d.call[1] = c}

Fairness ==
  /\ WF_vars(Once)
  /\ \A c \in Clients : /\ WF_vars(RequestReturns(c) \/ RequestTimesOut(c))
                        /\ WF_vars(\E d \in About(c) : Deliver(d))

FairSpec == Spec /\ Fairness

-----------------------------------------------------------------------------
TypeOK ==
  /\ n \in [Clients -> Nat]
  /\ waiting \in [Clients -> BOOLEAN]
  /\ got \in [Clients -> Seq(Messages)]
  /\ wire \subseteq Datagrams
  /\ rcvq \in [Addrs -> Seq(Datagrams)]
  /\ spc \in {"down", "ready", "call", "send"}
  /\ job \in [m : Messages \ {Empty}, to : Addrs] \cup {<<>>}
  /\ spc \in {"call", "send"} => job # <<>>
  /\ callback \in Callbacks \cup {NoCallback}
  /\ executed \subseteq Calls

\* The message a call returned, when it returned one.
Answered(c) == {i \in DOMAIN got[c] : got[c][i] # Empty}

(***************************************************************************)
(* CallMatch: the answer a call returns is the answer to that call, which  *)
(* is what test_rr.cpp expects of every call of its loop.  Nothing in a    *)
(* datagram says which call it belongs to: this rests on there being no    *)
(* more than one datagram about a client anywhere, which holds as long as  *)
(* the client waits for each answer and the network makes no copies.       *)
(***************************************************************************)
CallMatch ==
  \A c \in Clients : \A i \in Answered(c) : got[c][i].call = <<c, i>>

(***************************************************************************)
(* OneCall: why that is so.  A call is at one place at a time: its request *)
(* is on the wire or in the server's buffer, or once() is working on it,   *)
(* or its reply is on the wire or in the client's buffer.  Whatever is     *)
(* about a client at any of these places is about the call it is waiting   *)
(* in, which the callback has run on exactly when the reply was computed.  *)
(***************************************************************************)
Held(c) == {k \in DOMAIN rcvq[Server] : rcvq[Server][k].call[1] = c}
InOnce(c) == spc \in {"call", "send"} /\ job.m.call[1] = c

AtOnePlace ==
  \A c \in Clients :
    /\ \A d, e \in About(c) : d = e
    /\ \A k, l \in Held(c) : k = l
    /\ Len(rcvq[c]) <= 1
    /\ About(c) # {} => Held(c) = {} /\ ~InOnce(c) /\ rcvq[c] = <<>>
    /\ Held(c) # {} => ~InOnce(c) /\ rcvq[c] = <<>>
    /\ InOnce(c) => rcvq[c] = <<>>

Pending(call) == waiting[call[1]] /\ call[2] = n[call[1]]

AsRequest(d) == /\ d.src = d.call[1] /\ d.dst = Server
                /\ Pending(d.call) /\ d.call \notin executed

AsReply(d) == /\ d.dst = d.call[1] /\ d.len \in RepLens
              /\ Pending(d.call) /\ d.call \in executed

OfPendingCall ==
  /\ \A d \in wire : AsRequest(d) \/ AsReply(d)
  /\ \A k \in DOMAIN rcvq[Server] : AsRequest(rcvq[Server][k])
  /\ \A c \in Clients : \A k \in DOMAIN rcvq[c] :
       AsReply(rcvq[c][k]) /\ rcvq[c][k].dst = c
  /\ spc \in {"call", "send"} =>
       /\ Pending(job.m.call)
       /\ job.to = job.m.call[1]
       /\ job.m.call \in executed <=> spc = "send"

Counted ==
  /\ \A c \in Clients : n[c] = IF waiting[c] THEN Len(got[c]) + 1 ELSE Len(got[c])
  /\ \A call \in executed : call[2] <= n[call[1]]

OneCall == AtOnePlace /\ OfPendingCall /\ Counted

(***************************************************************************)
(* OwnReply: whatever is lost, copied, reordered, timed out or restarted,  *)
(* a call never returns the answer to somebody else's request nor to a     *)
(* request that was made after it, and that request was executed.          *)
(***************************************************************************)
OwnReply ==
  \A c \in Clients : \A i \in Answered(c) :
    LET call == got[c][i].call
    IN call[1] = c /\ call[2] <= i /\ call \in executed

(***************************************************************************)
(* NoReplyTwice: as long as the network makes no copies, one answer is     *)
(* returned by one call only, timeouts and late answers notwithstanding.   *)
(***************************************************************************)
NoReplyTwice ==
  \A c \in Clients : \A i, j \in Answered(c) :
    got[c][i].call = got[c][j].call => i = j

(***************************************************************************)
(* AtMostOnce: without copies the callback never runs twice on one call,   *)
(* across crashes and restarts of the server's process too.                *)
(***************************************************************************)
AtMostOnce == spc = "call" => job.m.call \notin executed

(***************************************************************************)
(* ServedCallReturns: a request() whose datagram made it into the buffer   *)
(* of the Reply object's socket is not left there: the call returns, or    *)
(* what is about it has been lost with a crash or on the way.  No other    *)
(* client's calls, however many, and no restart keep it from its turn.  (A *)
(* call that is gone blocks its thread for ever, and so does one that came *)
(* before the server had bound: the tests sleep to get the order right.)   *)
(***************************************************************************)
Buffered(c, i) ==
  \E k \in DOMAIN rcvq[Server] : rcvq[Server][k].call = <<c, i>>

Gone(c) == About(c) = {} /\ Held(c) = {} /\ ~InOnce(c) /\ rcvq[c] = <<>>

ServedCallReturns ==
  \A c \in Clients : \A i \in 1..MaxCalls[c] :
    Buffered(c, i) ~> (Len(got[c]) >= i \/ Gone(c))

(***************************************************************************)
(* RefinesRpc: the system implements Rpc.  Which call an answer is about   *)
(* is read off the message; a client waits when it has asked for more than *)
(* it has got.                                                             *)
(***************************************************************************)
AboutCall == [c \in Clients |-> [i \in DOMAIN got[c] |-> got[c][i].call]]

R == INSTANCE Rpc WITH Clients <- Clients, asked <- n, done <- executed, answers <- AboutCall
RefinesRpc == R!Spec

(***************************************************************************)
(* RefinesLateRpc: with timeouts, late answers and crashes, as long as the *)
(* network makes no copies, it implements LateRpc.                         *)
(***************************************************************************)
Ends == [c \in Clients |->
          [i \in DOMAIN got[c] |-> IF got[c][i] = Empty THEN <<>> ELSE got[c][i].call]]

Late == INSTANCE LateRpc WITH Clients <- Clients, asked <- n, done <- executed, ends <- Ends
RefinesLateRpc == Late!Spec

=============================================================================
