# Marko in TLA+

Models, model-checking runs and machine-checked proofs for the marko library:
the header-only C++ library in `cpp/src/marko`, the programs in `cpp/examples` and
the Python package in `python/pymarko`. Marko wraps datagram sockets and puts two
patterns on top of them: a `Request` calls a `Reply`, and a `Publisher` sends to
`Subscriber`s.

## 1. The system

| Part | State it keeps | Operations |
|---|---|---|
| `Socket` (`socket.hpp`) | `socket_fd`, a descriptor or `SOCKET_ERR` | constructor, destructor, `close`, `settimeout`, `setnonblocking`, `setsockopt`, `available`, `availableForWrite`, `reuseSocket`, `makeSocket` |
| `SocketUDP` (`socket_udp.hpp`) | that of `Socket`; the kernel keeps its address, options and receive buffer | `bind`, `connect` (reuse the address and bind), `recvfrom`, `recv`, `sendto`, `getsockname` |
| `SocketUnix` (`socket_uds.hpp`) | that of `Socket`; a name in the file system | the same; `connect` does nothing, `bind` does not unlink |
| `SocketBC` (`socket_bc.hpp`) | that of `SocketUDP`; the broadcast address | constructor (sets two options), `cast` |
| `SocketInfo`, `get_host_ip`, `get_hostname` (`info.hpp`) | a copy of an object's descriptor; a descriptor of its own while it runs | `info`, `info_so`, `info_ip`; looking up addresses |
| `Reply`, `Request` (`request_reply.hpp`) | `callback`, `msg_size` | `register_cb`, `once()`, `once(to)`; `request` |
| `Publisher`, `Subscriber` (`pub_sub.hpp`) | `clientaddrs`; `callbacks`, `data_size` | `publish`, `bind`, `connect`; `register_cb`, `once` |
| `get_time` (`time.hpp`) | none | milliseconds to `timeval` |
| `ps.cpp`, `rr.cpp`, `simple.cpp` (`cpp/examples`) | a socket and a loop counter per process | `pub`, `sub`, `request`, `reply`, with the role taken from the command line |
| `pymarko.udpsocket` | `sock`, `event`; `cb` and `clientaddr`, which a class has once for all its objects | `UDPSocket.recvfrom/sendto`, `Subscriber.loop`, `Publisher.publish`, `Reply.loop`, `Request.request` |
| `pymarko.transport`, `pymarko.ip`, `pymarko.mcsocket` | none | encodings; `get_ip`; an unfinished multicast beacon |

### How the parts interact

`Reply`, `Request`, `Publisher` and `Subscriber` are templates that inherit from
a socket class, so an object of theirs owns one descriptor and every operation
of `Socket` can be called on it. Objects share no memory: they interact by
datagrams through the kernel, and by the kernel's tables of descriptors, ports and
names. Two things are shared all the same: `SocketInfo` keeps a copy of another
object's descriptor, and the Python classes keep their callbacks and addresses in
lists that all their objects use. Programs run each object in a thread or a process
of its own (the tests start two threads and order them with `msleep(1)`). The
library keeps no thread in C++. Callbacks run inside `once()`, in the thread that
called it.

### What is hard about it

* **Unreliable delivery.** A datagram is lost, copied, reordered, dropped when a
  buffer is full or nobody has the address. Nothing resends, and nothing in a
  message says which call or which publication it belongs to.
* **Waiting instead.** Over Unix sockets nothing is lost, but `sendto` waits while
  the receiver's queue is full, and with it everything the sender should do next.
* **Timeouts.** `settimeout` makes `request()` give up, and the reply still comes.
* **Order of starting.** What is sent before the receiver has bound is gone;
  `connect` and `bind` of a publisher take the receiver's address.
* **Restarts.** A process dies between taking a request and answering it; a
  publisher or subscriber is destroyed and constructed again; the name of a Unix
  socket outlives it.
* **Limits and return values.** Constructors and senders do not report failure:
  without a descriptor, or after a failed `bind`, an object carries on.
* **Interleaving.** Several clients' requests in one buffer, several publishers'
  loops over their addresses, a subscriber's loop over its callbacks, and in Python
  lists that grow while loops go through them.

### What makes each part correct

* `Socket`: open descriptors and live objects match, but for the descriptor of a call of
  `get_host_ip` that fails; an address is shared only
  on purpose; a timeout stays one; `available()` tells the truth; `info()` prints
  what was asked for.
* `Request`/`Reply`: a call gets the answer to that call; a request is executed
  at most once and an answer returned at most once; a served call returns.
* `Publisher`/`Subscriber`: messages are heard in order and once, by all callbacks
  alike; what a subscriber has received is heard; data flows one way; over Unix
  sockets nothing published to a subscriber is missing, and `publish` comes back.
* Examples: processes that are started in the right order all end.
* Python: every registered callback is called, every address is sent to, and a
  request gets its own answer, as far as the shared lists let it.

`PROJECT.json` lists the hazards with their lines and the properties that are
there for them.

## 2. The modules

```
                                              (<-- is extended by, ==> implements)
Timeval <-- Sockets <-- PubSub ==> Topic      MCPubSub, PubSubProofs
               ^  ^---- SocketInfo            MCSocketInfo, SocketInfoProofs
               |------- Examples              MCExamples, ExamplesProofs
          MCSockets, SocketsProofs

RequestReply ==> Rpc, LateRpc                 MCRequestReply
   ^-- RequestReplyProofs <-- LateReplyProofs

UnixCalls ==> LateRpc
   ^-- UnixPubSub                             UnixPubSubProofs
PyUdpSocket                                   MCPyUdpSocket, PyUdpSocketProofs
```

**Timeval** translates `get_time`: C++ division cuts towards zero, and the
milliseconds that are left go into `tv_usec`. `Accepted` and `Forever` say what
the kernel makes of a timeval it is handed with `SO_RCVTIMEO`.

**Sockets** is `Socket` and `SocketUDP` over a kernel. `fd[o]` is the object's
`socket_fd`; `file[f]` is the kernel's socket behind a descriptor (address,
`SO_REUSEPORT`, timeout, non-blocking flag, receive buffer); `wire[a]` holds what
is under way to an address. Each member function is one action, except that
`recvfrom` is two, the call and its return, because the thread may wait in
between. The kernel's `bind` gives an address to a socket that has none, and to a
second socket only when both have `SO_REUSEPORT`; a datagram goes to any one of
the sockets with its address. A program can run out of descriptors, and
constructors do not report it. `asked` and `shared` are history variables. All
addresses are addresses of the programs' own host.

**SocketInfo** extends Sockets with `setsockopt`, `SocketBC`, `get_host_ip` and
`SocketInfo`. `opts[f]` are the options a socket has on, `want[o]` (a history
variable) those that its program asked for. A `SocketInfo` has a copy of a descriptor
(`info`) and no way to know that its object has closed it. A call of `get_host_ip` is an
object of its own whose life is the call: it takes a descriptor, and gives it back
unless `getsockname` fails (`LookupFails`); then it returns without `close()`, its object is
gone like any other, and its descriptor is in `leaked`, open and nobody's. `OnlyLookupsLeak` says
that these are all. `bind` and `connect` of a `SocketBC` are those of `SocketUDP`:
the class deletes overloads that take strings.

**PubSub** extends Sockets with `Publisher` and `Subscriber`. `publish()` is a
loop (`at[p]` is its position), and so is the part of `once()` that calls the
callbacks (`turn[s]`), so that loops of different threads interleave send by
send and call by call. `bind` and `connect` of a publisher register the address
first and report the result of the socket's `bind`, as in the code. `heard` and
`late` are history variables. **Topic** is the abstract specification: messages
are published, and each callback hears some of them, in order.

**Examples** puts the processes of `ps.cpp`, `rr.cpp` and `simple.cpp` on Sockets: an
object is here a process with its one socket, `role[o]` its argument, `pc[o]` where
its `main` is, `i[o]` the rounds of its loop. Only `simple.cpp` looks at what `socket()` and
`bind()` return; the others go on without a socket or a name. A receiver counts the
messages it takes, so that one it misses is one it waits for.

**RequestReply** is `Request` and `Reply` over UDP. A client is its `Request` object and
its address; `Request`, `RequestReturns` and `RequestTimesOut` are the sending
half of `request()` and the two ways its `recv` ends. The server's thread moves
through `once()` in the steps receive (with the test of the size and the early
return), call, and send (`spc`), so a crash, another request or another delivery
fits between any two. `Recvfrom` translates what happens to the size of a
message: the vector is made with `msg_size` elements and never resized. **Rpc** is
the abstract specification: ask, execute once, answer with the answer to it; there
`waiting` is gone, because a client waits when it has asked for more than it has got.
**LateRpc** is what is left of it when callers may give up: a call ends with nothing or with
an answer of the same client's that no other call returned, to no later call, and the callback has
run on it. RequestReply implements `Rpc` with blocking clients and `LateRpc` with
any, and UnixCalls implements `LateRpc`; two systems with different networks and different ways
to fail promise their callers the same.

RequestReply has a network and sockets of its own instead of those of Sockets:
its clients never bind, so of a socket only the buffer matters there, while
sizes, copies and senders do.

**UnixCalls** is `SocketUnix` under `Request` and `Reply`, with `once()` and `once(to)`. A server that
calls `once(to)` answers `to` whoever asks; the module assumes that then only that client is
started (the test `req_rep_unix` has no other), since any other would wait for answers that go to `to`.
What it says of several clients is said of `once()`.
`file[a]` says whether a name is absent, bound or a stale file that its dead owner has
left; `queue[a]` is what waits for a socket. `sendto` is a step that can be taken when the
queue has room and fails when nobody has the name. All programs may die, in the middle
of a call too; a user may remove a stale file. **UnixPubSub** extends it with `Publisher` and
`Subscriber`: a program chooses one `pattern`, and in the second the publisher is in the
server's place. `publish()` is again a loop that may stop at every `sendto`.

**PyUdpSocket** is `pymarko/udpsocket.py`: `Subscriber` and `Publisher`, or `Reply` and `Request`.
`cb` and `clientaddr` are one list each, for all objects, and a loop looks at its list
anew before each element. `sendto` of a long message sends its whole parts and then
raises `NameError` (`buffer` is not defined), out of its caller too: out of `publish` and
`request` (`Raises`), and, when it is the reply that is long, out of `Reply.loop` (`CallsLong`,
`RepliesPart`, `ReplyRaises`). What the message's other callbacks would have done is then
not done; the program ends, deletes the object or calls `loop` again. What a callback may
return is a constant (`Answers`). `recvfrom` returns `None` when the socket has a timeout and it
expires: `request` returns that (`RequestTimesOut`), and its answer, when it comes, stays in the
buffer.

## 3. The runs

| Run | Question | Bounds |
|---|---|---|
| `rr_blocking` | Do calls without a timeout get their own answers, with losses and server crashes? Does the system implement `Rpc`? Does a call return whose request is in the server's buffer? | 2 clients, 3 calls each, buffers of 2, empty and whole requests |
| `rr_timeout` | What is left of that with `settimeout`: no call executed twice, no answer returned twice or to another client. Does the system implement `LateRpc`? | 2 clients, 2 calls each |
| `rr_stale_reply` (violated) | Does each call get its own answer when there are timeouts? | 1 client, 2 calls |
| `sockets_lifecycle` | Descriptors, sharing of addresses, timeouts and what `info()` prints, in any order of calls | 1 `SocketUDP`, 1 `SocketBC`, 1 call of `get_host_ip`, 2 descriptors, 1 address |
| `sockets_available` (violated) | Does `available()` tell whether there is something to read? | 2 objects |
| `sockets_milliseconds` (violated) | Is a timeout as long as was asked for? | 1 object |
| `ps_order` | Order, agreement of callbacks, refinement of `Topic`, and that received messages are heard, across restarts | 1 publisher, 1 subscriber, 2 callbacks, 2 messages |
| `ps_shared` | How many copies of a message are heard when a publisher registers again and two subscribers share an address | 2 subscribers, 2 registrations, reordering |
| `ps_one_way` (violated) | Do a publisher's messages stay away from its own socket? | 1 publisher, 1 subscriber |
| `unix_sockets` | How far do calls get out of step? Do they implement `LateRpc`, and is none executed twice? Whom do the server and `publish()` wait for? Does a subscriber miss anything? What is a restarted server good for? | 2 clients with 2 calls each, or 2 subscribers and 2 messages; queues of 1; 2 deaths |
| `examples` | Which started processes end, with all their messages? | 3 processes in any roles, 2 descriptors, loops of 2 |
| `python` | Whose answers does a request get, and who hears what, with shared lists that grow, long messages, long replies and timeouts? Which callbacks were called when an exception ends a loop? | 2 `Subscriber` or `Reply` objects, 1 `Publisher` with 5 messages or `Request` with 3 calls, 2 addresses, 2 callbacks, one with short replies and one with long ones or none; no timeouts, or all with one |

**Why the bounds are enough.** The hazards need few participants: a stale or
misdirected answer needs two calls and two clients, a leaked or reused descriptor
needs a slot that passes to another object, so three takers of two descriptors; a
shared address needs two sockets; disorder and copies need two messages and two
sends of each. Buffers and wires hold one or two datagrams, which is enough for
one to be overtaken, to be dropped at a full buffer or to be left behind; a queue of
one message makes Unix senders wait as soon as they can. Two deaths are one and a
death after the restart. In `examples` three processes are two of one role and one of
the other, and the host may fail to give the third a socket. In `python` the five
messages are short, short, long, short and empty, so that a short one follows another
and a short one follows the long one; a second sending object does not fit into the time
of a run, and would share nothing but `clientaddr`, which already grows at any time. A
`Request` makes three calls, of which the third is long; a late answer needs two calls, the second of which finds
it. Two parts (`NUM`) of a long reply are one that this call takes and one that the next would.

The constants that are bounds (`MaxCalls`, `RcvBuf`, `MaxWire`, `MaxPub`, `MaxAddrs`,
`MaxDeaths`, `QLen`, `BufLen`, `MaxRequests`) are marked so in the modules. `RcvBuf`, `QLen` and `BufLen` are also real
limits of the kernel's. The theorems of section 4 hold for any number of everything.
No run has copies of datagrams in RequestReply (`Duplicating`); the theorem
`OwnReplyAlways` covers them.

`sockets_lifecycle` identifies states that differ only in what the last call
returned or printed (`VIEW WithoutResults`), which no guard reads. Symmetry is used only in
runs without liveness properties, over objects that the constants treat alike.
Deadlock is not checked: every thread may be waiting for a message that nobody
sends any more.

**Fairness.**
* `FairSpec` of RequestReply: the server's thread and waiting clients are scheduled, and
  the server calls `once()` as long as there are requests, as the loops of `test_rr.cpp`
  and `examples/rr.cpp` do; each client's datagrams are delivered if they are not
  lost. No client has to call and nobody has to restart the server.
* `FairPubSubSpec` only says that a thread that is inside `once()` goes on while it is
  not waiting for a message. Nobody has to call `once()` again, publish or deliver.
* `UnixSpec`: threads inside `once()`, `request()` and `publish()` are scheduled, and a subscriber's
  program calls `once()` again, as the loop in `test_ps.cpp` does. Nobody has to call, publish,
  die, bind or remove a file.
* `ExamplesSpec`: the user does start the processes, the host schedules each of them, and
  it carries the datagrams, none of which leaves the host.
* PyUdpSocket has safety properties only.

### Where the code disagrees with what is said of it

* `rr_stale_reply`: after a timeout, `request()` returns the late answer to the
  call before, and stays one answer behind (`request_reply.hpp:103`);
  `gtests/test_rr.cpp:48` expects the answer to each call.
* `sockets_available`: `available()` returns false when `select()` reports that
  the socket is ready (`socket.hpp:95`), and so never returns true for an open
  socket; `availableForWrite()` has the same test.
* `sockets_milliseconds`: `time.hpp:39` puts milliseconds where microseconds
  belong; `docs/notes.md:65` multiplies by 1000.
* `ps_one_way`: `connect()` of a publisher binds it to the address it sends to (`OneWay` is about
  publishers whose program called `connect` and not `bind`, which names its own address); if
  no subscriber has bound it yet, the publisher receives its own messages and
  the subscriber cannot bind.

Others need no run to be seen. `once()` compares the size of a vector that is always
`msg_size` long or empty (`socket_udp.hpp:31,49`), so the test at `request_reply.hpp:49`
lets short and long requests through. `register_cb` of a `Reply` replaces the callback, where
the comment at `gtests/test_rr.cpp:59` says there can be more than one. A server over
Unix sockets that is restarted is deaf (`DeafAfterDeath` states it as it is). In Python, `sendto`
raises `NameError` for every long message, `PublisherThread.listen` does for every call.

Two comments call the Unix variants broken without saying how: `// broke` after `ReplyUnix`
(`request_reply.hpp:77`) and `// requester - doesn't work` (`gtests/test_rr.cpp:74`). As they stand in
the code they do work under conditions, and `unix_sockets` says which: client and server have both
bound a name, and no file of an earlier process is in the way. Then `once()` and `once(to)` answer, and
the calls implement `LateRpc`. A client that has not bound has no name to answer to
(`OnceSends` with `NoName`), and a restarted program whose old file is still there is in the same place
(`DeafAfterDeath`). The comments name no behaviour that a run could refute, and are no finding.

## 4. The proofs

`tlapm` checks eight modules to the last leaf, for every value of the constants that
the named assumptions allow (`RRAssumption`; `SocketsAssumption` and
`NotOpenAssumption`; `InfoAssumption`; `PubSubAssumption`; `ExamplesAssumption`; `UnixAssumption` and
`UnixPubSubAssumption`; `UdpAssumption`). TLC evaluates the assumptions in the runs. Every safety
invariant and every refinement that a passing run checks is also a theorem.

**RequestReplyProofs**
* `Typing`: `Spec => []TypeOK`.
* `OneCallAlways`: if no client has a timeout and the network makes no copies,
  `OneCall` always holds. It is the inductive invariant, and it says why such a
  protocol without call numbers can work at all: a client's call is at one place
  at a time (on the wire, in the server's buffer, in `once()`, on the wire back, in
  the client's buffer), and whatever is about a client anywhere is about the call
  it is waiting in. `CallMatch` alone is not inductive: it says nothing of a
  stale datagram that has not been returned yet.
* `BlockingCallMatch`: hence `CallMatch`, for any number of clients, calls, losses
  and crashes.
* `ImplementsRpc`: under the same hypotheses, and if no callback returns an empty
  message (which `request()` cannot tell from a failure), the initial states of
  RequestReply are ones of `Rpc` and every step is a step of `Rpc` or a stutter.

**LateReplyProofs** is about what remains when clients do have timeouts.
* `OwnReplyAlways`: `OwnReply`, with losses, copies, reordering, late answers and
  crashes. The invariant `LateInv` adds to it that every datagram, wherever it is, is
  about a call that was made, comes from or goes to the client that made it, and if
  it is a reply, the call was executed (`Genuine`).
* `AtMostOnceAlways` and `NoReplyTwiceAlways`: without copies. A client that has given up
  may have many calls under way, so `OneCall` is no longer true of clients; it is
  of calls. `OnceInv` says that each call is at one place at most, the answers that were
  returned being one of the places, and that what still asks for an execution has not been
  executed.
* `ImplementsLateRpc`: hence RequestReply implements `LateRpc` if the network makes no copies. An
  answer in the buffer of a client is at no other place, so no call has returned it.

**SocketsProofs**
* `Typing` and `NoneLeaked`: `TypeOK /\ DescriptorsMatch` is inductive, and neither
  part is alone: options are set on the socket behind `fd[o]`, which is a socket
  only because descriptors and objects match. In Sockets every open descriptor has one
  live owner (`HeldOnce`, and no `Orphans`). The calls that change one socket in
  place share one lemma (`ChangeKept`).
* `SharedOnPurpose`: `SharingAsked` needs `ReuseIsAsked`, that `SO_REUSEPORT` is set
  only on the sockets of programs that asked for it, because `bind` looks at the
  option of sockets that were bound long before.
* `TimeoutsStay`: `TimeoutKept`, from the lemma `ForeverIsZero` that `get_time` returns
  the zero timeval for no argument but zero.
* The lemmas at its end say what each call does to the sockets and wires of all objects
  (`BindSocket`, `SendSocket`, `ReturnSocket`, `DeliverAny` and so on) and what is left of a wire
  when a datagram is taken out of its middle (`WithoutElements`). PubSubProofs and
  ExamplesProofs are built on them and look into no descriptor table themselves.

**SocketInfoProofs** carries these over to the steps that SocketInfo adds (`InfoTyping`,
`InfoSharedOnPurpose`, `InfoTimeoutsStay`): each is a step of Sockets, leaves
its variables alone, or is a failed lookup. `LeaksKnown` is `OnlyLookupsLeak`: the open descriptors without a
live owner are those of the calls of `get_host_ip` that have failed, and no others. `TruthTold` is `InfoTellsTruth`: the options behind a descriptor are those
its object's program wants, which is inductive because no two objects share a descriptor, and
the copy in `info` is the object's own as long as that has not closed it.

**PubSubProofs**
* `PubSubTyping` and `OnTopOfSockets`: `PubSubTypeOK`, and that every step of a publisher or a
  subscriber is a step of Sockets or leaves its variables alone: what is proved in
  SocketsProofs holds of `pub_sub.hpp` too.
* `InOrderAlways` and `ImplementsTopic`: `InOrder` and `RefinesTopic`, if the network keeps the
  order (`~Reordering`), no publisher registers an address twice (`RegisteredOnce`) and
  subscribers hear of one address (`AtOneAddress`: there is only one, or nobody is restarted).
  Each hypothesis is needed: without the last, a subscriber that moves from a quick address to
  a slow one hears a message again. `InOrder` speaks of the end of a message's way only; the
  invariant `OrderInv` orders all of it. What is in a callback's history is older than what
  `once()` holds, that is older than what is in the socket's buffer, that is older than what
  is on the wire, and all of it is older than what `publish()` has still to send there.
* `CallbacksAgreeAlways`: `CallbacksAgree`, from no hypothesis at all. It needs that a
  subscriber's callbacks differ, and that nobody waits for a message in the middle of calling
  them (`Waits`).
* `CopiesBoundedAlways`: `CopiesBounded`, with losses and reordering, if objects are constructed
  once (`~Restarts`: a new publisher has forgotten the addresses that what is still under way
  was sent to). What has been heard is no invariant by itself. `CopiesInv` counts
  all copies of a message, wherever they are (on a wire, in a buffer, with a subscriber that is
  still to call this callback, heard), and bounds them by the number of times `publish()`
  has sent it so far (`TimesSent`). Every step but a `sendto` of `publish()` maps the copies
  after it one to one into those before it (`MovedCopies`), and that `sendto` adds one.

**ExamplesProofs**
* `ExamplesTyping`: `ExamplesTypeOK`. `ProcInv` relates where a process is in its `main`, the
  rounds of its loop and what it has heard.
* `ResponsesMatchAlways`: `ResponsesMatch`, for any number of requesters and repliers, and also with
  losses and reordering, which the run leaves out. Requests and responses of `rr.cpp` carry
  no more than a number, and every replier answers to whatever comes. It works because a
  requester has no timeout (`Patient`), so that its request or the answer to it is at one place at
  a time (`OneAway`: on a wire, in a buffer, or in a replier's hand), is about the round the requester is in
  (`OfTheRound`), and comes back to a port that nobody else has (`HasOwnPort`).

**UnixPubSubProofs** is about UnixCalls too, whose steps are those of one of the patterns.
* `UnixTyping` and `UnixDeaf`: `UnixTypeOK` and `DeafAfterDeath`. Queues are in bounds and belong to
  sockets that have their name. A name that its owner has left behind stays stale until somebody
  removes the file, nobody can queue a message there, and a server that works on a message
  has its name.
* `UnixInStep` and `UnixBacklogged`: `InStep` and `Backlogged`. For each client the invariant
  looks along the line of its calls: those whose answers were returned, the answers in its queue,
  the job the server works on, the requests in the server's queue. Along that line the numbers of
  the calls rise (`InLine`), and every call has returned an answer, was given up or
  still runs (`ClientOK`). `InStep` is about the end of the line; `Backlogged`
  counts the positions in its middle.
* `UnixImplementsLateRpc` and `UnixAtMostOnce`: UnixCalls implements `LateRpc`, and `AtMostOnce`. Of what the
  refinement needs, the line of the calls gives that the answers a client finds are later than
  those it has returned. The rest is in `LateInv`: an answer was returned by a call that
  is over (`ReturnedAt`), and the callback has run only on calls that were sent and are no longer in
  the server's queue (`NotYetExecuted`). A client that dies in a call gives it up.
* `UnixNothingMissed`: `NothingMissed`. What a subscriber has heard, followed by what waits in its
  queue, is one sequence that only grows at its end while the subscriber lives; `publish()` has
  put into it everything that was due, except at the addresses its loop has not come to.

**PyUdpSocketProofs** is about loops over lists that others append to meanwhile. Its
invariant `UdpInv` says how far every loop has come: the callbacks that are still due
stand at the loop's position or later (`ServerOK`), the addresses a short message was sent to
include all that stand before it, and the list that `publish()` found is still at the front
of the list (`Sending`).
* `HeardByAllAlways` and `PublishReachesAlways` follow from it. For a loop that an exception has
  ended, the first needs that no callback stands in the list twice (`Different`): what is still
  due stands behind the callback whose reply was too long. For long messages the second needs
  that no address stands in its list twice (`Distinct`).
* `UdpTypeAlways`: `UdpTypeOK`.
* `OwnAnswersAlways` and `AnswersOnceAlways`: `OwnAnswers` and `AnswersOnce`. The invariant `OwnInv` is
  about each request, while one callback is registered, its replies are short and the caller has sent no
  long request: its datagram is at one place at a time, in a buffer or in the loop of a `Reply` that has
  not called its callback yet (`OneInBuffers`, `OneAtWork`), and nowhere unless it has been sent and
  no call has returned its answer (`Unanswered`). So no answer is returned twice, however late it is;
  and a caller that never gives up has all the answers to its earlier requests, so the one it takes is to
  its last. Others may send long requests, and time out.

**Only model-checked:** the liveness properties (`ServedCallReturns`, `ReceivedIsHeard`,
`ServerGoesOn`, `PublishEnds`, `SubscriberEnds`, `PairEnds`), which are out of the prover's reach. The
properties of the four violated runs do not hold.

## 5. What is not modelled, and the plan

Not modelled:
* queries that change nothing: `getsockname`, `get_hostname`;
* options that are numbers, which `info()` cuts to their low byte;
* copies of `Socket` objects (nobody makes them, but the implicit copy constructor would
  close a descriptor twice);
* `register_cb` from inside a callback or from another thread (no program does it);
* addresses of other hosts, the contents of messages, `msleep`;
* `PublisherThread` in Python: `Thread` is not imported, so `listen` raises `NameError`
  (`udpsocket.py:157`) before the thread that would change the shared list exists;
* `pymarko.transport` and `pymarko.ip`, which keep no state, and `pymarko.mcsocket`, whose
  classes call methods that they do not have;
* `bc.cpp` and `dev.cpp`, whose `main` is empty, `msg.cpp` and `regex.cpp`, which try a library and
  regular expressions.

The modules of the plan are written, and every safety property of the passing runs is proved.
Theorems that could follow: what is left of `InOrder` when a publisher registers an address
twice, and `CopiesBounded` for publishers that are restarted, in terms of all the addresses they
ever had.
