---------------------------- MODULE PyUdpSocket ----------------------------
(***************************************************************************)
(* pymarko/udpsocket.py: Subscriber and Publisher, or Reply and Request.   *)
(*                                                                         *)
(* The receiving objects live in one Python process and the sending ones   *)
(* in another, every object with a thread.  The lists cb and clientaddr    *)
(* are attributes of the classes, so the objects of a process share them,  *)
(* and a for loop looks at the list again before every element.            *)
(*                                                                         *)
(* All are on one host: a datagram is in its receiver's buffer when        *)
(* sendto() returns, or is dropped.  A program may have given the sockets  *)
(* of some objects a timeout, with socket.sock.settimeout(): recvfrom()    *)
(* returns None when it expires before anything has come.                  *)
(***************************************************************************)
EXTENDS Naturals, Sequences, FiniteSets

CONSTANTS
  Kinds,      \* the pairs of classes: "ps" (Subscriber, Publisher), "rr" (Reply, Request)
  Servers,    \* the Subscriber or Reply objects
  Callers,    \* the Publisher or Request objects
  Addrs,      \* the addresses they bind and send to
  NoAddr,     \* the address of a socket without one
  Callbacks,  \* the functions passed to register_cb
  Answers,    \* Answers[f], what callback f may return: "none" (None), "short",
              \* or "long" (more than MAX_PACKET_SIZE)
  Timeouts,   \* the sets of objects that have a timeout
  Sizes,      \* Sizes[c][n], of the n-th message of c: "empty", "short", or
              \* "long" (more than MAX_PACKET_SIZE)
  MaxRequests,\* bound: calls of request() that a Request makes
  NUM,        \* the whole parts a long message has
  BufLen      \* bound: datagrams a receive buffer holds

Size(c, n) == Sizes[c][n]

ASSUME UdpAssumption ==
  /\ Kinds \subseteq {"ps", "rr"}
  /\ Servers \cap Callers = {}
  /\ NoAddr \notin Addrs
  /\ Answers \in [Callbacks -> SUBSET {"none", "short", "long"}]
  /\ \A objs \in Timeouts : objs \subseteq Servers \cup Callers
  /\ Sizes \in [Callers -> Seq({"empty", "short", "long"})]
  /\ MaxRequests \in Nat /\ NUM \in Nat \ {0} /\ BufLen \in Nat

VARIABLES
  kind,      \* the classes of this program
  timed,     \* the objects whose sockets have a timeout
  cb,        \* Subscriber.cb or Reply.cb
  addr,      \* addr[s]: bind_addr of server s
  event,     \* event[s]: its loop is to go on
  at,        \* at[o]: where o's thread is
  mail,      \* mail[o]: the receive buffer of o's socket
  got,       \* got[s]: the datagram the loop of s is working on
  turn,      \* turn[s]: the position of the callback that is next
  replied,   \* replied[s]: the parts of a long reply that have been sent
  clientaddr,\* Publisher.clientaddr
  sent,      \* sent[c]: how many times c has called publish() or request()
  to,        \* to[c]: the addresses that call goes to
  next,      \* next[c]: the position of the one that is next
  part,      \* part[c]: the parts of a long message it has been sent
  answers,   \* history: answers[c], the requests whose answers request() has
             \* returned to c; NoDatagram for None
  due,       \* history: due[s], the callbacks there were when s took got[s] and
             \* that have not been called with it
  reached    \* history: reached[c], the addresses the last call has sent to

serverVars == <<cb, addr, event, got, turn, replied, due>>
callerVars == <<clientaddr, sent, to, next, part, answers, reached>>
vars == <<kind, timed, at, mail, serverVars, callerVars>>

Objects == Servers \cup Callers
Datagrams == UNION {[from : {c}, n : DOMAIN Sizes[c]] : c \in Callers}
NoDatagram == [from |-> NoAddr, n |-> 0]

Init ==
  /\ kind \in Kinds
  /\ timed \in Timeouts
  /\ cb = <<>>
  /\ addr = [s \in Servers |-> NoAddr]
  /\ event = [s \in Servers |-> TRUE]
  /\ at = [o \in Objects |-> IF o \in Servers THEN "off" ELSE "idle"]
  /\ mail = [o \in Objects |-> <<>>]
  /\ got = [s \in Servers |-> NoDatagram]
  /\ turn = [s \in Servers |-> 0]
  /\ replied = [s \in Servers |-> 0]
  /\ clientaddr = <<>>
  /\ sent = [c \in Callers |-> 0]
  /\ to = [c \in Callers |-> <<>>]
  /\ next = [c \in Callers |-> 0]
  /\ part = [c \in Callers |-> 0]
  /\ answers = [c \in Callers |-> <<>>]
  /\ due = [s \in Servers |-> {}]
  /\ reached = [c \in Callers |-> {}]

Goto(o, place) == at' = [at EXCEPT ![o] = place]

\* The datagram is in o's buffer, or lost because that is full.
Put(o, d) == mail' = IF Len(mail[o]) < BufLen
                     THEN [mail EXCEPT ![o] = Append(@, d)] ELSE mail

\* sendto(a): whoever has the address gets it, or nobody.
PutAt(a, d) ==
  IF \E s \in Servers : addr[s] = a
  THEN \E s \in Servers : addr[s] = a /\ Put(s, d)
  ELSE UNCHANGED mail

-----------------------------------------------------------------------------
(***************************************************************************)
(* Subscriber and Reply.                                                   *)
(***************************************************************************)

\* Reply(addr), or Subscriber() and bind(); bind() raises when somebody has
\* the address.
ServerStarts(s, a) ==
  /\ at[s] = "off"
  /\ \A t \in Servers : addr[t] # a
  /\ addr' = [addr EXCEPT ![s] = a]
  /\ event' = [event EXCEPT ![s] = TRUE]
  /\ Goto(s, "idle")
  /\ UNCHANGED <<kind, timed, mail, cb, got, turn, replied, due, callerVars>>

\* register_cb() of any of the objects, from any thread, at any time.
RegisterCb(s, f) ==
  /\ at[s] # "off"
  /\ \A k \in DOMAIN cb : cb[k] # f
  /\ cb' = Append(cb, f)
  /\ UNCHANGED <<kind, timed, at, mail, addr, event, got, turn, replied, due, callerVars>>

\* while self.event:
Loops(s) ==
  /\ at[s] = "idle" \/ (at[s] = "calls" /\ turn[s] > Len(cb))
  /\ Goto(s, IF event[s] THEN "recv" ELSE "over")
  /\ turn' = [turn EXCEPT ![s] = 0]
  /\ got' = [got EXCEPT ![s] = NoDatagram]
  /\ UNCHANGED <<kind, timed, mail, cb, addr, event, replied, due, callerVars>>

Receives(s) ==
  /\ at[s] = "recv" /\ mail[s] # <<>>
  /\ mail' = [mail EXCEPT ![s] = Tail(@)]
  /\ LET d == Head(mail[s])
     IN IF Size(d.from, d.n) = "empty"
        THEN Goto(s, "idle") /\ UNCHANGED <<got, turn, due>>
        ELSE /\ Goto(s, "calls")
             /\ got' = [got EXCEPT ![s] = d]
             /\ turn' = [turn EXCEPT ![s] = 1]
             /\ due' = [due EXCEPT ![s] = {cb[k] : k \in DOMAIN cb}]
  /\ UNCHANGED <<kind, timed, cb, addr, event, replied, callerVars>>

\* The socket's timeout expires before anything has come.
ReceivesNothing(s) ==
  /\ at[s] = "recv" /\ s \in timed /\ mail[s] = <<>>
  /\ Goto(s, "idle")
  /\ UNCHANGED <<kind, timed, mail, serverVars, callerVars>>

\* What the loop gets from a callback; a Subscriber does not look at it.
Returns(f) == IF kind = "rr" THEN Answers[f] ELSE {"none"}

\* A reply that is one datagram, or none.
Replies(r, d) == IF r = "short" THEN Put(d.from, d) ELSE UNCHANGED mail

\* for callback in self.cb: the next one is called with got[s], and returns r.
Called(s, r) ==
  /\ at[s] = "calls" /\ turn[s] <= Len(cb)
  /\ r \in Returns(cb[turn[s]])
  /\ due' = [due EXCEPT ![s] = @ \ {cb[turn[s]]}]

Calls(s) ==
  /\ \E r \in {"none", "short"} : Called(s, r) /\ Replies(r, got[s])
  /\ turn' = [turn EXCEPT ![s] = @ + 1]
  /\ UNCHANGED <<kind, timed, at, cb, addr, event, got, replied, callerVars>>

\* A long reply: sendto() sends its whole parts one after the other; then the
\* NameError leaves sendto(), the loop over the callbacks and loop() itself.
CallsLong(s) ==
  /\ Called(s, "long")
  /\ Goto(s, "replies")
  /\ UNCHANGED <<kind, timed, mail, cb, addr, event, got, turn, replied, callerVars>>

RepliesPart(s) ==
  /\ at[s] = "replies" /\ replied[s] < NUM
  /\ Put(got[s].from, got[s])
  /\ replied' = [replied EXCEPT ![s] = @ + 1]
  /\ UNCHANGED <<kind, timed, at, cb, addr, event, got, turn, due, callerVars>>

\* (Mutant: the exception ends the message and not the loop.)
RaiseSwallowed(s) ==
  /\ at[s] = "replies" /\ replied[s] = NUM
  /\ Goto(s, "idle")
  /\ replied' = [replied EXCEPT ![s] = 0]
  /\ UNCHANGED <<kind, timed, mail, cb, addr, event, got, turn, due, callerVars>>

ReplyRaises(s) ==
  /\ at[s] = "replies" /\ replied[s] = NUM
  /\ Goto(s, "raised")
  /\ replied' = [replied EXCEPT ![s] = 0]
  /\ UNCHANGED <<kind, timed, mail, cb, addr, event, got, turn, due, callerVars>>

\* Nothing is left of the message, whoever has not been called with it.
Forgets(s) ==
  /\ got' = [got EXCEPT ![s] = NoDatagram]
  /\ turn' = [turn EXCEPT ![s] = 0]
  /\ due' = [due EXCEPT ![s] = {}]

\* The program catches the exception and calls loop() again.
LoopsAgain(s) ==
  /\ at[s] = "raised"
  /\ Goto(s, "idle")
  /\ Forgets(s)
  /\ UNCHANGED <<kind, timed, mail, cb, addr, event, replied, callerVars>>

\* The program sets event to False; the loop sees it after its next message.
Stops(s) ==
  /\ at[s] # "off" /\ event[s]
  /\ event' = [event EXCEPT ![s] = FALSE]
  /\ UNCHANGED <<kind, timed, at, mail, cb, addr, got, turn, replied, due, callerVars>>

\* (Mutant: __del__ does not close the socket.)
ServerEndsOpen(s) ==
  /\ at[s] \in {"over", "raised"}
  /\ Goto(s, "off")
  /\ Forgets(s)
  /\ UNCHANGED <<kind, timed, mail, cb, addr, event, replied, callerVars>>

\* __del__ closes the socket.  The callbacks stay in the list of the class.
ServerEnds(s) ==
  /\ at[s] \in {"over", "raised"}
  /\ Goto(s, "off")
  /\ Forgets(s)
  /\ addr' = [addr EXCEPT ![s] = NoAddr]
  /\ mail' = [mail EXCEPT ![s] = <<>>]
  /\ UNCHANGED <<kind, timed, cb, event, replied, callerVars>>

-----------------------------------------------------------------------------
(***************************************************************************)
(* Publisher and Request.                                                  *)
(***************************************************************************)

\* clientaddr.append() of any publisher, at any time.
AddClient(a) ==
  /\ kind = "ps"
  /\ \A k \in DOMAIN clientaddr : clientaddr[k] # a
  /\ clientaddr' = Append(clientaddr, a)
  /\ UNCHANGED <<kind, timed, at, mail, serverVars, sent, to, next, part, answers, reached>>

Begins(c) ==
  /\ at[c] = "idle" /\ sent[c] < Len(Sizes[c])
  /\ sent' = [sent EXCEPT ![c] = @ + 1]
  /\ next' = [next EXCEPT ![c] = 1]
  /\ part' = [part EXCEPT ![c] = 0]
  /\ reached' = [reached EXCEPT ![c] = {}]
  /\ Goto(c, "sends")
  /\ UNCHANGED <<kind, timed, mail, serverVars, clientaddr, answers>>

\* `to` holds the addresses there were when publish() began, for the history;
\* the loop goes through the list of the class as it is.
Publish(c) == kind = "ps" /\ Begins(c) /\ to' = [to EXCEPT ![c] = clientaddr]
Request(c, a) ==
  kind = "rr" /\ sent[c] < MaxRequests /\ Begins(c) /\ to' = [to EXCEPT ![c] = <<a>>]

Targets(c) == IF kind = "ps" THEN clientaddr ELSE to[c]
IsLong(c) == sent[c] > 0 /\ Size(c, sent[c]) = "long"

SendsOne(c) ==
  /\ at[c] = "sends" /\ next[c] <= Len(Targets(c))
  /\ LET a == Targets(c)[next[c]]
     IN /\ PutAt(a, [from |-> c, n |-> sent[c]])
        /\ reached' = [reached EXCEPT ![c] = @ \cup {a}]
  /\ UNCHANGED <<kind, timed, serverVars, clientaddr, sent, to, answers>>

\* (Mutant: the loop of publish() is left after the first address.)
SendsFirst(c) ==
  /\ ~IsLong(c)
  /\ SendsOne(c)
  /\ next' = [next EXCEPT ![c] = Len(Targets(c)) + 1]
  /\ UNCHANGED <<at, part>>

SendsShort(c) ==
  /\ ~IsLong(c)
  /\ SendsOne(c)
  /\ next' = [next EXCEPT ![c] = @ + 1]
  /\ UNCHANGED <<at, part>>

SendsPart(c) ==
  /\ IsLong(c) /\ part[c] < NUM
  /\ SendsOne(c)
  /\ part' = [part EXCEPT ![c] = @ + 1]
  /\ UNCHANGED <<at, next>>

\* After the whole parts: NameError, out of sendto() and its caller.
Raises(c) ==
  /\ at[c] = "sends" /\ part[c] = NUM
  /\ Goto(c, "idle")
  /\ UNCHANGED <<kind, timed, mail, serverVars, callerVars>>

\* publish() returns, request() goes on to recvfrom().
SendsNoMore(c) ==
  /\ at[c] = "sends" /\ next[c] > Len(Targets(c))
  /\ Goto(c, IF kind = "rr" THEN "recv" ELSE "idle")
  /\ UNCHANGED <<kind, timed, mail, serverVars, callerVars>>

\* (Mutant: the answer is left in the buffer.)
RequestPeeks(c) ==
  /\ at[c] = "recv" /\ mail[c] # <<>>
  /\ answers' = [answers EXCEPT ![c] = Append(@, Head(mail[c]))]
  /\ Goto(c, "idle")
  /\ UNCHANGED <<kind, timed, mail, serverVars, clientaddr, sent, to, next, part, reached>>

RequestReturns(c) ==
  /\ at[c] = "recv" /\ mail[c] # <<>>
  /\ mail' = [mail EXCEPT ![c] = Tail(@)]
  /\ answers' = [answers EXCEPT ![c] = Append(@, Head(mail[c]))]
  /\ Goto(c, "idle")
  /\ UNCHANGED <<kind, timed, serverVars, clientaddr, sent, to, next, part, reached>>

\* (Mutant: request() tries again.)
RequestResends(c) ==
  /\ at[c] = "recv" /\ c \in timed /\ mail[c] = <<>>
  /\ next' = [next EXCEPT ![c] = 1]
  /\ Goto(c, "sends")
  /\ UNCHANGED <<kind, timed, mail, serverVars, clientaddr, sent, to, part, answers, reached>>

\* The timeout expires: request() returns None.
RequestTimesOut(c) ==
  /\ at[c] = "recv" /\ c \in timed /\ mail[c] = <<>>
  /\ answers' = [answers EXCEPT ![c] = Append(@, NoDatagram)]
  /\ Goto(c, "idle")
  /\ UNCHANGED <<kind, timed, mail, serverVars, clientaddr, sent, to, next, part, reached>>

-----------------------------------------------------------------------------
Server(s) == \/ \E a \in Addrs : ServerStarts(s, a)
             \/ \E f \in Callbacks : RegisterCb(s, f)
             \/ Loops(s) \/ Receives(s) \/ ReceivesNothing(s)
             \/ Calls(s) \/ CallsLong(s) \/ RepliesPart(s) \/ ReplyRaises(s)
             \/ LoopsAgain(s) \/ Stops(s) \/ ServerEnds(s)

Caller(c) == \/ Publish(c) \/ SendsShort(c) \/ SendsPart(c) \/ Raises(c)
             \/ SendsNoMore(c) \/ RequestReturns(c) \/ RequestTimesOut(c)
             \/ \E a \in Addrs : Request(c, a)

Next == \/ \E s \in Servers : Server(s)
        \/ \E c \in Callers : Caller(c)
        \/ \E a \in Addrs : AddClient(a)

Spec == Init /\ [][Next]_vars

-----------------------------------------------------------------------------
\* UdpTypeOK: the types, and where the threads are in their loops.
UdpTypeOK ==
  /\ cb \in Seq(Callbacks) /\ clientaddr \in Seq(Addrs)
  /\ timed \subseteq Objects
  /\ \A s \in Servers :
       /\ at[s] \in {"off", "idle", "recv", "calls", "replies", "raised", "over"}
       /\ addr[s] \in Addrs \cup {NoAddr} /\ (addr[s] = NoAddr <=> at[s] = "off")
       /\ mail[s] \in Seq(Datagrams) /\ (at[s] = "off" => mail[s] = <<>>)
       /\ at[s] = "calls" => got[s] \in Datagrams /\ turn[s] \in 1..Len(cb) + 1
       /\ at[s] \in {"replies", "raised"} => got[s] \in Datagrams /\ turn[s] \in DOMAIN cb
       /\ replied[s] \in 0..NUM /\ event[s] \in BOOLEAN
  /\ \A c \in Callers :
       /\ at[c] \in {"idle", "sends", "recv"}
       /\ sent[c] \in 0..Len(Sizes[c]) /\ part[c] \in 0..NUM
       /\ next[c] \in 0..Len(Targets(c)) + 1
       /\ mail[c] \in Seq(Datagrams)
       /\ answers[c] \in Seq(Datagrams \cup {NoDatagram}) /\ Len(answers[c]) <= sent[c]

(***************************************************************************)
(* OwnAnswers: as long as one callback is registered with all the Reply    *)
(* objects of the process together, and neither a request nor what that    *)
(* callback returns is too long, the answers request() returns are to the  *)
(* requests they are returned from, if the Request has no timeout.         *)
(* (A second callback answers every request a second time; a long request  *)
(* is answered once for every part, and a long reply is as many answers as *)
(* it has parts; those that are not taken stay behind for later calls.)    *)
(***************************************************************************)
NoneLong(c) == \A n \in 1..sent[c] : Size(c, n) # "long"

OneShort == Len(cb) <= 1 /\ \A k \in DOMAIN cb : "long" \notin Answers[cb[k]]

OwnAnswers ==
  OneShort => \A c \in Callers \ timed : NoneLong(c) =>
    \A k \in DOMAIN answers[c] : answers[c][k] = [from |-> c, n |-> k]

(***************************************************************************)
(* AnswersOnce: where request() may time out, it returns None or the       *)
(* answer to a request of its own, this one or an earlier one that timed   *)
(* out; and no answer is returned twice, in whatever calls the late ones   *)
(* are found.                                                              *)
(***************************************************************************)
AnswersOnce ==
  OneShort => \A c \in Callers : NoneLong(c) =>
    \A k \in DOMAIN answers[c] : answers[c][k] # NoDatagram =>
      /\ answers[c][k].from = c /\ answers[c][k].n \in 1..k
      /\ \A j \in DOMAIN answers[c] : answers[c][j] = answers[c][k] => j = k

(***************************************************************************)
(* HeardByAll: when the loop of an object is through with a message, every *)
(* callback that had been registered, with whichever object of the class,  *)
(* has been called with it, while others were registered and other loops   *)
(* went through the same list.  A loop that an exception ends has got as   *)
(* far as a callback with too long a reply: those before it and itself     *)
(* have been called, and nobody else will be.                              *)
(***************************************************************************)
HeardByAll ==
  \A s \in Servers :
    /\ at[s] \in {"recv", "over"} => due[s] = {}
    /\ at[s] = "raised" =>
         /\ "long" \in Returns(cb[turn[s]])
         /\ \A k \in 1..turn[s] : cb[k] \notin due[s]

(***************************************************************************)
(* PublishReaches: when publish() is over, a message that is not too long  *)
(* has been sent to every address there was when it began, whatever other  *)
(* threads did to the list; one that is has been sent to the first address *)
(* and to no other.                                                        *)
(***************************************************************************)
PublishReaches ==
  \A c \in Callers : at[c] = "idle" /\ sent[c] > 0 =>
    IF IsLong(c)
    THEN \A k \in DOMAIN Targets(c) : Targets(c)[k] \in reached[c] => k = 1
    ELSE \A k \in DOMAIN to[c] : to[c][k] \in reached[c]

=============================================================================
