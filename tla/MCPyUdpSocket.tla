--------------------------- MODULE MCPyUdpSocket ---------------------------
(* Instances of PyUdpSocket for TLC. *)
EXTENDS PyUdpSocket, TLC

CONSTANT ShortCb  \* the callback whose replies are short

\* What a caller sends, one after the other.
Messages == [x \in Callers |-> <<"short", "short", "long", "short", "empty">>]

\* No object has a timeout, or every one has.
AllOrNone == {{}, Servers \cup Callers}

\* f always answers, g sometimes, and then with too much.
AnswersOf == [x \in Callbacks |-> IF x = ShortCb THEN {"short"} ELSE {"none", "long"}]

Symmetry == Permutations(Servers) \cup Permutations(Addrs)

=============================================================================
