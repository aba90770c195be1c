--------------------------- MODULE MCRequestReply ---------------------------
(* Instances of RequestReply for TLC. *)
EXTENDS RequestReply, TLC

\* Clients are interchangeable: each makes the same number of calls.
ClientSymmetry == Permutations(Clients)

\* How many calls each client makes.
TwoCalls == [c \in Clients |-> 2]
ThreeCalls == [c \in Clients |-> 3]

=============================================================================
