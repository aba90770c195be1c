------------------------------ MODULE MCPubSub ------------------------------
(* Instances of PubSub for TLC. *)
EXTENDS PubSub, TLC

\* The messages of a publisher are numbered.
Numbered == Pubs \X (1..MaxPub)

AllObjects == Pubs \cup Subs

\* An argument of settimeout().
HalfSecond == {500}
NoTimeouts == {}

Symmetry == Permutations(Fds) \cup Permutations(Callbacks) \cup Permutations(Subs)

=============================================================================
