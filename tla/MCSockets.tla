------------------------------ MODULE MCSockets ------------------------------
(* Instances of Sockets for TLC. *)
EXTENDS Sockets, TLC

ObjectSymmetry == Permutations(Objects)
FdSymmetry == Permutations(Fds)
Symmetry == ObjectSymmetry \cup FdSymmetry

\* What a call has returned decides nothing that comes later.
WithoutResult == <<objs, fd, file, wire, inrecv, asked, shared>>

\* Arguments of settimeout(): half a second, and one that the kernel refuses.
Timeouts == {500, -500}

=============================================================================
