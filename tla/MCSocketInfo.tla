---------------------------- MODULE MCSocketInfo ----------------------------
(* Instances of SocketInfo for TLC. *)
EXTENDS SocketInfo, TLC

AllObjects == UDPs \cup BCs \cup Lookups

Symmetry == Permutations(Fds)

\* What a call has returned, or printed, decides nothing that comes later.
WithoutResults == <<objs, fd, file, wire, inrecv, asked, shared, opts, want, info, leaked>>

\* Arguments of settimeout(): half a second, and one that the kernel refuses.
Timeouts == {500, -500}

=============================================================================
