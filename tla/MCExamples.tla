----------------------------- MODULE MCExamples -----------------------------
(* Instances of Examples for TLC. *)
EXTENDS Examples, TLC

Numbered == Objects \X (1..LOOP)
NoTimeouts == {}

=============================================================================
