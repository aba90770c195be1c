--------------------------------- MODULE Rpc ---------------------------------
(***************************************************************************)
(* What Request::request and Reply::once promise a caller that waits for   *)
(* as long as it takes: a client has one call outstanding, the callback    *)
(* runs on that call at most once, and the call returns the answer to      *)
(* itself, after the callback has run.  There is no network here, no       *)
(* server process and no bound on the calls; RequestReply is shown to      *)
(* implement this module.                                                  *)
(***************************************************************************)
EXTENDS Naturals, Sequences

CONSTANT Clients    \* the Request objects

VARIABLES asked,    \* asked[c]: the number of calls client c has begun
          done,     \* the calls the callback has run on
          answers   \* answers[c][i]: the call whose answer its i-th call returned

vars == <<asked, done, answers>>

\* The call client c is in, if it is in one.
Current(c) == <<c, asked[c]>>
Outstanding(c) == asked[c] = Len(answers[c]) + 1

Init == /\ asked = [c \in Clients |-> 0]
        /\ done = {}
        /\ answers = [c \in Clients |-> <<>>]

Ask(c) == /\ asked[c] = Len(answers[c])
          /\ asked' = [asked EXCEPT ![c] = @ + 1]
          /\ UNCHANGED <<done, answers>>

Execute(c) == /\ Outstanding(c)
              /\ Current(c) \notin done
              /\ done' = done \cup {Current(c)}
              /\ UNCHANGED <<asked, answers>>

Answer(c) == /\ Outstanding(c)
             /\ Current(c) \in done
             /\ answers' = [answers EXCEPT ![c] = Append(@, Current(c))]
             /\ UNCHANGED <<asked, done>>

Next == \E c \in Clients : Ask(c) \/ Execute(c) \/ Answer(c)

Spec == Init /\ [][Next]_vars

=============================================================================
