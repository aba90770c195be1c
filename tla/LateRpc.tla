------------------------------- MODULE LateRpc -------------------------------
(***************************************************************************)
(* What is left of Rpc for callers that may give up: after a timeout, or   *)
(* when the caller or the server has died.  A call ends without an answer, *)
(* or with an answer to a call of the same client that is not a later one, *)
(* that the callback has run on, and whose answer no other call has        *)
(* returned.  A call may be executed long after it has ended.              *)
(* RequestReply and UnixCalls both implement this module.  (That the       *)
(* callback does not run on a call again, which the set `done` would not   *)
(* show, is AtMostOnce of both.)                                           *)
(***************************************************************************)
EXTENDS Naturals, Sequences

CONSTANT Clients    \* the Request objects

VARIABLES asked,    \* asked[c]: the number of calls client c has begun
          done,     \* the calls the callback has run on
          ends      \* ends[c][i]: how the i-th call of c ended, with the answer to
                    \* which call or with Nothing

vars == <<asked, done, ends>>

Nothing == <<>>

Outstanding(c) == asked[c] = Len(ends[c]) + 1
EndsWith(c, x) == Outstanding(c) /\ ends' = [ends EXCEPT ![c] = Append(@, x)]

Init == /\ asked = [c \in Clients |-> 0]
        /\ done = {}
        /\ ends = [c \in Clients |-> <<>>]

Ask(c) == /\ asked[c] = Len(ends[c])
          /\ asked' = [asked EXCEPT ![c] = @ + 1]
          /\ UNCHANGED <<done, ends>>

Execute(c, k) == /\ k \in 1..asked[c]
                 /\ <<c, k>> \notin done
                 /\ done' = done \cup {<<c, k>>}
                 /\ UNCHANGED <<asked, ends>>

Answer(c, k) == /\ k \in 1..asked[c]
                /\ <<c, k>> \in done
                /\ \A i \in DOMAIN ends[c] : ends[c][i] # <<c, k>>
                /\ EndsWith(c, <<c, k>>)
                /\ UNCHANGED <<asked, done>>

GiveUp(c) == EndsWith(c, Nothing) /\ UNCHANGED <<asked, done>>

Next == \E c \in Clients :
          \/ Ask(c) \/ GiveUp(c)
          \/ \E k \in 1..asked[c] : Execute(c, k) \/ Answer(c, k)

Spec == Init /\ [][Next]_vars

=============================================================================
