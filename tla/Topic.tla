-------------------------------- MODULE Topic --------------------------------
(***************************************************************************)
(* What Publisher and Subscriber promise: a callback hears messages that   *)
(* were published, those of one publisher in the order in which they were  *)
(* published, and none twice.  It may miss any of them.  PubSub is shown   *)
(* to implement this module.                                               *)
(***************************************************************************)
EXTENDS Naturals, Sequences

CONSTANTS Pubs,    \* the publishers
          Ears     \* the callbacks, each of one subscriber

VARIABLES published,  \* published[p]: how many messages p has published
          heard       \* heard[e]: the messages <<p, k>> callback e was called with

vars == <<published, heard>>

Init == /\ published = [p \in Pubs |-> 0]
        /\ heard = [e \in Ears |-> <<>>]

Publish(p) == /\ published' = [published EXCEPT ![p] = @ + 1]
              /\ UNCHANGED heard

\* Message k of publisher p comes after all that e has heard of p.
News(e, p, k) ==
  \A i \in DOMAIN heard[e] : heard[e][i][1] = p => heard[e][i][2] < k

Hear(e, p, k) == /\ k \in 1..published[p]
                 /\ News(e, p, k)
                 /\ heard' = [heard EXCEPT ![e] = Append(@, <<p, k>>)]
                 /\ UNCHANGED published

Next == \/ \E p \in Pubs : Publish(p)
        \/ \E e \in Ears, p \in Pubs : \E k \in 1..published[p] : Hear(e, p, k)

Spec == Init /\ [][Next]_vars

=============================================================================
