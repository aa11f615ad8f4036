------------------------------ MODULE EventFeed ------------------------------
(***************************************************************************)
(* What the external bus promises a consumer of each of its outputs:        *)
(* payloads may be lost, but those that arrive do so in the order in which  *)
(* they were published and none arrives twice.                              *)
(***************************************************************************)
EXTENDS Naturals, Sequences, SequencesExt

CONSTANT Topics
VARIABLES said,  \* per topic, how many payloads were handed over
          heard  \* per topic, the numbers of those that reached the consumers

Init == said = [t \in Topics |-> 0] /\ heard = [t \in Topics |-> <<>>]

Say(t) == said' = [said EXCEPT ![t] = @ + 1] /\ UNCHANGED heard

Newest(t) == IF heard[t] = <<>> THEN 0 ELSE Last(heard[t])

Hear(t) == /\ \E n \in Newest(t) + 1 .. said[t] : heard' = [heard EXCEPT ![t] = Append(@, n)]
           /\ UNCHANGED said

Next == \E t \in Topics : Say(t) \/ Hear(t)

Spec == Init /\ [][Next]_<<said, heard>>
=============================================================================
