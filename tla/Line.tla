-------------------------------- MODULE Line --------------------------------
(***************************************************************************)
(* What a pair of UARTs promises: words arrive whole, in the order they    *)
(* were sent, at the end of a line that holds one word for its consumer.   *)
(* A word the consumer leaves there is replaced by the next one.           *)
(***************************************************************************)
EXTENDS Sequences, Naturals

CONSTANT Word

VARIABLES
    inTransit,      \* words sent that have not arrived
    held            \* the word at the end: a sequence of at most one

vars == <<inTransit, held>>

Nothing == {<<>>}
One     == {<<w>> : w \in Word}

(* In one cycle a word may be sent, and the held one may be taken.         *)
Quiet ==
    /\ \E new \in Nothing \cup One : inTransit' = inTransit \o new
    /\ held' \in {held, <<>>}

Arrive ==
    /\ inTransit # <<>>
    /\ held' = <<Head(inTransit)>>
    /\ \E new \in Nothing \cup One : inTransit' = Tail(inTransit) \o new

Init == inTransit = <<>> /\ held = <<>>

Spec == Init /\ [][Quiet \/ Arrive]_vars

(* And every word that is sent arrives. *)
FairSpec == Spec /\ WF_vars(Arrive)
=============================================================================
