------------------------------ MODULE MCBoard -------------------------------
(* Queues of two bytes, of which four come; a greeting of two bytes.       *)
(* Entries that do harm (~precise) only in one kind of build.              *)
EXTENDS Board

MCBytes     == SUBSET {0, 1}
MCArriving  == <<{0}, {}, {1}, {0, 1}>>
MCJunk      == {{7}}
MCHello     == <<{0}, {}>>
MCResponses == {<<{0, 1}>>, <<{0}, {1}, {}, {0, 1}>>}

MCInit == BoardInit /\ (precise \/ (reload = "each" /\ ~spaced))
MCSpec == MCInit /\ [][Next]_vars /\ Fairness
=============================================================================
