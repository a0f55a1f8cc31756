--------------------------- MODULE MCDurableStore ---------------------------
(* Small instances of DurableStore: two docs; docs that are put in batches *)
(* and restored, and docs whose writes may fail.                           *)
EXTENDS DurableStore

CONSTANTS d1, d2

Batches == [versions |-> 1, fails |-> FALSE, regresses |-> TRUE,
            toggles |-> TRUE, restarts |-> 1]
Failures == [versions |-> 0, fails |-> TRUE, regresses |-> FALSE,
             toggles |-> FALSE, restarts |-> 0]
Both == {Batches, Failures}
=============================================================================
