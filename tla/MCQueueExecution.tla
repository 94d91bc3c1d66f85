-------------------------- MODULE MCQueueExecution --------------------------
(***************************************************************************)
(* Values for the constants of QueueExecution.                             *)
(***************************************************************************)
EXTENDS QueueExecution

CONSTANTS FRAGMENT, TRANSFER, e1

OneStage == {{s} : s \in Stage}
TwoFragment == [s \in Stage |-> IF s = FRAGMENT THEN 2 ELSE 1]
=============================================================================
