---------------------- MODULE MCQueueEventsInheritance ----------------------
(***************************************************************************)
(* Values for the constants of QueueEventsInheritance.                     *)
(***************************************************************************)
EXTENDS QueueEventsInheritance

CONSTANTS GEOMETRY, FRAGMENT, TRANSFER, e1

ThreeStages == {GEOMETRY, FRAGMENT, TRANSFER}
AnyStages == (SUBSET Stage) \ {{}}
OneEach == [s \in Stage |-> 1]
=============================================================================
