--------------------------- MODULE MCQueueTracker ---------------------------
(***************************************************************************)
(* Values for the constants of QueueTracker and the modules that extend    *)
(* it.  The stages are those of QueueTracker::Stage.                       *)
(***************************************************************************)
EXTENDS QueueTrackerRefinement, QueueTrackerLoops

CONSTANTS COMPUTE, GEOMETRY, FRAGMENT, TRANSFER

ExclusiveStages == {COMPUTE, GEOMETRY, FRAGMENT}
InOrder == <<COMPUTE, GEOMETRY, FRAGMENT>>
NoneOneOrAll == {{}, Stage} \cup {{s} : s \in Stage}
TwoFragment == [s \in Stage |-> IF s = FRAGMENT THEN 2 ELSE 1]
GeometryAndCompute == {{GEOMETRY, COMPUTE}}
=============================================================================
