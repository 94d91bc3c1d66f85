----------------------- MODULE MCRecordingHeuristics -----------------------
(* Two render passes (a plain one, and a loading one of two subpasses), a  *)
(* depth-only and a depth-equal pipeline, and draws of less than two       *)
(* indices (the limit of small draws), of exactly two, of three and of     *)
(* four, which wrap around to none in two bits.                            *)
EXTENDS RecordingHeuristicsHistory

Plain == [subpasses |-> 1, aspects |-> {"color", "depth"}, loads |-> {}]
Loading == [subpasses |-> 2, aspects |-> {"color", "depth", "stencil"}, loads |-> {"color", "depth"}]
Passes == {Plain, Loading}
Pipelines == {[depthOnly |-> TRUE, depthEqual |-> FALSE], [depthOnly |-> FALSE, depthEqual |-> TRUE]}
DrawCounts == {<<1, 1>>, <<2, 1>>, <<3, 1>>, <<2, 2>>}
=============================================================================
