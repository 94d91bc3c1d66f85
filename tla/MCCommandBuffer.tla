-------------------------- MODULE MCCommandBuffer ---------------------------
(***************************************************************************)
(* Values for the constants of CommandBuffer: one render pass that waits   *)
(* for transfers and is waited for by vertex work, and a full barrier.     *)
(***************************************************************************)
EXTENDS CommandBufferHistory

CONSTANTS primary, secondary, pass

FourStages == {COMPUTE, GEOMETRY, FRAGMENT, TRANSFER}
GeometryAndCompute == {{GEOMETRY, COMPUTE}}
OnePrimary == {primary}
OneSecondary == {secondary}
OnePass == {pass}
WaitsForTransfer == [p \in RenderPass |->
    {<<{"TRANSFER"}, {"FRAGMENT_SHADER"}>>}]
HoldsUpVertices == [p \in RenderPass |->
    {<<{"FRAGMENT_SHADER"}, {"VERTEX_SHADER"}>>, <<{"BOTTOM_OF_PIPE"}, {"TRANSFER"}>>}]
FullBarrier == {<<{"BOTTOM_OF_PIPE"}, {"TOP_OF_PIPE"}>>}
Transfers == {TRANSFER}
\* More than any run can push.
Plenty == [s \in Stage |-> 20]
ShortSecondary == [cb \in CB |-> IF cb \in Primary THEN 3 ELSE 1]
=============================================================================
