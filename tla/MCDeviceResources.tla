------------------------- MODULE MCDeviceResources -------------------------
(***************************************************************************)
(* DeviceResources for TLC.  Handles of a kind differ in nothing but their *)
(* name.                                                                   *)
(***************************************************************************)
EXTENDS DeviceResources, TLC

CONSTANT MaxLive        \* bound: the handles the application has at once

Symmetry == UNION {Permutations(handles) : handles \in {Images, CommandBuffers, Pipelines}}

FewObjects ==
    Cardinality(appImages) + Cardinality(Live(chainImages)) + Cardinality(Live(poolBuffers))
        + Cardinality(UsedBuffers) + Cardinality(resources) + Cardinality(Live(pipelines))
            <= MaxLive
=============================================================================
