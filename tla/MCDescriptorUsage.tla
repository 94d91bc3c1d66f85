-------------------------- MODULE MCDescriptorUsage --------------------------
(***************************************************************************)
(* Values for the constants of DescriptorUsage.                            *)
(***************************************************************************)
EXTENDS DescriptorUsageHistory

CONSTANTS reader, whole

Level(m) == [baseArrayLayer |-> 0, layerCount |-> 1, baseMipLevel |-> m, levelCount |-> 1]
WholeLevel(m) == [baseArrayLayer |-> 0, layerCount |-> arrayLayers, mipLevel |-> m]

Color(range, on, load, store) ==
    [range |-> range, on |-> on, aspect |-> "color", loadOp |-> load, storeOp |-> store,
     stencilLoadOp |-> "DONT_CARE", stencilStoreOp |-> "DONT_CARE"]

\* A depth-stencil attachment of which the depth part is cleared and the stencil
\* part stored.
DepthStencil(range) ==
    [range |-> range, on |-> "tile", aspect |-> "depthStencil", loadOp |-> "CLEAR",
     storeOp |-> "DONT_CARE", stencilLoadOp |-> "DONT_CARE", stencilStoreOp |-> "STORE"]

Elsewhere == Color(Level(0), "unused", "DONT_CARE", "DONT_CARE")

\* From layer l to beyond the end of the image.
FromLayer(l) == [baseArrayLayer |-> l, layerCount |-> 9, baseMipLevel |-> 0, levelCount |-> 1]

\* Rendered to in the last layer, or left alone.
LastLayerOrNone == {DepthStencil(FromLayer(1)), Elsewhere}

Reader == {reader}
Whole == {whole}
RangeOfViews == [v \in Views |-> [FromLayer(0) EXCEPT !.layerCount = arrayLayers]]
OneBinding == {0}
Sampled == [b \in Bindings |-> "sampled"]
TwoDescriptors == [b \in Bindings |-> 2]
SmallerGraphicsLayout == [p \in BindPoint |-> IF p = "graphics" THEN 0 .. slots ELSE {slots}]
CopyLayer == {[baseArrayLayer |-> 0, layerCount |-> 1, mipLevel |-> 0]}
ClearLayers == {FromLayer(0)}
=============================================================================
