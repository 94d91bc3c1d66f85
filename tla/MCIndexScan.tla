----------------------------- MODULE MCIndexScan -----------------------------
(***************************************************************************)
(* Draws for IndexScan: every short list of indices, with and without      *)
(* primitive restart, and lists long enough that counts are rounded.       *)
(***************************************************************************)
EXTENDS IndexScan

CONSTANT MaxIndices     \* bound: indices of a draw that may name any vertex

Indices(values) == UNION {[1 .. n -> values] : n \in 2 .. MaxIndices}

Drawn(type, values) ==
    [type : {type}, restart : BOOLEAN, indices : Indices(values)]

\* Draws of more numbers than a float holds exactly.
Long == [type : {"UINT32"}, restart : {FALSE}, indices : [1 .. FloatLimit + 1 -> {0, 4}]]

SmallDraws == Drawn("UINT16", {0, 1, 3}) \cup Drawn("UINT32", {0, 1, 7}) \cup Long

\* Floats have two bits: 2/3 is rounded to 3/4, and 5 to 4.
ThreeQuarters == [mantissa |-> 3, denominator |-> 4]
Half == [mantissa |-> 2, denominator |-> 4]
=============================================================================
