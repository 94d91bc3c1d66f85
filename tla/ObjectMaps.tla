----------------------------- MODULE ObjectMaps -----------------------------
(***************************************************************************)
(* The maps from handles to objects of layer/device.hpp.                   *)
(***************************************************************************)

\* The handles get() finds.
Live(map) == DOMAIN map

\* alloc() and destroy() of one handle.
With(map, h, object) == [x \in DOMAIN map \cup {h} |-> IF x = h THEN object ELSE map[x]]
Without(map, h) == [x \in DOMAIN map \ {h} |-> map[x]]

EmptyMap == [x \in {} |-> x]
=============================================================================
