--------------------------- MODULE QueueTimeline ----------------------------
(***************************************************************************)
(* What a queue's dependency tracker promises, stated on the work items    *)
(* themselves instead of on counters.                                      *)
(*                                                                         *)
(* Item <<s, n>> is the n-th piece of work pushed to stage s.  Each stage  *)
(* has a gate, the set of items that must complete before any further item *)
(* of that stage may start; barriers add to gates.  An item that is pushed *)
(* sits behind a pipeline bubble when another stage's last item is in its  *)
(* gate while that item itself waits for the last item of this stage: the  *)
(* stage has to run dry before the item it waits for can even begin.       *)
(***************************************************************************)
EXTENDS Integers

CONSTANTS Stage, Exclusive, StageMasks, msgPipelineBubble, MaxWork

VARIABLES
    issued,     \* issued[s]: number of items pushed to s
    gate,       \* gate[s]: the items the next item of s has to wait for
    behind,     \* behind[s]: the items the last item of s has to wait for
    bubbles     \* <<s, i>>: the item just pushed to s is held up by a bubble on i

timelineVars == <<issued, gate, behind, bubbles>>

ItemsOf(s) == {s} \X (1 .. issued[s])
LastOf(s) == <<s, issued[s]>>

TimelineInit ==
    /\ issued = [s \in Stage |-> 0]
    /\ gate = [s \in Stage |-> {}]
    /\ behind = [s \in Stage |-> {}]
    /\ bubbles = {}

\* i holds up the next item of s: both have work, the last items wait for each
\* other's stage, and the two stages could have run concurrently.
HoldsUp(i, s) ==
    /\ i # s
    /\ {i, s} \notin Exclusive
    /\ issued[i] # 0 /\ issued[s] # 0
    /\ LastOf(i) \in gate[s]
    /\ LastOf(s) \in behind[i]

Issue(s) ==
    /\ issued[s] < MaxWork[s]
    /\ bubbles' = {<<s, i>> : i \in {j \in Stage : msgPipelineBubble /\ HoldsUp(j, s)}}
    /\ issued' = [issued EXCEPT ![s] = @ + 1]
    /\ behind' = [behind EXCEPT ![s] = gate[s]]
    /\ UNCHANGED gate

\* Everything S has been given, and everything S waits for, comes before any
\* further item of D.
Order(S, D) ==
    /\ gate' = [d \in Stage |-> IF d \in D
                                THEN gate[d] \cup UNION {gate[s] \cup ItemsOf(s) : s \in S}
                                ELSE gate[d]]
    /\ bubbles' = {}
    /\ UNCHANGED <<issued, behind>>

TimelineNext ==
    \/ \E s \in Stage : Issue(s)
    \/ \E S, D \in StageMasks : Order(S, D)

TimelineSpec == TimelineInit /\ [][TimelineNext]_timelineVars
=============================================================================
