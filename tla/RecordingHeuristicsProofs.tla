---------------------- MODULE RecordingHeuristicsProofs ----------------------
(***************************************************************************)
(* Proofs about RecordingHeuristics: what its reports say of the recording *)
(* they are made in, for any passes, pipelines, draws and limits.          *)
(*                                                                         *)
(* The reports are computed from state the layer keeps per command buffer  *)
(* (cb, prePass, clears); the invariant ties each piece of it to what was  *)
(* recorded, through every command that keeps, moves or resets it.         *)
(***************************************************************************)
EXTENDS RecordingHeuristicsHistory, TLAPS

PrePassState ==
    {"INSIDE_RENDERPASS", "COLOR_ATTACHMENT", "DEPTH_ATTACHMENT", "DEPTH_ONLY", "DEPTH_EQUAL_TEST"}

TypeOK ==
    /\ cb \in [renderPass : Pass \union {NoPass}, subpass : Nat,
               lastFB : Framebuffer \union {NoFramebuffer}, smallDraws : Nat]
    /\ prePass \in [state : SUBSET PrePassState, depthOnly : Nat, depthEqual : Nat]
    /\ clears \in [renderPassInfo : Pass \union {NoPass}, subpass : Nat, hasSeenDrawCall : BOOLEAN]
    /\ secondary \in BOOLEAN
    /\ depthOnly \in Nat /\ depthEqual \in Nat
    /\ below \in Nat /\ atOrWrapped \in Nat /\ smallWarned \in Nat

(* The pre-pass heuristic counts no draw that was not recorded in this     *)
(* pass, and takes the bound pipeline for depth-only or depth-equal only   *)
(* when the graphics pipeline is.                                          *)
CountsAreOfPass ==
    /\ prePass.depthOnly <= depthOnly /\ prePass.depthEqual <= depthEqual
    /\ "DEPTH_ONLY" \in prePass.state => bound.depthOnly
    /\ "DEPTH_EQUAL_TEST" \in prePass.state => bound.depthEqual

(* The clear heuristic follows the render pass of the command buffer.      *)
ClearsFollowPass ==
    InPass => /\ clears.renderPassInfo = cb.renderPass /\ clears.subpass = cb.subpass
              /\ clears.hasSeenDrawCall <=> "direct" \in drawn

InsideOnlyInPass == "INSIDE_RENDERPASS" \in prePass.state => InPass

(* A primary command buffer remembers the framebuffer of its last pass.    *)
LastPassRemembered == ~secondary => lastPass = cb.lastFB

SmallDrawsCounted == below + atOrWrapped = cb.smallDraws /\ SmallDrawsReportedOnce

IInv ==
    /\ TypeOK
    /\ CountsAreOfPass /\ PrePassReportsAreTrue
    /\ ClearsFollowPass /\ ClearsBeforeDrawsReported
    /\ InsideOnlyInPass /\ BeginsOutsidePass
    /\ LastPassRemembered
    /\ SmallDrawsCounted

---------------------------------------------------------------------------
(* The invariant holds of a command buffer never recorded.                 *)
LEMMA InvInitially == HistoryInit => IInv
  <1> SUFFICES ASSUME HistoryInit PROVE IInv
    OBVIOUS
  <1> USE DEF HistoryInit, Init, EmptyRecording, NoDraws, NothingDrawn
  <1>1. TypeOK
    BY DEF TypeOK
  <1>2. CountsAreOfPass /\ PrePassReportsAreTrue
    BY DEF CountsAreOfPass, PrePassReportsAreTrue
  <1>3. ClearsFollowPass /\ ClearsBeforeDrawsReported /\ InsideOnlyInPass /\ BeginsOutsidePass
    BY DEF ClearsFollowPass, ClearsBeforeDrawsReported, InPass, InsideOnlyInPass, BeginsOutsidePass
  <1>4. LastPassRemembered /\ SmallDrawsCounted
    BY LimitAssumption
    DEF LastPassRemembered, SmallDrawsCounted, SmallDrawsReportedOnce, One
  <1> QED BY <1>1, <1>2, <1>3, <1>4 DEF IInv

(* vkBeginCommandBuffer forgets the recording before, or starts inside the *)
(* pass a secondary continues.                                             *)
LEMMA InvBegin == IInv /\ HistoryBegin => IInv'
  <1> SUFFICES ASSUME IInv, HistoryBegin PROVE IInv'
    OBVIOUS
  <1> USE DEF Reset, EmptyRecording, NoDraws, NothingDrawn, PassStarts, RecordingStarts
  <1>1. PICK p \in Pass \union {NoPass}, s \in Nat, fb \in Framebuffer \union {NoFramebuffer} :
          /\ cb' = [renderPass |-> p, subpass |-> s, lastFB |-> fb, smallDraws |-> 0]
          /\ clears' = [renderPassInfo |-> p, subpass |-> s, hasSeenDrawCall |-> FALSE]
          /\ secondary' = secondary /\ (secondary \/ fb = NoFramebuffer)
          /\ prePass' = NoDraws /\ reports' = {} /\ failed' = {}
          /\ PassStarts /\ RecordingStarts /\ clear' = {}
    <2>1. CASE BeginCommandBuffer
      BY <2>1 DEF HistoryBegin, BeginCommandBuffer
    <2>2. CASE \E p \in Pass : \E s \in 0..(p.subpasses - 1), fb \in Framebuffer \union {NoFramebuffer} :
                 BeginContinue(p, s, fb)
      <3>1. PICK p \in Pass : \E s \in 0..(p.subpasses - 1), fb \in Framebuffer \union {NoFramebuffer} :
                BeginContinue(p, s, fb)
        BY <2>2
      <3>2. PICK s \in 0..(p.subpasses - 1), fb \in Framebuffer \union {NoFramebuffer} :
                BeginContinue(p, s, fb)
        BY <3>1
      <3>3. s \in Nat
        BY PassAssumption
      <3>4. /\ cb' = [renderPass |-> p, subpass |-> s, lastFB |-> fb, smallDraws |-> 0]
            /\ clears' = [renderPassInfo |-> p, subpass |-> s, hasSeenDrawCall |-> FALSE]
            /\ secondary' = secondary /\ secondary
            /\ prePass' = NoDraws /\ reports' = {} /\ failed' = {}
        BY <3>2 DEF BeginContinue
      <3> QED BY <3>3, <3>4 DEF HistoryBegin
    <2> QED BY <2>1, <2>2 DEF HistoryBegin
  <1>2. TypeOK'
    BY <1>1 DEF TypeOK, IInv
  <1>3. (CountsAreOfPass /\ PrePassReportsAreTrue)'
    BY <1>1 DEF CountsAreOfPass, PrePassReportsAreTrue
  <1>4. (ClearsFollowPass /\ ClearsBeforeDrawsReported /\ InsideOnlyInPass /\ BeginsOutsidePass)'
    BY <1>1 DEF ClearsFollowPass, ClearsBeforeDrawsReported, InPass, InsideOnlyInPass, BeginsOutsidePass
  <1>5. (LastPassRemembered /\ SmallDrawsCounted)'
    BY <1>1, LimitAssumption
    DEF LastPassRemembered, SmallDrawsCounted, SmallDrawsReportedOnce, One
  <1> QED BY <1>2, <1>3, <1>4, <1>5 DEF IInv

(* A command of a pass that changes neither the counts, the small draws    *)
(* nor the framebuffer keeps what depends on them alone.                   *)
LEMMA SmallUnchanged ==
    ASSUME SmallDrawsCounted, SameSmall, cb'.smallDraws = cb.smallDraws
    PROVE  SmallDrawsCounted'
  BY DEF SmallDrawsCounted, SmallDrawsReportedOnce, SameSmall

(* vkCmdBeginRenderPass makes every heuristic start on the new pass.       *)
LEMMA InvBeginPass ==
    ASSUME NEW p \in Pass, NEW fb \in Framebuffer, IInv, HistoryBeginPass(p, fb)
    PROVE  IInv'
  <1> USE DEF HistoryBeginPass, CmdBeginRenderPass, IInv
  <1>1. /\ cb' = [cb EXCEPT !.renderPass = p, !.subpass = 0, !.lastFB = fb]
        /\ cb'.renderPass = p /\ cb'.subpass = 0 /\ cb'.lastFB = fb
        /\ cb'.smallDraws = cb.smallDraws
    BY DEF TypeOK
  <1>0. /\ prePass'.state \subseteq {"INSIDE_RENDERPASS", "COLOR_ATTACHMENT", "DEPTH_ATTACHMENT"}
        /\ prePass' = [state |-> prePass'.state, depthOnly |-> 0, depthEqual |-> 0]
    BY DEF BegunPrePass
  <1>a. prePass' \in [state : SUBSET PrePassState, depthOnly : Nat, depthEqual : Nat]
    <2>1. prePass'.state \in SUBSET PrePassState
      BY <1>0 DEF PrePassState
    <2> HIDE DEF CmdBeginRenderPass, HistoryBeginPass
    <2> QED BY <1>0, <2>1
  <1>2. TypeOK'
    <2>1. cb' \in [renderPass : Pass \union {NoPass}, subpass : Nat,
                   lastFB : Framebuffer \union {NoFramebuffer}, smallDraws : Nat]
      <3>1. cb \in [renderPass : Pass \union {NoPass}, subpass : Nat,
                    lastFB : Framebuffer \union {NoFramebuffer}, smallDraws : Nat]
        BY DEF TypeOK
      <3> HIDE DEF CmdBeginRenderPass, HistoryBeginPass, IInv
      <3> QED BY <1>1, <3>1
    <2>2. clears' \in [renderPassInfo : Pass \union {NoPass}, subpass : Nat, hasSeenDrawCall : BOOLEAN]
      BY DEF BegunClears
    <2> QED BY <1>a, <2>1, <2>2 DEF TypeOK, PassStarts, SameSmall, Command
  <1>3. (CountsAreOfPass /\ PrePassReportsAreTrue)'
    <2>1. CountsAreOfPass'
      <3>1. /\ "DEPTH_ONLY" \notin prePass'.state /\ "DEPTH_EQUAL_TEST" \notin prePass'.state
            /\ prePass'.depthOnly = 0 /\ prePass'.depthEqual = 0
        <4> HIDE DEF CmdBeginRenderPass, HistoryBeginPass
        <4> QED BY <1>0
      <3>2. depthOnly' = 0 /\ depthEqual' = 0
        BY DEF PassStarts
      <3> HIDE DEF CmdBeginRenderPass, HistoryBeginPass, IInv
      <3> QED BY <3>1, <3>2 DEF CountsAreOfPass
    <2>2. "DEPTH_PRE_PASS" \notin reports'
      BY DEF Readback, Reported
    <2> QED BY <2>1, <2>2 DEF PrePassReportsAreTrue
  <1>4. (ClearsFollowPass /\ ClearsBeforeDrawsReported)'
    BY <1>1 DEF ClearsFollowPass, ClearsBeforeDrawsReported, BegunClears, PassStarts
  <1>5. (InsideOnlyInPass /\ BeginsOutsidePass)'
    BY <1>1, NoPassAssumption DEF InsideOnlyInPass, BeginsOutsidePass, InPass, Asserted
  <1>6. (LastPassRemembered /\ SmallDrawsCounted)'
    BY <1>1, SmallUnchanged DEF LastPassRemembered
  <1> QED BY <1>2, <1>3, <1>4, <1>5, <1>6

(* A direct draw is counted by the heuristic only when the recording       *)
(* counts it too.                                                          *)
LEMMA DrawsAreCounted ==
    ASSUME TypeOK, CountsAreOfPass, Drew, UNCHANGED bound,
           NEW c, NEW least, prePass' = DrawnPrePass(c, least)
    PROVE  /\ prePass' \in [state : SUBSET PrePassState, depthOnly : Nat, depthEqual : Nat]
           /\ depthOnly' \in Nat /\ depthEqual' \in Nat
           /\ prePass'.state = prePass.state
           /\ CountsAreOfPass'
  <1>1. /\ depthOnly' = depthOnly + (IF bound.depthOnly THEN 1 ELSE 0)
        /\ depthEqual' = depthEqual + (IF bound.depthEqual THEN 1 ELSE 0)
    BY DEF Drew
  <1>2. prePass \in [state : SUBSET PrePassState, depthOnly : Nat, depthEqual : Nat]
    BY DEF TypeOK
  <1>3. \/ prePass' = prePass
        \/ prePass' = [prePass EXCEPT
             !.depthOnly = IF "DEPTH_ONLY" \in prePass.state THEN @ + 1 ELSE @,
             !.depthEqual = IF "DEPTH_EQUAL_TEST" \in prePass.state THEN @ + 1 ELSE @]
    BY DEF DrawnPrePass
  <1>4. /\ prePass' \in [state : SUBSET PrePassState, depthOnly : Nat, depthEqual : Nat]
        /\ prePass'.state = prePass.state
        /\ prePass'.depthOnly <= prePass.depthOnly + (IF "DEPTH_ONLY" \in prePass.state THEN 1 ELSE 0)
        /\ prePass'.depthEqual <= prePass.depthEqual + (IF "DEPTH_EQUAL_TEST" \in prePass.state THEN 1 ELSE 0)
    <2>1. CASE prePass' = prePass
      BY <1>2, <2>1
    <2>2. CASE prePass' # prePass
      <3>1. /\ prePass'.state = prePass.state
            /\ prePass'.depthOnly = IF "DEPTH_ONLY" \in prePass.state
                                    THEN prePass.depthOnly + 1 ELSE prePass.depthOnly
            /\ prePass'.depthEqual = IF "DEPTH_EQUAL_TEST" \in prePass.state
                                     THEN prePass.depthEqual + 1 ELSE prePass.depthEqual
            /\ prePass' = [state |-> prePass'.state, depthOnly |-> prePass'.depthOnly,
                           depthEqual |-> prePass'.depthEqual]
        BY <1>2, <1>3, <2>2
      <3>2. prePass'.depthOnly \in Nat /\ prePass'.depthEqual \in Nat
        BY <1>2, <3>1
      <3> QED BY <1>2, <3>1, <3>2
    <2> QED BY <2>1, <2>2
  <1>5. depthOnly \in Nat /\ depthEqual \in Nat
    BY DEF TypeOK
  <1> QED BY <1>1, <1>2, <1>4, <1>5 DEF CountsAreOfPass

LEMMA InvDraw ==
    ASSUME NEW c \in Counts, IInv, HistoryDraw(c)
    PROVE  IInv'
  <1> USE DEF HistoryDraw, CmdDraw, CanDraw, Command, IInv
  <1>1. /\ prePass' \in [state : SUBSET PrePassState, depthOnly : Nat, depthEqual : Nat]
        /\ depthOnly' \in Nat /\ depthEqual' \in Nat
        /\ prePass'.state = prePass.state
        /\ CountsAreOfPass'
    BY DrawsAreCounted
  <1>2. clears' \in [renderPassInfo : Pass \union {NoPass}, subpass : Nat, hasSeenDrawCall : BOOLEAN]
        /\ clears'.renderPassInfo = clears.renderPassInfo /\ clears'.subpass = clears.subpass
        /\ clears'.hasSeenDrawCall
    BY DEF TypeOK
  <1>3. TypeOK'
    BY <1>1, <1>2 DEF TypeOK, SameSmall
  <1>4. (ClearsFollowPass /\ ClearsBeforeDrawsReported)'
    BY <1>2 DEF ClearsFollowPass, ClearsBeforeDrawsReported, Drew, InPass
  <1>5. (InsideOnlyInPass /\ BeginsOutsidePass /\ PrePassReportsAreTrue)'
    BY <1>1 DEF InsideOnlyInPass, BeginsOutsidePass, InPass, PrePassReportsAreTrue
  <1>6. (LastPassRemembered /\ SmallDrawsCounted)'
    BY SmallUnchanged DEF LastPassRemembered
  <1> QED BY <1>1, <1>3, <1>4, <1>5, <1>6

(* A draw below the limit is no less so after the product has wrapped.     *)
LEMMA SmallByProduct ==
    ASSUME NEW c \in Counts
    PROVE  Product(c) <= smallIndexedDrawcallIndices <=> Below(c) \/ AtOrWrapped(c)
  <1>1. PICK x \in Nat : x = c[1] * c[2]
    BY CountAssumption
  <1>2. PICK m \in Nat \ {0} : m = 2 ^ Width
    BY CountAssumption
  <1>3. x % m <= x
    <2>1. CASE x < m
      BY <2>1
    <2>2. CASE x >= m
      BY <2>2
    <2> QED BY <2>1, <2>2
  <1>4. Product(c) = x % m
    BY <1>1, <1>2 DEF Product
  <1>5. x % m \in Nat
    OBVIOUS
  <1>6. /\ Below(c) <=> x < smallIndexedDrawcallIndices
        /\ AtOrWrapped(c) <=> ~ Below(c) /\ x % m <= smallIndexedDrawcallIndices
    BY <1>1, <1>2 DEF Below, AtOrWrapped
  <1> QED BY <1>3, <1>4, <1>5, <1>6, LimitAssumption

(* The count of small draws reaches its limit once.                        *)
LEMMA LimitReachedOnce ==
    ASSUME IInv, NEW c \in Counts, HistoryDrawIndexed(c)
    PROVE  /\ SmallDrawsCounted' /\ below' \in Nat /\ atOrWrapped' \in Nat
           /\ smallWarned' \in Nat /\ cb'.smallDraws \in Nat
  <1> DEFINE isSmall == Product(c) <= smallIndexedDrawcallIndices
             n == SmallDraws(c)
  <1>1. n = cb.smallDraws + (IF isSmall THEN 1 ELSE 0)
    BY DEF SmallDraws
  <1>2. cb'.smallDraws = n
    BY DEF HistoryDrawIndexed, CmdDrawIndexed, IInv, TypeOK
  <1>3. below' = below + One(Below(c)) /\ atOrWrapped' = atOrWrapped + One(AtOrWrapped(c))
    BY DEF HistoryDrawIndexed
  <1>4. smallWarned' = smallWarned + One(ReachesLimit(n))
    BY DEF HistoryDrawIndexed, CmdDrawIndexed, Reported, One
  <1>5. ReachesLimit(n) <=> n > cb.smallDraws /\ n = maxSmallIndexedDrawcalls
    BY DEF ReachesLimit
  <1>6. /\ cb.smallDraws \in Nat /\ below + atOrWrapped = cb.smallDraws
        /\ smallWarned = One(/\ maxSmallIndexedDrawcalls > 0
                             /\ below + atOrWrapped >= maxSmallIndexedDrawcalls)
    BY DEF IInv, TypeOK, SmallDrawsCounted, SmallDrawsReportedOnce
  <1>7. isSmall <=> Below(c) \/ AtOrWrapped(c)
    BY SmallByProduct
  <1>8. ~ (Below(c) /\ AtOrWrapped(c))
    BY DEF AtOrWrapped
  <1> HIDE DEF isSmall, n
  <1>9. /\ below' + atOrWrapped' = below + atOrWrapped + One(isSmall)
        /\ below' \in Nat /\ atOrWrapped' \in Nat
    BY <1>3, <1>7, <1>8 DEF One, IInv, TypeOK
  <1>10. PICK old, new : old = cb.smallDraws /\ new = n
    OBVIOUS
  <1>11. /\ old \in Nat /\ new = old + One(isSmall) /\ new \in Nat
         /\ below' + atOrWrapped' = new /\ cb'.smallDraws = new
    BY <1>1, <1>2, <1>6, <1>9, <1>10 DEF One
  <1>12. smallWarned' = One(maxSmallIndexedDrawcalls > 0 /\ new >= maxSmallIndexedDrawcalls)
    BY <1>4, <1>5, <1>6, <1>10, <1>11, LimitAssumption DEF One
  <1> QED
    BY <1>9, <1>11, <1>12 DEF One, SmallDrawsCounted, SmallDrawsReportedOnce

LEMMA InvDrawIndexed ==
    ASSUME NEW c \in Counts, IInv, HistoryDrawIndexed(c)
    PROVE  IInv'
  <1>0. /\ cb' = [cb EXCEPT !.smallDraws = SmallDraws(c)]
        /\ clears' = [clears EXCEPT !.hasSeenDrawCall = TRUE]
        /\ prePass' = DrawnPrePass(c, depthPrePassMinIndices)
        /\ Drew /\ InPass /\ clear' = {} /\ UNCHANGED <<bound, secondary, lastPass>>
    BY DEF HistoryDrawIndexed, CmdDrawIndexed, CanDraw, Command
  <1>a. /\ "DEPTH_PRE_PASS" \notin reports'
        /\ "not INSIDE_RENDERPASS" \notin failed'
    BY DEF HistoryDrawIndexed, CmdDrawIndexed, Reported, Asserted
  <1>1. /\ prePass' \in [state : SUBSET PrePassState, depthOnly : Nat, depthEqual : Nat]
        /\ depthOnly' \in Nat /\ depthEqual' \in Nat
        /\ prePass'.state = prePass.state
        /\ CountsAreOfPass'
    BY <1>0, DrawsAreCounted DEF IInv
  <1>2. clears' \in [renderPassInfo : Pass \union {NoPass}, subpass : Nat, hasSeenDrawCall : BOOLEAN]
        /\ clears'.renderPassInfo = clears.renderPassInfo /\ clears'.subpass = clears.subpass
        /\ clears'.hasSeenDrawCall
    BY <1>0 DEF IInv, TypeOK
  <1>3. /\ SmallDrawsCounted' /\ below' \in Nat /\ atOrWrapped' \in Nat
        /\ smallWarned' \in Nat /\ cb'.smallDraws \in Nat
    BY LimitReachedOnce
  <1>4. /\ cb' \in [renderPass : Pass \union {NoPass}, subpass : Nat,
                    lastFB : Framebuffer \union {NoFramebuffer}, smallDraws : Nat]
        /\ cb'.renderPass = cb.renderPass /\ cb'.subpass = cb.subpass /\ cb'.lastFB = cb.lastFB
    BY <1>0, <1>3 DEF IInv, TypeOK
  <1>5. TypeOK'
    BY <1>0, <1>1, <1>2, <1>3, <1>4 DEF TypeOK, IInv
  <1>6. (ClearsFollowPass /\ ClearsBeforeDrawsReported)'
    BY <1>0, <1>2, <1>4 DEF IInv, ClearsFollowPass, ClearsBeforeDrawsReported, Drew, InPass
  <1>7. (InsideOnlyInPass /\ BeginsOutsidePass /\ PrePassReportsAreTrue)'
    BY <1>a, <1>1, <1>4 DEF IInv, InsideOnlyInPass, BeginsOutsidePass, InPass, PrePassReportsAreTrue
  <1>8. LastPassRemembered'
    BY <1>0, <1>4 DEF IInv, LastPassRemembered
  <1> QED BY <1>1, <1>3, <1>5, <1>6, <1>7, <1>8 DEF IInv

LEMMA InvDrawIndirect == IInv /\ HistoryDrawIndirect => IInv'
  <1> SUFFICES ASSUME IInv, HistoryDrawIndirect PROVE IInv'
    OBVIOUS
  <1> USE DEF HistoryDrawIndirect, CmdDrawIndirect, CanDraw, Command, IInv
  <1>1. TypeOK'
    BY DEF TypeOK, SameSmall
  <1>2. (CountsAreOfPass /\ PrePassReportsAreTrue)'
    BY DEF CountsAreOfPass, PrePassReportsAreTrue
  <1>3. (ClearsFollowPass /\ ClearsBeforeDrawsReported /\ InsideOnlyInPass /\ BeginsOutsidePass)'
    BY DEF ClearsFollowPass, ClearsBeforeDrawsReported, InsideOnlyInPass, BeginsOutsidePass, InPass
  <1>4. (LastPassRemembered /\ SmallDrawsCounted)'
    BY SmallUnchanged DEF LastPassRemembered
  <1> QED BY <1>1, <1>2, <1>3, <1>4

(* A clear is told from the clears that follow draws by what the heuristic *)
(* has seen of this very pass.                                             *)
LEMMA ClearReportedExactly ==
    ASSUME IInv, InPass, cb.subpass = 0, NEW A,
           A \cap (cb.renderPass.aspects \ cb.renderPass.loads) # {}
    PROVE  "CLEAR_ATTACHMENTS_NO_DRAW_CALL" \in ClearReports(A) <=> "direct" \notin drawn
  BY DEF IInv, ClearsFollowPass, ClearReports, Reported

LEMMA InvClear ==
    ASSUME NEW A \in SUBSET Aspect, NEW empty \in BOOLEAN, IInv, HistoryClear(A, empty)
    PROVE  IInv'
  <1> USE DEF HistoryClear, CmdClearAttachments, Command, SamePass, IInv
  <1>1. TypeOK'
    BY DEF TypeOK, SameSmall
  <1>2. (CountsAreOfPass /\ PrePassReportsAreTrue)'
    BY DEF CountsAreOfPass, PrePassReportsAreTrue, ClearReports, Reported
  <1>3. (ClearsFollowPass /\ InsideOnlyInPass /\ BeginsOutsidePass)'
    BY DEF ClearsFollowPass, InsideOnlyInPass, BeginsOutsidePass, InPass, Asserted
  <1>4. ClearsBeforeDrawsReported'
    <2>1. CASE empty
      BY <2>1 DEF ClearsBeforeDrawsReported
    <2>2. CASE ~empty
      BY <2>2, ClearReportedExactly DEF ClearsBeforeDrawsReported, InPass
    <2> QED BY <2>1, <2>2
  <1>5. (LastPassRemembered /\ SmallDrawsCounted)'
    BY SmallUnchanged DEF LastPassRemembered
  <1> QED BY <1>1, <1>2, <1>3, <1>4, <1>5

(* vkEndCommandBuffer leaves the recording as it is.                       *)
LEMMA InvEndBuffer ==
    ASSUME IInv, EndCommandBuffer, SamePass, SameSmall, clear' = {}, UNCHANGED lastPass
    PROVE  IInv'
  <1> USE DEF EndCommandBuffer, SamePass, IInv
  <1>1. TypeOK'
    BY DEF TypeOK, SameSmall
  <1>2. (CountsAreOfPass /\ PrePassReportsAreTrue)'
    BY DEF CountsAreOfPass, PrePassReportsAreTrue
  <1>3. (ClearsFollowPass /\ ClearsBeforeDrawsReported /\ InsideOnlyInPass /\ BeginsOutsidePass)'
    BY DEF ClearsFollowPass, ClearsBeforeDrawsReported, InsideOnlyInPass, BeginsOutsidePass, InPass
  <1>4. (LastPassRemembered /\ SmallDrawsCounted)'
    BY SmallUnchanged DEF LastPassRemembered
  <1> QED BY <1>1, <1>2, <1>3, <1>4

(* vkCmdNextSubpass moves the command buffer and the clear heuristic on    *)
(* together.                                                               *)
LEMMA InvNextSubpass ==
    ASSUME IInv, CmdNextSubpass, SamePass, SameSmall, clear' = {}, UNCHANGED lastPass
    PROVE  IInv'
  <1> USE DEF CmdNextSubpass, Command, SamePass, IInv
  <1>1. /\ cb' \in [renderPass : Pass \union {NoPass}, subpass : Nat,
                    lastFB : Framebuffer \union {NoFramebuffer}, smallDraws : Nat]
        /\ cb'.renderPass = cb.renderPass /\ cb'.subpass = cb.subpass + 1
        /\ cb'.lastFB = cb.lastFB /\ cb'.smallDraws = cb.smallDraws
    BY DEF TypeOK
  <1>2. /\ clears' \in [renderPassInfo : Pass \union {NoPass}, subpass : Nat, hasSeenDrawCall : BOOLEAN]
        /\ clears'.renderPassInfo = clears.renderPassInfo /\ clears'.subpass = cb.subpass + 1
        /\ clears'.hasSeenDrawCall = clears.hasSeenDrawCall
    BY DEF TypeOK
  <1>3. TypeOK'
    BY <1>1, <1>2 DEF TypeOK, SameSmall
  <1>4. (CountsAreOfPass /\ PrePassReportsAreTrue)'
    BY DEF CountsAreOfPass, PrePassReportsAreTrue
  <1>5. (ClearsFollowPass /\ ClearsBeforeDrawsReported /\ InsideOnlyInPass /\ BeginsOutsidePass)'
    BY <1>1, <1>2
    DEF ClearsFollowPass, ClearsBeforeDrawsReported, InsideOnlyInPass, BeginsOutsidePass, InPass
  <1>6. (LastPassRemembered /\ SmallDrawsCounted)'
    BY <1>1, SmallUnchanged DEF LastPassRemembered
  <1> QED BY <1>3, <1>4, <1>5, <1>6

(* What vkCmdEndRenderPass reports was counted in the pass it ends.        *)
LEMMA InvEndPass ==
    ASSUME IInv, CmdEndRenderPass, SamePass, SameSmall, clear' = {}, UNCHANGED lastPass
    PROVE  IInv'
  <1> USE DEF CmdEndRenderPass, Command, SamePass, IInv
  <1>1. /\ cb' \in [renderPass : Pass \union {NoPass}, subpass : Nat,
                    lastFB : Framebuffer \union {NoFramebuffer}, smallDraws : Nat]
        /\ cb'.renderPass = NoPass
        /\ cb'.lastFB = cb.lastFB /\ cb'.smallDraws = cb.smallDraws
    BY DEF TypeOK
  <1>2. /\ prePass' \in [state : SUBSET PrePassState, depthOnly : Nat, depthEqual : Nat]
        /\ prePass'.state = prePass.state \ {"INSIDE_RENDERPASS"}
        /\ prePass'.depthOnly = prePass.depthOnly /\ prePass'.depthEqual = prePass.depthEqual
    BY DEF TypeOK, EndedPrePass
  <1>3. TypeOK'
    BY <1>1, <1>2 DEF TypeOK, SameSmall
  <1>4. CountsAreOfPass'
    BY <1>2 DEF CountsAreOfPass
  <1>5. PrePassReportsAreTrue'
    <2>1. "DEPTH_PRE_PASS" \in reports' =>
              /\ prePass.depthOnly >= depthPrePassNumDrawCalls
              /\ prePass.depthEqual >= depthPrePassNumDrawCalls
      BY DEF Reported
    <2>2. /\ prePass.depthOnly \in Nat /\ prePass.depthEqual \in Nat
          /\ depthOnly \in Nat /\ depthEqual \in Nat
      BY DEF TypeOK
    <2>3. prePass.depthOnly <= depthOnly /\ prePass.depthEqual <= depthEqual
      BY DEF CountsAreOfPass
    <2>4. depthOnly' = depthOnly /\ depthEqual' = depthEqual
      OBVIOUS
    <2> HIDE DEF CmdEndRenderPass, IInv
    <2> QED BY <2>1, <2>2, <2>3, <2>4, LimitAssumption DEF PrePassReportsAreTrue
  <1>6. (ClearsFollowPass /\ ClearsBeforeDrawsReported)'
    BY <1>1 DEF ClearsFollowPass, ClearsBeforeDrawsReported, InPass
  <1>7. (InsideOnlyInPass /\ BeginsOutsidePass)'
    BY <1>2 DEF InsideOnlyInPass, BeginsOutsidePass, Asserted
  <1>8. (LastPassRemembered /\ SmallDrawsCounted)'
    BY <1>1, SmallUnchanged DEF LastPassRemembered
  <1> QED BY <1>3, <1>4, <1>5, <1>6, <1>7, <1>8

(* Pipelines: the heuristic follows a graphics pipeline, and forgets it    *)
(* for a compute pipeline.                                                 *)
LEMMA InvBind ==
    ASSUME IInv, BindCompute \/ \E p \in GraphicsPipeline : BindGraphics(p),
           SamePass, SameSmall, clear' = {}, UNCHANGED lastPass
    PROVE  IInv'
  <1>1. /\ prePass' \in [state : SUBSET PrePassState, depthOnly : Nat, depthEqual : Nat]
        /\ CountsAreOfPass'
        /\ "INSIDE_RENDERPASS" \in prePass'.state => "INSIDE_RENDERPASS" \in prePass.state
    <2>1. CASE BindCompute
      BY <2>1 DEF BindCompute, NoDraws, CountsAreOfPass, SamePass, IInv, TypeOK
    <2>2. ASSUME NEW p \in GraphicsPipeline, BindGraphics(p)
          PROVE  /\ prePass' \in [state : SUBSET PrePassState, depthOnly : Nat, depthEqual : Nat]
                 /\ CountsAreOfPass'
                 /\ "INSIDE_RENDERPASS" \in prePass'.state => "INSIDE_RENDERPASS" \in prePass.state
      <3>1. /\ prePass'.state \subseteq prePass.state \union {"DEPTH_ONLY", "DEPTH_EQUAL_TEST"}
            /\ "DEPTH_ONLY" \in prePass'.state => p.depthOnly
            /\ "DEPTH_EQUAL_TEST" \in prePass'.state => p.depthEqual
            /\ bound' = p
            /\ prePass'.depthOnly = prePass.depthOnly /\ prePass'.depthEqual = prePass.depthEqual
            /\ prePass' = [prePass EXCEPT !.state = prePass'.state]
        BY <2>2 DEF BindGraphics, IInv, TypeOK
      <3>2. prePass'.state \in SUBSET PrePassState
        BY <3>1 DEF IInv, TypeOK, PrePassState
      <3>3. prePass' \in [state : SUBSET PrePassState, depthOnly : Nat, depthEqual : Nat]
        BY <3>1, <3>2 DEF IInv, TypeOK
      <3>4. CountsAreOfPass'
        BY <3>1 DEF CountsAreOfPass, SamePass, IInv
      <3> QED BY <3>1, <3>3, <3>4
    <2> QED BY <2>1, <2>2
  <1>2. /\ UNCHANGED <<cb, clears, secondary>> /\ reports' = {} /\ failed' = {}
    BY DEF BindCompute, BindGraphics, Command
  <1> USE DEF SamePass, IInv
  <1>3. TypeOK'
    BY <1>1, <1>2 DEF TypeOK, SameSmall
  <1>4. PrePassReportsAreTrue'
    BY <1>2 DEF PrePassReportsAreTrue
  <1>5. (ClearsFollowPass /\ ClearsBeforeDrawsReported /\ InsideOnlyInPass /\ BeginsOutsidePass)'
    BY <1>1, <1>2
    DEF ClearsFollowPass, ClearsBeforeDrawsReported, InsideOnlyInPass, BeginsOutsidePass, InPass
  <1>6. (LastPassRemembered /\ SmallDrawsCounted)'
    BY <1>2, SmallUnchanged DEF LastPassRemembered
  <1> QED BY <1>1, <1>3, <1>4, <1>5, <1>6

LEMMA InvOther == IInv /\ HistoryOther => IInv'
  BY InvEndBuffer, InvNextSubpass, InvEndPass, InvBind DEF HistoryOther

LEMMA InvStutters == IInv /\ UNCHANGED allVars => IInv'
  <1> SUFFICES ASSUME IInv, UNCHANGED allVars PROVE IInv'
    OBVIOUS
  <1> USE DEF allVars, vars, ghosts, IInv
  <1>1. TypeOK'
    BY DEF TypeOK
  <1>2. (CountsAreOfPass /\ PrePassReportsAreTrue)'
    BY DEF CountsAreOfPass, PrePassReportsAreTrue
  <1>3. (ClearsFollowPass /\ ClearsBeforeDrawsReported /\ InsideOnlyInPass /\ BeginsOutsidePass)'
    BY DEF ClearsFollowPass, ClearsBeforeDrawsReported, InsideOnlyInPass, BeginsOutsidePass, InPass
  <1>4. (LastPassRemembered /\ SmallDrawsCounted)'
    BY DEF LastPassRemembered, SmallDrawsCounted, SmallDrawsReportedOnce
  <1> QED BY <1>1, <1>2, <1>3, <1>4

LEMMA InvNext == IInv /\ [HistoryNext]_allVars => IInv'
  <1> SUFFICES ASSUME IInv, [HistoryNext]_allVars PROVE IInv'
    OBVIOUS
  <1>1. CASE HistoryBegin
    BY <1>1, InvBegin
  <1>2. CASE HistoryDrawIndirect
    BY <1>2, InvDrawIndirect
  <1>3. CASE HistoryOther
    BY <1>3, InvOther
  <1>4. CASE \E p \in Pass, fb \in Framebuffer : HistoryBeginPass(p, fb)
    BY <1>4, InvBeginPass
  <1>5. CASE \E c \in Counts : HistoryDraw(c) \/ HistoryDrawIndexed(c)
    BY <1>5, InvDraw, InvDrawIndexed
  <1>6. CASE \E A \in (SUBSET Aspect) \ {{}}, empty \in BOOLEAN : HistoryClear(A, empty)
    BY <1>6, InvClear
  <1>7. CASE UNCHANGED allVars
    BY <1>7, InvStutters
  <1> QED BY <1>1, <1>2, <1>3, <1>4, <1>5, <1>6, <1>7 DEF HistoryNext

(* The heuristics' counters stand for what was recorded, for any limits,    *)
(* passes and recordings.                                                  *)
THEOREM InvHolds == HistorySpec => []IInv
  BY InvInitially, InvNext, PTL DEF HistorySpec

---------------------------------------------------------------------------
(* A pre-pass is reported only of a pass with enough depth-only and enough *)
(* depth-equal draws: no count survives into another pass or recording.    *)
THEOREM PrePassReportsAreTrueHolds == HistorySpec => []PrePassReportsAreTrue
  <1>1. IInv => PrePassReportsAreTrue
    BY DEF IInv
  <1> QED BY <1>1, InvHolds, PTL

(* A clear in the first subpass is reported as made before any draw        *)
(* exactly when this pass has seen no direct draw.                         *)
THEOREM ClearsBeforeDrawsReportedHolds == HistorySpec => []ClearsBeforeDrawsReported
  <1>1. IInv => ClearsBeforeDrawsReported
    BY DEF IInv
  <1> QED BY <1>1, InvHolds, PTL

(* The warning of many small draws comes once in a recording, whatever the *)
(* limit, the draws and the recordings before: when the draws below the    *)
(* limit, at it, and wrapped around to at most it are together as many.    *)
THEOREM SmallDrawsReportedOnceHolds == HistorySpec => []SmallDrawsReportedOnce
  <1>1. IInv => SmallDrawsReportedOnce
    BY DEF IInv, SmallDrawsCounted
  <1> QED BY <1>1, InvHolds, PTL

(* The assertion of DepthPrePassHeuristic::cmdBeginRenderPass never fails. *)
THEOREM BeginsOutsidePassHolds == HistorySpec => []BeginsOutsidePass
  <1>1. IInv => BeginsOutsidePass
    BY DEF IInv
  <1> QED BY <1>1, InvHolds, PTL

(* The potential-subpass report is made of exactly the passes that follow  *)
(* one to the same framebuffer in the same recording.                      *)
THEOREM SubpassReportsAreTrueHolds == HistorySpec => SubpassReportsAreTrue
  <1>1. IInv /\ [HistoryNext]_allVars =>
            [\A p \in Pass, fb \in Framebuffer :
                CmdBeginRenderPass(p, fb) =>
                    ("POTENTIAL_SUBPASS" \in reports' <=> lastPass = fb)]_allVars
    <2> SUFFICES ASSUME IInv, NEW p \in Pass, NEW fb \in Framebuffer, CmdBeginRenderPass(p, fb)
                 PROVE  "POTENTIAL_SUBPASS" \in reports' <=> lastPass = fb
      OBVIOUS
    <2>1. lastPass = cb.lastFB
      BY DEF IInv, LastPassRemembered, CmdBeginRenderPass
    <2> QED BY <2>1 DEF CmdBeginRenderPass, Readback, Reported
  <1> QED BY <1>1, InvHolds, PTL DEF HistorySpec, SubpassReportsAreTrue
=============================================================================
