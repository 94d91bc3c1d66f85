-------------------------- MODULE CommandBufferProofs -------------------------
(***************************************************************************)
(* Proofs about CommandBuffer for any command buffers, render passes and   *)
(* bounds: what is recorded is replayed once and in order, the work of     *)
(* render passes is paired, and a full barrier drains every stage.         *)
(***************************************************************************)
EXTENDS CommandBufferHistory, QueueTrackerProofs, SequenceTheorems

(***************************************************************************)
(* Concatenations of sequences of sequences.                               *)
(***************************************************************************)

\* The running concatenations of the sequences of parts.
Sums(parts, S) ==
    {u \in [0 .. Len(parts) -> Seq(S)] :
        u[0] = <<>> /\ \A i \in 1 .. Len(parts) : u[i] = u[i - 1] \o parts[i]}

\* Any number of them can be formed, one after the other.
LEMMA SumsExist ==
    ASSUME NEW S, NEW parts \in Seq(Seq(S))
    PROVE  \E u : u \in Sums(parts, S)
<1> DEFINE Upto(n) == \E u \in [0 .. n -> Seq(S)] :
                          u[0] = <<>> /\ \A i \in 1 .. n : u[i] = u[i - 1] \o parts[i]
           G == {n \in 0 .. Len(parts) : Upto(n)}
<1>0. Len(parts) \in Nat /\ \A i \in 1 .. Len(parts) : parts[i] \in Seq(S)
  OBVIOUS
<1>1. 0 \in G
  <2>1. PICK u : u = [i \in 0 .. 0 |-> <<>>]
    OBVIOUS
  <2>2. u \in [0 .. 0 -> Seq(S)] /\ u[0] = <<>> /\ \A i \in 1 .. 0 : u[i] = u[i - 1] \o parts[i]
    BY <2>1
  <2>3. Upto(0)
    BY <2>2
  <2>4. 0 \in 0 .. Len(parts)
    BY <1>0
  <2> QED BY <2>3, <2>4
<1>2. ASSUME NEW n \in 0 .. Len(parts) - 1, n \in G PROVE n + 1 \in G
  <2>1. /\ n \in Nat /\ n + 1 \in 1 .. Len(parts) /\ n + 1 \in 0 .. Len(parts)
        /\ (n + 1) - 1 = n /\ parts[n + 1] \in Seq(S)
    BY <1>0
  <2>2. PICK u \in [0 .. n -> Seq(S)] :
            u[0] = <<>> /\ \A i \in 1 .. n : u[i] = u[i - 1] \o parts[i]
    BY <1>2
  <2>3. PICK w : w = [i \in 0 .. n + 1 |-> IF i = n + 1 THEN u[n] \o parts[n + 1] ELSE u[i]]
    OBVIOUS
  <2>4. u[n] \in Seq(S)
    BY <2>1, <2>2
  <2>5. u[n] \o parts[n + 1] \in Seq(S)
    BY <2>1, <2>4
  <2>6. w \in [0 .. n + 1 -> Seq(S)]
    BY <2>1, <2>2, <2>3, <2>5
  <2>7. w[n + 1] = u[n] \o parts[n + 1] /\ \A i \in 0 .. n : w[i] = u[i]
    BY <2>1, <2>3
  <2>8. w[0] = <<>>
    <3>1. 0 \in 0 .. n
      BY <2>1
    <3> QED BY <2>2, <2>7, <3>1
  <2>9. ASSUME NEW i \in 1 .. n + 1 PROVE w[i] = w[i - 1] \o parts[i]
    <3>1. i - 1 \in 0 .. n /\ (i # n + 1 => i \in 1 .. n /\ i \in 0 .. n)
      BY <2>1
    <3>2. w[i - 1] = u[i - 1]
      BY <2>7, <3>1
    <3>3. CASE i = n + 1
      BY <2>1, <2>7, <3>2, <3>3
    <3>4. CASE i # n + 1
      BY <2>2, <2>7, <3>1, <3>2, <3>4
    <3> QED BY <3>3, <3>4
  <2>10. Upto(n + 1)
    BY <2>6, <2>8, <2>9
  <2> QED BY <2>1, <2>10
<1> HIDE DEF G
<1>3. \A n \in 0 .. Len(parts) : n \in G
  BY <1>0, <1>1, <1>2, InductionUpTo
<1>4. Len(parts) \in 0 .. Len(parts)
  BY <1>0
<1>5. Upto(Len(parts))
  BY <1>3, <1>4 DEF G
<1> QED BY <1>5 DEF Sums

\* FlattenSeq returns the last of them.
LEMMA FlattenIsSum ==
    ASSUME NEW S, NEW parts \in Seq(Seq(S))
    PROVE  \E u \in Sums(parts, S) : FlattenSeq(parts) = u[Len(parts)]
<1>0. Len(parts) \in Nat /\ \A i \in 1 .. Len(parts) : parts[i] \in Seq(S)
  OBVIOUS
<1>1. PICK u : u \in Sums(parts, S)
  BY SumsExist
<1>2. u[0] = <<>> /\ \A i \in 1 .. Len(parts) : u[i] = u[i - 1] \o parts[i]
  BY <1>1 DEF Sums
<1>3. CASE Len(parts) = 0
  <2>1. FlattenSeq(parts) = <<>>
    BY <1>3 DEF FlattenSeq
  <2> QED BY <1>1, <1>2, <1>3, <2>1
<1>4. CASE Len(parts) # 0
  <2> DEFINE Step(f) == [i \in 1 .. Len(parts) |->
                            IF i = 1 THEN parts[i] ELSE f[i - 1] \o parts[i]]
  <2>1. \A i \in 1 .. Len(parts) : u[i] = IF i = 1 THEN parts[i] ELSE u[i - 1] \o parts[i]
    <3>1. ASSUME NEW i \in 1 .. Len(parts), i = 1 PROVE u[i] = parts[i]
      <4>1. 1 \in 1 .. Len(parts) /\ 1 - 1 = 0
        BY <1>0, <3>1
      <4>2. u[1] = u[1 - 1] \o parts[1] /\ parts[1] \in Seq(S)
        BY <1>0, <1>2, <4>1
      <4>3. u[1] = <<>> \o parts[1]
        BY <1>2, <4>1, <4>2
      <4> QED BY <3>1, <4>2, <4>3, ConcatEmptySeq
    <3> QED BY <1>2, <3>1
  <2>2. \E f : f = Step(f)
    <3>1. PICK f : f = [i \in 1 .. Len(parts) |-> u[i]]
      OBVIOUS
    <3>2. f = Step(f)
      BY <1>0, <2>1, <3>1
    <3> QED BY <3>2
  <2>3. PICK f : f = (CHOOSE g : g = Step(g)) /\ f = Step(f)
    BY <2>2
  <2>4. FlattenSeq(parts) = f[Len(parts)]
    BY <1>4, <2>3 DEF FlattenSeq
  <2>5. \A i \in 1 .. Len(parts) : f[i] = IF i = 1 THEN parts[i] ELSE f[i - 1] \o parts[i]
    BY <2>3
  <2> HIDE DEF Step
  <2>6. PICK G : G = {0} \cup {n \in 1 .. Len(parts) : f[n] = u[n]}
    OBVIOUS
  <2>7. ASSUME NEW n \in 0 .. Len(parts) - 1, n \in G PROVE n + 1 \in G
    <3>1. n + 1 \in 1 .. Len(parts) /\ (n + 1) - 1 = n
      BY <1>0
    <3>2. f[n + 1] = u[n + 1]
      BY <1>0, <2>1, <2>5, <2>6, <2>7, <3>1
    <3> QED BY <2>6, <3>1, <3>2
  <2>8. \A n \in 0 .. Len(parts) : n \in G
    BY <1>0, <2>6, <2>7, InductionUpTo
  <2>9. Len(parts) \in 1 .. Len(parts)
    BY <1>0, <1>4
  <2>10. f[Len(parts)] = u[Len(parts)]
    BY <1>0, <1>4, <2>6, <2>8, <2>9
  <2> QED BY <1>1, <2>4, <2>10
<1> QED BY <1>3, <1>4

\* Concatenation is associative.
LEMMA Associative == \A S : \A a, b, c \in Seq(S) : (a \o b) \o c = a \o (b \o c)
BY ConcatAssociative

\* Each is a prefix of the last.
LEMMA SumsArePrefixes ==
    ASSUME NEW S, NEW parts \in Seq(Seq(S)), NEW u \in Sums(parts, S), NEW k \in 0 .. Len(parts)
    PROVE  \E rest \in Seq(S) : u[Len(parts)] = u[k] \o rest
<1>0. Len(parts) \in Nat /\ \A i \in 1 .. Len(parts) : parts[i] \in Seq(S)
  OBVIOUS
<1>1. /\ \A i \in 0 .. Len(parts) : u[i] \in Seq(S)
      /\ \A i \in 1 .. Len(parts) : u[i] = u[i - 1] \o parts[i]
  BY DEF Sums
<1>2. PICK G : G = {m \in Nat : m <= Len(parts) - k /\ \E rest \in Seq(S) : u[k + m] = u[k] \o rest}
  OBVIOUS
<1>3. 0 \in G
  <2>1. u[k] = u[k] \o <<>> /\ <<>> \in Seq(S) /\ k + 0 = k
    BY <1>0, <1>1
  <2>2. \E rest \in Seq(S) : u[k + 0] = u[k] \o rest
    BY <2>1
  <2> QED BY <1>0, <1>2, <2>2
<1>4. ASSUME NEW m \in 0 .. (Len(parts) - k) - 1, m \in G PROVE m + 1 \in G
  <2>1. /\ m \in Nat /\ m + 1 \in Nat /\ m + 1 <= Len(parts) - k
        /\ k + (m + 1) \in 1 .. Len(parts) /\ (k + (m + 1)) - 1 = k + m
    BY <1>0
  <2>2. PICK rest \in Seq(S) : u[k + m] = u[k] \o rest
    BY <1>2, <1>4
  <2>3. u[k + (m + 1)] = (u[k] \o rest) \o parts[k + (m + 1)]
    BY <1>1, <2>1, <2>2
  <2>4. parts[k + (m + 1)] \in Seq(S) /\ u[k] \in Seq(S)
    BY <1>0, <1>1, <2>1
  <2>5. u[k + (m + 1)] = u[k] \o (rest \o parts[k + (m + 1)])
    <3>1. PICK b \in Seq(S) : b = u[k]
      BY <2>4
    <3>2. PICK p \in Seq(S) : p = parts[k + (m + 1)]
      BY <2>4
    <3>3. (b \o rest) \o p = b \o (rest \o p)
      BY Associative, SMTT(30)
    <3> QED BY <2>3, <3>1, <3>2, <3>3
  <2>6. rest \o parts[k + (m + 1)] \in Seq(S)
    BY <2>2, <2>4
  <2> QED BY <1>2, <2>1, <2>5, <2>6
<1>5. Len(parts) - k \in Nat /\ k + (Len(parts) - k) = Len(parts)
  BY <1>0
<1>6. Len(parts) - k \in G
  <2>1. PICK N \in Nat : N = Len(parts) - k
    BY <1>5
  <2>2. \A m \in 0 .. N : m \in G
    BY <1>3, <1>4, <2>1, InductionUpTo
  <2> QED BY <2>1, <2>2
<1> QED BY <1>2, <1>5, <1>6

(***************************************************************************)
(* The inductive invariant.                                                *)
(***************************************************************************)

Call == [call : {"pushWork"}, stage : Stage]
            \cup [call : {"pipelineBarrier"}, src : SUBSET Stage, dst : SUBSET Stage]

\* The functions of a secondary buffer; a primary buffer executes those, too.
PlainFunction ==
    [op : {"work"}, stage : WorkStages]
        \cup [op : {"barrier"}, src : {m[1] : m \in BarrierMasks}, dst : {m[2] : m \in BarrierMasks}]
        \cup [op : {"beginPass", "endPass"}, pass : RenderPass]

Function == PlainFunction \cup [op : {"execute"}, cb : Secondary]

RecordTypeOK ==
    /\ currentRenderPass \in [CB -> RenderPass \cup {NoPass}]
    /\ status \in [CB -> {"initial", "recording", "executable"}]
    /\ replayed \in [CB -> BOOLEAN]
    /\ recorded \in [CB -> Seq(Function)]
    /\ \A s \in Secondary : recorded[s] \in Seq(PlainFunction)
    /\ calls \in Seq(Call) /\ performed \in Seq(Call)

\* A list holds what was recorded until it is replayed, and is empty from then on; a
\* buffer is not recorded into once it has been replayed, since no buffer that may
\* be submitted executes one that is not executable.
RecordInv ==
    /\ RecordTypeOK
    /\ deferredFunctions = [cb \in CB |-> Unreplayed(cb)]
    /\ \A cb \in CB : status[cb] = "recording" => ~ replayed[cb]
    /\ \A p \in Primary : \A i \in DOMAIN deferredFunctions[p] :
           status[p] # "initial" /\ deferredFunctions[p][i].op = "execute"
               => status[deferredFunctions[p][i].cb] = "executable"

\* The calls function i of a list owes.
PartOf(fs, i) ==
    IF fs[i].op # "execute" THEN CallsOf(fs[i])
    ELSE IF FirstUse(fs, i) THEN CallsOfAll(Unreplayed(fs[i].cb)) ELSE <<>>

CallParts(fs) == [i \in DOMAIN fs |-> CallsOf(fs[i])]

\* A submission of p whose functions before n are done owes u, the parts of its
\* functions one after the other: those from n on are still to come, and the
\* secondary buffers executed before n have been replayed.
Submission(p, n, parts, u) ==
    /\ status[p] = "executable"
    /\ Len(parts) = Len(deferredFunctions[p])
    /\ owed = u[Len(parts)]
    /\ \A i \in n .. Len(parts) : parts[i] = PartOf(deferredFunctions[p], i)
    /\ \A i \in 1 .. n - 1 : deferredFunctions[p][i].op = "execute"
                                 => replayed[deferredFunctions[p][i].cb]

\* The calls made, and those the current function has still to make, are the parts
\* of the functions before n,
Outside(p, n, u) ==
    /\ running = <<[cb |-> p, next |-> n]>>
    /\ performed \o calls = u[n - 1]

\* and the parts of the functions before k of the secondary buffer n executes.
Inside(p, n, s, k, parts, u, v) ==
    /\ running = <<[cb |-> p, next |-> n + 1], [cb |-> s, next |-> k]>>
    /\ n \in 1 .. Len(deferredFunctions[p])
    /\ deferredFunctions[p][n] = [op |-> "execute", cb |-> s]
    /\ parts[n] = v[Len(deferredFunctions[s])]
    /\ performed \o calls = u[n - 1] \o v[k - 1]

Progress(p, n, parts, u) ==
    /\ Submission(p, n, parts, u)
    /\ \/ Outside(p, n, u)
       \/ \E s \in Secondary : \E k \in 1 .. Len(deferredFunctions[s]) + 1 :
              \E v \in Sums(CallParts(deferredFunctions[s]), Call) : Inside(p, n, s, k, parts, u, v)

Ledger ==
    \/ running = <<>> /\ calls = <<>> /\ performed = owed
    \/ \E p \in Primary : \E n \in 1 .. Len(deferredFunctions[p]) + 1 :
           \E parts \in Seq(Seq(Call)) : \E u \in Sums(parts, Call) : Progress(p, n, parts, u)

\* Fragment and geometry work between two functions, and while a pass is begun.
Paired == index[FRAGMENT] = index[GEOMETRY] /\ waitList[FRAGMENT][GEOMETRY] = index[GEOMETRY]

PairInv ==
    \/ Paired /\ calls = <<>>
    \/ Paired /\ \E c \in Call : /\ c.call = "pushWork" => c.stage \in WorkStages
                                 /\ calls = <<c>>
    \/ Paired /\ \E c \in Call : /\ c.call = "pipelineBarrier"
                                 /\ calls = <<c, Push(GEOMETRY), Barrier({GEOMETRY}, {FRAGMENT}),
                                              Push(FRAGMENT)>>
    \/ Paired /\ calls = <<Push(GEOMETRY), Barrier({GEOMETRY}, {FRAGMENT}), Push(FRAGMENT)>>
    \/ /\ index[FRAGMENT] + 1 = index[GEOMETRY]
       /\ calls = <<Barrier({GEOMETRY}, {FRAGMENT}), Push(FRAGMENT)>>
    \/ /\ index[FRAGMENT] + 1 = index[GEOMETRY]
       /\ waitList[FRAGMENT][GEOMETRY] = index[GEOMETRY]
       /\ calls = <<Push(FRAGMENT)>>

\* A submission that ends in a full barrier has it ahead, is about to make its call,
\* or has made it.
Drained == \A d, t \in Stage : waitList[d][t] = index[t]

AtItsEnd == Len(running) = 1 /\ running[1].next = Len(deferredFunctions[running[1].cb]) + 1

DrainInv ==
    drains =>
        \/ /\ running # <<>>
           /\ running[1].next <= Len(deferredFunctions[running[1].cb])
           /\ EndsInFullBarrier(deferredFunctions[running[1].cb])
        \/ AtItsEnd /\ calls = <<Barrier(Stage, Stage)>>
        \/ (running = <<>> \/ AtItsEnd) /\ calls = <<>> /\ Drained

CBInv == TrackerInv /\ RecordInv /\ Ledger /\ PairInv /\ DrainInv

(***************************************************************************)
(* The calls of functions.                                                 *)
(***************************************************************************)

\* The calls of a function that is not "execute" are calls of the tracker.
LEMMA CallsTyped == \A f \in PlainFunction : CallsOf(f) \in Seq(Call)
<1>1. \A m : SrcStages(m) \in SUBSET Stage /\ DstStages(m) \in SUBSET Stage
  BY DEF SrcStages, DstStages, vkStagesToTracker
<1>2. \A S, D \in SUBSET Stage : Barrier(S, D) \in Call
  BY DEF Barrier, Call
<1>3. \A s \in Stage : Push(s) \in Call
  BY DEF Push, Call
<1>4. \A deps : Merged(deps) \in Call
  <2> SUFFICES ASSUME NEW deps PROVE Merged(deps) \in Call
    OBVIOUS
  <2>1. UNION {SrcStages(d[1]) : d \in deps} \in SUBSET Stage
    BY <1>1
  <2>2. UNION {DstStages(d[2]) : d \in deps} \in SUBSET Stage
    BY <1>1
  <2> QED BY <1>2, <2>1, <2>2 DEF Merged
<1> SUFFICES ASSUME NEW f \in PlainFunction PROVE CallsOf(f) \in Seq(Call)
  OBVIOUS
<1>5. CASE f.op = "work"
  <2>1. f.stage \in Stage
    BY <1>5, WorkAssumption, StageNames DEF PlainFunction
  <2>2. CallsOf(f) = <<Push(f.stage)>>
    BY <1>5 DEF CallsOf
  <2> QED BY <1>3, <2>1, <2>2
<1>6. CASE f.op = "barrier"
  <2>1. CallsOf(f) = <<Barrier(SrcStages(f.src), DstStages(f.dst))>>
    BY <1>6 DEF CallsOf
  <2> QED BY <1>1, <1>2, <2>1
<1>7. CASE f.op = "beginPass"
  <2>1. CallsOf(f) = <<Merged(ExternalIn[f.pass]), Push(GEOMETRY),
                       Barrier({GEOMETRY}, {FRAGMENT}), Push(FRAGMENT)>>
    BY <1>7 DEF CallsOf
  <2>2. GEOMETRY \in Stage /\ FRAGMENT \in Stage
    BY StageNames
  <2> QED BY <1>2, <1>3, <1>4, <2>1, <2>2
<1>8. CASE f.op = "endPass"
  <2>1. CallsOf(f) = <<Merged(ExternalOut[f.pass])>>
    BY <1>8 DEF CallsOf
  <2> QED BY <1>4, <2>1
<1> QED BY <1>5, <1>6, <1>7, <1>8 DEF PlainFunction

\* A list of plain functions owes the concatenation of their calls.
LEMMA PartsTyped ==
    ASSUME NEW fs \in Seq(PlainFunction)
    PROVE  /\ CallParts(fs) \in Seq(Seq(Call)) /\ Len(CallParts(fs)) = Len(fs)
           /\ \A i \in 1 .. Len(fs) : CallParts(fs)[i] = CallsOf(fs[i])
           /\ \E v \in Sums(CallParts(fs), Call) : CallsOfAll(fs) = v[Len(fs)]
<1>1. /\ Len(fs) \in Nat /\ DOMAIN fs = 1 .. Len(fs)
      /\ \A i \in 1 .. Len(fs) : CallsOf(fs[i]) \in Seq(Call)
  BY CallsTyped
<1>2. CallParts(fs) = [i \in 1 .. Len(fs) |-> CallsOf(fs[i])]
  BY <1>1 DEF CallParts
<1>3. CallParts(fs) \in Seq(Seq(Call)) /\ Len(CallParts(fs)) = Len(fs)
  BY <1>1, <1>2
<1>4. CallsOfAll(fs) = FlattenSeq(CallParts(fs))
  BY DEF CallsOfAll, CallParts
<1> QED BY <1>1, <1>2, <1>3, <1>4, FlattenIsSum

\* Buffers keep plain functions while they wait to be executed.
LEMMA UnreplayedTyped ==
    ASSUME RecordTypeOK
    PROVE  /\ \A cb \in CB : Unreplayed(cb) \in Seq(Function)
           /\ \A s \in Secondary : Unreplayed(s) \in Seq(PlainFunction)
BY DEF RecordTypeOK, Unreplayed, CB

\* What a function owes is a sequence of calls.
LEMMA PartTyped ==
    ASSUME RecordTypeOK, NEW fs \in Seq(Function), NEW i \in 1 .. Len(fs)
    PROVE  PartOf(fs, i) \in Seq(Call)
<1>1. fs[i] \in Function
  OBVIOUS
<1>2. CASE fs[i].op # "execute"
  <2>1. fs[i] \in PlainFunction
    BY <1>1, <1>2 DEF Function
  <2> QED BY <1>2, <2>1, CallsTyped DEF PartOf
<1>3. CASE fs[i].op = "execute"
  <2>1. fs[i].cb \in Secondary
    BY <1>1, <1>3 DEF Function, PlainFunction
  <2>2. PICK gs : gs = Unreplayed(fs[i].cb) /\ gs \in Seq(PlainFunction)
    BY <2>1, UnreplayedTyped
  <2>3. PICK v \in Sums(CallParts(gs), Call) : CallsOfAll(gs) = v[Len(gs)]
    BY <2>2, PartsTyped
  <2>4. CallsOfAll(gs) \in Seq(Call)
    <3>1. v \in [0 .. Len(CallParts(gs)) -> Seq(Call)]
      BY <2>3 DEF Sums
    <3>2. Len(CallParts(gs)) = Len(gs) /\ Len(gs) \in Nat
      BY <2>2, PartsTyped
    <3>3. Len(gs) \in 0 .. Len(CallParts(gs))
      BY <3>2
    <3> QED BY <2>3, <3>1, <3>3
  <2> QED BY <1>3, <2>2, <2>4 DEF PartOf
<1> QED BY <1>2, <1>3

(***************************************************************************)
(* Recording.                                                              *)
(***************************************************************************)

\* It holds before anything is recorded.
LEMMA InitCBInv == HistoryInit => CBInv
<1> SUFFICES ASSUME HistoryInit PROVE CBInv
  OBVIOUS
<1>1. TrackerInv
  BY InitInv DEF HistoryInit, CBInit
<1>2. RecordInv
  BY DEF HistoryInit, CBInit, RecordInv, RecordTypeOK, Unreplayed, CB
<1>3. Ledger
  BY DEF HistoryInit, CBInit, Ledger
<1>4. PairInv
  BY StageNames DEF HistoryInit, CBInit, Init, PairInv, Paired
<1>5. DrainInv
  BY DEF HistoryInit, DrainInv
<1> QED BY <1>1, <1>2, <1>3, <1>4, <1>5 DEF CBInv

\* Whatever does not touch the tracker or the replay while nothing is submitted.
LEMMA Elsewhere ==
    ASSUME CBInv, LockFree, RecordInv', UNCHANGED <<vars, replayVars, owed, performed, drains>>
    PROVE  CBInv'
<1>1. running = <<>> /\ calls = <<>> /\ performed = owed
  <2>1. running = <<>>
    BY DEF LockFree
  <2>2. \A p, n, parts, u : ~ Progress(p, n, parts, u)
    BY <2>1 DEF Progress, Outside, Inside
  <2> QED BY <2>1, <2>2 DEF CBInv, Ledger
<1>2. Ledger'
  BY <1>1 DEF Ledger, replayVars
<1>3. UNCHANGED <<waitList, index, lastDstStageIndex, bubbles, calls, running, drains>>
  BY DEF vars, replayVars
<1>4. TrackerInv' /\ PairInv'
  BY <1>3 DEF CBInv, TrackerInv, TypeOK, WaitsForSubmittedWork, LatchedInThePast, PairInv, Paired
<1>5. DrainInv'
  BY <1>1, <1>3 DEF CBInv, DrainInv, Drained, AtItsEnd
<1> QED BY <1>2, <1>4, <1>5 DEF CBInv

\* Beginning a buffer empties its list and leaves none that executes it executable.
LEMMA BeginInv ==
    ASSUME CBInv, NEW cb \in CB, NEW pass \in RenderPass \cup {NoPass}, BeginCommandBuffer(cb, pass),
           recorded' = [recorded EXCEPT ![cb] = <<>>],
           replayed' = [replayed EXCEPT ![cb] = FALSE],
           UNCHANGED <<owed, performed, drains>>
    PROVE  CBInv'
<1>1. RecordInv
  BY DEF CBInv
<1>2. /\ LockFree
      /\ status' = [c \in CB |-> IF c = cb THEN "recording"
                                 ELSE IF c \in Users(cb) THEN "initial" ELSE status[c]]
      /\ deferredFunctions' = [deferredFunctions EXCEPT ![cb] = <<>>]
      /\ currentRenderPass' = [currentRenderPass EXCEPT ![cb] = pass]
      /\ UNCHANGED <<vars, replayVars>> /\ UNCHANGED calls
  BY DEF BeginCommandBuffer, replayVars
<1>3. RecordTypeOK'
  BY <1>1, <1>2 DEF RecordInv, RecordTypeOK
<1>4. deferredFunctions' = [c \in CB |-> Unreplayed(c)]'
  BY <1>1, <1>2 DEF RecordInv, RecordTypeOK, Unreplayed
<1>5. \A c \in CB : status'[c] = "recording" => ~ replayed'[c]
  BY <1>1, <1>2 DEF RecordInv, RecordTypeOK
<1>6. ASSUME NEW p \in Primary, NEW i \in DOMAIN deferredFunctions'[p],
             status'[p] # "initial", deferredFunctions'[p][i].op = "execute"
      PROVE  status'[deferredFunctions'[p][i].cb] = "executable"
  <2>1. p \in CB /\ deferredFunctions \in [CB -> Seq(Function)]
    <3>1. RecordTypeOK /\ deferredFunctions = [c \in CB |-> Unreplayed(c)]
      BY <1>1 DEF RecordInv
    <3> QED BY <3>1, UnreplayedTyped DEF CB
  <2>2. p # cb
    BY <1>2, <1>6, <2>1
  <2>3. deferredFunctions'[p] = deferredFunctions[p] /\ p \notin Users(cb) /\ status'[p] = status[p]
    BY <1>2, <1>6, <2>1, <2>2
  <2>4. PICK f : f = deferredFunctions[p][i]
    OBVIOUS
  <2>5. f \in Function /\ f.op = "execute" /\ i \in DOMAIN deferredFunctions[p]
    BY <1>6, <2>1, <2>3, <2>4
  <2>6. f.cb \in Secondary /\ f = [op |-> "execute", cb |-> f.cb]
    BY <2>5 DEF Function, PlainFunction
  <2>7. f.cb # cb
    BY <2>3, <2>4, <2>5, <2>6 DEF Users
  <2>8. f.cb \in CB /\ f.cb \notin Users(cb) /\ status[f.cb] = "executable"
    BY <1>1, <1>6, <2>3, <2>4, <2>5, <2>6, LevelsDisjoint DEF RecordInv, CB, Users
  <2> QED BY <1>2, <2>3, <2>4, <2>7, <2>8
<1>7. RecordInv'
  BY <1>3, <1>4, <1>5, <1>6 DEF RecordInv
<1> QED BY <1>2, <1>7, Elsewhere

\* Each command appends one function to the list of a buffer being recorded.
LEMMA RecordedFunctions ==
    ASSUME CBInv, NEW cb \in CB, RecordsInto(cb)
    PROVE  /\ LockFree /\ status[cb] = "recording"
           /\ UNCHANGED <<vars, status, replayVars>>
           /\ \E f \in Function :
                  /\ cb \in Secondary => f \in PlainFunction
                  /\ f.op = "execute" => status[f.cb] = "executable"
                  /\ deferredFunctions' = [deferredFunctions EXCEPT ![cb] = Append(@, f)]
           /\ currentRenderPass' \in [CB -> RenderPass \cup {NoPass}]
<1>0. currentRenderPass \in [CB -> RenderPass \cup {NoPass}]
  BY DEF CBInv, RecordInv, RecordTypeOK
<1>1. ASSUME NEW stage \in WorkStages, CmdWork(cb, stage)
      PROVE  enqueueDeferredFunction(cb, [op |-> "work", stage |-> stage])
             /\ [op |-> "work", stage |-> stage] \in PlainFunction
             /\ currentRenderPass' = currentRenderPass
  BY <1>1 DEF CmdWork, PlainFunction
<1>2. ASSUME NEW masks \in BarrierMasks, CmdPipelineBarrier(cb, masks[1], masks[2])
      PROVE  enqueueDeferredFunction(cb, [op |-> "barrier", src |-> masks[1], dst |-> masks[2]])
             /\ [op |-> "barrier", src |-> masks[1], dst |-> masks[2]] \in PlainFunction
             /\ currentRenderPass' = currentRenderPass
  BY <1>2 DEF CmdPipelineBarrier, PlainFunction
<1>3. ASSUME NEW pass \in RenderPass, CmdBeginRenderPass(cb, pass)
      PROVE  enqueueDeferredFunction(cb, [op |-> "beginPass", pass |-> pass])
             /\ [op |-> "beginPass", pass |-> pass] \in PlainFunction
             /\ currentRenderPass' \in [CB -> RenderPass \cup {NoPass}]
  BY <1>0, <1>3 DEF CmdBeginRenderPass, PlainFunction
<1>4. ASSUME CmdEndRenderPass(cb)
      PROVE  enqueueDeferredFunction(cb, [op |-> "endPass", pass |-> currentRenderPass[cb]])
             /\ [op |-> "endPass", pass |-> currentRenderPass[cb]] \in PlainFunction
             /\ currentRenderPass' \in [CB -> RenderPass \cup {NoPass}]
  BY <1>0, <1>4 DEF CmdEndRenderPass, PlainFunction
<1>5. ASSUME NEW s \in Secondary, CmdExecuteCommands(cb, s)
      PROVE  enqueueDeferredFunction(cb, [op |-> "execute", cb |-> s])
             /\ [op |-> "execute", cb |-> s] \in Function
             /\ cb \notin Secondary /\ status[s] = "executable"
             /\ currentRenderPass' = currentRenderPass
  BY <1>5, LevelsDisjoint DEF CmdExecuteCommands, Function
<1>6. \E f \in Function : /\ enqueueDeferredFunction(cb, f)
                          /\ cb \in Secondary => f \in PlainFunction
                          /\ f.op = "execute" => status[f.cb] = "executable"
                          /\ currentRenderPass' \in [CB -> RenderPass \cup {NoPass}]
  <2>1. PlainFunction \subseteq Function /\ \A f \in PlainFunction : f.op # "execute"
    BY DEF Function, PlainFunction
  <2>2. CASE \E stage \in WorkStages : CmdWork(cb, stage)
    BY <1>0, <1>1, <2>1, <2>2
  <2>3. CASE \E masks \in BarrierMasks : CmdPipelineBarrier(cb, masks[1], masks[2])
    BY <1>0, <1>2, <2>1, <2>3
  <2>4. CASE \E pass \in RenderPass : CmdBeginRenderPass(cb, pass)
    BY <1>3, <2>1, <2>4
  <2>5. CASE CmdEndRenderPass(cb)
    BY <1>4, <2>1, <2>5
  <2>6. CASE \E s \in Secondary : CmdExecuteCommands(cb, s)
    BY <1>0, <1>5, <2>6
  <2> QED BY <2>2, <2>3, <2>4, <2>5, <2>6 DEF RecordsInto
<1> QED BY <1>6 DEF enqueueDeferredFunction, Recording

\* A recorded function joins both the list and what was recorded.
LEMMA RecordsIntoInv ==
    ASSUME CBInv, NEW cb \in CB, RecordsInto(cb),
           recorded' = [recorded EXCEPT ![cb] = Append(@, Last(deferredFunctions'[cb]))],
           UNCHANGED <<replayed, owed, performed, drains>>
    PROVE  CBInv'
<1>1. RecordInv
  BY DEF CBInv
<1>2. /\ LockFree /\ status[cb] = "recording" /\ ~ replayed[cb]
      /\ UNCHANGED <<vars, status, replayVars>> /\ UNCHANGED calls
      /\ currentRenderPass' \in [CB -> RenderPass \cup {NoPass}]
  BY <1>1, RecordedFunctions DEF RecordInv, replayVars
<1>3. PICK f \in Function :
          /\ cb \in Secondary => f \in PlainFunction
          /\ f.op = "execute" => status[f.cb] = "executable"
          /\ deferredFunctions' = [deferredFunctions EXCEPT ![cb] = Append(@, f)]
  BY RecordedFunctions
<1>4. /\ recorded \in [CB -> Seq(Function)] /\ deferredFunctions \in [CB -> Seq(Function)]
      /\ deferredFunctions[cb] = recorded[cb]
      /\ deferredFunctions = [c \in CB |-> Unreplayed(c)]
  BY <1>1, <1>2, UnreplayedTyped DEF RecordInv, RecordTypeOK, Unreplayed
<1>5. Last(deferredFunctions'[cb]) = f
  BY <1>3, <1>4 DEF Last
<1>6. recorded' = [recorded EXCEPT ![cb] = Append(@, f)]
  BY <1>5
<1>7. RecordTypeOK'
  BY <1>1, <1>2, <1>3, <1>4, <1>6 DEF RecordInv, RecordTypeOK
<1>8. deferredFunctions' = [c \in CB |-> Unreplayed(c)]'
  <2>1. ASSUME NEW c \in CB PROVE deferredFunctions'[c] = Unreplayed(c)'
    <3>1. deferredFunctions[c] = IF replayed[c] THEN <<>> ELSE recorded[c]
      BY <1>4 DEF Unreplayed
    <3>2. CASE c = cb
      BY <1>2, <1>3, <1>4, <1>6, <3>2 DEF Unreplayed
    <3>3. CASE c # cb
      BY <1>3, <1>4, <1>6, <3>1, <3>3 DEF Unreplayed
    <3> QED BY <3>2, <3>3
  <2>2. deferredFunctions' = [c \in CB |-> deferredFunctions'[c]]
    BY <1>3, <1>4
  <2> QED BY <2>1, <2>2
<1>9. \A c \in CB : status'[c] = "recording" => ~ replayed'[c]
  BY <1>1, <1>2 DEF RecordInv
<1>10. ASSUME NEW p \in Primary, NEW i \in DOMAIN deferredFunctions'[p],
              status'[p] # "initial", deferredFunctions'[p][i].op = "execute"
       PROVE  status'[deferredFunctions'[p][i].cb] = "executable"
  <2>1. p \in CB /\ status' = status
    BY <1>2 DEF CB
  <2>2. \/ i \in DOMAIN deferredFunctions[p] /\ deferredFunctions'[p][i] = deferredFunctions[p][i]
        \/ deferredFunctions'[p][i] = f
    BY <1>3, <1>4, <1>10, <2>1
  <2> QED BY <1>1, <1>3, <1>10, <2>1, <2>2 DEF RecordInv
<1>11. RecordInv'
  BY <1>7, <1>8, <1>9, <1>10 DEF RecordInv
<1> QED BY <1>2, <1>11, Elsewhere

\* A buffer that ends is executable with the list it has.
LEMMA EndInv ==
    ASSUME CBInv, NEW cb \in CB, EndCommandBuffer(cb), UNCHANGED history
    PROVE  CBInv'
<1>1. /\ LockFree /\ status[cb] = "recording" /\ status' = [status EXCEPT ![cb] = "executable"]
      /\ UNCHANGED <<vars, deferredFunctions, currentRenderPass, calls>> /\ UNCHANGED replayVars
      /\ UNCHANGED <<recorded, replayed, owed, performed, drains>>
  BY DEF EndCommandBuffer, Recording, history, replayVars
<1>2. RecordInv
  BY DEF CBInv
<1>3. RecordTypeOK' /\ deferredFunctions' = [c \in CB |-> Unreplayed(c)]'
  BY <1>1, <1>2 DEF RecordInv, RecordTypeOK, Unreplayed
<1>4. \A c \in CB : status'[c] = "recording" => ~ replayed'[c]
  BY <1>1, <1>2 DEF RecordInv, RecordTypeOK
<1>5. ASSUME NEW p \in Primary, NEW i \in DOMAIN deferredFunctions'[p],
             status'[p] # "initial", deferredFunctions'[p][i].op = "execute"
      PROVE  status'[deferredFunctions'[p][i].cb] = "executable"
  <2>1. status[p] # "initial" /\ status \in [CB -> {"initial", "recording", "executable"}]
    BY <1>1, <1>2, <1>5 DEF CB, RecordInv, RecordTypeOK
  <2>2. status[deferredFunctions[p][i].cb] = "executable"
    BY <1>1, <1>2, <1>5, <2>1 DEF RecordInv
  <2> QED BY <1>1, <2>1, <2>2
<1>6. RecordInv'
  BY <1>3, <1>4, <1>5 DEF RecordInv
<1> QED BY <1>1, <1>6, Elsewhere

(***************************************************************************)
(* Replaying: the ledger.                                                  *)
(***************************************************************************)

\* Pairs as sequences.
LEMMA FirstOfPair ==
    ASSUME NEW a, NEW b PROVE SubSeq(<<a, b>>, 1, 1) = <<a>>
<1>1. PICK s : s = SubSeq(<<a, b>>, 1, 1)
  OBVIOUS
<1>2. <<a, b>> \in Seq({a, b}) /\ Len(<<a, b>>) = 2
  OBVIOUS
<1>3. s \in Seq({a, b}) /\ Len(s) = 1 /\ s[1] = a
  BY <1>1, <1>2, SubSeqProperties
<1>4. <<a>> \in Seq({a, b}) /\ Len(<<a>>) = 1 /\ <<a>>[1] = a
  OBVIOUS
<1>5. \A i \in 1 .. Len(s) : s[i] = <<a>>[i]
  BY <1>3, <1>4
<1> QED BY <1>1, <1>3, <1>4, <1>5, SeqEqual

\* A sequence of one extended to two.
LEMMA MakePair ==
    ASSUME NEW a, NEW b PROVE Append(<<a>>, b) = <<a, b>>
<1>1. PICK s : s = Append(<<a>>, b)
  OBVIOUS
<1>2. <<a>> \in Seq({a, b}) /\ Len(<<a>>) = 1
  OBVIOUS
<1>3. s \in Seq({a, b}) /\ Len(s) = 2 /\ s[1] = a /\ s[2] = b
  BY <1>1, <1>2, AppendProperties
<1>4. <<a, b>> \in Seq({a, b}) /\ Len(<<a, b>>) = 2 /\ <<a, b>>[1] = a /\ <<a, b>>[2] = b
  OBVIOUS
<1>5. \A i \in 1 .. Len(s) : s[i] = <<a, b>>[i]
  BY <1>3, <1>4
<1> QED BY <1>1, <1>3, <1>4, <1>5, SeqEqual

\* The loops in progress: of a primary buffer, or of a secondary one inside it.
LEMMA OneFrame ==
    ASSUME NEW p, NEW n \in Nat, running = <<[cb |-> p, next |-> n]>>
    PROVE  /\ Top = [cb |-> p, next |-> n] /\ Functions = deferredFunctions[p]
           /\ Advanced = <<[cb |-> p, next |-> n + 1]>> /\ Front(running) = <<>>
           /\ \A f : Append(Advanced, f) = <<[cb |-> p, next |-> n + 1], f>>
<1>1. PICK r : r = running /\ r = <<[cb |-> p, next |-> n]>>
  OBVIOUS
<1>2. Len(r) = 1 /\ r[1] = [cb |-> p, next |-> n] /\ SubSeq(r, 1, Len(r) - 1) = <<>>
  BY <1>1
<1>3. [r EXCEPT ![1].next = @ + 1] = <<[cb |-> p, next |-> n + 1]>>
  BY <1>1
<1>4. Top = [cb |-> p, next |-> n] /\ Front(running) = <<>>
  BY <1>1, <1>2 DEF Top, Last, Front
<1>5. Advanced = <<[cb |-> p, next |-> n + 1]>>
  BY <1>1, <1>2, <1>3 DEF Advanced
<1>6. \A f : Append(Advanced, f) = <<[cb |-> p, next |-> n + 1], f>>
  BY <1>5, MakePair
<1> QED BY <1>4, <1>5, <1>6 DEF Functions

\* The inner of two loops is the one that advances and ends.
LEMMA TwoFrames ==
    ASSUME NEW p, NEW n, NEW s, NEW k \in Nat,
           running = <<[cb |-> p, next |-> n], [cb |-> s, next |-> k]>>
    PROVE  /\ Top = [cb |-> s, next |-> k] /\ Functions = deferredFunctions[s]
           /\ Advanced = <<[cb |-> p, next |-> n], [cb |-> s, next |-> k + 1]>>
           /\ Front(running) = <<[cb |-> p, next |-> n]>>
<1>1. PICK r : r = running /\ r = <<[cb |-> p, next |-> n], [cb |-> s, next |-> k]>>
  OBVIOUS
<1>2. Len(r) = 2 /\ r[2] = [cb |-> s, next |-> k] /\ r[1] = [cb |-> p, next |-> n]
  BY <1>1
<1>4. SubSeq(r, 1, 1) = <<[cb |-> p, next |-> n]>>
  <2>1. PICK a, b : r = <<a, b>> /\ a = [cb |-> p, next |-> n]
    BY <1>1
  <2>2. SubSeq(<<a, b>>, 1, 1) = <<a>>
    BY FirstOfPair
  <2> QED BY <2>1, <2>2
<1>3. [r EXCEPT ![2].next = @ + 1] = <<[cb |-> p, next |-> n], [cb |-> s, next |-> k + 1]>>
  BY <1>1
<1>5. Top = [cb |-> s, next |-> k]
  BY <1>1, <1>2 DEF Top, Last
<1>6. Advanced = <<[cb |-> p, next |-> n], [cb |-> s, next |-> k + 1]>>
  BY <1>1, <1>2, <1>3 DEF Advanced
<1>7. Front(running) = <<[cb |-> p, next |-> n]>>
  BY <1>1, <1>2, <1>4 DEF Front
<1> QED BY <1>5, <1>6, <1>7 DEF Functions

\* What the running concatenations are made of.
LEMMA SumFacts ==
    ASSUME NEW S, NEW parts \in Seq(Seq(S)), NEW u \in Sums(parts, S)
    PROVE  /\ u[0] = <<>> /\ \A i \in 0 .. Len(parts) : u[i] \in Seq(S)
           /\ \A i \in 1 .. Len(parts) : u[i] = u[i - 1] \o parts[i]
           /\ \A i \in 1 .. Len(parts) : parts[i] \in Seq(S)
<1>1. \A i \in 1 .. Len(parts) : parts[i] \in Seq(S)
  OBVIOUS
<1>2. u[0] = <<>> /\ \A i \in 1 .. Len(parts) : u[i] = u[i - 1] \o parts[i]
  BY DEF Sums
<1>3. \A i \in 0 .. Len(parts) : u[i] \in Seq(S)
  BY DEF Sums
<1> QED BY <1>1, <1>2, <1>3

\* A call that is made stays in the ledger.
LEMMA HandOver ==
    ASSUME NEW S, NEW a \in Seq(S), NEW b \in Seq(S), b # <<>>
    PROVE  /\ Append(a, Head(b)) \in Seq(S) /\ Tail(b) \in Seq(S)
           /\ Append(a, Head(b)) \o Tail(b) = a \o b
OBVIOUS

\* What the invariant says of the lists.
LEMMA Lists ==
    ASSUME RecordInv
    PROVE  /\ \A p \in Primary : deferredFunctions[p] \in Seq(Function)
           /\ \A s \in Secondary : deferredFunctions[s] \in Seq(PlainFunction)
           /\ \A cb \in CB : deferredFunctions[cb] = Unreplayed(cb)
           /\ calls \in Seq(Call) /\ performed \in Seq(Call)
<1>1. RecordTypeOK /\ deferredFunctions = [cb \in CB |-> Unreplayed(cb)]
  BY DEF RecordInv
<1>2. \A cb \in CB : deferredFunctions[cb] = Unreplayed(cb)
  BY <1>1
<1>3. Primary \subseteq CB /\ Secondary \subseteq CB
  BY DEF CB
<1> QED BY <1>1, <1>2, <1>3, UnreplayedTyped DEF RecordTypeOK

\* Between two functions every part before n has been performed.
LEMMA PerformedSoFar ==
    ASSUME RecordInv, calls = <<>>
    PROVE  performed \o calls = performed
BY DEF RecordInv, RecordTypeOK

\* When no list is being walked, everything owed has been performed.
LEMMA NothingRunning ==
    ASSUME Ledger, running = <<>>
    PROVE  calls = <<>> /\ performed = owed
<1>1. \A p, n, parts, u : ~ Progress(p, n, parts, u)
  BY DEF Progress, Outside, Inside
<1> QED BY <1>1 DEF Ledger

\* A submission starts with everything owed and nothing performed.
LEMMA SubmitLedger ==
    ASSUME CBInv, NEW p \in Primary, QueueSubmit(p), owed' = OwedBy(p), performed' = <<>>,
           UNCHANGED <<recorded, replayed>>
    PROVE  Ledger'
<1>1. RecordInv /\ RecordTypeOK
  BY DEF CBInv, RecordInv
<1>2. calls = <<>>
  BY NothingRunning DEF QueueSubmit, LockFree, CBInv
<1>3. PICK fs \in Seq(Function) : fs = deferredFunctions[p] /\ fs = Unreplayed(p)
  BY <1>1, Lists DEF CB
<1>4. PICK parts : parts = [i \in DOMAIN fs |-> PartOf(fs, i)]
  OBVIOUS
<1>5. Len(fs) \in Nat /\ DOMAIN fs = 1 .. Len(fs)
  BY <1>3
<1>6. \A i \in 1 .. Len(fs) : PartOf(fs, i) \in Seq(Call)
  BY <1>1, <1>3, PartTyped
<1>7. parts \in Seq(Seq(Call)) /\ Len(parts) = Len(fs) /\ \A i \in 1 .. Len(fs) : parts[i] = PartOf(fs, i)
  BY <1>4, <1>5, <1>6
<1>8. OwedBy(p) = FlattenSeq(parts)
  BY <1>3, <1>4 DEF OwedBy, PartOf
<1>9. PICK u \in Sums(parts, Call) : FlattenSeq(parts) = u[Len(parts)]
  BY <1>7, FlattenIsSum
<1>10. /\ status[p] = "executable" /\ running' = <<[cb |-> p, next |-> 1]>>
       /\ UNCHANGED <<calls, deferredFunctions, status>>
  BY DEF QueueSubmit, recordVars, Frame
<1>11. \A i : PartOf(fs, i)' = PartOf(fs, i)
  BY DEF PartOf, Unreplayed
<1>12. Submission(p, 1, parts, u)'
  <2>1. deferredFunctions'[p] = fs /\ status'[p] = "executable"
    BY <1>3, <1>10
  <2>2. owed' = u[Len(parts)]
    BY <1>8, <1>9
  <2>3. \A i \in 1 .. Len(parts) : parts[i] = PartOf(fs, i)'
    BY <1>7, <1>11
  <2>4. \A i \in 1 .. 1 - 1 : FALSE
    OBVIOUS
  <2> QED BY <1>7, <2>1, <2>2, <2>3, <2>4 DEF Submission
<1>13. Outside(p, 1, u)'
  <2>1. u[0] = <<>>
    BY <1>7, <1>9, SumFacts
  <2>2. <<>> \o <<>> = <<>>
    OBVIOUS
  <2> QED BY <1>2, <1>10, <2>1, <2>2 DEF Outside
<1>14. 1 \in 1 .. Len(deferredFunctions'[p]) + 1
  BY <1>3, <1>5, <1>10
<1> QED BY <1>7, <1>9, <1>12, <1>13, <1>14 DEF Ledger, Progress

\* A submission in progress.
LEMMA InProgress ==
    ASSUME Ledger, running # <<>>
    PROVE  \E p \in Primary : \E n \in 1 .. Len(deferredFunctions[p]) + 1 :
               \E parts \in Seq(Seq(Call)) : \E u \in Sums(parts, Call) : Progress(p, n, parts, u)
BY DEF Ledger

\* The calls of the function that is entered are the part due next.
LEMMA CallFunctionLedger ==
    ASSUME CBInv, CallFunction, UNCHANGED history
    PROVE  Ledger'
<1>1. /\ UNCHANGED <<deferredFunctions, status, recorded, replayed, owed, performed>>
      /\ running # <<>> /\ calls = <<>> /\ Top.next <= Len(Functions)
  BY DEF CallFunction, BetweenCalls, recordVars, history
<1>2. RecordInv /\ RecordTypeOK /\ Ledger
  BY DEF CBInv, RecordInv
<1>3. PICK p \in Primary : \E n \in 1 .. Len(deferredFunctions[p]) + 1 :
          \E parts \in Seq(Seq(Call)) : \E u \in Sums(parts, Call) : Progress(p, n, parts, u)
  BY <1>1, <1>2, InProgress
<1>4. PICK fs \in Seq(Function) : fs = deferredFunctions[p]
  BY <1>2, Lists
<1>5. PICK n \in 1 .. Len(fs) + 1, parts \in Seq(Seq(Call)) :
          \E u \in Sums(parts, Call) : Progress(p, n, parts, u)
  BY <1>3, <1>4
<1>5u. PICK u \in Sums(parts, Call) : Progress(p, n, parts, u)
  BY <1>5
<1>6. /\ Submission(p, n, parts, u) /\ Len(parts) = Len(fs) /\ Len(fs) \in Nat /\ n \in Nat
      /\ \A i \in 0 .. Len(fs) : u[i] \in Seq(Call)
      /\ \A i \in 1 .. Len(fs) : u[i] = u[i - 1] \o parts[i]
  <2>1. Submission(p, n, parts, u) /\ Len(parts) = Len(fs) /\ Len(fs) \in Nat /\ n \in Nat
    BY <1>4, <1>5, <1>5u DEF Progress, Submission
  <2>2. /\ \A i \in 0 .. Len(parts) : u[i] \in Seq(Call)
        /\ \A i \in 1 .. Len(parts) : u[i] = u[i - 1] \o parts[i]
    BY <1>5, <1>5u, SumFacts
  <2> QED BY <2>1, <2>2
<1>7. Submission(p, n, parts, u)'
  <2>1. \A i : PartOf(fs, i)' = PartOf(fs, i)
    BY <1>1 DEF PartOf, Unreplayed
  <2> QED BY <1>1, <1>4, <1>6, <2>1 DEF Submission
<1>8. performed \o calls = performed /\ performed \in Seq(Call)
  BY <1>1, <1>2, PerformedSoFar, Lists
<1>9. CASE Outside(p, n, u)
  <2>1. /\ running = <<[cb |-> p, next |-> n]>> /\ performed = u[n - 1]
    BY <1>8, <1>9 DEF Outside
  <2>2. /\ Top = [cb |-> p, next |-> n] /\ Functions = fs
        /\ Advanced = <<[cb |-> p, next |-> n + 1]>>
        /\ \A f : Append(Advanced, f) = <<[cb |-> p, next |-> n + 1], f>>
    BY <1>4, <1>6, <2>1, OneFrame
  <2>3. n \in 1 .. Len(fs)
    BY <1>1, <1>6, <2>2
  <2>4. PICK f \in Function : f = fs[n]
    BY <1>4, <2>3
  <2>5. Functions[Top.next] = f
    BY <2>2, <2>4
  <2>6. parts[n] = PartOf(fs, n)
    BY <1>4, <1>6, <2>3 DEF Submission
  <2>7. CASE f.op # "execute"
    <3>1. running' = <<[cb |-> p, next |-> n + 1]>> /\ calls' = CallsOf(f)
      BY <2>2, <2>5, <2>7 DEF CallFunction
    <3>2. parts[n] = CallsOf(f)
      BY <2>4, <2>6, <2>7 DEF PartOf
    <3>3. performed \o CallsOf(f) = u[n]
      BY <1>6, <2>1, <2>3, <3>2
    <3>4. Outside(p, n + 1, u)'
      <4>1. (n + 1) - 1 = n
        BY <1>6
      <4> QED BY <1>1, <3>1, <3>3, <4>1 DEF Outside
    <3>5. Submission(p, n + 1, parts, u)'
      BY <1>1, <1>4, <1>6, <1>7, <2>3, <2>4, <2>7 DEF Submission
    <3>6. n + 1 \in 1 .. Len(deferredFunctions'[p]) + 1
      BY <1>1, <1>4, <1>6, <2>3
    <3> QED BY <1>5, <1>5u, <3>4, <3>5, <3>6 DEF Ledger, Progress
  <2>8. CASE f.op = "execute"
    <3>1. PICK s \in Secondary : f = [op |-> "execute", cb |-> s]
      BY <2>4, <2>8 DEF Function, PlainFunction
    <3>2. f.cb = s
      BY <3>1
    <3>3. running' = <<[cb |-> p, next |-> n + 1], [cb |-> s, next |-> 1]>> /\ calls' = <<>>
      BY <1>1, <2>2, <2>5, <2>8, <3>2 DEF CallFunction, Frame
    <3>4. PICK gs \in Seq(PlainFunction) : gs = deferredFunctions[s] /\ gs = Unreplayed(s)
      BY <1>2, Lists DEF CB
    <3>5. PICK v \in Sums(CallParts(gs), Call) : CallsOfAll(gs) = v[Len(gs)]
      BY <3>4, PartsTyped
    <3>6. v[0] = <<>>
      BY <3>4, <3>5, PartsTyped, SumFacts
    <3>7. parts[n] = v[Len(gs)]
      <4>1. CASE FirstUse(fs, n)
        BY <2>4, <2>6, <2>8, <3>2, <3>4, <3>5, <4>1 DEF PartOf
      <4>2. CASE ~ FirstUse(fs, n)
        <5>1. PICK j \in 1 .. n - 1 : fs[j] = f
          BY <2>4, <4>2 DEF FirstUse
        <5>2. replayed[s]
          BY <1>4, <1>6, <2>8, <3>2, <5>1 DEF Submission
        <5>3. gs = <<>>
          BY <3>4, <5>2 DEF Unreplayed
        <5>4. parts[n] = <<>>
          BY <2>4, <2>6, <2>8, <4>2 DEF PartOf
        <5> QED BY <3>6, <5>3, <5>4
      <4> QED BY <4>1, <4>2
    <3>8. Inside(p, n, s, 1, parts, u, v)'
      <4>1. u[n - 1] \o v[1 - 1] = u[n - 1]
        <5>1. PICK a \in Seq(Call) : a = u[n - 1]
          BY <1>6, <2>3
        <5>2. a \o <<>> = a
          OBVIOUS
        <5>3. v[1 - 1] = <<>>
          BY <3>6
        <5> QED BY <5>1, <5>2, <5>3
      <4> QED BY <1>1, <1>4, <1>8, <2>1, <2>3, <2>4, <3>1, <3>3, <3>4, <3>7, <4>1 DEF Inside
    <3>9. 1 \in 1 .. Len(deferredFunctions'[s]) + 1 /\ n \in 1 .. Len(deferredFunctions'[p]) + 1
      BY <1>1, <1>4, <1>6, <3>4
    <3>10. Progress(p, n, parts, u)'
      BY <1>1, <1>7, <3>4, <3>5, <3>8, <3>9 DEF Progress
    <3> QED BY <1>5, <1>5u, <3>9, <3>10 DEF Ledger
  <2> QED BY <2>7, <2>8
<1>10. ASSUME NEW s \in Secondary, NEW k \in 1 .. Len(deferredFunctions[s]) + 1,
              NEW v \in Sums(CallParts(deferredFunctions[s]), Call), Inside(p, n, s, k, parts, u, v)
       PROVE  Ledger'
  <2>1. PICK gs \in Seq(PlainFunction) : gs = deferredFunctions[s]
    BY <1>2, Lists
  <2>2. k \in Nat /\ k \in 1 .. Len(gs) + 1 /\ Len(gs) \in Nat
    BY <2>1
  <2>3. /\ Top = [cb |-> s, next |-> k] /\ Functions = gs
        /\ Advanced = <<[cb |-> p, next |-> n + 1], [cb |-> s, next |-> k + 1]>>
    BY <1>10, <2>1, <2>2, TwoFrames DEF Inside
  <2>4. k \in 1 .. Len(gs)
    BY <1>1, <2>2, <2>3
  <2>5. PICK f \in PlainFunction : f = gs[k]
    BY <2>1, <2>4
  <2>6. f.op # "execute" /\ Functions[Top.next] = f
    BY <2>3, <2>5 DEF PlainFunction
  <2>7. running' = <<[cb |-> p, next |-> n + 1], [cb |-> s, next |-> k + 1]>> /\ calls' = CallsOf(f)
    BY <2>3, <2>6 DEF CallFunction
  <2>8. /\ v[k] = v[k - 1] \o CallsOf(f) /\ v[k - 1] \in Seq(Call) /\ CallsOf(f) \in Seq(Call)
    <3>1. CallParts(gs) \in Seq(Seq(Call)) /\ Len(CallParts(gs)) = Len(gs) /\ CallParts(gs)[k] = CallsOf(f)
      BY <2>1, <2>4, <2>5, PartsTyped
    <3>2. k \in 1 .. Len(CallParts(gs)) /\ k - 1 \in 0 .. Len(CallParts(gs))
      BY <2>2, <2>4, <3>1
    <3>3. /\ \A i \in 0 .. Len(CallParts(gs)) : v[i] \in Seq(Call)
          /\ \A i \in 1 .. Len(CallParts(gs)) : v[i] = v[i - 1] \o CallParts(gs)[i]
      BY <1>10, <2>1, <3>1, SumFacts
    <3>4. CallsOf(f) \in Seq(Call)
      BY <2>5, CallsTyped
    <3> QED BY <3>1, <3>2, <3>3, <3>4
  <2>9. u[n - 1] \in Seq(Call) /\ performed = u[n - 1] \o v[k - 1]
    BY <1>6, <1>8, <1>10 DEF Inside
  <2>10. performed \o CallsOf(f) = u[n - 1] \o v[k]
    <3>1. PICK a, b, c \in Seq(Call) : a = u[n - 1] /\ b = v[k - 1] /\ c = CallsOf(f)
      BY <2>8, <2>9
    <3>2. (a \o b) \o c = a \o (b \o c)
      BY Associative, SMTT(30)
    <3> QED BY <2>8, <2>9, <3>1, <3>2
  <2>11. Inside(p, n, s, k + 1, parts, u, v)'
    <3>1. (k + 1) - 1 = k
      BY <2>2
    <3> QED BY <1>1, <1>10, <2>7, <2>10, <3>1 DEF Inside
  <2>12. k + 1 \in 1 .. Len(deferredFunctions'[s]) + 1 /\ n \in 1 .. Len(deferredFunctions'[p]) + 1
    BY <1>1, <1>4, <1>6, <2>1, <2>2, <2>4
  <2>13. Progress(p, n, parts, u)'
    BY <1>1, <1>7, <1>10, <2>11, <2>12 DEF Progress
  <2> QED BY <1>5, <1>5u, <2>12, <2>13 DEF Ledger
<1> QED BY <1>5u, <1>9, <1>10 DEF Progress

\* A buffer that may be submitted executes executable ones.
LEMMA ExecutesExecutable ==
    ASSUME RecordInv, NEW p \in Primary, NEW i \in DOMAIN deferredFunctions[p],
           status[p] # "initial", deferredFunctions[p][i].op = "execute"
    PROVE  status[deferredFunctions[p][i].cb] = "executable"
BY DEF RecordInv

\* A list that ends is emptied, and its buffer replayed: what later functions owe is
\* not changed by it.
LEMMA FunctionsDoneLedger ==
    ASSUME CBInv, FunctionsDone, replayed' = [replayed EXCEPT ![Top.cb] = TRUE],
           UNCHANGED <<recorded, owed, performed, drains>>
    PROVE  RecordInv' /\ Ledger'
<1>1. /\ UNCHANGED <<calls, status, currentRenderPass, recorded, owed, performed>>
      /\ running # <<>> /\ calls = <<>> /\ Top.next > Len(Functions)
      /\ running' = Front(running)
      /\ deferredFunctions' = [deferredFunctions EXCEPT ![Top.cb] = <<>>]
  BY DEF FunctionsDone, BetweenCalls, Cleared
<1>2. RecordInv /\ RecordTypeOK /\ Ledger
  BY DEF CBInv, RecordInv
<1>3. PICK p \in Primary : \E n \in 1 .. Len(deferredFunctions[p]) + 1 :
          \E parts \in Seq(Seq(Call)) : \E u \in Sums(parts, Call) : Progress(p, n, parts, u)
  BY <1>1, <1>2, InProgress
<1>4. PICK fs \in Seq(Function) : fs = deferredFunctions[p]
  BY <1>2, Lists
<1>5. PICK n \in 1 .. Len(fs) + 1, parts \in Seq(Seq(Call)) :
          \E u \in Sums(parts, Call) : Progress(p, n, parts, u)
  BY <1>3, <1>4
<1>5u. PICK u \in Sums(parts, Call) : Progress(p, n, parts, u)
  BY <1>5
<1>6. /\ Submission(p, n, parts, u) /\ Len(parts) = Len(fs) /\ Len(fs) \in Nat /\ n \in Nat
      /\ \A i \in 0 .. Len(fs) : u[i] \in Seq(Call)
      /\ \A i \in 1 .. Len(fs) : u[i] = u[i - 1] \o parts[i]
  <2>1. Submission(p, n, parts, u) /\ Len(parts) = Len(fs) /\ Len(fs) \in Nat /\ n \in Nat
    BY <1>4, <1>5, <1>5u DEF Progress, Submission
  <2>2. /\ \A i \in 0 .. Len(parts) : u[i] \in Seq(Call)
        /\ \A i \in 1 .. Len(parts) : u[i] = u[i - 1] \o parts[i]
    BY <1>5, <1>5u, SumFacts
  <2> QED BY <2>1, <2>2
<1>7. performed \o calls = performed /\ performed \in Seq(Call)
  BY <1>1, <1>2, PerformedSoFar, Lists
<1>8. ASSUME NEW cb \in CB, Top.cb = cb, status[cb] = "executable"
      PROVE  RecordInv'
  <2>1. /\ replayed' = [replayed EXCEPT ![cb] = TRUE]
        /\ deferredFunctions' = [deferredFunctions EXCEPT ![cb] = <<>>]
    BY <1>1, <1>8
  <2>2. RecordTypeOK'
    BY <1>1, <1>2, <2>1 DEF RecordTypeOK
  <2>3. deferredFunctions' = [c \in CB |-> Unreplayed(c)]'
    BY <1>1, <1>2, <2>1 DEF RecordInv, RecordTypeOK, Unreplayed
  <2>4. \A c \in CB : status'[c] = "recording" => ~ replayed'[c]
    BY <1>1, <1>2, <1>8, <2>1 DEF RecordInv, RecordTypeOK
  <2>5. ASSUME NEW q \in Primary, NEW i \in DOMAIN deferredFunctions'[q],
               status'[q] # "initial", deferredFunctions'[q][i].op = "execute"
        PROVE  status'[deferredFunctions'[q][i].cb] = "executable"
    <3>1. q \in CB /\ deferredFunctions = [c \in CB |-> Unreplayed(c)]
      BY <1>2 DEF RecordInv, CB
    <3>2. q # cb
      BY <2>1, <2>5, <3>1
    <3>3. deferredFunctions'[q] = deferredFunctions[q]
      BY <2>1, <3>1, <3>2
    <3> QED BY <1>1, <1>2, <2>5, <3>3, ExecutesExecutable
  <2> QED BY <2>2, <2>3, <2>4, <2>5 DEF RecordInv
<1>9. CASE Outside(p, n, u)
  <2>1. /\ running = <<[cb |-> p, next |-> n]>> /\ performed = u[n - 1]
    BY <1>7, <1>9 DEF Outside
  <2>2. Top = [cb |-> p, next |-> n] /\ Functions = fs /\ Front(running) = <<>>
    BY <1>4, <1>6, <2>1, OneFrame
  <2>3. n - 1 = Len(parts)
    BY <1>1, <1>5, <1>6, <2>2
  <2>4. performed = owed
    BY <1>6, <2>1, <2>3 DEF Submission
  <2>5. Ledger'
    BY <1>1, <2>2, <2>4 DEF Ledger
  <2>6. RecordInv'
    BY <1>6, <1>8, <2>2 DEF CB, Submission
  <2> QED BY <2>5, <2>6
<1>10. ASSUME NEW s \in Secondary, NEW k \in 1 .. Len(deferredFunctions[s]) + 1,
              NEW v \in Sums(CallParts(deferredFunctions[s]), Call), Inside(p, n, s, k, parts, u, v)
       PROVE  RecordInv' /\ Ledger'
  <2>1. PICK gs \in Seq(PlainFunction) : gs = deferredFunctions[s]
    BY <1>2, Lists
  <2>2. k \in Nat /\ k \in 1 .. Len(gs) + 1 /\ Len(gs) \in Nat
    BY <2>1
  <2>3. Top = [cb |-> s, next |-> k] /\ Functions = gs /\ Front(running) = <<[cb |-> p, next |-> n + 1]>>
    <3>1. PICK m : m = n + 1
      OBVIOUS
    <3>2. running = <<[cb |-> p, next |-> m], [cb |-> s, next |-> k]>>
      BY <1>10, <3>1 DEF Inside
    <3>3. /\ Top = [cb |-> s, next |-> k] /\ Functions = deferredFunctions[s]
          /\ Advanced = <<[cb |-> p, next |-> m], [cb |-> s, next |-> k + 1]>>
          /\ Front(running) = <<[cb |-> p, next |-> m]>>
      BY <2>2, <3>2, TwoFrames
    <3> QED BY <2>1, <3>1, <3>3
  <2>4. k - 1 = Len(gs)
    BY <1>1, <2>2, <2>3
  <2>5. n \in 1 .. Len(fs) /\ fs[n] = [op |-> "execute", cb |-> s] /\ status[p] = "executable"
    BY <1>4, <1>6, <1>10 DEF Inside, Submission
  <2>6. status[s] = "executable"
    <3>1. n \in DOMAIN deferredFunctions[p]
      BY <1>4, <2>5
    <3>2. status[p] # "initial" /\ deferredFunctions[p][n].op = "execute"
      BY <1>4, <2>5
    <3>3. status[deferredFunctions[p][n].cb] = "executable"
      BY <1>2, <3>1, <3>2, ExecutesExecutable
    <3> QED BY <1>4, <2>5, <3>3
  <2>7. RecordInv'
    BY <1>8, <2>3, <2>6 DEF CB
  <2>8. performed = u[n]
    <3>1. performed = u[n - 1] \o v[k - 1] /\ parts[n] = v[Len(gs)]
      BY <1>7, <1>10, <2>1 DEF Inside
    <3> QED BY <1>6, <2>4, <2>5, <3>1
  <2>9. deferredFunctions'[p] = fs
    BY <1>1, <1>4, <2>3, LevelsDisjoint
  <2>10. replayed' = [replayed EXCEPT ![s] = TRUE] /\ replayed \in [CB -> BOOLEAN]
    BY <1>2, <2>3 DEF RecordTypeOK
  <2>11. ASSUME NEW i \in n + 1 .. Len(fs) PROVE PartOf(fs, i)' = PartOf(fs, i)
    <3>1. CASE fs[i].op # "execute"
      BY <3>1 DEF PartOf
    <3>2. CASE fs[i].op = "execute" /\ FirstUse(fs, i)
      <4>1. PICK f \in Function : f = fs[i] /\ f.op = "execute"
        BY <1>4, <2>5, <3>2
      <4>2. f = [op |-> "execute", cb |-> f.cb] /\ f.cb \in Secondary
        BY <4>1 DEF Function, PlainFunction
      <4>3. n \in 1 .. i - 1
        BY <1>6, <2>5
      <4>4. f.cb # s
        BY <2>5, <3>2, <4>1, <4>2, <4>3 DEF FirstUse
      <4>5. Unreplayed(f.cb)' = Unreplayed(f.cb)
        BY <1>1, <2>10, <4>2, <4>4 DEF Unreplayed, CB
      <4> QED BY <4>1, <4>5 DEF PartOf
    <3>3. CASE fs[i].op = "execute" /\ ~ FirstUse(fs, i)
      BY <3>3 DEF PartOf
    <3> QED BY <3>1, <3>2, <3>3
  <2>12. Submission(p, n + 1, parts, u)'
    <3>1. \A i \in n + 1 .. Len(parts) : parts[i] = PartOf(fs, i)'
      <4>1. ASSUME NEW i \in n + 1 .. Len(parts) PROVE parts[i] = PartOf(fs, i)'
        <5>1. i \in n .. Len(parts) /\ i \in n + 1 .. Len(fs)
          BY <1>6
        <5>2. parts[i] = PartOf(fs, i)
          BY <1>4, <1>6, <5>1 DEF Submission
        <5> QED BY <2>11, <5>1, <5>2
      <4> QED BY <4>1
    <3>2. ASSUME NEW i \in 1 .. (n + 1) - 1, fs[i].op = "execute" PROVE replayed'[fs[i].cb]
      <4>1. CASE i = n
        BY <2>5, <2>10, <4>1 DEF CB
      <4>2. CASE i # n
        <5>1. i \in 1 .. n - 1
          BY <1>6, <4>2
        <5>2. replayed[fs[i].cb]
          BY <1>4, <1>6, <3>2, <5>1 DEF Submission
        <5> QED BY <2>10, <5>2
      <4> QED BY <4>1, <4>2
    <3>3. owed' = u[Len(parts)] /\ status'[p] = "executable"
      BY <1>1, <1>6 DEF Submission
    <3> QED BY <1>6, <2>9, <3>1, <3>2, <3>3 DEF Submission
  <2>13. Outside(p, n + 1, u)'
    <3>1. (n + 1) - 1 = n
      BY <1>6
    <3> QED BY <1>1, <1>7, <2>3, <2>8, <3>1 DEF Outside
  <2>14. n + 1 \in 1 .. Len(deferredFunctions'[p]) + 1
    BY <1>6, <2>5, <2>9
  <2>15. Progress(p, n + 1, parts, u)'
    BY <2>12, <2>13 DEF Progress
  <2>16. Ledger'
    BY <1>5, <1>5u, <2>14, <2>15 DEF Ledger
  <2> QED BY <2>7, <2>16
<1> QED BY <1>5u, <1>9, <1>10 DEF Progress

\* A call moves from those to be made to those made.
LEMMA CallTrackerLedger ==
    ASSUME CBInv, CallTracker, performed' = Append(performed, Head(calls)),
           UNCHANGED <<recorded, replayed, owed, drains>>
    PROVE  RecordInv' /\ Ledger'
<1>1. /\ UNCHANGED <<status, deferredFunctions, currentRenderPass, running>>
      /\ calls # <<>> /\ calls' = Tail(calls)
  BY DEF CallTracker, recordVars
<1>2. RecordInv /\ RecordTypeOK /\ Ledger
  BY DEF CBInv, RecordInv
<1>3. /\ performed' \in Seq(Call) /\ calls' \in Seq(Call)
      /\ performed' \o calls' = performed \o calls
  <2>1. PICK a, b \in Seq(Call) : a = performed /\ b = calls
    BY <1>2, Lists
  <2>2. /\ Append(a, Head(b)) \in Seq(Call) /\ Tail(b) \in Seq(Call)
        /\ Append(a, Head(b)) \o Tail(b) = a \o b
    BY <1>1, <2>1, HandOver
  <2> QED BY <1>1, <2>1, <2>2
<1>4. RecordTypeOK'
  BY <1>1, <1>2, <1>3 DEF RecordTypeOK
<1>5. RecordInv'
  BY <1>1, <1>2, <1>4 DEF RecordInv, Unreplayed
<1>6. \A fs, i : PartOf(fs, i)' = PartOf(fs, i)
  BY DEF PartOf, Unreplayed
<1>7. \A p, n, parts, u : Submission(p, n, parts, u) => Submission(p, n, parts, u)'
  <2> SUFFICES ASSUME NEW p, NEW n, NEW parts, NEW u, Submission(p, n, parts, u)
               PROVE  Submission(p, n, parts, u)'
    OBVIOUS
  <2>1. PICK fs : fs = deferredFunctions[p]
    OBVIOUS
  <2> QED BY <1>1, <1>6, <2>1 DEF Submission
<1>8. \A p, n, u : Outside(p, n, u) => Outside(p, n, u)'
  BY <1>1, <1>3 DEF Outside
<1>9. \A p, n, s, k, parts, u, v : Inside(p, n, s, k, parts, u, v) => Inside(p, n, s, k, parts, u, v)'
  <2> SUFFICES ASSUME NEW p, NEW n, NEW s, NEW k, NEW parts, NEW u, NEW v,
                      Inside(p, n, s, k, parts, u, v)
               PROVE  Inside(p, n, s, k, parts, u, v)'
    OBVIOUS
  <2>1. performed' \o calls' = u[n - 1] \o v[k - 1]
    BY <1>3 DEF Inside
  <2>2. /\ running = <<[cb |-> p, next |-> n + 1], [cb |-> s, next |-> k]>>
        /\ n \in 1 .. Len(deferredFunctions[p])
        /\ deferredFunctions[p][n] = [op |-> "execute", cb |-> s]
        /\ parts[n] = v[Len(deferredFunctions[s])]
    BY DEF Inside
  <2> QED BY <1>1, <2>1, <2>2 DEF Inside
<1>10. running # <<>>
  BY <1>1, <1>2, NothingRunning
<1>11. \A p, n, parts, u : Progress(p, n, parts, u) => Progress(p, n, parts, u)'
  <2> SUFFICES ASSUME NEW p, NEW n, NEW parts, NEW u, Progress(p, n, parts, u)
               PROVE  Progress(p, n, parts, u)'
    OBVIOUS
  <2>1. CASE Outside(p, n, u)
    BY <1>7, <1>8, <2>1 DEF Progress
  <2>2. ASSUME NEW s \in Secondary, NEW k \in 1 .. Len(deferredFunctions[s]) + 1,
               NEW v \in Sums(CallParts(deferredFunctions[s]), Call),
               Inside(p, n, s, k, parts, u, v)
        PROVE  Progress(p, n, parts, u)'
    <3>1. Inside(p, n, s, k, parts, u, v)'
      BY <1>9, <2>2
    <3>2. /\ k \in 1 .. Len(deferredFunctions'[s]) + 1
          /\ v \in Sums(CallParts(deferredFunctions'[s]), Call)
      BY <1>1
    <3>3. Submission(p, n, parts, u)'
      BY <1>7 DEF Progress
    <3> QED BY <3>1, <3>2, <3>3 DEF Progress
  <2> QED BY <2>1, <2>2 DEF Progress
<1>12. Ledger'
  <2>1. PICK p \in Primary : \E n \in 1 .. Len(deferredFunctions[p]) + 1 :
            \E parts \in Seq(Seq(Call)) : \E u \in Sums(parts, Call) : Progress(p, n, parts, u)
    BY <1>2, <1>10, InProgress
  <2>2. \E n \in 1 .. Len(deferredFunctions'[p]) + 1 :
            \E parts \in Seq(Seq(Call)) : \E u \in Sums(parts, Call) : Progress(p, n, parts, u)'
    BY <1>1, <1>11, <2>1
  <2> QED BY <2>2 DEF Ledger
<1> QED BY <1>5, <1>12

(***************************************************************************)
(* Replaying: what the calls do to the tracker.                            *)
(***************************************************************************)

\* Where a submission in progress is.
OuterAt(p, n) == /\ running = <<[cb |-> p, next |-> n]>> /\ n \in Nat \ {0}
                 /\ n <= Len(deferredFunctions[p]) + 1

InnerAt(p, n, s, k) == /\ running = <<[cb |-> p, next |-> n], [cb |-> s, next |-> k]>>
                       /\ n \in Nat \ {0} /\ k \in Nat \ {0}

\* A list being walked is that of a primary buffer or of a secondary one below it.
LEMMA Position ==
    ASSUME CBInv, running # <<>>
    PROVE  \E p \in Primary :
               \/ \E n : OuterAt(p, n)
               \/ \E n, k : \E s \in Secondary : InnerAt(p, n, s, k)
<1>1. RecordInv /\ Ledger
  BY DEF CBInv
<1>2. PICK p \in Primary : \E n \in 1 .. Len(deferredFunctions[p]) + 1 :
          \E parts \in Seq(Seq(Call)) : \E u \in Sums(parts, Call) : Progress(p, n, parts, u)
  BY <1>1, InProgress
<1>3. deferredFunctions[p] \in Seq(Function) /\ Len(deferredFunctions[p]) \in Nat
  BY <1>1, Lists
<1>4. PICK n \in 1 .. Len(deferredFunctions[p]) + 1 :
          \E parts \in Seq(Seq(Call)) : \E u \in Sums(parts, Call) : Progress(p, n, parts, u)
  BY <1>2
<1>5. n \in Nat \ {0} /\ n + 1 \in Nat \ {0} /\ n <= Len(deferredFunctions[p]) + 1
  BY <1>3, <1>4
<1>6. CASE running = <<[cb |-> p, next |-> n]>>
  BY <1>5, <1>6 DEF OuterAt
<1>7. ASSUME NEW s \in Secondary, NEW k \in 1 .. Len(deferredFunctions[s]) + 1,
             running = <<[cb |-> p, next |-> n + 1], [cb |-> s, next |-> k]>>
      PROVE  InnerAt(p, n + 1, s, k)
  <2>1. Len(deferredFunctions[s]) \in Nat
    BY <1>1, Lists
  <2> QED BY <1>5, <1>7, <2>1 DEF InnerAt
<1> QED BY <1>4, <1>6, <1>7 DEF Progress, Outside, Inside

\* The function that is entered is one of its list.
LEMMA EnteredFunction ==
    ASSUME CBInv, CallFunction
    PROVE  Functions[Top.next] \in Function
<1>1. RecordInv /\ running # <<>> /\ Top.next <= Len(Functions)
  BY DEF CBInv, CallFunction, BetweenCalls
<1>2. PICK p \in Primary : \/ \E n : OuterAt(p, n)
                           \/ \E n, k : \E s \in Secondary : InnerAt(p, n, s, k)
  BY <1>1, Position
<1>3. Functions \in Seq(Function) /\ Top.next \in Nat \ {0}
  <2>1. ASSUME NEW n, OuterAt(p, n) PROVE Functions \in Seq(Function) /\ Top.next \in Nat \ {0}
    <3>1. Top = [cb |-> p, next |-> n] /\ Functions = deferredFunctions[p]
      BY <2>1, OneFrame DEF OuterAt
    <3> QED BY <1>1, <2>1, <3>1, Lists DEF OuterAt
  <2>2. ASSUME NEW n, NEW k, NEW s \in Secondary, InnerAt(p, n, s, k)
        PROVE  Functions \in Seq(Function) /\ Top.next \in Nat \ {0}
    <3>1. Top = [cb |-> s, next |-> k] /\ Functions = deferredFunctions[s]
      BY <2>2, TwoFrames DEF InnerAt
    <3>2. deferredFunctions[s] \in Seq(PlainFunction)
      BY <1>1, Lists
    <3> QED BY <2>2, <3>1, <3>2 DEF InnerAt, Function
  <2> QED BY <1>2, <2>1, <2>2
<1> QED BY <1>1, <1>3

\* What a call on the tracker does to the fragment and the geometry stage.
Performs(c) == \/ c.call = "pushWork" /\ PushWork(c.stage)
               \/ c.call = "pipelineBarrier" /\ PipelineBarrier(c.src, c.dst)

\* A call keeps the invariant of the tracker.
LEMMA CallInv ==
    ASSUME TrackerInv, NEW c \in Call, Performs(c)
    PROVE  TrackerInv'
<1>1. CASE c.call = "pushWork"
  <2>1. c.stage \in Stage
    BY <1>1 DEF Call
  <2> QED BY <1>1, <2>1, PushWorkInv DEF Performs
<1>2. CASE c.call = "pipelineBarrier"
  <2>1. c.src \in SUBSET Stage /\ c.dst \in SUBSET Stage
    BY <1>2 DEF Call
  <2> QED BY <1>2, <2>1, PipelineBarrierInv DEF Performs
<1> QED BY <1>1, <1>2 DEF Performs

\* A barrier raises waits, to submitted work at most.
LEMMA BarrierRaises ==
    ASSUME TrackerInv, NEW S \in SUBSET Stage, NEW D \in SUBSET Stage, PipelineBarrier(S, D)
    PROVE  /\ index' = index /\ index \in [Stage -> Nat]
           /\ \A d, t \in Stage : /\ waitList[d][t] \in Nat /\ waitList'[d][t] \in Nat
                                  /\ waitList[d][t] <= waitList'[d][t]
                                  /\ waitList'[d][t] <= index[t]
           /\ \A d \in D, t \in S : waitList'[d][t] = index[t]
<1>1. TypeOK /\ WaitsForSubmittedWork
  BY DEF TrackerInv
<1>2. /\ index' = index /\ waitList' \in [Stage -> [Stage -> Nat]]
      /\ index \in [Stage -> Nat] /\ waitList \in [Stage -> [Stage -> Nat]]
  BY <1>1, BarrierFacts DEF TypeOK
<1>3. ASSUME NEW d \in Stage, NEW t \in Stage
      PROVE  waitList[d][t] <= waitList'[d][t] /\ waitList'[d][t] <= index[t]
  BY <1>1, BarrierFacts
<1>4. ASSUME NEW d \in D, NEW t \in S
      PROVE  waitList'[d][t] = index[t]
  <2>1. index[t] \in LevelsOf(S, t) /\ d \in Stage /\ t \in Stage
    BY DEF LevelsOf
  <2>2. \A x \in LevelsOf(S, t) : x <= waitList'[d][t]
    BY <1>1, <2>1, BarrierFacts
  <2>3. index[t] <= waitList'[d][t] /\ waitList'[d][t] <= index[t]
    BY <1>3, <2>1, <2>2
  <2>4. index[t] \in Nat /\ waitList'[d][t] \in Nat
    BY <1>2, <2>1
  <2> QED BY <2>3, <2>4
<1> QED BY <1>2, <1>3, <1>4

\* Work outside a pass and barriers leave the two stages paired.
LEMMA PairsKept ==
    ASSUME TrackerInv, NEW c \in Call, Performs(c), Paired, c.call = "pushWork" => c.stage \in WorkStages
    PROVE  Paired'
<1>1. /\ GEOMETRY \in Stage /\ FRAGMENT \in Stage
      /\ GEOMETRY \notin WorkStages /\ FRAGMENT \notin WorkStages
  BY StageNames, WorkAssumption
<1>2. index \in [Stage -> Nat]
  BY DEF TrackerInv, TypeOK
<1>3. CASE c.call = "pushWork"
  <2>1. /\ c.stage \in Stage /\ waitList' = waitList /\ index' = [index EXCEPT ![c.stage] = @ + 1]
    BY <1>3 DEF Call, Performs, PushWork
  <2> QED BY <1>1, <1>2, <1>3, <2>1 DEF Paired
<1>4. CASE c.call = "pipelineBarrier"
  <2>1. c.src \in SUBSET Stage /\ c.dst \in SUBSET Stage /\ PipelineBarrier(c.src, c.dst)
    BY <1>4 DEF Call, Performs
  <2>2. /\ index' = index /\ waitList[FRAGMENT][GEOMETRY] \in Nat
        /\ waitList'[FRAGMENT][GEOMETRY] \in Nat
        /\ waitList[FRAGMENT][GEOMETRY] <= waitList'[FRAGMENT][GEOMETRY]
        /\ waitList'[FRAGMENT][GEOMETRY] <= index[GEOMETRY]
    BY <1>1, <2>1, BarrierRaises
  <2> QED BY <1>1, <1>2, <2>2 DEF Paired
<1> QED BY <1>3, <1>4 DEF Performs

\* The three last calls of a pass take the pair apart and put it together again.
LEMMA GeometryPushed ==
    ASSUME TrackerInv, Performs(Push(GEOMETRY)), Paired
    PROVE  index'[FRAGMENT] + 1 = index'[GEOMETRY]
<1>1. GEOMETRY \in Stage /\ FRAGMENT \in Stage /\ GEOMETRY # FRAGMENT
  BY StageNames
<1>2. index' = [index EXCEPT ![GEOMETRY] = @ + 1]
  BY DEF Push, Performs, PushWork
<1> QED BY <1>1, <1>2 DEF Paired, TrackerInv, TypeOK

\* Fragment work is made to wait for the geometry work just pushed,
LEMMA FragmentWaits ==
    ASSUME TrackerInv, Performs(Barrier({GEOMETRY}, {FRAGMENT})), index[FRAGMENT] + 1 = index[GEOMETRY]
    PROVE  /\ index'[FRAGMENT] + 1 = index'[GEOMETRY]
           /\ waitList'[FRAGMENT][GEOMETRY] = index'[GEOMETRY]
<1>1. {GEOMETRY} \in SUBSET Stage /\ {FRAGMENT} \in SUBSET Stage
  BY StageNames
<1>2. PipelineBarrier({GEOMETRY}, {FRAGMENT})
  BY DEF Barrier, Performs
<1>3. /\ index' = index
      /\ \A d \in {FRAGMENT}, t \in {GEOMETRY} : waitList'[d][t] = index[t]
  BY <1>1, <1>2, BarrierRaises
<1> QED BY <1>3

\* and is then pushed itself.
LEMMA FragmentPushed ==
    ASSUME TrackerInv, Performs(Push(FRAGMENT)), index[FRAGMENT] + 1 = index[GEOMETRY],
           waitList[FRAGMENT][GEOMETRY] = index[GEOMETRY]
    PROVE  Paired'
<1>1. GEOMETRY \in Stage /\ FRAGMENT \in Stage /\ GEOMETRY # FRAGMENT
  BY StageNames
<1>2. index' = [index EXCEPT ![FRAGMENT] = @ + 1] /\ waitList' = waitList
  BY DEF Push, Performs, PushWork
<1> QED BY <1>1, <1>2 DEF Paired, TrackerInv, TypeOK

\* Each call made advances the pairing of the two stages.
LEMMA CallTrackerPair ==
    ASSUME TrackerInv, PairInv, calls \in Seq(Call), CallTracker
    PROVE  TrackerInv' /\ PairInv'
<1>1. PICK c \in Call : c = Head(calls)
  BY DEF CallTracker
<1>2. Performs(c) /\ calls # <<>> /\ calls' = Tail(calls)
  BY <1>1 DEF CallTracker, Performs
<1>3. TrackerInv'
  BY <1>2, CallInv
<1>4. CASE Paired /\ \E b \in Call : /\ b.call = "pushWork" => b.stage \in WorkStages
                                     /\ calls = <<b>>
  <2>1. PICK b \in Call : (b.call = "pushWork" => b.stage \in WorkStages) /\ calls = <<b>>
    BY <1>4
  <2>2. c = b /\ calls' = <<>>
    BY <1>1, <1>2, <2>1
  <2>3. Paired'
    BY <1>2, <1>4, <2>1, <2>2, PairsKept
  <2> QED BY <1>3, <2>2, <2>3 DEF PairInv
<1>5. CASE Paired /\ \E b \in Call : /\ b.call = "pipelineBarrier"
                                     /\ calls = <<b, Push(GEOMETRY), Barrier({GEOMETRY}, {FRAGMENT}),
                                                  Push(FRAGMENT)>>
  <2>1. PICK b \in Call : /\ b.call = "pipelineBarrier"
                          /\ calls = <<b, Push(GEOMETRY), Barrier({GEOMETRY}, {FRAGMENT}),
                                       Push(FRAGMENT)>>
    BY <1>5
  <2>2. c = b /\ calls' = <<Push(GEOMETRY), Barrier({GEOMETRY}, {FRAGMENT}), Push(FRAGMENT)>>
    BY <1>1, <1>2, <2>1
  <2>3. Paired'
    BY <1>2, <1>5, <2>1, <2>2, PairsKept
  <2> QED BY <1>3, <2>2, <2>3 DEF PairInv
<1>6. CASE Paired /\ calls = <<Push(GEOMETRY), Barrier({GEOMETRY}, {FRAGMENT}), Push(FRAGMENT)>>
  <2>1. c = Push(GEOMETRY) /\ calls' = <<Barrier({GEOMETRY}, {FRAGMENT}), Push(FRAGMENT)>>
    BY <1>1, <1>2, <1>6
  <2>2. index'[FRAGMENT] + 1 = index'[GEOMETRY]
    BY <1>2, <1>6, <2>1, GeometryPushed
  <2> QED BY <1>3, <2>1, <2>2 DEF PairInv
<1>7. CASE /\ index[FRAGMENT] + 1 = index[GEOMETRY]
           /\ calls = <<Barrier({GEOMETRY}, {FRAGMENT}), Push(FRAGMENT)>>
  <2>1. c = Barrier({GEOMETRY}, {FRAGMENT}) /\ calls' = <<Push(FRAGMENT)>>
    BY <1>1, <1>2, <1>7
  <2>2. index'[FRAGMENT] + 1 = index'[GEOMETRY] /\ waitList'[FRAGMENT][GEOMETRY] = index'[GEOMETRY]
    BY <1>2, <1>7, <2>1, FragmentWaits
  <2> QED BY <1>3, <2>1, <2>2 DEF PairInv
<1>8. CASE /\ index[FRAGMENT] + 1 = index[GEOMETRY]
           /\ waitList[FRAGMENT][GEOMETRY] = index[GEOMETRY]
           /\ calls = <<Push(FRAGMENT)>>
  <2>1. c = Push(FRAGMENT) /\ calls' = <<>>
    BY <1>1, <1>2, <1>8
  <2>2. Paired'
    BY <1>2, <1>8, <2>1, FragmentPushed
  <2> QED BY <1>3, <2>1, <2>2 DEF PairInv
<1> QED BY <1>2, <1>4, <1>5, <1>6, <1>7, <1>8 DEF PairInv

\* A function is entered with the stages paired.
LEMMA CallFunctionPair ==
    ASSUME CBInv, CallFunction
    PROVE  PairInv'
<1>1. calls = <<>> /\ UNCHANGED <<index, waitList>>
  BY DEF CallFunction, BetweenCalls, vars
<1>2. Paired
  BY <1>1 DEF CBInv, PairInv
<1>3. Paired'
  BY <1>1, <1>2 DEF Paired
<1>4. PICK f \in Function : f = Functions[Top.next]
  BY EnteredFunction
<1>5. calls' = <<>> \/ (f.op # "execute" /\ calls' = CallsOf(f))
  BY <1>1, <1>4 DEF CallFunction
<1>6. CASE calls' = <<>>
  BY <1>3, <1>6 DEF PairInv
<1>7. CASE f.op # "execute" /\ calls' = CallsOf(f)
  <2>1. f \in PlainFunction
    BY <1>7 DEF Function
  <2>2. CallsOf(f) \in Seq(Call)
    BY <2>1, CallsTyped
  <2>3. CASE f.op = "beginPass"
    <3>1. CallsOf(f) = <<Merged(ExternalIn[f.pass]), Push(GEOMETRY),
                         Barrier({GEOMETRY}, {FRAGMENT}), Push(FRAGMENT)>>
      BY <2>3 DEF CallsOf
    <3>2. Merged(ExternalIn[f.pass]) \in Call /\ Merged(ExternalIn[f.pass]).call = "pipelineBarrier"
      <4>1. CallsOf(f)[1] \in Call
        BY <2>2, <3>1
      <4> QED BY <3>1, <4>1 DEF Merged, Barrier
    <3> QED BY <1>3, <1>7, <3>1, <3>2 DEF PairInv
  <2>4. CASE f.op # "beginPass"
    <3>1. \E c : /\ CallsOf(f) = <<c>>
                 /\ c.call = "pushWork" => c.stage \in WorkStages
      <4>1. CASE f.op = "work"
        <5>1. f.stage \in WorkStages
          BY <2>1, <4>1 DEF PlainFunction
        <5>2. CallsOf(f) = <<Push(f.stage)>> /\ Push(f.stage).stage = f.stage
          BY <4>1 DEF CallsOf, Push
        <5> QED BY <5>1, <5>2
      <4>2. CASE f.op = "barrier"
        <5>1. PICK c : c = Barrier(SrcStages(f.src), DstStages(f.dst))
          OBVIOUS
        <5>2. CallsOf(f) = <<c>> /\ c.call = "pipelineBarrier"
          BY <4>2, <5>1 DEF CallsOf, Barrier
        <5> QED BY <5>2
      <4>3. CASE f.op = "endPass"
        <5>1. PICK c : c = Merged(ExternalOut[f.pass])
          OBVIOUS
        <5>2. CallsOf(f) = <<c>>
          BY <4>3, <5>1 DEF CallsOf
        <5>3. c.call = "pipelineBarrier"
          BY <5>1 DEF Merged, Barrier
        <5> QED BY <5>2, <5>3
      <4> QED BY <2>1, <2>4, <4>1, <4>2, <4>3 DEF PlainFunction
    <3>2. PICK c : CallsOf(f) = <<c>> /\ (c.call = "pushWork" => c.stage \in WorkStages)
      BY <3>1
    <3>3. c \in Call
      <4>1. CallsOf(f)[1] \in Call
        BY <2>2, <3>2
      <4> QED BY <3>2, <4>1
    <3> QED BY <1>3, <1>7, <3>2, <3>3 DEF PairInv
  <2> QED BY <2>3, <2>4
<1> QED BY <1>5, <1>6, <1>7

\* BOTTOM_OF_PIPE as a source and TOP_OF_PIPE as a destination are every stage.
LEMMA FullBarrierCalls ==
    ASSUME NEW f, f.op = "barrier", "BOTTOM_OF_PIPE" \in f.src, "TOP_OF_PIPE" \in f.dst
    PROVE  CallsOf(f) = <<Barrier(Stage, Stage)>>
<1>1. \A mask : "ALL_COMMANDS" \in mask => vkStagesToTracker(mask) = Stage
  <2>1. \A s \in Stage : "ALL_COMMANDS" \in VkStages[s]
    BY DEF VkStages
  <2> QED BY <2>1 DEF vkStagesToTracker
<1>2. SrcStages(f.src) = Stage /\ DstStages(f.dst) = Stage
  BY <1>1 DEF SrcStages, DstStages
<1>3. CallsOf(f) = <<Barrier(SrcStages(f.src), DstStages(f.dst))>>
  BY DEF CallsOf
<1> QED BY <1>2, <1>3

\* A submission that ends in a full barrier has it ahead.
LEMMA SubmitDrain ==
    ASSUME CBInv, NEW p \in Primary, QueueSubmit(p), drains' = EndsInFullBarrier(Unreplayed(p))
    PROVE  DrainInv'
<1>1. /\ running' = <<[cb |-> p, next |-> 1]>> /\ deferredFunctions' = deferredFunctions
      /\ running' # <<>> /\ running'[1].next = 1 /\ running'[1].cb = p
  BY DEF QueueSubmit, Frame, recordVars
<1>2. PICK fs \in Seq(Function) : fs = deferredFunctions[p] /\ fs = Unreplayed(p)
  BY Lists DEF CBInv, CB
<1>3. ASSUME drains' PROVE EndsInFullBarrier(fs) /\ 1 <= Len(fs)
  <2>1. EndsInFullBarrier(fs)
    BY <1>2, <1>3
  <2> QED BY <1>2, <2>1 DEF EndsInFullBarrier
<1> QED BY <1>1, <1>2, <1>3 DEF DrainInv

\* Walking the list reaches the barrier last.
LEMMA CallFunctionDrain ==
    ASSUME CBInv, CallFunction, UNCHANGED history
    PROVE  DrainInv'
<1>1. /\ UNCHANGED <<deferredFunctions, drains>>
      /\ running # <<>> /\ calls = <<>> /\ Top.next <= Len(Functions)
  BY DEF CallFunction, BetweenCalls, recordVars, history
<1>2. RecordInv /\ DrainInv
  BY DEF CBInv
<1>3. PICK p \in Primary : \/ \E n : OuterAt(p, n)
                           \/ \E n, k : \E s \in Secondary : InnerAt(p, n, s, k)
  BY <1>1, Position
<1>4. PICK fs \in Seq(Function) : fs = deferredFunctions[p] /\ Len(fs) \in Nat
  BY <1>2, Lists
<1>5. ASSUME NEW n, OuterAt(p, n) PROVE DrainInv'
  <2>1. /\ running = <<[cb |-> p, next |-> n]>> /\ n \in Nat
        /\ running[1].cb = p /\ running[1].next = n
    BY <1>5 DEF OuterAt
  <2>2. /\ Top = [cb |-> p, next |-> n] /\ Functions = fs
        /\ Advanced = <<[cb |-> p, next |-> n + 1]>>
        /\ \A f : Append(Advanced, f) = <<[cb |-> p, next |-> n + 1], f>>
    BY <1>4, <2>1, OneFrame
  <2>3. n <= Len(fs) /\ n # Len(fs) + 1
    BY <1>1, <1>4, <2>1, <2>2
  <2>4. SUFFICES ASSUME drains PROVE DrainInv'
    BY <1>1 DEF DrainInv
  <2>5. EndsInFullBarrier(fs)
    <3>1. ~ AtItsEnd
      BY <1>4, <2>1, <2>3 DEF AtItsEnd
    <3> QED BY <1>1, <1>2, <1>4, <2>1, <2>4, <3>1 DEF DrainInv
  <2>6. /\ running' # <<>> /\ running'[1].cb = p /\ running'[1].next = n + 1
    <3>1. running' = <<[cb |-> p, next |-> n + 1]>>
              \/ \E f : running' = <<[cb |-> p, next |-> n + 1], f>>
      BY <2>2 DEF CallFunction
    <3> QED BY <3>1
  <2>7. CASE n < Len(fs)
    <3>1. n + 1 <= Len(fs)
      BY <1>4, <2>1, <2>7
    <3> QED BY <1>1, <1>4, <2>5, <2>6, <3>1 DEF DrainInv
  <2>8. CASE n = Len(fs)
    <3>1. PICK f : f = fs[n]
      OBVIOUS
    <3>2. f = Last(fs) /\ f.op = "barrier" /\ "BOTTOM_OF_PIPE" \in f.src /\ "TOP_OF_PIPE" \in f.dst
      BY <2>5, <2>8, <3>1 DEF EndsInFullBarrier, Last
    <3>3. Functions[Top.next] = f
      BY <2>2, <3>1
    <3>4. running' = Advanced /\ calls' = CallsOf(f)
      BY <3>2, <3>3 DEF CallFunction
    <3>5. calls' = <<Barrier(Stage, Stage)>>
      BY <3>2, <3>4, FullBarrierCalls
    <3>6. Len(running') = 1
      BY <2>2, <3>4
    <3>7. AtItsEnd'
      BY <1>1, <1>4, <2>6, <2>8, <3>6 DEF AtItsEnd
    <3> QED BY <3>5, <3>7 DEF DrainInv
  <2> QED BY <1>4, <2>1, <2>3, <2>7, <2>8
<1>6. ASSUME NEW n, NEW k, NEW s \in Secondary, InnerAt(p, n, s, k)
      PROVE  DrainInv'
  <2>1. /\ running = <<[cb |-> p, next |-> n], [cb |-> s, next |-> k]>> /\ k \in Nat \ {0}
        /\ running[1] = [cb |-> p, next |-> n] /\ Len(running) = 2
    BY <1>6 DEF InnerAt
  <2>2. /\ Top = [cb |-> s, next |-> k] /\ Functions = deferredFunctions[s]
        /\ Advanced = <<[cb |-> p, next |-> n], [cb |-> s, next |-> k + 1]>>
    BY <2>1, TwoFrames
  <2>3. PICK gs \in Seq(PlainFunction) : gs = deferredFunctions[s] /\ Len(gs) \in Nat
    BY <1>2, Lists
  <2>4. PICK f \in PlainFunction : f = Functions[Top.next]
    BY <1>1, <2>1, <2>2, <2>3
  <2>5. f.op # "execute"
    BY DEF PlainFunction
  <2>6. running' = Advanced
    BY <2>4, <2>5 DEF CallFunction
  <2>7. running' # <<>> /\ running'[1] = [cb |-> p, next |-> n]
    BY <2>2, <2>6
  <2>8. ASSUME drains PROVE n <= Len(fs) /\ EndsInFullBarrier(fs)
    <3>1. ~ AtItsEnd
      BY <2>1 DEF AtItsEnd
    <3> QED BY <1>1, <1>2, <1>4, <2>1, <2>8, <3>1 DEF DrainInv
  <2> QED BY <1>1, <1>4, <2>7, <2>8 DEF DrainInv
<1> QED BY <1>3, <1>5, <1>6

\* After the barrier the list of the primary buffer ends.
LEMMA FunctionsDoneDrain ==
    ASSUME CBInv, FunctionsDone, UNCHANGED drains
    PROVE  DrainInv'
<1>1. /\ running # <<>> /\ calls = <<>> /\ calls' = <<>> /\ Top.next > Len(Functions)
      /\ running' = Front(running)
      /\ deferredFunctions' = [deferredFunctions EXCEPT ![Top.cb] = <<>>]
      /\ UNCHANGED <<index, waitList>>
  BY DEF FunctionsDone, BetweenCalls, Cleared, vars
<1>2. RecordInv /\ DrainInv
  BY DEF CBInv
<1>3. PICK p \in Primary : \/ \E n : OuterAt(p, n)
                           \/ \E n, k : \E s \in Secondary : InnerAt(p, n, s, k)
  BY <1>1, Position
<1>4. PICK fs \in Seq(Function) : fs = deferredFunctions[p] /\ Len(fs) \in Nat
  BY <1>2, Lists
<1>5. ASSUME NEW n, OuterAt(p, n) PROVE DrainInv'
  <2>1. /\ running = <<[cb |-> p, next |-> n]>> /\ n \in Nat
        /\ running[1].cb = p /\ running[1].next = n
    BY <1>5 DEF OuterAt
  <2>2. Top = [cb |-> p, next |-> n] /\ Functions = fs /\ Front(running) = <<>>
    BY <1>4, <2>1, OneFrame
  <2>3. ~ n <= Len(fs)
    BY <1>1, <1>4, <2>1, <2>2
  <2>4. ASSUME drains PROVE Drained
    BY <1>1, <1>2, <1>4, <2>1, <2>3, <2>4 DEF DrainInv
  <2>5. Drained => Drained'
    BY <1>1 DEF Drained
  <2> QED BY <1>1, <2>2, <2>4, <2>5 DEF DrainInv
<1>6. ASSUME NEW n, NEW k, NEW s \in Secondary, InnerAt(p, n, s, k)
      PROVE  DrainInv'
  <2>1. /\ running = <<[cb |-> p, next |-> n], [cb |-> s, next |-> k]>> /\ k \in Nat
        /\ running[1] = [cb |-> p, next |-> n] /\ Len(running) = 2
    BY <1>6 DEF InnerAt
  <2>2. Top = [cb |-> s, next |-> k] /\ Front(running) = <<[cb |-> p, next |-> n]>>
    BY <2>1, TwoFrames
  <2>3. deferredFunctions'[p] = fs
    BY <1>1, <1>4, <2>2, LevelsDisjoint
  <2>4. running' # <<>> /\ running'[1] = [cb |-> p, next |-> n]
    BY <1>1, <2>2
  <2>5. ASSUME drains PROVE n <= Len(fs) /\ EndsInFullBarrier(fs)
    <3>1. ~ AtItsEnd
      BY <2>1 DEF AtItsEnd
    <3> QED BY <1>1, <1>2, <1>4, <2>1, <2>5, <3>1 DEF DrainInv
  <2> QED BY <2>3, <2>4, <2>5 DEF DrainInv
<1> QED BY <1>3, <1>5, <1>6

\* The call of the barrier drains every stage.
LEMMA CallTrackerDrain ==
    ASSUME CBInv, CallTracker, UNCHANGED drains
    PROVE  DrainInv'
<1>1. /\ calls # <<>> /\ calls' = Tail(calls)
      /\ UNCHANGED <<deferredFunctions, running>>
  BY DEF CallTracker, recordVars
<1>2. DrainInv /\ TrackerInv
  BY DEF CBInv
<1>3. CASE AtItsEnd /\ calls = <<Barrier(Stage, Stage)>>
  <2>1. PICK c : c = Barrier(Stage, Stage)
    OBVIOUS
  <2>2. Head(calls) = c /\ calls' = <<>>
    BY <1>1, <1>3, <2>1
  <2>3. c.call = "pipelineBarrier" /\ c.src = Stage /\ c.dst = Stage
    BY <2>1 DEF Barrier
  <2>4. PipelineBarrier(Stage, Stage)
    BY <2>2, <2>3 DEF CallTracker
  <2>5. index' = index /\ \A d \in Stage, t \in Stage : waitList'[d][t] = index[t]
    BY <1>2, <2>4, BarrierRaises
  <2>6. Drained'
    BY <2>5 DEF Drained
  <2>7. AtItsEnd'
    BY <1>1, <1>3 DEF AtItsEnd
  <2> QED BY <2>2, <2>6, <2>7 DEF DrainInv
<1>4. CASE /\ running # <<>>
           /\ running[1].next <= Len(deferredFunctions[running[1].cb])
           /\ EndsInFullBarrier(deferredFunctions[running[1].cb])
  BY <1>1, <1>4 DEF DrainInv
<1>5. CASE ~ drains
  BY <1>5 DEF DrainInv
<1> QED BY <1>1, <1>2, <1>3, <1>4, <1>5 DEF DrainInv

(***************************************************************************)
(* Every step keeps the invariant.                                         *)
(***************************************************************************)
\* The invariant of the tracker speaks of its variables only.
LEMMA TrackerUntouched ==
    ASSUME TrackerInv, UNCHANGED vars
    PROVE  TrackerInv'
BY DEF vars, TrackerInv, TypeOK, WaitsForSubmittedWork, LatchedInThePast

\* Entering a function puts calls of the tracker in the list of those to be made.
LEMMA CallFunctionRecord ==
    ASSUME CBInv, CallFunction, UNCHANGED history
    PROVE  RecordInv'
<1>1. RecordInv /\ RecordTypeOK
  BY DEF CBInv, RecordInv
<1>2. /\ UNCHANGED <<status, deferredFunctions, currentRenderPass, recorded, replayed, performed>>
      /\ calls = <<>>
  BY DEF CallFunction, BetweenCalls, recordVars, history
<1>3. PICK f \in Function : f = Functions[Top.next]
  BY EnteredFunction
<1>4. calls' = <<>> \/ (f.op # "execute" /\ calls' = CallsOf(f))
  BY <1>2, <1>3 DEF CallFunction
<1>5. calls' \in Seq(Call)
  <2>1. ASSUME f.op # "execute" PROVE CallsOf(f) \in Seq(Call)
    <3>1. f \in PlainFunction
      BY <2>1 DEF Function
    <3> QED BY <3>1, CallsTyped
  <2>2. CASE calls' = <<>>
    BY <2>2
  <2>3. CASE f.op # "execute" /\ calls' = CallsOf(f)
    BY <2>1, <2>3
  <2> QED BY <1>4, <2>2, <2>3
<1>6. RecordTypeOK'
  BY <1>1, <1>2, <1>5 DEF RecordTypeOK
<1> QED BY <1>1, <1>2, <1>6 DEF RecordInv, Unreplayed

\* Entering a function keeps the whole invariant.
LEMMA CallFunctionInv ==
    ASSUME CBInv, CallFunction, UNCHANGED history
    PROVE  CBInv'
<1>1. TrackerInv'
  BY TrackerUntouched DEF CBInv, CallFunction
<1> QED BY <1>1, CallFunctionRecord, CallFunctionLedger, CallFunctionPair, CallFunctionDrain DEF CBInv

\* So does the end of a list,
LEMMA FunctionsDoneInv ==
    ASSUME CBInv, FunctionsDone, replayed' = [replayed EXCEPT ![Top.cb] = TRUE],
           UNCHANGED <<recorded, owed, performed, drains>>
    PROVE  CBInv'
<1>1. TrackerInv'
  BY TrackerUntouched DEF CBInv, FunctionsDone
<1>2. PairInv'
  BY DEF CBInv, FunctionsDone, PairInv, Paired, vars
<1>3. RecordInv' /\ Ledger'
  BY FunctionsDoneLedger
<1>4. DrainInv'
  BY FunctionsDoneDrain
<1> QED BY <1>1, <1>2, <1>3, <1>4 DEF CBInv

\* a call on the tracker,
LEMMA CallTrackerInv ==
    ASSUME CBInv, CallTracker, performed' = Append(performed, Head(calls)),
           UNCHANGED <<recorded, replayed, owed, drains>>
    PROVE  CBInv'
<1>1. TrackerInv /\ PairInv /\ calls \in Seq(Call)
  BY DEF CBInv, RecordInv, RecordTypeOK
<1>2. TrackerInv' /\ PairInv'
  BY <1>1, CallTrackerPair
<1>3. RecordInv' /\ Ledger'
  BY CallTrackerLedger
<1>4. DrainInv'
  BY CallTrackerDrain
<1> QED BY <1>2, <1>3, <1>4 DEF CBInv

\* and a submission.
LEMMA SubmitInv ==
    ASSUME CBInv, NEW p \in Primary, QueueSubmit(p), owed' = OwedBy(p), performed' = <<>>,
           drains' = EndsInFullBarrier(Unreplayed(p)), UNCHANGED <<recorded, replayed>>
    PROVE  CBInv'
<1>1. UNCHANGED vars /\ UNCHANGED <<recordVars, calls>>
  BY DEF QueueSubmit
<1>2. TrackerInv'
  BY <1>1, TrackerUntouched DEF CBInv
<1>3. PairInv'
  BY <1>1 DEF CBInv, PairInv, Paired, vars
<1>4. RecordInv'
  <2>1. RecordInv /\ RecordTypeOK
    BY DEF CBInv, RecordInv
  <2>2. performed' \in Seq(Call)
    OBVIOUS
  <2>3. RecordTypeOK'
    BY <1>1, <2>1, <2>2 DEF RecordTypeOK, recordVars
  <2> QED BY <1>1, <2>1, <2>3 DEF RecordInv, Unreplayed, recordVars
<1>5. Ledger'
  BY SubmitLedger
<1>6. DrainInv'
  BY SubmitDrain
<1> QED BY <1>2, <1>3, <1>4, <1>5, <1>6 DEF CBInv

\* Every step keeps it.
LEMMA NextCBInv == CBInv /\ [HistoryNext]_allVars => CBInv'
<1> SUFFICES ASSUME CBInv, [HistoryNext]_allVars PROVE CBInv'
  OBVIOUS
<1>1. ASSUME NEW cb \in CB, NEW pass \in RenderPass \cup {NoPass}, BeginCommandBuffer(cb, pass),
             recorded' = [recorded EXCEPT ![cb] = <<>>],
             replayed' = [replayed EXCEPT ![cb] = FALSE],
             UNCHANGED <<owed, performed, drains>>
      PROVE  CBInv'
  BY <1>1, BeginInv
<1>2. ASSUME NEW cb \in CB, RecordsInto(cb),
             recorded' = [recorded EXCEPT ![cb] = Append(@, Last(deferredFunctions'[cb]))],
             UNCHANGED <<replayed, owed, performed, drains>>
      PROVE  CBInv'
  BY <1>2, RecordsIntoInv
<1>3. ASSUME NEW cb \in CB, EndCommandBuffer(cb), UNCHANGED history
      PROVE  CBInv'
  BY <1>3, EndInv
<1>4. ASSUME NEW p \in Primary, QueueSubmit(p), owed' = OwedBy(p), performed' = <<>>,
             drains' = EndsInFullBarrier(Unreplayed(p)), UNCHANGED <<recorded, replayed>>
      PROVE  CBInv'
  BY <1>4, SubmitInv
<1>5. CASE CallFunction /\ UNCHANGED history
  BY <1>5, CallFunctionInv
<1>6. CASE /\ FunctionsDone
           /\ replayed' = [replayed EXCEPT ![Top.cb] = TRUE]
           /\ UNCHANGED <<recorded, owed, performed, drains>>
  BY <1>6, FunctionsDoneInv
<1>7. CASE /\ CallTracker
           /\ performed' = Append(performed, Head(calls))
           /\ UNCHANGED <<recorded, replayed, owed, drains>>
  BY <1>7, CallTrackerInv
<1>8. CASE UNCHANGED allVars
  <2>1. /\ UNCHANGED vars /\ UNCHANGED cbVars /\ UNCHANGED history
    BY <1>8 DEF allVars
  <2>2. /\ UNCHANGED <<status, deferredFunctions, currentRenderPass, running, calls>>
        /\ UNCHANGED <<recorded, replayed, owed, performed, drains>>
        /\ UNCHANGED <<index, waitList>>
    BY <2>1 DEF vars, cbVars, recordVars, replayVars, history
  <2>3. TrackerInv'
    BY <2>1, TrackerUntouched DEF CBInv
  <2>4. RecordInv'
    BY <2>2 DEF CBInv, RecordInv, RecordTypeOK, Unreplayed
  <2>5. PairInv'
    BY <2>2 DEF CBInv, PairInv, Paired
  <2>6. DrainInv'
    BY <2>2 DEF CBInv, DrainInv, Drained, AtItsEnd
  <2>7. Ledger'
    <3>1. \A fs, i : PartOf(fs, i)' = PartOf(fs, i)
      BY <2>2 DEF PartOf, Unreplayed
    <3>2. \A p, n, parts, u : Submission(p, n, parts, u) => Submission(p, n, parts, u)'
      BY <2>2, <3>1 DEF Submission
    <3>3. \A p, n, u : Outside(p, n, u) => Outside(p, n, u)'
      BY <2>2 DEF Outside
    <3>4. \A p, n, s, k, parts, u, v :
              Inside(p, n, s, k, parts, u, v) => Inside(p, n, s, k, parts, u, v)'
      BY <2>2 DEF Inside
    <3>5. \A p, n, parts, u : Progress(p, n, parts, u) => Progress(p, n, parts, u)'
      BY <2>2, <3>2, <3>3, <3>4 DEF Progress
    <3> QED BY <2>2, <3>5 DEF CBInv, Ledger
  <2> QED BY <2>3, <2>4, <2>5, <2>6, <2>7 DEF CBInv
<1> QED BY <1>1, <1>2, <1>3, <1>4, <1>5, <1>6, <1>7, <1>8, Zenon DEF HistoryNext, HistoryReplay

\* What the recording, the replay and the tracker keep in common, for any number
\* of command buffers, render passes, recorded functions and submissions.
THEOREM CBInvHolds == HistorySpec => []CBInv
<1>1. HistoryInit => CBInv
  BY InitCBInv
<1>2. CBInv /\ [HistoryNext]_allVars => CBInv'
  BY NextCBInv
<1> QED BY <1>1, <1>2, PTL DEF HistorySpec

\* What is owed continues what has been made.
Continues(s, t) == \E rest \in Seq(Call) : s = t \o rest

\* A concatenation continues its first part.
LEMMA ContinuesFirst == \A a, b \in Seq(Call) : Continues(a \o b, a)
BY DEF Continues

\* Continuing is transitive.
LEMMA ContinuesTransitive ==
    \A a \in Seq(Call) : \A s, t : Continues(s, t) /\ Continues(t, a) => Continues(s, a)
<1>1. ASSUME NEW a \in Seq(Call), NEW b \in Seq(Call), NEW c \in Seq(Call)
      PROVE  Continues((a \o b) \o c, a)
  <2>1. (a \o b) \o c = a \o (b \o c)
    BY Associative
  <2>2. b \o c \in Seq(Call)
    OBVIOUS
  <2> QED BY <2>1, <2>2 DEF Continues
<1> SUFFICES ASSUME NEW a \in Seq(Call), NEW s, NEW t, Continues(s, t), Continues(t, a)
             PROVE  Continues(s, a)
  OBVIOUS
<1>2. PICK b \in Seq(Call) : t = a \o b
  BY DEF Continues
<1>3. PICK c \in Seq(Call) : s = t \o c
  BY DEF Continues
<1> QED BY <1>1, <1>2, <1>3, Zenon

\* It is kept behind a common first part.
LEMMA ContinuesBehind ==
    \A w, x \in Seq(Call) : \A s : Continues(s, x) => Continues(w \o s, w \o x)
<1>1. ASSUME NEW w \in Seq(Call), NEW x \in Seq(Call), NEW r \in Seq(Call)
      PROVE  Continues(w \o (x \o r), w \o x)
  <2>1. (w \o x) \o r = w \o (x \o r)
    BY Associative
  <2> QED BY <2>1 DEF Continues
<1> SUFFICES ASSUME NEW w \in Seq(Call), NEW x \in Seq(Call), NEW s, Continues(s, x)
             PROVE  Continues(w \o s, w \o x)
  OBVIOUS
<1>2. PICK r \in Seq(Call) : s = x \o r
  BY DEF Continues
<1> QED BY <1>1, <1>2, Zenon

\* The last running concatenation continues every earlier one.
LEMMA SumsContinue ==
    ASSUME NEW parts \in Seq(Seq(Call)), NEW u \in Sums(parts, Call), NEW i \in 0 .. Len(parts)
    PROVE  Continues(u[Len(parts)], u[i])
BY SumsArePrefixes DEF Continues

\* What is continued is a prefix.
LEMMA ContinuesPrefix ==
    \A a \in Seq(Call) : \A s : Continues(s, a) => IsPrefix(a, s)
<1> SUFFICES ASSUME NEW a \in Seq(Call), NEW rest \in Seq(Call), NEW w, w = a \o rest
             PROVE  IsPrefix(a, w)
  BY DEF Continues
<1>1. w \in Seq(Call) /\ Len(w) = Len(a) + Len(rest) /\ Len(a) \in Nat /\ Len(rest) \in Nat
  OBVIOUS
<1>2. \A i \in 1 .. Len(a) : w[i] = a[i]
  OBVIOUS
<1>3. Len(a) <= Len(w)
  BY <1>1
<1>4. SubSeq(w, 1, Len(a)) = a
  BY <1>1, <1>2, <1>3
<1>5. SubSeq(a, 1, Len(a)) = a
  OBVIOUS
<1> QED BY <1>3, <1>4, <1>5 DEF IsPrefix

\* CommandBuffer::callDeferredFunctions: every recorded command, the ones of
\* executed secondary buffers included, reaches the tracker exactly once and in
\* the order of recording.
THEOREM RecordingReplayedOnce == HistorySpec => []ReplaysRecordingOnce
<1>1. CBInv => ReplaysRecordingOnce
  <2> SUFFICES ASSUME CBInv PROVE ReplaysRecordingOnce
    OBVIOUS
  <2>1. RecordInv /\ Ledger
    BY DEF CBInv
  <2>2. PICK a, b \in Seq(Call) : a = performed /\ b = calls
    BY <2>1, Lists
  <2>3. CASE running = <<>>
    <3>1. performed = owed
      BY <2>1, <2>3, NothingRunning
    <3>2. IsPrefix(a, a)
      BY <2>2 DEF IsPrefix
    <3> QED BY <2>2, <3>1, <3>2 DEF ReplaysRecordingOnce
  <2>4. CASE running # <<>>
    <3>1. PICK p \in Primary : \E n \in 1 .. Len(deferredFunctions[p]) + 1 :
              \E parts \in Seq(Seq(Call)) : \E u \in Sums(parts, Call) : Progress(p, n, parts, u)
      BY <2>1, <2>4, InProgress
    <3>2. deferredFunctions[p] \in Seq(Function) /\ Len(deferredFunctions[p]) \in Nat
      BY <2>1, Lists
    <3>3. PICK n \in 1 .. Len(deferredFunctions[p]) + 1, parts \in Seq(Seq(Call)) :
              \E u \in Sums(parts, Call) : Progress(p, n, parts, u)
      BY <3>1
    <3>4. PICK u \in Sums(parts, Call) : Progress(p, n, parts, u)
      BY <3>3
    <3>5. owed = u[Len(parts)] /\ n - 1 \in 0 .. Len(parts) /\ n \in Nat
      BY <3>2, <3>3, <3>4 DEF Progress, Submission
    <3>6. /\ \A i \in 0 .. Len(parts) : u[i] \in Seq(Call)
          /\ \A i \in 1 .. Len(parts) : u[i] = u[i - 1] \o parts[i]
      BY <3>3, <3>4, SumFacts
    <3>7. PICK y : y = a \o b
      OBVIOUS
    <3>8. Continues(y, a)
      BY <3>7, ContinuesFirst, Zenon
    <3>9. ASSUME Outside(p, n, u) PROVE Continues(owed, a)
      <4>1. y = u[n - 1]
        BY <2>2, <3>7, <3>9 DEF Outside
      <4>2. Continues(owed, u[n - 1])
        BY <3>3, <3>4, <3>5, SumsContinue
      <4>3. Continues(owed, y)
        BY <4>1, <4>2, Zenon
      <4> QED BY <3>8, <4>3, ContinuesTransitive, Zenon
    <3>10. ASSUME NEW s \in Secondary, NEW k \in 1 .. Len(deferredFunctions[s]) + 1,
                  NEW v \in Sums(CallParts(deferredFunctions[s]), Call),
                  Inside(p, n, s, k, parts, u, v)
           PROVE  Continues(owed, a)
      <4>1. PICK gs \in Seq(PlainFunction) : gs = deferredFunctions[s] /\ Len(gs) \in Nat
        BY <2>1, Lists
      <4>2. PICK qs \in Seq(Seq(Call)) : qs = CallParts(gs) /\ Len(qs) = Len(gs)
        BY PartsTyped
      <4>3. PICK j \in 0 .. Len(qs) : j = k - 1
        BY <3>10, <4>1, <4>2
      <4>4. v \in Sums(qs, Call)
        BY <3>10, <4>1, <4>2
      <4>5. v[j] \in Seq(Call)
        BY <4>2, <4>3, <4>4, SumFacts
      <4>6. /\ n \in 1 .. Len(parts) /\ n - 1 \in 0 .. Len(parts) /\ n \in 0 .. Len(parts)
            /\ parts[n] = v[Len(qs)] /\ y = u[n - 1] \o v[j]
        BY <2>2, <3>4, <3>5, <3>7, <3>10, <4>1, <4>2, <4>3 DEF Inside, Progress, Submission
      <4>7. Continues(v[Len(qs)], v[j])
        BY <4>4, SumsContinue
      <4>8. u[n - 1] \in Seq(Call) /\ u[n] = u[n - 1] \o v[Len(qs)]
        BY <3>6, <4>6
      <4>9. Continues(u[n], y)
        <5>1. Continues(u[n - 1] \o v[Len(qs)], u[n - 1] \o v[j])
          BY <4>5, <4>7, <4>8, ContinuesBehind, Zenon
        <5> QED BY <4>6, <4>8, <5>1, Zenon
      <4>10. Continues(owed, u[n])
        BY <3>3, <3>4, <3>5, <4>6, SumsContinue
      <4>11. Continues(u[n], a)
        BY <3>8, <4>9, ContinuesTransitive, Zenon
      <4> QED BY <4>10, <4>11, ContinuesTransitive, Zenon
    <3>11. Continues(owed, a)
      BY <3>4, <3>9, <3>10 DEF Progress
    <3>12. IsPrefix(a, owed)
      BY <3>11, ContinuesPrefix, Zenon
    <3> QED BY <2>2, <2>4, <3>12 DEF ReplaysRecordingOnce
  <2> QED BY <2>3, <2>4
<1> QED BY <1>1, CBInvHolds, PTL

\* CommandBuffer::beginRenderPass: between two functions every fragment item has
\* its geometry item, and fragment work waits for all geometry work.
THEOREM PassesStayPaired == HistorySpec => []PassesPaired
<1>1. CBInv => PassesPaired
  BY DEF CBInv, PairInv, Paired, PassesPaired
<1> QED BY <1>1, CBInvHolds, PTL

\* CommandBuffer::pipelineBarrier: after a submission that ends in a barrier from
\* BOTTOM_OF_PIPE to TOP_OF_PIPE every stage waits for all work of every stage.
THEOREM FullBarriersDrain == HistorySpec => []FullBarrierDrains
<1>1. CBInv => FullBarrierDrains
  BY DEF CBInv, DrainInv, Drained, AtItsEnd, FullBarrierDrains
<1> QED BY <1>1, CBInvHolds, PTL

=============================================================================
