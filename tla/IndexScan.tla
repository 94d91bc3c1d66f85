------------------------------ MODULE IndexScan ------------------------------
(***************************************************************************)
(* What an indexed draw finds in its index buffer: CommandBuffer::         *)
(* scanIndices and testCache in layer/commandbuffer.cpp, over the memory   *)
(* of DeviceMemory.  A scan runs when the draw is submitted; nothing it    *)
(* uses can be freed before and globalLock is held: its first loop is a    *)
(* step for each index, with nothing in between.  The content of the       *)
(* memory is whatever the application put there.                           *)
(***************************************************************************)
EXTENDS DeviceMemory, Floats, Integers, Sequences, FiniteSetsExt

CONSTANTS
    Width,          \* bits of a uint32_t, and of an index of type UINT32
    ShortWidth,     \* bits of an index of type UINT16
    BucketBits,     \* bits of one element of buckets: 64 in the code
    FragmentSize,   \* FRAGMENT_SIZE
    cacheSize,      \* indexBufferVertexPostTransformCache
    utilizationThreshold, cacheHitThreshold,    \* floats
    minIndexCount,  \* indexBufferScanMinIndexCount
    Draws           \* the draws: [type, restart, indices]

ASSUME ScanAssumption ==
    /\ cacheSize \in Nat \ {0} /\ BucketBits \in Nat \ {0} /\ FragmentSize \in Nat \ {0}
    /\ Width \in Nat /\ ShortWidth \in Nat /\ ShortWidth < Width
    /\ 2 ^ Width \in Nat \ {0, 1}
    /\ utilizationThreshold \in FloatValues /\ cacheHitThreshold \in FloatValues

\* What a draw reads is counted in bytes by a uint32_t: it has less than half of
\* 2^32 indices.  Less than BucketBits short of 2^32 is all that is supposed.
ASSUME DrawsAssumption ==
    \A draw \in Draws : /\ draw.indices \in Seq(0 .. 2 ^ Width - 1)
                         /\ Len(draw.indices) + BucketBits <= 2 ^ Width

VARIABLES
    cacheEntries,   \* of the command buffer, kept from scan to scan
    scan,           \* the scan under way, with the cache as it found it
    outcome         \* what its second loop did

scanVars == <<memoryVars, cacheEntries, scan, outcome>>

Slots == 0 .. cacheSize - 1
Uint(n) == n % 2 ^ Width

-----------------------------------------------------------------------------

Mut_Looked(iteration) == 0 .. Min({iteration, cacheSize}) - 2

\* The slots testCache looks at: those filled if no index so far was found.
Looked(iteration) == 0 .. Min({iteration, cacheSize}) - 1

Holding(cache, value, iteration) == {i \in Looked(iteration) : cache[i].value = value}

\* The first of the oldest entries.
Oldest(cache) == Min({i \in Slots : \A j \in Slots : cache[i].age <= cache[j].age})

\* The slot testCache leaves the index in.
SlotFor(cache, value, iteration) ==
    LET holding == Holding(cache, value, iteration)
    IN  IF holding # {} THEN Min(holding)
        ELSE IF iteration < cacheSize THEN iteration ELSE Oldest(cache)

Mut_Missed(cache, value, iteration) ==
    iteration >= cacheSize /\ Holding(cache, value, iteration) = {}

Missed(cache, value, iteration) == Holding(cache, value, iteration) = {}

RestartValue(type) == IF type = "UINT16" THEN 2 ^ ShortWidth - 1 ELSE 2 ^ Width - 1

\* The positions of the indices that name vertices.
Counted(draw) ==
    {n \in 1 .. Len(draw.indices) :
        ~ draw.restart \/ draw.indices[n] # RestartValue(draw.type)}

Vertices(draw) == {draw.indices[n] : n \in Counted(draw)}

-----------------------------------------------------------------------------

MinValue(draw) == Min({2 ^ Width - 1} \cup Vertices(draw))
MaxValue(draw) == Max({0} \cup Vertices(draw))

Mut_Buckets(span) == Uint(span + 1) \div BucketBits

\* The size buckets is given, for span = maxValue - minValue.
Buckets(span) == Uint(Uint(span + 1) + BucketBits - 1) \div BucketBits

Mut_Bit(offset) == <<0, offset % BucketBits>>

\* The bit of buckets an index sets, by its distance from minValue.
Bit(offset) == <<offset \div BucketBits, offset % BucketBits>>

\* Where it leaves its mark in the printed fragmentation.
Fragment(offset, span) == Uint(offset * FragmentSize) \div Uint(span + 1)

\* The second loop and the reports made after it.
SecondLoop(draw, shadeCount) ==
    LET min == MinValue(draw)
        span == MaxValue(draw) - min
        offsets == {v - min : v \in Vertices(draw)}
        bits == {Bit(d) : d \in offsets}
        referenced == Cardinality(bits)
    IN  [buckets |-> Buckets(span),
         written |-> {b[1] : b \in bits},
         fragments |-> {Fragment(d, span) : d \in offsets},
         referenced |-> referenced,
         reports |->
            (IF QuotientLess(referenced, Uint(span + 1), utilizationThreshold)
             THEN {"INDEX_BUFFER_SPARSE"} ELSE {})
            \cup (IF QuotientAtMost(referenced, shadeCount, cacheHitThreshold)
                  THEN {"INDEX_BUFFER_CACHE_THRASHING"} ELSE {})]

\* An early exit leaves the second loop out.
NoLoop(reports) ==
    [buckets |-> 0, written |-> {}, fragments |-> {}, referenced |-> 0, reports |-> reports]

SpanTooWide(draw) == MaxValue(draw) - MinValue(draw) >= Len(draw.indices)

Outcome(draw, shadeCount) ==
    IF MaxValue(draw) < MinValue(draw) THEN NoLoop({})
    ELSE IF SpanTooWide(draw) THEN NoLoop({"INDEX_BUFFER_SPARSE"})
    ELSE SecondLoop(draw, shadeCount)

NoScan == [draw |-> "none"]
NoOutcome == [reports |-> "none"]

ScanInit ==
    /\ MemoryInit
    /\ cacheEntries = [i \in Slots |-> [value |-> 0, age |-> 0]]
    /\ scan = NoScan
    /\ outcome = NoOutcome

\* Indices are only read where the layer has a mapping; the application keeps what a
\* submitted draw uses alive.
ScanIndices(b, draw) ==
    /\ scan = NoScan
    /\ b \in Live(buffer) /\ buffer[b].index /\ buffer[b].bound
    /\ buffer[b].memory # Nowhere /\ memory[buffer[b].memory].mapped
    /\ Len(draw.indices) >= minIndexCount
    /\ scan' = [draw |-> draw, found |-> cacheEntries, position |-> 0, iteration |-> 0,
                shaded |-> {}]
    /\ UNCHANGED <<memoryVars, cacheEntries, outcome>>

\* One index of the first loop, testCache included.
VisitIndex ==
    /\ scan # NoScan /\ scan.position < Len(scan.draw.indices)
    /\ LET n == scan.position + 1
           value == scan.draw.indices[n]
           slot == SlotFor(cacheEntries, value, scan.iteration)
       IN  \/ /\ n \notin Counted(scan.draw)
              /\ scan' = [scan EXCEPT !.position = n]
              /\ UNCHANGED cacheEntries
           \/ /\ n \in Counted(scan.draw)
              /\ cacheEntries' =
                     [cacheEntries EXCEPT ![slot] = [value |-> value, age |-> scan.iteration]]
              /\ scan' = [scan EXCEPT !.position = n, !.iteration = @ + 1,
                             !.shaded = IF Missed(cacheEntries, value, scan.iteration)
                                        THEN @ \cup {n} ELSE @]
    /\ UNCHANGED <<memoryVars, outcome>>

\* The rest of scanIndices, with vertexShadeCount as the first loop left it.
ScanReports ==
    /\ scan # NoScan /\ scan.position = Len(scan.draw.indices)
    /\ outcome = NoOutcome
    /\ outcome' = Outcome(scan.draw, Cardinality(scan.shaded))
    /\ UNCHANGED <<memoryVars, cacheEntries, scan>>

\* scanIndices returns, and globalLock is free again.
ScanReturns ==
    /\ outcome # NoOutcome
    /\ scan' = NoScan
    /\ outcome' = NoOutcome
    /\ UNCHANGED <<memoryVars, cacheEntries>>

ScanNext ==
    \/ scan = NoScan /\ MemoryNext /\ UNCHANGED <<cacheEntries, scan, outcome>>
    \/ \E b \in Buffers, draw \in Draws : ScanIndices(b, draw)
    \/ VisitIndex
    \/ ScanReports
    \/ ScanReturns

ScanSpec == ScanInit /\ [][ScanNext]_scanVars

-----------------------------------------------------------------------------

\* scanIndices reports a sparse index buffer when its vertices spread over more than
\* as many numbers as the draw has indices; else never when the part of that range
\* they are reaches utilizationThreshold, and always when it is at most the float
\* before that: the bits of buckets count every vertex once, and no sum or product
\* wraps on the way.  Parts in between are rounded to one or the other.  A draw of more
\* than FloatLimit numbers has its counts rounded too, and is not spoken of.
SparseReportsRight ==
    outcome # NoOutcome =>
        LET vertices == Vertices(scan.draw)
            used == Cardinality(vertices)
            range == Max(vertices) - Min(vertices) + 1
            reported == "INDEX_BUFFER_SPARSE" \in outcome.reports
        IN  IF vertices = {} THEN ~ reported
            ELSE IF range > Len(scan.draw.indices) THEN reported
            ELSE range <= FloatLimit =>
                     /\ reported => ReallyLess(used, range, utilizationThreshold)
                     /\ AtMostPrevious(used, range, utilizationThreshold) => reported

\* Every range of which a part below utilizationThreshold is used is reported.  The
\* code does not have this property: what lies between the threshold and the float
\* before it may be rounded up.
SparseReportsExact ==
    outcome # NoOutcome =>
        LET vertices == Vertices(scan.draw)
            used == Cardinality(vertices)
            range == Max(vertices) - Min(vertices) + 1
        IN  vertices # {} /\ ReallyLess(used, range, utilizationThreshold)
                => "INDEX_BUFFER_SPARSE" \in outcome.reports

\* scanIndices writes inside buckets and fragmentation, and does not divide by zero.
ScanInBounds ==
    outcome # NoOutcome =>
        /\ \A i \in outcome.written : i < outcome.buckets
        /\ \A f \in outcome.fragments : f < FragmentSize
        /\ outcome.referenced > 0 => Cardinality(scan.shaded) > 0

\* The positions the first loop has left behind it.
Visited == {n \in Counted(scan.draw) : n <= scan.position}
Shaded == {scan.draw.indices[n] : n \in scan.shaded}

\* Those that name the vertex of the position counted before.
Repeats ==
    {n \in Visited : \E m \in Visited :
        /\ m < n /\ scan.draw.indices[m] = scan.draw.indices[n]
        /\ \A k \in Visited : ~ (m < k /\ k < n)}

\* What testCache counts as shaded lies between two bounds, whatever earlier draws left
\* behind: an index that comes for the first time in a draw is found only among what
\* the cache held before, and one that repeats the index before it always is.
ShadedBetweenBounds ==
    scan # NoScan =>
        /\ {scan.draw.indices[n] : n \in Visited} \ {scan.found[i].value : i \in Slots}
               \subseteq Shaded
        /\ scan.shaded \subseteq Visited \ Repeats

\* Every vertex of a draw is shaded at least once, as the percentage in the report of
\* scanIndices supposes.  The code does not have this property: cacheEntries is not
\* cleared between scans, and an index that was found leaves a slot behind that no
\* index of this scan has filled.
EveryVertexShaded ==
    outcome # NoOutcome => Vertices(scan.draw) \subseteq Shaded
=============================================================================
