--------------------------- MODULE GreedyPlanner ---------------------------
(***************************************************************************)
(* The memory planner of TensorFlow Lite Micro                             *)
(* (greedy_memory_planner.cc): it gives every buffer an offset in the head *)
(* of the arena so that buffers used at the same time do not overlap.      *)
(* Offsets that come with the model are kept; the other buffers follow by  *)
(* size, each in the first gap that is large enough.                       *)
(***************************************************************************)
EXTENDS Integers

CONSTANTS
  Online,       \* kOnlinePlannedBuffer: the model gives no offset
  MaxBuffers,   \* what a planner's scratch memory may have room for
  Requirements  \* the requirements a client may add

ASSUME PlannerAssumption ==
  /\ Online \notin Nat
  /\ MaxBuffers \subseteq Nat
  /\ Requirements \subseteq [size: Nat, first: Int, last: Int, offline: Nat \cup {Online}]

VARIABLES
  max,           \* max_buffer_count_
  bufferCount,   \* buffer_count_
  requirements,  \* requirements_
  offsets,       \* buffer_offsets_ of the buffers placed so far
  list,          \* buffers_sorted_by_offset_, in the order of its links
  count,         \* next_free_entry_, the length of the list
  wanted,        \* the buffer that is being placed, 0 if none is
  prior,         \* prior_entry, its position in the list, 0 for nullptr
  candidate      \* candidate_offset

search == <<wanted, prior, candidate>>
client == <<max, bufferCount, requirements>>
planner == <<client, offsets, list, count, search>>

Buffers == 1 .. bufferCount
Placed == DOMAIN offsets
IsOnline(b) == requirements[b].offline = Online
Size(b) == requirements[b].size
End(b) == offsets[b] + Size(b)

\* Mutant: buffers that meet in one step are taken for separate.
ActiveTogetherStrictly(a, b) ==
  /\ requirements[a].first < requirements[b].last
  /\ requirements[b].first < requirements[a].last

\* DoesEntryOverlapInTime
ActiveTogether(a, b) ==
  /\ requirements[a].first <= requirements[b].last
  /\ requirements[b].first <= requirements[a].last

PlannerTypeOK ==
  /\ max \in Nat
  /\ bufferCount \in Nat
  /\ DOMAIN requirements = Buffers
  /\ \A b \in Buffers : requirements[b] \in
       [size: Nat, first: Int, last: Int, offline: Nat \cup {Online}]
  /\ Placed \subseteq Buffers
  /\ offsets = [b \in Placed |-> offsets[b]]
  /\ \A b \in Placed : offsets[b] \in Nat
  /\ count \in Nat
  /\ DOMAIN list = 1 .. count
  /\ \A p \in 1 .. count : list[p] \in Placed
  /\ wanted \in Buffers \cup {0}
  /\ wanted \notin Placed
  /\ prior \in Nat
  /\ wanted # 0 => prior <= count
  /\ candidate \in Nat

NoFunction == [x \in {} |-> 0]

PlannerInit ==
  /\ max \in MaxBuffers
  /\ bufferCount = 0
  /\ requirements = NoFunction
  /\ offsets = NoFunction
  /\ list = NoFunction
  /\ count = 0
  /\ wanted = 0
  /\ prior = 0
  /\ candidate = 0

Forget == offsets' = NoFunction /\ list' = NoFunction /\ count' = 0

-----------------------------------------------------------------------------
(* Init and AddBuffer.  Offsets computed before are computed anew.         *)

InitPlanner(room) ==
  /\ wanted = 0
  /\ max' = room
  /\ bufferCount' = 0
  /\ requirements' = NoFunction
  /\ Forget
  /\ UNCHANGED search

Add(r) ==
  /\ wanted = 0
  /\ bufferCount < max
  /\ bufferCount' = bufferCount + 1
  /\ requirements' = [b \in 1 .. bufferCount + 1 |-> IF b <= bufferCount THEN requirements[b] ELSE r]
  /\ Forget
  /\ UNCHANGED <<max, search>>

-----------------------------------------------------------------------------
(* CalculateOffsetsIfNeeded                                                *)

\* The order in which the buffers are placed: those with an offset first, as
\* they were added; the others by size, the latest of equal ones first.
Precedes(a, b) ==
  \/ ~IsOnline(a) /\ IsOnline(b)
  \/ ~IsOnline(a) /\ ~IsOnline(b) /\ a < b
  \/ /\ IsOnline(a) /\ IsOnline(b)
     /\ Size(a) > Size(b) \/ (Size(a) = Size(b) /\ a > b)

\* Mutant: the missing offset is taken for one.
StartBufferAtOffline ==
  /\ wanted = 0
  /\ \E b \in Buffers \ Placed :
       /\ \A c \in (Buffers \ Placed) \ {b} : Precedes(b, c)
       /\ wanted' = b
       /\ candidate' = requirements[b].offline
  /\ prior' = 0
  /\ UNCHANGED <<client, offsets, list, count>>

StartBuffer ==
  /\ wanted = 0
  /\ \E b \in Buffers \ Placed :
       /\ \A c \in (Buffers \ Placed) \ {b} : Precedes(b, c)
       /\ wanted' = b
       /\ candidate' = IF IsOnline(b) THEN 0 ELSE requirements[b].offline
  /\ prior' = 0
  /\ UNCHANGED <<client, offsets, list, count>>

\* NextSimultaneouslyActiveBuffer(prior_entry)
IsNext(p) ==
  /\ p \in prior + 1 .. count
  /\ ActiveTogether(list[p], wanted)
  /\ \A q \in prior + 1 .. p - 1 : ~ActiveTogether(list[q], wanted)
NoNext == \A p \in prior + 1 .. count : ~ActiveTogether(list[p], wanted)

\* candidate_offset, moved behind prior_entry.
BehindPrior ==
  IF prior # 0 /\ IsOnline(wanted) /\ End(list[prior]) > candidate THEN End(list[prior]) ELSE candidate

\* Mutant: the search starts again from the same entry.
SkipGapInPlace ==
  /\ wanted # 0
  /\ IsOnline(wanted)
  /\ \E p \in 1 .. count : IsNext(p) /\ offsets[list[p]] - BehindPrior < Size(wanted)
  /\ candidate' = BehindPrior
  /\ UNCHANGED <<client, offsets, list, count, wanted, prior>>

\* The gap before the next active buffer is too small.
SkipGap ==
  /\ wanted # 0
  /\ IsOnline(wanted)
  /\ \E p \in 1 .. count :
       /\ IsNext(p)
       /\ offsets[list[p]] - BehindPrior < Size(wanted)
       /\ prior' = p
  /\ candidate' = BehindPrior
  /\ UNCHANGED <<client, offsets, list, count, wanted>>

\* Where the list is cut for an entry at offset o: behind the entries up to
\* the last one before the first that begins later.
Cuts(o) ==
  {cut \in 0 .. count :
     /\ \A q \in 1 .. cut : offsets[list[q]] <= o
     /\ cut < count => offsets[list[cut + 1]] > o}

PlaceBuffer ==
  /\ wanted # 0
  /\ \/ ~IsOnline(wanted)
     \/ NoNext
     \/ \E p \in 1 .. count : IsNext(p) /\ offsets[list[p]] - BehindPrior >= Size(wanted)
  /\ offsets' = [b \in Placed \cup {wanted} |-> IF b = wanted THEN BehindPrior ELSE offsets[b]]
  /\ \E cut \in Cuts(BehindPrior) :
       list' = [p \in 1 .. count + 1 |->
                  IF p <= cut THEN list[p] ELSE IF p = cut + 1 THEN wanted ELSE list[p - 1]]
  /\ count' = count + 1
  /\ wanted' = 0
  /\ UNCHANGED <<client, prior, candidate>>

PlacingStep == StartBuffer \/ SkipGap \/ PlaceBuffer

\* All offsets are known, and how far they reach (GetMaximumMemorySize).
Planned == wanted = 0 /\ Placed = Buffers
Reaches(n) ==
  \/ Buffers = {} /\ n = 0
  \/ /\ \A b \in Buffers : End(b) <= n
     /\ \E b \in Buffers : End(b) = n

PlannerNext ==
  \/ \E room \in MaxBuffers : InitPlanner(room)
  \/ \E r \in Requirements : Add(r)
  \/ PlacingStep

PlannerSpec == PlannerInit /\ [][PlannerNext]_planner

-----------------------------------------------------------------------------
(* Properties.                                                             *)

(* Two buffers of which one at least was placed by the planner do not      *)
(* share memory at any time, whatever the sizes, the lifetimes and the     *)
(* offsets of the model, and although the list is searched for gaps while  *)
(* buffers of other times lie in between.                                  *)
LiveTogether(a, b) ==
  \E t \in {requirements[a].first, requirements[b].first} :
    /\ requirements[a].first <= t /\ t <= requirements[a].last
    /\ requirements[b].first <= t /\ t <= requirements[b].last
Apart(a, b) == End(a) <= offsets[b] \/ End(b) <= offsets[a]
PlanIsSound ==
  \A a, b \in Placed :
    (a # b /\ (IsOnline(a) \/ IsOnline(b)) /\ LiveTogether(a, b)) => Apart(a, b)
=============================================================================
