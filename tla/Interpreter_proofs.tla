-------------------------- MODULE Interpreter_proofs --------------------------
(* Theorems about GreedyPlanner, for any number of buffers, any sizes,     *)
(* lifetimes and offsets, and about MicroAllocator and Interpreter above   *)
(* it, for any models and arenas.                                          *)
EXTENDS Interpreter, FiniteSetTheorems, SequenceTheorems, TLAPS

-----------------------------------------------------------------------------
(* GreedyPlanner.                                                          *)

(* The list of placed buffers is complete and sorted by offset.            *)
Listed == \A b \in Placed : \E p \in 1 .. count : list[p] = b
Sorted == \A p, q \in 1 .. count : p <= q => offsets[list[p]] <= offsets[list[q]]

(* No buffer with an offset of the model is placed after one without.      *)
OfflineFirst ==
  /\ \A a \in Placed : IsOnline(a) => \A b \in Buffers \ Placed : IsOnline(b)
  /\ wanted # 0 /\ IsOnline(wanted) => \A b \in Buffers \ Placed : IsOnline(b)

(* The search has left behind only buffers of other times and buffers that *)
(* end before candidate_offset.                                            *)
Searched ==
  wanted # 0 /\ IsOnline(wanted) =>
    \A p \in 1 .. count :
      p < prior /\ ActiveTogether(list[p], wanted) => End(list[p]) <= candidate

PlanInv ==
  /\ PlannerTypeOK
  /\ Listed
  /\ Sorted
  /\ OfflineFirst
  /\ Searched
  /\ PlanIsSound

(* What LiveTogether says of time is what DoesEntryOverlapInTime tests.    *)
LEMMA LiveIsActive ==
  ASSUME PlannerTypeOK, NEW a \in Buffers, NEW b \in Buffers, LiveTogether(a, b)
  PROVE  ActiveTogether(a, b)
<1>1. /\ requirements[a].first \in Int /\ requirements[a].last \in Int
      /\ requirements[b].first \in Int /\ requirements[b].last \in Int
  BY DEF PlannerTypeOK
<1>2. QED
  BY <1>1 DEF LiveTogether, ActiveTogether

LEMMA SizesAreNat ==
  ASSUME PlannerTypeOK, NEW b \in Buffers
  PROVE  /\ Size(b) \in Nat
         /\ requirements[b].offline \in Nat \cup {Online}
         /\ b \in Placed => End(b) \in Nat
BY DEF PlannerTypeOK, Size, End

LEMMA PlanInit == PlannerInit => PlanInv
<1> SUFFICES ASSUME PlannerInit PROVE PlanInv
  OBVIOUS
<1>1. Buffers = {} /\ Placed = {} /\ count = 0 /\ wanted = 0
  BY DEF PlannerInit, Buffers, Placed, NoFunction
<1>2. PlannerTypeOK
  BY <1>1, PlannerAssumption DEF PlannerInit, PlannerTypeOK, NoFunction, Placed, Buffers
<1>3. Listed /\ Sorted /\ OfflineFirst /\ Searched /\ PlanIsSound
  BY <1>1 DEF Listed, Sorted, OfflineFirst, Searched, PlanIsSound
<1>4. QED
  BY <1>2, <1>3 DEF PlanInv

(* Adding a requirement, or starting over, forgets the plan.               *)
LEMMA ForgetKeeps ==
  ASSUME PlanInv, wanted = 0, Forget, UNCHANGED search,
         max' \in Nat, bufferCount' \in Nat, DOMAIN requirements' = 1 .. bufferCount',
         \A b \in 1 .. bufferCount' : requirements'[b] \in
           [size: Nat, first: Int, last: Int, offline: Nat \cup {Online}]
  PROVE  PlanInv'
<1>1. Placed' = {} /\ count' = 0 /\ wanted' = 0 /\ prior' = prior /\ candidate' = candidate
  BY DEF Forget, search, Placed, NoFunction
<1>2. PlannerTypeOK'
  BY <1>1 DEF PlanInv, PlannerTypeOK, Forget, NoFunction, Buffers, Placed
<1>3. Listed' /\ Sorted' /\ OfflineFirst' /\ Searched' /\ PlanIsSound'
  BY <1>1 DEF Listed, Sorted, OfflineFirst, Searched, PlanIsSound
<1>4. QED
  BY <1>2, <1>3 DEF PlanInv

LEMMA InitKeeps ==
  ASSUME PlanInv, NEW room \in MaxBuffers, InitPlanner(room)
  PROVE  PlanInv'
<1>1. max' \in Nat /\ bufferCount' = 0 /\ DOMAIN requirements' = 1 .. bufferCount'
  BY PlannerAssumption DEF InitPlanner, NoFunction
<1>2. QED
  BY <1>1, ForgetKeeps DEF InitPlanner

LEMMA AddKeeps ==
  ASSUME PlanInv, NEW r \in Requirements, Add(r)
  PROVE  PlanInv'
<1>1. r \in [size: Nat, first: Int, last: Int, offline: Nat \cup {Online}]
  BY PlannerAssumption
<1>2. bufferCount \in Nat /\ bufferCount' = bufferCount + 1 /\ max' = max /\ max \in Nat
  BY DEF PlanInv, PlannerTypeOK, Add
<1>3. \A b \in 1 .. bufferCount' : requirements'[b] \in
        [size: Nat, first: Int, last: Int, offline: Nat \cup {Online}]
  BY <1>1, <1>2 DEF PlanInv, PlannerTypeOK, Buffers, Add
<1>4. DOMAIN requirements' = 1 .. bufferCount'
  BY <1>2 DEF Add
<1>5. QED
  BY <1>2, <1>3, <1>4, ForgetKeeps DEF Add

LEMMA StartKeeps ==
  ASSUME PlanInv, StartBuffer
  PROVE  PlanInv'
<1>1. PICK b \in Buffers \ Placed :
        /\ \A c \in (Buffers \ Placed) \ {b} : Precedes(b, c)
        /\ wanted' = b
        /\ candidate' = IF IsOnline(b) THEN 0 ELSE requirements[b].offline
  BY DEF StartBuffer
<1>2. /\ UNCHANGED <<max, bufferCount, requirements, offsets, list, count>>
      /\ prior' = 0
  BY DEF StartBuffer, client
<1>3. candidate' \in Nat
  BY <1>1, SizesAreNat DEF IsOnline, PlanInv
<1>4. PlannerTypeOK'
  BY <1>1, <1>2, <1>3 DEF PlanInv, PlannerTypeOK, Buffers, Placed
<1>5. Listed' /\ Sorted' /\ PlanIsSound'
  BY <1>2 DEF PlanInv, Listed, Sorted, PlanIsSound, Placed, Buffers, IsOnline,
              LiveTogether, Apart, End, Size
<1>6. OfflineFirst'
  <2>1. \A c \in Buffers \ Placed : IsOnline(b) => IsOnline(c)
    BY <1>1 DEF Precedes
  <2>2. QED
    BY <1>1, <1>2, <2>1 DEF PlanInv, OfflineFirst, Placed, Buffers, IsOnline
<1>7. Searched'
  BY <1>1, <1>2 DEF Searched, PlanInv, PlannerTypeOK
<1>8. QED
  BY <1>4, <1>5, <1>6, <1>7 DEF PlanInv

(* BehindPrior is behind all active buffers up to and with prior_entry.    *)
LEMMA BehindAll ==
  ASSUME PlanInv, wanted # 0, IsOnline(wanted)
  PROVE  /\ BehindPrior \in Nat
         /\ \A p \in 1 .. count :
              p <= prior /\ ActiveTogether(list[p], wanted) => End(list[p]) <= BehindPrior
<1>1. /\ prior \in Nat /\ prior <= count /\ candidate \in Nat /\ count \in Nat
      /\ \A p \in 1 .. count : End(list[p]) \in Nat
  BY SizesAreNat DEF PlanInv, PlannerTypeOK
<1>2. BehindPrior \in Nat /\ BehindPrior >= candidate
  BY <1>1 DEF BehindPrior
<1>3. prior # 0 => BehindPrior >= End(list[prior])
  BY <1>1 DEF BehindPrior
<1>4. \A p \in 1 .. count :
        p < prior /\ ActiveTogether(list[p], wanted) => End(list[p]) <= candidate
  BY DEF PlanInv, Searched
<1>5. QED
  BY <1>1, <1>2, <1>3, <1>4

LEMMA SkipKeeps ==
  ASSUME PlanInv, SkipGap
  PROVE  PlanInv'
<1>1. /\ wanted # 0 /\ IsOnline(wanted)
      /\ candidate' = BehindPrior
      /\ UNCHANGED <<max, bufferCount, requirements, offsets, list, count, wanted>>
  BY DEF SkipGap, client
<1>2. PICK p \in 1 .. count : IsNext(p) /\ prior' = p
  BY DEF SkipGap
<1> DEFINE behind == BehindPrior
<1>3. PlannerTypeOK'
  <2>1. behind \in Nat /\ candidate' = behind
    BY <1>1, BehindAll
  <2> HIDE DEF behind
  <2>2. QED
    BY <1>1, <1>2, <2>1 DEF PlanInv, PlannerTypeOK, Buffers, Placed
<1>4. Listed' /\ Sorted' /\ PlanIsSound' /\ OfflineFirst'
  BY <1>1 DEF PlanInv, Listed, Sorted, PlanIsSound, OfflineFirst, Placed, Buffers, IsOnline,
              LiveTogether, Apart, End, Size
<1>5. Searched'
  <2> SUFFICES ASSUME NEW q \in 1 .. count, q < p, ActiveTogether(list[q], wanted)
               PROVE  End(list[q]) <= BehindPrior
    BY <1>1, <1>2 DEF Searched, IsOnline, ActiveTogether, End, Size
  <2>1. ~(q \in prior + 1 .. p - 1)
    BY <1>2 DEF IsNext
  <2>2. prior \in Nat /\ count \in Nat
    BY DEF PlanInv, PlannerTypeOK
  <2>3. p \in Nat /\ q \in Nat
    BY <2>2
  <2>4. q <= prior
    BY <2>1, <2>2, <2>3
  <2>5. QED
    BY <1>1, <2>4, BehindAll
<1>6. QED
  BY <1>3, <1>4, <1>5 DEF PlanInv

(* Where a buffer is placed it meets no buffer it is used together with.   *)
LEMMA PlaceIsFree ==
  ASSUME PlanInv, PlaceBuffer, IsOnline(wanted),
         NEW b \in Placed, ActiveTogether(b, wanted)
  PROVE  End(b) <= BehindPrior \/ BehindPrior + Size(wanted) <= offsets[b]
<1>1. /\ wanted # 0 /\ count \in Nat /\ prior \in Nat
      /\ wanted \in Buffers /\ Size(wanted) \in Nat
      /\ \A p \in 1 .. count : list[p] \in Placed
      /\ \A a \in Placed : offsets[a] \in Nat
  BY SizesAreNat DEF PlaceBuffer, PlanInv, PlannerTypeOK
<1>2. PICK q \in 1 .. count : list[q] = b
  BY DEF PlanInv, Listed
<1>3. CASE q <= prior
  BY <1>1, <1>2, <1>3, BehindAll
<1>4. CASE q > prior
  <2>1. q \in prior + 1 .. count
    BY <1>1, <1>4
  <2>2. ~NoNext
    BY <1>2, <2>1 DEF NoNext
  <2>3. PICK p \in 1 .. count : IsNext(p) /\ offsets[list[p]] - BehindPrior >= Size(wanted)
    BY <2>2 DEF PlaceBuffer
  <2>4. ~(q \in prior + 1 .. p - 1)
    BY <1>2, <2>3 DEF IsNext
  <2>5. p <= q
    BY <1>1, <1>4, <2>4
  <2>6. offsets[list[p]] <= offsets[b]
    BY <1>2, <2>5 DEF PlanInv, Sorted
  <2>7. BehindPrior \in Nat
    BY <1>1, BehindAll
  <2>8. QED
    BY <1>1, <2>3, <2>6, <2>7
<1>5. QED
  BY <1>1, <1>3, <1>4

LEMMA PlaceKeeps ==
  ASSUME PlanInv, PlaceBuffer
  PROVE  PlanInv'
<1> DEFINE o == BehindPrior
<1>1. /\ wanted # 0 /\ wanted \in Buffers /\ wanted \notin Placed
      /\ count \in Nat /\ candidate \in Nat
      /\ \A a \in Placed : offsets[a] \in Nat
      /\ \A p \in 1 .. count : list[p] \in Placed
  BY DEF PlaceBuffer, PlanInv, PlannerTypeOK
<1>2. o \in Nat
  BY <1>1, BehindAll DEF BehindPrior
<1>3. /\ count' = count + 1 /\ wanted' = 0
      /\ UNCHANGED <<max, bufferCount, requirements, prior, candidate>>
      /\ offsets' = [b \in Placed \cup {wanted} |-> IF b = wanted THEN o ELSE offsets[b]]
  BY DEF PlaceBuffer, client
<1>4. PICK cut \in 0 .. count :
        /\ \A q \in 1 .. cut : offsets[list[q]] <= o
        /\ cut < count => offsets[list[cut + 1]] > o
        /\ list' = [p \in 1 .. count + 1 |->
                      IF p <= cut THEN list[p] ELSE IF p = cut + 1 THEN wanted ELSE list[p - 1]]
  BY DEF PlaceBuffer, Cuts
<1>5. /\ Placed' = Placed \cup {wanted}
      /\ offsets'[wanted] = o
      /\ \A b \in Placed : offsets'[b] = offsets[b]
  BY <1>1, <1>3 DEF Placed
<1>6. /\ DOMAIN list' = 1 .. count'
      /\ \A p \in 1 .. cut : list'[p] = list[p]
      /\ list'[cut + 1] = wanted
      /\ \A p \in cut + 2 .. count + 1 : p - 1 \in 1 .. count /\ list'[p] = list[p - 1]
  BY <1>1, <1>3, <1>4
<1>7. PlannerTypeOK'
  <2>1. \A p \in 1 .. count' : list'[p] \in Placed'
    BY <1>1, <1>3, <1>4, <1>5
  <2>2. \A b \in Placed' : offsets'[b] \in Nat
    BY <1>1, <1>2, <1>5
  <2>3. offsets' = [b \in Placed' |-> offsets'[b]]
    BY <1>3, <1>5
  <2>4. Placed' \subseteq Buffers' /\ wanted' \notin Placed'
    BY <1>1, <1>3, <1>5 DEF Buffers, PlanInv, PlannerTypeOK
  <2>5. /\ max' \in Nat /\ bufferCount' \in Nat /\ DOMAIN requirements' = Buffers'
        /\ \A b \in Buffers' : requirements'[b] \in
             [size: Nat, first: Int, last: Int, offline: Nat \cup {Online}]
    BY <1>3 DEF PlannerTypeOK, PlanInv, Buffers
  <2>6. count' \in Nat /\ prior' \in Nat /\ candidate' \in Nat /\ wanted' = 0
    BY <1>1, <1>3 DEF PlannerTypeOK, PlanInv
  <2>7. DOMAIN list' = 1 .. count'
    BY <1>6
  <2>8. QED
    BY <2>1, <2>2, <2>3, <2>4, <2>5, <2>6, <2>7 DEF PlannerTypeOK
<1>8. Listed'
  <2> SUFFICES ASSUME NEW b \in Placed' PROVE \E p \in 1 .. count' : list'[p] = b
    BY DEF Listed
  <2>1. CASE b = wanted
    BY <1>1, <1>3, <1>6, <2>1
  <2>2. CASE b \in Placed
    <3>1. PICK p \in 1 .. count : list[p] = b
      BY <2>2 DEF PlanInv, Listed
    <3>2. CASE p <= cut
      BY <1>1, <1>3, <1>6, <3>1, <3>2
    <3>3. CASE p > cut
      <4>1. p + 1 \in cut + 2 .. count + 1 /\ (p + 1) - 1 = p
        BY <1>1, <3>3
      <4>2. list'[p + 1] = b
        BY <1>6, <3>1, <4>1
      <4>3. QED
        BY <1>1, <1>3, <4>1, <4>2
    <3>4. QED
      BY <1>1, <3>2, <3>3
  <2>3. QED
    BY <1>5, <2>1, <2>2
<1>9. Sorted'
  <2>1. \A q \in cut + 1 .. count : offsets[list[q]] > o
    <3> SUFFICES ASSUME NEW q \in cut + 1 .. count PROVE offsets[list[q]] > o
      OBVIOUS
    <3>1. cut < count /\ cut + 1 \in 1 .. count /\ q \in 1 .. count
      BY <1>1
    <3>2. offsets[list[cut + 1]] <= offsets[list[q]]
      BY <1>1, <3>1 DEF PlanInv, Sorted
    <3>3. QED
      BY <1>1, <1>2, <1>4, <3>1, <3>2
  <2>2. \A p \in 1 .. cut : offsets'[list'[p]] = offsets[list[p]] /\ offsets[list[p]] <= o
    BY <1>1, <1>4, <1>5, <1>6
  <2>3. \A p \in cut + 2 .. count + 1 : offsets'[list'[p]] = offsets[list[p - 1]] /\ offsets[list[p - 1]] > o
    BY <1>1, <1>5, <1>6, <2>1
  <2>4. offsets'[list'[cut + 1]] = o
    BY <1>5, <1>6
  <2> SUFFICES ASSUME NEW p \in 1 .. count + 1, NEW q \in 1 .. count + 1, p <= q
               PROVE  offsets'[list'[p]] <= offsets'[list'[q]]
    BY <1>3 DEF Sorted
  <2>5. \A a, b \in 1 .. count : a <= b => offsets[list[a]] <= offsets[list[b]]
    BY DEF PlanInv, Sorted
  <2>6. CASE p <= cut /\ q <= cut
    BY <1>1, <2>2, <2>5, <2>6
  <2>7. CASE p > cut + 1
    <3>1. /\ p - 1 \in 1 .. count /\ q - 1 \in 1 .. count /\ p - 1 <= q - 1
          /\ p \in cut + 2 .. count + 1 /\ q \in cut + 2 .. count + 1
      BY <1>1, <2>7
    <3>2. offsets[list[p - 1]] <= offsets[list[q - 1]]
      BY <2>5, <3>1
    <3>3. QED
      BY <2>3, <3>1, <3>2
  <2>8. CASE p <= cut + 1 /\ q > cut
    <3>1. offsets'[list'[p]] <= o /\ offsets'[list'[p]] \in Nat
      BY <1>1, <1>2, <1>4, <1>5, <1>6, <2>2, <2>4, <2>8
    <3>2. offsets'[list'[q]] >= o /\ offsets'[list'[q]] \in Nat
      BY <1>1, <1>2, <1>5, <1>6, <2>3, <2>4, <2>8
    <3>3. QED
      BY <1>2, <3>1, <3>2
  <2>9. QED
    BY <1>1, <2>6, <2>7, <2>8
<1>10. OfflineFirst'
  BY <1>1, <1>3, <1>5 DEF PlanInv, OfflineFirst, Buffers, IsOnline
<1>11. Searched'
  BY <1>3 DEF Searched
<1>12. PlanIsSound'
  <2>1. \A b \in Placed : (IsOnline(wanted) \/ IsOnline(b)) /\ ActiveTogether(b, wanted)
          => End(b) <= o \/ o + Size(wanted) <= offsets[b]
    <3> SUFFICES ASSUME NEW b \in Placed, IsOnline(wanted) \/ IsOnline(b), ActiveTogether(b, wanted)
                 PROVE  End(b) <= o \/ o + Size(wanted) <= offsets[b]
      OBVIOUS
    <3>1. IsOnline(wanted)
      BY <1>1 DEF PlanInv, OfflineFirst
    <3>2. QED
      BY <3>1, PlaceIsFree
  <2> SUFFICES ASSUME NEW a \in Placed', NEW b \in Placed', a # b,
                      (IsOnline(a) \/ IsOnline(b))', LiveTogether(a, b)'
               PROVE  Apart(a, b)'
    BY DEF PlanIsSound
  <2>2. /\ a \in Buffers /\ b \in Buffers
        /\ IsOnline(a) \/ IsOnline(b)
        /\ LiveTogether(a, b)
    <3>1. a \in Buffers /\ b \in Buffers
      BY <1>1, <1>5 DEF PlanInv, PlannerTypeOK
    <3>2. IsOnline(a) \/ IsOnline(b)
      BY <1>3 DEF IsOnline
    <3>3. LiveTogether(a, b)
      BY <1>3 DEF LiveTogether
    <3>4. QED
      BY <3>1, <3>2, <3>3
  <2>3. ActiveTogether(a, b) /\ ActiveTogether(b, a)
    BY <2>2, LiveIsActive DEF PlanInv, ActiveTogether
  <2>4. CASE a \in Placed /\ b \in Placed
    <3>1. Apart(a, b)
      BY <2>2, <2>4 DEF PlanInv, PlanIsSound
    <3>2. QED
      BY <1>3, <1>5, <2>4, <3>1 DEF Apart, End, Size
  <2>5. CASE a = wanted /\ b \in Placed
    BY <1>3, <1>5, <2>1, <2>2, <2>3, <2>5 DEF Apart, End, Size
  <2>6. CASE a \in Placed /\ b = wanted
    BY <1>3, <1>5, <2>1, <2>2, <2>3, <2>6 DEF Apart, End, Size
  <2>7. QED
    BY <1>5, <2>4, <2>5, <2>6
<1>13. QED
  BY <1>7, <1>8, <1>9, <1>10, <1>11, <1>12 DEF PlanInv

LEMMA PlanStep == PlanInv /\ [PlannerNext]_planner => PlanInv'
<1> SUFFICES ASSUME PlanInv, [PlannerNext]_planner PROVE PlanInv'
  OBVIOUS
<1>1. CASE \E room \in MaxBuffers : InitPlanner(room)
  BY <1>1, InitKeeps
<1>2. CASE \E r \in Requirements : Add(r)
  BY <1>2, AddKeeps
<1>3. CASE StartBuffer
  BY <1>3, StartKeeps
<1>4. CASE SkipGap
  BY <1>4, SkipKeeps
<1>5. CASE PlaceBuffer
  BY <1>5, PlaceKeeps
<1>6. CASE UNCHANGED planner
  BY <1>6 DEF planner, client, search, PlanInv, PlannerTypeOK, Listed, Sorted, OfflineFirst,
              Searched, PlanIsSound, Placed, Buffers, IsOnline, ActiveTogether, LiveTogether,
              Apart, End, Size
<1>7. QED
  BY <1>1, <1>2, <1>3, <1>4, <1>5, <1>6 DEF PlannerNext, PlacingStep

(* CalculateOffsetsIfNeeded never lets two buffers that are used at the    *)
(* same time share memory, if the planner placed one of them: for every    *)
(* number of buffers, whatever their sizes, lifetimes and given offsets.   *)
THEOREM PlannerNeverOverlaps == PlannerSpec => []PlanIsSound
<1>1. PlanInv => PlanIsSound
  BY DEF PlanInv
<1>2. QED
  BY PlanInit, PlanStep, <1>1, PTL DEF PlannerSpec

-----------------------------------------------------------------------------
(* Lists of lists.                                                         *)

(* Induction from 1 to n, for a set.                                       *)
LEMMA Induct ==
  ASSUME NEW n \in Nat, NEW G, n > 0 => 1 \in G,
         \A i \in 1 .. n : i \in G /\ i + 1 \in 1 .. n => i + 1 \in G
  PROVE  1 .. n \subseteq G
<1> DEFINE missed == {i \in 1 .. n : i \notin G}
<1> SUFFICES ASSUME missed # {} PROVE FALSE
  OBVIOUS
<1>1. missed \subseteq Nat
  OBVIOUS
<1>2. PICK x \in missed : \A y \in missed : ~(<<y, x>> \in OpToRel(<, Nat))
  <2> HIDE DEF missed
  <2>1. QED
    BY <1>1, NatLessThanWellFounded, WFMin
<1>3. \A y \in missed : ~(y < x)
  BY <1>1, <1>2 DEF OpToRel
<1>4. x # 1 /\ x - 1 \in 1 .. n /\ (x - 1) + 1 = x
  OBVIOUS
<1>5. x - 1 \in G
  BY <1>3, <1>4
<1>6. QED
  BY <1>4, <1>5

(* What FlattenSeq's recursion computes.                                   *)
LEMMA Flattened ==
  ASSUME NEW S, NEW seqs \in Seq(Seq(S)), seqs # <<>>
  PROVE  \E f \in [1 .. Len(seqs) -> Seq(S)] :
           /\ FlattenSeq(seqs) = f[Len(seqs)]
           /\ f[1] = seqs[1]
           /\ \A i \in 1 .. Len(seqs) : i > 1 => f[i] = f[i - 1] \o seqs[i]
<1> DEFINE n == Len(seqs)
           Is(f, m) == f = [i \in 1 .. m |-> IF i = 1 THEN seqs[i] ELSE f[i - 1] \o seqs[i]]
           G == {m \in 1 .. n : \E f : Is(f, m)}
<1>1. n \in Nat /\ n > 0
  OBVIOUS
<1>2. FlattenSeq(seqs) = (CHOOSE f : Is(f, n))[n]
  BY <1>1 DEF FlattenSeq
<1>3. 1 \in G
  <2>1. Is([i \in 1 .. 1 |-> seqs[i]], 1)
    OBVIOUS
  <2> HIDE DEF Is, n
  <2>2. 1 \in 1 .. n
    BY <1>1
  <2>3. QED
    BY <2>1, <2>2
<1>4. ASSUME NEW m \in 1 .. n, m \in G, m + 1 \in 1 .. n PROVE m + 1 \in G
  <2>1. PICK f : Is(f, m)
    BY <1>4
  <2>0. \A i \in 1 .. m : f[i] = IF i = 1 THEN seqs[i] ELSE f[i - 1] \o seqs[i]
    <3> HIDE DEF n
    <3>1. QED
      BY <2>1
  <2> DEFINE g == [i \in 1 .. m + 1 |-> IF i = m + 1 THEN f[m] \o seqs[m + 1] ELSE f[i]]
  <2>2. \A i \in 1 .. m + 1 : g[i] = IF i = 1 THEN seqs[i] ELSE g[i - 1] \o seqs[i]
    <3> SUFFICES ASSUME NEW i \in 1 .. m + 1
                 PROVE  g[i] = IF i = 1 THEN seqs[i] ELSE g[i - 1] \o seqs[i]
      OBVIOUS
    <3>1. CASE i = m + 1
      <4>1. i # 1 /\ i - 1 = m /\ m \in 1 .. m + 1 /\ m # m + 1
        BY <3>1
      <4>2. QED
        BY <3>1, <4>1
    <3>2. CASE i # m + 1
      <4>0. i \in 1 .. m
        BY <3>2
      <4>1. f[i] = IF i = 1 THEN seqs[i] ELSE f[i - 1] \o seqs[i]
        BY <2>0, <4>0
      <4>2. i # 1 => i - 1 \in 1 .. m + 1 /\ i - 1 # m + 1
        BY <4>0
      <4>3. QED
        BY <3>2, <4>0, <4>1, <4>2
    <3>3. QED
      BY <3>1, <3>2
  <2>3. Is(g, m + 1)
    BY <2>2
  <2> HIDE DEF g, Is
  <2>4. QED
    BY <2>3, <1>4
<1>5. n \in G
  <2> HIDE DEF G
  <2>1. 1 .. n \subseteq G
    BY <1>1, <1>3, <1>4, Induct
  <2>2. QED
    BY <1>1, <2>1
<1> DEFINE F == CHOOSE f : Is(f, n)
<1>6. Is(F, n)
  <2> HIDE DEF Is
  <2>1. QED
    BY <1>5
<1> HIDE DEF F
<1>7. /\ \A i \in 1 .. n : F[i] = IF i = 1 THEN seqs[i] ELSE F[i - 1] \o seqs[i]
      /\ F = [i \in 1 .. n |-> F[i]]
  BY <1>6
<1>8. \A i \in 1 .. n : F[i] \in Seq(S)
  <2> DEFINE H == {i \in 1 .. n : F[i] \in Seq(S)}
  <2>1. 1 \in H
    <3>1. 1 \in 1 .. n /\ seqs[1] \in Seq(S)
      BY <1>1
    <3> HIDE DEF n
    <3>2. QED
      BY <1>7, <3>1
  <2>2. ASSUME NEW i \in 1 .. n, i \in H, i + 1 \in 1 .. n PROVE i + 1 \in H
    <3> HIDE DEF n
    <3>1. i + 1 # 1 /\ (i + 1) - 1 = i
      BY <1>1
    <3>2. F[i + 1] = F[i] \o seqs[i + 1]
      BY <1>7, <2>2, <3>1
    <3>3. F[i] \in Seq(S) /\ seqs[i + 1] \in Seq(S)
      BY <2>2 DEF n
    <3>4. F[i] \o seqs[i + 1] \in Seq(S)
      BY <3>3, ConcatProperties
    <3>5. QED
      BY <2>2, <3>2, <3>4
  <2> HIDE DEF H
  <2>3. 1 .. n \subseteq H
    BY <1>1, <2>1, <2>2, Induct
  <2>4. QED
    BY <2>3 DEF H
<1>9. F \in [1 .. n -> Seq(S)]
  BY <1>7, <1>8
<1>10. /\ FlattenSeq(seqs) = F[n]
       /\ F[1] = seqs[1]
       /\ \A i \in 1 .. n : i > 1 => F[i] = F[i - 1] \o seqs[i]
  <2>1. FlattenSeq(seqs) = F[n]
    BY <1>2 DEF F
  <2> HIDE DEF n
  <2>2. 1 \in 1 .. n /\ \A i \in 1 .. n : i > 1 => i # 1
    BY <1>1
  <2>3. QED
    BY <1>7, <2>1, <2>2
<1>11. QED
  BY <1>9, <1>10

LEMMA FlatType ==
  ASSUME NEW S, NEW seqs \in Seq(Seq(S))
  PROVE  FlattenSeq(seqs) \in Seq(S)
<1>1. CASE seqs = <<>>
  BY <1>1 DEF FlattenSeq
<1>2. CASE seqs # <<>>
  <2>1. Len(seqs) \in 1 .. Len(seqs)
    BY <1>2
  <2>2. PICK f \in [1 .. Len(seqs) -> Seq(S)] : FlattenSeq(seqs) = f[Len(seqs)]
    BY <1>2, Flattened
  <2>3. QED
    BY <2>1, <2>2
<1>3. QED
  BY <1>1, <1>2

-----------------------------------------------------------------------------
(* What the variables of the interpreter hold.                             *)

Kinds ==
  {"arena", "planner", "allocator", "builtin", "subgraphs", "eval", "nodes", "params", "data", "extra",
   "inputs", "input", "outputs", "output", "tensor"}
Name == (Kinds \cup {"temp", "scratch"}) \X Nat \X Nat
PersistentNames == {n \in Name : n[1] \in Kinds}
TemporaryNames == {n \in Name : n[1] = "temp" /\ n \notin {Info, PlannerArena}}

PersistentType ==
  [do: {"persistent"}, name: PersistentNames, bytes: Nat, align: Nat \ {0},
   null: {"undefined", "null", "error", "later"}]
TemporaryType ==
  [do: {"temp"}, name: TemporaryNames, bytes: Nat, null: {"undefined", "error"}]
StepType ==
  [do: {"start", "requests", "handles", "info", "lifetimes", "plan", "reset"}]
OpType ==
  {i \in [do: {"prepare", "scratch", "free", "finish", "op", "used", "outputs"},
          subgraph: Subgraphs, op: Nat, bytes: Nat] :
     i.do # "outputs" => i.op \in DOMAIN Ops(i.subgraph)}
MarkType == [do: {"mark"}, subgraph: Subgraphs, opens: {0, 1}]
Item == PersistentType \cup TemporaryType \cup StepType \cup OpType \cup MarkType

\* What is on the list, with the two steps that only InitMemoryPlanner puts there.
Todo == Item \cup [do: {"commit", "reserve"}]

RequestType == [bytes: Nat, subgraph: Subgraphs, node: Nat]
InfoType == [name: Name, bytes: Nat, first: Int, last: Int, offline: Nat \cup {Online}]
FrameType ==
  [subgraph: Subgraphs, op: Nat \ {0}, stage: {"call", "then", "else", "first", "again", "body"}]

LEMMA ListOf ==
  ASSUME NEW S, NEW n \in Nat, NEW f, f = [i \in 1 .. n |-> f[i]], \A i \in 1 .. n : f[i] \in S
  PROVE  f \in Seq(S) /\ Len(f) = n
<1>1. f \in [1 .. n -> S]
  OBVIOUS
<1>2. QED
  BY <1>1

LEMMA ModelFacts ==
  ASSUME model \in Models
  PROVE  /\ model \in Seq(GraphType)
         /\ Len(model) \in Nat /\ Subgraphs = 1 .. Len(model) /\ 1 \in Subgraphs
         /\ \A s \in Subgraphs :
              /\ Ops(s) \in Seq(OperatorType)
              /\ Len(Ops(s)) \in Nat
              /\ DOMAIN Ops(s) = 1 .. Len(Ops(s))
              /\ model[s].tensors \in Seq(TensorType)
              /\ Len(model[s].tensors) \in Nat
              /\ Tensors(s) = 1 .. Len(model[s].tensors)
              /\ model[s].inputs \in Seq(Nat)
              /\ model[s].outputs \in Seq(Nat)
<1>1. model \in Seq(GraphType) /\ model # <<>>
  BY ModelAssumption
<1>2. Len(model) \in Nat /\ Subgraphs = 1 .. Len(model) /\ 1 \in Subgraphs
  BY <1>1 DEF Subgraphs
<1>3. \A s \in Subgraphs : model[s] \in GraphType
  BY <1>1 DEF Subgraphs
<1>4. ASSUME NEW s \in Subgraphs
      PROVE  /\ Ops(s) \in Seq(OperatorType)
             /\ model[s].tensors \in Seq(TensorType)
             /\ model[s].inputs \in Seq(Nat)
             /\ model[s].outputs \in Seq(Nat)
  BY <1>3 DEF GraphType, Ops
<1>5. QED
  BY <1>1, <1>2, <1>4 DEF Tensors

LEMMA OpFacts ==
  ASSUME model \in Models, NEW s \in Subgraphs, NEW o \in DOMAIN Ops(s)
  PROVE  /\ Ops(s)[o] \in OperatorType
         /\ o \in Nat
         /\ Ops(s)[o].params \in Nat /\ Ops(s)[o].data \in Nat
         /\ Ops(s)[o].inputs \in Seq(Nat) /\ Ops(s)[o].outputs \in Seq(Nat)
         /\ Ops(s)[o].prepare \in Seq(CallType)
         /\ Ops(s)[o].calls \in Seq(Nat)
         /\ \A c \in DOMAIN Ops(s)[o].calls : Ops(s)[o].calls[c] \in Subgraphs
         /\ Ops(s)[o].kind # "kernel" => Len(Ops(s)[o].calls) = 2
<1>1. Ops(s)[o] \in OperatorType /\ o \in Nat
  BY ModelFacts
<1>2. /\ Ops(s)[o].params \in Nat /\ Ops(s)[o].data \in Nat
      /\ Ops(s)[o].inputs \in Seq(Nat) /\ Ops(s)[o].outputs \in Seq(Nat)
      /\ Ops(s)[o].prepare \in Seq(CallType)
      /\ Ops(s)[o].calls \in Seq(Nat)
  BY <1>1 DEF OperatorType
<1>3. /\ \A c \in DOMAIN Ops(s)[o].calls : Ops(s)[o].calls[c] \in Subgraphs
      /\ Ops(s)[o].kind # "kernel" => Len(Ops(s)[o].calls) = 2
  BY ModelAssumption DEF Subgraphs, Ops
<1>4. QED
  BY <1>1, <1>2, <1>3

LEMMA TensorFacts ==
  ASSUME model \in Models, NEW s \in Subgraphs, NEW i \in Tensors(s)
  PROVE  /\ Bytes(<<s, i>>) \in Nat /\ Offline(<<s, i>>) \in Nat \cup {Online}
         /\ T(s, i) \in Name /\ s \in Nat /\ i \in Nat
<1>1. model[s].tensors[i] \in TensorType /\ s \in Nat /\ i \in Nat
  BY ModelFacts
<1>2. T(s, i) \in Name
  BY <1>1 DEF T, Name, Kinds
<1>3. model[s].tensors[i].bytes \in Nat /\ model[s].tensors[i].offline \in Nat \cup {Online}
  BY <1>1 DEF TensorType
<1>4. Bytes(<<s, i>>) = model[s].tensors[i].bytes /\ Offline(<<s, i>>) = model[s].tensors[i].offline
  BY DEF Bytes, Offline
<1>5. QED
  BY <1>1, <1>2, <1>3, <1>4

LEMMA SizeFacts ==
  /\ SizeOf.SingleArenaBufferAllocator \in Nat /\ SizeOf.GreedyMemoryPlanner \in Nat
  /\ SizeOf.MicroAllocator \in Nat /\ SizeOf.MicroBuiltinDataAllocator \in Nat
  /\ SizeOf.SubgraphAllocations \in Nat /\ SizeOf.TfLiteEvalTensor \in Nat
  /\ SizeOf.NodeAndRegistration \in Nat /\ SizeOf.TfLiteTensor \in Nat
  /\ SizeOf.pointer \in Nat /\ SizeOf.size_t \in Nat /\ SizeOf.AllocationInfo \in Nat
  /\ SizeOf.PlannerEntry \in Nat \ {0}
  /\ SizeOf.ScratchBufferRequest \in Nat /\ SizeOf.ScratchBufferHandle \in Nat
  /\ MaxScratch \in Nat
BY ModelAssumption DEF SizeNames

LEMMA Product ==
  ASSUME NEW a \in Nat, NEW b \in Nat
  PROVE  a * b \in Nat
BY SMTT(20)

(* The bytes of a list of pointers and of the handles.                     *)
LEMMA PointerBytes ==
  ASSUME NEW indices \in Seq(Nat)
  PROVE  SizeOf.pointer * Len(indices) \in Nat
<1>1. SizeOf.pointer \in Nat
  BY SizeFacts
<1>2. Len(indices) \in Nat
  OBVIOUS
<1>3. QED
  BY <1>1, <1>2, Product

LEMMA HandleSizes ==
  ASSUME requests \in Seq(RequestType)
  PROVE  SizeOf.ScratchBufferHandle * Len(requests) \in Nat
<1>1. SizeOf.ScratchBufferHandle \in Nat
  BY SizeFacts
<1>2. Len(requests) \in Nat
  OBVIOUS
<1>3. QED
  BY <1>1, <1>2, Product

(* The kinds of items.                                                     *)
LEMMA PersistentItem ==
  ASSUME NEW x \in Kinds, NEW a \in Nat, NEW b \in Nat,
         NEW bytes \in Nat, NEW align \in Nat \ {0}, NEW null \in {"undefined", "null", "error", "later"}
  PROVE  Persistent(<<x, a, b>>, bytes, align, null) \in Item
<1> DEFINE n == <<x, a, b>>
<1>1. n \in PersistentNames
  BY DEF PersistentNames, Name, Kinds
<1> HIDE DEF n
<1>2. Persistent(n, bytes, align, null) \in Item
  BY <1>1 DEF Persistent, PersistentType, Item
<1>3. QED
  BY <1>2 DEF n

LEMMA TemporaryItem ==
  ASSUME NEW a \in Nat, NEW b \in Nat, a # 0 \/ b = 0,
         NEW bytes \in Nat, NEW null \in {"undefined", "error"}
  PROVE  Temporary(<<"temp", a, b>>, bytes, null) \in Item
<1> DEFINE n == <<"temp", a, b>>
<1>1. n \in TemporaryNames
  BY DEF TemporaryNames, Name, Info, PlannerArena
<1> HIDE DEF n
<1>2. Temporary(n, bytes, null) \in Item
  BY <1>1 DEF Temporary, TemporaryType, Item
<1>3. QED
  BY <1>2 DEF n

LEMMA StepItem ==
  ASSUME NEW do \in {"start", "requests", "handles", "info", "lifetimes", "plan", "reset"}
  PROVE  Step(do) \in Item
BY DEF Step, StepType, Item

LEMMA OpItem ==
  ASSUME NEW do \in {"prepare", "scratch", "free", "finish", "op", "used", "outputs"},
         NEW s \in Subgraphs, NEW o \in Nat, NEW b \in Nat, do # "outputs" => o \in DOMAIN Ops(s)
  PROVE  OpStep(do, s, o, b) \in Item
BY DEF OpStep, OpType, Item

LEMMA MarkItem ==
  ASSUME NEW s \in Subgraphs, NEW opens \in {0, 1}
  PROVE  Mark(s, opens) \in Item
BY DEF Mark, MarkType, Item

LEMMA OneOrNone ==
  ASSUME NEW S, NEW c \in BOOLEAN, NEW x, c => x \in S
  PROVE  OnlyIf(c, x) \in Seq(S)
BY DEF OnlyIf

LEMMA ConstructItems == Construct \in Seq(Item)
<1>1. /\ Persistent(<<"arena", 0, 0>>, SizeOf.SingleArenaBufferAllocator, 1, "undefined") \in Item
      /\ Persistent(<<"planner", 0, 0>>, SizeOf.GreedyMemoryPlanner, 1, "undefined") \in Item
      /\ Persistent(<<"allocator", 0, 0>>, SizeOf.MicroAllocator, 1, "undefined") \in Item
  BY SizeFacts, PersistentItem DEF Kinds
<1>2. Step("start") \in Item
  BY StepItem
<1>3. QED
  BY <1>1, <1>2 DEF Construct

LEMMA ArrayBytes ==
  ASSUME model \in Models
  PROVE  /\ SizeOf.SubgraphAllocations * Len(model) \in Nat
         /\ SizeOf.size_t * Len(model) \in Nat
         /\ \A s \in Subgraphs : /\ s \in Nat
                               /\ SizeOf.TfLiteEvalTensor * Len(model[s].tensors) \in Nat
                               /\ SizeOf.NodeAndRegistration * Len(Ops(s)) \in Nat
<1>1. Len(model) \in Nat /\ \A s \in Subgraphs : s \in Nat /\ Len(model[s].tensors) \in Nat /\ Len(Ops(s)) \in Nat
  BY ModelFacts
<1>2. QED
  BY <1>1, SizeFacts, Product

LEMMA StartItems ==
  ASSUME model \in Models
  PROVE  StartModel \in Seq(Item)
<1> DEFINE evalBytes(s) == SizeOf.TfLiteEvalTensor * Len(model[s].tensors)
           nodeBytes(s) == SizeOf.NodeAndRegistration * Len(Ops(s))
           bytes == SizeOf.SubgraphAllocations * Len(model)
           evals == [s \in Subgraphs |-> Persistent(<<"eval", s, 0>>, evalBytes(s), 1, "null")]
           nodes == [s \in Subgraphs |-> Persistent(<<"nodes", s, 0>>, nodeBytes(s), 1, "null")]
           front == <<Persistent(<<"builtin", 0, 0>>, SizeOf.MicroBuiltinDataAllocator, 1, "undefined"),
                      Step("requests"), Persistent(<<"subgraphs", 0, 0>>, bytes, 1, "null")>>
<1>1. StartModel = front \o evals \o nodes
  BY DEF StartModel
<1>2. bytes \in Nat /\ \A s \in Subgraphs : s \in Nat /\ evalBytes(s) \in Nat /\ nodeBytes(s) \in Nat
  BY ArrayBytes
<1> HIDE DEF evalBytes, nodeBytes, bytes
<1>3. front \in Seq(Item)
  <2>1. /\ Persistent(<<"builtin", 0, 0>>, SizeOf.MicroBuiltinDataAllocator, 1, "undefined") \in Item
        /\ Step("requests") \in Item
        /\ Persistent(<<"subgraphs", 0, 0>>, bytes, 1, "null") \in Item
    BY <1>2, SizeFacts, PersistentItem, StepItem DEF Kinds
  <2>2. QED
    BY <2>1
<1>4. evals \in Seq(Item) /\ nodes \in Seq(Item)
  <2>1. /\ evals = [s \in 1 .. Len(model) |-> evals[s]]
        /\ nodes = [s \in 1 .. Len(model) |-> nodes[s]]
    BY ModelFacts
  <2>2. \A s \in Subgraphs : /\ Persistent(<<"eval", s, 0>>, evalBytes(s), 1, "null") \in Item
                            /\ Persistent(<<"nodes", s, 0>>, nodeBytes(s), 1, "null") \in Item
    BY <1>2, PersistentItem DEF Kinds
  <2>3. \A s \in Subgraphs : evals[s] \in Item /\ nodes[s] \in Item
    BY <2>2
  <2> HIDE DEF evals, nodes
  <2>4. QED
    BY <2>1, <2>3, ModelFacts, ListOf
<1> HIDE DEF front, evals, nodes
<1>5. QED
  BY <1>1, <1>3, <1>4, ConcatProperties

(* A list for every operator, and one for every tensor.                    *)
LEMMA PerOpType ==
  ASSUME model \in Models, NEW S, NEW g,
         \A s \in Subgraphs : \A o \in DOMAIN Ops(s) : g[s][o] \in Seq(S),
         \A s \in Subgraphs : g[s] = [o \in DOMAIN Ops(s) |-> g[s][o]]
  PROVE  FlattenSeq([s \in Subgraphs |-> FlattenSeq(g[s])]) \in Seq(S)
<1>1. ASSUME NEW s \in Subgraphs PROVE FlattenSeq(g[s]) \in Seq(S)
  <2>1. /\ Len(Ops(s)) \in Nat
        /\ g[s] = [o \in 1 .. Len(Ops(s)) |-> g[s][o]]
        /\ \A o \in 1 .. Len(Ops(s)) : g[s][o] \in Seq(S)
    BY ModelFacts
  <2>2. g[s] \in Seq(Seq(S))
    BY <2>1, ListOf
  <2>3. QED
    BY <2>2, FlatType
<1> DEFINE h == [s \in Subgraphs |-> FlattenSeq(g[s])]
<1>2. h = [s \in 1 .. Len(model) |-> h[s]] /\ \A s \in 1 .. Len(model) : h[s] \in Seq(S)
  BY <1>1, ModelFacts
<1> HIDE DEF h
<1>3. h \in Seq(Seq(S))
  BY <1>2, ModelFacts, ListOf
<1>4. QED
  BY <1>3, FlatType DEF h

LEMMA InitItems ==
  ASSUME model \in Models
  PROVE  InitOps \in Seq(Item)
<1> DEFINE p(s, o) == OnlyIf(Ops(s)[o].params # 0, Persistent(<<"params", s, o>>, Ops(s)[o].params, 1, "error"))
           d(s, o) == OnlyIf(Ops(s)[o].data # 0, Persistent(<<"data", s, o>>, Ops(s)[o].data, BufferAlign, "later"))
           ps == [s \in Subgraphs |-> [o \in DOMAIN Ops(s) |-> p(s, o)]]
           ds == [s \in Subgraphs |-> [o \in DOMAIN Ops(s) |-> d(s, o)]]
<1>1. ASSUME NEW s \in Subgraphs, NEW o \in DOMAIN Ops(s)
      PROVE  p(s, o) \in Seq(Item) /\ d(s, o) \in Seq(Item)
  <2>1. s \in Nat /\ o \in Nat /\ BufferAlign \in Nat \ {0}
    BY ModelFacts, ArenaAssumption
  <2> HIDE DEF p, d, ps, ds
  <2>0. Ops(s)[o].params \in Nat /\ Ops(s)[o].data \in Nat
    BY OpFacts
  <2>2. /\ Persistent(<<"params", s, o>>, Ops(s)[o].params, 1, "error") \in Item
        /\ Persistent(<<"data", s, o>>, Ops(s)[o].data, BufferAlign, "later") \in Item
    BY <2>0, <2>1, PersistentItem DEF Kinds
  <2>3. QED
    BY <2>2, OneOrNone DEF p, d
<1>2. /\ \A s \in Subgraphs : \A o \in DOMAIN Ops(s) : ps[s][o] \in Seq(Item) /\ ds[s][o] \in Seq(Item)
      /\ \A s \in Subgraphs : ps[s] = [o \in DOMAIN Ops(s) |-> ps[s][o]] /\ ds[s] = [o \in DOMAIN Ops(s) |-> ds[s][o]]
  <2> HIDE DEF p, d
  <2>1. QED
    BY <1>1
<1>3. InitOps = FlattenSeq([s \in Subgraphs |-> FlattenSeq(ps[s])]) \o FlattenSeq([s \in Subgraphs |-> FlattenSeq(ds[s])])
  BY DEF InitOps, PerOp
<1> HIDE DEF ps, ds
<1>4. QED
  BY <1>2, <1>3, PerOpType, ConcatProperties

LEMMA PrepareItems ==
  ASSUME model \in Models
  PROVE  PrepareOps \in Seq(Item)
<1> DEFINE calls(s, o) == [k \in DOMAIN Ops(s)[o].prepare |-> KernelCall(s, o, k)]
           items(s, o) == <<OpStep("prepare", s, o, 0)>> \o calls(s, o) \o <<OpStep("finish", s, o, 0)>>
           all == [s \in Subgraphs |-> [o \in DOMAIN Ops(s) |-> items(s, o)]]
<1>1. ASSUME NEW s \in Subgraphs, NEW o \in DOMAIN Ops(s), NEW k \in DOMAIN Ops(s)[o].prepare
      PROVE  KernelCall(s, o, k) \in Item
  <2> DEFINE call == Ops(s)[o].prepare[k]
  <2>1. /\ s \in Nat /\ o \in Nat \ {0}
        /\ Ops(s)[o].prepare \in Seq(CallType)
    BY ModelFacts, OpFacts
  <2>2. call \in CallType /\ k \in Nat
    BY <2>1
  <2> HIDE DEF call
  <2>3. 10 * s + k \in Nat
    BY <2>1, <2>2
  <2>4. call.call \in {"temp", "persistent", "scratch", "free"} /\ call.bytes \in Nat
    BY <2>2 DEF CallType
  <2> DEFINE b == 10 * s + k
  <2> HIDE DEF b
  <2>5. Temporary(<<"temp", o, b>>, SizeOf.TfLiteTensor, "undefined") \in Item
    BY <2>1, <2>3, SizeFacts, TemporaryItem DEF b
  <2>6. Persistent(<<"extra", o, b>>, call.bytes, BufferAlign, "undefined") \in Item
    BY <2>1, <2>3, <2>4, ArenaAssumption, PersistentItem DEF b, Kinds
  <2>7. call.call \in {"scratch", "free"} => OpStep(call.call, s, o, call.bytes) \in Item
    BY <2>1, <2>4, OpItem
  <2>8. \/ KernelCall(s, o, k) \in {Temporary(<<"temp", o, b>>, SizeOf.TfLiteTensor, "undefined"),
                                    Persistent(<<"extra", o, b>>, call.bytes, BufferAlign, "undefined")}
        \/ call.call \in {"scratch", "free"} /\ KernelCall(s, o, k) = OpStep(call.call, s, o, call.bytes)
    BY <2>4 DEF KernelCall, call, b
  <2>9. QED
    BY <2>5, <2>6, <2>7, <2>8
<1>2. ASSUME NEW s \in Subgraphs, NEW o \in DOMAIN Ops(s)
      PROVE  items(s, o) \in Seq(Item)
  <2>1. Ops(s)[o].prepare \in Seq(CallType)
    BY OpFacts
  <2>2. /\ Len(Ops(s)[o].prepare) \in Nat
        /\ DOMAIN Ops(s)[o].prepare = 1 .. Len(Ops(s)[o].prepare)
    BY <2>1
  <2> DEFINE c == calls(s, o)
  <2>3. c = [k \in 1 .. Len(Ops(s)[o].prepare) |-> c[k]] /\ \A k \in 1 .. Len(Ops(s)[o].prepare) : c[k] \in Item
    BY <1>1, <2>2
  <2> HIDE DEF c
  <2>4. c \in Seq(Item)
    BY <2>2, <2>3, ListOf
  <2>5. o \in Nat
    BY OpFacts
  <2>6. OpStep("prepare", s, o, 0) \in Item /\ OpStep("finish", s, o, 0) \in Item
    BY <2>5, OpItem
  <2>7. <<OpStep("prepare", s, o, 0)>> \in Seq(Item) /\ <<OpStep("finish", s, o, 0)>> \in Seq(Item)
    BY <2>6
  <2>8. <<OpStep("prepare", s, o, 0)>> \o c \o <<OpStep("finish", s, o, 0)>> \in Seq(Item)
    BY <2>4, <2>7, ConcatProperties
  <2>9. QED
    BY <2>8 DEF c
<1>3. PrepareOps = FlattenSeq([s \in Subgraphs |-> FlattenSeq(all[s])])
  BY DEF PrepareOps, PerOp
<1>4. /\ \A s \in Subgraphs : \A o \in DOMAIN Ops(s) : all[s][o] \in Seq(Item)
      /\ \A s \in Subgraphs : all[s] = [o \in DOMAIN Ops(s) |-> all[s][o]]
  <2> HIDE DEF items
  <2>1. QED
    BY <1>2
<1> HIDE DEF all
<1>5. QED
  BY <1>3, <1>4, PerOpType

LEMMA PerTensorType ==
  ASSUME model \in Models, NEW S, NEW g,
         \A s \in Subgraphs : \A i \in Tensors(s) : g[s][i] \in Seq(S),
         \A s \in Subgraphs : g[s] = [i \in Tensors(s) |-> g[s][i]]
  PROVE  FlattenSeq([s \in Subgraphs |-> FlattenSeq(g[s])]) \in Seq(S)
<1>1. ASSUME NEW s \in Subgraphs PROVE FlattenSeq(g[s]) \in Seq(S)
  <2> DEFINE n == Len(model[s].tensors)
  <2>1. /\ n \in Nat
        /\ g[s] = [i \in 1 .. n |-> g[s][i]]
        /\ \A i \in 1 .. n : g[s][i] \in Seq(S)
    BY ModelFacts
  <2> HIDE DEF n
  <2>2. g[s] \in Seq(Seq(S))
    BY <2>1, ListOf
  <2>3. QED
    BY <2>2, FlatType
<1> DEFINE h == [s \in Subgraphs |-> FlattenSeq(g[s])]
<1>2. h = [s \in 1 .. Len(model) |-> h[s]] /\ \A s \in 1 .. Len(model) : h[s] \in Seq(S)
  BY <1>1, ModelFacts
<1> HIDE DEF h
<1>3. h \in Seq(Seq(S))
  BY <1>2, ModelFacts, ListOf
<1>4. QED
  BY <1>3, FlatType DEF h

LEMMA FinishItems ==
  ASSUME model \in Models
  PROVE  FinishModel \in Seq(Item)
<1> DEFINE item(s, i) == OnlyIf(OnlineVariable(<<s, i>>), Persistent(T(s, i), Bytes(<<s, i>>), BufferAlign, "error"))
           all == [s \in Subgraphs |-> [i \in Tensors(s) |-> item(s, i)]]
           bytes == SizeOf.size_t * Len(model)
           front == <<Step("handles"), Temporary(<<"temp", 0, 0>>, bytes, "error"), Step("info")>>
           back == <<Step("lifetimes"), Step("plan")>>
<1>1. front \in Seq(Item) /\ back \in Seq(Item)
  <2>1. bytes \in Nat
    BY ArrayBytes
  <2> HIDE DEF bytes
  <2>2. Temporary(<<"temp", 0, 0>>, bytes, "error") \in Item
    BY <2>1, TemporaryItem
  <2>3. /\ Step("handles") \in Item /\ Step("info") \in Item
        /\ Step("lifetimes") \in Item /\ Step("plan") \in Item
    BY StepItem
  <2>4. QED
    BY <2>2, <2>3
<1>2. ASSUME NEW s \in Subgraphs, NEW i \in Tensors(s)
      PROVE  item(s, i) \in Seq(Item)
  <2>1. s \in Nat /\ i \in Nat /\ Bytes(<<s, i>>) \in Nat
    BY TensorFacts
  <2>2. Persistent(T(s, i), Bytes(<<s, i>>), BufferAlign, "error") \in Item
    BY <2>1, ArenaAssumption, PersistentItem DEF T, Kinds
  <2>3. OnlineVariable(<<s, i>>) \in BOOLEAN
    BY DEF OnlineVariable
  <2>4. QED
    BY <2>2, <2>3, OneOrNone
<1>3. FinishModel = front \o FlattenSeq([s \in Subgraphs |-> FlattenSeq(all[s])]) \o back
  BY DEF FinishModel, PerTensor
<1>4. /\ \A s \in Subgraphs : \A i \in Tensors(s) : all[s][i] \in Seq(Item)
      /\ \A s \in Subgraphs : all[s] = [i \in Tensors(s) |-> all[s][i]]
  <2> HIDE DEF item
  <2>1. QED
    BY <1>2
<1> HIDE DEF all, front, back
<1>5. FlattenSeq([s \in Subgraphs |-> FlattenSeq(all[s])]) \in Seq(Item)
  BY <1>4, PerTensorType
<1>6. QED
  BY <1>1, <1>3, <1>5, ConcatProperties

LEMMA TensorItems ==
  ASSUME NEW x \in Kinds, NEW y \in Kinds, NEW indices \in Seq(Nat)
  PROVE  PersistentTensors(<<x, 0, 0>>, y, indices) \in Seq(Item)
<1> DEFINE bytes == SizeOf.pointer * Len(indices)
           each == [k \in DOMAIN indices |-> Persistent(<<y, k, 0>>, SizeOf.TfLiteTensor, 1, "error")]
           n == Len(indices)
<1>1. bytes \in Nat
  BY PointerBytes
<1> HIDE DEF bytes
<1>2. Persistent(<<x, 0, 0>>, bytes, BufferAlign, "error") \in Item
  BY <1>1, ArenaAssumption, PersistentItem
<1>3. n \in Nat /\ DOMAIN indices = 1 .. n
  OBVIOUS
<1> HIDE DEF n
<1>4. \A k \in 1 .. n : Persistent(<<y, k, 0>>, SizeOf.TfLiteTensor, 1, "error") \in Item
  BY <1>3, SizeFacts, PersistentItem
<1>5. each = [k \in 1 .. n |-> each[k]] /\ \A k \in 1 .. n : each[k] \in Item
  BY <1>3, <1>4
<1>6. PersistentTensors(<<x, 0, 0>>, y, indices) = <<Persistent(<<x, 0, 0>>, bytes, BufferAlign, "error")>> \o each
  BY DEF PersistentTensors, bytes
<1> HIDE DEF each
<1>7. each \in Seq(Item)
  BY <1>3, <1>5, ListOf
<1>8. <<Persistent(<<x, 0, 0>>, bytes, BufferAlign, "error")>> \in Seq(Item)
  BY <1>2
<1>9. QED
  BY <1>6, <1>7, <1>8, ConcatProperties

LEMMA AllItems ==
  ASSUME model \in Models
  PROVE  AllocateTensors \in Seq(Item)
<1>1. /\ PersistentTensors(Inputs, "input", model[1].inputs) \in Seq(Item)
      /\ PersistentTensors(<<"outputs", 0, 0>>, "output", model[1].outputs) \in Seq(Item)
  BY ModelFacts, TensorItems DEF Inputs, Kinds
<1>2. <<Step("reset")>> \in Seq(Item)
  BY StepItem
<1>3. QED
  BY <1>1, <1>2, StartItems, InitItems, PrepareItems, FinishItems, ConcatProperties DEF AllocateTensors

-----------------------------------------------------------------------------
(* The invariant of the types.                                             *)

AllocatorTypes ==
  /\ model \in Models
  /\ todo \in Seq(Todo)
  /\ outcome \in {"none", "ok", "error", "null", "undefined"}
  /\ requests \in Seq(RequestType)
  /\ infos \in Seq(InfoType)
  /\ scope \in Int
  /\ maxHead \in Nat
  /\ allocating \in BOOLEAN /\ short \in BOOLEAN
StatusTypes ==
  /\ phase \in {"setup", "input", "fill", "invoke", "retry", "run", "read", "exit", "undefined"}
  /\ allocated \in BOOLEAN /\ failed \in BOOLEAN
  /\ frames \in Seq(FrameType)
TypeInv == ArenaTypeOK /\ PlanInv /\ AllocatorTypes /\ StatusTypes

(* The model is never changed, and the types only depend on it.            *)
LEMMA SameTypes ==
  ASSUME model' = model
  PROVE  Todo' = Todo /\ RequestType' = RequestType /\ FrameType' = FrameType
<1>1. Subgraphs' = Subgraphs /\ \A s : Ops(s)' = Ops(s)
  BY DEF Subgraphs, Ops
<1>2. OpType' = OpType /\ MarkType' = MarkType
  BY <1>1 DEF OpType, MarkType
<1>3. QED
  BY <1>1, <1>2 DEF Todo, Item, RequestType, FrameType

LEMMA Wider == Seq(Item) \subseteq Seq(Todo)
<1> SUFFICES ASSUME NEW l \in Seq(Item) PROVE l \in Seq(Todo)
  OBVIOUS
<1>1. Len(l) \in Nat /\ l = [i \in 1 .. Len(l) |-> l[i]] /\ \A i \in 1 .. Len(l) : l[i] \in Todo
  BY DEF Todo
<1>2. QED
  BY <1>1, ListOf

LEMMA InitTypes == Init => TypeInv
<1> SUFFICES ASSUME Init PROVE TypeInv
  OBVIOUS
<1>1. ArenaTypeOK
  <2>1. size \in Int
    BY ArenaAssumption DEF Init, AllocatorInit, ArenaInit
  <2>2. 2 * size + 100 \in Int
    BY <2>1
  <2> DEFINE b == Behind
  <2>3. /\ place = [x \in {b} |-> [lo |-> size, hi |-> 2 * size + 100]]
        /\ held = {b} /\ head = 0 /\ temp = 0 /\ tail = size /\ size \in ArenaSizes
    BY DEF Init, AllocatorInit, ArenaInit
  <2> HIDE DEF b
  <2>4. QED
    BY <2>1, <2>2, <2>3 DEF ArenaTypeOK
<1>2. PlanInv
  BY PlanInit DEF Init, AllocatorInit
<1>3. AllocatorTypes
  <2>1. /\ requests = <<>> /\ infos = <<>> /\ model \in Models /\ todo = Construct
        /\ outcome = "none" /\ scope = 0 /\ maxHead = 0
    BY DEF Init, AllocatorInit
  <2>2. allocating \in BOOLEAN /\ short \in BOOLEAN
    BY DEF Init, AllocatorInit
  <2>3. requests \in Seq(RequestType) /\ infos \in Seq(InfoType)
    BY <2>1
  <2>4. QED
    BY <2>1, <2>2, <2>3, ConstructItems, Wider DEF AllocatorTypes
<1>4. StatusTypes
  <2>1. frames = <<>> /\ phase = "setup"
    BY DEF Init
  <2>2. allocated \in BOOLEAN /\ failed \in BOOLEAN
    BY DEF Init
  <2>3. QED
    BY <2>1, <2>2 DEF StatusTypes
<1>5. QED
  BY <1>1, <1>2, <1>3, <1>4 DEF TypeInv

-----------------------------------------------------------------------------
(* The arena.                                                              *)

LEMMA IntProduct ==
  ASSUME NEW a \in Int, NEW b \in Int
  PROVE  a * b \in Int
BY SMTT(20)

LEMMA AlignTypes ==
  ASSUME NEW p \in Int, NEW a \in Nat \ {0}
  PROVE  AlignUp(p, a) \in Int /\ AlignDown(p, a) \in Int
<1>1. (p + a - 1) \div a \in Int /\ p \div a \in Int
  OBVIOUS
<1>2. ((p + a - 1) \div a) * a \in Int /\ (p \div a) * a \in Int
  BY <1>1, IntProduct
<1>3. QED
  BY <1>2 DEF AlignUp, AlignDown

LEMMA HandOutTypes ==
  ASSUME ArenaTypeOK, NEW n, NEW lo \in Int, NEW hi \in Int,
         place' = [m \in DOMAIN place \cup {n} |-> IF m = n THEN [lo |-> lo, hi |-> hi] ELSE place[m]], held' \subseteq held \cup {n},
         size' = size, head' \in Int, tail' \in Int, temp' \in Int
  PROVE  ArenaTypeOK'
<1>1. DOMAIN place' = DOMAIN place \cup {n}
  OBVIOUS
<1>2. \A m \in DOMAIN place' : place'[m] \in [lo: Int, hi: Int]
  BY DEF ArenaTypeOK
<1>3. QED
  BY <1>1, <1>2 DEF ArenaTypeOK

LEMMA PersistentTypes ==
  ASSUME ArenaTypeOK, NEW bytes \in Nat, NEW align \in Nat \ {0}
  PROVE  PersistentAt(bytes, align) \in Int /\ PersistentAt(bytes, align) + bytes \in Int
<1>1. tail - bytes \in Int
  BY DEF ArenaTypeOK
<1>2. QED
  BY <1>1, AlignTypes DEF PersistentAt

LEMMA TempTypes ==
  ASSUME ArenaTypeOK, NEW align \in Nat \ {0}
  PROVE  TempAt(align) \in Int
BY AlignTypes DEF ArenaTypeOK, TempAt

LEMMA FreeTypes ==
  ASSUME ArenaTypeOK, NEW names, Free(names), size' = size, head' \in Int, tail' \in Int, temp' \in Int
  PROVE  ArenaTypeOK'
BY DEF ArenaTypeOK, Free, Without

LEMMA HeldTypes ==
  ASSUME NEW was \in SUBSET DOMAIN place, NEW names
  PROVE  HeldAfter(was, names) \in SUBSET DOMAIN place
BY DEF HeldAfter

LEMMA SameArenaTypes ==
  ASSUME ArenaTypeOK, held' \in SUBSET DOMAIN place, UNCHANGED <<size, head, tail, temp, place>>
  PROVE  ArenaTypeOK'
BY DEF ArenaTypeOK

LEMMA RequestBytesTypes == \A n \in Nat : RequestBytes(n) \in Nat
<1>1. \A n \in Nat : n + MaxScratch \in Nat
  BY SizeFacts
<1>2. QED
  BY <1>1, SizeFacts, Product DEF RequestBytes

(* Nothing of the planner changes.                                         *)
LEMMA SamePlan ==
  ASSUME PlanInv, UNCHANGED planner
  PROVE  PlanInv'
BY PlanStep

Types == ArenaTypeOK /\ PlanInv /\ AllocatorTypes
Outcomes == {"none", "ok", "error", "null", "undefined"}

LEMMA KeepBook ==
  ASSUME AllocatorTypes, UNCHANGED book, todo' \in Seq(Todo), outcome' \in Outcomes, short' \in BOOLEAN
  PROVE  AllocatorTypes'
<1>1. Todo' = Todo /\ RequestType' = RequestType
  BY SameTypes DEF book
<1>2. /\ model' \in Models /\ requests' \in Seq(RequestType) /\ infos' \in Seq(InfoType)
      /\ scope' \in Int /\ maxHead' \in Nat
  BY DEF book, AllocatorTypes
<1>3. allocating' \in BOOLEAN
  BY DEF book, AllocatorTypes
<1>4. QED
  BY <1>1, <1>2, <1>3 DEF AllocatorTypes, Outcomes

LEMMA KeepModel ==
  ASSUME AllocatorTypes, model' = model, todo' \in Seq(Todo), outcome' \in Outcomes, short' \in BOOLEAN,
         requests' \in Seq(RequestType), infos' \in Seq(InfoType), scope' \in Int, maxHead' \in Nat,
         allocating' \in BOOLEAN
  PROVE  AllocatorTypes'
<1>1. Todo' = Todo /\ RequestType' = RequestType
  BY SameTypes
<1>2. model' \in Models
  BY DEF AllocatorTypes
<1>3. QED
  BY <1>1, <1>2 DEF AllocatorTypes, Outcomes

(* What the parts of a step leave.                                         *)
LEMMA ListTypes ==
  ASSUME AllocatorTypes
  PROVE  /\ outcome \in Outcomes
         /\ short \in BOOLEAN
         /\ <<>> \in Seq(Todo)
         /\ todo # <<>> => todo[1] \in Todo /\ Tail(todo) \in Seq(Todo)
         /\ Rest /\ todo # <<>> => todo' \in Seq(Todo) /\ outcome' \in Outcomes
<1>1. todo # <<>> => todo[1] \in Todo /\ Tail(todo) \in Seq(Todo)
  BY DEF AllocatorTypes
<1>2. short \in BOOLEAN
  BY DEF AllocatorTypes
<1>3. outcome \in Outcomes /\ <<>> \in Seq(Todo)
  BY DEF AllocatorTypes, Outcomes
<1>4. Rest /\ todo # <<>> => todo' \in Seq(Todo) /\ outcome' \in Outcomes
  BY <1>1, <1>3 DEF Rest
<1>5. QED
  BY <1>1, <1>2, <1>3, <1>4

LEMMA EndTypes ==
  ASSUME NEW result \in Outcomes, EndsAs(result)
  PROVE  todo' \in Seq(Todo) /\ outcome' \in Outcomes
BY DEF EndsAs

LEMMA RefusedTypes ==
  ASSUME NEW result \in Outcomes, Refused(result)
  PROVE  todo' \in Seq(Todo) /\ outcome' \in Outcomes /\ short' \in BOOLEAN
<1>1. short' \in BOOLEAN
  BY DEF Refused
<1>2. QED
  BY <1>1, EndTypes DEF Refused

LEMMA GarbageTypes ==
  ASSUME Types, NEW names, ReadsGarbage(names)
  PROVE  Types'
<1>1. todo' \in Seq(Todo) /\ outcome' \in Outcomes
  BY EndTypes DEF ReadsGarbage, Outcomes
<1>2. short' \in BOOLEAN
  BY ListTypes DEF ReadsGarbage, Types
<1>3. AllocatorTypes'
  BY <1>1, <1>2, KeepBook DEF ReadsGarbage, Types
<1>4. ArenaTypeOK'
  BY SameArenaTypes DEF ReadsGarbage, Types, arena, ArenaTypeOK
<1>5. PlanInv'
  BY SamePlan DEF ReadsGarbage, Types
<1>6. QED
  BY <1>3, <1>4, <1>5 DEF Types

LEMMA ItemKinds ==
  ASSUME AllocatorTypes, todo # <<>>
  PROVE  /\ todo[1].do = "persistent" => todo[1] \in PersistentType
         /\ todo[1].do = "temp" => todo[1] \in TemporaryType
         /\ todo[1].do \in {"prepare", "scratch", "free", "finish", "op", "used", "outputs"} => todo[1] \in OpType
         /\ todo[1].do = "mark" => todo[1] \in MarkType
<1>1. todo[1] \in Todo
  BY ListTypes
<1>2. QED
  BY <1>1 DEF Todo, Item, PersistentType, TemporaryType, StepType, OpType, MarkType

-----------------------------------------------------------------------------

LEMMA StartTypes ==
  ASSUME Types, StartModelAllocation
  PROVE  Types'
<1>1. todo' \in Seq(Todo) /\ outcome' \in Outcomes
  BY ListTypes, EndTypes, AllItems, Wider DEF StartModelAllocation, Types, Outcomes, AllocatorTypes
<1>2. short' \in BOOLEAN
  BY DEF StartModelAllocation, Types, AllocatorTypes
<1>3. allocating' \in BOOLEAN
  BY DEF StartModelAllocation, Types, AllocatorTypes
<1>4. /\ model' = model /\ requests' \in Seq(RequestType) /\ infos' \in Seq(InfoType)
      /\ scope' \in Int /\ maxHead' \in Nat
  BY DEF StartModelAllocation, Types, AllocatorTypes
<1>5. AllocatorTypes'
  BY <1>1, <1>2, <1>3, <1>4, KeepModel DEF Types
<1>6. ArenaTypeOK' /\ PlanInv'
  BY SameArenaTypes, SamePlan DEF StartModelAllocation, Types, arena, ArenaTypeOK
<1>7. QED
  BY <1>5, <1>6 DEF Types

LEMMA TailTypes ==
  ASSUME Types, AllocateTail
  PROVE  Types'
<1> DEFINE r == todo[1]
<1>1. /\ todo # <<>> /\ r \in PersistentType
      /\ UNCHANGED book /\ UNCHANGED planner
  BY ItemKinds DEF AllocateTail, At, Types
<1>2. r.bytes \in Nat /\ r.align \in Nat \ {0} /\ (r.null # "later" => r.null \in Outcomes)
  BY <1>1 DEF PersistentType, Outcomes
<1>3. PlanInv'
  BY <1>1, SamePlan DEF Types
<1>4. CASE AllocatePersistentBuffer(r.name, r.bytes, r.align, ~IsTensor(r.name)) /\ Rest /\ Watch
  <2>1. ArenaTypeOK'
    <3> DEFINE lo == PersistentAt(r.bytes, r.align)
    <3>1. lo \in Int /\ lo + r.bytes \in Int
      BY <1>2, PersistentTypes DEF Types
    <3>2. /\ tail' = lo
          /\ place' = [m \in DOMAIN place \cup {r.name} |-> IF m = r.name THEN [lo |-> lo, hi |-> lo + r.bytes] ELSE place[m]]
          /\ held' \subseteq held \cup {r.name}
          /\ UNCHANGED <<size, head, temp>>
      BY <1>4 DEF AllocatePersistentBuffer, HandOut
    <3> HIDE DEF lo, r
    <3>3. QED
      BY <3>1, <3>2, HandOutTypes DEF Types, ArenaTypeOK
  <2>2. todo' \in Seq(Todo) /\ outcome' \in Outcomes
    BY <1>1, <1>4, ListTypes DEF Types
  <2>3. short' \in BOOLEAN
    BY <1>4 DEF Watch
  <2>4. QED
    BY <1>1, <1>3, <2>1, <2>2, <2>3, KeepBook DEF Types
<1>5. CASE /\ ~PersistentFits(r.bytes, r.align)
           /\ IF r.null = "later"
              THEN Rest /\ short' = TRUE /\ Free({r.name})
              ELSE Refused(r.null) /\ UNCHANGED <<place, held>>
           /\ UNCHANGED <<size, head, tail, temp>>
  <2>1. ArenaTypeOK'
    BY <1>5, FreeTypes, SameArenaTypes DEF Types, ArenaTypeOK
  <2>2. todo' \in Seq(Todo) /\ outcome' \in Outcomes
    BY <1>1, <1>2, <1>5, ListTypes, RefusedTypes DEF Types
  <2>3. short' \in BOOLEAN
    BY <1>5 DEF Refused
  <2>4. QED
    BY <1>1, <1>3, <2>1, <2>2, <2>3, KeepBook DEF Types
<1>6. QED
  BY <1>4, <1>5 DEF AllocateTail

LEMMA TempTensorTypes ==
  ASSUME Types, AllocateTempTensor
  PROVE  Types'
<1> DEFINE r == todo[1]
<1>1. /\ todo # <<>> /\ r \in TemporaryType
      /\ UNCHANGED book /\ UNCHANGED planner
  BY ItemKinds DEF AllocateTempTensor, At, Types
<1>2. r.bytes \in Nat /\ r.null \in Outcomes
  BY <1>1 DEF TemporaryType, Outcomes
<1>3. PlanInv'
  BY <1>1, SamePlan DEF Types
<1>4. CASE AllocateTemp(r.name, r.bytes, 1, TRUE) /\ Rest /\ Watch
  <2>1. ArenaTypeOK'
    <3> DEFINE lo == TempAt(1)
    <3>0. lo \in Int
      BY TempTypes DEF Types
    <3>1. /\ temp' = lo + r.bytes
          /\ place' = [m \in DOMAIN place \cup {r.name} |-> IF m = r.name THEN [lo |-> lo, hi |-> temp'] ELSE place[m]]
          /\ held' \subseteq held \cup {r.name}
          /\ UNCHANGED <<size, head, tail>>
      BY <1>4 DEF AllocateTemp, HandOut
    <3> HIDE DEF r, lo
    <3>2. QED
      BY <1>2, <3>0, <3>1, HandOutTypes DEF Types, ArenaTypeOK
  <2>2. todo' \in Seq(Todo) /\ outcome' \in Outcomes
    BY <1>1, <1>4, ListTypes DEF Types
  <2>3. short' \in BOOLEAN
    BY <1>4 DEF Watch
  <2>4. QED
    BY <1>1, <1>3, <2>1, <2>2, <2>3, KeepBook DEF Types
<1>5. CASE Refused(r.null) /\ UNCHANGED arena
  <2>1. ArenaTypeOK'
    BY <1>5, SameArenaTypes DEF Types, ArenaTypeOK, arena
  <2>2. todo' \in Seq(Todo) /\ outcome' \in Outcomes /\ short' \in BOOLEAN
    BY <1>2, <1>5, RefusedTypes
  <2>3. QED
    BY <1>1, <1>3, <2>1, <2>2, KeepBook DEF Types
<1>6. QED
  BY <1>4, <1>5 DEF AllocateTempTensor

LEMMA RequestsTypes ==
  ASSUME Types, InitScratchBufferData
  PROVE  Types'
<1>1. /\ todo # <<>> /\ UNCHANGED <<model, infos, scope, allocating, maxHead>> /\ UNCHANGED planner
      /\ requests' = <<>> /\ size' = size /\ tail' = tail
      /\ Free(RequestSlots)
      /\ \/ ResizeTo(RequestBytes(0)) /\ Rest /\ UNCHANGED short
         \/ Refused("null") /\ UNCHANGED <<head, temp>>
  BY DEF InitScratchBufferData, At
<1>2. RequestBytes(0) \in Int
  BY RequestBytesTypes
<1>3. head' \in Int /\ temp' \in Int /\ tail' \in Int
  BY <1>1, <1>2 DEF ResizeTo, Types, ArenaTypeOK
<1>4. ArenaTypeOK'
  BY <1>1, <1>3, FreeTypes DEF Types
<1>5. todo' \in Seq(Todo) /\ outcome' \in Outcomes
  BY <1>1, ListTypes, RefusedTypes DEF Types, Outcomes
<1>6. short' \in BOOLEAN
  BY <1>1 DEF Refused, Types, AllocatorTypes
<1>7. allocating' \in BOOLEAN
  BY <1>1 DEF Types, AllocatorTypes
<1>8. /\ model' = model /\ requests' \in Seq(RequestType) /\ infos' \in Seq(InfoType)
      /\ scope' \in Int /\ maxHead' \in Nat
  BY <1>1 DEF Types, AllocatorTypes
<1>9. AllocatorTypes'
  BY <1>5, <1>6, <1>7, <1>8, KeepModel DEF Types
<1>10. QED
  BY <1>1, <1>4, <1>9, SamePlan DEF Types

LEMMA PrepareTypes ==
  ASSUME Types, PrepareNode
  PROVE  Types'
<1> DEFINE read == Structures \cup NodeOf(todo[1].subgraph, todo[1].op)
<1>1. todo # <<>>
  BY DEF PrepareNode, At
<1>2. CASE ReadsGarbage(read)
  BY <1>2, GarbageTypes
<1>3. CASE Rest /\ UNCHANGED <<book, arena, planner, short>>
  <2>1. todo' \in Seq(Todo) /\ outcome' \in Outcomes
    BY <1>1, <1>3, ListTypes DEF Types
  <2>2. short' \in BOOLEAN
    BY <1>3 DEF Types, AllocatorTypes
  <2>3. AllocatorTypes'
    BY <1>3, <2>1, <2>2, KeepBook DEF Types
  <2>4. ArenaTypeOK' /\ PlanInv'
    BY <1>3, SameArenaTypes, SamePlan DEF Types, arena, ArenaTypeOK
  <2>5. QED
    BY <2>3, <2>4 DEF Types
<1>4. QED
  BY <1>2, <1>3 DEF PrepareNode

LEMMA ScratchTypes ==
  ASSUME Types, RequestScratchBufferInArena
  PROVE  Types'
<1> DEFINE k == Len(requests) + 1
           lo == SizeOf.ScratchBufferRequest * (k - 1)
           hi == SizeOf.ScratchBufferRequest * k
           r == [bytes |-> todo[1].bytes, subgraph |-> todo[1].subgraph, node |-> 0]
<1>1. todo # <<>> /\ todo[1] \in OpType /\ UNCHANGED planner
  BY ItemKinds DEF RequestScratchBufferInArena, At, Types
<1>2. CASE ReadsGarbage(RequestSlots)
  BY <1>2, GarbageTypes
<1>3. CASE Refused("error") /\ UNCHANGED <<book, arena>>
  <2>1. todo' \in Seq(Todo) /\ outcome' \in Outcomes /\ short' \in BOOLEAN
    BY <1>3, RefusedTypes DEF Outcomes
  <2>2. ArenaTypeOK'
    BY <1>3, SameArenaTypes DEF Types, arena, ArenaTypeOK
  <2>3. QED
    BY <1>1, <1>3, <2>1, <2>2, KeepBook, SamePlan DEF Types
<1>4. CASE /\ HandOut(Request(k), lo, hi, TRUE)
           /\ requests' = Append(requests, r)
           /\ Rest
           /\ UNCHANGED <<size, head, tail, temp, model, infos, scope, allocating, maxHead, short>>
  <2>1. k \in Nat /\ k - 1 \in Nat
    BY DEF Types, AllocatorTypes
  <2>2. lo \in Int /\ hi \in Int
    <3>1. SizeOf.ScratchBufferRequest \in Nat
      BY SizeFacts
    <3> HIDE DEF k
    <3>2. QED
      BY <2>1, <3>1, Product
  <2> HIDE DEF k, lo, hi
  <2>3. ArenaTypeOK'
    <3>1. /\ place' = [m \in DOMAIN place \cup {Request(k)} |-> IF m = Request(k) THEN [lo |-> lo, hi |-> hi] ELSE place[m]]
          /\ held' \subseteq held \cup {Request(k)}
          /\ size' = size /\ head' \in Int /\ tail' \in Int /\ temp' \in Int
      BY <1>4 DEF HandOut, Types, ArenaTypeOK
    <3>2. QED
      BY <2>2, <3>1, HandOutTypes DEF Types
  <2>4. r \in RequestType
    BY <1>1 DEF OpType, RequestType
  <2> HIDE DEF r
  <2>5. /\ model' = model /\ requests' \in Seq(RequestType) /\ infos' \in Seq(InfoType)
        /\ scope' \in Int /\ maxHead' \in Nat
    BY <1>4, <2>4 DEF Types, AllocatorTypes
  <2>6. allocating' \in BOOLEAN /\ short' \in BOOLEAN
    BY <1>4 DEF Types, AllocatorTypes
  <2>7. todo' \in Seq(Todo) /\ outcome' \in Outcomes
    BY <1>1, <1>4, ListTypes DEF Types
  <2>8. AllocatorTypes'
    BY <2>5, <2>6, <2>7, KeepModel DEF Types
  <2>9. QED
    BY <1>1, <2>3, <2>8, SamePlan DEF Types
<1>5. QED
  BY <1>2, <1>3, <1>4 DEF RequestScratchBufferInArena

LEMMA FreeTempTypes ==
  ASSUME Types, FreeTempTensors
  PROVE  Types'
<1>1. todo # <<>>
  BY DEF FreeTempTensors, At
<1>2. CASE ReadsGarbage(Temps)
  BY <1>2, GarbageTypes
<1>3. CASE Free(Temps) /\ Rest /\ UNCHANGED <<size, head, tail, temp, book, short, planner>>
  <2>1. todo' \in Seq(Todo) /\ outcome' \in Outcomes
    BY <1>1, <1>3, ListTypes DEF Types
  <2>2. short' \in BOOLEAN
    BY <1>3 DEF Types, AllocatorTypes
  <2>3. ArenaTypeOK'
    BY <1>3, FreeTypes DEF Types, ArenaTypeOK
  <2>4. QED
    BY <1>3, <2>1, <2>2, <2>3, KeepBook, SamePlan DEF Types
<1>4. QED
  BY <1>2, <1>3 DEF FreeTempTensors

LEMMA FinishTypes ==
  ASSUME Types, FinishPrepareNodeAllocations
  PROVE  Types'
<1> DEFINE n == Len(requests)
           assigned == [k \in DOMAIN requests |->
                          IF k \in Unassigned THEN [requests[k] EXCEPT !.node = todo[1].op] ELSE requests[k]]
<1>1. /\ todo # <<>> /\ todo[1] \in OpType /\ todo[1].do = "finish"
      /\ UNCHANGED <<model, infos, scope, allocating, maxHead>> /\ UNCHANGED planner
  BY ItemKinds DEF FinishPrepareNodeAllocations, At, Types
<1>2. CASE ReadsGarbage(RequestSlots)
  BY <1>2, GarbageTypes
<1>3. CASE short' = TRUE /\ Rest /\ UNCHANGED <<arena, requests>>
  <2>1. todo' \in Seq(Todo) /\ outcome' \in Outcomes
    BY <1>1, <1>3, ListTypes DEF Types
  <2>2. short' \in BOOLEAN
    BY <1>3
  <2>3. ArenaTypeOK'
    BY <1>3, SameArenaTypes DEF Types, ArenaTypeOK, arena
  <2>4. UNCHANGED book
    BY <1>1, <1>3 DEF book
  <2>5. QED
    BY <1>1, <2>1, <2>2, <2>3, <2>4, KeepBook, SamePlan DEF Types
<1>4. CASE /\ requests' = assigned
           /\ IF tail >= RequestBytes(n)
              THEN ResizeTo(RequestBytes(n)) /\ UNCHANGED short
              ELSE temp' = head /\ short' = TRUE /\ UNCHANGED head
           /\ Rest
           /\ UNCHANGED <<size, tail, place, held>>
  <2>1. todo' \in Seq(Todo) /\ outcome' \in Outcomes
    BY <1>1, <1>4, ListTypes DEF Types
  <2>2. short' \in BOOLEAN
    BY <1>4 DEF Types, AllocatorTypes
  <2>3. n \in Nat /\ RequestBytes(n) \in Int
    BY RequestBytesTypes DEF Types, AllocatorTypes
  <2>4. ArenaTypeOK'
    BY <1>4, <2>3 DEF Types, ArenaTypeOK, ResizeTo
  <2>5. assigned \in Seq(RequestType)
    <3>1. DOMAIN requests = 1 .. n /\ \A k \in 1 .. n : requests[k] \in RequestType
      BY DEF Types, AllocatorTypes
    <3> HIDE DEF n
    <3>2. ASSUME NEW k \in 1 .. n PROVE assigned[k] \in RequestType
      <4>1. requests[k] \in RequestType
        BY <3>1
      <4>2. requests[k] = [bytes |-> requests[k].bytes, subgraph |-> requests[k].subgraph, node |-> requests[k].node]
        BY <4>1 DEF RequestType
      <4>3. CASE k \in Unassigned
        <5>1. requests[k].node = 0
          BY <4>3 DEF Unassigned
        <5>2. assigned[k] = [requests[k] EXCEPT !.node = todo[1].op]
          BY <3>1, <4>3
        <5>3. QED
          BY <1>1, <4>2, <4>1, <5>2 DEF RequestType, OpType
      <4>4. QED
        BY <3>1, <4>1, <4>3
    <3>3. assigned = [k \in 1 .. n |-> assigned[k]]
      BY <3>1
    <3> HIDE DEF assigned
    <3>4. QED
      BY <2>3, <3>2, <3>3, ListOf
  <2> HIDE DEF assigned
  <2>6. /\ model' = model /\ requests' \in Seq(RequestType) /\ infos' \in Seq(InfoType)
        /\ scope' \in Int /\ maxHead' \in Nat
    BY <1>1, <1>4, <2>5 DEF Types, AllocatorTypes
  <2>7. allocating' \in BOOLEAN
    BY <1>1 DEF Types, AllocatorTypes
  <2>8. AllocatorTypes'
    BY <2>1, <2>2, <2>6, <2>7, KeepModel DEF Types
  <2>9. QED
    BY <1>1, <2>4, <2>8, SamePlan DEF Types
<1>5. QED
  BY <1>2, <1>3, <1>4 DEF FinishPrepareNodeAllocations

LEMMA HandlesTypes ==
  ASSUME Types, AllocateScratchBufferHandles
  PROVE  Types'
<1> DEFINE bytes == SizeOf.ScratchBufferHandle * Len(requests)
<1>1. /\ todo # <<>> /\ Rest /\ UNCHANGED book /\ UNCHANGED planner
      /\ \/ UNCHANGED <<arena, short>>
         \/ AllocatePersistentBuffer(Handles, bytes, 1, FALSE) /\ Watch
         \/ short' = TRUE /\ Free({Handles}) /\ UNCHANGED <<size, head, tail, temp>>
  BY DEF AllocateScratchBufferHandles, At
<1>2. bytes \in Nat
  BY HandleSizes DEF Types, AllocatorTypes
<1> HIDE DEF bytes
<1>3. ArenaTypeOK'
  <2>1. CASE UNCHANGED arena
    BY <2>1, SameArenaTypes DEF Types, ArenaTypeOK, arena
  <2>2. CASE AllocatePersistentBuffer(Handles, bytes, 1, FALSE)
    <3> DEFINE lo == PersistentAt(bytes, 1)
    <3>1. lo \in Int /\ lo + bytes \in Int
      BY <1>2, PersistentTypes DEF Types
    <3>2. /\ tail' = lo
          /\ place' = [m \in DOMAIN place \cup {Handles} |-> IF m = Handles THEN [lo |-> lo, hi |-> lo + bytes] ELSE place[m]]
          /\ held' \subseteq held \cup {Handles}
          /\ UNCHANGED <<size, head, temp>>
      BY <2>2 DEF AllocatePersistentBuffer, HandOut
    <3> HIDE DEF lo
    <3>3. QED
      BY <3>1, <3>2, HandOutTypes DEF Types, ArenaTypeOK
  <2>3. CASE Free({Handles}) /\ UNCHANGED <<size, head, tail, temp>>
    BY <2>3, FreeTypes DEF Types, ArenaTypeOK
  <2>4. QED
    BY <1>1, <2>1, <2>2, <2>3
<1>4. short' \in BOOLEAN
  BY <1>1 DEF Watch, Types, AllocatorTypes
<1>5. todo' \in Seq(Todo) /\ outcome' \in Outcomes
  BY <1>1, ListTypes DEF Types
<1>6. QED
  BY <1>1, <1>3, <1>4, <1>5, KeepBook, SamePlan DEF Types

LEMMA InfoTempTypes ==
  ASSUME Types, CreateAllocationInfo
  PROVE  Types'
<1> DEFINE bytes == InfoBytes
<1>1. /\ todo # <<>> /\ UNCHANGED book /\ UNCHANGED planner
  BY DEF CreateAllocationInfo, At
<1>2. bytes \in Int
  <2>1. IsFiniteSet(AllTensors)
    <3>1. \A s \in Subgraphs : IsFiniteSet({s} \X Tensors(s))
      <4> SUFFICES ASSUME NEW s \in Subgraphs PROVE IsFiniteSet({s} \X Tensors(s))
        OBVIOUS
      <4>1. IsFiniteSet({s}) /\ IsFiniteSet(Tensors(s))
        <5>1. Tensors(s) = 1 .. Len(model[s].tensors) /\ Len(model[s].tensors) \in Int
          BY ModelFacts DEF Types, AllocatorTypes
        <5>2. IsFiniteSet({s})
          BY FS_Singleton
        <5>3. QED
          BY <5>1, <5>2, FS_Interval
      <4>2. QED
        BY <4>1, FS_Product
    <3>2. IsFiniteSet(Subgraphs)
      BY FS_Interval, ModelFacts DEF Types, AllocatorTypes
    <3> DEFINE parts == {{s} \X Tensors(s) : s \in Subgraphs}
           part == [s \in Subgraphs |-> {s} \X Tensors(s)]
    <3>3. part \in Surjection(Subgraphs, parts)
      BY DEF Surjection
    <3> HIDE DEF part
    <3>6. IsFiniteSet(parts)
      BY <3>2, <3>3, FS_Surjection
    <3>7. \A p \in parts : IsFiniteSet(p)
      BY <3>1
    <3>4. IsFiniteSet(UNION parts)
      BY <3>6, <3>7, FS_UNION
    <3>5. QED
      BY <3>4 DEF AllTensors
  <2>2. Cardinality(AllTensors) \in Nat
    BY <2>1, FS_CardinalityType
  <2>3. Cardinality(AllTensors) + Len(requests) \in Nat
    BY <2>2 DEF Types, AllocatorTypes
  <2>4. QED
    BY <2>3, SizeFacts, Product DEF InfoBytes
<1> HIDE DEF bytes
<1>3. CASE AllocateTemp(Info, InfoBytes, 1, FALSE) /\ Rest /\ Watch
  <2> DEFINE lo == TempAt(1)
  <2>0. lo \in Int
    BY TempTypes DEF Types
  <2>1. /\ temp' = lo + bytes
        /\ place' = [m \in DOMAIN place \cup {Info} |-> IF m = Info THEN [lo |-> lo, hi |-> temp'] ELSE place[m]]
        /\ held' \subseteq held \cup {Info}
        /\ UNCHANGED <<size, head, tail>>
    BY <1>3 DEF AllocateTemp, HandOut, bytes
  <2> HIDE DEF lo
  <2>2. ArenaTypeOK'
    BY <1>2, <2>0, <2>1, HandOutTypes DEF Types, ArenaTypeOK
  <2>3. todo' \in Seq(Todo) /\ outcome' \in Outcomes
    BY <1>1, <1>3, ListTypes DEF Types
  <2>4. short' \in BOOLEAN
    BY <1>3 DEF Watch
  <2>5. QED
    BY <1>1, <2>2, <2>3, <2>4, KeepBook, SamePlan DEF Types
<1>4. CASE Refused("error") /\ UNCHANGED arena
  <2>1. ArenaTypeOK'
    BY <1>4, SameArenaTypes DEF Types, ArenaTypeOK, arena
  <2>2. todo' \in Seq(Todo) /\ outcome' \in Outcomes /\ short' \in BOOLEAN
    BY <1>4, RefusedTypes DEF Outcomes
  <2>3. QED
    BY <1>1, <2>1, <2>2, KeepBook, SamePlan DEF Types
<1>5. QED
  BY <1>3, <1>4 DEF CreateAllocationInfo

LEMMA InfoTypes ==
  ASSUME model \in Models, requests \in Seq(RequestType)
  PROVE  AllocationInfo \in Seq(InfoType)
<1> DEFINE info(s, i) == OnlyIf(NeedsAllocating(<<s, i>>), NewInfo(T(s, i), Bytes(<<s, i>>), Offline(<<s, i>>)))
           all == [s \in Subgraphs |-> [i \in Tensors(s) |-> info(s, i)]]
           scratch == [k \in DOMAIN requests |-> NewInfo(Scratch(k), requests[k].bytes, Online)]
           n == Len(requests)
<1>1. ASSUME NEW m \in Name, NEW bytes \in Nat, NEW offline \in Nat \cup {Online}
      PROVE  NewInfo(m, bytes, offline) \in InfoType
  BY DEF NewInfo, InfoType
<1>2. ASSUME NEW s \in Subgraphs, NEW i \in Tensors(s)
      PROVE  info(s, i) \in Seq(InfoType)
  <2>1. NewInfo(T(s, i), Bytes(<<s, i>>), Offline(<<s, i>>)) \in InfoType
    BY <1>1, TensorFacts
  <2>2. NeedsAllocating(<<s, i>>) \in BOOLEAN
    BY DEF NeedsAllocating
  <2>3. QED
    BY <2>1, <2>2, OneOrNone
<1>3. /\ \A s \in Subgraphs : \A i \in Tensors(s) : all[s][i] \in Seq(InfoType)
      /\ \A s \in Subgraphs : all[s] = [i \in Tensors(s) |-> all[s][i]]
  <2> HIDE DEF info
  <2>1. QED
    BY <1>2
<1>4. AllocationInfo = FlattenSeq([s \in Subgraphs |-> FlattenSeq(all[s])]) \o scratch
  BY DEF AllocationInfo, PerTensor
<1>5. n \in Nat /\ DOMAIN requests = 1 .. n
  OBVIOUS
<1>6. ASSUME NEW k \in 1 .. n PROVE NewInfo(Scratch(k), requests[k].bytes, Online) \in InfoType
  <2>1. requests[k] \in RequestType
    OBVIOUS
  <2>2. requests[k].bytes \in Nat
    BY <2>1 DEF RequestType
  <2>3. Scratch(k) \in Name
    BY <1>5 DEF Scratch, Name
  <2>4. QED
    BY <1>1, <2>2, <2>3
<1> HIDE DEF all, n
<1>7. scratch = [k \in 1 .. n |-> scratch[k]] /\ \A k \in 1 .. n : scratch[k] \in InfoType
  BY <1>5, <1>6
<1> HIDE DEF scratch
<1>8. scratch \in Seq(InfoType)
  BY <1>5, <1>7, ListOf
<1>9. FlattenSeq([s \in Subgraphs |-> FlattenSeq(all[s])]) \in Seq(InfoType)
  BY <1>3, PerTensorType
<1>10. QED
  BY <1>4, <1>8, <1>9, ConcatProperties

(* Prepending items, and marking.                                          *)
LEMMA PushTypes ==
  ASSUME AllocatorTypes, todo # <<>>, NEW items \in Seq(Item)
  PROVE  items \o Tail(todo) \in Seq(Todo)
BY ListTypes, Wider, ConcatProperties

LEMMA MarkedTypes ==
  ASSUME NEW all \in Seq(InfoType), NEW names, NEW now \in Int
  PROVE  Created(all, names, now) \in Seq(InfoType) /\ Used(all, names, now) \in Seq(InfoType)
<1> DEFINE n == Len(all)
           c == Created(all, names, now)
           u == Used(all, names, now)
<1>1. n \in Nat /\ DOMAIN all = 1 .. n /\ \A k \in 1 .. n : all[k] \in InfoType
  OBVIOUS
<1> HIDE DEF n
<1>2. ASSUME NEW k \in 1 .. n
      PROVE  [all[k] EXCEPT !.first = now] \in InfoType /\ [all[k] EXCEPT !.last = now] \in InfoType
  BY <1>1 DEF InfoType
<1>3. /\ c = [k \in 1 .. n |-> c[k]] /\ \A k \in 1 .. n : c[k] \in {all[k], [all[k] EXCEPT !.first = now]}
      /\ u = [k \in 1 .. n |-> u[k]] /\ \A k \in 1 .. n : u[k] \in {all[k], [all[k] EXCEPT !.last = now]}
  BY <1>1 DEF Created, Used
<1> HIDE DEF c, u
<1>4. \A k \in 1 .. n : c[k] \in InfoType /\ u[k] \in InfoType
  BY <1>1, <1>2, <1>3
<1>5. c \in Seq(InfoType) /\ u \in Seq(InfoType)
  BY <1>1, <1>3, <1>4, ListOf
<1>6. QED
  BY <1>5 DEF c, u

\* The items of the marking.
MarkKinds == {"mark", "op", "used", "outputs"}
MarkingItem == {x \in Item : x.do \in MarkKinds}

LEMMA MarkingWider == Seq(MarkingItem) \subseteq Seq(Item)
<1> SUFFICES ASSUME NEW l \in Seq(MarkingItem) PROVE l \in Seq(Item)
  OBVIOUS
<1>1. \A i \in DOMAIN l : l[i] \in Item
  BY DEF MarkingItem
<1>2. QED
  BY <1>1

LEMMA MarkingDo ==
  /\ \A s, o : OpStep("op", s, o, 0).do \in MarkKinds /\ OpStep("used", s, o, 0).do \in MarkKinds
  /\ \A s : OpStep("outputs", s, 0, 0).do \in MarkKinds /\ Mark(s, 1).do \in MarkKinds
BY DEF OpStep, Mark, MarkKinds

(* What the marking of a subgraph and of an operator puts on the list.     *)
LEMMA MarkingItems ==
  ASSUME Types, todo # <<>>
  PROVE  /\ <<>> \in Seq(Item)
         /\ todo[1].do = "mark" =>
              LET s == todo[1].subgraph
                  items == [o \in DOMAIN Ops(s) |-> OpStep("op", s, o, 0)] \o <<OpStep("outputs", s, 0, 0)>>
              IN  items \in Seq(MarkingItem) /\ items \in Seq(Item)
         /\ todo[1].do = "op" =>
              LET s == todo[1].subgraph
                  o == todo[1].op
                  calls == Ops(s)[o].calls
                  items == [c \in DOMAIN calls |-> Mark(calls[c], 1)] \o <<OpStep("used", s, o, 0)>>
              IN  items \in Seq(MarkingItem) /\ items \in Seq(Item)
<1> DEFINE s == todo[1].subgraph
           o == todo[1].op
           calls == Ops(s)[o].calls
           ops == [q \in DOMAIN Ops(s) |-> OpStep("op", s, q, 0)]
           marks == [c \in DOMAIN calls |-> Mark(calls[c], 1)]
<1>1. model \in Models
  BY DEF Types, AllocatorTypes
<1>2. ASSUME todo[1].do = "mark" PROVE ops \o <<OpStep("outputs", s, 0, 0)>> \in Seq(MarkingItem)
  <2>1. s \in Subgraphs
    BY <1>2, ItemKinds DEF MarkType, Types
  <2>2. Len(Ops(s)) \in Nat /\ DOMAIN Ops(s) = 1 .. Len(Ops(s))
    BY <1>1, <2>1, ModelFacts
  <2>3. \A q \in 1 .. Len(Ops(s)) : OpStep("op", s, q, 0) \in MarkingItem
    BY <2>1, <2>2, OpItem, MarkingDo DEF MarkingItem
  <2>4. ops = [q \in 1 .. Len(Ops(s)) |-> ops[q]] /\ \A q \in 1 .. Len(Ops(s)) : ops[q] \in MarkingItem
    BY <2>2, <2>3
  <2>5. OpStep("outputs", s, 0, 0) \in MarkingItem
    BY <2>1, OpItem, MarkingDo DEF MarkingItem
  <2> HIDE DEF ops
  <2>6. ops \in Seq(MarkingItem) /\ <<OpStep("outputs", s, 0, 0)>> \in Seq(MarkingItem)
    BY <2>2, <2>4, <2>5, ListOf
  <2>7. QED
    BY <2>6, ConcatProperties
<1>3. ASSUME todo[1].do = "op" PROVE marks \o <<OpStep("used", s, o, 0)>> \in Seq(MarkingItem)
  <2> DEFINE n == Len(calls)
  <2>1. s \in Subgraphs /\ o \in DOMAIN Ops(s) /\ o \in Nat
    BY <1>3, ItemKinds DEF OpType, Types
  <2>2. calls \in Seq(Nat) /\ \A c \in DOMAIN calls : calls[c] \in Subgraphs
    BY <1>1, <2>1, OpFacts
  <2>3. n \in Nat /\ DOMAIN calls = 1 .. n
    BY <2>2
  <2> HIDE DEF n
  <2>4. \A c \in 1 .. n : Mark(calls[c], 1) \in MarkingItem
    BY <2>2, <2>3, MarkItem, MarkingDo DEF MarkingItem
  <2>5. marks = [c \in 1 .. n |-> marks[c]] /\ \A c \in 1 .. n : marks[c] \in MarkingItem
    BY <2>3, <2>4
  <2>6. OpStep("used", s, o, 0) \in MarkingItem
    BY <2>1, OpItem, MarkingDo DEF MarkingItem
  <2> HIDE DEF marks
  <2>7. marks \in Seq(MarkingItem) /\ <<OpStep("used", s, o, 0)>> \in Seq(MarkingItem)
    BY <2>3, <2>5, <2>6, ListOf
  <2>8. QED
    BY <2>7, ConcatProperties
<1>4. <<>> \in Seq(Item)
  OBVIOUS
<1> HIDE DEF ops, marks
<1>5. QED
  BY <1>2, <1>3, <1>4, MarkingWider DEF ops, marks

LEMMA MarksTypes ==
  ASSUME Types, todo # <<>>, NEW read, NEW now \in Int, NEW marked \in Seq(InfoType), NEW items \in Seq(Item),
         Marks(read, now, marked, items)
  PROVE  Types'
<1>1. CASE ReadsGarbage(read \cup {Info})
  BY <1>1, GarbageTypes
<1>2. CASE /\ scope' = now /\ infos' = marked /\ todo' = items \o Tail(todo)
           /\ UNCHANGED <<outcome, model, requests, allocating, maxHead, short, arena, planner>>
  <2>1. todo' \in Seq(Todo)
    BY <1>2, PushTypes DEF Types
  <2>2. outcome' \in Outcomes /\ model' = model /\ requests' \in Seq(RequestType) /\ maxHead' \in Nat
    BY <1>2, ListTypes DEF Types, AllocatorTypes
  <2>3. short' \in BOOLEAN /\ allocating' \in BOOLEAN
    BY <1>2 DEF Types, AllocatorTypes
  <2>4. AllocatorTypes'
    BY <1>2, <2>1, <2>2, <2>3, KeepModel DEF Types
  <2>5. ArenaTypeOK'
    BY <1>2, SameArenaTypes DEF Types, ArenaTypeOK, arena
  <2>6. QED
    BY <1>2, <2>4, <2>5, SamePlan DEF Types
<1>3. QED
  BY <1>1, <1>2 DEF Marks

LEMMA LifetimesTypes ==
  ASSUME Types, InitializeAllocationInfo
  PROVE  Types'
<1> DEFINE read == Structures \cup {<<"eval", s, 0>> : s \in Subgraphs}
<1>1. todo # <<>> /\ model \in Models /\ requests \in Seq(RequestType)
  BY DEF InitializeAllocationInfo, At, Types, AllocatorTypes
<1>2. CASE ReadsGarbage(read)
  BY <1>2, GarbageTypes
<1>3. CASE /\ infos' = AllocationInfo /\ scope' = 0
           /\ held' = HeldAfter(held, {Info})
           /\ todo' = <<Mark(1, 0)>> \o Tail(todo)
           /\ UNCHANGED <<outcome, size, head, tail, temp, place, model, requests, allocating, maxHead, short, planner>>
  <2>1. Mark(1, 0) \in Item
    <3>1. 1 \in Subgraphs
      BY <1>1, ModelFacts
    <3>2. QED
      BY <3>1, MarkItem
  <2>2. <<Mark(1, 0)>> \in Seq(Item)
    BY <2>1
  <2>3. todo' \in Seq(Todo)
    BY <1>1, <1>3, <2>2, PushTypes DEF Types
  <2>4. outcome' \in Outcomes /\ model' = model /\ requests' \in Seq(RequestType) /\ maxHead' \in Nat /\ scope' \in Int
    BY <1>3, ListTypes DEF Types, AllocatorTypes
  <2>5. short' \in BOOLEAN /\ allocating' \in BOOLEAN
    BY <1>3 DEF Types, AllocatorTypes
  <2>6. infos' \in Seq(InfoType)
    BY <1>1, <1>3, InfoTypes
  <2>7. AllocatorTypes'
    BY <2>3, <2>4, <2>5, <2>6, KeepModel DEF Types
  <2>8. held \in SUBSET DOMAIN place
    BY DEF Types, ArenaTypeOK
  <2>9. held' \in SUBSET DOMAIN place
    BY <1>3, <2>8, HeldTypes
  <2>10. ArenaTypeOK'
    BY <1>3, <2>9, SameArenaTypes DEF Types
  <2>11. QED
    BY <1>3, <2>7, <2>10, SamePlan DEF Types
<1>4. QED
  BY <1>2, <1>3 DEF InitializeAllocationInfo

LEMMA InputsTypes ==
  ASSUME Types, MarkInputs
  PROVE  Types'
<1> DEFINE s == todo[1].subgraph
           inputs == Range(Named(s, model[s].inputs))
           now == scope + todo[1].opens
           ops == [o \in DOMAIN Ops(s) |-> OpStep("op", s, o, 0)]
           items == ops \o <<OpStep("outputs", s, 0, 0)>>
           marked == Used(Created(infos, inputs, now), inputs, now)
<1>1. /\ todo # <<>> /\ todo[1] \in MarkType
      /\ Marks({}, now, marked, items)
  BY ItemKinds DEF MarkInputs, At, Types
<1>2. model \in Models /\ infos \in Seq(InfoType) /\ scope \in Int /\ s \in Subgraphs
  BY <1>1 DEF Types, AllocatorTypes, MarkType
<1>3. now \in Int
  BY <1>1, <1>2 DEF MarkType
<1> HIDE DEF now, inputs
<1>4. marked \in Seq(InfoType)
  BY <1>2, <1>3, MarkedTypes
<1>5. items \in Seq(Item)
  BY <1>1, MarkingItems DEF MarkInputs, At
<1> HIDE DEF marked, items
<1>6. QED
  BY <1>1, <1>3, <1>4, <1>5, MarksTypes

LEMMA OperatorTypes ==
  ASSUME Types, MarkOperator
  PROVE  Types'
<1> DEFINE s == todo[1].subgraph
           o == todo[1].op
           calls == Ops(s)[o].calls
           names == Range(Named(s, Ops(s)[o].outputs)) \cup ScratchNames(s, o)
           marks == [c \in DOMAIN calls |-> Mark(calls[c], 1)]
           items == marks \o <<OpStep("used", s, o, 0)>>
           marked == Created(infos, names, scope + 1)
<1>1. /\ todo # <<>> /\ todo[1] \in OpType /\ todo[1].do = "op"
      /\ Marks(RequestSlots, scope + 1, marked, items)
  BY ItemKinds DEF MarkOperator, At, Types
<1>2. /\ model \in Models /\ infos \in Seq(InfoType) /\ scope + 1 \in Int
      /\ s \in Subgraphs /\ o \in DOMAIN Ops(s) /\ o \in Nat
  BY <1>1 DEF Types, AllocatorTypes, OpType
<1> HIDE DEF names
<1>3. marked \in Seq(InfoType)
  BY <1>2, MarkedTypes
<1>4. items \in Seq(Item)
  BY <1>1, MarkingItems
<1> HIDE DEF marked, items
<1>5. QED
  BY <1>1, <1>2, <1>3, <1>4, MarksTypes

LEMMA UsesTypes ==
  ASSUME Types, MarkUses
  PROVE  Types'
<1> DEFINE s == todo[1].subgraph
           o == todo[1].op
           names == Range(Named(s, Ops(s)[o].inputs \o Ops(s)[o].outputs)) \cup ScratchNames(s, o)
           marked == Used(infos, names, scope)
<1>1. todo # <<>> /\ Marks(RequestSlots, scope, marked, <<>>)
  BY DEF MarkUses, At
<1>2. infos \in Seq(InfoType) /\ scope \in Int /\ <<>> \in Seq(Item)
  BY DEF Types, AllocatorTypes
<1> HIDE DEF names
<1>3. marked \in Seq(InfoType)
  BY <1>2, MarkedTypes
<1> HIDE DEF marked
<1>4. QED
  BY <1>1, <1>2, <1>3, MarksTypes

LEMMA OutputsTypes ==
  ASSUME Types, MarkOutputs
  PROVE  Types'
<1> DEFINE outputs == Range(Named(todo[1].subgraph, model[todo[1].subgraph].outputs))
           marked == Used(Created(infos, outputs, scope), outputs, scope)
<1>1. todo # <<>> /\ Marks({}, scope, marked, <<>>)
  BY DEF MarkOutputs, At
<1>2. infos \in Seq(InfoType) /\ scope \in Int /\ <<>> \in Seq(Item)
  BY DEF Types, AllocatorTypes
<1> HIDE DEF outputs
<1>3. marked \in Seq(InfoType)
  BY <1>2, MarkedTypes
<1> HIDE DEF marked
<1>4. QED
  BY <1>1, <1>2, <1>3, MarksTypes

(* The planner is initialized, and gets the requirements.                  *)
LEMMA Quotient ==
  ASSUME NEW a \in Nat, NEW b \in Nat \ {0}
  PROVE  a \div b \in Nat
BY SMTT(30)

LEMMA AlignNat ==
  ASSUME NEW p \in Nat, NEW a \in Nat \ {0}
  PROVE  AlignUp(p, a) \in Nat
<1>1. p + a - 1 \in Nat
  OBVIOUS
<1>2. (p + a - 1) \div a \in Nat
  BY <1>1, Quotient
<1>3. QED
  BY <1>2, Product DEF AlignUp

LEMMA InitPlannerKeeps ==
  ASSUME PlanInv, NEW room \in Nat, InitPlanner(room)
  PROVE  PlanInv'
<1>1. max' \in Nat /\ bufferCount' = 0 /\ DOMAIN requirements' = 1 .. bufferCount'
  BY DEF InitPlanner, NoFunction
<1>2. QED
  BY <1>1, ForgetKeeps DEF InitPlanner

LEMMA AddTyped ==
  ASSUME PlanInv, NEW r \in [size: Nat, first: Int, last: Int, offline: Nat \cup {Online}], Add(r)
  PROVE  PlanInv'
<1>1. bufferCount \in Nat /\ bufferCount' = bufferCount + 1 /\ max' = max /\ max \in Nat
  BY DEF PlanInv, PlannerTypeOK, Add
<1>2. \A b \in 1 .. bufferCount' : requirements'[b] \in
        [size: Nat, first: Int, last: Int, offline: Nat \cup {Online}]
  BY <1>1 DEF PlanInv, PlannerTypeOK, Buffers, Add
<1>3. DOMAIN requirements' = 1 .. bufferCount'
  BY <1>1 DEF Add
<1>4. QED
  BY <1>1, <1>2, <1>3, ForgetKeeps DEF Add

LEMMA PlannerTypes ==
  ASSUME Types, InitMemoryPlanner
  PROVE  Types'
<1> DEFINE room == PlannerRoom
           entries == room \div SizeOf.PlannerEntry
           lo == TempAt(BufferAlign)
<1>1. todo # <<>> /\ UNCHANGED book
  BY DEF InitMemoryPlanner, At
<1>2. lo \in Int /\ room \in Int
  <2>1. AlignDown(tail, BufferAlign) \in Int /\ AlignUp(temp, BufferAlign) \in Int
    BY ArenaAssumption, AlignTypes DEF Types, ArenaTypeOK
  <2>2. QED
    BY <2>1 DEF PlannerRoom, TempAt
<1>3. CASE /\ room >= 0
           /\ AllocateTemp(PlannerArena, PlannerRoom, BufferAlign, FALSE)
           /\ InitPlanner(entries)
           /\ todo' = <<Step("commit"), Step("reserve")>> \o Tail(todo)
           /\ UNCHANGED <<outcome, short>>
  <2>1. room \in Nat
    BY <1>2, <1>3
  <2> HIDE DEF room
  <2>2. entries \in Nat
    BY <2>1, SizeFacts, Quotient
  <2> HIDE DEF entries, lo
  <2>3. PlanInv'
    BY <1>3, <2>2, InitPlannerKeeps DEF Types
  <2>4. /\ temp' = lo + room
        /\ place' = [m \in DOMAIN place \cup {PlannerArena} |-> IF m = PlannerArena THEN [lo |-> lo, hi |-> temp'] ELSE place[m]]
        /\ held' \subseteq held \cup {PlannerArena}
        /\ UNCHANGED <<size, head, tail>>
    BY <1>3 DEF AllocateTemp, HandOut, lo, room
  <2>5. ArenaTypeOK'
    BY <1>2, <2>1, <2>4, HandOutTypes DEF Types, ArenaTypeOK
  <2>6. todo' \in Seq(Todo)
    <3>1. Step("commit") \in Todo /\ Step("reserve") \in Todo
      BY DEF Step, Todo
    <3>2. <<Step("commit"), Step("reserve")>> \in Seq(Todo)
      BY <3>1
    <3>3. Tail(todo) \in Seq(Todo)
      BY <1>1, ListTypes DEF Types
    <3>4. QED
      BY <1>3, <3>2, <3>3, ConcatProperties
  <2>7. outcome' \in Outcomes
    BY <1>3, ListTypes DEF Types
  <2>8. short' \in BOOLEAN
    BY <1>3 DEF Types, AllocatorTypes
  <2>9. QED
    BY <1>1, <2>3, <2>5, <2>6, <2>7, <2>8, KeepBook DEF Types
<1>4. CASE /\ IF tail < TempAt(BufferAlign) THEN EndsAs("undefined") /\ UNCHANGED short ELSE Refused("error")
           /\ UNCHANGED <<arena, planner>>
  <2>1. todo' \in Seq(Todo) /\ outcome' \in Outcomes
    BY <1>4, EndTypes, RefusedTypes DEF Outcomes
  <2>2. short' \in BOOLEAN
    BY <1>4 DEF Refused, Types, AllocatorTypes
  <2>3. ArenaTypeOK'
    BY <1>4, SameArenaTypes DEF Types, ArenaTypeOK, arena
  <2>4. QED
    BY <1>1, <1>4, <2>1, <2>2, <2>3, KeepBook, SamePlan DEF Types
<1>5. QED
  BY <1>3, <1>4 DEF InitMemoryPlanner

LEMMA BufferTypes ==
  ASSUME Types, AddBuffer
  PROVE  Types'
<1> DEFINE i == infos[bufferCount + 1]
<1>1. todo # <<>> /\ bufferCount < Len(infos)
  BY DEF AddBuffer, At
<1>2. i \in InfoType
  <2>1. bufferCount \in Nat /\ infos \in Seq(InfoType)
    BY DEF Types, PlanInv, PlannerTypeOK, AllocatorTypes
  <2>2. QED
    BY <1>1, <2>1
<1>3. CASE ReadsGarbage({Info})
  BY <1>3, GarbageTypes
<1>4. CASE EndsAs("undefined") /\ UNCHANGED <<book, arena, planner, short>>
  <2>1. todo' \in Seq(Todo) /\ outcome' \in Outcomes
    BY <1>4, EndTypes DEF Outcomes
  <2>2. short' \in BOOLEAN
    BY <1>4 DEF Types, AllocatorTypes
  <2>3. ArenaTypeOK'
    BY <1>4, SameArenaTypes DEF Types, ArenaTypeOK, arena
  <2>4. QED
    BY <1>4, <2>1, <2>2, <2>3, KeepBook, SamePlan DEF Types
<1>5. CASE /\ \/ /\ Add(Requirement(i)) /\ held' = HeldAfter(held, {PlannerArena})
                 /\ UNCHANGED <<todo, outcome, short>>
              \/ Refused("error") /\ UNCHANGED <<held, planner>>
           /\ UNCHANGED <<size, head, tail, temp, place, book>>
  <2>1. held' \in SUBSET DOMAIN place
    <3>1. held \in SUBSET DOMAIN place
      BY DEF Types, ArenaTypeOK
    <3>2. QED
      BY <1>5, <3>1, HeldTypes
  <2>2. ArenaTypeOK'
    BY <1>5, <2>1, SameArenaTypes DEF Types
  <2>3. PlanInv'
    <3>1. CASE Add(Requirement(i))
      <4>1. i.bytes \in Nat /\ i.first \in Int /\ i.last \in Int /\ i.offline \in Nat \cup {Online}
        BY <1>2 DEF InfoType
      <4> HIDE DEF i
      <4>2. AlignUp(i.bytes, BufferAlign) \in Nat
        BY <4>1, ArenaAssumption, AlignNat
      <4>3. Requirement(i) \in [size: Nat, first: Int, last: Int, offline: Nat \cup {Online}]
        BY <4>1, <4>2 DEF Requirement
      <4>4. QED
        BY <3>1, <4>3, AddTyped DEF Types
    <3>2. CASE UNCHANGED planner
      BY <3>2, SamePlan DEF Types
    <3>3. QED
      BY <1>5, <3>1, <3>2
  <2>4. todo' \in Seq(Todo) /\ outcome' \in Outcomes
    BY <1>5, RefusedTypes, ListTypes DEF Types, AllocatorTypes, Outcomes
  <2>5. short' \in BOOLEAN
    BY <1>5 DEF Refused, Types, AllocatorTypes
  <2>6. QED
    BY <1>5, <2>2, <2>3, <2>4, <2>5, KeepBook DEF Types
<1>6. QED
  BY <1>3, <1>4, <1>5 DEF AddBuffer

LEMMA OffsetsTypes ==
  ASSUME Types, CalculateOffsets
  PROVE  Types'
<1>1. PlanInv'
  BY PlanStep DEF CalculateOffsets, PlannerNext, Types
<1>2. ArenaTypeOK'
  BY SameArenaTypes DEF CalculateOffsets, Types, ArenaTypeOK, arena
<1>3. todo' \in Seq(Todo) /\ outcome' \in Outcomes
  BY DEF CalculateOffsets, Types, AllocatorTypes, Outcomes
<1>4. short' \in BOOLEAN
  BY DEF CalculateOffsets, Types, AllocatorTypes
<1>5. QED
  BY <1>1, <1>2, <1>3, <1>4, KeepBook DEF CalculateOffsets, Types

LEMMA CommitTypes ==
  ASSUME Types, CommitPlan
  PROVE  Types'
<1>1. todo # <<>> /\ bufferCount = Len(infos) /\ Planned
  BY DEF CommitPlan, At
<1>2. CASE ReadsGarbage(Planners)
  BY <1>2, GarbageTypes
<1>3. CASE EndsAs("undefined") /\ UNCHANGED <<arena, book, short, planner>>
  <2>1. todo' \in Seq(Todo) /\ outcome' \in Outcomes
    BY <1>3, EndTypes DEF Outcomes
  <2>2. short' \in BOOLEAN
    BY <1>3 DEF Types, AllocatorTypes
  <2>3. ArenaTypeOK'
    BY <1>3, SameArenaTypes DEF Types, ArenaTypeOK, arena
  <2>4. QED
    BY <1>3, <2>1, <2>2, <2>3, KeepBook, SamePlan DEF Types
<1>4. CASE /\ place' = [n \in PlannedNames \cup DOMAIN place |-> IF n \in PlannedNames THEN Planning(n) ELSE place[n]]
           /\ held' = HeldAfter(held, Evals) \ PlannedNames
           /\ Rest
           /\ UNCHANGED <<size, head, tail, temp, book, short, planner>>
  <2>1. \A n \in PlannedNames : Planning(n) \in [lo: Int, hi: Int]
    <3> SUFFICES ASSUME NEW n \in PlannedNames PROVE Planning(n) \in [lo: Int, hi: Int]
      OBVIOUS
    <3> DEFINE k == CHOOSE i \in DOMAIN infos : infos[i].name = n
    <3>1. k \in DOMAIN infos
      BY DEF PlannedNames
    <3> HIDE DEF k
    <3>2. infos \in Seq(InfoType) /\ bufferCount \in Nat
      BY DEF Types, AllocatorTypes, PlanInv, PlannerTypeOK
    <3>3. infos[k].bytes \in Nat /\ k \in 1 .. bufferCount
      <4>1. infos[k] \in InfoType /\ k \in 1 .. Len(infos)
        BY <3>1, <3>2
      <4>2. QED
        BY <1>1, <4>1 DEF InfoType
    <3>4. offsets[k] \in Nat
      BY <1>1, <3>3 DEF Planned, Buffers, Types, PlanInv, PlannerTypeOK
    <3>5. Planning(n) = [lo |-> offsets[k], hi |-> offsets[k] + infos[k].bytes]
      BY DEF Planning, k
    <3>6. QED
      BY <3>3, <3>4, <3>5
  <2>2. HeldAfter(held, Evals) \in SUBSET DOMAIN place
    <3>1. held \in SUBSET DOMAIN place
      BY DEF Types, ArenaTypeOK
    <3>2. QED
      BY <3>1, HeldTypes
  <2>3. ArenaTypeOK'
    BY <1>4, <2>1, <2>2 DEF Types, ArenaTypeOK
  <2>4. todo' \in Seq(Todo) /\ outcome' \in Outcomes
    BY <1>1, <1>4, ListTypes DEF Types
  <2>5. short' \in BOOLEAN
    BY <1>4 DEF Types, AllocatorTypes
  <2>6. QED
    BY <1>4, <2>3, <2>4, <2>5, KeepBook, SamePlan DEF Types
<1>5. QED
  BY <1>2, <1>3, <1>4 DEF CommitPlan

(* How far the plan reaches is a natural number when it is complete.       *)
LEMMA ReserveTypes ==
  ASSUME Types, ReserveHead, Planned
  PROVE  Types'
<1> DEFINE freed == IF KernelTemps = {} THEN Temps \cup RequestSlots ELSE Temps \ KernelTemps
<1>1. /\ todo # <<>>
      /\ UNCHANGED <<size, tail, model, requests, infos, scope, planner>>
      /\ Free(freed)
      /\ \/ ResizeTo(maxHead') /\ allocating' = FALSE /\ Rest /\ UNCHANGED short
         \/ ResizeTo(0) /\ Refused("error") /\ UNCHANGED allocating
         \/ Refused("error") /\ UNCHANGED <<head, temp, allocating>>
  <2>1. CASE KernelTemps = {}
    BY <2>1 DEF ReserveHead, At
  <2>2. CASE KernelTemps # {}
    BY <2>2 DEF ReserveHead, At
  <2>3. QED
    BY <2>1, <2>2
<1> HIDE DEF freed
<1>2. maxHead' \in Nat
  <2>1. CASE maxHead' = maxHead
    BY <2>1 DEF Types, AllocatorTypes
  <2>2. ASSUME NEW n \in {0} \cup {End(b) : b \in Buffers}, maxHead' = (IF maxHead < n THEN n ELSE maxHead)
        PROVE  maxHead' \in Nat
    <3>1. n \in Nat
      BY SizesAreNat DEF Types, PlanInv, Planned
    <3>2. QED
      BY <2>2, <3>1 DEF Types, AllocatorTypes
  <2>3. QED
    BY <2>1, <2>2 DEF ReserveHead
<1>3. head' \in Int /\ temp' \in Int /\ tail' \in Int
  BY <1>1, <1>2 DEF ResizeTo, Types, ArenaTypeOK
<1>4. ArenaTypeOK'
  BY <1>1, <1>3, FreeTypes DEF Types
<1>5. todo' \in Seq(Todo) /\ outcome' \in Outcomes
  BY <1>1, ListTypes, RefusedTypes DEF Types, Outcomes
<1>6. short' \in BOOLEAN
  BY <1>1 DEF Refused, Types, AllocatorTypes
<1>7. allocating' \in BOOLEAN
  BY <1>1 DEF Types, AllocatorTypes
<1>8. /\ model' = model /\ requests' \in Seq(RequestType) /\ infos' \in Seq(InfoType)
      /\ scope' \in Int
  BY <1>1 DEF Types, AllocatorTypes
<1>9. AllocatorTypes'
  BY <1>2, <1>5, <1>6, <1>7, <1>8, KeepModel DEF Types
<1>10. QED
  BY <1>1, <1>4, <1>9, SamePlan DEF Types

LEMMA ResetTypes ==
  ASSUME Types, ResetVariableTensors
  PROVE  Types'
<1>1. todo' \in Seq(Todo) /\ outcome' \in Outcomes
  BY EndTypes DEF ResetVariableTensors, Outcomes
<1>2. short' \in BOOLEAN
  BY DEF ResetVariableTensors, Types, AllocatorTypes
<1>3. ArenaTypeOK'
  <2>1. held \in SUBSET DOMAIN place
    BY DEF Types, ArenaTypeOK
  <2>2. held' \in SUBSET DOMAIN place
    BY <2>1, HeldTypes DEF ResetVariableTensors
  <2>3. QED
    BY <2>2, SameArenaTypes DEF ResetVariableTensors, Types
<1>4. QED
  BY <1>1, <1>2, <1>3, KeepBook, SamePlan DEF ResetVariableTensors, Types

-----------------------------------------------------------------------------
(* When the head is reserved the plan is complete.                         *)

Reserving ==
  \A k \in DOMAIN todo :
    todo[k].do = "reserve" => (k = 1 /\ Planned) \/ (k = 2 /\ todo[1].do = "commit")

LEMMA PushReserving ==
  ASSUME Types, Reserving, todo # <<>>, todo[1].do # "commit",
         NEW items \in Seq(Item), todo' = items \o Tail(todo)
  PROVE  Reserving'
<1> DEFINE n == Len(items)
<1>1. todo \in Seq(Todo)
  BY DEF Types, AllocatorTypes
<1>2. \A k \in DOMAIN todo : k > 1 => todo[k].do # "reserve"
  BY <1>1 DEF Reserving
<1>3. /\ Len(todo) \in Nat \ {0} /\ DOMAIN todo = 1 .. Len(todo) /\ n \in Nat
      /\ Len(Tail(todo)) = Len(todo) - 1 /\ \A k \in 1 .. Len(todo) - 1 : Tail(todo)[k] = todo[k + 1]
      /\ Tail(todo) \in Seq(Todo)
      /\ \A k \in 1 .. n : items[k].do # "reserve"
  <2>1. \A k \in 1 .. n : items[k] \in Item
    OBVIOUS
  <2>2. \A k \in 1 .. n : items[k].do # "reserve"
    BY <2>1 DEF Item, PersistentType, TemporaryType, StepType, OpType, MarkType
  <2>3. QED
    BY <1>1, <2>2
<1>4. /\ Len(todo') = n + (Len(todo) - 1) /\ DOMAIN todo' = 1 .. Len(todo')
      /\ \A k \in 1 .. Len(todo') : todo'[k] = IF k <= n THEN items[k] ELSE Tail(todo)[k - n]
  <2>1. items \in Seq(Todo)
    BY Wider
  <2>2. QED
    BY <1>3, <2>1, ConcatProperties
<1> HIDE DEF n
<1>5. \A k \in DOMAIN todo' : todo'[k].do # "reserve"
  <2> SUFFICES ASSUME NEW k \in DOMAIN todo' PROVE todo'[k].do # "reserve"
    OBVIOUS
  <2>1. CASE k <= n
    BY <1>3, <1>4, <2>1
  <2>2. CASE k > n
    <3>1. k - n \in 1 .. Len(todo) - 1 /\ (k - n) + 1 \in 1 .. Len(todo) /\ (k - n) + 1 > 1
      BY <1>3, <1>4, <2>2
    <3>2. todo'[k] = todo[(k - n) + 1]
      BY <1>3, <1>4, <2>2, <3>1
    <3>3. QED
      BY <1>2, <1>3, <3>1, <3>2
  <2>3. QED
    BY <1>3, <1>4, <2>1, <2>2
<1>6. QED
  BY <1>5 DEF Reserving

LEMMA RestReserving ==
  ASSUME Types, Reserving, todo # <<>>, todo[1].do = "commit" => Planned', Rest
  PROVE  Reserving'
<1>1. todo \in Seq(Todo) /\ todo' = Tail(todo)
  BY DEF Types, AllocatorTypes, Rest
<1>2. /\ Len(todo) \in Nat \ {0} /\ DOMAIN todo = 1 .. Len(todo)
      /\ DOMAIN todo' = 1 .. Len(todo) - 1 /\ \A k \in 1 .. Len(todo) - 1 : todo'[k] = todo[k + 1]
  BY <1>1
<1> SUFFICES ASSUME NEW k \in DOMAIN todo', todo'[k].do = "reserve" PROVE k = 1 /\ Planned'
  BY DEF Reserving
<1>3. k \in 1 .. Len(todo) - 1 /\ k + 1 \in 1 .. Len(todo) /\ todo[k + 1].do = "reserve"
  BY <1>2
<1>4. k + 1 = 2 /\ todo[1].do = "commit"
  BY <1>2, <1>3 DEF Reserving
<1>5. QED
  BY <1>3, <1>4

LEMMA EndReserving ==
  ASSUME NEW result, EndsAs(result)
  PROVE  Reserving'
BY DEF EndsAs, Reserving

LEMMA SameReserving ==
  ASSUME Types, Reserving, todo' = todo, todo # <<>> /\ todo[1].do = "reserve" => Planned'
  PROVE  Reserving'
<1>1. DOMAIN todo = 1 .. Len(todo) /\ Len(todo) \in Nat /\ (Len(todo) # 0 => todo # <<>>)
  BY DEF Types, AllocatorTypes
<1>2. QED
  BY <1>1 DEF Reserving

LEMMA PlannerReserving ==
  ASSUME Types, Reserving, todo # <<>>, todo[1].do = "plan",
         todo' = <<Step("commit"), Step("reserve")>> \o Tail(todo)
  PROVE  Reserving'
<1> DEFINE two == <<Step("commit"), Step("reserve")>>
<1>1. todo \in Seq(Todo) /\ Tail(todo) \in Seq(Todo)
  BY ListTypes DEF Types, AllocatorTypes
<1>2. two \in Seq(Todo)
  <2>1. Step("commit") \in Todo /\ Step("reserve") \in Todo
    BY DEF Step, Todo
  <2>2. QED
    BY <2>1
<1>3. Len(two) = 2 /\ two[1] = Step("commit") /\ two[2] = Step("reserve")
  OBVIOUS
<1> HIDE DEF two
<1>4. /\ Len(todo) \in Nat \ {0} /\ DOMAIN todo = 1 .. Len(todo)
      /\ Len(Tail(todo)) = Len(todo) - 1 /\ \A k \in 1 .. Len(todo) - 1 : Tail(todo)[k] = todo[k + 1]
  BY <1>1
<1>5. todo' = two \o Tail(todo)
  BY DEF two
<1>6. /\ Len(todo') = 2 + (Len(todo) - 1) /\ DOMAIN todo' = 1 .. Len(todo')
      /\ \A k \in 1 .. Len(todo') : todo'[k] = IF k <= 2 THEN two[k] ELSE Tail(todo)[k - 2]
  BY <1>1, <1>2, <1>3, <1>4, <1>5, ConcatProperties
<1>7. todo'[1].do = "commit"
  BY <1>3, <1>4, <1>6 DEF Step
<1> SUFFICES ASSUME NEW k \in DOMAIN todo', todo'[k].do = "reserve" PROVE k = 2
  BY <1>7 DEF Reserving
<1>8. CASE k > 2
  <2>1. k - 2 \in 1 .. Len(todo) - 1 /\ (k - 2) + 1 \in 1 .. Len(todo) /\ (k - 2) + 1 > 1
    BY <1>4, <1>6, <1>8
  <2>2. todo'[k] = todo[(k - 2) + 1]
    BY <1>4, <1>6, <1>8, <2>1
  <2>3. QED
    BY <1>4, <2>1, <2>2 DEF Reserving
<1>9. k \in Nat /\ k # 1 /\ k # 0
  BY <1>4, <1>6, <1>7
<1>10. QED
  BY <1>8, <1>9

(* A step of AllocateTensors.                                              *)
LEMMA GarbageReserving ==
  ASSUME NEW names, ReadsGarbage(names)
  PROVE  Reserving'
BY EndReserving DEF ReadsGarbage

LEMMA RefusedReserving ==
  ASSUME NEW result, Refused(result)
  PROVE  Reserving'
BY EndReserving DEF Refused

LEMMA MarksReserving ==
  ASSUME Types, Reserving, todo # <<>>, todo[1].do # "commit", NEW read, NEW now, NEW marked, NEW items \in Seq(Item),
         Marks(read, now, marked, items)
  PROVE  Reserving'
BY GarbageReserving, PushReserving DEF Marks

LEMMA AllocationKeeps ==
  ASSUME Types, Reserving, AllocationStep
  PROVE  Types' /\ Reserving'
<1>1. CASE StartModelAllocation
  <2>1. todo # <<>> /\ todo[1].do = "start"
    BY <1>1 DEF StartModelAllocation, At
  <2>2. CASE EndsAs("null")
    BY <1>1, <2>2, StartTypes, EndReserving
  <2>3. CASE todo' = AllocateTensors
    <3>1. AllocateTensors \in Seq(Item)
      BY AllItems DEF Types, AllocatorTypes
    <3>2. \A k \in DOMAIN AllocateTensors : AllocateTensors[k] \in Item
      BY <3>1
    <3>3. \A k \in DOMAIN AllocateTensors : AllocateTensors[k].do # "reserve"
      BY <3>2 DEF Item, PersistentType, TemporaryType, StepType, OpType, MarkType
    <3>4. Reserving'
      BY <2>3, <3>3 DEF Reserving
    <3>5. QED
      BY <1>1, <3>4, StartTypes
  <2>4. QED
    BY <1>1, <2>2, <2>3 DEF StartModelAllocation
<1>2. CASE AllocateTail
  BY <1>2, TailTypes, RestReserving, RefusedReserving DEF AllocateTail, At
<1>3. CASE AllocateTempTensor
  BY <1>3, TempTensorTypes, RestReserving, RefusedReserving DEF AllocateTempTensor, At
<1>4. CASE InitScratchBufferData
  BY <1>4, RequestsTypes, RestReserving, RefusedReserving DEF InitScratchBufferData, At
<1>5. CASE PrepareNode
  BY <1>5, PrepareTypes, RestReserving, GarbageReserving DEF PrepareNode, At
<1>6. CASE RequestScratchBufferInArena
  BY <1>6, ScratchTypes, RestReserving, RefusedReserving, GarbageReserving DEF RequestScratchBufferInArena, At
<1>7. CASE FreeTempTensors
  BY <1>7, FreeTempTypes, RestReserving, GarbageReserving DEF FreeTempTensors, At
<1>8. CASE FinishPrepareNodeAllocations
  BY <1>8, FinishTypes, RestReserving, GarbageReserving DEF FinishPrepareNodeAllocations, At
<1>9. CASE AllocateScratchBufferHandles
  BY <1>9, HandlesTypes, RestReserving DEF AllocateScratchBufferHandles, At
<1>10. CASE CreateAllocationInfo
  BY <1>10, InfoTempTypes, RestReserving, RefusedReserving DEF CreateAllocationInfo, At
<1>11. CASE InitializeAllocationInfo
  <2>1. todo # <<>> /\ todo[1].do = "lifetimes"
    BY <1>11 DEF InitializeAllocationInfo, At
  <2>2. Mark(1, 0) \in Item
    <3>1. 1 \in Subgraphs
      BY ModelFacts DEF Types, AllocatorTypes
    <3>2. QED
      BY <3>1, MarkItem
  <2>3. <<Mark(1, 0)>> \in Seq(Item)
    BY <2>2
  <2>4. QED
    BY <1>11, <2>1, <2>3, LifetimesTypes, PushReserving, GarbageReserving DEF InitializeAllocationInfo
<1>12. CASE MarkInputs
  <2>1. todo # <<>> /\ todo[1].do = "mark"
    BY <1>12 DEF MarkInputs, At
  <2>2. QED
    BY <1>12, <2>1, MarkingItems, InputsTypes, MarksReserving DEF MarkInputs
<1>13. CASE MarkOperator
  <2>1. todo # <<>> /\ todo[1].do = "op"
    BY <1>13 DEF MarkOperator, At
  <2>2. QED
    BY <1>13, <2>1, MarkingItems, OperatorTypes, MarksReserving DEF MarkOperator
<1>14. CASE MarkUses
  <2>1. todo # <<>> /\ todo[1].do = "used"
    BY <1>14 DEF MarkUses, At
  <2>2. QED
    BY <1>14, <2>1, MarkingItems, UsesTypes, MarksReserving DEF MarkUses
<1>15. CASE MarkOutputs
  <2>1. todo # <<>> /\ todo[1].do = "outputs"
    BY <1>15 DEF MarkOutputs, At
  <2>2. QED
    BY <1>15, <2>1, MarkingItems, OutputsTypes, MarksReserving DEF MarkOutputs
<1>16. CASE InitMemoryPlanner
  <2>1. todo # <<>> /\ todo[1].do = "plan"
    BY <1>16 DEF InitMemoryPlanner, At
  <2>2. QED
    BY <1>16, <2>1, PlannerTypes, PlannerReserving, EndReserving, RefusedReserving DEF InitMemoryPlanner
<1>17. CASE AddBuffer
  <2>1. todo # <<>> /\ todo[1].do = "commit"
    BY <1>17 DEF AddBuffer, At
  <2>2. QED
    BY <1>17, <2>1, BufferTypes, SameReserving, EndReserving, RefusedReserving, GarbageReserving DEF AddBuffer
<1>18. CASE CalculateOffsets
  <2>1. todo # <<>> /\ todo[1].do = "commit"
    BY <1>18 DEF CalculateOffsets, At
  <2>2. QED
    BY <1>18, <2>1, OffsetsTypes, SameReserving DEF CalculateOffsets
<1>19. CASE CommitPlan
  <2>1. todo # <<>> /\ Planned
    BY <1>19 DEF CommitPlan, At
  <2>2. UNCHANGED planner => Planned'
    BY <2>1 DEF Planned, planner, client, search, Placed, Buffers
  <2>3. QED
    BY <1>19, <2>1, <2>2, CommitTypes, RestReserving, EndReserving, GarbageReserving DEF CommitPlan
<1>20. CASE ReserveHead
  <2>1. todo # <<>> /\ todo[1].do = "reserve" /\ 1 \in DOMAIN todo
    BY <1>20 DEF ReserveHead, At, Types, AllocatorTypes
  <2>2. Planned
    BY <2>1 DEF Reserving
  <2>3. QED
    BY <1>20, <2>1, <2>2, ReserveTypes, RestReserving, RefusedReserving DEF ReserveHead
<1>21. CASE ResetVariableTensors
  BY <1>21, ResetTypes, EndReserving DEF ResetVariableTensors
<1>22. QED
  BY <1>1, <1>2, <1>3, <1>4, <1>5, <1>6, <1>7, <1>8, <1>9, <1>10, <1>11, <1>12, <1>13, <1>14, <1>15, <1>16,
     <1>17, <1>18, <1>19, <1>20, <1>21 DEF AllocationStep

-----------------------------------------------------------------------------
(* Reading and writing change only what is held.                           *)

IsMemory(m) == m = [held |-> m.held, torn |-> m.torn] /\ m.held \in SUBSET DOMAIN place

LEMMA MemoryNow ==
  ASSUME ArenaTypeOK
  PROVE  IsMemory(Memory)
BY DEF IsMemory, Memory, ArenaTypeOK

LEMMA ReadingKeeps ==
  ASSUME NEW m, IsMemory(m), NEW names
  PROVE  IsMemory(Reading(m, names))
BY DEF IsMemory, Reading

LEMMA WritingKeeps ==
  ASSUME NEW m, IsMemory(m), NEW names
  PROVE  IsMemory(Writing(m, names))
<1>1. HeldAfter(m.held, names) \in SUBSET DOMAIN place
  BY HeldTypes DEF IsMemory
<1>2. Writing(m, names) = [held |-> HeldAfter(m.held, names), torn |-> m.torn]
  BY DEF IsMemory, Writing
<1>3. QED
  BY <1>1, <1>2 DEF IsMemory

LEMMA CopyingKeeps ==
  ASSUME NEW m, IsMemory(m), NEW from, NEW to
  PROVE  IsMemory(Copying(m, from, to))
BY ReadingKeeps, WritingKeeps DEF Copying

LEMMA BecomesTypes ==
  ASSUME ArenaTypeOK, NEW m, IsMemory(m), Becomes(m), UNCHANGED <<size, head, tail, temp, place>>
  PROVE  ArenaTypeOK'
BY SameArenaTypes DEF IsMemory, Becomes

(* The stack of subgraphs.                                                 *)
LEMMA FrameTypes ==
  ASSUME model \in Models, frames \in Seq(FrameType), frames # <<>>
  PROVE  /\ Top \in FrameType
         /\ Outer \in Seq(FrameType)
         /\ NextOp => frames' \in Seq(FrameType)
         /\ \A s \in Subgraphs : \A stage \in {"then", "else", "first", "again", "body"} :
              Call(s, stage) => frames' \in Seq(FrameType)
<1> DEFINE n == Len(frames)
<1>1. n \in Nat \ {0} /\ frames[n] \in FrameType
  OBVIOUS
<1>2. Top \in FrameType
  BY <1>1 DEF Top
<1>3. Outer \in Seq(FrameType)
  <2>1. n - 1 \in Int /\ \A i \in 1 .. n - 1 : i \in 1 .. Len(frames)
    BY <1>1
  <2> HIDE DEF n
  <2>2. Outer = SubSeq(frames, 1, n - 1)
    BY DEF Outer, n
  <2>3. QED
    BY <2>1, <2>2, SubSeqProperties
<1>4. [Frame(Top.subgraph) EXCEPT !.op = Top.op + 1] \in FrameType
  <2>1. Top.op + 1 \in Nat \ {0} /\ Top.subgraph \in Subgraphs
    BY <1>2 DEF FrameType
  <2>2. QED
    BY <2>1 DEF Frame, FrameType
<1>5. \A stage \in {"then", "else", "first", "again", "body"} : [Top EXCEPT !.stage = stage] \in FrameType
  BY <1>2 DEF FrameType
<1>6. \A s \in Subgraphs : Frame(s) \in FrameType
  BY DEF Frame, FrameType
<1>7. NextOp => frames' \in Seq(FrameType)
  BY <1>3, <1>4 DEF NextOp
<1>8. ASSUME NEW s \in Subgraphs, NEW stage \in {"then", "else", "first", "again", "body"}, Call(s, stage)
      PROVE  frames' \in Seq(FrameType)
  <2>1. Append(Outer, [Top EXCEPT !.stage = stage]) \in Seq(FrameType)
    BY <1>3, <1>5, AppendProperties
  <2>2. QED
    BY <1>6, <1>8, <2>1, AppendProperties DEF Call
<1>9. QED
  BY <1>2, <1>3, <1>7, <1>8

LEMMA CalledSubgraphs ==
  ASSUME TypeInv, Running, Op.kind # "kernel"
  PROVE  /\ model \in Models /\ frames \in Seq(FrameType) /\ frames # <<>>
         /\ Op.calls[1] \in Subgraphs /\ Op.calls[2] \in Subgraphs
<1>1. model \in Models /\ frames \in Seq(FrameType) /\ frames # <<>>
  BY DEF TypeInv, AllocatorTypes, StatusTypes, Running
<1>2. Top.subgraph \in Subgraphs /\ Top.op \in DOMAIN Ops(Top.subgraph)
  BY <1>1, FrameTypes DEF FrameType, Running
<1> DEFINE calls == Op.calls
<1>3. calls \in Seq(Nat) /\ Len(calls) = 2 /\ \A c \in DOMAIN calls : calls[c] \in Subgraphs
  BY <1>1, <1>2, OpFacts DEF Op
<1>4. 1 \in DOMAIN calls /\ 2 \in DOMAIN calls
  BY <1>3
<1>5. QED
  BY <1>1, <1>3, <1>4

-----------------------------------------------------------------------------
(* Every step keeps the types.                                             *)

(* What the steps of an invocation leave alone.                            *)
LEMMA OthersTypes ==
  ASSUME TypeInv, Reserving, UNCHANGED <<planner, allocator>>
  PROVE  PlanInv' /\ AllocatorTypes' /\ Reserving'
<1>1. PlanInv'
  BY SamePlan DEF TypeInv
<1>2. AllocatorTypes'
  <2>1. todo' \in Seq(Todo) /\ outcome' \in Outcomes
    BY DEF TypeInv, AllocatorTypes, allocator, Outcomes
  <2>2. short' \in BOOLEAN
    BY DEF TypeInv, AllocatorTypes, allocator
  <2>3. QED
    BY <2>1, <2>2, KeepBook DEF TypeInv, allocator, book
<1>3. Reserving'
  <2>1. Planned' = Planned
    BY DEF Planned, planner, client, search, Placed, Buffers
  <2>2. todo' = todo
    BY DEF allocator
  <2>3. QED
    BY <2>1, <2>2 DEF Reserving
<1>4. QED
  BY <1>1, <1>2, <1>3

LEMMA InvokeTypes ==
  ASSUME TypeInv, Reserving, InvokeStep
  PROVE  TypeInv' /\ Reserving'
<1>1. /\ frames # <<>> /\ UNCHANGED <<size, head, tail, temp, place>> /\ UNCHANGED <<planner, allocator>>
      /\ UNCHANGED <<allocated, failed>> /\ model' = model
  BY DEF InvokeStep, Kernel, IfStarts, IfEnds, WhileStarts, WhileTests, WhileRepeats, SubgraphEnds, InvokeFails,
         Running, others, status, allocator
<1>2. PlanInv' /\ AllocatorTypes' /\ Reserving'
  BY <1>1, OthersTypes
<1>3. /\ model \in Models /\ frames \in Seq(FrameType) /\ ArenaTypeOK /\ FrameType' = FrameType
      /\ IsMemory(Memory)
  BY <1>1, SameTypes, MemoryNow DEF TypeInv, AllocatorTypes, StatusTypes
<1>4. ArenaTypeOK'
  <2>1. CASE Kernel
    BY <1>1, <1>3, <2>1, BecomesTypes, ReadingKeeps, WritingKeeps DEF Kernel
  <2>2. CASE IfStarts
    BY <1>1, <1>3, <2>2, BecomesTypes, ReadingKeeps, CopyingKeeps DEF IfStarts
  <2>3. CASE IfEnds
    BY <1>1, <1>3, <2>3, BecomesTypes, CopyingKeeps DEF IfEnds
  <2>4. CASE WhileStarts
    BY <1>1, <1>3, <2>4, BecomesTypes, CopyingKeeps DEF WhileStarts
  <2>5. CASE WhileTests
    <3> DEFINE m == Reading(Memory, {OutputsOf(Op.calls[1])[1]})
               n == IF Top.stage = "first" THEN Copying(Copying(m, In, InputsOf(Op.calls[2])), In, Out) ELSE m
    <3>1. IsMemory(m)
      BY <1>3, ReadingKeeps
    <3>2. IsMemory(n) /\ IsMemory(Copying(n, Out, InputsOf(Op.calls[2])))
      BY <3>1, CopyingKeeps
    <3>3. Becomes(n) \/ Becomes(Copying(n, Out, InputsOf(Op.calls[2])))
      BY <2>5 DEF WhileTests
    <3> HIDE DEF m, n
    <3>4. QED
      BY <1>1, <1>3, <3>2, <3>3, BecomesTypes
  <2>6. CASE WhileRepeats
    BY <1>1, <1>3, <2>6, BecomesTypes, CopyingKeeps DEF WhileRepeats
  <2>7. CASE UNCHANGED memory
    BY <1>1, <1>3, <2>7, SameArenaTypes DEF memory, ArenaTypeOK
  <2>8. QED
    BY <2>1, <2>2, <2>3, <2>4, <2>5, <2>6, <2>7 DEF InvokeStep, SubgraphEnds, InvokeFails
<1>5. frames' \in Seq(FrameType)
  <2>1. CASE NextOp
    BY <1>1, <1>3, <2>1, FrameTypes
  <2>2. CASE /\ Running /\ Op.kind # "kernel"
             /\ \E c \in {1, 2}, stage \in {"then", "else", "first", "again", "body"} : Call(Op.calls[c], stage)
    BY <1>1, <1>3, <2>2, FrameTypes, CalledSubgraphs
  <2>3. CASE frames' = Outer
    BY <1>1, <1>3, <2>3, FrameTypes
  <2>4. CASE frames' = <<>>
    BY <2>4
  <2>5. IfStarts \/ WhileStarts \/ WhileTests \/ WhileRepeats =>
          \/ NextOp
          \/ /\ Running /\ Op.kind # "kernel"
             /\ \E c \in {1, 2}, stage \in {"then", "else", "first", "again", "body"} : Call(Op.calls[c], stage)
    BY DEF IfStarts, WhileStarts, WhileTests, WhileRepeats
  <2>6. QED
    BY <2>1, <2>2, <2>3, <2>4, <2>5 DEF InvokeStep, Kernel, IfEnds, SubgraphEnds, InvokeFails
<1>6. phase' \in {"setup", "input", "fill", "invoke", "retry", "run", "read", "exit", "undefined"}
  BY DEF InvokeStep, Kernel, IfStarts, IfEnds, WhileStarts, WhileTests, WhileRepeats, SubgraphEnds, InvokeFails,
         status, TypeInv, StatusTypes
<1>7. allocated' \in BOOLEAN /\ failed' \in BOOLEAN
  BY <1>1 DEF TypeInv, StatusTypes
<1>8. QED
  BY <1>2, <1>3, <1>4, <1>5, <1>6, <1>7 DEF TypeInv, StatusTypes

LEMMA ClientTypes ==
  ASSUME TypeInv, Reserving, ClientStep
  PROVE  TypeInv' /\ Reserving'
<1>1. /\ UNCHANGED <<size, head, tail, temp, place>> /\ UNCHANGED <<planner, book, short>>
      /\ model' = model
      /\ outcome' \in {outcome, "none"} /\ (todo' = todo \/ todo' = <<Step("start")>>)
      /\ frames' = frames \/ frames' = <<Frame(1)>>
  BY DEF ClientStep, Returned, GetInput, FillInput, Invoke, InvokeSubgraph, ReadOutput,
         others, status, memory, allocator, arena, book
<1>2. FrameType' = FrameType /\ Todo' = Todo
  BY <1>1, SameTypes
<1>3. ArenaTypeOK'
  <2>1. held \in SUBSET DOMAIN place
    BY DEF TypeInv, ArenaTypeOK
  <2>2. held' \in SUBSET DOMAIN place
    <3>1. CASE FillInput
      BY <2>1, <3>1, HeldTypes DEF FillInput
    <3>2. CASE ReadOutput
      <4>1. IsMemory(Reading(Memory, {OutputsOf(1)[1]}))
        BY MemoryNow, ReadingKeeps DEF TypeInv
      <4>2. QED
        BY <3>2, <4>1 DEF ReadOutput, Becomes, IsMemory
    <3>3. CASE held' = held
      BY <2>1, <3>3
    <3>4. QED
      BY <3>1, <3>2, <3>3 DEF ClientStep, Returned, GetInput, Invoke, InvokeSubgraph, arena, memory
  <2>3. QED
    BY <1>1, <2>2, SameArenaTypes DEF TypeInv
<1>4. PlanInv'
  BY <1>1, SamePlan DEF TypeInv
<1>5. <<Step("start")>> \in Seq(Todo)
  <2>1. Step("start") \in Todo
    BY StepItem DEF Todo
  <2>2. QED
    BY <2>1
<1>6. AllocatorTypes'
  <2>1. todo' \in Seq(Todo) /\ outcome' \in Outcomes
    BY <1>1, <1>5 DEF TypeInv, AllocatorTypes, Outcomes
  <2>2. short' \in BOOLEAN
    BY <1>1 DEF TypeInv, AllocatorTypes
  <2>3. QED
    BY <1>1, <2>1, <2>2, KeepBook DEF TypeInv
<1>7. Reserving'
  <2>1. CASE todo' = todo
    <3>1. Planned' = Planned
      BY <1>1 DEF Planned, planner, client, search, Placed, Buffers
    <3>2. QED
      BY <2>1, <3>1 DEF Reserving
  <2>2. CASE todo' = <<Step("start")>>
    BY <2>2 DEF Reserving, Step
  <2>3. QED
    BY <1>1, <2>1, <2>2
<1>8. frames' \in Seq(FrameType)
  <2>1. Frame(1) \in FrameType
    BY ModelFacts DEF Frame, FrameType, TypeInv, AllocatorTypes
  <2>2. <<Frame(1)>> \in Seq(FrameType)
    BY <2>1
  <2>3. frames \in Seq(FrameType)
    BY DEF TypeInv, StatusTypes
  <2>4. QED
    BY <1>1, <2>2, <2>3
<1>9. phase' \in {"setup", "input", "fill", "invoke", "retry", "run", "read", "exit", "undefined"}
  BY DEF ClientStep, Returned, GetInput, FillInput, Invoke, InvokeSubgraph, ReadOutput, status, TypeInv, StatusTypes
<1>10. allocated' \in BOOLEAN /\ failed' \in BOOLEAN
  BY DEF ClientStep, Returned, GetInput, FillInput, Invoke, InvokeSubgraph, ReadOutput, status, TypeInv, StatusTypes
<1>11. QED
  BY <1>2, <1>3, <1>4, <1>6, <1>7, <1>8, <1>9, <1>10 DEF TypeInv, StatusTypes

LEMMA NextTypes == TypeInv /\ Reserving /\ [Next]_vars => TypeInv' /\ Reserving'
<1> SUFFICES ASSUME TypeInv, Reserving, [Next]_vars PROVE TypeInv' /\ Reserving'
  OBVIOUS
<1>1. CASE AllocateTensorsStep
  <2>1. Types' /\ Reserving'
    BY <1>1, AllocationKeeps DEF AllocateTensorsStep, TypeInv, Types
  <2>2. model' = model
    BY <1>1 DEF AllocateTensorsStep, AllocationStep, StartModelAllocation, AllocateTail, AllocateTempTensor,
       InitScratchBufferData, PrepareNode, RequestScratchBufferInArena, FreeTempTensors, FinishPrepareNodeAllocations,
       AllocateScratchBufferHandles, CreateAllocationInfo, InitializeAllocationInfo, MarkInputs, MarkOperator,
       MarkUses, MarkOutputs, Marks, InitMemoryPlanner, AddBuffer, CalculateOffsets, CommitPlan, ReserveHead,
       ResetVariableTensors, ReadsGarbage, book
  <2>3. FrameType' = FrameType
    BY <2>2, SameTypes
  <2>4. allocated' \in BOOLEAN /\ failed' \in BOOLEAN
    BY <1>1 DEF AllocateTensorsStep, status, TypeInv, StatusTypes
  <2>5. StatusTypes'
    BY <1>1, <2>3, <2>4 DEF AllocateTensorsStep, status, TypeInv, StatusTypes
  <2>6. QED
    BY <2>1, <2>5 DEF TypeInv, Types
<1>2. CASE ClientStep
  BY <1>2, ClientTypes
<1>3. CASE InvokeStep
  BY <1>3, InvokeTypes
<1>4. CASE UNCHANGED vars
  <2>1. PlanInv' /\ AllocatorTypes' /\ Reserving'
    BY <1>4, OthersTypes DEF vars
  <2>2. ArenaTypeOK'
    BY <1>4, SameArenaTypes DEF vars, arena, TypeInv, ArenaTypeOK
  <2>3. FrameType' = FrameType
    BY <1>4, SameTypes DEF vars, allocator
  <2>4. allocated' \in BOOLEAN /\ failed' \in BOOLEAN
    BY <1>4 DEF vars, status, TypeInv, StatusTypes
  <2>5. StatusTypes'
    BY <1>4, <2>3, <2>4 DEF vars, status, TypeInv, StatusTypes
  <2>6. QED
    BY <2>1, <2>2, <2>5 DEF TypeInv
<1>5. QED
  BY <1>1, <1>2, <1>3, <1>4 DEF Next

LEMMA InitReserving == Init => Reserving
<1> SUFFICES ASSUME Init PROVE Reserving
  OBVIOUS
<1>1. todo = Construct
  BY DEF Init, AllocatorInit
<1>2. \A k \in DOMAIN todo : todo[k] \in Item
  BY <1>1, ConstructItems
<1>3. QED
  BY <1>2 DEF Reserving, Item, PersistentType, TemporaryType, StepType, OpType, MarkType

(* Whatever the models, the arena and the sizes of the structs: the        *)
(* variables of the allocator, the planner and the invocation stay within  *)
(* their types, and operators only call subgraphs that there are.          *)
THEOREM InterpreterTypeCorrect == Spec => []TypeOK
<1>1. TypeInv => TypeOK
  <2> SUFFICES ASSUME TypeInv PROVE TypeOK
    OBVIOUS
  <2>1. \A k \in DOMAIN requests : requests[k] \in [bytes: Nat, subgraph: Subgraphs, node: Nat]
    <3>1. \A k \in DOMAIN requests : requests[k] \in RequestType
      BY DEF TypeInv, AllocatorTypes
    <3>2. QED
      BY <3>1 DEF RequestType
  <2>2. \A k \in DOMAIN frames : frames[k].subgraph \in Subgraphs
    <3>1. \A k \in DOMAIN frames : frames[k] \in FrameType
      BY DEF TypeInv, StatusTypes
    <3>2. QED
      BY <3>1 DEF FrameType
  <2>3. allocating \in BOOLEAN /\ allocated \in BOOLEAN /\ failed \in BOOLEAN /\ short \in BOOLEAN
    BY DEF TypeInv, AllocatorTypes, StatusTypes
  <2>4. QED
    BY <2>1, <2>2, <2>3 DEF TypeInv, AllocatorTypes, StatusTypes, TypeOK, PlanInv
<1>2. QED
  BY InitTypes, InitReserving, NextTypes, <1>1, PTL DEF Spec

(* The plan that AllocateTensors makes keeps buffers that are used at the  *)
(* same time apart, with the lifetimes and sizes that the marking of the   *)
(* subgraphs gives, for every model.                                       *)
THEOREM InterpreterPlanIsSound == Spec => []PlanIsSound
<1>1. TypeInv => PlanIsSound
  BY DEF TypeInv, PlanInv
<1>2. QED
  BY InitTypes, InitReserving, NextTypes, <1>1, PTL DEF Spec

-----------------------------------------------------------------------------
(* The list of AllocateTensors.  It is put together from segments: each    *)
(* item comes in its stage, and what it reads was asked for before it.     *)

\* The stages of AllocateTensors; a persistent buffer may be asked for in any.
Rank(x) ==
  IF x.do \in {"start", "requests"} THEN 1
  ELSE IF x.do \in {"prepare", "scratch", "free", "finish"} THEN 2
  ELSE IF x.do = "temp" THEN IF x.name[2] = 0 THEN 4 ELSE 2
  ELSE IF x.do = "handles" THEN 3
  ELSE IF x.do = "info" THEN 5
  ELSE IF x.do = "lifetimes" THEN 6
  ELSE IF x.do \in {"mark", "op", "used", "outputs"} THEN 7
  ELSE IF x.do = "plan" THEN 8
  ELSE IF x.do = "commit" THEN 9
  ELSE IF x.do = "reserve" THEN 10
  ELSE IF x.do = "reset" THEN 11
  ELSE 0

\* Only kernels are prepared, and subgraphs marked, one after the other.
Follows(r, q) == r < q \/ (r = q /\ r \in {2, 7})
Ordered(l) ==
  \A i, j \in DOMAIN l : i < j /\ Rank(l[i]) # 0 /\ Rank(l[j]) # 0 => Follows(Rank(l[i]), Rank(l[j]))

\* After position i the next operator whose preparation is finished is o of s.
Closing(l, i, s, o) ==
  \E j \in DOMAIN l : /\ j > i /\ l[j].do = "finish" /\ l[j].subgraph = s /\ l[j].op = o
                      /\ \A m \in DOMAIN l : i < m /\ m < j => l[m].do # "finish"
Closed(l) == \A i \in DOMAIN l : l[i].do = "scratch" => Closing(l, i, l[i].subgraph, l[i].op)

\* What an item needs and what it leaves for those behind it, by name.
EvalNames == {<<"eval", s, 0>> : s \in Subgraphs}
Marked == <<"marked", 0, 0>>
GivenTensors == {T(t[1], t[2]) : t \in {u \in AllTensors : NeedsAllocating(u)}}
VariableNames ==
  {T(t[1], t[2]) : t \in {u \in AllTensors : IsVariable(u) /\ (OnlineVariable(u) \/ Offline(u) # Online)}}

Needs(x) ==
  IF x.do = "start" THEN {<<"arena", 0, 0>>, <<"allocator", 0, 0>>}
  ELSE IF x.do = "prepare" THEN Structures \cup NodeOf(x.subgraph, x.op)
  ELSE IF x.do = "lifetimes" THEN Structures \cup EvalNames \cup {Info}
  ELSE IF x.do \in {"mark", "op", "used", "outputs"} THEN {Marked}
  ELSE IF x.do = "plan" THEN EvalNames \cup {Handles, Info, Marked}
  ELSE IF x.do = "commit" THEN EvalNames \cup {Handles, Marked, PlannerArena}
  ELSE IF x.do = "reset" THEN {Inputs} \cup VariableNames
  ELSE {}
Gives(x) ==
  IF x.do = "persistent" THEN {x.name}
  ELSE IF x.do = "handles" THEN {Handles}
  ELSE IF x.do = "info" THEN {Info}
  ELSE IF x.do = "lifetimes" THEN {Marked}
  ELSE IF x.do \in {"plan", "commit"} THEN GivenTensors
  ELSE {}
GivenBy(l, k) == \E i \in DOMAIN l : k \in Gives(l[i])

\* A part of the list with items of some stages, and what is to be there before it.
Segment(l, stages, before) ==
  /\ \A i \in DOMAIN l : Rank(l[i]) \in stages \cup {0}
  /\ Ordered(l) /\ Closed(l)
  /\ \A i \in DOMAIN l : \A k \in Needs(l[i]) : k \in before \/ \E j \in DOMAIN l : j < i /\ k \in Gives(l[j])

\* One segment may come before another, with what that one needs.
InOrder(p, q) == \A r \in p, t \in q : Follows(r, t)
Provided(more, before, a) == \A k \in more : k \in before \/ GivenBy(a, k)

LEMMA Joined ==
  ASSUME NEW S, NEW a \in Seq(S), NEW b \in Seq(S)
  PROVE  /\ a \o b \in Seq(S) /\ DOMAIN a = 1 .. Len(a) /\ DOMAIN b = 1 .. Len(b)
         /\ Len(a) \in Nat /\ Len(b) \in Nat
         /\ DOMAIN (a \o b) = 1 .. Len(a) + Len(b)
         /\ \A i \in DOMAIN a : i \in DOMAIN (a \o b) /\ (a \o b)[i] = a[i]
         /\ \A i \in DOMAIN b : i + Len(a) \in DOMAIN (a \o b) /\ (a \o b)[i + Len(a)] = b[i]
         /\ \A i \in DOMAIN (a \o b) : i \notin DOMAIN a => i - Len(a) \in DOMAIN b /\ (a \o b)[i] = b[i - Len(a)]
BY ConcatProperties

LEMMA JoinedRight ==
  ASSUME NEW S, NEW a \in Seq(S), NEW b \in Seq(S)
  PROVE  \A i \in DOMAIN b : i + Len(a) \in DOMAIN (a \o b) /\ (a \o b)[i + Len(a)] = b[i]
BY ConcatProperties

LEMMA JoinOrdered ==
  ASSUME NEW S, NEW a \in Seq(S), NEW b \in Seq(S), Ordered(a), Ordered(b),
         \A i \in DOMAIN a, j \in DOMAIN b : Rank(a[i]) # 0 /\ Rank(b[j]) # 0 => Follows(Rank(a[i]), Rank(b[j]))
  PROVE  Ordered(a \o b)
<1> DEFINE c == a \o b
<1>1. /\ DOMAIN a = 1 .. Len(a) /\ Len(a) \in Nat /\ DOMAIN c = 1 .. Len(a) + Len(b) /\ Len(b) \in Nat
      /\ \A i \in DOMAIN a : c[i] = a[i]
      /\ \A i \in DOMAIN c : i \notin DOMAIN a => i - Len(a) \in DOMAIN b /\ c[i] = b[i - Len(a)]
  BY Joined
<1> HIDE DEF c
<1> SUFFICES ASSUME NEW i \in DOMAIN c, NEW j \in DOMAIN c, i < j, Rank(c[i]) # 0, Rank(c[j]) # 0
             PROVE  Follows(Rank(c[i]), Rank(c[j]))
  BY DEF Ordered, c
<1>2. CASE j \in DOMAIN a
  <2>1. i \in DOMAIN a
    BY <1>1, <1>2
  <2>2. QED
    BY <1>1, <1>2, <2>1 DEF Ordered
<1>3. CASE j \notin DOMAIN a /\ i \in DOMAIN a
  BY <1>1, <1>3
<1>4. CASE i \notin DOMAIN a
  <2>1. j \notin DOMAIN a
    BY <1>1, <1>4
  <2>2. i - Len(a) < j - Len(a)
    BY <1>1
  <2>3. QED
    BY <1>1, <1>4, <2>1, <2>2 DEF Ordered
<1>5. QED
  BY <1>2, <1>3, <1>4

LEMMA JoinClosed ==
  ASSUME NEW S, NEW a \in Seq(S), NEW b \in Seq(S), Closed(a), Closed(b)
  PROVE  Closed(a \o b)
<1> DEFINE c == a \o b
           n == Len(a)
<1>1. /\ DOMAIN a = 1 .. n /\ n \in Nat /\ DOMAIN c = 1 .. n + Len(b) /\ Len(b) \in Nat /\ DOMAIN b = 1 .. Len(b)
      /\ \A i \in DOMAIN a : i \in DOMAIN c /\ c[i] = a[i]
      /\ \A i \in DOMAIN b : i + n \in DOMAIN c /\ c[i + n] = b[i]
      /\ \A i \in DOMAIN c : i \notin DOMAIN a => i - n \in DOMAIN b /\ c[i] = b[i - n]
  BY Joined
<1> HIDE DEF c, n
<1> SUFFICES ASSUME NEW i \in DOMAIN c, c[i].do = "scratch"
             PROVE  Closing(c, i, c[i].subgraph, c[i].op)
  BY DEF Closed, c
<1>2. CASE i \in DOMAIN a
  <2>1. Closing(a, i, c[i].subgraph, c[i].op)
    BY <1>1, <1>2 DEF Closed
  <2>2. PICK j \in DOMAIN a : /\ j > i /\ a[j].do = "finish" /\ a[j].subgraph = c[i].subgraph /\ a[j].op = c[i].op
                              /\ \A m \in DOMAIN a : i < m /\ m < j => a[m].do # "finish"
    BY <2>1 DEF Closing
  <2>3. \A m \in DOMAIN c : i < m /\ m < j => m \in DOMAIN a /\ c[m].do # "finish"
    BY <1>1, <2>2
  <2>4. QED
    BY <1>1, <2>2, <2>3 DEF Closing
<1>3. CASE i \notin DOMAIN a
  <2>1. i - n \in DOMAIN b /\ c[i] = b[i - n]
    BY <1>1, <1>3
  <2>2. Closing(b, i - n, c[i].subgraph, c[i].op)
    BY <2>1 DEF Closed
  <2>3. PICK j \in DOMAIN b :
           /\ j > i - n /\ b[j].do = "finish" /\ b[j].subgraph = c[i].subgraph /\ b[j].op = c[i].op
           /\ \A m \in DOMAIN b : i - n < m /\ m < j => b[m].do # "finish"
    BY <2>2 DEF Closing
  <2>4. j + n \in DOMAIN c /\ c[j + n] = b[j] /\ j + n > i
    BY <1>1, <2>3
  <2>5. \A m \in DOMAIN c : i < m /\ m < j + n => c[m].do # "finish"
    <3> SUFFICES ASSUME NEW m \in DOMAIN c, i < m, m < j + n PROVE c[m].do # "finish"
      OBVIOUS
    <3>1. m \notin DOMAIN a
      BY <1>1, <1>3
    <3>2. m - n \in DOMAIN b /\ c[m] = b[m - n] /\ i - n < m - n /\ m - n < j
      BY <1>1, <3>1, <2>3
    <3>3. QED
      BY <2>3, <3>2
  <2>6. QED
    BY <2>3, <2>4, <2>5 DEF Closing
<1>4. QED
  BY <1>2, <1>3

LEMMA Join ==
  ASSUME NEW S, NEW a \in Seq(S), NEW b \in Seq(S), NEW p, NEW q, NEW before, NEW more,
         Segment(a, p, before), Segment(b, q, more), InOrder(p, q), Provided(more, before, a)
  PROVE  /\ a \o b \in Seq(S)
         /\ Segment(a \o b, p \cup q, before)
         /\ \A k : GivenBy(a, k) \/ GivenBy(b, k) => GivenBy(a \o b, k)
<1> DEFINE c == a \o b
           n == Len(a)
<1>1. /\ c \in Seq(S)
      /\ DOMAIN a = 1 .. n /\ n \in Nat /\ DOMAIN c = 1 .. n + Len(b) /\ Len(b) \in Nat /\ DOMAIN b = 1 .. Len(b)
      /\ \A i \in DOMAIN a : i \in DOMAIN c /\ c[i] = a[i]
      /\ \A i \in DOMAIN b : i + n \in DOMAIN c /\ c[i + n] = b[i]
      /\ \A i \in DOMAIN c : i \notin DOMAIN a => i - n \in DOMAIN b /\ c[i] = b[i - n]
  BY Joined
<1>2. \A i \in DOMAIN a, j \in DOMAIN b : Rank(a[i]) # 0 /\ Rank(b[j]) # 0 => Follows(Rank(a[i]), Rank(b[j]))
  BY DEF Segment, InOrder
<1>3. Ordered(c) /\ Closed(c)
  BY <1>2, JoinOrdered, JoinClosed DEF Segment
<1> HIDE DEF c, n
<1>4. \A i \in DOMAIN c : Rank(c[i]) \in (p \cup q) \cup {0}
  BY <1>1 DEF Segment
<1>5. ASSUME NEW i \in DOMAIN c, NEW k \in Needs(c[i])
      PROVE  k \in before \/ \E j \in DOMAIN c : j < i /\ k \in Gives(c[j])
  <2>1. CASE i \in DOMAIN a
    <3>1. k \in before \/ \E j \in DOMAIN a : j < i /\ k \in Gives(a[j])
      BY <1>1, <1>5, <2>1 DEF Segment
    <3>2. QED
      BY <1>1, <3>1
  <2>2. CASE i \notin DOMAIN a
    <3>1. i - n \in DOMAIN b /\ c[i] = b[i - n]
      BY <1>1, <2>2
    <3>2. k \in more \/ \E j \in DOMAIN b : j < i - n /\ k \in Gives(b[j])
      BY <1>5, <3>1 DEF Segment
    <3>3. CASE \E j \in DOMAIN b : j < i - n /\ k \in Gives(b[j])
      <4>1. PICK j \in DOMAIN b : j < i - n /\ k \in Gives(b[j])
        BY <3>3
      <4>2. j + n \in DOMAIN c /\ j + n < i /\ k \in Gives(c[j + n])
        BY <1>1, <4>1
      <4>3. QED
        BY <4>2
    <3>4. CASE GivenBy(a, k)
      <4>1. PICK j \in DOMAIN a : k \in Gives(a[j])
        BY <3>4 DEF GivenBy
      <4>2. j \in DOMAIN c /\ j < i /\ k \in Gives(c[j])
        BY <1>1, <2>2, <4>1
      <4>3. QED
        BY <4>2
    <3>5. QED
      BY <3>2, <3>3, <3>4 DEF Provided
  <2>3. QED
    BY <2>1, <2>2
<1>6. \A k : GivenBy(a, k) \/ GivenBy(b, k) => GivenBy(c, k)
  <2>1. ASSUME NEW k, GivenBy(a, k) PROVE GivenBy(c, k)
    BY <1>1, <2>1 DEF GivenBy
  <2>2. ASSUME NEW k, GivenBy(b, k) PROVE GivenBy(c, k)
    <3>1. PICK j \in DOMAIN b : k \in Gives(b[j])
      BY <2>2 DEF GivenBy
    <3>2. j + n \in DOMAIN c /\ k \in Gives(c[j + n])
      BY <1>1, <3>1
    <3>3. QED
      BY <3>2 DEF GivenBy
  <2>3. QED
    BY <2>1, <2>2
<1>7. Segment(c, p \cup q, before)
  BY <1>3, <1>4, <1>5 DEF Segment
<1>8. QED
  BY <1>1, <1>6, <1>7 DEF c

(* What a flattened list keeps of the lists in it.                         *)
LEMMA FlatIn ==
  ASSUME NEW S, NEW C, \A a \in C, b \in C : a \o b \in C,
         NEW seqs \in Seq(Seq(S)), seqs # <<>>, \A i \in DOMAIN seqs : seqs[i] \in C
  PROVE  FlattenSeq(seqs) \in C
<1> DEFINE n == Len(seqs)
<1>1. n \in Nat /\ n > 0 /\ n \in 1 .. n /\ \A i \in 1 .. n : seqs[i] \in C
  OBVIOUS
<1>2. PICK f \in [1 .. n -> Seq(S)] :
         /\ FlattenSeq(seqs) = f[n] /\ f[1] = seqs[1]
         /\ \A i \in 1 .. n : i > 1 => f[i] = f[i - 1] \o seqs[i]
  BY Flattened
<1> DEFINE G == {i \in 1 .. n : f[i] \in C}
<1> HIDE DEF n
<1>3. 1 \in G
  BY <1>1, <1>2
<1>4. ASSUME NEW i \in 1 .. n, i \in G, i + 1 \in 1 .. n PROVE i + 1 \in G
  <2>1. i + 1 > 1 /\ (i + 1) - 1 = i
    BY <1>1
  <2>2. f[i + 1] = f[i] \o seqs[i + 1]
    BY <1>2, <1>4, <2>1
  <2>3. QED
    BY <1>1, <1>4, <2>2
<1> HIDE DEF G
<1>5. 1 .. n \subseteq G
  BY <1>1, <1>3, <1>4, Induct
<1>6. QED
  BY <1>1, <1>2, <1>5 DEF G

LEMMA FlatClosed ==
  ASSUME NEW S, NEW C \in SUBSET Seq(S), <<>> \in C, \A a \in C, b \in C : a \o b \in C,
         NEW seqs \in Seq(C)
  PROVE  FlattenSeq(seqs) \in C
<1>1. CASE seqs = <<>>
  BY <1>1 DEF FlattenSeq
<1>2. CASE seqs # <<>>
  <2>1. Len(seqs) \in Nat /\ DOMAIN seqs = 1 .. Len(seqs) /\ seqs = [i \in 1 .. Len(seqs) |-> seqs[i]]
        /\ \A i \in 1 .. Len(seqs) : seqs[i] \in C /\ seqs[i] \in Seq(S)
    OBVIOUS
  <2>2. seqs \in Seq(Seq(S))
    BY <2>1, ListOf
  <2>3. QED
    BY <1>2, <2>1, <2>2, FlatIn
<1>3. QED
  BY <1>1, <1>2

LEMMA FlatOccurs ==
  ASSUME NEW S, NEW seqs \in Seq(Seq(S)), NEW a \in DOMAIN seqs, NEW p \in DOMAIN seqs[a]
  PROVE  \E m \in DOMAIN FlattenSeq(seqs) : FlattenSeq(seqs)[m] = seqs[a][p]
<1> DEFINE n == Len(seqs)
           x == seqs[a][p]
<1>1. n \in Nat /\ n > 0 /\ n \in 1 .. n /\ a \in 1 .. n /\ seqs # <<>> /\ \A i \in 1 .. n : seqs[i] \in Seq(S)
  OBVIOUS
<1>2. PICK f \in [1 .. n -> Seq(S)] :
         /\ FlattenSeq(seqs) = f[n] /\ f[1] = seqs[1]
         /\ \A i \in 1 .. n : i > 1 => f[i] = f[i - 1] \o seqs[i]
  BY <1>1, Flattened
<1> DEFINE G == {i \in 1 .. n : i >= a => \E m \in DOMAIN f[i] : f[i][m] = x}
<1>0. p \in DOMAIN seqs[a] /\ seqs[a][p] = x
  OBVIOUS
<1> HIDE DEF n, x
<1>3. 1 \in G
  <2>1. 1 \in 1 .. n /\ (1 >= a => a = 1)
    BY <1>1
  <2>2. QED
    BY <1>0, <1>2, <2>1
<1>4. ASSUME NEW i \in 1 .. n, i \in G, i + 1 \in 1 .. n PROVE i + 1 \in G
  <2>1. i + 1 > 1 /\ (i + 1) - 1 = i
    BY <1>1
  <2>2. f[i + 1] = f[i] \o seqs[i + 1] /\ f[i] \in Seq(S) /\ seqs[i + 1] \in Seq(S)
    BY <1>1, <1>2, <1>4, <2>1
  <2>3. CASE i >= a
    <3>1. PICK m \in DOMAIN f[i] : f[i][m] = x
      BY <1>4, <2>3
    <3> DEFINE u == f[i]
               v == seqs[i + 1]
    <3>0. u \in Seq(S) /\ v \in Seq(S) /\ f[i] = u /\ f[i + 1] = u \o v
      BY <2>2
    <3> HIDE DEF u, v
    <3>2. \A q \in DOMAIN u : q \in DOMAIN (u \o v) /\ (u \o v)[q] = u[q]
      BY <3>0, Joined
    <3>3. m \in DOMAIN f[i + 1] /\ f[i + 1][m] = x
      BY <3>0, <3>1, <3>2
    <3>4. QED
      BY <1>4, <3>3
  <2>4. CASE i + 1 = a
    <3> DEFINE u == f[i]
               v == seqs[a]
    <3>0. u \in Seq(S) /\ v \in Seq(S) /\ p \in DOMAIN v /\ v[p] = x /\ f[i + 1] = u \o v
      BY <1>0, <2>2, <2>4
    <3> HIDE DEF u, v
    <3>4. u \in Seq(S) /\ v \in Seq(S)
      BY <3>0
    <3>5. \A q \in DOMAIN v : q + Len(u) \in DOMAIN (u \o v) /\ (u \o v)[q + Len(u)] = v[q]
      BY <3>4, JoinedRight
    <3>1. p + Len(u) \in DOMAIN (u \o v) /\ (u \o v)[p + Len(u)] = v[p]
      BY <3>0, <3>5
    <3>2. p + Len(u) \in DOMAIN f[i + 1] /\ f[i + 1][p + Len(u)] = x
      BY <3>0, <3>1
    <3>3. QED
      BY <1>4, <3>2
  <2>5. CASE ~(i + 1 >= a)
    BY <1>4, <2>5
  <2>6. QED
    BY <1>1, <2>3, <2>4, <2>5
<1> HIDE DEF G
<1>5. 1 .. n \subseteq G
  BY <1>1, <1>3, <1>4, Induct
<1>6. n >= a
  BY <1>1
<1>7. QED
  BY <1>1, <1>2, <1>5, <1>6 DEF G, x

\* A list of type S for every subgraph, and these flattened.
Lists(g, S) == \A s \in Subgraphs : g[s] \in Seq(S)
Flat(h, g) == h = [s \in Subgraphs |-> FlattenSeq(g[s])]

LEMMA PerOpSeqs ==
  ASSUME model \in Models, NEW S, NEW g,
         \A s \in Subgraphs : \A o \in DOMAIN Ops(s) : g[s][o] \in S,
         \A s \in Subgraphs : g[s] = [o \in DOMAIN Ops(s) |-> g[s][o]]
  PROVE  Lists(g, S) /\ \A s \in Subgraphs : DOMAIN g[s] = DOMAIN Ops(s)
<1> SUFFICES ASSUME NEW s \in Subgraphs PROVE g[s] \in Seq(S) /\ DOMAIN g[s] = DOMAIN Ops(s)
  BY DEF Lists
<1>1. /\ Len(Ops(s)) \in Nat
      /\ DOMAIN Ops(s) = 1 .. Len(Ops(s))
      /\ g[s] = [o \in 1 .. Len(Ops(s)) |-> g[s][o]]
      /\ \A o \in 1 .. Len(Ops(s)) : g[s][o] \in S
  BY ModelFacts
<1>2. g[s] \in Seq(S)
  BY <1>1, ListOf
<1>3. QED
  BY <1>1, <1>2

LEMMA PerTensorSeqs ==
  ASSUME model \in Models, NEW S, NEW g,
         \A s \in Subgraphs : \A i \in Tensors(s) : g[s][i] \in S,
         \A s \in Subgraphs : g[s] = [i \in Tensors(s) |-> g[s][i]]
  PROVE  Lists(g, S) /\ \A s \in Subgraphs : DOMAIN g[s] = Tensors(s)
<1> SUFFICES ASSUME NEW s \in Subgraphs PROVE g[s] \in Seq(S) /\ DOMAIN g[s] = Tensors(s)
  BY DEF Lists
<1> DEFINE n == Len(model[s].tensors)
<1>1. n \in Nat /\ Tensors(s) = 1 .. n /\ g[s] = [i \in 1 .. n |-> g[s][i]] /\ \A i \in 1 .. n : g[s][i] \in S
  BY ModelFacts
<1> HIDE DEF n
<1>2. g[s] \in Seq(S)
  BY <1>1, ListOf
<1>3. QED
  BY <1>1, <1>2

LEMMA OverSubgraphs ==
  ASSUME model \in Models, NEW S, NEW g, NEW h, Lists(g, Seq(S)), Flat(h, g)
  PROVE  /\ FlattenSeq(h) \in Seq(S)
         /\ \A s \in Subgraphs : \A i \in DOMAIN g[s] : \A p \in DOMAIN g[s][i] :
              \E m \in DOMAIN FlattenSeq(h) : FlattenSeq(h)[m] = g[s][i][p]
<1>1. \A s \in Subgraphs : h[s] = FlattenSeq(g[s]) /\ h[s] \in Seq(S)
  BY FlatType DEF Lists, Flat
<1>2. h = [s \in 1 .. Len(model) |-> h[s]] /\ Subgraphs = 1 .. Len(model) /\ Len(model) \in Nat
  BY ModelFacts DEF Flat
<1>3. h \in Seq(Seq(S)) /\ DOMAIN h = Subgraphs
  BY <1>1, <1>2, ListOf
<1>4. ASSUME NEW s \in Subgraphs, NEW i \in DOMAIN g[s], NEW p \in DOMAIN g[s][i]
      PROVE  \E m \in DOMAIN FlattenSeq(h) : FlattenSeq(h)[m] = g[s][i][p]
  <2>0. g[s] \in Seq(Seq(S))
    BY DEF Lists
  <2>1. PICK q \in DOMAIN h[s] : h[s][q] = g[s][i][p]
    BY <1>1, <2>0, FlatOccurs
  <2>2. s \in DOMAIN h /\ q \in DOMAIN h[s] /\ h \in Seq(Seq(S))
    BY <1>3, <2>1
  <2>3. PICK m \in DOMAIN FlattenSeq(h) : FlattenSeq(h)[m] = h[s][q]
    BY  <2>2, FlatOccurs
  <2>4. QED
    BY <2>1, <2>3
<1>5. FlattenSeq(h) \in Seq(S)
  BY <1>3, FlatType
<1>6. QED
  BY <1>4, <1>5

\* A class of lists that may be joined.
LEMMA OverSubgraphsIn ==
  ASSUME model \in Models, NEW S, NEW C \in SUBSET Seq(S), <<>> \in C, \A a \in C, b \in C : a \o b \in C,
         NEW g, NEW h, Lists(g, C), Flat(h, g)
  PROVE  FlattenSeq(h) \in C
<1>1. \A s \in Subgraphs : h[s] \in C
  BY FlatClosed DEF Lists, Flat
<1>2. h = [s \in 1 .. Len(model) |-> h[s]] /\ Subgraphs = 1 .. Len(model) /\ Len(model) \in Nat
  BY ModelFacts DEF Flat
<1>3. h \in Seq(C)
  BY <1>1, <1>2, ListOf
<1>4. QED
  BY <1>3, FlatClosed

(* The segments of AllocateTensors.                                        *)
LEMMA OneStage ==
  ASSUME NEW l, NEW r \in {2, 7}, \A i \in DOMAIN l : Rank(l[i]) \in {0, r}
  PROVE  Ordered(l)
BY DEF Ordered, Follows

LEMMA PlainRank ==
  ASSUME NEW x, x.do = "persistent"
  PROVE  Rank(x) = 0 /\ Needs(x) = {} /\ Gives(x) = {x.name}
BY DEF Rank, Needs, Gives

LEMMA PlainSegment ==
  ASSUME NEW l \in Seq(PersistentType)
  PROVE  Segment(l, {}, {}) /\ \A i \in DOMAIN l : GivenBy(l, l[i].name)
<1>1. \A i \in DOMAIN l : l[i] \in PersistentType
  OBVIOUS
<1>2. \A i \in DOMAIN l : l[i].do = "persistent"
  BY <1>1 DEF PersistentType
<1>3. \A i \in DOMAIN l : Rank(l[i]) = 0 /\ Needs(l[i]) = {} /\ Gives(l[i]) = {l[i].name}
  BY <1>2, PlainRank
<1>4. Ordered(l)
  BY <1>3, OneStage
<1>5. Closed(l)
  BY <1>2 DEF Closed
<1>6. QED
  BY <1>3, <1>4, <1>5 DEF Segment, GivenBy

LEMMA PlainItem ==
  ASSUME NEW x \in Item, x.do = "persistent"
  PROVE  x \in PersistentType
BY DEF Item, PersistentType, TemporaryType, StepType, OpType, MarkType

LEMMA PersistentPlain ==
  ASSUME NEW x \in Kinds, NEW a \in Nat, NEW b \in Nat,
         NEW bytes \in Nat, NEW align \in Nat \ {0}, NEW null \in {"undefined", "null", "error", "later"}
  PROVE  Persistent(<<x, a, b>>, bytes, align, null) \in PersistentType
<1> DEFINE i == Persistent(<<x, a, b>>, bytes, align, null)
<1>1. i \in Item /\ i.do = "persistent"
  BY PersistentItem DEF Persistent
<1> HIDE DEF i
<1>2. i \in PersistentType
  BY <1>1, PlainItem
<1>3. QED
  BY <1>1, <1>2 DEF i

LEMMA PlainWider == Seq(PersistentType) \subseteq Seq(Item)
<1> SUFFICES ASSUME NEW l \in Seq(PersistentType) PROVE l \in Seq(Item)
  OBVIOUS
<1>1. Len(l) \in Nat /\ l = [i \in 1 .. Len(l) |-> l[i]] /\ \A i \in 1 .. Len(l) : l[i] \in Item
  BY DEF Item
<1>2. QED
  BY <1>1, ListOf

LEMMA NameOf ==
  ASSUME NEW name, NEW bytes, NEW align, NEW null
  PROVE  Persistent(name, bytes, align, null).name = name
BY DEF Persistent

LEMMA JoinPlain ==
  ASSUME NEW a \in Seq(Item), NEW b \in Seq(PersistentType), NEW p, NEW before, Segment(a, p, before)
  PROVE  /\ a \o b \in Seq(Item)
         /\ Segment(a \o b, p, before)
         /\ \A k : GivenBy(a, k) \/ GivenBy(b, k) => GivenBy(a \o b, k)
<1> DEFINE none == {}
<1>1. b \in Seq(Item) /\ Segment(b, none, none)
  BY PlainWider, PlainSegment
<1>2. InOrder(p, none) /\ Provided(none, before, a) /\ p \cup none = p
  BY DEF InOrder, Provided
<1> HIDE DEF none
<1>3. /\ a \o b \in Seq(Item)
      /\ Segment(a \o b, p \cup none, before)
      /\ \A k : GivenBy(a, k) \/ GivenBy(b, k) => GivenBy(a \o b, k)
  BY <1>1, <1>2, Join
<1>4. QED
  BY <1>2, <1>3

LEMMA StartSegment ==
  ASSUME model \in Models
  PROVE  /\ Segment(StartModel, {1}, {})
         /\ GivenBy(StartModel, <<"subgraphs", 0, 0>>)
         /\ \A s \in Subgraphs : GivenBy(StartModel, <<"eval", s, 0>>) /\ GivenBy(StartModel, <<"nodes", s, 0>>)
<1> DEFINE evalBytes(s) == SizeOf.TfLiteEvalTensor * Len(model[s].tensors)
           nodeBytes(s) == SizeOf.NodeAndRegistration * Len(Ops(s))
           bytes == SizeOf.SubgraphAllocations * Len(model)
           evals == [s \in Subgraphs |-> Persistent(<<"eval", s, 0>>, evalBytes(s), 1, "null")]
           nodes == [s \in Subgraphs |-> Persistent(<<"nodes", s, 0>>, nodeBytes(s), 1, "null")]
           p == Persistent(<<"builtin", 0, 0>>, SizeOf.MicroBuiltinDataAllocator, 1, "undefined")
           q == Persistent(<<"subgraphs", 0, 0>>, bytes, 1, "null")
           front == <<p, Step("requests"), q>>
<1>1. StartModel = (front \o evals) \o nodes
  BY DEF StartModel
<1>2. bytes \in Nat /\ \A s \in Subgraphs : s \in Nat /\ evalBytes(s) \in Nat /\ nodeBytes(s) \in Nat
  BY ArrayBytes
<1> HIDE DEF evalBytes, nodeBytes, bytes
<1>3. /\ front \in Seq(Item) /\ Segment(front, {1}, {}) /\ GivenBy(front, <<"subgraphs", 0, 0>>)
  <2>0. p \in PersistentType /\ q \in PersistentType
    BY <1>2, SizeFacts, PersistentPlain DEF Kinds
  <2>1. p \in PersistentType /\ q \in PersistentType /\ q.name = <<"subgraphs", 0, 0>>
    BY <2>0, NameOf
  <2>2. Step("requests") \in Item /\ p \in Item /\ q \in Item
    BY <2>1, StepItem DEF Item
  <2>3. p.do = "persistent" /\ q.do = "persistent" /\ Step("requests").do = "requests"
    BY <2>1 DEF PersistentType, Step
  <2>4. Rank(p) = 0 /\ Rank(q) = 0 /\ Needs(p) = {} /\ Needs(q) = {} /\ Gives(q) = {q.name}
    BY <2>3, PlainRank
  <2> DEFINE r == Step("requests")
  <2>5. r \in Item /\ r.do = "requests" /\ Rank(r) = 1 /\ Needs(r) = {}
    BY <2>2, <2>3 DEF Rank, Needs
  <2> HIDE DEF p, q, r
  <2>6. /\ <<p, r, q>> \in Seq(Item) /\ DOMAIN <<p, r, q>> = {1, 2, 3}
        /\ <<p, r, q>>[1] = p /\ <<p, r, q>>[2] = r /\ <<p, r, q>>[3] = q
    BY <2>2, <2>5
  <2> DEFINE f == <<p, r, q>>
  <2> HIDE DEF f
  <2>7. f \in Seq(Item) /\ DOMAIN f = {1, 2, 3} /\ f[1] = p /\ f[2] = r /\ f[3] = q
    BY <2>6 DEF f
  <2>8. Ordered(f) /\ Closed(f)
    BY <2>3, <2>4, <2>5, <2>7 DEF Ordered, Closed
  <2>9. Segment(f, {1}, {})
    BY <2>4, <2>5, <2>7, <2>8 DEF Segment
  <2>10. GivenBy(f, <<"subgraphs", 0, 0>>)
    BY <2>1, <2>4, <2>7 DEF GivenBy
  <2>11. QED
    BY <2>7, <2>9, <2>10 DEF f, r
<1>4. /\ evals \in Seq(PersistentType) /\ nodes \in Seq(PersistentType)
      /\ \A s \in Subgraphs : GivenBy(evals, <<"eval", s, 0>>) /\ GivenBy(nodes, <<"nodes", s, 0>>)
  <2>1. /\ evals = [s \in 1 .. Len(model) |-> evals[s]]
        /\ nodes = [s \in 1 .. Len(model) |-> nodes[s]]
    BY ModelFacts
  <2>2. \A s \in Subgraphs :
          /\ Persistent(<<"eval", s, 0>>, evalBytes(s), 1, "null") \in PersistentType
          /\ Persistent(<<"nodes", s, 0>>, nodeBytes(s), 1, "null") \in PersistentType
    BY <1>2, PersistentPlain DEF Kinds
  <2>3. \A s \in Subgraphs : /\ evals[s] \in PersistentType /\ nodes[s] \in PersistentType
                            /\ evals[s].name = <<"eval", s, 0>> /\ nodes[s].name = <<"nodes", s, 0>>
    BY <2>2, NameOf
  <2> HIDE DEF evals, nodes
  <2>4. evals \in Seq(PersistentType) /\ nodes \in Seq(PersistentType)
    BY <2>1, <2>3, ModelFacts, ListOf
  <2>5. DOMAIN evals = Subgraphs /\ DOMAIN nodes = Subgraphs
    BY <2>1, ModelFacts
  <2>6. QED
    BY <2>3, <2>4, <2>5, PlainSegment
<1> HIDE DEF front, evals, nodes
<1>5. /\ front \o evals \in Seq(Item)
      /\ Segment(front \o evals, {1}, {})
      /\ \A k : GivenBy(front, k) \/ GivenBy(evals, k) => GivenBy(front \o evals, k)
  BY <1>3, <1>4, JoinPlain
<1>6. /\ Segment((front \o evals) \o nodes, {1}, {})
      /\ \A k : GivenBy(front \o evals, k) \/ GivenBy(nodes, k) => GivenBy((front \o evals) \o nodes, k)
  BY <1>4, <1>5, JoinPlain
<1>7. QED
  BY <1>1, <1>3, <1>4, <1>5, <1>6

\* Lists of persistent buffers, for the operators and for the tensors.
LEMMA PlainPerOp ==
  ASSUME model \in Models, NEW g, NEW A,
         \A s \in Subgraphs : \A o \in DOMAIN Ops(s) :
           /\ g[s][o] \in Seq(PersistentType)
           /\ A[s][o] # "none" => 1 \in DOMAIN g[s][o] /\ g[s][o][1].name = <<A[s][o], s, o>>,
         \A s \in Subgraphs : g[s] = [o \in DOMAIN Ops(s) |-> g[s][o]],
         NEW h, Flat(h, g)
  PROVE  /\ FlattenSeq(h) \in Seq(PersistentType)
         /\ \A s \in Subgraphs : \A o \in DOMAIN Ops(s) :
              A[s][o] # "none" => GivenBy(FlattenSeq(h), <<A[s][o], s, o>>)
<1> DEFINE all == FlattenSeq(h)
<1>1. Lists(g, Seq(PersistentType)) /\ \A s \in Subgraphs : DOMAIN g[s] = DOMAIN Ops(s)
  BY PerOpSeqs
<1> HIDE DEF all
<1>2. /\ all \in Seq(PersistentType)
      /\ \A s \in Subgraphs : \A o \in DOMAIN g[s] : \A p \in DOMAIN g[s][o] :
           \E m \in DOMAIN all : all[m] = g[s][o][p]
  <2>1. /\ FlattenSeq(h) \in Seq(PersistentType)
        /\ \A s \in Subgraphs : \A o \in DOMAIN g[s] : \A p \in DOMAIN g[s][o] :
             \E m \in DOMAIN FlattenSeq(h) : FlattenSeq(h)[m] = g[s][o][p]
    BY <1>1, OverSubgraphs
  <2>2. QED
    BY <2>1 DEF all
<1>3. ASSUME NEW s \in Subgraphs, NEW o \in DOMAIN Ops(s), A[s][o] # "none"
      PROVE  GivenBy(all, <<A[s][o], s, o>>)
  <2>1. o \in DOMAIN g[s] /\ 1 \in DOMAIN g[s][o] /\ g[s][o][1].name = <<A[s][o], s, o>>
    BY <1>1, <1>3
  <2>2. PICK m \in DOMAIN all : all[m] = g[s][o][1]
    BY <1>2, <2>1
  <2>3. GivenBy(all, all[m].name)
    BY <1>2, PlainSegment
  <2>4. QED
    BY <2>1, <2>2, <2>3
<1>4. QED
  BY <1>2, <1>3 DEF all

LEMMA OnlyIfOne ==
  ASSUME NEW c \in BOOLEAN, NEW x, NEW S, x \in S
  PROVE  OnlyIf(c, x) \in Seq(S) /\ (c => 1 \in DOMAIN OnlyIf(c, x) /\ OnlyIf(c, x)[1] = x)
BY DEF OnlyIf

LEMMA InitSegment ==
  ASSUME model \in Models
  PROVE  /\ InitOps \in Seq(PersistentType)
         /\ \A s \in Subgraphs : \A o \in DOMAIN Ops(s) :
              /\ Ops(s)[o].params # 0 => GivenBy(InitOps, <<"params", s, o>>)
              /\ Ops(s)[o].data # 0 => GivenBy(InitOps, <<"data", s, o>>)
<1> DEFINE pp(s, o) == Persistent(<<"params", s, o>>, Ops(s)[o].params, 1, "error")
           dd(s, o) == Persistent(<<"data", s, o>>, Ops(s)[o].data, BufferAlign, "later")
           p(s, o) == OnlyIf(Ops(s)[o].params # 0, pp(s, o))
           d(s, o) == OnlyIf(Ops(s)[o].data # 0, dd(s, o))
           ps == [s \in Subgraphs |-> [o \in DOMAIN Ops(s) |-> p(s, o)]]
           ds == [s \in Subgraphs |-> [o \in DOMAIN Ops(s) |-> d(s, o)]]
           pa == [s \in Subgraphs |-> [o \in DOMAIN Ops(s) |-> IF Ops(s)[o].params # 0 THEN "params" ELSE "none"]]
           da == [s \in Subgraphs |-> [o \in DOMAIN Ops(s) |-> IF Ops(s)[o].data # 0 THEN "data" ELSE "none"]]
           ph == [s \in Subgraphs |-> FlattenSeq(ps[s])]
           dh == [s \in Subgraphs |-> FlattenSeq(ds[s])]
           pl == FlattenSeq(ph)
           dl == FlattenSeq(dh)
<1>1. ASSUME NEW s \in Subgraphs, NEW o \in DOMAIN Ops(s)
      PROVE  /\ p(s, o) \in Seq(PersistentType) /\ d(s, o) \in Seq(PersistentType)
             /\ Ops(s)[o].params # 0 => 1 \in DOMAIN p(s, o) /\ p(s, o)[1].name = <<"params", s, o>>
             /\ Ops(s)[o].data # 0 => 1 \in DOMAIN d(s, o) /\ d(s, o)[1].name = <<"data", s, o>>
  <2>1. s \in Nat /\ o \in Nat /\ BufferAlign \in Nat \ {0}
    BY ModelFacts, ArenaAssumption
  <2> HIDE DEF ps, ds, pa, da, ph, dh, pl, dl
  <2>0. Ops(s)[o].params \in Nat /\ Ops(s)[o].data \in Nat
    BY OpFacts
  <2>2. pp(s, o) \in PersistentType /\ dd(s, o) \in PersistentType
    BY <2>0, <2>1, PersistentPlain DEF Kinds
  <2>3. pp(s, o).name = <<"params", s, o>> /\ dd(s, o).name = <<"data", s, o>>
    BY NameOf
  <2> HIDE DEF pp, dd
  <2>4. (Ops(s)[o].params # 0) \in BOOLEAN /\ (Ops(s)[o].data # 0) \in BOOLEAN
    OBVIOUS
  <2>5. /\ p(s, o) \in Seq(PersistentType) /\ d(s, o) \in Seq(PersistentType)
        /\ Ops(s)[o].params # 0 => 1 \in DOMAIN p(s, o) /\ p(s, o)[1] = pp(s, o)
        /\ Ops(s)[o].data # 0 => 1 \in DOMAIN d(s, o) /\ d(s, o)[1] = dd(s, o)
    BY <2>2, <2>4 DEF OnlyIf
  <2>6. QED
    BY <2>3, <2>5
<1> HIDE DEF p, d
<1>2. /\ \A s \in Subgraphs : \A o \in DOMAIN Ops(s) :
           /\ ps[s][o] \in Seq(PersistentType)
           /\ pa[s][o] # "none" => 1 \in DOMAIN ps[s][o] /\ ps[s][o][1].name = <<pa[s][o], s, o>>
      /\ \A s \in Subgraphs : ps[s] = [o \in DOMAIN Ops(s) |-> ps[s][o]]
  BY <1>1
<1>3. /\ \A s \in Subgraphs : \A o \in DOMAIN Ops(s) :
           /\ ds[s][o] \in Seq(PersistentType)
           /\ da[s][o] # "none" => 1 \in DOMAIN ds[s][o] /\ ds[s][o][1].name = <<da[s][o], s, o>>
      /\ \A s \in Subgraphs : ds[s] = [o \in DOMAIN Ops(s) |-> ds[s][o]]
  BY <1>1
<1>4. \A s \in Subgraphs : \A o \in DOMAIN Ops(s) :
         /\ Ops(s)[o].params # 0 => pa[s][o] = "params"
         /\ Ops(s)[o].data # 0 => da[s][o] = "data"
  OBVIOUS
<1>5. InitOps = pl \o dl
  BY DEF InitOps, PerOp, p, d, pp, dd
<1> HIDE DEF ps, ds, pa, da
<1>a. Flat(ph, ps) /\ Flat(dh, ds)
  BY DEF Flat
<1> HIDE DEF ph, dh
<1>6. /\ pl \in Seq(PersistentType)
      /\ \A s \in Subgraphs : \A o \in DOMAIN Ops(s) : pa[s][o] # "none" => GivenBy(pl, <<pa[s][o], s, o>>)
  BY <1>2, <1>a, PlainPerOp
<1>7. /\ dl \in Seq(PersistentType)
      /\ \A s \in Subgraphs : \A o \in DOMAIN Ops(s) : da[s][o] # "none" => GivenBy(dl, <<da[s][o], s, o>>)
  BY <1>3, <1>a, PlainPerOp
<1> HIDE DEF pl, dl
<1>8. pl \in Seq(Item) /\ Segment(pl, {}, {})
  BY <1>6, PlainWider, PlainSegment
<1>9. \A k : GivenBy(pl, k) \/ GivenBy(dl, k) => GivenBy(pl \o dl, k)
  BY <1>7, <1>8, JoinPlain
<1>10. pl \o dl \in Seq(PersistentType)
  BY <1>6, <1>7, ConcatProperties
<1>11. ASSUME NEW s \in Subgraphs, NEW o \in DOMAIN Ops(s)
       PROVE  /\ Ops(s)[o].params # 0 => GivenBy(InitOps, <<"params", s, o>>)
              /\ Ops(s)[o].data # 0 => GivenBy(InitOps, <<"data", s, o>>)
  <2>1. Ops(s)[o].params # 0 => GivenBy(pl, <<"params", s, o>>)
    BY <1>4, <1>6
  <2>2. Ops(s)[o].data # 0 => GivenBy(dl, <<"data", s, o>>)
    BY <1>4, <1>7
  <2>3. QED
    BY <1>5, <1>9, <2>1, <2>2
<1>12. QED
  BY <1>5, <1>10, <1>11

LEMMA CallItem ==
  ASSUME model \in Models, NEW s \in Subgraphs, NEW o \in DOMAIN Ops(s), NEW k \in DOMAIN Ops(s)[o].prepare
  PROVE  LET x == KernelCall(s, o, k)
         IN  /\ x \in Item
             /\ x.do \in {"temp", "persistent", "scratch", "free"}
             /\ Rank(x) \in {0, 2} /\ Needs(x) = {}
             /\ x.do = "scratch" => x.subgraph = s /\ x.op = o
<1> DEFINE call == Ops(s)[o].prepare[k]
           b == 10 * s + k
<1>1. /\ s \in Nat /\ o \in Nat \ {0}
      /\ Ops(s)[o].prepare \in Seq(CallType)
  BY ModelFacts, OpFacts
<1>2. call \in CallType /\ k \in Nat
  BY <1>1
<1> HIDE DEF call
<1>3. b \in Nat
  BY <1>1, <1>2
<1>4. call.call \in {"temp", "persistent", "scratch", "free"} /\ call.bytes \in Nat
  BY <1>2 DEF CallType
<1> HIDE DEF b
<1>5. CASE call.call = "temp"
  <2> DEFINE x == Temporary(<<"temp", o, b>>, SizeOf.TfLiteTensor, "undefined")
  <2>1. x \in Item
    BY <1>1, <1>3, SizeFacts, TemporaryItem
  <2>2. x.do = "temp" /\ x.name[2] = o
    BY DEF Temporary
  <2>3. KernelCall(s, o, k) = x
    BY <1>5 DEF KernelCall, call, b
  <2> HIDE DEF x
  <2>4. Rank(x) = 2 /\ Needs(x) = {}
    BY <1>1, <2>2 DEF Rank, Needs
  <2>5. QED
    BY <2>1, <2>2, <2>3, <2>4
<1>6. CASE call.call = "persistent"
  <2> DEFINE x == Persistent(<<"extra", o, b>>, call.bytes, BufferAlign, "undefined")
  <2>1. x \in Item
    BY <1>1, <1>3, <1>4, ArenaAssumption, PersistentItem DEF Kinds
  <2>2. x.do = "persistent"
    BY DEF Persistent
  <2>3. KernelCall(s, o, k) = x
    BY <1>6 DEF KernelCall, call, b
  <2> HIDE DEF x
  <2>4. Rank(x) = 0 /\ Needs(x) = {}
    BY <2>2, PlainRank
  <2>5. QED
    BY <2>1, <2>2, <2>3, <2>4
<1>7. CASE call.call \in {"scratch", "free"}
  <2> DEFINE x == OpStep(call.call, s, o, call.bytes)
  <2>1. x \in Item
    BY <1>1, <1>4, <1>7, OpItem
  <2>2. x.do = call.call /\ x.subgraph = s /\ x.op = o
    BY DEF OpStep
  <2>3. KernelCall(s, o, k) = x
    BY <1>7 DEF KernelCall, call
  <2> HIDE DEF x
  <2>4. Rank(x) = 2 /\ Needs(x) = {}
    BY <1>7, <2>2 DEF Rank, Needs
  <2>5. QED
    BY <1>7, <2>1, <2>2, <2>3, <2>4
<1>8. QED
  BY <1>4, <1>5, <1>6, <1>7

LEMMA Concat ==
  ASSUME NEW S, NEW a \in Seq(S), NEW b \in Seq(S), NEW c, c = a \o b
  PROVE  /\ c \in Seq(S) /\ Len(c) = Len(a) + Len(b)
         /\ \A i \in 1 .. Len(a) : c[i] = a[i]
         /\ \A i \in 1 .. Len(b) : c[i + Len(a)] = b[i]
BY ConcatProperties

LEMMA PrepareOne ==
  ASSUME model \in Models, NEW s \in Subgraphs, NEW o \in DOMAIN Ops(s), NEW N, Structures \cup NodeOf(s, o) \subseteq N
  PROVE  LET l == <<OpStep("prepare", s, o, 0)>>
                  \o [k \in DOMAIN Ops(s)[o].prepare |-> KernelCall(s, o, k)]
                  \o <<OpStep("finish", s, o, 0)>>
         IN  l \in Seq(Item) /\ Segment(l, {2}, N)
<1> DEFINE calls == [k \in DOMAIN Ops(s)[o].prepare |-> KernelCall(s, o, k)]
           n == Len(Ops(s)[o].prepare)
           x == OpStep("prepare", s, o, 0)
           y == OpStep("finish", s, o, 0)
           l == (<<x>> \o calls) \o <<y>>
<1>1. n \in Nat /\ DOMAIN Ops(s)[o].prepare = 1 .. n /\ o \in Nat
  BY OpFacts
<1> HIDE DEF n
<1>2. calls = [k \in 1 .. n |-> calls[k]] /\ \A k \in 1 .. n : calls[k] = KernelCall(s, o, k)
  BY <1>1
<1> HIDE DEF calls
<1>3. \A k \in 1 .. n : /\ calls[k] \in Item
                        /\ calls[k].do \in {"temp", "persistent", "scratch", "free"}
                        /\ Rank(calls[k]) \in {0, 2} /\ Needs(calls[k]) = {}
                        /\ calls[k].do = "scratch" => calls[k].subgraph = s /\ calls[k].op = o
  BY <1>1, <1>2, CallItem
<1>4. calls \in Seq(Item) /\ Len(calls) = n
  BY <1>1, <1>2, <1>3, ListOf
<1>5. x \in Item /\ y \in Item
  BY <1>1, OpItem
<1>6. /\ x.do = "prepare" /\ x.subgraph = s /\ x.op = o
      /\ y.do = "finish" /\ y.subgraph = s /\ y.op = o
  BY DEF OpStep
<1> HIDE DEF x, y
<1>7. /\ Rank(x) = 2 /\ Needs(x) \subseteq N /\ Rank(y) = 2 /\ Needs(y) = {}
  BY <1>6 DEF Rank, Needs
<1>8. <<x>> \in Seq(Item) /\ <<y>> \in Seq(Item) /\ Len(<<x>>) = 1 /\ Len(<<y>>) = 1 /\ <<x>>[1] = x /\ <<y>>[1] = y
  BY <1>5
<1> DEFINE a == <<x>>
           b == <<y>>
<1>9. /\ a \in Seq(Item) /\ b \in Seq(Item) /\ Len(a) = 1 /\ Len(b) = 1 /\ a[1] = x /\ b[1] = y
      /\ l = (a \o calls) \o b
  BY <1>8
<1> HIDE DEF a, b, l
<1>10. /\ l \in Seq(Item) /\ DOMAIN l = 1 .. n + 2
       /\ l[1] = x /\ l[n + 2] = y
       /\ \A i \in 2 .. n + 1 : l[i] = calls[i - 1] /\ i - 1 \in 1 .. n
  <2> DEFINE c == a \o calls
  <2>0. c = a \o calls /\ l = c \o b /\ a \in Seq(Item) /\ b \in Seq(Item) /\ calls \in Seq(Item)
    BY <1>4, <1>9
  <2> HIDE DEF c
  <2>1. /\ c \in Seq(Item) /\ Len(c) = 1 + n
        /\ \A i \in 1 .. 1 : c[i] = a[i]
        /\ \A i \in 1 .. n : c[i + 1] = calls[i]
    <3>1. /\ c \in Seq(Item) /\ Len(c) = Len(a) + Len(calls)
          /\ \A i \in 1 .. Len(a) : c[i] = a[i]
          /\ \A i \in 1 .. Len(calls) : c[i + Len(a)] = calls[i]
      BY <2>0, Concat
    <3>2. \A i \in 1 .. n : c[i + Len(a)] = calls[i]
      BY <1>4, <3>1
    <3>3. QED
      BY <1>1, <1>4, <1>9, <3>1, <3>2
  <2> DEFINE m == 1 + n
  <2>2. m \in Nat /\ Len(c) = m
    BY <1>1, <2>1
  <2> HIDE DEF m
  <2>3. /\ l \in Seq(Item) /\ Len(l) = m + 1
        /\ \A i \in 1 .. m : l[i] = c[i]
        /\ \A i \in 1 .. 1 : l[i + m] = b[i]
    <3>1. /\ l \in Seq(Item) /\ Len(l) = Len(c) + Len(b)
          /\ \A i \in 1 .. Len(c) : l[i] = c[i]
          /\ \A i \in 1 .. Len(b) : l[i + Len(c)] = b[i]
      <4>1. c \in Seq(Item)
        BY <2>1
      <4>2. QED
        BY <2>0, <4>1, Concat
    <3>2. QED
      BY <1>9, <2>2, <3>1
  <2>4. DOMAIN l = 1 .. n + 2
    BY <1>1, <2>3 DEF m
  <2>5. l[1] = x
    <3>1. 1 \in 1 .. 1 /\ 1 \in 1 .. m
      BY <1>1 DEF m
    <3>2. QED
      BY <1>9, <2>1, <2>3, <3>1
  <2>7. l[n + 2] = y
    <3>1. 1 \in 1 .. 1 /\ 1 + m = n + 2
      BY <1>1 DEF m
    <3>2. QED
      BY <1>9, <2>3, <3>1
  <2>8. ASSUME NEW i \in 2 .. n + 1 PROVE l[i] = calls[i - 1] /\ i - 1 \in 1 .. n
    <3>1. i \in 1 .. m /\ i - 1 \in 1 .. n /\ (i - 1) + 1 = i
      BY <1>1 DEF m
    <3>2. QED
      BY <2>1, <2>3, <3>1
  <2>9. QED
    BY <2>3, <2>4, <2>5, <2>7, <2>8
<1>11. \A i \in 1 .. n + 2 : i = 1 \/ i = n + 2 \/ i \in 2 .. n + 1
  BY <1>1
<1>12. \A i \in DOMAIN l : Rank(l[i]) \in {2} \cup {0}
  BY <1>3, <1>7, <1>10, <1>11
<1>13. Ordered(l)
  BY <1>12, OneStage
<1>14. Closed(l)
  <2> SUFFICES ASSUME NEW i \in DOMAIN l, l[i].do = "scratch" PROVE Closing(l, i, l[i].subgraph, l[i].op)
    BY DEF Closed
  <2>1. i \in 2 .. n + 1
    BY <1>6, <1>10, <1>11
  <2>2. l[i].subgraph = s /\ l[i].op = o
    BY <1>3, <1>10, <2>1
  <2>3. n + 2 \in DOMAIN l /\ n + 2 > i
    BY <1>1, <1>10, <2>1
  <2>4. \A m \in DOMAIN l : i < m /\ m < n + 2 => l[m].do # "finish"
    <3> SUFFICES ASSUME NEW m \in DOMAIN l, i < m, m < n + 2 PROVE l[m].do # "finish"
      OBVIOUS
    <3>1. m \in 2 .. n + 1
      BY <1>1, <1>10, <2>1
    <3>2. QED
      BY <1>3, <1>10, <3>1
  <2>5. QED
    BY <1>6, <1>10, <2>2, <2>3, <2>4 DEF Closing
<1>15. \A i \in DOMAIN l : Needs(l[i]) \subseteq N
  BY <1>3, <1>7, <1>10, <1>11
<1>16. Segment(l, {2}, N)
  BY <1>12, <1>13, <1>14, <1>15 DEF Segment
<1>17. QED
  BY <1>10, <1>16 DEF l, calls, x, y

LEMMA PrepareSegment ==
  ASSUME model \in Models, NEW N,
         \A s \in Subgraphs : \A o \in DOMAIN Ops(s) : Structures \cup NodeOf(s, o) \subseteq N
  PROVE  PrepareOps \in Seq(Item) /\ Segment(PrepareOps, {2}, N)
<1> DEFINE C == {l \in Seq(Item) : Segment(l, {2}, N)}
           g == [s \in Subgraphs |-> [o \in DOMAIN Ops(s) |->
                   <<OpStep("prepare", s, o, 0)>>
                   \o [k \in DOMAIN Ops(s)[o].prepare |-> KernelCall(s, o, k)]
                   \o <<OpStep("finish", s, o, 0)>>]]
           h == [s \in Subgraphs |-> FlattenSeq(g[s])]
<1>1. ASSUME NEW s \in Subgraphs, NEW o \in DOMAIN Ops(s) PROVE g[s][o] \in C
  <2> DEFINE l == <<OpStep("prepare", s, o, 0)>>
                  \o [k \in DOMAIN Ops(s)[o].prepare |-> KernelCall(s, o, k)]
                  \o <<OpStep("finish", s, o, 0)>>
  <2>1. Structures \cup NodeOf(s, o) \subseteq N
    OBVIOUS
  <2>2. l \in Seq(Item) /\ Segment(l, {2}, N)
    BY <2>1, PrepareOne
  <2>3. g[s][o] = l
    OBVIOUS
  <2> HIDE DEF l, g, h
  <2>4. QED
    BY <2>2, <2>3
<1>2. \A s \in Subgraphs : g[s] = [o \in DOMAIN Ops(s) |-> g[s][o]]
  OBVIOUS
<1>3. PrepareOps = FlattenSeq(h)
  BY DEF PrepareOps, PerOp
<1>4. Flat(h, g)
  BY DEF Flat
<1> HIDE DEF g, h
<1>5. <<>> \in C
  BY DEF Segment, Ordered, Closed
<1>6. \A a \in C, b \in C : a \o b \in C
  <2> SUFFICES ASSUME NEW a \in C, NEW b \in C PROVE a \o b \in C
    OBVIOUS
  <2> DEFINE two == {2}
  <2>1. a \in Seq(Item) /\ b \in Seq(Item) /\ Segment(a, two, N) /\ Segment(b, two, N)
    OBVIOUS
  <2>2. InOrder(two, two) /\ Provided(N, N, a) /\ two \cup two = two
    BY DEF InOrder, Provided, Follows
  <2> HIDE DEF two
  <2>3. a \o b \in Seq(Item) /\ Segment(a \o b, two \cup two, N)
    BY <2>1, <2>2, Join
  <2>4. QED
    BY <2>2, <2>3 DEF two
<1>7. C \in SUBSET Seq(Item)
  OBVIOUS
<1>8. FlattenSeq(h) \in C
  <2> HIDE DEF C
  <2>1. Lists(g, C)
    BY <1>1, <1>2, PerOpSeqs
  <2>2. QED
    BY <1>4, <1>5, <1>6, <1>7, <2>1, OverSubgraphsIn
<1>9. QED
  BY <1>3, <1>8

LEMMA FrontSegment ==
  ASSUME model \in Models
  PROVE  LET l == <<Step("handles"), Temporary(<<"temp", 0, 0>>, SizeOf.size_t * Len(model), "error"), Step("info")>>
         IN  /\ l \in Seq(Item) /\ Segment(l, {3, 4, 5}, {})
             /\ GivenBy(l, Handles) /\ GivenBy(l, Info)
<1> DEFINE x == Step("handles")
           y == Temporary(<<"temp", 0, 0>>, SizeOf.size_t * Len(model), "error")
           z == Step("info")
           l == <<x, y, z>>
           bytes == SizeOf.size_t * Len(model)
<1>1. bytes \in Nat
  BY ArrayBytes
<1> HIDE DEF bytes
<1>2. x \in Item /\ y \in Item /\ z \in Item
  <2>1. Temporary(<<"temp", 0, 0>>, bytes, "error") \in Item
    BY <1>1, TemporaryItem
  <2>2. QED
    BY <2>1, StepItem DEF bytes
<1>3. x.do = "handles" /\ y.do = "temp" /\ y.name[2] = 0 /\ z.do = "info"
  BY DEF Step, Temporary
<1> HIDE DEF x, y, z
<1>4. /\ Rank(x) = 3 /\ Rank(y) = 4 /\ Rank(z) = 5
      /\ Needs(x) = {} /\ Needs(y) = {} /\ Needs(z) = {}
      /\ Gives(x) = {Handles} /\ Gives(z) = {Info}
  BY <1>3 DEF Rank, Needs, Gives
<1>5. l \in Seq(Item) /\ DOMAIN l = {1, 2, 3} /\ l[1] = x /\ l[2] = y /\ l[3] = z
  BY <1>2
<1> HIDE DEF l
<1>6. Ordered(l) /\ Closed(l)
  BY <1>3, <1>4, <1>5 DEF Ordered, Closed, Follows
<1>7. Segment(l, {3, 4, 5}, {}) /\ GivenBy(l, Handles) /\ GivenBy(l, Info)
  BY <1>4, <1>5, <1>6 DEF Segment, GivenBy
<1>8. QED
  BY <1>5, <1>7 DEF l, x, y, z

LEMMA BackSegment ==
  LET l == <<Step("lifetimes"), Step("plan")>>
  IN  /\ l \in Seq(Item)
      /\ Segment(l, {6, 8}, Structures \cup EvalNames \cup {Info, Handles})
      /\ \A k \in GivenTensors : GivenBy(l, k)
<1> DEFINE x == Step("lifetimes")
           y == Step("plan")
           l == <<x, y>>
           M == Structures \cup EvalNames \cup {Info, Handles}
<1>1. x \in Item /\ y \in Item
  BY StepItem
<1>2. x.do = "lifetimes" /\ y.do = "plan"
  BY DEF Step
<1> HIDE DEF x, y
<1>3. /\ Rank(x) = 6 /\ Rank(y) = 8
      /\ Needs(x) \subseteq M /\ \A k \in Needs(y) : k \in M \/ k = Marked
      /\ Gives(x) = {Marked} /\ Gives(y) = GivenTensors
  BY <1>2 DEF Rank, Needs, Gives
<1>4. l \in Seq(Item) /\ DOMAIN l = {1, 2} /\ l[1] = x /\ l[2] = y
  BY <1>1
<1> HIDE DEF l, M
<1>5. Ordered(l) /\ Closed(l)
  BY <1>2, <1>3, <1>4 DEF Ordered, Closed, Follows
<1>6. ASSUME NEW i \in DOMAIN l, NEW k \in Needs(l[i])
      PROVE  k \in M \/ \E j \in DOMAIN l : j < i /\ k \in Gives(l[j])
  <2>1. CASE i = 1
    BY <1>3, <1>4, <1>6, <2>1
  <2>2. CASE i = 2
    <3>1. CASE k = Marked
      <4>1. 1 \in DOMAIN l /\ 1 < i /\ k \in Gives(l[1])
        BY <1>3, <1>4, <2>2, <3>1
      <4>2. QED
        BY <4>1
    <3>2. QED
      BY <1>3, <1>4, <1>6, <2>2, <3>1
  <2>3. QED
    BY <1>4, <2>1, <2>2
<1>7. Segment(l, {6, 8}, M)
  BY <1>3, <1>4, <1>5, <1>6 DEF Segment
<1>8. \A k \in GivenTensors : GivenBy(l, k)
  BY <1>3, <1>4 DEF GivenBy
<1>9. QED
  BY <1>4, <1>7, <1>8 DEF l, M, x, y

LEMMA VariableItems ==
  ASSUME model \in Models
  PROVE  LET all == PerTensor(LAMBDA t : OnlyIf(OnlineVariable(t), Persistent(T(t[1], t[2]), Bytes(t), BufferAlign, "error")))
         IN  /\ all \in Seq(PersistentType)
             /\ \A s \in Subgraphs : \A i \in Tensors(s) : OnlineVariable(<<s, i>>) => GivenBy(all, T(s, i))
<1> DEFINE x(s, i) == Persistent(T(s, i), Bytes(<<s, i>>), BufferAlign, "error")
           item(s, i) == OnlyIf(OnlineVariable(<<s, i>>), x(s, i))
           g == [s \in Subgraphs |-> [i \in Tensors(s) |-> item(s, i)]]
           h == [s \in Subgraphs |-> FlattenSeq(g[s])]
           all == FlattenSeq(h)
<1>1. ASSUME NEW s \in Subgraphs, NEW i \in Tensors(s)
      PROVE  /\ item(s, i) \in Seq(PersistentType)
             /\ OnlineVariable(<<s, i>>) => 1 \in DOMAIN item(s, i) /\ item(s, i)[1].name = T(s, i)
  <2>1. s \in Nat /\ i \in Nat /\ Bytes(<<s, i>>) \in Nat
    BY TensorFacts
  <2>2. x(s, i) \in PersistentType
    BY <2>1, ArenaAssumption, PersistentPlain DEF T, Kinds
  <2>3. x(s, i).name = T(s, i)
    BY NameOf
  <2> HIDE DEF x
  <2>4. OnlineVariable(<<s, i>>) \in BOOLEAN
    BY DEF OnlineVariable
  <2>5. QED
    BY <2>2, <2>3, <2>4 DEF OnlyIf
<1>2. PerTensor(LAMBDA t : OnlyIf(OnlineVariable(t), Persistent(T(t[1], t[2]), Bytes(t), BufferAlign, "error"))) = all
  BY DEF PerTensor
<1> HIDE DEF item
<1>3. /\ \A s \in Subgraphs : \A i \in Tensors(s) : g[s][i] \in Seq(PersistentType) /\ g[s][i] = item(s, i)
      /\ \A s \in Subgraphs : g[s] = [i \in Tensors(s) |-> g[s][i]]
  BY <1>1
<1>4. Flat(h, g)
  BY DEF Flat
<1> HIDE DEF g, h
<1>5. Lists(g, Seq(PersistentType)) /\ \A s \in Subgraphs : DOMAIN g[s] = Tensors(s)
  BY <1>3, PerTensorSeqs
<1>6. /\ FlattenSeq(h) \in Seq(PersistentType)
      /\ \A s \in Subgraphs : \A i \in DOMAIN g[s] : \A p \in DOMAIN g[s][i] :
           \E m \in DOMAIN FlattenSeq(h) : FlattenSeq(h)[m] = g[s][i][p]
  BY <1>4, <1>5, OverSubgraphs
<1> HIDE DEF all
<1>7. ASSUME NEW s \in Subgraphs, NEW i \in Tensors(s), OnlineVariable(<<s, i>>)
      PROVE  GivenBy(all, T(s, i))
  <2>1. i \in DOMAIN g[s] /\ 1 \in DOMAIN g[s][i] /\ g[s][i][1].name = T(s, i)
    BY <1>1, <1>3, <1>5, <1>7
  <2>2. PICK m \in DOMAIN all : all[m] = g[s][i][1]
    BY <1>6, <2>1 DEF all
  <2>3. GivenBy(all, all[m].name)
    BY <1>6, PlainSegment DEF all
  <2>4. QED
    BY <2>1, <2>2, <2>3
<1>8. all \in Seq(PersistentType)
  BY <1>6 DEF all
<1>9. QED
  BY <1>2, <1>7, <1>8

LEMMA Earlier ==
  ASSUME NEW l, NEW p, NEW before, NEW more, Segment(l, p, before), before \subseteq more
  PROVE  Segment(l, p, more)
BY DEF Segment

LEMMA FinishSegment ==
  ASSUME model \in Models
  PROVE  /\ FinishModel \in Seq(Item)
         /\ Segment(FinishModel, {3, 4, 5, 6, 8}, Structures \cup EvalNames)
         /\ \A k \in GivenTensors : GivenBy(FinishModel, k)
         /\ \A s \in Subgraphs : \A i \in Tensors(s) : OnlineVariable(<<s, i>>) => GivenBy(FinishModel, T(s, i))
<1> DEFINE front == <<Step("handles"), Temporary(<<"temp", 0, 0>>, SizeOf.size_t * Len(model), "error"), Step("info")>>
           back == <<Step("lifetimes"), Step("plan")>>
           all == PerTensor(LAMBDA t : OnlyIf(OnlineVariable(t), Persistent(T(t[1], t[2]), Bytes(t), BufferAlign, "error")))
           before == Structures \cup EvalNames
           more == Structures \cup EvalNames \cup {Info, Handles}
           p == {3, 4, 5}
           q == {6, 8}
<1>1. FinishModel = (front \o all) \o back
  BY DEF FinishModel
<1>2. front \in Seq(Item) /\ Segment(front, p, {}) /\ GivenBy(front, Handles) /\ GivenBy(front, Info)
  BY FrontSegment
<1>3. /\ all \in Seq(PersistentType)
      /\ \A s \in Subgraphs : \A i \in Tensors(s) : OnlineVariable(<<s, i>>) => GivenBy(all, T(s, i))
  BY VariableItems
<1>4. back \in Seq(Item) /\ Segment(back, q, more) /\ \A k \in GivenTensors : GivenBy(back, k)
  BY BackSegment
<1>5. InOrder(p, q) /\ p \cup q = {3, 4, 5, 6, 8}
  BY DEF InOrder, Follows
<1> HIDE DEF front, back, all, p, q
<1>6. /\ front \o all \in Seq(Item) /\ Segment(front \o all, p, {})
      /\ \A k : GivenBy(front, k) \/ GivenBy(all, k) => GivenBy(front \o all, k)
  BY <1>2, <1>3, JoinPlain
<1>7. Segment(front \o all, p, before)
  BY <1>6, Earlier
<1>8. Provided(more, before, front \o all)
  BY <1>2, <1>6 DEF Provided
<1> HIDE DEF before, more
<1>9. /\ (front \o all) \o back \in Seq(Item)
      /\ Segment((front \o all) \o back, p \cup q, before)
      /\ \A k : GivenBy(front \o all, k) \/ GivenBy(back, k) => GivenBy((front \o all) \o back, k)
  BY <1>4, <1>5, <1>6, <1>7, <1>8, Join
<1>10. QED
  BY <1>1, <1>3, <1>4, <1>5, <1>6, <1>9 DEF before

LEMMA TensorsPlain ==
  ASSUME NEW x \in Kinds, NEW y \in Kinds, NEW indices \in Seq(Nat)
  PROVE  /\ PersistentTensors(<<x, 0, 0>>, y, indices) \in Seq(PersistentType)
         /\ GivenBy(PersistentTensors(<<x, 0, 0>>, y, indices), <<x, 0, 0>>)
<1> DEFINE l == PersistentTensors(<<x, 0, 0>>, y, indices)
           bytes == SizeOf.pointer * Len(indices)
           each == [k \in DOMAIN indices |-> Persistent(<<y, k, 0>>, SizeOf.TfLiteTensor, 1, "error")]
           p == Persistent(<<x, 0, 0>>, bytes, BufferAlign, "error")
           n == Len(indices)
<1>1. bytes \in Nat
  BY PointerBytes
<1> HIDE DEF bytes
<1>2. p \in PersistentType /\ p.name = <<x, 0, 0>>
  <2>1. p \in PersistentType
    BY <1>1, ArenaAssumption, PersistentPlain
  <2>2. QED
    BY <2>1, NameOf
<1>3. n \in Nat /\ DOMAIN indices = 1 .. n
  OBVIOUS
<1> HIDE DEF n
<1>4. \A k \in 1 .. n : Persistent(<<y, k, 0>>, SizeOf.TfLiteTensor, 1, "error") \in PersistentType
  BY <1>3, SizeFacts, PersistentPlain
<1>5. each = [k \in 1 .. n |-> each[k]] /\ \A k \in 1 .. n : each[k] \in PersistentType
  BY <1>3, <1>4
<1>6. l = <<p>> \o each
  BY DEF PersistentTensors, bytes
<1> HIDE DEF each, p, l
<1>7. each \in Seq(PersistentType)
  BY <1>3, <1>5, ListOf
<1>8. <<p>> \in Seq(PersistentType) /\ 1 \in DOMAIN <<p>> /\ <<p>>[1] = p
  BY <1>2
<1> DEFINE a == <<p>>
<1>9. a \in Seq(PersistentType) /\ 1 \in DOMAIN a /\ a[1] = p /\ l = a \o each
  BY <1>6, <1>8
<1> HIDE DEF a
<1>10. l \in Seq(PersistentType) /\ 1 \in DOMAIN l /\ l[1] = p
  BY <1>7, <1>9, Joined
<1>11. GivenBy(l, <<x, 0, 0>>)
  BY <1>2, <1>10, PlainSegment
<1>12. QED
  BY <1>10, <1>11 DEF l

\* What the constructor leaves for AllocateTensors.
Constructed == {<<"arena", 0, 0>>, <<"allocator", 0, 0>>}
Stages == {1, 2, 3, 4, 5, 6, 8, 11}

(* What operators need when they are prepared, and what comes before them. *)
LEMMA GivenBefore ==
  ASSUME model \in Models, NEW N,
         N = Constructed \cup {k \in Name : GivenBy(StartModel \o InitOps, k)}
  PROVE  /\ StartModel \o InitOps \in Seq(Item)
         /\ Segment(StartModel \o InitOps, {1}, Constructed)
         /\ Structures \cup EvalNames \subseteq N
         /\ \A s \in Subgraphs : \A o \in DOMAIN Ops(s) : NodeOf(s, o) \subseteq N
<1> DEFINE a == StartModel \o InitOps
<1>1. /\ StartModel \in Seq(Item) /\ Segment(StartModel, {1}, {})
      /\ GivenBy(StartModel, <<"subgraphs", 0, 0>>)
      /\ \A s \in Subgraphs : GivenBy(StartModel, <<"eval", s, 0>>) /\ GivenBy(StartModel, <<"nodes", s, 0>>)
  BY StartItems, StartSegment
<1>2. /\ InitOps \in Seq(PersistentType)
      /\ \A s \in Subgraphs : \A o \in DOMAIN Ops(s) :
           /\ Ops(s)[o].params # 0 => GivenBy(InitOps, <<"params", s, o>>)
           /\ Ops(s)[o].data # 0 => GivenBy(InitOps, <<"data", s, o>>)
  BY InitSegment
<1>3. /\ a \in Seq(Item) /\ Segment(a, {1}, {})
      /\ \A k : GivenBy(StartModel, k) \/ GivenBy(InitOps, k) => GivenBy(a, k)
  BY <1>1, <1>2, JoinPlain
<1> HIDE DEF a
<1>4. Segment(a, {1}, Constructed)
  BY <1>3, Earlier
<1>5. N = Constructed \cup {k \in Name : GivenBy(a, k)}
  BY DEF a
<1>6. \A s \in Subgraphs : s \in Nat /\ \A o \in DOMAIN Ops(s) : o \in Nat
  BY ModelFacts
<1>7. <<"subgraphs", 0, 0>> \in N
  <2>1. <<"subgraphs", 0, 0>> \in Name
    BY DEF Name, Kinds
  <2>2. QED
    BY <1>1, <1>3, <1>5, <2>1
<1>8. ASSUME NEW s \in Subgraphs PROVE <<"eval", s, 0>> \in N /\ <<"nodes", s, 0>> \in N
  <2>1. <<"eval", s, 0>> \in Name /\ <<"nodes", s, 0>> \in Name
    BY <1>6 DEF Name, Kinds
  <2>2. QED
    BY <1>1, <1>3, <1>5, <2>1
<1>9. ASSUME NEW s \in Subgraphs, NEW o \in DOMAIN Ops(s)
      PROVE  /\ Ops(s)[o].params # 0 => <<"params", s, o>> \in N
             /\ Ops(s)[o].data # 0 => <<"data", s, o>> \in N
  <2>1. <<"params", s, o>> \in Name /\ <<"data", s, o>> \in Name
    BY <1>6 DEF Name, Kinds
  <2>2. QED
    BY <1>2, <1>3, <1>5, <2>1
<1>10. Structures \cup EvalNames \subseteq N
  BY <1>5, <1>7, <1>8 DEF Structures, EvalNames, Constructed
<1>11. \A s \in Subgraphs : \A o \in DOMAIN Ops(s) : NodeOf(s, o) \subseteq N
  BY <1>8, <1>9 DEF NodeOf
<1>12. QED
  BY <1>3, <1>4, <1>10, <1>11 DEF a

LEMMA VariableGiven ==
  ASSUME model \in Models, NEW k \in VariableNames
  PROVE  GivenBy(FinishModel, k)
<1>1. PICK t \in AllTensors : IsVariable(t) /\ (OnlineVariable(t) \/ Offline(t) # Online) /\ k = T(t[1], t[2])
  BY DEF VariableNames
<1>2. PICK s \in Subgraphs : t \in {s} \X Tensors(s)
  BY DEF AllTensors
<1>3. t = <<s, t[2]>> /\ t[1] = s /\ t[2] \in Tensors(s)
  BY <1>2
<1>4. CASE OnlineVariable(t)
  <2>1. OnlineVariable(<<s, t[2]>>) /\ k = T(s, t[2])
    BY <1>1, <1>3, <1>4
  <2>2. QED
    BY <1>3, <2>1, FinishSegment
<1>5. CASE Offline(t) # Online
  <2>1. NeedsAllocating(t)
    BY <1>1, <1>5 DEF NeedsAllocating
  <2>2. k \in GivenTensors
    BY <1>1, <2>1 DEF GivenTensors
  <2>3. QED
    BY <2>2, FinishSegment
<1>6. QED
  BY <1>1, <1>4, <1>5

(* The list of AllocateTensors is in order, and nothing is read before it  *)
(* was asked for.                                                          *)
LEMMA AllSegment ==
  ASSUME model \in Models
  PROVE  Segment(AllocateTensors, Stages, Constructed)
<1> DEFINE a == StartModel \o InitOps
           N == Constructed \cup {k \in Name : GivenBy(a, k)}
           b == a \o PrepareOps
           c == b \o FinishModel
           in == PersistentTensors(Inputs, "input", model[1].inputs)
           out == PersistentTensors(<<"outputs", 0, 0>>, "output", model[1].outputs)
           d == c \o in
           e == d \o out
           r == <<Step("reset")>>
           V == {Inputs} \cup VariableNames
           s1 == {1}
           s2 == {2}
           s3 == {3, 4, 5, 6, 8}
           s4 == {11}
<1>1. /\ a \in Seq(Item) /\ Segment(a, s1, Constructed) /\ Structures \cup EvalNames \subseteq N
      /\ \A s \in Subgraphs : \A o \in DOMAIN Ops(s) : NodeOf(s, o) \subseteq N
  BY GivenBefore
<1>2. PrepareOps \in Seq(Item) /\ Segment(PrepareOps, s2, N)
  <2>1. \A s \in Subgraphs : \A o \in DOMAIN Ops(s) : Structures \cup NodeOf(s, o) \subseteq N
    BY <1>1
  <2> HIDE DEF N
  <2>2. QED
    BY <2>1, PrepareSegment
<1>3. /\ InOrder(s1, s2) /\ InOrder(s1 \cup s2, s3) /\ InOrder((s1 \cup s2) \cup s3, s4)
      /\ ((s1 \cup s2) \cup s3) \cup s4 = Stages
  BY DEF InOrder, Follows, Stages
<1>4. Provided(N, Constructed, a)
  BY DEF Provided
<1>5. AllocateTensors = e \o r
  BY DEF AllocateTensors
<1>6. /\ FinishModel \in Seq(Item) /\ Segment(FinishModel, s3, Structures \cup EvalNames)
      /\ \A k \in VariableNames : GivenBy(FinishModel, k)
  BY FinishSegment, VariableGiven
<1>7. in \in Seq(PersistentType) /\ out \in Seq(PersistentType) /\ GivenBy(in, Inputs)
  BY ModelFacts, TensorsPlain DEF Inputs, Kinds
<1>8. r \in Seq(Item) /\ Segment(r, s4, V)
  <2> DEFINE x == Step("reset")
  <2>1. x \in Item /\ x.do = "reset"
    BY StepItem DEF Step
  <2> HIDE DEF x, V
  <2>2. Rank(x) = 11
    BY <2>1 DEF Rank
  <2>3. Needs(x) = V
    BY <2>1 DEF Needs, V
  <2>4. <<x>> \in Seq(Item) /\ DOMAIN <<x>> = {1} /\ <<x>>[1] = x
    BY <2>1
  <2> DEFINE l == <<x>>
  <2>5. l \in Seq(Item) /\ DOMAIN l = {1} /\ l[1] = x
    BY <2>4
  <2> HIDE DEF l
  <2>6. Ordered(l) /\ Closed(l)
    BY <2>1, <2>5 DEF Ordered, Closed
  <2>7. Segment(l, s4, V)
    BY <2>2, <2>3, <2>5, <2>6 DEF Segment
  <2>8. QED
    BY <2>5, <2>7 DEF l, x
<1>9. \A k \in Structures \cup EvalNames : k \in Constructed \/ GivenBy(a, k)
  BY <1>1
<1> HIDE DEF a, N, in, out, r, s1, s2, s3, s4
<1>10. b \in Seq(Item) /\ Segment(b, s1 \cup s2, Constructed) /\ \A k : GivenBy(a, k) => GivenBy(b, k)
  BY <1>1, <1>2, <1>3, <1>4, Join
<1>11. Provided(Structures \cup EvalNames, Constructed, b)
  BY <1>9, <1>10 DEF Provided
<1> HIDE DEF b
<1>12. /\ c \in Seq(Item) /\ Segment(c, (s1 \cup s2) \cup s3, Constructed)
       /\ \A k : GivenBy(FinishModel, k) => GivenBy(c, k)
  BY <1>3, <1>6, <1>10, <1>11, Join
<1> HIDE DEF c
<1>13. /\ d \in Seq(Item) /\ Segment(d, (s1 \cup s2) \cup s3, Constructed)
       /\ \A k : GivenBy(c, k) \/ GivenBy(in, k) => GivenBy(d, k)
  BY <1>7, <1>12, JoinPlain
<1> HIDE DEF d
<1>14. /\ e \in Seq(Item) /\ Segment(e, (s1 \cup s2) \cup s3, Constructed)
       /\ \A k : GivenBy(d, k) \/ GivenBy(out, k) => GivenBy(e, k)
  BY <1>7, <1>13, JoinPlain
<1> HIDE DEF e
<1>15. Provided(V, Constructed, e)
  BY <1>6, <1>7, <1>12, <1>13, <1>14 DEF Provided
<1> HIDE DEF V
<1>16. Segment(e \o r, ((s1 \cup s2) \cup s3) \cup s4, Constructed)
  BY <1>3, <1>8, <1>14, <1>15, Join
<1>17. QED
  BY <1>3, <1>5, <1>16
-----------------------------------------------------------------------------
(* Where the list has got to, and what it finds there.                     *)

\* The steps of the stages up to r are done.
Past(r) == \A i \in DOMAIN todo : Rank(todo[i]) = 0 \/ Rank(todo[i]) > r
CommitFirst == \A i \in DOMAIN todo : todo[i].do = "commit" => i = 1
InStages == Ordered(todo) /\ Closed(todo) /\ CommitFirst

InfoRoom ==
  /\ Info \in DOMAIN place
  /\ head <= place[Info].lo /\ place[Info].hi <= temp

\* The subgraphs of R are marked but for what the list still has to do.
OpPending(s, o) == \E i \in DOMAIN todo : todo[i].do = "op" /\ todo[i].subgraph = s /\ todo[i].op = o
MarkPending(s) == \E i \in DOMAIN todo : todo[i].do = "mark" /\ todo[i].subgraph = s
ScratchMarked(s, o) ==
  \A k \in ScratchOf(s, o) : \A j \in DOMAIN infos : infos[j].name = Scratch(k) => infos[j].first # -1
Reached(R) ==
  /\ 1 \in R \/ MarkPending(1)
  /\ \A s \in R : \A o \in DOMAIN Ops(s) :
       \/ OpPending(s, o)
       \/ ScratchMarked(s, o) /\ \A s2 \in Range(Ops(s)[o].calls) : s2 \in R \/ MarkPending(s2)
InfosMatch ==
  /\ GivenTensors \subseteq PlannedNames
  /\ \A j \in DOMAIN infos : infos[j].name[1] = "scratch" => \E k \in DOMAIN requests : infos[j].name = Scratch(k)
Marking ==
  /\ InfoRoom /\ Info \in held
  /\ scope >= 0
  /\ InfosMatch
  /\ \E R \in SUBSET Subgraphs : Reached(R)
PlannerPlaced ==
  /\ PlannerArena \in DOMAIN place
  /\ place[Info].hi <= place[PlannerArena].lo
  /\ bufferCount = 0 \/ PlannerArena \in held

\* What has been left so far.
Have(k) ==
  /\ k \notin {Info, PlannerArena, Handles, Marked} => k \in DOMAIN place
  /\ k = Handles => Past(3) /\ (requests = <<>> \/ Handles \in DOMAIN place)
  /\ k = Info => Past(5) /\ InfoRoom /\ AlignUp(temp, BufferAlign) <= tail
  /\ k = Marked => Past(6) /\ Marking
  /\ k = PlannerArena => Past(8) /\ PlannerPlaced
Ready ==
  \A i \in DOMAIN todo : \A k \in Needs(todo[i]) :
    Have(k) \/ \E j \in DOMAIN todo : j < i /\ k \in Gives(todo[j])

Layout == head <= temp /\ temp <= tail
TempsWhole == \A n \in Temps : n \in held /\ head <= place[n].lo /\ place[n].hi <= temp
PersistentWhole ==
  \A n \in DOMAIN place : n[1] \in Kinds => place[n].lo >= tail /\ (n \in held \/ IsTensor(n))
Slots ==
  \A k \in DOMAIN requests :
    /\ Request(k) \in held
    /\ place[Request(k)] = [lo |-> SizeOf.ScratchBufferRequest * (k - 1), hi |-> SizeOf.ScratchBufferRequest * k]
    /\ place[Request(k)].hi <= head
Room ==
  /\ Cardinality(Unassigned) <= MaxScratch
  /\ SizeOf.ScratchBufferRequest * (Len(requests) + MaxScratch - Cardinality(Unassigned)) <= head
Assigned ==
  \A k \in DOMAIN requests :
    \/ requests[k].node \in DOMAIN Ops(requests[k].subgraph)
    \/ requests[k].node = 0 /\ \E o \in DOMAIN Ops(requests[k].subgraph) : Closing(todo, 0, requests[k].subgraph, o)

Whole ==
  /\ ~Past(1) => Temps = {}
  /\ ~Past(2) => TempsWhole
  /\ ~Past(6) => Layout /\ PersistentWhole
  /\ Past(1) /\ ~Past(2) => Room
  /\ Past(1) /\ ~Past(7) => Slots
  /\ Past(1) /\ ~Past(9) => Assigned

Exception ==
  \/ \E k \in DOMAIN requests : ~Called(requests[k].subgraph)
  \/ \E t \in AllTensors : IsVariable(t) /\ Offline(t) = Online /\ ~OnlineVariable(t)
Prepared ==
  /\ frames # <<>> => phase # "setup"
  /\ phase \notin {"retry", "undefined"}
  /\ phase # "setup" => allocated /\ todo = <<>> /\ outcome = "none" /\ Inputs \in DOMAIN place
Ended ==
  /\ outcome \in {"none", "ok", "undefined"}
  /\ outcome # "none" => todo = <<>>
  /\ outcome = "ok" => Inputs \in DOMAIN place
  /\ outcome = "undefined" => Exception
  /\ (\E i \in DOMAIN todo : todo[i].do = "start") => ~allocating
ClientInv == Prepared /\ Ended

-----------------------------------------------------------------------------
(* How the list moves on: items take the place of its first.               *)

Advance(items) == todo # <<>> /\ todo' = items \o Tail(todo)
\* The items come no earlier than the first, which is of some stage.
Onward(items) ==
  \A i \in DOMAIN items : Rank(items[i]) # 0 => Rank(todo[1]) # 0 /\ Rank(items[i]) >= Rank(todo[1])

LEMMA RankNat == \A x : Rank(x) \in 0 .. 11
BY DEF Rank

LEMMA TodoFacts ==
  ASSUME AllocatorTypes, todo # <<>>
  PROVE  /\ todo \in Seq(Todo) /\ Len(todo) \in Nat \ {0} /\ DOMAIN todo = 1 .. Len(todo)
         /\ Tail(todo) \in Seq(Todo) /\ Len(Tail(todo)) = Len(todo) - 1
         /\ DOMAIN Tail(todo) = 1 .. Len(todo) - 1
         /\ \A i \in 1 .. Len(todo) - 1 : Tail(todo)[i] = todo[i + 1]
         /\ 1 \in DOMAIN todo
<1>1. todo \in Seq(Todo)
  BY DEF AllocatorTypes
<1>2. QED
  BY <1>1

LEMMA Popped ==
  ASSUME AllocatorTypes, todo # <<>>, todo' = Tail(todo)
  PROVE  Advance(<<>>) /\ <<>> \in Seq(Todo) /\ Onward(<<>>)
BY TodoFacts DEF Advance, Onward

LEMMA Moved ==
  ASSUME AllocatorTypes, NEW items \in Seq(Todo), Advance(items)
  PROVE  /\ Len(items) \in Nat /\ DOMAIN items = 1 .. Len(items)
         /\ DOMAIN todo' = 1 .. Len(items) + (Len(todo) - 1)
         /\ \A i \in DOMAIN items : i \in DOMAIN todo' /\ todo'[i] = items[i]
         /\ \A i \in DOMAIN todo : i > 1 => i - 1 + Len(items) \in DOMAIN todo' /\ todo'[i - 1 + Len(items)] = todo[i]
         /\ \A i \in DOMAIN todo' : i \notin DOMAIN items =>
              /\ i - Len(items) + 1 \in DOMAIN todo /\ i - Len(items) + 1 > 1
              /\ todo'[i] = todo[i - Len(items) + 1]
<1> DEFINE n == Len(items)
           l == Tail(todo)
<1>1. /\ l \in Seq(Todo) /\ Len(l) = Len(todo) - 1 /\ \A i \in 1 .. Len(todo) - 1 : l[i] = todo[i + 1]
      /\ Len(todo) \in Nat \ {0} /\ DOMAIN todo = 1 .. Len(todo) /\ todo' = items \o l
  BY TodoFacts DEF Advance
<1> HIDE DEF l
<1>2. /\ DOMAIN items = 1 .. n /\ n \in Nat
      /\ DOMAIN todo' = 1 .. n + Len(l)
      /\ \A i \in DOMAIN items : i \in DOMAIN todo' /\ todo'[i] = items[i]
      /\ \A i \in DOMAIN l : i + n \in DOMAIN todo' /\ todo'[i + n] = l[i]
      /\ \A i \in DOMAIN todo' : i \notin DOMAIN items => i - n \in DOMAIN l /\ todo'[i] = l[i - n]
  <2> DEFINE c == items \o l
  <2>1. /\ DOMAIN items = 1 .. n /\ n \in Nat
        /\ DOMAIN c = 1 .. n + Len(l)
        /\ \A i \in DOMAIN items : i \in DOMAIN c /\ c[i] = items[i]
        /\ \A i \in DOMAIN l : i + n \in DOMAIN c /\ c[i + n] = l[i]
        /\ \A i \in DOMAIN c : i \notin DOMAIN items => i - n \in DOMAIN l /\ c[i] = l[i - n]
    <3>1. l \in Seq(Todo)
      BY <1>1
    <3>2. QED
      BY <3>1, Joined
  <2>2. todo' = c
    BY <1>1
  <2> HIDE DEF c, n
  <2>3. QED
    BY <2>1, <2>2
<1>3. DOMAIN l = 1 .. Len(todo) - 1
  BY <1>1
<1> HIDE DEF n
<1>4. ASSUME NEW i \in DOMAIN todo, i > 1 PROVE i - 1 + n \in DOMAIN todo' /\ todo'[i - 1 + n] = todo[i]
  <2>1. i - 1 \in DOMAIN l /\ (i - 1) + 1 = i
    BY <1>1, <1>3, <1>4
  <2>2. QED
    BY <1>1, <1>2, <1>3, <2>1
<1>5. ASSUME NEW i \in DOMAIN todo', i \notin DOMAIN items
      PROVE  i - n + 1 \in DOMAIN todo /\ i - n + 1 > 1 /\ todo'[i] = todo[i - n + 1]
  BY <1>1, <1>2, <1>3, <1>5
<1>6. QED
  BY <1>1, <1>2, <1>4, <1>5 DEF n

(* The first of the list says which stages are past.                       *)
LEMMA PastFront ==
  ASSUME AllocatorTypes, Ordered(todo), todo # <<>>, Rank(todo[1]) # 0, NEW r \in Nat
  PROVE  Past(r) <=> r < Rank(todo[1])
<1>1. 1 \in DOMAIN todo /\ Rank(todo[1]) \in Nat /\ \A i \in DOMAIN todo : Rank(todo[i]) \in Nat /\ (i = 1 \/ 1 < i)
  BY TodoFacts, RankNat
<1>2. \A i \in DOMAIN todo : Rank(todo[i]) # 0 => Rank(todo[i]) >= Rank(todo[1])
  BY <1>1 DEF Ordered, Follows
<1>3. QED
  BY <1>1, <1>2 DEF Past

LEMMA PastStays ==
  ASSUME AllocatorTypes, NEW items \in Seq(Todo), Advance(items), Onward(items), NEW r \in Nat, Past(r)
  PROVE  Past(r)'
<1> SUFFICES ASSUME NEW i \in DOMAIN todo' PROVE Rank(todo'[i]) = 0 \/ Rank(todo'[i]) > r
  BY DEF Past
<1>1. CASE i \in DOMAIN items
  <2>1. todo'[i] = items[i] /\ 1 \in DOMAIN todo
    BY <1>1, Moved, TodoFacts DEF Advance
  <2>2. Rank(items[i]) \in Nat /\ Rank(todo[1]) \in Nat
    BY RankNat
  <2>3. QED
    BY <1>1, <2>1, <2>2 DEF Onward, Past
<1>2. CASE i \notin DOMAIN items
  BY <1>2, Moved DEF Past
<1>3. QED
  BY <1>1, <1>2

LEMMA PastNow ==
  ASSUME AllocatorTypes, Ordered(todo), NEW items \in Seq(Todo), Advance(items),
         NEW r \in Nat \ {0, 2, 7}, Rank(todo[1]) = r,
         \A i \in DOMAIN items : Rank(items[i]) # 0 => Rank(items[i]) > r
  PROVE  Past(r)'
<1> SUFFICES ASSUME NEW i \in DOMAIN todo' PROVE Rank(todo'[i]) = 0 \/ Rank(todo'[i]) > r
  BY DEF Past
<1>1. CASE i \in DOMAIN items
  BY <1>1, Moved
<1>2. CASE i \notin DOMAIN items
  <2> DEFINE j == i - Len(items) + 1
  <2>1. j \in DOMAIN todo /\ j > 1 /\ todo'[i] = todo[j] /\ 1 \in DOMAIN todo
    BY <1>2, Moved, TodoFacts DEF Advance
  <2> HIDE DEF j
  <2>2. Rank(todo[j]) = 0 \/ Follows(Rank(todo[1]), Rank(todo[j]))
    BY <2>1 DEF Ordered
  <2>3. Rank(todo[j]) \in Nat /\ Rank(todo[1]) \in Nat
    BY RankNat
  <2>4. QED
    BY <2>1, <2>2, <2>3 DEF Follows
<1>3. QED
  BY <1>1, <1>2

(* The order of the rest.                                                  *)
LEMMA RestStages ==
  ASSUME AllocatorTypes, InStages, todo # <<>>
  PROVE  Ordered(Tail(todo)) /\ Closed(Tail(todo)) /\ \A i \in DOMAIN Tail(todo) : Tail(todo)[i].do # "commit"
<1> DEFINE l == Tail(todo)
           n == Len(todo)
<1>1. /\ n \in Nat \ {0} /\ DOMAIN todo = 1 .. n /\ DOMAIN l = 1 .. n - 1 /\ \A i \in 1 .. n - 1 : l[i] = todo[i + 1]
  BY TodoFacts
<1> HIDE DEF l, n
<1>2. Ordered(l)
  <2> SUFFICES ASSUME NEW i \in DOMAIN l, NEW j \in DOMAIN l, i < j, Rank(l[i]) # 0, Rank(l[j]) # 0
               PROVE  Follows(Rank(l[i]), Rank(l[j]))
    BY DEF Ordered
  <2>1. i + 1 \in DOMAIN todo /\ j + 1 \in DOMAIN todo /\ i + 1 < j + 1 /\ l[i] = todo[i + 1] /\ l[j] = todo[j + 1]
    BY <1>1
  <2>2. QED
    BY <2>1 DEF InStages, Ordered
<1>3. Closed(l)
  <2> SUFFICES ASSUME NEW i \in DOMAIN l, l[i].do = "scratch"
               PROVE  Closing(l, i, l[i].subgraph, l[i].op)
    BY DEF Closed
  <2>1. i + 1 \in DOMAIN todo /\ l[i] = todo[i + 1]
    BY <1>1
  <2>2. Closing(todo, i + 1, l[i].subgraph, l[i].op)
    BY <2>1 DEF InStages, Closed
  <2>3. PICK j \in DOMAIN todo :
           /\ j > i + 1 /\ todo[j].do = "finish" /\ todo[j].subgraph = l[i].subgraph /\ todo[j].op = l[i].op
           /\ \A m \in DOMAIN todo : i + 1 < m /\ m < j => todo[m].do # "finish"
    BY <2>2 DEF Closing
  <2>4. j - 1 \in DOMAIN l /\ j - 1 > i /\ l[j - 1] = todo[j]
    BY <1>1, <2>3
  <2>5. ASSUME NEW m \in DOMAIN l, i < m, m < j - 1 PROVE l[m].do # "finish"
    <3>1. m + 1 \in DOMAIN todo /\ i + 1 < m + 1 /\ m + 1 < j /\ l[m] = todo[m + 1]
      BY <1>1, <2>3, <2>5
    <3>2. QED
      BY <2>3, <3>1
  <2>6. QED
    BY <2>3, <2>4, <2>5 DEF Closing
<1>4. ASSUME NEW i \in DOMAIN l PROVE l[i].do # "commit"
  <2>1. i + 1 \in DOMAIN todo /\ i + 1 # 1 /\ l[i] = todo[i + 1]
    BY <1>1
  <2>2. QED
    BY <2>1 DEF InStages, CommitFirst
<1>5. QED
  BY <1>2, <1>3, <1>4 DEF l

LEMMA PopStages ==
  ASSUME AllocatorTypes, InStages, todo # <<>>, todo' = Tail(todo)
  PROVE  InStages'
<1>1. Ordered(todo') /\ Closed(todo') /\ \A i \in DOMAIN todo' : todo'[i].do # "commit"
  BY RestStages
<1>2. Ordered(todo)' /\ Closed(todo)'
  BY <1>1 DEF Ordered, Closed, Closing
<1>3. QED
  BY <1>1, <1>2 DEF InStages, CommitFirst

LEMMA PushStages ==
  ASSUME AllocatorTypes, InStages, NEW items \in Seq(Todo), Advance(items),
         Ordered(items), Closed(items), \A i \in DOMAIN items : items[i].do = "commit" => i = 1,
         \A i \in DOMAIN items : \A j \in DOMAIN todo :
           j > 1 /\ Rank(items[i]) # 0 /\ Rank(todo[j]) # 0 => Follows(Rank(items[i]), Rank(todo[j]))
  PROVE  InStages'
<1> DEFINE l == Tail(todo)
<1>1. /\ l \in Seq(Todo) /\ Ordered(l) /\ Closed(l) /\ \A i \in DOMAIN l : l[i].do # "commit"
      /\ todo' = items \o l
  BY TodoFacts, RestStages DEF Advance
<1>2. \A i \in DOMAIN items, j \in DOMAIN l : Rank(items[i]) # 0 /\ Rank(l[j]) # 0 => Follows(Rank(items[i]), Rank(l[j]))
  <2> SUFFICES ASSUME NEW i \in DOMAIN items, NEW j \in DOMAIN l, Rank(items[i]) # 0, Rank(l[j]) # 0
               PROVE  Follows(Rank(items[i]), Rank(l[j]))
    OBVIOUS
  <2>1. j + 1 \in DOMAIN todo /\ j + 1 > 1 /\ l[j] = todo[j + 1]
    BY TodoFacts DEF Advance
  <2>2. QED
    BY <2>1
<1> HIDE DEF l
<1>3. Ordered(todo') /\ Closed(todo')
  BY <1>1, <1>2, JoinOrdered, JoinClosed
<1>4. Ordered(todo)' /\ Closed(todo)'
  BY <1>3 DEF Ordered, Closed, Closing
<1>5. \A i \in DOMAIN todo' : todo'[i].do = "commit" => i = 1
  BY <1>1, Joined
<1>6. QED
  BY <1>4, <1>5 DEF InStages, CommitFirst

LEMMA SameModel ==
  ASSUME model' = model
  PROVE  /\ Subgraphs' = Subgraphs /\ AllTensors' = AllTensors
         /\ \A s : Ops(s)' = Ops(s) /\ Tensors(s)' = Tensors(s)
         /\ \A t : /\ IsVariable(t)' = IsVariable(t) /\ IsConst(t)' = IsConst(t)
                   /\ Offline(t)' = Offline(t) /\ Bytes(t)' = Bytes(t)
                   /\ OnlineVariable(t)' = OnlineVariable(t) /\ NeedsAllocating(t)' = NeedsAllocating(t)
<1>1. /\ Subgraphs' = Subgraphs
      /\ \A s : Ops(s)' = Ops(s) /\ Tensors(s)' = Tensors(s)
      /\ \A t : /\ IsVariable(t)' = IsVariable(t) /\ IsConst(t)' = IsConst(t)
                /\ Offline(t)' = Offline(t) /\ Bytes(t)' = Bytes(t)
  BY DEF Subgraphs, Ops, Tensors, IsVariable, IsConst, Offline, Bytes
<1>2. AllTensors' = AllTensors
  BY <1>1 DEF AllTensors
<1>3. Offsets' = Offsets
  BY DEF Offsets, PerTensor, Subgraphs, Tensors, Offline
<1>4. \A t : OnlineVariable(t)' = OnlineVariable(t) /\ NeedsAllocating(t)' = NeedsAllocating(t)
  BY <1>1, <1>3 DEF OnlineVariable, NeedsAllocating
<1>5. QED
  BY <1>1, <1>2, <1>4

LEMMA SameNeeds ==
  ASSUME model' = model
  PROVE  /\ \A x : Needs(x)' = Needs(x) /\ Gives(x)' = Gives(x)
         /\ GivenTensors' = GivenTensors
<1>1. EvalNames' = EvalNames /\ \A s, o : NodeOf(s, o)' = NodeOf(s, o)
  BY SameModel DEF EvalNames, NodeOf
<1>2. VariableNames' = VariableNames /\ GivenTensors' = GivenTensors
  BY SameModel DEF VariableNames, GivenTensors
<1>3. QED
  BY <1>1, <1>2 DEF Needs, Gives

\* What later items need stays; the new ones find what they need.
Kept == \A i \in DOMAIN todo : i > 1 => \A k \in Needs(todo[i]) : Have(k) => Have(k)'
Served(items) == \A i \in DOMAIN items : \A k \in Needs(items[i]) : Have(k)'
Left(items) == \A k \in Gives(todo[1]) : Have(k)' \/ \E i \in DOMAIN items : k \in Gives(items[i])

LEMMA AdvanceReady ==
  ASSUME AllocatorTypes, Ready, model' = model, NEW items \in Seq(Todo), Advance(items),
         Kept, Served(items), Left(items)
  PROVE  Ready'
<1> DEFINE n == Len(items)
<1>1. /\ n \in Nat /\ DOMAIN items = 1 .. n
      /\ \A i \in DOMAIN items : i \in DOMAIN todo' /\ todo'[i] = items[i]
      /\ \A i \in DOMAIN todo : i > 1 => i - 1 + n \in DOMAIN todo' /\ todo'[i - 1 + n] = todo[i]
      /\ \A i \in DOMAIN todo' : i \notin DOMAIN items =>
           i - n + 1 \in DOMAIN todo /\ i - n + 1 > 1 /\ todo'[i] = todo[i - n + 1]
      /\ DOMAIN todo = 1 .. Len(todo) /\ Len(todo) \in Nat /\ DOMAIN todo' \subseteq Nat
  <2>1. /\ n \in Nat /\ DOMAIN items = 1 .. n /\ DOMAIN todo' = 1 .. n + (Len(todo) - 1)
        /\ \A i \in DOMAIN items : i \in DOMAIN todo' /\ todo'[i] = items[i]
        /\ \A i \in DOMAIN todo : i > 1 => i - 1 + n \in DOMAIN todo' /\ todo'[i - 1 + n] = todo[i]
        /\ \A i \in DOMAIN todo' : i \notin DOMAIN items =>
             i - n + 1 \in DOMAIN todo /\ i - n + 1 > 1 /\ todo'[i] = todo[i - n + 1]
    BY Moved
  <2>2. DOMAIN todo = 1 .. Len(todo) /\ Len(todo) \in Nat
    BY TodoFacts DEF Advance
  <2>3. DOMAIN todo' \subseteq Nat
    BY <2>1, <2>2
  <2>4. QED
    BY <2>1, <2>2, <2>3
<1>2. \A x : Needs(x)' = Needs(x) /\ Gives(x)' = Gives(x)
  BY SameNeeds
<1>3. ASSUME NEW i \in DOMAIN todo', NEW k \in Needs(todo'[i])
      PROVE  Have(k)' \/ \E j \in DOMAIN todo' : j < i /\ k \in Gives(todo'[j])
  <2>1. CASE i \in DOMAIN items
    BY <1>1, <1>3, <2>1 DEF Served
  <2>2. CASE i \notin DOMAIN items
    <3> DEFINE m == i - n + 1
    <3>1. m \in DOMAIN todo /\ m > 1 /\ todo'[i] = todo[m] /\ i = m - 1 + n
      BY <1>1, <2>2
    <3> HIDE DEF m
    <3>2. Have(k) \/ \E j \in DOMAIN todo : j < m /\ k \in Gives(todo[j])
      BY <1>3, <3>1 DEF Ready
    <3>3. CASE Have(k)
      BY <1>3, <3>1, <3>3 DEF Kept
    <3>4. ASSUME NEW j \in DOMAIN todo, j < m, k \in Gives(todo[j])
          PROVE  Have(k)' \/ \E q \in DOMAIN todo' : q < i /\ k \in Gives(todo'[q])
      <4>1. CASE j = 1
        <5>1. Have(k)' \/ \E q \in DOMAIN items : k \in Gives(items[q])
          BY <3>4, <4>1 DEF Left
        <5>2. \A q \in DOMAIN items : q < i
          BY <1>1, <3>1
        <5>3. QED
          BY <1>1, <5>1, <5>2
      <4>2. CASE j > 1
        <5>1. j - 1 + n \in DOMAIN todo' /\ todo'[j - 1 + n] = todo[j] /\ j - 1 + n < i
          BY <1>1, <3>1, <3>4, <4>2
        <5>2. QED
          BY <3>4, <5>1
      <4>3. QED
        BY <1>1, <4>1, <4>2
    <3>5. QED
      BY <3>2, <3>3, <3>4
  <2>3. QED
    BY <2>1, <2>2
<1>4. QED
  BY <1>2, <1>3 DEF Ready

(* What is needed by which items.                                          *)
LEMMA NeedKinds ==
  ASSUME NEW x, NEW k \in Needs(x)
  PROVE  /\ k \in {Info, PlannerArena, Handles, Marked} \/ k[1] \in Kinds
         /\ k = Info => Rank(x) \in {6, 8}
         /\ k = Handles => Rank(x) \in {8, 9}
         /\ k = Marked => Rank(x) \in {7, 8, 9}
         /\ k = PlannerArena => x.do = "commit"
<1>1. /\ \A q \in Structures \cup EvalNames \cup VariableNames \cup {Inputs} : q[1] \in Kinds
      /\ \A s, o : \A q \in NodeOf(s, o) : q[1] \in Kinds
  BY DEF Structures, EvalNames, VariableNames, Inputs, NodeOf, T, Kinds
<1>2. Info[1] = "temp" /\ PlannerArena[1] = "temp" /\ Handles[1] = "handles" /\ Marked[1] = "marked"
      /\ "temp" \notin Kinds /\ "handles" \notin Kinds /\ "marked" \notin Kinds
      /\ Info # PlannerArena
  BY DEF Info, PlannerArena, Handles, Marked, Kinds
<1>3. /\ x.do = "start" => k[1] \in Kinds
      /\ x.do = "prepare" => k[1] \in Kinds
      /\ x.do = "lifetimes" => k[1] \in Kinds \/ k = Info
      /\ x.do \in {"mark", "op", "used", "outputs"} => k = Marked
      /\ x.do = "plan" => k[1] \in Kinds \/ k \in {Handles, Info, Marked}
      /\ x.do = "commit" => k[1] \in Kinds \/ k \in {Handles, Marked, PlannerArena}
      /\ x.do = "reset" => k[1] \in Kinds
  <2>1. <<"arena", 0, 0>>[1] \in Kinds /\ <<"allocator", 0, 0>>[1] \in Kinds
    BY DEF Kinds
  <2>2. QED
    BY <1>1, <2>1 DEF Needs
<1>4. x.do \in {"start", "prepare", "lifetimes", "mark", "op", "used", "outputs", "plan", "commit", "reset"}
  BY DEF Needs
<1>5. /\ x.do \in {"start", "prepare", "reset"} => Rank(x) \in {1, 2, 11}
      /\ x.do = "lifetimes" => Rank(x) = 6
      /\ x.do \in {"mark", "op", "used", "outputs"} => Rank(x) = 7
      /\ x.do = "plan" => Rank(x) = 8
      /\ x.do = "commit" => Rank(x) = 9
  BY DEF Rank
<1>6. QED
  BY <1>2, <1>3, <1>4, <1>5

\* The names that may be asked for before the plan.
Asked(k) == k[1] \in Kinds \/ k = Handles

LEMMA PlainHave ==
  ASSUME NEW k, k[1] \in Kinds
  PROVE  /\ Have(k) <=> k \in DOMAIN place
         /\ Have(k)' <=> k \in DOMAIN place'
<1>1. k \notin {Info, PlannerArena, Handles, Marked}
  BY DEF Info, PlannerArena, Handles, Marked, Kinds
<1>2. Have(k) <=> k \in DOMAIN place
  BY <1>1 DEF Have
<1>3. Have(k)' <=> k \in DOMAIN place'
  BY <1>1 DEF Have
<1>4. QED
  BY <1>2, <1>3

(* Up to the lifetimes nothing but buffers is needed later.                *)
LEMMA EarlyKept ==
  ASSUME AllocatorTypes, InStages, NEW items \in Seq(Todo), Advance(items), Onward(items), Rank(todo[1]) \in 1 .. 5,
         \A k \in DOMAIN place : Asked(k) => k \in DOMAIN place',
         Rank(todo[1]) > 3 => requests' = requests
  PROVE  Kept
<1> SUFFICES ASSUME NEW i \in DOMAIN todo, i > 1, NEW k \in Needs(todo[i]), Have(k) PROVE Have(k)'
  BY DEF Kept
<1>0. Ordered(todo) /\ todo # <<>>
  BY DEF InStages, Advance
<1>1. ~Past(5) /\ ~Past(6) /\ ~Past(8)
  BY <1>0, PastFront
<1>2. CASE k[1] \in Kinds
  BY <1>2, PlainHave DEF Asked
<1>3. CASE k = Handles
  <2>1. Past(3)
    BY <1>3 DEF Have
  <2>2. Rank(todo[1]) > 3 /\ Past(3)'
    BY <1>0, <2>1, PastFront, PastStays
  <2>3. requests = <<>> \/ Handles \in DOMAIN place
    BY <1>3 DEF Have
  <2>4. requests' = <<>> \/ Handles \in DOMAIN place'
    BY <2>2, <2>3 DEF Asked
  <2>5. Handles \notin {Info, PlannerArena, Marked}
    BY DEF Handles, Info, PlannerArena, Marked
  <2>6. QED
    BY <1>3, <2>2, <2>4, <2>5 DEF Have
<1>4. CASE k \in {Info, PlannerArena, Marked}
  BY <1>1, <1>4 DEF Have
<1>5. QED
  BY <1>2, <1>3, <1>4, NeedKinds

-----------------------------------------------------------------------------
(* What is whole as the list moves on.                                     *)

LEMMA PastBack ==
  ASSUME AllocatorTypes, InStages, NEW items \in Seq(Todo), Advance(items), Rank(todo[1]) # 1, Past(1)'
  PROVE  Past(1)
<1>1. CASE Rank(todo[1]) = 0
  <2> SUFFICES ASSUME NEW i \in DOMAIN todo PROVE Rank(todo[i]) = 0 \/ Rank(todo[i]) > 1
    BY DEF Past
  <2>1. CASE i = 1
    BY <1>1, <2>1
  <2>2. CASE i > 1
    <3>1. i - 1 + Len(items) \in DOMAIN todo' /\ todo'[i - 1 + Len(items)] = todo[i]
      BY <2>2, Moved
    <3> DEFINE j == i - 1 + Len(items)
    <3> HIDE DEF j
    <3>2. j \in DOMAIN todo' /\ todo'[j] = todo[i]
      BY <3>1 DEF j
    <3>3. QED
      BY <3>2 DEF Past
  <2>3. QED
    BY <2>1, <2>2, TodoFacts DEF Advance
<1>2. CASE Rank(todo[1]) # 0
  <2>1. Rank(todo[1]) \in Nat
    BY RankNat
  <2>2. QED
    BY <1>2, <2>1, PastFront DEF InStages, Advance
<1>3. QED
  BY <1>1, <1>2

LEMMA WholeStays ==
  ASSUME AllocatorTypes, InStages, NEW items \in Seq(Todo), Advance(items), Onward(items), Rank(todo[1]) # 1,
         ~Past(1) => Temps' = {},
         ~Past(2) => TempsWhole',
         ~Past(6) => Layout' /\ PersistentWhole',
         Past(1) /\ ~Past(2) => Room',
         Past(1) /\ ~Past(7) => Slots',
         Past(1) /\ ~Past(9) => Assigned'
  PROVE  Whole'
<1>1. /\ Past(1) => Past(1)'
      /\ Past(2) => Past(2)'
      /\ Past(6) => Past(6)'
      /\ Past(7) => Past(7)'
      /\ Past(9) => Past(9)'
  BY PastStays
<1>2. Past(1)' => Past(1)
  BY PastBack
<1>3. QED
  BY <1>1, <1>2 DEF Whole

\* Nobody finishes any more.
LEMMA NoClosing ==
  ASSUME Past(2), NEW s, NEW o
  PROVE  ~Closing(todo, 0, s, o)
<1>1. \A x : x.do = "finish" => Rank(x) = 2
  BY DEF Rank
<1>2. QED
  BY <1>1 DEF Past, Closing

LEMMA PopClosing ==
  ASSUME AllocatorTypes, todo # <<>>, todo' = Tail(todo), todo[1].do # "finish",
         NEW s, NEW o, Closing(todo, 0, s, o)
  PROVE  Closing(todo, 0, s, o)'
<1>1. PICK j \in DOMAIN todo :
         /\ j > 0 /\ todo[j].do = "finish" /\ todo[j].subgraph = s /\ todo[j].op = o
         /\ \A m \in DOMAIN todo : 0 < m /\ m < j => todo[m].do # "finish"
  BY DEF Closing
<1>2. j - 1 \in DOMAIN todo' /\ todo'[j - 1] = todo[j] /\ j - 1 > 0
  BY <1>1, TodoFacts
<1>3. ASSUME NEW m \in DOMAIN todo', 0 < m, m < j - 1 PROVE todo'[m].do # "finish"
  <2>1. m + 1 \in DOMAIN todo /\ todo'[m] = todo[m + 1] /\ 0 < m + 1 /\ m + 1 < j
    BY <1>1, <1>3, TodoFacts
  <2>2. QED
    BY <1>1, <2>1
<1>4. QED
  BY <1>1, <1>2, <1>3 DEF Closing

LEMMA SameAssigned ==
  ASSUME AllocatorTypes, Assigned, model' = model, requests' = requests, todo # <<>>,
         \/ todo[1].do # "finish" /\ todo' = Tail(todo)
         \/ Past(2)
  PROVE  Assigned'
<1>1. \A s : Ops(s)' = Ops(s)
  BY SameModel
<1> SUFFICES ASSUME NEW k \in DOMAIN requests
             PROVE  \/ requests[k].node \in DOMAIN Ops(requests[k].subgraph)
                    \/ requests[k].node = 0 /\ \E o \in DOMAIN Ops(requests[k].subgraph) : Closing(todo, 0, requests[k].subgraph, o)'
  BY <1>1 DEF Assigned
<1>2. QED
  BY NoClosing, PopClosing DEF Assigned

LEMMA PopEnded ==
  ASSUME AllocatorTypes, Ended, todo # <<>>, NEW items \in Seq(Todo), Advance(items),
         \A i \in DOMAIN items : items[i].do # "start",
         outcome' = outcome, allocating' = allocating
  PROVE  Ended'
<1>1. outcome' = "none"
  BY DEF Ended
<1>2. ASSUME NEW i \in DOMAIN todo', todo'[i].do = "start" PROVE ~allocating
  <2>1. i \notin DOMAIN items
    BY <1>2, Moved
  <2>2. i - Len(items) + 1 \in DOMAIN todo /\ todo'[i] = todo[i - Len(items) + 1]
    BY <2>1, Moved
  <2> DEFINE j == i - Len(items) + 1
  <2> HIDE DEF j
  <2>3. j \in DOMAIN todo /\ todo'[i] = todo[j]
    BY <2>2 DEF j
  <2>4. QED
    BY <1>2, <2>3 DEF Ended
<1>3. QED
  BY <1>1, <1>2 DEF Ended

\* What holds while nothing was refused.
Clean == Ready /\ Whole /\ Ended

LEMMA RestClean ==
  ASSUME Types, InStages, Clean, todo # <<>>, Rest, model' = model, allocating' = allocating,
         Kept, Left(<<>>), Whole'
  PROVE  InStages' /\ Clean'
<1>1. todo' = Tail(todo) /\ AllocatorTypes /\ outcome' = outcome
  BY DEF Rest, Types
<1>2. Advance(<<>>) /\ <<>> \in Seq(Todo)
  BY <1>1, Popped
<1>3. Served(<<>>)
  BY DEF Served
<1>4. Ready'
  BY <1>1, <1>2, <1>3, AdvanceReady DEF Clean
<1>5. Ended'
  <2> DEFINE none == <<>>
  <2>1. none \in Seq(Todo) /\ Advance(none) /\ \A i \in DOMAIN none : none[i].do # "start"
    BY <1>2
  <2> HIDE DEF none
  <2>2. QED
    BY <1>1, <2>1, PopEnded DEF Clean
<1>6. InStages'
  BY <1>1, PopStages
<1>7. QED
  BY <1>4, <1>5, <1>6 DEF Clean

LEMMA EndClean ==
  ASSUME NEW result \in {"ok", "undefined"}, EndsAs(result),
         result = "ok" => Inputs \in DOMAIN place', result = "undefined" => Exception'
  PROVE  InStages' /\ Clean'
<1>1. todo' = <<>> /\ outcome' = result
  BY DEF EndsAs
<1>2. DOMAIN todo' = {}
  BY <1>1
<1>3. InStages'
  BY <1>2 DEF InStages, Ordered, Closed, CommitFirst
<1>4. \A r : Past(r)'
  BY <1>2 DEF Past
<1>5. Whole'
  <2>1. Past(1)' /\ Past(2)' /\ Past(6)' /\ Past(7)' /\ Past(9)'
    BY <1>4
  <2> SUFFICES /\ ~(Past(1)' /\ ~Past(2)') /\ ~(Past(1)' /\ ~Past(7)') /\ ~(Past(1)' /\ ~Past(9)')
    BY <2>1 DEF Whole
  <2>2. QED
    BY <2>1
<1>6. Ready'
  BY <1>2 DEF Ready
<1>7. Ended'
  BY <1>1, <1>2 DEF Ended
<1>8. QED
  BY <1>3, <1>5, <1>6, <1>7 DEF Clean

LEMMA SecondStays ==
  ASSUME NEW S, NEW a \in Seq(S), NEW b \in Seq(S), 2 \in DOMAIN a
  PROVE  a \o b \in Seq(S) /\ 2 \in DOMAIN (a \o b) /\ (a \o b)[2] = a[2]
BY Joined

(* The second item is for the scratch buffer requests.                     *)
LEMMA RequestsSecond ==
  ASSUME model \in Models
  PROVE  2 \in DOMAIN AllocateTensors /\ AllocateTensors[2].do = "requests"
<1> DEFINE evalBytes(s) == SizeOf.TfLiteEvalTensor * Len(model[s].tensors)
           nodeBytes(s) == SizeOf.NodeAndRegistration * Len(Ops(s))
           bytes == SizeOf.SubgraphAllocations * Len(model)
           evals == [s \in Subgraphs |-> Persistent(<<"eval", s, 0>>, evalBytes(s), 1, "null")]
           nodes == [s \in Subgraphs |-> Persistent(<<"nodes", s, 0>>, nodeBytes(s), 1, "null")]
           p == Persistent(<<"builtin", 0, 0>>, SizeOf.MicroBuiltinDataAllocator, 1, "undefined")
           q == Persistent(<<"subgraphs", 0, 0>>, bytes, 1, "null")
           front == <<p, Step("requests"), q>>
           in == PersistentTensors(Inputs, "input", model[1].inputs)
           out == PersistentTensors(<<"outputs", 0, 0>>, "output", model[1].outputs)
           r == <<Step("reset")>>
<1>1. StartModel = (front \o evals) \o nodes
  BY DEF StartModel
<1>2. bytes \in Nat /\ \A s \in Subgraphs : s \in Nat /\ evalBytes(s) \in Nat /\ nodeBytes(s) \in Nat
  BY ArrayBytes
<1> HIDE DEF evalBytes, nodeBytes, bytes
<1>3. front \in Seq(Item) /\ 2 \in DOMAIN front /\ front[2] = Step("requests")
  <2>1. p \in Item /\ q \in Item /\ Step("requests") \in Item
    BY <1>2, SizeFacts, PersistentItem, StepItem DEF Kinds
  <2> HIDE DEF p, q
  <2>2. QED
    BY <2>1
<1>4. evals \in Seq(Item) /\ nodes \in Seq(Item)
  <2>1. /\ evals = [s \in 1 .. Len(model) |-> evals[s]]
        /\ nodes = [s \in 1 .. Len(model) |-> nodes[s]]
    BY ModelFacts
  <2>2. \A s \in Subgraphs : /\ Persistent(<<"eval", s, 0>>, evalBytes(s), 1, "null") \in Item
                            /\ Persistent(<<"nodes", s, 0>>, nodeBytes(s), 1, "null") \in Item
    BY <1>2, PersistentItem DEF Kinds
  <2>3. \A s \in Subgraphs : evals[s] \in Item /\ nodes[s] \in Item
    BY <2>2
  <2> HIDE DEF evals, nodes
  <2>4. QED
    BY <2>1, <2>3, ModelFacts, ListOf
<1>5. in \in Seq(Item) /\ out \in Seq(Item)
  BY ModelFacts, TensorItems DEF Inputs, Kinds
<1>6. r \in Seq(Item)
  BY StepItem
<1>7. AllocateTensors = (((((StartModel \o InitOps) \o PrepareOps) \o FinishModel) \o in) \o out) \o r
  BY DEF AllocateTensors
<1> HIDE DEF front, evals, nodes, in, out, r
<1>8. 2 \in DOMAIN StartModel /\ StartModel[2] = Step("requests") /\ StartModel \in Seq(Item)
  <2>1. front \o evals \in Seq(Item) /\ 2 \in DOMAIN (front \o evals) /\ (front \o evals)[2] = front[2]
    BY <1>3, <1>4, SecondStays
  <2>2. (front \o evals) \o nodes \in Seq(Item) /\ 2 \in DOMAIN ((front \o evals) \o nodes)
        /\ ((front \o evals) \o nodes)[2] = (front \o evals)[2]
    BY <1>4, <2>1, SecondStays
  <2>3. QED
    BY <1>1, <1>3, <2>1, <2>2
<1> DEFINE a == StartModel \o InitOps
           b == a \o PrepareOps
           c == b \o FinishModel
           d == c \o in
           e == d \o out
           f == e \o r
<1>9. a \in Seq(Item) /\ 2 \in DOMAIN a /\ a[2] = Step("requests")
  BY <1>8, InitItems, SecondStays
<1> HIDE DEF a
<1>10. b \in Seq(Item) /\ 2 \in DOMAIN b /\ b[2] = Step("requests")
  BY <1>9, PrepareItems, SecondStays
<1> HIDE DEF b
<1>11. c \in Seq(Item) /\ 2 \in DOMAIN c /\ c[2] = Step("requests")
  BY <1>10, FinishItems, SecondStays
<1> HIDE DEF c
<1>12. d \in Seq(Item) /\ 2 \in DOMAIN d /\ d[2] = Step("requests")
  BY <1>5, <1>11, SecondStays
<1> HIDE DEF d
<1>13. e \in Seq(Item) /\ 2 \in DOMAIN e /\ e[2] = Step("requests")
  BY <1>5, <1>12, SecondStays
<1> HIDE DEF e
<1>14. 2 \in DOMAIN f /\ f[2] = Step("requests")
  BY <1>6, <1>13, SecondStays
<1>15. f = AllocateTensors
  BY <1>7 DEF a, b, c, d, e
<1> HIDE DEF f
<1>16. QED
  BY <1>14, <1>15 DEF Step

LEMMA StartClean ==
  ASSUME Types, InStages, Clean, StartModelAllocation
  PROVE  InStages' /\ Clean'
<1> DEFINE l == AllocateTensors
<1>1. /\ AllocatorTypes /\ todo # <<>> /\ todo[1].do = "start" /\ 1 \in DOMAIN todo
      /\ model \in Models /\ InStages /\ Ordered(todo)
  BY TodoFacts DEF StartModelAllocation, At, Types, InStages, AllocatorTypes
<1>2. todo' = l /\ allocating' = TRUE /\ outcome' = outcome
  BY <1>1 DEF StartModelAllocation, Clean, Ended
<1>3. model' = model /\ requests' = requests /\ UNCHANGED arena
  BY DEF StartModelAllocation
<1>4. l \in Seq(Item) /\ Segment(l, Stages, Constructed) /\ 2 \in DOMAIN l /\ l[2].do = "requests"
      /\ \A i \in DOMAIN l : l[i] \in Item
  BY <1>1, AllItems, AllSegment, RequestsSecond
<1>5. \A i \in DOMAIN l : l[i].do # "commit"
  BY <1>4 DEF Item, PersistentType, TemporaryType, StepType, OpType, MarkType
<1> HIDE DEF l
<1>6. InStages'
  <2>1. Ordered(todo)' /\ Closed(todo)'
    BY <1>2, <1>4 DEF Segment, Ordered, Closed, Closing
  <2>2. QED
    BY <1>2, <1>5, <2>1 DEF InStages, CommitFirst
<1>7. Rank(l[2]) = 1 /\ \A x : x.do = "start" => Rank(x) = 1
  BY <1>4 DEF Rank
<1>8. ASSUME NEW i \in DOMAIN l PROVE l[i].do # "start"
  <2> SUFFICES ASSUME l[i].do = "start" PROVE FALSE
    OBVIOUS
  <2>1. i # 2 /\ (i < 2 \/ 2 < i) /\ Rank(l[i]) = 1
    BY <1>4, <1>7
  <2>2. QED
    BY <1>4, <1>7, <2>1 DEF Segment, Ordered, Follows
<1>9. \A k \in Constructed : k \in DOMAIN place /\ k[1] \in Kinds
  <2>1. ASSUME NEW k \in Constructed PROVE Have(k)
    <3>1. k \in Needs(todo[1])
      BY <1>1 DEF Needs, Constructed
    <3>2. DOMAIN todo = 1 .. Len(todo) /\ Len(todo) \in Nat
      BY <1>1, TodoFacts
    <3>3. QED
      BY <1>1, <3>1, <3>2 DEF Clean, Ready
  <2>2. \A k \in Constructed : k[1] \in Kinds
    BY DEF Constructed, Kinds
  <2>3. QED
    BY <2>1, <2>2, PlainHave
<1>10. Ready'
  <2>1. \A x : Needs(x)' = Needs(x) /\ Gives(x)' = Gives(x)
    BY <1>3, SameNeeds
  <2>2. \A k \in Constructed : Have(k)'
    BY <1>3, <1>9, PlainHave DEF arena
  <2>3. QED
    BY <1>2, <1>4, <2>1, <2>2 DEF Ready, Segment
<1>11. Whole'
  <2>1. Rank(todo[1]) = 1
    BY <1>1 DEF Rank
  <2>2. ~Past(1) /\ ~Past(2) /\ ~Past(6)
    BY <1>1, <2>1, PastFront
  <2>3. ~Past(1)'
    BY <1>2, <1>4, <1>7 DEF Past
  <2>4. Temps = {} /\ TempsWhole /\ Layout /\ PersistentWhole
    BY <2>2 DEF Clean, Whole
  <2>5. Temps' = {} /\ TempsWhole' /\ Layout' /\ PersistentWhole'
    BY <1>3, <2>4 DEF arena, Temps, TempsWhole, Layout, PersistentWhole
  <2>6. QED
    BY <2>3, <2>5 DEF Whole
<1>12. Ended'
  <2>1. outcome = "none"
    BY <1>1 DEF Clean, Ended
  <2>2. QED
    BY <1>2, <1>8, <2>1 DEF Ended
<1>13. QED
  BY <1>6, <1>10, <1>11, <1>12 DEF Clean

-----------------------------------------------------------------------------
(* Persistent buffers are handed out below all that is in use.             *)

LEMMA Multiple ==
  ASSUME NEW p \in Int, NEW a \in Nat \ {0}
  PROVE  /\ (p \div a) * a <= p /\ p < (p \div a) * a + a
         /\ (p \div a) * a \in Int
BY SMTT(20)

LEMMA AlignBounds ==
  ASSUME NEW p \in Int, NEW a \in Nat \ {0}
  PROVE  /\ AlignUp(p, a) \in Int /\ p <= AlignUp(p, a)
         /\ AlignDown(p, a) \in Int /\ AlignDown(p, a) <= p
<1> DEFINE q == p + a - 1
           u == (q \div a) * a
<1>1. q \in Int /\ u = AlignUp(p, a) /\ AlignDown(p, a) = (p \div a) * a
  BY DEF AlignUp, AlignDown
<1> HIDE DEF q
<1>2. u <= q /\ q < u + a /\ u \in Int
  BY <1>1, Multiple
<1>3. (p \div a) * a <= p /\ (p \div a) * a \in Int
  BY Multiple
<1> HIDE DEF u
<1>4. p <= u
  BY <1>2 DEF q
<1>5. QED
  BY <1>1, <1>2, <1>3, <1>4

LEMMA AlignOne ==
  ASSUME NEW p \in Int
  PROVE  AlignUp(p, 1) = p
BY DEF AlignUp

(* A buffer that is handed out at [lo, hi) leaves what it does not meet.   *)
Handed(n, lo, hi, fill) ==
  /\ DOMAIN place' = DOMAIN place \cup {n}
  /\ place'[n].lo = lo /\ place'[n].hi = hi
  /\ \A m \in DOMAIN place : m # n => place'[m] = place[m]
  /\ fill => n \in held'
  /\ \A m \in held : m # n /\ (place[m].hi <= lo \/ hi <= place[m].lo) => m \in held'

LEMMA HandedOut ==
  ASSUME ArenaTypeOK, NEW n, NEW lo \in Int, NEW hi \in Int, NEW fill \in BOOLEAN, HandOut(n, lo, hi, fill)
  PROVE  Handed(n, lo, hi, fill)
<1> DEFINE x == [lo |-> lo, hi |-> hi]
<1>1. /\ place' = [m \in DOMAIN place \cup {n} |-> IF m = n THEN x ELSE place[m]]
      /\ held' = IF fill THEN {m \in held \ {n} : ~Meet(place[m], x)} \cup {n} ELSE held \ {n}
  BY DEF HandOut
<1>2. x.lo = lo /\ x.hi = hi
  OBVIOUS
<1> HIDE DEF x
<1>3. \A m \in held : place[m].lo \in Int /\ place[m].hi \in Int
  BY DEF ArenaTypeOK
<1>4. \A m \in held : place[m].hi <= lo \/ hi <= place[m].lo => ~Meet(place[m], x)
  BY <1>2, <1>3 DEF Meet
<1>5. \A m \in held : m # n /\ (place[m].hi <= lo \/ hi <= place[m].lo) => m \in held'
  BY <1>1, <1>4
<1>6. fill => n \in held'
  BY <1>1
<1>7. /\ DOMAIN place' = DOMAIN place \cup {n} /\ place'[n] = x
      /\ \A m \in DOMAIN place : m # n => place'[m] = place[m]
  BY <1>1
<1>8. QED
  BY <1>2, <1>5, <1>6, <1>7 DEF Handed

LEMMA ReachedStays ==
  ASSUME model' = model, NEW R \in SUBSET Subgraphs, Reached(R),
         \A s, o : OpPending(s, o) => OpPending(s, o)',
         \A s : MarkPending(s) => MarkPending(s)',
         \A s, o : ScratchMarked(s, o) => ScratchMarked(s, o)'
  PROVE  Reached(R)'
<1>1. \A s : Ops(s)' = Ops(s)
  BY SameModel
<1>2. 1 \in R \/ MarkPending(1)'
  BY DEF Reached
<1>3. ASSUME NEW s \in R, NEW o \in DOMAIN Ops(s)
      PROVE  \/ OpPending(s, o)'
             \/ ScratchMarked(s, o)' /\ \A s2 \in Range(Ops(s)[o].calls) : s2 \in R \/ MarkPending(s2)'
  BY DEF Reached
<1>4. QED
  BY <1>1, <1>2, <1>3 DEF Reached

LEMMA PendingStays ==
  ASSUME AllocatorTypes, NEW items \in Seq(Todo), Advance(items)
  PROVE  /\ todo[1].do # "op" => \A s, o : OpPending(s, o) => OpPending(s, o)'
         /\ todo[1].do # "mark" => \A s : MarkPending(s) => MarkPending(s)'
<1>1. ASSUME NEW i \in DOMAIN todo, i # 1 PROVE \E j \in DOMAIN todo' : todo'[j] = todo[i]
  <2>1. i > 1
    BY <1>1, TodoFacts DEF Advance
  <2>2. i - 1 + Len(items) \in DOMAIN todo' /\ todo'[i - 1 + Len(items)] = todo[i]
    BY <2>1, Moved
  <2>3. QED
    BY <2>2
<1>2. QED
  BY <1>1 DEF OpPending, MarkPending

LEMMA SameMarked ==
  ASSUME infos' = infos, requests' = requests
  PROVE  /\ \A s, o : ScratchMarked(s, o) => ScratchMarked(s, o)'
         /\ model' = model /\ InfosMatch => InfosMatch'
<1>1. \A s, o : ScratchMarked(s, o) => ScratchMarked(s, o)'
  BY DEF ScratchMarked, ScratchOf
<1>2. model' = model /\ InfosMatch => InfosMatch'
  BY SameNeeds DEF InfosMatch, PlannedNames
<1>3. QED
  BY <1>1, <1>2

\* The arena's bounds as a persistent buffer n is handed out.
Lower(n) ==
  /\ head' = head /\ temp' = temp
  /\ tail' \in Int /\ head <= tail' /\ AlignUp(temp, BufferAlign) <= tail' /\ tail' <= tail
  /\ n[1] \in Kinds \cup {"handles"}
  /\ Handed(n, tail', place'[n].hi, n[1] \notin {"tensor", "handles"})
  /\ place'[n].hi \in Int /\ place'[n].hi <= tail

LEMMA KindNames ==
  ASSUME NEW n, n[1] \in Kinds \cup {"handles"}
  PROVE  /\ n # Info /\ n # PlannerArena /\ ~IsTemp(n) /\ \A k : n # Request(k)
         /\ n # Marked
BY DEF Kinds, Info, PlannerArena, IsTemp, Request, Marked

LEMMA LowerWhole ==
  ASSUME ArenaTypeOK, NEW n, Lower(n), requests' = requests
  PROVE  /\ Temps' = Temps
         /\ TempsWhole => TempsWhole'
         /\ Layout => Layout'
         /\ PersistentWhole => PersistentWhole'
         /\ Slots => Slots'
         /\ Room => Room'
         /\ InfoRoom => InfoRoom'
         /\ InfoRoom /\ Info \in held => Info \in held'
<1>1. /\ head \in Int /\ tail \in Int /\ temp \in Int /\ tail' \in Int /\ BufferAlign \in Nat \ {0}
      /\ \A m \in DOMAIN place : place[m].lo \in Int /\ place[m].hi \in Int
      /\ held \subseteq DOMAIN place
  BY ArenaAssumption DEF ArenaTypeOK, Lower
<1>2. temp <= AlignUp(temp, BufferAlign) /\ AlignUp(temp, BufferAlign) \in Int
  BY <1>1, AlignBounds
<1>3. temp <= tail' /\ head <= tail' /\ tail' <= tail /\ head' = head /\ temp' = temp
  BY <1>1, <1>2 DEF Lower
<1> DEFINE fill == n[1] \notin {"tensor", "handles"}
           top == place'[n].hi
<1>4. /\ DOMAIN place' = DOMAIN place \cup {n}
      /\ place'[n].lo = tail' /\ top <= tail
      /\ \A m \in DOMAIN place : m # n => place'[m] = place[m]
      /\ fill => n \in held'
      /\ \A m \in held : m # n /\ (place[m].hi <= tail' \/ top <= place[m].lo) => m \in held'
  BY DEF Lower, Handed
<1>5. n # Info /\ ~IsTemp(n) /\ \A k : n # Request(k)
  BY KindNames DEF Lower
<1>6. IsTensor(n) <=> n[1] = "tensor"
  BY DEF IsTensor
<1>7. n[1] \in Kinds => n[1] # "handles"
  BY DEF Kinds
<1>8. fill \/ n[1] \in {"tensor", "handles"}
  OBVIOUS
<1> HIDE DEF fill
<1>9. Temps' = Temps
  BY <1>4, <1>5 DEF Temps
<1>10. TempsWhole => TempsWhole'
  <2> SUFFICES ASSUME TempsWhole, NEW m \in Temps PROVE m \in held' /\ head' <= place'[m].lo /\ place'[m].hi <= temp'
    BY <1>9 DEF TempsWhole
  <2>1. m \in held /\ head <= place[m].lo /\ place[m].hi <= temp /\ m # n /\ m \in DOMAIN place
    BY <1>5 DEF TempsWhole, Temps
  <2>2. place[m].hi <= tail'
    BY <1>1, <1>3, <2>1
  <2>3. QED
    BY <1>3, <1>4, <2>1, <2>2
<1>11. Layout => Layout'
  BY <1>3 DEF Layout
<1>12. PersistentWhole => PersistentWhole'
  <2> SUFFICES ASSUME PersistentWhole, NEW m \in DOMAIN place', m[1] \in Kinds
               PROVE  place'[m].lo >= tail' /\ (m \in held' \/ IsTensor(m))
    BY DEF PersistentWhole
  <2>1. CASE m = n
    BY <1>1, <1>4, <1>6, <1>7, <1>8, <2>1
  <2>2. CASE m # n
    <3>1. m \in DOMAIN place /\ place[m].lo >= tail /\ (m \in held \/ IsTensor(m)) /\ place'[m] = place[m]
      BY <1>4, <2>2 DEF PersistentWhole
    <3>2. top <= place[m].lo
      <4>1. top <= tail /\ tail <= place[m].lo
        BY <1>1, <1>4, <3>1
      <4>2. top \in Int
        BY DEF Lower
      <4>3. QED
        BY <1>1, <3>1, <4>1, <4>2
    <3>3. QED
      BY <1>1, <1>3, <1>4, <2>2, <3>1, <3>2
  <2>3. QED
    BY <2>1, <2>2
<1>13. Slots => Slots'
  <2> SUFFICES ASSUME Slots, NEW k \in DOMAIN requests
               PROVE  /\ Request(k) \in held' /\ place'[Request(k)] = place[Request(k)]
    BY <1>3 DEF Slots
  <2>1. Request(k) \in held /\ place[Request(k)].hi <= head
    BY DEF Slots
  <2>2. Request(k) \in DOMAIN place /\ Request(k) # n
    BY <1>1, <1>5, <2>1
  <2>3. place[Request(k)].hi <= tail'
    BY <1>1, <1>3, <2>1, <2>2
  <2>4. QED
    BY <1>4, <2>1, <2>2, <2>3
<1>14. Room => Room'
  BY <1>3 DEF Room, Unassigned
<1>15. InfoRoom => InfoRoom'
  BY <1>3, <1>4, <1>5 DEF InfoRoom
<1>16. InfoRoom /\ Info \in held => Info \in held'
  <2> SUFFICES ASSUME InfoRoom, Info \in held PROVE Info \in held'
    OBVIOUS
  <2>1. place[Info].hi <= tail'
    BY <1>1, <1>3 DEF InfoRoom
  <2>2. QED
    BY <1>4, <1>5, <2>1
<1>17. QED
  BY <1>9, <1>10, <1>11, <1>12, <1>13, <1>14, <1>15, <1>16

LEMMA PopWhole ==
  ASSUME AllocatorTypes, InStages, todo # <<>>, todo' = Tail(todo), Rank(todo[1]) # 1,
         ~Past(1) => Temps' = {},
         ~Past(2) => TempsWhole',
         ~Past(6) => Layout' /\ PersistentWhole',
         Past(1) /\ ~Past(2) => Room',
         Past(1) /\ ~Past(7) => Slots',
         Past(1) /\ ~Past(9) => Assigned'
  PROVE  Whole'
<1> DEFINE none == <<>>
<1>1. Advance(none) /\ none \in Seq(Todo) /\ Onward(none)
  BY Popped
<1> HIDE DEF none
<1>2. QED
  BY <1>1, WholeStays

LEMMA PersistentLower ==
  ASSUME ArenaTypeOK, NEW n, NEW bytes \in Nat, NEW align \in Nat \ {0}, NEW fill \in BOOLEAN,
         n[1] \in Kinds \cup {"handles"}, fill = (n[1] \notin {"tensor", "handles"}),
         AllocatePersistentBuffer(n, bytes, align, fill), Watch, ~short'
  PROVE  Lower(n)
<1> DEFINE lo == PersistentAt(bytes, align)
<1>1. /\ lo \in Int /\ lo <= tail - bytes /\ tail \in Int
  <2>1. tail \in Int /\ tail - bytes \in Int
    BY DEF ArenaTypeOK
  <2>2. QED
    BY <2>1, AlignBounds DEF PersistentAt
<1>2. /\ head <= lo /\ tail' = lo /\ HandOut(n, lo, lo + bytes, fill) /\ head' = head /\ temp' = temp
  BY DEF AllocatePersistentBuffer, PersistentFits
<1>3. AlignUp(temp, BufferAlign) <= tail'
  <2>1. temp \in Int /\ BufferAlign \in Nat \ {0} /\ AlignUp(temp, BufferAlign) \in Int
    BY ArenaAssumption, AlignTypes DEF ArenaTypeOK
  <2>2. AlignUp(temp', BufferAlign) = AlignUp(temp, BufferAlign)
    BY <1>2
  <2>3. ~(tail' < AlignUp(temp', BufferAlign))
    BY DEF Watch
  <2> DEFINE u == AlignUp(temp, BufferAlign)
  <2>4. ~(tail' < u) /\ u \in Int
    BY <2>1, <2>2, <2>3
  <2> HIDE DEF u
  <2>5. u <= tail'
    BY <1>1, <1>2, <2>4
  <2>6. QED
    BY <2>5 DEF u
<1> HIDE DEF lo
<1>4. lo + bytes \in Int /\ lo + bytes <= tail /\ lo <= tail
  BY <1>1
<1>5. Handed(n, lo, lo + bytes, fill)
  BY <1>1, <1>2, <1>4, HandedOut
<1>6. place'[n].hi = lo + bytes
  BY <1>5 DEF Handed
<1>7. Handed(n, tail', place'[n].hi, n[1] \notin {"tensor", "handles"})
  BY <1>2, <1>5, <1>6 DEF Handed
<1>8. QED
  BY <1>1, <1>2, <1>3, <1>4, <1>6, <1>7 DEF Lower

LEMMA TailClean ==
  ASSUME Types, InStages, Clean, AllocateTail, ~short'
  PROVE  InStages' /\ Clean'
<1> DEFINE n == todo[1].name
           fill == ~IsTensor(n)
<1>1. /\ AllocatorTypes /\ ArenaTypeOK /\ todo # <<>> /\ todo[1].do = "persistent" /\ todo[1] \in PersistentType
      /\ UNCHANGED book /\ UNCHANGED planner /\ InStages /\ Ready /\ Whole
  BY ItemKinds DEF AllocateTail, At, Types, Clean
<1>2. todo[1].bytes \in Nat /\ todo[1].align \in Nat \ {0} /\ n \in PersistentNames
  BY <1>1 DEF PersistentType
<1>3. n[1] \in Kinds /\ fill \in BOOLEAN
  BY <1>2 DEF PersistentNames
<1>4. AllocatePersistentBuffer(n, todo[1].bytes, todo[1].align, fill) /\ Rest /\ Watch
  BY DEF AllocateTail, Refused
<1>5. fill = (n[1] \notin {"tensor", "handles"})
  <2>1. n[1] # "handles"
    BY <1>3 DEF Kinds
  <2>2. QED
    BY <2>1 DEF IsTensor
<1> HIDE DEF n, fill
<1>6. Lower(n)
  BY <1>1, <1>2, <1>3, <1>4, <1>5, PersistentLower
<1>7. /\ model' = model /\ requests' = requests /\ infos' = infos /\ scope' = scope /\ allocating' = allocating
      /\ bufferCount' = bufferCount /\ todo' = Tail(todo)
  BY <1>1, <1>4 DEF book, planner, client, Rest
<1>8. Advance(<<>>) /\ <<>> \in Seq(Todo) /\ Onward(<<>>)
  BY <1>1, <1>7, Popped
<1>9. /\ Rank(todo[1]) = 0 /\ Gives(todo[1]) = {n}
  BY <1>1, PlainRank DEF n
<1>10. /\ Temps' = Temps
       /\ TempsWhole => TempsWhole'
       /\ Layout => Layout'
       /\ PersistentWhole => PersistentWhole'
       /\ Slots => Slots'
       /\ Room => Room'
       /\ InfoRoom => InfoRoom'
       /\ InfoRoom /\ Info \in held => Info \in held'
  BY <1>1, <1>6, <1>7, LowerWhole
<1>11. Assigned => Assigned'
  BY <1>1, <1>7, SameAssigned
<1>12. Whole'
  <2>1. /\ ~Past(1) => Temps' = {}
        /\ ~Past(2) => TempsWhole'
        /\ ~Past(6) => Layout' /\ PersistentWhole'
        /\ Past(1) /\ ~Past(2) => Room'
        /\ Past(1) /\ ~Past(7) => Slots'
        /\ Past(1) /\ ~Past(9) => Assigned'
    BY <1>1, <1>10, <1>11 DEF Whole
  <2>2. Rank(todo[1]) # 1
    BY <1>9
  <2>3. QED
    BY <1>1, <1>7, <2>1, <2>2, PopWhole
<1>13. Left(<<>>)
  <2>1. n \in DOMAIN place'
    BY <1>6 DEF Lower, Handed
  <2>2. QED
    BY <1>3, <1>9, <2>1, PlainHave DEF Left
<1>14. DOMAIN place \subseteq DOMAIN place'
  BY <1>6 DEF Lower, Handed
<1>15. Kept
  <2> SUFFICES ASSUME NEW i \in DOMAIN todo, i > 1, NEW k \in Needs(todo[i]), Have(k) PROVE Have(k)'
    BY DEF Kept
  <2>1. CASE k[1] \in Kinds
    BY <1>14, <2>1, PlainHave
  <2>2. CASE k = Handles
    <3>1. Past(3) /\ (requests = <<>> \/ Handles \in DOMAIN place)
      BY <2>2 DEF Have
    <3>2. Past(3)'
      BY <1>1, <1>8, <3>1, PastStays
    <3>3. Handles \notin {Info, PlannerArena, Marked}
      BY DEF Handles, Info, PlannerArena, Marked
    <3>4. QED
      BY <1>7, <1>14, <2>2, <3>1, <3>2, <3>3 DEF Have
  <2>3. CASE k = Info
    <3>1. Past(5) /\ InfoRoom
      BY <2>3 DEF Have
    <3>2. Past(5)'
      BY <1>1, <1>8, <3>1, PastStays
    <3>3. Info \notin {Handles, PlannerArena, Marked}
      BY DEF Handles, Info, PlannerArena, Marked
    <3>4. AlignUp(temp', BufferAlign) <= tail'
      BY <1>6 DEF Lower
    <3>5. QED
      BY <1>10, <2>3, <3>1, <3>2, <3>3, <3>4 DEF Have
  <2>4. CASE k = Marked
    <3>1. Past(6) /\ Marking
      BY <2>4 DEF Have
    <3>2. Past(6)'
      BY <1>1, <1>8, <3>1, PastStays
    <3>3. Marked \notin {Handles, PlannerArena, Info}
      BY DEF Handles, Info, PlannerArena, Marked
    <3>4. PICK R \in SUBSET Subgraphs : Reached(R)
      BY <3>1 DEF Marking
    <3>5. Reached(R)'
      BY <1>1, <1>7, <1>8, <3>4, PendingStays, SameMarked, ReachedStays
    <3>6. R \in SUBSET Subgraphs'
      BY <1>7, SameModel
    <3>7. Marking'
      BY <1>7, <1>10, <3>1, <3>5, <3>6, SameMarked DEF Marking
    <3>8. QED
      BY <2>4, <3>2, <3>3, <3>7 DEF Have
  <2>5. CASE k = PlannerArena
    BY <2>5, NeedKinds DEF InStages, CommitFirst
  <2>6. QED
    BY <2>1, <2>2, <2>3, <2>4, <2>5, NeedKinds
<1>16. QED
  BY <1>1, <1>4, <1>7, <1>12, <1>13, <1>15, RestClean

-----------------------------------------------------------------------------
(* The steps up to the lifetimes.                                          *)

LEMMA FrontHas ==
  ASSUME AllocatorTypes, Ready, todo # <<>>, NEW k \in Needs(todo[1])
  PROVE  Have(k)
<1>1. 1 \in DOMAIN todo /\ DOMAIN todo = 1 .. Len(todo) /\ Len(todo) \in Nat
  BY TodoFacts
<1>2. \A j \in DOMAIN todo : ~(j < 1)
  BY <1>1
<1>3. QED
  BY <1>1, <1>2 DEF Ready

LEMMA StructureHeld ==
  ASSUME PersistentWhole, NEW k, k[1] \in Kinds, k[1] # "tensor", Have(k)
  PROVE  k \in held
<1>1. k \in DOMAIN place
  BY PlainHave
<1>2. QED
  BY <1>1 DEF PersistentWhole, IsTensor

LEMMA NoGarbage ==
  ASSUME NEW names, ReadsGarbage(names), \A k \in names : k \in held
  PROVE  FALSE
BY DEF ReadsGarbage, Garbled

LEMMA SameArena ==
  ASSUME UNCHANGED arena
  PROVE  /\ Temps' = Temps
         /\ TempsWhole => TempsWhole'
         /\ Layout => Layout'
         /\ PersistentWhole => PersistentWhole'
         /\ InfoRoom => InfoRoom'
         /\ requests' = requests /\ Slots => Slots'
         /\ requests' = requests /\ Room => Room'
<1>1. /\ size' = size /\ head' = head /\ tail' = tail /\ temp' = temp /\ place' = place /\ held' = held
  BY DEF arena
<1>2. Temps' = Temps
  BY <1>1 DEF Temps
<1>3. TempsWhole => TempsWhole'
  BY <1>1, <1>2 DEF TempsWhole
<1>4. Layout => Layout'
  BY <1>1 DEF Layout
<1>5. PersistentWhole => PersistentWhole'
  BY <1>1 DEF PersistentWhole
<1>6. InfoRoom => InfoRoom'
  BY <1>1 DEF InfoRoom
<1>7. requests' = requests /\ Slots => Slots'
  BY <1>1 DEF Slots
<1>8. requests' = requests /\ Room => Room'
  BY <1>1 DEF Room, Unassigned
<1>9. QED
  BY <1>2, <1>3, <1>4, <1>5, <1>6, <1>7, <1>8

\* What is whole before the first of the list, if it is of stage r.
WholeAt(r) ==
  /\ r <= 1 => Temps = {}
  /\ r <= 2 => TempsWhole
  /\ r <= 6 => Layout /\ PersistentWhole
  /\ r = 2 => Room
  /\ 1 < r /\ r <= 7 => Slots
  /\ 1 < r /\ r <= 9 => Assigned

LEMMA FrontWhole ==
  ASSUME Types, InStages, Clean, todo # <<>>, NEW r \in 1 .. 11, Rank(todo[1]) = r
  PROVE  /\ AllocatorTypes /\ ArenaTypeOK /\ Ready /\ Whole /\ Ended
         /\ WholeAt(r)
         /\ \A q \in Nat : Past(q) <=> q < r
<1>1. AllocatorTypes /\ ArenaTypeOK /\ Ready /\ Whole /\ Ended /\ Ordered(todo) /\ r # 0
  BY DEF Types, Clean, InStages
<1>2. \A q \in Nat : Past(q) <=> q < r
  BY <1>1, PastFront
<1>3. /\ Past(1) <=> 1 < r
      /\ Past(2) <=> 2 < r
      /\ Past(6) <=> 6 < r
      /\ Past(7) <=> 7 < r
      /\ Past(9) <=> 9 < r
  BY <1>2
<1>4. WholeAt(r)
  BY <1>1, <1>3 DEF Whole, WholeAt
<1>5. QED
  BY <1>1, <1>2, <1>4

LEMMA SameWhole ==
  ASSUME Types, InStages, Clean, todo # <<>>, todo' = Tail(todo), Rank(todo[1]) # 1, todo[1].do # "finish",
         model' = model, requests' = requests, UNCHANGED arena
  PROVE  Whole'
<1>1. AllocatorTypes /\ Whole
  BY DEF Types, Clean
<1>2. Assigned => Assigned'
  BY <1>1, SameAssigned
<1>3. /\ ~Past(1) => Temps' = {}
      /\ ~Past(2) => TempsWhole'
      /\ ~Past(6) => Layout' /\ PersistentWhole'
      /\ Past(1) /\ ~Past(2) => Room'
      /\ Past(1) /\ ~Past(7) => Slots'
      /\ Past(1) /\ ~Past(9) => Assigned'
  BY <1>1, <1>2, SameArena DEF Whole
<1>4. QED
  BY <1>1, <1>3, PopWhole

(* A step of the first stages that takes an item away.                     *)
LEMMA EarlyClean ==
  ASSUME Types, InStages, Clean, todo # <<>>, Rest, model' = model, allocating' = allocating,
         Rank(todo[1]) \in 1 .. 5, \A k \in DOMAIN place : Asked(k) => k \in DOMAIN place',
         Rank(todo[1]) > 3 => requests' = requests,
         Left(<<>>), Whole'
  PROVE  InStages' /\ Clean'
<1>1. AllocatorTypes /\ todo' = Tail(todo)
  BY DEF Rest, Types
<1> DEFINE none == <<>>
<1>2. none \in Seq(Todo) /\ Advance(none) /\ Onward(none)
  BY <1>1, Popped
<1> HIDE DEF none
<1>3. Kept
  BY <1>1, <1>2, EarlyKept
<1>4. QED
  BY <1>3, RestClean

LEMMA PrepareClean ==
  ASSUME Types, InStages, Clean, PrepareNode
  PROVE  InStages' /\ Clean'
<1> DEFINE read == Structures \cup NodeOf(todo[1].subgraph, todo[1].op)
           r == 2
<1>1. todo # <<>> /\ todo[1].do = "prepare" /\ Rank(todo[1]) = 2
  BY DEF PrepareNode, At, Rank
<1>2. /\ AllocatorTypes /\ ArenaTypeOK /\ Ready /\ PersistentWhole
  <2>1. r \in 1 .. 11 /\ Rank(todo[1]) = r /\ r <= 6
    BY <1>1
  <2> HIDE DEF r
  <2>2. WholeAt(r) /\ AllocatorTypes /\ ArenaTypeOK /\ Ready
    BY <1>1, <2>1, FrontWhole
  <2>3. QED
    BY <2>1, <2>2 DEF WholeAt
<1>3. ASSUME NEW k \in read PROVE k \in held
  <2>1. k \in Needs(todo[1])
    BY <1>1, <1>3 DEF Needs
  <2>2. Have(k)
    BY <1>1, <1>2, <2>1, FrontHas
  <2>3. k[1] \in Kinds /\ k[1] # "tensor"
    BY <1>3 DEF Structures, NodeOf, Kinds
  <2>4. QED
    BY <1>2, <2>2, <2>3, StructureHeld
<1> HIDE DEF read
<1>4. ~ReadsGarbage(read)
  BY <1>3, NoGarbage
<1>5. Rest /\ UNCHANGED <<book, arena, planner, short>>
  BY <1>4 DEF PrepareNode, read
<1>6. /\ model' = model /\ requests' = requests /\ allocating' = allocating /\ UNCHANGED arena
      /\ todo' = Tail(todo) /\ place' = place
  BY <1>5 DEF book, Rest, arena
<1>7. Whole'
  BY <1>1, <1>6, SameWhole
<1>8. Left(<<>>)
  BY <1>1 DEF Left, Gives
<1>9. QED
  BY <1>1, <1>5, <1>6, <1>7, <1>8, EarlyClean

\* The arena's bounds as a temporary buffer n is handed out.
Upper(n) ==
  /\ head' = head /\ tail' = tail
  /\ temp' \in Int /\ temp <= temp' /\ temp' <= tail
  /\ n[1] = "temp"
  /\ Handed(n, temp, temp', n # Info)

LEMMA UpperWhole ==
  ASSUME ArenaTypeOK, Layout, NEW n, Upper(n), requests' = requests
  PROVE  /\ n # Info /\ TempsWhole => TempsWhole'
         /\ Layout'
         /\ PersistentWhole => PersistentWhole'
         /\ Slots => Slots'
         /\ Room => Room'
<1>1. /\ head \in Int /\ tail \in Int /\ temp \in Int /\ temp' \in Int
      /\ \A m \in DOMAIN place : place[m].lo \in Int /\ place[m].hi \in Int
      /\ held \subseteq DOMAIN place
      /\ head <= temp /\ temp <= temp' /\ temp' <= tail /\ head' = head /\ tail' = tail
  BY DEF ArenaTypeOK, Upper, Layout
<1>2. /\ DOMAIN place' = DOMAIN place \cup {n}
      /\ place'[n].lo = temp /\ place'[n].hi = temp'
      /\ \A m \in DOMAIN place : m # n => place'[m] = place[m]
      /\ n # Info => n \in held'
      /\ \A m \in held : m # n /\ (place[m].hi <= temp \/ temp' <= place[m].lo) => m \in held'
  BY DEF Upper, Handed
<1>3. n[1] \notin Kinds /\ \A k : n # Request(k)
  BY DEF Upper, Kinds, Request
<1>4. Layout'
  BY <1>1 DEF Layout
<1>5. ASSUME n # Info, TempsWhole, NEW m \in Temps' PROVE m \in held' /\ head' <= place'[m].lo /\ place'[m].hi <= temp'
  <2>1. CASE m = n
    BY <1>1, <1>2, <1>5, <2>1
  <2>2. CASE m # n
    <3>1. m \in Temps /\ place'[m] = place[m] /\ m \in DOMAIN place
      BY <1>2, <2>2 DEF Temps
    <3>2. m \in held /\ head <= place[m].lo /\ place[m].hi <= temp
      BY <1>5, <3>1 DEF TempsWhole
    <3>3. QED
      BY <1>1, <1>2, <2>2, <3>1, <3>2
  <2>3. QED
    BY <2>1, <2>2
<1>6. ASSUME PersistentWhole, NEW m \in DOMAIN place', m[1] \in Kinds
      PROVE  place'[m].lo >= tail' /\ (m \in held' \/ IsTensor(m))
  <2>1. m # n /\ m \in DOMAIN place /\ place'[m] = place[m]
    BY <1>2, <1>3, <1>6
  <2>2. place[m].lo >= tail /\ (m \in held \/ IsTensor(m))
    BY <1>6, <2>1 DEF PersistentWhole
  <2>3. temp' <= place[m].lo
    BY <1>1, <2>1, <2>2
  <2>4. QED
    BY <1>1, <1>2, <2>1, <2>2, <2>3
<1>7. ASSUME Slots, NEW k \in DOMAIN requests
      PROVE  Request(k) \in held' /\ place'[Request(k)] = place[Request(k)]
  <2>1. Request(k) \in held /\ place[Request(k)].hi <= head
    BY <1>7 DEF Slots
  <2>2. Request(k) \in DOMAIN place /\ Request(k) # n /\ place[Request(k)].hi <= temp
    BY <1>1, <1>3, <2>1
  <2>3. QED
    BY <1>2, <2>1, <2>2
<1>8. Slots => Slots'
  BY <1>1, <1>7 DEF Slots
<1>9. Room => Room'
  BY <1>1 DEF Room, Unassigned
<1>10. n # Info /\ TempsWhole => TempsWhole'
  BY <1>5 DEF TempsWhole
<1>11. PersistentWhole => PersistentWhole'
  BY <1>6 DEF PersistentWhole
<1>12. QED
  BY <1>4, <1>8, <1>9, <1>10, <1>11

LEMMA TempUpper ==
  ASSUME ArenaTypeOK, Layout, NEW n, NEW bytes \in Nat, NEW fill \in BOOLEAN, n[1] = "temp", fill = (n # Info),
         AllocateTemp(n, bytes, 1, fill)
  PROVE  Upper(n)
<1> DEFINE lo == TempAt(1)
           hi == TempAt(1) + bytes
<1>1. temp \in Int /\ tail \in Int /\ lo = temp
  BY AlignOne DEF ArenaTypeOK, TempAt
<1>2. /\ temp' = hi /\ HandOut(n, lo, hi, fill) /\ head' = head /\ tail' = tail
      /\ tail < lo \/ tail - lo >= bytes
  <2>1. HandOut(n, TempAt(1), temp', fill) /\ temp' = hi
    BY DEF AllocateTemp
  <2>2. HandOut(n, lo, hi, fill)
    BY <2>1 DEF HandOut
  <2>3. QED
    BY <2>1, <2>2 DEF AllocateTemp, TempFits
<1>3. hi \in Int /\ temp <= hi
  BY <1>1
<1>4. hi <= tail
  BY <1>1, <1>2 DEF Layout
<1> HIDE DEF lo, hi
<1>5. Handed(n, lo, hi, fill)
  BY <1>1, <1>2, <1>3, HandedOut
<1>6. Handed(n, temp, temp', n # Info)
  BY <1>1, <1>2, <1>5 DEF Handed
<1>7. QED
  BY <1>2, <1>3, <1>4, <1>6 DEF Upper

LEMMA TempTensorClean ==
  ASSUME Types, InStages, Clean, AllocateTempTensor, ~short'
  PROVE  InStages' /\ Clean'
<1> DEFINE n == todo[1].name
           r == Rank(todo[1])
           fill == n # Info
<1>1. /\ todo # <<>> /\ todo[1].do = "temp" /\ todo[1] \in TemporaryType
      /\ UNCHANGED book /\ UNCHANGED planner
  BY ItemKinds DEF AllocateTempTensor, At, Types
<1>2. todo[1].bytes \in Nat /\ n \in TemporaryNames
  BY <1>1 DEF TemporaryType
<1>3. n[1] = "temp" /\ n # Info /\ fill \in BOOLEAN
  BY <1>2 DEF TemporaryNames
<1>4. AllocateTemp(n, todo[1].bytes, 1, TRUE) /\ Rest
  BY DEF AllocateTempTensor, Refused
<1>5. r \in {2, 4}
  BY <1>1 DEF Rank
<1> HIDE DEF n, r
<1>6. r \in 1 .. 11 /\ Rank(todo[1]) = r /\ r <= 6
  BY <1>5 DEF r
<1>7. /\ AllocatorTypes /\ ArenaTypeOK /\ Ready /\ WholeAt(r)
      /\ Past(1) /\ (Past(2) <=> 2 < r)
  BY <1>1, <1>5, <1>6, FrontWhole
<1>8. Layout /\ PersistentWhole /\ Slots /\ Assigned /\ (r = 2 => TempsWhole /\ Room)
  BY <1>5, <1>7 DEF WholeAt
<1>9. Upper(n)
  <2>1. AllocateTemp(n, todo[1].bytes, 1, fill)
    BY <1>3, <1>4
  <2> HIDE DEF fill
  <2>2. fill = (n # Info)
    BY DEF fill
  <2>3. QED
    BY <1>2, <1>3, <1>7, <1>8, <2>1, <2>2, TempUpper
<1>10. /\ model' = model /\ requests' = requests /\ allocating' = allocating /\ todo' = Tail(todo)
  BY <1>1, <1>4 DEF book, Rest
<1>11. /\ TempsWhole => TempsWhole'
       /\ Layout' /\ PersistentWhole' /\ Slots'
       /\ Room => Room'
  BY <1>3, <1>7, <1>8, <1>9, <1>10, UpperWhole
<1>12. Assigned'
  BY <1>1, <1>7, <1>8, <1>10, SameAssigned
<1>13. Whole'
  <2>1. /\ ~Past(2) => TempsWhole'
        /\ Past(1) /\ ~Past(2) => Room'
    BY <1>5, <1>7, <1>8, <1>11
  <2>2. Rank(todo[1]) # 1
    BY <1>5 DEF r
  <2>3. QED
    BY <1>1, <1>7, <1>10, <1>11, <1>12, <2>1, <2>2, PopWhole
<1>14. Left(<<>>)
  BY <1>1 DEF Left, Gives
<1>15. Rank(todo[1]) \in 1 .. 5
  BY <1>5 DEF r
<1>16. DOMAIN place \subseteq DOMAIN place'
  BY <1>9 DEF Upper, Handed
<1>17. QED
  BY <1>1, <1>4, <1>10, <1>13, <1>14, <1>15, <1>16, EarlyClean

LEMMA InitRequestsClean ==
  ASSUME Types, InStages, Clean, InitScratchBufferData, ~short'
  PROVE  InStages' /\ Clean'
<1> DEFINE r == 1
           bytes == RequestBytes(0)
<1>1. /\ todo # <<>> /\ todo[1].do = "requests" /\ Rank(todo[1]) = 1 /\ requests' = <<>>
      /\ UNCHANGED <<size, tail, model, infos, scope, allocating, maxHead, planner>>
      /\ Free(RequestSlots)
  BY DEF InitScratchBufferData, At, Rank
<1>2. ResizeFits(bytes) /\ ResizeTo(bytes) /\ Rest
  BY DEF InitScratchBufferData, Refused
<1>3. AllocatorTypes /\ ArenaTypeOK /\ Temps = {} /\ TempsWhole /\ Layout /\ PersistentWhole
  <2>1. r \in 1 .. 11 /\ Rank(todo[1]) = r /\ r <= 1 /\ r <= 2 /\ r <= 6
    BY <1>1
  <2> HIDE DEF r
  <2>2. WholeAt(r) /\ AllocatorTypes /\ ArenaTypeOK
    BY <1>1, <2>1, FrontWhole
  <2>3. QED
    BY <2>1, <2>2 DEF WholeAt
<1>4. bytes \in Nat /\ bytes = SizeOf.ScratchBufferRequest * (0 + MaxScratch)
  BY RequestBytesTypes DEF RequestBytes
<1>5. /\ DOMAIN place' = DOMAIN place \ RequestSlots
      /\ \A m \in DOMAIN place' : place'[m] = place[m]
      /\ held' = held \ RequestSlots
  BY <1>1 DEF Free, Without
<1>6. \A m \in DOMAIN place : m[1] \in Kinds => m \notin RequestSlots
  BY KindNames DEF RequestSlots
<1>7. head' = bytes /\ temp' = bytes /\ tail' = tail /\ bytes <= tail
  BY <1>1, <1>2, <1>3, <1>4 DEF ResizeFits, ResizeTo, ArenaTypeOK
<1>8. Temps' = {}
  BY <1>3, <1>5 DEF Temps
<1>9. TempsWhole'
  BY <1>8 DEF TempsWhole
<1>10. Layout'
  BY <1>4, <1>7 DEF Layout
<1>11. PersistentWhole'
  <2> SUFFICES ASSUME NEW m \in DOMAIN place', m[1] \in Kinds PROVE place'[m].lo >= tail' /\ (m \in held' \/ IsTensor(m))
    BY DEF PersistentWhole
  <2>1. m \in DOMAIN place /\ m \notin RequestSlots /\ place'[m] = place[m]
    BY <1>5, <1>6
  <2>2. place[m].lo >= tail /\ (m \in held \/ IsTensor(m))
    BY <1>3, <2>1 DEF PersistentWhole
  <2>3. QED
    BY <1>5, <1>7, <2>1, <2>2
<1>12. Room'
  <2>1. Unassigned' = {} /\ Len(requests') = 0
    BY <1>1 DEF Unassigned
  <2>2. Cardinality(Unassigned') = 0
    BY <2>1, FS_EmptySet
  <2>3. 0 + MaxScratch - 0 = MaxScratch /\ 0 + MaxScratch = MaxScratch /\ 0 <= MaxScratch
    BY SizeFacts
  <2>4. Cardinality(Unassigned') <= MaxScratch
    BY <2>2, <2>3
  <2>5. SizeOf.ScratchBufferRequest * (Len(requests') + MaxScratch - Cardinality(Unassigned')) = bytes
    BY <1>4, <2>1, <2>2, <2>3
  <2> HIDE DEF bytes
  <2>6. bytes <= bytes
    BY <1>4
  <2>7. QED
    BY <1>7, <2>4, <2>5, <2>6 DEF Room
<1>13. Slots' /\ Assigned'
  BY <1>1 DEF Slots, Assigned
<1>14. Whole'
  BY <1>8, <1>9, <1>10, <1>11, <1>12, <1>13 DEF Whole
<1>15. Left(<<>>)
  BY <1>1 DEF Left, Gives
<1>16. \A k \in DOMAIN place : Asked(k) => k \in DOMAIN place'
  <2>1. \A k \in RequestSlots : ~Asked(k)
    BY DEF Asked, RequestSlots, Request, Kinds, Handles
  <2>2. QED
    BY <1>5, <2>1
<1>17. QED
  BY <1>1, <1>2, <1>14, <1>15, <1>16, EarlyClean

LEMMA TimesMonotone ==
  ASSUME NEW a \in Nat, NEW x \in Int, NEW y \in Int, x <= y
  PROVE  a * x <= a * y /\ a * x \in Int /\ a * y \in Int
BY SMTT(20)

LEMMA UnassignedFinite ==
  ASSUME AllocatorTypes
  PROVE  /\ IsFiniteSet(Unassigned) /\ Cardinality(Unassigned) \in Nat
         /\ Len(requests) \in Nat /\ DOMAIN requests = 1 .. Len(requests)
<1>1. Len(requests) \in Nat /\ DOMAIN requests = 1 .. Len(requests)
  BY DEF AllocatorTypes
<1>2. IsFiniteSet(1 .. Len(requests))
  BY <1>1, FS_Interval
<1>3. Unassigned \subseteq 1 .. Len(requests)
  BY <1>1 DEF Unassigned
<1>4. IsFiniteSet(Unassigned)
  BY <1>2, <1>3, FS_Subset
<1>5. QED
  BY <1>1, <1>4, FS_CardinalityType

LEMMA PoppedClosing ==
  ASSUME AllocatorTypes, todo # <<>>, todo' = Tail(todo), todo[1].do # "finish",
         NEW s, NEW o, Closing(todo, 0, s, o)
  PROVE  Closing(todo', 0, s, o)
<1>1. Closing(todo, 0, s, o)'
  BY PopClosing
<1>2. QED
  BY <1>1 DEF Closing

\* The next request lies inside the head.
LEMMA ScratchRoom ==
  ASSUME AllocatorTypes, ArenaTypeOK, Room, Cardinality(Unassigned) < MaxScratch
  PROVE  LET k == Len(requests) + 1
             lo == SizeOf.ScratchBufferRequest * (k - 1)
             hi == SizeOf.ScratchBufferRequest * k
         IN  lo \in Int /\ hi \in Int /\ lo <= hi /\ hi <= head
<1> DEFINE n == Len(requests)
           c == Cardinality(Unassigned)
           S == SizeOf.ScratchBufferRequest
           k == n + 1
           m == n + MaxScratch - c
           p == k - 1
<1>1. n \in Nat /\ c \in Nat /\ S \in Nat /\ MaxScratch \in Nat /\ head \in Int
  BY UnassignedFinite, SizeFacts DEF ArenaTypeOK
<1>2. S * m <= head
  BY DEF Room
<1>3. p \in Int /\ m \in Int /\ p <= k /\ k <= m /\ k \in Int
  BY <1>1
<1> HIDE DEF m, p, k, S
<1>4. S * p <= S * k /\ S * p \in Int /\ S * k \in Int
  BY <1>1, <1>3, TimesMonotone
<1>5. S * k <= S * m /\ S * m \in Int
  BY <1>1, <1>3, TimesMonotone
<1>6. S * k <= head
  BY <1>1, <1>2, <1>4, <1>5
<1>7. QED
  BY <1>4, <1>6 DEF p, k, S

(* A request takes the next slot below the head.                           *)
LEMMA ScratchClean ==
  ASSUME Types, InStages, Clean, RequestScratchBufferInArena, ~short'
  PROVE  InStages' /\ Clean'
<1> DEFINE r == 2
           n == Len(requests)
           k == n + 1
           S == SizeOf.ScratchBufferRequest
           lo == S * (k - 1)
           hi == S * k
           new == Request(k)
           x == [bytes |-> todo[1].bytes, subgraph |-> todo[1].subgraph, node |-> 0]
           c == Cardinality(Unassigned)
           s == todo[1].subgraph
           o == todo[1].op
<1>1. /\ todo # <<>> /\ todo[1].do = "scratch" /\ Rank(todo[1]) = 2 /\ todo[1] \in OpType
      /\ UNCHANGED planner
  BY ItemKinds DEF RequestScratchBufferInArena, At, Rank, Types
<1>2. /\ AllocatorTypes /\ ArenaTypeOK
      /\ TempsWhole /\ Layout /\ PersistentWhole /\ Room /\ Slots /\ Assigned
      /\ Past(1)
  <2>1. r \in 1 .. 11 /\ Rank(todo[1]) = r /\ r = 2
    BY <1>1
  <2> HIDE DEF r
  <2>2. WholeAt(r) /\ AllocatorTypes /\ ArenaTypeOK /\ Past(1)
    BY <1>1, <2>1, FrontWhole
  <2>3. QED
    BY <2>1, <2>2 DEF WholeAt
<1>3. ~ReadsGarbage(RequestSlots)
  <2>1. \A m \in RequestSlots : m \in held
    BY <1>2 DEF RequestSlots, Slots
  <2>2. QED
    BY <2>1, NoGarbage
<1>4. /\ c < MaxScratch
      /\ HandOut(new, lo, hi, TRUE)
      /\ requests' = Append(requests, x)
      /\ Rest
      /\ UNCHANGED <<size, head, tail, temp, model, infos, scope, allocating, maxHead, short>>
  BY <1>3 DEF RequestScratchBufferInArena, Refused
<1>5. /\ n \in Nat /\ DOMAIN requests = 1 .. n /\ c \in Nat /\ IsFiniteSet(Unassigned)
      /\ S \in Nat /\ MaxScratch \in Nat
      /\ head \in Int /\ tail \in Int /\ temp \in Int
      /\ \A m \in DOMAIN place : place[m].lo \in Int /\ place[m].hi \in Int
      /\ held \subseteq DOMAIN place
  BY <1>2, UnassignedFinite, SizeFacts DEF ArenaTypeOK
<1>6. /\ lo \in Int /\ hi \in Int /\ lo <= hi /\ hi <= head
  BY <1>2, <1>4, ScratchRoom
<1> DEFINE fill == TRUE
<1>7. /\ DOMAIN place' = DOMAIN place \cup {new}
      /\ place'[new] = [lo |-> lo, hi |-> hi]
      /\ \A m \in DOMAIN place : m # new => place'[m] = place[m]
      /\ new \in held'
      /\ \A m \in held : m # new /\ (place[m].hi <= lo \/ hi <= place[m].lo) => m \in held'
  <2>1. place' = [m \in DOMAIN place \cup {new} |-> IF m = new THEN [lo |-> lo, hi |-> hi] ELSE place[m]]
    BY <1>4 DEF HandOut
  <2>2. fill \in BOOLEAN /\ HandOut(new, lo, hi, fill)
    BY <1>4
  <2>3. fill
    OBVIOUS
  <2> HIDE DEF fill, new, lo, hi
  <2>4. Handed(new, lo, hi, fill)
    BY <1>2, <1>6, <2>2, HandedOut
  <2>5. QED
    BY <2>1, <2>3, <2>4 DEF Handed
<1>8. /\ n + 1 \in Nat /\ Len(requests') = k /\ DOMAIN requests' = 1 .. k /\ requests'[k] = x
      /\ \A j \in 1 .. n : requests'[j] = requests[j]
  <2>1. requests \in Seq(RequestType)
    BY <1>2 DEF AllocatorTypes
  <2> HIDE DEF x
  <2>2. QED
    BY <1>4, <2>1
<1>9. /\ ~IsTemp(new) /\ new[1] = "request" /\ \A j \in 1 .. n : Request(j) # new
  <2>1. \A j \in 1 .. n : j # k
    BY <1>5
  <2> HIDE DEF k
  <2>2. QED
    BY <2>1 DEF IsTemp, Request
<1> HIDE DEF new, lo, hi
<1>10. Temps' = Temps
  BY <1>7, <1>9 DEF Temps
<1>11. TempsWhole'
  <2> SUFFICES ASSUME NEW m \in Temps PROVE m \in held' /\ head' <= place'[m].lo /\ place'[m].hi <= temp'
    BY <1>10 DEF TempsWhole
  <2>1. m \in held /\ head <= place[m].lo /\ place[m].hi <= temp /\ m \in DOMAIN place /\ m # new
    BY <1>2, <1>9 DEF TempsWhole, Temps
  <2>2. hi <= place[m].lo
    BY <1>5, <1>6, <2>1
  <2>3. QED
    BY <1>4, <1>7, <2>1, <2>2
<1>12. Layout'
  BY <1>2, <1>4 DEF Layout
<1>13. PersistentWhole'
  <2> SUFFICES ASSUME NEW m \in DOMAIN place', m[1] \in Kinds PROVE place'[m].lo >= tail' /\ (m \in held' \/ IsTensor(m))
    BY DEF PersistentWhole
  <2>1. m # new /\ m \in DOMAIN place /\ place'[m] = place[m]
    BY <1>7, <1>9 DEF Kinds
  <2>2. place[m].lo >= tail /\ (m \in held \/ IsTensor(m))
    BY <1>2, <2>1 DEF PersistentWhole
  <2>3. hi <= place[m].lo
    BY <1>2, <1>5, <1>6, <2>1, <2>2 DEF Layout
  <2>4. QED
    BY <1>4, <1>7, <2>1, <2>2, <2>3
<1>14. Slots'
  <2> SUFFICES ASSUME NEW j \in 1 .. k
               PROVE  /\ Request(j) \in held'
                      /\ place'[Request(j)] = [lo |-> S * (j - 1), hi |-> S * j]
                      /\ place'[Request(j)].hi <= head'
    BY <1>8 DEF Slots
  <2>1. CASE j = k
    <3>1. Request(j) = new /\ lo = S * (j - 1) /\ hi = S * j
      BY <2>1 DEF new, lo, hi
    <3>2. place'[new].hi = hi
      BY <1>7
    <3> HIDE DEF S, k
    <3>3. QED
      BY <1>4, <1>6, <1>7, <3>1, <3>2
  <2>2. CASE j \in 1 .. n
    <3>1. /\ Request(j) \in held /\ place[Request(j)] = [lo |-> S * (j - 1), hi |-> S * j]
          /\ place[Request(j)].hi <= head
      BY <1>2, <1>5, <2>2 DEF Slots
    <3>2. place[Request(j)].hi <= lo
      <4>1. j \in Int /\ k - 1 \in Int /\ j <= k - 1
        BY <1>5, <2>2
      <4> DEFINE p == k - 1
      <4>2. j \in Int /\ p \in Int /\ j <= p /\ lo = S * p
        BY <4>1 DEF lo
      <4> HIDE DEF S, p
      <4>3. S * j <= S * p
        BY <1>5, <4>2, TimesMonotone
      <4>4. place[Request(j)].hi = S * j
        BY <3>1
      <4>5. QED
        BY <4>2, <4>3, <4>4
    <3>3. Request(j) # new /\ Request(j) \in DOMAIN place
      BY <1>5, <1>9, <2>2, <3>1
    <3> HIDE DEF S
    <3>4. place'[Request(j)] = place[Request(j)] /\ Request(j) \in held'
      BY <1>7, <3>1, <3>2, <3>3
    <3>5. QED
      BY <1>4, <3>1, <3>4
  <2>3. QED
    BY <1>5, <2>1, <2>2
<1>15. Room'
  <2>1. Unassigned' = Unassigned \cup {k} /\ k \notin Unassigned
    <3>1. x.node = 0 /\ DOMAIN requests' = (1 .. n) \cup {k} /\ k \notin 1 .. n
      BY <1>5, <1>8
    <3> HIDE DEF x, k, n
    <3>2. QED
      BY <1>5, <1>8, <3>1 DEF Unassigned
  <2>2. Cardinality(Unassigned') = c + 1
    <3> HIDE DEF k
    <3>1. QED
      BY <1>5, <2>1, FS_AddElement
  <2>3. c + 1 <= MaxScratch /\ k + MaxScratch - (c + 1) = n + MaxScratch - c
    BY <1>4, <1>5
  <2>4. S * (n + MaxScratch - c) <= head
    BY <1>2 DEF Room
  <2> HIDE DEF c
  <2>5. S * (Len(requests') + MaxScratch - Cardinality(Unassigned')) <= head'
    BY <1>4, <1>8, <2>2, <2>3, <2>4
  <2>6. Cardinality(Unassigned') <= MaxScratch
    BY <2>2, <2>3
  <2>7. QED
    BY <2>5, <2>6 DEF Room
<1>16. Assigned'
  <2>1. todo' = Tail(todo) /\ 1 \in DOMAIN todo /\ \A q : Ops(q)' = Ops(q)
    BY <1>2, <1>1, <1>4, TodoFacts, SameModel DEF Rest
  <2>2. \A a, b : Closing(todo, 0, a, b) => Closing(todo', 0, a, b)
    BY <1>1, <1>2, <2>1, PoppedClosing
  <2>3. ASSUME NEW j \in DOMAIN requests'
        PROVE  \/ requests'[j].node \in DOMAIN Ops(requests'[j].subgraph)
               \/ requests'[j].node = 0 /\ \E q \in DOMAIN Ops(requests'[j].subgraph) : Closing(todo', 0, requests'[j].subgraph, q)
    <3>1. CASE j = k
      <4>1. requests'[j].node = 0 /\ requests'[j].subgraph = s /\ o \in DOMAIN Ops(s)
        BY <1>1, <1>8, <3>1 DEF OpType
      <4>2. Closing(todo, 1, s, o)
        BY <1>1, <2>1 DEF InStages, Closed
      <4>3. Closing(todo, 0, s, o)
        <5>1. PICK i \in DOMAIN todo :
                 /\ i > 1 /\ todo[i].do = "finish" /\ todo[i].subgraph = s /\ todo[i].op = o
                 /\ \A m \in DOMAIN todo : 1 < m /\ m < i => todo[m].do # "finish"
          BY <4>2 DEF Closing
        <5>2. DOMAIN todo = 1 .. Len(todo) /\ Len(todo) \in Nat
          BY <1>1, <1>2, TodoFacts
        <5>3. \A m \in DOMAIN todo : 0 < m /\ m < i => todo[m].do # "finish"
          BY <1>1, <5>1, <5>2
        <5>4. i > 0
          BY <5>1, <5>2
        <5>5. QED
          BY <5>1, <5>3, <5>4 DEF Closing
      <4> HIDE DEF s, o
      <4>4. Closing(todo', 0, s, o)
        BY <2>2, <4>3
      <4>5. QED
        BY <4>1, <4>4
    <3>2. CASE j \in 1 .. n
      <4>1. requests'[j] = requests[j] /\ j \in DOMAIN requests
        BY <1>5, <1>8, <3>2
      <4> DEFINE q == requests[j].subgraph
      <4>2. \/ requests[j].node \in DOMAIN Ops(q)
            \/ requests[j].node = 0 /\ \E t \in DOMAIN Ops(q) : Closing(todo, 0, q, t)
        BY <1>2, <4>1 DEF Assigned
      <4>3. requests'[j].subgraph = q /\ requests'[j].node = requests[j].node
        BY <4>1
      <4> HIDE DEF q
      <4>4. QED
        BY <2>2, <4>2, <4>3
    <3>3. QED
      BY <1>5, <1>8, <2>3, <3>1, <3>2
  <2> HIDE DEF k, n, x, s, o
  <2>4. QED
    BY <2>1, <2>3 DEF Assigned
<1>17. Whole'
  BY <1>1, <1>2, <1>4, <1>11, <1>12, <1>13, <1>14, <1>15, <1>16, PopWhole DEF Rest
<1>18. Left(<<>>)
  BY <1>1 DEF Left, Gives
<1>19. DOMAIN place \subseteq DOMAIN place'
  BY <1>7
<1>20. QED
  BY <1>1, <1>4, <1>17, <1>18, <1>19, EarlyClean

LEMMA FreeClean ==
  ASSUME Types, InStages, Clean, FreeTempTensors
  PROVE  InStages' /\ Clean'
<1> DEFINE r == 2
<1>1. /\ todo # <<>> /\ todo[1].do = "free" /\ Rank(todo[1]) = 2
  BY DEF FreeTempTensors, At, Rank
<1>2. /\ AllocatorTypes /\ ArenaTypeOK
      /\ TempsWhole /\ Layout /\ PersistentWhole /\ Room /\ Slots /\ Assigned
  <2>1. r \in 1 .. 11 /\ Rank(todo[1]) = r /\ r = 2
    BY <1>1
  <2> HIDE DEF r
  <2>2. WholeAt(r) /\ AllocatorTypes /\ ArenaTypeOK
    BY <1>1, <2>1, FrontWhole
  <2>3. QED
    BY <2>1, <2>2 DEF WholeAt
<1>3. ~ReadsGarbage(Temps)
  <2>1. \A m \in Temps : m \in held
    BY <1>2 DEF TempsWhole
  <2>2. QED
    BY <2>1, NoGarbage
<1>4. Free(Temps) /\ Rest /\ UNCHANGED <<size, head, tail, temp, book, short, planner>>
  BY <1>3 DEF FreeTempTensors
<1>5. /\ DOMAIN place' = DOMAIN place \ Temps
      /\ \A m \in DOMAIN place' : place'[m] = place[m]
      /\ held' = held \ Temps
  BY <1>4 DEF Free, Without
<1>6. /\ model' = model /\ requests' = requests /\ allocating' = allocating /\ todo' = Tail(todo)
      /\ head' = head /\ tail' = tail /\ temp' = temp
  BY <1>4 DEF book, Rest
<1>7. Temps' = {}
  BY <1>5 DEF Temps
<1>8. TempsWhole' /\ Layout'
  BY <1>2, <1>6, <1>7 DEF TempsWhole, Layout
<1>9. \A m : m[1] \in Kinds => m \notin Temps
  BY DEF Kinds, Temps, IsTemp
<1>10. PersistentWhole'
  BY <1>2, <1>5, <1>6, <1>9 DEF PersistentWhole
<1>11. Slots'
  <2>1. \A k : Request(k) \notin Temps
    BY DEF Request, Temps, IsTemp
  <2>2. held \subseteq DOMAIN place
    BY <1>2 DEF ArenaTypeOK
  <2>3. QED
    BY <1>2, <1>5, <1>6, <2>1, <2>2 DEF Slots
<1>12. Room'
  BY <1>2, <1>6 DEF Room, Unassigned
<1>13. Assigned'
  BY <1>1, <1>2, <1>6, SameAssigned
<1>14. Whole'
  BY <1>1, <1>2, <1>6, <1>7, <1>8, <1>10, <1>11, <1>12, <1>13, PopWhole
<1>15. Left(<<>>)
  BY <1>1 DEF Left, Gives
<1>16. \A k \in DOMAIN place : Asked(k) => k \in DOMAIN place'
  <2>1. \A k \in Temps : ~Asked(k)
    BY DEF Asked, Temps, IsTemp, Kinds, Handles
  <2>2. QED
    BY <1>5, <2>1
<1>17. QED
  BY <1>1, <1>4, <1>6, <1>14, <1>15, <1>16, EarlyClean

(* The requests of an operator get its node, and there is room for more.   *)
LEMMA FinishClean ==
  ASSUME Types, InStages, Clean, FinishPrepareNodeAllocations, ~short'
  PROVE  InStages' /\ Clean'
<1> DEFINE r == 2
           n == Len(requests)
           bytes == RequestBytes(n)
           S == SizeOf.ScratchBufferRequest
           s == todo[1].subgraph
           o == todo[1].op
           assigned == [k \in DOMAIN requests |->
                          IF k \in Unassigned THEN [requests[k] EXCEPT !.node = todo[1].op] ELSE requests[k]]
<1>1. /\ todo # <<>> /\ todo[1].do = "finish" /\ Rank(todo[1]) = 2 /\ todo[1] \in OpType
      /\ UNCHANGED <<model, infos, scope, allocating, maxHead>> /\ UNCHANGED planner
  BY ItemKinds DEF FinishPrepareNodeAllocations, At, Rank, Types
<1>2. /\ AllocatorTypes /\ ArenaTypeOK
      /\ TempsWhole /\ Layout /\ PersistentWhole /\ Room /\ Slots /\ Assigned
      /\ Past(1)
  <2>1. r \in 1 .. 11 /\ Rank(todo[1]) = r /\ r = 2
    BY <1>1
  <2> HIDE DEF r
  <2>2. WholeAt(r) /\ AllocatorTypes /\ ArenaTypeOK /\ Past(1)
    BY <1>1, <2>1, FrontWhole
  <2>3. QED
    BY <2>1, <2>2 DEF WholeAt
<1>3. ~ReadsGarbage(RequestSlots)
  <2>1. \A m \in RequestSlots : m \in held
    BY <1>2 DEF RequestSlots, Slots
  <2>2. QED
    BY <2>1, NoGarbage
<1>4. /\ Temps = {}
      /\ requests' = assigned
      /\ tail >= bytes /\ ResizeTo(bytes)
      /\ Rest
      /\ UNCHANGED <<size, tail, place, held>>
  BY <1>3 DEF FinishPrepareNodeAllocations
<1>5. /\ n \in Nat /\ DOMAIN requests = 1 .. n /\ bytes \in Nat /\ S \in Nat /\ MaxScratch \in Nat
      /\ bytes = S * (n + MaxScratch) /\ tail \in Int
      /\ head' = bytes /\ temp' = bytes /\ tail' = tail /\ place' = place /\ held' = held
      /\ todo' = Tail(todo) /\ model' = model /\ allocating' = allocating
  <2>1. n \in Nat /\ DOMAIN requests = 1 .. n
    BY <1>2, UnassignedFinite
  <2>2. bytes \in Nat
    BY <2>1, RequestBytesTypes
  <2>3. QED
    BY <1>1, <1>2, <1>4, <2>1, <2>2, SizeFacts DEF ArenaTypeOK, RequestBytes, ResizeTo, Rest
<1>6. /\ DOMAIN requests' = 1 .. n /\ Len(requests') = n
      /\ \A k \in 1 .. n : /\ requests'[k].subgraph = requests[k].subgraph
                          /\ requests'[k].node = IF k \in Unassigned THEN o ELSE requests[k].node
  <2>1. DOMAIN assigned = 1 .. n
    BY <1>5
  <2>2. ASSUME NEW k \in 1 .. n
        PROVE  /\ assigned[k].subgraph = requests[k].subgraph
               /\ assigned[k].node = IF k \in Unassigned THEN o ELSE requests[k].node
    <3>1. requests[k] \in RequestType
      BY <1>2, <1>5 DEF AllocatorTypes
    <3>2. requests[k] = [bytes |-> requests[k].bytes, subgraph |-> requests[k].subgraph, node |-> requests[k].node]
      BY <3>1 DEF RequestType
    <3>3. CASE k \in Unassigned
      <4>1. assigned[k] = [requests[k] EXCEPT !.node = o]
        BY <1>5, <3>3
      <4>2. QED
        BY <3>2, <3>3, <4>1
    <3>4. CASE k \notin Unassigned
      BY <1>5, <3>4
    <3>5. QED
      BY <3>3, <3>4
  <2>3. \A k \in 1 .. n : assigned[k] = assigned[k]
    OBVIOUS
  <2>4. requests' = assigned
    BY <1>4
  <2> HIDE DEF assigned, n
  <2>5. DOMAIN requests' = 1 .. n
    BY <2>1, <2>4
  <2>6. Types'
    BY FinishTypes
  <2>7. Len(requests') = n
    <3>1. Len(requests') \in Nat /\ DOMAIN requests' = 1 .. Len(requests')
      BY <2>6 DEF Types, AllocatorTypes
    <3>2. QED
      BY <1>5, <2>5, <3>1
  <2>8. QED
    BY <2>2, <2>4, <2>5, <2>7
<1>7. o \in DOMAIN Ops(s) /\ o # 0 /\ s \in Subgraphs
  <2>1. o \in DOMAIN Ops(s) /\ s \in Subgraphs
    BY <1>1 DEF OpType
  <2>2. model \in Models
    BY <1>2 DEF AllocatorTypes
  <2> HIDE DEF o, s
  <2>3. DOMAIN Ops(s) = 1 .. Len(Ops(s)) /\ Len(Ops(s)) \in Nat
    BY <2>1, <2>2, ModelFacts
  <2>4. QED
    BY <2>1, <2>3
<1> HIDE DEF n, bytes
<1>8. Temps' = {} /\ TempsWhole'
  BY <1>4, <1>5 DEF Temps, TempsWhole
<1>9. Layout'
  BY <1>4, <1>5 DEF Layout
<1>10. PersistentWhole'
  BY <1>2, <1>5 DEF PersistentWhole
<1>11. Slots'
  <2> SUFFICES ASSUME NEW k \in 1 .. n
               PROVE  /\ Request(k) \in held
                      /\ place[Request(k)] = [lo |-> S * (k - 1), hi |-> S * k]
                      /\ place[Request(k)].hi <= bytes
    BY <1>5, <1>6 DEF Slots
  <2>1. Request(k) \in held /\ place[Request(k)] = [lo |-> S * (k - 1), hi |-> S * k]
    BY <1>2, <1>5 DEF Slots
  <2> DEFINE m == n + MaxScratch
  <2>2. k \in Int /\ m \in Int /\ k <= m /\ bytes = S * m
    BY <1>5
  <2> HIDE DEF m, S
  <2>3. S * k <= bytes
    BY <1>5, <2>2, TimesMonotone
  <2>4. QED
    BY <2>1, <2>3
<1>12. Room'
  <2>1. Unassigned' = {}
    BY <1>5, <1>6, <1>7 DEF Unassigned
  <2>2. Cardinality(Unassigned') = 0
    BY <2>1, FS_EmptySet
  <2>3. Cardinality(Unassigned') <= MaxScratch /\ n + MaxScratch - Cardinality(Unassigned') = n + MaxScratch
    BY <1>5, <2>2
  <2>4. S * (n + MaxScratch) <= head'
    BY <1>5
  <2> HIDE DEF S
  <2>5. S * (Len(requests') + MaxScratch - Cardinality(Unassigned')) <= head'
    BY <1>6, <2>3, <2>4
  <2>6. QED
    BY <2>3, <2>5 DEF Room, S
<1>13. Assigned'
  <2>1. \A q : Ops(q)' = Ops(q)
    BY <1>5, SameModel
  <2>2. ASSUME NEW k \in 1 .. n PROVE requests'[k].node \in DOMAIN Ops(requests'[k].subgraph)
    <3>1. CASE k \notin Unassigned
      <4>1. requests[k].node # 0
        BY <1>5, <3>1 DEF Unassigned
      <4>2. QED
        BY <1>2, <1>5, <1>6, <3>1, <4>1 DEF Assigned
    <3>2. CASE k \in Unassigned
      <4>1. requests[k].node = 0 /\ requests[k].subgraph \in Subgraphs
        <5>1. requests[k] \in RequestType
          BY <1>2, <1>5 DEF AllocatorTypes
        <5>2. QED
          BY <3>2, <5>1 DEF Unassigned, RequestType
      <4>2. model \in Models
        BY <1>2 DEF AllocatorTypes
      <4> DEFINE q == requests[k].subgraph
      <4>3. DOMAIN Ops(q) = 1 .. Len(Ops(q)) /\ Len(Ops(q)) \in Nat
        BY <4>1, <4>2, ModelFacts
      <4>4. 0 \notin DOMAIN Ops(q)
        BY <4>3
      <4>5. PICK t \in DOMAIN Ops(q) : Closing(todo, 0, q, t)
        BY <1>2, <1>5, <4>1, <4>4 DEF Assigned
      <4>6. q = s /\ t = o
        <5>1. PICK j \in DOMAIN todo :
               /\ j > 0 /\ todo[j].do = "finish" /\ todo[j].subgraph = q /\ todo[j].op = t
               /\ \A m \in DOMAIN todo : 0 < m /\ m < j => todo[m].do # "finish"
          BY <4>5 DEF Closing
        <5>2. DOMAIN todo = 1 .. Len(todo) /\ Len(todo) \in Nat /\ 1 \in DOMAIN todo
          BY <1>1, <1>2, TodoFacts
        <5>3. j = 1
          BY <1>1, <5>1, <5>2
        <5>4. QED
          BY <5>1, <5>3
      <4> HIDE DEF s, o
      <4>7. QED
        BY <1>6, <1>7, <3>2, <4>6
    <3>3. QED
      BY <3>1, <3>2
  <2>3. QED
    BY <1>6, <2>1, <2>2 DEF Assigned
<1>14. Whole'
  BY <1>1, <1>2, <1>5, <1>8, <1>9, <1>10, <1>11, <1>12, <1>13, PopWhole
<1>15. Left(<<>>)
  BY <1>1 DEF Left, Gives
<1>16. \A k \in DOMAIN place : Asked(k) => k \in DOMAIN place'
  BY <1>5
<1>17. QED
  BY <1>1, <1>4, <1>5, <1>14, <1>15, <1>16, EarlyClean

(* The handles, which nobody tests for a null pointer.                     *)
LEMMA HandlesClean ==
  ASSUME Types, InStages, Clean, AllocateScratchBufferHandles, ~short'
  PROVE  InStages' /\ Clean'
<1> DEFINE r == 3
           fill == FALSE
           one == 1
           bytes == SizeOf.ScratchBufferHandle * Len(requests)
<1>1. /\ todo # <<>> /\ todo[1].do = "handles" /\ Rank(todo[1]) = 3
      /\ Rest /\ UNCHANGED book /\ UNCHANGED planner
  BY DEF AllocateScratchBufferHandles, At, Rank
<1>2. /\ AllocatorTypes /\ ArenaTypeOK /\ Ordered(todo)
      /\ Layout /\ PersistentWhole /\ Slots /\ Assigned
      /\ Past(1) /\ Past(2)
  <2>1. r \in 1 .. 11 /\ Rank(todo[1]) = r /\ r = 3
    BY <1>1
  <2> HIDE DEF r
  <2>2. WholeAt(r) /\ AllocatorTypes /\ ArenaTypeOK /\ Past(1) /\ Past(2)
    BY <1>1, <2>1, FrontWhole
  <2>3. QED
    BY <2>1, <2>2 DEF WholeAt, InStages
<1>3. /\ \/ requests = <<>> /\ UNCHANGED <<arena, short>>
         \/ requests # <<>> /\ AllocatePersistentBuffer(Handles, bytes, one, fill) /\ Watch
  BY DEF AllocateScratchBufferHandles
<1>4. bytes \in Nat
  <2>1. requests \in Seq(RequestType)
    BY <1>2 DEF AllocatorTypes
  <2>2. QED
    BY <2>1, HandleSizes
<1>5. fill \in BOOLEAN /\ fill = (Handles[1] \notin {"tensor", "handles"}) /\ Handles[1] \in Kinds \cup {"handles"}
  BY DEF Handles
<1>6. one \in Nat \ {0}
  OBVIOUS
<1> HIDE DEF bytes, fill, one
<1>7. /\ model' = model /\ requests' = requests /\ allocating' = allocating /\ todo' = Tail(todo)
  BY <1>1 DEF book, Rest
<1>8. /\ Layout' /\ PersistentWhole' /\ Slots'
      /\ DOMAIN place \subseteq DOMAIN place'
      /\ requests = <<>> \/ Handles \in DOMAIN place'
  <2>1. CASE requests = <<>> /\ UNCHANGED arena
    <3>1. place' = place
      BY <2>1 DEF arena
    <3>2. QED
      BY <1>2, <1>7, <2>1, <3>1, SameArena
  <2>2. CASE AllocatePersistentBuffer(Handles, bytes, one, fill) /\ Watch
    <3>1. Lower(Handles)
      BY <1>2, <1>4, <1>5, <1>6, <2>2, PersistentLower
    <3>2. DOMAIN place' = DOMAIN place \cup {Handles}
      BY <3>1 DEF Lower, Handed
    <3>3. QED
      BY <1>2, <1>7, <3>1, <3>2, LowerWhole
  <2>3. QED
    BY <1>3, <2>1, <2>2 DEF arena
<1>9. Assigned'
  BY <1>1, <1>2, <1>7, SameAssigned
<1>10. Whole'
  BY <1>1, <1>2, <1>7, <1>8, <1>9, PopWhole
<1>11. Left(<<>>)
  <2> DEFINE none == <<>>
  <2>1. Advance(none) /\ none \in Seq(Todo) /\ DOMAIN none = {}
    BY <1>1, <1>2, <1>7, Popped
  <2> HIDE DEF none
  <2>2. r \in Nat \ {0, 2, 7} /\ Rank(todo[1]) = r /\ r = 3
    BY <1>1
  <2> HIDE DEF r
  <2>3. Past(r)'
    BY <1>2, <2>1, <2>2, PastNow
  <2>4. Past(3)'
    BY <2>2, <2>3
  <2>5. Handles \notin {Info, PlannerArena, Marked}
    BY DEF Handles, Info, PlannerArena, Marked
  <2>6. Have(Handles)'
    BY <1>7, <1>8, <2>4, <2>5 DEF Have
  <2>7. Gives(todo[1]) = {Handles}
    BY <1>1 DEF Gives
  <2>8. QED
    BY <2>6, <2>7 DEF Left
<1>12. QED
  BY <1>1, <1>7, <1>8, <1>10, <1>11, EarlyClean

LEMMA InfoBytesNat ==
  ASSUME AllocatorTypes
  PROVE  InfoBytes \in Nat
<1>1. IsFiniteSet(AllTensors)
  <2> DEFINE parts == {{s} \X Tensors(s) : s \in Subgraphs}
             part == [s \in Subgraphs |-> {s} \X Tensors(s)]
  <2>1. ASSUME NEW s \in Subgraphs PROVE IsFiniteSet({s} \X Tensors(s))
    <3>1. Tensors(s) = 1 .. Len(model[s].tensors) /\ Len(model[s].tensors) \in Int
      BY ModelFacts DEF AllocatorTypes
    <3>2. IsFiniteSet({s})
      BY FS_Singleton
    <3>3. IsFiniteSet(Tensors(s))
      BY <3>1, FS_Interval
    <3>4. QED
      BY <3>2, <3>3, FS_Product
  <2>2. IsFiniteSet(Subgraphs)
    BY FS_Interval, ModelFacts DEF AllocatorTypes
  <2>3. part \in Surjection(Subgraphs, parts)
    BY DEF Surjection
  <2>4. \A p \in parts : IsFiniteSet(p)
    BY <2>1
  <2>5. AllTensors = UNION parts
    BY DEF AllTensors
  <2> HIDE DEF part, parts
  <2>6. IsFiniteSet(parts)
    BY <2>2, <2>3, FS_Surjection
  <2>7. QED
    BY <2>4, <2>5, <2>6, FS_UNION
<1>2. Cardinality(AllTensors) \in Nat
  BY <1>1, FS_CardinalityType
<1>3. Cardinality(AllTensors) + Len(requests) \in Nat
  BY <1>2 DEF AllocatorTypes
<1>4. QED
  BY <1>3, SizeFacts, Product DEF InfoBytes

LEMMA InfoTempClean ==
  ASSUME Types, InStages, Clean, CreateAllocationInfo, ~short'
  PROVE  InStages' /\ Clean'
<1> DEFINE r == 5
           fill == FALSE
           bytes == InfoBytes
<1>1. /\ todo # <<>> /\ todo[1].do = "info" /\ Rank(todo[1]) = 5
      /\ UNCHANGED book /\ UNCHANGED planner
  BY DEF CreateAllocationInfo, At, Rank
<1>2. /\ AllocatorTypes /\ ArenaTypeOK /\ Ordered(todo)
      /\ Layout /\ PersistentWhole /\ Slots /\ Assigned
      /\ Past(1) /\ Past(2)
  <2>1. r \in 1 .. 11 /\ Rank(todo[1]) = r /\ r = 5
    BY <1>1
  <2> HIDE DEF r
  <2>2. WholeAt(r) /\ AllocatorTypes /\ ArenaTypeOK /\ Past(1) /\ Past(2)
    BY <1>1, <2>1, FrontWhole
  <2>3. QED
    BY <2>1, <2>2 DEF WholeAt, InStages
<1>3. AllocateTemp(Info, bytes, 1, fill) /\ Rest /\ Watch
  BY DEF CreateAllocationInfo, Refused
<1>4. bytes \in Nat
  BY <1>2, InfoBytesNat
<1>5. fill \in BOOLEAN /\ fill = (Info # Info) /\ Info[1] = "temp"
  BY DEF Info
<1> HIDE DEF bytes, fill
<1>6. /\ model' = model /\ requests' = requests /\ allocating' = allocating /\ todo' = Tail(todo)
  BY <1>1, <1>3 DEF book, Rest
<1>7. Upper(Info)
  BY <1>2, <1>3, <1>4, <1>5, TempUpper
<1>8. /\ Layout' /\ PersistentWhole' /\ Slots'
      /\ DOMAIN place' = DOMAIN place \cup {Info}
  BY <1>2, <1>6, <1>7, UpperWhole DEF Upper, Handed
<1>9. Assigned'
  BY <1>1, <1>2, <1>6, SameAssigned
<1>10. Whole'
  BY <1>1, <1>2, <1>6, <1>8, <1>9, PopWhole
<1>11. AlignUp(temp', BufferAlign) <= tail'
  <2> DEFINE u == AlignUp(temp', BufferAlign)
  <2>1. temp' \in Int /\ tail' \in Int
    BY <1>2, <1>7 DEF Upper, ArenaTypeOK
  <2>2. u \in Int
    BY <2>1, ArenaAssumption, AlignTypes
  <2>3. ~(tail' < u)
    BY <1>3 DEF Watch
  <2> HIDE DEF u
  <2>4. u <= tail'
    BY <2>1, <2>2, <2>3
  <2>5. QED
    BY <2>4 DEF u
<1>12. InfoRoom'
  <2>1. /\ head \in Int /\ temp \in Int /\ head <= temp /\ temp' \in Int /\ head' = head
        /\ Info \in DOMAIN place' /\ place'[Info].lo = temp /\ place'[Info].hi = temp'
    BY <1>2, <1>7 DEF Upper, Handed, ArenaTypeOK, Layout
  <2>2. QED
    BY <2>1 DEF InfoRoom
<1>13. Left(<<>>)
  <2> DEFINE none == <<>>
  <2>1. Advance(none) /\ none \in Seq(Todo) /\ DOMAIN none = {}
    BY <1>1, <1>2, <1>6, Popped
  <2> HIDE DEF none
  <2>2. r \in Nat \ {0, 2, 7} /\ Rank(todo[1]) = r /\ r = 5
    BY <1>1
  <2> HIDE DEF r
  <2>3. Past(r)'
    BY <1>2, <2>1, <2>2, PastNow
  <2>4. Past(5)'
    BY <2>2, <2>3
  <2>5. Info \notin {Handles, PlannerArena, Marked}
    BY DEF Handles, Info, PlannerArena, Marked
  <2>6. Have(Info)'
    BY <1>11, <1>12, <2>4, <2>5 DEF Have
  <2>7. Gives(todo[1]) = {Info}
    BY <1>1 DEF Gives
  <2>8. QED
    BY <2>6, <2>7 DEF Left
<1>14. QED
  BY <1>1, <1>3, <1>6, <1>8, <1>10, <1>13, EarlyClean

-----------------------------------------------------------------------------
(* The marking: what was reached is marked, or is still on the list.       *)

\* What was given a first use keeps it, and its name.
StillMarked(marked) ==
  /\ DOMAIN marked = DOMAIN infos
  /\ \A j \in DOMAIN infos : marked[j].name = infos[j].name /\ (infos[j].first # -1 => marked[j].first # -1)

LEMMA MarksFacts ==
  ASSUME Types, InStages, Clean, todo # <<>>, todo[1].do \in MarkKinds,
         NEW read \in SUBSET RequestSlots, NEW now, NEW marked, NEW items \in Seq(Item),
         Marks(read, now, marked, items)
  PROVE  /\ AllocatorTypes /\ Marking /\ Slots /\ Assigned /\ Rank(todo[1]) = 7
         /\ \A q \in Nat : Past(q) <=> q < 7
         /\ items \in Seq(Todo) /\ Advance(items) /\ scope' = now /\ infos' = marked
         /\ UNCHANGED <<outcome, model, requests, allocating, maxHead, short, arena, planner>>
<1> DEFINE r == 7
<1>1. Rank(todo[1]) = r /\ r \in 1 .. 11 /\ r = 7
  BY DEF MarkKinds, Rank
<1> HIDE DEF r
<1>2. WholeAt(r) /\ AllocatorTypes /\ Ready /\ \A q \in Nat : Past(q) <=> q < r
  BY <1>1, FrontWhole
<1>3. Slots /\ Assigned
  BY <1>1, <1>2 DEF WholeAt
<1>4. Marking
  <2>1. Marked \in Needs(todo[1])
    BY DEF Needs, MarkKinds
  <2>2. Have(Marked)
    BY <1>2, <2>1, FrontHas
  <2>3. QED
    BY <2>2 DEF Have
<1>5. \A k \in read \cup {Info} : k \in held
  BY <1>3, <1>4 DEF Marking, Slots, RequestSlots
<1>6. ~ReadsGarbage(read \cup {Info})
  <2> DEFINE names == read \cup {Info}
  <2>1. \A k \in names : k \in held
    BY <1>5
  <2> HIDE DEF names
  <2>2. ~ReadsGarbage(names)
    BY <2>1, NoGarbage
  <2>3. QED
    BY <2>2 DEF names
<1>7. /\ scope' = now /\ infos' = marked /\ todo' = items \o Tail(todo)
      /\ UNCHANGED <<outcome, model, requests, allocating, maxHead, short, arena, planner>>
  BY <1>6 DEF Marks
<1>8. items \in Seq(Todo)
  BY Wider
<1>9. QED
  BY <1>1, <1>2, <1>3, <1>4, <1>7, <1>8 DEF Advance

LEMMA ScratchStays ==
  ASSUME StillMarked(infos'), requests' = requests, NEW s, NEW o, ScratchMarked(s, o)
  PROVE  ScratchMarked(s, o)'
<1>1. ScratchOf(s, o)' = ScratchOf(s, o)
  BY DEF ScratchOf
<1>2. QED
  BY <1>1 DEF ScratchMarked, StillMarked

LEMMA MatchStays ==
  ASSUME StillMarked(infos'), requests' = requests, model' = model, InfosMatch
  PROVE  InfosMatch'
<1>1. PlannedNames' = PlannedNames
  BY DEF PlannedNames, StillMarked
<1>2. GivenTensors' = GivenTensors
  BY SameNeeds
<1>3. QED
  BY <1>1, <1>2 DEF InfosMatch, StillMarked

LEMMA MarksClean ==
  ASSUME Types, InStages, Clean, todo # <<>>, todo[1].do \in MarkKinds,
         NEW read \in SUBSET RequestSlots, NEW now, NEW marked, NEW items \in Seq(Item),
         Marks(read, now, marked, items), \A i \in DOMAIN items : items[i].do \in MarkKinds,
         scope >= 0 => now >= 0, StillMarked(marked),
         \E R \in SUBSET Subgraphs : Reached(R)'
  PROVE  InStages' /\ Clean'
<1>1. /\ AllocatorTypes /\ Marking /\ Slots /\ Assigned /\ Rank(todo[1]) = 7
      /\ \A q \in Nat : Past(q) <=> q < 7
      /\ items \in Seq(Todo) /\ Advance(items) /\ scope' = now /\ infos' = marked
      /\ UNCHANGED <<outcome, model, requests, allocating, maxHead, short, arena, planner>>
  BY MarksFacts
<1>2. \A i \in DOMAIN items : Rank(items[i]) = 7 /\ Needs(items[i]) = {Marked}
  BY DEF MarkKinds, Rank, Needs
<1>3. /\ Past(1) /\ Past(2) /\ Past(3) /\ Past(5) /\ Past(6) /\ ~Past(8)
  BY <1>1
<1>4. Onward(items)
  BY <1>1, <1>2 DEF Onward
<1>5. InStages'
  <2>1. Ordered(items)
    BY <1>2, OneStage
  <2>2. Closed(items)
    BY DEF Closed, MarkKinds
  <2>3. \A i \in DOMAIN items : items[i].do # "commit"
    BY DEF MarkKinds
  <2>4. \A i \in DOMAIN items : \A j \in DOMAIN todo :
           j > 1 /\ Rank(items[i]) # 0 /\ Rank(todo[j]) # 0 => Follows(Rank(items[i]), Rank(todo[j]))
    BY <1>1, <1>2, TodoFacts DEF InStages, Ordered
  <2>5. QED
    BY <1>1, <2>1, <2>2, <2>3, <2>4, PushStages
<1>6. Whole'
  <2>1. Slots'
    BY <1>1, SameArena
  <2>2. Assigned'
    BY <1>1, <1>3, SameAssigned
  <2>3. QED
    BY <1>1, <1>3, <1>4, <2>1, <2>2, WholeStays
<1>7. Marking'
  <2>1. InfoRoom' /\ held' = held
    BY <1>1, SameArena DEF arena, Marking
  <2>2. InfosMatch'
    BY <1>1, MatchStays DEF Marking
  <2>3. Subgraphs' = Subgraphs
    BY <1>1, SameModel
  <2>4. scope' >= 0
    BY <1>1 DEF Marking
  <2>5. QED
    BY <1>1, <2>1, <2>2, <2>3, <2>4 DEF Marking
<1>8. Past(3)' /\ Past(5)' /\ Past(6)'
  BY <1>1, <1>3, <1>4, PastStays
<1>9. Have(Marked)'
  <2>1. Marked \notin {Info, PlannerArena, Handles}
    BY DEF Handles, Info, PlannerArena, Marked
  <2>2. QED
    BY <1>7, <1>8, <2>1 DEF Have
<1>10. Kept
  <2> SUFFICES ASSUME NEW i \in DOMAIN todo, i > 1, NEW k \in Needs(todo[i]), Have(k) PROVE Have(k)'
    BY DEF Kept
  <2>1. /\ place' = place /\ head' = head /\ tail' = tail /\ temp' = temp
        /\ InfoRoom => InfoRoom'
    BY <1>1, SameArena DEF arena
  <2>2. CASE k[1] \in Kinds
    BY <2>1, <2>2, PlainHave
  <2>3. CASE k = Handles
    <3>1. Handles \notin {Info, PlannerArena, Marked}
      BY DEF Handles, Info, PlannerArena, Marked
    <3>2. QED
      BY <1>1, <1>8, <2>1, <2>3, <3>1 DEF Have
  <2>4. CASE k = Info
    <3>1. Info \notin {Handles, PlannerArena, Marked}
      BY DEF Handles, Info, PlannerArena, Marked
    <3>2. QED
      BY <1>8, <2>1, <2>4, <3>1 DEF Have
  <2>5. CASE k = Marked
    BY <1>9, <2>5
  <2>6. CASE k = PlannerArena
    BY <1>3, <2>6 DEF Have
  <2>7. QED
    BY <2>2, <2>3, <2>4, <2>5, <2>6, NeedKinds
<1>11. Served(items)
  BY <1>2, <1>9 DEF Served
<1>12. Left(items)
  BY DEF Left, Gives, MarkKinds
<1>13. Ready'
  BY <1>1, <1>10, <1>11, <1>12, AdvanceReady DEF Clean
<1>14. Ended'
  <2>1. \A i \in DOMAIN items : items[i].do # "start"
    BY DEF MarkKinds
  <2>2. QED
    BY <1>1, <2>1, PopEnded DEF Clean
<1>15. QED
  BY <1>5, <1>6, <1>13, <1>14 DEF Clean

LEMMA CreatedStays ==
  ASSUME NEW all \in Seq(InfoType), NEW names, NEW now \in Int, now # -1
  PROVE  LET c == Created(all, names, now) IN
         /\ DOMAIN c = DOMAIN all
         /\ \A j \in DOMAIN all : /\ c[j].name = all[j].name
                                  /\ all[j].first # -1 => c[j].first # -1
                                  /\ all[j].name \in names => c[j].first # -1
<1> DEFINE c == Created(all, names, now)
<1>1. DOMAIN c = DOMAIN all
  BY DEF Created
<1>2. ASSUME NEW j \in DOMAIN all
      PROVE  /\ c[j].name = all[j].name
             /\ all[j].first # -1 => c[j].first # -1
             /\ all[j].name \in names => c[j].first # -1
  <2>1. all[j] \in InfoType
    OBVIOUS
  <2>2. c[j] = IF all[j].name \in names /\ all[j].first = -1 THEN [all[j] EXCEPT !.first = now] ELSE all[j]
    BY DEF Created
  <2>3. CASE all[j].name \in names /\ all[j].first = -1
    BY <2>1, <2>2, <2>3 DEF InfoType
  <2>4. CASE ~(all[j].name \in names /\ all[j].first = -1)
    BY <2>2, <2>4
  <2>5. QED
    BY <2>3, <2>4
<1>3. QED
  BY <1>1, <1>2

LEMMA UsedStays ==
  ASSUME NEW all \in Seq(InfoType), NEW names, NEW now \in Int
  PROVE  LET c == Used(all, names, now) IN
         /\ DOMAIN c = DOMAIN all
         /\ \A j \in DOMAIN all : c[j].name = all[j].name /\ c[j].first = all[j].first
<1> DEFINE c == Used(all, names, now)
<1>1. DOMAIN c = DOMAIN all
  BY DEF Used
<1>2. ASSUME NEW j \in DOMAIN all PROVE c[j].name = all[j].name /\ c[j].first = all[j].first
  <2>1. all[j] \in InfoType
    OBVIOUS
  <2>2. c[j] = IF all[j].name \in names THEN [all[j] EXCEPT !.last = now] ELSE all[j]
    BY DEF Used
  <2>3. CASE all[j].name \in names
    BY <2>1, <2>2, <2>3 DEF InfoType
  <2>4. CASE all[j].name \notin names
    BY <2>2, <2>4
  <2>5. QED
    BY <2>3, <2>4
<1>3. QED
  BY <1>1, <1>2

LEMMA BothStay ==
  ASSUME infos \in Seq(InfoType), NEW names, NEW more, NEW now \in Int, now # -1
  PROVE  /\ StillMarked(Created(infos, names, now))
         /\ StillMarked(Used(infos, names, now))
         /\ StillMarked(Used(Created(infos, names, now), more, now))
<1> DEFINE c == Created(infos, names, now)
<1>1. c \in Seq(InfoType)
  BY MarkedTypes
<1>2. /\ DOMAIN c = DOMAIN infos
      /\ \A j \in DOMAIN infos : c[j].name = infos[j].name /\ (infos[j].first # -1 => c[j].first # -1)
  BY CreatedStays
<1> HIDE DEF c
<1> DEFINE u == Used(c, more, now)
<1>3. DOMAIN u = DOMAIN c /\ \A j \in DOMAIN c : u[j].name = c[j].name /\ u[j].first = c[j].first
  BY <1>1, UsedStays
<1> HIDE DEF u
<1>4. StillMarked(u)
  BY <1>2, <1>3 DEF StillMarked
<1>5. StillMarked(c)
  BY <1>2 DEF StillMarked
<1>6. StillMarked(Used(infos, names, now))
  BY UsedStays DEF StillMarked
<1>7. QED
  BY <1>4, <1>5, <1>6 DEF c, u

LEMMA UsesClean ==
  ASSUME Types, InStages, Clean, MarkUses
  PROVE  InStages' /\ Clean'
<1> DEFINE s == todo[1].subgraph
           o == todo[1].op
           names == Range(Named(s, Ops(s)[o].inputs \o Ops(s)[o].outputs)) \cup ScratchNames(s, o)
           marked == Used(infos, names, scope)
           none == <<>>
<1>1. todo # <<>> /\ todo[1].do = "used" /\ Marks(RequestSlots, scope, marked, none)
  BY DEF MarkUses, At
<1>2. /\ none \in Seq(Item) /\ DOMAIN none = {} /\ todo[1].do \in MarkKinds
      /\ infos \in Seq(InfoType) /\ scope \in Int
  BY <1>1 DEF MarkKinds, Types, AllocatorTypes
<1> HIDE DEF names, none
<1>3. StillMarked(marked)
  <2>1. 0 \in Int /\ 0 # -1
    OBVIOUS
  <2>2. /\ DOMAIN marked = DOMAIN infos
        /\ \A j \in DOMAIN infos : marked[j].name = infos[j].name /\ marked[j].first = infos[j].first
    BY <1>2, UsedStays
  <2>3. QED
    BY <2>2 DEF StillMarked
<1> HIDE DEF marked
<1>4. /\ AllocatorTypes /\ Marking /\ none \in Seq(Todo) /\ Advance(none) /\ infos' = marked
      /\ model' = model /\ requests' = requests
  BY <1>1, <1>2, MarksFacts
<1>5. \E R \in SUBSET Subgraphs : Reached(R)'
  <2>1. PICK R \in SUBSET Subgraphs : Reached(R)
    BY <1>4 DEF Marking
  <2>2. \A q, p : ScratchMarked(q, p) => ScratchMarked(q, p)'
    BY <1>3, <1>4, ScratchStays
  <2>3. QED
    BY <1>1, <1>4, <2>1, <2>2, PendingStays, ReachedStays
<1>6. QED
  BY <1>1, <1>2, <1>3, <1>5, MarksClean

LEMMA OutputsClean ==
  ASSUME Types, InStages, Clean, MarkOutputs
  PROVE  InStages' /\ Clean'
<1> DEFINE outputs == Range(Named(todo[1].subgraph, model[todo[1].subgraph].outputs))
           marked == Used(Created(infos, outputs, scope), outputs, scope)
           none == <<>>
           read == {}
<1>1. todo # <<>> /\ todo[1].do = "outputs" /\ Marks(read, scope, marked, none)
  BY DEF MarkOutputs, At
<1>2. /\ none \in Seq(Item) /\ DOMAIN none = {} /\ todo[1].do \in MarkKinds
      /\ infos \in Seq(InfoType) /\ scope \in Int /\ read \in SUBSET RequestSlots
  BY <1>1 DEF MarkKinds, Types, AllocatorTypes
<1> HIDE DEF outputs, none, marked, read
<1>3. /\ AllocatorTypes /\ Marking /\ none \in Seq(Todo) /\ Advance(none) /\ infos' = marked
      /\ model' = model /\ requests' = requests
  BY <1>1, <1>2, MarksFacts
<1>4. StillMarked(marked)
  <2>1. scope # -1
    BY <1>2, <1>3 DEF Marking
  <2>2. QED
    BY <1>2, <2>1, BothStay DEF marked
<1>5. \E R \in SUBSET Subgraphs : Reached(R)'
  <2>1. PICK R \in SUBSET Subgraphs : Reached(R)
    BY <1>3 DEF Marking
  <2>2. \A q, p : ScratchMarked(q, p) => ScratchMarked(q, p)'
    BY <1>3, <1>4, ScratchStays
  <2>3. QED
    BY <1>1, <1>3, <2>1, <2>2, PendingStays, ReachedStays
<1>6. QED
  BY <1>1, <1>2, <1>4, <1>5, MarksClean

(* What stays on the list, but for its first.                              *)
LEMMA StillPending ==
  ASSUME AllocatorTypes, NEW items \in Seq(Todo), Advance(items)
  PROVE  /\ \A s, o : OpPending(s, o) =>
              OpPending(s, o)' \/ (todo[1].do = "op" /\ todo[1].subgraph = s /\ todo[1].op = o)
         /\ \A s : MarkPending(s) => MarkPending(s)' \/ (todo[1].do = "mark" /\ todo[1].subgraph = s)
<1>1. ASSUME NEW i \in DOMAIN todo, i # 1 PROVE \E j \in DOMAIN todo' : todo'[j] = todo[i]
  <2>1. i > 1
    BY <1>1, TodoFacts DEF Advance
  <2> DEFINE j == i - 1 + Len(items)
  <2>2. j \in DOMAIN todo' /\ todo'[j] = todo[i]
    BY <2>1, Moved
  <2> HIDE DEF j
  <2>3. QED
    BY <2>2
<1>2. QED
  BY <1>1 DEF OpPending, MarkPending

LEMMA InputsClean ==
  ASSUME Types, InStages, Clean, MarkInputs
  PROVE  InStages' /\ Clean'
<1>0. PICK s : s = todo[1].subgraph
  OBVIOUS
<1> DEFINE inputs == Range(Named(s, model[s].inputs))
           now == scope + todo[1].opens
           marked == Used(Created(infos, inputs, now), inputs, now)
           ops == [o \in DOMAIN Ops(s) |-> OpStep("op", s, o, 0)]
           last == <<OpStep("outputs", s, 0, 0)>>
           items == ops \o last
           read == {}
<1>1. todo # <<>> /\ todo[1].do = "mark" /\ Marks(read, now, marked, items)
  BY <1>0 DEF MarkInputs, At
<1>2. /\ todo[1].do \in MarkKinds /\ infos \in Seq(InfoType) /\ scope \in Int
      /\ model \in Models /\ AllocatorTypes
      /\ items \in Seq(Item) /\ read \in SUBSET RequestSlots
      /\ todo[1] \in MarkType
  BY <1>0, <1>1, MarkingItems, ItemKinds DEF MarkKinds, Types, AllocatorTypes
<1>3. s \in Subgraphs /\ now \in Int /\ (scope >= 0 => now >= 0)
  BY <1>0, <1>2 DEF MarkType
<1>4. /\ ops \in Seq(Item) /\ DOMAIN ops = DOMAIN Ops(s) /\ last \in Seq(Item)
      /\ \A o \in DOMAIN Ops(s) : ops[o] = OpStep("op", s, o, 0)
      /\ DOMAIN last = {1} /\ last[1] = OpStep("outputs", s, 0, 0)
  <2> DEFINE n == Len(Ops(s))
  <2>1. DOMAIN Ops(s) = 1 .. n /\ n \in Nat
    BY <1>2, <1>3, ModelFacts
  <2>2. \A o \in 1 .. n : OpStep("op", s, o, 0) \in Item
    BY <1>3, <2>1, OpItem
  <2>3. OpStep("outputs", s, 0, 0) \in Item
    BY <1>3, OpItem
  <2> HIDE DEF n
  <2>4. ops = [o \in 1 .. n |-> ops[o]] /\ \A o \in 1 .. n : ops[o] \in Item
    BY <2>1, <2>2
  <2>5. \A o \in DOMAIN Ops(s) : ops[o] = OpStep("op", s, o, 0)
    OBVIOUS
  <2>6. DOMAIN ops = DOMAIN Ops(s)
    OBVIOUS
  <2> HIDE DEF ops
  <2>7. ops \in Seq(Item)
    BY <2>1, <2>4, ListOf
  <2>8. QED
    BY <2>3, <2>5, <2>6, <2>7
<1> HIDE DEF inputs, now, marked, ops, last, read
<1>5. /\ \A i \in DOMAIN ops : i \in DOMAIN items /\ items[i] = ops[i]
      /\ \A i \in DOMAIN items : items[i] \in {ops[j] : j \in DOMAIN ops} \cup {last[1]}
  BY <1>4, Joined
<1>6. \A i \in DOMAIN items : items[i].do \in MarkKinds
  <2>1. \A o : OpStep("op", s, o, 0).do \in MarkKinds /\ OpStep("outputs", s, 0, 0).do \in MarkKinds
    BY DEF OpStep, MarkKinds
  <2>2. QED
    BY <1>4, <1>5, <2>1
<1> HIDE DEF items
<1>7. /\ Marking /\ items \in Seq(Todo) /\ Advance(items) /\ infos' = marked
      /\ model' = model /\ requests' = requests
  BY <1>1, <1>2, MarksFacts
<1>8. StillMarked(marked)
  <2>1. now # -1
    BY <1>3, <1>7 DEF Marking
  <2>2. QED
    BY <1>2, <1>3, <2>1, BothStay DEF marked
<1>9. \E R \in SUBSET Subgraphs : Reached(R)'
  <2>1. PICK R \in SUBSET Subgraphs : Reached(R)
    BY <1>7 DEF Marking
  <2>2. \A q, p : ScratchMarked(q, p) => ScratchMarked(q, p)'
    BY <1>7, <1>8, ScratchStays
  <2> DEFINE Q == R \cup {s}
  <2>3. \A q : Ops(q)' = Ops(q)
    BY <1>7, SameModel
  <2>4. /\ \A q, p : OpPending(q, p) => OpPending(q, p)'
        /\ \A q : MarkPending(q) => MarkPending(q)' \/ q = s
    BY <1>0, <1>1, <1>2, <1>7, StillPending
  <2>5. \A o \in DOMAIN Ops(s) : OpPending(s, o)'
    <3> SUFFICES ASSUME NEW o \in DOMAIN Ops(s) PROVE OpPending(s, o)'
      BY Zenon
    <3>1. o \in DOMAIN todo' /\ todo'[o] = OpStep("op", s, o, 0)
      BY <1>2, <1>4, <1>5, <1>7, Moved
    <3>2. \E i \in DOMAIN todo' : todo'[i].do = "op" /\ todo'[i].subgraph = s /\ todo'[i].op = o
      BY <3>1 DEF OpStep
    <3>3. QED
      BY <3>2 DEF OpPending
  <2>6. 1 \in Q \/ MarkPending(1)'
    BY <2>1, <2>4 DEF Reached
  <2>7. ASSUME NEW q \in Q, NEW o \in DOMAIN Ops(q)
        PROVE  \/ OpPending(q, o)'
               \/ ScratchMarked(q, o)' /\ \A s2 \in Range(Ops(q)[o].calls) : s2 \in Q \/ MarkPending(s2)'
    <3>1. CASE q = s
      BY <2>5, <3>1
    <3>2. CASE q \in R
      BY <2>1, <2>2, <2>4, <3>2 DEF Reached
    <3>3. QED
      BY <3>1, <3>2
  <2>8. Reached(Q)'
    BY <2>3, <2>6, <2>7 DEF Reached
  <2>9. Q \in SUBSET Subgraphs
    BY <1>3
  <2>10. QED
    BY <2>8, <2>9
<1>10. QED
  BY <1>1, <1>2, <1>3, <1>6, <1>8, <1>9, MarksClean

LEMMA OperatorClean ==
  ASSUME Types, InStages, Clean, MarkOperator
  PROVE  InStages' /\ Clean'
<1>0. PICK s, o, calls : s = todo[1].subgraph /\ o = todo[1].op /\ calls = Ops(s)[o].calls
  OBVIOUS
<1> DEFINE names == Range(Named(s, Ops(s)[o].outputs)) \cup ScratchNames(s, o)
           now == scope + 1
           marked == Created(infos, names, now)
           marks == [c \in DOMAIN calls |-> Mark(calls[c], 1)]
           last == <<OpStep("used", s, o, 0)>>
           items == marks \o last
<1>1. todo # <<>> /\ todo[1].do = "op" /\ Marks(RequestSlots, now, marked, items)
  BY <1>0 DEF MarkOperator, At
<1>2. /\ todo[1].do \in MarkKinds /\ infos \in Seq(InfoType) /\ scope \in Int
      /\ model \in Models /\ AllocatorTypes
      /\ items \in Seq(Item)
      /\ todo[1] \in OpType
  BY <1>0, <1>1, MarkingItems, ItemKinds DEF MarkKinds, Types, AllocatorTypes
<1>3. s \in Subgraphs /\ o \in DOMAIN Ops(s) /\ now \in Int /\ (scope >= 0 => now >= 0)
  BY <1>0, <1>1, <1>2 DEF OpType
<1>4. /\ marks \in Seq(Item) /\ DOMAIN marks = DOMAIN calls /\ last \in Seq(Item)
      /\ \A c \in DOMAIN calls : marks[c] = Mark(calls[c], 1)
      /\ DOMAIN last = {1} /\ last[1] = OpStep("used", s, o, 0)
  <2> DEFINE n == Len(calls)
  <2>1. calls \in Seq(Nat) /\ \A c \in DOMAIN calls : calls[c] \in Subgraphs
    BY <1>0, <1>2, <1>3, OpFacts
  <2>2. DOMAIN calls = 1 .. n /\ n \in Nat
    BY <2>1
  <2>3. \A c \in 1 .. n : Mark(calls[c], 1) \in Item
    BY <2>1, <2>2, MarkItem
  <2>4. OpStep("used", s, o, 0) \in Item
    <3>1. o \in Nat
      BY <1>2, <1>3, OpFacts
    <3>2. QED
      BY <1>3, <3>1, OpItem
  <2> HIDE DEF n
  <2>5. marks = [c \in 1 .. n |-> marks[c]] /\ \A c \in 1 .. n : marks[c] \in Item
    BY <2>2, <2>3
  <2>6. \A c \in DOMAIN calls : marks[c] = Mark(calls[c], 1)
    OBVIOUS
  <2>7. DOMAIN marks = DOMAIN calls
    OBVIOUS
  <2> HIDE DEF marks
  <2>8. marks \in Seq(Item)
    BY <2>2, <2>5, ListOf
  <2>9. QED
    BY <2>4, <2>6, <2>7, <2>8
<1>5. ScratchNames(s, o) \subseteq names /\ calls = Ops(s)[o].calls
  BY <1>0
<1> HIDE DEF names, now, marked, marks, last
<1>6. /\ \A i \in DOMAIN marks : i \in DOMAIN items /\ items[i] = marks[i]
      /\ \A i \in DOMAIN items : items[i] \in {marks[j] : j \in DOMAIN marks} \cup {last[1]}
  BY <1>4, Joined
<1>7. \A i \in DOMAIN items : items[i].do \in MarkKinds
  <2>1. \A q : Mark(q, 1).do \in MarkKinds /\ OpStep("used", s, o, 0).do \in MarkKinds
    BY DEF OpStep, Mark, MarkKinds
  <2>2. QED
    BY <1>4, <1>6, <2>1
<1> HIDE DEF items
<1>8. /\ Marking /\ items \in Seq(Todo) /\ Advance(items) /\ infos' = marked
      /\ model' = model /\ requests' = requests
  BY <1>1, <1>2, MarksFacts
<1>9. now # -1
  BY <1>2, <1>3, <1>8 DEF Marking
<1>10. StillMarked(marked)
  BY <1>2, <1>3, <1>9, BothStay DEF marked
<1>11. ScratchMarked(s, o)'
  <2>1. ScratchOf(s, o)' = ScratchOf(s, o)
    BY <1>8 DEF ScratchOf
  <2>2. \A j \in DOMAIN infos : infos[j].name \in names => marked[j].first # -1
    BY <1>2, <1>3, <1>9, CreatedStays DEF marked
  <2>3. \A k \in ScratchOf(s, o) : Scratch(k) \in names
    BY <1>5 DEF ScratchNames
  <2>4. QED
    BY <1>8, <1>10, <2>1, <2>2, <2>3 DEF ScratchMarked, StillMarked
<1>12. \A s2 \in Range(calls) : MarkPending(s2)'
  <2> SUFFICES ASSUME NEW q, NEW c \in DOMAIN calls, q = calls[c] PROVE MarkPending(q)'
    BY DEF Range
  <2>1. c \in DOMAIN todo' /\ todo'[c] = Mark(q, 1)
    BY <1>2, <1>4, <1>6, <1>8, Moved
  <2>2. \E i \in DOMAIN todo' : todo'[i].do = "mark" /\ todo'[i].subgraph = q
    BY <2>1 DEF Mark
  <2>3. QED
    BY <2>2 DEF MarkPending
<1>13. \E R \in SUBSET Subgraphs : Reached(R)'
  <2>1. PICK R \in SUBSET Subgraphs : Reached(R)
    BY <1>8 DEF Marking
  <2>2. \A q, p : ScratchMarked(q, p) => ScratchMarked(q, p)'
    BY <1>8, <1>10, ScratchStays
  <2>3. \A q : Ops(q)' = Ops(q)
    BY <1>8, SameModel
  <2>4. /\ \A q, p : OpPending(q, p) => OpPending(q, p)' \/ (q = s /\ p = o)
        /\ \A q : MarkPending(q) => MarkPending(q)'
    BY <1>0, <1>1, <1>2, <1>8, StillPending
  <2>5. 1 \in R \/ MarkPending(1)'
    BY <2>1, <2>4 DEF Reached
  <2>6. ASSUME NEW q \in R, NEW p \in DOMAIN Ops(q)
        PROVE  \/ OpPending(q, p)'
               \/ ScratchMarked(q, p)' /\ \A s2 \in Range(Ops(q)[p].calls) : s2 \in R \/ MarkPending(s2)'
    <3>1. CASE q = s /\ p = o
      BY <1>5, <1>11, <1>12, <3>1
    <3>2. CASE ~(q = s /\ p = o)
      BY <2>1, <2>2, <2>4, <3>2 DEF Reached
    <3>3. QED
      BY <3>1, <3>2
  <2>7. Reached(R)'
    BY <2>3, <2>5, <2>6 DEF Reached
  <2>8. QED
    BY <2>1, <2>7
<1>14. QED
  BY <1>1, <1>2, <1>3, <1>7, <1>10, <1>13, MarksClean

\* What the builder of the AllocationInfo knows of the tensors.
TensorInfo == {i \in InfoType : IsTensor(i.name)}

LEMMA TensorInfos ==
  ASSUME model \in Models
  PROVE  LET all == PerTensor(LAMBDA t : OnlyIf(NeedsAllocating(t), NewInfo(T(t[1], t[2]), Bytes(t), Offline(t)))) IN
         /\ all \in Seq(TensorInfo)
         /\ \A s \in Subgraphs : \A i \in Tensors(s) :
              NeedsAllocating(<<s, i>>) => \E j \in DOMAIN all : all[j].name = T(s, i)
<1> DEFINE x(s, i) == NewInfo(T(s, i), Bytes(<<s, i>>), Offline(<<s, i>>))
           item(s, i) == OnlyIf(NeedsAllocating(<<s, i>>), x(s, i))
           g == [s \in Subgraphs |-> [i \in Tensors(s) |-> item(s, i)]]
           h == [s \in Subgraphs |-> FlattenSeq(g[s])]
           all == FlattenSeq(h)
<1>1. ASSUME NEW s \in Subgraphs, NEW i \in Tensors(s)
      PROVE  /\ item(s, i) \in Seq(TensorInfo)
             /\ NeedsAllocating(<<s, i>>) => 1 \in DOMAIN item(s, i) /\ item(s, i)[1].name = T(s, i)
  <2>1. Bytes(<<s, i>>) \in Nat /\ Offline(<<s, i>>) \in Nat \cup {Online} /\ T(s, i) \in Name
    BY TensorFacts
  <2>2. x(s, i) \in InfoType /\ x(s, i).name = T(s, i)
    BY <2>1 DEF NewInfo, InfoType
  <2>3. IsTensor(T(s, i))
    BY DEF IsTensor, T
  <2> HIDE DEF x
  <2>4. x(s, i) \in TensorInfo
    BY <2>2, <2>3 DEF TensorInfo
  <2>5. NeedsAllocating(<<s, i>>) \in BOOLEAN
    BY DEF NeedsAllocating
  <2>6. QED
    BY <2>2, <2>4, <2>5 DEF OnlyIf
<1>2. PerTensor(LAMBDA t : OnlyIf(NeedsAllocating(t), NewInfo(T(t[1], t[2]), Bytes(t), Offline(t)))) = all
  BY DEF PerTensor
<1> HIDE DEF item
<1>3. /\ \A s \in Subgraphs : \A i \in Tensors(s) : g[s][i] \in Seq(TensorInfo) /\ g[s][i] = item(s, i)
      /\ \A s \in Subgraphs : g[s] = [i \in Tensors(s) |-> g[s][i]]
  BY <1>1
<1>4. Flat(h, g)
  BY DEF Flat
<1> HIDE DEF g, h
<1>5. Lists(g, Seq(TensorInfo)) /\ \A s \in Subgraphs : DOMAIN g[s] = Tensors(s)
  BY <1>3, PerTensorSeqs
<1>6. /\ FlattenSeq(h) \in Seq(TensorInfo)
      /\ \A s \in Subgraphs : \A i \in DOMAIN g[s] : \A p \in DOMAIN g[s][i] :
           \E m \in DOMAIN FlattenSeq(h) : FlattenSeq(h)[m] = g[s][i][p]
  BY <1>4, <1>5, OverSubgraphs
<1>7. ASSUME NEW s \in Subgraphs, NEW i \in Tensors(s), NeedsAllocating(<<s, i>>)
      PROVE  \E j \in DOMAIN all : all[j].name = T(s, i)
  <2>1. i \in DOMAIN g[s] /\ 1 \in DOMAIN g[s][i] /\ g[s][i][1].name = T(s, i)
    BY <1>1, <1>3, <1>5, <1>7
  <2>2. PICK m \in DOMAIN all : all[m] = g[s][i][1]
    BY <1>6, <2>1
  <2>3. QED
    BY <2>1, <2>2
<1>8. all \in Seq(TensorInfo)
  BY <1>6
<1>9. QED
  BY <1>2, <1>7, <1>8

LEMMA InfoNames ==
  ASSUME model \in Models, requests \in Seq(RequestType)
  PROVE  /\ \A k \in GivenTensors : \E j \in DOMAIN AllocationInfo : AllocationInfo[j].name = k
         /\ \A j \in DOMAIN AllocationInfo : AllocationInfo[j].name[1] = "scratch" =>
              \E k \in DOMAIN requests : AllocationInfo[j].name = Scratch(k)
         /\ \A j \in DOMAIN AllocationInfo : AllocationInfo[j].name[1] \in {"tensor", "scratch"}
<1> DEFINE all == PerTensor(LAMBDA t : OnlyIf(NeedsAllocating(t), NewInfo(T(t[1], t[2]), Bytes(t), Offline(t))))
           scratch == [k \in DOMAIN requests |-> NewInfo(Scratch(k), requests[k].bytes, Online)]
           ScratchInfo == {i \in InfoType : \E k \in DOMAIN requests : i.name = Scratch(k)}
           Infos == TensorInfo \cup ScratchInfo
           n == Len(requests)
           l == all \o scratch
<1>1. AllocationInfo = l
  BY DEF AllocationInfo
<1>2. /\ all \in Seq(TensorInfo)
      /\ \A s \in Subgraphs : \A i \in Tensors(s) :
           NeedsAllocating(<<s, i>>) => \E j \in DOMAIN all : all[j].name = T(s, i)
  BY TensorInfos
<1>3. n \in Nat /\ DOMAIN requests = 1 .. n /\ \A k \in 1 .. n : requests[k].bytes \in Nat
  <2>1. n \in Nat /\ DOMAIN requests = 1 .. n /\ \A k \in 1 .. n : requests[k] \in RequestType
    OBVIOUS
  <2>2. \A x \in RequestType : x.bytes \in Nat
    BY DEF RequestType
  <2>3. QED
    BY <2>1, <2>2
<1>4. scratch = [k \in 1 .. n |-> scratch[k]] /\ \A k \in 1 .. n : scratch[k] \in ScratchInfo
  <2>1. ASSUME NEW k \in 1 .. n PROVE scratch[k] \in ScratchInfo
    <3>1. scratch[k] = NewInfo(Scratch(k), requests[k].bytes, Online)
      BY <1>3
    <3>2. Scratch(k) \in Name
      BY <1>3 DEF Scratch, Name
    <3>3. NewInfo(Scratch(k), requests[k].bytes, Online) \in InfoType
      BY <1>3, <3>2 DEF NewInfo, InfoType
    <3>4. NewInfo(Scratch(k), requests[k].bytes, Online).name = Scratch(k)
      BY DEF NewInfo
    <3>5. QED
      BY <1>3, <3>1, <3>3, <3>4
  <2> HIDE DEF ScratchInfo
  <2>2. QED
    BY <1>3, <2>1
<1> HIDE DEF all, scratch, n
<1>5. scratch \in Seq(ScratchInfo)
  <2> HIDE DEF ScratchInfo
  <2>1. QED
    BY <1>3, <1>4, ListOf
<1>6. \A i \in Infos : /\ i.name[1] = "scratch" => \E k \in DOMAIN requests : i.name = Scratch(k)
                     /\ i.name[1] \in {"tensor", "scratch"}
  BY DEF TensorInfo, IsTensor, Scratch
<1>7. TensorInfo \subseteq Infos /\ ScratchInfo \subseteq Infos
  OBVIOUS
<1> HIDE DEF Infos, ScratchInfo
<1>8. all \in Seq(Infos) /\ scratch \in Seq(Infos)
  BY <1>2, <1>5, <1>7
<1>9. /\ l \in Seq(Infos)
      /\ \A j \in DOMAIN all : j \in DOMAIN l /\ l[j] = all[j]
  BY <1>8, Joined
<1> HIDE DEF l
<1>10. \A j \in DOMAIN l : l[j] \in Infos
  BY <1>9
<1>11. ASSUME NEW k \in GivenTensors PROVE \E j \in DOMAIN l : l[j].name = k
  <2>1. PICK t \in AllTensors : NeedsAllocating(t) /\ k = T(t[1], t[2])
    BY DEF GivenTensors
  <2>2. PICK s \in Subgraphs : t \in {s} \X Tensors(s)
    BY DEF AllTensors
  <2>3. t = <<s, t[2]>> /\ t[1] = s /\ t[2] \in Tensors(s)
    BY <2>2
  <2>4. NeedsAllocating(<<s, t[2]>>) /\ k = T(s, t[2])
    BY <2>1, <2>3
  <2>5. PICK j \in DOMAIN all : all[j].name = k
    BY <1>2, <2>3, <2>4
  <2>6. QED
    BY <1>9, <2>5
<1>12. QED
  BY <1>1, <1>6, <1>10, <1>11

(* The marking begins: the AllocationInfo is behind the requests and below *)
(* the persistent buffers.                                                 *)
LEMMA LifetimesClean ==
  ASSUME Types, InStages, Clean, InitializeAllocationInfo
  PROVE  InStages' /\ Clean'
<1> DEFINE r == 6
           read == Structures \cup EvalNames
           x == Mark(1, 0)
           items == <<x>>
<1>1. todo # <<>> /\ todo[1].do = "lifetimes" /\ Rank(todo[1]) = 6
  BY DEF InitializeAllocationInfo, At, Rank
<1>2. /\ AllocatorTypes /\ ArenaTypeOK /\ Ready /\ Ordered(todo) /\ model \in Models
      /\ Layout /\ PersistentWhole /\ Slots /\ Assigned
      /\ \A q \in Nat : Past(q) <=> q < 6
  <2>1. r \in 1 .. 11 /\ Rank(todo[1]) = r /\ r = 6
    BY <1>1
  <2> HIDE DEF r
  <2>2. WholeAt(r) /\ AllocatorTypes /\ ArenaTypeOK /\ Ready /\ \A q \in Nat : Past(q) <=> q < r
    BY <1>1, <2>1, FrontWhole
  <2>3. QED
    BY <2>1, <2>2 DEF WholeAt, InStages, AllocatorTypes
<1>3. ASSUME NEW k \in read PROVE k \in held
  <2>1. k \in Needs(todo[1])
    BY <1>1, <1>3 DEF Needs
  <2>2. Have(k)
    BY <1>1, <1>2, <2>1, FrontHas
  <2>3. k[1] \in Kinds /\ k[1] # "tensor"
    BY <1>3 DEF Structures, EvalNames, Kinds
  <2>4. QED
    BY <1>2, <2>2, <2>3, StructureHeld
<1>4. InfoRoom /\ AlignUp(temp, BufferAlign) <= tail
  <2>1. Info \in Needs(todo[1])
    BY <1>1 DEF Needs
  <2>2. Have(Info)
    BY <1>1, <1>2, <2>1, FrontHas
  <2>3. QED
    BY <2>2 DEF Have
<1>5. /\ ~Garbled(read)
      /\ infos' = AllocationInfo
      /\ scope' = 0
      /\ held' = HeldAfter(held, {Info})
      /\ todo' = items \o Tail(todo)
      /\ UNCHANGED <<outcome, size, head, tail, temp, place, model, requests, allocating, maxHead, short, planner>>
  <2>1. read = Structures \cup {<<"eval", s, 0>> : s \in Subgraphs}
    BY DEF EvalNames
  <2> HIDE DEF read
  <2>2. ~ReadsGarbage(read)
    BY <1>3, NoGarbage
  <2>3. QED
    BY <2>1, <2>2 DEF InitializeAllocationInfo
<1>6. /\ items \in Seq(Item) /\ items \in Seq(Todo) /\ DOMAIN items = {1} /\ items[1] = x
      /\ x.do = "mark" /\ x.subgraph = 1 /\ Rank(x) = 7 /\ Needs(x) = {Marked}
  <2>1. x \in Item
    BY <1>2, ModelFacts, MarkItem
  <2>2. x.do = "mark" /\ x.subgraph = 1
    BY DEF Mark
  <2> HIDE DEF x
  <2>3. Rank(x) = 7 /\ Needs(x) = {Marked}
    BY <2>2 DEF Rank, Needs
  <2>4. items \in Seq(Item) /\ DOMAIN items = {1} /\ items[1] = x
    BY <2>1
  <2>5. QED
    BY <2>2, <2>3, <2>4, Wider
<1> HIDE DEF x, items, read
<1>7. Advance(items) /\ Onward(items)
  BY <1>1, <1>5, <1>6 DEF Advance, Onward
<1>8. InStages'
  <2>1. Ordered(items) /\ Closed(items)
    BY <1>6 DEF Ordered, Closed
  <2>2. \A i \in DOMAIN items : items[i].do # "commit"
    BY <1>6
  <2>3. \A i \in DOMAIN items : \A j \in DOMAIN todo :
           j > 1 /\ Rank(items[i]) # 0 /\ Rank(todo[j]) # 0 => Follows(Rank(items[i]), Rank(todo[j]))
    <3> SUFFICES ASSUME NEW j \in DOMAIN todo, j > 1, Rank(todo[j]) # 0 PROVE Follows(7, Rank(todo[j]))
      BY <1>6
    <3>1. Follows(6, Rank(todo[j]))
      BY <1>1, <1>2, TodoFacts DEF Ordered
    <3>2. Rank(todo[j]) \in 0 .. 11
      BY RankNat
    <3>3. QED
      BY <3>1, <3>2 DEF Follows
  <2>4. QED
    BY <1>2, <1>6, <1>7, <2>1, <2>2, <2>3, PushStages
<1>9. /\ held \subseteq DOMAIN place /\ Info \in DOMAIN place
      /\ place' = place /\ head' = head /\ tail' = tail /\ temp' = temp /\ requests' = requests /\ model' = model
      /\ head \in Int /\ tail \in Int /\ temp \in Int
      /\ \A m \in DOMAIN place : place[m].lo \in Int /\ place[m].hi \in Int
  BY <1>2, <1>4, <1>5 DEF ArenaTypeOK, InfoRoom
<1>10. /\ Info \in held'
       /\ \A m \in held : place[m].hi <= head \/ tail <= place[m].lo => m \in held'
  <2>1. held' = {m \in held \cup {Info} : \A n \in {Info} \ {m} : ~Meet(place[m], place[n])}
    BY <1>5, <1>9 DEF HeldAfter
  <2>2. head <= place[Info].lo /\ place[Info].hi <= temp /\ temp <= tail
    BY <1>2, <1>4 DEF InfoRoom, Layout
  <2>3. ASSUME NEW m \in held, place[m].hi <= head \/ tail <= place[m].lo PROVE ~Meet(place[m], place[Info])
    BY <1>9, <2>2, <2>3 DEF Meet
  <2>4. QED
    BY <2>1, <2>3
<1>11. Layout' /\ PersistentWhole' /\ Slots' /\ InfoRoom'
  <2>1. Layout' /\ InfoRoom'
    BY <1>2, <1>4, <1>9 DEF Layout, InfoRoom
  <2>2. PersistentWhole'
    BY <1>2, <1>9, <1>10 DEF PersistentWhole
  <2>3. Slots'
    BY <1>2, <1>9, <1>10 DEF Slots
  <2>4. QED
    BY <2>1, <2>2, <2>3
<1>12. Assigned'
  BY <1>1, <1>2, <1>9, SameAssigned
<1>13. Whole'
  BY <1>1, <1>2, <1>6, <1>7, <1>11, <1>12, WholeStays
<1>14. Past(3)' /\ Past(5)' /\ Past(6)'
  <2>1. Past(3)' /\ Past(5)'
    BY <1>2, <1>6, <1>7, PastStays
  <2>2. r \in Nat \ {0, 2, 7} /\ Rank(todo[1]) = r /\ r = 6 /\ \A i \in DOMAIN items : Rank(items[i]) > r
    BY <1>1, <1>6
  <2> HIDE DEF r
  <2>3. Past(r)'
    BY <1>2, <1>6, <1>7, <2>2, PastNow
  <2>4. QED
    BY <2>1, <2>2, <2>3
<1>15. Marking'
  <2>1. InfosMatch'
    <3>1. /\ \A k \in GivenTensors : \E j \in DOMAIN infos' : infos'[j].name = k
          /\ \A j \in DOMAIN infos' : infos'[j].name[1] = "scratch" => \E k \in DOMAIN requests : infos'[j].name = Scratch(k)
      BY <1>2, <1>5, InfoNames DEF AllocatorTypes
    <3>2. GivenTensors' = GivenTensors
      BY <1>9, SameNeeds
    <3>3. QED
      BY <1>9, <3>1, <3>2 DEF InfosMatch, PlannedNames
  <2>2. MarkPending(1)'
    BY <1>2, <1>6, <1>7, Moved DEF MarkPending
  <2>3. \E R \in SUBSET Subgraphs' : Reached(R)'
    <3> DEFINE none == {}
    <3>1. none \in SUBSET Subgraphs' /\ \A s \in none : FALSE
      OBVIOUS
    <3> HIDE DEF none
    <3>2. Reached(none)'
      BY <2>2, <3>1 DEF Reached, none
    <3>3. QED
      BY <3>1, <3>2
  <2>4. QED
    BY <1>5, <1>10, <1>11, <2>1, <2>3 DEF Marking
<1>16. Have(Marked)'
  <2>1. Marked \notin {Info, PlannerArena, Handles}
    BY DEF Handles, Info, PlannerArena, Marked
  <2>2. QED
    BY <1>14, <1>15, <2>1 DEF Have
<1>17. Kept
  <2> SUFFICES ASSUME NEW i \in DOMAIN todo, i > 1, NEW k \in Needs(todo[i]), Have(k) PROVE Have(k)'
    BY DEF Kept
  <2>1. CASE k[1] \in Kinds
    BY <1>9, <2>1, PlainHave
  <2>2. CASE k = Handles
    <3>1. Handles \notin {Info, PlannerArena, Marked}
      BY DEF Handles, Info, PlannerArena, Marked
    <3>2. QED
      BY <1>9, <1>14, <2>2, <3>1 DEF Have
  <2>3. CASE k = Info
    <3>1. Info \notin {Handles, PlannerArena, Marked}
      BY DEF Handles, Info, PlannerArena, Marked
    <3>2. QED
      BY <1>4, <1>9, <1>11, <1>14, <2>3, <3>1 DEF Have
  <2>4. CASE k \in {Marked, PlannerArena}
    <3>1. ~Past(6) /\ ~Past(8)
      BY <1>2
    <3>2. QED
      BY <2>4, <3>1 DEF Have
  <2>5. QED
    BY <2>1, <2>2, <2>3, <2>4, NeedKinds
<1>18. Served(items)
  BY <1>6, <1>16 DEF Served
<1>19. Left(items)
  BY <1>1, <1>16 DEF Left, Gives
<1>20. Ready'
  BY <1>2, <1>6, <1>7, <1>9, <1>17, <1>18, <1>19, AdvanceReady
<1>21. Ended'
  <2>1. \A i \in DOMAIN items : items[i].do # "start"
    BY <1>6
  <2>2. QED
    BY <1>1, <1>2, <1>5, <1>6, <1>7, <2>1, PopEnded DEF Clean
<1>22. QED
  BY <1>8, <1>13, <1>20, <1>21 DEF Clean

-----------------------------------------------------------------------------
(* The plan, and what is left when it is committed.                        *)

\* The two steps that InitMemoryPlanner puts on the list.
PlanSteps == <<Step("commit"), Step("reserve")>>

LEMMA PlanStepsFacts ==
  /\ PlanSteps \in Seq(Todo) /\ DOMAIN PlanSteps = {1, 2}
  /\ PlanSteps[1].do = "commit" /\ PlanSteps[2].do = "reserve"
  /\ Rank(PlanSteps[1]) = 9 /\ Rank(PlanSteps[2]) = 10
  /\ Needs(PlanSteps[1]) = EvalNames \cup {Handles, Marked, PlannerArena} /\ Needs(PlanSteps[2]) = {}
  /\ Gives(PlanSteps[1]) = GivenTensors
<1> DEFINE c == Step("commit")
           e == Step("reserve")
<1>1. c \in Todo /\ e \in Todo /\ c.do = "commit" /\ e.do = "reserve"
  BY DEF Step, Todo
<1> HIDE DEF c, e
<1>2. Rank(c) = 9 /\ Needs(c) = EvalNames \cup {Handles, Marked, PlannerArena} /\ Gives(c) = GivenTensors
  BY <1>1 DEF Rank, Needs, Gives
<1>3. Rank(e) = 10 /\ Needs(e) = {}
  BY <1>1 DEF Rank, Needs
<1>4. PlanSteps = <<c, e>>
  BY DEF PlanSteps, c, e
<1>5. PlanSteps \in Seq(Todo) /\ DOMAIN PlanSteps = {1, 2} /\ PlanSteps[1] = c /\ PlanSteps[2] = e
  BY <1>1, <1>4
<1>6. QED
  BY <1>1, <1>2, <1>3, <1>5

(* The planner's arena lies behind the AllocationInfo.                     *)
LEMMA PlannerRoomFacts ==
  ASSUME ArenaTypeOK, InfoRoom, AllocateTemp(PlannerArena, PlannerRoom, BufferAlign, FALSE), PlannerRoom >= 0
  PROVE  /\ DOMAIN place' = DOMAIN place \cup {PlannerArena}
         /\ \A m \in DOMAIN place : m # PlannerArena => place'[m] = place[m]
         /\ held \ {PlannerArena} \subseteq held'
         /\ head' = head /\ InfoRoom'
         /\ place'[Info].hi <= place'[PlannerArena].lo
<1> DEFINE lo == TempAt(BufferAlign)
           room == PlannerRoom
<1>1. temp \in Int /\ tail \in Int /\ BufferAlign \in Nat \ {0}
  BY ArenaAssumption DEF ArenaTypeOK
<1>2. lo \in Int /\ temp <= lo
  BY <1>1, AlignBounds DEF TempAt
<1>3. room \in Int
  <2>1. AlignDown(tail, BufferAlign) \in Int
    BY <1>1, AlignBounds
  <2>2. AlignUp(temp, BufferAlign) \in Int
    BY <1>1, AlignBounds
  <2>3. QED
    BY <2>1, <2>2 DEF PlannerRoom
<1>4. room >= 0
  OBVIOUS
<1> HIDE DEF lo, room
<1>5. /\ temp' = lo + room /\ head' = head
      /\ place' = [m \in DOMAIN place \cup {PlannerArena} |-> IF m = PlannerArena THEN [lo |-> lo, hi |-> temp'] ELSE place[m]]
      /\ held' = held \ {PlannerArena}
  BY DEF AllocateTemp, HandOut, lo, room
<1>6. temp <= temp' /\ temp' \in Int
  BY <1>1, <1>2, <1>3, <1>4, <1>5
<1>7. /\ DOMAIN place' = DOMAIN place \cup {PlannerArena}
      /\ \A m \in DOMAIN place : m # PlannerArena => place'[m] = place[m]
      /\ place'[PlannerArena].lo = lo
  BY <1>5
<1>8. Info # PlannerArena
  BY DEF Info, PlannerArena
<1>9. /\ Info \in DOMAIN place' /\ place'[Info] = place[Info]
      /\ head <= place[Info].lo /\ place[Info].hi <= temp /\ place[Info].hi \in Int
  BY <1>7, <1>8 DEF InfoRoom, ArenaTypeOK
<1>10. InfoRoom'
  BY <1>1, <1>5, <1>6, <1>9 DEF InfoRoom
<1>11. place'[Info].hi <= place'[PlannerArena].lo
  BY <1>1, <1>2, <1>7, <1>9
<1>12. QED
  BY <1>5, <1>7, <1>10, <1>11

LEMMA PlannerClean ==
  ASSUME Types, Reserving, InStages, Clean, InitMemoryPlanner, ~short'
  PROVE  InStages' /\ Clean'
<1> DEFINE r == 8
           items == PlanSteps
<1>1. todo # <<>> /\ todo[1].do = "plan" /\ Rank(todo[1]) = 8 /\ UNCHANGED book
  BY DEF InitMemoryPlanner, At, Rank
<1>2. /\ AllocatorTypes /\ ArenaTypeOK /\ Ready /\ Ended /\ Ordered(todo) /\ CommitFirst /\ Assigned
      /\ \A q \in Nat : Past(q) <=> q < 8
  <2>1. r \in 1 .. 11 /\ Rank(todo[1]) = r /\ r = 8
    BY <1>1
  <2> HIDE DEF r
  <2>2. WholeAt(r) /\ AllocatorTypes /\ ArenaTypeOK /\ Ready /\ Ended /\ \A q \in Nat : Past(q) <=> q < r
    BY <1>1, <2>1, FrontWhole
  <2>3. QED
    BY <2>1, <2>2 DEF WholeAt, InStages
<1>3. Past(2) /\ Past(3) /\ Past(6) /\ ~Past(8)
  BY <1>2
<1>4. /\ InfoRoom /\ AlignUp(temp, BufferAlign) <= tail /\ Marking
      /\ \A k \in EvalNames \cup {Handles} : Have(k)
  <2>1. Needs(todo[1]) = EvalNames \cup {Handles, Info, Marked}
    BY <1>1 DEF Needs
  <2>2. \A k \in EvalNames \cup {Handles, Info, Marked} : Have(k)
    BY <1>1, <1>2, <2>1, FrontHas
  <2>3. Have(Info) /\ Have(Marked)
    BY <2>2
  <2>4. QED
    BY <2>2, <2>3 DEF Have
<1>5. /\ PlannerRoom >= 0
      /\ AllocateTemp(PlannerArena, PlannerRoom, BufferAlign, FALSE)
      /\ bufferCount' = 0
      /\ todo' = items \o Tail(todo)
      /\ outcome' = outcome
  <2>1. ~(tail < TempAt(BufferAlign))
    <3> DEFINE u == AlignUp(temp, BufferAlign)
    <3>1. u \in Int /\ tail \in Int /\ u <= tail
      BY <1>2, <1>4, ArenaAssumption, AlignTypes DEF ArenaTypeOK
    <3> HIDE DEF u
    <3>2. ~(tail < u)
      BY <3>1
    <3>3. QED
      BY <3>2 DEF TempAt, u
  <2>2. QED
    BY <2>1 DEF InitMemoryPlanner, Refused, InitPlanner, PlanSteps
<1>6. /\ model' = model /\ requests' = requests /\ infos' = infos /\ scope' = scope /\ allocating' = allocating
  BY <1>1 DEF book
<1>7. /\ items \in Seq(Todo) /\ DOMAIN items = {1, 2}
      /\ items[1].do = "commit" /\ items[2].do = "reserve" /\ Rank(items[1]) = 9 /\ Rank(items[2]) = 10
      /\ Needs(items[1]) = EvalNames \cup {Handles, Marked, PlannerArena} /\ Needs(items[2]) = {}
      /\ Gives(items[1]) = GivenTensors
  BY PlanStepsFacts
<1> HIDE DEF items
<1>8. Advance(items) /\ Onward(items)
  BY <1>1, <1>5, <1>7 DEF Advance, Onward
<1>9. \A j \in DOMAIN todo : j > 1 /\ Rank(todo[j]) # 0 => Rank(todo[j]) = 11
  <2> SUFFICES ASSUME NEW j \in DOMAIN todo, j > 1, Rank(todo[j]) # 0 PROVE Rank(todo[j]) = 11
    OBVIOUS
  <2>1. Follows(8, Rank(todo[j]))
    BY <1>1, <1>2, TodoFacts DEF Ordered
  <2>2. todo[j].do # "commit"
    <3>1. j # 1
      BY <1>1, <1>2, TodoFacts
    <3>2. QED
      BY <3>1 DEF InStages, CommitFirst
  <2>3. todo[j].do # "reserve"
    <3>1. j # 1
      BY <1>1, <1>2, TodoFacts
    <3>2. QED
      BY <1>1, <3>1 DEF Reserving
  <2>4. Rank(todo[j]) \notin {9, 10}
    BY <2>2, <2>3 DEF Rank
  <2>5. Rank(todo[j]) \in 0 .. 11
    BY RankNat
  <2>6. QED
    BY <2>1, <2>4, <2>5 DEF Follows
<1>10. InStages'
  <2>1. Ordered(items)
    BY <1>7 DEF Ordered, Follows
  <2>2. Closed(items)
    BY <1>7 DEF Closed
  <2>3. \A i \in DOMAIN items : items[i].do = "commit" => i = 1
    BY <1>7
  <2>4. \A i \in DOMAIN items : \A j \in DOMAIN todo :
           j > 1 /\ Rank(items[i]) # 0 /\ Rank(todo[j]) # 0 => Follows(Rank(items[i]), Rank(todo[j]))
    BY <1>7, <1>9 DEF Follows
  <2>5. QED
    BY <1>2, <1>7, <1>8, <2>1, <2>2, <2>3, <2>4, PushStages
<1>11. Whole'
  <2>1. Assigned'
    BY <1>1, <1>2, <1>3, <1>6, SameAssigned
  <2>2. Past(1) /\ Past(7)
    BY <1>2
  <2>3. QED
    BY <1>1, <1>2, <1>3, <1>7, <1>8, <2>1, <2>2, WholeStays
<1>12. Past(3)' /\ Past(6)' /\ Past(8)'
  <2>1. Past(3)' /\ Past(6)'
    BY <1>2, <1>3, <1>7, <1>8, PastStays
  <2>2. r \in Nat \ {0, 2, 7} /\ Rank(todo[1]) = r /\ r = 8 /\ \A i \in DOMAIN items : Rank(items[i]) > r
    BY <1>1, <1>7
  <2> HIDE DEF r
  <2>3. Past(r)'
    BY <1>2, <1>7, <1>8, <2>2, PastNow
  <2>4. QED
    BY <2>1, <2>2, <2>3
<1>13. /\ DOMAIN place' = DOMAIN place \cup {PlannerArena}
       /\ held \ {PlannerArena} \subseteq held'
       /\ InfoRoom' /\ PlannerPlaced'
  BY <1>2, <1>4, <1>5, PlannerRoomFacts DEF PlannerPlaced
<1>14. Marking'
  <2>1. InfosMatch'
    BY <1>4, <1>6, SameMarked DEF Marking
  <2>2. PICK R \in SUBSET Subgraphs : Reached(R)
    BY <1>4 DEF Marking
  <2>3. /\ \A s, o : OpPending(s, o) => OpPending(s, o)'
        /\ \A s : MarkPending(s) => MarkPending(s)'
    BY <1>1, <1>2, <1>7, <1>8, PendingStays
  <2>4. \A s, o : ScratchMarked(s, o) => ScratchMarked(s, o)'
    BY <1>6, SameMarked
  <2>5. Reached(R)'
    BY <1>6, <2>2, <2>3, <2>4, ReachedStays
  <2>6. Subgraphs' = Subgraphs
    BY <1>6, SameModel
  <2>7. Info \in held'
    BY <1>4, <1>13 DEF Marking, Info, PlannerArena
  <2>8. QED
    BY <1>4, <1>6, <1>13, <2>1, <2>5, <2>6, <2>7 DEF Marking
<1>15. Have(Marked)' /\ Have(PlannerArena)'
  <2>1. Marked \notin {Info, PlannerArena, Handles} /\ PlannerArena \notin {Info, Marked, Handles}
    BY DEF Handles, Info, PlannerArena, Marked
  <2>2. QED
    BY <1>12, <1>13, <1>14, <2>1 DEF Have
<1>16. \A k : (k[1] \in Kinds \/ k = Handles) /\ Have(k) => Have(k)'
  <2> SUFFICES ASSUME NEW k, k[1] \in Kinds \/ k = Handles, Have(k) PROVE Have(k)'
    OBVIOUS
  <2>1. CASE k[1] \in Kinds
    BY <1>13, <2>1, PlainHave
  <2>2. CASE k = Handles
    <3>1. Handles \notin {Info, PlannerArena, Marked}
      BY DEF Handles, Info, PlannerArena, Marked
    <3>2. QED
      BY <1>6, <1>12, <1>13, <2>2, <3>1 DEF Have
  <2>3. QED
    BY <2>1, <2>2
<1>17. Kept
  <2> SUFFICES ASSUME NEW i \in DOMAIN todo, i > 1, NEW k \in Needs(todo[i]), Have(k) PROVE Have(k)'
    BY DEF Kept
  <2>1. k # Info
    BY <1>9, NeedKinds
  <2>2. k # PlannerArena
    BY <1>3 DEF Have
  <2>3. k[1] \in Kinds \/ k = Handles \/ k = Marked
    BY <2>1, <2>2, NeedKinds
  <2>4. QED
    BY <1>15, <1>16, <2>3
<1>18. Served(items)
  <2>1. \A k \in EvalNames : k[1] \in Kinds
    BY DEF EvalNames, Kinds
  <2>2. \A k \in EvalNames \cup {Handles} : Have(k)'
    BY <1>4, <1>16, <2>1
  <2>3. QED
    BY <1>7, <1>15, <2>2 DEF Served
<1>19. Left(items)
  <2>1. Gives(todo[1]) = GivenTensors
    BY <1>1 DEF Gives
  <2>2. QED
    BY <1>7, <2>1 DEF Left
<1>20. Ready'
  BY <1>2, <1>6, <1>7, <1>8, <1>17, <1>18, <1>19, AdvanceReady
<1>21. Ended'
  <2>1. \A i \in DOMAIN items : items[i].do # "start"
    BY <1>7
  <2>2. QED
    BY <1>1, <1>2, <1>5, <1>6, <1>7, <1>8, <2>1, PopEnded
<1>22. QED
  BY <1>10, <1>11, <1>20, <1>21 DEF Clean

(* While the buffers go to the planner: all lifetimes are marked, and the  *)
(* AllocationInfo is as it was left.                                       *)
LEMMA CommitFacts ==
  ASSUME Types, InStages, Clean, todo # <<>>, todo[1].do = "commit"
  PROVE  /\ AllocatorTypes /\ ArenaTypeOK /\ Ready /\ Ended /\ Assigned /\ Ordered(todo)
         /\ Rank(todo[1]) = 9 /\ Past(2) /\ Past(3) /\ Past(6) /\ Past(8)
         /\ \A q \in Nat : Past(q) <=> q < 9
         /\ Marking /\ PlannerPlaced
         /\ \A k \in EvalNames \cup {Handles} : Have(k)
<1> DEFINE r == 9
<1>1. r \in 1 .. 11 /\ Rank(todo[1]) = r /\ r = 9
  BY DEF Rank
<1> HIDE DEF r
<1>2. WholeAt(r) /\ AllocatorTypes /\ ArenaTypeOK /\ Ready /\ Ended /\ \A q \in Nat : Past(q) <=> q < r
  BY <1>1, FrontWhole
<1>3. Past(2) /\ Past(3) /\ Past(6) /\ Past(8)
  BY <1>1, <1>2
<1>4. Assigned /\ Ordered(todo)
  BY <1>1, <1>2 DEF WholeAt, InStages
<1>5. Needs(todo[1]) = EvalNames \cup {Handles, Marked, PlannerArena}
  BY DEF Needs
<1>6. \A k \in EvalNames \cup {Handles, Marked, PlannerArena} : Have(k)
  BY <1>2, <1>5, FrontHas
<1>7. Have(Marked) /\ Have(PlannerArena)
  BY <1>6
<1>8. Marking /\ PlannerPlaced
  BY <1>7 DEF Have
<1>9. QED
  BY <1>1, <1>2, <1>3, <1>4, <1>6, <1>8

LEMMA AllMarked ==
  ASSUME AllocatorTypes, Past(2), Past(8), Assigned, Marking,
         NEW k \in DOMAIN requests, Called(requests[k].subgraph), NEW j \in DOMAIN infos, infos[j].name = Scratch(k)
  PROVE  infos[j].first # -1
<1>1. PICK R \in SUBSET Subgraphs : Reached(R)
  BY DEF Marking
<1>2. \A i \in DOMAIN todo : Rank(todo[i]) # 7
  BY DEF Past
<1>3. (\A s, o : ~OpPending(s, o)) /\ (\A s : ~MarkPending(s))
  BY <1>2 DEF OpPending, MarkPending, Rank
<1>4. 1 \in R /\ ClosedUnderCalls(R)
  BY <1>1, <1>3 DEF Reached, ClosedUnderCalls
<1> DEFINE s == requests[k].subgraph
           o == requests[k].node
<1>5. s \in R
  BY <1>1, <1>4 DEF Called
<1>6. o \in DOMAIN Ops(s)
  BY NoClosing DEF Assigned
<1>7. ScratchMarked(s, o)
  BY <1>1, <1>3, <1>5, <1>6 DEF Reached
<1>8. k \in ScratchOf(s, o)
  BY DEF ScratchOf
<1>9. QED
  BY <1>7, <1>8 DEF ScratchMarked

LEMMA SameException ==
  ASSUME model' = model, requests' = requests, Exception
  PROVE  Exception'
<1>1. /\ Subgraphs' = Subgraphs /\ AllTensors' = AllTensors
      /\ \A s : Ops(s)' = Ops(s)
      /\ \A t : /\ IsVariable(t)' = IsVariable(t) /\ Offline(t)' = Offline(t)
                /\ OnlineVariable(t)' = OnlineVariable(t)
  BY SameModel
<1>2. \A s : Called(s)' = Called(s)
  BY <1>1 DEF Called, ClosedUnderCalls
<1>3. CASE \E k \in DOMAIN requests : ~Called(requests[k].subgraph)
  BY <1>2, <1>3 DEF Exception
<1>4. CASE \E t \in AllTensors : IsVariable(t) /\ Offline(t) = Online /\ ~OnlineVariable(t)
  BY <1>1, <1>4 DEF Exception
<1>5. QED
  BY <1>3, <1>4 DEF Exception

LEMMA UndefinedClean ==
  ASSUME EndsAs("undefined"), model' = model, requests' = requests, Exception
  PROVE  InStages' /\ Clean'
<1> DEFINE result == "undefined"
<1>1. result \in {"ok", "undefined"} /\ EndsAs(result) /\ result # "ok"
  OBVIOUS
<1>2. Exception'
  BY SameException
<1> HIDE DEF result
<1>3. QED
  BY <1>1, <1>2, EndClean

(* Nothing that the marking is about changes.                              *)
LEMMA MarkingStays ==
  ASSUME Marking, todo' = todo, model' = model, requests' = requests, infos' = infos, scope' = scope,
         head' = head, temp' = temp, place' = place, Info \in held'
  PROVE  Marking'
<1>1. InfosMatch'
  BY SameMarked DEF Marking
<1>2. PICK R \in SUBSET Subgraphs : Reached(R)
  BY DEF Marking
<1>3. /\ \A s, o : OpPending(s, o) => OpPending(s, o)'
      /\ \A s : MarkPending(s) => MarkPending(s)'
  BY DEF OpPending, MarkPending
<1>4. \A s, o : ScratchMarked(s, o) => ScratchMarked(s, o)'
  BY SameMarked
<1>5. Reached(R)'
  BY <1>2, <1>3, <1>4, ReachedStays
<1>6. Subgraphs' = Subgraphs
  BY SameModel
<1>7. InfoRoom'
  BY DEF Marking, InfoRoom
<1>8. QED
  BY <1>1, <1>5, <1>6, <1>7 DEF Marking

(* A step of the planner that changes nothing else but what is held.       *)
LEMMA PlanningClean ==
  ASSUME Types, InStages, Clean, todo # <<>>, todo[1].do = "commit",
         todo' = todo, outcome' = outcome, UNCHANGED book, UNCHANGED <<size, head, tail, temp, place>>,
         Info \in held', bufferCount' = 0 \/ PlannerArena \in held'
  PROVE  InStages' /\ Clean'
<1>1. /\ AllocatorTypes /\ Ready /\ Ended /\ Assigned /\ Past(2) /\ Past(8) /\ Marking /\ PlannerPlaced
      /\ \A q \in Nat : Past(q) <=> q < 9
  BY CommitFacts
<1>2. /\ model' = model /\ requests' = requests /\ infos' = infos /\ scope' = scope /\ allocating' = allocating
      /\ head' = head /\ temp' = temp /\ tail' = tail /\ place' = place
  BY DEF book
<1>3. InStages'
  BY DEF InStages, Ordered, Closed, Closing, CommitFirst
<1>4. \A q \in Nat : Past(q)' <=> q < 9
  BY <1>1 DEF Past
<1>5. Whole'
  <2>1. Past(1)' /\ Past(2)' /\ Past(6)' /\ Past(7)'
    BY <1>4
  <2>2. Assigned'
    <3>1. \A s : Ops(s)' = Ops(s)
      BY <1>2, SameModel
    <3>2. \A k \in DOMAIN requests : requests[k].node \in DOMAIN Ops(requests[k].subgraph)
      BY <1>1, NoClosing DEF Assigned
    <3>3. QED
      BY <1>2, <3>1, <3>2 DEF Assigned
  <2>3. QED
    BY <2>1, <2>2 DEF Whole
<1>6. Marking'
  BY <1>1, <1>2, MarkingStays
<1>7. PlannerPlaced'
  BY <1>1, <1>2 DEF PlannerPlaced
<1>8. \A k : Have(k) => Have(k)'
  <2> SUFFICES ASSUME NEW k, Have(k) PROVE Have(k)'
    OBVIOUS
  <2>1. Past(3)' /\ Past(5)' /\ Past(6)' /\ Past(8)'
    BY <1>4
  <2>2. InfoRoom => InfoRoom'
    BY <1>2 DEF InfoRoom
  <2>3. QED
    BY <1>2, <1>6, <1>7, <2>1, <2>2 DEF Have
<1>9. Ready'
  <2>1. \A x : Needs(x)' = Needs(x) /\ Gives(x)' = Gives(x)
    BY <1>2, SameNeeds
  <2> SUFFICES ASSUME NEW i \in DOMAIN todo, NEW k \in Needs(todo[i])
               PROVE  Have(k)' \/ \E j \in DOMAIN todo : j < i /\ k \in Gives(todo[j])
    BY <2>1 DEF Ready
  <2>2. QED
    BY <1>1, <1>8 DEF Ready
<1>10. Ended'
  <2>1. todo # <<>> /\ outcome = "none"
    BY <1>1 DEF Ended
  <2>2. QED
    BY <1>1, <1>2, <2>1 DEF Ended
<1>11. QED
  BY <1>3, <1>5, <1>9, <1>10 DEF Clean

LEMMA AddClean ==
  ASSUME Types, InStages, Clean, AddBuffer, ~short'
  PROVE  InStages' /\ Clean'
<1> DEFINE i == infos[bufferCount + 1]
<1>1. todo # <<>> /\ todo[1].do = "commit" /\ bufferCount < Len(infos)
  BY DEF AddBuffer, At
<1>2. /\ AllocatorTypes /\ ArenaTypeOK /\ Assigned /\ Past(2) /\ Past(8) /\ Marking /\ PlannerPlaced
  BY <1>1, CommitFacts
<1>3. bufferCount + 1 \in DOMAIN infos
  <2>1. bufferCount \in Nat /\ infos \in Seq(InfoType)
    BY DEF Types, PlanInv, PlannerTypeOK, AllocatorTypes
  <2>2. QED
    BY <1>1, <2>1
<1>4. ~ReadsGarbage({Info})
  <2> DEFINE names == {Info}
  <2>1. \A k \in names : k \in held
    BY <1>2 DEF Marking
  <2> HIDE DEF names
  <2>2. ~ReadsGarbage(names)
    BY <2>1, NoGarbage
  <2>3. QED
    BY <2>2 DEF names
<1>5. CASE Unmarked(i) /\ EndsAs("undefined") /\ UNCHANGED book
  <2>1. i.name[1] = "scratch" /\ i.first = -1
    BY <1>5 DEF Unmarked
  <2>2. PICK k \in DOMAIN requests : i.name = Scratch(k)
    BY <1>2, <1>3, <2>1 DEF Marking, InfosMatch
  <2>3. ~Called(requests[k].subgraph)
    BY <1>2, <1>3, <2>1, <2>2, AllMarked
  <2>4. Exception
    BY <2>3 DEF Exception
  <2>5. QED
    BY <1>5, <2>4, UndefinedClean DEF book
<1>6. CASE /\ held' = HeldAfter(held, {PlannerArena}) /\ UNCHANGED <<todo, outcome, short>>
           /\ UNCHANGED <<size, head, tail, temp, place, book>>
  <2>1. /\ PlannerArena \in DOMAIN place /\ Info \in held /\ Info \in DOMAIN place
        /\ place[Info].hi <= place[PlannerArena].lo
        /\ place[Info].hi \in Int /\ place[PlannerArena].lo \in Int
    BY <1>2 DEF Marking, PlannerPlaced, ArenaTypeOK
  <2>2. held' = {m \in held \cup {PlannerArena} : \A n \in {PlannerArena} \ {m} : ~Meet(place[m], place[n])}
    BY <1>6, <2>1 DEF HeldAfter
  <2>3. ~Meet(place[Info], place[PlannerArena])
    BY <2>1 DEF Meet
  <2>4. Info \in held' /\ PlannerArena \in held'
    BY <2>1, <2>2, <2>3
  <2>5. QED
    BY <1>1, <1>6, <2>4, PlanningClean
<1>7. QED
  BY <1>4, <1>5, <1>6 DEF AddBuffer, Refused

LEMMA OffsetsClean ==
  ASSUME Types, InStages, Clean, CalculateOffsets
  PROVE  InStages' /\ Clean'
<1>1. /\ todo # <<>> /\ todo[1].do = "commit" /\ UNCHANGED arena /\ UNCHANGED book
      /\ todo' = todo /\ outcome' = outcome
  BY DEF CalculateOffsets, At
<1>2. bufferCount' = bufferCount
  BY DEF CalculateOffsets, PlacingStep, StartBuffer, SkipGap, PlaceBuffer, client
<1>3. Marking /\ PlannerPlaced
  BY <1>1, CommitFacts
<1>4. UNCHANGED <<size, head, tail, temp, place>> /\ held' = held
  BY <1>1 DEF arena
<1>5. Info \in held' /\ (bufferCount' = 0 \/ PlannerArena \in held')
  BY <1>2, <1>3, <1>4 DEF Marking, PlannerPlaced
<1>6. QED
  BY <1>1, <1>4, <1>5, PlanningClean

LEMMA EndRanks == \A x : (x.do = "start" => Rank(x) = 1) /\ (x.do = "commit" => Rank(x) = 9)
BY DEF Rank

(* What is left to do when the buffers have their places: the structures   *)
(* stay, and nothing else is asked for.                                    *)
LEMMA LateClean ==
  ASSUME Types, InStages, Clean, todo # <<>>, Rank(todo[1]) \in {9, 10}, Rest, model' = model, requests' = requests,
         \A k \in DOMAIN place : k[1] \in Kinds => k \in DOMAIN place',
         Left(<<>>)
  PROVE  InStages' /\ Clean'
<1> DEFINE r == Rank(todo[1])
           none == <<>>
<1>1. todo' = Tail(todo) /\ AllocatorTypes /\ outcome' = outcome
  BY DEF Rest, Types
<1>2. Advance(none) /\ none \in Seq(Todo) /\ Onward(none) /\ DOMAIN none = {}
  BY <1>1, Popped
<1>3. Left(none)
  OBVIOUS
<1> HIDE DEF none
<1>4. r \in 9 .. 10
  OBVIOUS
<1>5. /\ Ready /\ Whole /\ Ended
      /\ \A q \in Nat : Past(q) <=> q < r
  <2>1. r \in 1 .. 11 /\ Rank(todo[1]) = r
    BY <1>4
  <2> HIDE DEF r
  <2>2. QED
    BY <2>1, FrontWhole
<1>6. Past(1) /\ Past(2) /\ Past(6) /\ Past(7) /\ Past(8)
  BY <1>4, <1>5
<1>7. Kept
  <2> SUFFICES ASSUME NEW i \in DOMAIN todo, i > 1, NEW k \in Needs(todo[i]), Have(k) PROVE Have(k)'
    BY DEF Kept
  <2>1. Rank(todo[i]) = 0 \/ Follows(r, Rank(todo[i]))
    BY <1>1, <1>4, TodoFacts DEF InStages, Ordered
  <2>2. Rank(todo[i]) = 0 \/ Rank(todo[i]) > 9
    <3>1. Rank(todo[i]) \in 0 .. 11
      BY RankNat
    <3> HIDE DEF r
    <3>2. QED
      BY <1>4, <2>1, <3>1 DEF Follows
  <2>3. todo[i].do # "commit"
    BY <1>1, <2>2, EndRanks
  <2>4. k[1] \in Kinds
    BY <2>2, <2>3, NeedKinds
  <2>5. QED
    BY <2>4, PlainHave
<1>8. Served(none)
  BY <1>2 DEF Served
<1>9. Ready'
  BY <1>1, <1>2, <1>3, <1>5, <1>7, <1>8, AdvanceReady
<1>10. Whole'
  <2>1. ~Past(9) => Assigned
    BY <1>5, <1>6 DEF Whole
  <2>2. ~Past(9) => Assigned'
    BY <1>1, <1>6, <2>1, SameAssigned
  <2>3. Rank(todo[1]) # 1
    OBVIOUS
  <2>4. QED
    BY <1>1, <1>6, <2>2, <2>3, PopWhole
<1>11. Ended'
  <2>1. outcome' = "none"
    BY <1>1, <1>5 DEF Ended
  <2>2. Past(8)'
    BY <1>1, <1>2, <1>6, PastStays
  <2>3. \A i \in DOMAIN todo' : todo'[i].do # "start"
    BY <2>2, EndRanks DEF Past
  <2>4. QED
    BY <2>1, <2>3 DEF Ended
<1>12. InStages'
  BY <1>1, PopStages
<1>13. QED
  BY <1>9, <1>10, <1>11, <1>12 DEF Clean

(* Every tensor that the planner places gets its place.                    *)
LEMMA CommitClean ==
  ASSUME Types, InStages, Clean, CommitPlan
  PROVE  InStages' /\ Clean'
<1>1. todo # <<>> /\ todo[1].do = "commit" /\ bufferCount = Len(infos)
  BY DEF CommitPlan, At
<1>2. /\ AllocatorTypes /\ Rank(todo[1]) = 9 /\ Marking /\ PlannerPlaced
      /\ \A k \in EvalNames \cup {Handles} : Have(k)
  BY <1>1, CommitFacts
<1>3. ~ReadsGarbage(Planners)
  <2> DEFINE names == Planners
  <2>1. Info \in held
    BY <1>2 DEF Marking
  <2>2. infos # <<>> => PlannerArena \in held
    <3>1. infos # <<>> => Len(infos) # 0
      BY <1>2 DEF AllocatorTypes
    <3>2. QED
      BY <1>1, <1>2, <3>1 DEF PlannerPlaced
  <2>3. \A k \in names : k \in held
    BY <2>1, <2>2 DEF Planners
  <2> HIDE DEF names
  <2>4. ~ReadsGarbage(names)
    BY <2>3, NoGarbage
  <2>5. QED
    BY <2>4 DEF names
<1>4. Handles \notin Evals \ DOMAIN place
  <2>1. Have(Handles)
    BY <1>2
  <2>2. requests = <<>> \/ Handles \in DOMAIN place
    BY <2>1 DEF Have
  <2>3. \A s : Handles # <<"eval", s, 0>>
    BY DEF Handles
  <2>4. QED
    BY <2>2, <2>3 DEF Evals
<1>5. /\ place' = [n \in PlannedNames \cup DOMAIN place |-> IF n \in PlannedNames THEN Planning(n) ELSE place[n]]
      /\ Rest /\ model' = model /\ requests' = requests
  BY <1>3, <1>4 DEF CommitPlan, book
<1>6. DOMAIN place' = PlannedNames \cup DOMAIN place
  BY <1>5
<1>7. Left(<<>>)
  <2>1. Gives(todo[1]) = GivenTensors
    BY <1>1 DEF Gives
  <2>2. GivenTensors \subseteq DOMAIN place'
    BY <1>2, <1>6 DEF Marking, InfosMatch
  <2>3. \A k \in GivenTensors : k[1] \in Kinds
    BY DEF GivenTensors, T, Kinds
  <2>4. \A k \in GivenTensors : Have(k)'
    BY <2>2, <2>3, PlainHave
  <2>5. QED
    BY <2>1, <2>4 DEF Left
<1>8. QED
  BY <1>1, <1>2, <1>5, <1>6, <1>7, LateClean

LEMMA ReserveClean ==
  ASSUME Types, InStages, Clean, ReserveHead, ~short'
  PROVE  InStages' /\ Clean'
<1>1. /\ todo # <<>> /\ todo[1].do = "reserve" /\ Rank(todo[1]) = 10
      /\ Rest /\ model' = model /\ requests' = requests /\ Free(Temps \cup RequestSlots)
  BY DEF ReserveHead, At, Rank, Refused
<1>2. \A k \in DOMAIN place : k[1] \in Kinds => k \in DOMAIN place'
  <2> SUFFICES ASSUME NEW k \in DOMAIN place, k[1] \in Kinds PROVE k \in DOMAIN place'
    OBVIOUS
  <2>1. ~IsTemp(k) /\ \A j : k # Request(j)
    BY KindNames
  <2>2. k \notin Temps \cup RequestSlots
    BY <2>1 DEF Temps, RequestSlots
  <2>3. QED
    BY <1>1, <2>2 DEF Free, Without
<1>3. Left(<<>>)
  BY <1>1 DEF Left, Gives
<1>4. QED
  BY <1>1, <1>2, <1>3, LateClean

(* A variable tensor without a place is one of a later subgraph that the   *)
(* given offsets leave to the planner.                                     *)
LEMMA ResetClean ==
  ASSUME Types, InStages, Clean, ResetVariableTensors
  PROVE  InStages' /\ Clean'
<1> DEFINE result == IF Variables \subseteq DOMAIN place THEN "ok" ELSE "undefined"
<1>1. /\ todo # <<>> /\ todo[1].do = "reset" /\ EndsAs(result)
      /\ place' = place /\ model' = model /\ requests' = requests
  BY DEF ResetVariableTensors, At, book
<1>2. AllocatorTypes /\ Ready
  BY DEF Types, Clean
<1>3. Needs(todo[1]) = {Inputs} \cup VariableNames
  BY <1>1 DEF Needs
<1>4. \A k \in {Inputs} \cup VariableNames : k \in DOMAIN place
  <2> SUFFICES ASSUME NEW k \in {Inputs} \cup VariableNames PROVE k \in DOMAIN place
    OBVIOUS
  <2>1. Have(k)
    BY <1>1, <1>2, <1>3, FrontHas
  <2>2. k[1] \in Kinds
    BY DEF Inputs, VariableNames, T, Kinds
  <2>3. QED
    BY <2>1, <2>2, PlainHave
<1>5. Inputs \in DOMAIN place'
  BY <1>1, <1>4
<1>6. ~(Variables \subseteq DOMAIN place) => Exception'
  <2> SUFFICES ASSUME NEW n \in Variables, n \notin DOMAIN place PROVE Exception'
    OBVIOUS
  <2>1. PICK t \in AllTensors : IsVariable(t) /\ n = T(t[1], t[2])
    BY DEF Variables
  <2>2. n \notin VariableNames
    BY <1>4
  <2>3. ~(OnlineVariable(t) \/ Offline(t) # Online)
    BY <2>1, <2>2 DEF VariableNames
  <2>4. Exception
    BY <2>1, <2>3 DEF Exception
  <2>5. QED
    BY <1>1, <2>4, SameException
<1>7. result \in {"ok", "undefined"} /\ (result = "undefined" => Exception')
  BY <1>6
<1> HIDE DEF result
<1>8. QED
  BY <1>1, <1>5, <1>7, EndClean

(* What is refused is remembered.                                          *)
LEMMA ShortStays ==
  ASSUME short, AllocationStep
  PROVE  short'
<1>1. CASE StartModelAllocation \/ PrepareNode \/ FreeTempTensors
  BY <1>1 DEF StartModelAllocation, PrepareNode, FreeTempTensors, ReadsGarbage
<1>2. CASE AllocateTail \/ AllocateTempTensor \/ CreateAllocationInfo \/ AllocateScratchBufferHandles
  BY <1>2 DEF AllocateTail, AllocateTempTensor, CreateAllocationInfo, AllocateScratchBufferHandles, Watch, Refused
<1>3. CASE InitScratchBufferData \/ RequestScratchBufferInArena \/ FinishPrepareNodeAllocations
  BY <1>3 DEF InitScratchBufferData, RequestScratchBufferInArena, FinishPrepareNodeAllocations, Refused, ReadsGarbage
<1>4. CASE InitializeAllocationInfo \/ MarkInputs \/ MarkOperator \/ MarkUses \/ MarkOutputs
  BY <1>4 DEF InitializeAllocationInfo, MarkInputs, MarkOperator, MarkUses, MarkOutputs, Marks, ReadsGarbage
<1>5. CASE InitMemoryPlanner \/ AddBuffer \/ CalculateOffsets
  BY <1>5 DEF InitMemoryPlanner, AddBuffer, CalculateOffsets, Refused, ReadsGarbage
<1>6. CASE CommitPlan \/ ReserveHead \/ ResetVariableTensors
  BY <1>6 DEF CommitPlan, ReserveHead, ResetVariableTensors, Refused, ReadsGarbage
<1>7. QED
  BY <1>1, <1>2, <1>3, <1>4, <1>5, <1>6 DEF AllocationStep

LEMMA AllocationClean ==
  ASSUME Types, Reserving, InStages, Clean, AllocationStep, ~short'
  PROVE  InStages' /\ Clean'
<1>1. CASE StartModelAllocation
  BY <1>1, StartClean
<1>2. CASE AllocateTail
  BY <1>2, TailClean
<1>3. CASE AllocateTempTensor
  BY <1>3, TempTensorClean
<1>4. CASE InitScratchBufferData
  BY <1>4, InitRequestsClean
<1>5. CASE PrepareNode
  BY <1>5, PrepareClean
<1>6. CASE RequestScratchBufferInArena
  BY <1>6, ScratchClean
<1>7. CASE FreeTempTensors
  BY <1>7, FreeClean
<1>8. CASE FinishPrepareNodeAllocations
  BY <1>8, FinishClean
<1>9. CASE AllocateScratchBufferHandles
  BY <1>9, HandlesClean
<1>10. CASE CreateAllocationInfo
  BY <1>10, InfoTempClean
<1>11. CASE InitializeAllocationInfo
  BY <1>11, LifetimesClean
<1>12. CASE MarkInputs
  BY <1>12, InputsClean
<1>13. CASE MarkOperator
  BY <1>13, OperatorClean
<1>14. CASE MarkUses
  BY <1>14, UsesClean
<1>15. CASE MarkOutputs
  BY <1>15, OutputsClean
<1>16. CASE InitMemoryPlanner
  BY <1>16, PlannerClean
<1>17. CASE AddBuffer
  BY <1>17, AddClean
<1>18. CASE CalculateOffsets
  BY <1>18, OffsetsClean
<1>19. CASE CommitPlan
  BY <1>19, CommitClean
<1>20. CASE ReserveHead
  BY <1>20, ReserveClean
<1>21. CASE ResetVariableTensors
  BY <1>21, ResetClean
<1>22. QED
  BY <1>1, <1>2, <1>3, <1>4, <1>5, <1>6, <1>7, <1>8, <1>9, <1>10, <1>11, <1>12, <1>13, <1>14,
     <1>15, <1>16, <1>17, <1>18, <1>19, <1>20, <1>21 DEF AllocationStep

-----------------------------------------------------------------------------
(* The interpreter and its client.                                         *)

\* While nothing was refused.
Sound == InStages /\ Clean /\ Prepared

LEMMA ConstructClean ==
  ASSUME ArenaTypeOK, ArenaInit, todo = Construct, outcome = "none", allocating = FALSE
  PROVE  InStages /\ Clean
<1> DEFINE p == Persistent(<<"arena", 0, 0>>, SizeOf.SingleArenaBufferAllocator, 1, "undefined")
           q == Persistent(<<"planner", 0, 0>>, SizeOf.GreedyMemoryPlanner, 1, "undefined")
           a == Persistent(<<"allocator", 0, 0>>, SizeOf.MicroAllocator, 1, "undefined")
           e == Step("start")
<1>1. /\ p.do = "persistent" /\ q.do = "persistent" /\ a.do = "persistent" /\ e.do = "start"
      /\ p.name = <<"arena", 0, 0>> /\ a.name = <<"allocator", 0, 0>>
  BY DEF Persistent, Step
<1>2. todo = <<p, q, a, e>>
  BY DEF Construct
<1> HIDE DEF p, q, a, e
<1>3. DOMAIN todo = {1, 2, 3, 4} /\ todo[1] = p /\ todo[2] = q /\ todo[3] = a /\ todo[4] = e
  BY <1>2
<1>4. /\ Rank(p) = 0 /\ Rank(q) = 0 /\ Rank(a) = 0 /\ Needs(p) = {} /\ Needs(q) = {} /\ Needs(a) = {}
      /\ Gives(p) = {<<"arena", 0, 0>>} /\ Gives(a) = {<<"allocator", 0, 0>>}
  <2>1. Gives(p) = {p.name} /\ Gives(a) = {a.name}
    BY <1>1, PlainRank
  <2>2. QED
    BY <1>1, <2>1, PlainRank
<1>5. Rank(e) = 1 /\ Needs(e) = {<<"arena", 0, 0>>, <<"allocator", 0, 0>>}
  BY <1>1 DEF Rank, Needs
<1>6. InStages
  <2>1. Ordered(todo)
    BY <1>3, <1>4, <1>5 DEF Ordered
  <2>2. Closed(todo)
    BY <1>1, <1>3 DEF Closed
  <2>3. CommitFirst
    BY <1>1, <1>3 DEF CommitFirst
  <2>4. QED
    BY <2>1, <2>2, <2>3 DEF InStages
<1>7. Ready
  BY <1>3, <1>4, <1>5 DEF Ready
<1>8. ~Past(1)
  BY <1>3, <1>5 DEF Past
<1>9. /\ DOMAIN place = {Behind} /\ head = 0 /\ temp = 0 /\ tail = size /\ size \in Nat
  BY ArenaAssumption DEF ArenaInit
<1>10. Temps = {}
  BY <1>9 DEF Temps, IsTemp, Behind
<1>11. TempsWhole /\ Layout
  BY <1>9, <1>10 DEF TempsWhole, Layout
<1>12. PersistentWhole
  BY <1>9 DEF PersistentWhole, Behind, Kinds
<1>13. Whole
  BY <1>8, <1>10, <1>11, <1>12 DEF Whole
<1>14. Ended
  BY DEF Ended
<1>15. QED
  BY <1>6, <1>7, <1>13, <1>14 DEF Clean

LEMMA InitSound == Init => Sound
<1> SUFFICES ASSUME Init PROVE Sound
  OBVIOUS
<1>1. ArenaTypeOK
  BY InitTypes DEF TypeInv
<1>2. ArenaInit /\ todo = Construct /\ outcome = "none" /\ allocating = FALSE /\ phase = "setup" /\ frames = <<>>
  BY DEF Init, AllocatorInit
<1>3. InStages /\ Clean
  BY <1>1, <1>2, ConstructClean
<1>4. Prepared
  BY <1>2 DEF Prepared
<1>5. QED
  BY <1>3, <1>4 DEF Sound

LEMMA IdleClean ==
  ASSUME todo' = <<>>, outcome' = "none"
  PROVE  InStages' /\ Clean'
<1>1. DOMAIN todo' = {}
  OBVIOUS
<1>2. InStages'
  BY <1>1 DEF InStages, Ordered, Closed, CommitFirst
<1>3. \A r : Past(r)'
  BY <1>1 DEF Past
<1>4. Whole'
  <2>1. Past(1)' /\ Past(2)' /\ Past(6)' /\ Past(7)' /\ Past(9)'
    BY <1>3
  <2> SUFFICES /\ ~(Past(1)' /\ ~Past(2)') /\ ~(Past(1)' /\ ~Past(7)') /\ ~(Past(1)' /\ ~Past(9)')
    BY <2>1 DEF Whole
  <2>2. QED
    BY <2>1
<1>5. Ready'
  BY <1>1 DEF Ready
<1>6. Ended'
  BY <1>1 DEF Ended
<1>7. QED
  BY <1>2, <1>4, <1>5, <1>6 DEF Clean

LEMMA SameClean ==
  ASSUME InStages, Clean, UNCHANGED <<arena, planner, allocator>>
  PROVE  InStages' /\ Clean'
<1>1. /\ todo' = todo /\ outcome' = outcome
      /\ model' = model /\ requests' = requests /\ infos' = infos /\ scope' = scope /\ allocating' = allocating
      /\ head' = head /\ temp' = temp /\ tail' = tail /\ place' = place /\ held' = held
      /\ bufferCount' = bufferCount
  BY DEF arena, allocator, planner, client
<1>2. InStages'
  BY <1>1 DEF InStages, Ordered, Closed, Closing, CommitFirst
<1>3. \A q : Past(q)' <=> Past(q)
  BY <1>1 DEF Past
<1>4. \A s : Ops(s)' = Ops(s)
  BY <1>1, SameModel
<1>5. Assigned => Assigned'
  <2> SUFFICES ASSUME Assigned, NEW k \in DOMAIN requests
               PROVE  \/ requests[k].node \in DOMAIN Ops(requests[k].subgraph)
                      \/ /\ requests[k].node = 0
                         /\ \E o \in DOMAIN Ops(requests[k].subgraph) : Closing(todo', 0, requests[k].subgraph, o)
    BY <1>1, <1>4 DEF Assigned
  <2>1. QED
    BY <1>1 DEF Assigned
<1>6. Whole'
  BY <1>1, <1>3, <1>5, SameArena DEF Clean, Whole
<1>7. Marking => Marking'
  BY <1>1, MarkingStays DEF Marking
<1>8. PlannerPlaced => PlannerPlaced'
  BY <1>1 DEF PlannerPlaced
<1>9. InfoRoom => InfoRoom'
  BY <1>1 DEF InfoRoom
<1>10. \A k : Have(k) => Have(k)'
  BY <1>1, <1>3, <1>7, <1>8, <1>9 DEF Have
<1>11. Ready'
  <2>1. \A x : Needs(x)' = Needs(x) /\ Gives(x)' = Gives(x)
    BY <1>1, SameNeeds
  <2> SUFFICES ASSUME NEW i \in DOMAIN todo, NEW k \in Needs(todo[i])
               PROVE  Have(k)' \/ \E j \in DOMAIN todo : j < i /\ k \in Gives(todo[j])
    BY <1>1, <2>1 DEF Ready
  <2>2. QED
    BY <1>10 DEF Clean, Ready
<1>12. Ended'
  BY <1>1, SameException DEF Clean, Ended
<1>13. QED
  BY <1>2, <1>6, <1>11, <1>12 DEF Clean

(* AllocateTensors runs in the setup only, as it returns no error.         *)
LEMMA AllocationSound ==
  ASSUME Types, Reserving, Sound, AllocateTensorsStep, ~short'
  PROVE  Sound'
<1>1. AllocationStep /\ phase' = phase /\ allocated' = allocated /\ frames' = frames
  BY DEF AllocateTensorsStep, status
<1>2. InStages' /\ Clean'
  BY <1>1, AllocationClean DEF Sound
<1>3. todo # <<>>
  BY <1>1 DEF AllocationStep, At, StartModelAllocation, AllocateTail, AllocateTempTensor, InitScratchBufferData,
       PrepareNode, RequestScratchBufferInArena, FreeTempTensors, FinishPrepareNodeAllocations,
       AllocateScratchBufferHandles, CreateAllocationInfo, InitializeAllocationInfo, MarkInputs, MarkOperator,
       MarkUses, MarkOutputs, InitMemoryPlanner, AddBuffer, CalculateOffsets, CommitPlan, ReserveHead,
       ResetVariableTensors
<1>4. phase = "setup" /\ frames = <<>>
  BY <1>3 DEF Sound, Prepared
<1>5. Prepared'
  BY <1>1, <1>4 DEF Prepared
<1>6. QED
  BY <1>2, <1>5 DEF Sound

\* What AllocateTensors has left stays for good.
Settled == allocated /\ todo = <<>> /\ outcome = "none" /\ Inputs \in DOMAIN place

LEMMA SettledSound ==
  ASSUME Settled', phase' \notin {"setup", "retry", "undefined"}
  PROVE  Sound'
<1>1. InStages' /\ Clean'
  BY IdleClean DEF Settled
<1>2. QED
  BY <1>1 DEF Sound, Prepared, Settled

LEMMA ClientSound ==
  ASSUME Sound, ClientStep
  PROVE  Sound'
<1>1. phase # "setup" => Settled
  BY DEF Sound, Prepared, Settled
<1>2. CASE Returned
  <2>1. phase = "setup" /\ outcome = "ok"
    BY <1>2 DEF Returned, Sound, Prepared, Clean, Ended
  <2>2. allocated' = TRUE /\ phase' = "input" /\ outcome' = "none" /\ todo' = todo /\ place' = place
    BY <1>2, <2>1 DEF Returned, arena
  <2>3. Settled'
    BY <2>1, <2>2 DEF Settled, Sound, Clean, Ended
  <2>4. QED
    BY <2>2, <2>3, SettledSound
<1>3. CASE GetInput
  <2>1. phase = "input" /\ UNCHANGED <<arena, allocator, allocated>>
    BY <1>3 DEF GetInput
  <2>2. Settled /\ Settled'
    BY <1>1, <2>1 DEF Settled, arena, allocator
  <2>3. phase' \in {"fill", "exit"}
    BY <1>3, <2>2 DEF GetInput, Settled
  <2>4. QED
    BY <2>2, <2>3, SettledSound
<1>4. CASE FillInput
  <2>1. phase = "fill" /\ phase' = "invoke" /\ UNCHANGED <<others, allocated>>
    BY <1>4 DEF FillInput
  <2>2. Settled'
    BY <1>1, <2>1 DEF Settled, others, allocator
  <2>3. QED
    BY <2>1, <2>2, SettledSound
<1>5. CASE Invoke
  <2>1. phase = "invoke"
    BY <1>5 DEF Invoke
  <2>2. Settled
    BY <1>1, <2>1
  <2>3. phase' \in {"exit", "run"} /\ UNCHANGED <<todo, outcome, arena, allocated>>
    BY <1>5, <2>2 DEF Invoke, Settled
  <2>4. Settled'
    BY <2>2, <2>3 DEF Settled, arena
  <2>5. QED
    BY <2>3, <2>4, SettledSound
<1>6. CASE InvokeSubgraph
  <2>1. phase = "run" /\ phase' = phase /\ UNCHANGED <<others, allocated>>
    BY <1>6 DEF InvokeSubgraph, status
  <2>2. Settled'
    BY <1>1, <2>1 DEF Settled, others, allocator
  <2>3. QED
    BY <2>1, <2>2, SettledSound
<1>7. CASE ReadOutput
  <2>1. phase = "read" /\ phase' \in {"fill", "exit"} /\ UNCHANGED <<others, allocated>>
    BY <1>7 DEF ReadOutput
  <2>2. Settled'
    BY <1>1, <2>1 DEF Settled, others, allocator
  <2>3. QED
    BY <2>1, <2>2, SettledSound
<1>8. QED
  BY <1>2, <1>3, <1>4, <1>5, <1>6, <1>7 DEF ClientStep

LEMMA InvokeSound ==
  ASSUME Sound, InvokeStep
  PROVE  Sound'
<1>1. /\ UNCHANGED <<others, allocated>> /\ phase' \in {phase, "read", "exit"} /\ frames # <<>>
  BY DEF InvokeStep, Kernel, IfStarts, IfEnds, WhileStarts, WhileTests, WhileRepeats, SubgraphEnds, InvokeFails,
       Running, status
<1>2. phase # "setup" /\ Settled
  BY <1>1 DEF Sound, Prepared, Settled
<1>3. phase' \notin {"setup", "retry", "undefined"}
  BY <1>1, <1>2 DEF Sound, Prepared
<1>4. Settled'
  BY <1>1, <1>2 DEF Settled, others, allocator
<1>5. QED
  BY <1>3, <1>4, SettledSound

LEMMA NextSound ==
  ASSUME TypeInv, Reserving, short \/ Sound, [Next]_vars
  PROVE  short' \/ Sound'
<1> SUFFICES ASSUME ~short' PROVE Sound'
  OBVIOUS
<1>1. CASE AllocateTensorsStep
  <2>1. Sound
    BY <1>1, ShortStays DEF AllocateTensorsStep
  <2>2. QED
    BY <1>1, <2>1, AllocationSound DEF TypeInv, Types
<1>2. CASE ClientStep
  <2>1. short' = short
    BY <1>2 DEF ClientStep, Returned, GetInput, FillInput, Invoke, InvokeSubgraph, ReadOutput, others, allocator
  <2>2. QED
    BY <1>2, <2>1, ClientSound
<1>3. CASE InvokeStep
  <2>1. short' = short
    BY <1>3 DEF InvokeStep, Kernel, IfStarts, IfEnds, WhileStarts, WhileTests, WhileRepeats, SubgraphEnds,
         InvokeFails, others, allocator
  <2>2. QED
    BY <1>3, <2>1, InvokeSound
<1>4. CASE UNCHANGED vars
  <2>1. UNCHANGED <<arena, planner, allocator>> /\ short' = short
    BY <1>4 DEF vars, allocator
  <2>2. InStages' /\ Clean'
    BY <2>1, SameClean DEF Sound
  <2>3. Prepared'
    BY <1>4, <2>1 DEF Prepared, Sound, vars, status, allocator, arena
  <2>4. QED
    BY <2>2, <2>3 DEF Sound
<1>5. QED
  BY <1>1, <1>2, <1>3, <1>4 DEF Next

(* In an arena where nothing was refused, C++ is never left: no structure  *)
(* is read that was overwritten, no pointer that is null or was never set, *)
(* and no table of the planner lies outside, whatever the model, but for a *)
(* model with scratch buffers in a subgraph that nobody calls and one      *)
(* whose given offsets hide a variable tensor from AllocateVariables.      *)
THEOREM OnlyShortIsUndefined == Spec => []UndefinedOnlyWhenShort
<1> DEFINE Inv == TypeInv /\ Reserving /\ (short \/ Sound)
<1>1. Init => Inv
  BY InitTypes, InitReserving, InitSound
<1>2. Inv /\ [Next]_vars => Inv'
  BY NextTypes, NextSound
<1>3. Inv => UndefinedOnlyWhenShort
  BY DEF Sound, Clean, Ended, Prepared, Exception, UndefinedOnlyWhenShort
<1> HIDE DEF Inv
<1>4. QED
  BY <1>1, <1>2, <1>3, PTL DEF Spec

=============================================================================
