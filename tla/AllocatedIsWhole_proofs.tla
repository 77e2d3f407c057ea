----------------------- MODULE AllocatedIsWhole_proofs -----------------------
(* Theorems about what AllocateTensors leaves in the arena, for any models *)
(* and arenas: the plan lies inside the head, the structures in the tail   *)
(* stay as they were written, and the lifetimes are those of a walk of the *)
(* whole graph.                                                            *)
EXTENDS Interpreter_proofs

-----------------------------------------------------------------------------
(* The end of the list: the plan is made and committed, the head reserved, *)
(* and only the client's tensors and the last step are left.               *)

Trailing(x) == x.do = "reset" \/ (x.do = "persistent" /\ x.name[1] # "tensor")
Deciding(x) == x.do \in {"plan", "commit", "reserve"}
PlanLast(l) ==
  /\ \A i, j \in DOMAIN l : i < j /\ Deciding(l[i]) => l[j].do = "reserve" \/ Trailing(l[j])
  /\ \A j \in DOMAIN l :
       l[j].do = "reset" => (\E i \in DOMAIN l : i < j /\ Deciding(l[i])) \/ \A i \in DOMAIN l : Trailing(l[i])
HasPlan(l) == \E i \in DOMAIN l : l[i].do = "plan"
Quiet(l) == \A i \in DOMAIN l : l[i].do \notin {"plan", "commit", "reserve", "reset"}

LEMMA QuietJoin ==
  ASSUME NEW S, NEW a \in Seq(S), NEW b \in Seq(S), Quiet(a)
  PROVE  /\ Quiet(b) => Quiet(a \o b)
         /\ PlanLast(b) /\ HasPlan(b) => PlanLast(a \o b) /\ HasPlan(a \o b)
<1> DEFINE c == a \o b
           n == Len(a)
<1>1. /\ n \in Nat /\ DOMAIN c \subseteq Nat /\ DOMAIN a = 1 .. n /\ DOMAIN b \subseteq Nat \ {0}
      /\ \A i \in DOMAIN a : i \in DOMAIN c /\ c[i] = a[i]
      /\ \A i \in DOMAIN c : i \notin DOMAIN a => i - n \in DOMAIN b /\ c[i] = b[i - n]
  BY Joined
<1>2. \A i \in DOMAIN b : i + n \in DOMAIN c /\ c[i + n] = b[i]
  BY JoinedRight
<1> HIDE DEF c, n
<1>3. Quiet(b) => Quiet(c)
  BY <1>1 DEF Quiet
<1>4. ASSUME PlanLast(b), HasPlan(b) PROVE PlanLast(c) /\ HasPlan(c)
  <2>1. PICK p \in DOMAIN b : b[p].do = "plan"
    BY <1>4 DEF HasPlan
  <2>2. HasPlan(c)
    BY <1>2, <2>1 DEF HasPlan
  <2>3. \A i \in DOMAIN c : i \in DOMAIN a => ~Deciding(c[i]) /\ c[i].do # "reset"
    BY <1>1 DEF Quiet, Deciding
  <2>4. ASSUME NEW i \in DOMAIN c, NEW j \in DOMAIN c, i < j, Deciding(c[i])
        PROVE  c[j].do = "reserve" \/ Trailing(c[j])
    <3>1. i \notin DOMAIN a
      BY <2>3, <2>4
    <3>2. j \notin DOMAIN a
      BY <1>1, <2>4, <3>1
    <3>3. /\ i - n \in DOMAIN b /\ j - n \in DOMAIN b /\ i - n < j - n
          /\ c[i] = b[i - n] /\ c[j] = b[j - n]
      BY <1>1, <2>4, <3>1, <3>2
    <3>4. QED
      BY <1>4, <2>4, <3>3 DEF PlanLast
  <2>5. ASSUME NEW j \in DOMAIN c, c[j].do = "reset" PROVE \E i \in DOMAIN c : i < j /\ Deciding(c[i])
    <3>1. j \notin DOMAIN a
      BY <2>3, <2>5
    <3>2. j - n \in DOMAIN b /\ c[j] = b[j - n]
      BY <1>1, <3>1
    <3>3. ~Trailing(b[p])
      BY <2>1 DEF Trailing
    <3>4. PICK i \in DOMAIN b : i < j - n /\ Deciding(b[i])
      BY <1>4, <2>1, <2>5, <3>2, <3>3 DEF PlanLast
    <3>5. i + n \in DOMAIN c /\ c[i + n] = b[i] /\ i + n < j
      BY <1>1, <1>2, <3>4
    <3>6. QED
      BY <3>4, <3>5
  <2>6. QED
    BY <2>2, <2>4, <2>5 DEF PlanLast
<1>5. QED
  BY <1>3, <1>4 DEF c

LEMMA TrailingJoin ==
  ASSUME NEW S, NEW a \in Seq(S), NEW b \in Seq(S), PlanLast(a), HasPlan(a), \A i \in DOMAIN b : Trailing(b[i])
  PROVE  PlanLast(a \o b) /\ HasPlan(a \o b)
<1> DEFINE c == a \o b
           n == Len(a)
<1>1. /\ n \in Nat /\ DOMAIN c \subseteq Nat /\ DOMAIN a = 1 .. n /\ DOMAIN b \subseteq Nat \ {0}
      /\ \A i \in DOMAIN a : i \in DOMAIN c /\ c[i] = a[i]
      /\ \A i \in DOMAIN c : i \notin DOMAIN a => i - n \in DOMAIN b /\ c[i] = b[i - n]
  BY Joined
<1> HIDE DEF c, n
<1>2. PICK p \in DOMAIN a : a[p].do = "plan"
  BY DEF HasPlan
<1>3. p \in DOMAIN c /\ c[p] = a[p] /\ Deciding(a[p]) /\ ~Trailing(a[p])
  BY <1>1, <1>2 DEF Deciding, Trailing
<1>4. ASSUME NEW i \in DOMAIN c, NEW j \in DOMAIN c, i < j, Deciding(c[i])
      PROVE  c[j].do = "reserve" \/ Trailing(c[j])
  <2>1. CASE j \notin DOMAIN a
    BY <1>1, <2>1
  <2>2. CASE j \in DOMAIN a
    <3>1. i \in DOMAIN a
      BY <1>1, <1>4, <2>2
    <3>2. QED
      BY <1>1, <1>4, <2>2, <3>1 DEF PlanLast
  <2>3. QED
    BY <2>1, <2>2
<1>5. ASSUME NEW j \in DOMAIN c, c[j].do = "reset" PROVE \E i \in DOMAIN c : i < j /\ Deciding(c[i])
  <2>1. CASE j \notin DOMAIN a
    <3>1. p < j
      BY <1>1, <1>2, <2>1
    <3>2. QED
      BY <1>3, <3>1
  <2>2. CASE j \in DOMAIN a
    <3>1. PICK i \in DOMAIN a : i < j /\ Deciding(a[i])
      BY <1>1, <1>2, <1>3, <1>5, <2>2 DEF PlanLast
    <3>2. QED
      BY <1>1, <3>1
  <2>3. QED
    BY <2>1, <2>2
<1>6. HasPlan(c)
  BY <1>2, <1>3 DEF HasPlan
<1>7. QED
  BY <1>4, <1>5, <1>6 DEF PlanLast, c

LEMMA QuietSegment ==
  ASSUME NEW l, NEW before, NEW p, Segment(l, p, before), p \subseteq 1 .. 7
  PROVE  Quiet(l)
<1>1. ASSUME NEW i \in DOMAIN l PROVE l[i].do \notin {"plan", "commit", "reserve", "reset"}
  <2>1. Rank(l[i]) \in p \cup {0}
    BY DEF Segment
  <2>2. Rank(l[i]) \notin {8, 9, 10, 11}
    BY <2>1
  <2>3. QED
    BY <2>2 DEF Rank
<1>2. QED
  BY <1>1 DEF Quiet

LEMMA PlainQuiet ==
  ASSUME NEW l \in Seq(PersistentType)
  PROVE  Quiet(l)
<1>1. \A i \in DOMAIN l : l[i] \in PersistentType
  OBVIOUS
<1>2. \A i \in DOMAIN l : l[i].do = "persistent"
  BY <1>1 DEF PersistentType
<1>3. QED
  BY <1>2 DEF Quiet
\* The client's tensors come after the plan.
LEMMA TensorsTrailing ==
  ASSUME NEW x \in {"inputs", "outputs"}, NEW y \in {"input", "output"}, NEW indices \in Seq(Nat)
  PROVE  LET l == PersistentTensors(<<x, 0, 0>>, y, indices) IN \A i \in DOMAIN l : Trailing(l[i])
<1> DEFINE l == PersistentTensors(<<x, 0, 0>>, y, indices)
           each == [k \in DOMAIN indices |-> Persistent(<<y, k, 0>>, SizeOf.TfLiteTensor, 1, "error")]
           p == Persistent(<<x, 0, 0>>, SizeOf.pointer * Len(indices), BufferAlign, "error")
           n == Len(indices)
<1>1. l = <<p>> \o each
  BY DEF PersistentTensors
<1>2. p.do = "persistent" /\ p.name = <<x, 0, 0>>
  BY DEF Persistent
<1>3. \A k \in DOMAIN each : each[k].do = "persistent" /\ each[k].name = <<y, k, 0>>
  BY DEF Persistent
<1>4. n \in Nat /\ DOMAIN indices = 1 .. n
  OBVIOUS
<1>5. each = [k \in 1 .. n |-> each[k]]
  BY <1>4
<1> DEFINE S == {each[k] : k \in 1 .. n}
<1>6. \A k \in 1 .. n : each[k] \in S
  OBVIOUS
<1> DEFINE a == <<p>>
           U == {p} \cup S
<1>7. a \in Seq(U) /\ DOMAIN a = {1} /\ a[1] = p
  OBVIOUS
<1> HIDE DEF each, p, l, S, n
<1>8. each \in Seq(U)
  <2>1. \A k \in 1 .. n : each[k] \in U
    BY <1>6
  <2> HIDE DEF U
  <2>2. QED
    BY <1>4, <1>5, <2>1, ListOf
<1>9. l = a \o each
  BY <1>1
<1> HIDE DEF a, U
<1>10. ASSUME NEW i \in DOMAIN l PROVE Trailing(l[i])
  <2> DEFINE c == a \o each
  <2>0. /\ \A j \in DOMAIN a : c[j] = a[j]
        /\ \A j \in DOMAIN c : j \notin DOMAIN a => j - Len(a) \in DOMAIN each /\ c[j] = each[j - Len(a)]
    BY <1>7, <1>8, Joined
  <2>5. l = c
    BY <1>9
  <2> HIDE DEF c
  <2>1. \/ i \in DOMAIN a /\ l[i] = a[i]
        \/ i - Len(a) \in DOMAIN each /\ l[i] = each[i - Len(a)]
    BY <1>10, <2>0, <2>5
  <2>2. CASE i \in DOMAIN a /\ l[i] = a[i]
    <3>1. l[i] = p
      BY <1>7, <2>2
    <3>2. QED
      BY <1>2, <3>1 DEF Trailing
  <2>3. CASE i - Len(a) \in DOMAIN each /\ l[i] = each[i - Len(a)]
    <3> DEFINE k == i - Len(a)
    <3>1. l[i].do = "persistent" /\ l[i].name = <<y, k, 0>>
      BY <1>3, <2>3
    <3>2. QED
      BY <3>1 DEF Trailing
  <2>4. QED
    BY <2>1, <2>2, <2>3
<1>11. QED
  BY <1>10 DEF l

LEMMA FinishLast ==
  ASSUME model \in Models
  PROVE  PlanLast(FinishModel) /\ HasPlan(FinishModel)
<1> DEFINE front == <<Step("handles"), Temporary(<<"temp", 0, 0>>, SizeOf.size_t * Len(model), "error"), Step("info")>>
           back == <<Step("lifetimes"), Step("plan")>>
           all == PerTensor(LAMBDA t : OnlyIf(OnlineVariable(t), Persistent(T(t[1], t[2]), Bytes(t), BufferAlign, "error")))
           x == Step("lifetimes")
           y == Step("plan")
<1>1. FinishModel = (front \o all) \o back
  BY DEF FinishModel
<1>2. front \in Seq(Item) /\ Quiet(front)
  <2> DEFINE p == {3, 4, 5}
             none == {}
  <2>1. front \in Seq(Item) /\ Segment(front, p, none)
    BY FrontSegment
  <2>2. p \subseteq 1 .. 7
    OBVIOUS
  <2> HIDE DEF p, none, front
  <2>3. QED
    BY <2>1, <2>2, QuietSegment
<1>3. all \in Seq(PersistentType) /\ all \in Seq(Item) /\ Quiet(all)
  <2>1. all \in Seq(PersistentType)
    BY VariableItems
  <2> HIDE DEF all
  <2>2. QED
    BY <2>1, PlainWider, PlainQuiet
<1>4. back \in Seq(Item) /\ PlanLast(back) /\ HasPlan(back)
  <2>1. back = <<x, y>> /\ x.do = "lifetimes" /\ y.do = "plan" /\ x \in Item /\ y \in Item
    BY StepItem DEF Step
  <2> HIDE DEF x, y, back
  <2>2. back \in Seq(Item) /\ DOMAIN back = {1, 2} /\ back[1] = x /\ back[2] = y
    BY <2>1
  <2>3. QED
    BY <2>1, <2>2 DEF PlanLast, HasPlan, Deciding
<1> HIDE DEF front, all, back
<1> DEFINE c == front \o all
<1>5. c \in Seq(Item) /\ Quiet(c)
  BY <1>2, <1>3, QuietJoin, Joined
<1>6. FinishModel = c \o back
  BY <1>1
<1> HIDE DEF c
<1>7. QED
  BY <1>4, <1>5, <1>6, QuietJoin

(* The list of AllocateTensors ends with the plan and what follows it.     *)
LEMMA AllLast ==
  ASSUME model \in Models
  PROVE  PlanLast(AllocateTensors) /\ HasPlan(AllocateTensors)
<1> DEFINE a == StartModel \o InitOps
           N == Constructed \cup {k \in Name : GivenBy(a, k)}
           b == a \o PrepareOps
           c == b \o FinishModel
           in == PersistentTensors(Inputs, "input", model[1].inputs)
           out == PersistentTensors(<<"outputs", 0, 0>>, "output", model[1].outputs)
           d == c \o in
           e == d \o out
           r == <<Step("reset")>>
           s1 == {1}
           s2 == {2}
<1>1. /\ a \in Seq(Item) /\ Segment(a, s1, Constructed)
      /\ \A s \in Subgraphs : \A o \in DOMAIN Ops(s) : Structures \cup NodeOf(s, o) \subseteq N
  BY GivenBefore
<1>2. PrepareOps \in Seq(Item) /\ Segment(PrepareOps, s2, N)
  <2> HIDE DEF N
  <2>1. QED
    BY <1>1, PrepareSegment
<1>3. s1 \subseteq 1 .. 7 /\ s2 \subseteq 1 .. 7
  OBVIOUS
<1>4. AllocateTensors = e \o r
  BY DEF AllocateTensors
<1>5. in \in Seq(PersistentType) /\ out \in Seq(PersistentType)
  BY ModelFacts, TensorsPlain DEF Inputs, Kinds
<1>6. (\A i \in DOMAIN in : Trailing(in[i])) /\ \A i \in DOMAIN out : Trailing(out[i])
  BY ModelFacts, TensorsTrailing DEF Inputs
<1>7. r \in Seq(Item) /\ \A i \in DOMAIN r : Trailing(r[i])
  <2> DEFINE x == Step("reset")
  <2>1. x \in Item /\ x.do = "reset" /\ r = <<x>>
    BY StepItem DEF Step
  <2> HIDE DEF x
  <2>2. QED
    BY <2>1 DEF Trailing
<1> HIDE DEF a, N, in, out, r, s1, s2
<1>8. Quiet(a) /\ Quiet(PrepareOps)
  BY <1>1, <1>2, <1>3, QuietSegment
<1>9. b \in Seq(Item) /\ Quiet(b)
  BY <1>1, <1>2, <1>8, QuietJoin, Joined
<1> HIDE DEF b
<1>10. FinishModel \in Seq(Item) /\ PlanLast(FinishModel) /\ HasPlan(FinishModel)
  BY FinishSegment, FinishLast
<1>11. c \in Seq(Item) /\ PlanLast(c) /\ HasPlan(c)
  BY <1>9, <1>10, QuietJoin, Joined
<1> HIDE DEF c
<1>12. in \in Seq(Item) /\ out \in Seq(Item)
  BY <1>5, PlainWider
<1>13. d \in Seq(Item) /\ PlanLast(d) /\ HasPlan(d)
  BY <1>6, <1>11, <1>12, TrailingJoin, Joined
<1> HIDE DEF d
<1>14. e \in Seq(Item) /\ PlanLast(e) /\ HasPlan(e)
  BY <1>6, <1>12, <1>13, TrailingJoin, Joined
<1> HIDE DEF e
<1>15. QED
  BY <1>4, <1>7, <1>14, TrailingJoin
-----------------------------------------------------------------------------
(* The planner keeps to the alignment of sizes and given offsets.          *)

Aligned(x) == x % BufferAlign = 0
AlignedNeeds == \A b \in Buffers : Aligned(Size(b)) /\ (IsOnline(b) \/ Aligned(requirements[b].offline))
AlignedPlan ==
  AlignedNeeds => (\A b \in Placed : Aligned(offsets[b])) /\ (wanted # 0 => Aligned(candidate))

LEMMA AlignedProduct ==
  ASSUME NEW q \in Int
  PROVE  Aligned(q * BufferAlign)
<1>1. BufferAlign \in Nat \ {0}
  BY ArenaAssumption
<1>2. q * BufferAlign = BufferAlign * q
  BY <1>1
<1>3. (BufferAlign * q) % BufferAlign = 0
  BY <1>1
<1>4. QED
  BY <1>2, <1>3 DEF Aligned

LEMMA AlignedFactor ==
  ASSUME NEW p \in Int, Aligned(p)
  PROVE  \E q \in Int : p = q * BufferAlign
<1> DEFINE q == p \div BufferAlign
<1>1. BufferAlign \in Nat \ {0}
  BY ArenaAssumption
<1>2. q \in Int /\ p = BufferAlign * q + (p % BufferAlign)
  BY <1>1
<1>3. p % BufferAlign = 0
  BY DEF Aligned
<1> HIDE DEF q
<1>4. p = q * BufferAlign
  BY <1>1, <1>2, <1>3
<1>5. QED
  BY <1>2, <1>4

LEMMA AlignedSum ==
  ASSUME NEW x \in Int, NEW y \in Int, Aligned(x), Aligned(y)
  PROVE  Aligned(x + y)
<1>1. PICK q \in Int : x = q * BufferAlign
  BY AlignedFactor
<1>2. PICK r \in Int : y = r * BufferAlign
  BY AlignedFactor
<1>3. BufferAlign \in Nat \ {0}
  BY ArenaAssumption
<1>4. x + y = (q + r) * BufferAlign
  BY <1>1, <1>2, <1>3
<1>5. q + r \in Int
  OBVIOUS
<1>6. QED
  BY <1>4, <1>5, AlignedProduct

LEMMA AlignedUp ==
  ASSUME NEW p \in Int
  PROVE  Aligned(AlignUp(p, BufferAlign))
<1>1. BufferAlign \in Nat \ {0}
  BY ArenaAssumption
<1>2. (p + BufferAlign - 1) \div BufferAlign \in Int
  BY <1>1
<1>3. QED
  BY <1>2, AlignedProduct DEF AlignUp

LEMMA AlignedZero == Aligned(0)
<1>1. BufferAlign \in Nat \ {0}
  BY ArenaAssumption
<1>2. QED
  BY <1>1 DEF Aligned

LEMMA AlignedForget ==
  ASSUME Placed' = {}, wanted' = 0
  PROVE  AlignedPlan'
BY DEF AlignedPlan

\* Where the next buffer comes is the offset that was tried or the end of one.
LEMMA AlignedBehind ==
  ASSUME PlanInv, wanted # 0, AlignedNeeds, AlignedPlan
  PROVE  BehindPrior \in Int /\ Aligned(BehindPrior)
<1>1. Aligned(candidate) /\ candidate \in Nat /\ \A b \in Placed : Aligned(offsets[b]) /\ offsets[b] \in Nat
  BY DEF AlignedPlan, PlanInv, PlannerTypeOK
<1>2. CASE BehindPrior = candidate
  BY <1>1, <1>2
<1>3. CASE prior # 0 /\ BehindPrior = End(list[prior])
  <2> DEFINE b == list[prior]
  <2>1. b \in Placed /\ b \in Buffers
    BY <1>3 DEF PlanInv, PlannerTypeOK
  <2>2. Size(b) \in Nat /\ Aligned(Size(b))
    BY <2>1 DEF AlignedNeeds, PlanInv, PlannerTypeOK, Size
  <2>3. offsets[b] \in Nat /\ Aligned(offsets[b])
    BY <1>1, <2>1
  <2>4. BehindPrior = offsets[b] + Size(b)
    BY <1>3 DEF End
  <2> DEFINE x == offsets[b]
             y == Size(b)
  <2>5. x \in Int /\ y \in Int /\ Aligned(x) /\ Aligned(y) /\ BehindPrior = x + y
    BY <2>2, <2>3, <2>4
  <2> HIDE DEF b, x, y
  <2>6. Aligned(x + y) /\ x + y \in Int
    BY <2>5, AlignedSum
  <2>7. QED
    BY <2>5, <2>6
<1>4. QED
  BY <1>2, <1>3 DEF BehindPrior

LEMMA AlignedStep ==
  ASSUME PlanInv, AlignedPlan, PlacingStep
  PROVE  AlignedPlan'
<1>1. client' = client /\ requirements' = requirements /\ bufferCount' = bufferCount
  BY DEF PlacingStep, StartBuffer, SkipGap, PlaceBuffer, client
<1>2. AlignedNeeds' <=> AlignedNeeds
  BY <1>1 DEF AlignedNeeds, Buffers, Size, IsOnline
<1> SUFFICES ASSUME AlignedNeeds
             PROVE  (\A b \in Placed' : Aligned(offsets'[b])) /\ (wanted' # 0 => Aligned(candidate'))
  BY <1>2 DEF AlignedPlan, Aligned
<1>3. \A b \in Placed : Aligned(offsets[b])
  BY DEF AlignedPlan
<1>4. CASE StartBuffer
  <2>1. offsets' = offsets /\ wanted' \in Buffers
        /\ candidate' = IF IsOnline(wanted') THEN 0 ELSE requirements[wanted'].offline
    BY <1>4 DEF StartBuffer
  <2>2. Aligned(candidate')
    BY <2>1, AlignedZero DEF AlignedNeeds
  <2>3. QED
    BY <1>3, <2>1, <2>2 DEF Placed
<1>5. CASE SkipGap
  <2>1. wanted # 0 /\ offsets' = offsets /\ candidate' = BehindPrior
    BY <1>5 DEF SkipGap
  <2>2. QED
    BY <1>3, <2>1, AlignedBehind DEF Placed
<1>6. CASE PlaceBuffer
  <2>1. /\ wanted # 0 /\ wanted' = 0
        /\ offsets' = [b \in Placed \cup {wanted} |-> IF b = wanted THEN BehindPrior ELSE offsets[b]]
    BY <1>6 DEF PlaceBuffer
  <2>2. Aligned(BehindPrior)
    BY <2>1, AlignedBehind
  <2>3. QED
    BY <1>3, <2>1, <2>2 DEF Placed
<1>7. QED
  BY <1>4, <1>5, <1>6 DEF PlacingStep

\* The planner is given what the tensors need.
Matching ==
  /\ bufferCount <= Len(infos)
  /\ \A k \in Buffers : requirements[k] = Requirement(infos[k])

LEMMA MatchingAligned ==
  ASSUME Types, Matching, AlignedOffsets
  PROVE  AlignedNeeds
<1> SUFFICES ASSUME NEW b \in Buffers
             PROVE  Aligned(Size(b)) /\ (IsOnline(b) \/ Aligned(requirements[b].offline))
  BY DEF AlignedNeeds
<1>1. b \in DOMAIN infos /\ infos[b] \in InfoType
  BY DEF Matching, Buffers, Types, AllocatorTypes, PlanInv, PlannerTypeOK
<1>2. infos[b].bytes \in Nat
  BY <1>1 DEF InfoType
<1>3. /\ requirements[b].size = AlignUp(infos[b].bytes, BufferAlign)
      /\ requirements[b].offline = infos[b].offline
  <2>1. requirements[b] = Requirement(infos[b])
    BY DEF Matching
  <2>2. QED
    BY <2>1 DEF Requirement
<1>4. Aligned(Size(b))
  BY <1>2, <1>3, AlignedUp DEF Size
<1>5. IsOnline(b) \/ Aligned(requirements[b].offline)
  BY <1>1, <1>3 DEF AlignedOffsets, IsOnline, Aligned
<1>6. QED
  BY <1>4, <1>5
-----------------------------------------------------------------------------
(* What AllocateTensors leaves fits, in any arena and whatever was refused. *)

Finishing(l) == (\E i \in DOMAIN l : l[i].do = "reset") /\ \A i \in DOMAIN l : Trailing(l[i])
Committing ==
  \A i \in DOMAIN todo :
    todo[i].do = "commit" => i = 1 /\ 2 \in DOMAIN todo /\ todo[2].do = "reserve" /\ Matching
PlannedNamesOnly == \A k \in DOMAIN infos : infos[k].name[1] \in {"tensor", "scratch"}
\* Every buffer has the place that the planner gave to it.
PlacedAsPlanned ==
  /\ bufferCount = Len(infos)
  /\ \A k \in DOMAIN infos :
       /\ infos[k].name \in DOMAIN place
       /\ \E b \in Buffers : /\ place[infos[k].name].lo = offsets[b]
                             /\ place[infos[k].name].hi = offsets[b] + infos[b].bytes
Fit ==
  /\ head <= tail
  /\ \A k \in DOMAIN infos :
       /\ infos[k].name \in DOMAIN place /\ place[infos[k].name].hi <= head
       /\ AlignedOffsets => Aligned(place[infos[k].name].lo)

Working ==
  /\ todo # <<>> => outcome = "none" /\ ~allocated
  /\ todo # <<>> \/ outcome # "none" => phase \in {"setup", "retry"}
  /\ frames # <<>> => phase = "run"
Fitting ==
  /\ PlanLast(todo) /\ Committing
  /\ PlannedNamesOnly /\ AlignedPlan
  /\ At("reserve") => Matching /\ PlacedAsPlanned
  /\ Finishing(todo) \/ outcome = "ok" \/ allocated => Fit

LEMMA EmptyFitting ==
  ASSUME todo' = <<>>, outcome' # "ok", ~allocated', PlannedNamesOnly', AlignedPlan'
  PROVE  Fitting'
<1>1. DOMAIN todo' = {}
  OBVIOUS
<1>2. PlanLast(todo') /\ ~Finishing(todo')
  BY <1>1 DEF PlanLast, Finishing
<1>3. Committing' /\ ~At("reserve")'
  BY <1>1 DEF Committing, At
<1>4. QED
  BY <1>2, <1>3 DEF Fitting

(* An item that decides nothing makes room for items that decide nothing.  *)
LEMMA QuietMove ==
  ASSUME AllocatorTypes, PlanLast(todo), NEW items \in Seq(Todo), Advance(items), Quiet(items),
         ~Deciding(todo[1]), Trailing(todo[1]) => DOMAIN items = {}
  PROVE  /\ PlanLast(todo')
         /\ Finishing(todo') => Finishing(todo)
<1> DEFINE n == Len(items)
<1>1. /\ n \in Nat /\ DOMAIN items = 1 .. n
      /\ DOMAIN todo' \subseteq Nat /\ DOMAIN todo \subseteq Nat /\ 1 \in DOMAIN todo
      /\ \A i \in DOMAIN items : i \in DOMAIN todo' /\ todo'[i] = items[i]
      /\ \A i \in DOMAIN todo : i > 1 => i - 1 + n \in DOMAIN todo' /\ todo'[i - 1 + n] = todo[i]
      /\ \A i \in DOMAIN todo' : i \notin DOMAIN items =>
           /\ i - n + 1 \in DOMAIN todo /\ i - n + 1 > 1
           /\ todo'[i] = todo[i - n + 1]
  <2>1. todo # <<>>
    BY DEF Advance
  <2>2. 1 \in DOMAIN todo /\ DOMAIN todo \subseteq Nat
    BY <2>1, TodoFacts
  <2>3. QED
    BY <2>2, Moved
<1> HIDE DEF n
<1> DEFINE l == todo'
<1>2. l = todo'
  OBVIOUS
<1> HIDE DEF l
<1>3. \A i \in DOMAIN items : i \in DOMAIN l => ~Deciding(l[i]) /\ l[i].do # "reset"
  BY <1>1, <1>2 DEF Quiet, Deciding
<1>4. ASSUME NEW i \in DOMAIN l, NEW j \in DOMAIN l, i < j, Deciding(l[i])
      PROVE  l[j].do = "reserve" \/ Trailing(l[j])
  <2>1. i \notin DOMAIN items
    BY <1>3, <1>4
  <2>2. j \notin DOMAIN items
    BY <1>1, <1>2, <1>4, <2>1
  <2>3. /\ i - n + 1 \in DOMAIN todo /\ j - n + 1 \in DOMAIN todo /\ i - n + 1 < j - n + 1
        /\ l[i] = todo[i - n + 1] /\ l[j] = todo[j - n + 1]
    BY <1>1, <1>2, <1>4, <2>1, <2>2
  <2>4. QED
    BY <1>4, <2>3 DEF PlanLast
<1>5. ASSUME NEW j \in DOMAIN l, l[j].do = "reset"
      PROVE  (\E i \in DOMAIN l : i < j /\ Deciding(l[i])) \/ (\A i \in DOMAIN todo : Trailing(todo[i]))
  <2>1. j \notin DOMAIN items
    BY <1>3, <1>5
  <2>2. j - n + 1 \in DOMAIN todo /\ l[j] = todo[j - n + 1]
    BY <1>1, <1>2, <2>1
  <2>3. CASE \A i \in DOMAIN todo : Trailing(todo[i])
    BY <2>3
  <2>4. CASE \E i \in DOMAIN todo : i < j - n + 1 /\ Deciding(todo[i])
    <3>1. PICK i \in DOMAIN todo : i < j - n + 1 /\ Deciding(todo[i])
      BY <2>4
    <3>2. i \in Nat /\ i # 0 /\ i # 1
      BY <1>1, <3>1, TodoFacts DEF Advance
    <3>3. i > 1
      BY <3>2
    <3>4. i - 1 + n \in DOMAIN l /\ l[i - 1 + n] = todo[i] /\ i - 1 + n < j
      BY <1>1, <1>2, <3>1, <3>3
    <3>5. QED
      BY <3>1, <3>4
  <2>5. QED
    BY <1>5, <2>2, <2>3, <2>4 DEF PlanLast
<1>6. ASSUME \A i \in DOMAIN todo : Trailing(todo[i]) PROVE \A i \in DOMAIN l : Trailing(l[i])
  <2>1. DOMAIN items = {}
    BY <1>1, <1>6
  <2>2. QED
    BY <1>1, <1>2, <1>6, <2>1
<1>7. PlanLast(l)
  BY <1>4, <1>5, <1>6 DEF PlanLast
<1>8. ASSUME Finishing(l) PROVE Finishing(todo)
  <2>1. PICK j \in DOMAIN l : l[j].do = "reset"
    BY <1>8 DEF Finishing
  <2>2. \A i \in DOMAIN l : ~Deciding(l[i])
    BY <1>8 DEF Finishing, Trailing, Deciding
  <2>3. \A i \in DOMAIN todo : Trailing(todo[i])
    BY <1>5, <2>1, <2>2
  <2>4. j \notin DOMAIN items
    BY <1>3, <2>1
  <2>5. j - n + 1 \in DOMAIN todo /\ l[j] = todo[j - n + 1]
    BY <1>1, <1>2, <2>4
  <2>6. QED
    BY <2>1, <2>3, <2>5 DEF Finishing
<1>9. QED
  BY <1>2, <1>7, <1>8

(* No step of the plan is left once the first decides nothing.             *)
LEMMA QuietNext ==
  ASSUME Types, Reserving, Committing, NEW items \in Seq(Todo), Advance(items), Quiet(items), ~Deciding(todo[1])
  PROVE  Committing' /\ ~At("reserve")'
<1> DEFINE n == Len(items)
<1>1. AllocatorTypes /\ todo # <<>>
  BY DEF Types, Advance
<1>2. /\ n \in Nat /\ DOMAIN items = 1 .. n /\ DOMAIN todo' \subseteq Nat
      /\ \A i \in DOMAIN items : i \in DOMAIN todo' /\ todo'[i] = items[i]
      /\ \A i \in DOMAIN todo' : i \notin DOMAIN items =>
           /\ i - n + 1 \in DOMAIN todo /\ i - n + 1 > 1
           /\ todo'[i] = todo[i - n + 1]
  BY <1>1, Moved
<1> HIDE DEF n
<1>3. ASSUME NEW i \in DOMAIN todo', todo'[i].do \in {"commit", "reserve"} PROVE FALSE
  <2>1. i \notin DOMAIN items
    BY <1>2, <1>3 DEF Quiet
  <2>2. PICK k \in DOMAIN todo : k > 1 /\ todo'[i] = todo[k]
    BY <1>2, <2>1
  <2>3. todo[k].do # "commit"
    BY <2>2 DEF Committing
  <2>4. todo[k].do # "reserve"
    BY <2>2 DEF Reserving, Deciding
  <2>5. QED
    BY <1>3, <2>2, <2>3, <2>4
<1>4. Committing'
  BY <1>3 DEF Committing
<1>5. ASSUME At("reserve")' PROVE FALSE
  <2>1. todo' # <<>> /\ todo'[1].do = "reserve"
    BY <1>5 DEF At
  <2>2. todo' \in Seq(Todo)
    BY <1>1, TodoFacts, Joined DEF Advance
  <2>3. 1 \in DOMAIN todo'
    BY <2>1, <2>2
  <2>4. QED
    BY <1>3, <2>1, <2>3
<1>6. QED
  BY <1>4, <1>5
\* A step of the preparation or of the marking: it decides nothing.
EarlyKinds ==
  {"temp", "requests", "prepare", "scratch", "free", "finish", "handles", "info", "lifetimes"} \cup MarkKinds
Ending == todo' = <<>> /\ outcome' \in {"error", "null", "undefined"}
OnlyMarks(l) == \A i \in DOMAIN l : l[i].do \in MarkKinds
Going(items) == items \in Seq(Todo) /\ OnlyMarks(items) /\ Advance(items) /\ outcome' = outcome
Early ==
  /\ todo # <<>> /\ todo[1].do \in EarlyKinds
  /\ planner' = planner /\ PlannedNamesOnly'
  /\ Ending \/ \E items : Going(items)

LEMMA MarksQuiet ==
  ASSUME NEW l, OnlyMarks(l)
  PROVE  Quiet(l)
BY DEF OnlyMarks, Quiet, MarkKinds

LEMMA RestGoing ==
  ASSUME AllocatorTypes, todo # <<>>, Rest
  PROVE  \E items : Going(items)
<1> DEFINE none == <<>>
<1>1. none \in Seq(Todo) /\ Advance(none) /\ OnlyMarks(none) /\ outcome' = outcome
  BY Popped DEF Rest, OnlyMarks
<1> HIDE DEF none
<1>2. QED
  BY <1>1 DEF Going

LEMMA NamesStay ==
  ASSUME PlannedNamesOnly, infos \in Seq(InfoType), NEW names, NEW more, NEW now \in Int,
         infos' \in {Created(infos, names, now), Used(infos, names, now), Used(Created(infos, names, now), more, now)}
  PROVE  PlannedNamesOnly'
<1>1. \A a \in Seq(InfoType) : \A j \in DOMAIN a : j \in DOMAIN Created(a, names, now) /\ j \in DOMAIN Used(a, names, now)
  BY DEF Created, Used
<1> DEFINE Fine(a) == \A k \in DOMAIN a : a[k].name[1] \in {"tensor", "scratch"}
<1>2. ASSUME NEW a \in Seq(InfoType), Fine(a), NEW n PROVE Fine(Used(a, n, now))
  <2> DEFINE u == Used(a, n, now)
  <2>1. DOMAIN u = DOMAIN a /\ \A j \in DOMAIN a : u[j].name = a[j].name
    BY UsedStays
  <2> HIDE DEF u
  <2>2. QED
    BY <1>2, <2>1 DEF u
<1>3. ASSUME NEW a \in Seq(InfoType), Fine(a), NEW n PROVE Fine(Created(a, n, now))
  <2> DEFINE c == Created(a, n, now)
  <2>1. DOMAIN c = DOMAIN a
    BY DEF Created
  <2>2. ASSUME NEW j \in DOMAIN a PROVE c[j].name = a[j].name
    <3>1. a[j] \in InfoType
      OBVIOUS
    <3>2. c[j] = IF a[j].name \in n /\ a[j].first = -1 THEN [a[j] EXCEPT !.first = now] ELSE a[j]
      BY DEF Created
    <3>3. [a[j] EXCEPT !.first = now].name = a[j].name
      BY <3>1 DEF InfoType
    <3> HIDE DEF c
    <3>4. QED
      BY <3>2, <3>3
  <2> HIDE DEF c
  <2>3. QED
    BY <1>3, <2>1, <2>2 DEF c
<1>4. Fine(infos)
  BY DEF PlannedNamesOnly
<1> HIDE DEF Fine
<1>5. Created(infos, names, now) \in Seq(InfoType)
  BY MarkedTypes
<1>6. Fine(infos')
  BY <1>2, <1>3, <1>4, <1>5
<1>7. QED
  BY <1>6 DEF Fine, PlannedNamesOnly

LEMMA MarksEarly ==
  ASSUME Types, todo # <<>>, todo[1].do \in MarkKinds,
         NEW read, NEW now, NEW marked, NEW items \in Seq(Item), Marks(read, now, marked, items),
         PlannedNamesOnly, infos' = marked => PlannedNamesOnly', OnlyMarks(items)
  PROVE  Early
<1>1. todo[1].do \in EarlyKinds
  BY DEF EarlyKinds
<1>2. CASE ReadsGarbage(read \cup {Info})
  <2>1. Ending /\ planner' = planner /\ infos' = infos
    BY <1>2 DEF ReadsGarbage, EndsAs, Ending, book
  <2>2. PlannedNamesOnly'
    BY <2>1 DEF PlannedNamesOnly
  <2>3. QED
    BY <1>1, <2>1, <2>2 DEF Early
<1>3. CASE ~ReadsGarbage(read \cup {Info})
  <2>1. infos' = marked /\ todo' = items \o Tail(todo) /\ outcome' = outcome /\ planner' = planner
    BY <1>3 DEF Marks
  <2>2. items \in Seq(Todo)
    BY Wider
  <2>3. Going(items)
    BY <2>1, <2>2 DEF Going, Advance
  <2>4. QED
    BY <1>1, <2>1, <2>3 DEF Early
<1>4. QED
  BY <1>2, <1>3

LEMMA MarkingMarks ==
  ASSUME NEW l \in Seq(MarkingItem)
  PROVE  OnlyMarks(l)
<1>1. \A i \in DOMAIN l : l[i] \in MarkingItem
  OBVIOUS
<1>2. QED
  BY <1>1 DEF MarkingItem, OnlyMarks

LEMMA MarkingEarly ==
  ASSUME Types, PlannedNamesOnly, MarkInputs \/ MarkOperator \/ MarkUses \/ MarkOutputs
  PROVE  Early
<1>1. infos \in Seq(InfoType) /\ scope \in Int /\ AllocatorTypes
  BY DEF Types, AllocatorTypes
<1> DEFINE none == <<>>
<1>2. none \in Seq(Item) /\ OnlyMarks(none)
  BY DEF OnlyMarks
<1> HIDE DEF none
<1>3. CASE MarkInputs
  <2>1. PICK s : s = todo[1].subgraph
    OBVIOUS
  <2> DEFINE inputs == Range(Named(s, model[s].inputs))
             now == scope + todo[1].opens
             marked == Used(Created(infos, inputs, now), inputs, now)
             items == [o \in DOMAIN Ops(s) |-> OpStep("op", s, o, 0)] \o <<OpStep("outputs", s, 0, 0)>>
             read == {}
  <2>2. todo # <<>> /\ todo[1].do = "mark" /\ Marks(read, now, marked, items)
    BY <1>3, <2>1 DEF MarkInputs, At
  <2>3. items \in Seq(MarkingItem) /\ items \in Seq(Item)
    BY <2>1, <2>2, MarkingItems
  <2>4. now \in Int
    BY <1>1, <2>2, ItemKinds DEF MarkType
  <2> HIDE DEF inputs, now, items, read
  <2>5. infos' = marked => PlannedNamesOnly'
    BY <1>1, <2>4, NamesStay
  <2> HIDE DEF marked
  <2>6. todo[1].do \in MarkKinds /\ OnlyMarks(items)
    BY <2>2, <2>3, MarkingMarks DEF MarkKinds
  <2>7. QED
    BY <2>2, <2>3, <2>5, <2>6, MarksEarly
<1>4. CASE MarkOperator
  <2>1. PICK s, o, calls : s = todo[1].subgraph /\ o = todo[1].op /\ calls = Ops(s)[o].calls
    OBVIOUS
  <2> DEFINE names == Range(Named(s, Ops(s)[o].outputs)) \cup ScratchNames(s, o)
             now == scope + 1
             marked == Created(infos, names, now)
             items == [c \in DOMAIN calls |-> Mark(calls[c], 1)] \o <<OpStep("used", s, o, 0)>>
  <2>2. todo # <<>> /\ todo[1].do = "op" /\ Marks(RequestSlots, now, marked, items)
    BY <1>4, <2>1 DEF MarkOperator, At
  <2>3. items \in Seq(MarkingItem) /\ items \in Seq(Item)
    BY <2>1, <2>2, MarkingItems
  <2>4. now \in Int
    BY <1>1
  <2> HIDE DEF names, now, items
  <2>5. infos' = marked => PlannedNamesOnly'
    BY <1>1, <2>4, NamesStay
  <2> HIDE DEF marked
  <2>6. todo[1].do \in MarkKinds /\ OnlyMarks(items)
    BY <2>2, <2>3, MarkingMarks DEF MarkKinds
  <2>7. QED
    BY <2>2, <2>3, <2>5, <2>6, MarksEarly
<1>5. CASE MarkUses
  <2>1. PICK s, o : s = todo[1].subgraph /\ o = todo[1].op
    OBVIOUS
  <2> DEFINE names == Range(Named(s, Ops(s)[o].inputs \o Ops(s)[o].outputs)) \cup ScratchNames(s, o)
             marked == Used(infos, names, scope)
  <2>2. todo # <<>> /\ todo[1].do = "used" /\ Marks(RequestSlots, scope, marked, none)
    BY <1>5, <2>1 DEF MarkUses, At, none
  <2> HIDE DEF names
  <2>3. infos' = marked => PlannedNamesOnly'
    BY <1>1, NamesStay
  <2> HIDE DEF marked
  <2>4. todo[1].do \in MarkKinds
    BY <2>2 DEF MarkKinds
  <2>5. QED
    BY <1>2, <2>2, <2>3, <2>4, MarksEarly
<1>6. CASE MarkOutputs
  <2>1. PICK s : s = todo[1].subgraph
    OBVIOUS
  <2> DEFINE outputs == Range(Named(s, model[s].outputs))
             marked == Used(Created(infos, outputs, scope), outputs, scope)
             read == {}
  <2>2. todo # <<>> /\ todo[1].do = "outputs" /\ Marks(read, scope, marked, none)
    BY <1>6, <2>1 DEF MarkOutputs, At, none
  <2> HIDE DEF outputs, read
  <2>3. infos' = marked => PlannedNamesOnly'
    BY <1>1, NamesStay
  <2> HIDE DEF marked
  <2>4. todo[1].do \in MarkKinds
    BY <2>2 DEF MarkKinds
  <2>5. QED
    BY <1>2, <2>2, <2>3, <2>4, MarksEarly
<1>7. QED
  BY <1>3, <1>4, <1>5, <1>6

LEMMA LifetimesEarly ==
  ASSUME Types, PlannedNamesOnly, InitializeAllocationInfo
  PROVE  Early
<1> DEFINE read == Structures \cup {<<"eval", s, 0>> : s \in Subgraphs}
           x == Mark(1, 0)
           items == <<x>>
<1>1. AllocatorTypes /\ model \in Models /\ requests \in Seq(RequestType) /\ todo # <<>> /\ todo[1].do = "lifetimes"
  BY DEF Types, AllocatorTypes, InitializeAllocationInfo, At
<1>2. todo[1].do \in EarlyKinds
  BY <1>1 DEF EarlyKinds
<1>3. CASE ReadsGarbage(read)
  <2>1. Ending /\ planner' = planner /\ infos' = infos
    BY <1>3 DEF ReadsGarbage, EndsAs, Ending, book
  <2>2. PlannedNamesOnly'
    BY <2>1 DEF PlannedNamesOnly
  <2>3. QED
    BY <1>1, <1>2, <2>1, <2>2 DEF Early
<1>4. CASE infos' = AllocationInfo /\ todo' = items \o Tail(todo) /\ outcome' = outcome /\ planner' = planner
  <2>1. PlannedNamesOnly'
    BY <1>1, <1>4, InfoNames DEF PlannedNamesOnly
  <2>2. x \in Item /\ x.do = "mark"
    BY <1>1, MarkItem, ModelFacts DEF Mark
  <2> HIDE DEF x
  <2>3. items \in Seq(Item) /\ DOMAIN items = {1} /\ items[1] = x
    BY <2>2
  <2>4. OnlyMarks(items)
    BY <2>2, <2>3 DEF OnlyMarks, MarkKinds
  <2> HIDE DEF items
  <2>5. items \in Seq(Todo)
    BY <2>3, Wider
  <2>6. Going(items)
    BY <1>1, <1>4, <2>4, <2>5 DEF Going, Advance
  <2>7. QED
    BY <1>1, <1>2, <1>4, <2>1, <2>6 DEF Early
<1>5. QED
  BY <1>3, <1>4 DEF InitializeAllocationInfo

LEMMA PrepareEarly ==
  ASSUME Types, PlannedNamesOnly,
         \/ AllocateTempTensor \/ InitScratchBufferData \/ PrepareNode \/ RequestScratchBufferInArena
         \/ FreeTempTensors \/ FinishPrepareNodeAllocations \/ AllocateScratchBufferHandles \/ CreateAllocationInfo
  PROVE  Early
<1>1. /\ todo # <<>> /\ planner' = planner /\ infos' = infos
      /\ todo[1].do \in {"temp", "requests", "prepare", "scratch", "free", "finish", "handles", "info"}
  BY DEF AllocateTempTensor, InitScratchBufferData, PrepareNode, RequestScratchBufferInArena, FreeTempTensors,
         FinishPrepareNodeAllocations, AllocateScratchBufferHandles, CreateAllocationInfo, At, ReadsGarbage, book
<1>2. PlannedNamesOnly'
  BY <1>1 DEF PlannedNamesOnly
<1>3. Ending \/ Rest
  <2>1. CASE AllocateTempTensor
    <3>1. todo[1] \in TemporaryType
      BY <2>1, ItemKinds DEF AllocateTempTensor, At, Types
    <3>2. todo[1].null \in {"undefined", "error"}
      BY <3>1 DEF TemporaryType
    <3>3. QED
      BY <2>1, <3>2 DEF AllocateTempTensor, Refused, EndsAs, Ending
  <2>2. CASE ~AllocateTempTensor
    BY <2>2 DEF InitScratchBufferData, PrepareNode, RequestScratchBufferInArena, FreeTempTensors,
         FinishPrepareNodeAllocations, AllocateScratchBufferHandles, CreateAllocationInfo, ReadsGarbage, Refused,
         EndsAs, Ending
  <2>3. QED
    BY <2>1, <2>2
<1>4. Ending \/ \E items : Going(items)
  BY <1>1, <1>3, RestGoing DEF Types
<1>5. todo[1].do \in EarlyKinds
  BY <1>1 DEF EarlyKinds
<1>6. QED
  BY <1>1, <1>2, <1>4, <1>5 DEF Early

LEMMA EarlyFitting ==
  ASSUME Types, Reserving, Working, Fitting, Early, allocated' = allocated
  PROVE  Fitting'
<1>1. /\ PlanLast(todo) /\ Committing /\ PlannedNamesOnly' /\ outcome = "none" /\ ~allocated' /\ todo # <<>>
      /\ ~Deciding(todo[1]) /\ ~Trailing(todo[1])
  BY DEF Fitting, Early, Working, EarlyKinds, MarkKinds, Deciding, Trailing
<1>2. AlignedPlan'
  <2>1. UNCHANGED <<max, bufferCount, requirements, offsets, list, count, wanted, prior, candidate>>
    BY DEF Early, planner, client, search
  <2>2. QED
    BY <2>1 DEF Fitting, AlignedPlan, AlignedNeeds, Aligned, Buffers, Placed, Size, IsOnline
<1>3. CASE Ending
  BY <1>1, <1>2, <1>3, EmptyFitting DEF Ending
<1>4. ASSUME NEW items, Going(items) PROVE Fitting'
  <2>1. items \in Seq(Todo) /\ Quiet(items) /\ Advance(items) /\ outcome' = "none"
    BY <1>1, <1>4, MarksQuiet DEF Going
  <2>2. PlanLast(todo') /\ (Finishing(todo') => Finishing(todo))
    BY <1>1, <2>1, QuietMove DEF Types
  <2>3. Committing' /\ ~At("reserve")'
    BY <1>1, <2>1, QuietNext
  <2>4. ~Finishing(todo)
    BY <1>1, TodoFacts DEF Finishing, Types
  <2>5. QED
    BY <1>1, <1>2, <2>1, <2>2, <2>3, <2>4 DEF Fitting
<1>5. QED
  BY <1>3, <1>4 DEF Early
LEMMA SameAligned ==
  ASSUME planner' = planner, AlignedPlan
  PROVE  AlignedPlan'
<1>1. UNCHANGED <<max, bufferCount, requirements, offsets, list, count, wanted, prior, candidate>>
  BY DEF planner, client, search
<1>2. QED
  BY <1>1 DEF AlignedPlan, AlignedNeeds, Aligned, Buffers, Placed, Size, IsOnline

LEMMA StartFitting ==
  ASSUME Types, Working, Fitting, StartModelAllocation, allocated' = allocated
  PROVE  Fitting'
<1>1. /\ todo # <<>> /\ model \in Models /\ infos' = infos /\ planner' = planner
      /\ outcome = "none" /\ ~allocated'
  BY DEF StartModelAllocation, At, Working, Types, AllocatorTypes
<1>2. PlannedNamesOnly' /\ AlignedPlan'
  BY <1>1, SameAligned DEF Fitting, PlannedNamesOnly
<1>3. CASE EndsAs("null")
  BY <1>1, <1>2, <1>3, EmptyFitting DEF EndsAs
<1>4. CASE todo' = AllocateTensors /\ outcome' = outcome
  <2> DEFINE l == AllocateTensors
  <2>1. l \in Seq(Item) /\ PlanLast(l) /\ HasPlan(l) /\ todo' = l
    BY <1>1, <1>4, AllItems, AllLast
  <2> HIDE DEF l
  <2>2. \A i \in DOMAIN l : l[i].do \notin {"commit", "reserve"}
    <3>1. \A i \in DOMAIN l : l[i] \in Item
      BY <2>1
    <3>2. \A x \in Item : x.do \notin {"commit", "reserve"}
      BY DEF Item, PersistentType, TemporaryType, StepType, OpType, MarkType
    <3>3. QED
      BY <3>1, <3>2
  <2>3. ~Finishing(l)
    BY <2>1 DEF Finishing, HasPlan, Trailing
  <2>4. Committing'
    BY <2>1, <2>2 DEF Committing
  <2>5. ~At("reserve")'
    <3>1. PICK p \in DOMAIN l : l[p].do = "plan"
      BY <2>1 DEF HasPlan
    <3>2. 1 \in DOMAIN l
      BY <2>1, <3>1
    <3>3. QED
      BY <2>1, <2>2, <3>2 DEF At
  <2>6. QED
    BY <1>1, <1>2, <1>4, <2>1, <2>3, <2>4, <2>5 DEF Fitting
<1>5. QED
  BY <1>3, <1>4 DEF StartModelAllocation

\* A persistent buffer is laid below what is there, and above the head.
LEMMA TailFit ==
  ASSUME Types, PlannedNamesOnly, AllocateTail, Fit, Trailing(todo[1]), todo' # <<>>
  PROVE  Fit'
<1> DEFINE r == todo[1]
<1>1. r \in PersistentType /\ r.name[1] # "tensor" /\ infos' = infos
  BY ItemKinds DEF AllocateTail, At, Types, Trailing, book
<1>2. r.bytes \in Nat /\ r.align \in Nat \ {0} /\ r.name[1] \in Kinds
  BY <1>1 DEF PersistentType, PersistentNames
<1>3. ArenaTypeOK
  BY DEF Types
<1>4. \A k \in DOMAIN infos : infos[k].name # r.name
  <2>1. r.name[1] \notin {"tensor", "scratch"}
    BY <1>1, <1>2 DEF Kinds
  <2>2. QED
    BY <2>1 DEF PlannedNamesOnly
<1>5. AlignedOffsets' <=> AlignedOffsets
  BY <1>1 DEF AlignedOffsets
<1> DEFINE name == r.name
           bytes == r.bytes
           align == r.align
           fill == ~IsTensor(r.name)
<1>6. CASE AllocatePersistentBuffer(name, bytes, align, fill)
  <2> DEFINE at == PersistentAt(bytes, align)
  <2>1. at \in Int /\ at + bytes \in Int /\ fill \in BOOLEAN
    BY <1>2, <1>3, PersistentTypes DEF IsTensor
  <2>2. head <= at /\ tail' = at /\ HandOut(name, at, at + bytes, fill) /\ head' = head
    BY <1>6 DEF AllocatePersistentBuffer, PersistentFits
  <2> HIDE DEF name, bytes, align, fill, at
  <2> DEFINE hi == at + bytes
  <2>3. hi \in Int /\ HandOut(name, at, hi, fill)
    BY <2>1, <2>2
  <2> HIDE DEF hi
  <2>4. Handed(name, at, hi, fill)
    BY <1>3, <2>1, <2>3, HandedOut
  <2>5. \A k \in DOMAIN infos : infos[k].name \in DOMAIN place =>
          infos[k].name \in DOMAIN place' /\ place'[infos[k].name] = place[infos[k].name]
    BY <1>4, <2>4 DEF Handed, name
  <2>6. QED
    BY <1>1, <1>5, <2>2, <2>5 DEF Fit, Aligned
<1>7. CASE Free({name}) /\ UNCHANGED <<head, tail>>
  <2>1. \A k \in DOMAIN infos : infos[k].name \in DOMAIN place =>
          infos[k].name \in DOMAIN place' /\ place'[infos[k].name] = place[infos[k].name]
    BY <1>4, <1>7 DEF Free, Without
  <2>2. QED
    BY <1>1, <1>5, <1>7, <2>1 DEF Fit, Aligned
<1>8. QED
  BY <1>6, <1>7 DEF AllocateTail, Refused, EndsAs

LEMMA TailFitting ==
  ASSUME Types, Reserving, Working, Fitting, AllocateTail, allocated' = allocated
  PROVE  Fitting'
<1>1. /\ todo # <<>> /\ todo[1].do = "persistent" /\ infos' = infos /\ planner' = planner
      /\ outcome = "none" /\ ~allocated' /\ AllocatorTypes
      /\ PlanLast(todo) /\ Committing /\ PlannedNamesOnly
  BY DEF AllocateTail, At, Working, Types, Fitting, book
<1>2. PlannedNamesOnly' /\ AlignedPlan'
  BY <1>1, SameAligned DEF Fitting, PlannedNamesOnly
<1>3. CASE ~Rest
  <2>1. todo[1] \in PersistentType
    BY <1>1, ItemKinds
  <2>2. todo[1].null # "ok"
    BY <2>1 DEF PersistentType
  <2>3. todo' = <<>> /\ outcome' = todo[1].null
    BY <1>3 DEF AllocateTail, Refused, EndsAs
  <2>4. QED
    BY <1>1, <1>2, <2>2, <2>3, EmptyFitting
<1>4. CASE Rest
  <2> DEFINE none == <<>>
  <2>1. none \in Seq(Todo) /\ Advance(none) /\ DOMAIN none = {} /\ Quiet(none)
    BY <1>1, <1>4, Popped DEF Rest, Quiet
  <2> HIDE DEF none
  <2>2. ~Deciding(todo[1])
    BY <1>1 DEF Deciding
  <2>3. PlanLast(todo') /\ (Finishing(todo') => Finishing(todo))
    BY <1>1, <2>1, <2>2, QuietMove
  <2>4. Committing' /\ ~At("reserve")'
    BY <1>1, <2>1, <2>2, QuietNext
  <2>5. ASSUME Finishing(todo') PROVE Fit'
    <3>1. Fit /\ Trailing(todo[1])
      BY <1>1, <2>3, <2>5, TodoFacts DEF Fitting, Finishing
    <3>2. todo' # <<>>
      BY <2>5 DEF Finishing
    <3>3. QED
      BY <1>1, <3>1, <3>2, TailFit
  <2>6. outcome' = "none"
    BY <1>1, <1>4 DEF Rest
  <2>7. QED
    BY <1>1, <1>2, <2>3, <2>4, <2>5, <2>6 DEF Fitting
<1>5. QED
  BY <1>3, <1>4

LEMMA ResetFitting ==
  ASSUME Types, Working, Fitting, ResetVariableTensors, allocated' = allocated
  PROVE  Fitting'
<1>1. /\ todo # <<>> /\ todo[1].do = "reset" /\ infos' = infos /\ planner' = planner /\ UNCHANGED <<head, tail, place>>
      /\ todo' = <<>> /\ AllocatorTypes
  BY DEF ResetVariableTensors, At, EndsAs, Types, book
<1>2. PlannedNamesOnly' /\ AlignedPlan'
  BY <1>1, SameAligned DEF Fitting, PlannedNamesOnly
<1>3. Finishing(todo)
  <2>1. 1 \in DOMAIN todo /\ \A i \in DOMAIN todo : ~(i < 1)
    BY <1>1, TodoFacts
  <2>2. QED
    BY <1>1, <2>1 DEF Fitting, PlanLast, Finishing
<1>4. Fit'
  BY <1>1, <1>3 DEF Fitting, Fit, AlignedOffsets, Aligned
<1>5. DOMAIN todo' = {}
  BY <1>1
<1>6. PlanLast(todo') /\ Committing' /\ ~At("reserve")'
  BY <1>1, <1>5 DEF PlanLast, Committing, At
<1>7. QED
  BY <1>2, <1>4, <1>6 DEF Fitting
\* The requirements are added one by one, as the AllocationInfo has them.
LEMMA PlanFitting ==
  ASSUME Types, Working, Fitting, InitMemoryPlanner, allocated' = allocated
  PROVE  Fitting'
<1>1. /\ todo # <<>> /\ todo[1].do = "plan" /\ infos' = infos /\ AllocatorTypes
      /\ outcome = "none" /\ ~allocated' /\ PlanLast(todo) /\ Committing
  BY DEF InitMemoryPlanner, At, Working, Types, Fitting, book
<1>2. PlannedNamesOnly'
  BY <1>1 DEF Fitting, PlannedNamesOnly
<1>3. CASE todo' = <<>> /\ outcome' \in {"undefined", "error"} /\ planner' = planner
  <2>1. AlignedPlan'
    BY <1>3, SameAligned DEF Fitting
  <2>2. QED
    BY <1>1, <1>2, <1>3, <2>1, EmptyFitting
<1>4. CASE /\ InitPlanner(PlannerRoom \div SizeOf.PlannerEntry)
           /\ todo' = <<Step("commit"), Step("reserve")>> \o Tail(todo) /\ outcome' = outcome
  <2>1. bufferCount' = 0 /\ Placed' = {} /\ wanted' = 0
    BY <1>4 DEF InitPlanner, Forget, NoFunction, Placed, search
  <2>2. AlignedPlan'
    BY <2>1, AlignedForget
  <2>3. Matching'
    <3>1. Len(infos) \in Nat
      BY <1>1 DEF AllocatorTypes
    <3>2. Buffers' = {}
      BY <2>1 DEF Buffers
    <3>3. QED
      BY <1>1, <2>1, <3>1, <3>2 DEF Matching
  <2> DEFINE items == PlanSteps
             l == todo'
  <2>4. items \in Seq(Todo) /\ DOMAIN items = {1, 2} /\ items[1].do = "commit" /\ items[2].do = "reserve"
    BY PlanStepsFacts
  <2>5. Advance(items)
    BY <1>1, <1>4 DEF Advance, PlanSteps
  <2> HIDE DEF items
  <2>6. /\ Len(items) = 2 /\ DOMAIN l \subseteq Nat \ {0}
        /\ \A i \in DOMAIN items : i \in DOMAIN l /\ l[i] = items[i]
        /\ \A i \in DOMAIN l : i \notin DOMAIN items => i - 1 \in DOMAIN todo /\ i - 1 > 1 /\ l[i] = todo[i - 1]
    <3> DEFINE n == Len(items)
    <3>1. /\ n \in Nat /\ DOMAIN items = 1 .. n
          /\ DOMAIN todo' = 1 .. n + (Len(todo) - 1)
          /\ \A i \in DOMAIN items : i \in DOMAIN todo' /\ todo'[i] = items[i]
          /\ \A i \in DOMAIN todo' : i \notin DOMAIN items =>
               i - n + 1 \in DOMAIN todo /\ i - n + 1 > 1 /\ todo'[i] = todo[i - n + 1]
      BY <1>1, <2>4, <2>5, Moved
    <3> HIDE DEF n
    <3>2. n = 2
      BY <2>4, <3>1
    <3>3. DOMAIN l \subseteq Nat \ {0}
      BY <1>1, <3>1, TodoFacts
    <3>4. \A i \in DOMAIN l : i - n + 1 = i - 1
      BY <3>2, <3>3
    <3>5. QED
      BY <3>1, <3>2, <3>3, <3>4 DEF n
  <2>7. l = todo'
    OBVIOUS
  <2> HIDE DEF l
  <2>8. \A i \in DOMAIN todo : i > 1 => todo[i].do = "reserve" \/ Trailing(todo[i])
    BY <1>1, TodoFacts DEF PlanLast, Deciding
  <2>9. 1 \in DOMAIN l /\ 2 \in DOMAIN l /\ l[1].do = "commit" /\ l[2].do = "reserve"
    BY <2>4, <2>6
  <2>10. \A j \in DOMAIN l : j = 1 \/ (j > 1 /\ (l[j].do = "reserve" \/ Trailing(l[j])))
    <3> SUFFICES ASSUME NEW j \in DOMAIN l, j # 1, j # 2 PROVE j > 1 /\ (l[j].do = "reserve" \/ Trailing(l[j]))
      BY <2>9
    <3>1. j - 1 \in DOMAIN todo /\ j - 1 > 1 /\ l[j] = todo[j - 1] /\ j \in Nat
      BY <2>4, <2>6
    <3>2. QED
      BY <2>8, <3>1
  <2>11. PlanLast(l)
    BY <2>6, <2>9, <2>10 DEF PlanLast, Deciding
  <2>12. ~Finishing(l)
    BY <2>9 DEF Finishing, Trailing
  <2>13. \A i \in DOMAIN l : l[i].do = "commit" => i = 1
    BY <2>10 DEF Trailing
  <2>14. Committing' /\ ~At("reserve")'
    BY <2>3, <2>7, <2>9, <2>13 DEF Committing, At
  <2>15. QED
    BY <1>1, <1>2, <1>4, <2>2, <2>7, <2>11, <2>12, <2>14 DEF Fitting
<1>5. QED
  BY <1>3, <1>4 DEF InitMemoryPlanner, EndsAs, Refused

LEMMA AddMatching ==
  ASSUME Types, Matching, bufferCount < Len(infos), Add(Requirement(infos[bufferCount + 1])), infos' = infos
  PROVE  Matching'
<1> DEFINE r == Requirement(infos[bufferCount + 1])
<1>1. /\ bufferCount \in Nat /\ Len(infos) \in Nat /\ bufferCount' = bufferCount + 1
      /\ requirements' = [b \in 1 .. bufferCount + 1 |-> IF b <= bufferCount THEN requirements[b] ELSE r]
  BY DEF Add, Types, PlanInv, PlannerTypeOK, AllocatorTypes
<1>2. \A k \in Buffers : requirements[k] = Requirement(infos[k])
  BY DEF Matching
<1> HIDE DEF r
<1>3. ASSUME NEW k \in 1 .. bufferCount + 1 PROVE requirements'[k] = Requirement(infos[k])
  <2>1. CASE k <= bufferCount
    <3>1. requirements'[k] = requirements[k] /\ k \in Buffers
      BY <1>1, <2>1 DEF Buffers
    <3>2. QED
      BY <1>2, <3>1
  <2>2. CASE ~(k <= bufferCount)
    <3>1. requirements'[k] = r /\ k = bufferCount + 1
      BY <1>1, <2>2
    <3>2. QED
      BY <3>1 DEF r
  <2>3. QED
    BY <2>1, <2>2
<1>4. \A k \in Buffers' : requirements'[k] = Requirement(infos'[k])
  BY <1>1, <1>3 DEF Buffers
<1>5. QED
  BY <1>1, <1>4 DEF Matching, Requirement

LEMMA AddFitting ==
  ASSUME Types, Working, Fitting, AddBuffer, allocated' = allocated
  PROVE  Fitting'
<1>1. /\ todo # <<>> /\ todo[1].do = "commit" /\ infos' = infos /\ AllocatorTypes
      /\ outcome = "none" /\ ~allocated' /\ PlanLast(todo) /\ Committing /\ bufferCount < Len(infos)
  BY DEF AddBuffer, ReadsGarbage, At, Working, Types, Fitting, book
<1>2. PlannedNamesOnly'
  BY <1>1 DEF Fitting, PlannedNamesOnly
<1>3. CASE todo' = <<>> /\ outcome' \in {"undefined", "error"} /\ planner' = planner
  <2>1. AlignedPlan'
    BY <1>3, SameAligned DEF Fitting
  <2>2. QED
    BY <1>1, <1>2, <1>3, <2>1, EmptyFitting
<1>4. CASE Add(Requirement(infos[bufferCount + 1])) /\ UNCHANGED <<todo, outcome>>
  <2>1. 1 \in DOMAIN todo
    BY <1>1, TodoFacts
  <2>2. Matching /\ 2 \in DOMAIN todo /\ todo[2].do = "reserve"
    BY <1>1, <2>1 DEF Committing
  <2>3. Matching'
    BY <1>1, <1>4, <2>2, AddMatching
  <2>4. Placed' = {} /\ wanted' = 0
    BY <1>4 DEF Add, Forget, NoFunction, Placed, search
  <2>5. AlignedPlan'
    BY <2>4, AlignedForget
  <2>6. Committing' /\ ~At("reserve")'
    BY <1>1, <1>4, <2>3 DEF Committing, At
  <2>7. ~Finishing(todo)
    BY <1>1, <2>1 DEF Finishing, Trailing
  <2>8. QED
    BY <1>1, <1>2, <1>4, <2>5, <2>6, <2>7 DEF Fitting
<1>5. QED
  BY <1>3, <1>4 DEF AddBuffer, ReadsGarbage, EndsAs, Refused

LEMMA OffsetsFitting ==
  ASSUME Types, Working, Fitting, CalculateOffsets, allocated' = allocated
  PROVE  Fitting'
<1>1. /\ todo # <<>> /\ todo[1].do = "commit" /\ infos' = infos /\ AllocatorTypes /\ todo' = todo /\ outcome' = outcome
      /\ outcome = "none" /\ ~allocated' /\ PlanLast(todo) /\ Committing /\ PlacingStep
  BY DEF CalculateOffsets, At, Working, Types, Fitting, book
<1>2. PlannedNamesOnly'
  BY <1>1 DEF Fitting, PlannedNamesOnly
<1>3. AlignedPlan'
  BY <1>1, AlignedStep DEF Fitting, Types
<1>4. requirements' = requirements /\ bufferCount' = bufferCount
  BY <1>1 DEF PlacingStep, StartBuffer, SkipGap, PlaceBuffer, client
<1>5. Matching => Matching'
  BY <1>1, <1>4 DEF Matching, Buffers, Requirement
<1>6. Committing' /\ ~At("reserve")'
  BY <1>1, <1>5 DEF Committing, At
<1>7. ~Finishing(todo)
  BY <1>1, TodoFacts DEF Finishing, Trailing
<1>8. QED
  BY <1>1, <1>2, <1>3, <1>6, <1>7 DEF Fitting

\* Every buffer of the plan gets the place of its name's first AllocationInfo.
LEMMA PlacesPlanned ==
  ASSUME Types, bufferCount = Len(infos), infos' = infos, planner' = planner,
         place' = [n \in PlannedNames \cup DOMAIN place |-> IF n \in PlannedNames THEN Planning(n) ELSE place[n]]
  PROVE  PlacedAsPlanned'
<1>1. bufferCount' = bufferCount /\ offsets' = offsets
  BY DEF planner, client
<1>2. infos \in Seq(InfoType)
  BY DEF Types, AllocatorTypes
<1>3. Buffers = DOMAIN infos
  BY <1>2 DEF Buffers
<1>4. ASSUME NEW k \in DOMAIN infos
      PROVE  /\ infos[k].name \in DOMAIN place'
             /\ \E b \in Buffers : /\ place'[infos[k].name].lo = offsets[b]
                                   /\ place'[infos[k].name].hi = offsets[b] + infos[b].bytes
  <2> DEFINE n == infos[k].name
             b == CHOOSE i \in DOMAIN infos : infos[i].name = n
  <2>1. n \in PlannedNames
    BY DEF PlannedNames
  <2>2. n \in DOMAIN place' /\ place'[n] = Planning(n)
    BY <2>1
  <2>3. b \in Buffers
    BY <1>3
  <2>4. Planning(n) = [lo |-> offsets[b], hi |-> offsets[b] + infos[b].bytes]
    BY DEF Planning
  <2> HIDE DEF n, b
  <2>5. place'[n].lo = offsets[b] /\ place'[n].hi = offsets[b] + infos[b].bytes
    BY <2>2, <2>4
  <2>6. QED
    BY <2>2, <2>3, <2>5 DEF n
<1>5. QED
  BY <1>1, <1>4 DEF PlacedAsPlanned, Buffers

LEMMA CommitFitting ==
  ASSUME Types, Reserving, Working, Fitting, CommitPlan, allocated' = allocated
  PROVE  Fitting'
<1>1. /\ todo # <<>> /\ todo[1].do = "commit" /\ infos' = infos /\ AllocatorTypes /\ planner' = planner
      /\ outcome = "none" /\ ~allocated' /\ PlanLast(todo) /\ Committing /\ bufferCount = Len(infos)
  BY DEF CommitPlan, ReadsGarbage, At, Working, Types, Fitting, book
<1>2. PlannedNamesOnly' /\ AlignedPlan'
  BY <1>1, SameAligned DEF Fitting, PlannedNamesOnly
<1>3. CASE todo' = <<>> /\ outcome' = "undefined"
  BY <1>1, <1>2, <1>3, EmptyFitting
<1>4. CASE /\ place' = [n \in PlannedNames \cup DOMAIN place |-> IF n \in PlannedNames THEN Planning(n) ELSE place[n]]
           /\ Rest
  <2>1. /\ Tail(todo) = todo' /\ DOMAIN todo' = 1 .. Len(todo) - 1 /\ Len(todo) \in Nat
        /\ DOMAIN todo = 1 .. Len(todo)
        /\ \A i \in 1 .. Len(todo) - 1 : Tail(todo)[i] = todo[i + 1]
        /\ 1 \in DOMAIN todo
    BY <1>1, <1>4, TodoFacts DEF Rest
  <2>2. Matching /\ 2 \in DOMAIN todo /\ todo[2].do = "reserve" /\ outcome' = "none"
    BY <1>1, <1>4, <2>1 DEF Committing, Rest
  <2>3. \A i \in DOMAIN todo' : i \in Nat /\ i >= 1 /\ i + 1 \in DOMAIN todo /\ todo'[i] = todo[i + 1]
    BY <2>1
  <2>4. 1 \in DOMAIN todo' /\ todo'[1].do = "reserve"
    BY <2>1, <2>2, <2>3
  <2>5. PlanLast(todo')
    <3>1. \A i, j \in DOMAIN todo' : i < j /\ Deciding(todo'[i]) => todo'[j].do = "reserve" \/ Trailing(todo'[j])
      BY <1>1, <2>3 DEF PlanLast
    <3>2. \A j \in DOMAIN todo' : todo'[j].do = "reset" => 1 < j
      BY <2>3, <2>4
    <3>3. QED
      BY <2>4, <3>1, <3>2 DEF PlanLast, Deciding
  <2>6. Committing'
    <3>1. \A i \in DOMAIN todo' : todo'[i].do # "commit"
      BY <1>1, <2>3 DEF Committing
    <3>2. QED
      BY <3>1 DEF Committing
  <2>7. ~Finishing(todo')
    BY <2>4 DEF Finishing, Trailing
  <2>8. Matching'
    BY <1>1, <2>2 DEF Matching, Buffers, Requirement, planner, client
  <2>9. PlacedAsPlanned'
    BY <1>1, <1>4, PlacesPlanned
  <2>10. QED
    BY <1>1, <1>2, <2>2, <2>5, <2>6, <2>7, <2>8, <2>9 DEF Fitting
<1>5. QED
  BY <1>3, <1>4 DEF CommitPlan, ReadsGarbage, EndsAs
\* The head is made as large as the plan, so that all of it lies inside.
LEMMA ReserveFit ==
  ASSUME Types, Matching, PlacedAsPlanned, PlannedNamesOnly, AlignedPlan, Planned, ReserveHead,
         KernelTemps = {}, tail >= maxHead'
  PROVE  Fit'
<1>1. PICK n \in {0} \cup {End(b) : b \in Buffers} : Reaches(n) /\ maxHead' = (IF maxHead < n THEN n ELSE maxHead)
  BY DEF ReserveHead
<1>2. /\ head' = maxHead' /\ tail' = tail /\ infos' = infos
      /\ place' = [m \in DOMAIN place \ (Temps \cup RequestSlots) |-> place[m]]
  BY DEF ReserveHead, ResizeTo, Free, Without
<1>3. \A b \in Buffers : b \in Placed /\ End(b) \in Nat /\ Size(b) \in Nat /\ offsets[b] \in Nat
  BY SizesAreNat DEF Types, PlanInv, PlannerTypeOK, Planned
<1>4. n \in Nat /\ maxHead \in Nat /\ tail \in Int
  BY <1>3 DEF Types, AllocatorTypes, ArenaTypeOK
<1>5. head' \in Nat /\ n <= head' /\ head' <= tail'
  BY <1>1, <1>2, <1>4
<1>6. AlignedOffsets' <=> AlignedOffsets
  BY <1>2 DEF AlignedOffsets
<1>7. ASSUME NEW k \in DOMAIN infos
      PROVE  /\ infos[k].name \in DOMAIN place' /\ place'[infos[k].name].hi <= head'
             /\ AlignedOffsets => Aligned(place'[infos[k].name].lo)
  <2> DEFINE name == infos[k].name
  <2>1. name[1] \in {"tensor", "scratch"} /\ name \in DOMAIN place
    BY DEF PlannedNamesOnly, PlacedAsPlanned
  <2>2. name \notin Temps /\ name \notin RequestSlots
    BY <2>1 DEF Temps, IsTemp, RequestSlots, Request
  <2>3. name \in DOMAIN place' /\ place'[name] = place[name]
    BY <1>2, <2>1, <2>2
  <2>4. PICK b \in Buffers : place[name].lo = offsets[b] /\ place[name].hi = offsets[b] + infos[b].bytes
    BY DEF PlacedAsPlanned
  <2> HIDE DEF name
  <2>5. End(b) <= n
    BY <1>1 DEF Reaches
  <2>6. infos[b].bytes \in Nat /\ Size(b) = AlignUp(infos[b].bytes, BufferAlign)
    <3>1. b \in DOMAIN infos /\ infos[b] \in InfoType /\ requirements[b] = Requirement(infos[b])
      <4>1. infos \in Seq(InfoType) /\ b \in 1 .. bufferCount /\ bufferCount \in Nat
        BY DEF Types, AllocatorTypes, Buffers, PlanInv, PlannerTypeOK
      <4>2. b \in DOMAIN infos /\ requirements[b] = Requirement(infos[b])
        BY <4>1 DEF Matching, Buffers
      <4>3. QED
        BY <4>1, <4>2
    <3>2. requirements[b].size = AlignUp(infos[b].bytes, BufferAlign)
      BY <3>1 DEF Requirement
    <3>3. QED
      BY <3>1, <3>2 DEF InfoType, Size
  <2>7. infos[b].bytes <= Size(b)
    <3> DEFINE p == infos[b].bytes
    <3>1. p \in Int /\ BufferAlign \in Nat \ {0}
      BY <2>6, ArenaAssumption
    <3> HIDE DEF p
    <3>2. p <= AlignUp(p, BufferAlign)
      BY <3>1, AlignBounds
    <3>3. QED
      BY <2>6, <3>2 DEF p
  <2>8. place'[name].hi <= head'
    <3>1. offsets[b] + infos[b].bytes <= offsets[b] + Size(b) /\ End(b) = offsets[b] + Size(b)
      BY <1>3, <2>6, <2>7 DEF End
    <3>2. QED
      BY <1>3, <1>4, <1>5, <2>3, <2>4, <2>5, <2>6, <3>1
  <2>9. AlignedOffsets => Aligned(place'[name].lo)
    <3>1. AlignedOffsets => AlignedNeeds
      BY MatchingAligned
    <3>2. QED
      BY <1>3, <2>3, <2>4, <3>1 DEF AlignedPlan
  <2>10. QED
    BY <2>3, <2>8, <2>9 DEF name
<1>8. QED
  BY <1>2, <1>5, <1>6, <1>7 DEF Fit, Aligned

LEMMA ReserveFitting ==
  ASSUME Types, Reserving, Working, Fitting, ReserveHead, allocated' = allocated
  PROVE  Fitting'
<1>1. /\ todo # <<>> /\ todo[1].do = "reserve" /\ infos' = infos /\ AllocatorTypes /\ planner' = planner
      /\ outcome = "none" /\ ~allocated' /\ PlanLast(todo) /\ Committing
  BY DEF ReserveHead, At, Working, Types, Fitting
<1>2. PlannedNamesOnly' /\ AlignedPlan'
  BY <1>1, SameAligned DEF Fitting, PlannedNamesOnly
<1>3. CASE KernelTemps # {} \/ ~(tail >= maxHead')
  <2>1. todo' = <<>> /\ outcome' = "error"
    BY <1>3 DEF ReserveHead, Refused, EndsAs
  <2>2. QED
    BY <1>1, <1>2, <2>1, EmptyFitting
<1>4. CASE KernelTemps = {} /\ tail >= maxHead'
  <2>1. /\ Tail(todo) = todo' /\ outcome' = outcome
        /\ DOMAIN todo' = 1 .. Len(todo) - 1 /\ Len(todo) \in Nat /\ DOMAIN todo = 1 .. Len(todo)
        /\ \A i \in 1 .. Len(todo) - 1 : Tail(todo)[i] = todo[i + 1]
        /\ 1 \in DOMAIN todo
    BY <1>1, <1>4, TodoFacts DEF ReserveHead, Rest
  <2>2. \A i \in DOMAIN todo' : i \in Nat /\ i >= 1 /\ i + 1 \in DOMAIN todo /\ todo'[i] = todo[i + 1]
    BY <2>1
  <2>3. Planned
    BY <1>1, <2>1 DEF Reserving
  <2>4. \A i \in DOMAIN todo : i > 1 => Trailing(todo[i])
    <3>1. \A i \in DOMAIN todo : i > 1 => todo[i].do # "reserve"
      BY <1>1 DEF Reserving
    <3>2. Deciding(todo[1])
      BY <1>1 DEF Deciding
    <3>3. QED
      BY <1>1, <2>1, <3>1, <3>2 DEF PlanLast
  <2>5. \A i \in DOMAIN todo' : Trailing(todo'[i])
    BY <2>2, <2>4
  <2>6. PlanLast(todo')
    BY <2>5 DEF PlanLast
  <2>7. Committing' /\ ~At("reserve")'
    <3>1. \A i \in DOMAIN todo' : todo'[i].do \notin {"commit", "reserve"}
      BY <2>5 DEF Trailing
    <3>2. todo' # <<>> => 1 \in DOMAIN todo'
      BY <1>1, <2>1, TodoFacts
    <3>3. QED
      BY <3>1, <3>2 DEF Committing, At
  <2>8. Fit'
    BY <1>1, <1>4, <2>3, ReserveFit DEF Fitting, At
  <2>9. QED
    BY <1>2, <2>6, <2>7, <2>8 DEF Fitting
<1>5. QED
  BY <1>3, <1>4

LEMMA AllocationFitting ==
  ASSUME Types, Reserving, Working, Fitting, AllocateTensorsStep
  PROVE  Working' /\ Fitting'
<1>1. AllocationStep /\ UNCHANGED <<phase, allocated, failed, frames>>
  BY DEF AllocateTensorsStep, status
<1>2. PlannedNamesOnly
  BY DEF Fitting
<1>3. Fitting'
  BY <1>1, <1>2, MarkingEarly, LifetimesEarly, PrepareEarly, EarlyFitting, StartFitting, TailFitting, PlanFitting, AddFitting,
     OffsetsFitting, CommitFitting, ReserveFitting, ResetFitting DEF AllocationStep
<1>4. todo # <<>> /\ (outcome' = outcome \/ todo' = <<>>)
  BY <1>1 DEF AllocationStep, At, StartModelAllocation, AllocateTail, AllocateTempTensor, InitScratchBufferData,
       PrepareNode, RequestScratchBufferInArena, FreeTempTensors, FinishPrepareNodeAllocations,
       AllocateScratchBufferHandles, CreateAllocationInfo, InitializeAllocationInfo, MarkInputs, MarkOperator,
       MarkUses, MarkOutputs, Marks, InitMemoryPlanner, AddBuffer, CalculateOffsets, CommitPlan, ReserveHead,
       ResetVariableTensors, ReadsGarbage, Refused, EndsAs, Rest
<1>5. Working'
  BY <1>1, <1>4 DEF Working
<1>6. QED
  BY <1>3, <1>5

LEMMA SameFit ==
  ASSUME UNCHANGED <<head, tail, place, infos>>, Fit
  PROVE  Fit'
BY DEF Fit, AlignedOffsets, Aligned

LEMMA IdleFitting ==
  ASSUME Fitting, todo' = <<>>, UNCHANGED <<head, tail, place, infos, planner>>, outcome' = "ok" \/ allocated' => Fit
  PROVE  Fitting'
<1>1. DOMAIN todo' = {}
  BY DEF Fitting
<1>2. PlanLast(todo') /\ ~Finishing(todo') /\ Committing' /\ ~At("reserve")'
  BY <1>1 DEF PlanLast, Finishing, Committing, At
<1>3. PlannedNamesOnly' /\ AlignedPlan'
  BY SameAligned DEF Fitting, PlannedNamesOnly
<1>4. QED
  BY <1>2, <1>3, SameFit DEF Fitting

LEMMA ClientFitting ==
  ASSUME Working, Fitting, ClientStep
  PROVE  Working' /\ Fitting'
<1>1. todo = <<>> /\ UNCHANGED <<head, tail, place, infos, planner>>
  BY DEF ClientStep, Returned, GetInput, FillInput, Invoke, InvokeSubgraph, ReadOutput, Working, others, allocator,
         arena, book
<1>2. outcome = "ok" \/ allocated => Fit
  BY DEF Fitting
<1>3. CASE Returned
  <2>1. /\ todo' = todo /\ outcome' = "none" /\ allocated' = (outcome = "ok") /\ frames' = frames
        /\ phase \in {"setup", "retry"}
    BY <1>3 DEF Returned
  <2>2. Fitting'
    BY <1>1, <1>2, <2>1, IdleFitting
  <2>3. Working'
    BY <1>1, <2>1 DEF Working
  <2>4. QED
    BY <2>2, <2>3
<1>4. CASE Invoke
  <2>1. phase = "invoke" /\ UNCHANGED <<outcome, allocated, frames>>
    BY <1>4 DEF Invoke
  <2>2. frames = <<>> /\ outcome = "none"
    BY <2>1 DEF Working
  <2>3. CASE todo' = todo
    <3>1. Fitting'
      BY <1>1, <1>2, <2>1, <2>3, IdleFitting
    <3>2. Working'
      BY <1>1, <2>1, <2>2, <2>3 DEF Working
    <3>3. QED
      BY <3>1, <3>2
  <2>4. CASE todo' = <<Step("start")>> /\ ~allocated /\ phase' = "retry"
    <3> DEFINE x == Step("start")
    <3>1. x.do = "start" /\ todo' = <<x>>
      BY <2>4 DEF Step
    <3> HIDE DEF x
    <3>2. todo' # <<>> /\ DOMAIN todo' = {1} /\ todo'[1] = x
      BY <3>1
    <3>3. PlanLast(todo') /\ ~Finishing(todo')
      BY <3>1, <3>2 DEF PlanLast, Finishing, Deciding
    <3>4. Committing' /\ ~At("reserve")'
      BY <3>1, <3>2 DEF Committing, At
    <3>5. PlannedNamesOnly' /\ AlignedPlan'
      BY <1>1, SameAligned DEF Fitting, PlannedNamesOnly
    <3>6. Fitting'
      BY <2>1, <2>2, <2>4, <3>3, <3>4, <3>5 DEF Fitting
    <3>7. Working'
      BY <2>1, <2>2, <2>4, <3>2 DEF Working
    <3>8. QED
      BY <3>6, <3>7
  <2>5. QED
    BY <1>4, <2>3, <2>4 DEF Invoke
<1>5. CASE GetInput \/ FillInput \/ InvokeSubgraph \/ ReadOutput
  <2>1. UNCHANGED <<todo, outcome, allocated>>
    BY <1>5 DEF GetInput, FillInput, InvokeSubgraph, ReadOutput, others, allocator, status
  <2>2. Fitting'
    BY <1>1, <1>2, <2>1, IdleFitting
  <2>3. phase \notin {"setup", "retry"} /\ (frames' = frames \/ (phase = "run" /\ phase' = phase))
    BY <1>5 DEF GetInput, FillInput, InvokeSubgraph, ReadOutput, status
  <2>4. outcome = "none"
    BY <2>3 DEF Working
  <2>5. phase # "run" => frames = <<>>
    BY DEF Working
  <2>6. Working'
    <3>1. frames' # <<>> => phase' = "run"
      BY <1>5, <2>5 DEF GetInput, FillInput, InvokeSubgraph, ReadOutput, status
    <3>2. QED
      BY <1>1, <2>1, <2>4, <3>1 DEF Working
  <2>7. QED
    BY <2>2, <2>6
<1>6. QED
  BY <1>3, <1>4, <1>5 DEF ClientStep

LEMMA InvokeFitting ==
  ASSUME TypeInv, Working, Fitting, InvokeStep
  PROVE  Working' /\ Fitting'
<1>1. /\ frames # <<>> /\ UNCHANGED <<others, allocated>>
      /\ phase' = phase \/ frames' = <<>>
  <2>1. CASE SubgraphEnds
    <3>1. Len(frames) = 1 => Outer = <<>>
      BY DEF Outer, TypeInv, StatusTypes
    <3>2. QED
      BY <2>1, <3>1 DEF SubgraphEnds
  <2>2. CASE ~SubgraphEnds
    BY <2>2 DEF InvokeStep, Kernel, IfStarts, IfEnds, WhileStarts, WhileTests, WhileRepeats, InvokeFails, Running, status
  <2>3. QED
    BY <2>1, <2>2
<1>2. phase = "run" /\ todo = <<>> /\ outcome = "none"
  BY <1>1 DEF Working
<1>3. UNCHANGED <<head, tail, place, infos, planner, todo, outcome, allocated>>
  BY <1>1 DEF others, allocator
<1>4. Fitting'
  BY <1>2, <1>3, IdleFitting DEF Fitting
<1>5. Working'
  BY <1>1, <1>2, <1>3 DEF Working
<1>6. QED
  BY <1>4, <1>5

LEMMA InitFitting == Init => Working /\ Fitting
<1> SUFFICES ASSUME Init PROVE Working /\ Fitting
  OBVIOUS
<1>1. /\ todo = Construct /\ outcome = "none" /\ phase = "setup" /\ allocated = FALSE /\ frames = <<>> /\ infos = <<>>
      /\ PlannerInit
  BY DEF Init, AllocatorInit
<1>2. Working
  BY <1>1 DEF Working
<1> DEFINE a == Persistent(<<"arena", 0, 0>>, SizeOf.SingleArenaBufferAllocator, 1, "undefined")
           b == Persistent(<<"planner", 0, 0>>, SizeOf.GreedyMemoryPlanner, 1, "undefined")
           c == Persistent(<<"allocator", 0, 0>>, SizeOf.MicroAllocator, 1, "undefined")
           d == Step("start")
<1>3. todo = <<a, b, c, d>>
  BY <1>1 DEF Construct
<1>4. a.do = "persistent" /\ b.do = "persistent" /\ c.do = "persistent" /\ d.do = "start"
  BY DEF Persistent, Step
<1> HIDE DEF a, b, c, d
<1>5. DOMAIN todo = 1 .. 4 /\ todo[1] = a /\ todo[2] = b /\ todo[3] = c /\ todo[4] = d
  BY <1>3
<1>6. \A i \in DOMAIN todo : todo[i].do \in {"persistent", "start"}
  BY <1>4, <1>5
<1>7. PlanLast(todo) /\ Committing /\ ~At("reserve")
  BY <1>4, <1>5, <1>6 DEF PlanLast, Deciding, Committing, At
<1>8. ~Finishing(todo)
  BY <1>6 DEF Finishing
<1>9. PlannedNamesOnly
  BY <1>1 DEF PlannedNamesOnly
<1>10. AlignedPlan
  BY <1>1 DEF AlignedPlan, PlannerInit, NoFunction, Placed
<1>11. QED
  BY <1>1, <1>2, <1>7, <1>8, <1>9, <1>10 DEF Fitting

LEMMA NextFitting ==
  ASSUME TypeInv, Reserving, Working, Fitting, [Next]_vars
  PROVE  Working' /\ Fitting'
<1>1. CASE AllocateTensorsStep
  BY <1>1, AllocationFitting DEF TypeInv, Types
<1>2. CASE ClientStep
  BY <1>2, ClientFitting
<1>3. CASE InvokeStep
  BY <1>3, InvokeFitting
<1>4. CASE UNCHANGED vars
  <2>1. /\ UNCHANGED <<todo, outcome, phase, allocated, frames, infos, planner, head, tail, place>>
    BY <1>4 DEF vars, allocator, status, arena
  <2>2. Working'
    BY <2>1 DEF Working
  <2>3. PlanLast(todo') /\ PlannedNamesOnly' /\ AlignedPlan' /\ (Finishing(todo') => Finishing(todo))
    BY <2>1, SameAligned DEF Fitting, PlannedNamesOnly
  <2>4. UNCHANGED <<bufferCount, requirements, offsets>>
    BY <2>1 DEF planner, client
  <2>5. Matching => Matching'
    BY <2>1, <2>4 DEF Matching, Buffers, Requirement
  <2>6. PlacedAsPlanned => PlacedAsPlanned'
    BY <2>1, <2>4 DEF PlacedAsPlanned, Buffers
  <2>7. Committing' /\ (At("reserve")' => At("reserve"))
    BY <2>1, <2>5 DEF Fitting, Committing, At
  <2>8. QED
    BY <2>1, <2>2, <2>3, <2>5, <2>6, <2>7, SameFit DEF Fitting
<1>5. QED
  BY <1>1, <1>2, <1>3, <1>4 DEF Next
-----------------------------------------------------------------------------
(* When no request is refused, every structure stays as it was written.    *)

Structure(n) == n[1] \notin {"tensor", "scratch", "temp", "request"}
Beside(x, y) == x.hi <= y.lo \/ y.hi <= x.lo
\* The plan has been carried out.
Over == Finishing(todo) \/ outcome = "ok" \/ allocated
\* The buffers that do not wait for the head to reach them.
Still == IF At("reserve") THEN DOMAIN place \ PlannedNames ELSE DOMAIN place

StructuresStand ==
  \A m \in DOMAIN place : Structure(m) =>
    place[m].lo >= tail /\ (m \in held \/ (m = Handles /\ ~Over /\ ~At("reserve")))
OutOfTheWay ==
  /\ \A n \in Still : place[n].lo >= tail \/ place[n].hi <= temp
  /\ \A m \in DOMAIN place, n \in Still : Structure(m) /\ m # n => Beside(place[m], place[n])
NamesStand ==
  /\ \A n \in DOMAIN place : n[1] = "request" => n \in RequestSlots
  /\ Over => \A n \in DOMAIN place : n[1] \notin {"temp", "request"}
  /\ ~Over => \A n \in Still : n[1] # "scratch" /\ (IsTensor(n) => place[n].lo >= tail)
HandlesStand ==
  /\ Handles \in DOMAIN place => Past(3) /\ requests # <<>>
  /\ Over \/ At("reserve") => (requests # <<>> => Handles \in DOMAIN place)
ResetPending == todo # <<>> => \E i \in DOMAIN todo : todo[i].do \in {"start", "reset"}
Standing == Layout /\ ResetPending /\ StructuresStand /\ OutOfTheWay /\ NamesStand /\ HandlesStand

\* A step that leaves the stage of the preparation as it is.
Moves ==
  /\ ResetPending' /\ (Past(3) => Past(3)') /\ (Over' <=> Over)
  /\ ~At("reserve") /\ ~At("reserve")'

LEMMA NotOver ==
  ASSUME AllocatorTypes, Working, todo # <<>>, ~Trailing(todo[1])
  PROVE  ~Over
<1>1. 1 \in DOMAIN todo
  BY TodoFacts
<1>2. QED
  BY <1>1 DEF Over, Finishing, Working

LEMMA PastKept ==
  ASSUME AllocatorTypes, NEW items \in Seq(Todo), Advance(items), NEW r \in Nat,
         \A i \in DOMAIN items : Rank(items[i]) > r, Past(r)
  PROVE  Past(r)'
<1> DEFINE n == Len(items)
<1>1. \A i \in DOMAIN todo' : \/ i \in DOMAIN items /\ todo'[i] = items[i]
                              \/ i - n + 1 \in DOMAIN todo /\ todo'[i] = todo[i - n + 1]
  BY Moved
<1> HIDE DEF n
<1>2. QED
  BY <1>1 DEF Past

LEMMA PendingKept ==
  ASSUME AllocatorTypes, ResetPending, NEW items \in Seq(Todo), Advance(items), todo[1].do \notin {"start", "reset"}
  PROVE  ResetPending'
<1> DEFINE n == Len(items)
<1>1. /\ \A i \in DOMAIN todo : i > 1 => i - 1 + n \in DOMAIN todo' /\ todo'[i - 1 + n] = todo[i]
      /\ todo # <<>>
  BY Moved DEF Advance
<1> HIDE DEF n
<1>2. PICK i \in DOMAIN todo : todo[i].do \in {"start", "reset"}
  BY <1>1 DEF ResetPending
<1>3. i > 1
  BY <1>1, <1>2, TodoFacts
<1>4. QED
  BY <1>1, <1>2, <1>3 DEF ResetPending

LEMMA MarkRanks == \A x : x.do \in MarkKinds => Rank(x) = 7
BY DEF Rank, MarkKinds

LEMMA EarlyMoves ==
  ASSUME Types, Reserving, Working, Fitting, ResetPending, Early, allocated' = allocated, outcome' \in {"none", "ok"}
  PROVE  Moves /\ ~Over
<1>1. /\ AllocatorTypes /\ todo # <<>> /\ ~Deciding(todo[1]) /\ ~Trailing(todo[1])
      /\ todo[1].do \notin {"start", "reset", "reserve"}
  BY DEF Types, Early, EarlyKinds, MarkKinds, Deciding, Trailing
<1>2. PICK items : Going(items)
  BY DEF Early, Ending
<1>3. items \in Seq(Todo) /\ OnlyMarks(items) /\ Advance(items) /\ outcome' = outcome
  BY <1>2 DEF Going
<1>4. ResetPending'
  BY <1>1, <1>3, PendingKept
<1>5. Past(3) => Past(3)'
  <2>1. \A i \in DOMAIN items : Rank(items[i]) = 7
    BY <1>3, MarkRanks DEF OnlyMarks
  <2> DEFINE r == 3
  <2>2. r \in Nat /\ \A i \in DOMAIN items : Rank(items[i]) > r
    BY <2>1
  <2> HIDE DEF r
  <2>3. Past(r) => Past(r)'
    BY <1>1, <1>3, <2>2, PastKept
  <2>4. QED
    BY <2>3 DEF r
<1>6. ~Over
  BY <1>1, NotOver
<1>7. ~Over'
  <2>1. Quiet(items)
    BY <1>3, MarksQuiet
  <2>2. Finishing(todo') => Finishing(todo)
    BY <1>1, <1>3, <2>1, QuietMove DEF Fitting
  <2>3. QED
    BY <1>3, <1>6, <2>2 DEF Over
<1>8. ~At("reserve")
  BY <1>1 DEF At
<1>9. ~At("reserve")'
  BY <1>1, <1>3, MarksQuiet, QuietNext DEF Fitting
<1>10. QED
  BY <1>4, <1>5, <1>6, <1>7, <1>8, <1>9 DEF Moves

LEMMA AllPending ==
  ASSUME model \in Models
  PROVE  \E i \in DOMAIN AllocateTensors : AllocateTensors[i].do = "reset"
<1> DEFINE N == Constructed \cup {k \in Name : GivenBy(StartModel \o InitOps, k)}
           in == PersistentTensors(Inputs, "input", model[1].inputs)
           out == PersistentTensors(<<"outputs", 0, 0>>, "output", model[1].outputs)
           x == Step("reset")
           r == <<x>>
           a == StartModel \o InitOps \o PrepareOps \o FinishModel
           e == a \o in \o out
<1>1. StartModel \o InitOps \in Seq(Item) /\ PrepareOps \in Seq(Item) /\ FinishModel \in Seq(Item)
  <2>1. /\ StartModel \o InitOps \in Seq(Item)
        /\ \A s \in Subgraphs : \A o \in DOMAIN Ops(s) : Structures \cup NodeOf(s, o) \subseteq N
    BY GivenBefore
  <2> HIDE DEF N
  <2>2. QED
    BY <2>1, PrepareSegment, FinishSegment
<1>2. in \in Seq(Item) /\ out \in Seq(Item)
  <2>1. "inputs" \in Kinds /\ "input" \in Kinds /\ "outputs" \in Kinds /\ "output" \in Kinds
    BY DEF Kinds
  <2>2. model[1].inputs \in Seq(Nat) /\ model[1].outputs \in Seq(Nat)
    BY ModelFacts
  <2>3. QED
    BY <2>1, <2>2, TensorItems DEF Inputs
<1>3. x \in Item /\ x.do = "reset"
  BY StepItem DEF Step
<1>4. AllocateTensors = e \o r
  BY DEF AllocateTensors, Inputs
<1> HIDE DEF in, out, x
<1>5. e \in Seq(Item)
  BY <1>1, <1>2
<1>6. DOMAIN r = {1} /\ r[1] = x
  OBVIOUS
<1>7. r \in Seq(Item)
  BY <1>3
<1> HIDE DEF e, r
<1>8. \A i \in DOMAIN r : i + Len(e) \in DOMAIN (e \o r) /\ (e \o r)[i + Len(e)] = r[i]
  BY <1>5, <1>7, JoinedRight
<1>9. QED
  BY <1>3, <1>4, <1>6, <1>8

LEMMA StartMoves ==
  ASSUME Types, Working, StartModelAllocation, allocated' = allocated, outcome' \in {"none", "ok"}
  PROVE  Moves
<1> DEFINE l == AllocateTensors
           r == 3
<1>1. /\ AllocatorTypes /\ todo # <<>> /\ todo[1].do = "start" /\ model \in Models
      /\ todo' = l /\ outcome' = outcome /\ 1 \in DOMAIN todo /\ ~Trailing(todo[1])
  <2>1. AllocatorTypes /\ todo # <<>> /\ todo[1].do = "start"
    BY DEF StartModelAllocation, At, Types
  <2>2. QED
    BY <2>1, TodoFacts DEF StartModelAllocation, EndsAs, AllocatorTypes, Trailing
<1>2. l \in Seq(Item) /\ HasPlan(l) /\ \E i \in DOMAIN l : l[i].do = "reset"
  BY <1>1, AllItems, AllLast, AllPending
<1> HIDE DEF l
<1>3. ResetPending'
  BY <1>1, <1>2 DEF ResetPending
<1>4. ~Past(r)
  <2>1. Rank(todo[1]) = 1
    BY <1>1 DEF Rank
  <2>2. ~(Rank(todo[1]) = 0 \/ Rank(todo[1]) > r)
    BY <2>1
  <2> HIDE DEF r
  <2>3. QED
    BY <1>1, <2>2 DEF Past
<1>5. ~Over
  BY <1>1, NotOver
<1>6. ~Over'
  BY <1>1, <1>2, <1>5 DEF Over, Finishing, HasPlan, Trailing
<1>7. ~At("reserve") /\ ~At("reserve")'
  <2>1. 1 \in DOMAIN l
    <3>1. Len(l) \in Nat /\ DOMAIN l = 1 .. Len(l)
      BY <1>2
    <3>2. QED
      BY <1>2, <3>1 DEF HasPlan
  <2>2. \A x \in Item : x.do # "reserve"
    BY DEF Item, PersistentType, TemporaryType, StepType, OpType, MarkType
  <2>3. l[1] \in Item
    BY <1>2, <2>1
  <2>4. QED
    BY <1>1, <2>2, <2>3 DEF At
<1>8. QED
  BY <1>3, <1>4, <1>5, <1>6, <1>7 DEF Moves, r

LEMMA TailMoves ==
  ASSUME Types, Reserving, Working, Fitting, ResetPending, AllocateTail, Rest, allocated' = allocated
  PROVE  Moves
<1> DEFINE none == <<>>
           r == 3
<1>1. AllocatorTypes /\ todo # <<>> /\ todo[1].do = "persistent" /\ 1 \in DOMAIN todo
  BY TodoFacts DEF AllocateTail, At, Types
<1>2. none \in Seq(Todo) /\ Advance(none) /\ DOMAIN none = {} /\ Quiet(none) /\ r \in Nat
  BY <1>1, Popped DEF Rest, Quiet
<1> HIDE DEF none, r
<1>3. ~Deciding(todo[1]) /\ todo[1].do \notin {"start", "reset", "reserve"}
  BY <1>1 DEF Deciding
<1>4. ResetPending'
  BY <1>1, <1>2, <1>3, PendingKept
<1>5. Past(r) => Past(r)'
  BY <1>1, <1>2, PastKept
<1>6. Finishing(todo') => Finishing(todo)
  BY <1>1, <1>2, <1>3, QuietMove DEF Fitting
<1>7. Finishing(todo) => Finishing(todo')
  <2> SUFFICES ASSUME Finishing(todo) PROVE Finishing(todo')
    OBVIOUS
  <2>1. /\ todo' = Tail(todo) /\ DOMAIN todo' = 1 .. Len(todo) - 1 /\ Len(todo) \in Nat /\ DOMAIN todo = 1 .. Len(todo)
        /\ \A i \in 1 .. Len(todo) - 1 : todo'[i] = todo[i + 1]
    BY <1>1, TodoFacts DEF Rest
  <2>2. \A i \in DOMAIN todo' : i + 1 \in DOMAIN todo /\ todo'[i] = todo[i + 1]
    BY <2>1
  <2>3. PICK p \in DOMAIN todo : todo[p].do = "reset"
    BY DEF Finishing
  <2>4. p - 1 \in DOMAIN todo' /\ todo'[p - 1] = todo[p]
    <3>1. p # 1
      BY <1>1, <2>3
    <3>2. p - 1 \in 1 .. Len(todo) - 1 /\ (p - 1) + 1 = p
      BY <2>1, <3>1
    <3>3. QED
      BY <2>1, <3>2
  <2>5. QED
    BY <2>2, <2>3, <2>4 DEF Finishing
<1>8. Over' <=> Over
  BY <1>6, <1>7 DEF Over, Rest
<1>9. ~At("reserve") /\ ~At("reserve")'
  BY <1>1, <1>2, <1>3, QuietNext DEF Fitting, At
<1>10. QED
  BY <1>4, <1>5, <1>8, <1>9 DEF Moves, r

LEMMA PlanMoves ==
  ASSUME Types, Working, ResetPending, InitMemoryPlanner, todo' = PlanSteps \o Tail(todo), outcome' = outcome,
         allocated' = allocated
  PROVE  Moves /\ ~Over
<1> DEFINE items == PlanSteps
           r == 3
<1>1. AllocatorTypes /\ todo # <<>> /\ todo[1].do = "plan" /\ 1 \in DOMAIN todo
  BY TodoFacts DEF InitMemoryPlanner, At, Types
<1>2. /\ items \in Seq(Todo) /\ DOMAIN items = {1, 2} /\ items[1].do = "commit"
      /\ Rank(items[1]) = 9 /\ Rank(items[2]) = 10
      /\ Advance(items)
  BY <1>1, PlanStepsFacts DEF Advance
<1>3. r \in Nat /\ \A i \in DOMAIN items : Rank(items[i]) > r
  BY <1>2
<1> HIDE DEF items, r
<1>4. ResetPending'
  BY <1>1, <1>2, PendingKept
<1>5. Past(r) => Past(r)'
  BY <1>1, <1>2, <1>3, PastKept
<1>6. ~Over
  BY <1>1, NotOver DEF Trailing
<1>7. 1 \in DOMAIN todo' /\ todo'[1].do = "commit"
  BY <1>1, <1>2, Moved
<1>8. ~Over'
  BY <1>6, <1>7 DEF Over, Finishing, Trailing
<1>9. ~At("reserve") /\ ~At("reserve")'
  BY <1>1, <1>7 DEF At
<1>10. QED
  BY <1>4, <1>5, <1>6, <1>8, <1>9 DEF Moves, r

LEMMA SameMoves ==
  ASSUME ResetPending, UNCHANGED <<todo, outcome, allocated>>, ~At("reserve")
  PROVE  Moves
BY DEF Moves, ResetPending, Past, Over, Finishing, At

LEMMA ResetMoves ==
  ASSUME AllocatorTypes, Fitting, At("reset"), EndsAs("ok")
  PROVE  Moves /\ Over
<1>1. 1 \in DOMAIN todo /\ todo[1].do = "reset" /\ todo' = <<>> /\ outcome' = "ok" /\ DOMAIN todo' = {}
  BY TodoFacts DEF At, EndsAs
<1>2. Finishing(todo)
  <2>1. \A i \in DOMAIN todo : ~(i < 1)
    BY <1>1, TodoFacts
  <2>2. QED
    BY <1>1, <2>1 DEF Fitting, PlanLast, Finishing
<1>3. QED
  BY <1>1, <1>2 DEF Moves, ResetPending, Past, Over, At

LEMMA Places ==
  ASSUME ArenaTypeOK
  PROVE  /\ head \in Int /\ tail \in Int /\ temp \in Int /\ held \subseteq DOMAIN place
         /\ \A n \in DOMAIN place : place[n].lo \in Int /\ place[n].hi \in Int
BY DEF ArenaTypeOK

\* What is written lies beside the structures.
LEMMA HeldStays ==
  ASSUME ArenaTypeOK, OutOfTheWay, ~At("reserve"), NEW was, NEW names,
         NEW m \in DOMAIN place, Structure(m), m \in was
  PROVE  m \in HeldAfter(was, names)
<1>1. Still = DOMAIN place
  BY DEF Still
<1>2. ASSUME NEW n \in DOMAIN place, n # m PROVE ~Meet(place[m], place[n])
  <2>1. Beside(place[m], place[n])
    BY <1>1, <1>2 DEF OutOfTheWay
  <2>2. QED
    BY <2>1, Places DEF Beside, Meet
<1>3. QED
  BY <1>2 DEF HeldAfter

LEMMA SameStand ==
  ASSUME Standing, Moves, UNCHANGED <<head, tail, temp, place>>, requests' = requests,
         \A m \in DOMAIN place : Structure(m) /\ m \in held => m \in held'
  PROVE  Standing'
<1>1. Still' = Still
  BY DEF Still, Moves
<1>2. StructuresStand'
  BY DEF Standing, StructuresStand, Moves
<1>3. OutOfTheWay'
  BY <1>1 DEF Standing, OutOfTheWay
<1>4. NamesStand'
  BY <1>1 DEF Standing, NamesStand, Moves, RequestSlots
<1>5. HandlesStand'
  BY DEF Standing, HandlesStand, Moves
<1>6. QED
  BY <1>2, <1>3, <1>4, <1>5 DEF Standing, Layout, Moves

\* A persistent buffer, or the handles, taken below the tail.
LEMMA LowerStand ==
  ASSUME ArenaTypeOK, Standing, Moves, NEW n, Lower(n), requests' = requests,
         n = Handles => ~Over /\ Past(3)' /\ requests # <<>>, n[1] = "handles" => n = Handles
  PROVE  Standing'
<1> DEFINE lo == tail'
           hi == place'[n].hi
           fill == n[1] \notin {"tensor", "handles"}
<1>1. /\ head' = head /\ temp' = temp /\ lo \in Int /\ hi \in Int /\ lo <= tail /\ hi <= tail /\ head <= lo
      /\ Handed(n, lo, hi, fill)
      /\ n[1] \in Kinds \cup {"handles"}
  BY DEF Lower
<1> HIDE DEF hi, fill
<1>2. /\ DOMAIN place' = DOMAIN place \cup {n} /\ place'[n].lo = lo /\ place'[n].hi = hi
      /\ \A m \in DOMAIN place : m # n => place'[m] = place[m]
      /\ fill => n \in held'
      /\ \A m \in held : m # n /\ (place[m].hi <= lo \/ hi <= place[m].lo) => m \in held'
  BY <1>1 DEF Handed
<1>3. Layout' /\ temp <= lo
  <2>1. Layout'
    BY LowerWhole DEF Standing
  <2>2. QED
    BY <1>1, <2>1 DEF Layout
<1>4. Still = DOMAIN place /\ Still' = DOMAIN place' /\ ~At("reserve") /\ ~At("reserve")'
  BY DEF Still, Moves
<1>5. /\ \A m \in DOMAIN place : place[m].lo \in Int /\ place[m].hi \in Int
      /\ tail \in Int /\ temp \in Int
  BY Places
<1>6. StructuresStand'
  <2> SUFFICES ASSUME NEW m \in DOMAIN place', Structure(m)
               PROVE  place'[m].lo >= tail' /\ (m \in held' \/ (m = Handles /\ ~Over'))
    BY <1>4 DEF StructuresStand
  <2>1. CASE m = n
    <3>1. fill \/ n = Handles
      BY <2>1 DEF fill, Structure
    <3>2. place'[n].lo >= tail'
      BY <1>1, <1>2
    <3>3. QED
      BY <1>2, <2>1, <3>1, <3>2 DEF Moves
  <2>2. CASE m # n
    <3>1. m \in DOMAIN place /\ place'[m] = place[m]
      BY <1>2, <2>2
    <3>2. place[m].lo >= tail /\ (m \in held \/ (m = Handles /\ ~Over))
      BY <3>1 DEF Standing, StructuresStand
    <3>3. hi <= place[m].lo /\ place'[m].lo >= tail'
      BY <1>1, <1>5, <3>1, <3>2
    <3>4. m \in held => m \in held'
      BY <1>2, <2>2, <3>3
    <3>5. QED
      BY <3>2, <3>3, <3>4 DEF Moves
  <2>3. QED
    BY <2>1, <2>2
<1>7. OutOfTheWay'
  <2>1. ASSUME NEW m \in DOMAIN place' PROVE place'[m].lo >= tail' \/ place'[m].hi <= temp'
    <3>1. CASE m = n
      BY <1>1, <1>2, <3>1
    <3>2. CASE m # n
      <4>1. m \in DOMAIN place /\ place'[m] = place[m]
        BY <1>2, <3>2
      <4>2. place[m].lo >= tail \/ place[m].hi <= temp
        BY <1>4, <4>1 DEF Standing, OutOfTheWay
      <4>3. QED
        BY <1>1, <1>5, <4>1, <4>2
    <3>3. QED
      BY <3>1, <3>2
  <2>2. ASSUME NEW m \in DOMAIN place', NEW k \in DOMAIN place', Structure(m), m # k
        PROVE  Beside(place'[m], place'[k])
    <3>1. CASE m # n /\ k # n
      <4>1. m \in DOMAIN place /\ place'[m] = place[m] /\ k \in DOMAIN place /\ place'[k] = place[k]
        BY <1>2, <3>1
      <4>2. Beside(place[m], place[k])
        BY <1>4, <2>2, <4>1 DEF Standing, OutOfTheWay
      <4>3. QED
        BY <4>1, <4>2
    <3>2. CASE k = n
      <4>1. m \in DOMAIN place /\ place'[m] = place[m]
        BY <1>2, <2>2, <3>2
      <4>2. place[m].lo >= tail
        BY <2>2, <4>1 DEF Standing, StructuresStand
      <4>3. hi <= place'[m].lo
        BY <1>1, <1>5, <4>1, <4>2
      <4>4. QED
        BY <1>2, <3>2, <4>3 DEF Beside
    <3>3. CASE m = n
      <4>1. k \in DOMAIN place /\ place'[k] = place[k]
        BY <1>2, <2>2, <3>3
      <4>2. place[k].lo >= tail \/ place[k].hi <= temp
        BY <1>4, <4>1 DEF Standing, OutOfTheWay
      <4>3. hi <= place'[k].lo \/ place'[k].hi <= lo
        BY <1>1, <1>3, <1>5, <4>1, <4>2
      <4>4. QED
        BY <1>2, <3>3, <4>3 DEF Beside
    <3>4. QED
      BY <3>1, <3>2, <3>3
  <2>3. QED
    BY <1>4, <2>1, <2>2 DEF OutOfTheWay
<1>8. NamesStand'
  <2>1. n[1] \notin {"request", "temp", "scratch"}
    BY <1>1 DEF Kinds
  <2>2. ASSUME NEW m \in DOMAIN place'
        PROVE  /\ m[1] = "request" => m \in RequestSlots'
               /\ Over' => m[1] \notin {"temp", "request"}
               /\ ~Over' => m[1] # "scratch" /\ (IsTensor(m) => place'[m].lo >= tail')
    <3>1. CASE m = n
      <4>1. place'[n].lo >= tail'
        BY <1>1, <1>2
      <4>2. QED
        BY <2>1, <3>1, <4>1
    <3>2. CASE m # n
      <4>1. m \in DOMAIN place /\ place'[m] = place[m] /\ RequestSlots' = RequestSlots
        BY <1>2, <3>2 DEF RequestSlots
      <4>2. /\ m[1] = "request" => m \in RequestSlots
            /\ Over => m[1] \notin {"temp", "request"}
            /\ ~Over => m[1] # "scratch" /\ (IsTensor(m) => place[m].lo >= tail)
        BY <1>4, <4>1 DEF Standing, NamesStand
      <4>3. place[m].lo >= tail => place'[m].lo >= tail'
        BY <1>1, <1>5, <4>1
      <4>4. Over' <=> Over
        BY DEF Moves
      <4>5. QED
        BY <4>1, <4>2, <4>3, <4>4
    <3>3. QED
      BY <3>1, <3>2
  <2>3. QED
    BY <1>4, <2>2 DEF NamesStand
<1>9. HandlesStand'
  <2>1. Handles \in DOMAIN place' => Past(3)' /\ requests # <<>>
    BY <1>2 DEF Standing, HandlesStand, Moves
  <2>2. Over' => (requests # <<>> => Handles \in DOMAIN place')
    BY <1>2 DEF Standing, HandlesStand, Moves
  <2>3. QED
    BY <1>4, <2>1, <2>2 DEF HandlesStand
<1>10. QED
  BY <1>3, <1>6, <1>7, <1>8, <1>9 DEF Standing, Moves

\* A temporary buffer or a scratch buffer request, between the head and the tail.
LEMMA AboveStand ==
  ASSUME ArenaTypeOK, Standing, Moves, ~Over, NEW n, NEW lo \in Int, NEW hi \in Int, NEW fill, Handed(n, lo, hi, fill),
         n[1] \in {"temp", "request"}, n[1] = "request" => n \in RequestSlots', RequestSlots \subseteq RequestSlots',
         requests # <<>> => requests' # <<>>,
         head' = head, tail' = tail, temp' \in Int, temp <= temp', temp' <= tail, hi <= temp'
  PROVE  Standing'
<1>1. /\ DOMAIN place' = DOMAIN place \cup {n} /\ place'[n].lo = lo /\ place'[n].hi = hi
      /\ \A m \in DOMAIN place : m # n => place'[m] = place[m]
      /\ \A m \in held : m # n /\ (place[m].hi <= lo \/ hi <= place[m].lo) => m \in held'
  BY DEF Handed
<1>2. /\ \A m \in DOMAIN place : place[m].lo \in Int /\ place[m].hi \in Int
      /\ tail \in Int /\ temp \in Int /\ head \in Int
  BY Places
<1>3. Layout'
  BY <1>2 DEF Standing, Layout
<1>4. Still = DOMAIN place /\ Still' = DOMAIN place' /\ ~At("reserve") /\ ~At("reserve")' /\ ~Over'
  BY DEF Still, Moves
<1>5. \A m \in DOMAIN place' : m = n \/ (m # n /\ m \in DOMAIN place /\ place'[m] = place[m])
  BY <1>1
<1>6. ~Structure(n) /\ n # Handles /\ ~IsTensor(n) /\ n[1] # "scratch"
  BY DEF Structure, Handles, IsTensor
<1>7. ASSUME NEW m \in DOMAIN place', Structure(m)
      PROVE  m \in DOMAIN place /\ place'[m] = place[m] /\ place[m].lo >= tail /\ hi <= place[m].lo
             /\ (m \in held \/ m = Handles)
  <2>1. m \in DOMAIN place /\ place'[m] = place[m] /\ place[m].lo >= tail /\ (m \in held \/ m = Handles)
    BY <1>5, <1>6, <1>7 DEF Standing, StructuresStand
  <2>2. QED
    BY <1>2, <2>1
<1>8. StructuresStand'
  BY <1>1, <1>4, <1>6, <1>7 DEF StructuresStand
<1>9. OutOfTheWay'
  <2>1. ASSUME NEW m \in DOMAIN place' PROVE place'[m].lo >= tail' \/ place'[m].hi <= temp'
    <3>1. CASE m = n
      BY <1>1, <3>1
    <3>2. CASE m # n
      <4>1. m \in DOMAIN place /\ place'[m] = place[m]
        BY <1>1, <3>2
      <4>2. place[m].lo >= tail \/ place[m].hi <= temp
        BY <1>4, <4>1 DEF Standing, OutOfTheWay
      <4>3. QED
        BY <1>2, <4>1, <4>2
    <3>3. QED
      BY <3>1, <3>2
  <2>2. ASSUME NEW m \in DOMAIN place', NEW k \in DOMAIN place', Structure(m), m # k
        PROVE  Beside(place'[m], place'[k])
    <3>1. CASE k # n
      <4>1. m \in DOMAIN place /\ place'[m] = place[m] /\ k \in DOMAIN place /\ place'[k] = place[k]
        BY <1>5, <1>7, <2>2, <3>1
      <4>2. Beside(place[m], place[k])
        BY <1>4, <2>2, <4>1 DEF Standing, OutOfTheWay
      <4>3. QED
        BY <4>1, <4>2
    <3>2. CASE k = n
      BY <1>1, <1>7, <2>2, <3>2 DEF Beside
    <3>3. QED
      BY <3>1, <3>2
  <2>3. QED
    BY <1>4, <2>1, <2>2 DEF OutOfTheWay
<1>10. NamesStand'
  <2>1. ASSUME NEW m \in DOMAIN place'
        PROVE  /\ m[1] = "request" => m \in RequestSlots'
               /\ m[1] # "scratch" /\ (IsTensor(m) => place'[m].lo >= tail')
    <3>1. CASE m = n
      BY <1>6, <3>1
    <3>2. CASE m # n
      <4>1. m \in DOMAIN place /\ place'[m] = place[m]
        BY <1>1, <3>2
      <4>2. /\ m[1] = "request" => m \in RequestSlots
            /\ m[1] # "scratch" /\ (IsTensor(m) => place[m].lo >= tail)
        BY <1>4, <4>1 DEF Standing, NamesStand
      <4>3. QED
        BY <4>1, <4>2
    <3>3. QED
      BY <3>1, <3>2
  <2>2. QED
    BY <1>4, <2>1 DEF NamesStand
<1>11. HandlesStand'
  BY <1>4, <1>5, <1>6 DEF Standing, HandlesStand, Moves
<1>12. QED
  BY <1>3, <1>8, <1>9, <1>10, <1>11 DEF Standing, Moves

\* Temporary buffers or requests go, and the head may move.
LEMMA FreedStand ==
  ASSUME ArenaTypeOK, Standing, Moves, ~Over, NEW names,
         DOMAIN place' = DOMAIN place \ names, \A m \in DOMAIN place' : place'[m] = place[m],
         \A m \in held : m \notin names => m \in held', \A m \in names : m[1] \in {"temp", "request"},
         tail' = tail, Layout',
         \A m \in DOMAIN place' : m[1] \in {"temp", "request"} => place[m].lo >= tail \/ place[m].hi <= temp',
         \A m \in DOMAIN place' : m[1] = "request" => m \in RequestSlots',
         Handles \in DOMAIN place => requests' # <<>>
  PROVE  Standing'
<1>1. \A m \in DOMAIN place' : m \in DOMAIN place /\ m \notin names /\ place'[m] = place[m]
  OBVIOUS
<1>2. Still = DOMAIN place /\ Still' = DOMAIN place' /\ ~At("reserve") /\ ~At("reserve")' /\ ~Over'
  BY DEF Still, Moves
<1>3. \A m \in names : ~Structure(m) /\ m # Handles
  BY DEF Structure, Handles
<1>4. StructuresStand'
  BY <1>1, <1>2 DEF Standing, StructuresStand
<1>5. ASSUME NEW m \in DOMAIN place' PROVE place'[m].lo >= tail' \/ place'[m].hi <= temp'
  <2>1. CASE Structure(m)
    BY <1>1, <2>1 DEF Standing, StructuresStand
  <2>2. CASE ~Structure(m)
    BY <1>1, <1>2, <2>2 DEF Standing, NamesStand, Structure, IsTensor
  <2>3. QED
    BY <2>1, <2>2
<1>6. OutOfTheWay'
  <2>1. \A m \in DOMAIN place', k \in DOMAIN place' : Structure(m) /\ m # k => Beside(place'[m], place'[k])
    BY <1>1, <1>2 DEF Standing, OutOfTheWay
  <2>2. QED
    BY <1>2, <1>5, <2>1 DEF OutOfTheWay
<1>7. NamesStand'
  BY <1>1, <1>2 DEF Standing, NamesStand
<1>8. HandlesStand'
  BY <1>1, <1>2 DEF Standing, HandlesStand, Moves
<1>9. QED
  BY <1>4, <1>6, <1>7, <1>8 DEF Standing, Moves

Live == Types /\ Reserving /\ InStages /\ Clean /\ Working /\ Fitting /\ Standing
\* A step whose request is granted and which C++ defines.
Granted == allocated' = allocated /\ outcome' \in {"none", "ok"} /\ ~short'

LEMMA LiveFacts ==
  ASSUME Live
  PROVE  /\ Types /\ Reserving /\ InStages /\ Clean /\ Working /\ Fitting /\ Standing
         /\ AllocatorTypes /\ ArenaTypeOK /\ Layout /\ ResetPending /\ PlannedNamesOnly
         /\ ~At("reserve") => OutOfTheWay /\ Still = DOMAIN place
BY DEF Live, Types, Standing, Fitting, Still

LEMMA StartStand ==
  ASSUME Live, Granted, StartModelAllocation
  PROVE  Standing'
<1>1. Moves
  BY LiveFacts, StartMoves DEF Granted
<1>2. UNCHANGED <<head, tail, temp, place, held, requests>>
  BY DEF StartModelAllocation, arena
<1>3. QED
  BY <1>1, <1>2, LiveFacts, SameStand

LEMMA TailStand ==
  ASSUME Live, Granted, AllocateTail
  PROVE  Standing'
<1> DEFINE n == todo[1].name
           fill == ~IsTensor(n)
<1>1. /\ ArenaTypeOK /\ todo # <<>> /\ todo[1].do = "persistent" /\ todo[1] \in PersistentType
      /\ requests' = requests /\ Standing
  BY LiveFacts, ItemKinds DEF AllocateTail, At, book
<1>2. todo[1].bytes \in Nat /\ todo[1].align \in Nat \ {0} /\ n \in PersistentNames
  BY <1>1 DEF PersistentType
<1>3. n[1] \in Kinds /\ fill \in BOOLEAN
  BY <1>2 DEF PersistentNames
<1>4. AllocatePersistentBuffer(n, todo[1].bytes, todo[1].align, fill) /\ Rest /\ Watch /\ ~short'
  BY DEF AllocateTail, Refused, Granted
<1>5. n[1] # "handles" /\ fill = (n[1] \notin {"tensor", "handles"})
  <2>1. n[1] # "handles"
    BY <1>3 DEF Kinds
  <2>2. QED
    BY <2>1 DEF IsTensor
<1>6. n # Handles
  BY <1>5 DEF Handles
<1> HIDE DEF n, fill
<1>7. Lower(n)
  BY <1>1, <1>2, <1>3, <1>4, <1>5, PersistentLower
<1>8. Moves
  BY <1>4, LiveFacts, TailMoves DEF Granted
<1>9. QED
  BY <1>1, <1>5, <1>6, <1>7, <1>8, LowerStand

LEMMA UpperStand ==
  ASSUME ArenaTypeOK, Standing, Moves, ~Over, NEW n, Upper(n), requests' = requests
  PROVE  Standing'
<1> DEFINE fill == n # Info
           lo == temp
           hi == temp'
<1>1. /\ head' = head /\ tail' = tail /\ temp' \in Int /\ lo \in Int /\ hi \in Int /\ temp <= temp' /\ temp' <= tail
      /\ n[1] = "temp" /\ Handed(n, lo, hi, fill) /\ hi <= temp'
  BY DEF Upper, ArenaTypeOK
<1> HIDE DEF fill, lo, hi
<1>2. RequestSlots' = RequestSlots
  BY DEF RequestSlots
<1>3. n[1] \in {"temp", "request"} /\ n[1] # "request"
  BY <1>1
<1>4. QED
  BY <1>1, <1>2, <1>3, AboveStand

LEMMA TempStand ==
  ASSUME Live, Granted, AllocateTempTensor
  PROVE  Standing'
<1> DEFINE n == todo[1].name
           fill == n # Info
           bytes == todo[1].bytes
<1>1. todo # <<>> /\ todo[1].do = "temp" /\ todo[1] \in TemporaryType /\ requests' = requests /\ ArenaTypeOK /\ Layout /\ Standing
  BY LiveFacts, ItemKinds DEF AllocateTempTensor, At, book
<1>2. bytes \in Nat /\ n \in TemporaryNames
  BY <1>1 DEF TemporaryType
<1>3. n[1] = "temp" /\ n # Info /\ fill \in BOOLEAN
  BY <1>2 DEF TemporaryNames
<1>4. AllocateTemp(n, bytes, 1, TRUE)
  BY DEF AllocateTempTensor, Refused, Granted
<1>5. AllocateTemp(n, bytes, 1, fill)
  BY <1>3, <1>4
<1>6. fill = (n # Info)
  OBVIOUS
<1> HIDE DEF n, fill, bytes
<1>7. Upper(n)
  BY <1>1, <1>2, <1>3, <1>5, <1>6, TempUpper
<1>8. Moves /\ ~Over
  BY LiveFacts, PrepareEarly, EarlyMoves DEF Granted
<1>9. QED
  BY <1>1, <1>7, <1>8, UpperStand

LEMMA InfoTempStand ==
  ASSUME Live, Granted, CreateAllocationInfo
  PROVE  Standing'
<1> DEFINE fill == FALSE
           bytes == InfoBytes
<1>1. requests' = requests /\ ArenaTypeOK /\ Layout /\ Standing
  BY LiveFacts DEF CreateAllocationInfo, book
<1>2. AllocateTemp(Info, bytes, 1, fill)
  BY DEF CreateAllocationInfo, Refused, Granted
<1>3. bytes \in Nat
  BY LiveFacts, InfoBytesNat
<1>4. fill \in BOOLEAN /\ fill = (Info # Info) /\ Info[1] = "temp"
  BY DEF Info
<1> HIDE DEF fill, bytes
<1>5. Upper(Info)
  BY <1>1, <1>2, <1>3, <1>4, TempUpper
<1>6. Moves /\ ~Over
  BY LiveFacts, PrepareEarly, EarlyMoves DEF Granted
<1>7. QED
  BY <1>1, <1>5, <1>6, UpperStand

\* The steps that only read.
LEMMA ReadStand ==
  ASSUME Live, Granted, Early, UNCHANGED <<arena, requests>>
  PROVE  Standing'
<1>1. Moves
  BY LiveFacts, EarlyMoves DEF Granted
<1>2. QED
  BY <1>1, LiveFacts, SameStand DEF arena

LEMMA MarkingStand ==
  ASSUME Live, Granted, PrepareNode \/ MarkInputs \/ MarkOperator \/ MarkUses \/ MarkOutputs
  PROVE  Standing'
<1>1. Early
  BY LiveFacts, PrepareEarly, MarkingEarly
<1>2. UNCHANGED <<arena, requests>>
  BY DEF PrepareNode, MarkInputs, MarkOperator, MarkUses, MarkOutputs, Marks, ReadsGarbage, book, arena
<1>3. QED
  BY <1>1, <1>2, ReadStand

LEMMA LifetimesStand ==
  ASSUME Live, Granted, InitializeAllocationInfo
  PROVE  Standing'
<1> DEFINE names == {Info}
<1>1. Moves
  BY LiveFacts, LifetimesEarly, EarlyMoves DEF Granted
<1>2. /\ held' = HeldAfter(held, names) /\ UNCHANGED <<head, tail, temp, place, requests>>
  BY DEF InitializeAllocationInfo, ReadsGarbage, EndsAs, Granted
<1> HIDE DEF names
<1>3. \A m \in DOMAIN place : Structure(m) /\ m \in held => m \in held'
  BY <1>1, <1>2, LiveFacts, HeldStays DEF Moves
<1>4. QED
  BY <1>1, <1>2, <1>3, LiveFacts, SameStand

LEMMA HandlesLate ==
  ASSUME AllocatorTypes, InStages, Standing, todo # <<>>, Rank(todo[1]) \in {1, 2}
  PROVE  Handles \notin DOMAIN place
<1> DEFINE r == 3
<1>1. r \in Nat /\ r >= 3 /\ Rank(todo[1]) # 0 /\ ~(r < Rank(todo[1]))
  OBVIOUS
<1> HIDE DEF r
<1>2. ~Past(r)
  BY <1>1, PastFront DEF InStages
<1>3. QED
  BY <1>2 DEF Standing, HandlesStand, r

LEMMA RequestsStand ==
  ASSUME Live, Granted, InitScratchBufferData
  PROVE  Standing'
<1> DEFINE bytes == RequestBytes(0)
           names == RequestSlots
           r == 1
<1>1. todo # <<>> /\ Rank(todo[1]) = 1 /\ Rank(todo[1]) \in {1, 2}
  BY DEF InitScratchBufferData, At, Rank
<1>2. /\ bytes <= tail /\ head' = bytes /\ temp' = bytes /\ tail' = tail /\ bytes \in Nat
      /\ Free(names)
  <2>1. ResizeFits(bytes) /\ ResizeTo(bytes) /\ tail' = tail
    BY DEF InitScratchBufferData, Refused, Granted
  <2>2. bytes \in Nat /\ tail \in Int
    BY RequestBytesTypes, LiveFacts, Places
  <2> HIDE DEF bytes
  <2>3. QED
    BY <2>1, <2>2 DEF ResizeFits, ResizeTo, InitScratchBufferData
<1>3. Temps = {}
  <2>1. r \in 1 .. 11 /\ Rank(todo[1]) = r /\ r <= 1
    BY <1>1
  <2> HIDE DEF r
  <2>2. WholeAt(r)
    BY <1>1, <2>1, LiveFacts, FrontWhole
  <2>3. QED
    BY <2>1, <2>2 DEF WholeAt
<1>4. Moves /\ ~Over
  BY LiveFacts, PrepareEarly, EarlyMoves DEF Granted
<1>5. \A m \in names : m[1] \in {"temp", "request"}
  BY DEF RequestSlots, Request
<1> HIDE DEF names, bytes
<1>6. /\ DOMAIN place' = DOMAIN place \ names /\ \A m \in DOMAIN place' : place'[m] = place[m]
      /\ \A m \in held : m \notin names => m \in held'
  BY <1>2 DEF Free, Without
<1>7. Layout'
  BY <1>2 DEF Layout
<1>8. ASSUME NEW m \in DOMAIN place' PROVE m[1] \notin {"temp", "request"}
  <2>1. m \in DOMAIN place /\ m \notin names
    BY <1>6
  <2>2. m[1] # "temp"
    BY <1>3, <2>1 DEF Temps, IsTemp
  <2>3. m[1] # "request"
    BY <2>1, LiveFacts DEF Standing, NamesStand, names
  <2>4. QED
    BY <2>2, <2>3
<1>9. Handles \notin DOMAIN place
  BY <1>1, LiveFacts, HandlesLate
<1>10. QED
  BY <1>2, <1>4, <1>5, <1>6, <1>7, <1>8, <1>9, LiveFacts, FreedStand

LEMMA FreeStand ==
  ASSUME Live, Granted, FreeTempTensors
  PROVE  Standing'
<1> DEFINE names == Temps
<1>1. Moves /\ ~Over
  BY LiveFacts, PrepareEarly, EarlyMoves DEF Granted
<1>2. Free(names) /\ UNCHANGED <<head, tail, temp>> /\ requests' = requests
  BY DEF FreeTempTensors, ReadsGarbage, EndsAs, Granted, book
<1>3. \A m \in names : m[1] \in {"temp", "request"}
  BY DEF Temps, IsTemp
<1> HIDE DEF names
<1>4. /\ DOMAIN place' = DOMAIN place \ names /\ \A m \in DOMAIN place' : place'[m] = place[m]
      /\ \A m \in held : m \notin names => m \in held'
  BY <1>2 DEF Free, Without
<1>5. Layout'
  BY <1>2, LiveFacts DEF Layout
<1>6. ASSUME NEW m \in DOMAIN place'
      PROVE  /\ place[m].lo >= tail \/ place[m].hi <= temp'
             /\ m[1] = "request" => m \in RequestSlots'
  <2>1. m \in Still /\ m \in DOMAIN place
    BY <1>1, <1>4, LiveFacts DEF Moves
  <2>2. QED
    BY <1>1, <1>2, <2>1, LiveFacts DEF Standing, OutOfTheWay, NamesStand, RequestSlots
<1>7. Handles \in DOMAIN place => requests' # <<>>
  BY <1>2, LiveFacts DEF Standing, HandlesStand
<1>8. QED
  BY <1>1, <1>2, <1>3, <1>4, <1>5, <1>6, <1>7, LiveFacts, FreedStand

LEMMA FinishStand ==
  ASSUME Live, Granted, FinishPrepareNodeAllocations
  PROVE  Standing'
<1> DEFINE n == Len(requests)
           bytes == RequestBytes(n)
           S == SizeOf.ScratchBufferRequest
           none == {}
           r == 2
<1>1. todo # <<>> /\ Rank(todo[1]) = 2 /\ Rank(todo[1]) \in {1, 2}
  BY DEF FinishPrepareNodeAllocations, At, Rank
<1>2. Moves /\ ~Over
  BY LiveFacts, PrepareEarly, EarlyMoves DEF Granted
<1>3. Slots
  <2>1. r \in 1 .. 11 /\ Rank(todo[1]) = r /\ r = 2
    BY <1>1
  <2> HIDE DEF r
  <2>2. WholeAt(r)
    BY <1>1, <2>1, LiveFacts, FrontWhole
  <2>3. QED
    BY <2>1, <2>2 DEF WholeAt
<1>4. /\ Temps = {} /\ DOMAIN requests' = DOMAIN requests
      /\ tail >= bytes /\ ResizeTo(bytes) /\ UNCHANGED <<tail, place, held>>
  BY DEF FinishPrepareNodeAllocations, ReadsGarbage, EndsAs, Granted
<1>5. /\ n \in Nat /\ DOMAIN requests = 1 .. n /\ S \in Nat /\ MaxScratch \in Nat /\ bytes \in Nat
      /\ bytes = S * (n + MaxScratch)
  <2>1. n \in Nat /\ DOMAIN requests = 1 .. n
    BY LiveFacts, UnassignedFinite
  <2>2. bytes \in Nat
    BY <2>1, RequestBytesTypes
  <2>3. QED
    BY <2>1, <2>2, SizeFacts DEF RequestBytes
<1>6. head' = bytes /\ temp' = bytes /\ tail \in Int
  BY <1>4, LiveFacts, Places DEF ResizeTo
<1>7. ASSUME NEW k \in 1 .. n PROVE place[Request(k)].hi <= bytes
  <2>1. place[Request(k)] = [lo |-> S * (k - 1), hi |-> S * k]
    BY <1>3, <1>5 DEF Slots
  <2> DEFINE m == n + MaxScratch
  <2>2. k \in Int /\ m \in Int /\ k <= m /\ bytes = S * m
    BY <1>5
  <2> HIDE DEF m, S
  <2>3. S * k <= bytes
    BY <1>5, <2>2, TimesMonotone
  <2>4. QED
    BY <2>1, <2>3
<1> HIDE DEF n, bytes, S
<1>8. Layout'
  BY <1>4, <1>5, <1>6 DEF Layout
<1>9. /\ DOMAIN place' = DOMAIN place \ none /\ \A m \in DOMAIN place' : place'[m] = place[m]
      /\ \A m \in held : m \notin none => m \in held'
      /\ \A m \in none : m[1] \in {"temp", "request"}
  BY <1>4
<1> HIDE DEF none
<1>10. ASSUME NEW m \in DOMAIN place'
       PROVE  /\ m[1] = "request" => m \in RequestSlots' /\ place[m].hi <= temp'
              /\ m[1] # "temp"
  <2>1. m \in DOMAIN place
    BY <1>4
  <2>2. m[1] # "temp"
    BY <1>4, <2>1 DEF Temps, IsTemp
  <2>3. m[1] = "request" => m \in RequestSlots
    BY <2>1, LiveFacts DEF Standing, NamesStand
  <2>4. m \in RequestSlots => m \in RequestSlots' /\ place[m].hi <= temp'
    BY <1>4, <1>5, <1>6, <1>7 DEF RequestSlots
  <2>5. QED
    BY <2>2, <2>3, <2>4
<1>11. Handles \notin DOMAIN place
  BY <1>1, LiveFacts, HandlesLate
<1>12. QED
  BY <1>2, <1>4, <1>8, <1>9, <1>10, <1>11, LiveFacts, FreedStand

LEMMA ScratchStand ==
  ASSUME Live, Granted, RequestScratchBufferInArena
  PROVE  Standing'
<1> DEFINE k == Len(requests) + 1
           lo == SizeOf.ScratchBufferRequest * (k - 1)
           hi == SizeOf.ScratchBufferRequest * k
           n == Request(k)
           fill == TRUE
           x == [bytes |-> todo[1].bytes, subgraph |-> todo[1].subgraph, node |-> 0]
           r == 2
<1>1. todo # <<>> /\ Rank(todo[1]) = 2
  BY DEF RequestScratchBufferInArena, At, Rank
<1>2. Moves /\ ~Over
  BY LiveFacts, PrepareEarly, EarlyMoves DEF Granted
<1>3. Room
  <2>1. r \in 1 .. 11 /\ Rank(todo[1]) = r /\ r = 2
    BY <1>1
  <2> HIDE DEF r
  <2>2. WholeAt(r)
    BY <1>1, <2>1, LiveFacts, FrontWhole
  <2>3. QED
    BY <2>1, <2>2 DEF WholeAt
<1>4. /\ Cardinality(Unassigned) < MaxScratch /\ HandOut(n, lo, hi, fill)
      /\ requests' = Append(requests, x) /\ UNCHANGED <<head, tail, temp>>
  BY DEF RequestScratchBufferInArena, ReadsGarbage, EndsAs, Refused, Granted
<1>5. lo \in Int /\ hi \in Int /\ hi <= head
  BY <1>3, <1>4, LiveFacts, ScratchRoom
<1>6. requests \in Seq(RequestType)
  BY LiveFacts DEF AllocatorTypes
<1>7. fill \in BOOLEAN
  OBVIOUS
<1> HIDE DEF x, lo, hi, fill
<1>8. DOMAIN requests' = DOMAIN requests \cup {k} /\ requests' # <<>>
  BY <1>4, <1>6
<1>9. n[1] = "request" /\ n \in RequestSlots' /\ RequestSlots \subseteq RequestSlots'
  BY <1>8 DEF RequestSlots, Request
<1> HIDE DEF n, k
<1>10. Handed(n, lo, hi, fill)
  BY <1>4, <1>5, <1>7, LiveFacts, HandedOut
<1>11. temp' \in Int /\ temp <= temp' /\ temp' <= tail /\ hi <= temp' /\ head' = head /\ tail' = tail
  <2>1. head \in Int /\ temp \in Int /\ tail \in Int /\ head <= temp /\ temp <= tail
    BY LiveFacts, Places DEF Layout
  <2>2. QED
    BY <1>4, <1>5, <2>1
<1>12. n[1] \in {"temp", "request"}
  BY <1>9
<1>13. QED
  BY <1>2, <1>5, <1>8, <1>9, <1>10, <1>11, <1>12, LiveFacts, AboveStand

LEMMA HandlesGiven ==
  ASSUME Live, Granted, AllocateScratchBufferHandles
  PROVE  Standing'
<1> DEFINE r == 3
           fill == FALSE
           one == 1
           none == <<>>
           bytes == SizeOf.ScratchBufferHandle * Len(requests)
<1>1. Moves /\ ~Over
  BY LiveFacts, PrepareEarly, EarlyMoves DEF Granted
<1>2. requests' = requests /\ ArenaTypeOK /\ AllocatorTypes /\ Standing /\ Ordered(todo) /\ todo # <<>>
  BY LiveFacts DEF AllocateScratchBufferHandles, book, InStages, At
<1>3. CASE UNCHANGED arena
  BY <1>1, <1>2, <1>3, SameStand DEF arena
<1>4. CASE requests # <<>> /\ AllocatePersistentBuffer(Handles, bytes, one, fill) /\ Watch
  <2>1. bytes \in Nat
    <3>1. requests \in Seq(RequestType)
      BY <1>2 DEF AllocatorTypes
    <3>2. QED
      BY <3>1, HandleSizes
  <2>2. fill \in BOOLEAN /\ fill = (Handles[1] \notin {"tensor", "handles"}) /\ Handles[1] \in Kinds \cup {"handles"}
    BY DEF Handles
  <2>3. one \in Nat \ {0} /\ ~short'
    BY DEF Granted
  <2>4. Advance(none) /\ none \in Seq(Todo) /\ DOMAIN none = {}
    BY <1>2, Popped DEF AllocateScratchBufferHandles, Rest
  <2>5. r \in Nat \ {0, 2, 7} /\ Rank(todo[1]) = r
    BY DEF AllocateScratchBufferHandles, At, Rank
  <2> HIDE DEF bytes, fill, one, none, r
  <2>6. Lower(Handles)
    BY <1>2, <1>4, <2>1, <2>2, <2>3, PersistentLower
  <2>7. Past(r)'
    BY <1>2, <2>4, <2>5, PastNow
  <2>8. Past(3)'
    BY <2>7 DEF r
  <2>9. QED
    BY <1>1, <1>2, <1>4, <2>6, <2>8, LowerStand
<1>5. QED
  BY <1>3, <1>4 DEF AllocateScratchBufferHandles, Granted

LEMMA PlanStand ==
  ASSUME Live, Granted, InitMemoryPlanner
  PROVE  Standing'
<1> DEFINE up == AlignUp(temp, BufferAlign)
           down == AlignDown(tail, BufferAlign)
           fill == FALSE
           room == PlannerRoom
<1>1. /\ room >= 0 /\ AllocateTemp(PlannerArena, room, BufferAlign, fill)
      /\ todo' = PlanSteps \o Tail(todo) /\ outcome' = outcome /\ requests' = requests
  BY DEF InitMemoryPlanner, Granted, EndsAs, Refused, PlanSteps, book
<1>2. temp \in Int /\ tail \in Int /\ BufferAlign \in Nat \ {0} /\ ArenaTypeOK /\ Standing
  BY LiveFacts, Places, ArenaAssumption
<1>3. up \in Int /\ temp <= up /\ down \in Int /\ down <= tail /\ room = down - up
  BY <1>2, AlignBounds DEF PlannerRoom
<1>4. temp' = up + room /\ HandOut(PlannerArena, up, temp', fill) /\ head' = head /\ tail' = tail
  BY <1>1 DEF AllocateTemp, TempAt
<1>5. fill \in BOOLEAN
  OBVIOUS
<1> HIDE DEF up, down, fill, room
<1>6. temp' = down /\ temp' \in Int /\ temp <= temp' /\ temp' <= tail
  BY <1>1, <1>2, <1>3, <1>4
<1> DEFINE hi == temp'
<1>7. hi \in Int /\ HandOut(PlannerArena, up, hi, fill) /\ hi <= temp'
  BY <1>4, <1>6
<1> HIDE DEF hi
<1>8. Handed(PlannerArena, up, hi, fill)
  BY <1>2, <1>3, <1>5, <1>7, HandedOut
<1>9. Moves /\ ~Over
  BY <1>1, LiveFacts, PlanMoves DEF Granted
<1>10. RequestSlots' = RequestSlots
  BY <1>1 DEF RequestSlots
<1>11. PlannerArena[1] \in {"temp", "request"} /\ PlannerArena[1] # "request"
  BY DEF PlannerArena
<1>12. QED
  BY <1>1, <1>2, <1>3, <1>4, <1>6, <1>7, <1>8, <1>9, <1>10, <1>11, AboveStand

LEMMA AddStand ==
  ASSUME Live, Granted, AddBuffer
  PROVE  Standing'
<1> DEFINE names == {PlannerArena}
<1>1. /\ held' = HeldAfter(held, names) /\ UNCHANGED <<todo, outcome, allocated>>
      /\ UNCHANGED <<head, tail, temp, place, requests>> /\ ~At("reserve")
  BY DEF AddBuffer, Granted, ReadsGarbage, EndsAs, Refused, book, At
<1> HIDE DEF names
<1>2. Moves
  BY <1>1, LiveFacts, SameMoves
<1>3. \A m \in DOMAIN place : Structure(m) /\ m \in held => m \in held'
  BY <1>1, LiveFacts, HeldStays
<1>4. QED
  BY <1>1, <1>2, <1>3, LiveFacts, SameStand

LEMMA OffsetsStand ==
  ASSUME Live, Granted, CalculateOffsets
  PROVE  Standing'
<1>1. UNCHANGED <<todo, outcome, allocated>> /\ UNCHANGED <<head, tail, temp, place, held, requests>> /\ ~At("reserve")
  BY DEF CalculateOffsets, Granted, book, arena, At
<1>2. Moves
  BY <1>1, LiveFacts, SameMoves
<1>3. QED
  BY <1>1, <1>2, LiveFacts, SameStand

LEMMA ResetStand ==
  ASSUME Live, Granted, ResetVariableTensors
  PROVE  Standing'
<1> DEFINE names == Variables
<1>1. /\ held' = HeldAfter(held, names) /\ EndsAs("ok") /\ At("reset")
      /\ UNCHANGED <<head, tail, temp, place, requests>>
  BY DEF ResetVariableTensors, Granted, EndsAs, book
<1> HIDE DEF names
<1>2. Moves
  BY <1>1, LiveFacts, ResetMoves
<1>3. \A m \in DOMAIN place : Structure(m) /\ m \in held => m \in held'
  BY <1>1, <1>2, LiveFacts, HeldStays DEF Moves
<1>4. QED
  BY <1>1, <1>2, <1>3, LiveFacts, SameStand

LEMMA CommitMoves ==
  ASSUME Live, Granted, CommitPlan, Rest
  PROVE  /\ ResetPending' /\ (Past(3) => Past(3)') /\ ~Over /\ ~Over'
         /\ ~At("reserve") /\ At("reserve")'
<1> DEFINE none == <<>>
           r == 3
<1>1. AllocatorTypes /\ todo # <<>> /\ todo[1].do = "commit" /\ 1 \in DOMAIN todo
  BY LiveFacts, TodoFacts DEF CommitPlan, At
<1>2. none \in Seq(Todo) /\ Advance(none) /\ DOMAIN none = {} /\ r \in Nat
  BY <1>1, Popped DEF Rest
<1> HIDE DEF none, r
<1>3. ResetPending'
  BY <1>1, <1>2, LiveFacts, PendingKept
<1>4. Past(r) => Past(r)'
  BY <1>1, <1>2, PastKept
<1>5. 1 \in DOMAIN todo' /\ todo'[1].do = "reserve"
  <2>1. 2 \in DOMAIN todo /\ todo[2].do = "reserve"
    BY <1>1, LiveFacts DEF Fitting, Committing
  <2>2. todo' = Tail(todo) /\ DOMAIN Tail(todo) = 1 .. Len(todo) - 1 /\ Len(todo) \in Nat /\ DOMAIN todo = 1 .. Len(todo)
        /\ \A i \in 1 .. Len(todo) - 1 : Tail(todo)[i] = todo[i + 1]
    BY <1>1, TodoFacts DEF Rest
  <2>3. 1 \in 1 .. Len(todo) - 1
    BY <2>1, <2>2
  <2>4. QED
    BY <2>1, <2>2, <2>3
<1>6. ~Over
  BY <1>1, LiveFacts, NotOver DEF Trailing
<1>7. ~Over'
  BY <1>5, <1>6 DEF Over, Finishing, Trailing, Rest, Granted
<1>8. At("reserve")' /\ ~At("reserve")
  BY <1>1, <1>5 DEF At
<1>9. QED
  BY <1>3, <1>4, <1>6, <1>7, <1>8 DEF r

LEMMA CommitStand ==
  ASSUME Live, Granted, CommitPlan
  PROVE  Standing'
<1> DEFINE names == Evals
           planned == PlannedNames
<1>1. /\ Rest /\ names \subseteq DOMAIN place /\ held' = HeldAfter(held, names) \ planned
      /\ DOMAIN place' = planned \cup DOMAIN place
      /\ \A n \in DOMAIN place : n \notin planned => place'[n] = place[n]
      /\ UNCHANGED <<head, tail, temp, requests, infos>>
  BY DEF CommitPlan, ReadsGarbage, EndsAs, Granted, book
<1>2. /\ ResetPending' /\ (Past(3) => Past(3)') /\ ~Over /\ ~Over'
      /\ ~At("reserve") /\ At("reserve")'
  BY <1>1, CommitMoves
<1>3. ArenaTypeOK /\ Standing /\ OutOfTheWay /\ Still = DOMAIN place
  BY <1>2, LiveFacts
<1>4. \A n \in planned : n[1] \in {"tensor", "scratch"}
  BY LiveFacts DEF PlannedNamesOnly, PlannedNames
<1>5. Still' = DOMAIN place' \ planned
  BY <1>1, <1>2 DEF Still, PlannedNames
<1>6. requests # <<>> => Handles \in names
  BY DEF Evals
<1> HIDE DEF names, planned
<1>7. \A n \in Still' : n \in DOMAIN place /\ n \notin planned /\ place'[n] = place[n]
  BY <1>1, <1>5
<1>8. \A n \in DOMAIN place' : n[1] \notin {"tensor", "scratch"} => n \in Still'
  BY <1>4, <1>5
<1>9. ASSUME NEW m \in DOMAIN place', Structure(m)
      PROVE  place'[m].lo >= tail' /\ m \in held'
  <2>1. m \in DOMAIN place /\ m \notin planned /\ place'[m] = place[m]
    BY <1>7, <1>8, <1>9 DEF Structure
  <2>2. place[m].lo >= tail /\ (m \in held \/ m = Handles)
    BY <1>9, <1>3, <2>1 DEF Standing, StructuresStand
  <2>3. m \in HeldAfter(held, names)
    <3>1. CASE m \in held
      BY <1>2, <1>3, <1>9, <2>1, <3>1, HeldStays
    <3>2. CASE m = Handles
      <4> DEFINE was == held \cup {Handles}
      <4>1. m \in was
        BY <3>2
      <4>2. m \in names
        BY <1>3, <1>6, <2>1, <3>2 DEF Standing, HandlesStand
      <4> HIDE DEF was
      <4>3. m \in HeldAfter(was, names)
        BY <1>2, <1>3, <1>9, <2>1, <4>1, HeldStays
      <4>4. QED
        BY <2>1, <4>2, <4>3 DEF HeldAfter
    <3>3. QED
      BY <2>2, <3>1, <3>2
  <2>4. QED
    BY <1>1, <2>1, <2>2, <2>3
<1>10. StructuresStand'
  BY <1>9 DEF StructuresStand
<1>11. OutOfTheWay'
  <2>1. \A n \in Still' : place'[n].lo >= tail' \/ place'[n].hi <= temp'
    BY <1>1, <1>3, <1>7 DEF OutOfTheWay
  <2>2. \A m \in DOMAIN place', n \in Still' : Structure(m) /\ m # n => Beside(place'[m], place'[n])
    BY <1>3, <1>7, <1>8 DEF OutOfTheWay, Structure
  <2>3. QED
    BY <2>1, <2>2 DEF OutOfTheWay
<1>12. NamesStand'
  <2>1. ASSUME NEW n \in DOMAIN place', n[1] = "request" PROVE n \in RequestSlots'
    <3>1. n \in DOMAIN place
      BY <1>7, <1>8, <2>1
    <3>2. QED
      BY <1>1, <1>3, <2>1, <3>1 DEF Standing, NamesStand, RequestSlots
  <2>2. \A n \in Still' : n[1] # "scratch" /\ (IsTensor(n) => place'[n].lo >= tail')
    BY <1>1, <1>2, <1>3, <1>7 DEF Standing, NamesStand
  <2>3. QED
    BY <1>2, <2>1, <2>2 DEF NamesStand
<1>13. HandlesStand'
  <2>1. Handles \in DOMAIN place' => Handles \in DOMAIN place
    BY <1>7, <1>8 DEF Handles
  <2>2. requests # <<>> => Handles \in DOMAIN place'
    BY <1>1, <1>6
  <2>3. QED
    BY <1>1, <1>2, <1>3, <2>1, <2>2 DEF Standing, HandlesStand
<1>14. Layout'
  BY <1>1, <1>3 DEF Standing, Layout
<1>15. QED
  BY <1>2, <1>10, <1>11, <1>12, <1>13, <1>14 DEF Standing

LEMMA ReserveMoves ==
  ASSUME Live, ReserveHead, Rest
  PROVE  /\ ResetPending' /\ (Past(3) => Past(3)') /\ ~Over /\ Over'
         /\ At("reserve") /\ ~At("reserve")'
<1> DEFINE none == <<>>
           r == 3
<1>1. AllocatorTypes /\ todo # <<>> /\ todo[1].do = "reserve" /\ 1 \in DOMAIN todo
  BY LiveFacts, TodoFacts DEF ReserveHead, At
<1>2. none \in Seq(Todo) /\ Advance(none) /\ DOMAIN none = {} /\ r \in Nat
  BY <1>1, Popped DEF Rest
<1> HIDE DEF none, r
<1>3. ResetPending'
  BY <1>1, <1>2, LiveFacts, PendingKept
<1>4. Past(r) => Past(r)'
  BY <1>1, <1>2, PastKept
<1>5. ~Over
  BY <1>1, LiveFacts, NotOver DEF Trailing
<1>6. /\ todo' = Tail(todo) /\ DOMAIN todo' = 1 .. Len(todo) - 1 /\ Len(todo) \in Nat /\ DOMAIN todo = 1 .. Len(todo)
      /\ \A i \in 1 .. Len(todo) - 1 : todo'[i] = todo[i + 1]
  BY <1>1, TodoFacts DEF Rest
<1>7. \A i \in DOMAIN todo : i > 1 => Trailing(todo[i])
  <2>1. \A i \in DOMAIN todo : i > 1 => todo[i].do # "reserve"
    BY <1>1, LiveFacts DEF Reserving
  <2>2. Deciding(todo[1])
    BY <1>1 DEF Deciding
  <2>3. QED
    BY <1>1, <2>1, <2>2, LiveFacts DEF PlanLast, Fitting
<1>8. \A i \in DOMAIN todo' : Trailing(todo'[i])
  <2>1. \A i \in DOMAIN todo' : i \in Nat /\ i >= 1 /\ i + 1 \in DOMAIN todo /\ todo'[i] = todo[i + 1]
    BY <1>6
  <2>2. QED
    BY <1>7, <2>1
<1>9. \E i \in DOMAIN todo' : todo'[i].do = "reset"
  <2>1. PICK i \in DOMAIN todo : todo[i].do \in {"start", "reset"}
    BY <1>1, LiveFacts DEF ResetPending
  <2>2. i # 1
    BY <1>1, <2>1
  <2>3. i > 1 /\ i - 1 \in 1 .. Len(todo) - 1 /\ (i - 1) + 1 = i
    BY <1>6, <2>1, <2>2
  <2>4. i - 1 \in DOMAIN todo' /\ todo'[i - 1] = todo[i]
    BY <1>6, <2>3
  <2>5. todo[i].do = "reset"
    BY <1>7, <2>1, <2>3 DEF Trailing
  <2>6. QED
    BY <2>4, <2>5
<1>10. Over'
  BY <1>8, <1>9 DEF Over, Finishing
<1>11. ~At("reserve")'
  <2>1. todo' # <<>> => 1 \in DOMAIN todo'
    BY <1>6
  <2>2. QED
    BY <1>8, <2>1 DEF At, Trailing
<1>12. At("reserve")
  BY <1>1 DEF At
<1>13. QED
  BY <1>3, <1>4, <1>5, <1>10, <1>11, <1>12 DEF r

LEMMA ReserveStand ==
  ASSUME Live, Granted, ReserveHead
  PROVE  Standing'
<1> DEFINE names == Temps \cup RequestSlots
<1>1. /\ Rest /\ tail >= maxHead' /\ head' = maxHead' /\ temp' = maxHead' /\ UNCHANGED <<tail, requests, infos>>
      /\ DOMAIN place' = DOMAIN place \ names /\ \A n \in DOMAIN place' : place'[n] = place[n]
      /\ held' = held \ names
  BY DEF ReserveHead, Refused, Granted, ResizeTo, Free, Without
<1>2. \A n \in names : n[1] \in {"temp", "request"}
  BY DEF Temps, IsTemp, RequestSlots, Request
<1>3. \A n \in DOMAIN place : n[1] = "temp" \/ n \in RequestSlots => n \in names
  BY DEF Temps, IsTemp
<1> HIDE DEF names
<1>4. ResetPending' /\ (Past(3) => Past(3)') /\ ~Over /\ Over' /\ At("reserve") /\ ~At("reserve")'
  BY <1>1, ReserveMoves
<1>5. Fit'
  BY <1>4, LiveFacts, ReserveFitting DEF Granted, Fitting, Over
<1>6. ArenaTypeOK /\ Standing
  BY LiveFacts
<1>7. Still = DOMAIN place \ PlannedNames /\ Still' = DOMAIN place'
  BY <1>4 DEF Still
<1>8. head' \in Int /\ temp' = head' /\ tail' = tail /\ tail \in Int /\ head' <= tail
  <2>1. AllocationStep
    BY DEF AllocationStep
  <2>2. ArenaTypeOK'
    BY <2>1, LiveFacts, AllocationKeeps DEF Types
  <2>3. head' \in Int
    BY <2>2 DEF ArenaTypeOK
  <2>4. QED
    BY <1>1, <1>5, <1>6, <2>3, Places DEF Fit
<1>9. \A n \in DOMAIN place' : n \in DOMAIN place /\ n \notin names /\ place'[n] = place[n]
                               /\ place[n].lo \in Int /\ place[n].hi \in Int
  BY <1>1, <1>6, Places
<1>10. ASSUME NEW n \in DOMAIN place' PROVE n[1] \notin {"temp", "request"}
  BY <1>3, <1>6, <1>9 DEF Standing, NamesStand
<1>11. ASSUME NEW n \in DOMAIN place', n \in PlannedNames PROVE place[n].hi <= head'
  <2>1. PICK k \in DOMAIN infos : n = infos[k].name
    BY <1>11 DEF PlannedNames
  <2>2. QED
    BY <1>1, <1>5, <1>9, <2>1 DEF Fit
<1>12. ASSUME NEW n \in DOMAIN place', n \notin PlannedNames PROVE n \in Still /\ place[n].lo >= tail
  <2>1. n \in Still
    BY <1>7, <1>9, <1>12
  <2>2. n[1] # "scratch" /\ (IsTensor(n) => place[n].lo >= tail)
    BY <1>4, <1>6, <2>1 DEF Standing, NamesStand
  <2>3. CASE Structure(n)
    BY <1>6, <1>9, <2>1, <2>3 DEF Standing, StructuresStand
  <2>4. CASE ~Structure(n)
    <3>1. n[1] \notin {"temp", "request"}
      BY <1>10, <1>12
    <3>2. n[1] = "tensor"
      BY <2>2, <2>4, <3>1 DEF Structure
    <3>3. QED
      BY <2>1, <2>2, <3>2 DEF IsTensor
  <2>5. QED
    BY <2>1, <2>3, <2>4
<1>13. \A n \in DOMAIN place' : Structure(n) => n \notin PlannedNames
  BY LiveFacts DEF PlannedNames, PlannedNamesOnly, Structure
<1>14. StructuresStand'
  <2>1. ASSUME NEW m \in DOMAIN place', Structure(m) PROVE place'[m].lo >= tail' /\ m \in held'
    BY <1>1, <1>4, <1>6, <1>9, <2>1 DEF Standing, StructuresStand
  <2>2. QED
    BY <2>1 DEF StructuresStand
<1>15. OutOfTheWay'
  <2>1. \A n \in DOMAIN place' : place'[n].lo >= tail' \/ place'[n].hi <= temp'
    BY <1>8, <1>9, <1>11, <1>12
  <2>2. ASSUME NEW m \in DOMAIN place', NEW n \in DOMAIN place', Structure(m), m # n
        PROVE  Beside(place'[m], place'[n])
    <3>1. CASE n \in PlannedNames
      BY <1>8, <1>9, <1>11, <1>12, <1>13, <2>2, <3>1 DEF Beside
    <3>2. CASE n \notin PlannedNames
      BY <1>6, <1>9, <1>12, <2>2, <3>2 DEF Standing, OutOfTheWay
    <3>3. QED
      BY <3>1, <3>2
  <2>3. QED
    BY <1>7, <2>1, <2>2 DEF OutOfTheWay
<1>16. NamesStand'
  BY <1>4, <1>10 DEF NamesStand
<1>17. HandlesStand'
  <2>1. Handles \notin names
    BY <1>2 DEF Handles
  <2>2. QED
    BY <1>1, <1>4, <1>6, <2>1 DEF Standing, HandlesStand
<1>18. Layout'
  BY <1>8 DEF Layout
<1>19. QED
  BY <1>4, <1>14, <1>15, <1>16, <1>17, <1>18 DEF Standing

LEMMA AllocationStand ==
  ASSUME Live, Granted, AllocationStep
  PROVE  Standing'
<1>1. CASE StartModelAllocation \/ AllocateTail \/ AllocateTempTensor \/ CreateAllocationInfo
  BY <1>1, StartStand, TailStand, TempStand, InfoTempStand
<1>2. CASE InitScratchBufferData \/ RequestScratchBufferInArena \/ FreeTempTensors
           \/ FinishPrepareNodeAllocations \/ AllocateScratchBufferHandles
  BY <1>2, RequestsStand, ScratchStand, FreeStand, FinishStand, HandlesGiven
<1>3. CASE PrepareNode \/ MarkInputs \/ MarkOperator \/ MarkUses \/ MarkOutputs \/ InitializeAllocationInfo
  BY <1>3, MarkingStand, LifetimesStand
<1>4. CASE InitMemoryPlanner \/ AddBuffer \/ CalculateOffsets \/ CommitPlan \/ ReserveHead \/ ResetVariableTensors
  BY <1>4, PlanStand, AddStand, OffsetsStand, CommitStand, ReserveStand, ResetStand
<1>5. QED
  BY <1>1, <1>2, <1>3, <1>4 DEF AllocationStep

-----------------------------------------------------------------------------
(* Invocations write only the planned buffers and the variable tensors.    *)

Guarded == ArenaTypeOK /\ OutOfTheWay /\ ~At("reserve")
Spared(m) == IsMemory(m) /\ \A k \in DOMAIN place : Structure(k) /\ k \in held => k \in m.held

LEMMA MemorySpared ==
  ASSUME Guarded
  PROVE  Spared(Memory)
BY MemoryNow DEF Guarded, Spared, Memory

LEMMA ReadingSpared ==
  ASSUME NEW m, Spared(m), NEW names
  PROVE  Spared(Reading(m, names))
<1>1. IsMemory(Reading(m, names)) /\ IsMemory(m)
  BY ReadingKeeps DEF Spared
<1>2. Reading(m, names).held = m.held
  BY <1>1 DEF Reading, IsMemory
<1>3. QED
  BY <1>1, <1>2 DEF Spared

LEMMA WritingSpared ==
  ASSUME Guarded, NEW m, Spared(m), NEW names
  PROVE  Spared(Writing(m, names))
<1>1. IsMemory(Writing(m, names)) /\ IsMemory(m)
  BY WritingKeeps DEF Spared
<1>2. Writing(m, names).held = HeldAfter(m.held, names)
  BY <1>1 DEF Writing, IsMemory
<1> DEFINE was == m.held
<1>3. ASSUME NEW k \in DOMAIN place, Structure(k), k \in held PROVE k \in Writing(m, names).held
  <2>1. k \in was
    BY <1>3 DEF Spared
  <2> HIDE DEF was
  <2>2. k \in HeldAfter(was, names)
    BY <1>3, <2>1, HeldStays DEF Guarded
  <2>3. QED
    BY <1>2, <2>2 DEF was
<1>4. QED
  BY <1>1, <1>3 DEF Spared

LEMMA CopyingSpared ==
  ASSUME Guarded, NEW m, Spared(m), NEW from, NEW to
  PROVE  Spared(Copying(m, from, to))
BY ReadingSpared, WritingSpared DEF Copying

LEMMA InvokeSpares ==
  ASSUME Guarded, InvokeStep
  PROVE  \A k \in DOMAIN place : Structure(k) /\ k \in held => k \in held'
<1>1. Spared(Memory)
  BY MemorySpared
<1>2. ASSUME NEW m, Spared(m), Becomes(m) PROVE \A k \in DOMAIN place : Structure(k) /\ k \in held => k \in held'
  BY <1>2 DEF Spared, Becomes
<1>3. CASE Kernel
  BY <1>1, <1>2, <1>3, ReadingSpared, WritingSpared DEF Kernel
<1>4. CASE IfStarts
  BY <1>1, <1>2, <1>4, ReadingSpared, CopyingSpared DEF IfStarts
<1>5. CASE IfEnds
  BY <1>1, <1>2, <1>5, CopyingSpared DEF IfEnds
<1>6. CASE WhileStarts
  BY <1>1, <1>2, <1>6, CopyingSpared DEF WhileStarts
<1>7. CASE WhileTests
  <2> DEFINE m == Reading(Memory, {OutputsOf(Op.calls[1])[1]})
             n == IF Top.stage = "first" THEN Copying(Copying(m, In, InputsOf(Op.calls[2])), In, Out) ELSE m
  <2>1. Spared(m)
    BY <1>1, ReadingSpared
  <2>2. Spared(n) /\ Spared(Copying(n, Out, InputsOf(Op.calls[2])))
    BY <2>1, CopyingSpared
  <2>3. Becomes(n) \/ Becomes(Copying(n, Out, InputsOf(Op.calls[2])))
    BY <1>7 DEF WhileTests
  <2> HIDE DEF m, n
  <2>4. QED
    BY <1>2, <2>2, <2>3
<1>8. CASE WhileRepeats
  BY <1>1, <1>2, <1>8, CopyingSpared DEF WhileRepeats
<1>9. CASE UNCHANGED memory
  BY <1>9 DEF memory
<1>10. QED
  BY <1>3, <1>4, <1>5, <1>6, <1>7, <1>8, <1>9 DEF InvokeStep, SubgraphEnds, InvokeFails

LEMMA ClientSpares ==
  ASSUME Guarded, ClientStep
  PROVE  \A k \in DOMAIN place : Structure(k) /\ k \in held => k \in held'
<1>1. CASE FillInput
  <2> DEFINE names == Range(InputsOf(1))
  <2>1. held' = HeldAfter(held, names)
    BY <1>1 DEF FillInput
  <2> HIDE DEF names
  <2>2. QED
    BY <2>1, HeldStays DEF Guarded
<1>2. CASE ReadOutput
  <2> DEFINE m == Reading(Memory, {OutputsOf(1)[1]})
  <2>1. Spared(m) /\ Becomes(m)
    BY <1>2, MemorySpared, ReadingSpared DEF ReadOutput
  <2> HIDE DEF m
  <2>2. QED
    BY <2>1 DEF Spared, Becomes
<1>3. CASE held' = held
  BY <1>3
<1>4. QED
  BY <1>1, <1>2, <1>3 DEF ClientStep, Returned, GetInput, Invoke, InvokeSubgraph, arena, memory

LEMMA IdleStand ==
  ASSUME Standing, todo = <<>>, UNCHANGED <<head, tail, temp, place, todo, requests>>, Over' <=> Over,
         \A k \in DOMAIN place : Structure(k) /\ k \in held => k \in held'
  PROVE  Standing'
<1>1. todo' = <<>> /\ DOMAIN todo' = {}
  OBVIOUS
<1>2. Moves
  BY <1>1 DEF Moves, ResetPending, Past, At
<1>3. QED
  BY <1>2, SameStand

LEMMA Idle ==
  ASSUME TypeInv, Standing, todo = <<>>
  PROVE  Guarded
BY DEF Guarded, TypeInv, Standing, At

LEMMA ClientStand ==
  ASSUME TypeInv, Working, Sound, Standing, ClientStep
  PROVE  Standing'
<1>1. todo = <<>> /\ UNCHANGED <<head, tail, temp, place, requests>>
  BY DEF ClientStep, Returned, GetInput, FillInput, Invoke, InvokeSubgraph, ReadOutput, Working, others, allocator,
         arena, book
<1>2. \A k \in DOMAIN place : Structure(k) /\ k \in held => k \in held'
  BY <1>1, Idle, ClientSpares
<1>3. todo' = todo /\ (Over' <=> Over)
  <2>1. CASE Returned
    <3>1. outcome = "ok"
      BY <2>1 DEF Returned, Sound, Clean, Ended
    <3>2. allocated' = TRUE /\ todo' = todo
      BY <2>1, <3>1 DEF Returned
    <3>3. QED
      BY <3>1, <3>2 DEF Over
  <2>2. CASE Invoke
    <3>1. allocated
      BY <2>2 DEF Invoke, Sound, Prepared
    <3>2. UNCHANGED <<todo, outcome, allocated>>
      BY <2>2, <3>1 DEF Invoke
    <3>3. QED
      BY <3>2 DEF Over, Finishing
  <2>3. CASE GetInput \/ FillInput \/ InvokeSubgraph \/ ReadOutput
    <3>1. UNCHANGED <<todo, outcome, allocated>>
      BY <2>3 DEF GetInput, FillInput, InvokeSubgraph, ReadOutput, others, allocator, status
    <3>2. QED
      BY <3>1 DEF Over, Finishing
  <2>4. QED
    BY <2>1, <2>2, <2>3 DEF ClientStep
<1>4. QED
  BY <1>1, <1>2, <1>3, IdleStand

LEMMA InvokeStand ==
  ASSUME TypeInv, Working, Standing, InvokeStep
  PROVE  Standing'
<1>1. frames # <<>> /\ UNCHANGED <<others, allocated>>
  BY DEF InvokeStep, Kernel, IfStarts, IfEnds, WhileStarts, WhileTests, WhileRepeats, SubgraphEnds, InvokeFails,
       Running, status
<1>2. todo = <<>> /\ UNCHANGED <<head, tail, temp, place, todo, requests, outcome>>
  BY <1>1 DEF Working, others, allocator
<1>3. \A k \in DOMAIN place : Structure(k) /\ k \in held => k \in held'
  BY <1>2, Idle, InvokeSpares
<1>4. Over' <=> Over
  BY <1>1, <1>2 DEF Over, Finishing
<1>5. QED
  BY <1>2, <1>3, <1>4, IdleStand

LEMMA InitStanding == Init => Standing
<1> SUFFICES ASSUME Init PROVE Standing
  OBVIOUS
<1>1. /\ todo = Construct /\ requests = <<>> /\ head = 0 /\ temp = 0 /\ tail = size /\ size \in Nat
      /\ DOMAIN place = {Behind} /\ place[Behind].lo = size /\ held = {Behind}
  BY ArenaAssumption DEF Init, AllocatorInit, ArenaInit
<1>2. Behind[1] = "behind" /\ Behind # Handles
  BY DEF Behind, Handles
<1>3. ResetPending
  <2> DEFINE a == Persistent(<<"arena", 0, 0>>, SizeOf.SingleArenaBufferAllocator, 1, "undefined")
             b == Persistent(<<"planner", 0, 0>>, SizeOf.GreedyMemoryPlanner, 1, "undefined")
             c == Persistent(<<"allocator", 0, 0>>, SizeOf.MicroAllocator, 1, "undefined")
             d == Step("start")
  <2>1. todo = <<a, b, c, d>>
    BY <1>1 DEF Construct
  <2>2. d.do = "start"
    BY DEF Step
  <2> HIDE DEF a, b, c, d
  <2>3. 4 \in DOMAIN todo /\ todo[4] = d
    BY <2>1
  <2>4. QED
    BY <2>2, <2>3 DEF ResetPending
<1>4. StructuresStand
  BY <1>1 DEF StructuresStand
<1>5. Still \subseteq {Behind}
  BY <1>1 DEF Still
<1>6. OutOfTheWay
  BY <1>1, <1>5 DEF OutOfTheWay
<1>7. NamesStand
  BY <1>1, <1>2, <1>5 DEF NamesStand, IsTensor
<1>8. HandlesStand
  BY <1>1, <1>2 DEF HandlesStand
<1>9. Layout
  BY <1>1 DEF Layout
<1>10. QED
  BY <1>3, <1>4, <1>6, <1>7, <1>8, <1>9 DEF Standing

Stands == short \/ (outcome = "undefined" /\ ~allocated) \/ Standing

LEMMA NextStands ==
  ASSUME TypeInv, Reserving, Working, Fitting, short \/ Sound, short' \/ Sound', Stands, [Next]_vars
  PROVE  Stands'
<1> SUFFICES ASSUME ~short' PROVE (outcome = "undefined" /\ ~allocated)' \/ Standing'
  BY DEF Stands
<1>1. ~short
  <2>1. CASE AllocateTensorsStep
    BY <2>1, ShortStays DEF AllocateTensorsStep
  <2>2. CASE ClientStep
    BY <2>2 DEF ClientStep, Returned, GetInput, FillInput, Invoke, InvokeSubgraph, ReadOutput, others, allocator
  <2>3. CASE InvokeStep
    BY <2>3 DEF InvokeStep, Kernel, IfStarts, IfEnds, WhileStarts, WhileTests, WhileRepeats, SubgraphEnds,
         InvokeFails, others, allocator
  <2>4. CASE UNCHANGED vars
    BY <2>4 DEF vars, allocator
  <2>5. QED
    BY <2>1, <2>2, <2>3, <2>4 DEF Next
<1>2. Sound /\ Sound'
  BY <1>1
<1>3. CASE UNCHANGED vars
  <2>1. UNCHANGED <<head, tail, temp, place, held, todo, outcome, requests, infos, allocated>>
    BY <1>3 DEF vars, allocator, status, arena
  <2>2. (At("reserve")' <=> At("reserve")) /\ (Over' <=> Over) /\ (Past(3)' <=> Past(3)) /\ Still' = Still
    BY <2>1 DEF At, Over, Finishing, Past, Still, PlannedNames
  <2>3. Standing => StructuresStand' /\ OutOfTheWay' /\ NamesStand'
    BY <2>1, <2>2 DEF Standing, StructuresStand, OutOfTheWay, NamesStand, RequestSlots
  <2>4. Standing => HandlesStand' /\ ResetPending' /\ Layout'
    BY <2>1, <2>2 DEF Standing, HandlesStand, ResetPending, Layout
  <2>5. QED
    BY <1>1, <2>1, <2>3, <2>4 DEF Stands, Standing
<1>4. CASE AllocateTensorsStep
  <2>1. AllocationStep /\ allocated' = allocated /\ todo # <<>> /\ (outcome' = outcome \/ todo' = <<>>)
    BY <1>4 DEF AllocateTensorsStep, status, AllocationStep, At, StartModelAllocation, AllocateTail, AllocateTempTensor,
         InitScratchBufferData, PrepareNode, RequestScratchBufferInArena, FreeTempTensors, FinishPrepareNodeAllocations,
         AllocateScratchBufferHandles, CreateAllocationInfo, InitializeAllocationInfo, MarkInputs, MarkOperator,
         MarkUses, MarkOutputs, Marks, InitMemoryPlanner, AddBuffer, CalculateOffsets, CommitPlan, ReserveHead,
         ResetVariableTensors, ReadsGarbage, Refused, EndsAs, Rest
  <2>2. outcome = "none" /\ ~allocated
    BY <2>1 DEF Working
  <2>3. CASE outcome' = "undefined"
    BY <2>1, <2>2, <2>3
  <2>4. CASE outcome' # "undefined"
    <3>1. Granted
      BY <1>2, <2>1, <2>4 DEF Granted, Sound, Clean, Ended
    <3>2. Live
      BY <1>1, <1>2, <2>2 DEF Live, Stands, Sound, TypeInv, Types
    <3>3. QED
      BY <2>1, <3>1, <3>2, AllocationStand
  <2>5. QED
    BY <2>3, <2>4
<1>5. CASE outcome = "undefined" /\ (ClientStep \/ InvokeStep)
  <2>1. phase \in {"setup", "retry"} /\ frames = <<>>
    BY <1>5 DEF Working
  <2>2. QED
    BY <1>5, <2>1 DEF ClientStep, Returned, GetInput, FillInput, Invoke, InvokeSubgraph, ReadOutput,
         InvokeStep, Kernel, IfStarts, IfEnds, WhileStarts, WhileTests, WhileRepeats, SubgraphEnds, InvokeFails, Running
<1>6. CASE outcome # "undefined" /\ ClientStep
  BY <1>1, <1>2, <1>6, ClientStand DEF Stands
<1>7. CASE outcome # "undefined" /\ InvokeStep
  BY <1>1, <1>7, InvokeStand DEF Stands
<1>8. QED
  BY <1>3, <1>4, <1>5, <1>6, <1>7 DEF Next

LEMMA WholeAtLast ==
  ASSUME Working, Fitting, short \/ Sound, Stands
  PROVE  AllocatedIsWhole
<1> SUFFICES ASSUME allocated PROVE AllocatedIsWhole
  BY DEF AllocatedIsWhole
<1>1. Fit
  BY DEF Fitting
<1>2. /\ head <= tail
      /\ \A k \in DOMAIN infos :
           place[infos[k].name].hi <= head /\ (AlignedOffsets => place[infos[k].name].lo % BufferAlign = 0)
  BY <1>1 DEF Fit, Aligned
<1>3. ASSUME ~short
      PROVE  /\ {n \in DOMAIN place : n[1] \notin {"tensor", "scratch"}} \subseteq held
             /\ requests # <<>> => Handles \in held
  <2>1. Standing /\ Over
    BY <1>3 DEF Stands, Over
  <2>2. \A n \in DOMAIN place : n[1] \notin {"temp", "request"}
    BY <2>1 DEF Standing, NamesStand
  <2>3. \A n \in DOMAIN place : Structure(n) => n \in held
    BY <2>1 DEF Standing, StructuresStand
  <2>4. {n \in DOMAIN place : n[1] \notin {"tensor", "scratch"}} \subseteq held
    BY <2>2, <2>3 DEF Structure
  <2>5. Handles \in DOMAIN place => Handles \in held
    BY <2>3 DEF Structure, Handles
  <2>6. requests # <<>> => Handles \in DOMAIN place
    BY <2>1 DEF Standing, HandlesStand
  <2>7. QED
    BY <2>4, <2>5, <2>6
<1>4. QED
  BY <1>2, <1>3 DEF AllocatedIsWhole

(* When AllocateTensors has succeeded the head and the tail are apart and  *)
(* every planned buffer lies inside the head, aligned if the given offsets *)
(* are; and unless the arena was short, every structure in the tail, the   *)
(* nodes, the tensors' descriptions, what the kernels keep and the handles *)
(* of their scratch buffers, is still as it was written, whatever the      *)
(* kernels asked for while they were prepared and whatever ran since.      *)
THEOREM AllocatedStaysWhole == Spec => []AllocatedIsWhole
<1> DEFINE Inv == TypeInv /\ Reserving /\ Working /\ Fitting /\ (short \/ Sound) /\ Stands
<1>1. Init => Inv
  BY InitTypes, InitReserving, InitFitting, InitSound, InitStanding DEF Stands
<1>2. Inv /\ [Next]_vars => Inv'
  <2> SUFFICES ASSUME Inv, [Next]_vars PROVE Inv'
    OBVIOUS
  <2>1. TypeInv' /\ Reserving'
    BY NextTypes
  <2>2. Working' /\ Fitting'
    BY NextFitting
  <2>3. short' \/ Sound'
    BY NextSound
  <2>4. Stands'
    BY <2>3, NextStands
  <2>5. QED
    BY <2>1, <2>2, <2>3, <2>4
<1>3. Inv => AllocatedIsWhole
  BY WholeAtLast
<1> HIDE DEF Inv
<1>4. QED
  BY <1>1, <1>2, <1>3, PTL DEF Spec

-----------------------------------------------------------------------------
(* The lifetimes, as a record of the marking: every subgraph was visited   *)
(* in an interval of the scopes, and so were, inside it and one after the  *)
(* other, its operators and within them the subgraphs that they call.      *)

OutNames(s, o) == Range(Named(s, Ops(s)[o].outputs)) \cup ScratchNames(s, o)
UseNames(s, o) == Range(Named(s, Ops(s)[o].inputs \o Ops(s)[o].outputs)) \cup ScratchNames(s, o)
InputNames(s) == Range(Named(s, model[s].inputs))
OutputNames(s) == Range(Named(s, model[s].outputs))

BornBy(names, t) == \A j \in DOMAIN infos : infos[j].name \in names => infos[j].first # -1 /\ infos[j].first <= t
LastsTo(names, t) == \A j \in DOMAIN infos : infos[j].name \in names => t <= infos[j].last

VisitType == [sub: Subgraphs, lo: Int, hi: Int, at: [Nat -> Int], till: [Nat -> Int]]
Within(G, s, a, b) == \E g \in G : g.sub = s /\ a <= g.lo /\ g.hi <= b
OpTimed(v, o) ==
  /\ v.lo <= v.at[o] /\ v.at[o] <= v.till[o]
  /\ BornBy(OutNames(v.sub, o), v.at[o]) /\ LastsTo(UseNames(v.sub, o), v.till[o])
OpVisited(v, o, G) ==
  /\ OpTimed(v, o)
  /\ \A c \in DOMAIN Ops(v.sub)[o].calls : Within(G, Ops(v.sub)[o].calls[c], v.at[o], v.till[o])
  /\ \A p \in 1 .. o - 1 : v.till[p] <= v.at[o]
Begun(v) == BornBy(InputNames(v.sub), v.lo) /\ LastsTo(InputNames(v.sub), v.lo)
Visited(v, n, G) == Begun(v) /\ \A o \in 1 .. n : OpVisited(v, o, G)
Finished(v) ==
  /\ v.lo <= v.hi /\ \A o \in DOMAIN Ops(v.sub) : v.till[o] <= v.hi
  /\ BornBy(OutputNames(v.sub), v.hi) /\ LastsTo(OutputNames(v.sub), v.hi)
Complete(G) ==
  /\ G \subseteq VisitType
  /\ \A g \in G : Visited(g, Len(Ops(g.sub)), G) /\ Finished(g)

\* What a step of the marking does to the lifetimes: it may begin and prolong one.
Prolonged ==
  /\ model' = model /\ requests' = requests
  /\ infos \in Seq(InfoType) /\ infos' \in Seq(InfoType) /\ DOMAIN infos' = DOMAIN infos
  /\ \A j \in DOMAIN infos :
       /\ infos'[j].name = infos[j].name
       /\ infos[j].first # -1 => infos'[j].first = infos[j].first
       /\ infos[j].last <= infos'[j].last

LEMMA ProlongedNames ==
  ASSUME model' = model, requests' = requests
  PROVE  /\ Subgraphs' = Subgraphs /\ VisitType' = VisitType
         /\ \A s : /\ Ops(s)' = Ops(s) /\ InputNames(s)' = InputNames(s) /\ OutputNames(s)' = OutputNames(s)
                   /\ \A o : OutNames(s, o)' = OutNames(s, o) /\ UseNames(s, o)' = UseNames(s, o)
<1>1. Subgraphs' = Subgraphs /\ \A s : Ops(s)' = Ops(s)
  BY DEF Subgraphs, Ops
<1>2. VisitType' = VisitType
  BY <1>1 DEF VisitType
<1>3. \A s, o : ScratchNames(s, o)' = ScratchNames(s, o)
  BY DEF ScratchNames, ScratchOf
<1>4. \A s : InputNames(s)' = InputNames(s) /\ OutputNames(s)' = OutputNames(s)
  BY DEF InputNames, OutputNames
<1>5. \A s, o : OutNames(s, o)' = OutNames(s, o) /\ UseNames(s, o)' = UseNames(s, o)
  BY <1>1, <1>3 DEF OutNames, UseNames
<1>6. QED
  BY <1>1, <1>2, <1>4, <1>5

LEMMA InfoTimes ==
  \A l \in Seq(InfoType) : \A j \in DOMAIN l : l[j].first \in Int /\ l[j].last \in Int /\ l[j].bytes \in Nat
<1>1. \A i \in InfoType : i.first \in Int /\ i.last \in Int /\ i.bytes \in Nat
  BY DEF InfoType
<1>2. QED
  BY <1>1

LEMMA ProlongedVisit ==
  ASSUME Prolonged, model \in Models, NEW v \in VisitType, NEW G, NEW H, G \subseteq H
  PROVE  /\ Begun(v) => Begun(v)'
         /\ Finished(v) => Finished(v)'
         /\ \A o \in Nat : OpTimed(v, o) => OpTimed(v, o)'
         /\ \A o \in Nat : OpVisited(v, o, G) => OpVisited(v, o, H)'
         /\ \A n \in Nat : Visited(v, n, G) => Visited(v, n, H)'
<1>1. /\ v.lo \in Int /\ v.hi \in Int /\ v.sub \in Subgraphs
      /\ \A o \in Nat : v.at[o] \in Int /\ v.till[o] \in Int
  BY DEF VisitType
<1>2. \A s : /\ Ops(s)' = Ops(s) /\ InputNames(s)' = InputNames(s) /\ OutputNames(s)' = OutputNames(s)
             /\ \A o : OutNames(s, o)' = OutNames(s, o) /\ UseNames(s, o)' = UseNames(s, o)
  BY ProlongedNames DEF Prolonged
<1>3. \A j \in DOMAIN infos' :
        /\ j \in DOMAIN infos /\ infos[j].name = infos'[j].name
        /\ infos[j].first # -1 => infos'[j].first = infos[j].first
        /\ infos[j].last \in Int /\ infos'[j].last \in Int /\ infos[j].last <= infos'[j].last
  BY InfoTimes DEF Prolonged
<1>4. Begun(v) => Begun(v)'
  BY <1>1, <1>2, <1>3 DEF Begun, BornBy, LastsTo
<1>5. Finished(v) => Finished(v)'
  BY <1>1, <1>2, <1>3 DEF Finished, BornBy, LastsTo
<1>6. ASSUME NEW o \in Nat, OpTimed(v, o) PROVE OpTimed(v, o)'
  BY <1>1, <1>2, <1>3, <1>6 DEF OpTimed, BornBy, LastsTo
<1>7. ASSUME NEW o \in Nat, OpVisited(v, o, G) PROVE OpVisited(v, o, H)'
  <2>1. OpTimed(v, o)'
    BY <1>6, <1>7 DEF OpVisited
  <2>2. \A c \in DOMAIN Ops(v.sub)[o].calls : Within(H, Ops(v.sub)[o].calls[c], v.at[o], v.till[o])
    BY <1>7 DEF OpVisited, Within
  <2>3. QED
    BY <1>2, <1>7, <2>1, <2>2 DEF OpVisited, Within
<1>8. ASSUME NEW n \in Nat, Visited(v, n, G) PROVE Visited(v, n, H)'
  <2>1. \A o \in 1 .. n : o \in Nat
    OBVIOUS
  <2>2. QED
    BY <1>4, <1>7, <1>8, <2>1 DEF Visited
<1>9. QED
  BY <1>4, <1>5, <1>6, <1>7, <1>8

LEMMA ProlongedComplete ==
  ASSUME Prolonged, model \in Models, NEW G, Complete(G)
  PROVE  Complete(G)'
<1>1. VisitType' = VisitType /\ \A s : Ops(s)' = Ops(s)
  BY ProlongedNames DEF Prolonged
<1>2. \A g \in G : g \in VisitType /\ Visited(g, Len(Ops(g.sub)), G) /\ Finished(g)
  BY DEF Complete
<1>3. \A g \in G : Len(Ops(g.sub)) \in Nat
  BY <1>2, ModelFacts DEF VisitType
<1>4. \A g \in G : Visited(g, Len(Ops(g.sub)), G)' /\ Finished(g)'
  <2> TAKE g \in G
  <2> DEFINE n == Len(Ops(g.sub))
  <2>0. n \in Nat /\ Visited(g, n, G)
    BY <1>2, <1>3
  <2>2. n' = n
    BY <1>1
  <2>3. Finished(g)'
    BY <1>2, ProlongedVisit
  <2> HIDE DEF n
  <2>1. \A m \in Nat : Visited(g, m, G) => Visited(g, m, G)'
    BY <1>2, ProlongedVisit
  <2>4. Visited(g, n, G)'
    BY <2>0, <2>1, <2>2 DEF Visited
  <2>5. QED
    BY <2>3, <2>4 DEF n
<1>5. QED
  BY <1>1, <1>2, <1>4 DEF Complete

\* Times that the marking has reached.
Reaching(now) == \A j \in DOMAIN infos : infos[j].first <= now /\ infos[j].last <= now

LEMMA CreatedProlongs ==
  ASSUME infos \in Seq(InfoType), NEW names, NEW now \in Int, Reaching(now), 0 <= now,
         NEW c, c = Created(infos, names, now)
  PROVE  /\ c \in Seq(InfoType) /\ DOMAIN c = DOMAIN infos
         /\ \A j \in DOMAIN infos :
              /\ c[j].name = infos[j].name /\ c[j].last = infos[j].last
              /\ infos[j].first # -1 => c[j].first = infos[j].first
              /\ c[j].first <= now
              /\ infos[j].name \in names => c[j].first # -1
<1>1. DOMAIN c = DOMAIN infos
  BY DEF Created
<1>2. ASSUME NEW j \in DOMAIN infos
      PROVE  /\ c[j].name = infos[j].name /\ c[j].last = infos[j].last
             /\ infos[j].first # -1 => c[j].first = infos[j].first
             /\ c[j].first <= now
             /\ infos[j].name \in names => c[j].first # -1
  <2>1. infos[j] \in InfoType /\ infos[j].first <= now
    BY DEF Reaching
  <2>2. c[j] = IF infos[j].name \in names /\ infos[j].first = -1 THEN [infos[j] EXCEPT !.first = now] ELSE infos[j]
    BY DEF Created
  <2>3. CASE infos[j].name \in names /\ infos[j].first = -1
    BY <2>1, <2>2, <2>3 DEF InfoType
  <2>4. CASE ~(infos[j].name \in names /\ infos[j].first = -1)
    BY <2>1, <2>2, <2>4
  <2>5. QED
    BY <2>3, <2>4
<1>3. c \in Seq(InfoType)
  BY MarkedTypes
<1>4. QED
  BY <1>1, <1>2, <1>3

LEMMA UsedProlongs ==
  ASSUME NEW all \in Seq(InfoType), NEW names, NEW now \in Int, \A j \in DOMAIN all : all[j].last <= now,
         NEW u, u = Used(all, names, now)
  PROVE  /\ u \in Seq(InfoType) /\ DOMAIN u = DOMAIN all
         /\ \A j \in DOMAIN all :
              /\ u[j].name = all[j].name /\ u[j].first = all[j].first
              /\ all[j].last <= u[j].last /\ u[j].last <= now
              /\ all[j].name \in names => u[j].last = now
<1>1. DOMAIN u = DOMAIN all
  BY DEF Used
<1>2. ASSUME NEW j \in DOMAIN all
      PROVE  /\ u[j].name = all[j].name /\ u[j].first = all[j].first
             /\ all[j].last <= u[j].last /\ u[j].last <= now
             /\ all[j].name \in names => u[j].last = now
  <2>1. all[j] \in InfoType /\ all[j].last <= now /\ all[j].last \in Int
    BY InfoTimes
  <2>2. u[j] = IF all[j].name \in names THEN [all[j] EXCEPT !.last = now] ELSE all[j]
    BY DEF Used
  <2>3. CASE all[j].name \in names
    BY <2>1, <2>2, <2>3 DEF InfoType
  <2>4. CASE all[j].name \notin names
    BY <2>1, <2>2, <2>4
  <2>5. QED
    BY <2>3, <2>4
<1>3. u \in Seq(InfoType)
  BY MarkedTypes
<1>4. QED
  BY <1>1, <1>2, <1>3

(* The steps of the marking begin and prolong lives at the time it is.     *)
LEMMA MarkingProlongs ==
  ASSUME infos \in Seq(InfoType), NEW names, NEW now \in Int, Reaching(now), 0 <= now,
         model' = model, requests' = requests
  PROVE  /\ infos' = Created(infos, names, now) => Prolonged /\ Reaching(now)' /\ BornBy(names, now)'
         /\ infos' = Used(infos, names, now) => Prolonged /\ Reaching(now)' /\ LastsTo(names, now)'
         /\ infos' = Used(Created(infos, names, now), names, now) =>
              Prolonged /\ Reaching(now)' /\ BornBy(names, now)' /\ LastsTo(names, now)'
<1>1. \A j \in DOMAIN infos : infos[j].last <= now /\ infos[j].first <= now
  BY DEF Reaching
<1>2. ASSUME infos' = Created(infos, names, now) PROVE Prolonged /\ Reaching(now)' /\ BornBy(names, now)'
  <2> DEFINE c == infos'
  <2>1. c = Created(infos, names, now)
    BY <1>2
  <2>2. /\ c \in Seq(InfoType) /\ DOMAIN c = DOMAIN infos
        /\ \A j \in DOMAIN infos :
             /\ c[j].name = infos[j].name /\ c[j].last = infos[j].last
             /\ infos[j].first # -1 => c[j].first = infos[j].first
             /\ c[j].first <= now
             /\ infos[j].name \in names => c[j].first # -1
    BY <2>1, CreatedProlongs
  <2>3. \A j \in DOMAIN infos : infos[j].last \in Int
    BY InfoTimes
  <2>4. QED
    BY <1>1, <2>2, <2>3 DEF Prolonged, Reaching, BornBy
<1>3. ASSUME infos' = Used(infos, names, now) PROVE Prolonged /\ Reaching(now)' /\ LastsTo(names, now)'
  <2> DEFINE c == infos'
  <2>1. c = Used(infos, names, now)
    BY <1>3
  <2>2. /\ c \in Seq(InfoType) /\ DOMAIN c = DOMAIN infos
        /\ \A j \in DOMAIN infos :
              /\ c[j].name = infos[j].name /\ c[j].first = infos[j].first
              /\ infos[j].last <= c[j].last /\ c[j].last <= now
              /\ infos[j].name \in names => c[j].last = now
    BY <1>1, <2>1, UsedProlongs
  <2>3. QED
    BY <1>1, <2>2 DEF Prolonged, Reaching, LastsTo
<1>4. ASSUME infos' = Used(Created(infos, names, now), names, now)
      PROVE  Prolonged /\ Reaching(now)' /\ BornBy(names, now)' /\ LastsTo(names, now)'
  <2> DEFINE c == Created(infos, names, now)
             u == infos'
  <2>1. u = Used(c, names, now)
    BY <1>4
  <2>2. /\ c \in Seq(InfoType) /\ DOMAIN c = DOMAIN infos
        /\ \A j \in DOMAIN infos :
             /\ c[j].name = infos[j].name /\ c[j].last = infos[j].last
             /\ infos[j].first # -1 => c[j].first = infos[j].first
             /\ c[j].first <= now
             /\ infos[j].name \in names => c[j].first # -1
    BY CreatedProlongs
  <2> HIDE DEF c
  <2>3. \A j \in DOMAIN c : c[j].last <= now
    BY <1>1, <2>2
  <2>4. /\ u \in Seq(InfoType) /\ DOMAIN u = DOMAIN c
        /\ \A j \in DOMAIN c :
              /\ u[j].name = c[j].name /\ u[j].first = c[j].first
              /\ c[j].last <= u[j].last /\ u[j].last <= now
              /\ c[j].name \in names => u[j].last = now
    BY <2>1, <2>2, <2>3, UsedProlongs
  <2>5. QED
    BY <1>1, <2>2, <2>4 DEF Prolonged, Reaching, BornBy, LastsTo
<1>5. QED
  BY <1>2, <1>3, <1>4

\* The list while subgraphs are visited: item d counted from its end.
From(d) == todo[Len(todo) + 1 - d]

\* A visit that is not over yet: the depth of its last item, how many of its
\* operators are done, whether the next one is begun and how many of the calls
\* of that are.
OpenType == [visit: VisitType, depth: Nat \ {0}, done: Nat, busy: BOOLEAN, kids: Nat]
OpCount(x) == Len(Ops(x.visit.sub))
CallsOf(x) == Ops(x.visit.sub)[x.done + 1].calls
OpDepth(x) == x.depth + OpCount(x) - x.done
Slot(x, c) == OpDepth(x) + Len(CallsOf(x)) - c + 1

\* What is left of it on the list.
Remains(x) ==
  /\ x.done <= OpCount(x)
  /\ From(x.depth) = OpStep("outputs", x.visit.sub, 0, 0)
  /\ \A o \in x.done + 1 .. OpCount(x) :
       From(x.depth + OpCount(x) - o + 1) =
         OpStep(IF x.busy /\ o = x.done + 1 THEN "used" ELSE "op", x.visit.sub, o, 0)
  /\ x.busy => /\ x.done < OpCount(x) /\ x.kids <= Len(CallsOf(x))
               /\ \A c \in x.kids + 1 .. Len(CallsOf(x)) : From(Slot(x, c)) = Mark(CallsOf(x)[c], 1)

\* What is known of it, when the first calls of its operator are over.
OpBegun(v, o, calls, G) ==
  /\ v.lo <= v.at[o] /\ v.at[o] <= scope /\ BornBy(OutNames(v.sub, o), v.at[o])
  /\ \A p \in 1 .. o - 1 : v.till[p] <= v.at[o]
  /\ \A c \in 1 .. calls : Within(G, Ops(v.sub)[o].calls[c], v.at[o], scope)
Known(x, calls, G) ==
  /\ Visited(x.visit, x.done, G)
  /\ x.visit.lo <= scope /\ \A o \in 1 .. x.done : x.visit.till[o] <= scope
  /\ x.busy => OpBegun(x.visit, x.done + 1, calls, G)

Calling(x, y) ==
  /\ x.busy /\ x.kids > 0
  /\ y.depth = Slot(x, x.kids) /\ y.visit.sub = CallsOf(x)[x.kids]
  /\ x.visit.at[x.done + 1] <= y.visit.lo
Leading(x) == Len(todo) = IF x.busy THEN Slot(x, x.kids + 1) ELSE OpDepth(x)

Below(base) == base < Len(todo) /\ \A d \in 1 .. base : Deciding(From(d)) \/ Trailing(From(d))
Walk(base, n, W, G) ==
  /\ Complete(G) /\ Below(base)
  /\ scope >= 0 /\ Reaching(scope) /\ \A g \in G : g.hi <= scope
  /\ IF n = 0 THEN Len(todo) = base + 1 /\ From(base + 1) = Mark(1, 0)
     ELSE W[1].depth = base + 1 /\ W[1].visit.sub = 1 /\ Leading(W[n])
  /\ \A k \in 1 .. n : W[k] \in OpenType /\ Remains(W[k]) /\ Known(W[k], IF k = n THEN W[k].kids ELSE W[k].kids - 1, G)
  /\ \A j, k \in 1 .. n : j < k => W[j].depth < W[k].depth
  /\ \A k \in 1 .. n : k < n => Calling(W[k], W[k + 1])
Walking == \E base \in Nat, n \in Nat : \E W, G : Walk(base, n, W, G)

LEMMA PushFrom ==
  ASSUME AllocatorTypes, NEW items \in Seq(Todo), Advance(items)
  PROVE  /\ Len(todo') = Len(todo) - 1 + Len(items)
         /\ Len(todo) \in Nat \ {0} /\ Len(items) \in Nat
         /\ todo[1] = From(Len(todo))
         /\ \A d \in 1 .. Len(todo) - 1 : From(d)' = From(d)
         /\ \A d \in Len(todo) .. Len(todo) + Len(items) - 1 : From(d)' = items[Len(items) + Len(todo) - d]
<1> DEFINE n == Len(items)
           L == Len(todo)
<1>1. todo # <<>>
  BY DEF Advance
<1>2. L \in Nat \ {0} /\ DOMAIN todo = 1 .. L
  BY <1>1, TodoFacts
<1>3. /\ n \in Nat /\ DOMAIN items = 1 .. n /\ DOMAIN todo' = 1 .. n + (L - 1)
      /\ \A i \in DOMAIN items : todo'[i] = items[i]
      /\ \A i \in DOMAIN todo : i > 1 => todo'[i - 1 + n] = todo[i]
  BY Moved
<1>4. Len(todo') = L - 1 + n
  <2>1. todo' \in Seq(Todo)
    BY <1>1, TodoFacts, Joined DEF Advance
  <2>2. Len(todo') \in Nat /\ DOMAIN todo' = 1 .. Len(todo')
    BY <2>1
  <2> HIDE DEF n, L
  <2>3. QED
    BY <1>2, <1>3, <2>2
<1> HIDE DEF n, L
<1>5. ASSUME NEW d \in 1 .. L - 1 PROVE From(d)' = From(d)
  <2>1. L + 1 - d \in DOMAIN todo /\ L + 1 - d > 1 /\ (L + 1 - d) - 1 + n = L - 1 + n + 1 - d
    BY <1>2, <1>3, <1>5
  <2>2. todo'[L - 1 + n + 1 - d] = todo[L + 1 - d]
    BY <1>3, <2>1
  <2>3. QED
    BY <1>4, <2>2 DEF From, L
<1>6. ASSUME NEW d \in L .. L + n - 1 PROVE From(d)' = items[n + L - d]
  <2>1. n + L - d \in DOMAIN items /\ L - 1 + n + 1 - d = n + L - d
    BY <1>2, <1>3, <1>6
  <2>2. From(d)' = todo'[Len(todo') + 1 - d]
    BY DEF From
  <2>3. QED
    BY <1>3, <1>4, <2>1, <2>2
<1>7. todo[1] = From(L)
  BY <1>2 DEF From, L
<1>8. QED
  BY <1>2, <1>3, <1>4, <1>5, <1>6, <1>7 DEF n, L

LEMMA OpenFacts ==
  ASSUME model \in Models, NEW x \in OpenType
  PROVE  /\ x.visit \in VisitType /\ x.visit.sub \in Subgraphs /\ x.visit.lo \in Int /\ x.visit.hi \in Int
         /\ x.depth \in Nat \ {0} /\ x.done \in Nat /\ x.kids \in Nat /\ x.busy \in BOOLEAN
         /\ \A o \in Nat : x.visit.at[o] \in Int /\ x.visit.till[o] \in Int
         /\ OpCount(x) \in Nat /\ OpDepth(x) \in Int
         /\ x.done < OpCount(x) => /\ CallsOf(x) \in Seq(Nat) /\ Len(CallsOf(x)) \in Nat
                                   /\ DOMAIN CallsOf(x) = 1 .. Len(CallsOf(x))
                                   /\ \A c \in DOMAIN CallsOf(x) : CallsOf(x)[c] \in Subgraphs
                                   /\ \A c \in Int : Slot(x, c) \in Int
<1>1. /\ x.visit \in VisitType /\ x.depth \in Nat \ {0} /\ x.done \in Nat /\ x.kids \in Nat /\ x.busy \in BOOLEAN
  BY DEF OpenType
<1>2. /\ x.visit.sub \in Subgraphs /\ x.visit.lo \in Int /\ x.visit.hi \in Int
      /\ \A o \in Nat : x.visit.at[o] \in Int /\ x.visit.till[o] \in Int
  BY <1>1 DEF VisitType
<1>3. OpCount(x) \in Nat /\ DOMAIN Ops(x.visit.sub) = 1 .. OpCount(x)
  BY <1>2, ModelFacts DEF OpCount
<1>4. OpDepth(x) \in Int
  BY <1>1, <1>3 DEF OpDepth
<1>5. ASSUME x.done < OpCount(x)
      PROVE  /\ CallsOf(x) \in Seq(Nat) /\ Len(CallsOf(x)) \in Nat
             /\ DOMAIN CallsOf(x) = 1 .. Len(CallsOf(x))
             /\ \A c \in DOMAIN CallsOf(x) : CallsOf(x)[c] \in Subgraphs
             /\ \A c \in Int : Slot(x, c) \in Int
  <2>1. x.done + 1 \in DOMAIN Ops(x.visit.sub)
    BY <1>1, <1>3, <1>5
  <2>2. CallsOf(x) \in Seq(Nat) /\ \A c \in DOMAIN CallsOf(x) : CallsOf(x)[c] \in Subgraphs
    BY <1>2, <2>1, OpFacts DEF CallsOf
  <2>3. Len(CallsOf(x)) \in Nat /\ DOMAIN CallsOf(x) = 1 .. Len(CallsOf(x))
    BY <2>2
  <2>4. QED
    BY <1>4, <2>2, <2>3 DEF Slot
<1>6. QED
  BY <1>1, <1>2, <1>3, <1>4, <1>5

LEMMA KeepsRemains ==
  ASSUME model \in Models, NEW x \in OpenType, Remains(x), model' = model, NEW t \in Int,
         \A d \in 1 .. t - 1 : From(d)' = From(d),
         IF x.busy THEN Slot(x, x.kids + 1) < t ELSE OpDepth(x) < t
  PROVE  Remains(x)'
<1> DEFINE N == OpCount(x)
           s == x.visit.sub
           m == Len(CallsOf(x))
<1>1. /\ x.depth \in Nat \ {0} /\ x.done \in Nat /\ x.kids \in Nat /\ x.busy \in BOOLEAN
      /\ N \in Nat /\ x.done <= N /\ OpDepth(x) = x.depth + N - x.done
      /\ x.busy => x.done < N /\ m \in Nat /\ x.kids <= m
      /\ \A c \in Int : Slot(x, c) = OpDepth(x) + m - c + 1
  BY OpenFacts DEF Remains, OpDepth, Slot
<1>2. OpCount(x)' = OpCount(x) /\ CallsOf(x)' = CallsOf(x) /\ OpDepth(x)' = OpDepth(x)
  BY DEF OpCount, CallsOf, OpDepth, Ops
<1>3. \A c : Slot(x, c)' = Slot(x, c)
  BY <1>2 DEF Slot
<1> HIDE DEF N, m
<1>4. x.depth + N - x.done < t
  BY <1>1
<1>5. From(x.depth)' = From(x.depth)
  <2>1. x.depth \in 1 .. t - 1
    BY <1>1, <1>4
  <2>2. QED
    BY <2>1
<1>6. \A o \in x.done + 1 .. N : x.depth + N - o + 1 \in 1 .. t - 1
  BY <1>1, <1>4
<1>7. x.busy => \A c \in x.kids + 1 .. m : Slot(x, c) \in 1 .. t - 1
  <2> SUFFICES ASSUME x.busy, NEW c \in x.kids + 1 .. m PROVE Slot(x, c) \in 1 .. t - 1
    OBVIOUS
  <2>1. c \in Int /\ x.kids + 1 <= c /\ c <= m /\ x.kids + 1 \in Int
    BY <1>1
  <2>2. Slot(x, c) = OpDepth(x) + m - c + 1 /\ Slot(x, x.kids + 1) = OpDepth(x) + m - (x.kids + 1) + 1
    BY <1>1, <2>1
  <2>3. QED
    BY <1>1, <2>1, <2>2
<1>8. \A o \in x.done + 1 .. N : From(x.depth + N - o + 1)' =
         OpStep(IF x.busy /\ o = x.done + 1 THEN "used" ELSE "op", x.visit.sub, o, 0)
  <2> TAKE o \in x.done + 1 .. N
  <2> DEFINE d == x.depth + N - o + 1
  <2>1. d \in 1 .. t - 1
    BY <1>6
  <2>2. From(d) = OpStep(IF x.busy /\ o = x.done + 1 THEN "used" ELSE "op", x.visit.sub, o, 0)
    BY DEF Remains, N
  <2>3. d' = d
    BY <1>2 DEF N
  <2> HIDE DEF d
  <2>4. \A e \in 1 .. t - 1 : From(e)' = From(e)
    OBVIOUS
  <2>5. From(d)' = From(d)
    BY <2>1, <2>3, <2>4 DEF From
  <2>6. QED
    BY <2>2, <2>5 DEF d
<1>9. x.busy => \A c \in x.kids + 1 .. m : From(Slot(x, c))' = Mark(CallsOf(x)[c], 1)
  <2> SUFFICES ASSUME x.busy, NEW c \in x.kids + 1 .. m PROVE From(Slot(x, c))' = Mark(CallsOf(x)[c], 1)
    OBVIOUS
  <2> DEFINE d == Slot(x, c)
  <2>1. d \in 1 .. t - 1 /\ d' = d
    BY <1>3, <1>7
  <2>2. From(d) = Mark(CallsOf(x)[c], 1)
    BY DEF Remains, m
  <2> HIDE DEF d
  <2>3. \A e \in 1 .. t - 1 : From(e)' = From(e)
    OBVIOUS
  <2>4. From(d)' = From(d)
    BY <2>1, <2>3 DEF From
  <2>5. QED
    BY <2>2, <2>4 DEF d
<1>10. m' = m /\ N' = N
  BY <1>2 DEF N, m
<1>11. From(x.depth)' = OpStep("outputs", x.visit.sub, 0, 0)
  BY <1>5 DEF Remains
<1>12. Remains(x)'
  <2>1. \A o \in x.done + 1 .. OpCount(x)' : From(x.depth + OpCount(x) - o + 1)' =
          OpStep(IF x.busy /\ o = x.done + 1 THEN "used" ELSE "op", x.visit.sub, o, 0)
    BY <1>2, <1>8 DEF N
  <2>2. x.busy => \A c \in x.kids + 1 .. Len(CallsOf(x)') : From(Slot(x, c))' = Mark(CallsOf(x)'[c], 1)
    BY <1>2, <1>9 DEF m
  <2>3. x.done <= OpCount(x)' /\ (x.busy => x.done < OpCount(x)' /\ x.kids <= Len(CallsOf(x)'))
    BY <1>1, <1>2 DEF N, m
  <2>4. QED
    BY <1>11, <2>1, <2>2, <2>3 DEF Remains
<1>13. QED
  BY <1>12

LEMMA KeepsKnown ==
  ASSUME model \in Models, Prolonged, NEW x \in OpenType, NEW G, NEW H, G \subseteq H, G \subseteq VisitType,
         NEW calls \in Int, Known(x, calls, G), scope \in Int, scope' \in Int, scope <= scope'
  PROVE  Known(x, calls, H)'
<1> DEFINE v == x.visit
<1>1. /\ v \in VisitType /\ v.lo \in Int /\ x.done \in Nat
      /\ \A o \in Nat : v.at[o] \in Int /\ v.till[o] \in Int
  BY OpenFacts
<1>2. Visited(v, x.done, H)'
  BY <1>1, ProlongedVisit DEF Known
<1>3. v.lo <= scope' /\ \A o \in 1 .. x.done : v.till[o] <= scope'
  <2>1. v.lo <= scope /\ \A o \in 1 .. x.done : v.till[o] <= scope /\ v.till[o] \in Int
    BY <1>1 DEF Known
  <2> HIDE DEF v
  <2>2. QED
    BY <1>1, <2>1
<1>4. \A s : Ops(s)' = Ops(s) /\ \A o : OutNames(s, o)' = OutNames(s, o)
  BY ProlongedNames DEF Prolonged
<1>5. ASSUME x.busy PROVE OpBegun(v, x.done + 1, calls, H)'
  <2> DEFINE o == x.done + 1
  <2>1. OpBegun(v, o, calls, G) /\ o \in Nat
    BY <1>1, <1>5 DEF Known
  <2> HIDE DEF o, v
  <2>2. v.at[o] <= scope'
    BY <1>1, <2>1 DEF OpBegun
  <2>3. \A j \in DOMAIN infos' :
        /\ j \in DOMAIN infos /\ infos[j].name = infos'[j].name
        /\ infos[j].first # -1 => infos'[j].first = infos[j].first
    BY DEF Prolonged
  <2>4. BornBy(OutNames(v.sub, o), v.at[o]) => BornBy(OutNames(v.sub, o), v.at[o])'
    BY <1>4, <2>3 DEF BornBy
  <2>5. \A c \in 1 .. calls : Within(H, Ops(v.sub)[o].calls[c], v.at[o], scope)'
    <3> TAKE c \in 1 .. calls
    <3>1. PICK g \in G : g.sub = Ops(v.sub)[o].calls[c] /\ v.at[o] <= g.lo /\ g.hi <= scope
      BY <2>1 DEF OpBegun, Within
    <3>2. g \in H /\ g.hi \in Int
      BY DEF VisitType
    <3>3. g.hi <= scope'
      BY <3>1, <3>2
    <3>4. QED
      BY <1>4, <3>1, <3>2, <3>3 DEF Within
  <2>6. QED
    BY <2>1, <2>2, <2>4, <2>5 DEF OpBegun, o
<1>6. QED
  BY <1>2, <1>3, <1>5 DEF Known

\* The item that the innermost visit is at.
LEMMA LeafItem ==
  ASSUME AllocatorTypes, NEW base \in Nat, NEW n \in Nat, n > 0, NEW W, NEW G, Walk(base, n, W, G), NEW x, x = W[n]
  PROVE  /\ x \in OpenType /\ Remains(x) /\ Known(x, x.kids, G) /\ x.depth <= Len(todo)
         /\ \/ /\ x.busy /\ x.kids < Len(CallsOf(x)) /\ todo[1] = Mark(CallsOf(x)[x.kids + 1], 1)
               /\ Len(todo) = Slot(x, x.kids + 1)
            \/ /\ x.busy /\ x.kids = Len(CallsOf(x)) /\ todo[1] = OpStep("used", x.visit.sub, x.done + 1, 0)
               /\ Len(todo) = OpDepth(x)
            \/ /\ ~x.busy /\ x.done < OpCount(x) /\ todo[1] = OpStep("op", x.visit.sub, x.done + 1, 0)
               /\ Len(todo) = OpDepth(x)
            \/ /\ ~x.busy /\ x.done = OpCount(x) /\ todo[1] = OpStep("outputs", x.visit.sub, 0, 0)
               /\ Len(todo) = x.depth
<1>1. x \in OpenType /\ Remains(x) /\ Known(x, x.kids, G) /\ Leading(x) /\ model \in Models
  <2>1. n \in 1 .. n /\ n # 0
    OBVIOUS
  <2>2. QED
    BY <2>1 DEF Walk, AllocatorTypes
<1> DEFINE N == OpCount(x)
           m == Len(CallsOf(x))
           L == Len(todo)
<1>2. /\ x.depth \in Nat \ {0} /\ x.done \in Nat /\ x.kids \in Nat /\ x.busy \in BOOLEAN
      /\ N \in Nat /\ x.done <= N /\ OpDepth(x) = x.depth + N - x.done
      /\ x.busy => x.done < N /\ m \in Nat /\ x.kids <= m
      /\ \A c \in Int : Slot(x, c) = OpDepth(x) + m - c + 1
  BY <1>1, OpenFacts DEF Remains, OpDepth, Slot
<1>3. L \in Nat /\ base < L
  <2>1. todo \in Seq(Todo)
    BY DEF AllocatorTypes
  <2>2. QED
    BY <2>1 DEF Walk, Below
<1>4. todo[1] = From(L)
  BY <1>3 DEF From
<1>5. L = IF x.busy THEN Slot(x, x.kids + 1) ELSE OpDepth(x)
  BY <1>1 DEF Leading
<1> HIDE DEF N, m, L
<1>6. x.busy => x.kids + 1 \in Int /\ Slot(x, x.kids + 1) = OpDepth(x) + m - x.kids
  BY <1>2
<1>7. x.depth <= L
  BY <1>2, <1>5, <1>6
<1>8. CASE x.busy /\ x.kids < m
  <2>1. x.kids + 1 \in x.kids + 1 .. m
    BY <1>2, <1>8
  <2>2. From(Slot(x, x.kids + 1)) = Mark(CallsOf(x)[x.kids + 1], 1)
    BY <1>1, <1>8, <2>1 DEF Remains, m
  <2>3. QED
    BY <1>1, <1>4, <1>5, <1>7, <1>8, <2>2 DEF m, L
<1>9. x.done < N => From(OpDepth(x)) = OpStep(IF x.busy THEN "used" ELSE "op", x.visit.sub, x.done + 1, 0)
  <2> SUFFICES ASSUME x.done < N PROVE From(OpDepth(x)) = OpStep(IF x.busy THEN "used" ELSE "op", x.visit.sub, x.done + 1, 0)
    OBVIOUS
  <2> DEFINE o == x.done + 1
  <2>1. o \in x.done + 1 .. N /\ x.depth + N - o + 1 = OpDepth(x)
    BY <1>2
  <2>2. From(x.depth + N - o + 1) = OpStep(IF x.busy /\ o = x.done + 1 THEN "used" ELSE "op", x.visit.sub, o, 0)
    <3> HIDE DEF o
    <3>1. QED
      BY <1>1, <2>1 DEF Remains, N
  <2>3. QED
    BY <2>1, <2>2
<1>10. CASE x.busy /\ ~(x.kids < m)
  <2>1. x.kids = m /\ L = OpDepth(x)
    <3>1. x.kids = m /\ m \in Nat
      BY <1>2, <1>10
    <3>2. L = OpDepth(x) + m - x.kids
      BY <1>5, <1>6, <1>10
    <3>3. OpDepth(x) \in Int
      BY <1>2
    <3>4. QED
      BY <3>1, <3>2, <3>3
  <2>2. todo[1] = OpStep("used", x.visit.sub, x.done + 1, 0)
    <3>1. x.done < N /\ x.busy
      BY <1>2, <1>10
    <3>2. todo[1] = From(OpDepth(x))
      BY <1>4, <2>1
    <3>3. QED
      BY <1>9, <3>1, <3>2
  <2>3. QED
    BY <1>1, <1>7, <1>10, <2>1, <2>2 DEF m, L
<1>11. CASE ~x.busy /\ x.done < N
  BY <1>1, <1>4, <1>5, <1>7, <1>9, <1>11 DEF N, L
<1>12. CASE ~x.busy /\ ~(x.done < N)
  <2>1. x.done = N /\ L = x.depth
    BY <1>2, <1>5, <1>12
  <2>2. From(x.depth) = OpStep("outputs", x.visit.sub, 0, 0)
    BY <1>1 DEF Remains
  <2>3. QED
    BY <1>1, <1>4, <1>7, <1>12, <2>1, <2>2 DEF N, L
<1>13. QED
  BY <1>8, <1>10, <1>11, <1>12

\* The visits below it are at items further down.
LEMMA WalkBelow ==
  ASSUME AllocatorTypes, NEW base \in Nat, NEW n \in Nat, NEW W, NEW G, Walk(base, n, W, G), NEW k \in 1 .. n, k < n
  PROVE  /\ W[k] \in OpenType /\ Remains(W[k]) /\ Known(W[k], W[k].kids - 1, G) /\ Calling(W[k], W[k + 1])
         /\ Slot(W[k], W[k].kids + 1) < W[n].depth /\ W[n].depth <= Len(todo)
<1> DEFINE x == W[k]
<1>1. n > 0 /\ n \in 1 .. n /\ k + 1 \in 1 .. n
  OBVIOUS
<1>2. x \in OpenType /\ Remains(x) /\ Known(x, x.kids - 1, G) /\ Calling(x, W[k + 1]) /\ W[n].depth <= Len(todo)
  <2>1. x \in OpenType /\ Remains(x) /\ Known(x, x.kids - 1, G) /\ Calling(x, W[k + 1])
    BY <1>1 DEF Walk
  <2> DEFINE y == W[n]
  <2>2. y = W[n]
    OBVIOUS
  <2> HIDE DEF y
  <2>3. y.depth <= Len(todo)
    BY <1>1, <2>2, LeafItem
  <2>4. QED
    BY <2>1, <2>2, <2>3
<1>3. W[k + 1] \in OpenType /\ W[n] \in OpenType
  BY <1>1 DEF Walk
<1>4. W[k + 1].depth \in Nat /\ W[n].depth \in Nat
  BY <1>3 DEF OpenType
<1>5. W[k + 1].depth <= W[n].depth
  <2>1. k + 1 = n \/ k + 1 < n
    BY <1>1
  <2>2. CASE k + 1 = n
    BY <1>4, <2>2
  <2>3. CASE k + 1 < n
    <3>1. W[k + 1].depth < W[n].depth
      BY <1>1, <2>3 DEF Walk
    <3>2. QED
      BY <1>4, <3>1
  <2>4. QED
    BY <2>1, <2>2, <2>3
<1>6. W[k + 1].depth = Slot(x, x.kids) /\ x.busy
  BY <1>2 DEF Calling
<1>7. model \in Models /\ x.done < OpCount(x)
  BY <1>2, <1>6 DEF Remains, AllocatorTypes
<1>8. x.kids \in Nat /\ Len(CallsOf(x)) \in Nat /\ OpDepth(x) \in Int
  BY <1>2, <1>7, OpenFacts
<1> HIDE DEF x
<1>9. Slot(x, x.kids) = OpDepth(x) + Len(CallsOf(x)) - x.kids + 1
      /\ Slot(x, x.kids + 1) = OpDepth(x) + Len(CallsOf(x)) - (x.kids + 1) + 1
  BY DEF Slot
<1>10. Slot(x, x.kids + 1) < Slot(x, x.kids)
  BY <1>8, <1>9
<1>11. Slot(x, x.kids + 1) \in Int
  BY <1>8, <1>9
<1>12. QED
  BY <1>2, <1>4, <1>5, <1>6, <1>10, <1>11 DEF x

\* What a step of the marking leaves of them.
LEMMA WalkRest ==
  ASSUME AllocatorTypes, NEW base \in Nat, NEW n \in Nat, NEW W, NEW G, Walk(base, n, W, G), NEW H, G \subseteq H,
         Prolonged, scope' \in Int, scope <= scope', NEW items \in Seq(Todo), Advance(items)
  PROVE  /\ \A k \in 1 .. n : k < n => /\ Remains(W[k])' /\ Known(W[k], W[k].kids - 1, H)'
                                       /\ \A y : Calling(W[k], y) => Calling(W[k], y)'
         /\ Complete(G)' /\ \A g \in G : g.hi <= scope'
         /\ base < Len(todo') => Below(base)'
<1>0. model \in Models /\ scope \in Int /\ model' = model /\ G \subseteq VisitType
  BY DEF AllocatorTypes, Walk, Prolonged, Complete
<1>1. /\ Len(todo) \in Nat \ {0}
      /\ \A d \in 1 .. Len(todo) - 1 : From(d)' = From(d)
  BY PushFrom
<1>2. ASSUME NEW k \in 1 .. n, k < n
      PROVE  /\ Remains(W[k])' /\ Known(W[k], W[k].kids - 1, H)'
             /\ \A y : Calling(W[k], y) => Calling(W[k], y)'
  <2> DEFINE x == W[k]
             t == Len(todo)
  <2>1. /\ x \in OpenType /\ Remains(x) /\ Known(x, x.kids - 1, G) /\ x.busy
        /\ Slot(x, x.kids + 1) < t /\ x.kids - 1 \in Int
    <3>1. /\ x \in OpenType /\ Remains(x) /\ Known(x, x.kids - 1, G) /\ Calling(x, W[k + 1])
          /\ Slot(x, x.kids + 1) < W[n].depth /\ W[n].depth <= Len(todo)
      BY <1>2, WalkBelow
    <3>2. x.busy /\ x.kids \in Nat /\ W[n] \in OpenType
      BY <3>1 DEF Calling, OpenType, Walk
    <3>3. x.done < OpCount(x)
      BY <3>1, <3>2 DEF Remains
    <3>4. W[n].depth \in Nat
      BY <3>2 DEF OpenType
    <3>5. x.kids - 1 \in Int
      BY <3>2
    <3> HIDE DEF x
    <3>6. x.kids + 1 \in Int /\ \A c \in Int : Slot(x, c) \in Int
      <4>1. x \in OpenType /\ x.done < OpCount(x)
        BY <3>1, <3>3
      <4>2. \A c \in Int : Slot(x, c) \in Int
        BY <1>0, <4>1, OpenFacts
      <4>3. x.kids + 1 \in Int
        BY <3>2
      <4>4. QED
        BY <4>2, <4>3
    <3>7. Slot(x, x.kids + 1) < t
      <4> DEFINE u == Slot(x, x.kids + 1)
      <4>1. u \in Int
        BY <3>6
      <4>2. u < W[n].depth /\ W[n].depth <= t
        BY <3>1
      <4>3. t \in Int
        BY <1>1
      <4> HIDE DEF u, t
      <4>4. u < t
        BY <3>4, <4>1, <4>2, <4>3
      <4>5. QED
        BY <4>4 DEF u
    <3>8. QED
      BY <3>1, <3>2, <3>5, <3>7
  <2>2. Known(x, x.kids - 1, H)'
    BY <1>0, <2>1, KeepsKnown
  <2>3. t \in Int /\ \A d \in 1 .. t - 1 : From(d)' = From(d)
    BY <1>1
  <2> HIDE DEF t, x
  <2>4. Remains(x)'
    BY <1>0, <2>1, <2>3, KeepsRemains
  <2>5. /\ OpCount(x)' = OpCount(x) /\ CallsOf(x)' = CallsOf(x) /\ OpDepth(x)' = OpDepth(x)
        /\ Slot(x, x.kids)' = Slot(x, x.kids)
    BY <1>0 DEF OpCount, CallsOf, OpDepth, Ops, Slot
  <2>6. \A y : Calling(x, y) => Calling(x, y)'
    BY <2>5 DEF Calling
  <2>7. QED
    BY <2>2, <2>4, <2>6 DEF x
<1>3. Complete(G)'
  BY <1>0, ProlongedComplete DEF Walk
<1>4. \A g \in G : g.hi <= scope'
  <2> TAKE g \in G
  <2>1. g.hi \in Int /\ g.hi <= scope
    BY <1>0 DEF VisitType, Walk
  <2>2. QED
    BY <1>0, <2>1
<1>5. base < Len(todo') => Below(base)'
  <2> SUFFICES ASSUME base < Len(todo') PROVE Below(base)'
    OBVIOUS
  <2>1. ASSUME NEW d \in 1 .. base PROVE From(d)' = From(d) /\ (Deciding(From(d)) \/ Trailing(From(d)))
    <3>1. base < Len(todo) /\ (Deciding(From(d)) \/ Trailing(From(d)))
      BY DEF Walk, Below
    <3>2. d \in 1 .. Len(todo) - 1
      BY <1>1, <3>1
    <3>3. QED
      BY <1>1, <3>1, <3>2
  <2>2. QED
    BY <2>1 DEF Below, Deciding, Trailing
<1>6. QED
  BY <1>2, <1>3, <1>4, <1>5

LEMMA OneMore ==
  ASSUME NEW S, NEW n \in Nat, NEW f, f = [i \in 1 .. n |-> f[i]], \A i \in 1 .. n : f[i] \in S,
         NEW z \in S, NEW l, l = f \o <<z>>
  PROVE  l \in Seq(S) /\ Len(l) = n + 1 /\ (\A i \in 1 .. n : l[i] = f[i]) /\ l[n + 1] = z
<1>1. f \in Seq(S) /\ Len(f) = n
  BY ListOf
<1>2. QED
  BY <1>1

LEMMA SeqDomain ==
  ASSUME NEW S, NEW l \in Seq(S) PROVE Len(l) \in Nat /\ DOMAIN l = 1 .. Len(l)
OBVIOUS

OpItems(s) == [o \in DOMAIN Ops(s) |-> OpStep("op", s, o, 0)] \o <<OpStep("outputs", s, 0, 0)>>
KidItems(s, o) ==
  [c \in DOMAIN Ops(s)[o].calls |-> Mark(Ops(s)[o].calls[c], 1)] \o <<OpStep("used", s, o, 0)>>

\* What the two steps that put items on the list put there.
LEMMA VisitItems ==
  ASSUME Types, todo # <<>>, todo[1].do = "mark", NEW s, s = todo[1].subgraph
  PROVE  /\ s \in Subgraphs /\ OpItems(s) \in Seq(Todo) /\ Len(Ops(s)) \in Nat /\ Len(OpItems(s)) = Len(Ops(s)) + 1
         /\ \A o \in 1 .. Len(Ops(s)) : OpItems(s)[o] = OpStep("op", s, o, 0)
         /\ OpItems(s)[Len(Ops(s)) + 1] = OpStep("outputs", s, 0, 0)
<1> DEFINE N == Len(Ops(s))
           f == [o \in DOMAIN Ops(s) |-> OpStep("op", s, o, 0)]
           z == OpStep("outputs", s, 0, 0)
           items == OpItems(s)
<1>1. s \in Subgraphs
  BY ItemKinds DEF MarkType, Types
<1>2. N \in Nat /\ DOMAIN Ops(s) = 1 .. N
  BY <1>1, ModelFacts DEF Types, AllocatorTypes
<1>3. items \in Seq(Todo)
  <2>1. items \in Seq(Item)
    BY MarkingItems DEF OpItems, KidItems
  <2>2. QED
    BY <2>1, Wider
<1>4. f = [o \in 1 .. N |-> f[o]] /\ \A o \in 1 .. N : f[o] = OpStep("op", s, o, 0)
  BY <1>2
<1>5. items = f \o <<z>>
  BY DEF OpItems, KidItems
<1> DEFINE S == {z} \cup {f[o] : o \in 1 .. N}
<1>6. z \in S /\ \A o \in 1 .. N : f[o] \in S
  OBVIOUS
<1> HIDE DEF N, f, z, S, items
<1>7. Len(items) = N + 1 /\ (\A i \in 1 .. N : items[i] = f[i]) /\ items[N + 1] = z
  BY <1>2, <1>4, <1>5, <1>6, OneMore
<1>8. QED
  BY <1>1, <1>2, <1>3, <1>4, <1>7 DEF N, z, items

LEMMA CallItems ==
  ASSUME Types, todo # <<>>, todo[1].do = "op", NEW s, s = todo[1].subgraph, NEW o, o = todo[1].op
  PROVE  /\ s \in Subgraphs /\ o \in DOMAIN Ops(s) /\ KidItems(s, o) \in Seq(Todo) /\ Len(Ops(s)[o].calls) \in Nat
         /\ Len(KidItems(s, o)) = Len(Ops(s)[o].calls) + 1
         /\ \A c \in 1 .. Len(Ops(s)[o].calls) : KidItems(s, o)[c] = Mark(Ops(s)[o].calls[c], 1)
         /\ KidItems(s, o)[Len(Ops(s)[o].calls) + 1] = OpStep("used", s, o, 0)
<1> DEFINE calls == Ops(s)[o].calls
           items == KidItems(s, o)
<1>1. s \in Subgraphs /\ o \in DOMAIN Ops(s)
  BY ItemKinds DEF OpType, Types
<1>0. calls \in Seq(Nat)
  BY <1>1, OpFacts DEF Types, AllocatorTypes
<1> DEFINE n == Len(calls)
<1>2. n \in Nat /\ DOMAIN calls = 1 .. n
  BY <1>0, SeqDomain
<1> DEFINE f == [c \in DOMAIN calls |-> Mark(calls[c], 1)]
           z == OpStep("used", s, o, 0)
<1>3. items \in Seq(Todo)
  <2>1. items \in Seq(Item)
    BY MarkingItems DEF OpItems, KidItems
  <2>2. QED
    BY <2>1, Wider
<1>4. f = [c \in 1 .. n |-> f[c]] /\ \A c \in 1 .. n : f[c] = Mark(calls[c], 1)
  BY <1>2
<1>5. items = f \o <<z>>
  BY DEF OpItems, KidItems
<1> DEFINE S == {z} \cup {f[c] : c \in 1 .. n}
<1>6. z \in S /\ \A c \in 1 .. n : f[c] \in S
  OBVIOUS
<1> HIDE DEF n, f, z, S, items
<1>7. Len(items) = n + 1 /\ (\A i \in 1 .. n : items[i] = f[i]) /\ items[n + 1] = z
  BY <1>2, <1>4, <1>5, <1>6, OneMore
<1>8. QED
  BY <1>1, <1>2, <1>3, <1>4, <1>7 DEF n, z, items

\* The visit that begins.
LEMMA NewVisit ==
  ASSUME AllocatorTypes, NEW s \in Subgraphs, NEW now \in Int, scope' = now, Prolonged, NEW items \in Seq(Todo),
         Advance(items), Len(items) = Len(Ops(s)) + 1, Len(Ops(s)) \in Nat,
         \A o \in 1 .. Len(Ops(s)) : items[o] = OpStep("op", s, o, 0),
         items[Len(Ops(s)) + 1] = OpStep("outputs", s, 0, 0),
         BornBy(InputNames(s), now)', LastsTo(InputNames(s), now)', NEW G,
         NEW v, v = [sub |-> s, lo |-> now, hi |-> 0, at |-> [o \in Nat |-> 0], till |-> [o \in Nat |-> 0]],
         NEW y, y = [visit |-> v, depth |-> Len(todo), done |-> 0, busy |-> FALSE, kids |-> 0]
  PROVE  y \in OpenType /\ Remains(y)' /\ Known(y, 0, G)' /\ Leading(y)' /\ Len(todo') = Len(todo) + Len(Ops(s))
<1> DEFINE N == Len(Ops(s))
           L == Len(todo)
<1>1. /\ Len(todo') = L - 1 + (N + 1) /\ L \in Nat \ {0}
      /\ \A d \in L .. L + N : From(d)' = items[N + 1 + L - d]
  <2>1. /\ Len(todo') = Len(todo) - 1 + Len(items)
        /\ Len(todo) \in Nat \ {0} /\ Len(items) \in Nat
        /\ \A d \in Len(todo) .. Len(todo) + Len(items) - 1 : From(d)' = items[Len(items) + Len(todo) - d]
    BY PushFrom
  <2>2. L + (N + 1) - 1 = L + N
    BY <2>1
  <2>3. QED
    BY <2>1, <2>2
<1>2. y \in OpenType
  <2>1. v \in VisitType
    BY DEF VisitType
  <2>2. QED
    BY <1>1, <2>1 DEF OpenType
<1>3. /\ y.visit = v /\ v.sub = s /\ v.lo = now /\ y.depth = L /\ y.done = 0 /\ y.busy = FALSE /\ y.kids = 0
  OBVIOUS
<1>4. Ops(s)' = Ops(s) /\ OpCount(y)' = N /\ N' = N
  BY <1>3 DEF Prolonged, Ops, OpCount
<1>5. N \in Nat
  OBVIOUS
<1> DEFINE D == y.depth
<1>6. D = L /\ D' = D
  BY <1>3
<1>6a. D \in Nat \ {0} /\ Len(todo') = D + N
  BY <1>1, <1>5, <1>6
<1>7. \A o \in 1 .. N : From(D + N - o + 1)' = OpStep("op", s, o, 0)
  <2> TAKE o \in 1 .. N
  <2> DEFINE d == D + N - o + 1
  <2>1. d \in L .. L + N /\ N + 1 + L - d = o
    BY <1>1, <1>5, <1>6
  <2>2. From(d)' = items[N + 1 + L - d]
    <3>1. d' = d
      BY <1>4, <1>6 
    <3> HIDE DEF d
    <3>2. QED
      BY <1>1, <2>1, <3>1 DEF From
  <2>3. QED
    BY <2>1, <2>2
<1>8. From(D)' = OpStep("outputs", s, 0, 0)
  <2>1. D \in L .. L + N /\ N + 1 + L - D = N + 1
    BY <1>1, <1>5, <1>6
  <2>2. From(D)' = items[N + 1 + L - D]
    BY <1>1, <1>6, <2>1 DEF From
  <2>3. QED
    BY <2>1, <2>2
<1> HIDE DEF N, L
<1>9. Remains(y)'
  <2>1. \A o \in y.done + 1 .. N : From(y.depth + N - o + 1)' =
         OpStep(IF y.busy /\ o = y.done + 1 THEN "used" ELSE "op", y.visit.sub, o, 0)
    <3>1. y.done + 1 = 1
      BY <1>3
    <3>2. QED
      BY <1>3, <1>7, <3>1
  <2>2. From(y.depth)' = OpStep("outputs", y.visit.sub, 0, 0)
    BY <1>3, <1>8
  <2>3. y.done <= N
    BY <1>3, <1>5
  <2>4. \A o \in y.done + 1 .. OpCount(y)' : From(y.depth + OpCount(y) - o + 1)' =
         OpStep(IF y.busy /\ o = y.done + 1 THEN "used" ELSE "op", y.visit.sub, o, 0)
    BY <1>4, <2>1 DEF From
  <2>5. QED
    BY <1>3, <1>4, <2>2, <2>3, <2>4 DEF Remains
<1>10. Known(y, 0, G)'
  <2>1. Begun(v)'
    BY <1>3 DEF Begun
  <2>2. 1 .. y.done = {}
    BY <1>3
  <2>3. QED
    BY <1>3, <2>1, <2>2 DEF Known, Visited
<1>11. Leading(y)'
  <2>1. OpDepth(y)' = D + N
    BY <1>3, <1>4, <1>5, <1>6a DEF OpDepth
  <2>2. QED
    BY <1>3, <1>6a, <2>1 DEF Leading
<1>12. QED
  BY <1>2, <1>6, <1>6a, <1>9, <1>10, <1>11 DEF L, N

\* The stack of visits after a step: the first p are what they were.
LEMMA WalkOn ==
  ASSUME AllocatorTypes, NEW base \in Nat, NEW n \in Nat, NEW W, NEW G, Walk(base, n, W, G),
         NEW H, G \subseteq H, Complete(H)', \A g \in H : g.hi <= scope',
         Prolonged, scope' \in Int, scope <= scope', Reaching(scope'), Reaching(scope)',
         NEW items \in Seq(Todo), Advance(items), base < Len(todo'),
         NEW p \in Nat, p < n, NEW m \in Nat, p < m, NEW Z, \A k \in 1 .. p : Z[k] = W[k],
         Z[p + 1].depth = W[p + 1].depth, Z[p + 1].visit.sub = W[p + 1].visit.sub,
         Z[p + 1].visit.lo = W[p + 1].visit.lo,
         \A k \in p + 1 .. m : Z[k] \in OpenType /\ Remains(Z[k])' /\ Known(Z[k], IF k = m THEN Z[k].kids ELSE Z[k].kids - 1, H)',
         \A j, k \in p + 1 .. m : j < k => Z[j].depth < Z[k].depth,
         \A k \in p + 1 .. m : k < m => Calling(Z[k], Z[k + 1])',
         Leading(Z[m])'
  PROVE  Walk(base, m, Z, H)'
<1>1. /\ \A k \in 1 .. n : k < n => /\ Remains(W[k])' /\ Known(W[k], W[k].kids - 1, H)'
                                    /\ \A y : Calling(W[k], y) => Calling(W[k], y)'
      /\ Below(base)'
  BY WalkRest
<1>2. /\ scope >= 0 /\ scope \in Int /\ W[1].depth = base + 1 /\ W[1].visit.sub = 1
      /\ \A k \in 1 .. n : W[k] \in OpenType
      /\ \A j, k \in 1 .. n : j < k => W[j].depth < W[k].depth
      /\ \A k \in 1 .. n : k < n => Calling(W[k], W[k + 1])
  BY DEF Walk, AllocatorTypes
<1>3. OpenType' = OpenType /\ Subgraphs' = Subgraphs
  <2>1. VisitType' = VisitType /\ Subgraphs' = Subgraphs
    BY ProlongedNames DEF Prolonged
  <2>2. QED
    BY <2>1 DEF OpenType
<1>4. Z[1].depth = base + 1 /\ Z[1].visit.sub = 1
  <2>1. CASE p = 0
    BY <1>2, <2>1
  <2>2. CASE p # 0
    BY <1>2, <2>2
  <2>3. QED
    BY <2>1, <2>2
<1>5. ASSUME NEW k \in 1 .. m
      PROVE  Z[k] \in OpenType /\ Remains(Z[k])' /\ Known(Z[k], IF k = m THEN Z[k].kids ELSE Z[k].kids - 1, H)'
  <2>1. CASE k <= p
    <3>1. k \in 1 .. n /\ k < n /\ k # m /\ Z[k] = W[k]
      BY <2>1
    <3>2. QED
      BY <1>1, <1>2, <3>1 DEF Known, Remains
  <2>2. CASE k > p
    <3>1. k \in p + 1 .. m
      BY <2>2
    <3>2. QED
      BY <3>1
  <2>3. QED
    BY <2>1, <2>2
<1>6. \A k \in 1 .. m : Z[k].depth \in Nat
  BY <1>5 DEF OpenType
<1>7. ASSUME NEW j \in 1 .. m, NEW k \in 1 .. m, j < k PROVE Z[j].depth < Z[k].depth
  <2>1. CASE j > p
    <3>1. j \in p + 1 .. m /\ k \in p + 1 .. m
      BY <1>7, <2>1
    <3>2. QED
      BY <1>7, <3>1
  <2>2. CASE k <= p
    <3>1. j \in 1 .. n /\ k \in 1 .. n /\ Z[j] = W[j] /\ Z[k] = W[k]
      BY <1>7, <2>2
    <3>2. QED
      BY <1>2, <1>7, <3>1
  <2>3. CASE j <= p /\ k > p
    <3>1. j \in 1 .. n /\ p + 1 \in 1 .. n /\ Z[j] = W[j] /\ j < p + 1 /\ k \in p + 1 .. m /\ p + 1 \in p + 1 .. m
          /\ p + 1 \in 1 .. m
      BY <2>3
    <3>2. Z[j].depth < Z[p + 1].depth
      BY <1>2, <3>1
    <3>3. k = p + 1 \/ Z[p + 1].depth < Z[k].depth
      BY <3>1
    <3>4. QED
      BY <1>6, <3>1, <3>2, <3>3
  <2>4. QED
    BY <2>1, <2>2, <2>3
<1>8. ASSUME NEW k \in 1 .. m, k < m PROVE Calling(Z[k], Z[k + 1])'
  <2>1. CASE k < p
    <3>1. k \in 1 .. n /\ k + 1 \in 1 .. p /\ k \in 1 .. p /\ k < n
      BY <2>1
    <3>2. Calling(W[k], W[k + 1])'
      <4> DEFINE y == W[k + 1]
                 x == W[k]
      <4>1. (\A z : Calling(x, z) => Calling(x, z)') /\ Calling(x, y)
        BY <1>1, <1>2, <3>1
      <4> HIDE DEF x, y
      <4>2. Calling(x, y)'
        BY <4>1
      <4>3. QED
        BY <4>2 DEF x, y
    <3>3. QED
      BY <3>1, <3>2
  <2>2. CASE k = p
    <3>1. k \in 1 .. n /\ k < n /\ k \in 1 .. p
      BY <2>2
    <3>2. Calling(W[k], W[k + 1])
      BY <1>2, <3>1
    <3>3. Calling(W[k], Z[k + 1])
      BY <2>2, <3>2 DEF Calling
    <3> DEFINE y == Z[k + 1]
               x == W[k]
    <3>4. (\A z : Calling(x, z) => Calling(x, z)') /\ Calling(x, y)
      BY <1>1, <3>1, <3>3
    <3> HIDE DEF x, y
    <3>5. Calling(x, y)'
      BY <3>4
    <3>6. x = W[k] /\ x = Z[k] /\ y = Z[k + 1]
      BY <3>1 DEF x, y
    <3>7. QED
      BY <3>5, <3>6
  <2>3. CASE k > p
    <3>1. k \in p + 1 .. m
      BY <2>3
    <3>2. QED
      BY <1>8, <3>1
  <2>4. QED
    BY <2>1, <2>2, <2>3
<1>9. scope' >= 0
  BY <1>2
<1>10. m # 0
  OBVIOUS
<1>11. QED
  BY <1>1, <1>3, <1>4, <1>5, <1>7, <1>8, <1>9, <1>10 DEF Walk

LEMMA SameVisit ==
  ASSUME NEW v, NEW w, NEW n \in Nat, NEW G, v.sub = w.sub, v.lo = w.lo,
         \A o \in 1 .. n : v.at[o] = w.at[o] /\ v.till[o] = w.till[o], Visited(v, n, G)
  PROVE  Visited(w, n, G)
<1>1. Begun(w)
  BY DEF Visited, Begun
<1>2. ASSUME NEW o \in 1 .. n PROVE OpVisited(w, o, G)
  <2>1. OpVisited(v, o, G)
    BY DEF Visited
  <2>2. OpTimed(w, o)
    BY <2>1 DEF OpVisited, OpTimed
  <2>3. \A p \in 1 .. o - 1 : w.till[p] <= w.at[o]
    <3>1. \A p \in 1 .. o - 1 : p \in 1 .. n
      OBVIOUS
    <3>2. QED
      BY <2>1, <3>1 DEF OpVisited
  <2>4. QED
    BY <2>1, <2>2, <2>3 DEF OpVisited
<1>3. QED
  BY <1>1, <1>2 DEF Visited

\* What is put on the list for an operator.
CallsFirst(items, x) ==
  /\ Len(items) = Len(CallsOf(x)) + 1
  /\ \A c \in 1 .. Len(CallsOf(x)) : items[c] = Mark(CallsOf(x)[c], 1)
  /\ items[Len(CallsOf(x)) + 1] = OpStep("used", x.visit.sub, x.done + 1, 0)

\* An operator is begun at a time, and is over at a time.
Started(x, now, z) ==
  /\ z \in OpenType /\ z.visit \in VisitType
  /\ z.depth = x.depth /\ z.done = x.done /\ z.busy = TRUE /\ z.kids = 0
  /\ z.visit.sub = x.visit.sub /\ z.visit.lo = x.visit.lo /\ z.visit.hi = x.visit.hi
  /\ z.visit.till = x.visit.till /\ z.visit.at[x.done + 1] = now
  /\ \A o \in Nat : o # x.done + 1 => z.visit.at[o] = x.visit.at[o]
OpEnded(x, now, z) ==
  /\ z \in OpenType /\ z.visit \in VisitType
  /\ z.depth = x.depth /\ z.done = x.done + 1 /\ z.busy = FALSE /\ z.kids = 0
  /\ z.visit.sub = x.visit.sub /\ z.visit.lo = x.visit.lo /\ z.visit.hi = x.visit.hi
  /\ z.visit.at = x.visit.at /\ z.visit.till[x.done + 1] = now
  /\ \A o \in Nat : o # x.done + 1 => z.visit.till[o] = x.visit.till[o]

LEMMA SomeStarted ==
  ASSUME NEW x \in OpenType, NEW now \in Int
  PROVE  \E z : Started(x, now, z)
<1>1. x.visit \in VisitType /\ x.done + 1 \in Nat /\ x.visit.at \in [Nat -> Int]
  BY DEF OpenType, VisitType
<1>2. PICK at \in [Nat -> Int] : at[x.done + 1] = now /\ \A o \in Nat : o # x.done + 1 => at[o] = x.visit.at[o]
  <2> DEFINE f == x.visit.at
             n == x.done + 1
  <2>1. f \in [Nat -> Int] /\ n \in Nat
    BY <1>1
  <2> HIDE DEF f, n
  <2> DEFINE h == [f EXCEPT ![n] = now]
  <2>2. h \in [Nat -> Int] /\ h[n] = now /\ \A o \in Nat : o # n => h[o] = f[o]
    BY <2>1
  <2>3. QED
    BY <2>2 DEF f, n
<1>3. \E w \in VisitType : w.sub = x.visit.sub /\ w.lo = x.visit.lo /\ w.hi = x.visit.hi /\ w.till = x.visit.till /\ w.at = at
  <2> DEFINE w == [x.visit EXCEPT !.at = at]
  <2>1. w \in VisitType /\ w.sub = x.visit.sub /\ w.lo = x.visit.lo /\ w.hi = x.visit.hi /\ w.till = x.visit.till /\ w.at = at
    BY <1>1 DEF VisitType
  <2>2. QED
    BY <2>1
<1>4. PICK w \in VisitType : w.sub = x.visit.sub /\ w.lo = x.visit.lo /\ w.hi = x.visit.hi /\ w.till = x.visit.till /\ w.at = at
  BY <1>3
<1> DEFINE z == [x EXCEPT !.visit = w, !.busy = TRUE, !.kids = 0]
<1>5. z \in OpenType /\ z.visit = w /\ z.depth = x.depth /\ z.done = x.done /\ z.busy = TRUE /\ z.kids = 0
  BY DEF OpenType
<1> HIDE DEF z
<1>6. QED
  BY <1>2, <1>4, <1>5 DEF Started

LEMMA SomeEnded ==
  ASSUME NEW x \in OpenType, NEW now \in Int
  PROVE  \E z : OpEnded(x, now, z)
<1>1. x.visit \in VisitType /\ x.done + 1 \in Nat /\ x.visit.till \in [Nat -> Int]
  BY DEF OpenType, VisitType
<1>2. PICK till \in [Nat -> Int] :
        till[x.done + 1] = now /\ \A o \in Nat : o # x.done + 1 => till[o] = x.visit.till[o]
  <2> DEFINE f == x.visit.till
             n == x.done + 1
  <2>1. f \in [Nat -> Int] /\ n \in Nat
    BY <1>1
  <2> HIDE DEF f, n
  <2> DEFINE h == [f EXCEPT ![n] = now]
  <2>2. h \in [Nat -> Int] /\ h[n] = now /\ \A o \in Nat : o # n => h[o] = f[o]
    BY <2>1
  <2>3. QED
    BY <2>2 DEF f, n
<1>3. \E w \in VisitType : w.sub = x.visit.sub /\ w.lo = x.visit.lo /\ w.hi = x.visit.hi /\ w.at = x.visit.at /\ w.till = till
  <2> DEFINE w == [x.visit EXCEPT !.till = till]
  <2>1. w \in VisitType /\ w.sub = x.visit.sub /\ w.lo = x.visit.lo /\ w.hi = x.visit.hi /\ w.at = x.visit.at /\ w.till = till
    BY <1>1 DEF VisitType
  <2>2. QED
    BY <2>1
<1>4. PICK w \in VisitType : w.sub = x.visit.sub /\ w.lo = x.visit.lo /\ w.hi = x.visit.hi /\ w.at = x.visit.at /\ w.till = till
  BY <1>3
<1>5. \E n \in Nat : n = x.done + 1
  BY <1>1
<1>6. PICK n \in Nat : n = x.done + 1
  BY <1>5
<1> DEFINE z == [x EXCEPT !.visit = w, !.done = n, !.busy = FALSE, !.kids = 0]
<1>7. z \in OpenType /\ z.visit = w /\ z.depth = x.depth /\ z.done = n /\ z.busy = FALSE /\ z.kids = 0
  BY DEF OpenType
<1> HIDE DEF z
<1>8. QED
  BY <1>2, <1>4, <1>6, <1>7 DEF OpEnded

LEMMA LeafBegins ==
  ASSUME AllocatorTypes, NEW x \in OpenType, NEW G, G \subseteq VisitType, Remains(x), Known(x, x.kids, G),
         ~x.busy, x.done < OpCount(x), Len(todo) = OpDepth(x), Prolonged,
         NEW now \in Int, scope <= now, scope' = now, NEW items \in Seq(Todo), Advance(items), CallsFirst(items, x),
         BornBy(OutNames(x.visit.sub, x.done + 1), now)', NEW z, Started(x, now, z)
  PROVE  z \in OpenType /\ Remains(z)' /\ Known(z, 0, G)' /\ Leading(z)'
<1> DEFINE N == OpCount(x)
           m == Len(CallsOf(x))
           L == Len(todo)
           v == x.visit
           w == z.visit
<1>1. /\ model \in Models /\ scope \in Int /\ model' = model
  BY DEF AllocatorTypes, Prolonged
<1>2. /\ v \in VisitType /\ v.sub \in Subgraphs /\ v.lo \in Int
      /\ x.depth \in Nat \ {0} /\ x.done \in Nat
      /\ \A o \in Nat : v.at[o] \in Int /\ v.till[o] \in Int
      /\ N \in Nat /\ OpDepth(x) \in Int /\ m \in Nat
  BY <1>1, OpenFacts
<1>3. /\ z.visit = w /\ z \in OpenType /\ z.depth = x.depth /\ z.done = x.done /\ z.busy = TRUE /\ z.kids = 0
  BY DEF Started
<1>4. /\ w.sub = v.sub /\ w.lo = v.lo /\ w.hi = v.hi /\ w.till = v.till /\ w.at[x.done + 1] = now
      /\ \A o \in Nat : o # x.done + 1 => w.at[o] = v.at[o]
      /\ w \in VisitType
  BY DEF Started
<1>6. /\ OpCount(z)' = N /\ CallsOf(z)' = CallsOf(x) /\ OpDepth(z)' = OpDepth(x)
      /\ \A c : Slot(z, c)' = OpDepth(x) + m - c + 1
  BY <1>1, <1>3, <1>4 DEF OpCount, CallsOf, OpDepth, Ops, Slot
<1>7. /\ Len(todo') = L - 1 + (m + 1) /\ L \in Nat \ {0}
      /\ \A d \in 1 .. L - 1 : From(d)' = From(d)
      /\ \A d \in L .. L + m : From(d)' = items[m + 1 + L - d]
  <2>1. /\ Len(todo') = Len(todo) - 1 + Len(items)
        /\ Len(todo) \in Nat \ {0} /\ Len(items) \in Nat
        /\ \A d \in 1 .. Len(todo) - 1 : From(d)' = From(d)
        /\ \A d \in Len(todo) .. Len(todo) + Len(items) - 1 : From(d)' = items[Len(items) + Len(todo) - d]
    BY PushFrom
  <2>2. Len(items) = m + 1
    BY DEF CallsFirst
  <2>3. L + (m + 1) - 1 = L + m
    BY <1>2, <2>1
  <2>4. QED
    BY <2>1, <2>2, <2>3
<1>8. L = x.depth + N - x.done /\ x.done < N
  BY DEF OpDepth
<1>8a. OpDepth(x) = L
  OBVIOUS
<1>8b. /\ L \in Nat \ {0} /\ m \in Nat /\ N \in Nat /\ x.depth \in Nat \ {0} /\ x.done \in Nat
       /\ L = x.depth + N - x.done /\ x.done < N
  BY <1>2, <1>7, <1>8
<1> DEFINE depth == x.depth
           done == x.done
<1>8d. /\ L \in Nat \ {0} /\ m \in Nat /\ N \in Nat /\ depth \in Nat \ {0} /\ done \in Nat
       /\ L = depth + N - done /\ done < N
  BY <1>8b
<1> HIDE DEF v, N, m, L
<1> HIDE DEF depth, done
<1>8e. /\ depth \in 1 .. L - 1
       /\ \A o \in done + 1 .. N :
            IF o = done + 1 THEN depth + N - o + 1 = L ELSE depth + N - o + 1 \in 1 .. L - 1
       /\ L \in L .. L + m /\ m + 1 + L - L = m + 1
       /\ \A c \in 1 .. m : L + m - c + 1 \in L .. L + m /\ m + 1 + L - (L + m - c + 1) = c
  BY <1>8d
<1>8c. /\ x.depth \in 1 .. L - 1
       /\ \A o \in x.done + 1 .. N :
            IF o = x.done + 1 THEN x.depth + N - o + 1 = L ELSE x.depth + N - o + 1 \in 1 .. L - 1
       /\ L \in L .. L + m /\ m + 1 + L - L = m + 1
       /\ \A c \in 1 .. m : L + m - c + 1 \in L .. L + m /\ m + 1 + L - (L + m - c + 1) = c
  BY <1>8e DEF depth, done
<1>9. Remains(z)'
  <2>1. From(x.depth)' = OpStep("outputs", w.sub, 0, 0)
    <3>1. x.depth \in 1 .. L - 1
      BY <1>8c
    <3>2. From(x.depth)' = From(x.depth)
      BY <1>7, <3>1
    <3>3. QED
      BY <1>4, <3>2 DEF Remains, v
  <2>2. \A o \in x.done + 1 .. N : From(x.depth + N - o + 1)' = OpStep(IF o = x.done + 1 THEN "used" ELSE "op", w.sub, o, 0)
    <3> TAKE o \in x.done + 1 .. N
    <3> DEFINE d == x.depth + N - o + 1
    <3>0. d' = d
      BY <1>1 DEF N, OpCount, Ops
    <3>1. CASE o = x.done + 1
      <4>1. d = L /\ d \in L .. L + m /\ m + 1 + L - d = m + 1
        BY <1>8c, <3>1
      <4> HIDE DEF d
      <4>2. From(d)' = items[m + 1]
        <5>1. todo'[Len(todo') + 1 - d] = items[m + 1 + L - d]
          BY <1>7, <4>1 DEF From
        <5>2. QED
          BY <3>0, <4>1, <5>1 DEF From
      <4>3. items[m + 1] = OpStep("used", v.sub, x.done + 1, 0)
        BY DEF m, v, CallsFirst
      <4>4. QED
        BY <1>4, <3>1, <4>2, <4>3 DEF d
    <3>2. CASE o # x.done + 1
      <4>1. d \in 1 .. L - 1
        BY <1>8c, <3>2
      <4>2. From(d) = OpStep("op", v.sub, o, 0)
        BY <3>2 DEF Remains, N, v
      <4> HIDE DEF d
      <4>3. todo'[Len(todo') + 1 - d] = From(d)
        BY <1>7, <4>1 DEF From
      <4>4. From(d)' = From(d)
        BY <3>0, <4>3 DEF From
      <4>5. QED
        BY <1>4, <3>2, <4>2, <4>4 DEF d
    <3>3. QED
      BY <3>1, <3>2
  <2>3. \A c \in 1 .. m : From(Slot(z, c))' = Mark(CallsOf(x)[c], 1)
    <3> TAKE c \in 1 .. m
    <3> DEFINE d == L + m - c + 1
    <3>1. d \in L .. L + m /\ m + 1 + L - d = c
      BY <1>8c
    <3>2. Slot(z, c)' = d
      BY <1>6, <1>8a
    <3> HIDE DEF d
    <3>3. todo'[Len(todo') + 1 - d] = items[m + 1 + L - d]
      BY <1>7, <3>1 DEF From
    <3>4. items[c] = Mark(CallsOf(x)[c], 1)
      BY DEF m, CallsFirst
    <3>5. QED
      BY <3>1, <3>2, <3>3, <3>4 DEF From
  <2>4. \A o \in z.done + 1 .. OpCount(z)' : From(z.depth + OpCount(z) - o + 1)' =
          OpStep(IF z.busy /\ o = z.done + 1 THEN "used" ELSE "op", z.visit.sub, o, 0)
    <3>0. N' = N
      BY <1>1 DEF N, OpCount, Ops
    <3>1. \A o \in z.done + 1 .. OpCount(z)' : o \in x.done + 1 .. N
      BY <1>3, <1>6
    <3>2. \A o : From(z.depth + OpCount(z) - o + 1)' = From(x.depth + N - o + 1)'
      BY <1>3, <1>6, <3>0 DEF From
    <3>3. QED
      BY <1>3, <2>2, <3>1, <3>2
  <2>5. \A c \in z.kids + 1 .. Len(CallsOf(z)') : From(Slot(z, c))' = Mark(CallsOf(z)[c], 1)'
    <3>1. z.kids + 1 = 1 /\ Len(CallsOf(z)') = m
      BY <1>3, <1>6 DEF m
    <3>2. \A c : Mark(CallsOf(z)[c], 1)' = Mark(CallsOf(x)[c], 1)
      BY <1>6 DEF Mark
    <3>3. QED
      BY <2>3, <3>1, <3>2
  <2>6. /\ z.done <= OpCount(z)' /\ From(z.depth)' = OpStep("outputs", z.visit.sub, 0, 0)
        /\ z.done < OpCount(z)' /\ z.kids <= Len(CallsOf(z)')
    <3>1. z.done <= OpCount(z)' /\ z.done < OpCount(z)'
      BY <1>3, <1>6, <1>8b
    <3>2. z.kids <= Len(CallsOf(z)')
      <4>1. Len(CallsOf(z)') = m /\ z.kids = 0
        BY <1>3, <1>6 DEF m
      <4>2. QED
        BY <1>2, <4>1
    <3>3. From(z.depth)' = From(x.depth)'
      BY <1>3 DEF From
    <3>4. QED
      BY <2>1, <3>1, <3>2, <3>3
  <2>7. QED
    BY <2>4, <2>5, <2>6 DEF Remains
<1>10. Known(z, 0, G)'
  <2>1. Visited(w, x.done, G)
    <3>1. Visited(v, x.done, G)
      BY DEF Known, v
    <3>2. \A o \in 1 .. x.done : v.at[o] = w.at[o] /\ v.till[o] = w.till[o]
      <4>1. \A o \in 1 .. x.done : o \in Nat /\ o # x.done + 1
        BY <1>8b
      <4>2. QED
        BY <1>4, <4>1
    <3>3. QED
      BY <1>8b, <1>4, <3>1, <3>2, SameVisit
  <2>2. Visited(w, x.done, G)'
    <3>1. w \in VisitType /\ x.done \in Nat
      BY <1>2, <1>4
    <3>2. QED
      BY <1>1, <2>1, <3>1, ProlongedVisit
  <2>3. v.lo <= scope /\ \A o \in 1 .. x.done : v.till[o] <= scope
    BY DEF Known, v
  <2>4. w.lo <= scope' /\ \A o \in 1 .. x.done : w.till[o] <= scope'
    <3>1. v.lo <= scope'
      BY <1>1, <1>2, <2>3
    <3>2. ASSUME NEW o \in 1 .. x.done PROVE w.till[o] <= scope'
      <4>1. v.till[o] <= scope /\ v.till[o] \in Int
        BY <1>2, <2>3
      <4>2. QED
        BY <1>1, <1>4, <4>1
    <3>3. QED
      BY <1>4, <3>1, <3>2
  <2>5. OpBegun(w, x.done + 1, 0, G)'
    <3>1. w.lo <= w.at[x.done + 1] /\ w.at[x.done + 1] <= scope'
      BY <1>1, <1>2, <1>4, <2>4
    <3>2. BornBy(OutNames(w.sub, x.done + 1), w.at[x.done + 1])'
      <4>1. w.sub = x.visit.sub /\ w.at[x.done + 1] = now
        BY <1>4 DEF v
      <4>2. BornBy(OutNames(x.visit.sub, x.done + 1), w.at[x.done + 1])'
        BY <4>1 DEF BornBy
      <4>3. QED
        BY <4>1, <4>2
    <3>3. \A p \in 1 .. (x.done + 1) - 1 : w.till[p] <= w.at[x.done + 1]
      <4>1. \A p \in 1 .. (x.done + 1) - 1 : p \in 1 .. x.done
        BY <1>2
      <4>2. QED
        BY <1>4, <2>4, <4>1
    <3>4. \A c \in 1 .. 0 : FALSE
      OBVIOUS
    <3>5. QED
      BY <3>1, <3>2, <3>3, <3>4 DEF OpBegun
  <2>6. QED
    BY <1>3, <2>2, <2>4, <2>5 DEF Known
<1>11. Leading(z)'
  <2>1. Slot(z, z.kids + 1)' = L + m - (z.kids + 1) + 1
    BY <1>6, <1>8a DEF Slot
  <2>2. Len(todo') = L + m - (z.kids + 1) + 1
    BY <1>2, <1>3, <1>7
  <2>3. QED
    BY <1>3, <2>1, <2>2 DEF Leading
<1>12. QED
  BY <1>3, <1>9, <1>10, <1>11

\* An operator is over.
LEMMA LeafEnds ==
  ASSUME AllocatorTypes, NEW x \in OpenType, NEW G, G \subseteq VisitType, Remains(x), Known(x, x.kids, G),
         x.busy, x.kids = Len(CallsOf(x)), Len(todo) = OpDepth(x), Prolonged,
         NEW now \in Int, scope = now, scope' = now, Advance(<<>>),
         LastsTo(UseNames(x.visit.sub, x.done + 1), now)', NEW z, OpEnded(x, now, z)
  PROVE  z \in OpenType /\ Remains(z)' /\ Known(z, 0, G)' /\ Leading(z)'
<1> DEFINE N == OpCount(x)
           m == Len(CallsOf(x))
           L == Len(todo)
           v == x.visit
           w == z.visit
           depth == x.depth
           done == x.done
<1>1. /\ model \in Models /\ scope \in Int /\ model' = model
  BY DEF AllocatorTypes, Prolonged
<1>2. /\ v \in VisitType /\ v.sub \in Subgraphs /\ v.lo \in Int
      /\ depth \in Nat \ {0} /\ done \in Nat
      /\ \A o \in Nat : v.at[o] \in Int /\ v.till[o] \in Int
      /\ N \in Nat /\ OpDepth(x) \in Int
      /\ done < N => CallsOf(x) \in Seq(Nat) /\ m \in Nat /\ DOMAIN CallsOf(x) = 1 .. m
  BY <1>1, OpenFacts
<1>3. done < N /\ L = depth + N - done
  BY DEF Remains, OpDepth
<1>4. /\ z.visit = w /\ z \in OpenType /\ z.depth = depth /\ z.done = done + 1 /\ z.busy = FALSE /\ z.kids = 0
      /\ w.sub = v.sub /\ w.lo = v.lo /\ w.hi = v.hi /\ w.at = v.at /\ w.till[done + 1] = now
      /\ \A o \in Nat : o # done + 1 => w.till[o] = v.till[o]
      /\ w \in VisitType
  BY DEF OpEnded
<1>5. OpCount(z)' = N /\ OpDepth(z)' = depth + N - (done + 1) /\ N' = N
  BY <1>1, <1>4 DEF OpCount, OpDepth, Ops
<1>6. /\ Len(todo') = L - 1 /\ L \in Nat \ {0}
      /\ \A d \in 1 .. L - 1 : From(d)' = From(d)
  <2>1. <<>> \in Seq(Todo)
    OBVIOUS
  <2>2. /\ Len(todo') = Len(todo) - 1 + Len(<<>>)
        /\ Len(todo) \in Nat \ {0}
        /\ \A d \in 1 .. Len(todo) - 1 : From(d)' = From(d)
    BY <2>1, PushFrom
  <2>3. QED
    BY <2>2
<1> HIDE DEF N, m, L, v, w, depth, done
<1>7. /\ depth \in 1 .. L - 1
      /\ \A o \in done + 2 .. N : o \in done + 1 .. N /\ o # done + 1 /\ depth + N - o + 1 \in 1 .. L - 1
      /\ done + 1 <= N /\ done + 1 + 1 = done + 2
  BY <1>2, <1>3, <1>6
<1>8. Remains(z)'
  <2>1. From(z.depth)' = OpStep("outputs", z.visit.sub, 0, 0)
    <3>1. From(depth)' = From(depth)
      BY <1>6, <1>7
    <3>2. From(z.depth)' = From(depth)
      BY <1>4, <1>6, <1>7 DEF From
    <3>3. QED
      BY <1>4, <3>2 DEF Remains, v, depth
  <2>2. ASSUME NEW o \in done + 2 .. N
        PROVE  From(z.depth + N - o + 1)' = OpStep("op", z.visit.sub, o, 0)
    <3> DEFINE d == depth + N - o + 1
    <3>1. d \in 1 .. L - 1 /\ o \in done + 1 .. N /\ o # done + 1
      BY <1>7
    <3>2. From(d) = OpStep("op", v.sub, o, 0)
      BY <3>1 DEF Remains, N, v, depth, done
    <3>3. d = z.depth + N - o + 1 /\ N' = N
      BY <1>4, <1>5
    <3> HIDE DEF d
    <3>4. todo'[Len(todo') + 1 - d] = From(d)
      BY <1>6, <3>1 DEF From
    <3>5. From(z.depth + N - o + 1)' = From(d)
      BY <3>3, <3>4 DEF From
    <3>6. QED
      BY <1>4, <3>2, <3>5
  <2>3. \A o \in z.done + 1 .. OpCount(z)' : From(z.depth + OpCount(z) - o + 1)' =
          OpStep(IF z.busy /\ o = z.done + 1 THEN "used" ELSE "op", z.visit.sub, o, 0)
    <3>1. \A o : From(z.depth + OpCount(z) - o + 1)' = From(z.depth + N - o + 1)'
      BY <1>5 DEF From
    <3>2. z.done + 1 = done + 2 /\ OpCount(z)' = N /\ z.busy = FALSE
      BY <1>4, <1>5, <1>7
    <3>3. QED
      BY <2>2, <3>1, <3>2
  <2>4. z.done <= OpCount(z)'
    BY <1>4, <1>5, <1>7
  <2>5. QED
    BY <1>4, <2>1, <2>3, <2>4 DEF Remains
<1>9. Known(z, 0, G)'
  <2>1. Visited(w, done, G)
    <3>1. Visited(v, done, G)
      BY DEF Known, v, done
    <3>2. \A o \in 1 .. done : v.at[o] = w.at[o] /\ v.till[o] = w.till[o]
      <4>1. \A o \in 1 .. done : o \in Nat /\ o # done + 1
        BY <1>2
      <4>2. QED
        BY <1>4, <4>1
    <3>3. QED
      BY <1>2, <1>4, <3>1, <3>2, SameVisit
  <2>2. Visited(w, done, G)'
    BY <1>1, <1>2, <1>4, <2>1, ProlongedVisit DEF done
  <2>3. v.lo <= now /\ \A o \in 1 .. done : v.till[o] <= now
    BY DEF Known, v, done
  <2>4. OpBegun(v, done + 1, m, G)
    BY DEF Known, v, done, m
  <2>5. OpVisited(w, done + 1, G)'
    <3>0. done + 1 \in Nat
      BY <1>2
    <3>1. /\ v.lo <= v.at[done + 1] /\ v.at[done + 1] <= now
          /\ \A p \in 1 .. (done + 1) - 1 : v.till[p] <= v.at[done + 1]
          /\ \A c \in 1 .. m : Within(G, Ops(v.sub)[done + 1].calls[c], v.at[done + 1], now)
          /\ BornBy(OutNames(v.sub, done + 1), v.at[done + 1])
      BY <2>4 DEF OpBegun
    <3>2. BornBy(OutNames(w.sub, done + 1), w.at[done + 1])'
      <4>1. \A s, o : OutNames(s, o)' = OutNames(s, o)
        BY ProlongedNames DEF Prolonged
      <4>2. /\ \A j \in DOMAIN infos : infos[j].name \in OutNames(v.sub, done + 1) =>
                 infos[j].first # -1 /\ infos[j].first <= v.at[done + 1]
            /\ DOMAIN infos' = DOMAIN infos
            /\ \A j \in DOMAIN infos : infos'[j].name = infos[j].name
                                       /\ (infos[j].first # -1 => infos'[j].first = infos[j].first)
        BY <3>1 DEF BornBy, Prolonged
      <4> DEFINE names == OutNames(v.sub, done + 1)
                 t == v.at[done + 1]
      <4>3. \A j \in DOMAIN infos' : infos'[j].name \in names => infos'[j].first # -1 /\ infos'[j].first <= t
        BY <4>2
      <4>4. w.sub = v.sub /\ w.at = v.at
        BY <1>4
      <4>5. OutNames(w.sub, done + 1)' = names
        BY <4>1, <4>4 DEF done
      <4>6. w.at[done + 1] = t
        BY <4>4
      <4> HIDE DEF names, t
      <4>7. QED
        BY <4>3, <4>5, <4>6 DEF BornBy, done
    <3>3. LastsTo(UseNames(w.sub, done + 1), w.till[done + 1])'
      <4>1. w.sub = x.visit.sub /\ w.till[done + 1] = now /\ done = x.done
        BY <1>4 DEF v, done
      <4>2. QED
        BY <4>1 DEF LastsTo, UseNames, done
    <3>4. OpTimed(w, done + 1)'
      BY <1>4, <3>1, <3>2, <3>3 DEF OpTimed, done
    <3>5. \A c \in DOMAIN Ops(w.sub)[done + 1].calls : Within(G, Ops(w.sub)[done + 1].calls[c], w.at[done + 1], w.till[done + 1])
      <4>1. CallsOf(x) = Ops(w.sub)[done + 1].calls
        BY <1>4 DEF CallsOf, v, done
      <4>2. DOMAIN CallsOf(x) = 1 .. m
        BY <1>2, <1>3
      <4>3. QED
        BY <1>4, <3>1, <4>1, <4>2
    <3>6. \A p \in 1 .. (done + 1) - 1 : w.till[p] <= w.at[done + 1]
      <4>1. \A p \in 1 .. (done + 1) - 1 : p \in Nat /\ p # done + 1
        BY <1>2
      <4>2. QED
        BY <1>4, <3>1, <4>1
    <3>7. Ops(w.sub)' = Ops(w.sub)
      BY <1>1 DEF Ops
    <3>8. QED
      BY <3>4, <3>5, <3>6, <3>7 DEF OpVisited, Within, done
  <2>6. Visited(w, done + 1, G)'
    <3>1. \A o \in 1 .. done + 1 : o \in 1 .. done \/ o = done + 1
      BY <1>2
    <3>2. QED
      BY <2>2, <2>5, <3>1 DEF Visited, done
  <2>7. w.lo <= now /\ \A o \in 1 .. done + 1 : w.till[o] <= now
    <3>1. \A o \in 1 .. done + 1 : (o \in 1 .. done /\ o \in Nat /\ o # done + 1) \/ o = done + 1
      BY <1>2
    <3>2. now <= now
      OBVIOUS
    <3>3. QED
      BY <1>4, <2>3, <3>1, <3>2
  <2>8. QED
    BY <1>4, <2>6, <2>7 DEF Known, done
<1>10. Leading(z)'
  <2>1. Len(todo') = depth + N - (done + 1)
    BY <1>2, <1>3, <1>6
  <2>2. QED
    BY <1>4, <1>5, <2>1 DEF Leading
<1>11. QED
  BY <1>4, <1>8, <1>9, <1>10

\* A step of the marking: it is the end, or it prolongs the lifetimes.
LEMMA MarksEffect ==
  ASSUME Types, Reaching(scope), 0 <= scope, NEW read, NEW now \in Int, scope <= now, NEW names, NEW marked, NEW items,
         Marks(read, now, marked, items), todo # <<>>, ~EndsAs("undefined"),
         \/ marked = Created(infos, names, now) \/ marked = Used(infos, names, now)
         \/ marked = Used(Created(infos, names, now), names, now)
  PROVE  /\ scope' = now /\ infos' = marked /\ Advance(items) /\ Reaching(now) /\ Reaching(scope)' /\ scope' \in Int
         /\ Prolonged
         /\ marked = Created(infos, names, now) => BornBy(names, now)'
         /\ marked = Used(infos, names, now) => LastsTo(names, now)'
         /\ marked = Used(Created(infos, names, now), names, now) => BornBy(names, now)' /\ LastsTo(names, now)'
<1>0. infos \in Seq(InfoType) /\ scope \in Int /\ 0 <= now
  BY DEF Types, AllocatorTypes
<1>1. scope' = now /\ infos' = marked /\ Advance(items) /\ model' = model /\ requests' = requests
  BY DEF Marks, ReadsGarbage, Advance
<1>2. Reaching(now)
  <2>1. \A j \in DOMAIN infos : infos[j].first \in Int /\ infos[j].last \in Int /\ infos[j].first <= scope /\ infos[j].last <= scope
    BY <1>0, InfoTimes DEF Reaching
  <2>2. QED
    BY <1>0, <2>1 DEF Reaching
<1>3. /\ infos' = Created(infos, names, now) => Prolonged /\ Reaching(now)' /\ BornBy(names, now)'
      /\ infos' = Used(infos, names, now) => Prolonged /\ Reaching(now)' /\ LastsTo(names, now)'
      /\ infos' = Used(Created(infos, names, now), names, now) =>
           Prolonged /\ Reaching(now)' /\ BornBy(names, now)' /\ LastsTo(names, now)'
  BY <1>0, <1>1, <1>2, MarkingProlongs
<1>4. Reaching(now)' /\ Prolonged
  BY <1>1, <1>3
<1>5. Reaching(scope)'
  BY <1>1, <1>4 DEF Reaching
<1>6. QED
  BY <1>1, <1>2, <1>3, <1>4, <1>5

\* Of the visits only the innermost is another one.
LEMMA WalkAtLeaf ==
  ASSUME AllocatorTypes, NEW base \in Nat, NEW n \in Nat, n > 0, NEW W, NEW G, Walk(base, n, W, G),
         Prolonged, scope' \in Int, scope <= scope', Reaching(scope'), Reaching(scope)',
         NEW items \in Seq(Todo), Advance(items), base < Len(todo'),
         NEW z \in OpenType, z.depth = W[n].depth, z.visit.sub = W[n].visit.sub, z.visit.lo = W[n].visit.lo,
         Remains(z)', Known(z, z.kids, G)', Leading(z)'
  PROVE  \E Z : Walk(base, n, Z, G)'
<1> DEFINE Z == [k \in 1 .. n |-> IF k = n THEN z ELSE W[k]]
<1>1. n - 1 \in Nat /\ n - 1 < n /\ (n - 1) + 1 = n /\ n \in 1 .. n /\ (\A k \in n .. n : k = n)
      /\ \A k \in 1 .. n - 1 : k \in 1 .. n /\ k # n
  OBVIOUS
<1>2. Z[n] = z /\ \A k \in 1 .. n - 1 : Z[k] = W[k]
  BY <1>1
<1>3. Complete(G)' /\ \A g \in G : g.hi <= scope'
  BY WalkRest
<1> HIDE DEF Z
<1> DEFINE p == n - 1
<1>4. p \in Nat /\ p < n /\ p + 1 = n
  BY <1>1
<1>5. /\ \A k \in 1 .. p : Z[k] = W[k]
      /\ Z[p + 1].depth = W[p + 1].depth /\ Z[p + 1].visit.sub = W[p + 1].visit.sub
      /\ Z[p + 1].visit.lo = W[p + 1].visit.lo
  BY <1>2, <1>4
<1>6. /\ \A k \in p + 1 .. n : Z[k] \in OpenType /\ Remains(Z[k])' /\ Known(Z[k], IF k = n THEN Z[k].kids ELSE Z[k].kids - 1, G)'
      /\ \A j, k \in p + 1 .. n : j < k => Z[j].depth < Z[k].depth
      /\ \A k \in p + 1 .. n : k < n => Calling(Z[k], Z[k + 1])'
      /\ Leading(Z[n])'
  <2>1. \A k \in p + 1 .. n : k = n
    BY <1>4
  <2>2. Z[n] = z
    BY <1>2
  <2> HIDE DEF p
  <2>3. \A k \in p + 1 .. n : Z[k] \in OpenType /\ Remains(Z[k])' /\ Known(Z[k], IF k = n THEN Z[k].kids ELSE Z[k].kids - 1, G)'
    <3> TAKE k \in p + 1 .. n
    <3>1. k = n /\ Z[k] = z
      BY <2>1, <2>2
    <3>2. QED
      BY <3>1
  <2>4. \A j, k \in p + 1 .. n : ~(j < k)
    BY <2>1
  <2>5. \A k \in p + 1 .. n : ~(k < n)
    BY <2>1
  <2>6. QED
    BY <2>2, <2>3, <2>4, <2>5
<1>7. p \in Nat /\ p < n /\ n \in Nat /\ G \subseteq G
  BY <1>4
<1> HIDE DEF p
<1>8. Walk(base, n, Z, G)'
  BY <1>3, <1>5, <1>6, <1>7, WalkOn, ZenonT(60)
<1>9. QED
  BY <1>8

\* The innermost visit lies above what was on the list before.
LEMMA BaseBelow ==
  ASSUME NEW base \in Nat, NEW n \in Nat, n > 0, NEW W, NEW G, Walk(base, n, W, G)
  PROVE  base < W[n].depth /\ W[n].depth \in Nat
<1>1. /\ n \in 1 .. n /\ 1 \in 1 .. n
      /\ W[1].depth = base + 1 /\ W[1] \in OpenType /\ W[n] \in OpenType
      /\ 1 < n => W[1].depth < W[n].depth
  BY DEF Walk
<1>2. W[1].depth \in Nat /\ W[n].depth \in Nat
  BY <1>1 DEF OpenType
<1>3. n = 1 \/ 1 < n
  OBVIOUS
<1>4. QED
  BY <1>1, <1>2, <1>3

LEMMA WalkBegins ==
  ASSUME Types, NEW base \in Nat, NEW n \in Nat, NEW W, NEW G, Walk(base, n, W, G),
         MarkOperator, ~EndsAs("undefined")
  PROVE  \E Z : Walk(base, n, Z, G)'
<1>1. AllocatorTypes /\ todo # <<>> /\ todo[1].do = "op" /\ scope \in Int
  BY DEF MarkOperator, At, Types, AllocatorTypes
<1>2. n > 0
  <2>1. CASE n = 0
    <3>1. todo[1] = From(base + 1) /\ From(base + 1) = Mark(1, 0)
      BY <2>1 DEF Walk, From
    <3>2. QED
      BY <1>1, <3>1 DEF Mark
  <2>2. QED
    BY <2>1
<1> DEFINE x == W[n]
<1>3. /\ x \in OpenType /\ Remains(x) /\ Known(x, x.kids, G) /\ x.depth <= Len(todo)
      /\ ~x.busy /\ x.done < OpCount(x) /\ todo[1] = OpStep("op", x.visit.sub, x.done + 1, 0)
      /\ Len(todo) = OpDepth(x)
  <2>1. \E y : y = x
    OBVIOUS
  <2>2. PICK y : y = x
    BY <2>1
  <2> HIDE DEF x
  <2>3. /\ y \in OpenType /\ Remains(y) /\ Known(y, y.kids, G) /\ y.depth <= Len(todo)
         /\ \/ /\ y.busy /\ y.kids < Len(CallsOf(y)) /\ todo[1] = Mark(CallsOf(y)[y.kids + 1], 1)
               /\ Len(todo) = Slot(y, y.kids + 1)
            \/ /\ y.busy /\ y.kids = Len(CallsOf(y)) /\ todo[1] = OpStep("used", y.visit.sub, y.done + 1, 0)
               /\ Len(todo) = OpDepth(y)
            \/ /\ ~y.busy /\ y.done < OpCount(y) /\ todo[1] = OpStep("op", y.visit.sub, y.done + 1, 0)
               /\ Len(todo) = OpDepth(y)
            \/ /\ ~y.busy /\ y.done = OpCount(y) /\ todo[1] = OpStep("outputs", y.visit.sub, 0, 0)
               /\ Len(todo) = y.depth
    BY <1>1, <1>2, <2>2, LeafItem DEF x
  <2>4. todo[1].do = "op"
    BY <1>1
  <2>5. QED
    BY <2>2, <2>3, <2>4 DEF Mark, OpStep
<1> DEFINE s == x.visit.sub
           o == x.done + 1
           calls == CallsOf(x)
           items == KidItems(s, o)
<1>4. todo[1].subgraph = s /\ todo[1].op = o /\ calls = Ops(s)[o].calls
  BY <1>3 DEF OpStep, CallsOf
<1>5. Marks(RequestSlots, scope + 1, Created(infos, OutNames(s, o), scope + 1), items)
  BY <1>4 DEF MarkOperator, OutNames, KidItems
<1>6. PICK names : names = OutNames(s, o)
  OBVIOUS
<1>7. PICK now \in Int : now = scope + 1 /\ names = OutNames(s, o)
  BY <1>1, <1>6
<1>8. scope <= now /\ Reaching(scope) /\ 0 <= scope
  BY <1>1, <1>7 DEF Walk
<1> HIDE DEF items, s, o, calls
<1>9. /\ scope' = now /\ Advance(items) /\ Reaching(now) /\ Reaching(scope)' /\ scope' \in Int
      /\ Prolonged /\ BornBy(names, now)'
  <2> DEFINE marked == Created(infos, names, now)
  <2>1. Marks(RequestSlots, now, marked, items)
    BY <1>5, <1>7
  <2>2. marked = Created(infos, names, now)
    OBVIOUS
  <2> HIDE DEF marked
  <2>3. QED
    BY <1>1, <1>8, <2>1, <2>2, MarksEffect
<1>10. items \in Seq(Todo) /\ CallsFirst(items, x) /\ Len(items) \in Nat /\ Len(items) > 0
  <2>1. /\ items \in Seq(Todo) /\ Len(calls) \in Nat /\ Len(items) = Len(calls) + 1
        /\ \A c \in 1 .. Len(calls) : items[c] = Mark(calls[c], 1)
        /\ items[Len(calls) + 1] = OpStep("used", s, o, 0)
    BY <1>1, <1>4, CallItems DEF items
  <2>2. QED
    BY <2>1 DEF CallsFirst, s, o, calls
<1>11. base < Len(todo')
  <2>1. Len(todo') = Len(todo) - 1 + Len(items) /\ Len(todo) \in Nat
    BY <1>1, <1>9, <1>10, PushFrom
  <2>2. base < Len(todo)
    BY DEF Walk, Below
  <2>3. QED
    BY <1>10, <2>1, <2>2
<1>12. \E y : y = x
  OBVIOUS
<1>13. PICK y : y = x
  BY <1>12
<1> HIDE DEF x
<1>14. PICK z : Started(y, now, z)
  BY <1>3, <1>13, SomeStarted
<1>15. z \in OpenType /\ Remains(z)' /\ Known(z, 0, G)' /\ Leading(z)'
  <2>1. BornBy(OutNames(y.visit.sub, y.done + 1), now)'
    <3>1. OutNames(y.visit.sub, y.done + 1)' = names
      BY <1>7, <1>9, <1>13, ProlongedNames DEF Prolonged, s, o
    <3>2. QED
      BY <1>9, <3>1 DEF BornBy
  <2>2. G \subseteq VisitType
    BY DEF Walk, Complete
  <2>3. QED
    BY <1>1, <1>3, <1>8, <1>9, <1>10, <1>13, <1>14, <2>1, <2>2, LeafBegins
<1>16. z.kids = 0 /\ z.depth = y.depth /\ z.visit.sub = y.visit.sub /\ z.visit.lo = y.visit.lo
  BY <1>14 DEF Started
<1>17. Known(z, z.kids, G)'
  BY <1>15, <1>16
<1>18. y = W[n]
  BY <1>13 DEF x
<1>19. scope <= scope' /\ Reaching(scope')
  BY <1>8, <1>9
<1>20. QED
  BY <1>1, <1>2, <1>9, <1>10, <1>11, <1>15, <1>16, <1>17, <1>18, <1>19, WalkAtLeaf

\* Where the marking is, by the kind of the first item.
AtCall(x) ==
  /\ x.busy /\ x.kids < Len(CallsOf(x)) /\ todo[1] = Mark(CallsOf(x)[x.kids + 1], 1)
  /\ Len(todo) = Slot(x, x.kids + 1)
AtUses(x) ==
  /\ x.busy /\ x.kids = Len(CallsOf(x)) /\ todo[1] = OpStep("used", x.visit.sub, x.done + 1, 0)
  /\ Len(todo) = OpDepth(x)
AtOperator(x) ==
  /\ ~x.busy /\ x.done < OpCount(x) /\ todo[1] = OpStep("op", x.visit.sub, x.done + 1, 0)
  /\ Len(todo) = OpDepth(x)
AtOutputs(x) ==
  /\ ~x.busy /\ x.done = OpCount(x) /\ todo[1] = OpStep("outputs", x.visit.sub, 0, 0)
  /\ Len(todo) = x.depth
Leaf(x, base, G) ==
  /\ x \in OpenType /\ Remains(x) /\ Known(x, x.kids, G) /\ x.depth <= Len(todo)
  /\ base < x.depth /\ x.depth \in Nat
  /\ todo[1].do = "mark" => AtCall(x)
  /\ todo[1].do = "used" => AtUses(x)
  /\ todo[1].do = "op" => AtOperator(x)
  /\ todo[1].do = "outputs" => AtOutputs(x)

LEMMA AtKinds ==
  ASSUME NEW x, NEW kind, kind = todo[1].do
  PROVE  /\ AtCall(x) => kind = "mark"
         /\ AtUses(x) => kind = "used"
         /\ AtOperator(x) => kind = "op"
         /\ AtOutputs(x) => kind = "outputs"
         /\ todo[1] = Mark(1, 0) => kind = "mark"
         /\ AtCall(x) \/ AtUses(x) \/ AtOperator(x) \/ AtOutputs(x) =>
              /\ kind \in {"mark", "used", "op", "outputs"}
              /\ kind = "mark" => AtCall(x)
              /\ kind = "used" => AtUses(x)
              /\ kind = "op" => AtOperator(x)
              /\ kind = "outputs" => AtOutputs(x)
<1>1. /\ AtCall(x) => kind = "mark"
      /\ AtUses(x) => kind = "used"
      /\ AtOperator(x) => kind = "op"
      /\ AtOutputs(x) => kind = "outputs"
      /\ todo[1] = Mark(1, 0) => kind = "mark"
  BY DEF AtCall, AtUses, AtOperator, AtOutputs, Mark, OpStep
<1>2. QED
  BY <1>1

LEMMA LeafKind ==
  ASSUME AllocatorTypes, NEW base \in Nat, NEW n \in Nat, NEW W, NEW G, Walk(base, n, W, G)
  PROVE  /\ n = 0 => todo[1] = Mark(1, 0) /\ Len(todo) = base + 1
         /\ n > 0 => Leaf(W[n], base, G)
         /\ todo[1].do \in {"mark", "used", "op", "outputs"}
         /\ todo[1].do # "mark" => n > 0
<1>1. PICK x, kind : x = W[n] /\ kind = todo[1].do
  OBVIOUS
<1>2. CASE n = 0
  <2>1. todo[1] = Mark(1, 0) /\ Len(todo) = base + 1
    BY <1>2 DEF Walk, From
  <2>2. kind = "mark"
    BY <1>1, <2>1, AtKinds
  <2>3. QED
    BY <1>1, <1>2, <2>1, <2>2
<1>3. CASE n > 0
  <2>1. /\ x \in OpenType /\ Remains(x) /\ Known(x, x.kids, G) /\ x.depth <= Len(todo)
        /\ AtCall(x) \/ AtUses(x) \/ AtOperator(x) \/ AtOutputs(x)
    BY <1>1, <1>3, LeafItem DEF AtCall, AtUses, AtOperator, AtOutputs
  <2>2. /\ kind \in {"mark", "used", "op", "outputs"}
        /\ kind = "mark" => AtCall(x)
        /\ kind = "used" => AtUses(x)
        /\ kind = "op" => AtOperator(x)
        /\ kind = "outputs" => AtOutputs(x)
    BY <1>1, <2>1, AtKinds
  <2>3. base < x.depth /\ x.depth \in Nat
    BY <1>1, <1>3, BaseBelow
  <2>4. Leaf(x, base, G)
    BY <1>1, <2>1, <2>2, <2>3 DEF Leaf
  <2>5. QED
    BY <1>1, <1>3, <2>2, <2>4
<1>4. QED
  BY <1>2, <1>3

LEMMA WalkEnds ==
  ASSUME Types, NEW base \in Nat, NEW n \in Nat, NEW W, NEW G, Walk(base, n, W, G),
         MarkUses, ~EndsAs("undefined")
  PROVE  \E Z : Walk(base, n, Z, G)'
<1>1. AllocatorTypes /\ todo # <<>> /\ todo[1].do = "used" /\ scope \in Int
  BY DEF MarkUses, At, Types, AllocatorTypes
<1>2. PICK x : x = W[n]
  OBVIOUS
<1>3. /\ n > 0 /\ x \in OpenType /\ Remains(x) /\ Known(x, x.kids, G)
      /\ base < x.depth /\ x.depth \in Nat
      /\ x.busy /\ x.kids = Len(CallsOf(x)) /\ todo[1] = OpStep("used", x.visit.sub, x.done + 1, 0)
      /\ Len(todo) = OpDepth(x)
  <2>1. n > 0 /\ Leaf(x, base, G)
    BY <1>1, <1>2, LeafKind
  <2>2. QED
    BY <1>1, <2>1 DEF Leaf, AtUses
<1> DEFINE s == x.visit.sub
           o == x.done + 1
<1>4. todo[1].subgraph = s /\ todo[1].op = o
  BY <1>3 DEF OpStep
<1>5. Marks(RequestSlots, scope, Used(infos, UseNames(s, o), scope), <<>>)
  BY <1>4 DEF MarkUses, UseNames
<1>6. PICK names : names = UseNames(s, o)
  OBVIOUS
<1>7. PICK now \in Int : now = scope /\ names = UseNames(s, o)
  BY <1>1, <1>6
<1>8. scope <= now /\ Reaching(scope) /\ 0 <= scope
  BY <1>1, <1>7 DEF Walk
<1> HIDE DEF s, o
<1>9. /\ scope' = now /\ Advance(<<>>) /\ Reaching(now) /\ Reaching(scope)' /\ scope' \in Int
      /\ Prolonged /\ LastsTo(names, now)'
  <2> DEFINE marked == Used(infos, names, now)
  <2>1. Marks(RequestSlots, now, marked, <<>>)
    BY <1>5, <1>7
  <2>2. marked = Used(infos, names, now)
    OBVIOUS
  <2> HIDE DEF marked
  <2>3. QED
    BY <1>1, <1>8, <2>1, <2>2, MarksEffect
<1>10. <<>> \in Seq(Todo) /\ Len(<<>>) = 0
  OBVIOUS
<1>11. base < Len(todo')
  <2>1. Len(todo') = Len(todo) - 1 + Len(<<>>) /\ Len(todo) \in Nat
    BY <1>1, <1>9, <1>10, PushFrom
  <2>2. x.done < OpCount(x) /\ x.done \in Nat /\ OpCount(x) \in Nat
    BY <1>1, <1>3, OpenFacts DEF Remains, AllocatorTypes
  <2> DEFINE done == x.done
             depth == x.depth
             N == OpCount(x)
  <2>3. Len(todo) = depth + N - done /\ done < N /\ done \in Nat /\ N \in Nat /\ depth \in Nat /\ base < depth
    BY <1>3, <2>2 DEF OpDepth
  <2> HIDE DEF done, depth, N
  <2>4. QED
    BY <1>10, <2>1, <2>3
<1>14. PICK z : OpEnded(x, now, z)
  BY <1>3, SomeEnded
<1>15. z \in OpenType /\ Remains(z)' /\ Known(z, 0, G)' /\ Leading(z)'
  <2>1. LastsTo(UseNames(x.visit.sub, x.done + 1), now)'
    <3>1. UseNames(x.visit.sub, x.done + 1)' = names
      BY <1>7, <1>9, ProlongedNames DEF Prolonged, s, o
    <3>2. QED
      BY <1>9, <3>1 DEF LastsTo
  <2>2. G \subseteq VisitType
    BY DEF Walk, Complete
  <2>3. scope = now
    BY <1>7
  <2>4. QED
    BY <1>1, <1>3, <1>9, <1>14, <2>1, <2>2, <2>3, LeafEnds
<1>16. z.kids = 0 /\ z.depth = x.depth /\ z.visit.sub = x.visit.sub /\ z.visit.lo = x.visit.lo
  BY <1>14 DEF OpEnded
<1>17. Known(z, z.kids, G)'
  BY <1>15, <1>16
<1>19. scope <= scope' /\ Reaching(scope')
  BY <1>8, <1>9
<1>20. QED
  BY <1>1, <1>2, <1>3, <1>9, <1>10, <1>11, <1>15, <1>16, <1>17, <1>19, WalkAtLeaf

\* A subgraph is left at a time.
Closes(v, now, g) ==
  g \in VisitType /\ g.sub = v.sub /\ g.lo = v.lo /\ g.at = v.at /\ g.till = v.till /\ g.hi = now

LEMMA SomeClosed ==
  ASSUME NEW v \in VisitType, NEW now \in Int PROVE \E g : Closes(v, now, g)
<1> DEFINE g == [v EXCEPT !.hi = now]
<1>1. g \in VisitType /\ g.sub = v.sub /\ g.lo = v.lo /\ g.at = v.at /\ g.till = v.till /\ g.hi = now
  BY DEF VisitType
<1> HIDE DEF g
<1>2. QED
  BY <1>1 DEF Closes

\* The subgraphs that were visited are so still when there is one more.
LEMMA OneVisited ==
  ASSUME Prolonged, model \in Models, NEW G, Complete(G), NEW g \in VisitType, NEW H, H = G \cup {g},
         Visited(g, Len(Ops(g.sub)), G), Finished(g)'
  PROVE  Complete(H)'
<1>1. VisitType' = VisitType /\ \A s : Ops(s)' = Ops(s)
  BY ProlongedNames DEF Prolonged
<1>2. \A h \in H : h \in VisitType /\ Visited(h, Len(Ops(h.sub)), G) /\ Finished(h)'
  <2> TAKE h \in H
  <2>1. CASE h = g
    BY <2>1
  <2>2. CASE h \in G
    <3>1. h \in VisitType /\ Visited(h, Len(Ops(h.sub)), G) /\ Finished(h)
      BY <2>2 DEF Complete
    <3>2. QED
      BY <3>1, ProlongedVisit
  <2>3. QED
    BY <2>1, <2>2
<1>3. \A h \in H : Len(Ops(h.sub)) \in Nat
  BY <1>2, ModelFacts DEF VisitType
<1>4. \A h \in H : Visited(h, Len(Ops(h.sub)), H)' /\ Finished(h)'
  <2> TAKE h \in H
  <2> DEFINE n == Len(Ops(h.sub))
  <2>0. n \in Nat /\ Visited(h, n, G) /\ h \in VisitType /\ G \subseteq H
    BY <1>2, <1>3
  <2>2. n' = n
    BY <1>1
  <2> HIDE DEF n
  <2>1. \A m \in Nat : Visited(h, m, G) => Visited(h, m, H)'
    BY <2>0, ProlongedVisit
  <2>4. Visited(h, n, H)'
    BY <2>0, <2>1, <2>2 DEF Visited
  <2>5. QED
    BY <1>2, <2>4 DEF n
<1>5. QED
  BY <1>1, <1>2, <1>4 DEF Complete

LEMMA ClosedVisit ==
  ASSUME AllocatorTypes, NEW x \in OpenType, NEW G, Remains(x), Known(x, x.kids, G), ~x.busy, x.done = OpCount(x),
         Prolonged, NEW now \in Int, scope = now,
         BornBy(OutputNames(x.visit.sub), now)', LastsTo(OutputNames(x.visit.sub), now)',
         NEW g, Closes(x.visit, now, g)
  PROVE  Visited(g, Len(Ops(g.sub)), G) /\ Finished(g)'
<1> DEFINE N == OpCount(x)
           v == x.visit
<1>1. /\ model \in Models /\ v \in VisitType /\ v.sub \in Subgraphs /\ N \in Nat /\ x.done \in Nat
  BY OpenFacts DEF AllocatorTypes
<1>2. g \in VisitType /\ g.sub = v.sub /\ g.lo = v.lo /\ g.at = v.at /\ g.till = v.till /\ g.hi = now
  BY DEF Closes
<1>3. DOMAIN Ops(v.sub) = 1 .. N /\ Len(Ops(g.sub)) = N
  BY <1>1, <1>2, ModelFacts DEF OpCount
<1> HIDE DEF v
<1>4. Visited(g, N, G)
  <2>1. Visited(v, N, G)
    BY DEF Known, v, N
  <2> HIDE DEF N
  <2>2. QED
    BY <1>1, <1>2, <2>1, SameVisit
<1>5. v.lo <= now /\ \A o \in 1 .. N : v.till[o] <= now
  BY DEF Known, v
<1>6. Finished(g)'
  <2>1. OutputNames(g.sub)' = OutputNames(x.visit.sub)' /\ Ops(g.sub)' = Ops(v.sub)
    BY <1>2, ProlongedNames DEF Prolonged, v
  <2>2. BornBy(OutputNames(g.sub), g.hi)' /\ LastsTo(OutputNames(g.sub), g.hi)'
    BY <1>2, <2>1 DEF BornBy, LastsTo
  <2>3. \A o \in DOMAIN Ops(g.sub)' : g.till[o] <= g.hi
    BY <1>2, <1>3, <1>5, <2>1
  <2>4. g.lo <= g.hi
    BY <1>2, <1>5
  <2>5. QED
    BY <2>2, <2>3, <2>4 DEF Finished
<1>7. QED
  BY <1>3, <1>4, <1>6

\* A visit begins at a time, with its last item at a depth.
Opens(y, s, now, depth) ==
  /\ y \in OpenType
  /\ y.depth = depth /\ y.done = 0 /\ y.busy = FALSE /\ y.kids = 0
  /\ y.visit.sub = s /\ y.visit.lo = now

LEMMA OpenVisit ==
  ASSUME AllocatorTypes, NEW s \in Subgraphs, NEW now \in Int, scope' = now, Prolonged, NEW items \in Seq(Todo),
         Advance(items), Len(items) = Len(Ops(s)) + 1, Len(Ops(s)) \in Nat,
         \A o \in 1 .. Len(Ops(s)) : items[o] = OpStep("op", s, o, 0),
         items[Len(Ops(s)) + 1] = OpStep("outputs", s, 0, 0),
         BornBy(InputNames(s), now)', LastsTo(InputNames(s), now)', NEW G
  PROVE  /\ \E y : Opens(y, s, now, Len(todo)) /\ Remains(y)' /\ Known(y, 0, G)' /\ Leading(y)'
         /\ Len(todo') = Len(todo) + Len(Ops(s))
<1>1. \E v : v = [sub |-> s, lo |-> now, hi |-> 0, at |-> [o \in Nat |-> 0], till |-> [o \in Nat |-> 0]]
  OBVIOUS
<1>2. PICK v : v = [sub |-> s, lo |-> now, hi |-> 0, at |-> [o \in Nat |-> 0], till |-> [o \in Nat |-> 0]]
  BY <1>1
<1>3. \E y : y = [visit |-> v, depth |-> Len(todo), done |-> 0, busy |-> FALSE, kids |-> 0]
  OBVIOUS
<1>4. PICK y : y = [visit |-> v, depth |-> Len(todo), done |-> 0, busy |-> FALSE, kids |-> 0]
  BY <1>3
<1>5. y \in OpenType /\ Remains(y)' /\ Known(y, 0, G)' /\ Leading(y)' /\ Len(todo') = Len(todo) + Len(Ops(s))
  BY <1>2, <1>4, NewVisit
<1>6. Opens(y, s, now, Len(todo))
  BY <1>2, <1>4, <1>5 DEF Opens
<1>7. QED
  BY <1>5, <1>6

\* The caller goes on to its next call.
Enters(x, z) ==
  /\ z \in OpenType /\ z.visit = x.visit /\ z.depth = x.depth /\ z.done = x.done
  /\ z.busy = x.busy /\ z.kids = x.kids + 1
LEMMA SomeEntered ==
  ASSUME NEW x \in OpenType PROVE \E z : Enters(x, z)
<1> DEFINE z == [x EXCEPT !.kids = x.kids + 1]
<1>1. /\ z \in OpenType /\ z.visit = x.visit /\ z.depth = x.depth /\ z.done = x.done
      /\ z.busy = x.busy /\ z.kids = x.kids + 1
  BY DEF OpenType
<1> HIDE DEF z
<1>2. QED
  BY <1>1 DEF Enters

LEMMA EnteredSame ==
  ASSUME NEW x, NEW z, Enters(x, z)
  PROVE  OpCount(z) = OpCount(x) /\ CallsOf(z) = CallsOf(x) /\ OpDepth(z) = OpDepth(x) /\ \A c : Slot(z, c) = Slot(x, c)
<1>1. OpCount(z) = OpCount(x) /\ CallsOf(z) = CallsOf(x)
  BY DEF Enters, OpCount, CallsOf
<1>2. OpDepth(z) = OpDepth(x)
  BY <1>1 DEF Enters, OpDepth
<1>3. QED
  BY <1>1, <1>2 DEF Slot

LEMMA LeafCalls ==
  ASSUME AllocatorTypes, NEW x \in OpenType, NEW G, G \subseteq VisitType, Remains(x), Known(x, x.kids, G),
         AtCall(x), Prolonged, NEW now \in Int, scope <= now, scope' = now, scope \in Int,
         NEW items \in Seq(Todo), Advance(items), NEW z, Enters(x, z),
         NEW y, Opens(y, CallsOf(x)[x.kids + 1], now, Len(todo))
  PROVE  /\ Remains(z)' /\ Known(z, z.kids - 1, G)' /\ Calling(z, y)' /\ z.depth < y.depth
<1> DEFINE L == Len(todo)
           kids == x.kids
           done == x.done
           depth == x.depth
           N == OpCount(x)
           D == OpDepth(x)
           C == Len(CallsOf(x))
<1>1. /\ model \in Models /\ z \in OpenType /\ x.busy /\ kids < C /\ L = Slot(x, kids + 1)
      /\ kids \in Nat /\ done \in Nat /\ N \in Nat /\ depth \in Nat /\ done < N /\ z.busy
  BY OpenFacts DEF AllocatorTypes, Enters, AtCall, Remains
<1>2. C \in Nat /\ D \in Int
  BY <1>1, OpenFacts
<1>3. D = depth + N - done
  BY DEF OpDepth
<1>4. Slot(x, kids + 1) = D + C - (kids + 1) + 1 /\ Slot(x, kids + 2) = D + C - (kids + 2) + 1
  BY DEF Slot
<1>5. OpCount(z) = N /\ CallsOf(z) = CallsOf(x) /\ OpDepth(z) = D /\ \A c : Slot(z, c) = Slot(x, c)
  BY EnteredSame
<1>6. z.kids = kids + 1 /\ z.done = done /\ z.depth = depth /\ z.visit = x.visit
  BY DEF Enters
<1>7. Remains(z)
  <2>1. \A c \in z.kids + 1 .. C : c \in kids + 1 .. C
    BY <1>1, <1>2, <1>6
  <2> HIDE DEF kids, done, depth, N, D, C
  <2>2. /\ z.done <= OpCount(z)
        /\ From(z.depth) = OpStep("outputs", z.visit.sub, 0, 0)
        /\ \A o \in z.done + 1 .. OpCount(z) :
             From(z.depth + OpCount(z) - o + 1) =
               OpStep(IF z.busy /\ o = z.done + 1 THEN "used" ELSE "op", z.visit.sub, o, 0)
    BY <1>1, <1>5, <1>6 DEF Remains, N, done, depth
  <2>3. z.done < OpCount(z) /\ z.kids <= Len(CallsOf(z))
    BY <1>1, <1>2, <1>5, <1>6 DEF C
  <2>4. \A c \in kids + 1 .. C : From(Slot(x, c)) = Mark(CallsOf(x)[c], 1)
    BY <1>1 DEF Remains, kids, C
  <2>5. \A c \in z.kids + 1 .. Len(CallsOf(z)) : From(Slot(z, c)) = Mark(CallsOf(z)[c], 1)
    BY <1>5, <2>1, <2>4 DEF C
  <2>6. QED
    BY <2>2, <2>3, <2>5 DEF Remains
<1>8. Remains(z)'
  <2>1. \A d \in 1 .. L - 1 : From(d)' = From(d)
    BY PushFrom
  <2>2. L \in Int /\ Slot(z, z.kids + 1) < L
    <3>1. Slot(z, z.kids + 1) = Slot(x, kids + 2)
      <4>1. z.kids + 1 = kids + 2
        BY <1>1, <1>6
      <4>2. QED
        BY <1>5, <4>1
    <3> HIDE DEF kids, done, depth, N, D, C, L
    <3>2. QED
      BY <1>1, <1>2, <1>4, <3>1
  <2>3. model' = model
    BY DEF Prolonged
  <2>4. IF z.busy THEN Slot(z, z.kids + 1) < L ELSE OpDepth(z) < L
    BY <1>1, <2>2
  <2> HIDE DEF kids, done, depth, N, D, C, L
  <2>5. QED
    BY <1>1, <1>7, <2>1, <2>2, <2>3, <2>4, KeepsRemains
<1>9. Known(z, kids, G)
  <2>1. Known(x, kids, G)
    OBVIOUS
  <2> HIDE DEF kids
  <2>2. z.visit = x.visit /\ z.done = x.done /\ z.busy = x.busy
    BY DEF Enters
  <2>3. QED
    BY <2>1, <2>2 DEF Known
<1>10. Known(z, z.kids - 1, G)'
  <2>1. z.kids - 1 = kids /\ kids \in Int
    BY <1>1, <1>6
  <2>2. Known(z, kids, G)'
    BY <1>1, <1>9, <2>1, KeepsKnown
  <2> HIDE DEF kids
  <2>3. QED
    BY <2>1, <2>2
<1>11. Calling(z, y)'
  <2>1. y.depth = L /\ y.visit.sub = CallsOf(x)[kids + 1] /\ y.visit.lo = now
    BY DEF Opens
  <2>2. x.visit.at[done + 1] <= scope
    BY <1>1 DEF Known, OpBegun
  <2>3. x.visit.at[done + 1] \in Int
    <3>1. done + 1 \in Nat
      BY <1>1
    <3> HIDE DEF done
    <3>2. QED
      BY <1>1, <3>1, OpenFacts
  <2>4. x.visit.at[done + 1] <= now
    BY <2>2, <2>3
  <2>5. Slot(z, z.kids)' = Slot(x, kids + 1) /\ CallsOf(z)' = CallsOf(x)
    <3>1. CallsOf(z)' = CallsOf(z) /\ OpCount(z)' = OpCount(z)
      BY DEF Prolonged, CallsOf, OpCount, Ops
    <3>2. QED
      BY <1>5, <1>6, <3>1 DEF Slot, OpDepth
  <2>6. z.kids > 0
    BY <1>1, <1>6
  <2>7. QED
    BY <1>1, <1>6, <2>1, <2>4, <2>5, <2>6 DEF Calling
<1>12. z.depth < y.depth
  <2>1. y.depth = L
    BY DEF Opens
  <2> HIDE DEF kids, done, depth, N, D, C, L
  <2>2. QED
    BY <1>1, <1>2, <1>3, <1>4, <1>6, <2>1
<1>13. QED
  BY <1>8, <1>10, <1>11, <1>12

\* The step that begins a visit: what it does to the list and to the lives.
LEMMA InputsEffect ==
  ASSUME Types, Reaching(scope), 0 <= scope, MarkInputs, ~EndsAs("undefined"), todo[1].opens \in Nat
  PROVE  \E now \in Int, items \in Seq(Todo), s \in Subgraphs :
           /\ s = todo[1].subgraph /\ scope <= now /\ scope' = now /\ Advance(items) /\ Prolonged
           /\ now = scope + todo[1].opens
           /\ Reaching(now) /\ Reaching(scope)' /\ Len(Ops(s)) \in Nat
           /\ Len(items) = Len(Ops(s)) + 1
           /\ \A o \in 1 .. Len(Ops(s)) : items[o] = OpStep("op", s, o, 0)
           /\ items[Len(Ops(s)) + 1] = OpStep("outputs", s, 0, 0)
           /\ BornBy(InputNames(s), now)' /\ LastsTo(InputNames(s), now)'
<1>1. todo # <<>> /\ todo[1].do = "mark" /\ scope \in Int
  BY DEF MarkInputs, At, Types, AllocatorTypes
<1> DEFINE s == todo[1].subgraph
           items == OpItems(s)
<1>2. /\ s \in Subgraphs /\ items \in Seq(Todo) /\ Len(Ops(s)) \in Nat /\ Len(items) = Len(Ops(s)) + 1
      /\ \A o \in 1 .. Len(Ops(s)) : items[o] = OpStep("op", s, o, 0)
      /\ items[Len(Ops(s)) + 1] = OpStep("outputs", s, 0, 0)
  BY <1>1, VisitItems
<1>3. PICK names : names = InputNames(s)
  OBVIOUS
<1>4. PICK now \in Int : now = scope + todo[1].opens /\ names = InputNames(s)
  BY <1>1, <1>3
<1>5. scope <= now
  BY <1>1, <1>4
<1>6. Marks({}, now, Used(Created(infos, names, now), names, now), items)
  BY <1>4 DEF MarkInputs, InputNames, OpItems
<1> HIDE DEF s, items
<1>7. /\ scope' = now /\ Advance(items) /\ Reaching(now) /\ Reaching(scope)'
      /\ Prolonged /\ BornBy(names, now)' /\ LastsTo(names, now)'
  <2> DEFINE marked == Used(Created(infos, names, now), names, now)
  <2>1. marked = Used(Created(infos, names, now), names, now)
    OBVIOUS
  <2>2. Marks({}, now, marked, items)
    BY <1>6
  <2> HIDE DEF marked
  <2>3. QED
    BY <1>1, <1>5, <2>1, <2>2, MarksEffect
<1>8. PICK t : t = s
  OBVIOUS
<1>9. t \in Subgraphs /\ t = todo[1].subgraph
  BY <1>2, <1>8 DEF s
<1>10. BornBy(InputNames(t), now)' /\ LastsTo(InputNames(t), now)'
  <2>1. InputNames(t)' = names
    BY <1>4, <1>7, <1>8, ProlongedNames DEF Prolonged
  <2>2. QED
    BY <1>7, <2>1 DEF BornBy, LastsTo
<1>11. PICK l \in Seq(Todo) : l = items
  BY <1>2
<1>12. /\ Len(Ops(t)) \in Nat /\ Len(l) = Len(Ops(t)) + 1 /\ Advance(l)
       /\ \A o \in 1 .. Len(Ops(t)) : l[o] = OpStep("op", t, o, 0)
       /\ l[Len(Ops(t)) + 1] = OpStep("outputs", t, 0, 0)
  BY <1>2, <1>7, <1>8, <1>11
<1>13. QED
  BY <1>4, <1>5, <1>7, <1>9, <1>10, <1>12

\* The first visit begins.
LEMMA WalkFirst ==
  ASSUME Types, NEW base \in Nat, NEW W, NEW G, Walk(base, 0, W, G),
         MarkInputs, ~EndsAs("undefined")
  PROVE  \E Z : Walk(base, 1, Z, G)'
<1>1. AllocatorTypes /\ Reaching(scope) /\ 0 <= scope /\ scope \in Int
  BY DEF Types, AllocatorTypes, Walk
<1>2. todo[1] = Mark(1, 0) /\ Len(todo) = base + 1
  BY <1>1, LeafKind
<1>3. todo[1].opens = 0 /\ todo[1].subgraph = 1
  BY <1>2 DEF Mark
<1>4. PICK now \in Int, items \in Seq(Todo), s \in Subgraphs :
           /\ s = todo[1].subgraph /\ scope <= now /\ scope' = now /\ Advance(items) /\ Prolonged
           /\ now = scope + todo[1].opens
           /\ Reaching(now) /\ Reaching(scope)' /\ Len(Ops(s)) \in Nat
           /\ Len(items) = Len(Ops(s)) + 1
           /\ \A o \in 1 .. Len(Ops(s)) : items[o] = OpStep("op", s, o, 0)
           /\ items[Len(Ops(s)) + 1] = OpStep("outputs", s, 0, 0)
           /\ BornBy(InputNames(s), now)' /\ LastsTo(InputNames(s), now)'
  BY <1>1, <1>3, InputsEffect
<1>5. /\ \E y : Opens(y, s, now, Len(todo)) /\ Remains(y)' /\ Known(y, 0, G)' /\ Leading(y)'
      /\ Len(todo') = Len(todo) + Len(Ops(s))
  BY <1>1, <1>4, OpenVisit
<1>6. PICK y : Opens(y, s, now, Len(todo)) /\ Remains(y)' /\ Known(y, 0, G)' /\ Leading(y)'
  BY <1>5
<1>7. y \in OpenType /\ y.depth = base + 1 /\ y.visit.sub = 1 /\ y.kids = 0
  BY <1>2, <1>3, <1>4, <1>6 DEF Opens
<1>8. OpenType' = OpenType /\ y.visit.sub' = y.visit.sub
  BY <1>4, ProlongedNames DEF Prolonged, OpenType
<1>9. PICK Z : Z = [k \in 1 .. 1 |-> y]
  OBVIOUS
<1>10. Z[1] = y /\ 1 .. 1 = {1}
  BY <1>9
<1>11. base < Len(todo')
  BY <1>2, <1>4, <1>5
<1>12. Complete(G)' /\ (\A g \in G : g.hi <= scope') /\ Below(base)'
  <2>1. scope' \in Int /\ scope <= scope'
    BY <1>4
  <2>2. QED
    BY <1>1, <1>4, <1>11, <2>1, WalkRest
<1>13. scope' >= 0 /\ Reaching(scope)'
  BY <1>1, <1>4
<1>14. \A k \in 1 .. 1 : Z[k] \in OpenType' /\ Remains(Z[k])' /\ Known(Z[k], IF k = 1 THEN Z[k].kids ELSE Z[k].kids - 1, G)'
  BY <1>6, <1>7, <1>8, <1>10
<1>15. Z[1].depth = base + 1 /\ Z[1].visit.sub = 1 /\ Leading(Z[1])'
  BY <1>6, <1>7, <1>10
<1>16. Walk(base, 1, Z, G)'
  BY <1>10, <1>12, <1>13, <1>14, <1>15 DEF Walk
<1>17. QED
  BY <1>16

\* A called subgraph is entered.
LEMMA WalkCalls ==
  ASSUME Types, NEW base \in Nat, NEW n \in Nat, n > 0, NEW W, NEW G, Walk(base, n, W, G),
         MarkInputs, ~EndsAs("undefined")
  PROVE  \E Z : Walk(base, n + 1, Z, G)'
<1>1. AllocatorTypes /\ Reaching(scope) /\ 0 <= scope /\ scope \in Int /\ todo[1].do = "mark"
  BY DEF Types, AllocatorTypes, Walk, MarkInputs, At
<1>2. PICK x : x = W[n]
  OBVIOUS
<1>3. /\ x \in OpenType /\ Remains(x) /\ Known(x, x.kids, G) /\ base < x.depth /\ x.depth <= Len(todo) /\ AtCall(x)
      /\ x.depth \in Nat
  <2>1. Leaf(x, base, G)
    BY <1>1, <1>2, LeafKind
  <2>2. QED
    BY <1>1, <2>1 DEF Leaf
<1>4. todo[1].opens = 1 /\ todo[1].subgraph = CallsOf(x)[x.kids + 1]
  BY <1>3 DEF AtCall, Mark
<1>5. PICK now \in Int, items \in Seq(Todo), s \in Subgraphs :
           /\ s = todo[1].subgraph /\ scope <= now /\ scope' = now /\ Advance(items) /\ Prolonged
           /\ now = scope + todo[1].opens
           /\ Reaching(now) /\ Reaching(scope)' /\ Len(Ops(s)) \in Nat
           /\ Len(items) = Len(Ops(s)) + 1
           /\ \A o \in 1 .. Len(Ops(s)) : items[o] = OpStep("op", s, o, 0)
           /\ items[Len(Ops(s)) + 1] = OpStep("outputs", s, 0, 0)
           /\ BornBy(InputNames(s), now)' /\ LastsTo(InputNames(s), now)'
  BY <1>1, <1>4, InputsEffect
<1>6. /\ \E y : Opens(y, s, now, Len(todo)) /\ Remains(y)' /\ Known(y, 0, G)' /\ Leading(y)'
      /\ Len(todo') = Len(todo) + Len(Ops(s))
  BY <1>1, <1>5, OpenVisit
<1>7. PICK y : Opens(y, s, now, Len(todo)) /\ Remains(y)' /\ Known(y, 0, G)' /\ Leading(y)'
  BY <1>6
<1>8. PICK z : Enters(x, z)
  BY <1>3, SomeEntered
<1>9. G \subseteq VisitType
  BY DEF Walk, Complete
<1>10. Remains(z)' /\ Known(z, z.kids - 1, G)' /\ Calling(z, y)' /\ z.depth < y.depth
  <2>1. Opens(y, CallsOf(x)[x.kids + 1], now, Len(todo))
    BY <1>4, <1>5, <1>7
  <2>2. QED
    BY <1>1, <1>3, <1>5, <1>8, <1>9, <2>1, LeafCalls
<1>11. z \in OpenType /\ z.depth = x.depth /\ z.visit = x.visit /\ y \in OpenType /\ y.kids = 0
  BY <1>7, <1>8 DEF Enters, Opens
<1>12. PICK Z : Z = [k \in 1 .. n + 1 |-> IF k = n THEN z ELSE IF k = n + 1 THEN y ELSE W[k]]
  OBVIOUS
<1>13. PICK p \in Nat, m \in Nat : p + 1 = n /\ m = n + 1
  <2>1. n - 1 \in Nat /\ n + 1 \in Nat /\ (n - 1) + 1 = n
    OBVIOUS
  <2>2. QED
    BY <2>1
<1>14. /\ \A k \in 1 .. p : Z[k] = W[k]
       /\ Z[n] = z /\ Z[m] = y /\ p < n /\ p < m /\ n < m
       /\ \A k \in p + 1 .. m : k = n \/ k = m
  BY <1>12, <1>13
<1>15. base < Len(todo')
  <2>1. base < Len(todo) /\ Len(todo) \in Nat
    BY DEF Walk, Below
  <2>2. QED
    BY <1>5, <1>6, <2>1
<1>16. Complete(G)' /\ (\A g \in G : g.hi <= scope')
  <2>1. scope' \in Int /\ scope <= scope'
    BY <1>5
  <2>2. QED
    BY <1>1, <1>5, <2>1, WalkRest
<1>17. \A k \in p + 1 .. m : Z[k] \in OpenType /\ Remains(Z[k])' /\ Known(Z[k], IF k = m THEN Z[k].kids ELSE Z[k].kids - 1, G)'
  <2> TAKE k \in p + 1 .. m
  <2>1. CASE k = m
    BY <1>7, <1>11, <1>14, <2>1
  <2>2. CASE k = n
    BY <1>10, <1>11, <1>14, <2>2
  <2>3. QED
    BY <1>14, <2>1, <2>2
<1>18. \A j, k \in p + 1 .. m : j < k => Z[j].depth < Z[k].depth
  <2> TAKE j, k \in p + 1 .. m
  <2> HAVE j < k
  <2>1. j = n /\ k = m
    BY <1>13, <1>14
  <2>2. QED
    BY <1>10, <1>14, <2>1
<1>19. \A k \in p + 1 .. m : k < m => Calling(Z[k], Z[k + 1])'
  <2> TAKE k \in p + 1 .. m
  <2> HAVE k < m
  <2>1. k = n /\ k + 1 = m
    BY <1>13, <1>14
  <2>2. QED
    BY <1>10, <1>14, <2>1
<1>20. Leading(Z[m])'
  BY <1>7, <1>14
<1>21. Z[p + 1].depth = W[p + 1].depth /\ Z[p + 1].visit.sub = W[p + 1].visit.sub /\ Z[p + 1].visit.lo = W[p + 1].visit.lo
  BY <1>2, <1>11, <1>13, <1>14
<1>22. scope' \in Int /\ scope <= scope' /\ Reaching(scope') /\ Reaching(scope)'
  BY <1>5
<1>23. Walk(base, m, Z, G)'
  <2>1. p < n /\ p < m /\ G \subseteq G /\ \A k \in 1 .. p : Z[k] = W[k]
    BY <1>14
  <2>2. AllocatorTypes /\ Prolonged /\ Advance(items)
    BY <1>1, <1>5
  <2>3. QED
    BY <1>15, <1>16, <1>17, <1>18, <1>19, <1>20, <1>21, <1>22, <2>1, <2>2, WalkOn
<1>24. QED
  BY <1>13, <1>23

\* The marking is over: subgraph 1 was visited, and everything that was.
Told(G) == Complete(G) /\ \E g \in G : g.sub = 1
Timed == (\A i \in DOMAIN todo : Deciding(todo[i]) \/ Trailing(todo[i])) /\ \E G : Told(G)

\* The caller knows that one more of its calls is over.
LEMMA CallOver ==
  ASSUME Types, NEW base \in Nat, NEW n \in Nat, n > 1, NEW W, NEW G, Walk(base, n, W, G), NEW H, G \subseteq H,
         Prolonged, NEW now \in Int, scope <= now, scope' = now, Advance(<<>>),
         NEW x, x = W[n], Len(todo) = x.depth, NEW g, g \in H, Closes(x.visit, now, g),
         NEW c, c = W[n - 1]
  PROVE  /\ c \in OpenType /\ c.depth < x.depth /\ base < c.depth /\ c.depth \in Nat
         /\ Remains(c)' /\ Known(c, c.kids, H)' /\ Leading(c)'
<1>1. /\ AllocatorTypes /\ n - 1 \in 1 .. n /\ n - 1 < n /\ (n - 1) + 1 = n /\ <<>> \in Seq(Todo) /\ model \in Models
      /\ n - 1 \in Nat /\ n - 1 > 0 /\ n \in 1 .. n /\ 1 \in 1 .. n
  BY DEF Types, AllocatorTypes
<1>2. c \in OpenType /\ x \in OpenType /\ Calling(c, x) /\ x.depth <= Len(todo)
  <2>1. PICK k \in 1 .. n : k = n - 1 /\ k < n /\ k + 1 = n
    BY <1>1
  <2>2. c = W[k] /\ x = W[k + 1]
    BY <2>1
  <2>3. W[k] \in OpenType /\ Calling(W[k], W[k + 1])
    BY <2>1 DEF Walk
  <2>4. W[n] \in OpenType
    BY <1>1 DEF Walk
  <2>5. QED
    BY <1>1, <2>2, <2>3, <2>4
<1>3. scope' \in Int /\ scope <= scope'
  OBVIOUS
<1>4. Remains(c)' /\ Known(c, c.kids - 1, H)' /\ Calling(c, x)'
  <2>1. PICK k \in 1 .. n : k = n - 1 /\ k < n
    BY <1>1
  <2>2. /\ Remains(W[k])' /\ Known(W[k], W[k].kids - 1, H)' 
        /\ \A y : Calling(W[k], y) => Calling(W[k], y)'
    BY <1>1, <1>3, <2>1, WalkRest
  <2>3. c = W[k]
    BY <2>1
  <2>4. QED
    BY <1>2, <2>2, <2>3
<1>5. c.depth < x.depth /\ base < c.depth /\ c.depth \in Nat
  <2>1. PICK k \in 1 .. n : k = n - 1 /\ k < n /\ (1 < k \/ k = 1)
    BY <1>1
  <2>2. W[k].depth < W[n].depth /\ W[1].depth = base + 1 /\ (1 < k => W[1].depth < W[k].depth)
    BY <1>1, <2>1 DEF Walk
  <2>3. c = W[k]
    BY <2>1
  <2>4. c.depth \in Nat
    BY <1>1, <1>2, OpenFacts
  <2>5. PICK d, e : d = c.depth /\ e = W[1].depth
    OBVIOUS
  <2>6. d \in Nat /\ e = base + 1 /\ (e < d \/ e = d)
    BY <2>1, <2>2, <2>3, <2>4, <2>5
  <2>7. base < d
    BY <2>6
  <2>8. QED
    BY <2>2, <2>3, <2>4, <2>5, <2>7
<1> DEFINE kids == c.kids
           o == c.done + 1
           v == c.visit
           D == OpDepth(c)
           C == Len(CallsOf(c))
<1>6. /\ c.busy /\ kids > 0 /\ kids \in Nat /\ x.depth = Slot(c, kids) /\ x.visit.sub = CallsOf(c)[kids]
      /\ v.at[o] <= x.visit.lo /\ c.done < OpCount(c) /\ kids <= C /\ o \in Nat
  <2>1. Remains(c)
    <3>1. PICK k \in 1 .. n : k = n - 1
      BY <1>1
    <3>2. Remains(W[k])
      BY <3>1 DEF Walk
    <3>3. QED
      BY <3>1, <3>2
  <2>2. c.kids \in Nat /\ c.done \in Nat
    BY <1>1, <1>2, OpenFacts
  <2>3. QED
    BY <1>2, <2>1, <2>2 DEF Calling, Remains
<1>7. C \in Nat /\ D \in Int /\ CallsOf(c) = Ops(v.sub)[o].calls
  BY <1>1, <1>2, <1>6, OpenFacts DEF CallsOf
<1>8. CallsOf(c)' = CallsOf(c) /\ OpDepth(c)' = D /\ Ops(v.sub)' = Ops(v.sub)
  BY <1>7 DEF CallsOf, OpDepth, OpCount, Ops, Prolonged
<1>9. Known(c, kids, H)'
  <2>1. Known(c, kids - 1, H)'
    BY <1>4
  <2>2. /\ g.sub = CallsOf(c)[kids] /\ v.at[o] <= g.lo /\ g.hi <= scope'
    BY <1>6 DEF Closes
  <2>3. Within(H, CallsOf(c)[kids], v.at[o], scope')
    BY <2>2 DEF Within
  <2>4. OpBegun(v, o, kids - 1, H)'
    BY <1>6, <2>1 DEF Known
  <2>5. \A k \in 1 .. kids : k \in 1 .. kids - 1 \/ k = kids
    BY <1>6
  <2> HIDE DEF kids, o, v, C, D
  <2>6. OpBegun(v, o, kids, H)'
    <3>1. \A k \in 1 .. kids - 1 : Within(H, Ops(v.sub)[o].calls[k], v.at[o], scope')
      BY <1>8, <2>4 DEF OpBegun
    <3>2. \A k \in 1 .. kids : Within(H, Ops(v.sub)[o].calls[k], v.at[o], scope')
      BY <1>7, <2>3, <2>5, <3>1
    <3>3. QED
      BY <1>8, <2>4, <3>2 DEF OpBegun
  <2>7. QED
    BY <2>1, <2>6 DEF Known, v, o
<1>10. Leading(c)'
  <2>1. Len(todo') = Len(todo) - 1 + Len(<<>>)
    BY <1>1, PushFrom
  <2>2. Len(<<>>) = 0 /\ x.depth \in Nat
    BY <1>1, <1>2, OpenFacts
  <2>3. Len(todo') = x.depth - 1
    BY <2>1, <2>2
  <2>4. Slot(c, kids) = D + C - kids + 1 /\ Slot(c, kids + 1)' = D + C - (kids + 1) + 1
    BY <1>8 DEF Slot
  <2> HIDE DEF kids, D, C
  <2>5. D + C - (kids + 1) + 1 = (D + C - kids + 1) - 1
    BY <1>6, <1>7
  <2>6. Len(todo') = Slot(c, kids + 1)'
    BY <1>6, <2>3, <2>4, <2>5
  <2>7. c.busy
    BY <1>6
  <2>8. QED
    BY <2>6, <2>7 DEF Leading, kids
<1>11. QED
  BY <1>2, <1>4, <1>5, <1>9, <1>10

\* A subgraph is left: the first one ends the marking.
LEMMA WalkCloses ==
  ASSUME Types, NEW base \in Nat, NEW n \in Nat, NEW W, NEW G, Walk(base, n, W, G),
         MarkOutputs, ~EndsAs("undefined")
  PROVE  Timed' \/ \E m \in Nat : \E Z, H : Walk(base, m, Z, H)'
<1>1. /\ AllocatorTypes /\ Reaching(scope) /\ 0 <= scope /\ scope \in Int /\ todo # <<>> /\ todo[1].do = "outputs"
      /\ model \in Models /\ <<>> \in Seq(Todo)
  BY DEF Types, AllocatorTypes, Walk, MarkOutputs, At
<1>2. PICK x : x = W[n]
  OBVIOUS
<1>3. /\ x \in OpenType /\ Remains(x) /\ Known(x, x.kids, G) /\ base < x.depth /\ n > 0
      /\ x.depth \in Nat /\ ~x.busy /\ x.done = OpCount(x) /\ todo[1] = OpStep("outputs", x.visit.sub, 0, 0)
      /\ Len(todo) = x.depth
  <2>1. Leaf(x, base, G) /\ n > 0
    BY <1>1, <1>2, LeafKind
  <2>2. QED
    BY <1>1, <2>1 DEF Leaf, AtOutputs
<1>4. todo[1].subgraph = x.visit.sub
  BY <1>3 DEF OpStep
<1>5. PICK names : names = OutputNames(x.visit.sub)
  OBVIOUS
<1>6. PICK now \in Int : now = scope /\ names = OutputNames(x.visit.sub)
  BY <1>1, <1>5
<1>7. Marks({}, now, Used(Created(infos, names, now), names, now), <<>>)
  BY <1>4, <1>6 DEF MarkOutputs, OutputNames
<1>8. /\ scope' = now /\ Advance(<<>>) /\ Reaching(now) /\ Reaching(scope)'
      /\ Prolonged /\ BornBy(names, now)' /\ LastsTo(names, now)'
  <2> DEFINE marked == Used(Created(infos, names, now), names, now)
  <2>1. marked = Used(Created(infos, names, now), names, now)
    OBVIOUS
  <2>2. Marks({}, now, marked, <<>>)
    BY <1>7
  <2>3. scope <= now
    BY <1>6
  <2> HIDE DEF marked
  <2>4. QED
    BY <1>1, <2>1, <2>2, <2>3, MarksEffect
<1>9. BornBy(OutputNames(x.visit.sub), now)' /\ LastsTo(OutputNames(x.visit.sub), now)'
  <2>1. OutputNames(x.visit.sub)' = names
    BY <1>6, <1>8, ProlongedNames DEF Prolonged
  <2>2. QED
    BY <1>8, <2>1 DEF BornBy, LastsTo
<1>10. x.visit \in VisitType /\ Complete(G) /\ \A g \in G : g.hi <= scope
  BY <1>1, <1>3, OpenFacts DEF Walk
<1>11. PICK g : Closes(x.visit, now, g)
  BY <1>10, SomeClosed
<1>12. PICK H : H = G \cup {g}
  OBVIOUS
<1>13. g \in VisitType /\ g \in H /\ G \subseteq H /\ g.sub = x.visit.sub /\ g.hi = now
  BY <1>11, <1>12 DEF Closes
<1>14. Complete(H)'
  <2>1. Visited(g, Len(Ops(g.sub)), G) /\ Finished(g)'
    BY <1>1, <1>3, <1>6, <1>8, <1>9, <1>11, ClosedVisit
  <2>2. QED
    BY <1>1, <1>8, <1>10, <1>12, <1>13, <2>1, OneVisited
<1>15. \A h \in H : h.hi <= scope'
  <2>1. \A h \in G : h.hi <= now
    BY <1>6, <1>10
  <2>2. g.hi <= now
    BY <1>13
  <2>3. QED
    BY <1>8, <1>12, <2>1, <2>2
<1>16. Len(todo') = x.depth - 1
  <2>1. Len(todo') = Len(todo) - 1 + Len(<<>>)
    BY <1>1, <1>8, PushFrom
  <2>2. Len(<<>>) = 0
    OBVIOUS
  <2>3. QED
    BY <1>3, <2>1, <2>2
<1>17. CASE n = 1
  <2>1. x.depth = base + 1 /\ x.visit.sub = 1
    BY <1>2, <1>17 DEF Walk
  <2>2. Len(todo') = base
    BY <1>16, <2>1
  <2>3. \A i \in DOMAIN todo' : Deciding(todo'[i]) \/ Trailing(todo'[i])
    <3>1. todo' \in Seq(Todo)
      BY <1>1, <1>8, TodoFacts, Joined DEF Advance
    <3>2. DOMAIN todo' = 1 .. base
      BY <2>2, <3>1
    <3>3. \A d \in 1 .. base : Deciding(From(d)) \/ Trailing(From(d))
      BY DEF Walk, Below
    <3>4. \A d \in 1 .. Len(todo) - 1 : From(d)' = From(d)
      BY <1>1, <1>8, PushFrom
    <3>5. \A d \in 1 .. base : d \in 1 .. Len(todo) - 1
      BY <1>3, <2>1
    <3> TAKE i \in DOMAIN todo'
    <3>6. base + 1 - i \in 1 .. base /\ base + 1 - (base + 1 - i) = i
      BY <3>2
    <3>7. PICK d \in 1 .. base : d = base + 1 - i /\ base + 1 - d = i
      BY <3>6
    <3>8. From(d)' = todo'[i]
      BY <2>2, <3>7 DEF From
    <3>9. QED
      BY <3>3, <3>4, <3>5, <3>8
  <2>4. Told(H)'
    BY <1>13, <1>14, <2>1 DEF Told
  <2>5. QED
    BY <2>3, <2>4 DEF Timed
<1>18. CASE n > 1
  <2>1. PICK c : c = W[n - 1]
    OBVIOUS
  <2>2. scope <= now /\ n - 1 \in Nat
    BY <1>3, <1>6
  <2>3. /\ c \in OpenType /\ c.depth < x.depth /\ base < c.depth /\ c.depth \in Nat
        /\ Remains(c)' /\ Known(c, c.kids, H)' /\ Leading(c)'
    BY <1>2, <1>3, <1>8, <1>11, <1>13, <1>18, <2>1, <2>2, CallOver
  <2>4. base < Len(todo')
    BY <1>3, <1>16, <2>3
  <2>5. PICK p \in Nat, m \in Nat : p + 1 = m /\ m + 1 = n
    <3>1. n - 2 \in Nat /\ n - 1 \in Nat /\ (n - 2) + 1 = n - 1 /\ (n - 1) + 1 = n
      BY <1>18
    <3>2. QED
      BY <3>1
  <2>6. p < n /\ p < m /\ m = n - 1 /\ G \subseteq H /\ p + 1 = m
    BY <1>13, <2>5
  <2>7. \A k \in p + 1 .. m : k = m
    BY <2>5
  <2>8. c = W[m]
    BY <2>1, <2>6
  <2>9. \A k \in p + 1 .. m : W[k] \in OpenType /\ Remains(W[k])' /\ Known(W[k], IF k = m THEN W[k].kids ELSE W[k].kids - 1, H)'
    <3> TAKE k \in p + 1 .. m
    <3>1. k = m /\ W[k] = c
      BY <2>7, <2>8
    <3>2. QED
      BY <2>3, <3>1
  <2>10. /\ \A j, k \in p + 1 .. m : j < k => W[j].depth < W[k].depth
         /\ \A k \in p + 1 .. m : k < m => Calling(W[k], W[k + 1])'
    <3>1. \A j, k \in p + 1 .. m : ~(j < k)
      BY <2>7
    <3>2. \A k \in p + 1 .. m : ~(k < m)
      BY <2>7
    <3>3. QED
      BY <3>1, <3>2
  <2>11. Leading(W[m])'
    BY <2>3, <2>8
  <2>12. scope' \in Int /\ scope <= scope' /\ Reaching(scope') /\ Reaching(scope)'
    BY <1>8, <2>2
  <2>13. <<>> \in Seq(Todo) /\ Advance(<<>>)
    BY <1>1, <1>8
  <2>14. Walk(base, m, W, H)'
    BY <1>1, <1>8, <1>14, <1>15, <2>4, <2>6, <2>9, <2>10, <2>11, <2>12, <2>13, WalkOn
  <2>15. QED
    BY <2>14
<1>19. QED
  BY <1>3, <1>17, <1>18

-----------------------------------------------------------------------------
(* What comes before the lifetimes, and what behind the plan.              *)

FrontItem ==
  {x \in Item : /\ x.do \notin {"lifetimes", "plan", "reset"}
                /\ x.do = "persistent" /\ IsTensor(x.name) => x.name \in Variables}

LEMMA FrontKinds ==
  /\ \A x \in Kinds \ {"tensor"}, a, b, bytes \in Nat, align \in Nat \ {0},
        null \in {"undefined", "null", "error", "later"} :
       Persistent(<<x, a, b>>, bytes, align, null) \in FrontItem
  /\ \A a, b, bytes \in Nat, null \in {"undefined", "error"} :
       a # 0 \/ b = 0 => Temporary(<<"temp", a, b>>, bytes, null) \in FrontItem
  /\ \A do \in {"start", "requests", "handles", "info"} : Step(do) \in FrontItem
  /\ \A do \in {"prepare", "scratch", "free", "finish"}, s \in Subgraphs, b \in Nat :
       \A o \in DOMAIN Ops(s) : o \in Nat => OpStep(do, s, o, b) \in FrontItem
<1>1. ASSUME NEW x \in Kinds \ {"tensor"}, NEW a \in Nat, NEW b \in Nat, NEW bytes \in Nat, NEW align \in Nat \ {0},
             NEW null \in {"undefined", "null", "error", "later"}
      PROVE  Persistent(<<x, a, b>>, bytes, align, null) \in FrontItem
  <2> DEFINE n == <<x, a, b>>
             i == Persistent(n, bytes, align, null)
  <2>1. i \in Item
    BY PersistentItem
  <2>2. i.do = "persistent" /\ i.name = n
    BY DEF Persistent
  <2>3. ~IsTensor(n)
    BY DEF IsTensor
  <2> HIDE DEF n, i
  <2>4. i \in FrontItem
    BY <2>1, <2>2, <2>3 DEF FrontItem
  <2>5. QED
    BY <2>4 DEF i, n
<1>2. ASSUME NEW a \in Nat, NEW b \in Nat, NEW bytes \in Nat, NEW null \in {"undefined", "error"}, a # 0 \/ b = 0
      PROVE  Temporary(<<"temp", a, b>>, bytes, null) \in FrontItem
  <2> DEFINE i == Temporary(<<"temp", a, b>>, bytes, null)
  <2>1. i \in Item /\ i.do = "temp"
    BY <1>2, TemporaryItem DEF Temporary
  <2> HIDE DEF i
  <2>2. i \in FrontItem
    BY <2>1 DEF FrontItem
  <2>3. QED
    BY <2>2 DEF i
<1>3. ASSUME NEW do \in {"start", "requests", "handles", "info"}
      PROVE  Step(do) \in FrontItem
  <2>1. Step(do) \in Item /\ Step(do).do = do
    BY StepItem DEF Step
  <2>2. QED
    BY <2>1 DEF FrontItem
<1>4. ASSUME NEW do \in {"prepare", "scratch", "free", "finish"}, NEW s \in Subgraphs, NEW b \in Nat,
             NEW o \in DOMAIN Ops(s), o \in Nat
      PROVE  OpStep(do, s, o, b) \in FrontItem
  <2>1. OpStep(do, s, o, b) \in Item /\ OpStep(do, s, o, b).do = do
    BY <1>4, OpItem DEF OpStep
  <2>2. QED
    BY <2>1 DEF FrontItem
<1>5. QED
  BY <1>1, <1>2, <1>3, <1>4

LEMMA StartFront ==
  ASSUME model \in Models
  PROVE  StartModel \in Seq(FrontItem)
<1> DEFINE evalBytes(s) == SizeOf.TfLiteEvalTensor * Len(model[s].tensors)
           nodeBytes(s) == SizeOf.NodeAndRegistration * Len(Ops(s))
           bytes == SizeOf.SubgraphAllocations * Len(model)
           evals == [s \in Subgraphs |-> Persistent(<<"eval", s, 0>>, evalBytes(s), 1, "null")]
           nodes == [s \in Subgraphs |-> Persistent(<<"nodes", s, 0>>, nodeBytes(s), 1, "null")]
           front == <<Persistent(<<"builtin", 0, 0>>, SizeOf.MicroBuiltinDataAllocator, 1, "undefined"),
                      Step("requests"), Persistent(<<"subgraphs", 0, 0>>, bytes, 1, "null")>>
<1>1. StartModel = front \o evals \o nodes
  BY DEF StartModel
<1>2. bytes \in Nat /\ \A s \in Subgraphs : s \in Nat /\ evalBytes(s) \in Nat /\ nodeBytes(s) \in Nat
  BY ArrayBytes
<1> HIDE DEF evalBytes, nodeBytes, bytes
<1>0. {"builtin", "subgraphs", "eval", "nodes"} \subseteq Kinds \ {"tensor"} /\ SizeOf.MicroBuiltinDataAllocator \in Nat
  BY SizeFacts DEF Kinds
<1>3. front \in Seq(FrontItem)
  <2>1. /\ Persistent(<<"builtin", 0, 0>>, SizeOf.MicroBuiltinDataAllocator, 1, "undefined") \in FrontItem
        /\ Step("requests") \in FrontItem
        /\ Persistent(<<"subgraphs", 0, 0>>, bytes, 1, "null") \in FrontItem
    BY <1>0, <1>2, FrontKinds
  <2>2. QED
    BY <2>1
<1>4. evals \in Seq(FrontItem) /\ nodes \in Seq(FrontItem)
  <2>1. /\ evals = [s \in 1 .. Len(model) |-> evals[s]]
        /\ nodes = [s \in 1 .. Len(model) |-> nodes[s]]
    BY ModelFacts
  <2>2. \A s \in Subgraphs : /\ Persistent(<<"eval", s, 0>>, evalBytes(s), 1, "null") \in FrontItem
                            /\ Persistent(<<"nodes", s, 0>>, nodeBytes(s), 1, "null") \in FrontItem
    BY <1>0, <1>2, FrontKinds
  <2>3. \A s \in Subgraphs : evals[s] \in FrontItem /\ nodes[s] \in FrontItem
    BY <2>2
  <2> HIDE DEF evals, nodes
  <2>4. QED
    BY <2>1, <2>3, ModelFacts, ListOf
<1> HIDE DEF front, evals, nodes
<1>5. QED
  BY <1>1, <1>3, <1>4, ConcatProperties

LEMMA InitFront ==
  ASSUME model \in Models
  PROVE  InitOps \in Seq(FrontItem)
<1> DEFINE p(s, o) == OnlyIf(Ops(s)[o].params # 0, Persistent(<<"params", s, o>>, Ops(s)[o].params, 1, "error"))
           d(s, o) == OnlyIf(Ops(s)[o].data # 0, Persistent(<<"data", s, o>>, Ops(s)[o].data, BufferAlign, "later"))
           ps == [s \in Subgraphs |-> [o \in DOMAIN Ops(s) |-> p(s, o)]]
           ds == [s \in Subgraphs |-> [o \in DOMAIN Ops(s) |-> d(s, o)]]
<1>0. {"params", "data"} \subseteq Kinds \ {"tensor"} /\ BufferAlign \in Nat \ {0}
  BY ArenaAssumption DEF Kinds
<1>1. ASSUME NEW s \in Subgraphs, NEW o \in DOMAIN Ops(s)
      PROVE  p(s, o) \in Seq(FrontItem) /\ d(s, o) \in Seq(FrontItem)
  <2>1. s \in Nat /\ o \in Nat
    BY ModelFacts
  <2> HIDE DEF p, d, ps, ds
  <2>0. Ops(s)[o].params \in Nat /\ Ops(s)[o].data \in Nat
    BY OpFacts
  <2>2. /\ Persistent(<<"params", s, o>>, Ops(s)[o].params, 1, "error") \in FrontItem
        /\ Persistent(<<"data", s, o>>, Ops(s)[o].data, BufferAlign, "later") \in FrontItem
    BY <1>0, <2>0, <2>1, FrontKinds
  <2>3. QED
    BY <2>2, OneOrNone DEF p, d
<1>2. /\ \A s \in Subgraphs : \A o \in DOMAIN Ops(s) : ps[s][o] \in Seq(FrontItem) /\ ds[s][o] \in Seq(FrontItem)
      /\ \A s \in Subgraphs : ps[s] = [o \in DOMAIN Ops(s) |-> ps[s][o]] /\ ds[s] = [o \in DOMAIN Ops(s) |-> ds[s][o]]
  <2> HIDE DEF p, d
  <2>1. QED
    BY <1>1
<1>3. InitOps = FlattenSeq([s \in Subgraphs |-> FlattenSeq(ps[s])]) \o FlattenSeq([s \in Subgraphs |-> FlattenSeq(ds[s])])
  BY DEF InitOps, PerOp
<1> HIDE DEF ps, ds
<1>4. QED
  BY <1>2, <1>3, PerOpType, ConcatProperties

LEMMA PrepareFront ==
  ASSUME model \in Models
  PROVE  PrepareOps \in Seq(FrontItem)
<1> DEFINE calls(s, o) == [k \in DOMAIN Ops(s)[o].prepare |-> KernelCall(s, o, k)]
           items(s, o) == <<OpStep("prepare", s, o, 0)>> \o calls(s, o) \o <<OpStep("finish", s, o, 0)>>
           all == [s \in Subgraphs |-> [o \in DOMAIN Ops(s) |-> items(s, o)]]
<1>0. "extra" \in Kinds \ {"tensor"} /\ BufferAlign \in Nat \ {0} /\ SizeOf.TfLiteTensor \in Nat
  BY ArenaAssumption, SizeFacts DEF Kinds
<1>1. ASSUME NEW s \in Subgraphs, NEW o \in DOMAIN Ops(s), NEW k \in DOMAIN Ops(s)[o].prepare
      PROVE  KernelCall(s, o, k) \in FrontItem
  <2> DEFINE call == Ops(s)[o].prepare[k]
  <2>1. /\ s \in Nat /\ o \in Nat \ {0}
        /\ Ops(s)[o].prepare \in Seq(CallType)
    BY ModelFacts, OpFacts
  <2>2. call \in CallType /\ k \in Nat
    BY <2>1
  <2> HIDE DEF call
  <2>3. 10 * s + k \in Nat
    BY <2>1, <2>2
  <2>4. call.call \in {"temp", "persistent", "scratch", "free"} /\ call.bytes \in Nat
    BY <2>2 DEF CallType
  <2> DEFINE b == 10 * s + k
  <2> HIDE DEF b
  <2>5. Temporary(<<"temp", o, b>>, SizeOf.TfLiteTensor, "undefined") \in FrontItem
    BY <1>0, <2>1, <2>3, FrontKinds DEF b
  <2>6. Persistent(<<"extra", o, b>>, call.bytes, BufferAlign, "undefined") \in FrontItem
    BY <1>0, <2>1, <2>3, <2>4, FrontKinds DEF b
  <2>7. call.call \in {"scratch", "free"} => OpStep(call.call, s, o, call.bytes) \in FrontItem
    BY <2>1, <2>4, FrontKinds
  <2>8. \/ KernelCall(s, o, k) \in {Temporary(<<"temp", o, b>>, SizeOf.TfLiteTensor, "undefined"),
                                    Persistent(<<"extra", o, b>>, call.bytes, BufferAlign, "undefined")}
        \/ call.call \in {"scratch", "free"} /\ KernelCall(s, o, k) = OpStep(call.call, s, o, call.bytes)
    BY <2>4 DEF KernelCall, call, b
  <2>9. QED
    BY <2>5, <2>6, <2>7, <2>8
<1>2. ASSUME NEW s \in Subgraphs, NEW o \in DOMAIN Ops(s)
      PROVE  items(s, o) \in Seq(FrontItem)
  <2>1. Ops(s)[o].prepare \in Seq(CallType)
    BY OpFacts
  <2>2. /\ Len(Ops(s)[o].prepare) \in Nat
        /\ DOMAIN Ops(s)[o].prepare = 1 .. Len(Ops(s)[o].prepare)
    BY <2>1
  <2> DEFINE c == calls(s, o)
  <2>3. c = [k \in 1 .. Len(Ops(s)[o].prepare) |-> c[k]] /\ \A k \in 1 .. Len(Ops(s)[o].prepare) : c[k] \in FrontItem
    BY <1>1, <2>2
  <2> HIDE DEF c
  <2>4. c \in Seq(FrontItem)
    BY <2>2, <2>3, ListOf
  <2>5. o \in Nat
    BY OpFacts
  <2>6. OpStep("prepare", s, o, 0) \in FrontItem /\ OpStep("finish", s, o, 0) \in FrontItem
    BY <2>5, FrontKinds
  <2>7. <<OpStep("prepare", s, o, 0)>> \in Seq(FrontItem) /\ <<OpStep("finish", s, o, 0)>> \in Seq(FrontItem)
    BY <2>6
  <2>8. <<OpStep("prepare", s, o, 0)>> \o c \o <<OpStep("finish", s, o, 0)>> \in Seq(FrontItem)
    BY <2>4, <2>7, ConcatProperties
  <2>9. QED
    BY <2>8 DEF c
<1>3. PrepareOps = FlattenSeq([s \in Subgraphs |-> FlattenSeq(all[s])])
  BY DEF PrepareOps, PerOp
<1>4. /\ \A s \in Subgraphs : \A o \in DOMAIN Ops(s) : all[s][o] \in Seq(FrontItem)
      /\ \A s \in Subgraphs : all[s] = [o \in DOMAIN Ops(s) |-> all[s][o]]
  <2> HIDE DEF items
  <2>1. QED
    BY <1>2
<1> HIDE DEF all
<1>5. QED
  BY <1>3, <1>4, PerOpType

\* The client's tensors are asked for when all the rest is done.
Closers ==
  Range(PersistentTensors(Inputs, "input", model[1].inputs))
  \cup Range(PersistentTensors(<<"outputs", 0, 0>>, "output", model[1].outputs))
Final(x) == x.do = "reset" \/ x \in Closers
Rear(l) ==
  \A i, j \in DOMAIN l :
    i < j /\ (l[i].do = "lifetimes" \/ Deciding(l[i])) => Deciding(l[j]) \/ Final(l[j])
States(l) == \A i \in DOMAIN l : l[i].do = "persistent" /\ IsTensor(l[i].name) => l[i].name \in Variables

LEMMA VariablesFront ==
  ASSUME model \in Models
  PROVE  PerTensor(LAMBDA t : OnlyIf(OnlineVariable(t), Persistent(T(t[1], t[2]), Bytes(t), BufferAlign, "error")))
           \in Seq(FrontItem)
<1> DEFINE item(s, i) == OnlyIf(OnlineVariable(<<s, i>>), Persistent(T(s, i), Bytes(<<s, i>>), BufferAlign, "error"))
           all == [s \in Subgraphs |-> [i \in Tensors(s) |-> item(s, i)]]
<1>2. ASSUME NEW s \in Subgraphs, NEW i \in Tensors(s)
      PROVE  item(s, i) \in Seq(FrontItem)
  <2> DEFINE x == Persistent(T(s, i), Bytes(<<s, i>>), BufferAlign, "error")
  <2>1. s \in Nat /\ i \in Nat /\ Bytes(<<s, i>>) \in Nat
    BY TensorFacts
  <2>2. x \in Item /\ x.do = "persistent" /\ x.name = T(s, i)
    <3>1. x \in Item
      BY <2>1, ArenaAssumption, PersistentItem DEF T, Kinds
    <3>2. QED
      BY <3>1 DEF Persistent
  <2>3. OnlineVariable(<<s, i>>) \in BOOLEAN
    BY DEF OnlineVariable
  <2>4. OnlineVariable(<<s, i>>) => T(s, i) \in Variables
    <3>1. ASSUME OnlineVariable(<<s, i>>) PROVE T(s, i) \in Variables
      <4>1. <<s, i>> \in {u \in AllTensors : IsVariable(u)}
        BY <3>1 DEF OnlineVariable, AllTensors
      <4>2. T(s, i) = T(<<s, i>>[1], <<s, i>>[2])
        OBVIOUS
      <4>3. QED
        BY <4>1, <4>2 DEF Variables
    <3>2. QED
      BY <3>1
  <2> HIDE DEF x
  <2>5. OnlineVariable(<<s, i>>) => x \in FrontItem
    BY <2>2, <2>4 DEF FrontItem
  <2>6. QED
    BY <2>3, <2>5, OneOrNone DEF x
<1>3. PerTensor(LAMBDA t : OnlyIf(OnlineVariable(t), Persistent(T(t[1], t[2]), Bytes(t), BufferAlign, "error")))
        = FlattenSeq([s \in Subgraphs |-> FlattenSeq(all[s])])
  BY DEF PerTensor
<1>4. /\ \A s \in Subgraphs : \A i \in Tensors(s) : all[s][i] \in Seq(FrontItem)
      /\ \A s \in Subgraphs : all[s] = [i \in Tensors(s) |-> all[s][i]]
  <2> HIDE DEF item
  <2>1. QED
    BY <1>2
<1> HIDE DEF all
<1>5. QED
  BY <1>3, <1>4, PerTensorType

LEMMA ClosersFacts ==
  ASSUME model \in Models
  PROVE  /\ \A x \in Closers : x \in PersistentType /\ x.do = "persistent" /\ ~IsTensor(x.name) /\ x.null = "error"
         /\ PersistentTensors(Inputs, "input", model[1].inputs) \in Seq(PersistentType)
         /\ PersistentTensors(<<"outputs", 0, 0>>, "output", model[1].outputs) \in Seq(PersistentType)
<1>1. ASSUME NEW x \in Kinds \ {"tensor"}, NEW y \in Kinds \ {"tensor"}, NEW indices \in Seq(Nat)
      PROVE  LET l == PersistentTensors(<<x, 0, 0>>, y, indices)
             IN  /\ l \in Seq(PersistentType)
                 /\ \A k \in Range(l) : k \in PersistentType /\ k.do = "persistent" /\ ~IsTensor(k.name) /\ k.null = "error"
  <2> DEFINE l == PersistentTensors(<<x, 0, 0>>, y, indices)
             bytes == SizeOf.pointer * Len(indices)
             each == [k \in DOMAIN indices |-> Persistent(<<y, k, 0>>, SizeOf.TfLiteTensor, 1, "error")]
             p == Persistent(<<x, 0, 0>>, bytes, BufferAlign, "error")
             n == Len(indices)
             S == {i \in PersistentType : ~IsTensor(i.name) /\ i.null = "error"}
  <2>1. bytes \in Nat
    BY PointerBytes
  <2> HIDE DEF bytes
  <2>2. ASSUME NEW z \in Kinds \ {"tensor"}, NEW k \in Nat, NEW b \in Nat, NEW a \in Nat \ {0}
        PROVE  Persistent(<<z, k, 0>>, b, a, "error") \in S
    <3> DEFINE i == Persistent(<<z, k, 0>>, b, a, "error")
    <3>1. i \in PersistentType /\ i.name = <<z, k, 0>> /\ i.null = "error"
      <4>1. i \in PersistentType
        BY PersistentPlain
      <4>2. QED
        BY <4>1 DEF Persistent
    <3>2. ~IsTensor(<<z, k, 0>>)
      BY DEF IsTensor
    <3> HIDE DEF i
    <3>3. i \in S
      BY <3>1, <3>2
    <3>4. QED
      BY <3>3 DEF i
  <2>3. n \in Nat /\ DOMAIN indices = 1 .. n
    OBVIOUS
  <2> HIDE DEF n, S
  <2>4. p \in S
    BY <2>1, <2>2, ArenaAssumption
  <2>5. \A k \in 1 .. n : Persistent(<<y, k, 0>>, SizeOf.TfLiteTensor, 1, "error") \in S
    BY <2>2, <2>3, SizeFacts
  <2>6. each = [k \in 1 .. n |-> each[k]] /\ \A k \in 1 .. n : each[k] \in S
    BY <2>3, <2>5
  <2>7. l = <<p>> \o each
    BY DEF PersistentTensors, bytes
  <2> HIDE DEF each, p, l
  <2>8. each \in Seq(S) /\ <<p>> \in Seq(S)
    BY <2>3, <2>4, <2>6, ListOf
  <2>9. l \in Seq(S)
    BY <2>7, <2>8, ConcatProperties
  <2>10. l \in Seq(PersistentType) /\ Range(l) \subseteq S
    <3>1. Len(l) \in Nat /\ l = [i \in 1 .. Len(l) |-> l[i]] /\ \A i \in DOMAIN l : l[i] \in S
      BY <2>9
    <3>2. \A i \in DOMAIN l : l[i] \in PersistentType
      BY <3>1 DEF S
    <3>3. DOMAIN l = 1 .. Len(l)
      BY <2>9
    <3>4. QED
      BY <3>1, <3>2, <3>3, ListOf DEF Range
  <2>11. \A k \in S : k \in PersistentType /\ k.do = "persistent" /\ ~IsTensor(k.name) /\ k.null = "error"
    <3>1. \A k \in PersistentType : k.do = "persistent"
      BY DEF PersistentType
    <3>2. QED
      BY <3>1 DEF S
  <2>12. QED
    BY <2>10, <2>11 DEF l
<1>2. {"inputs", "outputs", "input", "output"} \subseteq Kinds \ {"tensor"}
  BY DEF Kinds
<1>3. model[1].inputs \in Seq(Nat) /\ model[1].outputs \in Seq(Nat)
  BY ModelFacts
<1> DEFINE in == PersistentTensors(Inputs, "input", model[1].inputs)
           out == PersistentTensors(<<"outputs", 0, 0>>, "output", model[1].outputs)
<1>4. /\ in \in Seq(PersistentType)
      /\ \A k \in Range(in) : k \in PersistentType /\ k.do = "persistent" /\ ~IsTensor(k.name) /\ k.null = "error"
  <2>1. "inputs" \in Kinds \ {"tensor"} /\ "input" \in Kinds \ {"tensor"}
    BY <1>2
  <2>2. QED
    BY <1>1, <1>3, <2>1, Zenon DEF Inputs
<1>5. /\ out \in Seq(PersistentType)
      /\ \A k \in Range(out) : k \in PersistentType /\ k.do = "persistent" /\ ~IsTensor(k.name) /\ k.null = "error"
  <2>1. "outputs" \in Kinds \ {"tensor"} /\ "output" \in Kinds \ {"tensor"}
    BY <1>2
  <2>2. QED
    BY <1>1, <1>3, <2>1, Zenon
<1>6. Closers = Range(in) \cup Range(out)
  BY DEF Closers
<1> HIDE DEF in, out
<1>7. /\ \A x \in Closers : x \in PersistentType /\ x.do = "persistent" /\ ~IsTensor(x.name) /\ x.null = "error"
  BY <1>4, <1>5, <1>6
<1>8. QED
  BY <1>4, <1>5, <1>7 DEF in, out

\* A list in three parts: before the lifetimes, those and the plan, and the rest.
\* Nothing is reset before item i.
Clear(l, i) == \A j \in DOMAIN l : j < i => l[j].do # "reset"

Parts(x, b, z) ==
  /\ x \in Seq(FrontItem) /\ x \in Seq(Item) /\ b \in Seq(Item) /\ z \in Seq(Item)
  /\ b = <<Step("lifetimes"), Step("plan")>>
  /\ \A i \in DOMAIN z : Final(z[i])
  /\ \A c \in Closers : \E i \in DOMAIN z : z[i] = c /\ Clear(z, i)

LEMMA ListShape ==
  ASSUME model \in Models
  PROVE  \E x, b, z : Parts(x, b, z) /\ AllocateTensors = (x \o b) \o z
<1> DEFINE front == <<Step("handles"), Temporary(<<"temp", 0, 0>>, SizeOf.size_t * Len(model), "error"), Step("info")>>
           b == <<Step("lifetimes"), Step("plan")>>
           all == PerTensor(LAMBDA t : OnlyIf(OnlineVariable(t), Persistent(T(t[1], t[2]), Bytes(t), BufferAlign, "error")))
           in == PersistentTensors(Inputs, "input", model[1].inputs)
           out == PersistentTensors(<<"outputs", 0, 0>>, "output", model[1].outputs)
           r == <<Step("reset")>>
           a == (StartModel \o InitOps) \o PrepareOps
           f == front \o all
           x == a \o f
           z == (in \o out) \o r
           c == a \o FinishModel
<1>1. FinishModel = f \o b /\ AllocateTensors = ((c \o in) \o out) \o r
  BY DEF FinishModel, AllocateTensors
<1>2. a \in Seq(FrontItem)
  BY StartFront, InitFront, PrepareFront, ConcatProperties
<1>3. front \in Seq(FrontItem)
  <2>1. SizeOf.size_t * Len(model) \in Nat
    BY ArrayBytes
  <2>2. /\ Step("handles") \in FrontItem /\ Step("info") \in FrontItem
        /\ Temporary(<<"temp", 0, 0>>, SizeOf.size_t * Len(model), "error") \in FrontItem
    BY <2>1, FrontKinds
  <2>3. QED
    BY <2>2
<1>4. all \in Seq(FrontItem)
  BY VariablesFront
<1>5. b \in Seq(Item) /\ r \in Seq(Item) /\ r = <<Step("reset")>> /\ DOMAIN r = {1} /\ r[1] = Step("reset")
  BY StepItem
<1>6. /\ in \in Seq(Item) /\ out \in Seq(Item) /\ Closers = Range(in) \cup Range(out)
      /\ DOMAIN in \subseteq Nat /\ DOMAIN out \subseteq Nat
  BY ClosersFacts, PlainWider DEF Closers
<1>7. Seq(FrontItem) \subseteq Seq(Item)
  <2> SUFFICES ASSUME NEW l \in Seq(FrontItem) PROVE l \in Seq(Item)
    OBVIOUS
  <2>1. Len(l) \in Nat /\ l = [i \in 1 .. Len(l) |-> l[i]] /\ \A i \in 1 .. Len(l) : l[i] \in Item
    BY DEF FrontItem
  <2>2. QED
    BY <2>1, ListOf
<1>8. Step("reset").do = "reset"
  BY DEF Step
<1> HIDE DEF front, all, in, out, a, b, r
<1>9. f \in Seq(FrontItem) /\ x \in Seq(FrontItem)
  BY <1>2, <1>3, <1>4, ConcatProperties
<1>10. a \in Seq(Item) /\ f \in Seq(Item) /\ x \in Seq(Item)
  BY <1>2, <1>7, <1>9
<1> HIDE DEF f
<1>11. c = x \o b
  <2>1. (a \o f) \o b = a \o (f \o b)
    BY <1>5, <1>10, ConcatAssociative
  <2>2. QED
    BY <1>1, <2>1
<1>12. c \in Seq(Item)
  BY <1>5, <1>10, <1>11, ConcatProperties
<1> HIDE DEF x, c
<1>13. ((c \o in) \o out) \o r = c \o z
  <2> DEFINE ci == c \o in
             io == in \o out
  <2>1. ci \in Seq(Item) /\ io \in Seq(Item)
    BY <1>6, <1>12, ConcatProperties
  <2>2. ci \o out = c \o io
    <3>1. c \in Seq(Item) /\ in \in Seq(Item) /\ out \in Seq(Item)
      BY <1>6, <1>12
    <3>2. QED
      BY <3>1, ConcatAssociative, SMTT(20)
  <2> HIDE DEF ci, io
  <2>3. (c \o io) \o r = c \o (io \o r)
    <3>1. c \in Seq(Item) /\ io \in Seq(Item) /\ r \in Seq(Item)
      BY <1>5, <1>12, <2>1
    <3>2. QED
      BY <3>1, ConcatAssociative, SMTT(20)
  <2>4. QED
    BY <2>2, <2>3 DEF ci, io
<1> DEFINE io == in \o out
<1>14. z = io \o r
  OBVIOUS
<1>15. /\ io \in Seq(Item)
       /\ \A i \in DOMAIN in : i \in DOMAIN io /\ io[i] = in[i]
       /\ \A i \in DOMAIN out : i + Len(in) \in DOMAIN io /\ io[i + Len(in)] = out[i]
       /\ \A i \in DOMAIN io : i \notin DOMAIN in => i - Len(in) \in DOMAIN out /\ io[i] = out[i - Len(in)]
  BY <1>6, Joined
<1> HIDE DEF io, z
<1>16. /\ z \in Seq(Item)
       /\ \A i \in DOMAIN io : i \in DOMAIN z /\ z[i] = io[i]
       /\ \A i \in DOMAIN z : i \notin DOMAIN io => i - Len(io) \in DOMAIN r /\ z[i] = r[i - Len(io)]
  BY <1>5, <1>14, <1>15, Joined
<1>17. \A i \in DOMAIN io : io[i] \in Closers
  BY <1>6, <1>15 DEF Range
<1>18. \A i \in DOMAIN z : Final(z[i])
  BY <1>5, <1>8, <1>16, <1>17 DEF Final
<1>19. \A k \in Closers : \E i \in DOMAIN z : z[i] = k /\ Clear(z, i)
  <2>1. \A k \in Closers : \E i \in DOMAIN io : io[i] = k
    <3> SUFFICES ASSUME NEW k \in Closers PROVE \E i \in DOMAIN io : io[i] = k
      OBVIOUS
    <3>1. CASE k \in Range(in)
      BY <1>15, <3>1 DEF Range
    <3>2. CASE k \in Range(out)
      <4>1. PICK i \in DOMAIN out : out[i] = k
        BY <3>2 DEF Range
      <4>2. QED
        BY <1>15, <4>1
    <3>3. QED
      BY <1>6, <3>1, <3>2
  <2>2. \A i \in DOMAIN io, j \in DOMAIN z : j < i => j \in DOMAIN io
    <3>1. DOMAIN io = 1 .. Len(io) /\ Len(io) \in Nat /\ DOMAIN z = 1 .. Len(z) /\ Len(z) \in Nat
      BY <1>15, <1>16
    <3>2. QED
      BY <3>1
  <2>3. \A i \in DOMAIN io : z[i].do # "reset"
    BY <1>16, <1>17, ClosersFacts
  <2>4. \A i \in DOMAIN io : Clear(z, i)
    BY <2>2, <2>3 DEF Clear
  <2>5. QED
    BY <1>16, <2>1, <2>4
<1>20. AllocateTensors = (x \o b) \o z
  BY <1>1, <1>11, <1>13
<1>21. b = <<Step("lifetimes"), Step("plan")>>
  BY DEF b
<1> HIDE DEF b
<1>22. Parts(x, b, z)
  BY <1>5, <1>9, <1>10, <1>16, <1>18, <1>19, <1>21 DEF Parts
<1>23. QED
  BY <1>20, <1>22

LEMMA SameClosers ==
  ASSUME model' = model
  PROVE  Closers' = Closers /\ Variables' = Variables
<1>1. Closers' = Closers
  BY DEF Closers, PersistentTensors
<1>2. Subgraphs' = Subgraphs /\ AllTensors' = AllTensors /\ \A t : IsVariable(t)' = IsVariable(t)
  BY DEF Subgraphs, AllTensors, Tensors, IsVariable
<1>3. Variables' = Variables
  BY <1>2 DEF Variables
<1>4. QED
  BY <1>1, <1>3

LEMMA ListFacts ==
  ASSUME model \in Models
  PROVE  LET l == AllocateTensors
         IN  /\ Rear(l) /\ States(l) /\ HasPlan(l) /\ l \in Seq(Item)
             /\ \E i \in DOMAIN l : l[i].do = "lifetimes"
             /\ \A c \in Closers : \E i, j \in DOMAIN l : j < i /\ l[i] = c /\ Deciding(l[j]) /\ Clear(l, i)
<1> DEFINE l == AllocateTensors
<1>1. PICK x, b, z : Parts(x, b, z) /\ l = (x \o b) \o z
  BY ListShape
<1>2. l \in Seq(Item) /\ HasPlan(l)
  BY AllItems, AllLast
<1> HIDE DEF l
<1> DEFINE c == x \o b
           lt == Step("lifetimes")
           pl == Step("plan")
<1>3. /\ x \in Seq(FrontItem) /\ x \in Seq(Item) /\ b \in Seq(Item) /\ z \in Seq(Item) /\ b = <<lt, pl>>
      /\ \A i \in DOMAIN z : Final(z[i])
      /\ \A k \in Closers : \E i \in DOMAIN z : z[i] = k /\ Clear(z, i)
  BY <1>1 DEF Parts
<1>4. lt.do = "lifetimes" /\ pl.do = "plan"
  BY DEF Step
<1> HIDE DEF lt, pl
<1>5. Len(b) = 2 /\ DOMAIN b = {1, 2} /\ b[1] = lt /\ b[2] = pl
  BY <1>3
<1> DEFINE n == Len(x)
<1>6. /\ c \in Seq(Item) /\ n \in Nat /\ DOMAIN x = 1 .. n /\ DOMAIN c = 1 .. n + 2
      /\ \A i \in DOMAIN x : c[i] = x[i]
      /\ \A i \in DOMAIN b : c[i + n] = b[i]
  BY <1>3, <1>5, Joined
<1>7. c[n + 1] = lt /\ c[n + 2] = pl
  <2>1. 1 + n = n + 1 /\ 2 + n = n + 2
    BY <1>6
  <2>2. QED
    BY <1>5, <1>6, <2>1
<1>8. l = c \o z
  BY <1>1
<1> DEFINE m == Len(c)
<1>9. m = n + 2
  BY <1>6
<1> HIDE DEF c, n
<1>10. /\ DOMAIN l \subseteq Nat
       /\ \A i \in DOMAIN c : i \in DOMAIN l /\ l[i] = c[i]
       /\ \A i \in DOMAIN l : i \notin DOMAIN c => i - m \in DOMAIN z /\ l[i] = z[i - m]
       /\ \A i \in DOMAIN z : i + m \in DOMAIN l /\ l[i + m] = z[i]
       /\ DOMAIN z \subseteq Nat \ {0}
  BY <1>3, <1>6, <1>8, Joined
<1> HIDE DEF m
<1>11. ASSUME NEW i \in DOMAIN l
       PROVE  \/ i <= n /\ i \in DOMAIN x /\ l[i] = x[i] /\ l[i] \in FrontItem
              \/ i = n + 1 /\ l[i].do = "lifetimes"
              \/ i = n + 2 /\ l[i].do = "plan"
              \/ i > n + 2 /\ Final(l[i])
  <2>1. CASE i \in DOMAIN c
    <3>1. l[i] = c[i] /\ i \in 1 .. n + 2
      BY <1>6, <1>10, <2>1
    <3>2. CASE i \in 1 .. n
      <4>1. i \in DOMAIN x /\ l[i] = x[i] /\ i <= n
        BY <1>6, <3>1, <3>2
      <4>2. x[i] \in FrontItem
        BY <1>3, <4>1
      <4>3. QED
        BY <4>1, <4>2
    <3>3. i \in 1 .. n \/ i = n + 1 \/ i = n + 2
      BY <1>6, <3>1
    <3>4. QED
      BY <1>4, <1>7, <3>1, <3>2, <3>3
  <2>2. CASE i \notin DOMAIN c
    <3>1. Final(l[i])
      BY <1>3, <1>10, <2>2
    <3>2. i > n + 2
      <4>1. i - m \in Nat \ {0} /\ i \in Nat
        BY <1>10, <2>2
      <4>2. QED
        BY <1>6, <1>9, <4>1
    <3>3. QED
      BY <3>1, <3>2
  <2>3. QED
    BY <2>1, <2>2
<1>12. \A k \in FrontItem : k.do \notin {"lifetimes", "plan", "commit", "reserve"}
       /\ (k.do = "persistent" /\ IsTensor(k.name) => k.name \in Variables)
  BY DEF FrontItem, Item, PersistentType, TemporaryType, StepType, OpType, MarkType
<1>13. \A k : Final(k) => /\ k.do \in {"persistent", "reset"}
                          /\ k.do = "persistent" => ~IsTensor(k.name)
  BY ClosersFacts DEF Final
<1>14. Rear(l)
  <2> SUFFICES ASSUME NEW i \in DOMAIN l, NEW j \in DOMAIN l, i < j, l[i].do = "lifetimes" \/ Deciding(l[i])
               PROVE  Deciding(l[j]) \/ Final(l[j])
    BY DEF Rear
  <2>1. i >= n + 1
    <3>1. l[i].do \in {"lifetimes", "plan", "commit", "reserve"}
      BY DEF Deciding
    <3>2. l[i] \notin FrontItem
      BY <1>12, <3>1
    <3>3. i = n + 1 \/ i = n + 2 \/ i > n + 2
      BY <1>11, <3>2
    <3>4. i \in Nat
      BY <1>10
    <3>5. QED
      BY <1>6, <3>3, <3>4
  <2>2. i \in Nat /\ j \in Nat
    BY <1>10
  <2>3. j >= n + 2
    BY <1>6, <2>1, <2>2
  <2>4. QED
    BY <1>6, <1>11, <2>2, <2>3 DEF Deciding
<1>15. States(l)
  <2> SUFFICES ASSUME NEW i \in DOMAIN l, l[i].do = "persistent", IsTensor(l[i].name)
               PROVE  l[i].name \in Variables
    BY DEF States
  <2>1. QED
    BY <1>11, <1>12, <1>13
<1>16. \E i \in DOMAIN l : l[i].do = "lifetimes"
  <2>1. n + 1 \in DOMAIN l /\ l[n + 1] = lt
    BY <1>6, <1>7, <1>10
  <2>2. QED
    BY <1>4, <2>1
<1>17. ASSUME NEW k \in Closers PROVE \E i, j \in DOMAIN l : j < i /\ l[i] = k /\ Deciding(l[j]) /\ Clear(l, i)
  <2>1. n + 2 \in DOMAIN l /\ Deciding(l[n + 2])
    BY <1>4, <1>6, <1>7, <1>10 DEF Deciding
  <2>2. PICK i \in DOMAIN z : z[i] = k /\ Clear(z, i)
    BY <1>3
  <2>3. i + m \in DOMAIN l /\ l[i + m] = k /\ n + 2 < i + m
    BY <1>6, <1>9, <1>10, <2>2
  <2>4. Clear(l, i + m)
    <3> SUFFICES ASSUME NEW j \in DOMAIN l, j < i + m PROVE l[j].do # "reset"
      BY DEF Clear
    <3>1. CASE j <= n + 2
      <4>1. \A f \in FrontItem : f.do # "reset"
        BY DEF FrontItem
      <4>2. j \in Nat /\ ~(j > n + 2)
        BY <1>6, <1>10, <3>1
      <4>3. QED
        BY <1>11, <4>1, <4>2
    <3>2. CASE ~(j <= n + 2)
      <4>1. j \in Nat /\ j > n + 2
        BY <1>6, <1>10, <3>2
      <4>2. j \notin DOMAIN c
        BY <1>6, <4>1
      <4>3. j - m \in DOMAIN z /\ l[j] = z[j - m]
        BY <1>10, <4>2
      <4>4. j - m < i
        <5>1. i \in Nat /\ m \in Nat
          BY <1>6, <1>9, <1>10
        <5>2. QED
          BY <4>1, <5>1
      <4>5. QED
        BY <2>2, <4>3, <4>4 DEF Clear
    <3>3. QED
      BY <3>1, <3>2
  <2>5. QED
    BY <2>1, <2>3, <2>4
<1>18. QED
  BY <1>2, <1>14, <1>15, <1>16, <1>17 DEF l

\* The ways in which a step changes the list.
Turns ==
  \/ todo' = <<>>
  \/ \E items : Going(items) /\ todo[1].do # "start"
  \/ At("start") /\ todo' = AllocateTensors /\ ~allocating /\ allocating' /\ outcome' = outcome
  \/ At("plan") /\ todo' = PlanSteps \o Tail(todo) /\ outcome' = outcome
  \/ At("commit") /\ todo' = todo /\ outcome' = outcome

LEMMA StepTurns ==
  ASSUME Types, PlannedNamesOnly, AllocateTensorsStep
  PROVE  Turns /\ model' = model /\ todo # <<>>
         /\ (allocating' = allocating \/ At("start") \/ At("reserve"))
         /\ (maxHead' = maxHead \/ At("reserve"))
<1>1. AllocationStep /\ AllocatorTypes
  BY DEF AllocateTensorsStep, Types
<1>2. /\ model' = model /\ todo # <<>> /\ (allocating' = allocating \/ At("start") \/ At("reserve"))
      /\ (maxHead' = maxHead \/ At("reserve"))
  BY <1>1 DEF AllocationStep, At, StartModelAllocation, AllocateTail, AllocateTempTensor, InitScratchBufferData,
       PrepareNode, RequestScratchBufferInArena, FreeTempTensors, FinishPrepareNodeAllocations,
       AllocateScratchBufferHandles, CreateAllocationInfo, InitializeAllocationInfo, MarkInputs, MarkOperator,
       MarkUses, MarkOutputs, Marks, InitMemoryPlanner, AddBuffer, CalculateOffsets, CommitPlan, ReserveHead,
       ResetVariableTensors, ReadsGarbage, book
<1>3. ASSUME Early PROVE Turns
  BY <1>3 DEF Early, Ending, Turns, EarlyKinds, MarkKinds
<1>4. ASSUME Rest, todo[1].do # "start" PROVE Turns
  BY <1>1, <1>2, <1>4, RestGoing DEF Turns
<1>5. Turns
  <2>1. CASE StartModelAllocation
    BY <2>1 DEF StartModelAllocation, EndsAs, Turns
  <2>2. CASE AllocateTail \/ CommitPlan \/ ReserveHead
    BY <1>4, <2>2 DEF AllocateTail, CommitPlan, ReserveHead, At, Refused, EndsAs, ReadsGarbage, Turns
  <2>3. CASE InitMemoryPlanner
    BY <2>3 DEF InitMemoryPlanner, Refused, EndsAs, Turns, PlanSteps
  <2>4. CASE AddBuffer \/ CalculateOffsets
    BY <2>4 DEF AddBuffer, CalculateOffsets, ReadsGarbage, Refused, EndsAs, Turns
  <2>5. CASE ResetVariableTensors
    BY <2>5 DEF ResetVariableTensors, EndsAs, Turns
  <2>6. QED
    BY <1>1, <1>3, <2>1, <2>2, <2>3, <2>4, <2>5, MarkingEarly, LifetimesEarly, PrepareEarly DEF AllocationStep
<1>6. QED
  BY <1>2, <1>5

LEMMA RearMoves ==
  ASSUME AllocatorTypes, Turns, model' = model, Rear(todo), States(todo)
  PROVE  Rear(todo)' /\ States(todo)'
<1> DEFINE l == todo'
<1>1. /\ Rear(todo)' <=> Rear(l)
      /\ States(todo)' <=> States(l)
  BY SameClosers DEF Rear, States, Final
<1>2. CASE todo' = <<>>
  BY <1>1, <1>2 DEF Rear, States
<1>3. ASSUME NEW items, Going(items) PROVE Rear(l) /\ States(l)
  <2> DEFINE n == Len(items)
  <2>1. items \in Seq(Todo) /\ OnlyMarks(items) /\ Advance(items)
    BY <1>3 DEF Going
  <2>2. /\ n \in Nat /\ DOMAIN items = 1 .. n /\ DOMAIN todo' \subseteq Nat
        /\ \A i \in DOMAIN items : i \in DOMAIN todo' /\ todo'[i] = items[i]
        /\ \A i \in DOMAIN todo' : i \notin DOMAIN items =>
             /\ i - n + 1 \in DOMAIN todo /\ i - n + 1 > 1
             /\ todo'[i] = todo[i - n + 1]
    BY <2>1, Moved
  <2>3. l = todo'
    OBVIOUS
  <2> HIDE DEF l, n
  <2>4. \A i \in DOMAIN items : l[i].do \notin {"persistent", "lifetimes"} /\ ~Deciding(l[i])
    BY <2>1, <2>2, <2>3 DEF OnlyMarks, MarkKinds, Deciding
  <2>5. States(l)
    BY <2>2, <2>3, <2>4 DEF States
  <2>6. Rear(l)
    <3> SUFFICES ASSUME NEW i \in DOMAIN l, NEW j \in DOMAIN l, i < j, l[i].do = "lifetimes" \/ Deciding(l[i])
                 PROVE  Deciding(l[j]) \/ Final(l[j])
      BY DEF Rear
    <3>1. i \notin DOMAIN items
      BY <2>4
    <3>2. j \notin DOMAIN items
      BY <2>2, <2>3, <3>1
    <3>3. /\ i - n + 1 \in DOMAIN todo /\ j - n + 1 \in DOMAIN todo /\ i - n + 1 < j - n + 1
          /\ l[i] = todo[i - n + 1] /\ l[j] = todo[j - n + 1]
      BY <2>2, <2>3, <3>1, <3>2
    <3>4. QED
      BY <3>3 DEF Rear
  <2>7. QED
    BY <2>5, <2>6
<1>4. CASE todo' = AllocateTensors
  BY <1>1, <1>4, ListFacts DEF AllocatorTypes
<1>5. CASE At("plan") /\ todo' = PlanSteps \o Tail(todo)
  <2>1. /\ Advance(PlanSteps) /\ PlanSteps \in Seq(Todo) /\ DOMAIN PlanSteps = {1, 2}
        /\ PlanSteps[1].do = "commit" /\ PlanSteps[2].do = "reserve" /\ Len(PlanSteps) = 2
    BY <1>5, PlanStepsFacts DEF Advance, At
  <2>2. /\ DOMAIN todo' \subseteq Nat \ {0}
        /\ \A i \in DOMAIN PlanSteps : i \in DOMAIN todo' /\ todo'[i] = PlanSteps[i]
        /\ \A i \in DOMAIN todo' : i \notin DOMAIN PlanSteps =>
             /\ i - 2 + 1 \in DOMAIN todo /\ i - 2 + 1 > 1
             /\ todo'[i] = todo[i - 2 + 1]
    BY <2>1, Moved
  <2>3. 1 \in DOMAIN todo /\ Deciding(todo[1])
    BY <1>5, TodoFacts DEF At, Deciding
  <2>4. l = todo'
    OBVIOUS
  <2> HIDE DEF l
  <2>5. \A i \in DOMAIN l : i \in {1, 2} => Deciding(l[i]) /\ l[i].do # "persistent"
    BY <2>1, <2>2, <2>4 DEF Deciding
  <2>6. \A i \in DOMAIN l : i \notin {1, 2} => Deciding(l[i]) \/ Final(l[i])
    BY <2>1, <2>2, <2>3, <2>4 DEF Rear
  <2>7. Rear(l)
    BY <2>5, <2>6 DEF Rear
  <2>8. States(l)
    BY <2>1, <2>2, <2>4, <2>5 DEF States
  <2>9. QED
    BY <1>1, <2>7, <2>8
<1>6. CASE todo' = todo
  BY <1>1, <1>6
<1>7. QED
  BY <1>1, <1>2, <1>3, <1>4, <1>5, <1>6 DEF Turns

-----------------------------------------------------------------------------
(* When the list is done the lifetimes are those of a complete marking.    *)

Unused == {i \in InfoType : /\ i.first = -1 /\ i.last = -1
                            /\ i.name \in GivenTensors \/ \E k \in DOMAIN requests : i.name = Scratch(k)}

LEMMA InfosUnused ==
  ASSUME model \in Models, requests \in Seq(RequestType)
  PROVE  AllocationInfo \in Seq(Unused)
<1> DEFINE x(s, i) == NewInfo(T(s, i), Bytes(<<s, i>>), Offline(<<s, i>>))
           info(s, i) == OnlyIf(NeedsAllocating(<<s, i>>), x(s, i))
           all == [s \in Subgraphs |-> [i \in Tensors(s) |-> info(s, i)]]
           scratch == [k \in DOMAIN requests |-> NewInfo(Scratch(k), requests[k].bytes, Online)]
           n == Len(requests)
<1>1. ASSUME NEW m \in Name, NEW bytes \in Nat, NEW offline \in Nat \cup {Online},
             m \in GivenTensors \/ \E k \in DOMAIN requests : m = Scratch(k)
      PROVE  NewInfo(m, bytes, offline) \in Unused
  BY <1>1 DEF NewInfo, InfoType, Unused
<1>2. ASSUME NEW s \in Subgraphs, NEW i \in Tensors(s)
      PROVE  info(s, i) \in Seq(Unused)
  <2>1. NeedsAllocating(<<s, i>>) => T(s, i) \in GivenTensors
    <3>1. <<s, i>> \in AllTensors /\ T(s, i) = T(<<s, i>>[1], <<s, i>>[2])
      BY DEF AllTensors
    <3>2. QED
      BY <3>1 DEF GivenTensors
  <2>2. NeedsAllocating(<<s, i>>) => x(s, i) \in Unused
    BY <1>1, <2>1, TensorFacts
  <2>3. NeedsAllocating(<<s, i>>) \in BOOLEAN
    BY DEF NeedsAllocating
  <2>4. QED
    BY <2>2, <2>3, OneOrNone
<1>3. /\ \A s \in Subgraphs : \A i \in Tensors(s) : all[s][i] \in Seq(Unused)
      /\ \A s \in Subgraphs : all[s] = [i \in Tensors(s) |-> all[s][i]]
  <2> HIDE DEF info
  <2>1. QED
    BY <1>2
<1>4. AllocationInfo = FlattenSeq([s \in Subgraphs |-> FlattenSeq(all[s])]) \o scratch
  BY DEF AllocationInfo, PerTensor
<1>5. n \in Nat /\ DOMAIN requests = 1 .. n
  OBVIOUS
<1>6. ASSUME NEW k \in 1 .. n PROVE NewInfo(Scratch(k), requests[k].bytes, Online) \in Unused
  <2>1. requests[k] \in RequestType
    OBVIOUS
  <2>2. requests[k].bytes \in Nat
    BY <2>1 DEF RequestType
  <2>3. Scratch(k) \in Name
    BY <1>5 DEF Scratch, Name
  <2>4. QED
    BY <1>1, <1>5, <2>2, <2>3
<1> HIDE DEF all, n
<1>7. scratch = [k \in 1 .. n |-> scratch[k]] /\ \A k \in 1 .. n : scratch[k] \in Unused
  BY <1>5, <1>6
<1> HIDE DEF scratch
<1>8. scratch \in Seq(Unused)
  BY <1>5, <1>7, ListOf
<1>9. FlattenSeq([s \in Subgraphs |-> FlattenSeq(all[s])]) \in Seq(Unused)
  BY <1>3, PerTensorType
<1>10. QED
  BY <1>4, <1>8, <1>9, ConcatProperties

Before == \E i \in DOMAIN todo : todo[i].do \in {"start", "lifetimes"}
Timing ==
  /\ todo # <<>> => Before \/ Walking \/ Timed
  /\ outcome = "ok" \/ allocated => \E G : Told(G)

LEMMA OnlyResetOk ==
  ASSUME Types, outcome = "none", AllocateTensorsStep, outcome' = "ok"
  PROVE  ResetVariableTensors
<1>1. AllocationStep /\ AllocatorTypes
  BY DEF AllocateTensorsStep, Types
<1>2. ~AllocateTail
  <2>1. At("persistent") => todo[1] \in PersistentType
    BY <1>1, ItemKinds DEF At
  <2>2. \A x \in PersistentType : x.null # "ok"
    BY DEF PersistentType
  <2>3. At("persistent") => todo[1].null # "ok"
    BY <2>1, <2>2
  <2>4. SUFFICES ASSUME AllocateTail PROVE FALSE
    OBVIOUS
  <2>5. outcome' = outcome \/ outcome' = todo[1].null
    BY <2>4 DEF AllocateTail, Refused, EndsAs, Rest
  <2>6. At("persistent")
    BY <2>4 DEF AllocateTail
  <2>7. QED
    BY <2>3, <2>5, <2>6
<1>3. ~AllocateTempTensor
  <2>1. At("temp") => todo[1] \in TemporaryType
    BY <1>1, ItemKinds DEF At
  <2>2. \A x \in TemporaryType : x.null # "ok"
    BY DEF TemporaryType
  <2>3. QED
    BY <2>1, <2>2 DEF AllocateTempTensor, Refused, EndsAs, Rest
<1>4. QED
  BY <1>1, <1>2, <1>3 DEF AllocationStep, StartModelAllocation, InitScratchBufferData, PrepareNode,
       RequestScratchBufferInArena, FreeTempTensors, FinishPrepareNodeAllocations,
       AllocateScratchBufferHandles, CreateAllocationInfo, InitializeAllocationInfo, MarkInputs, MarkOperator,
       MarkUses, MarkOutputs, Marks, InitMemoryPlanner, AddBuffer, CalculateOffsets, CommitPlan, ReserveHead,
       ReadsGarbage, Refused, EndsAs, Rest

LEMMA BeforeMoves ==
  ASSUME AllocatorTypes, PlanLast(todo), Before, Turns, todo # <<>>, todo[1].do # "lifetimes", todo' # <<>>
  PROVE  Before'
<1>1. PICK i \in DOMAIN todo : todo[i].do \in {"start", "lifetimes"}
  BY DEF Before
<1>2. DOMAIN todo \subseteq Nat \ {0} /\ 1 \in DOMAIN todo
  BY TodoFacts
<1>3. ~Deciding(todo[1])
  <2>1. ~Trailing(todo[i]) /\ ~Deciding(todo[i]) /\ todo[i].do # "reserve"
    BY <1>1 DEF Trailing, Deciding
  <2>2. i # 1 => 1 < i
    BY <1>2
  <2>3. QED
    BY <1>2, <2>1, <2>2 DEF PlanLast
<1>4. ASSUME NEW items, Going(items), todo[1].do # "start" PROVE Before'
  <2> DEFINE n == Len(items)
  <2>1. \A k \in DOMAIN todo : k > 1 => k - 1 + n \in DOMAIN todo' /\ todo'[k - 1 + n] = todo[k]
    BY <1>4, Moved DEF Going
  <2>2. i > 1
    BY <1>1, <1>2, <1>4
  <2>3. QED
    BY <1>1, <2>1, <2>2 DEF Before
<1>5. CASE todo' = AllocateTensors
  BY <1>5, ListFacts DEF Before, AllocatorTypes
<1>6. QED
  BY <1>3, <1>4, <1>5 DEF Turns, At, Deciding

LEMMA LifetimesWalk ==
  ASSUME Types, Rear(todo), InitializeAllocationInfo, todo' # <<>>
  PROVE  Walking'
<1> DEFINE mark == Mark(1, 0)
           items == <<mark>>
<1>1. /\ AllocatorTypes /\ model \in Models /\ requests \in Seq(RequestType)
      /\ infos' = AllocationInfo /\ scope' = 0 /\ Advance(items) /\ model' = model
      /\ todo # <<>> /\ todo[1].do = "lifetimes"
  BY DEF Types, AllocatorTypes, InitializeAllocationInfo, ReadsGarbage, EndsAs, At, Advance
<1>2. mark \in Item
  BY <1>1, MarkItem, ModelFacts
<1> HIDE DEF mark
<1>3. items \in Seq(Item) /\ Len(items) = 1 /\ items[1] = mark
  BY <1>2
<1> HIDE DEF items
<1> DEFINE none == {}
<1>0. PICK L \in Nat \ {0} : L = Len(todo) /\ Len(todo') = L - 1 + 1
          /\ (\A d \in 1 .. L - 1 : From(d)' = From(d))
          /\ (\A d \in L .. L + 1 - 1 : From(d)' = items[1 + L - d])
  <2>1. items \in Seq(Todo)
    BY <1>3, Wider
  <2>2. QED
    BY <1>1, <1>3, <2>1, PushFrom
<1>01. PICK base \in Nat : base = L - 1
  BY <1>0
<1>4. /\ Len(todo') = L - 1 + 1 /\ L \in Nat \ {0}
      /\ \A d \in 1 .. L - 1 : From(d)' = From(d)
      /\ \A d \in L .. L + 1 - 1 : From(d)' = items[1 + L - d]
  BY <1>0
<1>5. From(L)' = mark
  <2>1. L \in L .. L + 1 - 1 /\ 1 + L - L = 1
    BY <1>4
  <2>2. QED
    BY <1>3, <1>4, <2>1
<1>6. \A d \in 1 .. base : Deciding(From(d)) \/ Trailing(From(d))
  <2> SUFFICES ASSUME NEW d \in 1 .. base PROVE Deciding(From(d)) \/ Trailing(From(d))
    OBVIOUS
  <2>1. DOMAIN todo = 1 .. L
    BY <1>0, <1>1, TodoFacts
  <2>2. 1 \in DOMAIN todo /\ L + 1 - d \in DOMAIN todo /\ 1 < L + 1 - d
    BY <1>01, <1>4, <2>1
  <2>3. Deciding(todo[L + 1 - d]) \/ Final(todo[L + 1 - d])
    BY <1>1, <2>2 DEF Rear
  <2>4. \A x : Final(x) => Trailing(x)
    BY <1>1, ClosersFacts DEF Final, Trailing, IsTensor
  <2>5. QED
    BY <1>0, <2>3, <2>4 DEF From
<1>7. base \in Nat /\ base < Len(todo') /\ base + 1 = L /\ Len(todo') = base + 1
  BY <1>01, <1>4
<1>8. Below(base)'
  <2>1. \A d \in 1 .. base : (Deciding(From(d)) \/ Trailing(From(d)))'
    <3> SUFFICES ASSUME NEW d \in 1 .. base PROVE (Deciding(From(d)) \/ Trailing(From(d)))'
      OBVIOUS
    <3>1. From(d)' = From(d)
      BY <1>01, <1>4
    <3>2. QED
      BY <1>6, <3>1 DEF Deciding, Trailing
  <2>2. (base < Len(todo))'
    BY <1>7
  <2> HIDE <1>7
  <2>3. QED
    BY <2>1, <2>2 DEF Below
<1>9. Reaching(0)'
  <2>1. \A j \in DOMAIN infos' : infos'[j] \in Unused
    BY <1>1, InfosUnused
  <2>2. QED
    BY <2>1 DEF Reaching, Unused
<1>10. Complete(none)'
  BY DEF Complete
<1>11. From(base + 1)' = Mark(1, 0)
  BY <1>5, <1>7 DEF mark
<1> HIDE DEF none
<1>12. Walk(base, 0, {}, {})'
  <2>1. (0 = 0)' /\ \A k \in 1 .. 0 : FALSE
    OBVIOUS
  <2>2. \A g \in {} : FALSE
    OBVIOUS
  <2>3. /\ Complete({})' /\ (scope >= 0)' /\ Reaching(scope)'
        /\ (Len(todo) = base + 1)' /\ (From(base + 1) = Mark(1, 0))'
    BY <1>1, <1>7, <1>9, <1>10, <1>11 DEF none, Reaching
  <2>4. QED
    BY <1>8, <2>1, <2>2, <2>3 DEF Walk
<1>13. QED
  BY <1>12 DEF Walking

LEMMA WalkMoves ==
  ASSUME Types, Walking, AllocateTensorsStep, todo' # <<>>
  PROVE  Walking' \/ Timed'
<1>0. PICK base \in Nat, n \in Nat : \E W, G : Walk(base, n, W, G)
  BY DEF Walking
<1>1. PICK W, G : Walk(base, n, W, G)
  BY <1>0
<1>2. AllocatorTypes /\ AllocationStep /\ ~EndsAs("undefined")
  BY DEF Types, AllocateTensorsStep, EndsAs
<1>3. todo[1].do \in {"mark", "used", "op", "outputs"} /\ (todo[1].do # "mark" => n > 0)
  BY <1>1, <1>2, LeafKind
<1>4. ASSUME NEW m \in Nat, NEW Z, NEW H, Walk(base, m, Z, H)' PROVE Walking'
  BY <1>4 DEF Walking
<1>5. MarkInputs \/ MarkOperator \/ MarkUses \/ MarkOutputs
  BY <1>2, <1>3 DEF AllocationStep, At, StartModelAllocation, AllocateTail, AllocateTempTensor,
       InitScratchBufferData, PrepareNode, RequestScratchBufferInArena, FreeTempTensors,
       FinishPrepareNodeAllocations, AllocateScratchBufferHandles, CreateAllocationInfo, InitializeAllocationInfo,
       InitMemoryPlanner, AddBuffer, CalculateOffsets, CommitPlan, ReserveHead, ResetVariableTensors
<1>6. CASE MarkInputs /\ n = 0
  <2>1. Walk(base, 0, W, G)
    BY <1>1, <1>6
  <2>2. \E Z : Walk(base, 1, Z, G)'
    BY <1>2, <1>6, <2>1, WalkFirst
  <2>3. 1 \in Nat
    OBVIOUS
  <2>4. QED
    BY <1>4, <2>2, <2>3
<1>7. CASE MarkInputs /\ n # 0
  <2>1. n > 0 /\ n + 1 \in Nat
    BY <1>7
  <2>2. \E Z : Walk(base, n + 1, Z, G)'
    BY <1>1, <1>2, <1>7, <2>1, WalkCalls
  <2>3. PICK m \in Nat : m = n + 1
    BY <2>1
  <2>4. \E Z : Walk(base, m, Z, G)'
    BY <2>2, <2>3
  <2>5. QED
    BY <1>4, <2>4
<1>8. CASE MarkOperator
  BY <1>1, <1>2, <1>4, <1>8, WalkBegins
<1>9. CASE MarkUses
  BY <1>1, <1>2, <1>4, <1>9, WalkEnds
<1>10. CASE MarkOutputs
  BY <1>1, <1>2, <1>4, <1>10, WalkCloses
<1>11. QED
  BY <1>5, <1>6, <1>7, <1>8, <1>9, <1>10

LEMMA ToldStays ==
  ASSUME model' = model, requests' = requests, infos' = infos, model \in Models, infos \in Seq(InfoType),
         NEW G, Told(G)
  PROVE  Told(G)'
<1>1. Prolonged
  <2>1. \A j \in DOMAIN infos : infos[j].last <= infos[j].last
    BY InfoTimes
  <2>2. QED
    BY <2>1 DEF Prolonged
<1>2. Complete(G)'
  BY <1>1, ProlongedComplete DEF Told
<1>3. QED
  BY <1>2 DEF Told

\* What remains on the list when the lifetimes are known.
Late(l) == \A i \in DOMAIN l : Deciding(l[i]) \/ Trailing(l[i])

LEMMA TimedMoves ==
  ASSUME Types, PlannedNamesOnly, Timed, AllocateTensorsStep
  PROVE  (\E G : Told(G)') /\ (todo' # <<>> => Timed')
<1>1. AllocationStep /\ AllocatorTypes /\ todo # <<>>
  BY StepTurns DEF Types, AllocateTensorsStep
<1>2. 1 \in DOMAIN todo /\ (Deciding(todo[1]) \/ Trailing(todo[1]))
  <2>1. 1 \in DOMAIN todo
    BY <1>1, TodoFacts
  <2>2. QED
    BY <2>1 DEF Timed
<1>3. todo[1].do \in {"plan", "commit", "reserve", "persistent", "reset"}
  BY <1>2 DEF Deciding, Trailing
<1>4. \/ AllocateTail \/ InitMemoryPlanner \/ AddBuffer \/ CalculateOffsets \/ CommitPlan
      \/ ReserveHead \/ ResetVariableTensors
  BY <1>1, <1>3 DEF AllocationStep, At, StartModelAllocation, AllocateTempTensor,
       InitScratchBufferData, PrepareNode, RequestScratchBufferInArena, FreeTempTensors,
       FinishPrepareNodeAllocations, AllocateScratchBufferHandles, CreateAllocationInfo, InitializeAllocationInfo,
       MarkInputs, MarkOperator, MarkUses, MarkOutputs
<1>5. UNCHANGED <<model, requests, infos>>
  BY <1>4 DEF AllocateTail, InitMemoryPlanner, AddBuffer, CalculateOffsets, CommitPlan, ReserveHead,
       ResetVariableTensors, book, ReadsGarbage
<1>6. todo' = <<>> \/ todo' = Tail(todo) \/ todo' = todo \/ (At("plan") /\ todo' = PlanSteps \o Tail(todo))
  BY <1>4 DEF AllocateTail, InitMemoryPlanner, AddBuffer, CalculateOffsets, CommitPlan, ReserveHead,
       ResetVariableTensors, ReadsGarbage, EndsAs, Refused, Rest, PlanSteps
<1>7. \E G : Told(G)'
  BY <1>1, <1>5, ToldStays DEF Timed, AllocatorTypes
<1>8. Late(todo)
  BY DEF Timed, Late
<1>9. ASSUME NEW items \in Seq(Todo), Advance(items), Late(items) PROVE Late(todo')
  <2> DEFINE n == Len(items)
  <2>1. /\ \A i \in DOMAIN items : todo'[i] = items[i]
        /\ \A i \in DOMAIN todo' : i \notin DOMAIN items => i - n + 1 \in DOMAIN todo /\ todo'[i] = todo[i - n + 1]
    BY <1>1, <1>9, Moved
  <2> HIDE DEF n
  <2>2. QED
    BY <1>8, <1>9, <2>1 DEF Late
<1>10. Late(todo')
  <2>1. CASE todo' = <<>>
    BY <2>1 DEF Late
  <2>2. CASE todo' = Tail(todo)
    <3>1. <<>> \in Seq(Todo) /\ Late(<<>>)
      BY DEF Late
    <3>2. todo' = <<>> \o Tail(todo)
      BY <1>1, <2>2, TodoFacts
    <3>3. QED
      BY <1>1, <1>9, <3>1, <3>2 DEF Advance
  <2>3. CASE At("plan") /\ todo' = PlanSteps \o Tail(todo)
    <3>1. PlanSteps \in Seq(Todo) /\ Late(PlanSteps)
      BY PlanStepsFacts DEF Late, Deciding
    <3>2. QED
      BY <1>1, <1>9, <2>3, <3>1 DEF Advance
  <2>4. QED
    BY <1>6, <1>8, <2>1, <2>2, <2>3
<1>11. QED
  <2>1. (\A i \in DOMAIN todo : Deciding(todo[i]) \/ Trailing(todo[i]))'
    BY <1>10 DEF Late, Deciding, Trailing
  <2>2. (\E G : Told(G))'
    BY <1>7
  <2>3. QED
    BY <1>7, <2>1, <2>2 DEF Timed

\* A step of the client or of an invocation leaves the allocation alone.
LEMMA OtherSteps ==
  ASSUME Working, StatusTypes, ClientStep \/ InvokeStep
  PROVE  /\ todo = <<>> /\ (todo' = <<>> \/ (todo' = <<Step("start")>> /\ Invoke))
         /\ UNCHANGED <<size, head, tail, temp, place, planner, model, requests, infos, scope, allocating, maxHead, short>>
         /\ outcome' = outcome \/ (Returned /\ outcome' = "none")
         /\ allocated' = allocated \/ (Returned /\ allocated' = (outcome = "ok"))
<1>1. CASE ClientStep
  <2>1. todo = <<>>
    BY <1>1 DEF ClientStep, Returned, GetInput, FillInput, Invoke, InvokeSubgraph, ReadOutput, Working
  <2>2. todo' = todo \/ (todo' = <<Step("start")>> /\ Invoke)
    BY <1>1 DEF ClientStep, Returned, GetInput, FillInput, Invoke, InvokeSubgraph, ReadOutput, others, allocator, status
  <2>3. UNCHANGED <<size, head, tail, temp, place, planner, model, requests, infos, scope, allocating, maxHead, short>>
    BY <1>1 DEF ClientStep, Returned, GetInput, FillInput, Invoke, InvokeSubgraph, ReadOutput, others, allocator,
         book, arena
  <2>4. outcome' = outcome \/ (Returned /\ outcome' = "none")
    BY <1>1 DEF ClientStep, Returned, GetInput, FillInput, Invoke, InvokeSubgraph, ReadOutput, others, allocator
  <2>5. allocated' = allocated \/ (Returned /\ allocated' = (outcome = "ok"))
    BY <1>1 DEF ClientStep, Returned, GetInput, FillInput, Invoke, InvokeSubgraph, ReadOutput, status
  <2>6. QED
    BY <2>1, <2>2, <2>3, <2>4, <2>5
<1>2. CASE InvokeStep
  <2>1. frames # <<>> /\ UNCHANGED <<others, allocated>>
    BY <1>2 DEF InvokeStep, Kernel, IfStarts, IfEnds, WhileStarts, WhileTests, WhileRepeats, SubgraphEnds,
         InvokeFails, Running, status
  <2>2. todo = <<>>
    BY <2>1 DEF Working
  <2>3. UNCHANGED <<size, head, tail, temp, place, planner, model, requests, infos, scope, allocating, maxHead, short,
                    todo, outcome>>
    BY <2>1 DEF others, allocator
  <2>4. QED
    BY <2>1, <2>2, <2>3
<1>3. QED
  BY <1>1, <1>2

LEMMA SameWalk ==
  ASSUME UNCHANGED <<model, requests, infos, scope, todo>>, model \in Models, infos \in Seq(InfoType),
         NEW base, NEW n, NEW W, NEW G, Walk(base, n, W, G)
  PROVE  Walk(base, n, W, G)'
<1>1. Prolonged
  <2>1. \A j \in DOMAIN infos : infos[j].last <= infos[j].last
    BY InfoTimes
  <2>2. QED
    BY <2>1 DEF Prolonged
<1>2. Complete(G)'
  BY <1>1, ProlongedComplete DEF Walk
<1>3. Len(todo)' = Len(todo) /\ \A d : From(d)' = From(d)
  BY DEF From
<1>4. Below(base)'
  BY <1>3 DEF Walk, Below, Deciding, Trailing
<1>5. Reaching(scope)' /\ scope' = scope
  BY DEF Walk, Reaching
<1>6. /\ \A s : Ops(s)' = Ops(s) /\ InputNames(s)' = InputNames(s) /\ OutputNames(s)' = OutputNames(s)
      /\ \A s, o : OutNames(s, o)' = OutNames(s, o) /\ UseNames(s, o)' = UseNames(s, o)
      /\ VisitType' = VisitType
  BY ProlongedNames
<1>7. OpenType' = OpenType
  BY <1>6 DEF OpenType
<1>8. \A x : /\ OpCount(x)' = OpCount(x) /\ CallsOf(x)' = CallsOf(x)
  BY <1>6 DEF OpCount, CallsOf
<1>9. \A x : OpDepth(x)' = OpDepth(x)
  BY <1>8 DEF OpDepth
<1>10. \A x, c : Slot(x, c)' = Slot(x, c)
  BY <1>8, <1>9 DEF Slot
<1>11. \A x : Leading(x) => Leading(x)'
  BY <1>3, <1>9, <1>10 DEF Leading
<1>12. ASSUME NEW x, Remains(x) PROVE Remains(x)'
  BY <1>3, <1>8, <1>10, <1>12 DEF Remains
<1>13. ASSUME NEW x, NEW calls, Known(x, calls, G) PROVE Known(x, calls, G)'
  <2>1. /\ \A names, t : BornBy(names, t)' <=> BornBy(names, t)
        /\ \A names, t : LastsTo(names, t)' <=> LastsTo(names, t)
    BY DEF BornBy, LastsTo
  <2>2. ASSUME NEW o, OpVisited(x.visit, o, G) PROVE OpVisited(x.visit, o, G)'
    BY <1>6, <2>1, <2>2 DEF OpVisited, OpTimed, Within
  <2>3. Visited(x.visit, x.done, G)'
    BY <1>6, <1>13, <2>1, <2>2 DEF Known, Visited, Begun
  <2>4. x.busy => OpBegun(x.visit, x.done + 1, calls, G)'
    BY <1>5, <1>6, <1>13, <2>1 DEF Known, OpBegun, Within
  <2>5. QED
    BY <1>5, <1>13, <2>3, <2>4 DEF Known
<1>14. \A x, y : Calling(x, y) => Calling(x, y)'
  BY <1>8, <1>10 DEF Calling
<1>15. \A k \in 1 .. n : W[k] \in OpenType /\ Remains(W[k])' /\ Known(W[k], IF k = n THEN W[k].kids ELSE W[k].kids - 1, G)'
  BY <1>12, <1>13 DEF Walk
<1>16. \A k \in 1 .. n : k < n => Calling(W[k], W[k + 1])'
  BY <1>14 DEF Walk
<1>17. IF n = 0 THEN Len(todo)' = base + 1 /\ From(base + 1)' = Mark(1, 0)
       ELSE W[1].depth = base + 1 /\ W[1].visit.sub = 1 /\ Leading(W[n])'
  BY <1>3, <1>11 DEF Walk
<1>18. scope' >= 0 /\ (\A g \in G : g.hi <= scope') /\ \A j, k \in 1 .. n : j < k => W[j].depth < W[k].depth
  BY <1>5 DEF Walk
<1>19. QED
  BY <1>2, <1>4, <1>5, <1>7, <1>15, <1>16, <1>17, <1>18 DEF Walk

LEMMA NextTiming ==
  ASSUME TypeInv, Working, Fitting, Rear(todo), Timing, [Next]_vars
  PROVE  Timing'
<1>1. Types /\ AllocatorTypes /\ StatusTypes /\ PlanLast(todo) /\ PlannedNamesOnly
  BY DEF TypeInv, Types, Fitting
<1>2. CASE AllocateTensorsStep
  <2>1. todo # <<>> /\ Turns /\ outcome = "none" /\ ~allocated /\ allocated' = allocated
    BY <1>1, <1>2, StepTurns DEF Working, AllocateTensorsStep, status
  <2>2. CASE Before /\ todo[1].do # "lifetimes"
    <3>1. todo' # <<>> => Before'
      BY <1>1, <2>1, <2>2, BeforeMoves
    <3>2. outcome' # "ok"
      <4>1. ~At("reset")
        <5>1. 1 \in DOMAIN todo /\ DOMAIN todo \subseteq Nat \ {0}
          BY <1>1, <2>1, TodoFacts
        <5>2. todo[1].do = "reset" => \A i \in DOMAIN todo : Trailing(todo[i])
          BY <1>1, <5>1 DEF PlanLast
        <5>3. QED
          BY <2>2, <5>2 DEF Before, Trailing, At
      <4>2. QED
        BY <1>1, <1>2, <2>1, <4>1, OnlyResetOk DEF ResetVariableTensors
    <3>3. QED
      BY <2>1, <3>1, <3>2 DEF Timing
  <2>3. CASE todo[1].do = "lifetimes"
    <3>1. InitializeAllocationInfo
      BY <1>2, <2>3 DEF AllocateTensorsStep, AllocationStep, At, StartModelAllocation, AllocateTail,
           AllocateTempTensor, InitScratchBufferData, PrepareNode, RequestScratchBufferInArena, FreeTempTensors,
           FinishPrepareNodeAllocations, AllocateScratchBufferHandles, CreateAllocationInfo,
           MarkInputs, MarkOperator, MarkUses, MarkOutputs, InitMemoryPlanner, AddBuffer, CalculateOffsets,
           CommitPlan, ReserveHead, ResetVariableTensors
    <3>2. todo' # <<>> => Walking'
      BY <1>1, <3>1, LifetimesWalk
    <3>3. outcome' # "ok"
      BY <2>1, <3>1 DEF InitializeAllocationInfo, ReadsGarbage, EndsAs
    <3>4. QED
      BY <2>1, <3>2, <3>3 DEF Timing
  <2>4. CASE Walking
    <3>1. todo' # <<>> => Walking' \/ Timed'
      BY <1>1, <1>2, <2>4, WalkMoves
    <3>2. outcome' # "ok"
      <4>1. todo[1].do # "reset"
        BY <1>1, <2>4, LeafKind DEF Walking
      <4>2. QED
        BY <1>1, <1>2, <2>1, <4>1, OnlyResetOk DEF ResetVariableTensors, At
    <3>3. QED
      BY <2>1, <3>1, <3>2 DEF Timing
  <2>5. CASE Timed
    <3>1. (\E G : Told(G))' /\ (todo' # <<>> => Timed')
      BY <1>1, <1>2, <2>5, TimedMoves
    <3>2. QED
      BY <3>1 DEF Timing
  <2>6. QED
    BY <2>1, <2>2, <2>3, <2>4, <2>5 DEF Timing
<1>3. CASE ClientStep \/ InvokeStep
  <2>1. /\ todo' = <<>> \/ todo' = <<Step("start")>>
        /\ UNCHANGED <<model, requests, infos>>
        /\ outcome' = "ok" \/ allocated' => outcome = "ok" \/ allocated
    <3>1. /\ todo' = <<>> \/ (todo' = <<Step("start")>> /\ Invoke)
          /\ UNCHANGED <<size, head, tail, temp, place, planner, model, requests, infos, scope, allocating, maxHead, short>>
          /\ outcome' = outcome \/ (Returned /\ outcome' = "none")
          /\ allocated' = allocated \/ (Returned /\ allocated' = (outcome = "ok"))
      BY <1>1, <1>3, OtherSteps
    <3>2. outcome' = "ok" => outcome = "ok"
      BY <3>1
    <3>3. allocated' => outcome = "ok" \/ allocated
      BY <3>1, Zenon
    <3>4. QED
      BY <3>1, <3>2, <3>3
  <2>2. todo' = <<Step("start")>> => Before'
    <3> DEFINE x == Step("start")
    <3>1. x.do = "start"
      BY DEF Step
    <3> HIDE DEF x
    <3>2. todo' = <<x>> => Before'
      BY <3>1 DEF Before
    <3>3. QED
      BY <3>2 DEF x
  <2>3. outcome' = "ok" \/ allocated' => (\E G : Told(G))'
    BY <1>1, <2>1, ToldStays DEF Timing, AllocatorTypes
  <2>4. QED
    BY <2>1, <2>2, <2>3 DEF Timing
<1>4. CASE UNCHANGED vars
  <2>1. UNCHANGED <<model, requests, infos, scope, todo, outcome, allocated>>
    BY <1>4 DEF vars, allocator, status
  <2>2. Before => Before'
    BY <2>1 DEF Before
  <2>3. model \in Models /\ infos \in Seq(InfoType)
    BY <1>1 DEF AllocatorTypes
  <2>4. Walking => Walking'
    BY <2>1, <2>3, SameWalk DEF Walking
  <2>5. \A G : Told(G) => Told(G)'
    BY <2>1, <2>3, ToldStays
  <2>6. Timed => Timed'
    BY <2>1, <2>5 DEF Timed, Deciding, Trailing
  <2>7. QED
    BY <2>1, <2>2, <2>4, <2>5, <2>6 DEF Timing
<1>5. QED
  BY <1>2, <1>3, <1>4 DEF Next

LEMMA InitTiming == Init => Timing
<1> DEFINE a == Persistent(<<"arena", 0, 0>>, SizeOf.SingleArenaBufferAllocator, 1, "undefined")
           b == Persistent(<<"planner", 0, 0>>, SizeOf.GreedyMemoryPlanner, 1, "undefined")
           c == Persistent(<<"allocator", 0, 0>>, SizeOf.MicroAllocator, 1, "undefined")
           d == Step("start")
<1>1. Construct = <<a, b, c, d>> /\ d.do = "start"
  BY DEF Construct, Step
<1> HIDE DEF a, b, c, d
<1>2. todo = Construct => Before
  BY <1>1 DEF Before
<1>3. QED
  BY <1>2 DEF Init, AllocatorInit, Timing

=============================================================================
