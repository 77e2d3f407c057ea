------------------------- MODULE NothingTorn_proofs -------------------------
(* The theorem that an invocation never reads a tensor in whose memory     *)
(* something else was written since, for any models and arenas.            *)
EXTENDS AllocatedIsWhole_proofs

\* Every buffer that is to be placed has its AllocationInfo, and no other has.
Covered == GivenTensors \subseteq PlannedNames /\ \A k \in DOMAIN requests : Scratch(k) \in PlannedNames
GivenOnly == \A n \in PlannedNames : IsTensor(n) => n \in GivenTensors
Covering ==
  /\ todo # <<>> => Before \/ Covered
  /\ outcome = "ok" \/ allocated => Covered

LEMMA ScratchInfos ==
  ASSUME model \in Models, requests \in Seq(RequestType), NEW k \in DOMAIN requests
  PROVE  \E j \in DOMAIN AllocationInfo : AllocationInfo[j].name = Scratch(k)
<1> DEFINE all == PerTensor(LAMBDA t : OnlyIf(NeedsAllocating(t), NewInfo(T(t[1], t[2]), Bytes(t), Offline(t))))
           scratch == [i \in DOMAIN requests |-> NewInfo(Scratch(i), requests[i].bytes, Online)]
           S == InfoType \cup {scratch[i] : i \in DOMAIN requests}
<1>1. AllocationInfo = all \o scratch
  BY DEF AllocationInfo
<1>2. all \in Seq(TensorInfo)
  BY TensorInfos
<1>3. TensorInfo \subseteq S
  BY DEF TensorInfo
<1>4. Len(requests) \in Nat /\ DOMAIN requests = 1 .. Len(requests)
  OBVIOUS
<1>5. scratch[k].name = Scratch(k) /\ DOMAIN scratch = DOMAIN requests
  BY DEF NewInfo
<1>6. scratch \in Seq(S)
  <2>1. \A i \in 1 .. Len(requests) : scratch[i] \in S
    BY <1>4
  <2>2. scratch = [i \in 1 .. Len(requests) |-> scratch[i]]
    BY <1>4
  <2> HIDE DEF S, scratch
  <2>3. QED
    BY <1>4, <2>1, <2>2, ListOf
<1> HIDE DEF all, scratch, S
<1>7. all \in Seq(S)
  BY <1>2, <1>3
<1>8. k + Len(all) \in DOMAIN (all \o scratch) /\ (all \o scratch)[k + Len(all)] = scratch[k]
  BY <1>5, <1>6, <1>7, JoinedRight
<1>9. QED
  BY <1>1, <1>5, <1>8

LEMMA LifetimesCover ==
  ASSUME Types, InitializeAllocationInfo, todo' # <<>>
  PROVE  Covered' /\ GivenOnly'
<1>1. /\ model \in Models /\ requests \in Seq(RequestType) /\ infos' = AllocationInfo
      /\ model' = model /\ requests' = requests
  BY DEF Types, AllocatorTypes, InitializeAllocationInfo, ReadsGarbage, EndsAs
<1>2. GivenTensors' = GivenTensors
  BY <1>1, SameNeeds
<1>3. GivenTensors \subseteq PlannedNames'
  BY <1>1, InfoNames DEF PlannedNames
<1>4. \A k \in DOMAIN requests : Scratch(k) \in PlannedNames'
  BY <1>1, ScratchInfos DEF PlannedNames
<1>5. Covered'
  BY <1>1, <1>2, <1>3, <1>4 DEF Covered
<1>6. \A j \in DOMAIN AllocationInfo : AllocationInfo[j] \in Unused
  BY <1>1, InfosUnused
<1>7. \A n \in PlannedNames' : n \in GivenTensors \/ n[1] = "scratch"
  BY <1>1, <1>6 DEF Unused, PlannedNames, Scratch
<1>8. GivenOnly'
  BY <1>2, <1>7 DEF GivenOnly, IsTensor
<1>9. QED
  BY <1>5, <1>8

LEMMA MarkedNames ==
  ASSUME infos \in Seq(InfoType), NEW names, NEW now \in Int,
         infos' \in {infos, Created(infos, names, now), Used(infos, names, now),
                     Used(Created(infos, names, now), names, now)}
  PROVE  PlannedNames' = PlannedNames
<1>1. ASSUME NEW a \in Seq(InfoType)
      PROVE  /\ DOMAIN Used(a, names, now) = DOMAIN a /\ DOMAIN Created(a, names, now) = DOMAIN a
             /\ \A j \in DOMAIN a : Used(a, names, now)[j].name = a[j].name
             /\ \A j \in DOMAIN a : Created(a, names, now)[j].name = a[j].name
  <2>1. DOMAIN Used(a, names, now) = DOMAIN a /\ DOMAIN Created(a, names, now) = DOMAIN a
    BY DEF Used, Created
  <2>2. \A j \in DOMAIN a : Used(a, names, now)[j].name = a[j].name
    BY UsedStays
  <2>3. ASSUME NEW j \in DOMAIN a PROVE Created(a, names, now)[j].name = a[j].name
    <3>1. a[j] \in InfoType
      OBVIOUS
    <3>2. Created(a, names, now)[j] = IF a[j].name \in names /\ a[j].first = -1 THEN [a[j] EXCEPT !.first = now] ELSE a[j]
      BY DEF Created
    <3>3. [a[j] EXCEPT !.first = now].name = a[j].name
      BY <3>1 DEF InfoType
    <3>4. PICK x : x = Created(a, names, now)[j]
      OBVIOUS
    <3>5. x.name = a[j].name
      BY <3>2, <3>3, <3>4
    <3>6. QED
      BY <3>4, <3>5
  <2>4. QED
    BY <2>1, <2>2, <2>3
<1>2. Created(infos, names, now) \in Seq(InfoType)
  BY MarkedTypes
<1>3. PICK c \in Seq(InfoType) : c = Created(infos, names, now)
  BY <1>2
<1>4. DOMAIN c = DOMAIN infos /\ \A j \in DOMAIN infos : c[j].name = infos[j].name
  BY <1>1, <1>3
<1>5. DOMAIN infos' = DOMAIN infos /\ \A j \in DOMAIN infos : infos'[j].name = infos[j].name
  <2>1. CASE infos' = infos
    BY <2>1
  <2>2. CASE infos' = c
    BY <1>4, <2>2
  <2>3. CASE infos' = Used(infos, names, now)
    BY <1>1, <2>3
  <2>4. CASE infos' = Used(c, names, now)
    BY <1>1, <1>4, <2>4
  <2>5. QED
    BY <1>3, <2>1, <2>2, <2>3, <2>4
<1>6. QED
  BY <1>5 DEF PlannedNames

LEMMA MarkingNames ==
  ASSUME Types, MarkInputs \/ MarkOperator \/ MarkUses \/ MarkOutputs
  PROVE  PlannedNames' = PlannedNames /\ requests' = requests /\ model' = model
<1>1. infos \in Seq(InfoType) /\ scope \in Int
  BY DEF Types, AllocatorTypes
<1>2. ASSUME NEW read, NEW now, NEW marked, NEW items, Marks(read, now, marked, items)
      PROVE  infos' \in {infos, marked} /\ requests' = requests /\ model' = model
  BY <1>2 DEF Marks, ReadsGarbage, book
<1>3. CASE MarkInputs
  <2>1. PICK names, now : names = Range(Named(todo[1].subgraph, model[todo[1].subgraph].inputs))
                          /\ now = scope + todo[1].opens
    OBVIOUS
  <2>2. now \in Int
    <3>1. todo[1] \in MarkType
      BY <1>3, ItemKinds DEF MarkInputs, At, Types
    <3>2. todo[1].opens \in Int
      BY <3>1 DEF MarkType
    <3>3. QED
      BY <1>1, <2>1, <3>2
  <2>3. infos' \in {infos, Used(Created(infos, names, now), names, now)} /\ requests' = requests /\ model' = model
    BY <1>2, <1>3, <2>1 DEF MarkInputs
  <2>4. QED
    BY <1>1, <2>2, <2>3, MarkedNames
<1>4. CASE MarkOperator
  <2>1. PICK names : names = Range(Named(todo[1].subgraph, Ops(todo[1].subgraph)[todo[1].op].outputs))
                             \cup ScratchNames(todo[1].subgraph, todo[1].op)
    OBVIOUS
  <2>2. infos' \in {infos, Created(infos, names, scope + 1)} /\ requests' = requests /\ model' = model
    BY <1>2, <1>4, <2>1 DEF MarkOperator
  <2>3. scope + 1 \in Int
    BY <1>1
  <2>4. QED
    BY <1>1, <2>2, <2>3, MarkedNames
<1>5. CASE MarkUses
  <2>1. PICK names : names = Range(Named(todo[1].subgraph, Ops(todo[1].subgraph)[todo[1].op].inputs
                                                           \o Ops(todo[1].subgraph)[todo[1].op].outputs))
                             \cup ScratchNames(todo[1].subgraph, todo[1].op)
    OBVIOUS
  <2>2. infos' \in {infos, Used(infos, names, scope)} /\ requests' = requests /\ model' = model
    BY <1>2, <1>5, <2>1 DEF MarkUses
  <2>3. QED
    BY <1>1, <2>2, MarkedNames
<1>6. CASE MarkOutputs
  <2>1. PICK names : names = Range(Named(todo[1].subgraph, model[todo[1].subgraph].outputs))
    OBVIOUS
  <2>2. infos' \in {infos, Used(Created(infos, names, scope), names, scope)} /\ requests' = requests /\ model' = model
    BY <1>2, <1>6, <2>1 DEF MarkOutputs
  <2>3. QED
    BY <1>1, <2>2, MarkedNames
<1>7. QED
  BY <1>3, <1>4, <1>5, <1>6

LEMMA NamesKept ==
  ASSUME Types, AllocateTensorsStep, ~(InitializeAllocationInfo /\ todo' # <<>>)
  PROVE  PlannedNames' = PlannedNames
<1>1. CASE MarkInputs \/ MarkOperator \/ MarkUses \/ MarkOutputs
  BY <1>1, MarkingNames
<1>2. CASE InitializeAllocationInfo
  <2>1. infos' = infos
    <3>1. todo' = <<>>
      BY <1>2
    <3>2. todo \in Seq(Todo) /\ todo # <<>>
      BY <1>2 DEF Types, AllocatorTypes, InitializeAllocationInfo, At
    <3> DEFINE x == Mark(1, 0)
    <3>3. <<x>> \o Tail(todo) # <<>>
      <4>1. Mark(1, 0) \in Item
        BY MarkItem, ModelFacts DEF Types, AllocatorTypes
      <4>2. x \in Todo
        BY <4>1 DEF Todo
      <4> HIDE DEF x
      <4>3. <<x>> \in Seq(Todo) /\ Len(<<x>>) = 1 /\ Tail(todo) \in Seq(Todo)
        BY <3>2, <4>2
      <4>4. 1 \in DOMAIN (<<x>> \o Tail(todo))
        BY <4>3, Joined
      <4>5. QED
        BY <4>4
    <3>4. QED
      BY <1>2, <3>1, <3>3 DEF InitializeAllocationInfo, ReadsGarbage, book
  <2>2. QED
    BY <2>1 DEF PlannedNames
<1>3. CASE ~(MarkInputs \/ MarkOperator \/ MarkUses \/ MarkOutputs \/ InitializeAllocationInfo)
  <2>1. infos' = infos
    BY <1>3 DEF AllocateTensorsStep, AllocationStep, StartModelAllocation, AllocateTail, AllocateTempTensor,
         InitScratchBufferData, PrepareNode, RequestScratchBufferInArena, FreeTempTensors,
         FinishPrepareNodeAllocations, AllocateScratchBufferHandles, CreateAllocationInfo, InitMemoryPlanner,
         AddBuffer, CalculateOffsets, CommitPlan, ReserveHead, ResetVariableTensors, ReadsGarbage, book
  <2>2. QED
    BY <2>1 DEF PlannedNames
<1>4. QED
  BY <1>1, <1>2, <1>3

LEMMA GivenOnlyStays ==
  ASSUME Types, GivenOnly, AllocateTensorsStep
  PROVE  GivenOnly'
<1>1. CASE InitializeAllocationInfo /\ todo' # <<>>
  BY <1>1, LifetimesCover
<1>2. CASE ~(InitializeAllocationInfo /\ todo' # <<>>)
  <2>1. PlannedNames' = PlannedNames
    BY <1>2, NamesKept
  <2>2. model' = model
    BY DEF AllocateTensorsStep, AllocationStep, StartModelAllocation, AllocateTail, AllocateTempTensor,
         InitScratchBufferData, PrepareNode, RequestScratchBufferInArena, FreeTempTensors,
         FinishPrepareNodeAllocations, AllocateScratchBufferHandles, CreateAllocationInfo, InitMemoryPlanner,
         AddBuffer, CalculateOffsets, CommitPlan, ReserveHead, ResetVariableTensors, ReadsGarbage, book,
         InitializeAllocationInfo, MarkInputs, MarkOperator, MarkUses, MarkOutputs, Marks
  <2>3. QED
    BY <2>1, <2>2, SameNeeds DEF GivenOnly
<1>3. QED
  BY <1>1, <1>2

LEMMA CoveringMoves ==
  ASSUME TypeInv, Working, Fitting, Timing, Covering, AllocateTensorsStep
  PROVE  Covering'
<1>1. Types /\ AllocatorTypes /\ PlanLast(todo) /\ PlannedNamesOnly
  BY DEF TypeInv, Types, Fitting
<1>2. todo # <<>> /\ Turns /\ outcome = "none" /\ ~allocated' /\ model' = model
  BY <1>1, StepTurns DEF Working, AllocateTensorsStep, status
<1>3. CASE Before /\ todo[1].do # "lifetimes"
  <2>1. todo' # <<>> => Before'
    BY <1>1, <1>2, <1>3, BeforeMoves
  <2>2. outcome' # "ok"
    <3>1. ~At("reset")
      <4>1. 1 \in DOMAIN todo /\ DOMAIN todo \subseteq Nat \ {0}
        BY <1>1, <1>2, TodoFacts
      <4>2. todo[1].do = "reset" => \A i \in DOMAIN todo : Trailing(todo[i])
        BY <1>1, <4>1 DEF PlanLast
      <4>3. QED
        BY <1>3, <4>2 DEF Before, Trailing, At
    <3>2. QED
      BY <1>1, <1>2, <3>1, OnlyResetOk DEF ResetVariableTensors
  <2>3. QED
    BY <1>2, <2>1, <2>2 DEF Covering
<1>4. CASE todo[1].do = "lifetimes"
  <2>1. InitializeAllocationInfo
    BY <1>4 DEF AllocateTensorsStep, AllocationStep, At, StartModelAllocation, AllocateTail,
         AllocateTempTensor, InitScratchBufferData, PrepareNode, RequestScratchBufferInArena, FreeTempTensors,
         FinishPrepareNodeAllocations, AllocateScratchBufferHandles, CreateAllocationInfo,
         MarkInputs, MarkOperator, MarkUses, MarkOutputs, InitMemoryPlanner, AddBuffer, CalculateOffsets,
         CommitPlan, ReserveHead, ResetVariableTensors
  <2>2. outcome' # "ok"
    BY <1>2, <2>1 DEF InitializeAllocationInfo, ReadsGarbage, EndsAs
  <2>3. QED
    BY <1>1, <1>2, <2>1, <2>2, LifetimesCover DEF Covering
<1>5. CASE ~Before /\ todo[1].do # "lifetimes"
  <2>1. Covered
    BY <1>2, <1>5 DEF Covering
  <2>2. todo[1].do \in {"mark", "used", "op", "outputs", "plan", "commit", "reserve", "persistent", "reset"}
    <3>1. Walking \/ Timed
      BY <1>2, <1>5 DEF Timing
    <3>2. CASE Walking
      BY <1>1, <3>2, LeafKind DEF Walking
    <3>3. CASE Timed
      <4>1. 1 \in DOMAIN todo
        BY <1>1, <1>2, TodoFacts
      <4>2. QED
        BY <3>3, <4>1 DEF Timed, Deciding, Trailing
    <3>4. QED
      BY <3>1, <3>2, <3>3
  <2>3. requests' = requests
    BY <2>2 DEF AllocateTensorsStep, AllocationStep, At, StartModelAllocation, AllocateTail,
         AllocateTempTensor, InitScratchBufferData, PrepareNode, RequestScratchBufferInArena, FreeTempTensors,
         FinishPrepareNodeAllocations, AllocateScratchBufferHandles, CreateAllocationInfo, InitializeAllocationInfo,
         MarkInputs, MarkOperator, MarkUses, MarkOutputs, Marks, InitMemoryPlanner, AddBuffer, CalculateOffsets,
         CommitPlan, ReserveHead, ResetVariableTensors, ReadsGarbage, book
  <2>4. PlannedNames' = PlannedNames
    BY <1>1, <1>5, NamesKept DEF InitializeAllocationInfo, At
  <2>5. Covered'
    BY <1>2, <2>1, <2>3, <2>4, SameNeeds DEF Covered
  <2>6. QED
    BY <2>5 DEF Covering
<1>6. QED
  BY <1>3, <1>4, <1>5

-----------------------------------------------------------------------------
(* The plan is what lies in the head.                                      *)

Decided == At("reserve") \/ Finishing(todo) \/ outcome = "ok" \/ allocated
PlanLaid ==
  /\ Matching /\ Planned /\ bufferCount = Len(infos)
  /\ \A n \in PlannedNames : n \in DOMAIN place /\ place[n] = Planning(n)

\* The steps to and behind the decision.
LEMMA DecidedMoves ==
  ASSUME Types, Reserving, Working, Fitting, AllocateTensorsStep, Decided'
  PROVE  \/ /\ CommitPlan /\ Rest /\ Matching /\ At("reserve")'
            /\ place' = [n \in PlannedNames \cup DOMAIN place |-> IF n \in PlannedNames THEN Planning(n) ELSE place[n]]
         \/ ReserveHead /\ At("reserve") /\ KernelTemps = {} /\ tail >= maxHead'
         \/ AllocateTail /\ Finishing(todo) /\ ~IsTensor(todo[1].name) /\ Rest
         \/ ResetVariableTensors /\ Finishing(todo)
<1>1. /\ AllocationStep /\ todo # <<>> /\ AllocatorTypes /\ PlannedNamesOnly /\ ~allocated' /\ outcome = "none"
      /\ Working' /\ Fitting' /\ PlanLast(todo) /\ Committing
  <2>1. todo # <<>>
    BY StepTurns DEF Fitting
  <2>2. QED
    BY <2>1, AllocationFitting DEF AllocateTensorsStep, status, Types, Fitting, Working
<1>2. 1 \in DOMAIN todo /\ DOMAIN todo \subseteq Nat \ {0}
  BY <1>1, TodoFacts
<1>3. ASSUME Early PROVE FALSE
  <2>1. ~Deciding(todo[1]) /\ ~Trailing(todo[1])
    BY <1>3 DEF Early, EarlyKinds, MarkKinds, Deciding, Trailing
  <2>2. CASE Ending
    BY <1>1, <2>2 DEF Ending, Decided, At, Finishing
  <2>3. ASSUME NEW items, Going(items) PROVE FALSE
    <3>1. items \in Seq(Todo) /\ Quiet(items) /\ Advance(items) /\ outcome' = "none"
      BY <1>1, <2>3, MarksQuiet DEF Going
    <3>2. PlanLast(todo') /\ (Finishing(todo') => Finishing(todo))
      BY <1>1, <2>1, <3>1, QuietMove
    <3>3. Committing' /\ ~At("reserve")'
      BY <1>1, <2>1, <3>1, QuietNext
    <3>4. ~Finishing(todo)
      BY <1>2, <2>1 DEF Finishing
    <3>5. ~Finishing(todo)'
      BY <3>2, <3>4 DEF Finishing, Trailing
    <3>6. QED
      BY <1>1, <3>1, <3>3, <3>5 DEF Decided
  <2>4. QED
    BY <1>3, <2>2, <2>3 DEF Early
<1>4. ~(todo' = <<>> /\ outcome' # "ok")
  BY <1>1 DEF Decided, At, Finishing
<1>5. ASSUME StartModelAllocation PROVE FALSE
  <2>1. todo' = AllocateTensors /\ outcome' = "none"
    BY <1>1, <1>4, <1>5 DEF StartModelAllocation, EndsAs
  <2>2. PICK l : l = AllocateTensors
    OBVIOUS
  <2>3. PICK i \in DOMAIN l : l[i].do = "lifetimes"
    BY <1>1, <2>2, ListFacts DEF AllocatorTypes
  <2>4. ~Finishing(todo)'
    BY <2>1, <2>2, <2>3 DEF Finishing, Trailing
  <2>5. l \in Seq(Item) /\ 1 \in DOMAIN l
    <3>1. l \in Seq(Item)
      BY <1>1, <2>2, ListFacts DEF AllocatorTypes
    <3>2. QED
      BY <2>3, <3>1
  <2>6. l[1].do # "reserve"
    BY <2>5 DEF Item, PersistentType, TemporaryType, StepType, OpType, MarkType
  <2>7. QED
    BY <1>1, <2>1, <2>2, <2>4, <2>6 DEF Decided, At
<1>6. ASSUME AllocateTail PROVE Finishing(todo) /\ ~IsTensor(todo[1].name) /\ Rest
  <2>1. At("persistent") => todo[1] \in PersistentType
    BY <1>1, ItemKinds DEF At
  <2>2. \A x \in PersistentType : x.null # "ok"
    BY DEF PersistentType
  <2>3. Rest
    BY <1>4, <1>6, <2>1, <2>2 DEF AllocateTail, Refused, EndsAs
  <2> DEFINE none == <<>>
  <2>4. none \in Seq(Todo) /\ Advance(none) /\ DOMAIN none = {} /\ Quiet(none)
    BY <1>1, <2>3, Popped DEF Rest, Quiet
  <2> HIDE DEF none
  <2>5. ~Deciding(todo[1]) /\ todo[1].do = "persistent"
    BY <1>6 DEF Deciding, AllocateTail, At
  <2>6. PlanLast(todo') /\ (Finishing(todo') => Finishing(todo))
    BY <1>1, <2>4, <2>5, QuietMove
  <2>7. ~At("reserve")'
    BY <1>1, <2>4, <2>5, QuietNext
  <2>8. Finishing(todo)
    <3>1. Finishing(todo)'
      BY <1>1, <2>3, <2>7 DEF Decided, Rest
    <3>2. QED
      BY <2>6, <3>1 DEF Finishing, Trailing
  <2>9. Trailing(todo[1])
    BY <1>2, <2>8 DEF Finishing
  <2>10. QED
    BY <2>3, <2>5, <2>8, <2>9 DEF Trailing, IsTensor
<1>7. ASSUME InitMemoryPlanner \/ AddBuffer \/ CalculateOffsets PROVE FALSE
  <2>1. Deciding(todo[1]) /\ outcome' # "ok"
    BY <1>1, <1>7 DEF InitMemoryPlanner, AddBuffer, CalculateOffsets, At, Deciding, EndsAs, Refused, ReadsGarbage
  <2>2. todo' = todo \/ todo' = PlanSteps \o Tail(todo)
    BY <1>4, <1>7, <2>1 DEF InitMemoryPlanner, AddBuffer, CalculateOffsets, EndsAs, Refused, ReadsGarbage, PlanSteps
  <2>3. 1 \in DOMAIN todo' /\ todo'[1].do \in {"plan", "commit"}
    <3>1. CASE todo' = todo
      BY <1>2, <1>7, <3>1 DEF InitMemoryPlanner, AddBuffer, CalculateOffsets, At
    <3>2. CASE todo' = PlanSteps \o Tail(todo)
      <4>1. Advance(PlanSteps)
        BY <1>1, <3>2 DEF Advance
      <4>2. QED
        BY <1>1, <4>1, PlanStepsFacts, Moved
    <3>3. QED
      BY <2>2, <3>1, <3>2
  <2>4. QED
    BY <1>1, <2>1, <2>3 DEF Decided, At, Finishing, Trailing
<1>8. ASSUME CommitPlan
      PROVE  /\ Rest /\ Matching /\ At("reserve")'
             /\ place' = [n \in PlannedNames \cup DOMAIN place |-> IF n \in PlannedNames THEN Planning(n) ELSE place[n]]
  <2>1. /\ Rest
        /\ place' = [n \in PlannedNames \cup DOMAIN place |-> IF n \in PlannedNames THEN Planning(n) ELSE place[n]]
    BY <1>4, <1>8 DEF CommitPlan, ReadsGarbage, EndsAs
  <2>2. Matching /\ 2 \in DOMAIN todo /\ todo[2].do = "reserve"
    BY <1>1, <1>2, <1>8 DEF CommitPlan, At, Committing
  <2>3. todo' = Tail(todo)
    BY <2>1 DEF Rest
  <2>4. 1 \in DOMAIN todo' /\ todo'[1] = todo[2]
    <3>1. Tail(todo) \in Seq(Todo) /\ Len(todo) \in Nat /\ DOMAIN todo = 1 .. Len(todo)
          /\ DOMAIN Tail(todo) = 1 .. Len(todo) - 1
          /\ \A i \in 1 .. Len(todo) - 1 : Tail(todo)[i] = todo[i + 1]
      BY <1>1, TodoFacts
    <3>2. 1 \in 1 .. Len(todo) - 1 /\ 1 + 1 = 2
      BY <2>2, <3>1
    <3>3. QED
      BY <2>3, <3>1, <3>2
  <2>5. QED
    BY <2>1, <2>2, <2>4 DEF At
<1>9. ASSUME ReserveHead PROVE At("reserve") /\ KernelTemps = {} /\ tail >= maxHead'
  BY <1>4, <1>9 DEF ReserveHead, Refused, EndsAs
<1>10. ASSUME ResetVariableTensors PROVE Finishing(todo)
  <2>1. \A i \in DOMAIN todo : ~(i < 1)
    BY <1>2
  <2>2. QED
    BY <1>1, <1>2, <1>10, <2>1 DEF PlanLast, Finishing, ResetVariableTensors, At
<1>11. QED
  BY <1>1, <1>3, <1>5, <1>6, <1>7, <1>8, <1>9, <1>10, MarkingEarly, LifetimesEarly, PrepareEarly DEF AllocationStep

LEMMA LaidStays ==
  ASSUME PlanLaid, UNCHANGED <<planner, infos>>,
         \A n \in PlannedNames : n \in DOMAIN place /\ place[n] = Planning(n) => n \in DOMAIN place' /\ place'[n] = place[n]
  PROVE  PlanLaid'
<1>1. UNCHANGED <<max, bufferCount, requirements, offsets, list, count, wanted, prior, candidate>> /\ infos' = infos
  BY DEF planner, client, search
<1>2. PlannedNames' = PlannedNames
  BY <1>1 DEF PlannedNames
<1>3. \A n : Planning(n)' = Planning(n)
  BY <1>1 DEF Planning
<1>4. Matching' /\ Planned' /\ (bufferCount = Len(infos))'
  BY <1>1 DEF PlanLaid, Matching, Planned, Buffers, Placed, Requirement
<1>5. \A n \in PlannedNames : n \in DOMAIN place' /\ place'[n] = Planning(n)
  BY DEF PlanLaid
<1>6. QED
  BY <1>2, <1>3, <1>4, <1>5 DEF PlanLaid

Laying == Decided => PlanLaid

LEMMA CommitLays ==
  ASSUME CommitPlan, Rest, Matching,
         place' = [n \in PlannedNames \cup DOMAIN place |-> IF n \in PlannedNames THEN Planning(n) ELSE place[n]]
  PROVE  PlanLaid'
<1>1. /\ UNCHANGED <<max, bufferCount, requirements, offsets, list, count, wanted, prior, candidate>> /\ infos' = infos
      /\ Planned /\ bufferCount = Len(infos)
  BY DEF CommitPlan, planner, client, search, book, ReadsGarbage
<1>2. PlannedNames' = PlannedNames
  BY <1>1 DEF PlannedNames
<1>3. \A n : Planning(n)' = Planning(n)
  BY <1>1 DEF Planning
<1>4. Matching' /\ Planned' /\ (bufferCount = Len(infos))'
  BY <1>1 DEF Matching, Planned, Buffers, Placed, Requirement
<1>5. \A n \in PlannedNames : n \in DOMAIN place' /\ place'[n] = Planning(n)
  OBVIOUS
<1>6. QED
  BY <1>2, <1>3, <1>4, <1>5 DEF PlanLaid

\* A persistent buffer that is not a tensor's does not move the tensors and the
\* scratch buffers.
LEMMA TailMovesNothing ==
  ASSUME Types, AllocateTail, ~IsTensor(todo[1].name), Rest
  PROVE  \A n \in DOMAIN place : n[1] \in {"tensor", "scratch"} => n \in DOMAIN place' /\ place'[n] = place[n]
<1>1. AllocatorTypes /\ ArenaTypeOK /\ todo # <<>> /\ todo[1].do = "persistent"
  BY DEF Types, AllocateTail, At
<1>2. PICK r \in PersistentType : r = todo[1]
  BY <1>1, ItemKinds
<1>3. r.name[1] \notin {"tensor", "scratch"}
  <2>1. r.name[1] \in Kinds /\ r.name[1] # "tensor"
    BY <1>2 DEF PersistentType, PersistentNames, IsTensor
  <2>2. QED
    BY <2>1 DEF Kinds
<1>5. CASE AllocatePersistentBuffer(r.name, r.bytes, r.align, ~IsTensor(r.name))
  BY <1>3, <1>5 DEF AllocatePersistentBuffer, HandOut
<1>6. CASE Free({r.name})
  BY <1>3, <1>6 DEF Free, Without
<1>7. CASE UNCHANGED <<place, held>>
  BY <1>7
<1>8. QED
  BY <1>2, <1>5, <1>6, <1>7 DEF AllocateTail

LEMMA LayingMoves ==
  ASSUME Types, Reserving, Working, Fitting, Laying, AllocateTensorsStep
  PROVE  Laying'
<1> SUFFICES ASSUME Decided' PROVE PlanLaid'
  BY DEF Laying
<1>1. PlannedNamesOnly
  BY DEF Fitting
<1>2. \A n \in PlannedNames : n[1] \in {"tensor", "scratch"}
  BY <1>1 DEF PlannedNames, PlannedNamesOnly
<1>3. CASE CommitPlan /\ Rest /\ Matching /\
           place' = [n \in PlannedNames \cup DOMAIN place |-> IF n \in PlannedNames THEN Planning(n) ELSE place[n]]
  BY <1>3, CommitLays
<1>4. CASE ReserveHead /\ At("reserve") /\ KernelTemps = {}
  <2>1. PlanLaid
    BY <1>4 DEF Laying, Decided
  <2>2. UNCHANGED <<planner, infos>> /\ Free(Temps \cup RequestSlots)
    BY <1>4 DEF ReserveHead
  <2>3. \A n \in PlannedNames : n \notin Temps \cup RequestSlots
    BY <1>2 DEF Temps, IsTemp, RequestSlots, Request
  <2>4. \A n \in PlannedNames : n \in DOMAIN place => n \in DOMAIN place' /\ place'[n] = place[n]
    BY <2>2, <2>3 DEF Free, Without
  <2>5. QED
    BY <2>1, <2>2, <2>4, LaidStays
<1>5. CASE AllocateTail /\ Finishing(todo) /\ ~IsTensor(todo[1].name) /\ Rest
  <2>1. PlanLaid
    BY <1>5 DEF Laying, Decided
  <2>2. UNCHANGED <<planner, infos>>
    BY <1>5 DEF AllocateTail, book
  <2>3. QED
    BY <1>2, <1>5, <2>1, <2>2, LaidStays, TailMovesNothing
<1>6. CASE ResetVariableTensors /\ Finishing(todo)
  <2>1. PlanLaid
    BY <1>6 DEF Laying, Decided
  <2>2. UNCHANGED <<planner, infos>> /\ place' = place
    BY <1>6 DEF ResetVariableTensors, book
  <2>3. QED
    BY <2>1, <2>2, LaidStays
<1>7. QED
  BY <1>3, <1>4, <1>5, <1>6, DecidedMoves

LEMMA DecidedBefore ==
  ASSUME Working, StatusTypes, ClientStep \/ InvokeStep, Decided'
  PROVE  Decided
<1>1. /\ todo' = <<>> \/ todo' = <<Step("start")>>
      /\ outcome' = outcome \/ outcome' = "none"
      /\ allocated' => allocated \/ outcome = "ok"
  <2>1. /\ todo = <<>> /\ (todo' = <<>> \/ (todo' = <<Step("start")>> /\ Invoke))
        /\ outcome' = outcome \/ (Returned /\ outcome' = "none")
        /\ allocated' = allocated \/ (Returned /\ allocated' = (outcome = "ok"))
    BY OtherSteps
  <2>2. allocated' => allocated \/ outcome = "ok"
    BY <2>1, Zenon
  <2>3. QED
    BY <2>1, <2>2
<1>2. ~At("reserve")' /\ ~Finishing(todo')
  BY <1>1 DEF At, Finishing, Step
<1>3. QED
  BY <1>1, <1>2 DEF Decided, Finishing

LEMMA NextLaying ==
  ASSUME TypeInv, Reserving, Working, Fitting, Laying, [Next]_vars
  PROVE  Laying'
<1>1. CASE AllocateTensorsStep
  BY <1>1, LayingMoves DEF TypeInv, Types
<1>2. CASE ClientStep \/ InvokeStep
  <2>1. UNCHANGED <<planner, infos, place>>
    BY <1>2, OtherSteps DEF TypeInv
  <2>2. Decided' => Decided
    BY <1>2, DecidedBefore DEF TypeInv
  <2>3. PlanLaid => PlanLaid'
    BY <2>1, LaidStays
  <2>4. QED
    BY <2>2, <2>3 DEF Laying
<1>3. CASE UNCHANGED vars
  <2>1. UNCHANGED <<planner, infos, place, todo, outcome, allocated>>
    BY <1>3 DEF vars, arena, allocator, status
  <2>2. Decided' => Decided
    BY <2>1 DEF Decided, At, Finishing
  <2>3. PlanLaid => PlanLaid'
    BY <2>1, LaidStays
  <2>4. QED
    BY <2>2, <2>3 DEF Laying
<1>4. QED
  BY <1>1, <1>2, <1>3 DEF Next

LEMMA InitLaying == Init => Laying
<1> SUFFICES ASSUME Init PROVE ~Decided
  BY DEF Laying
<1>1. todo = Construct /\ outcome = "none" /\ allocated = FALSE
  BY DEF Init, AllocatorInit
<1>2. Len(Construct) = 4 /\ Construct[1].do = "persistent" /\ Construct[4].do = "start" /\ DOMAIN Construct = 1 .. 4
  BY DEF Construct, Persistent, Step
<1>3. ~At("reserve")
  BY <1>1, <1>2 DEF At
<1>4. ~Finishing(todo)
  BY <1>1, <1>2 DEF Finishing, Trailing
<1>5. QED
  BY <1>1, <1>3, <1>4 DEF Decided

LEMMA FallsTo ==
  ASSUME ArenaTypeOK, NEW bytes \in Nat, NEW align \in Nat \ {0}
  PROVE  /\ PersistentAt(bytes, align) \in Int /\ PersistentAt(bytes, align) <= tail
         /\ PersistentAt(bytes, align) + bytes <= tail
<1>1. tail \in Int /\ tail - bytes \in Int /\ tail - bytes <= tail
  BY DEF ArenaTypeOK
<1>2. AlignDown(tail - bytes, align) \in Int /\ AlignDown(tail - bytes, align) <= tail - bytes
  BY <1>1, AlignBounds
<1> DEFINE q == AlignDown(tail - bytes, align)
<1>3. q \in Int /\ q <= tail /\ q + bytes <= tail
  <2>1. q \in Int /\ q <= tail - bytes
    BY <1>2
  <2> HIDE DEF q
  <2>2. QED
    BY <1>1, <2>1
<1>4. QED
  BY <1>3 DEF PersistentAt

LEMMA HandleBytes ==
  ASSUME AllocatorTypes
  PROVE  SizeOf.ScratchBufferHandle * Len(requests) \in Nat
<1> DEFINE bytes == SizeOf.ScratchBufferHandle
           n == Len(requests)
<1>1. bytes \in Nat /\ n \in Nat
  BY SizeFacts DEF AllocatorTypes
<1> HIDE DEF bytes, n
<1>2. bytes * n \in Nat
  BY <1>1, Product
<1>3. QED
  BY <1>2 DEF bytes, n

\* The tail only moves down, and the largest plan only grows.
LEMMA TailFalls ==
  ASSUME Types, Reserving, AllocateTensorsStep
  PROVE  tail' \in Int /\ tail' <= tail /\ model' = model /\ maxHead \in Nat /\ maxHead' \in Nat /\ maxHead <= maxHead'
<1>1. Types'
  BY AllocationKeeps DEF AllocateTensorsStep
<1>2. tail \in Int /\ tail' \in Int /\ maxHead \in Nat /\ maxHead' \in Nat /\ ArenaTypeOK /\ AllocatorTypes
  BY <1>1 DEF Types, ArenaTypeOK, AllocatorTypes
<1>3. CASE AllocateTail
  <2>1. todo # <<>> /\ todo[1].do = "persistent" /\ model' = model /\ maxHead' = maxHead
    BY <1>3 DEF AllocateTail, At, book
  <2>2. PICK r \in PersistentType : r = todo[1]
    BY <1>2, <2>1, ItemKinds
  <2>3. r.bytes \in Nat /\ r.align \in Nat \ {0}
    BY DEF PersistentType
  <2>4. tail' = tail \/ tail' = PersistentAt(r.bytes, r.align)
    BY <1>3, <2>2 DEF AllocateTail, AllocatePersistentBuffer
  <2>5. PersistentAt(r.bytes, r.align) <= tail
    BY <1>2, <2>3, FallsTo
  <2>6. tail' <= tail
    BY <1>2, <2>4, <2>5
  <2>7. QED
    BY <1>2, <2>1, <2>6
<1>4. CASE AllocateScratchBufferHandles
  <2>1. model' = model /\ maxHead' = maxHead
    BY <1>4 DEF AllocateScratchBufferHandles, book
  <2>2. PICK b \in Nat : b = SizeOf.ScratchBufferHandle * Len(requests)
    BY <1>2, HandleBytes
  <2>3. tail' = tail \/ tail' = PersistentAt(b, 1)
    BY <1>4, <2>2 DEF AllocateScratchBufferHandles, AllocatePersistentBuffer, arena
  <2>4. QED
    BY <1>2, <2>1, <2>3, FallsTo
<1>5. CASE ReserveHead
  <2>1. tail' = tail /\ model' = model /\ \E n : maxHead' = (IF maxHead < n THEN n ELSE maxHead)
    <3>1. CASE maxHead' = maxHead
      <4>1. maxHead' = (IF maxHead < maxHead THEN maxHead ELSE maxHead)
        BY <3>1
      <4>2. QED
        BY <1>5, <4>1 DEF ReserveHead
    <3>2. CASE maxHead' # maxHead
      BY <1>5, <3>2 DEF ReserveHead
    <3>3. QED
      BY <3>1, <3>2
  <2>2. PICK n : maxHead' = (IF maxHead < n THEN n ELSE maxHead)
    BY <2>1
  <2>3. CASE maxHead < n
    <3>1. maxHead' = n
      BY <2>2, <2>3
    <3>2. maxHead < maxHead'
      BY <2>3, <3>1
    <3>3. QED
      BY <1>2, <2>1, <3>2
  <2>4. CASE ~(maxHead < n)
    BY <1>2, <2>1, <2>2, <2>4
  <2>5. QED
    BY <2>3, <2>4
<1>6. CASE StartModelAllocation \/ AllocateTempTensor \/ InitScratchBufferData \/ PrepareNode \/ RequestScratchBufferInArena
           \/ FreeTempTensors \/ FinishPrepareNodeAllocations \/ CreateAllocationInfo \/ InitializeAllocationInfo
  <2>1. CASE AllocateTempTensor \/ RequestScratchBufferInArena \/ FinishPrepareNodeAllocations
    <3>1. tail' = tail /\ model' = model /\ maxHead' = maxHead
      BY <2>1 DEF AllocateTempTensor, RequestScratchBufferInArena, FinishPrepareNodeAllocations, ReadsGarbage, book, arena, AllocateTemp
    <3>2. QED
      BY <1>2, <3>1
  <2>2. CASE StartModelAllocation \/ InitScratchBufferData \/ PrepareNode \/ FreeTempTensors
    <3>1. tail' = tail /\ model' = model /\ maxHead' = maxHead
      BY <2>2 DEF StartModelAllocation, InitScratchBufferData, PrepareNode, FreeTempTensors, ReadsGarbage, book, arena
    <3>2. QED
      BY <1>2, <3>1
  <2>3. CASE CreateAllocationInfo \/ InitializeAllocationInfo
    <3>1. tail' = tail /\ model' = model /\ maxHead' = maxHead
      BY <2>3 DEF CreateAllocationInfo, InitializeAllocationInfo, ReadsGarbage, book, arena, AllocateTemp
    <3>2. QED
      BY <1>2, <3>1
  <2>4. QED
    BY <1>6, <2>1, <2>2, <2>3
<1>7. CASE MarkInputs \/ MarkOperator \/ MarkUses \/ MarkOutputs
  <2> DEFINE Same == tail' = tail /\ model' = model /\ maxHead' = maxHead
  <2>0. \A slots, marked, items : \A now : Marks(slots, now, marked, items) => Same
    BY DEF Marks, ReadsGarbage, book, arena
  <2> HIDE DEF Same
  <2>1. Same
    <3>1. CASE MarkInputs
      BY <2>0, <3>1 DEF MarkInputs
    <3>2. CASE MarkOperator
      BY <2>0, <3>2 DEF MarkOperator
    <3>3. CASE MarkUses
      BY <2>0, <3>3 DEF MarkUses
    <3>4. CASE MarkOutputs
      BY <2>0, <3>4 DEF MarkOutputs
    <3>5. QED
      BY <1>7, <3>1, <3>2, <3>3, <3>4
  <2> USE DEF Same
  <2>2. QED
    BY <1>2, <2>1
<1>8. CASE InitMemoryPlanner \/ AddBuffer \/ CalculateOffsets \/ CommitPlan \/ ResetVariableTensors
  <2>1. tail' = tail /\ model' = model /\ maxHead' = maxHead
    BY <1>8 DEF InitMemoryPlanner, AddBuffer, CalculateOffsets, CommitPlan, ResetVariableTensors, ReadsGarbage, book, arena,
      AllocateTemp
  <2>2. QED
    BY <1>2, <2>1
<1>9. QED
  BY <1>3, <1>4, <1>5, <1>6, <1>7, <1>8 DEF AllocateTensorsStep, AllocationStep

\* The memory of a tensor changes when the plan is committed, or when it is a
\* variable tensor that gets a persistent buffer.
LEMMA TensorPlaces ==
  ASSUME Types, AllocateTensorsStep, NEW n \in DOMAIN place', IsTensor(n)
  PROVE  \/ n \in DOMAIN place /\ place'[n] = place[n]
         \/ n \in PlannedNames
         \/ /\ AllocateTail /\ n = todo[1].name
            /\ AllocatePersistentBuffer(n, todo[1].bytes, todo[1].align, ~IsTensor(n))
<1>1. CASE AllocateTail
  <2>1. CASE AllocatePersistentBuffer(todo[1].name, todo[1].bytes, todo[1].align, ~IsTensor(todo[1].name))
    <3>1. place' = [m \in DOMAIN place \cup {todo[1].name} |->
                      IF m = todo[1].name THEN [lo |-> tail', hi |-> tail' + todo[1].bytes] ELSE place[m]]
      BY <2>1 DEF AllocatePersistentBuffer, HandOut
    <3>2. CASE n = todo[1].name
      BY <1>1, <2>1, <3>2
    <3>3. CASE n # todo[1].name
      BY <3>1, <3>3
    <3>4. QED
      BY <3>2, <3>3
  <2>2. CASE Free({todo[1].name})
    BY <2>2 DEF Free, Without
  <2>3. CASE place' = place
    BY <2>3
  <2>4. QED
    BY <1>1, <2>1, <2>2, <2>3 DEF AllocateTail
<1>2. ASSUME NEW m, NEW lo, NEW hi, NEW fill, HandOut(m, lo, hi, fill), ~IsTensor(m)
      PROVE  n \in DOMAIN place /\ place'[n] = place[n]
  BY <1>2 DEF HandOut
<1>3. CASE AllocateTempTensor
  <2>1. AllocatorTypes /\ todo # <<>> /\ todo[1].do = "temp"
    BY <1>3 DEF AllocateTempTensor, At, Types
  <2>2. todo[1] \in TemporaryType
    BY <2>1, ItemKinds
  <2>3. ~IsTensor(todo[1].name)
    BY <2>2 DEF TemporaryType, TemporaryNames, IsTensor
  <2>4. QED
    BY <1>2, <1>3, <2>3 DEF AllocateTempTensor, AllocateTemp, arena
<1>4. CASE RequestScratchBufferInArena
  <2>1. ~IsTensor(Request(Len(requests) + 1))
    BY DEF IsTensor, Request
  <2>2. QED
    BY <1>2, <1>4, <2>1 DEF RequestScratchBufferInArena, ReadsGarbage, arena
<1>5. CASE AllocateScratchBufferHandles
  <2>1. ~IsTensor(Handles)
    BY DEF IsTensor, Handles
  <2>2. QED
    BY <1>2, <1>5, <2>1 DEF AllocateScratchBufferHandles, AllocatePersistentBuffer, arena, Free, Without
<1>6. CASE CreateAllocationInfo
  <2>1. ~IsTensor(Info)
    BY DEF IsTensor, Info
  <2>2. QED
    BY <1>2, <1>6, <2>1 DEF CreateAllocationInfo, AllocateTemp, arena
<1>7. CASE InitMemoryPlanner
  <2>1. ~IsTensor(PlannerArena)
    BY DEF IsTensor, PlannerArena
  <2>2. QED
    BY <1>2, <1>7, <2>1 DEF InitMemoryPlanner, AllocateTemp, arena
<1>8. CASE CommitPlan
  <2>1. place' = place \/ place' = [m \in PlannedNames \cup DOMAIN place |-> IF m \in PlannedNames THEN Planning(m) ELSE place[m]]
    BY <1>8 DEF CommitPlan, ReadsGarbage, arena
  <2>2. QED
    BY <2>1
<1>9. CASE InitScratchBufferData \/ FreeTempTensors \/ ReserveHead
  BY <1>9 DEF InitScratchBufferData, FreeTempTensors, ReserveHead, Free, Without, ReadsGarbage, arena
<1>10. CASE StartModelAllocation \/ PrepareNode \/ FinishPrepareNodeAllocations \/ InitializeAllocationInfo
            \/ AddBuffer \/ CalculateOffsets \/ ResetVariableTensors
  <2>1. place' = place
    BY <1>10 DEF StartModelAllocation, PrepareNode, FinishPrepareNodeAllocations, InitializeAllocationInfo,
      AddBuffer, CalculateOffsets, ResetVariableTensors, ReadsGarbage, arena
  <2>2. QED
    BY <2>1
<1>11. CASE MarkInputs \/ MarkOperator \/ MarkUses \/ MarkOutputs
  <2>1. place' = place
    BY <1>11 DEF MarkInputs, MarkOperator, MarkUses, MarkOutputs, Marks, ReadsGarbage, arena
  <2>2. QED
    BY <2>1
<1>12. QED
  BY <1>1, <1>3, <1>4, <1>5, <1>6, <1>7, <1>8, <1>9, <1>10, <1>11 DEF AllocateTensorsStep, AllocationStep

Unplanned == {n \in DOMAIN place : IsTensor(n) /\ n \notin GivenTensors}
TailTensors ==
  \A n \in Unplanned : /\ n \in Variables /\ tail <= place[n].lo
                       /\ \A m \in Unplanned : m # n => Beside(place[m], place[n])

LEMMA TailTensorsMove ==
  ASSUME Types, Reserving, States(todo), GivenOnly, TailTensors, AllocateTensorsStep
  PROVE  TailTensors'
<1>1. /\ ArenaTypeOK /\ tail \in Int /\ tail' \in Int /\ tail' <= tail /\ model' = model
  BY TailFalls DEF Types, ArenaTypeOK
<1>2. GivenTensors' = GivenTensors /\ Variables' = Variables
  BY <1>1, SameNeeds, SameClosers
<1>3. \A n \in DOMAIN place : place[n].lo \in Int /\ place[n].hi \in Int
  BY <1>1, Places
<1>4. CASE \A n \in Unplanned' : n \in Unplanned /\ place'[n] = place[n]
  <2>1. \A n \in Unplanned : tail <= place[n].lo /\ tail' <= tail => tail' <= place[n].lo
    BY <1>1, <1>3 DEF Unplanned
  <2>2. \A n \in Unplanned' : n \in Variables' /\ tail' <= place'[n].lo
    BY <1>1, <1>2, <1>4, <2>1 DEF TailTensors
  <2>3. \A n, m \in Unplanned' : m # n => Beside(place'[m], place'[n])
    BY <1>4 DEF TailTensors
  <2>4. QED
    BY <2>2, <2>3 DEF TailTensors
<1>5. CASE \E n \in Unplanned' : ~(n \in Unplanned /\ place'[n] = place[n])
  <2>1. PICK n \in Unplanned' : ~(n \in Unplanned /\ place'[n] = place[n])
    BY <1>5
  <2>2. n \in DOMAIN place' /\ IsTensor(n) /\ n \notin GivenTensors
    BY <1>2 DEF Unplanned
  <2>3. n \notin PlannedNames
    BY <2>2 DEF GivenOnly
  <2>4. /\ AllocateTail /\ n = todo[1].name
        /\ AllocatePersistentBuffer(n, todo[1].bytes, todo[1].align, ~IsTensor(n))
    BY <2>1, <2>2, <2>3, TensorPlaces DEF Unplanned
  <2>5. todo # <<>> /\ todo[1].do = "persistent" /\ 1 \in DOMAIN todo
    BY <2>4, TodoFacts DEF AllocateTail, At, Types
  <2>6. PICK r \in PersistentType : r = todo[1]
    BY <2>5, ItemKinds DEF Types
  <2>7. r.bytes \in Nat /\ r.align \in Nat \ {0}
    BY DEF PersistentType
  <2>8. n \in Variables
    BY <2>2, <2>4, <2>5 DEF States
  <2>9. PICK b \in Nat : b = r.bytes
    BY <2>7
  <2>10. /\ tail' = PersistentAt(b, r.align) /\ tail' + b <= tail
    BY <1>1, <2>4, <2>6, <2>7, <2>9, FallsTo DEF AllocatePersistentBuffer
  <2>11. place' = [m \in DOMAIN place \cup {n} |-> IF m = n THEN [lo |-> tail', hi |-> tail' + b] ELSE place[m]]
    BY <2>4, <2>6, <2>9 DEF AllocatePersistentBuffer, HandOut
  <2>12. place'[n].lo = tail' /\ place'[n].hi = tail' + b
    BY <2>11
  <2>13. \A m \in Unplanned' : m # n => m \in Unplanned /\ place'[m] = place[m]
    BY <1>2, <2>11 DEF Unplanned
  <2>14. \A m \in Unplanned' : m # n => tail <= place'[m].lo /\ place'[m].lo \in Int /\ m \in Variables
    BY <1>3, <2>13 DEF TailTensors, Unplanned
  <2>15. \A m \in Unplanned' : m # n => tail' <= place'[m].lo /\ Beside(place'[m], place'[n]) /\ Beside(place'[n], place'[m])
    <3>1. \A x \in Int : tail <= x => tail' <= x /\ tail' + b <= x
      BY <1>1, <2>10
    <3>2. \A m \in Unplanned' : m # n => tail' <= place'[m].lo /\ place'[n].hi <= place'[m].lo
      BY <2>12, <2>14, <3>1
    <3>3. QED
      BY <3>2 DEF Beside
  <2>16. \A k, m \in Unplanned' : m # n /\ k # n /\ m # k => Beside(place'[m], place'[k])
    BY <2>13 DEF TailTensors
  <2>17. QED
    BY <1>1, <1>2, <2>8, <2>12, <2>14, <2>15, <2>16 DEF TailTensors
<1>6. QED
  BY <1>4, <1>5

LEMMA InitTailTensors == Init => TailTensors
BY DEF Init, AllocatorInit, ArenaInit, Behind, TailTensors, Unplanned, IsTensor

LEMMA SameTailTensors ==
  ASSUME UNCHANGED <<tail, place, model>>, TailTensors
  PROVE  TailTensors'
<1>1. GivenTensors' = GivenTensors /\ Variables' = Variables
  BY SameNeeds, SameClosers
<1>2. QED
  BY <1>1 DEF TailTensors, Unplanned

Lives(n, t) == n \in Variables \/ (BornBy({n}, t) /\ LastsTo({n}, t))
Concerned == {n \in DOMAIN place : IsTensor(n)} \cup {Scratch(k) : k \in DOMAIN requests}

\* The place of a planned buffer is the one of the AllocationInfo that Planning chooses.
LEMMA PlannedAt ==
  ASSUME Types, PlanLaid, NEW n \in PlannedNames
  PROVE  \E j \in Buffers : /\ j \in DOMAIN infos /\ infos[j].name = n /\ j \in Placed
                            /\ place[n].lo = offsets[j] /\ place[n].hi = offsets[j] + infos[j].bytes
                            /\ offsets[j] \in Int /\ infos[j].bytes \in Nat /\ infos[j].first \in Int /\ infos[j].last \in Int
                            /\ End(j) \in Int /\ place[n].hi <= End(j)
                            /\ requirements[j].first = infos[j].first /\ requirements[j].last = infos[j].last
                            /\ requirements[j].offline = infos[j].offline
<1>1. place[n] = Planning(n)
  BY DEF PlanLaid
<1>2. \E i \in DOMAIN infos : infos[i].name = n
  BY DEF PlannedNames
<1>3. PICK j \in DOMAIN infos : j = CHOOSE i \in DOMAIN infos : infos[i].name = n
  BY <1>2
<1>4. infos[j].name = n
  BY <1>2, <1>3
<1>5. place[n].lo = offsets[j] /\ place[n].hi = offsets[j] + infos[j].bytes
  BY <1>1, <1>3 DEF Planning
<1>6. /\ infos \in Seq(InfoType) /\ bufferCount = Len(infos) /\ Planned /\ Matching /\ PlanInv /\ PlannerTypeOK
  BY DEF Types, AllocatorTypes, PlanLaid, PlanInv
<1>7. j \in Buffers /\ j \in Placed /\ infos[j] \in InfoType
  BY <1>6 DEF Buffers, Planned
<1>8. infos[j].bytes \in Nat /\ infos[j].first \in Int /\ infos[j].last \in Int
  BY <1>7 DEF InfoType
<1>9. offsets[j] \in Nat
  BY <1>6, <1>7 DEF PlannerTypeOK
<1>10. requirements[j] = Requirement(infos[j])
  BY <1>6, <1>7 DEF Matching
<1>11. /\ requirements[j].first = infos[j].first /\ requirements[j].last = infos[j].last
       /\ requirements[j].offline = infos[j].offline /\ Size(j) = AlignUp(infos[j].bytes, BufferAlign)
  BY <1>10 DEF Requirement, Size
<1>12. PICK b \in Nat : b = infos[j].bytes
  BY <1>8
<1>13. AlignUp(b, BufferAlign) \in Int /\ b <= AlignUp(b, BufferAlign)
  BY AlignBounds, ArenaAssumption
<1>14. End(j) \in Int /\ offsets[j] + b <= End(j)
  <2>1. PICK z \in Int : z = AlignUp(b, BufferAlign)
    BY <1>13
  <2>2. PICK o \in Nat : o = offsets[j]
    BY <1>9
  <2>3. End(j) = o + z /\ b <= z
    BY <1>11, <1>12, <1>13, <2>1, <2>2 DEF End
  <2>4. QED
    BY <2>2, <2>3
<1>15. QED
  BY <1>4, <1>5, <1>7, <1>8, <1>9, <1>11, <1>12, <1>14

LEMMA BothPlanned ==
  ASSUME Types, OffsetsAgree, PlanLaid, NEW m \in PlannedNames, NEW n \in PlannedNames, m # n,
         NEW t \in Int, Lives(m, t), Lives(n, t)
  PROVE  ~Meet(place[m], place[n])
<1>1. PICK j \in Buffers : /\ j \in DOMAIN infos /\ infos[j].name = m /\ j \in Placed
                           /\ place[m].lo = offsets[j] /\ place[m].hi = offsets[j] + infos[j].bytes
                           /\ offsets[j] \in Int /\ infos[j].bytes \in Nat /\ infos[j].first \in Int /\ infos[j].last \in Int
                           /\ End(j) \in Int /\ place[m].hi <= End(j)
                           /\ requirements[j].first = infos[j].first /\ requirements[j].last = infos[j].last
                           /\ requirements[j].offline = infos[j].offline
  BY PlannedAt
<1>2. PICK k \in Buffers : /\ k \in DOMAIN infos /\ infos[k].name = n /\ k \in Placed
                           /\ place[n].lo = offsets[k] /\ place[n].hi = offsets[k] + infos[k].bytes
                           /\ offsets[k] \in Int /\ infos[k].bytes \in Nat /\ infos[k].first \in Int /\ infos[k].last \in Int
                           /\ End(k) \in Int /\ place[n].hi <= End(k)
                           /\ requirements[k].first = infos[k].first /\ requirements[k].last = infos[k].last
                           /\ requirements[k].offline = infos[k].offline
  BY PlannedAt
<1>3. \A x, y \in DOMAIN infos :
        /\ infos[x].name # infos[y].name
        /\ \/ infos[x].name \in Variables
           \/ /\ infos[x].offline # Online /\ infos[y].offline # Online
              /\ infos[x].first <= infos[y].last /\ infos[y].first <= infos[x].last
        => ~Meet(place[infos[x].name], place[infos[y].name])
  BY DEF OffsetsAgree
<1>4. CASE m \in Variables
  BY <1>1, <1>2, <1>3, <1>4
<1>5. CASE n \in Variables
  <2>1. ~Meet(place[n], place[m])
    BY <1>1, <1>2, <1>3, <1>5
  <2>2. QED
    BY <2>1 DEF Meet
<1>6. CASE m \notin Variables /\ n \notin Variables
  <2>1. /\ infos[j].first <= t /\ t <= infos[j].last /\ infos[k].first <= t /\ t <= infos[k].last
    BY <1>1, <1>2, <1>6 DEF Lives, BornBy, LastsTo
  <2>2. /\ infos[j].first <= infos[k].last /\ infos[k].first <= infos[j].last
        /\ infos[j].first <= infos[j].last /\ infos[k].first <= infos[k].last
    <3>1. \A a, b, c, d \in Int : a <= t /\ t <= b /\ c <= t /\ t <= d => a <= d /\ c <= b /\ a <= b /\ c <= d
      OBVIOUS
    <3>2. QED
      BY <1>1, <1>2, <2>1, <3>1
  <2>3. CASE infos[j].offline # Online /\ infos[k].offline # Online
    BY <1>1, <1>2, <1>3, <2>2, <2>3
  <2>4. CASE IsOnline(j) \/ IsOnline(k)
    <3>1. LiveTogether(j, k)
      <4>1. \A a, b, c, d \in Int : a <= d /\ c <= b /\ a <= b /\ c <= d =>
              \E s \in {a, c} : a <= s /\ s <= b /\ c <= s /\ s <= d
        <5> SUFFICES ASSUME NEW a \in Int, NEW b \in Int, NEW c \in Int, NEW d \in Int, a <= d /\ c <= b /\ a <= b /\ c <= d
                     PROVE  \E s \in {a, c} : a <= s /\ s <= b /\ c <= s /\ s <= d
          OBVIOUS
        <5>1. CASE a <= c
          BY <5>1
        <5>2. CASE c <= a
          BY <5>2
        <5>3. QED
          BY <5>1, <5>2
      <4>2. QED
        BY <1>1, <1>2, <2>2, <4>1 DEF LiveTogether
    <3>2. PlanIsSound /\ j # k
      BY <1>1, <1>2 DEF Types, PlanInv
    <3>3. End(j) <= offsets[k] \/ End(k) <= offsets[j]
      BY <1>1, <1>2, <2>4, <3>1, <3>2 DEF PlanIsSound, Apart
    <3>4. \A a, b, c, d, e, f \in Int : b <= c /\ e <= f /\ (c <= d \/ f <= a) => ~(a < e /\ d < b)
      OBVIOUS
    <3>5. place[m].hi \in Int /\ place[n].hi \in Int
      BY <1>1, <1>2
    <3>6. QED
      BY <1>1, <1>2, <3>3, <3>4, <3>5 DEF Meet
  <2>5. QED
    BY <1>1, <1>2, <2>3, <2>4 DEF IsOnline
<1>7. QED
  BY <1>4, <1>5, <1>6

LEMMA Separate ==
  ASSUME Types, OffsetsAgree, PlanLaid, Fit, TailTensors, Covered,
         NEW m \in Concerned, NEW n \in Concerned, m # n, NEW t \in Int, Lives(m, t), Lives(n, t)
  PROVE  ~Meet(place[m], place[n])
<1>1. \A x \in Concerned : x \in PlannedNames \/ x \in Unplanned
  BY DEF Concerned, Unplanned, Covered
<1>2. /\ \A x \in PlannedNames : x \in DOMAIN place /\ place[x].hi <= head
      /\ head <= tail
  BY DEF PlannedNames, Fit
<1>3. /\ head \in Int /\ tail \in Int
      /\ \A x \in DOMAIN place : place[x].lo \in Int /\ place[x].hi \in Int
  BY Places DEF Types
<1>4. ASSUME NEW x \in PlannedNames, NEW y \in Unplanned
      PROVE  ~Meet(place[x], place[y]) /\ ~Meet(place[y], place[x])
  <2>1. tail <= place[y].lo /\ place[x].hi <= head /\ x \in DOMAIN place /\ y \in DOMAIN place
    BY <1>2, <1>4 DEF TailTensors, Unplanned
  <2>2. \A a, b \in Int : a <= head /\ tail <= b => ~(b < a)
    BY <1>2, <1>3
  <2>3. QED
    BY <1>3, <2>1, <2>2 DEF Meet
<1>5. CASE m \in PlannedNames /\ n \in PlannedNames
  BY <1>5, BothPlanned
<1>6. CASE m \in Unplanned /\ n \in Unplanned
  <2>1. Beside(place[m], place[n]) /\ m \in DOMAIN place /\ n \in DOMAIN place
    BY <1>6 DEF TailTensors, Unplanned
  <2>2. QED
    BY <1>3, <2>1 DEF Beside, Meet
<1>7. QED
  BY <1>1, <1>4, <1>5, <1>6

LEMMA DownMonotone ==
  ASSUME NEW p \in Int, NEW q \in Int, p <= q, NEW a \in Nat \ {0}
  PROVE  AlignDown(p, a) <= AlignDown(q, a)
<1>1. PICK x \in Int : x = p \div a
  OBVIOUS
<1>2. PICK y \in Int : y = q \div a
  OBVIOUS
<1>3. x * a <= p /\ q < y * a + a /\ x * a \in Int /\ y * a \in Int
  BY <1>1, <1>2, Multiple
<1>4. x <= y
  <2>1. SUFFICES ASSUME y + 1 <= x PROVE FALSE
    OBVIOUS
  <2>2. a * (y + 1) <= a * x
    BY <2>1, TimesMonotone
  <2>3. a * (y + 1) = y * a + a /\ a * x = x * a
    OBVIOUS
  <2>4. QED
    BY <1>3, <2>2, <2>3
<1>5. a * x <= a * y
  BY <1>4, TimesMonotone
<1>6. x * a <= y * a
  <2>1. a * x = x * a /\ a * y = y * a
    OBVIOUS
  <2>2. QED
    BY <1>5, <2>1
<1>7. QED
  BY <1>1, <1>2, <1>6 DEF AlignDown

\* A request that the arena is too full for, and will always be.
Doom(x) == x \in Closers /\ PersistentAt(x.bytes, x.align) < maxHead
Doomed == allocating \/ \E x : Doom(x)

LEMMA DoomStays ==
  ASSUME model \in Models, ArenaTypeOK, model' = model, tail' \in Int, tail' <= tail,
         maxHead \in Nat, maxHead' \in Nat, maxHead <= maxHead', NEW x, Doom(x)
  PROVE  Doom(x)'
<1>1. x \in Closers /\ x \in Closers' /\ x \in PersistentType
  BY SameClosers, ClosersFacts DEF Doom
<1>2. PICK b \in Nat : b = x.bytes
  BY <1>1 DEF PersistentType
<1>3. PICK a \in Nat \ {0} : a = x.align
  BY <1>1 DEF PersistentType
<1>4. tail \in Int /\ tail - b \in Int /\ tail' - b \in Int /\ tail' - b <= tail - b
  <2>1. tail \in Int
    BY DEF ArenaTypeOK
  <2>2. \A x1, y1 \in Int : x1 <= y1 => x1 - b \in Int /\ y1 - b \in Int /\ x1 - b <= y1 - b
    OBVIOUS
  <2>3. QED
    BY <2>1, <2>2
<1>5. AlignDown(tail' - b, a) <= AlignDown(tail - b, a)
  BY <1>4, DownMonotone
<1>6. AlignDown(tail - b, a) \in Int /\ AlignDown(tail' - b, a) \in Int
  BY <1>4, AlignBounds
<1>7. AlignDown(tail - b, a) < maxHead
  BY <1>2, <1>3 DEF Doom, PersistentAt
<1>8. AlignDown(tail' - b, a) < maxHead'
  BY <1>5, <1>6, <1>7
<1>9. QED
  BY <1>1, <1>2, <1>3, <1>8 DEF Doom, PersistentAt

\* What the last steps do.
LEMMA LastSteps ==
  ASSUME AllocateTensorsStep
  PROVE  /\ todo # <<>>
         /\ todo[1].do = "persistent" => AllocateTail
         /\ todo[1].do = "reset" => ResetVariableTensors
         /\ todo[1].do = "reserve" => ReserveHead
         /\ todo[1].do = "start" => StartModelAllocation
         /\ todo[1].do = "plan" => InitMemoryPlanner
         /\ todo[1].do = "commit" => AddBuffer \/ CalculateOffsets \/ CommitPlan
BY DEF AllocateTensorsStep, AllocationStep, At, StartModelAllocation, AllocateTail, AllocateTempTensor,
  InitScratchBufferData, PrepareNode, RequestScratchBufferInArena, FreeTempTensors, FinishPrepareNodeAllocations,
  AllocateScratchBufferHandles, CreateAllocationInfo, InitializeAllocationInfo, MarkInputs, MarkOperator, MarkUses,
  MarkOutputs, InitMemoryPlanner, AddBuffer, CalculateOffsets, CommitPlan, ReserveHead, ResetVariableTensors

LEMMA TailEnds ==
  ASSUME Types, AllocateTail
  PROVE  LET r == todo[1]
         IN  /\ r \in PersistentType /\ UNCHANGED <<head, maxHead, allocating, model>>
             /\ \/ /\ todo' = Tail(todo) /\ outcome' = outcome
                   /\ r.null = "later" \/ PersistentAt(r.bytes, r.align) >= head
                \/ /\ todo' = <<>> /\ outcome' = r.null /\ tail' = tail
                   /\ PersistentAt(r.bytes, r.align) < head
<1> DEFINE r == todo[1]
<1>1. /\ todo # <<>> /\ todo[1].do = "persistent" /\ UNCHANGED <<maxHead, allocating, model>>
  BY DEF AllocateTail, At, book
<1>2. r \in PersistentType /\ ArenaTypeOK /\ head \in Int
  BY <1>1, ItemKinds DEF Types, ArenaTypeOK
<1>3. PICK b \in Nat : b = r.bytes
  BY <1>2 DEF PersistentType
<1>4. PICK a \in Nat \ {0} : a = r.align
  BY <1>2 DEF PersistentType
<1>5. PICK p \in Int : p = PersistentAt(b, a)
  BY <1>2, PersistentTypes
<1>6. UNCHANGED head
  BY DEF AllocateTail, AllocatePersistentBuffer
<1>7. \/ p >= head /\ Rest
      \/ p < head /\ tail' = tail /\ \/ r.null = "later" /\ Rest
                                     \/ r.null # "later" /\ Refused(r.null)
  <2>1. \/ PersistentFits(b, a) /\ Rest
        \/ ~PersistentFits(b, a) /\ tail' = tail /\ \/ r.null = "later" /\ Rest
                                                    \/ r.null # "later" /\ Refused(r.null)
    BY <1>3, <1>4 DEF AllocateTail, AllocatePersistentBuffer
  <2>2. PersistentFits(b, a) <=> p >= head
    BY <1>5 DEF PersistentFits
  <2>3. ~(p >= head) => p < head
    BY <1>2
  <2>4. QED
    BY <2>1, <2>2, <2>3
<1>8. QED
  BY <1>1, <1>2, <1>3, <1>4, <1>5, <1>6, <1>7 DEF Rest, Refused, EndsAs

AllFinal(l) == \A i \in DOMAIN l : Final(l[i])
Constructing(l) == \A i \in DOMAIN l : l[i].do = "start" \/ (l[i].do = "persistent" /\ l[i].null = "undefined")
Ahead(l, i) == \E j \in DOMAIN l : j < i /\ Deciding(l[j])

LEMMA Shifted ==
  ASSUME AllocatorTypes, NEW items \in Seq(Todo), Advance(items), \A j \in DOMAIN items : items[j].do # "reset",
         NEW i \in DOMAIN todo, i > 1, Clear(todo, i)
  PROVE  \E k \in DOMAIN todo' : /\ todo'[k] = todo[i] /\ Clear(todo', k)
                                 /\ (\E j \in DOMAIN todo : 1 < j /\ j < i /\ Deciding(todo[j])) => Ahead(todo', k)
                                 /\ (\E j \in DOMAIN items : Deciding(items[j])) => Ahead(todo', k)
<1>1. /\ Len(items) \in Nat /\ DOMAIN items = 1 .. Len(items)
      /\ DOMAIN todo' = 1 .. Len(items) + (Len(todo) - 1)
      /\ \A j \in DOMAIN items : j \in DOMAIN todo' /\ todo'[j] = items[j]
      /\ \A j \in DOMAIN todo : j > 1 => j - 1 + Len(items) \in DOMAIN todo' /\ todo'[j - 1 + Len(items)] = todo[j]
      /\ \A j \in DOMAIN todo' : j \notin DOMAIN items =>
           /\ j - Len(items) + 1 \in DOMAIN todo /\ j - Len(items) + 1 > 1
           /\ todo'[j] = todo[j - Len(items) + 1]
  BY Moved
<1>2. DOMAIN todo = 1 .. Len(todo) /\ Len(todo) \in Nat
  BY TodoFacts DEF Advance
<1>3. PICK n \in Nat : n = Len(items)
  BY <1>1
<1>4. PICK k \in Int : k = i - 1 + n
  BY <1>2
<1>5. k \in DOMAIN todo' /\ todo'[k] = todo[i]
  BY <1>1, <1>3, <1>4
<1>6. Clear(todo', k)
  <2> SUFFICES ASSUME NEW j \in DOMAIN todo', j < k PROVE todo'[j].do # "reset"
    BY DEF Clear
  <2>1. CASE j \in DOMAIN items
    BY <1>1, <2>1
  <2>2. CASE j \notin DOMAIN items
    <3>1. j - n + 1 \in DOMAIN todo /\ todo'[j] = todo[j - n + 1]
      BY <1>1, <1>3, <2>2
    <3>2. j \in Int
      BY <1>1
    <3>3. j - n + 1 < i
      BY <1>2, <1>4, <3>2
    <3>4. QED
      BY <3>1, <3>3 DEF Clear
  <2>3. QED
    BY <2>1, <2>2
<1>7. ASSUME NEW j \in DOMAIN todo, 1 < j, j < i, Deciding(todo[j]) PROVE Ahead(todo', k)
  <2>1. PICK h \in Int : h = j - 1 + n
    BY <1>2
  <2>2. h \in DOMAIN todo' /\ todo'[h] = todo[j]
    BY <1>1, <1>3, <1>7, <2>1
  <2>3. h < k
    BY <1>2, <1>4, <1>7, <2>1
  <2>4. QED
    BY <1>7, <2>2, <2>3 DEF Ahead
<1>8. ASSUME NEW j \in DOMAIN items, Deciding(items[j]) PROVE Ahead(todo', k)
  <2>1. j \in DOMAIN todo' /\ todo'[j] = items[j]
    BY <1>1
  <2>2. j < k
    BY <1>1, <1>2, <1>3, <1>4
  <2>3. QED
    BY <1>8, <2>1, <2>2 DEF Ahead
<1>9. QED
  BY <1>5, <1>6, <1>7, <1>8

LEMMA AfterReserve ==
  ASSUME AllocatorTypes, Reserving, PlanLast(todo), Rear(todo), todo # <<>>, todo[1].do = "reserve",
         todo' = Tail(todo), model' = model
  PROVE  AllFinal(todo)'
<1>1. /\ DOMAIN todo = 1 .. Len(todo) /\ Len(todo) \in Nat \ {0}
      /\ DOMAIN Tail(todo) = 1 .. Len(todo) - 1
      /\ \A i \in 1 .. Len(todo) - 1 : Tail(todo)[i] = todo[i + 1]
  BY TodoFacts
<1>2. Closers' = Closers
  BY SameClosers
<1>3. ASSUME NEW i \in DOMAIN todo, i > 1 PROVE Final(todo[i])
  <2>1. 1 \in DOMAIN todo /\ Deciding(todo[1]) /\ 1 < i
    BY <1>1, <1>3 DEF Deciding
  <2>2. Deciding(todo[i]) \/ Final(todo[i])
    BY <2>1 DEF Rear
  <2>3. todo[i].do = "reserve" \/ Trailing(todo[i])
    BY <2>1 DEF PlanLast
  <2>4. todo[i].do # "reserve"
    <3>1. i # 1 /\ todo[1].do # "commit"
      BY <1>1, <1>3
    <3>2. QED
      BY <3>1 DEF Reserving
  <2>5. ~Deciding(todo[i])
    BY <2>3, <2>4 DEF Trailing, Deciding
  <2>6. QED
    BY <2>2, <2>5
<1>4. \A i \in DOMAIN todo' : i + 1 \in DOMAIN todo /\ i + 1 > 1 /\ todo'[i] = todo[i + 1]
  BY <1>1
<1>5. QED
  BY <1>2, <1>3, <1>4 DEF AllFinal, Final

\* Planning and committing: the plan's next step comes first.
LEMMA DecidingGoes ==
  ASSUME Types, Committing, AllocateTensorsStep, todo' # <<>>, todo[1].do \in {"plan", "commit"}
  PROVE  /\ 1 \in DOMAIN todo' /\ Deciding(todo'[1])
         /\ \A i \in DOMAIN todo : todo[i].do = "persistent" /\ Clear(todo, i) =>
              \E k \in DOMAIN todo' : todo'[k] = todo[i] /\ Clear(todo', k) /\ Ahead(todo', k)
<1>1. AllocatorTypes /\ todo # <<>> /\ DOMAIN todo = 1 .. Len(todo) /\ Len(todo) \in Nat \ {0} /\ 1 \in DOMAIN todo
  BY LastSteps, TodoFacts DEF Types
<1>2. CASE todo[1].do = "plan"
  <2>1. InitMemoryPlanner
    BY <1>2, LastSteps
  <2>2. todo' = PlanSteps \o Tail(todo)
    BY <2>1 DEF InitMemoryPlanner, EndsAs, Refused, PlanSteps
  <2>3. Advance(PlanSteps) /\ PlanSteps \in Seq(Todo) /\ DOMAIN PlanSteps = {1, 2}
        /\ PlanSteps[1].do = "commit" /\ PlanSteps[2].do = "reserve"
    BY <1>1, <2>2, PlanStepsFacts DEF Advance
  <2>4. 1 \in DOMAIN todo' /\ todo'[1] = PlanSteps[1]
    BY <1>1, <2>3, Moved
  <2>5. Deciding(todo'[1])
    BY <2>3, <2>4 DEF Deciding
  <2>6. ASSUME NEW i \in DOMAIN todo, todo[i].do = "persistent", Clear(todo, i)
        PROVE  \E k \in DOMAIN todo' : todo'[k] = todo[i] /\ Clear(todo', k) /\ Ahead(todo', k)
    <3>1. i > 1
      <4>1. i # 1
        BY <1>2, <2>6
      <4>2. QED
        BY <1>1, <4>1
    <3>2. (\A j \in DOMAIN PlanSteps : PlanSteps[j].do # "reset") /\ Deciding(PlanSteps[1])
      BY <2>3 DEF Deciding
    <3>3. QED
      BY <1>1, <2>3, <2>6, <3>1, <3>2, Shifted
  <2>7. QED
    BY <2>4, <2>5, <2>6
<1>3. CASE todo[1].do = "commit" /\ todo' = todo
  <2>1. Deciding(todo[1])
    BY <1>3 DEF Deciding
  <2>2. \A i \in DOMAIN todo : todo[i].do = "persistent" => 1 < i
    <3>1. \A i \in DOMAIN todo : todo[i].do = "persistent" => i # 1
      BY <1>3
    <3>2. QED
      BY <1>1, <3>1
  <2>3. QED
    BY <1>1, <1>3, <2>1, <2>2 DEF Ahead
<1>4. CASE todo[1].do = "commit" /\ todo' = Tail(todo)
  <2>1. 2 \in DOMAIN todo /\ todo[2].do = "reserve"
    BY <1>1, <1>4 DEF Committing
  <2>2. Advance(<<>>) /\ <<>> \in Seq(Todo)
    BY <1>1, <1>4, Popped
  <2>3. /\ DOMAIN todo' = 1 .. Len(todo) - 1
        /\ \A i \in 1 .. Len(todo) - 1 : todo'[i] = todo[i + 1]
    BY <1>1, <1>4, TodoFacts
  <2>4. 1 \in DOMAIN todo' /\ todo'[1] = todo[2]
    <3>1. 1 \in 1 .. Len(todo) - 1 /\ 1 + 1 = 2
      BY <1>1, <2>1
    <3>2. QED
      BY <2>3, <3>1
  <2>5. Deciding(todo[2])
    BY <2>1 DEF Deciding
  <2>6. ASSUME NEW i \in DOMAIN todo, todo[i].do = "persistent", Clear(todo, i)
        PROVE  \E k \in DOMAIN todo' : todo'[k] = todo[i] /\ Clear(todo', k) /\ Ahead(todo', k)
    <3>1. i # 1 /\ i # 2
      BY <1>4, <2>1, <2>6
    <3>2. 1 < i /\ 2 < i /\ 1 < 2
      BY <1>1, <3>1
    <3>3. \E j \in DOMAIN todo : 1 < j /\ j < i /\ Deciding(todo[j])
      BY <2>1, <2>5, <3>2
    <3>4. PICK items : items = <<>>
      OBVIOUS
    <3>5. items \in Seq(Todo) /\ Advance(items) /\ \A j \in DOMAIN items : items[j].do # "reset"
      BY <2>2, <3>4
    <3>6. QED
      BY <1>1, <2>6, <3>2, <3>3, <3>5, Shifted
  <2>7. QED
    BY <2>4, <2>5, <2>6
<1>5. CASE todo[1].do = "commit"
  <2>1. AddBuffer \/ CalculateOffsets \/ CommitPlan
    BY <1>5, LastSteps
  <2>2. todo' = todo \/ todo' = Tail(todo)
    BY <2>1 DEF AddBuffer, CalculateOffsets, CommitPlan, ReadsGarbage, EndsAs, Refused, Rest
  <2>3. QED
    BY <1>3, <1>4, <1>5, <2>2
<1>6. QED
  BY <1>2, <1>5

Progress ==
  todo # <<>> => \/ Constructing(todo)
                 \/ allocating /\ \E i \in DOMAIN todo : Deciding(todo[i])
                 \/ AllFinal(todo) /\ head = maxHead

LEMMA ReserveEnds ==
  ASSUME ReserveHead
  PROVE  \/ todo' = Tail(todo) /\ head' = maxHead' /\ outcome' = outcome
         \/ todo' = <<>> /\ allocating' = allocating /\ outcome' = "error"
BY DEF ReserveHead, ResizeTo, Rest, Refused, EndsAs

LEMMA StartEnds ==
  ASSUME StartModelAllocation
  PROVE  /\ UNCHANGED <<tail, maxHead, model>>
         /\ IF allocating THEN todo' = <<>> /\ outcome' = "null" /\ allocating'
            ELSE todo' = AllocateTensors /\ outcome' = outcome /\ allocating' = TRUE
BY DEF StartModelAllocation, EndsAs, arena

LEMMA FinalFront ==
  ASSUME Types, AllocateTensorsStep, NEW x, x = todo[1], Final(x), head = maxHead
  PROVE  \/ todo[1].do = "reset" /\ todo' = <<>> /\ outcome' \in {"ok", "undefined"}
         \/ todo' = Tail(todo) /\ head' = maxHead' /\ outcome' = outcome /\ ~Doom(x)
         \/ todo' = <<>> /\ outcome' = "error" /\ Doom(x)'
<1>1. CASE todo[1].do = "reset"
  BY <1>1, LastSteps DEF ResetVariableTensors, EndsAs
<1>2. CASE todo[1] \in Closers
  <2>1. todo[1].do = "persistent" /\ todo[1].null = "error" /\ todo[1] \in PersistentType
    BY <1>2, ClosersFacts DEF Types, AllocatorTypes
  <2>2. AllocateTail
    BY <2>1, LastSteps
  <2>3. PICK p \in Int : p = PersistentAt(todo[1].bytes, todo[1].align)
    BY <2>1, PersistentTypes DEF PersistentType, Types
  <2>4. head \in Int
    BY DEF Types, ArenaTypeOK
  <2>5. /\ UNCHANGED <<head, maxHead, allocating, model>>
        /\ \/ todo' = Tail(todo) /\ outcome' = outcome /\ p >= head
           \/ todo' = <<>> /\ outcome' = "error" /\ tail' = tail /\ p < head
    BY <2>1, <2>2, <2>3, TailEnds
  <2>6. p >= head => ~(p < maxHead)
    BY <2>4
  <2>9. tail' = tail => PersistentAt(x.bytes, x.align)' = p
    BY <2>3 DEF PersistentAt
  <2>10. Closers' = Closers
    BY <2>5, SameClosers
  <2>11. tail' = tail /\ p < head => Doom(x)'
    BY <1>2, <2>5, <2>9, <2>10 DEF Doom
  <2>12. ~(p < maxHead) => ~Doom(x)
    BY <2>3 DEF Doom
  <2>13. QED
    BY <2>5, <2>6, <2>11, <2>12
<1>3. QED
  BY <1>1, <1>2 DEF Final

LEMMA TailItems ==
  ASSUME AllocatorTypes, todo # <<>>
  PROVE  \A i \in DOMAIN Tail(todo) : i + 1 \in DOMAIN todo /\ Tail(todo)[i] = todo[i + 1]
<1>1. /\ DOMAIN todo = 1 .. Len(todo) /\ Len(todo) \in Nat \ {0}
      /\ DOMAIN Tail(todo) = 1 .. Len(todo) - 1
      /\ \A i \in 1 .. Len(todo) - 1 : Tail(todo)[i] = todo[i + 1]
  BY TodoFacts
<1>2. \A i \in 1 .. Len(todo) - 1 : i + 1 \in DOMAIN todo
  BY <1>1
<1>3. QED
  BY <1>1, <1>2

LEMMA ProgressMoves ==
  ASSUME Types, Reserving, Working, Fitting, Rear(todo), Progress, AllocateTensorsStep
  PROVE  Progress'
<1> SUFFICES ASSUME todo' # <<>>
             PROVE  \/ Constructing(todo)'
                    \/ allocating' /\ \E i \in DOMAIN todo' : Deciding(todo'[i])
                    \/ AllFinal(todo)' /\ head' = maxHead'
  BY DEF Progress
<1>1. /\ AllocatorTypes /\ todo # <<>> /\ 1 \in DOMAIN todo /\ PlanLast(todo) /\ Committing /\ PlannedNamesOnly
      /\ DOMAIN todo = 1 .. Len(todo) /\ Len(todo) \in Nat \ {0}
  BY LastSteps, TodoFacts DEF Types, Fitting
<1>2. Turns /\ model' = model /\ (allocating' = allocating \/ At("start") \/ At("reserve"))
  BY <1>1, StepTurns
<1>3. CASE todo[1].do = "start"
  <2>1. StartModelAllocation
    BY <1>3, LastSteps
  <2>2. todo' = AllocateTensors /\ allocating' = TRUE
    BY <2>1, StartEnds
  <2>3. \E i \in DOMAIN AllocateTensors : Deciding(AllocateTensors[i])
    BY <1>1, ListFacts DEF AllocatorTypes, HasPlan, Deciding
  <2>4. QED
    BY <2>2, <2>3
<1>4. CASE Constructing(todo) /\ todo[1].do # "start"
  <2>1. todo[1].do = "persistent" /\ todo[1].null = "undefined"
    BY <1>1, <1>4 DEF Constructing
  <2>2. AllocateTail
    BY <2>1, LastSteps
  <2>3. todo' = Tail(todo)
    BY <2>2, TailEnds
  <2>4. Constructing(Tail(todo))
    BY <1>1, <1>4, TailItems DEF Constructing
  <2>5. QED
    BY <2>3, <2>4
<1>5. CASE todo[1].do # "start" /\ allocating /\ \E i \in DOMAIN todo : Deciding(todo[i])
  <2>1. CASE todo[1].do = "reserve"
    <3>1. todo' = Tail(todo) /\ head' = maxHead'
      BY <2>1, LastSteps, ReserveEnds
    <3>2. QED
      BY <1>1, <1>2, <2>1, <3>1, AfterReserve
  <2>2. allocating' = allocating \/ todo[1].do = "reserve"
    BY <1>2, <1>5 DEF At
  <2>3. CASE todo[1].do \in {"plan", "commit"}
    <3>1. 1 \in DOMAIN todo' /\ Deciding(todo'[1])
      BY <1>1, <2>3, DecidingGoes
    <3>2. QED
      BY <1>5, <2>2, <2>3, <3>1
  <2>4. CASE todo[1].do \notin {"plan", "commit", "reserve"}
    <3>1. PICK items : Going(items)
      BY <1>2, <1>5, <2>4 DEF Turns, At
    <3>2. PICK i \in DOMAIN todo : Deciding(todo[i])
      BY <1>5
    <3>3. i > 1
      <4>1. i # 1
        BY <2>4, <3>2 DEF Deciding
      <4>2. QED
        BY <1>1, <4>1
    <3>4. i - 1 + Len(items) \in DOMAIN todo' /\ todo'[i - 1 + Len(items)] = todo[i]
      BY <1>1, <3>1, <3>3, Moved DEF Going
    <3>5. QED
      BY <1>5, <2>2, <2>4, <3>2, <3>4
  <2>5. QED
    BY <2>1, <2>3, <2>4
<1>6. CASE AllFinal(todo) /\ head = maxHead
  <2>1. Final(todo[1])
    BY <1>1, <1>6 DEF AllFinal
  <2>2. todo' = Tail(todo) /\ head' = maxHead'
    BY <1>6, <2>1, FinalFront
  <2>3. Closers' = Closers
    BY <1>2, SameClosers
  <2>4. AllFinal(Tail(todo))
    BY <1>1, <1>6, TailItems DEF AllFinal
  <2>5. QED
    BY <2>2, <2>3, <2>4 DEF AllFinal, Final
<1>7. QED
  BY <1>1, <1>3, <1>4, <1>5, <1>6 DEF Progress

Failing == outcome \in {"error", "null"} \/ (phase \in {"input", "fill", "invoke"} /\ ~allocated) => Doomed

LEMMA FailingMoves ==
  ASSUME Types, Reserving, Working, Fitting, Progress, AllocateTensorsStep, outcome' \in {"error", "null"}
  PROVE  Doomed'
<1>1. /\ AllocatorTypes /\ ArenaTypeOK /\ todo # <<>> /\ 1 \in DOMAIN todo /\ PlannedNamesOnly /\ outcome = "none"
  BY LastSteps, TodoFacts DEF Types, Fitting, Working
<1>2. Turns /\ model' = model /\ (allocating' = allocating \/ At("start") \/ At("reserve"))
  BY <1>1, StepTurns
<1>3. CASE todo[1].do = "start"
  BY <1>1, <1>3, LastSteps, StartEnds DEF Doomed
<1>4. CASE Constructing(todo) /\ todo[1].do # "start"
  <2>1. todo[1].do = "persistent" /\ todo[1].null = "undefined"
    BY <1>1, <1>4 DEF Constructing
  <2>2. outcome' \in {"none", "undefined"}
    BY <1>1, <2>1, LastSteps, TailEnds
  <2>3. QED
    BY <2>2
<1>5. CASE todo[1].do # "start" /\ allocating
  <2>1. CASE todo[1].do = "reserve"
    BY <1>1, <1>5, <2>1, LastSteps, ReserveEnds DEF Doomed
  <2>2. CASE todo[1].do # "reserve"
    BY <1>2, <1>5, <2>2 DEF Doomed, At
  <2>3. QED
    BY <2>1, <2>2
<1>6. CASE AllFinal(todo) /\ head = maxHead
  <2>1. PICK x : x = todo[1]
    OBVIOUS
  <2>2. Final(x)
    BY <1>1, <1>6, <2>1 DEF AllFinal
  <2>3. Doom(x)'
    BY <1>1, <1>6, <2>1, <2>2, FinalFront
  <2>4. QED
    BY <2>3 DEF Doomed
<1>7. QED
  BY <1>1, <1>3, <1>4, <1>5, <1>6 DEF Progress

Trap ==
  \E x : /\ Doom(x)
         /\ \E i \in DOMAIN todo : /\ todo[i] = x /\ Clear(todo, i)
                                   /\ Ahead(todo, i) \/ (AllFinal(todo) /\ head = maxHead)
Hopeless ==
  phase = "retry" => outcome # "ok" /\ (todo # <<>> => (todo = <<Step("start")>> /\ Doomed) \/ Trap)

LEMMA TrapHolds ==
  ASSUME Types, Trap, todo # <<>>, AllocateTensorsStep
  PROVE  outcome = "none" => outcome' # "ok"
<1>1. PICK x : /\ Doom(x)
               /\ \E i \in DOMAIN todo : /\ todo[i] = x /\ Clear(todo, i)
                                         /\ Ahead(todo, i) \/ (AllFinal(todo) /\ head = maxHead)
  BY DEF Trap
<1>2. PICK i \in DOMAIN todo : todo[i] = x /\ Clear(todo, i)
  BY <1>1
<1>3. 1 \in DOMAIN todo /\ (i = 1 \/ 1 < i)
  BY TodoFacts DEF Types
<1>4. x.do = "persistent"
  BY <1>1, ClosersFacts DEF Doom, Types, AllocatorTypes
<1>5. todo[1].do # "reset"
  BY <1>2, <1>3, <1>4 DEF Clear
<1>6. QED
  BY <1>5, OnlyResetOk DEF ResetVariableTensors, At

LEMMA TrapMoves ==
  ASSUME Types, Reserving, Working, Fitting, Rear(todo), Trap, AllocateTensorsStep, todo' # <<>>
  PROVE  Trap'
<1>1. /\ AllocatorTypes /\ ArenaTypeOK /\ todo # <<>> /\ 1 \in DOMAIN todo /\ PlanLast(todo) /\ Committing /\ PlannedNamesOnly
      /\ DOMAIN todo = 1 .. Len(todo) /\ Len(todo) \in Nat \ {0} /\ model \in Models
  BY LastSteps, TodoFacts DEF Types, Fitting, AllocatorTypes
<1>2. Turns /\ model' = model
  BY <1>1, StepTurns
<1>3. PICK x : /\ Doom(x)
               /\ \E i \in DOMAIN todo : /\ todo[i] = x /\ Clear(todo, i)
                                         /\ Ahead(todo, i) \/ (AllFinal(todo) /\ head = maxHead)
  BY DEF Trap
<1>4. PICK i \in DOMAIN todo : /\ todo[i] = x /\ Clear(todo, i)
                               /\ Ahead(todo, i) \/ (AllFinal(todo) /\ head = maxHead)
  BY <1>3
<1>5. Doom(x)'
  BY <1>1, <1>2, <1>3, TailFalls, DoomStays
<1>6. x \in Closers /\ x.do = "persistent"
  BY <1>1, <1>3, ClosersFacts DEF Doom
<1>7. Closers' = Closers
  BY <1>2, SameClosers
<1>8. SUFFICES \E k \in DOMAIN todo' : /\ todo'[k] = x /\ Clear(todo', k)
                                       /\ Ahead(todo', k) \/ (AllFinal(todo)' /\ head' = maxHead')
  BY <1>5 DEF Trap
<1>9. CASE todo[1].do = "start"
  <2>1. todo' = AllocateTensors
    BY <1>9, LastSteps, StartEnds
  <2>2. \E k, j \in DOMAIN AllocateTensors : j < k /\ AllocateTensors[k] = x /\ Deciding(AllocateTensors[j])
                                             /\ Clear(AllocateTensors, k)
    BY <1>1, <1>6, ListFacts
  <2>3. QED
    BY <2>1, <2>2 DEF Ahead
<1>10. CASE todo[1].do # "start" /\ Ahead(todo, i)
  <2>1. PICK j \in DOMAIN todo : j < i /\ Deciding(todo[j])
    BY <1>10 DEF Ahead
  <2>2. i > 1 /\ (j = 1 \/ 1 < j)
    BY <1>1, <2>1
  <2>3. CASE todo[1].do \in {"plan", "commit"}
    BY <1>1, <1>4, <1>6, <2>3, DecidingGoes
  <2>4. CASE todo[1].do = "reserve"
    <3>1. todo' = Tail(todo) /\ head' = maxHead'
      BY <2>4, LastSteps, ReserveEnds
    <3>2. AllFinal(todo)'
      BY <1>1, <1>2, <2>4, <3>1, AfterReserve
    <3>3. PICK items : items = <<>>
      OBVIOUS
    <3>4. items \in Seq(Todo) /\ Advance(items) /\ \A k \in DOMAIN items : items[k].do # "reset"
      BY <1>1, <3>1, <3>3, Popped
    <3>5. \E k \in DOMAIN todo' : todo'[k] = todo[i] /\ Clear(todo', k)
      BY <1>1, <1>4, <2>2, <3>4, Shifted
    <3>6. QED
      BY <1>4, <3>1, <3>2, <3>5
  <2>5. CASE todo[1].do \notin {"plan", "commit", "reserve"}
    <3>1. PICK items : Going(items)
      BY <1>2, <1>10, <2>5 DEF Turns, At
    <3>2. items \in Seq(Todo) /\ Advance(items) /\ \A k \in DOMAIN items : items[k].do # "reset"
      BY <3>1 DEF Going, OnlyMarks, MarkKinds
    <3>3. 1 < j
      BY <2>1, <2>2, <2>5 DEF Deciding
    <3>4. \E k \in DOMAIN todo' : todo'[k] = todo[i] /\ Clear(todo', k) /\ Ahead(todo', k)
      BY <1>1, <1>4, <2>1, <2>2, <3>2, <3>3, Shifted
    <3>5. QED
      BY <1>4, <3>4
  <2>6. QED
    BY <2>3, <2>4, <2>5
<1>11. CASE AllFinal(todo) /\ head = maxHead
  <2>1. PICK y : y = todo[1]
    OBVIOUS
  <2>2. Final(y)
    BY <1>1, <1>11, <2>1 DEF AllFinal
  <2>3. todo' = Tail(todo) /\ head' = maxHead' /\ ~Doom(y)
    BY <1>1, <1>11, <2>1, <2>2, FinalFront
  <2>4. i > 1
    <3>1. i # 1
      BY <1>3, <1>4, <2>1, <2>3
    <3>2. QED
      BY <1>1, <3>1
  <2>5. PICK items : items = <<>>
    OBVIOUS
  <2>6. items \in Seq(Todo) /\ Advance(items) /\ \A k \in DOMAIN items : items[k].do # "reset"
    BY <1>1, <2>3, <2>5, Popped
  <2>7. \E k \in DOMAIN todo' : todo'[k] = todo[i] /\ Clear(todo', k)
    BY <1>1, <1>4, <2>4, <2>6, Shifted
  <2>8. AllFinal(Tail(todo))
    BY <1>1, <1>11, TailItems DEF AllFinal
  <2>9. AllFinal(todo)'
    BY <1>7, <2>3, <2>8 DEF AllFinal, Final
  <2>10. QED
    BY <1>4, <2>3, <2>7, <2>9
<1>12. QED
  BY <1>4, <1>9, <1>10, <1>11

LEMMA HopelessMoves ==
  ASSUME Types, Reserving, Working, Fitting, Rear(todo), Hopeless, AllocateTensorsStep
  PROVE  Hopeless'
<1>1. /\ AllocatorTypes /\ ArenaTypeOK /\ todo # <<>> /\ outcome = "none" /\ model \in Models /\ phase' = phase
  BY LastSteps DEF Types, Working, AllocatorTypes, AllocateTensorsStep, status
<1> SUFFICES ASSUME phase = "retry"
             PROVE  outcome' # "ok" /\ (todo' # <<>> => (todo' = <<Step("start")>> /\ Doomed') \/ Trap')
  BY <1>1 DEF Hopeless
<1>2. CASE Trap
  BY <1>1, <1>2, TrapHolds, TrapMoves
<1>3. CASE todo = <<Step("start")>> /\ Doomed
  <2>1. todo[1].do = "start"
    BY <1>3 DEF Step
  <2>2. StartModelAllocation
    BY <2>1, LastSteps
  <2>3. CASE allocating
    BY <2>2, <2>3, StartEnds
  <2>4. CASE ~allocating
    <3>1. todo' = AllocateTensors /\ outcome' = outcome /\ model' = model
      BY <2>2, <2>4, StartEnds
    <3>2. PICK x : Doom(x)
      BY <1>3, <2>4 DEF Doomed
    <3>3. Doom(x)'
      BY <1>1, <3>2, TailFalls, DoomStays
    <3>4. x \in Closers
      BY <3>2 DEF Doom
    <3>5. \E k, j \in DOMAIN AllocateTensors : j < k /\ AllocateTensors[k] = x /\ Deciding(AllocateTensors[j])
                                               /\ Clear(AllocateTensors, k)
      BY <1>1, <3>4, ListFacts
    <3>6. \E k \in DOMAIN todo' : todo'[k] = x /\ Clear(todo', k) /\ Ahead(todo', k)
      BY <3>1, <3>5 DEF Ahead
    <3>7. Trap'
      BY <3>3, <3>6 DEF Trap
    <3>8. QED
      BY <1>1, <3>1, <3>7
  <2>5. QED
    BY <2>3, <2>4
<1>4. QED
  BY <1>1, <1>2, <1>3 DEF Hopeless

LEMMA SameDoom ==
  ASSUME UNCHANGED <<tail, maxHead, allocating, model>>, Doomed
  PROVE  Doomed'
<1>1. Closers' = Closers
  BY SameClosers
<1>2. \A x : Doom(x) => Doom(x)'
  BY <1>1 DEF Doom, PersistentAt
<1>3. QED
  BY <1>2 DEF Doomed

\* Only an allocated interpreter runs and is read; one that is to be allocated is not yet.
Attended ==
  /\ phase \in {"run", "read"} => allocated
  /\ phase \in {"setup", "retry"} => ~allocated

LEMMA NextAttended ==
  ASSUME TypeInv, Working, Attended, [Next]_vars
  PROVE  Attended'
<1>1. CASE AllocateTensorsStep
  BY <1>1 DEF AllocateTensorsStep, status, Attended
<1>2. CASE Returned
  <2>1. PICK ok \in BOOLEAN : ok = (outcome = "ok")
    OBVIOUS
  <2>2. allocated' = ok
    BY <1>2, <2>1, Zenon DEF Returned
  <2>3. /\ phase \in {"setup", "retry"}
        /\ phase' = IF phase = "setup" THEN "input" ELSE IF ok THEN "run" ELSE "exit"
    BY <1>2, <2>1 DEF Returned
  <2>4. QED
    BY <2>2, <2>3 DEF Attended
<1>3. CASE GetInput \/ FillInput \/ Invoke \/ InvokeSubgraph \/ ReadOutput
  BY <1>3 DEF GetInput, FillInput, Invoke, InvokeSubgraph, ReadOutput, Attended, status
<1>4. CASE InvokeStep
  <2>1. frames # <<>> /\ allocated' = allocated /\ (phase' = phase \/ phase' \in {"read", "exit"})
    BY <1>4 DEF InvokeStep, Kernel, IfStarts, IfEnds, WhileStarts, WhileTests, WhileRepeats, SubgraphEnds,
         InvokeFails, Running, status
  <2>2. QED
    BY <2>1 DEF Working, Attended
<1>5. CASE UNCHANGED vars
  BY <1>5 DEF vars, status, Attended
<1>6. QED
  BY <1>1, <1>2, <1>3, <1>4, <1>5 DEF Next, ClientStep

\* AllocateTensors has failed for good.
Retrying == Progress /\ Failing /\ Hopeless /\ Attended

LEMMA ClientRetrying ==
  ASSUME TypeInv, Working, Retrying, ClientStep
  PROVE  Progress' /\ Failing' /\ Hopeless'
<1>1. /\ todo = <<>> /\ (todo' = <<>> \/ (todo' = <<Step("start")>> /\ Invoke))
      /\ UNCHANGED <<tail, maxHead, allocating, model>>
      /\ outcome' = outcome \/ (Returned /\ outcome' = "none")
  BY OtherSteps DEF TypeInv
<1>2. Doomed => Doomed'
  BY <1>1, SameDoom
<1>3. Progress'
  <2>1. PICK x : x = Step("start")
    OBVIOUS
  <2>2. x.do = "start" /\ (todo' = <<>> \/ todo' = <<x>>)
    BY <1>1, <2>1 DEF Step
  <2>3. todo' # <<>> => Constructing(todo)'
    BY <2>2 DEF Constructing
  <2>4. QED
    BY <2>3 DEF Progress
<1>4. Failing'
  <2>1. CASE Returned
    <3>1. PICK ok \in BOOLEAN : ok = (outcome = "ok")
      OBVIOUS
    <3>2. allocated' = ok
      BY <2>1, <3>1, Zenon DEF Returned
    <3>3. /\ phase \in {"setup", "retry"} /\ outcome \in {"ok", "error", "null"} /\ outcome' = "none"
          /\ phase' = IF phase = "setup" THEN "input" ELSE IF ok THEN "run" ELSE "exit"
      BY <2>1, <3>1 DEF Returned
    <3>4. ~allocated' => outcome \in {"error", "null"}
      BY <3>1, <3>2, <3>3
    <3>5. QED
      BY <1>2, <3>3, <3>4 DEF Failing, Retrying
  <2>2. CASE GetInput \/ FillInput \/ Invoke \/ InvokeSubgraph \/ ReadOutput
    <3>1. phase \in {"input", "fill", "invoke", "run", "read"} /\ outcome' = outcome /\ allocated' = allocated
      BY <2>2 DEF GetInput, FillInput, Invoke, InvokeSubgraph, ReadOutput, status, others, allocator
    <3>2. outcome = "none"
      BY <3>1 DEF Working
    <3>3. phase' \in {"input", "fill", "invoke"} => phase \in {"input", "fill", "invoke"} \/ allocated
      BY <3>1 DEF Retrying, Attended
    <3>4. QED
      BY <1>2, <3>1, <3>2, <3>3 DEF Failing, Retrying
  <2>3. QED
    BY <2>1, <2>2 DEF ClientStep
<1>5. Hopeless'
  <2> SUFFICES ASSUME phase' = "retry" PROVE outcome' # "ok" /\ todo' = <<Step("start")>> /\ Doomed'
    BY DEF Hopeless
  <2>1. phase = "retry" => Returned
    BY DEF ClientStep, GetInput, FillInput, Invoke, InvokeSubgraph, ReadOutput
  <2>2. ~Returned
    BY DEF Returned
  <2>3. phase = "invoke" /\ ~allocated /\ todo' = <<Step("start")>> /\ outcome' = outcome
    BY <2>1, <2>2 DEF ClientStep, GetInput, FillInput, Invoke, InvokeSubgraph, ReadOutput, status
  <2>4. outcome = "none"
    BY <2>3 DEF Working
  <2>5. Doomed
    BY <2>3 DEF Retrying, Failing
  <2>6. QED
    BY <1>2, <2>3, <2>4, <2>5
<1>6. QED
  BY <1>3, <1>4, <1>5

LEMMA NextRetrying ==
  ASSUME TypeInv, Reserving, Working, Fitting, Rear(todo), Retrying, [Next]_vars
  PROVE  Retrying'
<1>1. CASE AllocateTensorsStep
  <2>1. Types /\ phase' = phase /\ todo # <<>>
    BY <1>1, LastSteps DEF TypeInv, Types, AllocateTensorsStep, status
  <2>2. Failing'
    <3>1. phase \in {"setup", "retry"}
      BY <2>1 DEF Working
    <3>2. outcome' \in {"error", "null"} => Doomed'
      BY <1>1, <2>1, FailingMoves DEF Retrying
    <3>3. QED
      BY <2>1, <3>1, <3>2 DEF Failing
  <2>3. QED
    BY <1>1, <2>1, <2>2, ProgressMoves, HopelessMoves, NextAttended DEF Retrying
<1>2. CASE ClientStep
  BY <1>2, ClientRetrying, NextAttended DEF Retrying
<1>3. CASE InvokeStep
  <2>1. /\ frames # <<>> /\ UNCHANGED <<others, allocated>> /\ (phase' = phase \/ phase' \in {"read", "exit"})
    BY <1>3 DEF InvokeStep, Kernel, IfStarts, IfEnds, WhileStarts, WhileTests, WhileRepeats, SubgraphEnds,
         InvokeFails, Running, status
  <2>2. phase = "run" /\ todo = <<>> /\ outcome = "none"
    BY <2>1 DEF Working
  <2>3. todo' = <<>> /\ outcome' = "none" /\ phase' \in {"run", "read", "exit"}
    BY <2>1, <2>2 DEF others, allocator
  <2>4. QED
    BY <2>3, NextAttended DEF Retrying, Progress, Failing, Hopeless
<1>4. CASE UNCHANGED vars
  <2>1. UNCHANGED <<phase, allocated, outcome, todo, tail, head, maxHead, allocating, model>>
    BY <1>4 DEF vars, status, allocator, arena
  <2>2. Doomed => Doomed'
    BY <2>1, SameDoom
  <2>3. Closers' = Closers
    BY <2>1, SameClosers
  <2>4. AllFinal(todo) => AllFinal(todo)'
    BY <2>1, <2>3 DEF AllFinal, Final
  <2>5. Progress'
    BY <2>1, <2>4 DEF Retrying, Progress, Constructing, Deciding
  <2>6. Trap => Trap'
    <3>1. \A x : Doom(x) => Doom(x)'
      BY <2>1, <2>3 DEF Doom, PersistentAt
    <3>2. \A i : (Clear(todo, i) => Clear(todo, i)') /\ (Ahead(todo, i) => Ahead(todo, i)')
      BY <2>1 DEF Clear, Ahead, Deciding
    <3>3. QED
      BY <2>1, <2>4, <3>1, <3>2 DEF Trap
  <2>7. QED
    BY <2>1, <2>2, <2>5, <2>6, NextAttended DEF Retrying, Failing, Hopeless
<1>5. QED
  BY <1>1, <1>2, <1>3, <1>4 DEF Next

LEMMA InitRetrying == Init => Retrying
<1> SUFFICES ASSUME Init PROVE Retrying
  OBVIOUS
<1>1. todo = Construct /\ outcome = "none" /\ allocated = FALSE /\ phase = "setup"
  BY DEF Init, AllocatorInit
<1>2. /\ DOMAIN Construct = 1 .. 4 /\ Construct[4].do = "start"
      /\ \A i \in 1 .. 3 : Construct[i].do = "persistent" /\ Construct[i].null = "undefined"
  BY DEF Construct, Persistent, Step
<1>3. Constructing(Construct)
  BY <1>2 DEF Constructing
<1>4. QED
  BY <1>1, <1>3 DEF Retrying, Progress, Failing, Hopeless, Attended

\* All that is known of the allocation, beyond what AllocatedIsWhole needs.
Arranged ==
  /\ Rear(todo) /\ States(todo) /\ Timing /\ Covering /\ GivenOnly /\ Laying /\ TailTensors
  /\ Retrying

LEMMA SameGiven ==
  ASSUME UNCHANGED <<model, requests, infos>>
  PROVE  /\ PlannedNames' = PlannedNames /\ GivenTensors' = GivenTensors
         /\ GivenOnly => GivenOnly'
         /\ Covered => Covered'
<1>1. PlannedNames' = PlannedNames /\ GivenTensors' = GivenTensors
  BY DEF PlannedNames, GivenTensors, AllTensors, NeedsAllocating, IsConst, IsVariable, Bytes, Offline, Subgraphs, Tensors
<1>2. QED
  BY <1>1 DEF GivenOnly, Covered

LEMMA ShortList ==
  ASSUME NEW l, l = <<>> \/ l = <<Step("start")>>
  PROVE  Rear(l) /\ States(l)
<1>1. \A i \in DOMAIN l : l[i].do = "start"
  BY DEF Step
<1>2. QED
  BY <1>1 DEF Rear, States, Deciding

LEMMA NextArranged ==
  ASSUME TypeInv, Reserving, Working, Fitting, Arranged, [Next]_vars
  PROVE  Arranged'
<1>1. Timing' /\ Laying' /\ Retrying'
  BY NextTiming, NextLaying, NextRetrying DEF Arranged
<1>2. CASE AllocateTensorsStep
  <2>1. Types /\ PlannedNamesOnly
    BY DEF TypeInv, Types, Fitting
  <2>2. Turns /\ model' = model
    BY <1>2, <2>1, StepTurns
  <2>3. Rear(todo)' /\ States(todo)'
    BY <2>1, <2>2, RearMoves DEF Types, Arranged
  <2>4. GivenOnly' /\ TailTensors' /\ Covering'
    BY <1>2, <2>1, GivenOnlyStays, TailTensorsMove, CoveringMoves DEF Arranged
  <2>5. QED
    BY <1>1, <2>3, <2>4 DEF Arranged
<1>3. CASE ClientStep \/ InvokeStep
  <2>1. /\ todo' = <<>> \/ todo' = <<Step("start")>>
        /\ UNCHANGED <<tail, place, model, requests, infos>>
        /\ outcome' = "ok" \/ allocated' => outcome = "ok" \/ allocated
    <3>1. /\ todo' = <<>> \/ (todo' = <<Step("start")>> /\ Invoke)
          /\ UNCHANGED <<size, head, tail, temp, place, planner, model, requests, infos, scope, allocating, maxHead, short>>
          /\ outcome' = outcome \/ (Returned /\ outcome' = "none")
          /\ allocated' = allocated \/ (Returned /\ allocated' = (outcome = "ok"))
      BY <1>3, OtherSteps DEF TypeInv
    <3>2. outcome' = "ok" => outcome = "ok"
      BY <3>1
    <3>3. allocated' => outcome = "ok" \/ allocated
      BY <3>1, Zenon
    <3>4. QED
      BY <3>1, <3>2, <3>3
  <2>2. Rear(todo)' /\ States(todo)'
    <3>1. PICK l : l = todo'
      OBVIOUS
    <3>2. Variables' = Variables /\ Closers' = Closers
      BY <2>1, SameClosers
    <3>3. Rear(l) /\ States(l)
      BY <2>1, <3>1, ShortList
    <3>4. QED
      BY <3>1, <3>2, <3>3 DEF Rear, States, Deciding, Final
  <2>3. GivenOnly' /\ TailTensors' /\ (Covered => Covered')
    BY <2>1, SameGiven, SameTailTensors DEF Arranged
  <2>4. todo' # <<>> => Before'
    <3>1. PICK x : x = Step("start")
      OBVIOUS
    <3>2. x.do = "start" /\ (todo' = <<>> \/ todo' = <<x>>)
      BY <2>1, <3>1 DEF Step
    <3>3. QED
      BY <3>2 DEF Before
  <2>5. Covering'
    BY <2>1, <2>3, <2>4 DEF Arranged, Covering
  <2>6. QED
    BY <1>1, <2>2, <2>3, <2>5 DEF Arranged
<1>4. CASE UNCHANGED vars
  <2>1. UNCHANGED <<tail, place, model, requests, infos, todo, outcome, allocated>>
    BY <1>4 DEF vars, allocator, status, arena
  <2>2. Variables' = Variables /\ Closers' = Closers
    BY <2>1, SameClosers
  <2>3. Rear(todo)' /\ States(todo)'
    BY <2>1, <2>2 DEF Arranged, Rear, States, Deciding, Final
  <2>4. GivenOnly' /\ TailTensors' /\ (Covered => Covered')
    BY <2>1, SameGiven, SameTailTensors DEF Arranged
  <2>5. Covering'
    BY <2>1, <2>4 DEF Arranged, Covering, Before
  <2>6. QED
    BY <1>1, <2>3, <2>4, <2>5 DEF Arranged
<1>5. QED
  BY <1>2, <1>3, <1>4 DEF Next

LEMMA InitArranged == Init => Arranged
<1> SUFFICES ASSUME Init PROVE Arranged
  OBVIOUS
<1>1. todo = Construct /\ outcome = "none" /\ allocated = FALSE /\ infos = <<>>
  BY DEF Init, AllocatorInit
<1>2. /\ DOMAIN Construct = 1 .. 4 /\ Construct[4].do = "start"
      /\ \A i \in 1 .. 3 : Construct[i].do = "persistent" /\ Construct[i].name[1] \in {"arena", "planner", "allocator"}
  BY DEF Construct, Persistent, Step
<1>3. Rear(Construct)
  BY <1>2 DEF Rear, Deciding
<1>4. States(Construct)
  BY <1>2 DEF States, IsTensor
<1>5. Covering
  BY <1>1, <1>2 DEF Covering, Before
<1>6. GivenOnly
  BY <1>1 DEF GivenOnly, PlannedNames
<1>7. QED
  BY <1>1, <1>3, <1>4, <1>5, <1>6, InitTiming, InitLaying, InitTailTensors, InitRetrying DEF Arranged

\* What keeps apart all that lives at the same time.
Spread == Types /\ OffsetsAgree /\ PlanLaid /\ Fit /\ TailTensors /\ Covered /\ GivenOnly
AllLive(names, t) == \A n \in names \cap DOMAIN place : n \in Concerned /\ Lives(n, t)
\* Nothing was torn, and these hold what was written to them.
Good(m, keep) == IsMemory(m) /\ m.torn = {} /\ keep \cap DOMAIN place \subseteq m.held

LEMMA ReadGood ==
  ASSUME NEW m, NEW keep, Good(m, keep), NEW names, names \cap DOMAIN place \subseteq keep
  PROVE  Good(Reading(m, names), keep)
<1>1. IsMemory(m) /\ IsMemory(Reading(m, names))
  BY ReadingKeeps DEF Good
<1>2. Reading(m, names).held = m.held
  BY <1>1 DEF Reading, IsMemory
<1>3. Reading(m, names).torn = m.torn \cup {n \in names : n \in DOMAIN place /\ n \notin m.held}
  BY <1>1 DEF Reading, IsMemory
<1>4. QED
  BY <1>1, <1>2, <1>3 DEF Good

LEMMA WriteGood ==
  ASSUME Spread, NEW m, NEW keep, Good(m, keep), NEW names, NEW t \in Int, AllLive(keep, t), AllLive(names, t)
  PROVE  Good(Writing(m, names), keep \cup names)
<1>1. IsMemory(m) /\ IsMemory(Writing(m, names))
  BY WritingKeeps DEF Good
<1>2. Writing(m, names).held = HeldAfter(m.held, names) /\ Writing(m, names).torn = m.torn
  BY <1>1 DEF Writing, IsMemory
<1>3. ASSUME NEW a \in (keep \cup names) \cap DOMAIN place
      PROVE  a \in HeldAfter(m.held, names)
  <2>1. a \in m.held \cup (names \cap DOMAIN place)
    BY DEF Good
  <2>2. ASSUME NEW b \in (names \cap DOMAIN place) \ {a}
        PROVE  ~Meet(place[a], place[b])
    <3>1. a \in Concerned /\ Lives(a, t) /\ b \in Concerned /\ Lives(b, t) /\ a # b
      BY DEF AllLive
    <3>2. QED
      BY <3>1, Separate DEF Spread
  <2>3. QED
    BY <2>1, <2>2 DEF HeldAfter
<1>4. QED
  BY <1>1, <1>2, <1>3 DEF Good

LEMMA CopyGood ==
  ASSUME Spread, NEW m, NEW keep, Good(m, keep), NEW from, NEW to, DOMAIN from = DOMAIN to,
         Range(from) \cap DOMAIN place \subseteq keep,
         NEW t \in Int, AllLive(keep, t), AllLive(Range(to), t)
  PROVE  Good(Copying(m, from, to), keep \cup Range(to))
<1>1. {to[k] : k \in DOMAIN from} = Range(to)
  BY DEF Range
<1>2. PICK names : names = Range(to)
  OBVIOUS
<1>3. PICK read : read = Range(from)
  OBVIOUS
<1>4. Good(Reading(m, read), keep)
  BY <1>3, ReadGood
<1>5. Good(Writing(Reading(m, read), names), keep \cup names)
  BY <1>2, <1>4, WriteGood
<1>6. Good(Reading(Writing(Reading(m, read), names), read \ names), keep \cup names)
  BY <1>3, <1>5, ReadGood
<1>7. QED
  BY <1>1, <1>2, <1>3, <1>6 DEF Copying

LEMMA LessGood ==
  ASSUME NEW m, NEW keep, Good(m, keep), NEW less, less \cap DOMAIN place \subseteq keep
  PROVE  Good(m, less)
BY DEF Good

LEMMA BothLive ==
  ASSUME NEW a, NEW b, NEW t, AllLive(a, t), AllLive(b, t)
  PROVE  AllLive(a \cup b, t)
BY DEF AllLive

-----------------------------------------------------------------------------
(* The stack of subgraphs, each at an operator of a visit of the lifetimes. *)

Fits(kind, stage) ==
  \/ stage = "call"
  \/ kind = "if" /\ stage \in {"then", "else"}
  \/ kind = "while" /\ stage \in {"first", "again", "body"}
AtOp(f) == f.op \in DOMAIN Ops(f.subgraph)
Callee(f) == Ops(f.subgraph)[f.op].calls[IF f.stage \in {"then", "first", "again"} THEN 1 ELSE 2]
Written(s, o) == Range(Named(s, Ops(s)[o].outputs))
Carried(f) ==
  InputNames(f.subgraph) \cup (UNION {Written(f.subgraph, p) : p \in 1 .. f.op - 1})
  \cup (IF f.stage \in {"again", "body"} THEN Written(f.subgraph, f.op) ELSE {})
Horizon(f, v) == IF AtOp(f) THEN v.till[f.op] ELSE v.hi
\* What a subgraph that is being invoked has still to read.
Wanted(f, v) == {n \in Carried(f) : LastsTo({n}, Horizon(f, v))}

FrameOf(f, v, G) ==
  /\ v \in G /\ v.sub = f.subgraph /\ f.op <= Len(Ops(f.subgraph)) + 1
  /\ f.stage # "call" => AtOp(f) /\ Fits(Ops(f.subgraph)[f.op].kind, f.stage)
Inner(f, v, w) == f.stage # "call" /\ v.at[f.op] <= w.lo /\ w.hi <= v.till[f.op]
Shape(F, G, Z) ==
  /\ Complete(G) /\ F \in Seq(FrameType) /\ F # <<>> /\ F[1].subgraph = 1
  /\ \A k \in DOMAIN F : FrameOf(F[k], Z[k], G) /\ (k > 1 => F[k].subgraph = Callee(F[k - 1]))
  /\ \A j, k \in DOMAIN F : j < k => Inner(F[j], Z[j], Z[k])
Filled(F, Z, h) ==
  /\ \A k \in DOMAIN F : Wanted(F[k], Z[k]) \cap DOMAIN place \subseteq h
  /\ F[Len(F)].stage # "call" => OutputNames(Callee(F[Len(F)])) \cap DOMAIN place \subseteq h

Behaves ==
  /\ torn = {} /\ Variables \subseteq held
  /\ phase = "invoke" \/ (phase = "run" /\ frames = <<>>) => InputNames(1) \cap DOMAIN place \subseteq held
  /\ phase = "read" => OutputNames(1) \cap DOMAIN place \subseteq held
  /\ frames # <<>> => \E F, G, Z : F = frames /\ Shape(F, G, Z) /\ Filled(F, Z, held)

LEMMA SameShape ==
  ASSUME UNCHANGED <<place, model, infos, requests>>, NEW F, NEW G, NEW Z, model \in Models, infos \in Seq(InfoType)
  PROVE  /\ Shape(F, G, Z) => Shape(F, G, Z)'
         /\ \A h : Filled(F, Z, h) => Filled(F, Z, h)'
<1>1. Prolonged
  <2>1. \A j \in DOMAIN infos : infos[j].last <= infos[j].last
    BY InfoTimes
  <2>2. QED
    BY <2>1 DEF Prolonged
<1>2. Complete(G) => Complete(G)'
  BY <1>1, ProlongedComplete
<1>3. /\ FrameType' = FrameType /\ \A s : Ops(s)' = Ops(s)
      /\ \A s : InputNames(s)' = InputNames(s) /\ OutputNames(s)' = OutputNames(s)
  BY ProlongedNames, SameTypes
<1>4. \A f : AtOp(f)' = AtOp(f) /\ Callee(f)' = Callee(f)
  BY <1>3 DEF AtOp, Callee
<1>5. \A f, v : FrameOf(f, v, G) => FrameOf(f, v, G)'
  BY <1>3, <1>4 DEF FrameOf
<1>6. Shape(F, G, Z) => Shape(F, G, Z)'
  BY <1>2, <1>3, <1>4, <1>5 DEF Shape, Inner
<1>7. \A s, o : Written(s, o)' = Written(s, o)
  BY <1>3 DEF Written, Named
<1>8. \A f : Carried(f)' = Carried(f)
  BY <1>3, <1>7 DEF Carried
<1>9. \A f, v : Horizon(f, v)' = Horizon(f, v)
  BY <1>4 DEF Horizon
<1>10. \A names, t : LastsTo(names, t)' = LastsTo(names, t)
  BY DEF LastsTo
<1>11. \A f, v : Wanted(f, v)' = Wanted(f, v)
  BY <1>8, <1>9, <1>10 DEF Wanted
<1>12. \A h : Filled(F, Z, h) => Filled(F, Z, h)'
  BY <1>3, <1>4, <1>11 DEF Filled
<1>13. QED
  BY <1>6, <1>12

LEMMA VisitFacts ==
  ASSUME model \in Models, NEW G, Complete(G), NEW v \in G
  PROVE  /\ v.sub \in Subgraphs /\ v.lo \in Int /\ v.hi \in Int /\ v.lo <= v.hi
         /\ \A o \in Nat : v.at[o] \in Int /\ v.till[o] \in Int
         /\ \A o \in DOMAIN Ops(v.sub) : OpVisited(v, o, G) /\ v.till[o] <= v.hi
         /\ Begun(v) /\ Finished(v) /\ DOMAIN Ops(v.sub) = 1 .. Len(Ops(v.sub)) /\ Len(Ops(v.sub)) \in Nat
<1>1. v \in VisitType /\ Visited(v, Len(Ops(v.sub)), G) /\ Finished(v)
  BY DEF Complete
<1>2. v.sub \in Subgraphs /\ v.lo \in Int /\ v.hi \in Int /\ \A o \in Nat : v.at[o] \in Int /\ v.till[o] \in Int
  BY <1>1 DEF VisitType
<1>3. DOMAIN Ops(v.sub) = 1 .. Len(Ops(v.sub)) /\ Len(Ops(v.sub)) \in Nat
  BY <1>2, ModelFacts
<1>4. QED
  BY <1>1, <1>2, <1>3 DEF Visited, Finished

LEMMA BornLater ==
  ASSUME infos \in Seq(InfoType), NEW names, NEW t \in Int, BornBy(names, t), NEW u \in Int, t <= u,
         NEW more, more \subseteq names
  PROVE  BornBy(more, u)
<1>1. \A j \in DOMAIN infos : infos[j].first \in Int
  BY InfoTimes
<1>2. \A x \in Int : x <= t => x <= u
  OBVIOUS
<1>3. QED
  BY <1>1, <1>2 DEF BornBy

LEMMA LastsLess ==
  ASSUME infos \in Seq(InfoType), NEW names, NEW t \in Int, LastsTo(names, t), NEW u \in Int, u <= t,
         NEW more, more \subseteq names
  PROVE  LastsTo(more, u)
<1>1. \A j \in DOMAIN infos : infos[j].last \in Int
  BY InfoTimes
<1>2. \A x \in Int : t <= x => u <= x
  OBVIOUS
<1>3. QED
  BY <1>1, <1>2 DEF LastsTo

LEMMA LivesAt ==
  ASSUME infos \in Seq(InfoType), NEW born, NEW lasts, NEW t \in Int, NEW a \in Int, NEW b \in Int, a <= t, t <= b,
         BornBy(born, a), LastsTo(lasts, b),
         NEW names, names \subseteq born, names \subseteq lasts,
         \A n \in names : IsTensor(n) \/ \E k \in DOMAIN requests : n = Scratch(k)
  PROVE  AllLive(names, t)
<1> SUFFICES ASSUME NEW n \in names, n \in DOMAIN place
             PROVE  n \in Concerned /\ Lives(n, t)
  BY DEF AllLive
<1>1. n \in Concerned
  BY DEF Concerned
<1>2. BornBy({n}, t) /\ LastsTo({n}, t)
  BY BornLater, LastsLess
<1>3. QED
  BY <1>1, <1>2 DEF Lives

LEMMA TensorNames ==
  /\ \A s : \A n \in InputNames(s) \cup OutputNames(s) : IsTensor(n)
  /\ \A s, o : \A n \in Written(s, o) : IsTensor(n)
  /\ \A f : \A n \in Carried(f) : IsTensor(n)
<1>1. \A s, l : \A n \in Range(Named(s, l)) : IsTensor(n)
  BY DEF Range, Named, T, IsTensor
<1>2. QED
  BY <1>1 DEF InputNames, OutputNames, Written, Carried

LEMMA FrameFacts ==
  ASSUME model \in Models, NEW G, Complete(G), NEW f \in FrameType, NEW v, FrameOf(f, v, G)
  PROVE  /\ v \in G /\ v.sub = f.subgraph /\ f.op \in Nat \ {0} /\ f.subgraph \in Subgraphs
         /\ v.lo \in Int /\ v.hi \in Int /\ v.at[f.op] \in Int /\ v.till[f.op] \in Int
         /\ v.lo <= v.hi
         /\ AtOp(f) => OpVisited(v, f.op, G) /\ v.lo <= v.at[f.op] /\ v.at[f.op] <= v.till[f.op] /\ v.till[f.op] <= v.hi
         /\ ~AtOp(f) => f.op = Len(Ops(f.subgraph)) + 1
<1>1. v \in G /\ v.sub = f.subgraph /\ f.op \in Nat \ {0} /\ f.subgraph \in Subgraphs
      /\ f.op <= Len(Ops(f.subgraph)) + 1
  BY DEF FrameOf, FrameType
<1>2. /\ v.lo \in Int /\ v.hi \in Int /\ v.at[f.op] \in Int /\ v.till[f.op] \in Int
      /\ v.lo <= v.hi /\ DOMAIN Ops(v.sub) = 1 .. Len(Ops(v.sub)) /\ Len(Ops(v.sub)) \in Nat
      /\ f.op \in DOMAIN Ops(v.sub) => OpVisited(v, f.op, G) /\ v.till[f.op] <= v.hi
  BY <1>1, VisitFacts
<1>3. AtOp(f) => OpVisited(v, f.op, G) /\ v.lo <= v.at[f.op] /\ v.at[f.op] <= v.till[f.op] /\ v.till[f.op] <= v.hi
  BY <1>1, <1>2 DEF AtOp, OpVisited, OpTimed
<1>4. ~AtOp(f) => f.op = Len(Ops(f.subgraph)) + 1
  BY <1>1, <1>2 DEF AtOp
<1>5. QED
  BY <1>1, <1>2, <1>3, <1>4

LEMMA CarriedBorn ==
  ASSUME Types, NEW G, Complete(G), NEW f \in FrameType, NEW v, FrameOf(f, v, G), NEW t \in Int,
         IF AtOp(f) THEN v.at[f.op] <= t ELSE v.hi <= t
  PROVE  BornBy(Carried(f), t)
<1>1. model \in Models /\ infos \in Seq(InfoType)
  BY DEF Types, AllocatorTypes
<1>2. /\ v \in G /\ v.sub = f.subgraph /\ f.op \in Nat \ {0}
      /\ v.lo \in Int /\ v.hi \in Int /\ v.at[f.op] \in Int /\ v.till[f.op] \in Int /\ v.lo <= v.hi
      /\ AtOp(f) => OpVisited(v, f.op, G) /\ v.lo <= v.at[f.op]
      /\ f.op <= Len(Ops(v.sub)) + 1
  BY <1>1, FrameFacts DEF FrameOf
<1>3. /\ DOMAIN Ops(v.sub) = 1 .. Len(Ops(v.sub)) /\ Len(Ops(v.sub)) \in Nat /\ Begun(v)
      /\ \A o \in DOMAIN Ops(v.sub) : OpVisited(v, o, G) /\ v.till[o] <= v.hi
      /\ \A o \in Nat : v.at[o] \in Int /\ v.till[o] \in Int
  BY <1>1, <1>2, VisitFacts
<1>4. BornBy(InputNames(f.subgraph), t)
  <2>1. BornBy(InputNames(f.subgraph), v.lo)
    BY <1>2, <1>3 DEF Begun
  <2>2. v.lo <= t
    BY <1>2
  <2>3. QED
    BY <1>1, <1>2, <2>1, <2>2, BornLater
<1>5. ASSUME NEW p \in 1 .. f.op - 1 PROVE BornBy(Written(f.subgraph, p), t)
  <2>1. p \in DOMAIN Ops(v.sub) /\ p \in Nat
    BY <1>2, <1>3
  <2>2. BornBy(OutNames(v.sub, p), v.at[p]) /\ v.at[p] <= v.till[p] /\ v.till[p] <= v.hi
    BY <1>3, <2>1 DEF OpVisited, OpTimed
  <2>3. AtOp(f) => v.till[p] <= v.at[f.op]
    BY <1>2 DEF OpVisited
  <2>4. v.at[p] \in Int /\ v.till[p] \in Int
    BY <1>3, <2>1
  <2>5. v.at[p] <= t
    <3>1. \A a, b, c, d \in Int : a <= b /\ b <= c /\ c <= d => a <= d
      OBVIOUS
    <3>2. QED
      BY <1>2, <2>2, <2>3, <2>4, <3>1
  <2>6. Written(f.subgraph, p) \subseteq OutNames(v.sub, p)
    BY <1>2 DEF Written, OutNames
  <2>7. QED
    BY <1>1, <2>2, <2>4, <2>5, <2>6, BornLater
<1>6. f.stage \in {"again", "body"} => BornBy(Written(f.subgraph, f.op), t)
  <2> SUFFICES ASSUME f.stage \in {"again", "body"} PROVE BornBy(Written(f.subgraph, f.op), t)
    OBVIOUS
  <2>1. AtOp(f)
    BY DEF FrameOf
  <2>2. BornBy(OutNames(v.sub, f.op), v.at[f.op])
    BY <1>2, <2>1 DEF OpVisited, OpTimed
  <2>3. Written(f.subgraph, f.op) \subseteq OutNames(v.sub, f.op)
    BY <1>2 DEF Written, OutNames
  <2>4. QED
    BY <1>1, <1>2, <2>1, <2>2, <2>3, BornLater
<1>7. QED
  BY <1>4, <1>5, <1>6 DEF Carried, BornBy

\* What a subgraph has still to read lives as long as its operator does.
LEMMA WantedLives ==
  ASSUME Types, NEW G, Complete(G), NEW f \in FrameType, NEW v, FrameOf(f, v, G), AtOp(f),
         NEW t \in Int, v.at[f.op] <= t, t <= v.till[f.op]
  PROVE  AllLive(Wanted(f, v), t)
<1>1. infos \in Seq(InfoType) /\ model \in Models
  BY DEF Types, AllocatorTypes
<1>2. BornBy(Carried(f), t)
  BY CarriedBorn
<1>3. v.till[f.op] \in Int
  BY <1>1, FrameFacts
<1>4. Wanted(f, v) \subseteq Carried(f) /\ LastsTo(Wanted(f, v), v.till[f.op])
  BY DEF Wanted, Horizon, LastsTo
<1>5. \A n \in Wanted(f, v) : IsTensor(n)
  BY <1>4, TensorNames
<1>6. PICK names : names = Wanted(f, v)
  OBVIOUS
<1>7. t <= t /\ BornBy(Carried(f), t) /\ LastsTo(names, v.till[f.op]) /\ names \subseteq Carried(f)
      /\ \A n \in names : IsTensor(n) \/ \E k \in DOMAIN requests : n = Scratch(k)
  BY <1>2, <1>4, <1>5, <1>6
<1>8. AllLive(names, t)
  BY <1>1, <1>3, <1>7, LivesAt
<1>9. QED
  BY <1>6, <1>8

\* And so do the outputs and the scratch buffers of the operator.
LEMMA OutLives ==
  ASSUME Types, NEW G, Complete(G), NEW f \in FrameType, NEW v, FrameOf(f, v, G), AtOp(f),
         NEW t \in Int, v.at[f.op] <= t, t <= v.till[f.op]
  PROVE  AllLive(OutNames(f.subgraph, f.op), t)
<1>1. infos \in Seq(InfoType) /\ model \in Models
  BY DEF Types, AllocatorTypes
<1>2. v.sub = f.subgraph /\ OpVisited(v, f.op, G) /\ v.at[f.op] \in Int /\ v.till[f.op] \in Int
  BY <1>1, FrameFacts
<1> DEFINE o == f.op
           s == f.subgraph
<1>3. BornBy(OutNames(s, o), v.at[o]) /\ LastsTo(UseNames(s, o), v.till[o])
  BY <1>2 DEF OpVisited, OpTimed
<1>4. f.subgraph \in Subgraphs /\ o \in DOMAIN Ops(s)
  BY DEF FrameType, AtOp
<1>5. OutNames(s, o) \subseteq UseNames(s, o)
  <2> HIDE DEF o, s
  <2>1. Ops(s)[o].inputs \in Seq(Nat) /\ Ops(s)[o].outputs \in Seq(Nat)
    BY <1>1, <1>4, OpFacts DEF s
  <2>2. PICK a \in Seq(Nat), b \in Seq(Nat) : a = Ops(s)[o].inputs /\ b = Ops(s)[o].outputs
    BY <2>1
  <2>3. ASSUME NEW k \in DOMAIN b PROVE \E j \in DOMAIN (a \o b) : (a \o b)[j] = b[k]
    <3>1. k + Len(a) \in DOMAIN (a \o b) /\ (a \o b)[k + Len(a)] = b[k]
      OBVIOUS
    <3>2. QED
      BY <3>1
  <2>4. Range(Named(s, b)) \subseteq Range(Named(s, a \o b))
    BY <2>3 DEF Range, Named
  <2>5. QED
    BY <2>2, <2>4 DEF OutNames, UseNames
<1>6. \A n \in OutNames(s, o) : IsTensor(n) \/ \E k \in DOMAIN requests : n = Scratch(k)
  <2>1. \A n \in Range(Named(s, Ops(s)[o].outputs)) : IsTensor(n)
    BY TensorNames DEF Written
  <2>2. \A n \in ScratchNames(s, o) : \E k \in DOMAIN requests : n = Scratch(k)
    BY DEF ScratchNames, ScratchOf
  <2>3. QED
    BY <2>1, <2>2 DEF OutNames
<1>7. PICK names : names = OutNames(s, o)
  OBVIOUS
<1>8. PICK lasts : lasts = UseNames(s, o)
  OBVIOUS
<1>9. PICK a \in Int, b \in Int : a = v.at[o] /\ b = v.till[o]
  BY <1>2
<1>10. /\ a <= t /\ t <= b /\ BornBy(names, a) /\ LastsTo(lasts, b) /\ names \subseteq names /\ names \subseteq lasts
       /\ \A n \in names : IsTensor(n) \/ \E k \in DOMAIN requests : n = Scratch(k)
  BY <1>3, <1>5, <1>6, <1>7, <1>8, <1>9
<1>11. AllLive(names, t)
  BY <1>1, <1>10, LivesAt
<1>12. QED
  BY <1>7, <1>11

\* A visit of the subgraph that an operator calls: its inputs live when it
\* begins, its outputs when it ends.
LEMMA CalleeVisit ==
  ASSUME Types, NEW G, Complete(G), NEW f \in FrameType, NEW v, FrameOf(f, v, G), AtOp(f),
         NEW c \in DOMAIN Ops(f.subgraph)[f.op].calls, NEW s, s = Ops(f.subgraph)[f.op].calls[c]
  PROVE  \E g \in G : /\ g.sub = s /\ g.lo \in Int /\ g.hi \in Int
                      /\ v.at[f.op] <= g.lo /\ g.lo <= g.hi /\ g.hi <= v.till[f.op]
                      /\ AllLive(InputNames(s), g.lo) /\ AllLive(OutputNames(s), g.hi)
<1>1. infos \in Seq(InfoType) /\ model \in Models
  BY DEF Types, AllocatorTypes
<1>2. v.sub = f.subgraph /\ OpVisited(v, f.op, G)
  BY <1>1, FrameFacts
<1>3. Within(G, s, v.at[f.op], v.till[f.op])
  BY <1>2 DEF OpVisited
<1>4. PICK g \in G : g.sub = s /\ v.at[f.op] <= g.lo /\ g.hi <= v.till[f.op]
  BY <1>3 DEF Within
<1>5. g.lo \in Int /\ g.hi \in Int /\ g.lo <= g.hi /\ Begun(g) /\ Finished(g)
  BY <1>1, VisitFacts
<1>6. AllLive(InputNames(s), g.lo)
  <2>1. PICK names : names = InputNames(s)
    OBVIOUS
  <2>0. PICK a \in Int : a = g.lo
    BY <1>5
  <2>2. /\ a <= a /\ BornBy(names, a) /\ LastsTo(names, a) /\ names \subseteq names
        /\ \A n \in names : IsTensor(n) \/ \E k \in DOMAIN requests : n = Scratch(k)
    BY <1>4, <1>5, <2>0, <2>1, TensorNames DEF Begun
  <2>3. AllLive(names, a)
    BY <1>1, <2>2, LivesAt
  <2>4. QED
    BY <2>0, <2>1, <2>3
<1>7. AllLive(OutputNames(s), g.hi)
  <2>1. PICK names : names = OutputNames(s)
    OBVIOUS
  <2>0. PICK a \in Int : a = g.hi
    BY <1>5
  <2>2. /\ a <= a /\ BornBy(names, a) /\ LastsTo(names, a) /\ names \subseteq names
        /\ \A n \in names : IsTensor(n) \/ \E k \in DOMAIN requests : n = Scratch(k)
    BY <1>4, <1>5, <2>0, <2>1, TensorNames DEF Finished
  <2>3. AllLive(names, a)
    BY <1>1, <2>2, LivesAt
  <2>4. QED
    BY <2>0, <2>1, <2>3
<1>8. QED
  BY <1>4, <1>5, <1>6, <1>7

\* What an operator reads or a subgraph returns is still there.
LEMMA ReadHeld ==
  ASSUME Spread, NEW f \in FrameType, NEW v, NEW i \in Nat, HasValue(f.subgraph, f.op, i),
         LastsTo({T(f.subgraph, i)}, Horizon(f, v)), T(f.subgraph, i) \in DOMAIN place
  PROVE  T(f.subgraph, i) \in Variables \cup Wanted(f, v)
<1> DEFINE s == f.subgraph
           n == T(s, i)
<1>1. IsTensor(n)
  BY DEF IsTensor, T
<1>2. CASE n \in Unplanned
  BY <1>2 DEF Spread, TailTensors
<1>3. CASE n \notin Unplanned
  <2>1. n \in GivenTensors
    BY <1>1, <1>3 DEF Unplanned
  <2>2. PICK t \in AllTensors : NeedsAllocating(t) /\ n = T(t[1], t[2])
    BY <2>1 DEF GivenTensors
  <2>3. t[1] = s /\ t[2] = i
    BY <2>2 DEF T
  <2>4. t = <<s, i>>
    BY <2>2, <2>3 DEF AllTensors
  <2>5. CASE IsVariable(t)
    <3>1. n \in Variables
      BY <2>2, <2>5 DEF Variables
    <3>2. QED
      BY <3>1
  <2>6. CASE i \in Range(model[s].inputs)
    <3>1. n \in InputNames(s)
      BY <2>6 DEF InputNames, Range, Named
    <3>2. QED
      BY <3>1 DEF Wanted, Carried
  <2>7. CASE \E p \in 1 .. f.op - 1 : i \in Range(Ops(s)[p].outputs)
    <3>1. PICK p \in 1 .. f.op - 1 : i \in Range(Ops(s)[p].outputs)
      BY <2>7
    <3>2. n \in Written(s, p)
      BY <3>1 DEF Written, Range, Named
    <3>3. QED
      BY <3>1, <3>2 DEF Wanted, Carried
  <2>8. QED
    BY <2>2, <2>4, <2>5, <2>6, <2>7 DEF HasValue
<1>4. QED
  BY <1>2, <1>3

\* What must not be overwritten while the innermost subgraph runs.
Outside(F, Z) == Variables \cup (UNION {Wanted(F[k], Z[k]) : k \in 1 .. Len(F) - 1})
Keeps(F, Z) == Outside(F, Z) \cup Wanted(F[Len(F)], Z[Len(F)])

LEMMA ShapeFacts ==
  ASSUME Types, NEW F, NEW G, NEW Z, Shape(F, G, Z)
  PROVE  /\ model \in Models /\ infos \in Seq(InfoType) /\ Complete(G)
         /\ Len(F) \in Nat \ {0} /\ DOMAIN F = 1 .. Len(F) /\ Len(F) \in DOMAIN F /\ Len(F) - 1 \in Int
         /\ \A k \in DOMAIN F : F[k] \in FrameType /\ FrameOf(F[k], Z[k], G)
<1>1. F \in Seq(FrameType) /\ F # <<>>
  BY DEF Shape
<1>2. Len(F) \in Nat \ {0} /\ DOMAIN F = 1 .. Len(F) /\ Len(F) \in DOMAIN F /\ Len(F) - 1 \in Int
      /\ \A k \in DOMAIN F : F[k] \in FrameType
  <2>1. PICK f \in Seq(FrameType) : f = F /\ f # <<>>
    BY <1>1
  <2>2. Len(f) \in Nat \ {0} /\ DOMAIN f = 1 .. Len(f) /\ \A k \in DOMAIN f : f[k] \in FrameType
    BY <2>1
  <2>3. QED
    BY <2>1, <2>2
<1>3. QED
  BY <1>2 DEF Shape, Types, AllocatorTypes

LEMMA OutsideLives ==
  ASSUME Types, NEW F, NEW G, NEW Z, Shape(F, G, Z), NEW K, K = Len(F),
         NEW t \in Int, Z[K].lo <= t, t <= Z[K].hi
  PROVE  AllLive(Outside(F, Z), t)
<1>1. /\ model \in Models /\ infos \in Seq(InfoType) /\ Complete(G)
      /\ K \in Nat \ {0} /\ DOMAIN F = 1 .. K /\ K \in DOMAIN F
      /\ \A k \in DOMAIN F : F[k] \in FrameType /\ FrameOf(F[k], Z[k], G)
  BY ShapeFacts
<1>2. AllLive(Variables, t)
  BY DEF AllLive, Concerned, Lives, Variables, T, IsTensor
<1>3. ASSUME NEW k \in 1 .. K - 1
      PROVE  AllLive(Wanted(F[k], Z[k]), t)
  <2>1. k \in DOMAIN F /\ k < K
    BY <1>1
  <2>2. Inner(F[k], Z[k], Z[K])
    BY <1>1, <2>1 DEF Shape
  <2>3. AtOp(F[k])
    BY <1>1, <2>1, <2>2 DEF Inner, FrameOf
  <2>4. PICK a \in Int, b \in Int, c \in Int, d \in Int :
          a = Z[k].at[F[k].op] /\ b = Z[k].till[F[k].op] /\ c = Z[K].lo /\ d = Z[K].hi
    BY <1>1, <2>1, FrameFacts
  <2>5. a <= c /\ d <= b /\ c <= t /\ t <= d
    BY <2>2, <2>4 DEF Inner
  <2>6. a <= t /\ t <= b
    BY <2>5
  <2>7. QED
    BY <1>1, <2>1, <2>3, <2>4, <2>6, WantedLives
<1>4. QED
  BY <1>2, <1>3 DEF AllLive, Outside

LEMMA KeepsLive ==
  ASSUME Types, NEW F, NEW G, NEW Z, Shape(F, G, Z), NEW f, f = F[Len(F)], NEW v, v = Z[Len(F)], AtOp(f),
         NEW t \in Int, v.at[f.op] <= t, t <= v.till[f.op]
  PROVE  AllLive(Keeps(F, Z), t)
<1>1. /\ model \in Models /\ Complete(G) /\ f \in FrameType /\ FrameOf(f, v, G)
  BY ShapeFacts
<1>2. PICK a \in Int, b \in Int, c \in Int, d \in Int : a = v.at[f.op] /\ b = v.till[f.op] /\ c = v.lo /\ d = v.hi
  BY <1>1, FrameFacts
<1>3. c <= a /\ b <= d /\ a <= t /\ t <= b
  BY <1>1, <1>2, FrameFacts
<1>4. c <= t /\ t <= d
  BY <1>3
<1>5. AllLive(Outside(F, Z), t)
  BY <1>2, <1>4, OutsideLives
<1>6. AllLive(Wanted(f, v), t)
  BY <1>1, WantedLives
<1>7. QED
  BY <1>5, <1>6 DEF Keeps, AllLive

LEMMA KeepsHeld ==
  ASSUME Types, NEW F, NEW G, NEW Z, Shape(F, G, Z), NEW h, Filled(F, Z, h), Variables \subseteq h
  PROVE  Keeps(F, Z) \cap DOMAIN place \subseteq h
<1>1. /\ Len(F) \in DOMAIN F /\ \A k \in 1 .. Len(F) - 1 : k \in DOMAIN F
  BY ShapeFacts
<1>2. QED
  BY <1>1 DEF Keeps, Outside, Filled

\* What the innermost operator reads is among it.
LEMMA InsKept ==
  ASSUME Spread, Sequenced, NEW F, NEW G, NEW Z, Shape(F, G, Z), NEW f, f = F[Len(F)], AtOp(f)
  PROVE  Range(Named(f.subgraph, Ops(f.subgraph)[f.op].inputs)) \cap DOMAIN place \subseteq Keeps(F, Z)
<1>1. PICK v : v = Z[Len(F)]
  OBVIOUS
<1>2. /\ model \in Models /\ Complete(G) /\ f \in FrameType /\ FrameOf(f, v, G)
  BY <1>1, ShapeFacts DEF Spread
<1> DEFINE s == f.subgraph
           o == f.op
           in == Ops(s)[o].inputs
<1>3. s \in Subgraphs /\ o \in DOMAIN Ops(s)
  BY <1>2 DEF FrameType, AtOp
<1>4. v.sub = s /\ OpVisited(v, o, G)
  BY <1>2, FrameFacts
<1>5. LastsTo(UseNames(s, o), v.till[o]) /\ Horizon(f, v) = v.till[o]
  BY <1>4 DEF OpVisited, OpTimed, Horizon
<1>6. in \in Seq(Nat) /\ Ops(s)[o].outputs \in Seq(Nat)
  BY <1>2, <1>3, OpFacts
<1>7. ASSUME NEW k \in DOMAIN in, T(s, in[k]) \in DOMAIN place
      PROVE  T(s, in[k]) \in Keeps(F, Z)
  <2>1. in[k] \in Nat /\ in[k] \in Range(in)
    <3> HIDE DEF in
    <3>1. in[k] \in Nat
      BY <1>6
    <3>2. in[k] \in Range(in)
      BY DEF Range
    <3>3. QED
      BY <3>1, <3>2
  <2>2. HasValue(s, o, in[k])
    BY <1>3, <2>1 DEF Sequenced
  <2>3. T(s, in[k]) \in UseNames(s, o)
    <3>1. PICK a \in Seq(Nat), b \in Seq(Nat) : a = in /\ b = Ops(s)[o].outputs
      BY <1>6
    <3>5. \A j \in DOMAIN a : j \in DOMAIN (a \o b) /\ (a \o b)[j] = a[j]
      OBVIOUS
    <3>2. k \in DOMAIN (a \o b) /\ (a \o b)[k] = a[k]
      BY <3>1, <3>5
    <3>3. T(s, a[k]) \in Range(Named(s, a \o b))
      BY <3>2 DEF Range, Named
    <3>4. QED
      BY <3>1, <3>3 DEF UseNames
  <2>4. LastsTo({T(s, in[k])}, Horizon(f, v))
    BY <1>5, <2>3 DEF LastsTo
  <2>5. T(s, in[k]) \in Variables \cup Wanted(f, v)
    BY <1>2, <1>7, <2>1, <2>2, <2>4, ReadHeld
  <2>6. QED
    BY <1>1, <2>5 DEF Keeps, Outside
<1>8. QED
  BY <1>7 DEF Range, Named

\* And what the innermost subgraph returns.
LEMMA OutsKept ==
  ASSUME Spread, Sequenced, NEW F, NEW G, NEW Z, Shape(F, G, Z), NEW f, f = F[Len(F)], ~AtOp(f)
  PROVE  OutputNames(f.subgraph) \cap DOMAIN place \subseteq Keeps(F, Z)
<1>1. PICK v : v = Z[Len(F)]
  OBVIOUS
<1>2. /\ model \in Models /\ Complete(G) /\ f \in FrameType /\ FrameOf(f, v, G)
  BY <1>1, ShapeFacts DEF Spread
<1> DEFINE s == f.subgraph
           out == model[s].outputs
<1>3. s \in Subgraphs /\ v.sub = s /\ v \in G /\ f.op = Len(Ops(s)) + 1
  BY <1>2, FrameFacts
<1>4. LastsTo(OutputNames(s), v.hi) /\ Horizon(f, v) = v.hi
  BY <1>2, <1>3, VisitFacts DEF Finished, Horizon
<1>5. out \in Seq(Nat)
  BY <1>2, <1>3, ModelFacts
<1>6. ASSUME NEW k \in DOMAIN out, T(s, out[k]) \in DOMAIN place
      PROVE  T(s, out[k]) \in Keeps(F, Z)
  <2>1. out[k] \in Nat /\ out[k] \in Range(out)
    <3> HIDE DEF out
    <3>1. out[k] \in Nat
      BY <1>5
    <3>2. out[k] \in Range(out)
      BY DEF Range
    <3>3. QED
      BY <3>1, <3>2
  <2>2. HasValue(s, f.op, out[k])
    BY <1>3, <2>1 DEF Sequenced
  <2>3. T(s, out[k]) \in OutputNames(s)
    BY DEF OutputNames, Range, Named
  <2>4. LastsTo({T(s, out[k])}, Horizon(f, v))
    BY <1>4, <2>3 DEF LastsTo
  <2>5. T(s, out[k]) \in Variables \cup Wanted(f, v)
    BY <1>2, <1>6, <2>1, <2>2, <2>4, ReadHeld
  <2>6. QED
    BY <1>1, <2>5 DEF Keeps, Outside
<1>7. QED
  BY <1>6 DEF OutputNames, Range, Named

\* What the innermost subgraph has to read after an operator it had before, or
\* the operator has written it.
LEMMA WantedNext ==
  ASSUME Types, NEW G, Complete(G), NEW f \in FrameType, NEW v, FrameOf(f, v, G), AtOp(f),
         NEW g, g.subgraph = f.subgraph, g.op = f.op + 1, g.stage = "call"
  PROVE  Wanted(g, v) \subseteq Wanted(f, v) \cup Written(f.subgraph, f.op)
<1>1. infos \in Seq(InfoType) /\ model \in Models
  BY DEF Types, AllocatorTypes
<1>2. /\ v \in G /\ v.sub = f.subgraph /\ f.op \in Nat \ {0} /\ v.till[f.op] \in Int /\ v.till[f.op] <= v.hi
      /\ v.hi \in Int
  BY <1>1, FrameFacts
<1>3. /\ \A o \in DOMAIN Ops(v.sub) : OpVisited(v, o, G)
      /\ \A o \in Nat : v.at[o] \in Int /\ v.till[o] \in Int
  BY <1>1, <1>2, VisitFacts
<1>4. Horizon(g, v) \in Int /\ v.till[f.op] <= Horizon(g, v)
  <2>1. CASE AtOp(g)
    <3>1. g.op \in DOMAIN Ops(v.sub) /\ g.op \in Nat /\ f.op \in 1 .. g.op - 1
      BY <1>2, <2>1 DEF AtOp
    <3>2. v.till[f.op] <= v.at[g.op] /\ v.at[g.op] <= v.till[g.op]
      BY <1>3, <3>1 DEF OpVisited, OpTimed
    <3>3. PICK a \in Int, b \in Int, c \in Int : a = v.till[f.op] /\ b = v.at[g.op] /\ c = v.till[g.op]
      BY <1>2, <1>3, <3>1
    <3>4. a <= c
      BY <3>2, <3>3
    <3>5. QED
      BY <2>1, <3>3, <3>4 DEF Horizon
  <2>2. CASE ~AtOp(g)
    BY <1>2, <2>2 DEF Horizon
  <2>3. QED
    BY <2>1, <2>2
<1>5. ASSUME NEW n \in Wanted(g, v) PROVE n \in Wanted(f, v) \cup Written(f.subgraph, f.op)
  <2>1. n \in Carried(g) /\ LastsTo({n}, Horizon(g, v))
    BY DEF Wanted
  <2>2. LastsTo({n}, v.till[f.op])
    BY <1>1, <1>2, <1>4, <2>1, LastsLess
  <2>3. n \in InputNames(f.subgraph) \/ \E p \in 1 .. g.op - 1 : n \in Written(f.subgraph, p)
    BY <2>1 DEF Carried
  <2>4. \A p \in 1 .. g.op - 1 : p \in 1 .. f.op - 1 \/ p = f.op
    BY <1>2
  <2>5. n \in Carried(f) \/ n \in Written(f.subgraph, f.op)
    BY <2>3, <2>4 DEF Carried
  <2>6. QED
    BY <2>2, <2>5 DEF Wanted, Horizon
<1>6. QED
  BY <1>5

\* The next operator of the innermost subgraph.
StepsOn(F, E, f) ==
  /\ E \in Seq(FrameType) /\ Len(E) = Len(F) /\ \A k \in 1 .. Len(F) - 1 : E[k] = F[k]
  /\ E[Len(F)].subgraph = f.subgraph /\ E[Len(F)].op = f.op + 1 /\ E[Len(F)].stage = "call"

LEMMA StackNext ==
  ASSUME Types, NEW F, NEW G, NEW Z, Shape(F, G, Z), NEW f, f = F[Len(F)], AtOp(f), NEW E, StepsOn(F, E, f),
         NEW h, Filled(F, Z, h), NEW H, (Keeps(F, Z) \cup Written(f.subgraph, f.op)) \cap DOMAIN place \subseteq H
  PROVE  Shape(E, G, Z) /\ Filled(E, Z, H)
<1> DEFINE K == Len(F)
<1>1. /\ model \in Models /\ infos \in Seq(InfoType) /\ Complete(G)
      /\ K \in Nat \ {0} /\ DOMAIN F = 1 .. K /\ K \in DOMAIN F
      /\ \A k \in DOMAIN F : F[k] \in FrameType /\ FrameOf(F[k], Z[k], G)
  BY ShapeFacts
<1>2. DOMAIN E = 1 .. K /\ E \in Seq(FrameType) /\ E # <<>> /\ Len(E) = K
  <2>1. PICK e \in Seq(FrameType) : e = E /\ Len(e) = K
    BY DEF StepsOn
  <2>2. DOMAIN e = 1 .. Len(e)
    BY <2>1
  <2>3. QED
    BY <1>1, <2>1, <2>2
<1>3. PICK g, v : g = E[K] /\ v = Z[K]
  OBVIOUS
<1>4. g.subgraph = f.subgraph /\ g.op = f.op + 1 /\ g.stage = "call" /\ f \in FrameType /\ FrameOf(f, v, G)
  BY <1>1, <1>3 DEF StepsOn
<1>5. FrameOf(g, v, G)
  <2>1. f.op \in 1 .. Len(Ops(f.subgraph)) /\ Len(Ops(f.subgraph)) \in Nat
    BY <1>1, <1>4, ModelFacts DEF AtOp, FrameType
  <2>2. f.op + 1 <= Len(Ops(f.subgraph)) + 1
    BY <2>1
  <2>3. QED
    BY <1>4, <2>2 DEF FrameOf
<1>6. \A k \in 1 .. K : k < K => k \in 1 .. K - 1 /\ E[k] = F[k]
  BY <1>1 DEF StepsOn
<1>7. E[1].subgraph = 1
  <2>1. F[1].subgraph = 1
    BY DEF Shape
  <2>2. CASE K = 1
    BY <1>3, <1>4, <2>1, <2>2
  <2>3. CASE K # 1
    BY <1>1, <1>6, <2>1, <2>3
  <2>4. QED
    BY <2>2, <2>3
<1>8. ASSUME NEW k \in DOMAIN E PROVE FrameOf(E[k], Z[k], G) /\ (k > 1 => E[k].subgraph = Callee(E[k - 1]))
  <2>1. k \in DOMAIN F /\ (k < K \/ k = K)
    BY <1>1, <1>2, <1>8
  <2>2. E[k].subgraph = F[k].subgraph
    BY <1>3, <1>4, <1>6, <1>2, <2>1
  <2>3. k > 1 => E[k - 1] = F[k - 1]
    BY <1>1, <1>6, <2>1
  <2>4. k > 1 => F[k].subgraph = Callee(F[k - 1])
    BY <2>1 DEF Shape
  <2>5. FrameOf(E[k], Z[k], G)
    BY <1>1, <1>2, <1>3, <1>5, <1>6, <2>1
  <2>6. QED
    BY <2>2, <2>3, <2>4, <2>5
<1>9. \A j, k \in DOMAIN E : j < k => Inner(E[j], Z[j], Z[k])
  <2>1. \A j, k \in DOMAIN E : j < k => j < K
    BY <1>1, <1>2
  <2>2. QED
    BY <1>1, <1>2, <1>6, <2>1 DEF Shape
<1>10. Shape(E, G, Z)
  BY <1>1, <1>2, <1>7, <1>8, <1>9 DEF Shape
<1>11. Wanted(g, v) \subseteq Wanted(f, v) \cup Written(f.subgraph, f.op)
  BY <1>1, <1>4, WantedNext
<1>12. ASSUME NEW k \in DOMAIN E PROVE Wanted(E[k], Z[k]) \cap DOMAIN place \subseteq H
  <2>1. CASE k = K
    <3>1. Wanted(f, v) \subseteq Keeps(F, Z)
      BY <1>3 DEF Keeps
    <3>2. QED
      BY <1>3, <1>11, <2>1, <3>1
  <2>2. CASE k # K
    <3>1. k \in 1 .. K - 1 /\ E[k] = F[k]
      BY <1>1, <1>2, <1>6, <2>2
    <3>2. Wanted(F[k], Z[k]) \subseteq Keeps(F, Z)
      BY <3>1 DEF Keeps, Outside
    <3>3. QED
      BY <3>1, <3>2
  <2>3. QED
    BY <2>1, <2>2
<1>13. Filled(E, Z, H)
  BY <1>2, <1>3, <1>4, <1>12 DEF Filled
<1>14. QED
  BY <1>10, <1>13

\* A called subgraph comes on top.
Enter(F, E, f, stage, s) ==
  /\ E \in Seq(FrameType) /\ Len(E) = Len(F) + 1 /\ \A k \in 1 .. Len(F) - 1 : E[k] = F[k]
  /\ E[Len(F)].subgraph = f.subgraph /\ E[Len(F)].op = f.op /\ E[Len(F)].stage = stage
  /\ E[Len(F) + 1].subgraph = s /\ E[Len(F) + 1].op = 1 /\ E[Len(F) + 1].stage = "call"

Calls(f, stage, s) ==
  /\ Fits(Ops(f.subgraph)[f.op].kind, stage) /\ stage # "call"
  /\ s = Ops(f.subgraph)[f.op].calls[IF stage \in {"then", "first", "again"} THEN 1 ELSE 2]
Nested(f, v, g) == v.at[f.op] <= g.lo /\ g.hi <= v.till[f.op]

LEMMA StackCall ==
  ASSUME Types, NEW F, NEW G, NEW Z, Shape(F, G, Z), NEW f, f = F[Len(F)], AtOp(f),
         NEW stage, NEW s, Calls(f, stage, s),
         NEW E, Enter(F, E, f, stage, s), NEW v, v = Z[Len(F)],
         NEW g \in G, g.sub = s, Nested(f, v, g),
         NEW H, Keeps(F, Z) \cap DOMAIN place \subseteq H, InputNames(s) \cap DOMAIN place \subseteq H,
         stage \in {"again", "body"} => Written(f.subgraph, f.op) \cap DOMAIN place \subseteq H
  PROVE  \E Y : Shape(E, G, Y) /\ Filled(E, Y, H)
<1> DEFINE K == Len(F)
<1>1. /\ model \in Models /\ infos \in Seq(InfoType) /\ Complete(G)
      /\ K \in Nat \ {0} /\ DOMAIN F = 1 .. K /\ K \in DOMAIN F
      /\ \A k \in DOMAIN F : F[k] \in FrameType /\ FrameOf(F[k], Z[k], G)
  BY ShapeFacts
<1>2. DOMAIN E = 1 .. K + 1 /\ E \in Seq(FrameType) /\ E # <<>> /\ Len(E) = K + 1
  <2>1. PICK e \in Seq(FrameType) : e = E /\ Len(e) = K + 1
    BY DEF Enter
  <2>2. DOMAIN e = 1 .. Len(e)
    BY <2>1
  <2>3. QED
    BY <1>1, <2>1, <2>2
<1>3. PICK Y : Y = [k \in 1 .. K + 1 |-> IF k = K + 1 THEN g ELSE Z[k]]
  OBVIOUS
<1>4. Y[K + 1] = g /\ \A k \in 1 .. K : Y[k] = Z[k]
  BY <1>1, <1>3
<1>5. PICK e, b : e = E[K] /\ b = E[K + 1]
  OBVIOUS
<1>6. /\ e.subgraph = f.subgraph /\ e.op = f.op /\ e.stage = stage
      /\ b.subgraph = s /\ b.op = 1 /\ b.stage = "call" /\ f \in FrameType /\ FrameOf(f, v, G)
  BY <1>1, <1>5 DEF Enter
<1>7. FrameOf(e, v, G) /\ Callee(e) = s /\ AtOp(e)
  BY <1>6 DEF FrameOf, AtOp, Callee, Calls
<1>8. FrameOf(b, g, G)
  <2>1. s \in Subgraphs
    BY <1>1, VisitFacts
  <2>2. Len(Ops(s)) \in Nat
    BY <1>1, <2>1, ModelFacts
  <2>3. 1 <= Len(Ops(s)) + 1
    BY <2>2
  <2>4. QED
    BY <1>6, <2>3 DEF FrameOf
<1>9. \A k \in 1 .. K : k < K => k \in 1 .. K - 1 /\ E[k] = F[k]
  BY <1>1 DEF Enter
<1>10. E[1].subgraph = 1
  <2>1. F[1].subgraph = 1
    BY DEF Shape
  <2>2. CASE K = 1
    BY <1>5, <1>6, <2>1, <2>2
  <2>3. CASE K # 1
    BY <1>1, <1>9, <2>1, <2>3
  <2>4. QED
    BY <2>2, <2>3
<1>11. ASSUME NEW k \in DOMAIN E PROVE FrameOf(E[k], Y[k], G) /\ (k > 1 => E[k].subgraph = Callee(E[k - 1]))
  <2>1. k = K + 1 \/ (k \in DOMAIN F /\ (k < K \/ k = K))
    BY <1>1, <1>2, <1>11
  <2>2. CASE k = K + 1
    <3>1. k - 1 = K
      BY <1>1, <2>2
    <3>2. QED
      BY <1>4, <1>5, <1>6, <1>7, <1>8, <2>2, <3>1
  <2>3. CASE k \in DOMAIN F /\ (k < K \/ k = K)
    <3>1. E[k].subgraph = F[k].subgraph
      BY <1>1, <1>5, <1>6, <1>9, <2>3
    <3>2. k > 1 => E[k - 1] = F[k - 1]
      BY <1>1, <1>9, <2>3
    <3>3. k > 1 => F[k].subgraph = Callee(F[k - 1])
      BY <2>3 DEF Shape
    <3>4. FrameOf(E[k], Y[k], G)
      <4>1. CASE k = K
        BY <1>1, <1>4, <1>5, <1>7, <4>1
      <4>2. CASE k < K
        BY <1>1, <1>4, <1>9, <2>3, <4>2
      <4>3. QED
        BY <2>3, <4>1, <4>2
    <3>5. QED
      BY <3>1, <3>2, <3>3, <3>4
  <2>4. QED
    BY <2>1, <2>2, <2>3
<1>12. ASSUME NEW j \in DOMAIN E, NEW k \in DOMAIN E, j < k PROVE Inner(E[j], Y[j], Y[k])
  <2>1. j \in 1 .. K /\ (k = K + 1 \/ k \in 1 .. K) /\ (j = K \/ j < K) /\ (k \in 1 .. K => j < K)
    BY <1>1, <1>2, <1>12
  <2>2. CASE k \in 1 .. K
    BY <1>1, <1>4, <1>9, <1>12, <2>1, <2>2 DEF Shape
  <2>3. CASE k = K + 1 /\ j = K
    <3>1. Inner(e, v, g)
      BY <1>6 DEF Inner, Nested, Calls
    <3>2. QED
      BY <1>1, <1>4, <1>5, <2>3, <3>1
  <2>4. CASE k = K + 1 /\ j < K
    <3>1. Inner(F[j], Z[j], v) /\ E[j] = F[j] /\ Y[j] = Z[j] /\ Y[k] = g /\ FrameOf(F[j], Z[j], G) /\ F[j] \in FrameType
      BY <1>1, <1>4, <1>9, <2>1, <2>4 DEF Shape
    <3>2. PICK y : y = Z[j]
      OBVIOUS
    <3>3. PICK i : i = F[j]
      OBVIOUS
    <3>4. PICK a1 \in Int, a2 \in Int, a3 \in Int, a4 \in Int :
            a1 = y.at[i.op] /\ a2 = v.lo /\ a3 = v.at[f.op] /\ a4 = g.lo
      BY <1>1, <1>6, <3>1, <3>2, <3>3, FrameFacts, VisitFacts
    <3>5. PICK b1 \in Int, b2 \in Int, b3 \in Int, b4 \in Int :
            b1 = y.till[i.op] /\ b2 = v.hi /\ b3 = v.till[f.op] /\ b4 = g.hi
      BY <1>1, <1>6, <3>1, <3>2, <3>3, FrameFacts, VisitFacts
    <3>6. a1 <= a2 /\ a2 <= a3 /\ a3 <= a4 /\ b4 <= b3 /\ b3 <= b2 /\ b2 <= b1 /\ i.stage # "call"
      BY <1>1, <1>6, <3>1, <3>2, <3>3, <3>4, <3>5, FrameFacts DEF Inner, Nested
    <3>7. a1 <= a4 /\ b4 <= b1
      BY <3>6
    <3>8. Inner(i, y, g)
      BY <3>4, <3>5, <3>6, <3>7 DEF Inner
    <3>9. QED
      BY <3>1, <3>2, <3>3, <3>8
  <2>5. QED
    BY <2>1, <2>2, <2>3, <2>4
<1>13. Shape(E, G, Y)
  BY <1>1, <1>2, <1>10, <1>11, <1>12 DEF Shape
<1>14. Wanted(e, v) \cap DOMAIN place \subseteq H
  <2>1. Carried(e) \subseteq Carried(f) \cup (IF stage \in {"again", "body"} THEN Written(f.subgraph, f.op) ELSE {})
    BY <1>6 DEF Carried
  <2>2. Horizon(e, v) = Horizon(f, v)
    BY <1>6 DEF Horizon, AtOp
  <2>3. Wanted(e, v) \subseteq Wanted(f, v) \cup (IF stage \in {"again", "body"} THEN Written(f.subgraph, f.op) ELSE {})
    BY <2>1, <2>2 DEF Wanted
  <2>4. Wanted(f, v) \subseteq Keeps(F, Z)
    BY DEF Keeps
  <2>5. QED
    BY <2>3, <2>4
<1>15. Wanted(b, g) \cap DOMAIN place \subseteq H
  <2>1. 1 .. b.op - 1 = {}
    BY <1>6
  <2>2. Carried(b) = InputNames(s)
    BY <1>6, <2>1 DEF Carried
  <2>3. QED
    BY <2>2 DEF Wanted
<1>16. ASSUME NEW k \in DOMAIN E PROVE Wanted(E[k], Y[k]) \cap DOMAIN place \subseteq H
  <2>1. k = K + 1 \/ k = K \/ k \in 1 .. K - 1
    BY <1>1, <1>2
  <2>2. CASE k \in 1 .. K - 1
    <3>1. E[k] = F[k] /\ Y[k] = Z[k]
      BY <1>1, <1>4, <1>9, <2>2
    <3>2. Wanted(F[k], Z[k]) \subseteq Keeps(F, Z)
      BY <2>2 DEF Keeps, Outside
    <3>3. QED
      BY <3>1, <3>2
  <2>3. K \in 1 .. K
    BY <1>1
  <2>4. QED
    BY <1>4, <1>5, <1>14, <1>15, <2>1, <2>2, <2>3
<1>17. Filled(E, Y, H)
  BY <1>2, <1>5, <1>6, <1>16 DEF Filled
<1>18. QED
  BY <1>13, <1>17

\* The innermost subgraph goes.
Leave(F, E) ==
  E \in Seq(FrameType) /\ Len(E) = Len(F) - 1 /\ \A k \in 1 .. Len(F) - 1 : E[k] = F[k]

LEMMA StackPop ==
  ASSUME Types, NEW F, NEW G, NEW Z, Shape(F, G, Z), NEW f, f = F[Len(F)], Len(F) > 1, NEW E, Leave(F, E),
         NEW h, Filled(F, Z, h), OutputNames(f.subgraph) \cap DOMAIN place \subseteq h
  PROVE  Shape(E, G, Z) /\ Filled(E, Z, h)
<1> DEFINE K == Len(F)
<1>1. /\ model \in Models /\ infos \in Seq(InfoType) /\ Complete(G)
      /\ K \in Nat \ {0} /\ DOMAIN F = 1 .. K /\ K \in DOMAIN F
      /\ \A k \in DOMAIN F : F[k] \in FrameType /\ FrameOf(F[k], Z[k], G)
  BY ShapeFacts
<1>2. DOMAIN E = 1 .. K - 1 /\ E \in Seq(FrameType) /\ E # <<>> /\ Len(E) = K - 1
  <2>1. PICK e \in Seq(FrameType) : e = E /\ Len(e) = K - 1
    BY DEF Leave
  <2>2. DOMAIN e = 1 .. Len(e)
    BY <2>1
  <2>3. QED
    BY <1>1, <2>1, <2>2
<1>3. \A k \in DOMAIN E : k \in DOMAIN F /\ E[k] = F[k] /\ (k > 1 => k - 1 \in DOMAIN E)
  BY <1>1, <1>2 DEF Leave
<1>4. 1 \in DOMAIN E /\ K - 1 \in DOMAIN E /\ K > 1 /\ K - 1 < K
  BY <1>1, <1>2
<1>5. Shape(E, G, Z)
  BY <1>2, <1>3, <1>4 DEF Shape
<1>6. Callee(E[K - 1]) = f.subgraph
  BY <1>1, <1>3, <1>4 DEF Shape
<1>7. Filled(E, Z, h)
  BY <1>2, <1>3, <1>6 DEF Filled
<1>8. QED
  BY <1>5, <1>7

\* What is known of the innermost subgraph when an operator runs.
Steady(F, G, Z, f, v) ==
  /\ ArenaTypeOK /\ Spread /\ Sequenced /\ torn = {} /\ Variables \subseteq held
  /\ Shape(F, G, Z) /\ Filled(F, Z, held) /\ f = F[Len(F)] /\ v = Z[Len(F)]

InOf(f) == Named(f.subgraph, Ops(f.subgraph)[f.op].inputs)
OutOf(f) == Named(f.subgraph, Ops(f.subgraph)[f.op].outputs)
CallOf(f, c) == Ops(f.subgraph)[f.op].calls[c]
KindOf(f) == Ops(f.subgraph)[f.op].kind

LEMMA SteadyFacts ==
  ASSUME NEW F, NEW G, NEW Z, NEW f, NEW v, Steady(F, G, Z, f, v)
  PROVE  /\ Types /\ Spread /\ Sequenced /\ Complete(G) /\ Shape(F, G, Z) /\ f = F[Len(F)] /\ v = Z[Len(F)]
         /\ model \in Models /\ infos \in Seq(InfoType)
         /\ f \in FrameType /\ FrameOf(f, v, G) /\ f.subgraph \in Subgraphs
         /\ v.at[f.op] \in Int /\ v.till[f.op] \in Int /\ (AtOp(f) => v.at[f.op] <= v.till[f.op])
         /\ Good(Memory, Keeps(F, Z))
         /\ f.stage # "call" => Good(Memory, Keeps(F, Z) \cup OutputNames(Callee(f)))
         /\ Variables \subseteq Keeps(F, Z)
<1>1. Types /\ Spread /\ Sequenced /\ Shape(F, G, Z) /\ f = F[Len(F)] /\ v = Z[Len(F)]
  BY DEF Steady, Spread
<1>2. /\ model \in Models /\ infos \in Seq(InfoType) /\ Complete(G)
      /\ f \in FrameType /\ FrameOf(f, v, G)
  BY <1>1, ShapeFacts
<1>3. /\ f.subgraph \in Subgraphs /\ v.at[f.op] \in Int /\ v.till[f.op] \in Int /\ (AtOp(f) => v.at[f.op] <= v.till[f.op])
  BY <1>2, FrameFacts
<1>4. Filled(F, Z, held) /\ Variables \subseteq held /\ torn = {} /\ ArenaTypeOK
  BY DEF Steady
<1>5. Keeps(F, Z) \cap DOMAIN place \subseteq held
  BY <1>1, <1>4, KeepsHeld
<1>6. IsMemory(Memory) /\ Memory.torn = {} /\ Memory.held = held
  BY <1>4, MemoryNow DEF Memory
<1>7. Good(Memory, Keeps(F, Z))
  BY <1>5, <1>6 DEF Good
<1>8. f.stage # "call" => OutputNames(Callee(f)) \cap DOMAIN place \subseteq held
  BY <1>1, <1>4 DEF Filled
<1>9. f.stage # "call" => Good(Memory, Keeps(F, Z) \cup OutputNames(Callee(f)))
  BY <1>5, <1>6, <1>8 DEF Good
<1>10. Variables \subseteq Keeps(F, Z)
  BY DEF Keeps, Outside
<1>11. QED
  BY <1>1, <1>2, <1>3, <1>7, <1>9, <1>10

\* A kernel.
LEMMA KernelGood ==
  ASSUME NEW F, NEW G, NEW Z, NEW f, NEW v, Steady(F, G, Z, f, v), AtOp(f),
         NEW m, m = Reading(Writing(Reading(Memory, Range(InOf(f))),
                      ScratchNames(f.subgraph, f.op) \cup (Range(OutOf(f)) \cup (Range(InOf(f)) \cap Variables))),
                      Range(InOf(f)) \cup ScratchNames(f.subgraph, f.op) \cup (Range(OutOf(f)) \cup (Range(InOf(f)) \cap Variables)))
  PROVE  Good(m, Keeps(F, Z) \cup Written(f.subgraph, f.op))
<1> DEFINE in == Range(InOf(f))
           names == ScratchNames(f.subgraph, f.op) \cup (Range(OutOf(f)) \cup (in \cap Variables))
           keep == Keeps(F, Z)
<1>1. PICK t \in Int : t = v.at[f.op]
  BY SteadyFacts
<1>2. Good(Memory, keep) /\ in \cap DOMAIN place \subseteq keep /\ Variables \subseteq keep
  BY SteadyFacts, InsKept DEF InOf
<1>3. AllLive(keep, t) /\ AllLive(OutNames(f.subgraph, f.op), t)
  <2>1. PICK a \in Int, b \in Int : a = v.at[f.op] /\ b = v.till[f.op]
    BY SteadyFacts
  <2>2. v.at[f.op] <= v.till[f.op]
    BY SteadyFacts
  <2>3. a <= b /\ t = a
    BY <1>1, <2>1, <2>2
  <2>4. a <= t /\ t <= b
    BY <2>1, <2>3
  <2>5. /\ Types /\ Shape(F, G, Z) /\ Complete(G) /\ f = F[Len(F)] /\ v = Z[Len(F)]
        /\ f \in FrameType /\ FrameOf(f, v, G)
    BY SteadyFacts
  <2>6. QED
    BY <2>1, <2>4, <2>5, KeepsLive, OutLives
<1>4. names \subseteq OutNames(f.subgraph, f.op) \cup keep
  BY <1>2 DEF OutNames, OutOf
<1>5. AllLive(names, t)
  BY <1>3, <1>4 DEF AllLive
<1>6. PICK a : a = Reading(Memory, in)
  OBVIOUS
<1>7. PICK b : b = Writing(a, names)
  OBVIOUS
<1>8. Good(a, keep)
  BY <1>2, <1>6, ReadGood
<1>9. Good(b, keep \cup names)
  BY <1>3, <1>5, <1>7, <1>8, SteadyFacts, WriteGood
<1>10. PICK all : all = in \cup ScratchNames(f.subgraph, f.op) \cup (Range(OutOf(f)) \cup (in \cap Variables))
  OBVIOUS
<1>11. all \cap DOMAIN place \subseteq keep \cup names
  BY <1>2, <1>10
<1>12. m = Reading(b, all)
  BY <1>6, <1>7, <1>10
<1>13. Good(m, keep \cup names)
  BY <1>9, <1>11, <1>12, ReadGood
<1>14. Written(f.subgraph, f.op) \subseteq names
  BY DEF Written, OutOf
<1>15. QED
  BY <1>13, <1>14, LessGood

\* The subgraph an operator calls: when it runs, and what lives then.
Visiting(F, Z, f, v, G, g, s) ==
  /\ g \in G /\ g.sub = s /\ g.lo \in Int /\ g.hi \in Int /\ Nested(f, v, g)
  /\ AllLive(Keeps(F, Z), g.lo) /\ AllLive(Keeps(F, Z), g.hi)
  /\ AllLive(InputNames(s), g.lo) /\ AllLive(OutputNames(s), g.hi)
  /\ AllLive(Range(OutOf(f)), g.lo) /\ AllLive(Range(OutOf(f)), g.hi)

LEMMA SomeCalling ==
  ASSUME NEW F, NEW G, NEW Z, NEW f, NEW v, Steady(F, G, Z, f, v), AtOp(f), NEW c \in {1, 2}, KindOf(f) # "kernel"
  PROVE  \E g : Visiting(F, Z, f, v, G, g, CallOf(f, c))
<1>1. PICK s : s = CallOf(f, c)
  OBVIOUS
<1>2. c \in DOMAIN Ops(f.subgraph)[f.op].calls
  <2>1. PICK calls \in Seq(Nat) : calls = Ops(f.subgraph)[f.op].calls /\ Len(calls) = 2
    BY SteadyFacts, OpFacts DEF AtOp, KindOf
  <2>2. DOMAIN calls = 1 .. 2
    BY <2>1
  <2>3. QED
    BY <2>1, <2>2
<1>3. PICK g \in G : /\ g.sub = s /\ g.lo \in Int /\ g.hi \in Int
                     /\ v.at[f.op] <= g.lo /\ g.lo <= g.hi /\ g.hi <= v.till[f.op]
                     /\ AllLive(InputNames(s), g.lo) /\ AllLive(OutputNames(s), g.hi)
  BY <1>1, <1>2, SteadyFacts, CalleeVisit DEF CallOf
<1>4. PICK a \in Int, b \in Int, x \in Int, y \in Int : a = v.at[f.op] /\ b = v.till[f.op] /\ x = g.lo /\ y = g.hi
  BY <1>3, SteadyFacts
<1>5. a <= x /\ x <= b /\ a <= y /\ y <= b
  BY <1>3, <1>4
<1>6. AllLive(Keeps(F, Z), x) /\ AllLive(Keeps(F, Z), y)
  BY <1>4, <1>5, SteadyFacts, KeepsLive
<1>7. AllLive(OutNames(f.subgraph, f.op), x) /\ AllLive(OutNames(f.subgraph, f.op), y)
  BY <1>4, <1>5, SteadyFacts, OutLives
<1>8. AllLive(Range(OutOf(f)), x) /\ AllLive(Range(OutOf(f)), y)
  BY <1>7 DEF AllLive, OutNames, OutOf
<1>9. QED
  BY <1>1, <1>3, <1>4, <1>6, <1>8 DEF Visiting, Nested

\* The copies to and from a called subgraph.
LEMMA CopyIn ==
  ASSUME Spread, NEW F, NEW Z, NEW f, NEW v, NEW G, NEW g, NEW s, Visiting(F, Z, f, v, G, g, s),
         NEW m, NEW keep, Good(m, keep), AllLive(keep, g.lo),
         NEW from, DOMAIN from = DOMAIN InputsOf(s), Range(from) \cap DOMAIN place \subseteq keep
  PROVE  Good(Copying(m, from, InputsOf(s)), keep \cup InputNames(s))
<1>1. PICK t \in Int : t = g.lo
  BY DEF Visiting
<1>2. Range(InputsOf(s)) = InputNames(s) /\ AllLive(InputNames(s), t) /\ AllLive(keep, t)
  BY <1>1 DEF Visiting, InputsOf, InputNames
<1>3. PICK to : to = InputsOf(s)
  OBVIOUS
<1>4. QED
  BY <1>2, <1>3, CopyGood

LEMMA CopyOut ==
  ASSUME Spread, NEW f, NEW t \in Int, AllLive(Range(OutOf(f)), t),
         NEW m, NEW keep, Good(m, keep), AllLive(keep, t),
         NEW from, DOMAIN from = DOMAIN OutOf(f), Range(from) \cap DOMAIN place \subseteq keep
  PROVE  Good(Copying(m, from, OutOf(f)), keep \cup Written(f.subgraph, f.op))
<1>1. PICK to : to = OutOf(f)
  OBVIOUS
<1>2. Range(to) = Written(f.subgraph, f.op) /\ AllLive(Range(to), t)
  BY <1>1 DEF OutOf, Written
<1>3. Good(Copying(m, from, to), keep \cup Range(to))
  BY <1>1, <1>2, CopyGood
<1>4. QED
  BY <1>1, <1>2, <1>3

\* What a loop has computed is kept.
LEMMA WrittenKept ==
  ASSUME NEW F, NEW G, NEW Z, NEW f, NEW v, Steady(F, G, Z, f, v), AtOp(f), f.stage \in {"again", "body"}
  PROVE  Written(f.subgraph, f.op) \subseteq Keeps(F, Z)
<1>1. v.sub = f.subgraph /\ OpVisited(v, f.op, G)
  <2>1. model \in Models /\ Complete(G) /\ f \in FrameType /\ FrameOf(f, v, G)
    BY SteadyFacts
  <2>2. QED
    BY <2>1, FrameFacts
<1>2. LastsTo(UseNames(f.subgraph, f.op), v.till[f.op]) /\ Horizon(f, v) = v.till[f.op]
  BY <1>1 DEF OpVisited, OpTimed, Horizon
<1>3. PICK a \in Seq(Nat), b \in Seq(Nat) : a = Ops(f.subgraph)[f.op].inputs /\ b = Ops(f.subgraph)[f.op].outputs
  BY SteadyFacts, OpFacts DEF AtOp
<1>4. \A k \in DOMAIN b : Len(a) + k \in DOMAIN (a \o b) /\ (a \o b)[Len(a) + k] = b[k]
  OBVIOUS
<1>5. \A k \in DOMAIN b : T(f.subgraph, b[k]) \in Range(Named(f.subgraph, a \o b))
  BY <1>4 DEF Range, Named
<1>6. ASSUME NEW n \in Written(f.subgraph, f.op) PROVE n \in Wanted(f, v)
  <2>1. PICK k \in DOMAIN b : n = T(f.subgraph, b[k])
    BY <1>3, <1>6 DEF Written, Range, Named
  <2>2. n \in UseNames(f.subgraph, f.op)
    BY <1>3, <1>5, <2>1 DEF UseNames
  <2>3. LastsTo({n}, Horizon(f, v))
    BY <1>2, <2>2 DEF LastsTo
  <2>4. n \in Carried(f)
    BY <1>6 DEF Carried
  <2>5. QED
    BY <2>3, <2>4 DEF Wanted
<1>7. QED
  BY <1>6, SteadyFacts DEF Keeps

\* The frames E can go on with the memory m.
Resumes(E, m) == m.torn = {} /\ Variables \subseteq m.held /\ \E G, Y : Shape(E, G, Y) /\ Filled(E, Y, m.held)

LEMMA VariablesStay ==
  ASSUME NEW F, NEW G, NEW Z, NEW f, NEW v, Steady(F, G, Z, f, v),
         NEW m, NEW keep, Good(m, keep), Keeps(F, Z) \subseteq keep
  PROVE  Variables \subseteq m.held
<1>1. Variables \subseteq Keeps(F, Z)
  BY SteadyFacts
<1>2. Variables \subseteq held /\ held \subseteq DOMAIN place
  BY DEF Steady, ArenaTypeOK
<1>3. QED
  BY <1>1, <1>2 DEF Good

LEMMA ResumesNext ==
  ASSUME NEW F, NEW G, NEW Z, NEW f, NEW v, Steady(F, G, Z, f, v), AtOp(f), NEW E, StepsOn(F, E, f),
         NEW m, Good(m, Keeps(F, Z) \cup Written(f.subgraph, f.op))
  PROVE  Resumes(E, m)
<1>1. PICK keep : keep = Keeps(F, Z) \cup Written(f.subgraph, f.op)
  OBVIOUS
<1>2. m.torn = {} /\ keep \cap DOMAIN place \subseteq m.held
  BY <1>1 DEF Good
<1>3. Variables \subseteq m.held
  BY <1>1, VariablesStay
<1>4. Shape(E, G, Z) /\ Filled(E, Z, m.held)
  <2>1. Filled(F, Z, held) /\ Types /\ Shape(F, G, Z) /\ f = F[Len(F)]
    BY DEF Steady, Spread
  <2>2. PICK H : H = m.held
    OBVIOUS
  <2>3. (Keeps(F, Z) \cup Written(f.subgraph, f.op)) \cap DOMAIN place \subseteq H
    BY <1>1, <1>2, <2>2
  <2>4. Shape(E, G, Z) /\ Filled(E, Z, H)
    BY <2>1, <2>3, StackNext
  <2>5. QED
    BY <2>2, <2>4
<1>5. QED
  BY <1>2, <1>3, <1>4 DEF Resumes

LEMMA ResumesCall ==
  ASSUME NEW F, NEW G, NEW Z, NEW f, NEW v, Steady(F, G, Z, f, v), AtOp(f),
         NEW stage, NEW s, Calls(f, stage, s), NEW E, Enter(F, E, f, stage, s),
         NEW g, Visiting(F, Z, f, v, G, g, s), NEW m, NEW keep, Good(m, keep),
         Keeps(F, Z) \subseteq keep, InputNames(s) \subseteq keep,
         stage \in {"again", "body"} => Written(f.subgraph, f.op) \subseteq keep
  PROVE  Resumes(E, m)
<1>1. m.torn = {} /\ keep \cap DOMAIN place \subseteq m.held
  BY DEF Good
<1>2. Variables \subseteq m.held
  BY VariablesStay
<1>3. \E Y : Shape(E, G, Y) /\ Filled(E, Y, m.held)
  <2>1. Types /\ Shape(F, G, Z) /\ f = F[Len(F)] /\ v = Z[Len(F)]
    BY DEF Steady, Spread
  <2>2. PICK H : H = m.held
    OBVIOUS
  <2>3. /\ Keeps(F, Z) \cap DOMAIN place \subseteq H /\ InputNames(s) \cap DOMAIN place \subseteq H
        /\ stage \in {"again", "body"} => Written(f.subgraph, f.op) \cap DOMAIN place \subseteq H
    BY <1>1, <2>2
  <2>4. g \in G /\ g.sub = s /\ Nested(f, v, g)
    BY DEF Visiting
  <2>5. \E Y : Shape(E, G, Y) /\ Filled(E, Y, H)
    BY <2>1, <2>3, <2>4, StackCall
  <2>6. QED
    BY <2>2, <2>5
<1>4. QED
  BY <1>1, <1>2, <1>3 DEF Resumes

\* The lists that a control flow operator copies match.
LEMMA NamedDomain ==
  ASSUME NEW r, NEW q \in Seq(Nat)
  PROVE  DOMAIN Named(r, q) = 1 .. Len(q)
BY DEF Named

LEMMA CalledIs ==
  ASSUME NEW F, NEW G, NEW Z, NEW f, NEW v, Steady(F, G, Z, f, v), AtOp(f), NEW c \in {1, 2}, KindOf(f) # "kernel"
  PROVE  CallOf(f, c) \in Subgraphs
<1>1. f.subgraph \in Subgraphs /\ f.op \in DOMAIN Ops(f.subgraph) /\ model \in Models
  BY SteadyFacts DEF AtOp
<1>2. PICK calls \in Seq(Nat) : /\ calls = Ops(f.subgraph)[f.op].calls /\ Len(calls) = 2
                                /\ \A k \in DOMAIN calls : calls[k] \in Subgraphs
  BY <1>1, OpFacts DEF KindOf
<1>3. c \in DOMAIN calls
  BY <1>2
<1>4. QED
  BY <1>2, <1>3 DEF CallOf

LEMMA OperandLists ==
  ASSUME NEW F, NEW G, NEW Z, NEW f, NEW v, Steady(F, G, Z, f, v), AtOp(f)
  PROVE  /\ Ops(f.subgraph)[f.op].inputs \in Seq(Nat) /\ Ops(f.subgraph)[f.op].outputs \in Seq(Nat)
         /\ DOMAIN InOf(f) = 1 .. Len(Ops(f.subgraph)[f.op].inputs)
         /\ DOMAIN OutOf(f) = 1 .. Len(Ops(f.subgraph)[f.op].outputs)
<1>1. f.subgraph \in Subgraphs /\ f.op \in DOMAIN Ops(f.subgraph) /\ model \in Models
  BY SteadyFacts DEF AtOp
<1>2. Ops(f.subgraph)[f.op].inputs \in Seq(Nat) /\ Ops(f.subgraph)[f.op].outputs \in Seq(Nat)
  BY <1>1, OpFacts
<1>3. QED
  BY <1>2, NamedDomain DEF InOf, OutOf

LEMMA SubgraphLists ==
  ASSUME model \in Models, NEW s \in Subgraphs
  PROVE  /\ DOMAIN InputsOf(s) = 1 .. Len(model[s].inputs)
         /\ DOMAIN OutputsOf(s) = 1 .. Len(model[s].outputs)
<1>1. model[s].inputs \in Seq(Nat) /\ model[s].outputs \in Seq(Nat)
  BY ModelFacts
<1>2. QED
  BY <1>1, NamedDomain DEF InputsOf, OutputsOf

LEMMA MatchingCalls ==
  ASSUME NEW F, NEW G, NEW Z, NEW f, NEW v, Steady(F, G, Z, f, v), AtOp(f)
  PROVE  /\ KindOf(f) = "if" => /\ Len(Ops(f.subgraph)[f.op].inputs) > 0
                                /\ \A c \in {1, 2} : Takes(CallOf(f, c), Len(Ops(f.subgraph)[f.op].inputs) - 1,
                                                           Len(Ops(f.subgraph)[f.op].outputs))
         /\ KindOf(f) = "while" =>
              /\ Len(Ops(f.subgraph)[f.op].outputs) = Len(Ops(f.subgraph)[f.op].inputs)
              /\ Takes(CallOf(f, 1), Len(Ops(f.subgraph)[f.op].inputs), 1)
              /\ Takes(CallOf(f, 2), Len(Ops(f.subgraph)[f.op].inputs), Len(Ops(f.subgraph)[f.op].inputs))
<1>1. f.subgraph \in Subgraphs /\ f.op \in DOMAIN Ops(f.subgraph) /\ Sequenced
  BY SteadyFacts DEF AtOp
<1>2. QED
  BY <1>1 DEF Sequenced, KindOf, CallOf

LEMMA TailOf ==
  ASSUME NEW S, NEW q \in Seq(S), Len(q) > 0
  PROVE  DOMAIN Tail(q) = 1 .. Len(q) - 1 /\ Range(Tail(q)) \subseteq Range(q) /\ q[1] \in Range(q)
<1>1. q # <<>> /\ Tail(q) \in Seq(S) /\ Len(Tail(q)) = Len(q) - 1 /\ \A i \in 1 .. Len(Tail(q)) : Tail(q)[i] = q[i + 1]
  BY HeadTailProperties
<1>2. PICK r, n : r = Tail(q) /\ n = Len(q)
  OBVIOUS
<1>11. r \in Seq(S) /\ n \in Nat /\ Len(r) = n - 1
  BY <1>1, <1>2
<1>3. DOMAIN r = 1 .. Len(r) /\ Len(r) = n - 1
  BY <1>11
<1>4. DOMAIN q = 1 .. n
  BY <1>2
<1>5. \A i \in DOMAIN r : i + 1 \in DOMAIN q /\ r[i] = q[i + 1]
  BY <1>1, <1>2, <1>3, <1>4, <1>11
<1>6. Range(r) \subseteq Range(q)
  BY <1>5 DEF Range
<1>7. 1 \in DOMAIN q
  BY <1>2, <1>4, <1>11
<1>8. q[1] \in Range(q)
  BY <1>7 DEF Range
<1>9. DOMAIN r = 1 .. Len(q) - 1
  BY <1>2, <1>3
<1>10. QED
  BY <1>2, <1>6, <1>8, <1>9

LEMMA NamedSeq ==
  ASSUME NEW r, NEW q \in Seq(Nat)
  PROVE  Named(r, q) \in Seq({T(r, i) : i \in Nat}) /\ Len(Named(r, q)) = Len(q)
<1>1. PICK n \in Nat : n = Len(q) /\ DOMAIN q = 1 .. n
  OBVIOUS
<1>2. Named(r, q) = [k \in 1 .. n |-> T(r, q[k])] /\ \A k \in 1 .. n : q[k] \in Nat
  BY <1>1 DEF Named
<1>3. [k \in 1 .. n |-> T(r, q[k])] \in [1 .. n -> {T(r, i) : i \in Nat}]
  BY <1>2
<1>4. QED
  BY <1>1, <1>2, <1>3

\* An if: the inputs after the condition go to the branch, its outputs come back.
LEMMA IfStartsGood ==
  ASSUME NEW F, NEW G, NEW Z, NEW f, NEW v, Steady(F, G, Z, f, v), AtOp(f), KindOf(f) = "if",
         NEW c \in {1, 2}, NEW g, Visiting(F, Z, f, v, G, g, CallOf(f, c))
  PROVE  Good(Copying(Reading(Memory, {InOf(f)[1]}), Tail(InOf(f)), InputsOf(CallOf(f, c))),
              Keeps(F, Z) \cup InputNames(CallOf(f, c)))
<1>1. PICK s : s = CallOf(f, c)
  OBVIOUS
<1>2. PICK ins \in Seq(Nat), n \in Nat : ins = Ops(f.subgraph)[f.op].inputs /\ n = Len(ins)
  BY OperandLists
<1>3. n > 0 /\ Len(model[s].inputs) = n - 1
  BY <1>1, <1>2, MatchingCalls DEF Takes
<1>4. s \in Subgraphs /\ model \in Models
  BY <1>1, CalledIs, SteadyFacts
<1>5. DOMAIN InputsOf(s) = 1 .. n - 1
  BY <1>3, <1>4, SubgraphLists
<1>6. PICK q : q = InOf(f)
  OBVIOUS
<1>7. q \in Seq({T(f.subgraph, i) : i \in Nat}) /\ Len(q) = n
  BY <1>2, <1>6, NamedSeq DEF InOf
<1>8. DOMAIN Tail(q) = 1 .. n - 1 /\ Range(Tail(q)) \subseteq Range(q) /\ q[1] \in Range(q)
  BY <1>3, <1>7, TailOf
<1>9. Range(q) \cap DOMAIN place \subseteq Keeps(F, Z)
  BY <1>6, SteadyFacts, InsKept DEF InOf
<1>10. PICK a : a = Reading(Memory, {q[1]})
  OBVIOUS
<1>11. Good(a, Keeps(F, Z))
  <2>1. Good(Memory, Keeps(F, Z)) /\ {q[1]} \cap DOMAIN place \subseteq Keeps(F, Z)
    BY <1>8, <1>9, SteadyFacts
  <2>2. QED
    BY <1>10, <2>1, ReadGood
<1>12. PICK from : from = Tail(q)
  OBVIOUS
<1>13. DOMAIN from = DOMAIN InputsOf(s) /\ Range(from) \cap DOMAIN place \subseteq Keeps(F, Z)
  BY <1>5, <1>8, <1>9, <1>12
<1>14. Visiting(F, Z, f, v, G, g, s) /\ AllLive(Keeps(F, Z), g.lo) /\ Spread
  BY <1>1, SteadyFacts DEF Visiting
<1>15. Good(Copying(a, from, InputsOf(s)), Keeps(F, Z) \cup InputNames(s))
  BY <1>11, <1>13, <1>14, CopyIn
<1>16. QED
  BY <1>1, <1>6, <1>10, <1>12, <1>15

LEMMA IfEndsGood ==
  ASSUME NEW F, NEW G, NEW Z, NEW f, NEW v, Steady(F, G, Z, f, v), AtOp(f), KindOf(f) = "if", f.stage # "call",
         NEW c \in {1, 2}, CallOf(f, c) = Callee(f)
  PROVE  Good(Copying(Memory, OutputsOf(CallOf(f, c)), OutOf(f)), Keeps(F, Z) \cup Written(f.subgraph, f.op))
<1>1. PICK s : s = CallOf(f, c)
  OBVIOUS
<1>2. PICK g : Visiting(F, Z, f, v, G, g, s)
  BY <1>1, SomeCalling
<1>3. Good(Memory, Keeps(F, Z) \cup OutputNames(s)) /\ Spread
  BY <1>1, SteadyFacts
<1>4. PICK t \in Int : t = g.hi
  BY <1>2 DEF Visiting
<1>5. AllLive(Range(OutOf(f)), t) /\ AllLive(Keeps(F, Z), t) /\ AllLive(OutputNames(s), t)
  BY <1>2, <1>4 DEF Visiting
<1>6. PICK keep : keep = Keeps(F, Z) \cup OutputNames(s)
  OBVIOUS
<1>7. AllLive(keep, t)
  BY <1>5, <1>6, BothLive
<1>8. DOMAIN OutputsOf(s) = DOMAIN OutOf(f)
  <2>1. Len(model[s].outputs) = Len(Ops(f.subgraph)[f.op].outputs)
    BY <1>1, MatchingCalls DEF Takes
  <2>2. s \in Subgraphs /\ model \in Models
    BY <1>1, CalledIs, SteadyFacts
  <2>3. QED
    BY <2>1, <2>2, OperandLists, SubgraphLists
<1>9. Range(OutputsOf(s)) \cap DOMAIN place \subseteq keep
  BY <1>6 DEF OutputsOf, OutputNames
<1>10. Good(Copying(Memory, OutputsOf(s), OutOf(f)), keep \cup Written(f.subgraph, f.op))
  BY <1>3, <1>5, <1>6, <1>7, <1>8, <1>9, CopyOut
<1>11. QED
  BY <1>1, <1>6, <1>10, LessGood

\* A loop: what it holds goes to the condition or to the body.
LEMMA LoopLists ==
  ASSUME NEW F, NEW G, NEW Z, NEW f, NEW v, Steady(F, G, Z, f, v), AtOp(f), KindOf(f) = "while"
  PROVE  /\ DOMAIN InOf(f) = DOMAIN OutOf(f)
         /\ \A c \in {1, 2} : DOMAIN InputsOf(CallOf(f, c)) = DOMAIN OutOf(f)
         /\ DOMAIN OutputsOf(CallOf(f, 1)) = {1} /\ DOMAIN OutputsOf(CallOf(f, 2)) = DOMAIN OutOf(f)
<1>1. PICK n : n = Len(Ops(f.subgraph)[f.op].inputs)
  OBVIOUS
<1>2. /\ Len(Ops(f.subgraph)[f.op].outputs) = n
      /\ Takes(CallOf(f, 1), n, 1) /\ Takes(CallOf(f, 2), n, n)
  BY <1>1, MatchingCalls
<1>3. DOMAIN InOf(f) = 1 .. n /\ DOMAIN OutOf(f) = 1 .. n
  BY <1>1, <1>2, OperandLists
<1>4. model \in Models /\ \A c \in {1, 2} : CallOf(f, c) \in Subgraphs
  BY CalledIs, SteadyFacts
<1>5. PICK a \in Subgraphs : a = CallOf(f, 1)
  BY <1>4
<1>6. PICK b \in Subgraphs : b = CallOf(f, 2)
  BY <1>4
<1>7. Len(model[a].inputs) = n /\ Len(model[a].outputs) = 1 /\ Len(model[b].inputs) = n /\ Len(model[b].outputs) = n
  BY <1>2, <1>5, <1>6 DEF Takes
<1>8. /\ DOMAIN InputsOf(a) = 1 .. n /\ DOMAIN OutputsOf(a) = 1 .. 1
      /\ DOMAIN InputsOf(b) = 1 .. n /\ DOMAIN OutputsOf(b) = 1 .. n
  BY <1>4, <1>7, SubgraphLists
<1>9. 1 .. 1 = {1}
  OBVIOUS
<1>10. QED
  BY <1>3, <1>5, <1>6, <1>8, <1>9

LEMMA WhileStartsGood ==
  ASSUME NEW F, NEW G, NEW Z, NEW f, NEW v, Steady(F, G, Z, f, v), AtOp(f), KindOf(f) = "while",
         NEW c \in {1, 2}, NEW g, Visiting(F, Z, f, v, G, g, CallOf(f, c)), NEW m, Good(m, Keeps(F, Z))
  PROVE  Good(Copying(m, InOf(f), InputsOf(CallOf(f, c))), Keeps(F, Z) \cup InputNames(CallOf(f, c)))
<1>1. PICK s : s = CallOf(f, c)
  OBVIOUS
<1>2. PICK from : from = InOf(f)
  OBVIOUS
<1>3. Range(from) \cap DOMAIN place \subseteq Keeps(F, Z)
  BY <1>2, SteadyFacts, InsKept DEF InOf
<1>4. DOMAIN from = DOMAIN InputsOf(s)
  BY <1>1, <1>2, LoopLists
<1>5. Spread /\ Visiting(F, Z, f, v, G, g, s) /\ AllLive(Keeps(F, Z), g.lo)
  BY <1>1, SteadyFacts DEF Visiting
<1>6. Good(Copying(m, from, InputsOf(s)), Keeps(F, Z) \cup InputNames(s))
  BY <1>3, <1>4, <1>5, CopyIn
<1>7. QED
  BY <1>1, <1>2, <1>6

LEMMA LoopMovesGood ==
  ASSUME NEW F, NEW G, NEW Z, NEW f, NEW v, Steady(F, G, Z, f, v), AtOp(f), KindOf(f) = "while",
         NEW c \in {1, 2}, NEW g, Visiting(F, Z, f, v, G, g, CallOf(f, c)),
         NEW m, Good(m, Keeps(F, Z) \cup Written(f.subgraph, f.op))
  PROVE  Good(Copying(m, OutOf(f), InputsOf(CallOf(f, c))),
              Keeps(F, Z) \cup Written(f.subgraph, f.op) \cup InputNames(CallOf(f, c)))
<1>1. PICK s : s = CallOf(f, c)
  OBVIOUS
<1>2. PICK from : from = OutOf(f)
  OBVIOUS
<1>3. PICK keep : keep = Keeps(F, Z) \cup Written(f.subgraph, f.op)
  OBVIOUS
<1>4. Range(from) = Written(f.subgraph, f.op)
  BY <1>2 DEF OutOf, Written
<1>5. DOMAIN from = DOMAIN InputsOf(s) /\ Range(from) \cap DOMAIN place \subseteq keep
  BY <1>1, <1>2, <1>3, <1>4, LoopLists
<1>6. Visiting(F, Z, f, v, G, g, s) /\ Spread
  BY <1>1, SteadyFacts
<1>7. AllLive(Keeps(F, Z), g.lo) /\ AllLive(Written(f.subgraph, f.op), g.lo)
  BY <1>2, <1>4, <1>6 DEF Visiting
<1>8. AllLive(keep, g.lo)
  BY <1>3, <1>7, BothLive
<1>9. Good(Copying(m, from, InputsOf(s)), keep \cup InputNames(s))
  BY <1>3, <1>5, <1>6, <1>8, CopyIn
<1>10. QED
  BY <1>1, <1>2, <1>3, <1>9

\* The condition has been computed; the first time, the inputs become the outputs.
LEMMA WhileReadGood ==
  ASSUME NEW F, NEW G, NEW Z, NEW f, NEW v, Steady(F, G, Z, f, v), AtOp(f), KindOf(f) = "while", f.stage \in {"first", "again"}
  PROVE  Good(Reading(Memory, {OutputsOf(CallOf(f, 1))[1]}), Keeps(F, Z))
<1>1. PICK s : s = CallOf(f, 1)
  OBVIOUS
<1>2. Callee(f) = s /\ f.stage # "call"
  BY <1>1 DEF Callee, CallOf
<1>3. PICK keep : keep = Keeps(F, Z) \cup OutputNames(s)
  OBVIOUS
<1>4. Good(Memory, keep)
  BY <1>2, <1>3, SteadyFacts
<1>5. 1 \in DOMAIN OutputsOf(s)
  BY <1>1, LoopLists
<1>6. OutputsOf(s)[1] \in OutputNames(s)
  BY <1>5 DEF OutputNames, OutputsOf, Range
<1>7. {OutputsOf(s)[1]} \cap DOMAIN place \subseteq keep
  BY <1>3, <1>6
<1>8. Good(Reading(Memory, {OutputsOf(s)[1]}), keep)
  BY <1>4, <1>7, ReadGood
<1>9. QED
  BY <1>1, <1>3, <1>8, LessGood

LEMMA WhileFirstGood ==
  ASSUME NEW F, NEW G, NEW Z, NEW f, NEW v, Steady(F, G, Z, f, v), AtOp(f), KindOf(f) = "while",
         NEW m, Good(m, Keeps(F, Z))
  PROVE  Good(Copying(Copying(m, InOf(f), InputsOf(CallOf(f, 2))), InOf(f), OutOf(f)),
              Keeps(F, Z) \cup Written(f.subgraph, f.op))
<1>1. PICK s : s = CallOf(f, 2)
  OBVIOUS
<1>2. PICK g : Visiting(F, Z, f, v, G, g, s)
  BY <1>1, SomeCalling
<1>3. PICK n : n = Copying(m, InOf(f), InputsOf(CallOf(f, 2)))
  OBVIOUS
<1>4. PICK keep : keep = Keeps(F, Z) \cup InputNames(s)
  OBVIOUS
<1>5. Good(n, keep)
  BY <1>1, <1>2, <1>3, <1>4, WhileStartsGood
<1>6. PICK t \in Int : t = g.lo
  BY <1>2 DEF Visiting
<1>7. AllLive(Keeps(F, Z), t) /\ AllLive(InputNames(s), t) /\ AllLive(Range(OutOf(f)), t)
  BY <1>2, <1>6 DEF Visiting
<1>8. AllLive(keep, t)
  BY <1>4, <1>7, BothLive
<1>9. PICK from : from = InOf(f)
  OBVIOUS
<1>10. DOMAIN from = DOMAIN OutOf(f) /\ Range(from) \cap DOMAIN place \subseteq keep
  <2>1. Range(from) \cap DOMAIN place \subseteq Keeps(F, Z)
    BY <1>9, SteadyFacts, InsKept DEF InOf
  <2>2. QED
    BY <1>4, <1>9, <2>1, LoopLists
<1>11. Spread
  BY SteadyFacts
<1>12. Good(Copying(n, from, OutOf(f)), keep \cup Written(f.subgraph, f.op))
  BY <1>5, <1>7, <1>8, <1>10, <1>11, CopyOut
<1>13. QED
  BY <1>3, <1>4, <1>9, <1>12, LessGood

\* What the body returns becomes what the loop holds.
LEMMA WhileBodyGood ==
  ASSUME NEW F, NEW G, NEW Z, NEW f, NEW v, Steady(F, G, Z, f, v), AtOp(f), KindOf(f) = "while", f.stage = "body"
  PROVE  Good(Copying(Memory, OutputsOf(CallOf(f, 2)), OutOf(f)), Keeps(F, Z) \cup Written(f.subgraph, f.op))
<1>1. PICK s : s = CallOf(f, 2)
  OBVIOUS
<1>2. PICK g : Visiting(F, Z, f, v, G, g, s)
  BY <1>1, SomeCalling
<1>3. Callee(f) = s /\ f.stage # "call"
  BY <1>1 DEF Callee, CallOf
<1>4. PICK keep : keep = Keeps(F, Z) \cup OutputNames(s)
  OBVIOUS
<1>5. Good(Memory, keep) /\ Spread
  BY <1>3, <1>4, SteadyFacts
<1>6. PICK t \in Int : t = g.hi
  BY <1>2 DEF Visiting
<1>7. AllLive(Keeps(F, Z), t) /\ AllLive(OutputNames(s), t) /\ AllLive(Range(OutOf(f)), t)
  BY <1>2, <1>6 DEF Visiting
<1>8. AllLive(keep, t)
  BY <1>4, <1>7, BothLive
<1>9. DOMAIN OutputsOf(s) = DOMAIN OutOf(f) /\ Range(OutputsOf(s)) \cap DOMAIN place \subseteq keep
  BY <1>1, <1>4, LoopLists DEF OutputsOf, OutputNames
<1>10. Good(Copying(Memory, OutputsOf(s), OutOf(f)), keep \cup Written(f.subgraph, f.op))
  BY <1>5, <1>7, <1>8, <1>9, CopyOut
<1>11. QED
  BY <1>1, <1>4, <1>10, LessGood

\* How the steps of an invocation change the frames.
LEMMA OuterIs ==
  ASSUME NEW F \in Seq(FrameType), F # <<>>, NEW O, O = SubSeq(F, 1, Len(F) - 1)
  PROVE  /\ O \in Seq(FrameType) /\ Len(O) = Len(F) - 1 /\ Len(F) \in Nat \ {0}
         /\ \A k \in 1 .. Len(F) - 1 : O[k] = F[k]
<1>1. PICK n \in Nat : n = Len(F) /\ n > 0
  OBVIOUS
<1>2. \A i \in 1 .. n - 1 : i \in 1 .. n
  BY <1>1
<1>3. O = SubSeq(F, 1, n - 1) /\ n - 1 \in Int
  BY <1>1
<1>4. O \in Seq(FrameType) /\ Len(O) = (IF 1 <= n - 1 THEN n - 1 - 1 + 1 ELSE 0) /\ \A i \in 1 .. n - 1 - 1 + 1 : O[i] = F[1 + i - 1]
  BY <1>1, <1>2, <1>3, SubSeqProperties
<1>5. Len(O) = n - 1 /\ \A i \in 1 .. n - 1 : O[i] = F[i]
  BY <1>1, <1>4
<1>6. QED
  BY <1>1, <1>4, <1>5

LEMMA AppendIs ==
  ASSUME NEW O \in Seq(FrameType), NEW x \in FrameType, NEW E, E = Append(O, x)
  PROVE  /\ E \in Seq(FrameType) /\ Len(E) = Len(O) + 1 /\ E[Len(O) + 1] = x
         /\ \A k \in 1 .. Len(O) : E[k] = O[k]
  BY AppendProperties

NextFrames(F, f) == Append(SubSeq(F, 1, Len(F) - 1), [Frame(f.subgraph) EXCEPT !.op = f.op + 1])
CallFrames(F, f, stage, s) == Append(Append(SubSeq(F, 1, Len(F) - 1), [f EXCEPT !.stage = stage]), Frame(s))

LEMMA NextIs ==
  ASSUME NEW F \in Seq(FrameType), F # <<>>, NEW f \in FrameType, f = F[Len(F)],
         NEW E, E = NextFrames(F, f)
  PROVE  StepsOn(F, E, f)
<1>1. PICK O : O = SubSeq(F, 1, Len(F) - 1)
  OBVIOUS
<1>2. PICK n : n = Len(F)
  OBVIOUS
<1>3. /\ O \in Seq(FrameType) /\ Len(O) = n - 1 /\ n \in Nat \ {0}
      /\ \A k \in 1 .. n - 1 : O[k] = F[k]
  BY <1>1, <1>2, OuterIs
<1>4. PICK x : x = [Frame(f.subgraph) EXCEPT !.op = f.op + 1]
  OBVIOUS
<1>5. x.subgraph = f.subgraph /\ x.op = f.op + 1 /\ x.stage = "call" /\ x \in FrameType
  <2>1. PICK j \in Nat \ {0}, r \in Subgraphs : j = f.op + 1 /\ r = f.subgraph
    BY DEF FrameType
  <2>2. x = [Frame(r) EXCEPT !.op = j]
    BY <1>4, <2>1
  <2>3. x = [subgraph |-> r, op |-> j, stage |-> "call"]
    BY <2>2 DEF Frame
  <2>4. QED
    BY <2>1, <2>3 DEF FrameType
<1>6. E = Append(O, x)
  BY <1>1, <1>4 DEF NextFrames
<1>7. /\ E \in Seq(FrameType) /\ Len(E) = Len(O) + 1 /\ E[Len(O) + 1] = x
      /\ \A k \in 1 .. Len(O) : E[k] = O[k]
  BY <1>3, <1>5, <1>6, AppendIs
<1>8. Len(E) = n /\ E[n] = x /\ \A k \in 1 .. n - 1 : E[k] = F[k]
  BY <1>3, <1>7
<1>9. QED
  BY <1>2, <1>5, <1>7, <1>8 DEF StepsOn

LEMMA CallIs ==
  ASSUME NEW F \in Seq(FrameType), F # <<>>, NEW f \in FrameType, f = F[Len(F)], NEW s \in Subgraphs,
         NEW stage \in {"then", "else", "first", "again", "body"},
         NEW E, E = CallFrames(F, f, stage, s)
  PROVE  Enter(F, E, f, stage, s)
<1>1. PICK O : O = SubSeq(F, 1, Len(F) - 1)
  OBVIOUS
<1>2. PICK n : n = Len(F)
  OBVIOUS
<1>3. /\ O \in Seq(FrameType) /\ Len(O) = n - 1 /\ n \in Nat \ {0}
      /\ \A k \in 1 .. n - 1 : O[k] = F[k]
  BY <1>1, <1>2, OuterIs
<1>4. PICK x, y : x = [f EXCEPT !.stage = stage] /\ y = Frame(s)
  OBVIOUS
<1>5. x.subgraph = f.subgraph /\ x.op = f.op /\ x.stage = stage /\ x \in FrameType
  BY <1>4 DEF FrameType
<1>6. y.subgraph = s /\ y.op = 1 /\ y.stage = "call" /\ y \in FrameType
  BY <1>4 DEF Frame, FrameType
<1>7. PICK P : P = Append(O, x)
  OBVIOUS
<1>8. E = Append(P, y)
  BY <1>1, <1>4, <1>7 DEF CallFrames
<1>9. /\ P \in Seq(FrameType) /\ Len(P) = Len(O) + 1 /\ P[Len(O) + 1] = x
      /\ \A k \in 1 .. Len(O) : P[k] = O[k]
  BY <1>3, <1>5, <1>7, AppendIs
<1>10. /\ E \in Seq(FrameType) /\ Len(E) = Len(P) + 1 /\ E[Len(P) + 1] = y
       /\ \A k \in 1 .. Len(P) : E[k] = P[k]
  BY <1>6, <1>8, <1>9, AppendIs
<1>11. Len(P) = n /\ P[n] = x /\ \A k \in 1 .. n - 1 : P[k] = F[k]
  BY <1>3, <1>9
<1>12. Len(E) = n + 1 /\ E[n + 1] = y /\ E[n] = x /\ \A k \in 1 .. n - 1 : E[k] = F[k]
  BY <1>3, <1>10, <1>11
<1>13. QED
  BY <1>2, <1>5, <1>6, <1>10, <1>12 DEF Enter

LEMMA OuterLeaves ==
  ASSUME NEW F \in Seq(FrameType), F # <<>>, NEW E, E = SubSeq(F, 1, Len(F) - 1)
  PROVE  Leave(F, E) /\ (Len(F) = 1 => E = <<>>)
<1>1. /\ E \in Seq(FrameType) /\ Len(E) = Len(F) - 1 /\ Len(F) \in Nat \ {0}
      /\ \A k \in 1 .. Len(F) - 1 : E[k] = F[k]
  BY OuterIs
<1>2. Len(F) = 1 => Len(E) = 0
  BY <1>1
<1>3. Len(F) = 1 => E = <<>>
  BY <1>1, <1>2, EmptySeq
<1>4. QED
  BY <1>1, <1>3 DEF Leave

\* The innermost subgraph and its operator.
LEMMA TopIs ==
  ASSUME NEW F, NEW f, F = frames, f = F[Len(F)]
  PROVE  /\ Top = f /\ In = InOf(f) /\ Out = OutOf(f) /\ Op.kind = KindOf(f) /\ Outer = SubSeq(F, 1, Len(F) - 1)
         /\ \A c : Op.calls[c] = CallOf(f, c)
         /\ Running => AtOp(f)
<1>1. Top = f /\ Outer = SubSeq(F, 1, Len(F) - 1)
  BY DEF Top, Outer
<1>2. Op = Ops(f.subgraph)[f.op]
  BY <1>1 DEF Op
<1>3. QED
  BY <1>1, <1>2 DEF In, Out, InOf, OutOf, KindOf, CallOf, Running, AtOp

\* An operator leaves the frames E and the memory m.
Leads(E, m) == E = frames' /\ Becomes(m) /\ Resumes(E, m)
Atop(F, G, Z, f, v) == Steady(F, G, Z, f, v) /\ F = frames /\ F \in Seq(FrameType) /\ F # <<>>

LEMMA AtopFacts ==
  ASSUME NEW F, NEW G, NEW Z, NEW f, NEW v, Atop(F, G, Z, f, v)
  PROVE  /\ Steady(F, G, Z, f, v) /\ F \in Seq(FrameType) /\ F # <<>> /\ f \in FrameType /\ f = F[Len(F)]
         /\ Top = f /\ In = InOf(f) /\ Out = OutOf(f) /\ Op.kind = KindOf(f) /\ Outer = SubSeq(F, 1, Len(F) - 1)
         /\ \A c : Op.calls[c] = CallOf(f, c)
         /\ Running => AtOp(f)
<1>1. Steady(F, G, Z, f, v) /\ F = frames /\ F \in Seq(FrameType) /\ F # <<>>
  BY DEF Atop
<1>2. f \in FrameType /\ f = F[Len(F)]
  BY <1>1, SteadyFacts
<1>3. QED
  BY <1>1, <1>2, TopIs

LEMMA LeadsNext ==
  ASSUME NEW F, NEW G, NEW Z, NEW f, NEW v, Atop(F, G, Z, f, v), AtOp(f), NextOp,
         NEW m, Becomes(m), Good(m, Keeps(F, Z) \cup Written(f.subgraph, f.op))
  PROVE  \E E, n : Leads(E, n)
<1>1. PICK E : E = frames'
  OBVIOUS
<1>2. E = NextFrames(F, f)
  BY <1>1, AtopFacts DEF NextOp, NextFrames
<1>3. StepsOn(F, E, f)
  BY <1>2, AtopFacts, NextIs
<1>4. Resumes(E, m)
  BY <1>3, AtopFacts, ResumesNext
<1>5. QED
  BY <1>1, <1>4 DEF Leads

LEMMA LeadsCall ==
  ASSUME NEW F, NEW G, NEW Z, NEW f, NEW v, Atop(F, G, Z, f, v), AtOp(f), KindOf(f) # "kernel",
         NEW c \in {1, 2}, NEW stage \in {"then", "else", "first", "again", "body"}, Call(CallOf(f, c), stage),
         Fits(KindOf(f), stage), c = (IF stage \in {"then", "first", "again"} THEN 1 ELSE 2),
         NEW g, Visiting(F, Z, f, v, G, g, CallOf(f, c)), NEW m, Becomes(m), NEW keep, Good(m, keep),
         Keeps(F, Z) \subseteq keep, InputNames(CallOf(f, c)) \subseteq keep,
         stage \in {"again", "body"} => Written(f.subgraph, f.op) \subseteq keep
  PROVE  \E E, n : Leads(E, n)
<1>1. PICK E : E = frames'
  OBVIOUS
<1>2. PICK s \in Subgraphs : s = CallOf(f, c)
  BY AtopFacts, CalledIs
<1>3. E = CallFrames(F, f, stage, s)
  BY <1>1, <1>2, AtopFacts DEF Call, CallFrames
<1>4. Enter(F, E, f, stage, s)
  <2>1. F \in Seq(FrameType) /\ F # <<>> /\ f \in FrameType /\ f = F[Len(F)]
    BY AtopFacts
  <2>2. QED
    BY <1>3, <2>1, CallIs
<1>5. Calls(f, stage, s)
  BY <1>2 DEF Calls, CallOf, KindOf
<1>6. Steady(F, G, Z, f, v) /\ Visiting(F, Z, f, v, G, g, s) /\ InputNames(s) \subseteq keep
  BY <1>2, AtopFacts
<1>7. Resumes(E, m)
  BY <1>4, <1>5, <1>6, ResumesCall
<1>8. QED
  BY <1>1, <1>7 DEF Leads

LEMMA KernelLeads ==
  ASSUME NEW F, NEW G, NEW Z, NEW f, NEW v, Atop(F, G, Z, f, v), Kernel
  PROVE  \E E, n : Leads(E, n)
<1>1. Running /\ NextOp /\ AtOp(f) /\ Steady(F, G, Z, f, v) /\ Top = f /\ In = InOf(f) /\ Out = OutOf(f)
  BY AtopFacts DEF Kernel
<1>2. PICK names : names = {Scratch(k) : k \in ScratchOf(f.subgraph, f.op)}
  OBVIOUS
<1>3. names = ScratchNames(f.subgraph, f.op)
  BY <1>2 DEF ScratchNames
<1>4. PICK m : m = Reading(Writing(Reading(Memory, Range(InOf(f))),
                      ScratchNames(f.subgraph, f.op) \cup (Range(OutOf(f)) \cup (Range(InOf(f)) \cap Variables))),
                      Range(InOf(f)) \cup ScratchNames(f.subgraph, f.op) \cup (Range(OutOf(f)) \cup (Range(InOf(f)) \cap Variables)))
  OBVIOUS
<1>5. Becomes(m)
  BY <1>1, <1>2, <1>3, <1>4 DEF Kernel
<1>6. Good(m, Keeps(F, Z) \cup Written(f.subgraph, f.op))
  BY <1>1, <1>4, KernelGood
<1>7. QED
  BY <1>1, <1>5, <1>6, LeadsNext

LEMMA IfStartsLeads ==
  ASSUME NEW F, NEW G, NEW Z, NEW f, NEW v, Atop(F, G, Z, f, v), IfStarts
  PROVE  \E E, n : Leads(E, n)
<1>1. AtOp(f) /\ Steady(F, G, Z, f, v) /\ In = InOf(f) /\ KindOf(f) = "if"
  BY AtopFacts DEF IfStarts
<1>2. PICK c \in {1, 2} :
        /\ Becomes(Copying(Reading(Memory, {In[1]}), Tail(In), InputsOf(Op.calls[c])))
        /\ Call(Op.calls[c], IF c = 1 THEN "then" ELSE "else")
  BY DEF IfStarts
<1>3. PICK stage \in {"then", "else", "first", "again", "body"} : stage = IF c = 1 THEN "then" ELSE "else"
  OBVIOUS
<1>4. PICK g : Visiting(F, Z, f, v, G, g, CallOf(f, c))
  BY <1>1, SomeCalling
<1>5. PICK m : m = Copying(Reading(Memory, {InOf(f)[1]}), Tail(InOf(f)), InputsOf(CallOf(f, c)))
  OBVIOUS
<1>6. Op.calls[c] = CallOf(f, c)
  BY AtopFacts
<1>7. Becomes(m) /\ Call(CallOf(f, c), stage)
  BY <1>1, <1>2, <1>3, <1>5, <1>6
<1>8. PICK keep : keep = Keeps(F, Z) \cup InputNames(CallOf(f, c))
  OBVIOUS
<1>9. Good(m, keep)
  BY <1>1, <1>4, <1>5, <1>8, IfStartsGood
<1>10. /\ Fits(KindOf(f), stage) /\ c = (IF stage \in {"then", "first", "again"} THEN 1 ELSE 2)
       /\ stage \notin {"again", "body"} /\ KindOf(f) # "kernel"
  BY <1>1, <1>3 DEF Fits
<1>11. QED
  BY <1>1, <1>4, <1>7, <1>8, <1>9, <1>10, LeadsCall

LEMMA IfEndsLeads ==
  ASSUME NEW F, NEW G, NEW Z, NEW f, NEW v, Atop(F, G, Z, f, v), IfEnds
  PROVE  \E E, n : Leads(E, n)
<1>1. /\ AtOp(f) /\ Steady(F, G, Z, f, v) /\ Out = OutOf(f) /\ Top = f /\ KindOf(f) = "if" /\ f.stage # "call" /\ NextOp
  BY AtopFacts DEF IfEnds
<1>2. f.stage \in {"then", "else"}
  <2>1. FrameOf(f, v, G)
    BY <1>1, SteadyFacts
  <2>2. Fits(KindOf(f), f.stage)
    BY <1>1, <2>1 DEF FrameOf, KindOf
  <2>3. QED
    BY <1>1, <2>2 DEF Fits
<1>3. PICK c \in {1, 2} : c = IF f.stage = "then" THEN 1 ELSE 2
  OBVIOUS
<1>4. CallOf(f, c) = Callee(f)
  BY <1>2, <1>3 DEF CallOf, Callee
<1>5. PICK m : m = Copying(Memory, OutputsOf(CallOf(f, c)), OutOf(f))
  OBVIOUS
<1>6. Op.calls[c] = CallOf(f, c)
  BY AtopFacts
<1>7. Becomes(m)
  BY <1>1, <1>3, <1>5, <1>6 DEF IfEnds
<1>8. Good(m, Keeps(F, Z) \cup Written(f.subgraph, f.op))
  BY <1>1, <1>4, <1>5, IfEndsGood
<1>9. QED
  BY <1>1, <1>7, <1>8, LeadsNext

LEMMA WhileStartsLeads ==
  ASSUME NEW F, NEW G, NEW Z, NEW f, NEW v, Atop(F, G, Z, f, v), WhileStarts
  PROVE  \E E, n : Leads(E, n)
<1>1. AtOp(f) /\ Steady(F, G, Z, f, v) /\ In = InOf(f) /\ KindOf(f) = "while" /\ Op.calls[1] = CallOf(f, 1)
  BY AtopFacts DEF WhileStarts
<1>2. PICK g : Visiting(F, Z, f, v, G, g, CallOf(f, 1))
  BY <1>1, SomeCalling
<1>3. PICK m : m = Copying(Memory, InOf(f), InputsOf(CallOf(f, 1)))
  OBVIOUS
<1>4. Becomes(m) /\ Call(CallOf(f, 1), "first")
  BY <1>1, <1>3 DEF WhileStarts
<1>5. PICK keep : keep = Keeps(F, Z) \cup InputNames(CallOf(f, 1))
  OBVIOUS
<1>6. Good(m, keep)
  BY <1>1, <1>2, <1>3, <1>5, SteadyFacts, WhileStartsGood
<1>7. Fits(KindOf(f), "first") /\ KindOf(f) # "kernel"
  BY <1>1 DEF Fits
<1>8. QED
  BY <1>1, <1>2, <1>4, <1>5, <1>6, <1>7, LeadsCall

LEMMA WhileTestsLeads ==
  ASSUME NEW F, NEW G, NEW Z, NEW f, NEW v, Atop(F, G, Z, f, v), WhileTests
  PROVE  \E E, n : Leads(E, n)
<1>1. /\ AtOp(f) /\ Steady(F, G, Z, f, v) /\ In = InOf(f) /\ Out = OutOf(f) /\ Top = f /\ KindOf(f) = "while"
      /\ f.stage \in {"first", "again"} /\ Op.calls[1] = CallOf(f, 1) /\ Op.calls[2] = CallOf(f, 2)
  BY AtopFacts DEF WhileTests
<1>2. PICK m : m = Reading(Memory, {OutputsOf(CallOf(f, 1))[1]})
  OBVIOUS
<1>3. Good(m, Keeps(F, Z))
  BY <1>1, <1>2, WhileReadGood
<1>4. PICK n : n = IF f.stage = "first" THEN Copying(Copying(m, InOf(f), InputsOf(CallOf(f, 2))), InOf(f), OutOf(f)) ELSE m
  OBVIOUS
<1>5. \/ Becomes(n) /\ NextOp
      \/ Becomes(Copying(n, OutOf(f), InputsOf(CallOf(f, 2)))) /\ Call(CallOf(f, 2), "body")
  BY <1>1, <1>2, <1>4 DEF WhileTests
<1>6. PICK kept : kept = Keeps(F, Z) \cup Written(f.subgraph, f.op)
  OBVIOUS
<1>7. Good(n, kept)
  <2>1. CASE f.stage = "first"
    <3>1. n = Copying(Copying(m, InOf(f), InputsOf(CallOf(f, 2))), InOf(f), OutOf(f))
      BY <1>4, <2>1
    <3>2. QED
      BY <1>1, <1>3, <1>6, <3>1, WhileFirstGood
  <2>2. CASE f.stage = "again"
    <3>1. n = m
      BY <1>4, <2>2
    <3>2. Written(f.subgraph, f.op) \subseteq Keeps(F, Z)
      BY <1>1, <2>2, WrittenKept
    <3>3. kept = Keeps(F, Z)
      BY <1>6, <3>2
    <3>4. QED
      BY <1>3, <3>1, <3>3
  <2>3. QED
    BY <1>1, <2>1, <2>2
<1>8. CASE Becomes(n) /\ NextOp
  BY <1>1, <1>6, <1>7, <1>8, LeadsNext
<1>9. CASE Becomes(Copying(n, OutOf(f), InputsOf(CallOf(f, 2)))) /\ Call(CallOf(f, 2), "body")
  <2>1. PICK x : x = Copying(n, OutOf(f), InputsOf(CallOf(f, 2)))
    OBVIOUS
  <2>2. PICK g : Visiting(F, Z, f, v, G, g, CallOf(f, 2))
    BY <1>1, SomeCalling
  <2>3. PICK keep : keep = kept \cup InputNames(CallOf(f, 2))
    OBVIOUS
  <2>4. Good(x, keep)
    BY <1>1, <1>6, <1>7, <2>1, <2>2, <2>3, LoopMovesGood
  <2>5. Fits(KindOf(f), "body") /\ KindOf(f) # "kernel"
    BY <1>1 DEF Fits
  <2>6. Becomes(x) /\ Call(CallOf(f, 2), "body")
    BY <1>9, <2>1
  <2>7. /\ Keeps(F, Z) \subseteq keep /\ InputNames(CallOf(f, 2)) \subseteq keep
        /\ Written(f.subgraph, f.op) \subseteq keep
    BY <1>6, <2>3
  <2>8. 2 = IF "body" \in {"then", "first", "again"} THEN 1 ELSE 2
    OBVIOUS
  <2>9. QED
    BY <1>1, <2>2, <2>4, <2>5, <2>6, <2>7, <2>8, LeadsCall
<1>10. QED
  BY <1>5, <1>8, <1>9

LEMMA WhileRepeatsLeads ==
  ASSUME NEW F, NEW G, NEW Z, NEW f, NEW v, Atop(F, G, Z, f, v), WhileRepeats
  PROVE  \E E, n : Leads(E, n)
<1>1. /\ AtOp(f) /\ Steady(F, G, Z, f, v) /\ Out = OutOf(f) /\ Top = f /\ KindOf(f) = "while"
      /\ f.stage = "body" /\ Op.calls[1] = CallOf(f, 1) /\ Op.calls[2] = CallOf(f, 2)
  BY AtopFacts DEF WhileRepeats
<1>2. PICK m : m = Copying(Memory, OutputsOf(CallOf(f, 2)), OutOf(f))
  OBVIOUS
<1>3. PICK kept : kept = Keeps(F, Z) \cup Written(f.subgraph, f.op)
  OBVIOUS
<1>4. Good(m, kept)
  BY <1>1, <1>2, <1>3, WhileBodyGood
<1>5. PICK x : x = Copying(m, OutOf(f), InputsOf(CallOf(f, 1)))
  OBVIOUS
<1>6. Becomes(x) /\ Call(CallOf(f, 1), "again")
  BY <1>1, <1>2, <1>5 DEF WhileRepeats
<1>7. PICK g : Visiting(F, Z, f, v, G, g, CallOf(f, 1))
  BY <1>1, SomeCalling
<1>8. PICK keep : keep = kept \cup InputNames(CallOf(f, 1))
  OBVIOUS
<1>9. Good(x, keep)
  BY <1>1, <1>3, <1>4, <1>5, <1>7, <1>8, LoopMovesGood
<1>10. Fits(KindOf(f), "again") /\ KindOf(f) # "kernel"
  BY <1>1 DEF Fits
<1>11. /\ Keeps(F, Z) \subseteq keep /\ InputNames(CallOf(f, 1)) \subseteq keep
       /\ Written(f.subgraph, f.op) \subseteq keep
  BY <1>3, <1>8
<1>12. 1 = IF "again" \in {"then", "first", "again"} THEN 1 ELSE 2
  OBVIOUS
<1>13. QED
  BY <1>1, <1>6, <1>7, <1>9, <1>10, <1>11, <1>12, LeadsCall

\* A subgraph ends: its outputs are there for the operator that called it.
LEMMA EndKeeps ==
  ASSUME NEW F, NEW G, NEW Z, NEW f, NEW v, Atop(F, G, Z, f, v), SubgraphEnds
  PROVE  /\ OutputNames(f.subgraph) \cap DOMAIN place \subseteq held
         /\ Len(F) > 1 => Resumes(Outer, Memory) /\ Outer # <<>>
         /\ Len(F) = 1 => Outer = <<>> /\ f.subgraph = 1
<1>1. Steady(F, G, Z, f, v) /\ F \in Seq(FrameType) /\ F # <<>> /\ f = F[Len(F)] /\ Top = f /\ Outer = SubSeq(F, 1, Len(F) - 1)
  BY AtopFacts
<1>2. ~AtOp(f)
  <2>1. F = frames
    BY DEF Atop
  <2>2. QED
    BY <1>1, <2>1 DEF SubgraphEnds, Running, AtOp
<1>3. Good(Memory, Keeps(F, Z)) /\ OutputNames(f.subgraph) \cap DOMAIN place \subseteq Keeps(F, Z)
  BY <1>1, <1>2, SteadyFacts, OutsKept
<1>4. OutputNames(f.subgraph) \cap DOMAIN place \subseteq held
  BY <1>3 DEF Good, Memory
<1>5. PICK E : E = Outer
  OBVIOUS
<1>6. Leave(F, E) /\ (Len(F) = 1 => E = <<>>)
  BY <1>1, <1>5, OuterLeaves
<1>7. Len(F) = 1 => f.subgraph = 1
  BY <1>1, SteadyFacts DEF Shape
<1>8. ASSUME Len(F) > 1 PROVE Resumes(E, Memory) /\ E # <<>>
  <2>1. Types /\ Shape(F, G, Z) /\ Filled(F, Z, held)
    BY <1>1 DEF Steady, Spread
  <2>2. PICK h : h = held
    OBVIOUS
  <2>3. Shape(E, G, Z) /\ Filled(E, Z, h)
    BY <1>1, <1>4, <1>6, <1>8, <2>1, <2>2, StackPop
  <2>4. torn = {} /\ Variables \subseteq held
    BY <1>1 DEF Steady
  <2>5. E # <<>>
    BY <2>3 DEF Shape
  <2>6. QED
    BY <2>2, <2>3, <2>4, <2>5 DEF Resumes, Memory
<1>9. QED
  BY <1>4, <1>5, <1>6, <1>7, <1>8

\* The names only depend on the model.
LEMMA SameNames ==
  ASSUME model' = model
  PROVE  Variables' = Variables /\ \A s : InputNames(s)' = InputNames(s) /\ OutputNames(s)' = OutputNames(s)
<1>1. Variables' = Variables
  BY DEF Variables, AllTensors, Subgraphs, Tensors, IsVariable
<1>2. \A s : InputNames(s)' = InputNames(s) /\ OutputNames(s)' = OutputNames(s)
  BY DEF InputNames, OutputNames
<1>3. QED
  BY <1>1, <1>2

LEMMA LeadsBehaves ==
  ASSUME TypeInv, NEW E, NEW m, Leads(E, m), phase = "run", phase' = phase,
         UNCHANGED <<place, model, infos, requests>>
  PROVE  Behaves'
<1>1. E = frames' /\ held' = m.held /\ torn' = m.torn /\ m.torn = {} /\ Variables \subseteq m.held
  BY DEF Leads, Becomes, Resumes
<1>2. PICK G, Y : Shape(E, G, Y) /\ Filled(E, Y, m.held)
  BY DEF Leads, Resumes
<1>3. model \in Models /\ infos \in Seq(InfoType)
  BY DEF TypeInv, AllocatorTypes
<1>4. Shape(E, G, Y)'
  BY <1>2, <1>3, SameShape
<1>5. PICK h : h = m.held
  OBVIOUS
<1>6. Filled(E, Y, h)
  BY <1>2, <1>5
<1>7. Filled(E, Y, h)'
  BY <1>3, <1>6, SameShape
<1>8. Filled(E, Y, held)'
  BY <1>1, <1>5, <1>7 DEF Filled
<1>9. frames' # <<>>
  BY <1>1, <1>2 DEF Shape
<1>10. Variables' = Variables
  BY SameNames
<1>11. (\E F, H, Z : F = frames /\ Shape(F, H, Z) /\ Filled(F, Z, held))'
  BY <1>1, <1>4, <1>8
<1>12. phase' = "run"
  OBVIOUS
<1>13. torn' = {} /\ (Variables \subseteq held)'
  BY <1>1, <1>10
<1>14. QED
  BY <1>9, <1>11, <1>12, <1>13 DEF Behaves

\* The state of an invocation.
LEMMA BehavesAtop ==
  ASSUME TypeInv, Working, Spread, Sequenced, Behaves, frames # <<>>
  PROVE  /\ \E F, G, Z, f, v : Atop(F, G, Z, f, v)
         /\ phase = "run" /\ frames \in Seq(FrameType)
<1>1. PICK F, G, Z : F = frames /\ Shape(F, G, Z) /\ Filled(F, Z, held)
  BY DEF Behaves
<1>2. PICK f, v : f = F[Len(F)] /\ v = Z[Len(F)]
  OBVIOUS
<1>3. torn = {} /\ Variables \subseteq held /\ ArenaTypeOK /\ phase = "run" /\ frames \in Seq(FrameType)
  BY DEF Behaves, TypeInv, StatusTypes, Working
<1>4. Steady(F, G, Z, f, v)
  BY <1>1, <1>2, <1>3 DEF Steady
<1>5. Atop(F, G, Z, f, v)
  BY <1>1, <1>3, <1>4 DEF Atop
<1>6. QED
  BY <1>3, <1>5

LEMMA InvokeBehaves ==
  ASSUME TypeInv, Working, Spread, Sequenced, Behaves, InvokeStep
  PROVE  Behaves'
<1>1. frames # <<>>
  BY DEF InvokeStep, Kernel, IfStarts, IfEnds, WhileStarts, WhileTests, WhileRepeats, SubgraphEnds, InvokeFails, Running
<1>2. PICK F, G, Z, f, v : Atop(F, G, Z, f, v)
  BY <1>1, BehavesAtop
<1>3. phase = "run"
  BY <1>1, BehavesAtop
<1>4. UNCHANGED <<place, model, infos, requests>>
  BY OtherSteps DEF TypeInv
<1>5. CASE Kernel \/ IfStarts \/ IfEnds \/ WhileStarts \/ WhileTests \/ WhileRepeats
  <2>1. phase' = phase
    BY <1>5 DEF Kernel, IfStarts, IfEnds, WhileStarts, WhileTests, WhileRepeats, status
  <2>2. \E E, n : Leads(E, n)
    BY <1>2, <1>5, KernelLeads, IfStartsLeads, IfEndsLeads, WhileStartsLeads, WhileTestsLeads, WhileRepeatsLeads
  <2>3. QED
    BY <1>3, <1>4, <2>1, <2>2, LeadsBehaves
<1>6. CASE SubgraphEnds
  <2>1. /\ OutputNames(f.subgraph) \cap DOMAIN place \subseteq held
        /\ Len(F) > 1 => Resumes(Outer, Memory) /\ Outer # <<>>
        /\ Len(F) = 1 => Outer = <<>> /\ f.subgraph = 1
    BY <1>2, <1>6, EndKeeps
  <2>2. /\ frames' = Outer /\ phase' = (IF Len(frames) = 1 THEN "read" ELSE phase) /\ held' = held /\ torn' = torn
    BY <1>6 DEF SubgraphEnds, memory
  <2>3. F = frames /\ Len(F) \in Nat \ {0}
    BY <1>2 DEF Atop
  <2>4. CASE Len(F) = 1
    <3>1. frames' = <<>> /\ phase' = "read"
      BY <2>1, <2>2, <2>3, <2>4
    <3>2. torn' = {} /\ Variables \subseteq held' /\ OutputNames(1) \cap DOMAIN place' \subseteq held'
      BY <1>4, <2>1, <2>2, <2>4 DEF Behaves
    <3>3. Variables' = Variables /\ OutputNames(1)' = OutputNames(1)
      BY <1>4, SameNames
    <3>4. QED
      BY <3>1, <3>2, <3>3 DEF Behaves
  <2>5. CASE Len(F) # 1
    <3>8. PICK n \in Nat \ {0} : n = Len(F)
      BY <2>3
    <3>9. n # 1
      BY <2>5, <3>8
    <3>10. n > 1
      BY <3>9
    <3>6. Len(F) > 1
      BY <3>8, <3>10
    <3>7. phase' = phase
      BY <2>2, <2>3, <2>5
    <3>1. Resumes(Outer, Memory) /\ phase' = phase
      BY <2>1, <3>6, <3>7
    <3>2. PICK E, m : E = Outer /\ m = Memory
      OBVIOUS
    <3>3. Becomes(m)
      BY <2>2, <3>2 DEF Becomes, Memory
    <3>4. Leads(E, m)
      BY <2>2, <3>1, <3>2, <3>3 DEF Leads
    <3>5. QED
      BY <1>3, <1>4, <3>1, <3>4, LeadsBehaves
  <2>6. QED
    BY <2>4, <2>5
<1>7. CASE InvokeFails
  <2>1. frames' = <<>> /\ phase' = "exit" /\ held' = held /\ torn' = torn
    BY <1>7 DEF InvokeFails, memory
  <2>2. torn' = {} /\ Variables \subseteq held'
    BY <2>1 DEF Behaves
  <2>3. Variables' = Variables
    BY <1>4, SameNames
  <2>4. QED
    BY <2>1, <2>2, <2>3 DEF Behaves
<1>8. QED
  BY <1>5, <1>6, <1>7 DEF InvokeStep

\* Variable tensors live always.
LEMMA VariablesLive == \A t : AllLive(Variables, t)
<1>1. \A n \in Variables : IsTensor(n)
  BY DEF Variables, IsTensor, T
<1>2. QED
  BY <1>1 DEF AllLive, Concerned, Lives

LEMMA HeldGood ==
  ASSUME ArenaTypeOK, torn = {}, NEW names, names \cap DOMAIN place \subseteq held
  PROVE  Good(Memory, names)
  BY MemoryNow DEF Good, Memory

LEMMA FillBehaves ==
  ASSUME TypeInv, Working, Spread, Behaves, NEW G, Told(G), FillInput
  PROVE  Behaves'
<1>1. phase = "fill" /\ held' = HeldAfter(held, Range(InputsOf(1))) /\ phase' = "invoke" /\ UNCHANGED <<frames, torn>>
  BY DEF FillInput
<1>2. UNCHANGED <<place, model>> /\ ArenaTypeOK
  BY DEF FillInput, others, allocator, TypeInv
<1>3. frames = <<>> /\ torn = {} /\ Variables \subseteq held /\ Variables \subseteq DOMAIN place
  BY <1>1, <1>2 DEF Working, Behaves, ArenaTypeOK
<1>4. PICK g \in G : g.sub = 1
  BY DEF Told
<1>5. Complete(G) /\ model \in Models /\ infos \in Seq(InfoType)
  BY DEF Told, TypeInv, AllocatorTypes
<1>6. PICK t \in Int : t = g.lo
  BY <1>5, VisitFacts
<1>7. BornBy(InputNames(1), t) /\ LastsTo(InputNames(1), t)
  BY <1>4, <1>5, <1>6, VisitFacts DEF Begun
<1>8. AllLive(InputNames(1), t)
  <2>1. \A n \in InputNames(1) : IsTensor(n)
    BY TensorNames
  <2>2. t <= t
    OBVIOUS
  <2>3. QED
    BY <1>5, <1>7, <2>1, <2>2, LivesAt
<1>9. Good(Memory, Variables) /\ AllLive(Variables, t)
  BY <1>2, <1>3, HeldGood, VariablesLive
<1>10. Good(Writing(Memory, InputNames(1)), Variables \cup InputNames(1))
  BY <1>8, <1>9, WriteGood
<1>11. Writing(Memory, InputNames(1)).held = held'
  BY <1>1 DEF Writing, Memory, InputsOf, InputNames
<1>12. (Variables \cup InputNames(1)) \cap DOMAIN place \subseteq held'
  BY <1>10, <1>11 DEF Good
<1>13. Variables' = Variables /\ InputNames(1)' = InputNames(1)
  BY <1>2, SameNames
<1>14. /\ torn' = {} /\ (Variables \subseteq held)' /\ (InputNames(1) \cap DOMAIN place \subseteq held)'
       /\ frames' = <<>>
  BY <1>1, <1>2, <1>3, <1>12, <1>13
<1>15. QED
  BY <1>1, <1>14 DEF Behaves

\* The first subgraph starts.
LEMMA FirstFrame ==
  ASSUME Types, NEW G, Told(G), InputNames(1) \cap DOMAIN place \subseteq held
  PROVE  \E F, Z : F = <<Frame(1)>> /\ Shape(F, G, Z) /\ Filled(F, Z, held)
<1>1. PICK g \in G : g.sub = 1
  BY DEF Told
<1>2. Complete(G) /\ model \in Models
  BY DEF Told, Types, AllocatorTypes
<1>3. 1 \in Subgraphs /\ Len(Ops(1)) \in Nat
  BY <1>2, ModelFacts
<1>4. PICK f : f = Frame(1)
  OBVIOUS
<1>5. f.subgraph = 1 /\ f.op = 1 /\ f.stage = "call" /\ f \in FrameType
  BY <1>3, <1>4 DEF Frame, FrameType
<1>6. PICK F, Z : F = <<f>> /\ Z = <<g>>
  OBVIOUS
<1>7. F \in Seq(FrameType) /\ Len(F) = 1 /\ DOMAIN F = {1} /\ F[1] = f /\ Z[1] = g /\ F # <<>>
  BY <1>5, <1>6
<1>8. FrameOf(f, g, G)
  <2>1. 1 <= Len(Ops(1)) + 1
    BY <1>3
  <2>2. QED
    BY <1>1, <1>5, <2>1 DEF FrameOf
<1>9. Shape(F, G, Z)
  <2>1. \A k \in DOMAIN F : k = 1 /\ ~(k > 1)
    BY <1>7
  <2>2. \A j, k \in DOMAIN F : ~(j < k)
    BY <1>7
  <2>3. QED
    BY <1>2, <1>5, <1>7, <1>8, <2>1, <2>2 DEF Shape
<1>10. Wanted(f, g) \subseteq InputNames(1)
  <2>1. 1 .. f.op - 1 = {}
    BY <1>5
  <2>2. Carried(f) = InputNames(1)
    BY <1>5, <2>1 DEF Carried
  <2>3. QED
    BY <2>2 DEF Wanted
<1>11. Filled(F, Z, held)
  BY <1>5, <1>7, <1>10 DEF Filled
<1>12. QED
  BY <1>4, <1>6, <1>9, <1>11

LEMMA StartBehaves ==
  ASSUME TypeInv, Behaves, NEW G, Told(G), InvokeSubgraph
  PROVE  Behaves'
<1>1. phase = "run" /\ frames = <<>> /\ frames' = <<Frame(1)>> /\ UNCHANGED <<held, torn, place, model, infos, requests, phase>>
  BY DEF InvokeSubgraph, memory, others, allocator, status
<1>2. Types /\ model \in Models /\ infos \in Seq(InfoType)
  BY DEF TypeInv, Types, AllocatorTypes
<1>3. torn = {} /\ Variables \subseteq held /\ InputNames(1) \cap DOMAIN place \subseteq held
  BY <1>1 DEF Behaves
<1>4. PICK F, Z : F = <<Frame(1)>> /\ Shape(F, G, Z) /\ Filled(F, Z, held)
  BY <1>2, <1>3, FirstFrame
<1>5. PICK m : m = Memory
  OBVIOUS
<1>6. Leads(F, m)
  BY <1>1, <1>3, <1>4, <1>5 DEF Leads, Becomes, Resumes, Memory
<1>7. QED
  BY <1>1, <1>6, LeadsBehaves

LEMMA ReadBehaves ==
  ASSUME TypeInv, Working, Sequenced, Behaves, ReadOutput
  PROVE  Behaves'
<1>1. phase = "read" /\ Becomes(Reading(Memory, {OutputsOf(1)[1]})) /\ phase' \in {"fill", "exit"} /\ UNCHANGED <<frames, model, place>>
  BY DEF ReadOutput, others, allocator
<1>2. frames = <<>> /\ torn = {} /\ Variables \subseteq held /\ OutputNames(1) \cap DOMAIN place \subseteq held
  BY <1>1 DEF Working, Behaves
<1>3. ArenaTypeOK /\ model \in Models
  BY DEF TypeInv, AllocatorTypes
<1>4. PICK out \in Seq(Nat) : out = model[1].outputs /\ out # <<>>
  BY <1>3, ModelFacts DEF Sequenced
<1>5. 1 \in DOMAIN out
  BY <1>4
<1>6. OutputsOf(1)[1] \in OutputNames(1)
  <2>1. OutputsOf(1) = Named(1, out) /\ OutputNames(1) = Range(Named(1, out))
    BY <1>4 DEF OutputsOf, OutputNames
  <2>2. 1 \in DOMAIN Named(1, out)
    BY <1>5 DEF Named
  <2>3. QED
    BY <2>1, <2>2 DEF Range
<1>7. PICK keep : keep = Variables \cup OutputNames(1)
  OBVIOUS
<1>8. Good(Memory, keep)
  <2>1. keep \cap DOMAIN place \subseteq held
    BY <1>2, <1>7
  <2>2. QED
    BY <1>2, <1>3, <2>1, HeldGood
<1>9. Good(Reading(Memory, {OutputsOf(1)[1]}), keep)
  <2>1. {OutputsOf(1)[1]} \cap DOMAIN place \subseteq keep
    BY <1>6, <1>7
  <2>2. QED
    BY <1>8, <2>1, ReadGood
<1>10. torn' = {} /\ keep \cap DOMAIN place \subseteq held'
  BY <1>1, <1>9 DEF Good, Becomes
<1>11. Variables \subseteq DOMAIN place
  BY <1>2, <1>3 DEF ArenaTypeOK
<1>12. Variables' = Variables
  BY <1>1, SameNames
<1>13. (Variables \subseteq held)' /\ frames' = <<>>
  BY <1>1, <1>2, <1>7, <1>10, <1>11, <1>12
<1>14. QED
  BY <1>1, <1>10, <1>13 DEF Behaves

\* When the plan has been carried out, what lives together is apart.
LEMMA SpreadAtLast ==
  ASSUME TypeInv, Fitting, Arranged, OffsetsAgree, Over, todo # <<>> => ~Before
  PROVE  Spread
<1>1. Types /\ Fit
  BY DEF TypeInv, Types, Fitting, Over
<1>2. PlanLaid
  BY DEF Arranged, Laying, Decided, Over
<1>3. Covered
  <2>1. todo # <<>> \/ outcome = "ok" \/ allocated
    <3>1. ASSUME Finishing(todo), todo = <<>> PROVE FALSE
      BY <3>1 DEF Finishing
    <3>2. QED
      BY <3>1 DEF Over
  <2>2. QED
    BY <2>1 DEF Arranged, Covering
<1>4. QED
  BY <1>1, <1>2, <1>3 DEF Arranged, Spread

LEMMA ResetHolds ==
  ASSUME TypeInv, Fitting, Arranged, OffsetsAgree, torn = {}, ResetVariableTensors, outcome' = "ok"
  PROVE  (Variables \subseteq held)'
<1>1. At("reset") /\ EndsAs("ok") /\ Variables \subseteq DOMAIN place /\ held' = HeldAfter(held, Variables) /\ UNCHANGED <<place, model>>
  BY DEF ResetVariableTensors, EndsAs, book
<1>2. AllocatorTypes /\ ArenaTypeOK
  BY DEF TypeInv
<1>3. Finishing(todo)
  <2>1. \A i \in DOMAIN todo : ~(i < 1)
    BY <1>1, <1>2, TodoFacts DEF At
  <2>2. 1 \in DOMAIN todo /\ todo[1].do = "reset"
    BY <1>1, <1>2, TodoFacts DEF At
  <2>3. \A i \in DOMAIN todo : Trailing(todo[i])
    BY <2>1, <2>2 DEF Fitting, PlanLast
  <2>4. QED
    BY <2>2, <2>3 DEF Finishing
<1>4. ~Before
  BY <1>3 DEF Finishing, Before, Trailing
<1>5. Spread
  BY <1>3, <1>4, SpreadAtLast DEF Over
<1>6. Good(Memory, {})
  BY <1>2, HeldGood
<1>7. AllLive({}, 0) /\ AllLive(Variables, 0)
  BY VariablesLive DEF AllLive
<1>8. Good(Writing(Memory, Variables), {} \cup Variables)
  BY <1>5, <1>6, <1>7, WriteGood
<1>9. Writing(Memory, Variables).held = held'
  BY <1>1 DEF Writing, Memory
<1>10. Variables \subseteq held'
  BY <1>1, <1>8, <1>9 DEF Good
<1>11. QED
  BY <1>1, <1>10, SameNames

\* Nothing is torn: the inductive invariant.
Agreed == Sequenced /\ OffsetsAgree
Untorn ==
  /\ ~allocated => torn = {}
  /\ outcome = "ok" /\ Agreed => Variables \subseteq held
  /\ allocated /\ Agreed => Behaves

LEMMA SameAgreed ==
  ASSUME UNCHANGED <<place, model, infos>>
  PROVE  Agreed' = Agreed
<1>1. /\ Subgraphs' = Subgraphs /\ Variables' = Variables /\ \A s : Ops(s)' = Ops(s)
  BY SameNames DEF Subgraphs, Ops
<1>2. OffsetsAgree' <=> OffsetsAgree
  BY <1>1 DEF OffsetsAgree
<1>3. AllTensors' = AllTensors /\ \A t : (IsVariable(t)' <=> IsVariable(t)) /\ (NeedsAllocating(t)' <=> NeedsAllocating(t))
  <2>1. AllTensors' = AllTensors
    BY DEF AllTensors, Subgraphs, Tensors
  <2>2. \A t : (IsVariable(t)' <=> IsVariable(t)) /\ (IsConst(t)' <=> IsConst(t))
    BY DEF IsVariable, IsConst
  <2>3. \A t : Offline(t)' = Offline(t) /\ Bytes(t)' = Bytes(t)
    BY DEF Offline, Bytes
  <2>4. QED
    BY <2>1, <2>2, <2>3 DEF NeedsAllocating
<1>4. \A s, o, i : HasValue(s, o, i)' <=> HasValue(s, o, i)
  BY <1>1, <1>3 DEF HasValue
<1>5. \A s, n, m : Takes(s, n, m)' <=> Takes(s, n, m)
  BY DEF Takes
<1>6. Sequenced' <=> Sequenced
  BY <1>1, <1>4, <1>5 DEF Sequenced
<1>7. QED
  BY <1>2, <1>6 DEF Agreed

LEMMA AllocationUntorn ==
  ASSUME TypeInv, Working, Fitting, Arranged, Untorn, AllocateTensorsStep
  PROVE  Untorn'
<1>1. todo # <<>> /\ outcome = "none" /\ ~allocated
  <2>1. todo # <<>>
    BY DEF AllocateTensorsStep, AllocationStep, StartModelAllocation, AllocateTail, AllocateTempTensor,
       InitScratchBufferData, PrepareNode, RequestScratchBufferInArena, FreeTempTensors, FinishPrepareNodeAllocations,
       AllocateScratchBufferHandles, CreateAllocationInfo, InitializeAllocationInfo, MarkInputs, MarkOperator,
       MarkUses, MarkOutputs, InitMemoryPlanner, AddBuffer, CalculateOffsets, CommitPlan, ReserveHead,
       ResetVariableTensors, At
  <2>2. QED
    BY <2>1 DEF Working
<1>2. torn = {} /\ torn' = torn /\ allocated' = allocated
  BY <1>1 DEF Untorn, AllocateTensorsStep, status
<1>3. ASSUME outcome' = "ok", Agreed' PROVE (Variables \subseteq held)'
  <2>1. ResetVariableTensors
    BY <1>1, <1>3, OnlyResetOk DEF TypeInv, Types
  <2>2. UNCHANGED <<place, model, infos>>
    BY <2>1 DEF ResetVariableTensors, book
  <2>3. OffsetsAgree
    BY <1>3, <2>2, SameAgreed DEF Agreed
  <2>4. QED
    BY <1>2, <1>3, <2>1, <2>3, ResetHolds
<1>4. QED
  BY <1>1, <1>2, <1>3 DEF Untorn

\* A client that works with allocated tensors.
LEMMA ClientBehaves ==
  ASSUME TypeInv, Working, Attended, Spread, Sequenced, Behaves, allocated, NEW G, Told(G), ClientStep
  PROVE  Behaves'
<1>1. phase \notin {"setup", "retry"}
  BY DEF Attended
<1>2. model' = model /\ place' = place
  BY OtherSteps DEF TypeInv
<1>3. CASE GetInput \/ Invoke
  <2>1. phase \in {"input", "invoke"} /\ phase' \in {"undefined", "fill", "exit", "run"} /\ UNCHANGED <<held, torn, frames>>
    BY <1>3 DEF GetInput, Invoke, arena
  <2>2. phase' = "run" => phase = "invoke"
    BY <1>3 DEF GetInput, Invoke
  <2>3. frames = <<>> /\ torn = {} /\ Variables \subseteq held
    BY <2>1 DEF Working, Behaves
  <2>4. phase' = "run" => InputNames(1) \cap DOMAIN place \subseteq held
    BY <2>2 DEF Behaves
  <2>5. Variables' = Variables /\ InputNames(1)' = InputNames(1)
    BY <1>2, SameNames
  <2>6. /\ torn' = {} /\ (Variables \subseteq held)' /\ frames' = <<>>
        /\ phase' = "run" => (InputNames(1) \cap DOMAIN place \subseteq held)'
    BY <1>2, <2>1, <2>3, <2>4, <2>5
  <2>7. QED
    BY <1>3, <2>1, <2>6 DEF Behaves
<1>5. CASE FillInput
  BY <1>5, FillBehaves
<1>6. CASE InvokeSubgraph
  BY <1>6, StartBehaves
<1>7. CASE ReadOutput
  BY <1>7, ReadBehaves
<1>8. ~Returned
  BY <1>1 DEF Returned
<1>9. QED
  BY <1>3, <1>5, <1>6, <1>7, <1>8 DEF ClientStep

\* AllocateTensors has returned.
LEMMA ReturnedUntorn ==
  ASSUME TypeInv, Working, Attended, Hopeless, Untorn, Returned
  PROVE  Untorn'
<1>1. /\ phase \in {"setup", "retry"} /\ allocated' = (outcome = "ok") /\ outcome' = "none"
      /\ phase' = IF phase = "setup" THEN "input" ELSE IF outcome = "ok" THEN "run" ELSE "exit"
      /\ UNCHANGED <<place, held, model, infos, torn, frames>>
  BY DEF Returned, arena, book
<1>2. ~allocated /\ torn = {} /\ torn' = {}
  BY <1>1 DEF Attended, Untorn
<1>3. ASSUME allocated', Agreed' PROVE Behaves'
  <2>1. outcome = "ok" /\ Agreed
    BY <1>1, <1>3, SameAgreed
  <2>2. phase = "setup"
    BY <1>1, <2>1 DEF Hopeless
  <2>3. phase' = "input"
    BY <1>1, <2>2
  <2>4. frames = <<>> /\ Variables \subseteq held
    BY <2>1, <2>2 DEF Working, Untorn
  <2>5. Variables' = Variables
    BY <1>1, SameNames
  <2>6. frames' = <<>> /\ (Variables \subseteq held)'
    BY <1>1, <2>4, <2>5
  <2>7. QED
    BY <1>2, <2>3, <2>6 DEF Behaves
<1>4. QED
  BY <1>1, <1>2, <1>3 DEF Untorn

\* The other steps of the client and those of an invocation.
LEMMA OthersUntorn ==
  ASSUME TypeInv, Working, Fitting, Arranged, Untorn, ClientStep \/ InvokeStep, ~Returned
  PROVE  Untorn'
<1>1. /\ todo = <<>> /\ allocated' = allocated /\ outcome' = outcome /\ UNCHANGED <<place, model, infos, requests>>
  BY OtherSteps DEF TypeInv
<1>2. Attended /\ Timing /\ Hopeless
  BY DEF Arranged, Retrying
<1>3. phase \notin {"setup", "retry"} \/ (torn' = torn /\ outcome # "ok")
  <2>1. InvokeStep => frames # <<>>
    BY DEF InvokeStep, Kernel, IfStarts, IfEnds, WhileStarts, WhileTests, WhileRepeats, SubgraphEnds, InvokeFails, Running
  <2>2. InvokeStep => phase = "run"
    BY <2>1 DEF Working
  <2>3. ClientStep => phase \in {"input", "fill", "invoke", "run", "read"}
    BY DEF ClientStep, GetInput, FillInput, Invoke, InvokeSubgraph, ReadOutput
  <2>4. QED
    BY <2>2, <2>3
<1>4. outcome' # "ok"
  BY <1>1, <1>3 DEF Working
<1>5. ASSUME ~allocated PROVE torn' = torn
  <2>1. phase \notin {"run", "read"}
    BY <1>2, <1>5 DEF Attended
  <2>2. frames = <<>>
    BY <2>1 DEF Working
  <2>3. ~InvokeStep
    BY <2>2 DEF InvokeStep, Kernel, IfStarts, IfEnds, WhileStarts, WhileTests, WhileRepeats, SubgraphEnds, InvokeFails, Running
  <2>4. QED
    BY <2>1, <2>3 DEF ClientStep, GetInput, FillInput, Invoke, InvokeSubgraph, ReadOutput
<1>6. ASSUME allocated, Agreed PROVE Behaves'
  <2>1. Behaves /\ Sequenced /\ OffsetsAgree
    BY <1>6 DEF Untorn, Agreed
  <2>2. Spread
    BY <1>1, <1>6, <2>1, SpreadAtLast DEF Over
  <2>3. PICK G : Told(G)
    BY <1>2, <1>6 DEF Timing
  <2>4. CASE ClientStep
    BY <1>2, <1>6, <2>1, <2>2, <2>3, <2>4, ClientBehaves
  <2>5. CASE InvokeStep
    BY <2>1, <2>2, <2>5, InvokeBehaves
  <2>6. QED
    BY <2>4, <2>5
<1>7. Agreed' = Agreed
  BY <1>1, SameAgreed
<1>8. QED
  BY <1>1, <1>4, <1>5, <1>6, <1>7 DEF Untorn

LEMMA NextUntorn ==
  ASSUME TypeInv, Reserving, Working, Fitting, Arranged, Untorn, [Next]_vars
  PROVE  Untorn'
<1>1. CASE AllocateTensorsStep
  BY <1>1, AllocationUntorn
<1>2. CASE Returned
  BY <1>2, ReturnedUntorn DEF Arranged, Retrying
<1>3. CASE (ClientStep \/ InvokeStep) /\ ~Returned
  BY <1>3, OthersUntorn
<1>4. CASE UNCHANGED vars
  <2>1. UNCHANGED <<place, model, infos, requests, held, torn, frames, phase, allocated, outcome>>
    BY <1>4 DEF vars, arena, allocator, book, status
  <2>2. Agreed' = Agreed /\ Variables' = Variables /\ InputNames(1)' = InputNames(1) /\ OutputNames(1)' = OutputNames(1)
    BY <2>1, SameAgreed, SameNames
  <2>3. Behaves => Behaves'
    <3>1. ASSUME frames # <<>>, Behaves PROVE (\E F, G, Z : F = frames /\ Shape(F, G, Z) /\ Filled(F, Z, held))'
      <4>1. PICK F, G, Z : F = frames /\ Shape(F, G, Z) /\ Filled(F, Z, held)
        BY <3>1 DEF Behaves
      <4>2. PICK h : h = held
        OBVIOUS
      <4>3. model \in Models /\ infos \in Seq(InfoType)
        BY DEF TypeInv, AllocatorTypes
      <4>4. Shape(F, G, Z)' /\ Filled(F, Z, h)'
        BY <2>1, <4>1, <4>2, <4>3, SameShape
      <4>5. Filled(F, Z, held)'
        BY <2>1, <4>2, <4>4 DEF Filled
      <4>6. QED
        BY <2>1, <4>1, <4>4, <4>5
    <3>2. QED
      BY <2>1, <2>2, <3>1 DEF Behaves
  <2>4. QED
    BY <2>1, <2>2, <2>3 DEF Untorn
<1>5. QED
  BY <1>1, <1>2, <1>3, <1>4 DEF Next

LEMMA InitUntorn == Init => Untorn
<1> SUFFICES ASSUME Init PROVE Untorn
  OBVIOUS
<1>1. torn = {} /\ allocated = FALSE /\ outcome = "none"
  BY DEF Init, AllocatorInit
<1>2. QED
  BY <1>1 DEF Untorn

(* What a kernel, a copy between subgraphs or the client reads is what was *)
(* last written there, through nested subgraphs, loops and invocations, as *)
(* long as the operators of the model are in order and its given offsets   *)
(* agree with the lifetimes.                                               *)
THEOREM NeverTorn == Spec => []NothingTorn
<1> DEFINE Inv == TypeInv /\ Reserving /\ Working /\ Fitting /\ Arranged /\ Untorn
<1>1. Init => Inv
  BY InitTypes, InitReserving, InitFitting, InitArranged, InitUntorn
<1>2. Inv /\ [Next]_vars => Inv'
  <2> SUFFICES ASSUME Inv, [Next]_vars PROVE Inv'
    OBVIOUS
  <2>1. TypeInv' /\ Reserving'
    BY NextTypes
  <2>2. Working' /\ Fitting'
    BY NextFitting
  <2>3. Arranged'
    BY NextArranged
  <2>4. Untorn'
    BY NextUntorn
  <2>5. QED
    BY <2>1, <2>2, <2>3, <2>4
<1>3. Inv => NothingTorn
  BY DEF NothingTorn, Untorn, Agreed, Behaves
<1> HIDE DEF Inv
<1>4. QED
  BY <1>1, <1>2, <1>3, PTL DEF Spec
=============================================================================
