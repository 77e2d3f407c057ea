---------------------------- MODULE MicroAllocator ----------------------------
(***************************************************************************)
(* MicroInterpreter::AllocateTensors and all it calls: micro_allocator.cc, *)
(* micro_allocation_info.cc, and from micro_interpreter.cc and             *)
(* micro_graph.cc what prepares a model.  It is a list of requests to the  *)
(* arena in the order of the code, which the planner's steps interrupt.    *)
(***************************************************************************)
EXTENDS Arena, GreedyPlanner, SequencesExt

CONSTANTS
  Models,      \* the models that may be loaded
  SizeOf,      \* the size of each struct the arena holds, by its name
  MaxScratch   \* kMaxScratchBuffersPerOp

VARIABLES
  model,       \* the model, as its flatbuffer describes it
  todo,        \* what AllocateTensors has still to do
  outcome,     \* its status, "none" while it runs; "undefined" is not C++ any more
  requests,    \* the scratch buffer requests
  infos,       \* AllocationInfo of the buffers that the planner is to place
  scope,       \* allocation_scope_count_
  allocating,  \* model_is_allocating_
  maxHead,     \* max_head_buffer_usage_
  short        \* history: a request (or to free what a kernel has not freed) was
               \* refused, or no aligned room was left

allocator == <<model, todo, outcome, requests, infos, scope, allocating, maxHead, short>>

-----------------------------------------------------------------------------
(* What a model is: the flatbuffer's subgraphs, of which the first is the  *)
(* one that is invoked, their tensors and their operators.                 *)

TensorType ==
  [bytes: Nat, kind: {"plain", "const", "variable"}, offline: Nat \cup {Online}]
CallType == [call: {"temp", "persistent", "scratch", "free"}, bytes: Nat]
OperatorType ==
  [kind: {"kernel", "if", "while"}, inputs: Seq(Nat), outputs: Seq(Nat), calls: Seq(Nat),
   params: Nat, data: Nat, prepare: Seq(CallType)]
GraphType ==
  [tensors: Seq(TensorType), inputs: Seq(Nat), outputs: Seq(Nat), ops: Seq(OperatorType)]
SizeNames ==
  {"SingleArenaBufferAllocator", "GreedyMemoryPlanner", "MicroAllocator", "MicroBuiltinDataAllocator",
   "SubgraphAllocations", "TfLiteEvalTensor", "NodeAndRegistration", "TfLiteTensor", "pointer", "size_t",
   "AllocationInfo", "PlannerEntry", "ScratchBufferRequest", "ScratchBufferHandle"}

\* The control flow operators call two subgraphs that there are.
ASSUME ModelAssumption ==
  /\ \A m \in Models :
       /\ m \in Seq(GraphType) /\ m # <<>>
       /\ \A s \in DOMAIN m : \A o \in DOMAIN m[s].ops :
            LET op == m[s].ops[o] IN
            /\ \A c \in DOMAIN op.calls : op.calls[c] \in DOMAIN m
            /\ op.kind # "kernel" => Len(op.calls) = 2
  /\ SizeOf \in [SizeNames -> Nat] /\ SizeOf.PlannerEntry # 0
  /\ MaxScratch \in Nat

Subgraphs == DOMAIN model
Ops(s) == model[s].ops
Tensors(s) == DOMAIN model[s].tensors
AllTensors == UNION {{s} \X Tensors(s) : s \in Subgraphs}
T(s, i) == <<"tensor", s, i>>
IsTensor(n) == n[1] = "tensor"
Named(s, list_) == [k \in DOMAIN list_ |-> T(s, list_[k])]
IsVariable(t) == model[t[1]].tensors[t[2]].kind = "variable"
IsConst(t) == model[t[1]].tensors[t[2]].kind = "const"
Offline(t) == model[t[1]].tensors[t[2]].offline
Bytes(t) == model[t[1]].tensors[t[2]].bytes

Scratch(k) == <<"scratch", k, 0>>
Request(k) == <<"request", k, 0>>
Handles == <<"handles", 0, 0>>
Info == <<"temp", 0, 1>>
PlannerArena == <<"temp", 0, 2>>
Inputs == <<"inputs", 0, 0>>
Input(k) == <<"input", k, 0>>
ScratchOf(s, o) == {k \in DOMAIN requests : requests[k].subgraph = s /\ requests[k].node = o}

-----------------------------------------------------------------------------
(* What AllocateTensors asks for.                                          *)

Persistent(name, bytes, align, null) ==
  [do |-> "persistent", name |-> name, bytes |-> bytes, align |-> align, null |-> null]
Temporary(name, bytes, null) == [do |-> "temp", name |-> name, bytes |-> bytes, null |-> null]
Step(do) == [do |-> do]
OpStep(do, s, o, bytes) == [do |-> do, subgraph |-> s, op |-> o, bytes |-> bytes]

\* The items for every operator and for every tensor, subgraph after subgraph.
PerOp(Items(_, _)) == FlattenSeq([s \in Subgraphs |-> FlattenSeq([o \in DOMAIN Ops(s) |-> Items(s, o)])])
PerTensor(Items(_)) == FlattenSeq([s \in Subgraphs |-> FlattenSeq([i \in Tensors(s) |-> Items(<<s, i>>)])])
OnlyIf(condition, item) == IF condition THEN <<item>> ELSE <<>>

\* The constructor: MicroAllocator::Create.  AllocateTensors follows.
Construct ==
  <<Persistent(<<"arena", 0, 0>>, SizeOf.SingleArenaBufferAllocator, 1, "undefined"),
    Persistent(<<"planner", 0, 0>>, SizeOf.GreedyMemoryPlanner, 1, "undefined"),
    Persistent(<<"allocator", 0, 0>>, SizeOf.MicroAllocator, 1, "undefined"),
    Step("start")>>

StartModel ==
  <<Persistent(<<"builtin", 0, 0>>, SizeOf.MicroBuiltinDataAllocator, 1, "undefined"),
    Step("requests"),
    Persistent(<<"subgraphs", 0, 0>>, SizeOf.SubgraphAllocations * Len(model), 1, "null")>>
  \o [s \in Subgraphs |-> Persistent(<<"eval", s, 0>>, SizeOf.TfLiteEvalTensor * Len(model[s].tensors), 1, "null")]
  \o [s \in Subgraphs |-> Persistent(<<"nodes", s, 0>>, SizeOf.NodeAndRegistration * Len(Ops(s)), 1, "null")]

\* PrepareNodeAndRegistrationDataFromFlatbuffer, then InitSubgraphs.  An
\* operator whose init returns null is met again when it is prepared.
InitOps ==
  PerOp(LAMBDA s, o : OnlyIf(Ops(s)[o].params # 0, Persistent(<<"params", s, o>>, Ops(s)[o].params, 1, "error")))
  \o PerOp(LAMBDA s, o : OnlyIf(Ops(s)[o].data # 0, Persistent(<<"data", s, o>>, Ops(s)[o].data, BufferAlign, "later")))

\* What a kernel's prepare does: it takes temporary tensors, persistent and
\* scratch buffers in an order of its own, and frees the temporary ones.
KernelCall(s, o, k) ==
  LET call == Ops(s)[o].prepare[k] IN
  CASE call.call = "temp" -> Temporary(<<"temp", o, 10 * s + k>>, SizeOf.TfLiteTensor, "undefined")
    [] call.call = "persistent" -> Persistent(<<"extra", o, 10 * s + k>>, call.bytes, BufferAlign, "undefined")
    [] OTHER -> OpStep(call.call, s, o, call.bytes)
PrepareOps ==
  PerOp(LAMBDA s, o : <<OpStep("prepare", s, o, 0)>>
                      \o [k \in DOMAIN Ops(s)[o].prepare |-> KernelCall(s, o, k)]
                      \o <<OpStep("finish", s, o, 0)>>)

\* offline_planner_offsets has those of every subgraph, one after the other;
\* AllocateVariables looks tensor i of any subgraph up at i.
Offsets == PerTensor(LAMBDA t : <<Offline(t)>>)
OnlineVariable(t) == IsVariable(t) /\ Offsets[t[2]] = Online
FinishModel ==
  <<Step("handles"), Temporary(<<"temp", 0, 0>>, SizeOf.size_t * Len(model), "error"), Step("info")>>
  \o PerTensor(LAMBDA t : OnlyIf(OnlineVariable(t), Persistent(T(t[1], t[2]), Bytes(t), BufferAlign, "error")))
  \o <<Step("lifetimes"), Step("plan")>>

PersistentTensors(all, one, indices) ==
  <<Persistent(all, SizeOf.pointer * Len(indices), BufferAlign, "error")>>
  \o [k \in DOMAIN indices |-> Persistent(<<one, k, 0>>, SizeOf.TfLiteTensor, 1, "error")]
AllocateTensors ==
  StartModel \o InitOps \o PrepareOps \o FinishModel
  \o PersistentTensors(Inputs, "input", model[1].inputs)
  \o PersistentTensors(<<"outputs", 0, 0>>, "output", model[1].outputs)
  \o <<Step("reset")>>

-----------------------------------------------------------------------------
(* How a step of the list ends.                                            *)

At(do) == todo # <<>> /\ todo[1].do = do
Rest == todo' = Tail(todo) /\ UNCHANGED outcome
EndsAs(result) == todo' = <<>> /\ outcome' = result
Refused(result) == EndsAs(result) /\ short' = TRUE
\* Whether an aligned address is left between temp and tail.
Watch == short' = (short \/ tail' < AlignUp(temp', BufferAlign))
book == <<model, requests, infos, scope, allocating, maxHead>>
RequestSlots == {Request(k) : k \in DOMAIN requests}

\* The next step reads the named buffers.  Garbage in them is undefined behaviour.
Garbled(names) == names \ held # {}
ReadsGarbage(names) == Garbled(names) /\ EndsAs("undefined") /\ UNCHANGED <<book, arena, planner, short>>

StartModelAllocation ==
  /\ At("start")
  /\ IF allocating
     THEN EndsAs("null") /\ UNCHANGED allocating
     ELSE todo' = AllocateTensors /\ allocating' = TRUE /\ UNCHANGED outcome
  /\ UNCHANGED <<model, requests, infos, scope, maxHead, short, arena, planner>>

\* All but a variable tensor is filled at once.  A refused request: the caller
\* of a "later" one goes on with a null pointer.
AllocateTail ==
  /\ At("persistent")
  /\ LET r == todo[1] IN
     \/ AllocatePersistentBuffer(r.name, r.bytes, r.align, ~IsTensor(r.name)) /\ Rest /\ Watch
     \/ /\ ~PersistentFits(r.bytes, r.align)
        /\ IF r.null = "later"
           THEN Rest /\ short' = TRUE /\ Free({r.name})
           ELSE Refused(r.null) /\ UNCHANGED <<place, held>>
        /\ UNCHANGED <<size, head, tail, temp>>
  /\ UNCHANGED <<book, planner>>

AllocateTempTensor ==
  /\ At("temp")
  /\ LET r == todo[1] IN
     \/ AllocateTemp(r.name, r.bytes, 1, TRUE) /\ Rest /\ Watch
     \/ ~TempFits(r.bytes, 1) /\ Refused(r.null) /\ UNCHANGED arena
  /\ UNCHANGED <<book, planner>>

-----------------------------------------------------------------------------
(* Scratch buffer requests: records at the head while a model is prepared. *)

\* Room for the requests there are, and those of the next operator.
RequestBytes(n) == SizeOf.ScratchBufferRequest * (n + MaxScratch)

InitScratchBufferData ==
  /\ At("requests")
  /\ requests' = <<>>
  /\ IF ResizeFits(RequestBytes(0))
     THEN ResizeTo(RequestBytes(0)) /\ Rest /\ UNCHANGED short
     ELSE Refused("null") /\ UNCHANGED <<head, temp>>
  /\ Free(RequestSlots)
  /\ UNCHANGED <<size, tail, model, infos, scope, allocating, maxHead, planner>>

\* What every step works with, and the structures of one operator.
Structures == {<<"arena", 0, 0>>, <<"allocator", 0, 0>>, <<"subgraphs", 0, 0>>}
NodeOf(s, o) ==
  {<<"nodes", s, 0>>, <<"eval", s, 0>>} \cup (IF Ops(s)[o].data = 0 THEN {} ELSE {<<"data", s, o>>})
              \cup (IF Ops(s)[o].params = 0 THEN {} ELSE {<<"params", s, o>>})

\* Here an operator's init that returned null shows.
PrepareNode ==
  /\ At("prepare")
  /\ LET read == Structures \cup NodeOf(todo[1].subgraph, todo[1].op) IN
     \/ ReadsGarbage(read)
     \/ ~Garbled(read) /\ Rest /\ UNCHANGED <<book, arena, planner, short>>

\* Mutant: only the latest of an operator's requests gets its node.
UnassignedLast == {k \in DOMAIN requests : requests[k].node = 0 /\ k = Len(requests)}
\* kUnassignedScratchBufferRequestIndex
Unassigned == {k \in DOMAIN requests : requests[k].node = 0}

RequestScratchBufferInArena ==
  /\ At("scratch")
  /\ \/ ReadsGarbage(RequestSlots)
     \/ /\ ~Garbled(RequestSlots)
        /\ Cardinality(Unassigned) >= MaxScratch
        /\ Refused("error")
        /\ UNCHANGED <<book, arena>>
     \/ /\ ~Garbled(RequestSlots)
        /\ Cardinality(Unassigned) < MaxScratch
        /\ LET k == Len(requests) + 1 IN
           HandOut(Request(k), SizeOf.ScratchBufferRequest * (k - 1), SizeOf.ScratchBufferRequest * k, TRUE)
        /\ requests' = Append(requests, [bytes |-> todo[1].bytes, subgraph |-> todo[1].subgraph, node |-> 0])
        /\ Rest
        /\ UNCHANGED <<size, head, tail, temp, model, infos, scope, allocating, maxHead, short>>
  /\ UNCHANGED planner

FreeTempTensors ==
  /\ At("free")
  /\ \/ ReadsGarbage(Temps)
     \/ ~Garbled(Temps) /\ Free(Temps) /\ Rest
        /\ UNCHANGED <<size, head, tail, temp, book, short, planner>>

\* PrepareSubgraphs does not look at the status: a head that cannot grow, or
\* a temporary buffer that was not freed, goes unnoticed.
FinishPrepareNodeAllocations ==
  /\ At("finish")
  /\ \/ Temps = {} /\ ReadsGarbage(RequestSlots)
     \/ /\ Temps # {}
        /\ short' = TRUE
        /\ Rest
        /\ UNCHANGED <<arena, requests>>
     \/ /\ Temps = {} /\ ~Garbled(RequestSlots)
        /\ requests' = [k \in DOMAIN requests |->
                          IF k \in Unassigned THEN [requests[k] EXCEPT !.node = todo[1].op] ELSE requests[k]]
        /\ IF tail >= RequestBytes(Len(requests))
           THEN ResizeTo(RequestBytes(Len(requests))) /\ UNCHANGED short
           ELSE temp' = head /\ short' = TRUE /\ UNCHANGED head
        /\ Rest
        /\ UNCHANGED <<size, tail, place, held>>
  /\ UNCHANGED <<model, infos, scope, allocating, maxHead, planner>>

\* Nobody tests the pointer to the handles.
AllocateScratchBufferHandles ==
  /\ At("handles")
  /\ LET bytes == SizeOf.ScratchBufferHandle * Len(requests) IN
     \/ requests = <<>> /\ UNCHANGED <<arena, short>>
     \/ requests # <<>> /\ AllocatePersistentBuffer(Handles, bytes, 1, FALSE) /\ Watch
     \/ /\ requests # <<>> /\ ~PersistentFits(bytes, 1)
        /\ short' = TRUE
        /\ Free({Handles})
        /\ UNCHANGED <<size, head, tail, temp>>
  /\ Rest
  /\ UNCHANGED <<book, planner>>

-----------------------------------------------------------------------------
(* AllocationInfoBuilder: when each buffer is used.                        *)

NeedsAllocating(t) ==
  \/ ~IsConst(t) /\ ~IsVariable(t) /\ Bytes(t) # 0
  \/ IsVariable(t) /\ Offline(t) # Online

\* The tensors of all subgraphs, then the scratch buffers; -1 is
\* kUninitializedLifetime.
NewInfo(name, bytes, offline) ==
  [name |-> name, bytes |-> bytes, first |-> -1, last |-> -1, offline |-> offline]
AllocationInfo ==
  PerTensor(LAMBDA t : OnlyIf(NeedsAllocating(t), NewInfo(T(t[1], t[2]), Bytes(t), Offline(t))))
  \o [k \in DOMAIN requests |-> NewInfo(Scratch(k), requests[k].bytes, Online)]

InfoBytes == SizeOf.AllocationInfo * (Cardinality(AllTensors) + Len(requests))
CreateAllocationInfo ==
  /\ At("info")
  /\ \/ AllocateTemp(Info, InfoBytes, 1, FALSE) /\ Rest /\ Watch
     \/ ~TempFits(InfoBytes, 1) /\ Refused("error") /\ UNCHANGED arena
  /\ UNCHANGED <<book, planner>>

\* UpdateFirstCreated and UpdateLastUsed.
Created(all, names, now) ==
  [k \in DOMAIN all |->
     IF all[k].name \in names /\ all[k].first = -1 THEN [all[k] EXCEPT !.first = now] ELSE all[k]]
\* Mutant: a later use does not prolong the life.
UsedOnce(all, names, now) ==
  [k \in DOMAIN all |->
     IF all[k].name \in names /\ all[k].last = -1 THEN [all[k] EXCEPT !.last = now] ELSE all[k]]
Used(all, names, now) ==
  [k \in DOMAIN all |-> IF all[k].name \in names THEN [all[k] EXCEPT !.last = now] ELSE all[k]]

\* MarkAllocationLifetimes of subgraph s; a called one opens a new scope.
Mark(s, opens) == [do |-> "mark", subgraph |-> s, opens |-> opens]
ScratchNames(s, o) == {Scratch(k) : k \in ScratchOf(s, o)}

InitializeAllocationInfo ==
  /\ At("lifetimes")
  /\ LET read == Structures \cup {<<"eval", s, 0>> : s \in Subgraphs} IN
     \/ ReadsGarbage(read)
     \/ /\ ~Garbled(read)
        /\ infos' = AllocationInfo
        /\ scope' = 0
        /\ held' = HeldAfter(held, {Info})
        /\ todo' = <<Mark(1, 0)>> \o Tail(todo)
        /\ UNCHANGED <<outcome, size, head, tail, temp, place, model, requests, allocating, maxHead, short, planner>>

\* A step of the marking: it reads the named buffers and leaves the scope, what
\* is marked, and items to do next.
Marks(read, now, marked, items) ==
  \/ ReadsGarbage(read \cup {Info})
  \/ /\ ~Garbled(read \cup {Info})
     /\ scope' = now
     /\ infos' = marked
     /\ todo' = items \o Tail(todo)
     /\ UNCHANGED <<outcome, model, requests, allocating, maxHead, short, arena, planner>>

\* The inputs live from the start of a subgraph; its operators follow.
MarkInputs ==
  /\ At("mark")
  /\ LET s == todo[1].subgraph
         inputs == Range(Named(s, model[s].inputs))
         now == scope + todo[1].opens
     IN  Marks({}, now, Used(Created(infos, inputs, now), inputs, now),
               [o \in DOMAIN Ops(s) |-> OpStep("op", s, o, 0)] \o <<OpStep("outputs", s, 0, 0)>>)

\* Every operator has a scope.  Its scratch buffers live from there to the end
\* of the subgraphs that it calls (MarkSubgraphLifetimesIfNecessary).
MarkOperator ==
  /\ At("op")
  /\ LET s == todo[1].subgraph
         o == todo[1].op
         calls == Ops(s)[o].calls
     IN  Marks(RequestSlots, scope + 1,
               Created(infos, Range(Named(s, Ops(s)[o].outputs)) \cup ScratchNames(s, o), scope + 1),
               [c \in DOMAIN calls |-> Mark(calls[c], 1)] \o <<OpStep("used", s, o, 0)>>)

MarkUses ==
  /\ At("used")
  /\ LET s == todo[1].subgraph
         o == todo[1].op
     IN  Marks(RequestSlots, scope,
               Used(infos, Range(Named(s, Ops(s)[o].inputs \o Ops(s)[o].outputs)) \cup ScratchNames(s, o), scope),
               <<>>)

MarkOutputs ==
  /\ At("outputs")
  /\ LET outputs == Range(Named(todo[1].subgraph, model[todo[1].subgraph].outputs))
     IN  Marks({}, scope, Used(Created(infos, outputs, scope), outputs, scope), <<>>)

-----------------------------------------------------------------------------
(* CommitStaticMemoryPlan: the planner decides where the buffers lie.      *)

Requirement(i) ==
  [size |-> AlignUp(i.bytes, BufferAlign), first |-> i.first, last |-> i.last, offline |-> i.offline]

\* The planner works in what is left between temp and tail.  When tail is
\* below temp that is a huge number, and the planner's tables lie anywhere.
PlannerRoom == AlignDown(tail, BufferAlign) - AlignUp(temp, BufferAlign)
InitMemoryPlanner ==
  /\ At("plan")
  /\ \/ /\ PlannerRoom >= 0
        /\ AllocateTemp(PlannerArena, PlannerRoom, BufferAlign, FALSE)
        /\ InitPlanner(PlannerRoom \div SizeOf.PlannerEntry)
        /\ todo' = <<Step("commit"), Step("reserve")>> \o Tail(todo)
        /\ UNCHANGED <<outcome, short>>
     \/ /\ PlannerRoom < 0
        /\ IF tail < TempAt(BufferAlign) THEN EndsAs("undefined") /\ UNCHANGED short ELSE Refused("error")
        /\ UNCHANGED <<arena, planner>>
  /\ UNCHANGED book

\* A scratch buffer of a subgraph that nobody calls: nothing but
\* needs_allocating and the lifetime was ever written to its AllocationInfo.
Unmarked(i) == i.name[1] = "scratch" /\ i.first = -1

\* CreatePlan: the next AllocationInfo goes to the planner.
AddBuffer ==
  /\ At("commit") /\ bufferCount < Len(infos)
  /\ LET i == infos[bufferCount + 1] IN
     \/ ReadsGarbage({Info})
     \/ ~Garbled({Info}) /\ Unmarked(i) /\ EndsAs("undefined") /\ UNCHANGED <<book, arena, planner, short>>
     \/ /\ ~Garbled({Info}) /\ ~Unmarked(i)
        /\ \/ Add(Requirement(i)) /\ held' = HeldAfter(held, {PlannerArena}) /\ UNCHANGED <<todo, outcome, short>>
           \/ bufferCount >= max /\ Refused("error") /\ UNCHANGED <<held, planner>>
        /\ UNCHANGED <<size, head, tail, temp, place, book>>

CalculateOffsets ==
  /\ At("commit") /\ bufferCount = Len(infos)
  /\ PlacingStep
  /\ UNCHANGED <<arena, book, todo, outcome, short>>

Planners == IF infos = <<>> THEN {Info} ELSE {Info, PlannerArena}
Evals == {<<"eval", s, 0>> : s \in Subgraphs} \cup (IF requests = <<>> THEN {} ELSE {Handles})
PlannedNames == {infos[k].name : k \in DOMAIN infos}
Planning(n) ==
  LET k == CHOOSE i \in DOMAIN infos : infos[i].name = n
  IN  [lo |-> offsets[k], hi |-> offsets[k] + infos[k].bytes]

CommitPlan ==
  /\ At("commit") /\ bufferCount = Len(infos) /\ Planned
  /\ \/ ReadsGarbage(Planners)
     \/ ~Garbled(Planners) /\ Handles \in Evals \ DOMAIN place
        /\ EndsAs("undefined") /\ UNCHANGED <<arena, book, short, planner>>
     \/ /\ ~Garbled(Planners) /\ Evals \subseteq DOMAIN place
        /\ place' = [n \in PlannedNames \cup DOMAIN place |-> IF n \in PlannedNames THEN Planning(n) ELSE place[n]]
        /\ held' = HeldAfter(held, Evals) \ PlannedNames
        /\ Rest
        /\ UNCHANGED <<size, head, tail, temp, book, short, planner>>

\* The temporary buffers that a kernel took and never freed.
KernelTemps == {n \in Temps : n[2] # 0}

\* FinishModelAllocation's end: the planner's temporary buffers go, which is
\* refused as long as a kernel has some, and the head is made as large as the
\* largest plan so far.
ReserveHead ==
  /\ At("reserve")
  /\ \/ /\ KernelTemps # {}
        /\ Free(Temps \ KernelTemps)
        /\ Refused("error")
        /\ UNCHANGED <<head, temp, allocating, maxHead>>
     \/ /\ KernelTemps = {}
        /\ \E n \in {0} \cup {End(b) : b \in Buffers} :
             Reaches(n) /\ maxHead' = (IF maxHead < n THEN n ELSE maxHead)
        /\ Free(Temps \cup RequestSlots)
        /\ IF tail >= maxHead'
           THEN ResizeTo(maxHead') /\ allocating' = FALSE /\ Rest /\ UNCHANGED short
           ELSE ResizeTo(0) /\ Refused("error") /\ UNCHANGED allocating
  /\ UNCHANGED <<size, tail, model, requests, infos, scope, planner>>

Variables == {T(t[1], t[2]) : t \in {u \in AllTensors : IsVariable(u)}}
ResetVariableTensors ==
  /\ At("reset")
  /\ held' = HeldAfter(held, Variables)
  /\ EndsAs(IF Variables \subseteq DOMAIN place THEN "ok" ELSE "undefined")
  /\ UNCHANGED <<size, head, tail, temp, place, book, short, planner>>

AllocationStep ==
  \/ StartModelAllocation \/ AllocateTail \/ AllocateTempTensor
  \/ InitScratchBufferData \/ PrepareNode \/ RequestScratchBufferInArena
  \/ FreeTempTensors \/ FinishPrepareNodeAllocations
  \/ AllocateScratchBufferHandles \/ CreateAllocationInfo \/ InitializeAllocationInfo
  \/ MarkInputs \/ MarkOperator \/ MarkUses \/ MarkOutputs \/ InitMemoryPlanner \/ AddBuffer \/ CalculateOffsets \/ CommitPlan \/ ReserveHead
  \/ ResetVariableTensors

AllocatorInit ==
  /\ ArenaInit
  /\ PlannerInit
  /\ model \in Models
  /\ todo = Construct
  /\ outcome = "none"
  /\ requests = <<>>
  /\ infos = <<>>
  /\ scope = 0
  /\ allocating = FALSE
  /\ maxHead = 0
  /\ short = FALSE
=============================================================================
