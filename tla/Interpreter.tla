----------------------------- MODULE Interpreter -----------------------------
(***************************************************************************)
(* MicroInterpreter and its graph (micro_interpreter.cc, micro_graph.cc),  *)
(* with the control flow kernels if.cc and while.cc, and the keyword       *)
(* spotting loop that uses them (kws_helper.cc).  An invocation is a stack *)
(* of subgraphs whose operators write and read their buffers.              *)
(***************************************************************************)
EXTENDS MicroAllocator

VARIABLES
  phase,       \* where _loop stands
  allocated,   \* tensors_allocated_
  failed,      \* initialization_status_ is kTfLiteError
  frames,      \* the subgraphs being invoked, the innermost last
  torn         \* history: the buffers that were read after being overwritten

status == <<phase, allocated, failed>>
vars == <<arena, planner, allocator, status, frames, torn>>
memory == <<held, torn>>
others == <<size, head, tail, temp, place, planner, allocator>>

Init ==
  /\ AllocatorInit
  /\ phase = "setup"
  /\ allocated = FALSE
  /\ failed = FALSE
  /\ frames = <<>>
  /\ torn = {}

-----------------------------------------------------------------------------
(* Reading and writing the buffers; m is what is held and what is torn.    *)

Memory == [held |-> held, torn |-> torn]
Becomes(m) == held' = m.held /\ torn' = m.torn
Reading(m, names) == [m EXCEPT !.torn = @ \cup {n \in names : n \in DOMAIN place /\ n \notin m.held}]
Writing(m, names) == [m EXCEPT !.held = HeldAfter(@, names)]

\* memcpy from each tensor of one list to its match in the other.  What the
\* copies spoil they may spoil before it is copied.
Copying(m, from, to) ==
  LET n == Writing(Reading(m, Range(from)), {to[k] : k \in DOMAIN from})
  IN  Reading(n, Range(from) \ Range(to))

-----------------------------------------------------------------------------
(* MicroGraph::InvokeSubgraph.                                             *)

Top == frames[Len(frames)]
Outer == SubSeq(frames, 1, Len(frames) - 1)
Op == Ops(Top.subgraph)[Top.op]
Running == frames # <<>> /\ Top.op \in DOMAIN Ops(Top.subgraph)
In == Named(Top.subgraph, Op.inputs)
Out == Named(Top.subgraph, Op.outputs)
InputsOf(s) == Named(s, model[s].inputs)
OutputsOf(s) == Named(s, model[s].outputs)

Frame(s) == [subgraph |-> s, op |-> 1, stage |-> "call"]
Call(s, stage) == frames' = Append(Append(Outer, [Top EXCEPT !.stage = stage]), Frame(s))
NextOp == frames' = Append(Outer, [Frame(Top.subgraph) EXCEPT !.op = Top.op + 1])

Kernel ==
  /\ Running /\ Op.kind = "kernel"
  /\ LET scratch == {Scratch(k) : k \in ScratchOf(Top.subgraph, Top.op)}
         in == Range(In)
         out == Range(Out) \cup (in \cap Variables)
     IN  Becomes(Reading(Writing(Reading(Memory, in), scratch \cup out), in \cup scratch \cup out))
  /\ NextOp
  /\ UNCHANGED <<others, status>>

\* if.cc: calls[1] is the then, calls[2] the else branch; input 1 is the condition.
IfStarts ==
  /\ Running /\ Op.kind = "if" /\ Top.stage = "call"
  /\ \E branch \in {1, 2} :
       /\ Becomes(Copying(Reading(Memory, {In[1]}), Tail(In), InputsOf(Op.calls[branch])))
       /\ Call(Op.calls[branch], IF branch = 1 THEN "then" ELSE "else")
  /\ UNCHANGED <<others, status>>
IfEnds ==
  /\ Running /\ Op.kind = "if" /\ Top.stage # "call"
  /\ Becomes(Copying(Memory, OutputsOf(Op.calls[IF Top.stage = "then" THEN 1 ELSE 2]), Out))
  /\ NextOp
  /\ UNCHANGED <<others, status>>

\* while.cc: calls[1] is the condition, calls[2] the body.
WhileStarts ==
  /\ Running /\ Op.kind = "while" /\ Top.stage = "call"
  /\ Becomes(Copying(Memory, In, InputsOf(Op.calls[1])))
  /\ Call(Op.calls[1], "first")
  /\ UNCHANGED <<others, status>>

\* The condition has been computed: first it moves the inputs on.
WhileTests ==
  /\ Running /\ Op.kind = "while" /\ Top.stage \in {"first", "again"}
  /\ LET m == Reading(Memory, {OutputsOf(Op.calls[1])[1]})
         n == IF Top.stage = "first" THEN Copying(Copying(m, In, InputsOf(Op.calls[2])), In, Out) ELSE m
     IN  \/ Becomes(n) /\ NextOp
         \/ Becomes(Copying(n, Out, InputsOf(Op.calls[2]))) /\ Call(Op.calls[2], "body")
  /\ UNCHANGED <<others, status>>
WhileRepeats ==
  /\ Running /\ Op.kind = "while" /\ Top.stage = "body"
  /\ Becomes(Copying(Copying(Memory, OutputsOf(Op.calls[2]), Out), Out, InputsOf(Op.calls[1])))
  /\ Call(Op.calls[1], "again")
  /\ UNCHANGED <<others, status>>

SubgraphEnds ==
  /\ frames # <<>> /\ ~Running
  /\ frames' = Outer
  /\ phase' = IF Len(frames) = 1 THEN "read" ELSE phase
  /\ UNCHANGED <<memory, others, allocated, failed>>

\* A kernel returns an error, or a control flow operator's copy finds tensors of
\* different sizes (kernel_util.cc:219), and so does every caller.
InvokeFails ==
  /\ Running
  /\ frames' = <<>>
  /\ phase' = "exit"
  /\ UNCHANGED <<memory, others, allocated, failed>>

InvokeStep ==
  \/ Kernel \/ IfStarts \/ IfEnds \/ WhileStarts \/ WhileTests \/ WhileRepeats
  \/ SubgraphEnds \/ InvokeFails

-----------------------------------------------------------------------------
(* _loop of kws_helper.cc and the interpreter's functions it calls.        *)

AllocateTensorsStep == AllocationStep /\ UNCHANGED <<status, frames, torn>>

\* AllocateTensors has returned; _loop does not look at its status, Invoke does.
Returned ==
  /\ phase \in {"setup", "retry"}
  /\ outcome \in {"ok", "error", "null"}
  /\ failed' = (failed \/ outcome = "null")
  /\ allocated' = (outcome = "ok")
  /\ phase' = IF phase = "setup" THEN "input" ELSE IF outcome = "ok" THEN "run" ELSE "exit"
  /\ outcome' = "none"
  /\ UNCHANGED <<arena, planner, book, todo, short, frames, torn>>

\* input(0): an array that was never allocated is read all the same.
GetInput ==
  /\ phase = "input"
  /\ IF Inputs \notin DOMAIN place
     THEN phase' = "undefined"
     ELSE phase' = IF Input(1) \in DOMAIN place THEN "fill" ELSE "exit"
  /\ UNCHANGED <<arena, planner, allocator, allocated, failed, frames, torn>>

\* The client has one input; a model with more has them all filled.
FillInput ==
  /\ phase = "fill"
  /\ held' = HeldAfter(held, Range(InputsOf(1)))
  /\ phase' = "invoke"
  /\ UNCHANGED <<others, allocated, failed, frames, torn>>

Invoke ==
  /\ phase = "invoke"
  /\ IF failed
     THEN phase' = "exit" /\ UNCHANGED todo
     ELSE IF allocated THEN phase' = "run" /\ UNCHANGED todo ELSE phase' = "retry" /\ todo' = <<Step("start")>>
  /\ UNCHANGED <<arena, planner, book, outcome, short, allocated, failed, frames, torn>>

InvokeSubgraph ==
  /\ phase = "run" /\ frames = <<>>
  /\ frames' = <<Frame(1)>>
  /\ UNCHANGED <<memory, others, status>>

\* The output is read, and the loop goes on or is left.
ReadOutput ==
  /\ phase = "read"
  /\ Becomes(Reading(Memory, {OutputsOf(1)[1]}))
  /\ phase' \in {"fill", "exit"}
  /\ UNCHANGED <<others, allocated, failed, frames>>

ClientStep == Returned \/ GetInput \/ FillInput \/ Invoke \/ InvokeSubgraph \/ ReadOutput

Next == AllocateTensorsStep \/ ClientStep \/ InvokeStep
Spec == Init /\ [][Next]_vars /\ WF_vars(AllocateTensorsStep)

-----------------------------------------------------------------------------
(* Properties.                                                             *)

TypeOK ==
  /\ ArenaTypeOK /\ PlannerTypeOK
  /\ model \in Models
  /\ outcome \in {"none", "ok", "error", "null", "undefined"}
  /\ \A k \in DOMAIN requests : requests[k] \in [bytes: Nat, subgraph: Subgraphs, node: Nat]
  /\ phase \in {"setup", "input", "fill", "invoke", "retry", "run", "read", "exit", "undefined"}
  /\ allocating \in BOOLEAN /\ allocated \in BOOLEAN /\ failed \in BOOLEAN /\ short \in BOOLEAN
  /\ \A k \in DOMAIN frames : frames[k].subgraph \in Subgraphs

\* Tensor i of subgraph s holds a value before operator o: the weights, the
\* state, an input, or the output of an operator before.
HasValue(s, o, i) ==
  \/ <<s, i>> \notin AllTensors \/ IsVariable(<<s, i>>) \/ ~NeedsAllocating(<<s, i>>)
  \/ i \in Range(model[s].inputs)
  \/ \E p \in 1 .. o - 1 : i \in Range(Ops(s)[p].outputs)

\* A subgraph that takes n tensors and returns m.
Takes(s, n, m) == Len(model[s].inputs) = n /\ Len(model[s].outputs) = m

\* The operators are in execution order (schema.fbs), and a control flow operator
\* fits the subgraphs that it calls, as its prepare and its copies test.
Sequenced ==
  /\ \A s \in Subgraphs :
       /\ \A i \in Range(model[s].outputs) : HasValue(s, Len(Ops(s)) + 1, i)
       /\ \A o \in DOMAIN Ops(s) :
            LET op == Ops(s)[o]
                n == Len(op.inputs)
            IN  /\ \A i \in Range(op.inputs) : HasValue(s, o, i)
                /\ op.kind = "if" => n > 0 /\ \A c \in {1, 2} : Takes(op.calls[c], n - 1, Len(op.outputs))
                /\ op.kind = "while" => Len(op.outputs) = n /\ Takes(op.calls[1], n, 1) /\ Takes(op.calls[2], n, n)
  /\ model[1].outputs # <<>>

\* The offsets that the model gives separate what lives together; a variable
\* tensor with a given offset shares its memory with nothing.
OffsetsAgree ==
  \A j, k \in DOMAIN infos :
    LET a == infos[j]
        b == infos[k]
    IN  /\ a.name # b.name
        /\ \/ a.name \in Variables
           \/ a.offline # Online /\ b.offline # Online /\ a.first <= b.last /\ b.first <= a.last
        => ~Meet(place[a.name], place[b.name])

(* What a kernel, a copy between subgraphs or the client reads is what was *)
(* last written there: no input, scratch buffer or output is overwritten   *)
(* while it is needed, through nested subgraphs, loops and invocations;    *)
(* variable tensors keep their value from one invocation to the next.      *)
(* There are two exceptions: a model whose operators read what none has    *)
(* written, and one whose given offsets do not agree with the lifetimes    *)
(* that the code computes, which end a variable tensor at its last use.    *)
NothingTorn == torn = {} \/ ~Sequenced \/ ~OffsetsAgree

(* When AllocateTensors has succeeded, the head and the tail are apart and *)
(* every planned buffer lies inside the head, aligned if the given offsets *)
(* are.  Every persistent structure is as it was written, unless the arena *)
(* was short: then a temporary buffer that a kernel takes after a          *)
(* persistent one may have been written over it, and nobody notices.       *)
AlignedOffsets == \A k \in DOMAIN infos : infos[k].offline = Online \/ infos[k].offline % BufferAlign = 0
AllocatedIsWhole ==
  allocated =>
    /\ head <= tail
    /\ \A k \in DOMAIN infos :
         LET x == place[infos[k].name] IN x.hi <= head /\ (AlignedOffsets => x.lo % BufferAlign = 0)
    /\ short \/ /\ {n \in DOMAIN place : n[1] \notin {"tensor", "scratch"}} \subseteq held
                /\ requests # <<>> => Handles \in held

(* What C++ does not define (a null pointer used, a garbled structure      *)
(* read, the planner's tables outside the arena) happens only in an arena  *)
(* that is too small: a request was refused, or no aligned address was     *)
(* left between the temporary and the persistent buffers.  There are two   *)
(* other ways: a model with a subgraph that nobody calls and that asks for *)
(* scratch buffers, which no lifetime is ever given to, and a model whose  *)
(* given offsets leave a variable tensor of a later subgraph to the        *)
(* planner: AllocateVariables takes another tensor's offset for its own.   *)
ClosedUnderCalls(reached) ==
  \A s \in reached : \A o \in DOMAIN Ops(s) : Range(Ops(s)[o].calls) \subseteq reached
Called(s) == \A reached \in SUBSET Subgraphs : 1 \in reached /\ ClosedUnderCalls(reached) => s \in reached
UndefinedOnlyWhenShort ==
  (outcome = "undefined" \/ phase = "undefined") =>
    \/ short
    \/ \E k \in DOMAIN requests : ~Called(requests[k].subgraph)
    \/ \E t \in AllTensors : IsVariable(t) /\ Offline(t) = Online /\ ~OnlineVariable(t)

(* AllocateTensors ends: so do the planner's searches through its list.    *)
AllocateReturns == todo # <<>> ~> todo = <<>>
=============================================================================
