---------------------------- MODULE MCInterpreter ----------------------------
(* Small models for Interpreter: the keyword model's shape, both control   *)
(* flow kernels, variable tensors, offsets given by the model, a kernel    *)
(* that asks for more scratch buffers than one may, one that takes a       *)
(* temporary buffer after a persistent one, one that does not free its     *)
(* temporary buffer, a state that is planned over, and operators out of    *)
(* order.                                                                  *)
EXTENDS Interpreter

Tensor(bytes) == [bytes |-> bytes, kind |-> "plain", offline |-> Online]
Weights == [bytes |-> 2, kind |-> "const", offline |-> Online]
State(bytes, offset) == [bytes |-> bytes, kind |-> "variable", offline |-> offset]
TensorAt(offset, bytes) == [bytes |-> bytes, kind |-> "plain", offline |-> offset]

Temp == [call |-> "temp", bytes |-> 0]
Extra(bytes) == [call |-> "persistent", bytes |-> bytes]
Ask(bytes) == [call |-> "scratch", bytes |-> bytes]
FreeAll == [call |-> "free", bytes |-> 0]

OpOf(kind, in, out, calls, params, data, prepare) ==
  [kind |-> kind, inputs |-> in, outputs |-> out, calls |-> calls, params |-> params, data |-> data,
   prepare |-> prepare]
Simple(in, out) == OpOf("kernel", in, out, <<>>, 0, 0, <<>>)
Convolution(in, out) ==
  OpOf("kernel", in, out, <<>>, 1, 2, <<Temp, Temp, Extra(1), FreeAll, Temp, FreeAll, Ask(3)>>)
Softmax(in, out) == OpOf("kernel", in, out, <<>>, 0, 1, <<Temp, FreeAll, Ask(1), Ask(2)>>)
If(in, out, then, else) == OpOf("if", in, out, <<then, else>>, 1, 1, <<Temp, FreeAll>>)
While(in, out, cond, body) == OpOf("while", in, out, <<cond, body>>, 1, 1, <<>>)
Graph(tensors, in, out, ops) == [tensors |-> tensors, inputs |-> in, outputs |-> out, ops |-> ops]

Speech ==
  <<Graph(<<Tensor(4), Weights, Tensor(3), Tensor(2), Tensor(2)>>, <<1>>, <<5>>,
          <<Simple(<<1>>, <<3>>), Convolution(<<3, 2>>, <<4>>), Softmax(<<4>>, <<5>>)>>)>>
Branches ==
  <<Graph(<<Tensor(1), Tensor(2), Tensor(2), Tensor(2), Tensor(2)>>, <<1, 2>>, <<5, 4>>,
          <<Simple(<<2>>, <<3>>), If(<<1, 3>>, <<4>>, 2, 3), If(<<1, 4>>, <<5>>, 3, 2)>>),
    Graph(<<Tensor(2), Tensor(3), Tensor(2)>>, <<1>>, <<3>>,
          <<Softmax(<<1>>, <<2>>), Simple(<<2>>, <<3>>)>>),
    Graph(<<Tensor(2)>>, <<1>>, <<1>>, <<>>)>>
Loop ==
  <<Graph(<<Tensor(2), Tensor(1), Tensor(2), Tensor(1)>>, <<1, 2>>, <<3, 4>>,
          <<While(<<1, 2>>, <<3, 4>>, 2, 3)>>),
    Graph(<<Tensor(2), Tensor(1), Tensor(1)>>, <<1, 2>>, <<3>>, <<Softmax(<<1>>, <<3>>)>>),
    Graph(<<Tensor(2), Tensor(1), Tensor(3), Tensor(2), Tensor(1)>>, <<1, 2>>, <<4, 5>>,
          <<Simple(<<1, 2>>, <<3>>), Simple(<<3>>, <<4>>), Simple(<<2>>, <<5>>)>>)>>
Recurrent ==
  <<Graph(<<Tensor(2), State(3, Online), Tensor(3), Tensor(2), State(2, 4)>>, <<1>>, <<4>>,
          <<Softmax(<<1, 2>>, <<3>>), Simple(<<3, 5>>, <<4>>)>>)>>
Given ==
  <<Graph(<<TensorAt(2, 2), Tensor(3), TensorAt(8, 2), TensorAt(2, 1)>>, <<1>>, <<4>>,
          <<Convolution(<<1>>, <<2>>), Simple(<<2>>, <<3>>), Simple(<<3>>, <<4>>)>>)>>
Asking(n, in, out) == OpOf("kernel", in, out, <<>>, 0, 0, [k \in 1 .. n |-> Ask(1)])
Scratchy ==
  <<Graph(<<Tensor(1), Tensor(1), Tensor(1), Tensor(1), Tensor(1)>>, <<1>>, <<5>>,
          <<Asking(2, <<1>>, <<2>>), Asking(2, <<2>>, <<3>>), Asking(2, <<3>>, <<4>>), Asking(1, <<4>>, <<5>>)>>)>>
Greedy ==
  <<Graph(<<Tensor(1), Tensor(1)>>, <<1>>, <<2>>, <<Asking(3, <<1>>, <<2>>)>>)>>

Uncalled ==
  <<Graph(<<Tensor(1), Tensor(2)>>, <<1>>, <<2>>, <<Simple(<<1>>, <<2>>)>>),
    Graph(<<Tensor(1), Tensor(1)>>, <<1>>, <<2>>, <<Softmax(<<1>>, <<2>>)>>)>>

Shifted ==
  <<Graph(<<TensorAt(0, 1), TensorAt(2, 2), TensorAt(6, 2)>>, <<1, 2>>, <<3>>, <<If(<<1, 2>>, <<3>>, 2, 2)>>),
    Graph(<<State(2, Online), Tensor(2), Tensor(2)>>, <<2>>, <<3>>, <<Simple(<<2, 1>>, <<3>>)>>)>>

Heavy ==
  <<Graph(<<Tensor(1), TensorAt(3, 1)>>, <<1>>, <<2>>,
          <<OpOf("kernel", <<1>>, <<2>>, <<>>, 0, 0,
                 [k \in 1 .. 10 |-> Temp] \o <<FreeAll, Extra(2), Temp, FreeAll>>)>>)>>

Careless ==
  <<Graph(<<Tensor(1), Tensor(2), Tensor(1)>>, <<1>>, <<3>>,
          <<OpOf("kernel", <<1>>, <<2>>, <<>>, 0, 0, <<Extra(1), Temp>>), Simple(<<2>>, <<3>>)>>)>>

\* The output is planned over the state, whose life ends with its last use.
Clash ==
  <<Graph(<<Tensor(1), State(2, 0), Tensor(1), Tensor(4)>>, <<1>>, <<4>>,
          <<Simple(<<1, 2>>, <<3>>), Simple(<<3>>, <<4>>)>>)>>
Unordered ==
  <<Graph(<<Tensor(1), Tensor(2), Tensor(2)>>, <<1>>, <<3>>, <<Simple(<<2>>, <<3>>), Simple(<<1>>, <<2>>)>>)>>

MCModels ==
  {Speech, Branches, Loop, Recurrent, Given, Scratchy, Greedy, Uncalled, Shifted, Heavy, Careless, Clash,
   Unordered}
MCSizeOf ==
  [SingleArenaBufferAllocator |-> 1, GreedyMemoryPlanner |-> 1, MicroAllocator |-> 1,
   MicroBuiltinDataAllocator |-> 1, SubgraphAllocations |-> 1, TfLiteEvalTensor |-> 1,
   NodeAndRegistration |-> 1, TfLiteTensor |-> 2, pointer |-> 1, size_t |-> 1, AllocationInfo |-> 1,
   PlannerEntry |-> 1, ScratchBufferRequest |-> 1, ScratchBufferHandle |-> 1]
MCArenaSizes == 0 .. 90
=============================================================================
