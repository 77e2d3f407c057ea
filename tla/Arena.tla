-------------------------------- MODULE Arena --------------------------------
(***************************************************************************)
(* The memory arena of TensorFlow Lite Micro                               *)
(* (single_arena_buffer_allocator.cc).  The head grows up and is resized   *)
(* as one buffer; temporary buffers follow it; persistent buffers grow     *)
(* down from the tail.  Which buffers still hold what was written to them  *)
(* is what the code cannot see and the properties are about.               *)
(***************************************************************************)
EXTENDS Integers, FiniteSets

CONSTANTS
  ArenaSizes,   \* the sizes of tensor_arena
  BufferAlign   \* MicroArenaBufferAlignment()

ASSUME ArenaAssumption == ArenaSizes \subseteq Nat /\ BufferAlign \in Nat \ {0}

VARIABLES
  size,   \* buffer_tail_ - buffer_head_
  head,   \* head_; this and the next two are offsets from buffer_head_
  tail,   \* tail_
  temp,   \* temp_
  place,  \* where each buffer lies
  held    \* the buffers that hold what was last written to them

arena == <<size, head, tail, temp, place, held>>

\* What lies behind the arena: it belongs to others.
Behind == <<"behind", 0, 0>>

IsTemp(n) == n[1] = "temp"
Temps == {n \in DOMAIN place : IsTemp(n)}

ArenaTypeOK ==
  /\ size \in ArenaSizes
  /\ head \in Int /\ tail \in Int /\ temp \in Int
  /\ \A n \in DOMAIN place : place[n] \in [lo: Int, hi: Int]
  /\ held \subseteq DOMAIN place

ArenaInit ==
  /\ size \in ArenaSizes
  /\ head = 0
  /\ tail = size
  /\ temp = 0
  /\ place = [n \in {Behind} |-> [lo |-> size, hi |-> 2 * size + 100]]
  /\ held = {Behind}

AlignUp(p, a) == ((p + a - 1) \div a) * a
AlignDown(p, a) == (p \div a) * a

Meet(x, y) == x.lo < y.hi /\ y.lo < x.hi

\* held after the named buffers are written, in an order nobody knows: what
\* else lies there is spoiled, and so are those of them that overlap.
HeldAfter(was, names) ==
  LET written == names \cap DOMAIN place
  IN  {m \in was \cup written : \A n \in written \ {m} : ~Meet(place[m], place[n])}

Without(names) == [n \in DOMAIN place \ names |-> place[n]]

\* Buffer n is handed out at [lo, hi), and its owner fills it at once or not yet.
HandOut(n, lo, hi, fill) ==
  LET x == [lo |-> lo, hi |-> hi] IN
  /\ place' = [m \in DOMAIN place \cup {n} |-> IF m = n THEN x ELSE place[m]]
  /\ held' = IF fill THEN {m \in held \ {n} : ~Meet(place[m], x)} \cup {n} ELSE held \ {n}

-----------------------------------------------------------------------------
(* Persistent buffers.                                                     *)

PersistentAt(bytes, align) == AlignDown(tail - bytes, align)
\* Mutant: only the start of the arena is respected.
PersistentFitsAnywhere(bytes, align) == PersistentAt(bytes, align) >= 0
PersistentFits(bytes, align) == PersistentAt(bytes, align) >= head

AllocatePersistentBuffer(n, bytes, align, fill) ==
  /\ PersistentFits(bytes, align)
  /\ tail' = PersistentAt(bytes, align)
  /\ HandOut(n, tail', tail' + bytes, fill)
  /\ UNCHANGED <<size, head, temp>>

-----------------------------------------------------------------------------
(* Temporary buffers.  The room left is a difference of two addresses in   *)
(* a size_t: when the tail is below the temporary buffers it is huge.      *)

TempAt(align) == AlignUp(temp, align)
TempFits(bytes, align) == tail < TempAt(align) \/ tail - TempAt(align) >= bytes

AllocateTemp(n, bytes, align, fill) ==
  /\ TempFits(bytes, align)
  /\ temp' = TempAt(align) + bytes
  /\ HandOut(n, TempAt(align), temp', fill)
  /\ UNCHANGED <<size, head, tail>>

\* DeallocateTemp, and the end of anything nobody refers to any more.  The
\* memory is taken back only by ResetTempAllocations.
Free(names) ==
  /\ place' = Without(names)
  /\ held' = held \ names

-----------------------------------------------------------------------------
(* The resizable buffer at the head.                                       *)

ResizeFits(bytes) == head = temp /\ tail >= bytes

ResizeTo(bytes) == head' = bytes /\ temp' = bytes

=============================================================================
