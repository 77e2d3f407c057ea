---------------------------- MODULE ReplRx_proofs ----------------------------
(***************************************************************************)
(* Theorems about ReplRx, for every ring size, byte set and packet length: *)
(* its types, that the reader's byte cannot be overwritten under it, and   *)
(* that the ring is a FIFO of Size - 1 bytes (it implements ByteFifo).     *)
(*                                                                         *)
(* The invariant that carries all three is RxInv.  ReaderHoldsOldest alone *)
(* is not inductive: the step Load leads to "commit" from "load", and only *)
(* LoadHasByte says that there is a byte to load.                          *)
(***************************************************************************)
EXTENDS ReplRx, TLAPS

LoadHasByte == pc = "load" => head # tail

RxInv == TypeOK /\ ReaderHoldsOldest /\ LoadHasByte

USE SizeAssumption, ByteAssumption, PacketAssumption

\* Both sides stay inside the buffer.
LEMMA AdvanceType == \A i \in Slots : Advance(i) \in Slots
  BY DEF Slots, Advance

\* What is left of a packet after its first byte is again a packet.
LEMMA PacketTail ==
  ASSUME packet \in Seq(Byte), packet # << >>
  PROVE  Head(packet) \in Byte /\ Tail(packet) \in Seq(Byte)
  OBVIOUS

\* The values the state has at start-up and after the safe mode reset.
LEMMA StartValues ==
  /\ 0 \in Slots
  /\ << >> \in Seq(Byte)
  /\ [i \in Slots |-> NullByte] \in [Slots -> Byte]
  <1>1. 0 \in Slots
    BY DEF Slots
  <1>2. << >> \in Seq(Byte)
    OBVIOUS
  <1>3. QED
    BY <1>1, <1>2

LEMMA InitRxInv == Init => RxInv
  BY StartValues DEF Init, RxInv, TypeOK, ReaderHoldsOldest, LoadHasByte

LEMMA NextRxInv == RxInv /\ [Next]_vars => RxInv'
  <1> SUFFICES ASSUME RxInv, [Next]_vars
               PROVE  RxInv'
    OBVIOUS
  <1> USE AdvanceType DEF RxInv, TypeOK, ReaderHoldsOldest, LoadHasByte, ring, reader
  <1>1. CASE HostWrite
    <2>1. packet' \in Seq(Byte)
      BY <1>1 DEF HostWrite, Packets
    <2>2. QED
      BY <1>1, <2>1 DEF HostWrite
  <1>2. CASE RxFull
    BY <1>2 DEF RxFull
  <1>3. CASE RxSafeMode
    BY <1>3, StartValues DEF RxSafeMode
  <1>4. CASE RxInterrupt
    BY <1>4, PacketTail DEF RxInterrupt, RingFull, HandlerIdle
  <1>5. CASE RxStore
    BY <1>5, PacketTail DEF RxStore, RingFull, HandlerIdle
  <1>6. CASE CallRead
    BY <1>6 DEF CallRead
  <1>7. CASE CheckEmpty
    BY <1>7 DEF CheckEmpty
  <1>8. CASE HookReturns
    BY <1>8 DEF HookReturns
  <1>9. CASE RaiseInterrupt
    BY <1>9 DEF RaiseInterrupt
  <1>10. CASE Load
    BY <1>10 DEF Load
  <1>11. CASE Commit
    BY <1>11 DEF Commit
  <1>12. CASE SetInterruptChar
    BY <1>12 DEF SetInterruptChar
  <1>13. CASE UNCHANGED vars
    BY <1>13 DEF vars
  <1>14. QED
    BY <1>1, <1>2, <1>3, <1>4, <1>5, <1>6, <1>7, <1>8, <1>9, <1>10, <1>11,
       <1>12, <1>13 DEF Next, Handler, Reader

(* Every variable of the receive path keeps its range: in particular head  *)
(* and tail never leave the buffer.                                        *)
THEOREM RxTypeCorrect == Spec => []TypeOK
  <1>1. RxInv => TypeOK
    BY DEF RxInv
  <1>2. QED
    BY InitRxInv, NextRxInv, <1>1, PTL DEF Spec

(* The byte mp_hal_stdin_rx_chr has loaded is still the oldest unread byte *)
(* when it moves tail, whatever interrupts ran in between.                 *)
THEOREM RxReaderSafe == Spec => []ReaderHoldsOldest
  <1>1. RxInv => ReaderHoldsOldest
    BY DEF RxInv
  <1>2. QED
    BY InitRxInv, NextRxInv, <1>1, PTL DEF Spec

-----------------------------------------------------------------------------
(* The ring as a FIFO.                                                     *)

\* The ring holds at most Size - 1 bytes, and room means fewer.
LEMMA CountRange ==
  ASSUME TypeOK
  PROVE  /\ Count \in 0 .. Size - 1
         /\ Count = 0 <=> head = tail
         /\ ~RingFull => Count < Size - 1
  BY DEF TypeOK, Slots, Count, RingFull, Advance

\* The bytes that wait are in slots of the buffer, the first at tail.
LEMMA SlotRange ==
  ASSUME TypeOK
  PROVE  /\ \A i \in 1 .. Count : Slot(i) \in Slots /\ Slot(i) # head
         /\ Slot(1) = tail
         /\ head = Slot(Count + 1)
  BY DEF TypeOK, Slots, Count, Slot

LEMMA ContentsSeq ==
  ASSUME TypeOK
  PROVE  /\ Contents \in Seq(Byte)
         /\ Len(Contents) = Count
         /\ \A i \in 1 .. Count : Contents[i] = buffer[Slot(i)]
  <1>1. \A i \in 1 .. Count : buffer[Slot(i)] \in Byte
    BY SlotRange DEF TypeOK
  <1>2. Count \in Nat
    BY CountRange
  <1>3. QED
    BY <1>1, <1>2 DEF Contents

\* Moving head over one slot appends what that slot then holds.
LEMMA PutStep ==
  ASSUME TypeOK, TypeOK', ~RingFull,
         head' = Advance(head), tail' = tail,
         \A i \in Slots : i # head => buffer'[i] = buffer[i]
  PROVE  /\ Len(Contents) < Size - 1
         /\ Contents' = Append(Contents, buffer'[head])
  <1>1. Len(Contents) < Size - 1
    BY CountRange, ContentsSeq
  <1>2. Count' = Count + 1
    BY DEF TypeOK, Slots, Count, RingFull, Advance
  <1>3. \A i \in 1 .. Count + 1 : Slot(i)' = Slot(i)
    BY DEF Slot
  <1>4. \A i \in 1 .. Count : Contents'[i] = Contents[i]
    BY <1>2, <1>3, ContentsSeq, SlotRange, CountRange DEF Contents
  <1>5. Contents'[Count + 1] = buffer'[head]
    BY <1>2, <1>3, SlotRange, CountRange DEF Contents
  <1>6. Contents' \in Seq(Byte) /\ Len(Contents') = Count + 1
    <2>1. \A i \in 1 .. Count' : buffer'[Slot(i)'] \in Byte
      BY <1>2, <1>3, SlotRange, CountRange DEF TypeOK
    <2>2. QED
      BY <2>1, <1>2, CountRange DEF Contents
  <1>7. QED
    BY <1>1, <1>4, <1>5, <1>6, ContentsSeq, CountRange

\* Moving tail over one slot takes the oldest byte away.
LEMMA GetStep ==
  ASSUME TypeOK, TypeOK', head # tail,
         tail' = Advance(tail), head' = head, buffer' = buffer
  PROVE  /\ Contents # << >>
         /\ Head(Contents) = buffer[tail]
         /\ Contents' = Tail(Contents)
  <1>1. Count > 0 /\ Count \in Nat
    BY CountRange
  <1>2. Contents # << >> /\ Head(Contents) = buffer[tail]
    BY <1>1, ContentsSeq, SlotRange
  <1>3. Count' = Count - 1
    BY DEF TypeOK, Slots, Count, Advance
  <1>4. \A i \in 1 .. Count - 1 : Slot(i)' = Slot(i + 1)
    BY <1>1, CountRange DEF TypeOK, Slots, Slot, Advance
  <1>5. \A i \in 1 .. Count - 1 : Contents'[i] = Contents[i + 1]
    BY <1>1, <1>3, <1>4, ContentsSeq DEF Contents
  <1>6. Contents' \in Seq(Byte) /\ Len(Contents') = Count - 1
    <2>1. \A i \in 1 .. Count' : buffer'[Slot(i)'] \in Byte
      BY <1>1, <1>3, <1>4, SlotRange DEF TypeOK
    <2>2. QED
      BY <2>1, <1>1, <1>3 DEF Contents
  <1>7. QED
    BY <1>1, <1>2, <1>5, <1>6, ContentsSeq

LEMMA SameContents ==
  ASSUME UNCHANGED ring
  PROVE  Contents' = Contents
  BY DEF ring, Contents, Count, Slot

LEMMA EmptyContents ==
  ASSUME head = 0, tail = 0
  PROVE  Contents = << >>
  BY DEF Contents, Count

LEMMA FifoStep == RxInv /\ RxInv' /\ [Next]_vars => [Fifo!Next]_(Fifo!fifoVars)
  <1> SUFFICES ASSUME RxInv, RxInv', [Next]_vars
               PROVE  [Fifo!Next]_(Fifo!fifoVars)
    OBVIOUS
  <1> USE DEF RxInv
  <1>1. CASE UNCHANGED <<ring, last>>
    BY <1>1, SameContents DEF Fifo!fifoVars
  <1>2. CASE RxSafeMode
    BY <1>2, EmptyContents DEF RxSafeMode, Fifo!Next, Fifo!Reset, Contents, Count
  <1>3. CASE RxInterrupt
    <2>1. Contents' = Append(Contents, buffer'[head]) /\ Len(Contents) < Size - 1
      BY <1>3, PutStep DEF RxInterrupt
    <2>2. buffer'[head] \in Byte
      BY DEF TypeOK
    <2>3. QED
      BY <1>3, <2>1, <2>2 DEF RxInterrupt, reader, Fifo!Next, Fifo!Put
  <1>4. CASE RxStore
    <2>1. \A i \in Slots : i # head => buffer'[i] = buffer[i]
      BY <1>4 DEF RxStore, TypeOK
    <2>2. Contents' = Append(Contents, buffer'[head]) /\ Len(Contents) < Size - 1
      BY <1>4, <2>1, PutStep DEF RxStore
    <2>3. buffer'[head] \in Byte
      BY DEF TypeOK
    <2>4. QED
      BY <1>4, <2>2, <2>3 DEF RxStore, reader, Fifo!Next, Fifo!Put
  <1>5. CASE Commit
    <2>1. head # tail /\ tail' = Advance(tail) /\ character = buffer[tail]
      BY <1>5 DEF Commit, ReaderHoldsOldest
    <2>2. /\ Contents # << >>
          /\ Head(Contents) = buffer[tail]
          /\ Contents' = Tail(Contents)
      BY <1>5, <2>1, GetStep DEF Commit
    <2>3. QED
      BY <1>5, <2>1, <2>2 DEF Commit, Fifo!Next, Fifo!Get
  <1>6. QED
    BY <1>1, <1>2, <1>3, <1>4, <1>5 DEF Next, Handler, Reader, HostWrite, RxFull,
       CallRead, CheckEmpty, HookReturns, RaiseInterrupt, Load, SetInterruptChar,
       vars, reader

(* The ring implements a FIFO of Size - 1 bytes: what mp_hal_stdin_rx_chr  *)
(* returns is what the handler put in, oldest first, none twice.           *)
THEOREM RxImplementsFifo == Spec => FifoSpec
  <1>1. Init => Fifo!Init
    BY EmptyContents DEF Init, Fifo!Init
  <1>2. QED
    BY <1>1, InitRxInv, NextRxInv, FifoStep, PTL DEF Spec, FifoSpec, Fifo!Spec
=============================================================================
