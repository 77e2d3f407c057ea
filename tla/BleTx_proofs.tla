---------------------------- MODULE BleTx_proofs ----------------------------
(***************************************************************************)
(* Theorems about BleTx, for every size of the ring, the MTUs and the      *)
(* SoftDevice's queue: its types, that the waiting bytes are the latest    *)
(* printed, that only a tail at 0 lets the printer lap the sender, and     *)
(* that what is sent is in the order printed.                              *)
(*                                                                         *)
(* The invariant is TxInv.  RingHoldsLatest is not inductive alone:        *)
(* SendHvx moves tail by the length of a chunk collected earlier, and only *)
(* ChunkFits says that those bytes still wait; and that a collected byte   *)
(* is one that was printed needs CountFits.                                *)
(* InOrderOrLapped rests on TxInv and ChunkIsNext (OrderInv).              *)
(***************************************************************************)
EXTENDS BleTx, TLAPS

PrintFits ==
  /\ toPrint + printed <= MaxPrinted
  /\ pc = "print" => toPrint > 0
CountFits == Count <= printed
ChunkFits == pc = "sendHvx" => Len(chunk) \in 1 .. Count

TxInv == TypeOK /\ PrintFits /\ RingHoldsLatest /\ CountFits /\ ChunkFits

USE TxAssumption

-----------------------------------------------------------------------------
(* The ring's arithmetic.                                                  *)

LEMMA AdvanceType == \A i \in Slots : Advance(i) \in Slots
  BY DEF Slots, Advance

LEMMA CountRange ==
  ASSUME head \in Slots, tail \in Slots
  PROVE  /\ Count \in 0 .. Size - 1
         /\ head # tail => Count >= 1
  BY DEF Slots, Count

LEMMA SlotAtType ==
  ASSUME tail \in Slots
  PROVE  \A k \in Slots : SlotAt(k) \in Slots
  BY DEF Slots, SlotAt

\* Sending n of the waiting bytes leaves the others, at the same slots.
LEMMA SendShifts ==
  ASSUME TypeOK, NEW n \in 1 .. Count, tail' = SlotAt(n), head' = head
  PROVE  /\ tail' \in Slots
         /\ Count' = Count - n
         /\ \A k \in 1 .. Count' : SlotAt(k - 1)' = SlotAt(n + k - 1)
  <1> USE DEF TypeOK, Slots
  <1>1. Count \in 0 .. Size - 1
    BY CountRange
  <1>2. tail' \in Slots /\ Count' = Count - n
    BY <1>1 DEF SlotAt, Count
  <1>3. ASSUME NEW k \in 1 .. Count'
        PROVE  SlotAt(k - 1)' = SlotAt(n + k - 1)
    BY <1>1, <1>2 DEF SlotAt
  <1>4. QED
    BY <1>2, <1>3

\* Printing a byte adds it behind the waiting ones, or laps them.
LEMMA PrintShifts ==
  ASSUME TypeOK, ~RingFull, head' = Advance(head), tail' = tail
  PROVE  \/ /\ tail = 0
            /\ Count' = 0
         \/ /\ Count' = Count + 1
            /\ SlotAt(Count) = head
            /\ \A k \in 1 .. Count : SlotAt(k - 1) # head
  <1> USE DEF TypeOK, Slots
  <1>1. Count \in 0 .. Size - 1
    BY CountRange
  <1>2. CASE head' = tail
    BY <1>2 DEF RingFull, Advance, Count
  <1>3. CASE head' # tail
    <2>1. Count' = Count + 1
      BY <1>3 DEF RingFull, Advance, Count
    <2>2. SlotAt(Count) = head
      BY <1>1 DEF SlotAt, Count
    <2>3. ASSUME NEW k \in 1 .. Count
          PROVE  SlotAt(k - 1) # head
      BY <1>1 DEF SlotAt, Count
    <2>4. QED
      BY <2>1, <2>2, <2>3
  <1>4. QED
    BY <1>2, <1>3

\* What SendCollect copies are bytes that were printed.
LEMMA ChunkType ==
  ASSUME TxInv, head # tail
  PROVE  /\ ChunkLen \in 1 .. Count
         /\ [i \in 1 .. ChunkLen |-> buffer[SlotAt(i - 1)]] \in Seq(1 .. MaxPrinted)
  <1> USE DEF TxInv, TypeOK, PrintFits, CountFits
  <1>1. Count \in 1 .. Size - 1
    BY CountRange DEF Slots
  <1>2. ChunkLen \in 1 .. Count
    BY <1>1 DEF ChunkLen, Smaller
  <1>3. ASSUME NEW i \in 1 .. ChunkLen
        PROVE  buffer[SlotAt(i - 1)] \in 1 .. MaxPrinted
    <2>1. i \in 1 .. Count
      BY <1>1, <1>2
    <2>2. buffer[SlotAt(i - 1)] = printed - Count + i
      BY <2>1 DEF RingHoldsLatest
    <2>3. QED
      BY <1>1, <2>1, <2>2
  <1>4. QED
    BY <1>1, <1>2, <1>3

-----------------------------------------------------------------------------
(* The invariant.                                                          *)

\* The values of Init, to which a reset also returns.
LEMMA StartValues ==
  /\ 0 \in Slots
  /\ [i \in Slots |-> 0] \in [Slots -> 0 .. MaxPrinted]
  /\ << >> \in Seq(1 .. MaxPrinted)
  BY DEF Slots

LEMMA InitTxInv == Init => TxInv
  <1> SUFFICES ASSUME Init PROVE TxInv
    OBVIOUS
  <1>1. TypeOK
    BY StartValues DEF Init, TypeOK
  <1>2. Count = 0
    BY DEF Init, Count
  <1>3. QED
    BY <1>1, <1>2 DEF Init, TxInv, PrintFits, RingHoldsLatest, CountFits, ChunkFits

LEMMA RestartTxInv == Restart => TxInv'
  <1> SUFFICES ASSUME Restart PROVE TxInv'
    OBVIOUS
  <1>1. TypeOK'
    <2>1. buffer' \in [Slots -> 0 .. MaxPrinted] /\ head' \in Slots /\ tail' \in Slots
      BY StartValues DEF Restart
    <2>2. sent' \in Seq(1 .. MaxPrinted) /\ chunk' \in Seq(1 .. MaxPrinted)
      BY StartValues DEF Restart
    <2>3. /\ printed' \in 0 .. MaxPrinted /\ toPrint' \in 0 .. MaxPrinted
          /\ rawLen' \in 0 .. MaxRaw /\ mtu' \in 0 .. MaxMtu
          /\ attMtu' \in DefaultMtu .. MaxMtu /\ queued' \in 0 .. HvnQueueSize
      BY DEF Restart
    <2>4. QED
      BY <2>1, <2>2, <2>3 DEF Restart, TypeOK
  <1>2. Count' = 0
    BY DEF Restart, Count
  <1>3. QED
    BY <1>1, <1>2 DEF Restart, TxInv, PrintFits, RingHoldsLatest, CountFits, ChunkFits

\* Steps that leave the ring alone keep what is said of the ring alone.
LEMMA RingKept ==
  ASSUME TxInv, UNCHANGED ring
  PROVE  /\ RingHoldsLatest'
         /\ CountFits'
         /\ Count' = Count
  BY DEF TxInv, ring, RingHoldsLatest, CountFits, Count, SlotAt

LEMMA PrintByteTxInv == TxInv /\ PrintByte => TxInv'
  <1> SUFFICES ASSUME TxInv, PrintByte PROVE TxInv'
    OBVIOUS
  <1> USE DEF TxInv, PrintFits
  <1>1. Count \in 0 .. Size - 1 /\ Count <= printed
    BY CountRange DEF TypeOK, CountFits
  <1>2. printed + 1 \in 0 .. MaxPrinted /\ toPrint - 1 \in 0 .. MaxPrinted
    BY DEF PrintByte, TypeOK
  <1>3. TypeOK'
    BY <1>2, AdvanceType DEF PrintByte, TypeOK, link
  <1>4. PrintFits'
    BY DEF PrintByte, TypeOK
  <1>5. ChunkFits'
    BY DEF PrintByte, ChunkFits
  <1>6. CASE Count' = 0
    BY <1>1, <1>2, <1>3, <1>4, <1>5, <1>6
       DEF PrintByte, RingHoldsLatest, CountFits, TypeOK
  <1>7. CASE /\ Count' = Count + 1
             /\ SlotAt(Count) = head
             /\ \A k \in 1 .. Count : SlotAt(k - 1) # head
    <2>1. CountFits'
      BY <1>1, <1>7 DEF PrintByte, CountFits, TypeOK
    <2>2. ASSUME NEW k \in 1 .. Count'
          PROVE  buffer'[SlotAt(k - 1)'] = printed' - Count' + k
      <3>1. SlotAt(k - 1)' = SlotAt(k - 1)
        BY DEF PrintByte, SlotAt
      <3>2. CASE k = Count + 1
        <4>1. SlotAt(k - 1) = head
          BY <1>1, <1>7, <3>2
        <4>2. buffer'[head] = printed + 1
          BY DEF PrintByte, TypeOK
        <4>3. QED
          BY <1>1, <1>7, <3>1, <3>2, <4>1, <4>2 DEF PrintByte, TypeOK
      <3>3. CASE k \in 1 .. Count
        <4>1. SlotAt(k - 1) \in Slots
          BY <1>1, <3>3 DEF TypeOK, Slots, SlotAt
        <4>2. buffer'[SlotAt(k - 1)] = buffer[SlotAt(k - 1)]
          BY <1>7, <3>3, <4>1 DEF PrintByte, TypeOK
        <4>3. buffer[SlotAt(k - 1)] = printed - Count + k
          BY <3>3 DEF RingHoldsLatest
        <4>4. QED
          BY <1>1, <1>7, <3>1, <3>3, <4>2, <4>3 DEF PrintByte, TypeOK
      <3>4. QED
        BY <1>1, <1>7, <3>2, <3>3
    <2>3. RingHoldsLatest'
      BY <2>2 DEF RingHoldsLatest
    <2>4. QED
      BY <1>3, <1>4, <1>5, <2>1, <2>3
  <1>8. QED
    BY <1>6, <1>7, PrintShifts DEF PrintByte

LEMMA SendHvxTxInv == TxInv /\ SendHvx => TxInv'
  <1> SUFFICES ASSUME TxInv, SendHvx PROVE TxInv'
    OBVIOUS
  <1> USE DEF TxInv
  <1>1. PrintFits' /\ ChunkFits'
    BY DEF SendHvx, PrintFits, ChunkFits, AfterFalse, Resume, TypeOK
  <1>2. CASE tail' = SlotAt(Len(chunk)) /\ sent' = sent \o chunk /\ queued' = queued + 1
                 /\ HvxAccepts("repl", Len(chunk))
    <2> DEFINE n == Len(chunk)
    <2>1. n \in 1 .. Count /\ Count \in 0 .. Size - 1 /\ Count <= printed
      BY CountRange DEF SendHvx, ChunkFits, TypeOK, CountFits
    <2>2. /\ tail' \in Slots
          /\ Count' = Count - n
          /\ \A k \in 1 .. Count' : SlotAt(k - 1)' = SlotAt(n + k - 1)
      BY <1>2, <2>1, SendShifts DEF SendHvx
    <2>3. sent' \in Seq(1 .. MaxPrinted)
      BY <1>2 DEF TypeOK
    <2>4. queued' \in 0 .. HvnQueueSize
      BY <1>2 DEF HvxAccepts, TypeOK
    <2>5. TypeOK'
      BY <2>2, <2>3, <2>4, StartValues DEF SendHvx, TypeOK, AfterFalse, Resume
    <2>6. CountFits'
      BY <2>1, <2>2 DEF SendHvx, CountFits, TypeOK
    <2>7. ASSUME NEW k \in 1 .. Count'
          PROVE  buffer'[SlotAt(k - 1)'] = printed' - Count' + k
      <3>1. n + k \in 1 .. Count
        BY <2>1, <2>2
      <3>2. buffer[SlotAt(n + k - 1)] = printed - Count + (n + k)
        BY <3>1 DEF RingHoldsLatest
      <3> HIDE DEF n
      <3>3. SlotAt(k - 1)' = SlotAt(n + k - 1)
        BY <2>2
      <3>4. QED
        BY <2>1, <2>2, <3>2, <3>3 DEF SendHvx, TypeOK
    <2>8. QED
      BY <1>1, <2>5, <2>6, <2>7 DEF RingHoldsLatest
  <1>3. CASE UNCHANGED <<queued, sent, tail>>
    <2>1. TypeOK'
      BY <1>3, StartValues DEF SendHvx, TypeOK, AfterFalse, Resume
    <2>2. UNCHANGED ring
      BY <1>3 DEF SendHvx, ring
    <2>3. QED
      BY <1>1, <2>1, <2>2, RingKept
  <1>4. QED
    BY <1>2, <1>3 DEF SendHvx

\* The remaining actions of the thread: none of them touches the ring.
LEMMA ThreadTxInv ==
  ASSUME TxInv,
         \/ CallPrint \/ CallSend \/ CallHook \/ HookReturns \/ HookRaises
         \/ PrintWaits \/ SendCheck \/ SendEmpty
         \/ PyCheck \/ PyLen \/ RawCheck \/ RawHvx
  PROVE  TxInv'
  <1> USE DEF TxInv, PrintFits, ChunkFits, Resume, AfterTrue, AfterFalse, CheckHandle
  <1>1. UNCHANGED ring
    BY DEF CallPrint, CallSend, CallHook, HookReturns, HookRaises, PrintWaits,
           SendCheck, SendEmpty, PyCheck, PyLen, RawCheck, RawHvx, ring
  <1>2. RingHoldsLatest' /\ CountFits' /\ Count' = Count
    BY <1>1, RingKept
  <1>3. TypeOK' /\ PrintFits' /\ ChunkFits'
    <2> USE DEF TypeOK, ring, link
    <2>1. CASE CallPrint
      <3>1. PICK n \in 1 .. MaxPrinted - printed - toPrint : toPrint' = toPrint + n
        BY <2>1 DEF CallPrint
      <3>2. toPrint' \in 0 .. MaxPrinted /\ toPrint' > 0 /\ toPrint' + printed <= MaxPrinted
        BY <3>1
      <3>3. QED
        BY <2>1, <3>2 DEF CallPrint
    <2>2. CASE CallSend
      BY <2>2 DEF CallSend
    <2>3. CASE CallHook
      BY <2>3 DEF CallHook
    <2>4. CASE HookReturns
      BY <2>4 DEF HookReturns
    <2>5. CASE HookRaises
      BY <2>5 DEF HookRaises
    <2>6. CASE PrintWaits
      BY <2>6 DEF PrintWaits
    <2>7. CASE SendCheck
      BY <2>7 DEF SendCheck
    <2>8. CASE SendEmpty
      BY <2>8 DEF SendEmpty
    <2>9. CASE PyCheck
      BY <2>9 DEF PyCheck
    <2>10. CASE PyLen
      BY <2>10 DEF PyLen
    <2>11. CASE RawCheck
      BY <2>11 DEF RawCheck
    <2>12. CASE RawHvx
      BY <2>12 DEF RawHvx, HvxAccepts
    <2>13. QED
      BY <2>1, <2>2, <2>3, <2>4, <2>5, <2>6, <2>7, <2>8, <2>9, <2>10, <2>11, <2>12
  <1>4. QED
    BY <1>2, <1>3

\* The two-step tests of the notifications, and their reset.
LEMMA QueryTxInv ==
  ASSUME TxInv, SendQuery \/ PyQuery \/ RawQuery \/ SendOverruns
  PROVE  TxInv'
  <1> USE DEF TxInv, PrintFits, ChunkFits
  <1>1. CASE Restart
    BY <1>1, RestartTxInv
  <1>2. CASE \/ Query("sendQuery", "repl", "sendCollect", AfterTrue)
             \/ Query("pyQuery", "data", "pyLen", Resume)
             \/ RawQuery /\ ~QueryFails("rawQuery")
    <2>1. UNCHANGED ring
      BY <1>2 DEF Query, RawQuery, ring
    <2>2. TypeOK' /\ PrintFits' /\ ChunkFits'
      BY <1>2 DEF Query, RawQuery, AfterTrue, Resume, TypeOK, ring, link
    <2>3. QED
      BY <2>1, <2>2, RingKept
  <1>3. QED
    BY <1>1, <1>2 DEF SendQuery, PyQuery, RawQuery, QueryFails, SendOverruns

LEMMA SendCollectTxInv == TxInv /\ SendCollect => TxInv'
  <1> SUFFICES ASSUME TxInv, SendCollect PROVE TxInv'
    OBVIOUS
  <1> USE DEF TxInv, PrintFits
  <1> DEFINE c == [i \in 1 .. ChunkLen |-> buffer[SlotAt(i - 1)]]
  <1>1. chunk' = c /\ UNCHANGED ring
    BY DEF SendCollect, ring
  <1>2. ChunkLen \in 1 .. Count /\ c \in Seq(1 .. MaxPrinted)
    BY ChunkType DEF SendCollect
  <1>3. Len(c) = ChunkLen
    BY <1>2, CountRange DEF TypeOK, Slots
  <1> HIDE DEF c
  <1>4. RingHoldsLatest' /\ CountFits' /\ Count' = Count
    BY <1>1, RingKept
  <1>5. ChunkFits'
    BY <1>1, <1>2, <1>3, <1>4 DEF ChunkFits
  <1>6. TypeOK' /\ PrintFits'
    BY <1>1, <1>2 DEF SendCollect, TypeOK, link, ring
  <1>7. QED
    BY <1>4, <1>5, <1>6

\* The radio never touches the ring or the thread.
LEMMA LinkTxInv == TxInv /\ Link => TxInv'
  <1> SUFFICES ASSUME TxInv, Link PROVE TxInv'
    OBVIOUS
  <1>1. UNCHANGED <<ring, sent, thread>>
    BY DEF Link, Connected, Disconnected, ExchangeMtuRequest, CccdWrite, HvnTxComplete
  <1>2. RingHoldsLatest' /\ CountFits' /\ Count' = Count
    BY <1>1, RingKept
  <1>3. PrintFits' /\ ChunkFits'
    BY <1>1, <1>2 DEF TxInv, PrintFits, ChunkFits, thread, ring
  <1>4. connected' \in BOOLEAN /\ notify' \subseteq Channels
    <2>1. CASE CccdWrite
      <3>1. PICK c \in Channels : notify' \in {notify \cup {c}, notify \ {c}}
        BY <2>1 DEF CccdWrite
      <3>2. QED
        BY <2>1, <3>1 DEF CccdWrite, TxInv, TypeOK
    <2>2. CASE Connected
      BY <2>2 DEF Connected
    <2>3. CASE Disconnected
      BY <2>3 DEF Disconnected
    <2>4. CASE ExchangeMtuRequest \/ HvnTxComplete
      BY <2>4 DEF ExchangeMtuRequest, HvnTxComplete, TxInv, TypeOK
    <2>5. QED
      BY <2>1, <2>2, <2>3, <2>4 DEF Link
  <1>5. mtu' \in 0 .. MaxMtu /\ attMtu' \in DefaultMtu .. MaxMtu /\ queued' \in 0 .. HvnQueueSize
    <2>1. CASE Connected \/ Disconnected
      <3>1. mtu' = mtu /\ attMtu' = DefaultMtu /\ queued' = 0
        BY <2>1 DEF Connected, Disconnected
      <3>2. QED
        BY <3>1 DEF TxInv, TypeOK
    <2>2. CASE ExchangeMtuRequest
      <3>1. PICK m \in DefaultMtu .. MaxMtu : mtu' = m /\ attMtu' = m
        BY <2>2 DEF ExchangeMtuRequest
      <3>2. queued' = queued
        BY <2>2 DEF ExchangeMtuRequest
      <3>3. QED
        BY <3>1, <3>2 DEF TxInv, TypeOK
    <2>3. CASE CccdWrite
      BY <2>3 DEF CccdWrite, TxInv, TypeOK
    <2>4. CASE HvnTxComplete
      BY <2>4 DEF HvnTxComplete, TxInv, TypeOK
    <2>5. QED
      BY <2>1, <2>2, <2>3, <2>4 DEF Link
  <1>6. TypeOK'
    BY <1>1, <1>4, <1>5 DEF TxInv, TypeOK, ring, thread
  <1>7. QED
    BY <1>2, <1>3, <1>6 DEF TxInv

LEMMA NextTxInv == TxInv /\ [Next]_vars => TxInv'
  <1> SUFFICES ASSUME TxInv, [Next]_vars PROVE TxInv'
    OBVIOUS
  <1>1. CASE UNCHANGED vars
    <2>1. UNCHANGED ring
      BY <1>1 DEF vars
    <2>2. TypeOK' /\ PrintFits' /\ ChunkFits'
      BY <1>1, <2>1, RingKept
         DEF vars, ring, thread, link, TxInv, TypeOK, PrintFits, ChunkFits
    <2>3. QED
      BY <2>1, <2>2, RingKept DEF TxInv
  <1>2. CASE PrintByte
    BY <1>2, PrintByteTxInv
  <1>3. CASE SendHvx
    BY <1>3, SendHvxTxInv
  <1>4. CASE SendCollect
    BY <1>4, SendCollectTxInv
  <1>5. CASE Link
    BY <1>5, LinkTxInv
  <1>6. QED
    BY <1>1, <1>2, <1>3, <1>4, <1>5, ThreadTxInv, QueryTxInv
       DEF Next, Thread, SendReplData, RawData

THEOREM TxInvariant == Spec => []TxInv
  <1>1. QED
    BY InitTxInv, NextTxInv, PTL DEF Spec

-----------------------------------------------------------------------------
(* The theorems.                                                           *)

(* Every index the printer and the sender form stays in repl_tx.buffer, no *)
(* queue grows past what the SoftDevice holds, and every byte handed over  *)
(* is one that was printed.                                                *)
THEOREM TxTypeCorrect == Spec => []TypeOK
  <1>1. TxInv => TypeOK
    BY DEF TxInv
  <1>2. QED
    BY <1>1, TxInvariant, PTL

(* Whatever the link does and wherever the sender stands, the Count bytes  *)
(* from repl_tx.tail on are the last Count printed, oldest first.          *)
THEOREM TxRingHoldsLatest == Spec => []RingHoldsLatest
  <1>1. TxInv => RingHoldsLatest
    BY DEF TxInv
  <1>2. QED
    BY <1>1, TxInvariant, PTL

(* A print can lap the sender (empty the ring by filling it) only while    *)
(* tail is 0, the index for which head == tail - 1 is never true.          *)
THEOREM TxLapsOnlyAtZero == Spec => LapsOnlyAtZero
  <1>1. ASSUME TxInv, [Next]_vars
        PROVE  [(Count' < Count /\ tail' = tail) => tail = 0]_vars
    <2>1. SUFFICES ASSUME Next, Count' < Count, tail' = tail, tail # 0
                   PROVE  FALSE
      BY <1>1
    <2>2. head' # head
      BY <1>1, <2>1 DEF Count, TxInv, TypeOK, Slots
    <2>3. ~Restart
      BY <2>1 DEF Restart
    <2>4. PrintByte
      BY <2>1, <2>2, <2>3
         DEF Next, Thread, Link, SendReplData, RawData, CallPrint, CallSend, CallHook,
             HookReturns, HookRaises, PrintWaits, SendCheck, SendQuery, SendEmpty,
             SendCollect, SendOverruns, SendHvx, PyCheck, PyQuery, PyLen, RawCheck,
             RawQuery, RawHvx, CheckHandle, Query, QueryFails, Connected, Disconnected,
             ExchangeMtuRequest, CccdWrite, HvnTxComplete, ring
    <2>5. Count' = Count + 1
      BY <2>1, <2>4, <1>1, PrintShifts DEF PrintByte, TxInv
    <2>6. QED
      BY <2>1, <2>5, <1>1, CountRange DEF TxInv, TypeOK, Slots
  <1>2. QED
    BY <1>1, TxInvariant, PTL DEF Spec, LapsOnlyAtZero

-----------------------------------------------------------------------------
(* The order of what is sent.  InOrderOrLapped needs one fact more: the    *)
(* chunk in hand starts with the oldest byte that waits, although it was   *)
(* collected steps before.                                                 *)

Follows(a, b) == a < b /\ (b - a - 1) % Size = 0
ChunkIsNext == pc = "sendHvx" => \A i \in 1 .. Len(chunk) : chunk[i] = printed - Count + i
OrderInv == TxInv /\ ChunkIsNext /\ InOrderOrLapped

LEMMA NextFollows == ASSUME NEW a \in Int PROVE Follows(a, a + 1)
  <1>1. 0 % Size = 0
    OBVIOUS
  <1>2. (a + 1) - a - 1 = 0
    OBVIOUS
  <1>3. QED
    BY <1>1, <1>2 DEF Follows

\* A lap takes Size bytes out, however many laps there were before.
LEMMA LapFollows ==
  ASSUME NEW a \in Int, NEW b \in Int, Follows(a, b)
  PROVE  Follows(a, b + Size)
  <1> DEFINE gap == b - a - 1
             laps == gap \div Size
  <1>1. gap \in Int /\ laps \in Int /\ gap % Size = 0
    BY DEF Follows
  <1>2. gap = Size * laps + (gap % Size)
    BY <1>1
  <1> HIDE DEF gap, laps
  <1>3. gap + Size = Size * (laps + 1)
    BY <1>1, <1>2
  <1>4. (Size * (laps + 1)) % Size = 0
    BY <1>1
  <1>5. (b + Size) - a - 1 = gap + Size
    BY DEF gap
  <1>6. a < b + Size
    BY DEF Follows
  <1>7. QED
    BY <1>3, <1>4, <1>5, <1>6 DEF Follows

\* The first entry of a stream, those of what is sent, and the last one.
Entries(stream, bytes, next) ==
  /\ Len(bytes) \in Nat
  /\ Len(stream) = Len(bytes) + 2
  /\ stream[1] = 0
  /\ \A i \in 1 .. Len(bytes) : stream[i + 1] = bytes[i] /\ bytes[i] \in Int
  /\ stream[Len(bytes) + 2] = next
  /\ next \in Int

LEMMA EntriesOf ==
  ASSUME NEW bytes \in Seq(Int), NEW next \in Int
  PROVE  Entries(<<0>> \o bytes \o <<next>>, bytes, next)
  BY DEF Entries

LEMMA StreamIs ==
  /\ TypeOK => Entries(Stream, sent, printed - Count + 1)
  /\ TypeOK' => Entries(Stream', sent', printed' - Count' + 1)
  <1>1. ASSUME TypeOK PROVE Entries(Stream, sent, printed - Count + 1)
    <2>1. sent \in Seq(Int) /\ printed \in Int /\ head \in Slots /\ tail \in Slots
      BY <1>1 DEF TypeOK
    <2>2. printed - Count + 1 \in Int
      BY <2>1 DEF Count, Slots
    <2>3. QED
      BY <2>1, <2>2, EntriesOf DEF Stream
  <1>2. ASSUME TypeOK' PROVE Entries(Stream', sent', printed' - Count' + 1)
    <2>1. sent' \in Seq(Int) /\ printed' \in Int /\ head' \in Slots /\ tail' \in Slots
      BY <1>2 DEF TypeOK
    <2>2. printed' - Count' + 1 \in Int
      BY <2>1 DEF Count, Slots
    <2>3. QED
      BY <2>1, <2>2, EntriesOf DEF Stream
  <1>3. QED
    BY <1>1, <1>2

LEMMA InOrderIs == InOrderOrLapped <=> \A i \in 1 .. Len(Stream) - 1 : Follows(Stream[i], Stream[i + 1])
  BY DEF InOrderOrLapped, Follows

\* At the start, and after a reset, nothing is sent and the next byte is 1.
LEMMA StartInOrder ==
  /\ sent = << >> /\ printed = 0 /\ Count = 0 => InOrderOrLapped
  /\ sent' = << >> /\ printed' = 0 /\ Count' = 0 => InOrderOrLapped'
  <1> DEFINE start == <<0>> \o << >> \o <<0 - 0 + 1>>
  <1>1. \A i \in 1 .. Len(start) - 1 : Follows(start[i], start[i + 1])
    <2>1. Follows(0, 0 + 1)
      BY NextFollows
    <2>2. << >> \in Seq(Int) /\ 0 - 0 + 1 \in Int /\ 0 - 0 + 1 = 0 + 1
      OBVIOUS
    <2>3. Entries(start, << >>, 0 - 0 + 1)
      BY <2>2, EntriesOf
    <2> HIDE DEF start
    <2>4. Len(start) = 2 /\ start[1] = 0 /\ start[2] = 0 + 1
      BY <2>3 DEF Entries
    <2>5. \A i \in 1 .. Len(start) - 1 : i = 1 /\ i + 1 = 2
      BY <2>4
    <2>6. QED
      BY <2>1, <2>4, <2>5
  <1>2. ASSUME sent = << >>, printed = 0, Count = 0 PROVE InOrderOrLapped
    <2>1. Stream = start
      BY <1>2 DEF Stream
    <2>2. QED
      BY <1>1, <2>1 DEF InOrderOrLapped, Follows
  <1>3. ASSUME sent' = << >>, printed' = 0, Count' = 0 PROVE InOrderOrLapped'
    <2>1. Stream' = start
      BY <1>3 DEF Stream
    <2>2. QED
      BY <1>1, <2>1 DEF InOrderOrLapped, Follows
  <1>4. QED
    BY <1>2, <1>3

LEMMA InitOrder == Init => OrderInv
  <1> SUFFICES ASSUME Init PROVE OrderInv
    OBVIOUS
  <1>1. TxInv
    BY InitTxInv
  <1>2. Count = 0
    BY DEF Init, Count
  <1>3. InOrderOrLapped
    BY <1>2, StartInOrder DEF Init
  <1>4. QED
    BY <1>1, <1>3 DEF Init, OrderInv, ChunkIsNext

LEMMA RestartOrder == Restart => OrderInv'
  <1> SUFFICES ASSUME Restart PROVE OrderInv'
    OBVIOUS
  <1>1. TxInv'
    BY RestartTxInv
  <1>2. sent' = << >> /\ printed' = 0 /\ Count' = 0
    BY DEF Restart, Count
  <1>3. InOrderOrLapped'
    BY <1>2, StartInOrder
  <1>4. QED
    BY <1>1, <1>3 DEF Restart, OrderInv, ChunkIsNext

LEMMA PrintByteOrder ==
  ASSUME OrderInv, PrintByte, TxInv'
  PROVE  OrderInv'
  <1>1. TypeOK /\ TypeOK'
    BY DEF OrderInv, TxInv
  <1>2. Count' = Count + 1 \/ (Count' = 0 /\ Count = Size - 1)
    BY <1>1, CountRange DEF PrintByte, RingFull, Advance, Count, TypeOK, Slots
  <1>3. sent' = sent /\ printed' = printed + 1 /\ pc' # "sendHvx"
    BY DEF PrintByte
  <1> DEFINE old == printed - Count + 1
             new == printed' - Count' + 1
  <1>4. old \in Int /\ (new = old \/ new = old + Size)
    <2>1. Count \in Int /\ printed \in Int
      BY <1>1, CountRange DEF TypeOK
    <2>2. QED
      BY <1>2, <1>3, <2>1
  <1> HIDE DEF old, new
  <1>5. /\ Len(sent) \in Nat /\ Len(Stream) = Len(sent) + 2 /\ Stream[1] = 0
        /\ \A i \in 1 .. Len(sent) : Stream[i + 1] = sent[i] /\ sent[i] \in Int
        /\ Stream[Len(sent) + 2] = old
    BY <1>1, StreamIs DEF Entries, old
  <1>6. /\ Len(Stream') = Len(sent) + 2 /\ Stream'[1] = 0
        /\ \A i \in 1 .. Len(sent) : Stream'[i + 1] = sent[i]
        /\ Stream'[Len(sent) + 2] = new
    <2>1. Entries(Stream', sent, new)
      BY <1>1, <1>3, StreamIs DEF new
    <2>2. QED
      BY <2>1 DEF Entries
  <1>7. ASSUME NEW i \in 1 .. Len(sent) + 1
        PROVE  Stream'[i] = Stream[i] /\ Stream[i] \in Int
    <2>1. CASE i = 1
      BY <1>5, <1>6, <2>1
    <2>2. CASE i # 1
      <3>1. i - 1 \in 1 .. Len(sent) /\ i = (i - 1) + 1
        BY <1>5, <2>2
      <3>2. QED
        BY <1>5, <1>6, <3>1
    <2>3. QED
      BY <2>1, <2>2
  <1>8. \A i \in 1 .. Len(sent) + 1 : Follows(Stream[i], Stream[i + 1])
    BY <1>5, InOrderIs DEF OrderInv
  <1>9. ASSUME NEW i \in 1 .. Len(sent) + 1
        PROVE  Follows(Stream'[i], Stream'[i + 1])
    <2>1. CASE i = Len(sent) + 1
      <3>1. Stream[i + 1] = old /\ Stream'[i + 1] = new
        BY <1>5, <1>6, <2>1
      <3>2. Follows(Stream[i], old)
        BY <1>8, <3>1
      <3>3. Follows(Stream[i], new)
        BY <1>4, <1>7, <3>2, LapFollows
      <3>4. QED
        BY <1>7, <3>1, <3>3
    <2>2. CASE i # Len(sent) + 1
      <3>1. i + 1 \in 1 .. Len(sent) + 1
        BY <1>5, <2>2
      <3>2. QED
        BY <1>7, <1>8, <3>1
    <2>3. QED
      BY <2>1, <2>2
  <1>10. InOrderOrLapped'
    BY <1>5, <1>6, <1>9 DEF InOrderOrLapped, Follows
  <1>11. QED
    BY <1>3, <1>10 DEF OrderInv, ChunkIsNext

LEMMA SentOrder ==
  ASSUME OrderInv, SendHvx, TxInv', sent' = sent \o chunk, tail' = SlotAt(Len(chunk))
  PROVE  InOrderOrLapped'
  <1> DEFINE n == Len(chunk)
             m == Len(sent)
             old == printed - Count + 1
  <1>1. TypeOK /\ TypeOK' /\ n \in 1 .. Count /\ m \in Nat /\ printed' = printed
    BY DEF OrderInv, TxInv, ChunkFits, SendHvx, TypeOK
  <1>2. Count \in Nat /\ n \in Nat /\ old \in Int /\ Count' = Count - n
    BY <1>1, CountRange, SendShifts DEF SendHvx, TypeOK
  <1>3. \A j \in 1 .. n : chunk[j] = old + j - 1
    BY <1>1, <1>2 DEF OrderInv, ChunkIsNext, SendHvx, TypeOK
  <1>4. Len(sent') = m + n /\ \A j \in 1 .. m : sent'[j] = sent[j]
    BY <1>1 DEF TypeOK
  <1>5. \A j \in 1 .. n : sent'[m + j] = chunk[j]
    BY <1>1 DEF TypeOK
  <1>6. /\ Len(Stream) = m + 2 /\ Stream[1] = 0
        /\ \A i \in 1 .. m : Stream[i + 1] = sent[i]
        /\ Stream[m + 2] = old
    BY <1>1, StreamIs DEF Entries
  <1>7. /\ Len(Stream') = Len(sent') + 2 /\ Stream'[1] = 0
        /\ \A i \in 1 .. Len(sent') : Stream'[i + 1] = sent'[i]
        /\ Stream'[Len(sent') + 2] = printed' - Count' + 1
    BY <1>1, StreamIs DEF Entries
  <1>8. Stream'[m + n + 2] = old + n
    <2>1. printed' - Count' + 1 = old + n
      BY <1>1, <1>2, CountRange DEF TypeOK, Slots
    <2>2. Len(sent') + 2 = m + n + 2
      BY <1>4
    <2>3. QED
      BY <1>7, <2>1, <2>2
  <1> HIDE DEF n, m, old
  <1>9. ASSUME NEW i \in 1 .. m + 1
        PROVE  Stream'[i] = Stream[i]
    <2>1. CASE i = 1
      BY <1>6, <1>7, <2>1
    <2>2. CASE i # 1
      <3>1. i - 1 \in 1 .. m /\ i = (i - 1) + 1 /\ i - 1 \in 1 .. m + n
        BY <1>1, <1>2, <2>2
      <3>2. QED
        BY <1>4, <1>6, <1>7, <3>1
    <2>3. QED
      BY <2>1, <2>2
  <1>10. ASSUME NEW j \in 1 .. n + 1
         PROVE  Stream'[m + 1 + j] = old + j - 1
    <2>1. CASE j = n + 1
      <3>1. m + 1 + j = m + n + 2 /\ old + j - 1 = old + n
        BY <1>1, <1>2, <2>1
      <3>2. QED
        BY <1>8, <3>1
    <2>2. CASE j # n + 1
      <3>1. j \in 1 .. n /\ m + j \in 1 .. Len(sent') /\ m + 1 + j = (m + j) + 1
        BY <1>1, <1>2, <1>4, <2>2
      <3>2. QED
        BY <1>3, <1>5, <1>7, <3>1
    <2>3. QED
      BY <2>1, <2>2
  <1>11. \A i \in 1 .. m + 1 : Follows(Stream[i], Stream[i + 1])
    BY <1>1, <1>6, InOrderIs DEF OrderInv
  <1>12. ASSUME NEW i \in 1 .. m + n + 1
         PROVE  Follows(Stream'[i], Stream'[i + 1])
    <2>1. CASE i <= m
      <3>1. i \in 1 .. m + 1 /\ i + 1 \in 1 .. m + 1
        BY <1>1, <2>1
      <3>2. QED
        BY <1>9, <1>11, <3>1
    <2>2. CASE i = m + 1
      <3>1. Stream'[m + 1 + 1] = old + 1 - 1 /\ old + 1 - 1 = old
        BY <1>2, <1>10
      <3>2. Stream'[i + 1] = old /\ Stream[i + 1] = old /\ i \in 1 .. m + 1
        BY <1>1, <1>6, <2>2, <3>1
      <3>3. QED
        BY <1>9, <1>11, <3>2
    <2>3. CASE i > m + 1
      <3> DEFINE j == i - m - 1
      <3>1. /\ j \in 1 .. n /\ j \in 1 .. n + 1 /\ j + 1 \in 1 .. n + 1
            /\ i = m + 1 + j /\ i + 1 = m + 1 + (j + 1)
        BY <1>1, <1>2, <2>3
      <3>2. Stream'[i] = old + j - 1 /\ Stream'[i + 1] = old + (j + 1) - 1
        BY <1>10, <3>1
      <3>3. old + j - 1 \in Int /\ old + (j + 1) - 1 = (old + j - 1) + 1
        BY <1>2, <3>1
      <3>4. QED
        BY <3>2, <3>3, NextFollows
    <2>4. QED
      BY <1>1, <1>2, <2>1, <2>2, <2>3
  <1>13. Len(Stream') - 1 = m + n + 1
    BY <1>1, <1>2, <1>4, <1>7
  <1>14. QED
    BY <1>12, <1>13 DEF InOrderOrLapped, Follows

\* With the same ring and the same bytes sent, the stream is the same.
LEMMA SameStream ==
  ASSUME InOrderOrLapped, UNCHANGED <<ring, sent>>
  PROVE  InOrderOrLapped' /\ Count' = Count
  <1>1. Count' = Count /\ printed' = printed
    BY DEF Count, ring
  <1>2. Stream' = Stream
    BY <1>1 DEF Stream
  <1>3. QED
    BY <1>1, <1>2 DEF InOrderOrLapped

LEMMA SendHvxOrder ==
  ASSUME OrderInv, SendHvx, TxInv'
  PROVE  OrderInv'
  <1>1. pc' # "sendHvx"
    BY DEF SendHvx, AfterFalse, Resume
  <1>2. CASE sent' = sent \o chunk /\ tail' = SlotAt(Len(chunk))
    BY <1>1, <1>2, SentOrder DEF OrderInv, ChunkIsNext
  <1>3. CASE UNCHANGED <<queued, sent, tail>>
    <2>1. UNCHANGED <<ring, sent>>
      BY <1>3 DEF SendHvx, ring
    <2>2. QED
      BY <1>1, <2>1, SameStream DEF OrderInv, ChunkIsNext
  <1>4. QED
    BY <1>2, <1>3 DEF SendHvx

LEMMA SendCollectOrder ==
  ASSUME OrderInv, SendCollect, TxInv'
  PROVE  OrderInv'
  <1> DEFINE c == [i \in 1 .. ChunkLen |-> buffer[SlotAt(i - 1)]]
  <1>1. chunk' = c /\ UNCHANGED <<ring, sent>> /\ printed' = printed
    BY DEF SendCollect, ring
  <1>2. ChunkLen \in 1 .. Count /\ c \in Seq(1 .. MaxPrinted)
    BY ChunkType DEF SendCollect, OrderInv
  <1>3. Len(c) = ChunkLen /\ Count \in Nat
    BY <1>2, CountRange DEF OrderInv, TxInv, TypeOK, Slots
  <1>4. ASSUME NEW i \in 1 .. ChunkLen
        PROVE  c[i] = printed - Count + i
    <2>1. i \in 1 .. Count
      BY <1>2, <1>3
    <2>2. QED
      BY <2>1 DEF OrderInv, TxInv, RingHoldsLatest
  <1> HIDE DEF c
  <1>5. InOrderOrLapped' /\ Count' = Count
    BY <1>1, SameStream DEF OrderInv
  <1>6. QED
    BY <1>1, <1>3, <1>4, <1>5 DEF OrderInv, ChunkIsNext

\* Every other step leaves the ring, what was sent and the chunk in hand.
LEMMA OthersOrder ==
  ASSUME OrderInv, [Next]_vars, TxInv', ~PrintByte, ~SendHvx, ~SendCollect, ~Restart
  PROVE  OrderInv'
  <1>1. UNCHANGED <<ring, sent>>
    BY DEF Next, Thread, Link, SendReplData, RawData, CallPrint, CallSend, CallHook,
           HookReturns, HookRaises, PrintWaits, SendCheck, SendQuery, SendEmpty,
           SendOverruns, PyCheck, PyQuery, PyLen, RawCheck, RawQuery, RawHvx,
           CheckHandle, Query, QueryFails, Connected, Disconnected,
           ExchangeMtuRequest, CccdWrite, HvnTxComplete, ring, vars
  <1>2. pc' = "sendHvx" => pc = "sendHvx" /\ chunk' = chunk
    BY DEF Next, Thread, Link, SendReplData, RawData, CallPrint, CallSend, CallHook,
           HookReturns, HookRaises, PrintWaits, SendCheck, SendQuery, SendEmpty,
           SendOverruns, PyCheck, PyQuery, PyLen, RawCheck, RawQuery, RawHvx,
           CheckHandle, Query, QueryFails, Connected, Disconnected, AfterTrue, Resume,
           ExchangeMtuRequest, CccdWrite, HvnTxComplete, thread, vars
  <1>3. InOrderOrLapped' /\ Count' = Count /\ printed' = printed
    BY <1>1, SameStream DEF OrderInv, ring
  <1>4. QED
    BY <1>2, <1>3 DEF OrderInv, ChunkIsNext

LEMMA NextOrder == OrderInv /\ [Next]_vars => OrderInv'
  <1> SUFFICES ASSUME OrderInv, [Next]_vars PROVE OrderInv'
    OBVIOUS
  <1>1. TxInv'
    BY NextTxInv DEF OrderInv
  <1>2. QED
    BY <1>1, PrintByteOrder, SendHvxOrder, SendCollectOrder, RestartOrder, OthersOrder

(* Through every retry, reconnection and MTU change: what is handed to the *)
(* SoftDevice is in the order printed, no byte twice, and bytes go missing *)
(* only Size at a time, when head has lapped tail.                         *)
THEOREM TxInOrder == Spec => []InOrderOrLapped
  <1>1. OrderInv => InOrderOrLapped
    BY DEF OrderInv
  <1>2. QED
    BY <1>1, InitOrder, NextOrder, PTL DEF Spec
=============================================================================
