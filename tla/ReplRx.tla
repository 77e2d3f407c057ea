------------------------------- MODULE ReplRx -------------------------------
(***************************************************************************)
(* The REPL receive path of main.c.  The producer is the body of           *)
(* SD_EVT_IRQHandler for a write to the REPL RX characteristic; the        *)
(* consumer is mp_hal_stdin_rx_chr, called by MicroPython on the main      *)
(* thread.  They share the ring repl_rx without a lock: the handler owns   *)
(* head, the thread owns tail.                                             *)
(*                                                                         *)
(* The handler is an interrupt.  It can start between any two steps of the *)
(* main thread and then runs to its end before the thread takes another    *)
(* step, so every action of the thread is guarded by HandlerIdle, and the  *)
(* handler takes one step per byte of the packet.                          *)
(***************************************************************************)
EXTENDS Integers, Sequences

CONSTANTS
  Size,         \* sizeof(repl_rx.buffer), 1024 in the code
  Byte,         \* the values of a byte
  NullByte,     \* 0, what the buffer holds at start-up
  CtrlC,        \* the byte MicroPython uses as interrupt character
  SafeModeKey,  \* 0x1C, the safe mode signal
  NoByte,       \* no byte: nothing read yet, or no interrupt character set
  MaxPacket     \* the longest write the host sends

ASSUME SizeAssumption == Size \in Nat /\ Size >= 2
ASSUME ByteAssumption ==
  /\ {NullByte, CtrlC, SafeModeKey} \subseteq Byte
  /\ CtrlC # SafeModeKey
  /\ NoByte \notin Byte
ASSUME PacketAssumption == MaxPacket \in Nat

VARIABLES
  buffer, head, tail,  \* repl_rx
  packet,         \* the bytes of the write the handler has still to process
  interruptChar,  \* mp_interrupt_char
  pending,        \* a KeyboardInterrupt is scheduled for the main thread
  pc,             \* where mp_hal_stdin_rx_chr is; "idle" when nobody calls it
  next,           \* its local next
  character,      \* its local character
  last            \* what its latest call returned

ring == <<buffer, head, tail>>
reader == <<pc, next, character, last>>
vars == <<ring, packet, interruptChar, pending, reader>>

Slots == 0 .. Size - 1
Packets == UNION {[1 .. n -> Byte] : n \in 1 .. MaxPacket}

TypeOK ==
  /\ buffer \in [Slots -> Byte]
  /\ head \in Slots
  /\ tail \in Slots
  /\ packet \in Seq(Byte)
  /\ interruptChar \in {CtrlC, NoByte}
  /\ pending \in BOOLEAN
  /\ pc \in {"idle", "check", "hook", "load", "commit"}
  /\ next \in Slots
  /\ character \in Byte
  /\ last \in Byte \cup {NoByte}

\* Mutant: the wrap comes one index late.
AdvanceLateWrap(i) == IF i = Size THEN 0 ELSE i + 1

\* The index after i, wrapped the way both sides wrap it.
Advance(i) == IF i + 1 = Size THEN 0 ELSE i + 1

Init ==
  /\ buffer = [i \in Slots |-> NullByte]
  /\ head = 0
  /\ tail = 0
  /\ packet = << >>
  /\ interruptChar = NoByte
  /\ pending = FALSE
  /\ pc = "idle"
  /\ next = 0
  /\ character = NullByte
  /\ last = NoByte

-----------------------------------------------------------------------------
(* The handler: one BLE_GATTS_EVT_WRITE, byte by byte.                     *)

HandlerIdle == packet = << >>
\* Mutant: no test for room.
RingNeverFull == FALSE
RingFull == Advance(head) = tail

\* The host writes to the REPL RX characteristic and the handler starts.
HostWrite ==
  /\ HandlerIdle
  /\ packet' \in Packets
  /\ UNCHANGED <<ring, interruptChar, pending, reader>>

\* No room: the handler leaves its loop, and the rest of the packet is gone.
RxFull ==
  /\ ~HandlerIdle
  /\ RingFull
  /\ packet' = << >>
  /\ UNCHANGED <<ring, interruptChar, pending, reader>>

\* monocle_enter_safe_mode resets the chip: RAM, and with it all of this
\* module's state, starts again from its initial values.
RxSafeMode ==
  /\ ~HandlerIdle
  /\ ~RingFull
  /\ Head(packet) = SafeModeKey
  /\ buffer' = [i \in Slots |-> NullByte]
  /\ head' = 0
  /\ tail' = 0
  /\ next' = 0
  /\ packet' = << >>
  /\ interruptChar' = NoByte
  /\ pending' = FALSE
  /\ pc' = "idle"
  /\ character' = NullByte
  /\ last' = NoByte

\* The interrupt character is not stored, but head moves all the same.
RxInterrupt ==
  /\ ~HandlerIdle
  /\ ~RingFull
  /\ Head(packet) # SafeModeKey
  /\ Head(packet) = interruptChar
  /\ pending' = TRUE
  /\ head' = Advance(head)
  /\ packet' = Tail(packet)
  /\ UNCHANGED <<buffer, tail, interruptChar, reader>>

RxStore ==
  /\ ~HandlerIdle
  /\ ~RingFull
  /\ Head(packet) \notin {SafeModeKey, interruptChar}
  /\ buffer' = [buffer EXCEPT ![head] = Head(packet)]
  /\ head' = Advance(head)
  /\ packet' = Tail(packet)
  /\ UNCHANGED <<tail, interruptChar, pending, reader>>

Handler == RxFull \/ RxSafeMode \/ RxInterrupt \/ RxStore

-----------------------------------------------------------------------------
(* The main thread.                                                        *)

CallRead ==
  /\ HandlerIdle
  /\ pc = "idle"
  /\ pc' = "check"
  /\ UNCHANGED <<ring, packet, interruptChar, pending, next, character, last>>

\* Mutant: the ring counts as empty with one byte in it.
CheckEmptyOffByOne ==
  /\ HandlerIdle
  /\ pc = "check"
  /\ pc' = IF head = Advance(tail) THEN "hook" ELSE "load"
  /\ UNCHANGED <<ring, packet, interruptChar, pending, next, character, last>>

\* while (repl_rx.head == repl_rx.tail) { MICROPY_EVENT_POLL_HOOK; }
CheckEmpty ==
  /\ HandlerIdle
  /\ pc = "check"
  /\ pc' = IF head = tail THEN "hook" ELSE "load"
  /\ UNCHANGED <<ring, packet, interruptChar, pending, next, character, last>>

\* The hook comes back with nothing raised: nothing was pending, or
\* ble_send_repl_data was busy and mp_handle_pending was not reached.
HookReturns ==
  /\ HandlerIdle
  /\ pc = "hook"
  /\ pc' = "check"
  /\ UNCHANGED <<ring, packet, interruptChar, pending, next, character, last>>

\* mp_handle_pending raises KeyboardInterrupt, out of the hook or, when the
\* thread runs Python code, out of the interpreter loop.
RaiseInterrupt ==
  /\ HandlerIdle
  /\ pc \in {"idle", "hook"}
  /\ pending
  /\ pending' = FALSE
  /\ pc' = "idle"
  /\ UNCHANGED <<ring, packet, interruptChar, next, character, last>>

Load ==
  /\ HandlerIdle
  /\ pc = "load"
  /\ next' = Advance(tail)
  /\ character' = buffer[tail]
  /\ pc' = "commit"
  /\ UNCHANGED <<ring, packet, interruptChar, pending, last>>

\* Mutant: the slot is not given back.
CommitKeepsTail ==
  /\ HandlerIdle
  /\ pc = "commit"
  /\ last' = character
  /\ pc' = "idle"
  /\ UNCHANGED <<ring, packet, interruptChar, pending, next, character>>

Commit ==
  /\ HandlerIdle
  /\ pc = "commit"
  /\ tail' = next
  /\ last' = character
  /\ pc' = "idle"
  /\ UNCHANGED <<buffer, head, packet, interruptChar, pending, next, character>>

\* MicroPython sets the interrupt character while a program runs and clears
\* it while it edits a line.
SetInterruptChar ==
  /\ HandlerIdle
  /\ pc = "idle"
  /\ interruptChar' \in {CtrlC, NoByte}
  /\ UNCHANGED <<ring, packet, pending, reader>>

Reader == CallRead \/ CheckEmpty \/ HookReturns \/ RaiseInterrupt \/ Load \/ Commit

Next == HostWrite \/ Handler \/ Reader \/ SetInterruptChar

Spec == Init /\ [][Next]_vars

\* A call in progress keeps running, and the handler always comes to its end.
\* Packets arrive a connection interval (15 ms) apart and are handled in
\* microseconds, so the thread is never shut out for good: strong fairness.
Fairness ==
  /\ WF_vars(Handler)
  /\ SF_vars(CheckEmpty)
  /\ SF_vars(HookReturns \/ RaiseInterrupt)
  /\ SF_vars(Load)
  /\ SF_vars(Commit)

FairSpec == Spec /\ Fairness

-----------------------------------------------------------------------------
(* Properties.                                                             *)

\* How many bytes wait in the ring, and the i-th of them.
Count == IF head >= tail THEN head - tail ELSE Size - tail + head
Slot(i) == IF tail + i - 1 < Size THEN tail + i - 1 ELSE tail + i - 1 - Size
Contents == [i \in 1 .. Count |-> buffer[Slot(i)]]

(* mp_hal_stdin_rx_chr reads a byte in one step and gives its slot back in *)
(* a later one.  In between the handler may run any number of times and    *)
(* must not have reached the slot: the byte held is still the oldest one   *)
(* unread.                                                                 *)
ReaderHoldsOldest ==
  pc = "commit" => /\ head # tail
                   /\ next = Advance(tail)
                   /\ character = buffer[tail]

(* The ring is a FIFO of Size - 1 bytes: the handler's steps put one byte  *)
(* at the end or nothing, and what mp_hal_stdin_rx_chr returns is the byte *)
(* at the front.                                                           *)
Fifo == INSTANCE ByteFifo WITH
          Capacity <- Size - 1, queue <- Contents, last <- last
FifoSpec == Fifo!Spec

(* A call of mp_hal_stdin_rx_chr that has a byte to return does return, or *)
(* is ended by KeyboardInterrupt or a reset: the spin on head == tail      *)
(* cannot miss the byte.                                                   *)
ReadReturns == (pc \in {"check", "hook"} /\ head # tail) ~> (pc = "idle")

(* What the handler's comments say: an interrupt character is caught, and  *)
(* only other characters are added to the ring (main.c:475, main.c:482).   *)
InterruptIsNotStored ==
  [][ (~HandlerIdle /\ Head(packet) = interruptChar) => Contents' = Contents ]_vars
=============================================================================
