-------------------------------- MODULE BleTx --------------------------------
(***************************************************************************)
(* The transmit side of the BLE link: mp_hal_stdout_tx_strn fills the ring *)
(* repl_tx, ble_send_repl_data empties it into notifications, and          *)
(* ble_send_raw_data (bluetooth.send) drains it before a notification of   *)
(* its own.  All of these run on the main thread; the link changes under   *)
(* them, in SD_EVT_IRQHandler, between any two of their steps.             *)
(*                                                                         *)
(* A printed byte is modelled by its serial number, so that order and loss *)
(* can be seen in what is sent.  The thread's control is the pair pc (the  *)
(* point reached) and caller (who called ble_send_repl_data).  A print or  *)
(* a send made by a Python callback inside the event poll hook of another  *)
(* print is nested in it: its bytes are added to toPrint.                  *)
(***************************************************************************)
EXTENDS Integers, Sequences

CONSTANTS
  Size,         \* sizeof(repl_tx.buffer), 1024 in the code
  TxBufferLen,  \* BLE_PREFERRED_MAX_MTU, the length of tx_buffer, 256
  DefaultMtu,   \* payload of a notification before an MTU exchange, 20
  MaxMtu,       \* the largest payload an exchange can give, 253
  HvnQueueSize, \* hvn_tx_queue_size, 2
  MaxRaw,       \* longest buffer a program gives to bluetooth.send
  MaxPrinted    \* bound: bytes printed between two resets

ASSUME TxAssumption ==
  /\ Size \in Nat /\ Size >= 2
  /\ DefaultMtu \in Nat /\ MaxMtu \in Nat /\ TxBufferLen \in Nat
  /\ 0 < DefaultMtu /\ DefaultMtu <= MaxMtu /\ MaxMtu <= TxBufferLen
  /\ HvnQueueSize \in Nat \ {0}
  /\ MaxRaw \in Nat /\ MaxPrinted \in Nat

VARIABLES
  buffer, head, tail,  \* repl_tx
  printed,     \* history: how many bytes were put in the ring
  sent,        \* history: the bytes handed to the SoftDevice, in order
  toPrint,     \* bytes that calls of mp_hal_stdout_tx_strn have still to put
  pc, caller,  \* where the main thread is
  chunk,       \* tx_buffer[0 .. tx_length - 1]
  rawLen,      \* length of the buffer given to bluetooth.send
  connected,   \* ble_handles.connection # BLE_CONN_HANDLE_INVALID
  notify,      \* the CCCDs the central has set to notify
  mtu,         \* ble_negotiated_mtu
  attMtu,      \* the payload this connection really carries
  queued       \* notifications queued in the SoftDevice

ring == <<buffer, head, tail, printed>>
thread == <<toPrint, pc, caller, chunk, rawLen>>
link == <<connected, notify, mtu, attMtu, queued>>
vars == <<ring, sent, thread, link>>

Slots == 0 .. Size - 1
Channels == {"repl", "data"}
\* Mutant: the wrap comes one index late.
AdvanceLateWrap(i) == IF i = Size THEN 0 ELSE i + 1
Advance(i) == IF i + 1 = Size THEN 0 ELSE i + 1
Count == IF head >= tail THEN head - tail ELSE Size - tail + head
Smaller(m, n) == IF m < n THEN m ELSE n

TypeOK ==
  /\ buffer \in [Slots -> 0 .. MaxPrinted]
  /\ head \in Slots
  /\ tail \in Slots
  /\ printed \in 0 .. MaxPrinted
  /\ sent \in Seq(1 .. MaxPrinted)
  /\ toPrint \in 0 .. MaxPrinted
  /\ pc \in {"idle", "print", "sendCheck", "sendQuery", "sendCollect", "sendHvx",
             "pending", "pyCheck", "pyQuery", "pyLen", "rawCheck", "rawQuery", "rawHvx"}
  /\ caller \in {"hook", "raw"}
  /\ chunk \in Seq(1 .. MaxPrinted)
  /\ rawLen \in 0 .. MaxRaw
  /\ connected \in BOOLEAN
  /\ notify \subseteq Channels
  /\ mtu \in 0 .. MaxMtu
  /\ attMtu \in DefaultMtu .. MaxMtu
  /\ queued \in 0 .. HvnQueueSize

Init ==
  /\ buffer = [i \in Slots |-> 0]
  /\ head = 0
  /\ tail = 0
  /\ printed = 0
  /\ sent = << >>
  /\ toPrint = 0
  /\ pc = "idle"
  /\ caller = "hook"
  /\ chunk = << >>
  /\ rawLen = 0
  /\ connected = FALSE
  /\ notify = {}
  /\ mtu = 0
  /\ attMtu = DefaultMtu
  /\ queued = 0

\* app_err resets the chip (or memory past tx_buffer was overwritten and it
\* faults): the link goes down and RAM starts again.
Restart ==
  /\ buffer' = [i \in Slots |-> 0]
  /\ head' = 0
  /\ tail' = 0
  /\ printed' = 0
  /\ sent' = << >>
  /\ toPrint' = 0
  /\ pc' = "idle"
  /\ caller' = "hook"
  /\ chunk' = << >>
  /\ rawLen' = 0
  /\ connected' = FALSE
  /\ notify' = {}
  /\ mtu' = 0
  /\ attMtu' = DefaultMtu
  /\ queued' = 0

-----------------------------------------------------------------------------
(* What Python code asks for.  Program is where its next request starts:   *)
(* between calls, or in a callback that mp_handle_pending runs.            *)

Program == pc \in {"idle", "pending"}
Resume == IF toPrint > 0 THEN "print" ELSE "idle"

\* print(), or any other output: mp_hal_stdout_tx_strn(str, n).
CallPrint ==
  /\ Program
  /\ \E n \in 1 .. MaxPrinted - printed - toPrint : toPrint' = toPrint + n
  /\ pc' = "print"
  /\ UNCHANGED <<ring, sent, caller, chunk, rawLen, link>>

\* bluetooth.send(buffer)
CallSend ==
  /\ Program
  /\ rawLen' \in 1 .. MaxRaw
  /\ pc' = "pyCheck"
  /\ UNCHANGED <<ring, sent, toPrint, caller, chunk, link>>

\* MICROPY_EVENT_POLL_HOOK from a wait: reading stdin, sleeping, flash busy.
CallHook ==
  /\ pc = "idle"
  /\ pc' = "sendCheck"
  /\ caller' = "hook"
  /\ UNCHANGED <<ring, sent, toPrint, chunk, rawLen, link>>

\* The hook's wait is over: nothing was pending, or a callback is done.
HookReturns ==
  /\ pc = "pending"
  /\ pc' = Resume
  /\ UNCHANGED <<ring, sent, toPrint, caller, chunk, rawLen, link>>

\* mp_handle_pending raises: every print in progress is abandoned.
HookRaises ==
  /\ pc = "pending"
  /\ pc' = "idle"
  /\ toPrint' = 0
  /\ UNCHANGED <<ring, sent, caller, chunk, rawLen, link>>

-----------------------------------------------------------------------------
(* mp_hal_stdout_tx_strn                                                   *)

\* Mutant: no test for room.
RingNeverFull == FALSE

\* repl_tx.head == repl_tx.tail - 1, computed in int: -1 when tail is 0.
RingFull == head = tail - 1

PrintWaits ==
  /\ pc = "print"
  /\ RingFull
  /\ pc' = "sendCheck"
  /\ caller' = "hook"
  /\ UNCHANGED <<ring, sent, toPrint, chunk, rawLen, link>>

\* Mutant: head is moved before the byte is stored.
PrintByteAfterHead ==
  /\ pc = "print"
  /\ ~RingFull
  /\ buffer' = [buffer EXCEPT ![Advance(head)] = printed + 1]
  /\ head' = Advance(head)
  /\ printed' = printed + 1
  /\ toPrint' = toPrint - 1
  /\ pc' = IF toPrint = 1 THEN "idle" ELSE "print"
  /\ UNCHANGED <<tail, sent, caller, chunk, rawLen, link>>

PrintByte ==
  /\ pc = "print"
  /\ ~RingFull
  /\ buffer' = [buffer EXCEPT ![head] = printed + 1]
  /\ head' = Advance(head)
  /\ printed' = printed + 1
  /\ toPrint' = toPrint - 1
  /\ pc' = IF toPrint = 1 THEN "idle" ELSE "print"
  /\ UNCHANGED <<tail, sent, caller, chunk, rawLen, link>>

-----------------------------------------------------------------------------
(* ble_are_tx_notifications_enabled, in its two steps: test the handle,    *)
(* then ask the SoftDevice with the handle read again.                     *)

CheckHandle(at, valid, invalid) ==
  /\ pc = at
  /\ pc' = IF connected THEN valid ELSE invalid
  /\ UNCHANGED <<ring, sent, toPrint, caller, chunk, rawLen, link>>

Query(at, channel, enabled, disabled) ==
  /\ pc = at
  /\ connected
  /\ pc' = IF channel \in notify THEN enabled ELSE disabled
  /\ UNCHANGED <<ring, sent, toPrint, caller, chunk, rawLen, link>>

\* The handle became BLE_CONN_HANDLE_INVALID since the test: the query of a
\* system attribute fails, and app_err does not return.
QueryFails(at) ==
  /\ pc = at
  /\ ~connected
  /\ Restart

\* sd_ble_gatts_hvx accepts a notification of n bytes on the channel.
HvxAccepts(channel, n) ==
  /\ connected
  /\ channel \in notify
  /\ n <= attMtu
  /\ queued < HvnQueueSize

-----------------------------------------------------------------------------
(* ble_send_repl_data: AfterTrue and AfterFalse are where its callers go   *)
(* on when it returns.                                                     *)

AfterTrue == IF caller = "raw" THEN "rawHvx" ELSE "pending"
AfterFalse == IF caller = "raw" THEN "sendCheck" ELSE Resume

SendCheck == CheckHandle("sendCheck", "sendQuery", AfterTrue)
SendQuery ==
  \/ Query("sendQuery", "repl", "sendCollect", AfterTrue)
  \/ QueryFails("sendQuery")

SendEmpty ==
  /\ pc = "sendCollect"
  /\ head = tail
  /\ pc' = AfterTrue
  /\ UNCHANGED <<ring, sent, toPrint, caller, chunk, rawLen, link>>

\* Mutant: the copy does not stop at the MTU.
ChunkLenIgnoresMtu == Count

\* The copy stops at ble_negotiated_mtu bytes, or, while no MTU was ever
\* exchanged, only when the ring is copied.
ChunkLen == IF mtu = 0 THEN Count ELSE Smaller(Count, mtu)
SlotAt(i) == IF tail + i < Size THEN tail + i ELSE tail + i - Size

SendCollect ==
  /\ pc = "sendCollect"
  /\ head # tail
  /\ chunk' = [i \in 1 .. ChunkLen |-> buffer[SlotAt(i - 1)]]
  /\ pc' = "sendHvx"
  /\ UNCHANGED <<ring, sent, toPrint, caller, rawLen, link>>

\* More than tx_buffer holds: the copy runs over the stack.  What follows is
\* undefined; SendCollect is the outcome that survives, this the other.
SendOverruns ==
  /\ pc = "sendCollect"
  /\ ChunkLen > TxBufferLen
  /\ Restart

\* Mutant: tail moves on whether or not the SoftDevice took the bytes.
SendHvxCommitsAlways ==
  /\ pc = "sendHvx"
  /\ \/ /\ HvxAccepts("repl", Len(chunk))
        /\ queued' = queued + 1
        /\ sent' = sent \o chunk
     \/ /\ ~HvxAccepts("repl", Len(chunk))
        /\ UNCHANGED <<queued, sent>>
  /\ tail' = SlotAt(Len(chunk))
  /\ chunk' = << >>
  /\ pc' = AfterFalse
  /\ UNCHANGED <<buffer, head, printed, toPrint, caller, rawLen,
                 connected, notify, mtu, attMtu>>

SendHvx ==
  /\ pc = "sendHvx"
  /\ \/ /\ HvxAccepts("repl", Len(chunk))
        /\ queued' = queued + 1
        /\ sent' = sent \o chunk
        /\ tail' = SlotAt(Len(chunk))
     \/ /\ ~HvxAccepts("repl", Len(chunk))
        /\ UNCHANGED <<queued, sent, tail>>
  /\ chunk' = << >>
  /\ pc' = AfterFalse
  /\ UNCHANGED <<buffer, head, printed, toPrint, caller, rawLen,
                 connected, notify, mtu, attMtu>>

SendReplData == SendCheck \/ SendQuery \/ SendEmpty \/ SendCollect \/ SendOverruns \/ SendHvx

-----------------------------------------------------------------------------
(* bluetooth_send, then ble_send_raw_data.  Whatever goes wrong raises an  *)
(* exception that ends the call: of the program, or of the callback alone. *)

PyCheck == CheckHandle("pyCheck", "pyQuery", Resume)
PyQuery ==
  \/ Query("pyQuery", "data", "pyLen", Resume)
  \/ QueryFails("pyQuery")

\* array.len > ble_get_max_payload_size() raises ValueError.
PyLen ==
  /\ pc = "pyLen"
  /\ pc' = IF rawLen > mtu THEN Resume ELSE "rawCheck"
  /\ UNCHANGED <<ring, sent, toPrint, caller, chunk, rawLen, link>>

RawCheck == CheckHandle("rawCheck", "rawQuery", Resume)

\* Enabled: go on with "while (ble_send_repl_data() == false)".
RawQuery ==
  \/ /\ pc = "rawQuery"
     /\ connected
     /\ pc' = IF "data" \in notify THEN "sendCheck" ELSE Resume
     /\ caller' = "raw"
     /\ UNCHANGED <<ring, sent, toPrint, chunk, rawLen, link>>
  \/ QueryFails("rawQuery")

RawHvx ==
  /\ pc = "rawHvx"
  /\ queued' = IF HvxAccepts("data", rawLen) THEN queued + 1 ELSE queued
  /\ pc' = Resume
  /\ rawLen' = 0
  /\ UNCHANGED <<ring, sent, toPrint, caller, chunk, connected, notify, mtu, attMtu>>

RawData == PyCheck \/ PyQuery \/ PyLen \/ RawCheck \/ RawQuery \/ RawHvx

Thread ==
  \/ CallPrint \/ CallSend \/ CallHook \/ HookReturns \/ HookRaises
  \/ PrintWaits \/ PrintByte \/ SendReplData \/ RawData

-----------------------------------------------------------------------------
(* The link: BLE events, each handled whole by SD_EVT_IRQHandler before    *)
(* the main thread takes another step.                                     *)

\* sd_ble_gatts_sys_attr_set(NULL) clears the CCCDs.  ble_negotiated_mtu
\* keeps the value of the connection before.
Connected ==
  /\ ~connected
  /\ connected' = TRUE
  /\ notify' = {}
  /\ attMtu' = DefaultMtu
  /\ queued' = 0
  /\ UNCHANGED <<ring, sent, thread, mtu>>

Disconnected ==
  /\ connected
  /\ connected' = FALSE
  /\ notify' = {}
  /\ attMtu' = DefaultMtu
  /\ queued' = 0
  /\ UNCHANGED <<ring, sent, thread, mtu>>

\* A central asks once per connection; the smaller of the two sizes is used.
ExchangeMtuRequest ==
  /\ connected
  /\ attMtu = DefaultMtu
  /\ \E m \in DefaultMtu .. MaxMtu :
       /\ mtu' = m
       /\ attMtu' = m
  /\ UNCHANGED <<ring, sent, thread, connected, notify, queued>>

\* The central writes a CCCD; the SoftDevice stores it.
CccdWrite ==
  /\ connected
  /\ \E c \in Channels :
       notify' \in {notify \cup {c}, notify \ {c}}
  /\ UNCHANGED <<ring, sent, thread, connected, mtu, attMtu, queued>>

\* BLE_GATTS_EVT_HVN_TX_COMPLETE
HvnTxComplete ==
  /\ queued > 0
  /\ queued' = queued - 1
  /\ UNCHANGED <<ring, sent, thread, connected, notify, mtu, attMtu>>

Link == Connected \/ Disconnected \/ ExchangeMtuRequest \/ CccdWrite \/ HvnTxComplete

Next == Thread \/ Link

Spec == Init /\ [][Next]_vars

\* The processor keeps executing a call, and the radio gets queued
\* notifications out.  A callback run in the hook may make calls of its own
\* but ends some time: strong fairness.  sd_app_evt_wait ends within a tick of
\* the 1024 Hz clock.  Nothing is assumed of the central.
Fairness ==
  /\ WF_vars(PrintWaits \/ PrintByte \/ SendReplData \/ RawData)
  /\ SF_vars(HookReturns \/ HookRaises)
  /\ WF_vars(HvnTxComplete)

FairSpec == Spec /\ Fairness

-----------------------------------------------------------------------------
(* Properties.                                                             *)

\* The bytes sent, between the one before the first and the next in line.
Stream == <<0>> \o sent \o <<printed - Count + 1>>

(* What is handed to the SoftDevice is what was printed, in that order and *)
(* no byte twice, through every retry, reconnection and MTU change; bytes  *)
(* go missing only when head laps tail, and then Size of them at once.     *)
InOrderOrLapped ==
  \A i \in 1 .. Len(Stream) - 1 :
    /\ Stream[i] < Stream[i + 1]
    /\ (Stream[i + 1] - Stream[i] - 1) % Size = 0

(* The bytes that wait in repl_tx are the last ones printed, oldest at     *)
(* tail: no step of the sender disturbs what the printer has put there.    *)
RingHoldsLatest ==
  \A k \in 1 .. Count : buffer[SlotAt(k - 1)] = printed - Count + k

(* The test repl_tx.head == repl_tx.tail - 1 keeps the printer off unsent  *)
(* bytes whenever tail is not 0: only from there can a print empty the     *)
(* ring.                                                                   *)
LapsOnlyAtZero ==
  [][ (Count' < Count /\ tail' = tail) => tail = 0 ]_vars

(* With the REPL subscribed on a connection whose MTU was exchanged, a     *)
(* print that waits for room gets it, and bluetooth.send comes to its end: *)
(* neither busy loop spins for ever.                                       *)
GoodLink == connected /\ "repl" \in notify /\ mtu \in 1 .. attMtu
CallsReturn ==
  <>[]GoodLink => /\ (pc = "print") ~> (pc = "idle")
                  /\ (pc = "pyCheck") ~> (pc \in {"idle", "print"})

\* Step by which raw data is handed to the SoftDevice.
RawAccepted == pc = "rawHvx" /\ queued' > queued

(* "Send all REPL data before sending raw data" (main.c:226): when raw     *)
(* data is accepted with the ring empty, every byte printed has been sent. *)
EmptyMeansAllSent ==
  [][ (RawAccepted /\ head = tail) => Stream[Len(Stream) - 1] = printed ]_vars
=============================================================================
