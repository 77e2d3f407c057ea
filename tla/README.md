# TLA+ models of the Monocle firmware

The repository is the firmware of the Monocle AR device: MicroPython on an
nRF52832 with Nordic's SoftDevice, plus keyword spotting on TensorFlow Lite
Micro. This directory holds TLA+ models of its own concurrent and stateful
parts, the TLC runs that check them and the proofs TLAPS checks.

    tlc -config ReplRx.cfg ReplRx        # one run; PROJECT.json lists them all
    tlapm ReplRx_proofs.tla              # the proofs of ReplRx; seven more modules end in _proofs

## 1. The system

One thread, the *main thread*, runs start-up, then MicroPython and the C
functions of `modules/`. Interrupt handlers run between any two of its
instructions and to their end: `SD_EVT_IRQHandler` (BLE events), the 0.5 s
timer's `check_if_battery_charging_and_sleep`, and the touch interrupt. The
last two have the same priority and do not nest. There are no locks; what the
handlers and the thread share, they share through plain variables, and through
the I2C bus. Every wait of the thread calls `mp_event_poll_hook`, which sends
REPL data and runs scheduled callbacks, and from which `KeyboardInterrupt` can
be raised. `app_err` answers any failed call with a reset of the chip: RAM and
peripherals start again, while the PMIC, the flash and the GPREGRET register
keep their state.

| part | code | state | operations | talks to |
|---|---|---|---|---|
| REPL receive | `main.c` | `repl_rx` ring, pending interrupt | write event, `mp_hal_stdin_rx_chr` | handler to thread through the ring |
| REPL and raw transmit | `main.c`, `bluetooth.c` | `repl_tx` ring, connection, CCCDs, MTU | print, `ble_send_repl_data`, `bluetooth.send`, link events | thread to SoftDevice; handler changes the link |
| FPGA update | `update.c`, `monocle-drivers.c` | flash, `fpga_app_programmed_bytes` | erase, write, boot | thread to flash, through waits that poll the hook |
| power | `monocle-critical.c`, `device.c`, `fpga.c` | PMIC rails, SPI driver, flags | start-up, FPGA reset, sleep, safe mode | thread, timer interrupt, resets |
| I2C access | `monocle-drivers.c` | PMIC registers and pointer | masked read and write, 3 tries | thread and both interrupts on one bus |
| block device | `storage.c` | range on the flash | read, write, erase blocks | a script's file system to flash |
| touch, callbacks | `touch.c`, `bluetooth.c`, `main.c` | callback variables, scheduler queue, the thread's stack | event, schedule, run, set, collect, soft reboot | interrupt to thread, through the hook |
| time | `mphalport.c`, `time.c` | 24 bit counter, `time_at_boot_s` | ticks, delay, get and set | scripts; a delay runs the hook |
| microphone, camera, display | `microphone.c`, `camera.py`, `display.py` | FPGA FIFOs and frame buffers | record, read, capture, show | thread to FPGA over SPI |
| keyword spotting | `kws_helper.cc` | interpreter and its status | allocate, fill, invoke, read | thread to TFLM |
| TFLM | `tensorflow/lite/micro`: arena, planner, allocator, graph, control flow kernels | tensor arena, scratch requests, plan, graph | allocate, prepare, plan, invoke | kernels to the allocator |

What makes each part correct, and what is hard about it:

- *Receive*: bytes come out in the order they came in. The handler may run
  between reading a byte and giving its slot back.
- *Transmit*: what is printed is sent once and in order, across refused
  notifications, reconnections and MTU changes; waiting for room ends.
- *Update*: an update that ends leaves a whole image, one that is cut does not
  boot. Interrupts and resets come between any two flash commands.
- *Power*: rails in order and all off in sleep, although the sleep interrupt or
  a reset may cut any sequence; safe mode survives resets; a device on the
  charger goes to sleep.
- *I2C*: a masked write changes only the masked bits, although an access is
  three transfers and interrupts use the bus between them.
- *Block device*: a call changes no block but its own, and a write that succeeds
  is read back, although it can be cut between its commands, and the hook of
  its waits may run a callback that starts an FPGA update, or the other way round.
- *Callbacks*: what the scheduler accepted is run, and Ctrl-C is raised,
  wherever the thread waits; callbacks with delays nest in delays.
- *Time*: a delay lasts what was asked and ends, and the clock keeps the time it
  was set to, although ticks become milliseconds through a float.
- *TFLM*: live buffers never overlap; a buffer of the outer graph outlives every
  subgraph called under it; one arena serves persistent, temporary and planned
  buffers, and being too small must be noticed before anything is overwritten.

`PROJECT.json` lists every component and, under `hazards`, the places where
these things can go wrong, with the properties that cover them.

## 2. The modules

| module | models | properties of the passing run |
|---|---|---|
| `ReplRx` | receive ring | `ReaderHoldsOldest`, `FifoSpec`, `ReadReturns` |
| `ByteFifo` | the abstract FIFO `ReplRx` implements | |
| `BleTx` | transmit ring, senders, link | `InOrderOrLapped`, `RingHoldsLatest`, `LapsOnlyAtZero`, `CallsReturn` |
| `Flash` | flash chip and chunk arithmetic | |
| `FpgaUpdate` (on `Flash`) | erase, write, boot choice | `FinishedImageIsWhole`, `AcceptedIsProgrammed`, `NothingSpoiled`, `BootAfterWrite` |
| `Power` | rails, SPI, sleep, safe mode | `RailOrder`, `SleepIsDark`, `PythonHasPower`, `FlagTellsState`, `SafeModeHonoured`, `GoesToSleep` |
| `TwiBus` | register access on the PMIC's bus | `RequestedBitsSet`, `UndisturbedWriteMerges`, `AccessEnds` |
| `Storage` (on `Flash`) | the block device | |
| `BlockStore` | what a block device promises; `Storage` implements it | |
| `FlashUsers` (on `FpgaUpdate`, `Storage`) | both on one flash and one thread | those of `FpgaUpdate`, `DeviceSpec`, `AllTypeOK` |
| `DeviceTime` | counter, milliseconds, wall clock | `ClockKeepsTime` |
| `Callbacks` (on `DeviceTime`) | events, scheduler, hook, delays, collection, reboot | `DelayLasts`, `DelayEnds`, `PendingIsHandled` |
| `GreedyPlanner` | the planner's search through its list | `PlanIsSound` |
| `Arena` | head, temporary and tail allocations | |
| `MicroAllocator` (on both) | `AllocateTensors` | `AllocatedIsWhole`, `AllocateReturns` |
| `Interpreter` (on `MicroAllocator`) | invocation, and the client's loop | `NothingTorn`, `UndefinedOnlyWhenShort` |
| `ReplRx_proofs`, `BleTx_proofs`, `Power_proofs`, `FlashUsers_proofs`, `Callbacks_proofs`, `Interpreter_proofs`, `AllocatedIsWhole_proofs`, `NothingTorn_proofs` | theorems about these modules; `Power_proofs` has those about `TwiBus` too, `Interpreter_proofs` and the two after it are one development | |

`MCFlashUsers`, `MCCallbacks` and `MCInterpreter` give the constants of the
modules they are named after the values that a `.cfg` cannot write. `Flash`,
`Storage`, `Arena` and `MicroAllocator` have no specification of their own: the
modules above them put their actions together.

How state and actions correspond to the code (`map` in `PROJECT.json` gives the
lines):

**ReplRx.** `buffer`, `head`, `tail` are `repl_rx`. A write event is the
sequence `packet`, processed by one action per byte (`RxFull`, `RxSafeMode`,
`RxInterrupt`, `RxStore`, the branches of the handler's loop). While `packet`
is not empty the handler runs and no action of the thread is enabled. The
thread is `pc`: `CallRead`, `CheckEmpty`, the hook, `Load` (read the byte into
`character`) and `Commit` (write `tail`).

**BleTx.** A byte is its serial number, so `sent` shows order and loss. `pc`
walks through `mp_hal_stdout_tx_strn`, `ble_send_repl_data`, `bluetooth_send`
and `ble_send_raw_data`; `caller` says who called `ble_send_repl_data`. The two
steps of `ble_are_tx_notifications_enabled` are separate actions, because the
connection can go between them. A callback that prints inside the hook of a
print is nested; its bytes join `toPrint`. Link events are whole actions.

**FpgaUpdate.** One action per flash command, per call and per return.
`HookRaises` is KeyboardInterrupt out of a wait for the flash; `Reset` may
leave a program command partly done. The updater at the other end of the REPL
is external: it erases, sends pieces, repeats an interrupted piece, starts over.

**Power.** Each routine is the sequence of its steps (`StartUp`, `BootFpga`,
`HoldFpga`, `Sleep`, `Later`), and each thread of control is what it has left
to do (`todo`, `isr`). The interrupt starts between any two steps of the main
thread. The C calls of a sequence are one step each. I2C failures are `Reset`.
`Waits` are the places where a routine polls the event hook. There
KeyboardInterrupt can end the call (`Interrupted`), or a callback run
(`CallbackStarts`): `outer` is then what the call has left, the callback makes
the calls that a script can make, KeyboardInterrupt included, and
`CallbackReturns` goes on. Callbacks do not nest, as the scheduler is locked.

**TwiBus.** `address`, `read` and `write` are the transfers of an access; each
has a step that starts it and one that ends it, with or without an
acknowledgement. The charge check is one action, since nothing interrupts it; a
handler that finds a transfer in flight resets the chip.

**Storage and FlashUsers.** A call is a record with the step it is at and the
address it works on; there is one action per call and per flash command.
`StorageRaises` is KeyboardInterrupt in a wait, `CutPart` what a reset leaves of
a program command. `FlashUsers` has one thread with two calls at most: `top` is
the innermost, and a call of one side starts while none runs or while a call of
the other side waits for the flash. The device given to `storage_make_new` is
chosen at the start; refused ones are not built.

**DeviceTime and Callbacks.** `Milliseconds` computes what `mp_hal_ticks_ms`
computes: the product rounded to a float, then cut; a float shows every integer
below `FloatLimit`. The thread is the stack `frames` above the script: a delay
(at its test, in its hook, or waiting for an event) and a callback. `RunCallback` and `Raise` are
`mp_handle_pending`; an interrupt wakes a delay that waits. `HookIsBusy` is the
hook while `ble_send_repl_data` has more to send. `Collect` and `SoftReboot` make
a callback variable point at what is gone; a call of that is a frame of kind
`wild`, after which nothing is modelled.

**GreedyPlanner, Arena, MicroAllocator, Interpreter.** The planner takes one step
per list entry it passes, as the loop does. The arena is offsets from its start;
`place` says where each buffer lies and `held` which of them still hold what was
written to them: what the code cannot see. `AllocateTensors` is `todo`, the list
of requests in the order of the code, computed from the model's flatbuffer;
each takes one step, and what reads a structure that is not `held` ends as
`undefined`, as does the use of a null pointer. Three parts of the code put steps
of their own on the list: the constructor is followed by `AllocateTensors`;
`MarkAllocationLifetimes` of a subgraph (`mark`) leaves a step per operator (`op`)
and one for its outputs, and an operator that calls subgraphs a `mark` for each
and then its uses (`used`), which is how the recursion runs; the planner's arena
is followed by `commit`, under which `AddBuffer` and the planner's steps run
until everything is placed, and `reserve`. `Interpreter` runs the graph with
the stack `frames` of subgraphs, each at an operator and a stage of IF or WHILE;
`torn` collects what was read without being held. `phase` is the client.

Operators named after a definition with a suffix, and marked `Mutant`, are
faulty variants (an off-by-one, a missing reset) with which the runs are shown
to fail; no specification uses them.

## 3. The runs

Every passing run also checks its module's type invariant.

| run | shows | bounds |
|---|---|---|
| `rx` | the ring is a FIFO of `Size - 1` bytes under every interleaving; a byte that waits is returned | 3 slots, packets of up to 2 of 4 byte values: full, wrap and overflow in one packet all occur |
| `tx` | order, no duplication, loss only as a whole lap with `tail` at 0; busy loops end | 4 slots, `tx_buffer` of 2, MTU 1 or 2, 7 bytes printed: a lap with bytes before and after it |
| `update` | whole images, cursor agreement, no page wrap, no half-written boot, and the block device implements `BlockStore`, all on one flash | pages and sectors of 3, transfers of 2 (as 256, 4096 and 255), image of 5 ending inside a sector, 2 images; devices aligned, not aligned and refused; writes of a block, of more than one, of a piece across a transfer, of nothing |
| `power` | rail order, dark sleep, power under Python, the flag of `fpga.run`, safe mode, going to sleep, with callbacks in the waits | 2 resets: the second cuts the start-up after the first |
| `bus` | masked writes and retries | 2 registers of 2 bits; `Tries` is the code's 3 |
| `callbacks` | what is pending is handled, delays last and end, the clock keeps its time | a counter of 4 with ticks of 5/8 ms, which shows 0, 0, 1 and 2 ms, the last rounded up from 1.875; delays of 2 and 3, in and beyond its range; a queue of 1, 2 events, 3 calls: a callback with a delay inside a delay, a full queue, a wrap in a delay and a call of a collected function all occur |
| `tflm` | nothing is torn, allocated is whole, undefined only in an arena that is too small, allocating ends | 13 models: the keyword model's shape, two IFs on shared branches, a WHILE, variable tensors, offsets given, scratch requests beyond the first room, too many of them, a subgraph nobody calls, a variable tensor that follows another's offset, an operator that takes a temporary buffer after a persistent one, a variable tensor with an offset where later buffers go, an operator that reads what a later one writes, an operator that does not free its temporary buffer; every arena size from 0 to 90, alignment 2, at most 2 scratch requests per operator (as 12): each model fails in each of its requests and succeeds in the larger arenas |

Runs that show a comment of the code not to hold, one property each:

| run | comment | what happens |
|---|---|---|
| `rx_interrupt` | main.c:482 | Ctrl-C moves `head` over a slot it did not write: a stale byte is read |
| `tx_raw_lost` | main.c:226 | the full test is never true with `tail` at 0; the ring laps, looks empty, and raw data is sent in place of 1024 lost bytes |
| `update_boot` | monocle-critical.c:369 | a reset during the erase leaves the magic word, and half an image is booted |
| `power_spi` | monocle-critical.c:261 | the sleep interrupt fires while the FPGA boots and the SPI driver is off |
| `bus_merge` | monocle-drivers.c:161 | the charge check moves the register pointer between address and read; the status register's bits are merged in |

**Fairness.** `rx`: the handler ends (weak), and the thread's steps are
strongly fair, since packets are a connection interval apart and handled in
microseconds. `tx`: calls in progress go on and queued notifications leave;
callbacks end (strong, since they may make calls); nothing is assumed of the
central, and `CallsReturn` is conditional on a link that stays good. The
condition `mtu \in 1 .. attMtu` in it is needed: `ble_negotiated_mtu` survives
a disconnect, and with a stale one every chunk is refused. `power`: the timer
fires again and again and does not starve the thread, 0.5 s being longer than
its steps. `bus`: transfers end, for the same reason. `callbacks`: the counter
ticks and the thread goes on; callbacks return; the hook gets past
`ble_send_repl_data` again and again (strong), which is what `CallsReturn` of
`BleTx` shows for a link that stays good, and without a link the function has
nothing to do. `tflm`: `AllocateTensors` goes on (weak); nothing is assumed of
the client or the kernels.

**Deadlock** is checked everywhere but in `power`, where a sleeping device with
the resets used up stops, in `tflm`, where the client leaves its loop, and in
`callbacks`, where nothing follows the call of a function that is gone.

## 4. The proofs

`ReplRx_proofs` proves for every ring size, byte set and packet length:

- `RxTypeCorrect`: `TypeOK`.
- `RxReaderSafe`: `ReaderHoldsOldest`.
- `RxImplementsFifo`: `FifoSpec`, the refinement of `ByteFifo` under
  `queue <- Contents`.

All three rest on the invariant `RxInv`: `TypeOK`, `ReaderHoldsOldest` and
`LoadHasByte` (at `load` the ring is not empty). The last conjunct is what the
property lacks to be inductive: it carries the emptiness test over the gap to
the step that reads. It holds because only the reader moves `tail` and the
handler never moves `head` onto it. The refinement adds what one step does to
`Contents`: `PutStep` for the handler, `GetStep` for `Commit`, by cases on
whether an index wraps.

`BleTx_proofs` proves for every ring size, MTU, queue and amount printed:

- `TxTypeCorrect`: `TypeOK`.
- `TxRingHoldsLatest`: `RingHoldsLatest`.
- `TxLapsOnlyAtZero`: `LapsOnlyAtZero`.
- `TxInOrder`: `InOrderOrLapped`.

The invariant is `TxInv`. `RingHoldsLatest` is not inductive alone, for three
reasons, each a conjunct: `SendHvx` moves `tail` by the length of a chunk
collected steps earlier, so `ChunkFits` says those bytes still wait; a collected
byte is a printed one only if no more wait than were printed (`CountFits`); and
a print stays within the bound (`PrintFits`). The two steps that move an index
are by the lemmas `PrintShifts` and `SendShifts` about the ring's arithmetic;
`RingKept` covers all others but a reset. `LapsOnlyAtZero` follows from
`PrintShifts`: away from 0 the test for room is exact. `InOrderOrLapped` needs
`ChunkIsNext` besides: the chunk in hand starts with the oldest byte that waits.
Then an accepted chunk continues what was sent without a gap (`SentOrder`), and
a lap, which empties a ring of `Size - 1` bytes and adds one, widens the gap
before the next byte by `Size` (`PrintByteOrder`, `LapFollows`).

About `TwiBus`, `Power_proofs` proves for every number of registers and bits:

- `BusTypeCorrect`: `BusTypeOK`.
- `BusRequestedBitsSet`: `RequestedBitsSet`.
- `BusUndisturbedWriteMerges`: `UndisturbedWriteMerges`.

The invariant `BusInv` follows the register pointer through the transfers of a
try. `AddressHolds`: after an acknowledged address and without a charge check
the pointer is at the target. So what is read is the target's own, which
`ValueIsTargets` carries to the write, where the merge uses it. `WriteIsMeant`
says that only a write reaches the third transfer, and that its target is not
the status register; without it an access begun as a read could write.

About `Power` it proves for any number of resets:

- `PowerTypeCorrect`: `TypeOK`.
- `RailsInOrder`: `RailOrder`.
- `SleepsDark`: `SleepIsDark`.
- `PythonIsPowered`: `PythonHasPower`.
- `FlagIsTold`: `FlagTellsState`.
- `SafeModeIsHonoured`: `SafeModeHonoured`.

Both threads are always at a rest of a routine. The invariant `PowerInv` says
what may hold before each step of each routine: `Down` and `Up` are the progress
through the two halves of `power_all_rails`, `StartUpReady`, `BootReady`,
`HoldReady`, `SleepReady` and `PythonReady` what the routine has reached besides.
While the interrupt is absent or has not decided (`Undecided`), the main thread
satisfies its condition (`MainReady`); once it goes to sleep, `IsrSleeps` is
enough, because a sleeping interrupt never returns, so that it does not matter
where it cut the main thread. `~timer` and `~ble` before their steps of start-up
exclude a second sleep and a KeyboardInterrupt there. `AskedIsFlagged` is for
safe mode: a request that no boot has honoured is still in GPREGRET.
`OuterReady` says where a callback can have come in: in the wait of a boot or in
a delay. `FlagTellsState` has two exceptions, both in the wait of a boot and both
in its history variable `cut`: KeyboardInterrupt there leaves the FPGA held with
the flag set, and a callback's `fpga.run(False)` there clears the flag of an FPGA
that the outer call then releases. The next call that changes the flag
ends them. The lemmas
`StartUpStep`, `BootStep`, `HoldStep`, `LaterStep` and `SleepStep` take each
routine one step on.

`FlashUsers_proofs` proves `UpdateSafe` for the update alone on its flash, and
for the specification that the run `update` checks, with the block device beside
it, for all sizes of page, transfer, sector, flash
and image, all pieces and all devices:

- `AcceptedStaysProgrammed`: `AcceptedIsProgrammed`.
- `FinishedStaysWhole`: `FinishedImageIsWhole`.
- `NothingIsSpoiled`: `NothingSpoiled`.
- `WrittenIsBooted`: `BootAfterWrite`.
- `AllTypeCorrect`: `AllTypeOK`.
- `StorageIsBlockStore`: `DeviceSpec`.

The invariant `UpdateInv` adds to the properties what they depend on:
`ErasedSoFar` and `NothingElse` say that what will be programmed is erased or
already has the byte it will get, so that programming, which only clears bits,
gives that byte, the second time too; `PartsAreThere` is the piece in progress;
`InStep` ties the driver's cursor to the updater's; `MagicIsLast` says that,
unless an erase was cut, a magic word has its image before it. Lemma
`ProgramsInPlace` turns a program command, which wraps around at the end of a
page, into the plain update of an interval, provided the chunk stays in its
page. `ChunkFits` shows that `ChunkLength` guarantees that, and `SectorsCover`
that the sectors erased hold the image. With the block device, `InDevice` says
that each of its calls works behind `StorageBase`, and
`SectorsEndBeforeDevice` that no sector erased by an update reaches there, so
that its commands keep all of `UpdateInv` (`FrontKept`).

In `StorageIsBlockStore` the same specification implements `BlockStore`, so `Device!Init` holds of its initial states and
every step is one of `BlockStore` or leaves the blocks, the change under way and
the answer alone. `CalledStep`, `EraseStep`, `WriteStep`, `GoesOnStep`,
`ResetStep` and `UpdateStep` map the steps to `Begin`, `Disturb`, `Succeed` and
`Read`. `DeviceInv` adds to the invariant above the object that was made (`DeviceTyped`), what the arguments of a call have to do with the block
it names (`CallSound`), and `WholeSoFar`: a call for a whole block has erased it
and stored its data up to `bytes_written`, which makes the last part the block.
`BlockInFlash` and `BlocksApart` are the geometry of blocks, `UpdateInFront`
says that no command of an update reaches a block, and `PartStored` what a part
of a write does to its block and to others. `AllTypeCorrect` needs what a call
keeps of its arguments (`AllTyped`): the buffer of a write, up to its length, is
the data of some block (`BlockTyped`) or image (`ImageTyped`), which is what
makes every cell of the flash one that a caller wrote.

`Callbacks_proofs` proves for every counter, tick length, float, queue, delay and
number of events and calls:

- `CallbacksTypeCorrect`: `TypeOK`, with at most one callback on the stack.
- `ClockRight`: `ClockKeepsTime`.
- `DelaysLast`: `DelayLasts`.

In `CallbacksInv`, `TimeInv` says what `time_at_boot_s` is: what the clock was
set to, less the seconds the counter showed then, and that the counter has not
gone back since unless it wrapped. `Sound` is the stack's: every delay is
`Timely`, which follows one through its loop (past its test, a delay whose hook
ran no callback was short of its time, and at most one tick has passed since),
and a delay with a frame above it is `late`, so a callback's frame can only be
on top of delays that have run a callback.
Under both lies what `mp_hal_ticks_ms` shows of a count (`Shown`): the whole
milliseconds or one more, at most half a millisecond too many, and never beyond
a word; and it never goes back while the counter does not (`ShownGrows`). These
follow from `RoundingGrows` and `StepsOfFloat`, and need the step of a float to
exist: `Greatest`, that a bounded set of numbers has a largest, by the library's
`WFMin` on the distances to the bound.

`Interpreter_proofs`, `AllocatedIsWhole_proofs` for `AllocatedStaysWhole`, and
`NothingTorn_proofs` for `NeverTorn`, prove for every model, size of struct, arena,
alignment and room for scratch requests:

- `InterpreterTypeCorrect`: `TypeOK`.
- `InterpreterPlanIsSound`: `PlanIsSound` of the planner as `AllocateTensors` uses
  it, in the specification that the run `tflm` checks.
- `OnlyShortIsUndefined`: `UndefinedOnlyWhenShort`.
- `AllocatedStaysWhole`: `AllocatedIsWhole`.
- `NeverTorn`: `NothingTorn`.
- `PlannerNeverOverlaps`: `PlanIsSound` of the planner by itself, for any
  number of buffers, sizes, lifetimes and offsets, and any order of its calls.

In the planner's invariant `PlanInv`, `Listed` and `Sorted` describe the
list by offset; `Searched` is the loop's: everything the search has passed is of
another time or ends before the candidate. With `Sorted`, a gap before the next
buffer of the same time is a gap before all that follow. `OfflineFirst` says
that no buffer with a given offset is placed after one without, since the code
places the former without looking; that is why `PlanIsSound` leaves out pairs
whose offsets were both given.

Around it, `TypeInv` types what `TypeOK` leaves open because it is internal: every
item of `todo` is one that the list can hold, with a size that is a number and an
operator and subgraph that the model has (`AllItems` for the list as
a whole, by `FlatType` on what is concatenated); a request names its
subgraph; a lifetime is -1 or a scope. `PlanInv` is part of it because a buffer that the planner places gets its
interval from `offsets`, which only `Listed` makes a number. `Reserving` is what
`ReserveHead` needs: `reserve` is on the list behind `commit` only, so that when its
turn comes the plan is complete and its largest end exists.

`OnlyShortIsUndefined` needs to know of each item of the list that what it uses
is there. As long as the arena has refused nothing (`short \/ Sound`):

- `InStages`: what is left of the list is in the order of its stages (`Ordered`),
  and an item on which later ones depend is followed by all of its stage
  (`Closed`).
- `Clean`: each item finds what it needs (`Ready`), the state or an earlier item
  having left it; what the stages that are over have built is intact (`Whole`),
  and a list that is done leaves an allocated interpreter (`Ended`). A walk of the
  lifetimes leaves the list only with every subgraph reached marked
  (`Marking`, `Reached`), so that the tensors of each have the lifetime with
  which they go to the planner.
- `Prepared`: the client, its frames and the tensors it looks at are those of an
  interpreter in that state.

`Sound` is lost only in a step that sets `short`, and once a request was refused
nothing is claimed.

`AllocatedStaysWhole` has two halves. That the plan lies inside the head is true of
every arena, and its invariant `Fitting` follows the end of the list: behind `plan`,
`commit` and `reserve` come only items that take no room from the head (`PlanLast`),
`commit` works on the requirements that the planner was given (`Matching`), and from
`reserve` on each planned buffer has the place that the planner gave it
(`PlacedAsPlanned`), so that a head as large as the plan's end holds it (`Fit`). It is
aligned because every offset the planner tries is the end of an aligned buffer
(`AlignedPlan`). That the structures are as they were written needs an arena that
refused nothing. `Standing` says of it where everything lies: structures above the
tail, and every other buffer either above it too or below `temp` (`OutOfTheWay`), so
that nothing that is written meets a structure (`HeldStays`). Between `commit` and
`reserve` this is not so: the plan has been committed to memory that the temporary
buffers still occupy and that the head does not hold yet. `Still` leaves the planned
buffers out until `ReserveHead` has moved the head past them, by `Fit`.
`HandlesStand` and `NamesStand` say when the scratch buffer handles, which are written
only by `commit`, and the temporary names are there. From then on invocations write
planned buffers and variable tensors only (`InvokeSpares`).

`NeverTorn` connects two walks of the graph that never meet in the code: the one in
which `AllocateTensors` counts scopes, and the invocation, which may enter a subgraph
many times or not at all. What the first leaves for the second is a record of visits,
which no variable holds (`Told`). A visit is a subgraph with an interval of scopes; in
it each operator has an interval of its own, one after the other, in which lie visits
of the subgraphs that it calls. What an operator writes is born by the beginning of its
interval, and what it reads or writes lasts to the end (`OpVisited`). While the marking
goes on, `Walking` says the same of the visits that are over and of those still open,
whose operators done, begun and to come are read off `todo` (`Walk`, by the distance
from the end of the list). Scopes only grow, a first scope stays and a last one only
grows (`Prolonged`), so that what was told stays told.

`Spread` says what the plan makes of the lifetimes: `PlanLaid`, each planned buffer lies
where the planner put it; `Fit`, inside the head; `TailTensors`, variable tensors without
an offset lie in the tail, each in its own place; and every tensor and scratch buffer in
use is one of these (`Covered`, `GivenOnly`). With `PlanIsSound` and `OffsetsAgree`, two
buffers that live at the same scope have no byte in common (`Separate`).

An invocation is then behaved (`Behaves`) if each frame on the stack has a visit, the
visit of a callee inside the interval of the operator that called it (`Shape`), and what
the frame has still to read is held (`Filled`): what has been written by then and lasts
to the operator that comes next. What a step writes lives at its scope, so it is apart
from all that, for the frames below too, whose operators' intervals contain the
callee's. A round of a WHILE enters its subgraphs at the scopes of the round before.
`Untorn` is `Behaves` for an allocated interpreter, and that variable tensors are held
when `AllocateTensors` has reset them. It needs two facts about the client: that it
invokes and reads only what is allocated (`Attended`), and that `AllocateTensors` run
again by `Invoke` after a failure does not succeed (`Hopeless`). Either the failed one
left the allocator in the middle of an allocation, which a new one refuses, or a request
of its last steps met the head, and will again, since the tail only falls and the largest
plan only grows (`Doomed`).

Assumptions: those on the constants, which the runs evaluate (`SizeAssumption`,
`ByteAssumption`, `PacketAssumption`, `TxAssumption`, `BusAssumption`,
`ResetsAssumption`, `FlashAssumption`, `AppAssumption`, `StorageAssumption`,
`UsersAssumption`, `TimeAssumption`, `CallbackAssumption`, `SettingsAssumption`,
`PlannerAssumption`, `ArenaAssumption`, `ModelAssumption`). `UsersAssumption` (the first address of a device is
a sector's, behind the image) holds of 0x6D000 in `storage.c`; `TimeAssumption`
(the milliseconds of a counter fit the integers of a float and a word) holds of
2^24 ticks of 1000/1024 ms, a float of 24 bits and a word of 32;
`ModelAssumption` says that the flatbuffer is of the schema's shape and that an
operator calls subgraphs that there are.

Only model-checked: liveness, which is out of the prover's reach (`ReadReturns`,
`CallsReturn`, `GoesToSleep`, `AccessEnds`, `AllocateReturns`, `DelayEnds`,
`PendingIsHandled`). All other properties of the passing runs are theorems.

Two properties changed on the way to a proof. `NothingTorn` once said of every model
that nothing is torn. Two things in a model break that. An operator may read what no
operator before it has written; the schema says that operators are in execution order,
and `Sequenced` says so of the model, with what the control flow kernels test when they
prepare. And a variable tensor with a given offset is planned like any other: its
lifetime ends at its last use (micro_allocation_info.cc:209), so the planner may put a
later buffer over it, and the next invocation finds that in place of the state. Given
offsets are the work of whoever makes the model, and `OffsetsAgree` asks that they keep
apart what lives together, and such a variable tensor from everything. The run has a
model of each kind. `AllocatedIsWhole` once said of every model that the
structures of an allocated interpreter are held. On the way to its proof that turned
out to be false: an operator that asks for a temporary
buffer after a persistent one, in an arena with room for the one but not for
both, gets the room of another structure, and `AllocateTensors` ends without an
error. No kernel that the keyword model uses does that, but the interface allows
it; the property now says so only as long as no request was refused (`short`),
and the run has that model among its own. An operator that leaves a temporary
buffer behind makes the allocator refuse to start over behind the head
(`ResetTempAllocations`); such a refusal counts as `short` too, although the arena
may be large enough. Nobody looks at it after the operator's prepare function, and
it ends `AllocateTensors` with an error where the head is reserved (`ReserveHead`).

## 5. External assumptions

- SoftDevice: `sd_ble_gatts_hvx` refuses a notification longer than the ATT MTU
  allows, without a subscription or with the queue full; a query with an
  invalid handle fails. A central exchanges the MTU at most once to a value
  above the default.
- PMIC: a register access not acknowledged has no effect; the pointer stays
  where it was written.
- Flash: program clears bits, erase sets them; a command begun when a reset
  comes ends before start-up turns the rails off, which takes 200 ms.
- Reset: GPREGRET, the PMIC and the flash keep their state.
- MicroPython: the scheduler is locked while a callback runs, so a callback's
  waits run no callbacks; it runs one callback, or raises a pending Ctrl-C, per
  poll; an exception in a callback ends with it. The collector traces the
  queue and the stack but not C variables.
- Counter: it ticks at its own pace; a delay sleeps until an interrupt, and
  the counter's own tick is one.
- Kernels ask in `Prepare` for any of the persistent, scratch and temporary
  buffers of the chosen model, in the order of its operators, and write only to
  their outputs and scratch buffers.

## 6. Not modelled, and why

- *Drivers of what is in the FPGA*: microphone, camera and display. They keep
  little (`microphone_bit_depth`, the text page `fbtext_addr`); what could go
  wrong, a read that finds the FIFO empty in the middle of a recording, a flush
  while a recording goes on, a page shown before it is complete, depends on the
  FPGA's FIFOs, commands and frame buffers, whose design is not in the repository.
- *Own code without state that an order of steps could spoil*: LED, `touch.state`,
  zones and calendar of `time`, `update.nrf52` and the reading functions.
- *The array in RAM* on which `_mountfs.py` mounts its file system: loops of
  Python over one array; what may come between them is MicroPython's.
- *Data*: bytes beyond their identity, the charger settings, layout of text,
  scores of the keyword model.
- *Left out of modelled parts*: the copy into `tx_buffer` is one step, so an MTU
  change in the middle of it is not seen; `mp_hal_stdio_poll`, which nothing in
  the repository calls; a callback that calls the function of `update` it
  interrupted, since the updater is one program; what happens after a call of a
  function that is gone, or after undefined behaviour in the arena; a block device whose
  `start + length` does not fit 32 bits (`storage.c:181` adds without a test).
- *TensorFlow Lite Micro*: arithmetic kernels and quantisation parameters, which
  are functions of their inputs; `CALL_ONCE`, resource variables, the recording
  allocator and the profiler, which the keyword model does not use;
  intermediate tensors; a count of offline offsets that does not match the
  tensors, which ends in an error before anything is planned. The experimental
  copies of the keyword loop have the shape of the one modelled.
- *Not this program's*: MicroPython, SoftDevice, nrfx and littlefs, of which the
  repository holds headers at most; bootloader, RTT, signal libraries, generated
  schema code, examples and tools. These are most of the lines of the
  repository: the firmware's own C and C++ code is about 4200 lines.

## 7. Plan

1. `Power` and `TwiBus` with the touch interrupt of `Callbacks`, which uses the
   same bus at the same priority as the charge check.
2. `CALL_ONCE` and resource variables in `Interpreter`.
