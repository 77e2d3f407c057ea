------------------------------ MODULE Callbacks ------------------------------
(***************************************************************************)
(* Callbacks of touch events and received data (touch.c, bluetooth.c): an  *)
(* interrupt puts one on MicroPython's scheduler queue, and the main       *)
(* thread takes it from there when it polls, most often inside a delay     *)
(* (mp_hal_delay_ms, mp_event_poll_hook).  The thread is a stack: the      *)
(* script, a delay it waits in, a callback that the delay's hook runs, a   *)
(* delay of the callback.                                                  *)
(*                                                                         *)
(* The scheduler and the heap are MicroPython's and external: one callback *)
(* runs at a time, and nothing else is handled until it returns.           *)
(***************************************************************************)
EXTENDS DeviceTime, Sequences

CONSTANTS
  Depth,      \* MICROPY_SCHEDULER_DEPTH
  Delays,     \* what scripts and callbacks pass to mp_hal_delay_ms
  Settings,   \* <<slot, function>>, the callbacks they set
  MaxEvents,  \* bound: touches and received packets
  MaxCalls    \* bound: calls of the script and the callbacks

ASSUME CallbackAssumption ==
  /\ Depth \in Nat \ {0}
  /\ Delays \subseteq 0 .. WordMod - 1
  /\ {MaxEvents, MaxCalls} \subseteq Nat

VARIABLES
  registered,  \* what each callback variable points at
  queue,       \* the scheduler's queue
  frames,      \* the main thread's stack above the script, innermost last
  interrupt,   \* a KeyboardInterrupt is pending
  events,      \* history: events so far
  calls        \* history: calls so far

vars == <<time, registered, queue, frames, interrupt, events, calls>>

Slots == {"A", "B", "both", "either", "receive"}
\* A function that the script has a name for, one that it has none for, and
\* one that is not there any more.
Pointers == {"named", "unnamed", "none", "freed"}

ASSUME SettingsAssumption == Settings \subseteq Slots \X (Pointers \ {"freed"})

Entries == [slot: Slots, arg: 1 .. MaxEvents, func: Pointers \ {"none"}]
CallbackFrames == [kind: {"callback", "wild"}, slot: Slots, arg: 1 .. MaxEvents]
DelayFrames == [kind: {"delay"}, ms: Delays, from: 0 .. CounterMod - 1,
                stage: {"test", "hook", "wait"}, wrapped: BOOLEAN, late: BOOLEAN]

TypeOK ==
  /\ TimeTypeOK
  /\ registered \in [Slots -> Pointers]
  /\ queue \in Seq(Entries) /\ Len(queue) <= Depth
  /\ frames \in Seq(CallbackFrames \cup DelayFrames)
  /\ \A j, k \in DOMAIN frames : frames[j].kind # "delay" /\ frames[k].kind # "delay" => j = k
  /\ interrupt \in BOOLEAN
  /\ events \in 0 .. MaxEvents /\ calls \in 0 .. MaxCalls

Init ==
  /\ TimeInit
  /\ registered = [s \in Slots |-> "none"]
  /\ queue = <<>>
  /\ frames = <<>>
  /\ interrupt = FALSE
  /\ events = 0
  /\ calls = 0

Last == IF frames = <<>> THEN [kind |-> "script"] ELSE frames[Len(frames)]
Below == SubSeq(frames, 1, Len(frames) - 1)
InDelay(stage) == Last.kind = "delay" /\ Last.stage = stage
InPython == Last.kind \in {"script", "callback"}
Locked == \E k \in DOMAIN frames : frames[k].kind # "delay"
GoTo(stage) == frames' = Append(Below, [Last EXCEPT !.stage = stage])

-----------------------------------------------------------------------------
(* Interrupts.                                                             *)

\* mp_sched_schedule: a call that finds the queue full is dropped.
Schedule(slot) ==
  queue' = IF registered[slot] = "none" \/ Len(queue) = Depth THEN queue
           ELSE Append(queue, [slot |-> slot, arg |-> events + 1, func |-> registered[slot]])

\* Any interrupt ends sd_app_evt_wait.
Woken(f) ==
  IF f # <<>> /\ f[Len(f)].kind = "delay" /\ f[Len(f)].stage = "wait"
  THEN [f EXCEPT ![Len(f)].stage = "test"] ELSE f
Interrupt ==
  /\ events < MaxEvents
  /\ events' = events + 1
  /\ frames' = Woken(frames)
  /\ UNCHANGED <<time, registered, interrupt, calls>>

\* touch_event_handler
TouchOne ==
  /\ Interrupt
  /\ \E button \in {"A", "B"} : Schedule(IF registered["either"] # "none" THEN "either" ELSE button)
TouchBoth == Interrupt /\ Schedule("both")

\* bluetooth_receive_callback_handler
Receive == Interrupt /\ Schedule("receive")

\* Ctrl-C on the REPL (mp_sched_keyboard_interrupt).
ControlC ==
  /\ events < MaxEvents
  /\ events' = events + 1
  /\ interrupt' = TRUE
  /\ frames' = Woken(frames)
  /\ UNCHANGED <<time, registered, queue, calls>>

\* The counter's tick interrupt.  The delay loop and the hook take less than
\* a tick when they run no callback; Python code takes any time.
Tick ==
  /\ InPython \/ InDelay("wait")
  /\ TickTime
  /\ frames' = Woken([k \in DOMAIN frames |->
                  IF Wraps /\ frames[k].kind = "delay" THEN [frames[k] EXCEPT !.wrapped = TRUE] ELSE frames[k]])
  /\ UNCHANGED <<registered, queue, interrupt, events, calls>>

-----------------------------------------------------------------------------
(* Python code, in the script or in a callback.                            *)

PythonCalls ==
  /\ InPython
  /\ calls < MaxCalls
  /\ calls' = calls + 1
  /\ UNCHANGED <<queue, interrupt, events>>

\* touch_callback and bluetooth_receive_callback, with a new function or None.
SetCallback ==
  /\ PythonCalls
  /\ \E c \in Settings : registered' = [registered EXCEPT ![c[1]] = c[2]]
  /\ UNCHANGED <<time, frames>>

CallTime ==
  /\ PythonCalls
  /\ \E now \in SetTimes : SetTime(now)
  /\ UNCHANGED <<registered, frames>>

CallDelay ==
  /\ PythonCalls
  /\ \E ms \in Delays :
       frames' = Append(frames, [kind |-> "delay", ms |-> ms, from |-> counter, stage |-> "test",
                                 wrapped |-> FALSE, late |-> FALSE])
  /\ UNCHANGED <<time, registered>>

\* gc_collect traces the stack, and with MicroPython's own roots the queue
\* and the script's names; the callback variables are static and not traced.
InUse(slot) ==
  \/ \E k \in DOMAIN queue : queue[k].slot = slot
  \/ \E k \in DOMAIN frames : frames[k].kind = "callback" /\ frames[k].slot = slot
Collect ==
  /\ InPython
  /\ registered' = [s \in Slots |-> IF registered[s] = "unnamed" /\ ~InUse(s) THEN "freed" ELSE registered[s]]
  /\ UNCHANGED <<time, queue, frames, interrupt, events, calls>>

\* The loop of main(): a new heap and an empty queue; the C variables stay.
SoftReboot ==
  /\ frames = <<>>
  /\ calls < MaxCalls
  /\ calls' = calls + 1
  /\ registered' = [s \in Slots |-> IF registered[s] = "none" THEN "none" ELSE "freed"]
  /\ queue' = <<>>
  /\ interrupt' = FALSE
  /\ UNCHANGED <<time, frames, events>>

CallbackReturns ==
  /\ Last.kind = "callback"
  /\ frames' = Woken(Below)
  /\ UNCHANGED <<time, registered, queue, interrupt, events, calls>>

-----------------------------------------------------------------------------
(* mp_handle_pending: KeyboardInterrupt first, else one callback.          *)

Raise ==
  /\ interrupt /\ ~Locked
  /\ interrupt' = FALSE
  /\ frames' = <<>>
  /\ UNCHANGED <<registered, queue>>

\* under: the stack when the callback has returned.  What is no function any
\* more is called all the same; what follows is not C, and not modelled.
RunCallback(under) ==
  /\ ~interrupt /\ ~Locked /\ queue # <<>>
  /\ frames' = Append(under, [kind |-> IF queue[1].func = "freed" THEN "wild" ELSE "callback",
                              slot |-> queue[1].slot, arg |-> queue[1].arg])
  /\ queue' = Tail(queue)
  /\ UNCHANGED <<registered, interrupt>>

\* Python's own loop handles what is pending between two instructions.
PythonPolls ==
  /\ frames = <<>>
  /\ Raise \/ RunCallback(frames)
  /\ UNCHANGED <<time, events, calls>>

-----------------------------------------------------------------------------
(* mp_hal_delay_ms                                                         *)

\* Mutant: the difference is signed.
ElapsedSigned == TicksMs - MsAt(Last.from)
Elapsed == (TicksMs - MsAt(Last.from)) % WordMod

DelayGoesOn ==
  /\ InDelay("test") /\ Elapsed < Last.ms
  /\ GoTo("hook")
  /\ UNCHANGED <<time, registered, queue, interrupt, events, calls>>
\* Mutant: it returns a millisecond early.
DelayReturnsEarly ==
  /\ InDelay("test") /\ Elapsed >= Last.ms - 1
  /\ frames' = Below
  /\ UNCHANGED <<time, registered, queue, interrupt, events, calls>>
DelayReturns ==
  /\ InDelay("test") /\ Elapsed >= Last.ms
  /\ frames' = Below
  /\ UNCHANGED <<time, registered, queue, interrupt, events, calls>>

\* mp_event_poll_hook while ble_send_repl_data() has more to send: the delay
\* spins without a look at what is pending.
HookIsBusy ==
  /\ InDelay("hook")
  /\ GoTo("wait")
  /\ UNCHANGED <<time, registered, queue, interrupt, events, calls>>

\* Mutant: what is pending is not handled.
HookOnlyWaits ==
  /\ InDelay("hook")
  /\ GoTo("wait")
  /\ UNCHANGED <<time, registered, queue, interrupt, events, calls>>

\* The hook handles what is pending and waits for an event.
HookPolls ==
  /\ InDelay("hook")
  /\ \/ Raise
     \/ RunCallback(Append(Below, [Last EXCEPT !.stage = "wait", !.late = TRUE]))
     \/ /\ Locked \/ (~interrupt /\ queue = <<>>)
        /\ GoTo("wait")
        /\ UNCHANGED <<registered, queue, interrupt>>
  /\ UNCHANGED <<time, events, calls>>

Next ==
  \/ TouchOne \/ TouchBoth \/ Receive \/ ControlC \/ Tick
  \/ SetCallback \/ CallTime \/ CallDelay \/ Collect \/ SoftReboot \/ CallbackReturns
  \/ PythonPolls \/ DelayGoesOn \/ DelayReturns \/ HookIsBusy \/ HookPolls

\* Time passes; the thread goes on, and callbacks return; what the REPL has
\* to send is sent again and again, so that the hook gets to the callbacks.
Fairness ==
  /\ SF_vars(Tick)
  /\ WF_vars(DelayGoesOn \/ DelayReturns)
  /\ WF_vars(HookIsBusy \/ HookPolls)
  /\ SF_vars(HookPolls)
  /\ WF_vars(PythonPolls)
  /\ WF_vars(CallbackReturns)

Spec == Init /\ [][Next]_vars /\ Fairness

-----------------------------------------------------------------------------
(* Properties.                                                             *)

(* A delay that returns has lasted what was asked, to the rounding of the  *)
(* milliseconds (one and a half less at most, half a one more), and no     *)
(* more than a tick longer when its hook ran no callback; delays of        *)
(* callbacks inside it do not cut it short.  Only a wrap of the counter    *)
(* does.                                                                   *)
Lasted(d) == (counter - d.from) * TickNum
DelayLasts ==
  [][ DelayReturns /\ ~Last.wrapped =>
        /\ 2 * Lasted(Last) > (2 * Last.ms - 3) * TickDen
        /\ ~Last.late => 2 * Lasted(Last) < (2 * Last.ms + 1) * TickDen + 2 * TickNum ]_vars

(* A delay ends, although the counter may wrap in it and callbacks with    *)
(* delays run in it.  It need not when it asks for more than the counter   *)
(* can show and begins with the counter at 0 ms.                           *)
Ending(d) == d.kind = "delay" /\ (d.ms <= LongestMs \/ MsAt(d.from) # 0)
Wild == Last.kind = "wild"
Endless == \E k \in DOMAIN frames : frames[k].kind = "delay" /\ ~Ending(frames[k])
DelayEnds == (frames # <<>> /\ ~Endless) ~> (frames = <<>> \/ Endless \/ Wild)

(* What is pending is handled: a callback that was accepted is taken from  *)
(* the queue, and Ctrl-C is raised, wherever the thread waits, because     *)
(* every wait polls; a callback that never returns is the one exception.   *)
Waiting(event) == \E k \in DOMAIN queue : queue[k].arg = event
Stuck == Wild \/ (Locked /\ Endless)
PendingIsHandled ==
  /\ \A event \in 1 .. MaxEvents : Waiting(event) ~> (~Waiting(event) \/ Stuck)
  /\ interrupt ~> (~interrupt \/ Stuck)
=============================================================================
