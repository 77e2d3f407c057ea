-------------------------------- MODULE Power --------------------------------
(***************************************************************************)
(* Power control: the supply rails of the FPGA, flash, display and camera, *)
(* start-up, FPGA reset, sleep and the safe mode flag (monocle-critical.c, *)
(* fpga.c, device.c and the start of main in main.c).                      *)
(*                                                                         *)
(* Two threads of control change the same state: the main thread, and the  *)
(* 0.5 s timer interrupt check_if_battery_charging_and_sleep, which can    *)
(* start between any two steps of the main thread and, once it has decided *)
(* to sleep, never returns.  Each thread is the sequence of steps it has   *)
(* still to take (todo and isr); a step is a pair <<operation, argument>>. *)
(* A callback may run in a wait of a routine that Python called, and call  *)
(* routines of its own; outer is then what the first one has left.         *)
(***************************************************************************)
EXTENDS Naturals, Sequences

CONSTANTS
  MaxResets  \* bound: how often the chip resets or wakes up

ASSUME ResetsAssumption == MaxResets \in Nat

VARIABLES
  rails,       \* the PMIC outputs that are on; they survive a reset
  spi,         \* the SPI driver is initialised
  ble,         \* the SoftDevice is enabled
  fpga,        \* "held" in reset or "running"
  timer,       \* the charge check timer runs
  todo, isr,   \* what is left of the main thread's and the interrupt's steps
  outer,       \* what is left of the routine in whose wait a callback runs
  prevent,     \* prevent_sleep_flag
  force,       \* force_sleep_flag
  runFlag,     \* fpga_running_flag
  cut,         \* history: something came into the wait of the last boot
  safeFlag,    \* the safe mode bits of GPREGRET, which survive a reset
  asked,       \* history: safe mode was asked for and no boot has honoured it
  ranMain,     \* history: this boot ran main.py
  charging,    \* external: the PMIC reports that it charges
  subscribed,  \* external: a central listens to the REPL
  power,       \* "on", or "off" after SYSTEMOFF
  resets

hardware == <<rails, spi, ble, fpga, timer>>
threads == <<todo, isr, outer>>
flags == <<prevent, force, runFlag, cut>>
safeMode == <<safeFlag, asked, ranMain>>
world == <<charging, subscribed>>
vars == <<hardware, threads, flags, safeMode, world, power, resets>>

-----------------------------------------------------------------------------
(* The routines, step by step.                                             *)

Rails == {"1V2", "1V8", "2V8", "10V"}

On(rail) == <<"on", rail>>
Off(rail) == <<"off", rail>>
Do(operation) == <<operation, "">>

\* Mutant: the 2.8 V supply goes before the 10 V boost.
AllRailsOffSwapped == <<Off("2V8"), Off("10V"), Off("1V8"), Off("1V2")>>

\* power_all_rails
AllRailsOff == <<Off("10V"), Off("2V8"), Off("1V8"), Off("1V2")>>
AllRailsOn == <<On("1V2"), On("1V8"), On("2V8"), On("10V"), Do("wakeFlash")>>

\* Mutant: the rails are not turned on again.
HoldFpgaUnpowered == AllRailsOff \o <<Do("hold")>>
\* Mutant: the reset line is not pulled.
HoldFpgaReleased == AllRailsOff \o AllRailsOn

\* monocle_fpga_reset(false) and monocle_fpga_reset(true)
HoldFpga == AllRailsOff \o <<Do("hold")>> \o AllRailsOn
BootFpga ==
  AllRailsOn \o <<Do("readMagic"), Do("spiOff"), Do("release"), Do("spiOn")>>

\* Mutant: the rails are left on.
SleepPowered == <<Do("bleOff"), Do("spiUninit"), Do("systemOff")>>

\* check_if_battery_charging_and_sleep after it has decided to sleep
Sleep == <<Do("bleOff")>> \o AllRailsOff \o <<Do("spiUninit"), Do("systemOff")>>

\* monocle_critical_startup, then main up to the REPL
StartUp ==
  AllRailsOff \o <<Do("spiOn"), Do("check"), Do("timerOn"), Do("hold")>>
  \o BootFpga \o <<Do("bleOn"), Do("main.py")>>

\* device.force_sleep and device.reset: one second three times, then the act
Later(act) == <<Do("delay"), Do("delay"), Do("delay"), Do(act)>>

Routines == {StartUp, HoldFpga, BootFpga, Later("force"), Later("reset"), Sleep}
Rests == UNION {{SubSeq(r, i, Len(r)) : i \in 1 .. Len(r) + 1} : r \in Routines}

TypeOK ==
  /\ rails \subseteq Rails
  /\ {spi, ble, timer, prevent, force, runFlag, cut} \subseteq BOOLEAN
  /\ {safeFlag, asked, ranMain, charging, subscribed} \subseteq BOOLEAN
  /\ fpga \in {"held", "running"}
  /\ todo \in Rests /\ outer \in Rests
  /\ isr \in Rests \cup {<<Do("check")>>}
  /\ power \in {"on", "off"}
  /\ resets \in 0 .. MaxResets

\* First power-up: the PMIC's rails are off and RAM has its initial values.
Init ==
  /\ rails = {}
  /\ spi = FALSE
  /\ ble = FALSE
  /\ fpga = "held"
  /\ timer = FALSE
  /\ todo = StartUp
  /\ isr = << >>
  /\ outer = << >>
  /\ prevent = FALSE
  /\ force = FALSE
  /\ runFlag = TRUE
  /\ cut = FALSE
  /\ safeFlag = FALSE
  /\ asked = FALSE
  /\ ranMain = FALSE
  /\ charging \in BOOLEAN
  /\ subscribed = FALSE
  /\ power = "on"
  /\ resets = 0

-----------------------------------------------------------------------------
(* Reset: of what is here only the PMIC and GPREGRET keep their state.     *)

Restarted ==
  /\ resets < MaxResets
  /\ resets' = resets + 1
  /\ spi' = FALSE
  /\ ble' = FALSE
  /\ timer' = FALSE
  /\ todo' = StartUp
  /\ isr' = << >>
  /\ outer' = << >>
  /\ prevent' = FALSE
  /\ force' = FALSE
  /\ runFlag' = TRUE
  /\ cut' = FALSE
  /\ ranMain' = FALSE
  /\ subscribed' = FALSE
  /\ power' = "on"

\* app_err after a failed or interrupted transfer, or any other fault.
Reset ==
  /\ power = "on"
  /\ Restarted
  /\ UNCHANGED <<rails, fpga, safeFlag, asked, charging>>

\* The user touches the device: SYSTEMOFF ends with a reset.
WakeUp ==
  /\ power = "off"
  /\ Restarted
  /\ UNCHANGED <<rails, fpga, safeFlag, asked, charging>>

\* The safe mode signal arrives (SD_EVT_IRQHandler): flag, then reset.
EnterSafeMode ==
  /\ power = "on"
  /\ ble
  /\ Restarted
  /\ safeFlag' = TRUE
  /\ asked' = TRUE
  /\ UNCHANGED <<rails, fpga, charging>>

-----------------------------------------------------------------------------
(* The effect of one step, in whichever thread it is taken.                *)

HardwareStep(step) ==
  /\ rails' = CASE step[1] = "on" -> rails \cup {step[2]}
                [] step[1] = "off" -> rails \ {step[2]}
                [] OTHER -> rails
  /\ spi' = CASE step[1] = "spiOn" -> TRUE
              [] step[1] \in {"spiOff", "spiUninit"} -> FALSE
              [] OTHER -> spi
  /\ ble' = CASE step[1] = "bleOn" -> TRUE
              [] step[1] = "bleOff" -> FALSE
              [] OTHER -> ble
  /\ fpga' = CASE step[1] = "hold" -> "held"
               [] step[1] = "release" -> "running"
               [] OTHER -> fpga
  /\ timer' = (timer \/ step[1] = "timerOn")
  /\ force' = (force \/ step[1] = "force")
  /\ prevent' = (prevent /\ step[1] # "force")
  /\ power' = IF step[1] = "systemOff" THEN "off" ELSE power
  /\ subscribed' = (subscribed /\ step[1] # "bleOff")

Special == {"check", "main.py", "reset"}

\* Mutant: force_sleep_flag is not looked at.
SleepNowCharging == charging /\ ~prevent

\* Whether the charge check decides to sleep.
SleepNow == (charging \/ force) /\ ~prevent

\* The main thread takes its next step; an interrupt in progress shuts it out.
MainRuns == power = "on" /\ isr = << >> /\ todo # << >>

MainStep ==
  /\ MainRuns
  /\ Head(todo)[1] \notin Special
  /\ HardwareStep(Head(todo))
  /\ todo' = Tail(todo)
  /\ UNCHANGED <<isr, outer, runFlag, cut, safeMode, charging, resets>>

\* Mutant: start-up goes on behind a sleep that came back.
MainCheckReturns ==
  /\ MainRuns
  /\ Head(todo) = Do("check")
  /\ todo' = IF SleepNow THEN Sleep \o Tail(todo) ELSE Tail(todo)
  /\ UNCHANGED <<hardware, isr, outer, flags, safeMode, world, power, resets>>

\* The check that start-up makes itself, before the timer exists.
MainCheck ==
  /\ MainRuns
  /\ Head(todo) = Do("check")
  /\ todo' = IF SleepNow THEN Sleep ELSE Tail(todo)
  /\ UNCHANGED <<hardware, isr, outer, flags, safeMode, world, power, resets>>

\* Mutant: the flag is cleared before it is read.
MainPyAfterClear ==
  /\ MainRuns
  /\ Head(todo) = Do("main.py")
  /\ ranMain' = TRUE
  /\ safeFlag' = FALSE
  /\ todo' = Tail(todo)
  /\ UNCHANGED <<hardware, isr, outer, flags, asked, world, power, resets>>

\* monocle_started_in_safe_mode reads the flag and clears it; main.py runs
\* when it was clear.
MainPy ==
  /\ MainRuns
  /\ Head(todo) = Do("main.py")
  /\ ranMain' = ~safeFlag
  /\ asked' = (asked /\ ~safeFlag)
  /\ safeFlag' = FALSE
  /\ todo' = Tail(todo)
  /\ UNCHANGED <<hardware, isr, outer, flags, world, power, resets>>

MainReset ==
  /\ MainRuns
  /\ Head(todo) = Do("reset")
  /\ Restarted
  /\ UNCHANGED <<rails, fpga, safeFlag, asked, charging>>

\* The timer interrupt, and its check with the PMIC's answer.
TimerFires ==
  /\ power = "on"
  /\ timer
  /\ isr = << >>
  /\ isr' = <<Do("check")>>
  /\ UNCHANGED <<hardware, todo, outer, flags, safeMode, world, power, resets>>

IsrCheck ==
  /\ isr = <<Do("check")>>
  /\ isr' = IF SleepNow THEN Sleep ELSE << >>
  /\ UNCHANGED <<hardware, todo, outer, flags, safeMode, world, power, resets>>

IsrStep ==
  /\ power = "on"
  /\ isr # << >>
  /\ Head(isr)[1] \notin Special
  /\ HardwareStep(Head(isr))
  /\ isr' = Tail(isr)
  /\ UNCHANGED <<todo, outer, runFlag, cut, safeMode, charging, resets>>

-----------------------------------------------------------------------------
(* What Python code calls once start-up is over, in scripts and callbacks. *)

PythonRuns == power = "on" /\ isr = << >> /\ todo = << >>

\* A boot whose wait a callback runs in will release the FPGA all the same.
Boots(thread) == \E i \in DOMAIN thread : thread[i] = Do("release")

\* fpga.run(run): the flag is set first.
FpgaRun(run) ==
  /\ PythonRuns
  /\ run # runFlag
  /\ runFlag' = run
  /\ cut' = Boots(outer)
  /\ todo' = IF run THEN BootFpga ELSE HoldFpga
  /\ UNCHANGED <<hardware, isr, outer, prevent, force, safeMode, world, power, resets>>

PreventSleep(on) ==
  /\ PythonRuns
  /\ prevent' = on
  /\ UNCHANGED <<hardware, threads, force, runFlag, cut, safeMode, world, power, resets>>

\* device.force_sleep() and device.reset() look at the REPL's CCCD once.
CallLater(act) ==
  /\ PythonRuns
  /\ subscribed
  /\ todo' = Later(act)
  /\ UNCHANGED <<hardware, isr, outer, flags, safeMode, world, power, resets>>

\* The waits that poll the event hook with MicroPython running: the delays, and
\* the wait for a busy flash in monocle_flash_read.
Waits == MainRuns /\ ble /\ Head(todo) \in {Do("delay"), Do("readMagic")}

\* The hook raises KeyboardInterrupt: the call is over.  In a callback it goes
\* no further than the callback.
Interrupted ==
  /\ Waits
  /\ todo' = << >>
  /\ cut' = (cut \/ Head(todo) = Do("readMagic"))
  /\ UNCHANGED <<hardware, isr, outer, prevent, force, runFlag, safeMode, world, power, resets>>

\* Or it runs a scheduled callback, which is not interrupted by another one.
\* In a script with no routine begun, a callback's calls are like the script's.
CallbackStarts ==
  /\ Waits
  /\ outer = << >>
  /\ outer' = todo
  /\ todo' = << >>
  /\ UNCHANGED <<hardware, isr, flags, safeMode, world, power, resets>>

CallbackReturns ==
  /\ PythonRuns
  /\ outer # << >>
  /\ todo' = outer
  /\ outer' = << >>
  /\ UNCHANGED <<hardware, isr, flags, safeMode, world, power, resets>>

\* Leaving the REPL restarts MicroPython but not the hardware: the flags stay
\* and the safe mode flag is read again.
SoftReboot ==
  /\ PythonRuns
  /\ outer = << >>
  /\ todo' = <<Do("main.py")>>
  /\ UNCHANGED <<hardware, isr, outer, flags, safeMode, world, power, resets>>

Python ==
  \/ \E b \in BOOLEAN : FpgaRun(b) \/ PreventSleep(b)
  \/ CallLater("force") \/ CallLater("reset") \/ SoftReboot
  \/ Interrupted \/ CallbackStarts \/ CallbackReturns

-----------------------------------------------------------------------------
(* The charger and the central.                                            *)

Charger ==
  /\ charging' = ~charging
  /\ UNCHANGED <<hardware, threads, flags, safeMode, subscribed, power, resets>>

Central ==
  /\ ble
  /\ subscribed' = ~subscribed
  /\ UNCHANGED <<hardware, threads, flags, safeMode, charging, power, resets>>

Next ==
  \/ MainStep \/ MainCheck \/ MainPy \/ MainReset
  \/ TimerFires \/ IsrCheck \/ IsrStep
  \/ Python \/ Charger \/ Central
  \/ Reset \/ WakeUp \/ EnterSafeMode

Spec == Init /\ [][Next]_vars

\* Both threads keep running and the timer keeps firing.  The timer must not
\* starve the thread: 0.5 s is longer than any step.
Fairness ==
  /\ SF_vars(MainStep \/ MainCheck \/ MainPy \/ MainReset)
  /\ WF_vars(IsrCheck \/ IsrStep)
  /\ SF_vars(TimerFires)

FairSpec == Spec /\ Fairness

-----------------------------------------------------------------------------
(* Properties.                                                             *)

(* The rails come up 1.2 V, 1.8 V, 2.8 V, 10 V and go down in the opposite *)
(* order, also when an interrupt or a reset cuts a sequence anywhere and   *)
(* another one goes on from there.                                         *)
RailOrder ==
  /\ "10V" \in rails => "2V8" \in rails
  /\ "2V8" \in rails => "1V8" \in rails
  /\ "1V8" \in rails => "1V2" \in rails

(* A device that has gone to sleep has switched everything off, and one    *)
(* that is executing Python has all rails up: the flash can be used.       *)
SleepIsDark == power = "off" => rails = {} /\ ~spi /\ ~ble
PythonHasPower == PythonRuns => rails = Rails /\ spi

(* Where no boot is under way, fpga.run() answers what the FPGA does, held *)
(* or running, through resets, sleep interrupts and soft reboots.  It does *)
(* not when something came into the wait of the last boot: after a         *)
(* KeyboardInterrupt there it says running of an FPGA that is held, and    *)
(* after a callback's fpga.run(False) there, stopped of one that runs.     *)
(* The next call of fpga.run that changes the flag puts that right.        *)
FlagTellsState == (PythonRuns /\ ~Boots(outer) /\ ~cut) => (runFlag <=> fpga = "running")

(* Safe mode asked for is safe mode given: main.py does not run before a   *)
(* boot that skipped it, whatever resets and sleeps come in between.       *)
SafeModeHonoured == asked => ~ranMain

(* A device left on the charger, or told to sleep, goes to sleep and goes  *)
(* back to sleep after every reset, unless Python keeps it awake.          *)
GoesToSleep ==
  <>[]((charging \/ force) /\ ~prevent) => []<>(power = "off")

(* "Start SPI before sleeping otherwise we'll crash"                       *)
(* (monocle-critical.c:261): when the sleep routine uninitialises the SPI  *)
(* driver, the driver is initialised.                                      *)
SpiUpWhenSleeping ==
  \A thread \in {todo, isr} : thread # << >> /\ Head(thread) = Do("spiUninit") => spi
=============================================================================
