----------------------------- MODULE DeviceTime -----------------------------
(***************************************************************************)
(* The real time counter and the wall clock on top of it (mphalport.c,     *)
(* time.c).  The counter runs at 1024 Hz and has 24 bits: it starts again  *)
(* from 0 every four and a half hours, and the milliseconds with it.       *)
(***************************************************************************)
EXTENDS Integers, FiniteSetsExt

CONSTANTS
  CounterMod,  \* 2^24
  FloatLimit,  \* 2^24: a float shows every integer below it
  TickNum,     \* a tick takes TickNum / TickDen ms: 1000 / 1024
  TickDen,
  SecondMs,    \* ms in a second, 1000
  WordMod,     \* 2^32, mp_uint_t
  SetTimes     \* what scripts set the clock to

ASSUME TimeAssumption ==
  /\ {CounterMod, FloatLimit, TickNum, TickDen, SecondMs, WordMod} \subseteq Nat \ {0}
  /\ CounterMod * TickNum + TickDen <= WordMod * TickDen
  /\ CounterMod * TickNum <= FloatLimit * TickDen
  /\ SetTimes \subseteq Nat

VARIABLES
  counter,     \* nrfx_rtc_counter_get
  timeAtBoot,  \* time_at_boot_s
  set          \* history: what the clock was set to, at which count, and
               \* whether the counter has wrapped since

time == <<counter, timeAtBoot, set>>

TimeTypeOK ==
  /\ counter \in 0 .. CounterMod - 1
  /\ timeAtBoot \in Nat
  /\ set \in [to: Nat, at: 0 .. CounterMod - 1, wrapped: BOOLEAN]

\* The fractions of a millisecond that a float of ms milliseconds can show, a
\* power of two: these are the numbers that divide FloatLimit.
FloatSteps(ms) == Max({k \in 1 .. FloatLimit : FloatLimit % k = 0 /\ ms * k < FloatLimit})
RoundedToEven(num, den) ==
  LET whole == num \div den
      rest == 2 * (num % den)
  IN  IF rest > den \/ (rest = den /\ whole % 2 = 1) THEN whole + 1 ELSE whole

\* mp_hal_ticks_ms, and its value at another count: the product is rounded to
\* a float, which late in the counter's range has few fractions or none, and
\* then cut to whole milliseconds.
Milliseconds ==
  [count \in 0 .. CounterMod - 1 |->
     LET steps == FloatSteps((count * TickNum) \div TickDen)
     IN  RoundedToEven(count * TickNum * steps, TickDen) \div steps]
MsAt(count) == Milliseconds[count]
TicksMs == MsAt(counter)
LongestMs == MsAt(CounterMod - 1)

Uptime == TicksMs \div SecondMs
GetTime == timeAtBoot + Uptime

TimeInit ==
  /\ counter = 0
  /\ timeAtBoot = 0
  /\ set = [to |-> 0, at |-> 0, wrapped |-> FALSE]

Wraps == counter = CounterMod - 1
TickTime ==
  /\ counter' = (counter + 1) % CounterMod
  /\ set' = [set EXCEPT !.wrapped = @ \/ Wraps]
  /\ UNCHANGED timeAtBoot

\* Mutant: the time since the start is counted twice.
SetTimeAtBoot(now) ==
  /\ now >= Uptime
  /\ timeAtBoot' = now
  /\ set' = [to |-> now, at |-> counter, wrapped |-> FALSE]
  /\ UNCHANGED counter

\* Mutant: a time before the start is taken.
SetTimeUnchecked(now) ==
  /\ timeAtBoot' = now - Uptime
  /\ set' = [to |-> now, at |-> counter, wrapped |-> FALSE]
  /\ UNCHANGED counter

\* time.time(now); a time before the start is refused with ValueError.
SetTime(now) ==
  /\ now >= Uptime
  /\ timeAtBoot' = now - Uptime
  /\ set' = [to |-> now, at |-> counter, wrapped |-> FALSE]
  /\ UNCHANGED counter

(* The clock shows the time that was set plus what has passed since, to    *)
(* the second and the rounding of the milliseconds, as long as the counter *)
(* has not wrapped: whatever was running meanwhile, and over soft reboots. *)
ClockKeepsTime ==
  LET shown == GetTime * SecondMs * TickDen
      real == set.to * SecondMs * TickDen + (counter - set.at) * TickNum
      slack == (SecondMs + 1) * TickDen
  IN  ~set.wrapped => shown - real < slack /\ real - shown < slack
=============================================================================
