\* A counter of 2 bits with 8 ticks to 5 ms: it shows 0, 0, 1 and 2 ms, the
\* last rounded up from 1.875, so a second is one of them; a word holds more
\* than the counter.
SPECIFICATION Spec
CONSTANTS
  CounterMod = 4
  FloatLimit = 4
  TickNum = 5
  TickDen = 8
  SecondMs = 1
  WordMod = 8
  SetTimes = {0, 2}
  Depth = 1
  Delays = {2, 3}
  Settings <- SomeSettings
  MaxEvents = 2
  MaxCalls = 3
INVARIANTS
  TypeOK
  ClockKeepsTime
PROPERTIES
  DelayLasts
  DelayEnds
  PendingIsHandled
CHECK_DEADLOCK FALSE
