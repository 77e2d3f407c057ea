----------------------------- MODULE Power_proofs -----------------------------
(* Theorems about Power: the rails, the SPI driver and safe mode, for any  *)
(* number of resets, wherever an interrupt or a reset cuts a routine; and  *)
(* about TwiBus, the bus to the PMIC, for any registers and bits.          *)
EXTENDS Power, TwiBus, SequenceTheorems, TLAPS

(* How far power_all_rails has come when it is before its i-th switch.     *)
Down(i) ==
  /\ i > 1 => "10V" \notin rails
  /\ i > 2 => "2V8" \notin rails
  /\ i > 3 => "1V8" \notin rails
  /\ i > 4 => "1V2" \notin rails
Up(i) ==
  /\ i > 1 => "1V2" \in rails
  /\ i > 2 => "1V8" \in rails
  /\ i > 3 => "2V8" \in rails
  /\ i > 4 => "10V" \in rails

(* What holds before step i of each routine.                               *)
StartUpReady(i) ==
  /\ i <= 9 => Down(i)
  /\ i >= 9 => Up(i - 8)
  /\ i <= 7 => ~timer
  /\ i <= 18 => ~ble
  /\ i = 18 => spi
  /\ i > 16 => fpga = "running"
  /\ runFlag /\ ~cut
BootReady(i) ==
  /\ Up(i)
  /\ spi \/ i \in {8, 9}
  /\ i > 8 => fpga = "running"
  /\ cut \/ runFlag
HoldReady(i) ==
  /\ i <= 6 => Down(i)
  /\ i >= 6 => Up(i - 5) /\ fpga = "held"
  /\ spi
  /\ cut \/ ~runFlag
SleepReady(i) == (i > 1 => ~ble /\ Down(i - 1)) /\ (i > 6 => ~spi)
PythonReady == Up(5) /\ spi /\ (cut \/ Boots(outer) \/ (runFlag <=> fpga = "running"))

RestOf(thread, routine, i) == thread = SubSeq(routine, i, Len(routine))

(* The main thread, while nothing interrupts it for good.                  *)
InStartUp == \E i \in 1 .. 18 : RestOf(todo, StartUp, i) /\ StartUpReady(i)
InBoot == \E i \in 1 .. 9 : RestOf(todo, BootFpga, i) /\ BootReady(i)
InHold == \E i \in 1 .. 10 : RestOf(todo, HoldFpga, i) /\ HoldReady(i)
InLater == \E act \in {"force", "reset"}, i \in 1 .. 4 : RestOf(todo, Later(act), i) /\ PythonReady
InSleep == \E i \in 1 .. 7 : RestOf(todo, Sleep, i) /\ SleepReady(i) /\ ~timer
AtPython == todo \in {<< >>, <<Do("main.py")>>} /\ PythonReady
MainReady == InStartUp \/ InBoot \/ InHold \/ InLater \/ InSleep \/ AtPython

(* The routine in whose wait a callback runs, when there is one.           *)
OuterBoots == RestOf(outer, BootFpga, 6) /\ (cut \/ runFlag)
OuterIsLater == \E act \in {"force", "reset"}, i \in 1 .. 3 : RestOf(outer, Later(act), i)
OuterReady == outer = << >> \/ OuterBoots \/ OuterIsLater

(* The interrupt: not there, before its decision, or going to sleep.       *)
Undecided == isr \in {<< >>, <<Do("check")>>}
IsrSleeps == \E i \in 1 .. 7 : RestOf(isr, Sleep, i) /\ SleepReady(i)

FlagsTyped ==
  /\ spi \in BOOLEAN /\ ble \in BOOLEAN /\ timer \in BOOLEAN
  /\ prevent \in BOOLEAN /\ force \in BOOLEAN /\ runFlag \in BOOLEAN /\ cut \in BOOLEAN
  /\ safeFlag \in BOOLEAN /\ asked \in BOOLEAN /\ ranMain \in BOOLEAN
  /\ charging \in BOOLEAN /\ subscribed \in BOOLEAN
PowerTyped ==
  /\ FlagsTyped
  /\ rails \subseteq Rails
  /\ fpga \in {"held", "running"}
  /\ power \in {"on", "off"}
  /\ resets \in 0 .. MaxResets
ThreadsTyped ==
  todo \in Rests /\ outer \in Rests /\ isr \in Rests \cup {<<Do("check")>>}

AskedIsFlagged == asked => safeFlag /\ ~ranMain

PowerInv ==
  /\ PowerTyped
  /\ ThreadsTyped
  /\ RailOrder
  /\ SleepIsDark
  /\ power = "off" => isr = << >>
  /\ Undecided \/ IsrSleeps
  /\ power = "on" /\ Undecided => MainReady
  /\ OuterReady
  /\ AskedIsFlagged

-----------------------------------------------------------------------------
(* The routines' steps.                                                    *)

Operations ==
  {"wakeFlash", "readMagic", "spiOn", "spiOff", "spiUninit", "hold", "release", "check",
   "timerOn", "bleOn", "bleOff", "systemOff", "main.py", "delay", "force", "reset"}
Steps == {On(r) : r \in Rails} \cup {Off(r) : r \in Rails} \cup {Do(o) : o \in Operations}

LEMMA StepsDiffer ==
  /\ \A r : On(r)[1] = "on" /\ On(r)[2] = r
  /\ \A r : Off(r)[1] = "off" /\ Off(r)[2] = r
  /\ \A o : Do(o)[1] = o
BY DEF On, Off, Do

LEMMA StartUpSteps ==
  /\ StartUp \in Seq(Steps) /\ Len(StartUp) = 19
  /\ \A i \in 1 .. 4 : StartUp[i] = AllRailsOff[i]
  /\ StartUp[5] = Do("spiOn") /\ StartUp[6] = Do("check")
  /\ StartUp[7] = Do("timerOn") /\ StartUp[8] = Do("hold")
  /\ \A i \in 9 .. 13 : StartUp[i] = AllRailsOn[i - 8]
  /\ StartUp[14] = Do("readMagic") /\ StartUp[15] = Do("spiOff") /\ StartUp[16] = Do("release")
  /\ StartUp[17] = Do("spiOn") /\ StartUp[18] = Do("bleOn") /\ StartUp[19] = Do("main.py")
BY DEF StartUp, BootFpga, AllRailsOff, AllRailsOn, Steps, Rails, Operations

LEMMA BootSteps ==
  /\ BootFpga \in Seq(Steps) /\ Len(BootFpga) = 9
  /\ \A i \in 1 .. 5 : BootFpga[i] = AllRailsOn[i]
  /\ BootFpga[6] = Do("readMagic") /\ BootFpga[7] = Do("spiOff")
  /\ BootFpga[8] = Do("release") /\ BootFpga[9] = Do("spiOn")
BY DEF BootFpga, AllRailsOn, Steps, Rails, Operations

LEMMA HoldSteps ==
  /\ HoldFpga \in Seq(Steps) /\ Len(HoldFpga) = 10
  /\ \A i \in 1 .. 4 : HoldFpga[i] = AllRailsOff[i]
  /\ HoldFpga[5] = Do("hold")
  /\ \A i \in 6 .. 10 : HoldFpga[i] = AllRailsOn[i - 5]
BY DEF HoldFpga, AllRailsOn, AllRailsOff, Steps, Rails, Operations

LEMMA SleepSteps ==
  /\ Sleep \in Seq(Steps) /\ Len(Sleep) = 7
  /\ Sleep[1] = Do("bleOff")
  /\ \A i \in 2 .. 5 : Sleep[i] = AllRailsOff[i - 1]
  /\ Sleep[6] = Do("spiUninit") /\ Sleep[7] = Do("systemOff")
BY DEF Sleep, AllRailsOff, Steps, Rails, Operations

LEMMA LaterSteps ==
  ASSUME NEW act \in {"force", "reset"}
  PROVE  /\ Later(act) \in Seq(Steps) /\ Len(Later(act)) = 4
         /\ \A i \in 1 .. 3 : Later(act)[i] = Do("delay")
         /\ Later(act)[4] = Do(act)
BY DEF Later, Steps, Operations

LEMMA RailSteps ==
  /\ AllRailsOff[1] = Off("10V") /\ AllRailsOff[2] = Off("2V8")
  /\ AllRailsOff[3] = Off("1V8") /\ AllRailsOff[4] = Off("1V2")
  /\ AllRailsOn[1] = On("1V2") /\ AllRailsOn[2] = On("1V8")
  /\ AllRailsOn[3] = On("2V8") /\ AllRailsOn[4] = On("10V") /\ AllRailsOn[5] = Do("wakeFlash")
BY DEF AllRailsOff, AllRailsOn

(* What is left of a routine, and what is left after its next step.        *)
LEMMA RestSteps ==
  ASSUME NEW thread, NEW routine \in Seq(Steps), NEW i \in 1 .. Len(routine), RestOf(thread, routine, i)
  PROVE  /\ thread # << >>
         /\ Head(thread) = routine[i]
         /\ RestOf(Tail(thread), routine, i + 1)
         /\ i = Len(routine) => Tail(thread) = << >>
<1>1. Len(routine) \in Nat
  OBVIOUS
<1>2. Head(thread) = routine[i] /\ Tail(thread) = SubSeq(routine, i + 1, Len(routine))
  BY <1>1, HeadTailOfSubSeq DEF RestOf
<1>3. Len(thread) = Len(routine) - i + 1
  BY <1>1, SubSeqProperties DEF RestOf
<1>4. thread # << >>
  BY <1>1, <1>3
<1>5. i = Len(routine) => Tail(thread) = << >>
  BY <1>1, <1>2, SubSeqEmpty
<1>6. QED
  BY <1>2, <1>4, <1>5 DEF RestOf

-----------------------------------------------------------------------------
(* What the steps do.                                                      *)

LEMMA RailDoes ==
  ASSUME PowerTyped, NEW r \in Rails, NEW on \in BOOLEAN, HardwareStep(IF on THEN On(r) ELSE Off(r))
  PROVE  /\ rails' = IF on THEN rails \cup {r} ELSE rails \ {r}
         /\ UNCHANGED <<spi, ble, fpga, timer, power>>
<1>1. ble \in BOOLEAN /\ timer \in BOOLEAN
  BY DEF PowerTyped, FlagsTyped
<1>2. CASE on
  <2>1. HardwareStep(On(r))
    BY <1>2
  <2>2. QED
    BY <1>1, <1>2, <2>1, StepsDiffer DEF HardwareStep
<1>3. CASE ~on
  <2>1. HardwareStep(Off(r))
    BY <1>3
  <2>2. QED
    BY <1>1, <1>3, <2>1, StepsDiffer DEF HardwareStep
<1>4. QED
  BY <1>2, <1>3

LEMMA DoDoes ==
  ASSUME PowerTyped, NEW o \in Operations, HardwareStep(Do(o))
  PROVE  /\ rails' = rails
         /\ spi' = (o = "spiOn" \/ (spi /\ o \notin {"spiOff", "spiUninit"}))
         /\ ble' = (o = "bleOn" \/ (ble /\ o # "bleOff"))
         /\ fpga' = IF o = "hold" THEN "held" ELSE IF o = "release" THEN "running" ELSE fpga
         /\ timer' = (timer \/ o = "timerOn")
         /\ power' = IF o = "systemOff" THEN "off" ELSE power
<1>1. Do(o)[1] = o /\ o \notin {"on", "off"}
  BY StepsDiffer DEF Operations
<1>2. spi \in BOOLEAN /\ ble \in BOOLEAN /\ timer \in BOOLEAN
  BY DEF PowerTyped, FlagsTyped
<1>3. rails' = rails /\ fpga' = (IF o = "hold" THEN "held" ELSE IF o = "release" THEN "running" ELSE fpga)
  BY <1>1 DEF HardwareStep
<1>4. spi' = (o = "spiOn" \/ (spi /\ o \notin {"spiOff", "spiUninit"}))
  BY <1>1, <1>2 DEF HardwareStep
<1>5. ble' = (o = "bleOn" \/ (ble /\ o # "bleOff"))
  BY <1>1, <1>2 DEF HardwareStep
<1>6. timer' = (timer \/ o = "timerOn")
  BY <1>1, <1>2 DEF HardwareStep
<1>7. power' = IF o = "systemOff" THEN "off" ELSE power
  BY <1>1 DEF HardwareStep
<1>8. QED
  BY <1>3, <1>4, <1>5, <1>6, <1>7

(* The switches of power_all_rails, in their order.                        *)
LEMMA LowerStep ==
  ASSUME PowerTyped, RailOrder, NEW i \in 1 .. 4, Down(i), HardwareStep(AllRailsOff[i])
  PROVE  /\ RailOrder' /\ Down(i + 1)'
         /\ UNCHANGED <<spi, ble, fpga, timer, power>>
<1>1. PICK r \in Rails :
        /\ AllRailsOff[i] = Off(r)
        /\ \/ i = 1 /\ r = "10V"
           \/ i = 2 /\ r = "2V8"
           \/ i = 3 /\ r = "1V8"
           \/ i = 4 /\ r = "1V2"
  BY RailSteps DEF Rails
<1>2. HardwareStep(IF FALSE THEN On(r) ELSE Off(r))
  BY <1>1
<1>3. rails' = rails \ {r} /\ UNCHANGED <<spi, ble, fpga, timer, power>>
  BY <1>2, RailDoes
<1>4. RailOrder'
  BY <1>1, <1>3 DEF RailOrder, Down
<1>5. Down(i + 1)'
  BY <1>1, <1>3 DEF Down
<1>6. QED
  BY <1>3, <1>4, <1>5

LEMMA RaiseStep ==
  ASSUME PowerTyped, RailOrder, NEW i \in 1 .. 5, Up(i), HardwareStep(AllRailsOn[i])
  PROVE  /\ RailOrder' /\ Up(i + 1)'
         /\ UNCHANGED <<spi, ble, fpga, timer, power>>
<1>1. CASE i = 5
  <2>1. HardwareStep(Do("wakeFlash")) /\ "wakeFlash" \in Operations
    BY <1>1, RailSteps DEF Operations
  <2>2. rails' = rails /\ UNCHANGED <<spi, ble, fpga, timer, power>>
    BY <2>1, DoDoes DEF PowerTyped, FlagsTyped
  <2>3. QED
    BY <1>1, <2>2 DEF RailOrder, Up
<1>2. CASE i \in 1 .. 4
  <2>1. PICK r \in Rails :
          /\ AllRailsOn[i] = On(r)
          /\ \/ i = 1 /\ r = "1V2"
             \/ i = 2 /\ r = "1V8"
             \/ i = 3 /\ r = "2V8"
             \/ i = 4 /\ r = "10V"
    BY <1>2, RailSteps DEF Rails
  <2>2. HardwareStep(IF TRUE THEN On(r) ELSE Off(r))
    BY <2>1
  <2>3. rails' = rails \cup {r} /\ UNCHANGED <<spi, ble, fpga, timer, power>>
    BY <2>2, RailDoes
  <2>4. RailOrder'
    BY <2>1, <2>3 DEF RailOrder, Up
  <2>5. Up(i + 1)'
    BY <2>1, <2>3 DEF Up
  <2>6. QED
    BY <2>3, <2>4, <2>5
<1>3. QED
  BY <1>1, <1>2

-----------------------------------------------------------------------------
(* The routines, one step on.                                              *)

LEMMA StartUpStep ==
  ASSUME PowerTyped, RailOrder, NEW i \in 1 .. 18, i # 6, StartUpReady(i),
         HardwareStep(StartUp[i]), UNCHANGED <<runFlag, cut, outer>>
  PROVE  /\ RailOrder' /\ power' = power
         /\ i < 18 => StartUpReady(i + 1)'
         /\ i = 18 => PythonReady'
<1>1. CASE i \in 1 .. 4
  <2>1. HardwareStep(AllRailsOff[i]) /\ Down(i)
    BY <1>1, StartUpSteps, SMTT(20) DEF StartUpReady
  <2>2. RailOrder' /\ Down(i + 1)' /\ UNCHANGED <<spi, ble, fpga, timer, power>>
    BY <1>1, <2>1, LowerStep
  <2>3. QED
    BY <1>1, <2>2 DEF StartUpReady
<1>2. CASE i \in {5, 7, 8}
  <2>1. PICK o \in {"spiOn", "timerOn", "hold"} :
          StartUp[i] = Do(o) /\ (o = "timerOn" => i = 7)
    BY <1>2, StartUpSteps
  <2>2. HardwareStep(Do(o)) /\ o \in Operations
    BY <2>1 DEF Operations
  <2>3. /\ rails' = rails /\ ble' = ble /\ power' = power
        /\ i # 7 => timer' = timer
    BY <1>2, <2>1, <2>2, DoDoes, StartUpSteps, StepsDiffer DEF PowerTyped, FlagsTyped
  <2>4. RailOrder' /\ Down(i + 1)' /\ (i = 8 => Up(1)')
    BY <1>2, <2>3 DEF RailOrder, Down, Up, StartUpReady
  <2>5. QED
    BY <1>2, <2>3, <2>4 DEF StartUpReady
<1>3. CASE i \in 9 .. 13
  <2>1. HardwareStep(AllRailsOn[i - 8]) /\ Up(i - 8) /\ i - 8 \in 1 .. 5
    BY <1>3, StartUpSteps, SMTT(20) DEF StartUpReady
  <2>2. RailOrder' /\ Up((i - 8) + 1)' /\ UNCHANGED <<spi, ble, fpga, timer, power>>
    BY <2>1, RaiseStep
  <2>3. QED
    BY <1>3, <2>2 DEF StartUpReady, Up
<1>4. CASE i \in 14 .. 18
  <2>1. PICK o \in {"readMagic", "spiOff", "release", "spiOn", "bleOn"} :
          /\ StartUp[i] = Do(o)
          /\ (i = 17 => o = "spiOn") /\ (o = "bleOn" => i = 18) /\ (i = 18 => o = "bleOn")
          /\ i = 16 => o = "release"
    BY <1>4, StartUpSteps
  <2>2. HardwareStep(Do(o)) /\ o \in Operations
    BY <2>1 DEF Operations
  <2>3. /\ rails' = rails /\ power' = power
        /\ i < 18 => ble' = ble
        /\ i = 17 => spi'
        /\ i = 18 => spi' = spi
    <3>1. spi \in BOOLEAN /\ ble \in BOOLEAN
      BY DEF PowerTyped, FlagsTyped
    <3>2. /\ rails' = rails
          /\ spi' = (o = "spiOn" \/ (spi /\ o \notin {"spiOff", "spiUninit"}))
          /\ ble' = (o = "bleOn" \/ (ble /\ o # "bleOff"))
          /\ power' = IF o = "systemOff" THEN "off" ELSE power
      BY <2>2, DoDoes
    <3>3. CASE i = 18
      BY <2>1, <3>1, <3>2, <3>3
    <3>4. CASE i # 18
      <4>1. o # "bleOn" /\ o # "bleOff"
        BY <1>4, <2>1, <3>4
      <4>2. ble' = ble
        BY <3>1, <3>2, <4>1
      <4>3. i = 17 => spi'
        BY <2>1, <3>2
      <4>4. power' = power
        BY <2>1, <3>2
      <4>5. QED
        BY <3>2, <3>4, <4>2, <4>3, <4>4
    <3>5. QED
      BY <3>3, <3>4
  <2>4. RailOrder' /\ Up(i - 7)' /\ Up(5)'
    BY <1>4, <2>3 DEF RailOrder, Up, StartUpReady
  <2>5. i >= 16 => fpga' = "running"
    <3>1. i = 16 => fpga' = "running"
      BY <2>1, <2>2, DoDoes
    <3>2. i > 16 => fpga' = fpga /\ fpga = "running"
      BY <1>4, <2>1, <2>2, DoDoes DEF StartUpReady
    <3>3. QED
      BY <1>4, <3>1, <3>2
  <2>6. QED
    BY <1>4, <2>3, <2>4, <2>5 DEF StartUpReady, PythonReady
<1>5. QED
  BY <1>1, <1>2, <1>3, <1>4

LEMMA BootStep ==
  ASSUME PowerTyped, RailOrder, NEW i \in 1 .. 9, BootReady(i),
         HardwareStep(BootFpga[i]), UNCHANGED <<runFlag, cut, outer>>
  PROVE  /\ RailOrder' /\ power' = power
         /\ i < 9 => BootReady(i + 1)'
         /\ i = 9 => PythonReady'
<1>1. CASE i \in 1 .. 5
  <2>1. HardwareStep(AllRailsOn[i]) /\ Up(i)
    BY <1>1, BootSteps DEF BootReady
  <2>2. RailOrder' /\ Up(i + 1)' /\ UNCHANGED <<spi, ble, fpga, timer, power>>
    BY <1>1, <2>1, RaiseStep
  <2>3. QED
    BY <1>1, <2>2 DEF BootReady
<1>2. CASE i \in 6 .. 9
  <2>1. PICK o \in {"readMagic", "spiOff", "release", "spiOn"} :
          /\ BootFpga[i] = Do(o)
          /\ (i = 6 => o = "readMagic") /\ (i = 8 => o = "release") /\ (i = 9 => o = "spiOn")
    BY <1>2, BootSteps
  <2>2. HardwareStep(Do(o)) /\ o \in Operations
    BY <2>1 DEF Operations
  <2>3. /\ rails' = rails /\ power' = power
        /\ i = 6 => spi' = spi
        /\ i = 9 => spi'
    BY <1>2, <2>1, <2>2, DoDoes DEF PowerTyped, FlagsTyped
  <2>4. RailOrder' /\ Up(i + 1)' /\ Up(5)'
    BY <1>2, <2>3 DEF RailOrder, Up, BootReady
  <2>5. i >= 8 => fpga' = "running"
    <3>1. i = 8 => fpga' = "running"
      BY <2>1, <2>2, DoDoes
    <3>2. i = 9 => fpga' = fpga /\ fpga = "running"
      BY <2>1, <2>2, DoDoes DEF BootReady
    <3>3. QED
      BY <1>2, <3>1, <3>2
  <2>6. QED
    BY <1>2, <2>3, <2>4, <2>5 DEF BootReady, PythonReady
<1>3. QED
  BY <1>1, <1>2

LEMMA HoldStep ==
  ASSUME PowerTyped, RailOrder, NEW i \in 1 .. 10, HoldReady(i),
         HardwareStep(HoldFpga[i]), UNCHANGED <<runFlag, cut, outer>>
  PROVE  /\ RailOrder' /\ power' = power
         /\ i < 10 => HoldReady(i + 1)'
         /\ i = 10 => PythonReady'
<1>1. CASE i \in 1 .. 4
  <2>1. HardwareStep(AllRailsOff[i]) /\ Down(i)
    BY <1>1, HoldSteps DEF HoldReady
  <2>2. RailOrder' /\ Down(i + 1)' /\ UNCHANGED <<spi, ble, fpga, timer, power>>
    BY <1>1, <2>1, LowerStep
  <2>3. QED
    BY <1>1, <2>2 DEF HoldReady
<1>2. CASE i = 5
  <2>1. HardwareStep(Do("hold")) /\ "hold" \in Operations
    BY <1>2, HoldSteps DEF Operations
  <2>2. rails' = rails /\ power' = power /\ spi' = spi /\ fpga' = "held"
    BY <2>1, DoDoes DEF PowerTyped, FlagsTyped
  <2>3. RailOrder' /\ Down(6)' /\ Up(1)'
    BY <1>2, <2>2 DEF RailOrder, Down, Up, HoldReady
  <2>4. QED
    BY <1>2, <2>2, <2>3 DEF HoldReady
<1>3. CASE i \in 6 .. 10
  <2>1. HardwareStep(AllRailsOn[i - 5]) /\ Up(i - 5) /\ i - 5 \in 1 .. 5
    BY <1>3, HoldSteps DEF HoldReady
  <2>2. RailOrder' /\ Up((i - 5) + 1)' /\ UNCHANGED <<spi, ble, fpga, timer, power>>
    BY <2>1, RaiseStep
  <2>3. QED
    BY <1>3, <2>2 DEF HoldReady, PythonReady, Up
<1>4. QED
  BY <1>1, <1>2, <1>3

LEMMA LaterStep ==
  ASSUME PowerTyped, RailOrder, PythonReady, NEW o \in {"delay", "force"},
         HardwareStep(Do(o)), UNCHANGED <<runFlag, cut, outer>>
  PROVE  RailOrder' /\ power' = power /\ PythonReady'
<1>1. rails' = rails /\ power' = power /\ spi' = spi /\ fpga' = fpga
  BY DoDoes DEF PowerTyped, FlagsTyped, Operations
<1>2. QED
  BY <1>1 DEF RailOrder, PythonReady, Up

(* Sleep, in either thread: the last step turns the device off.            *)
LEMMA SleepStep ==
  ASSUME PowerTyped, RailOrder, NEW i \in 1 .. 7, SleepReady(i), HardwareStep(Sleep[i])
  PROVE  /\ RailOrder' /\ timer' = timer
         /\ i < 7 => SleepReady(i + 1)' /\ power' = power
         /\ i = 7 => power' = "off" /\ rails' = {} /\ ~spi' /\ ~ble'
<1>1. CASE i = 1
  <2>1. HardwareStep(Do("bleOff")) /\ "bleOff" \in Operations
    BY <1>1, SleepSteps DEF Operations
  <2>2. rails' = rails /\ power' = power /\ timer' = timer /\ ~ble'
    BY <2>1, DoDoes DEF PowerTyped, FlagsTyped
  <2>3. QED
    BY <1>1, <2>2 DEF RailOrder, SleepReady, Down
<1>2. CASE i \in 2 .. 5
  <2>1. HardwareStep(AllRailsOff[i - 1]) /\ Down(i - 1) /\ i - 1 \in 1 .. 4
    BY <1>2, SleepSteps DEF SleepReady
  <2>2. RailOrder' /\ Down((i - 1) + 1)' /\ UNCHANGED <<spi, ble, fpga, timer, power>>
    BY <2>1, LowerStep
  <2>3. QED
    BY <1>2, <2>2 DEF SleepReady
<1>3. CASE i \in {6, 7}
  <2>1. PICK o \in {"spiUninit", "systemOff"} : Sleep[i] = Do(o) /\ (i = 6 <=> o = "spiUninit")
    BY <1>3, SleepSteps
  <2>2. HardwareStep(Do(o)) /\ o \in Operations
    BY <2>1 DEF Operations
  <2>3. /\ rails' = rails /\ timer' = timer /\ ble' = ble
        /\ i = 6 => ~spi' /\ power' = power
        /\ i = 7 => spi' = spi /\ power' = "off"
    <3>1. spi \in BOOLEAN /\ ble \in BOOLEAN /\ timer \in BOOLEAN
      BY DEF PowerTyped, FlagsTyped
    <3>2. /\ rails' = rails
          /\ spi' = (o = "spiOn" \/ (spi /\ o \notin {"spiOff", "spiUninit"}))
          /\ ble' = (o = "bleOn" \/ (ble /\ o # "bleOff"))
          /\ timer' = (timer \/ o = "timerOn")
          /\ power' = IF o = "systemOff" THEN "off" ELSE power
      BY <2>2, DoDoes
    <3>3. timer' = timer /\ ble' = ble
      BY <2>1, <3>1, <3>2
    <3>4. i = 6 => o = "spiUninit"
      BY <2>1
    <3>5. i = 7 => o = "systemOff"
      BY <2>1
    <3>6. i = 6 => ~spi' /\ power' = power
      BY <3>1, <3>2, <3>4
    <3>7. i = 7 => spi' = spi /\ power' = "off"
      BY <3>1, <3>2, <3>5
    <3>8. QED
      BY <3>2, <3>3, <3>6, <3>7
  <2>4. rails = {} /\ ~ble /\ (i = 7 => ~spi)
    BY <1>3 DEF SleepReady, Down, PowerTyped, FlagsTyped, Rails
  <2>5. QED
    BY <1>3, <2>3, <2>4 DEF RailOrder, SleepReady, Down
<1>4. QED
  BY <1>1, <1>2, <1>3

-----------------------------------------------------------------------------
(* Types.                                                                  *)

LEMMA StepTyped ==
  ASSUME PowerTyped, NEW step \in Steps, HardwareStep(step),
         UNCHANGED <<runFlag, cut, safeMode, charging, resets>>
  PROVE  PowerTyped'
<1> USE DEF PowerTyped, FlagsTyped
<1>1. /\ FlagsTyped
      /\ fpga \in {"held", "running"} /\ power \in {"on", "off"}
  OBVIOUS
<1>2. rails' \subseteq Rails
  <2>1. step[1] = "on" => step[2] \in Rails
    BY StepsDiffer DEF Steps, Operations
  <2>2. QED
    BY <2>1 DEF HardwareStep
<1>3. FlagsTyped'
  <2>1. spi' \in BOOLEAN
    BY <1>1 DEF HardwareStep, FlagsTyped
  <2>2. ble' \in BOOLEAN
    BY <1>1 DEF HardwareStep, FlagsTyped
  <2>3. timer' \in BOOLEAN /\ prevent' \in BOOLEAN /\ force' \in BOOLEAN /\ subscribed' \in BOOLEAN
    BY <1>1 DEF HardwareStep, FlagsTyped
  <2>4. QED
    BY <1>1, <2>1, <2>2, <2>3 DEF FlagsTyped, safeMode
<1>4. fpga' \in {"held", "running"} /\ power' \in {"on", "off"}
  BY <1>1 DEF HardwareStep
<1>5. QED
  BY <1>2, <1>3, <1>4 DEF safeMode

LEMMA RoutinesAreSteps == \A routine \in Routines : routine \in Seq(Steps)
BY StartUpSteps, BootSteps, HoldSteps, SleepSteps, LaterSteps DEF Routines

LEMMA RestsOfRoutines ==
  ASSUME NEW routine \in Routines, NEW i \in 1 .. Len(routine) + 1
  PROVE  SubSeq(routine, i, Len(routine)) \in Rests
<1> DEFINE all(r) == {SubSeq(r, j, Len(r)) : j \in 1 .. Len(r) + 1}
<1>1. SubSeq(routine, i, Len(routine)) \in all(routine)
  OBVIOUS
<1>2. Rests = UNION {all(r) : r \in Routines}
  BY Zenon DEF Rests
<1> HIDE DEF all
<1>3. QED
  BY <1>1, <1>2

LEMMA RestsTail ==
  ASSUME NEW thread \in Rests, thread # << >>
  PROVE  Head(thread) \in Steps /\ Tail(thread) \in Rests
<1>0. PICK routine \in Routines : \E i \in 1 .. Len(routine) + 1 : RestOf(thread, routine, i)
  BY DEF Rests, RestOf
<1>1. PICK i \in 1 .. Len(routine) + 1 : RestOf(thread, routine, i)
  BY <1>0
<1>2. routine \in Seq(Steps) /\ Len(routine) \in Nat
  BY RoutinesAreSteps
<1>3. i \in 1 .. Len(routine)
  BY <1>1, <1>2, SubSeqEmpty DEF RestOf
<1>4. Head(thread) = routine[i] /\ RestOf(Tail(thread), routine, i + 1)
  BY <1>1, <1>2, <1>3, RestSteps
<1>5. i + 1 \in 1 .. Len(routine) + 1 /\ routine[i] \in Steps
  BY <1>2, <1>3
<1>6. QED
  BY <1>4, <1>5, RestsOfRoutines DEF RestOf

LEMMA RestsHave ==
  /\ << >> \in Rests
  /\ <<Do("main.py")>> \in Rests
  /\ SubSeq(StartUp, 19, Len(StartUp)) = <<Do("main.py")>>
  /\ \A routine \in Routines : routine \in Rests /\ RestOf(routine, routine, 1)
<1>1. \A routine \in Routines : routine \in Rests /\ RestOf(routine, routine, 1)
  <2>1. ASSUME NEW routine \in Routines PROVE routine \in Rests /\ RestOf(routine, routine, 1)
    <3>1. routine \in Seq(Steps) /\ Len(routine) \in Nat
      BY RoutinesAreSteps
    <3>2. SubSeq(routine, 1, Len(routine)) = routine
      BY <3>1, SubSeqFull
    <3>3. QED
      BY <3>1, <3>2 DEF Rests, RestOf
  <2>2. QED
    BY <2>1
<1>2. << >> \in Rests
  <2>1. SubSeq(Sleep, 8, Len(Sleep)) = << >> /\ Sleep \in Routines
    BY SleepSteps, SubSeqEmpty DEF Routines
  <2>2. 8 \in 1 .. Len(Sleep) + 1
    BY SleepSteps
  <2>3. SubSeq(Sleep, 8, Len(Sleep)) \in Rests
    BY <2>1, <2>2, RestsOfRoutines
  <2>4. QED
    BY <2>1, <2>3
<1>3. SubSeq(StartUp, 19, Len(StartUp)) = <<Do("main.py")>>
  <2>1. SubSeq(StartUp, 19, 19) = <<StartUp[19]>> \o SubSeq(StartUp, 20, 19)
    BY StartUpSteps, SubSeqRecursiveFirst
  <2>2. SubSeq(StartUp, 20, 19) = << >>
    BY SubSeqEmpty
  <2>3. <<StartUp[19]>> \o << >> = <<StartUp[19]>>
    OBVIOUS
  <2>4. QED
    BY <2>1, <2>2, <2>3, StartUpSteps
<1>4. <<Do("main.py")>> \in Rests
  <2>1. StartUp \in Routines /\ 19 \in 1 .. Len(StartUp) + 1
    BY StartUpSteps DEF Routines
  <2>2. SubSeq(StartUp, 19, Len(StartUp)) \in Rests
    BY <2>1, RestsOfRoutines
  <2>3. QED
    BY <1>3, <2>2
<1>5. QED
  BY <1>1, <1>2, <1>3, <1>4

(* Which steps are special, and which a KeyboardInterrupt can cut.         *)
LEMMA Heads ==
  /\ \A i \in 1 .. 18 : StartUp[i] # Do("main.py") /\ (StartUp[i][1] = "check" <=> i = 6)
  /\ \A i \in 1 .. 9 : /\ BootFpga[i] \notin {Do("check"), Do("main.py"), Do("delay")}
                       /\ BootFpga[i] = Do("readMagic") => i = 6
  /\ \A i \in 1 .. 10 : HoldFpga[i] \notin {Do("check"), Do("main.py"), Do("delay"), Do("readMagic")}
  /\ \A i \in 1 .. 7 : Sleep[i] \notin {Do("check"), Do("main.py"), Do("delay"), Do("readMagic")}
  /\ \A act \in {"force", "reset"}, i \in 1 .. 4 : Later(act)[i] \notin {Do("check"), Do("main.py")}
<1>1. \A i \in 1 .. 18 : StartUp[i] # Do("main.py") /\ (StartUp[i][1] = "check" <=> i = 6)
  <2>1. \A i \in (1 .. 4) \cup (9 .. 13) : StartUp[i][1] \in {"on", "off", "wakeFlash"}
    <3>1. \A i \in 1 .. 4 : AllRailsOff[i][1] = "off"
      BY RailSteps, StepsDiffer
    <3>2. \A i \in 1 .. 5 : AllRailsOn[i][1] \in {"on", "wakeFlash"}
      BY RailSteps, StepsDiffer
    <3>3. \A i \in 1 .. 4 : StartUp[i][1] = "off"
      <4>1. ASSUME NEW i \in 1 .. 4 PROVE StartUp[i][1] = "off"
        <5>1. StartUp[i] = AllRailsOff[i]
          BY StartUpSteps
        <5>2. QED
          BY <3>1, <5>1
      <4>2. QED
        BY <4>1
    <3>4. \A i \in 9 .. 13 : StartUp[i][1] \in {"on", "wakeFlash"}
      <4>1. ASSUME NEW i \in 9 .. 13 PROVE StartUp[i][1] \in {"on", "wakeFlash"}
        <5>1. StartUp[i] = AllRailsOn[i - 8] /\ i - 8 \in 1 .. 5
          BY StartUpSteps, SMTT(20)
        <5>2. QED
          BY <3>2, <5>1
      <4>2. QED
        BY <4>1
    <3>5. QED
      BY <3>3, <3>4
  <2>2. \A i \in {5, 7, 8} \cup (14 .. 18) : StartUp[i][1] \notin {"check", "main.py"}
    BY StartUpSteps, StepsDiffer
  <2>3. StartUp[6][1] = "check" /\ Do("main.py")[1] = "main.py"
    BY StartUpSteps, StepsDiffer
  <2>4. QED
    BY <2>1, <2>2, <2>3
<1>2. \A i \in 1 .. 9 : /\ BootFpga[i] \notin {Do("check"), Do("main.py"), Do("delay")}
                        /\ BootFpga[i] = Do("readMagic") => i = 6
  BY BootSteps, RailSteps, StepsDiffer
<1>3. \A i \in 1 .. 10 : HoldFpga[i] \notin {Do("check"), Do("main.py"), Do("delay"), Do("readMagic")}
  BY HoldSteps, RailSteps, StepsDiffer, SMTT(20)
<1>4. \A i \in 1 .. 7 : Sleep[i] \notin {Do("check"), Do("main.py"), Do("delay"), Do("readMagic")}
  BY SleepSteps, RailSteps, StepsDiffer
<1>5. \A act \in {"force", "reset"}, i \in 1 .. 4 : Later(act)[i] \notin {Do("check"), Do("main.py")}
  BY LaterSteps, StepsDiffer
<1>6. QED
  BY <1>1, <1>2, <1>3, <1>4, <1>5

LEMMA SleepingIsDecided ==
  ASSUME NEW i \in 1 .. 7, RestOf(isr, Sleep, i)
  PROVE  ~Undecided /\ Head(isr) = Sleep[i]
<1>1. isr # << >> /\ Head(isr) = Sleep[i]
  BY SleepSteps, RestSteps
<1>2. isr # <<Do("check")>>
  BY <1>1, Heads
<1>3. QED
  BY <1>1, <1>2 DEF Undecided

-----------------------------------------------------------------------------
(* The actions.                                                            *)

LEMMA PowerInit == Init => PowerInv
<1> SUFFICES ASSUME Init PROVE PowerInv
  OBVIOUS
<1>1. StartUp \in Routines
  BY DEF Routines
<1>2. PowerTyped
  <2>1. FlagsTyped
    BY DEF Init, FlagsTyped
  <2>2. QED
    BY <2>1, ResetsAssumption DEF Init, PowerTyped
<1>3. ThreadsTyped
  BY <1>1, RestsHave DEF Init, ThreadsTyped
<1>4. RailOrder /\ SleepIsDark /\ AskedIsFlagged /\ Undecided /\ power = "on" /\ OuterReady
  BY DEF Init, RailOrder, SleepIsDark, AskedIsFlagged, Undecided, OuterReady
<1>5. StartUpReady(1)
  BY DEF Init, StartUpReady, Down
<1>6. InStartUp
  BY <1>1, <1>5, RestsHave DEF Init, InStartUp
<1>7. QED
  BY <1>2, <1>3, <1>4, <1>6 DEF PowerInv, MainReady

(* A reset, with what survives it.                                         *)
LEMMA RestartKeeps ==
  ASSUME PowerInv, Restarted, UNCHANGED <<rails, fpga, charging>>,
         safeFlag' \in BOOLEAN, asked' \in BOOLEAN, asked' => safeFlag'
  PROVE  PowerInv'
<1>1. StartUp \in Routines
  BY DEF Routines
<1>2. PowerTyped'
  <2>1. FlagsTyped'
    BY DEF Restarted, PowerInv, PowerTyped, FlagsTyped
  <2>2. resets' \in 0 .. MaxResets
    BY ResetsAssumption DEF Restarted, PowerInv, PowerTyped
  <2>3. QED
    BY <2>1, <2>2 DEF Restarted, PowerInv, PowerTyped
<1>3. ThreadsTyped'
  BY <1>1, RestsHave DEF Restarted, ThreadsTyped
<1>4. RailOrder' /\ SleepIsDark' /\ AskedIsFlagged' /\ Undecided' /\ power' = "on" /\ OuterReady'
  BY DEF PowerInv, Restarted, RailOrder, SleepIsDark, AskedIsFlagged, Undecided, OuterReady
<1>5. StartUpReady(1)'
  BY DEF Restarted, StartUpReady, Down
<1>6. InStartUp'
  BY <1>1, <1>5, RestsHave DEF Restarted, InStartUp
<1>7. QED
  BY <1>2, <1>3, <1>4, <1>6 DEF PowerInv, MainReady

(* What the main thread may rely on depends on itself and the hardware.    *)
LEMMA ReadyKeeps ==
  ASSUME UNCHANGED <<hardware, todo, outer, runFlag, cut>>, MainReady
  PROVE  MainReady'
<1> USE DEF hardware
<1>1. InStartUp => InStartUp'
  <2>1. ASSUME NEW i \in 1 .. 18, StartUpReady(i) PROVE StartUpReady(i)'
    BY <2>1 DEF StartUpReady, Down, Up
  <2>2. QED
    BY <2>1 DEF InStartUp, RestOf
<1>2. InBoot => InBoot'
  BY DEF InBoot, RestOf, BootReady, Up
<1>3. InHold => InHold'
  BY DEF InHold, RestOf, HoldReady, Down, Up
<1>4. InLater => InLater'
  BY DEF InLater, RestOf, PythonReady, Up
<1>5. InSleep => InSleep'
  BY DEF InSleep, RestOf, SleepReady, Down
<1>6. AtPython => AtPython'
  BY DEF AtPython, PythonReady, Up
<1>7. QED
  BY <1>1, <1>2, <1>3, <1>4, <1>5, <1>6 DEF MainReady

LEMMA OuterKeeps ==
  ASSUME UNCHANGED <<outer, runFlag, cut>>, OuterReady
  PROVE  OuterReady'
<1>1. OuterBoots => OuterBoots'
  BY DEF OuterBoots, RestOf
<1>2. OuterIsLater => OuterIsLater'
  BY DEF OuterIsLater, RestOf
<1>3. QED
  BY <1>1, <1>2 DEF OuterReady

(* A rest of a routine, step by step.                                      *)
LEMMA RestCells ==
  ASSUME NEW routine \in Seq(Steps), NEW i \in 1 .. Len(routine), NEW thread, RestOf(thread, routine, i)
  PROVE  /\ DOMAIN thread = 1 .. Len(routine) - i + 1
         /\ \A j \in 1 .. Len(routine) - i + 1 : thread[j] = routine[i + j - 1]
<1>1. Len(routine) \in Nat /\ i \in Int /\ i <= Len(routine)
  OBVIOUS
<1>2. \A j \in i .. Len(routine) : routine[j] \in Steps
  OBVIOUS
<1>3. thread \in Seq(Steps) /\ Len(thread) = Len(routine) - i + 1
  BY <1>1, <1>2, SubSeqProperties DEF RestOf
<1>4. DOMAIN thread = 1 .. Len(routine) - i + 1
  BY <1>3
<1>5. \A j \in 1 .. Len(routine) - i + 1 : thread[j] = routine[i + j - 1]
  BY <1>1, <1>2, SubSeqProperties DEF RestOf
<1>6. QED
  BY <1>4, <1>5

(* Which of them releases the FPGA.                                        *)
LEMMA WhoBoots ==
  /\ ~Boots(<< >>)
  /\ \A thread : RestOf(thread, BootFpga, 6) => Boots(thread)
  /\ \A thread : \A act \in {"force", "reset"}, i \in 1 .. 3 : RestOf(thread, Later(act), i) => ~Boots(thread)
<1>1. ~Boots(<< >>)
  BY DEF Boots
<1>2. ASSUME NEW thread, RestOf(thread, BootFpga, 6) PROVE Boots(thread)
  <2>1. BootFpga \in Seq(Steps) /\ Len(BootFpga) = 9 /\ BootFpga[8] = Do("release")
    BY BootSteps
  <2>2. /\ DOMAIN thread = 1 .. Len(BootFpga) - 6 + 1
        /\ \A j \in 1 .. Len(BootFpga) - 6 + 1 : thread[j] = BootFpga[6 + j - 1]
    <3>1. 6 \in 1 .. Len(BootFpga)
      BY <2>1
    <3>2. QED
      BY <1>2, <2>1, <3>1, RestCells, Zenon
  <2>3. 3 \in DOMAIN thread /\ thread[3] = BootFpga[8]
    BY <2>1, <2>2
  <2>4. QED
    BY <2>1, <2>3 DEF Boots
<1>3. ASSUME NEW thread, NEW act \in {"force", "reset"}, NEW i \in 1 .. 3, RestOf(thread, Later(act), i)
      PROVE  ~Boots(thread)
  <2>1. Later(act) \in Seq(Steps) /\ Len(Later(act)) = 4
    BY LaterSteps
  <2>2. \A j \in 1 .. 4 : Later(act)[j] # Do("release")
    BY LaterSteps, StepsDiffer
  <2>3. /\ DOMAIN thread = 1 .. Len(Later(act)) - i + 1
        /\ \A j \in 1 .. Len(Later(act)) - i + 1 : thread[j] = Later(act)[i + j - 1]
    <3>1. i \in 1 .. Len(Later(act))
      BY <2>1
    <3>2. QED
      BY <1>3, <2>1, <3>1, RestCells, Zenon
  <2>4. ASSUME NEW j \in DOMAIN thread PROVE thread[j] # Do("release")
    <3>1. j \in 1 .. 4 - i + 1 /\ i + j - 1 \in 1 .. 4
      BY <2>1, <2>3
    <3>2. thread[j] = Later(act)[i + j - 1]
      BY <2>3
    <3>3. QED
      BY <2>2, <3>1, <3>2
  <2>5. QED
    BY <2>4 DEF Boots
<1>4. QED
  BY <1>1, <1>2, <1>3

(* What the charger, the central and prevent_sleep do.                     *)
LEMMA WorldKeeps ==
  ASSUME PowerInv, UNCHANGED <<hardware, threads, force, runFlag, cut, safeMode, power, resets>>,
         prevent' \in BOOLEAN, charging' \in BOOLEAN, subscribed' \in BOOLEAN
  PROVE  PowerInv'
<1> USE DEF hardware, threads, safeMode
<1>1. PowerTyped' /\ ThreadsTyped'
  BY DEF PowerInv, PowerTyped, FlagsTyped, ThreadsTyped
<1>2. RailOrder' /\ SleepIsDark' /\ AskedIsFlagged' /\ (power' = "off" => isr' = << >>)
  BY DEF PowerInv, RailOrder, SleepIsDark, AskedIsFlagged
<1>3. (Undecided' <=> Undecided) /\ (IsrSleeps => IsrSleeps')
  BY DEF Undecided, IsrSleeps, RestOf, SleepReady, Down
<1>4. MainReady => MainReady'
  BY ReadyKeeps
<1>5. OuterReady'
  BY OuterKeeps DEF PowerInv
<1>6. QED
  BY <1>1, <1>2, <1>3, <1>4, <1>5 DEF PowerInv

LEMMA ResetActions ==
  ASSUME PowerInv, Reset \/ WakeUp \/ EnterSafeMode \/ MainReset
  PROVE  PowerInv'
<1>1. safeFlag \in BOOLEAN /\ asked \in BOOLEAN /\ (asked => safeFlag)
  BY DEF PowerInv, PowerTyped, FlagsTyped, AskedIsFlagged
<1>2. CASE Reset \/ WakeUp \/ MainReset
  <2>1. Restarted /\ UNCHANGED <<rails, fpga, safeFlag, asked, charging>>
    BY <1>2 DEF Reset, WakeUp, MainReset
  <2>2. QED
    BY <1>1, <2>1, RestartKeeps
<1>3. CASE EnterSafeMode
  <2>1. /\ Restarted /\ UNCHANGED <<rails, fpga, charging>>
        /\ safeFlag' = TRUE /\ asked' = TRUE
    BY <1>3 DEF EnterSafeMode
  <2>2. QED
    BY <2>1, RestartKeeps
<1>4. QED
  BY <1>2, <1>3

(* The head of a thread that is in a routine, and what is behind it.       *)
Before(thread, routine, i) ==
  /\ thread # << >>
  /\ Head(thread) = routine[i]
  /\ RestOf(Tail(thread), routine, i + 1)
  /\ i = Len(routine) => Tail(thread) = << >>

LEMMA InRoutines ==
  /\ InStartUp => \E i \in 1 .. 18 : Before(todo, StartUp, i) /\ StartUpReady(i)
  /\ InBoot => \E i \in 1 .. 9 : Before(todo, BootFpga, i) /\ BootReady(i)
  /\ InHold => \E i \in 1 .. 10 : Before(todo, HoldFpga, i) /\ HoldReady(i)
  /\ InLater => \E act \in {"force", "reset"}, i \in 1 .. 4 : Before(todo, Later(act), i) /\ PythonReady
  /\ InSleep => \E i \in 1 .. 7 : Before(todo, Sleep, i) /\ SleepReady(i) /\ ~timer
<1>1. ASSUME NEW routine \in Seq(Steps), NEW i \in 1 .. Len(routine), RestOf(todo, routine, i)
      PROVE  Before(todo, routine, i)
  BY <1>1, RestSteps DEF Before
<1>2. ASSUME InStartUp PROVE \E i \in 1 .. 18 : Before(todo, StartUp, i) /\ StartUpReady(i)
  <2>1. PICK i \in 1 .. 18 : RestOf(todo, StartUp, i) /\ StartUpReady(i)
    BY <1>2 DEF InStartUp
  <2>2. Before(todo, StartUp, i)
    <3>1. StartUp \in Seq(Steps) /\ i \in 1 .. Len(StartUp)
      BY StartUpSteps
    <3>2. QED
      BY <1>1, <2>1, <3>1
  <2>3. QED
    BY <2>1, <2>2
<1>3. ASSUME InBoot PROVE \E i \in 1 .. 9 : Before(todo, BootFpga, i) /\ BootReady(i)
  <2>1. PICK i \in 1 .. 9 : RestOf(todo, BootFpga, i) /\ BootReady(i)
    BY <1>3 DEF InBoot
  <2>2. Before(todo, BootFpga, i)
    BY <1>1, <2>1, BootSteps
  <2>3. QED
    BY <2>1, <2>2
<1>4. ASSUME InHold PROVE \E i \in 1 .. 10 : Before(todo, HoldFpga, i) /\ HoldReady(i)
  <2>1. PICK i \in 1 .. 10 : RestOf(todo, HoldFpga, i) /\ HoldReady(i)
    BY <1>4 DEF InHold
  <2>2. Before(todo, HoldFpga, i)
    BY <1>1, <2>1, HoldSteps
  <2>3. QED
    BY <2>1, <2>2
<1>5. ASSUME InLater
      PROVE  \E act \in {"force", "reset"}, i \in 1 .. 4 : Before(todo, Later(act), i) /\ PythonReady
  <2>1. PICK act \in {"force", "reset"}, i \in 1 .. 4 : RestOf(todo, Later(act), i) /\ PythonReady
    BY <1>5 DEF InLater
  <2>2. Before(todo, Later(act), i)
    BY <1>1, <2>1, LaterSteps
  <2>3. QED
    BY <2>1, <2>2
<1>6. ASSUME InSleep PROVE \E i \in 1 .. 7 : Before(todo, Sleep, i) /\ SleepReady(i) /\ ~timer
  <2>1. PICK i \in 1 .. 7 : RestOf(todo, Sleep, i) /\ SleepReady(i) /\ ~timer
    BY <1>6 DEF InSleep
  <2>2. Before(todo, Sleep, i)
    BY <1>1, <2>1, SleepSteps
  <2>3. QED
    BY <2>1, <2>2
<1>7. QED
  BY <1>2, <1>3, <1>4, <1>5, <1>6

(* What is left to do when the thread is at Python.                        *)
LEMMA PythonIsReady ==
  ASSUME PowerInv, PythonRuns
  PROVE  AtPython
<1>1. MainReady /\ todo = << >>
  BY DEF PowerInv, PythonRuns, Undecided
<1>2. ~InStartUp /\ ~InBoot /\ ~InHold /\ ~InLater /\ ~InSleep
  BY <1>1, InRoutines DEF Before
<1>3. QED
  BY <1>1, <1>2 DEF MainReady

(* The main thread starts a routine from Python.                           *)
LEMMA PythonStarts ==
  ASSUME PowerInv, PythonRuns,
         UNCHANGED <<hardware, isr, prevent, force, safeMode, world, power, resets>>,
         runFlag' \in BOOLEAN, cut' \in BOOLEAN, todo' \in Rests, outer' \in Rests,
         MainReady', OuterReady'
  PROVE  PowerInv'
<1> USE DEF hardware, safeMode, world
<1>1. PowerTyped' /\ ThreadsTyped'
  BY DEF PowerInv, PowerTyped, FlagsTyped, ThreadsTyped
<1>2. RailOrder' /\ SleepIsDark' /\ AskedIsFlagged' /\ (power' = "off" => isr' = << >>)
  BY DEF PowerInv, RailOrder, SleepIsDark, AskedIsFlagged
<1>3. Undecided'
  BY DEF PythonRuns, Undecided
<1>4. QED
  BY <1>1, <1>2, <1>3 DEF PowerInv

LEMMA FpgaRunKeeps ==
  ASSUME PowerInv, NEW run \in BOOLEAN, FpgaRun(run)
  PROVE  PowerInv'
<1>1. /\ PythonRuns /\ runFlag' = run /\ cut' = Boots(outer)
      /\ todo' = IF run THEN BootFpga ELSE HoldFpga
      /\ UNCHANGED <<hardware, isr, outer, prevent, force, safeMode, world, power, resets>>
  BY DEF FpgaRun
<1>2. PythonReady
  BY <1>1, PythonIsReady DEF AtPython
<1>3. BootFpga \in Routines /\ HoldFpga \in Routines
  BY DEF Routines
<1>4. cut' \in BOOLEAN /\ outer' \in Rests
  BY <1>1 DEF Boots, PowerInv, ThreadsTyped
<1>5. OuterReady'
  <2>1. CASE outer = << >>
    BY <1>1, <2>1 DEF OuterReady
  <2>2. CASE OuterBoots
    <3>1. cut'
      BY <1>1, <2>2, WhoBoots DEF OuterBoots
    <3>2. QED
      BY <1>1, <2>2, <3>1 DEF OuterReady, OuterBoots, RestOf
  <2>3. CASE OuterIsLater
    BY <1>1, <2>3 DEF OuterReady, OuterIsLater, RestOf
  <2>4. QED
    BY <2>1, <2>2, <2>3 DEF PowerInv, OuterReady
<1>6. CASE run
  <2>1. BootReady(1)'
    BY <1>1, <1>2, <1>6 DEF hardware, PythonReady, BootReady, Up
  <2>2. InBoot'
    BY <1>1, <1>3, <1>6, <2>1, RestsHave DEF InBoot
  <2>3. QED
    BY <1>1, <1>3, <1>6, <1>4, <1>5, <2>2, RestsHave, PythonStarts DEF MainReady
<1>7. CASE ~run
  <2>1. HoldReady(1)'
    BY <1>1, <1>2, <1>7 DEF hardware, PythonReady, HoldReady, Down
  <2>2. InHold'
    BY <1>1, <1>3, <1>7, <2>1, RestsHave DEF InHold
  <2>3. QED
    BY <1>1, <1>3, <1>7, <1>4, <1>5, <2>2, RestsHave, PythonStarts DEF MainReady
<1>8. QED
  BY <1>6, <1>7

LEMMA CallLaterKeeps ==
  ASSUME PowerInv, NEW act \in {"force", "reset"}, CallLater(act)
  PROVE  PowerInv'
<1>1. /\ PythonRuns /\ todo' = Later(act)
      /\ UNCHANGED <<hardware, isr, outer, flags, safeMode, world, power, resets>>
  BY DEF CallLater
<1>2. PythonReady'
  BY <1>1, PythonIsReady DEF AtPython, hardware, flags, PythonReady, Up
<1>3. Later(act) \in Routines
  BY DEF Routines
<1>4. InLater'
  BY <1>1, <1>2, <1>3, RestsHave DEF InLater
<1>5. runFlag' \in BOOLEAN /\ cut' \in BOOLEAN /\ outer' \in Rests /\ OuterReady'
  BY <1>1, OuterKeeps DEF flags, PowerInv, PowerTyped, FlagsTyped, ThreadsTyped
<1>6. UNCHANGED <<hardware, isr, prevent, force, safeMode, world, power, resets>>
  BY <1>1 DEF flags
<1>7. todo' \in Rests /\ MainReady'
  BY <1>1, <1>3, <1>4, RestsHave DEF MainReady
<1>8. QED
  BY <1>1, <1>5, <1>6, <1>7, PythonStarts

LEMMA SoftRebootKeeps ==
  ASSUME PowerInv, SoftReboot
  PROVE  PowerInv'
<1>1. /\ PythonRuns /\ todo' = <<Do("main.py")>>
      /\ UNCHANGED <<hardware, isr, outer, flags, safeMode, world, power, resets>>
  BY DEF SoftReboot
<1>2. AtPython'
  BY <1>1, PythonIsReady DEF AtPython, hardware, flags, PythonReady, Up
<1>3. runFlag' \in BOOLEAN /\ cut' \in BOOLEAN /\ outer' \in Rests /\ OuterReady'
  BY <1>1, OuterKeeps DEF flags, PowerInv, PowerTyped, FlagsTyped, ThreadsTyped
<1>4. UNCHANGED <<hardware, isr, prevent, force, safeMode, world, power, resets>>
  BY <1>1 DEF flags
<1>5. todo' \in Rests /\ MainReady'
  BY <1>1, <1>2, RestsHave DEF MainReady
<1>6. QED
  BY <1>1, <1>3, <1>4, <1>5, PythonStarts

(* Where the thread can be in a wait that polls the event hook.            *)
LEMMA WaitsWhere ==
  ASSUME PowerInv, Waits
  PROVE  /\ todo \in Rests /\ Undecided /\ power = "on" /\ todo # << >>
         /\ \/ /\ RestOf(todo, BootFpga, 6) /\ BootReady(6)
               /\ Head(todo) = Do("readMagic")
            \/ /\ \E act \in {"force", "reset"}, i \in 1 .. 3 : RestOf(todo, Later(act), i)
               /\ PythonReady /\ Head(todo) = Do("delay")
<1>1. MainRuns /\ ble /\ Head(todo) \in {Do("delay"), Do("readMagic")} /\ todo # << >>
  BY DEF Waits, MainRuns
<1>2. MainReady /\ Undecided /\ power = "on" /\ todo \in Rests
  BY <1>1 DEF PowerInv, MainRuns, Undecided, ThreadsTyped
<1>3. ~InStartUp
  BY <1>1, InRoutines DEF StartUpReady
<1>4. ~InHold /\ ~InSleep
  BY <1>1, InRoutines, Heads DEF Before
<1>5. ~AtPython
  BY <1>1, StepsDiffer DEF AtPython
<1>6. CASE InBoot
  <2>1. PICK i \in 1 .. 9 : RestOf(todo, BootFpga, i) /\ BootReady(i)
    BY <1>6 DEF InBoot
  <2>2. Head(todo) = BootFpga[i]
    BY <2>1, BootSteps, RestSteps
  <2>3. i = 6
    BY <1>1, <2>2, Heads
  <2>4. QED
    BY <1>1, <1>2, <2>1, <2>2, <2>3, BootSteps
<1>7. CASE InLater
  <2>1. PICK act \in {"force", "reset"}, i \in 1 .. 4 : RestOf(todo, Later(act), i) /\ PythonReady
    BY <1>7 DEF InLater
  <2>2. Head(todo) = Later(act)[i]
    BY <2>1, LaterSteps, RestSteps
  <2>3. i # 4
    BY <1>1, <2>2, LaterSteps, StepsDiffer
  <2>4. i \in 1 .. 3 /\ Head(todo) = Do("delay")
    BY <2>2, <2>3, LaterSteps
  <2>5. QED
    BY <1>1, <1>2, <2>1, <2>4
<1>8. QED
  BY <1>2, <1>3, <1>4, <1>5, <1>6, <1>7 DEF MainReady

(* What happens in a wait leaves the hardware and the interrupt alone.     *)
LEMMA WaitKeeps ==
  ASSUME PowerInv, Undecided, UNCHANGED <<hardware, isr, prevent, force, runFlag, safeMode, world, power, resets>>,
         cut' \in BOOLEAN, todo' \in Rests, outer' \in Rests, MainReady', OuterReady'
  PROVE  PowerInv'
<1> USE DEF hardware, safeMode, world
<1>1. PowerTyped' /\ ThreadsTyped'
  BY DEF PowerInv, PowerTyped, FlagsTyped, ThreadsTyped
<1>2. RailOrder' /\ SleepIsDark' /\ AskedIsFlagged' /\ (power' = "off" => isr' = << >>)
  BY DEF PowerInv, RailOrder, SleepIsDark, AskedIsFlagged
<1>3. Undecided'
  BY DEF Undecided
<1>4. QED
  BY <1>1, <1>2, <1>3 DEF PowerInv

(* KeyboardInterrupt ends a delay, or the wait for the flash in            *)
(* monocle_fpga_reset(true), and leaves the thread at Python.              *)
LEMMA InterruptedKeeps ==
  ASSUME PowerInv, Interrupted
  PROVE  PowerInv'
<1>1. /\ Waits /\ todo' = << >> /\ cut' = (cut \/ Head(todo) = Do("readMagic"))
      /\ UNCHANGED <<hardware, isr, outer, prevent, force, runFlag, safeMode, world, power, resets>>
  BY DEF Interrupted
<1>2. cut \in BOOLEAN /\ outer \in Rests /\ OuterReady
  BY DEF PowerInv, PowerTyped, FlagsTyped, ThreadsTyped
<1>3. cut' \in BOOLEAN /\ (cut => cut')
  BY <1>1, <1>2
<1>4. PythonReady'
  <2>1. CASE RestOf(todo, BootFpga, 6) /\ BootReady(6) /\ Head(todo) = Do("readMagic")
    <3>1. cut'
      BY <1>1, <1>2, <2>1
    <3>2. Up(5)' /\ spi'
      BY <1>1, <2>1 DEF hardware, BootReady, Up
    <3>3. QED
      BY <3>1, <3>2 DEF PythonReady
  <2>2. CASE PythonReady
    BY <1>1, <1>3, <2>2 DEF hardware, PythonReady, Up
  <2>3. QED
    BY <1>1, <2>1, <2>2, WaitsWhere
<1>5. MainReady'
  BY <1>1, <1>4 DEF MainReady, AtPython
<1>6. OuterReady'
  <2>1. OuterBoots => OuterBoots'
    BY <1>1, <1>3 DEF OuterBoots, RestOf
  <2>2. OuterIsLater => OuterIsLater'
    BY <1>1 DEF OuterIsLater, RestOf
  <2>3. QED
    BY <1>1, <1>2, <2>1, <2>2 DEF OuterReady
<1>7. todo' \in Rests /\ outer' \in Rests /\ Undecided
  BY <1>1, <1>2, RestsHave, WaitsWhere
<1>8. QED
  BY <1>1, <1>3, <1>5, <1>6, <1>7, WaitKeeps

(* A callback runs in such a wait, and leaves it where it was.             *)
LEMMA CallbackStartsKeeps ==
  ASSUME PowerInv, CallbackStarts
  PROVE  PowerInv'
<1>1. /\ Waits /\ outer = << >> /\ outer' = todo /\ todo' = << >>
      /\ UNCHANGED <<hardware, isr, flags, safeMode, world, power, resets>>
  BY DEF CallbackStarts
<1>2. PythonReady' /\ OuterReady'
  <2>1. CASE RestOf(todo, BootFpga, 6) /\ BootReady(6)
    <3>1. RestOf(outer', BootFpga, 6)
      BY <1>1, <2>1
    <3>2. Boots(outer)'
      BY <3>1, WhoBoots DEF Boots
    <3>3. PythonReady'
      BY <1>1, <2>1, <3>2 DEF hardware, BootReady, PythonReady, Up
    <3>4. OuterBoots'
      BY <1>1, <2>1, <3>1 DEF flags, BootReady, OuterBoots, RestOf
    <3>5. QED
      BY <3>3, <3>4 DEF OuterReady
  <2>2. CASE /\ \E act \in {"force", "reset"}, i \in 1 .. 3 : RestOf(todo, Later(act), i)
             /\ PythonReady
    <3>1. ~Boots(outer)
      BY <1>1, WhoBoots
    <3>2. PythonReady'
      BY <1>1, <2>2, <3>1 DEF hardware, flags, PythonReady, Up
    <3>3. OuterIsLater'
      BY <1>1, <2>2 DEF OuterIsLater, RestOf
    <3>4. QED
      BY <3>2, <3>3 DEF OuterReady
  <2>3. QED
    BY <1>1, <2>1, <2>2, WaitsWhere
<1>3. MainReady'
  BY <1>1, <1>2 DEF MainReady, AtPython
<1>4. cut' \in BOOLEAN /\ todo' \in Rests /\ outer' \in Rests /\ Undecided
  BY <1>1, RestsHave, WaitsWhere DEF flags, PowerInv, PowerTyped, FlagsTyped
<1>5. QED
  BY <1>1, <1>2, <1>3, <1>4, WaitKeeps DEF flags

LEMMA CallbackReturnsKeeps ==
  ASSUME PowerInv, CallbackReturns
  PROVE  PowerInv'
<1>1. /\ PythonRuns /\ outer # << >> /\ todo' = outer /\ outer' = << >>
      /\ UNCHANGED <<hardware, isr, flags, safeMode, world, power, resets>>
  BY DEF CallbackReturns
<1>2. PythonReady
  BY <1>1, PythonIsReady DEF AtPython
<1>3. MainReady'
  <2>1. CASE OuterBoots
    <3>1. BootReady(6)'
      BY <1>1, <1>2, <2>1 DEF hardware, flags, OuterBoots, BootReady, PythonReady, Up
    <3>2. RestOf(todo, BootFpga, 6)'
      BY <1>1, <2>1 DEF OuterBoots, RestOf
    <3>3. InBoot'
      BY <3>1, <3>2 DEF InBoot
    <3>4. QED
      BY <3>3 DEF MainReady
  <2>2. CASE OuterIsLater
    <3>1. ~Boots(outer)
      BY <2>2, WhoBoots DEF OuterIsLater
    <3>2. PythonReady'
      BY <1>1, <1>2, <3>1 DEF hardware, flags, PythonReady, Up
    <3>3. PICK act \in {"force", "reset"}, i \in 1 .. 3 : RestOf(outer, Later(act), i)
      BY <2>2 DEF OuterIsLater
    <3>4. RestOf(todo, Later(act), i)' /\ i \in 1 .. 4
      BY <1>1, <3>3 DEF RestOf
    <3>5. InLater'
      BY <3>2, <3>4 DEF InLater
    <3>6. QED
      BY <3>5 DEF MainReady
  <2>3. QED
    BY <1>1, <2>1, <2>2 DEF PowerInv, OuterReady
<1>4. cut' \in BOOLEAN /\ todo' \in Rests /\ outer' \in Rests /\ Undecided /\ OuterReady'
  BY <1>1, RestsHave
    DEF flags, PythonRuns, Undecided, OuterReady, PowerInv, PowerTyped, FlagsTyped, ThreadsTyped
<1>5. QED
  BY <1>1, <1>3, <1>4, WaitKeeps DEF flags

(* The check that start-up makes.                                          *)
LEMMA MainCheckKeeps ==
  ASSUME PowerInv, MainCheck
  PROVE  PowerInv'
<1>1. /\ MainRuns /\ Head(todo) = Do("check")
      /\ todo' = IF SleepNow THEN Sleep ELSE Tail(todo)
      /\ UNCHANGED <<hardware, isr, outer, flags, safeMode, world, power, resets>>
  BY DEF MainCheck
<1>2. MainReady /\ todo # << >>
  BY <1>1 DEF PowerInv, MainRuns, Undecided
<1>3. StartUpReady(6) /\ RestOf(Tail(todo), StartUp, 7)
  <2>1. ~InBoot /\ ~InHold /\ ~InLater /\ ~InSleep
    BY <1>1, InRoutines, Heads DEF Before
  <2>2. ~AtPython
    BY <1>1, <1>2, StepsDiffer DEF AtPython
  <2>3. PICK i \in 1 .. 18 : Before(todo, StartUp, i) /\ StartUpReady(i)
    BY <1>2, <2>1, <2>2, InRoutines DEF MainReady
  <2>4. StartUp[i][1] = "check"
    BY <1>1, <2>3, StepsDiffer DEF Before
  <2>5. i = 6
    BY <2>4, Heads
  <2>6. QED
    BY <2>3, <2>5 DEF Before
<1> USE DEF hardware, flags, safeMode, world
<1>4. MainReady'
  <2>1. CASE SleepNow
    <3>1. SleepReady(1)' /\ ~timer'
      BY <1>1, <1>3 DEF SleepReady, StartUpReady
    <3>2. RestOf(todo', Sleep, 1)
      BY <1>1, <2>1, RestsHave DEF Routines
    <3>3. InSleep'
      BY <3>1, <3>2 DEF InSleep, RestOf
    <3>4. QED
      BY <3>3 DEF MainReady
  <2>2. CASE ~SleepNow
    <3>1. StartUpReady(7)'
      BY <1>1, <1>3 DEF StartUpReady, Down
    <3>2. RestOf(todo', StartUp, 7)
      BY <1>1, <1>3, <2>2
    <3>3. InStartUp'
      <4>1. 7 \in 1 .. 18
        OBVIOUS
      <4>2. RestOf(todo, StartUp, 7)'
        BY <3>2 DEF RestOf
      <4>3. QED
        BY <3>1, <4>1, <4>2 DEF InStartUp
    <3>4. QED
      BY <3>3 DEF MainReady
  <2>3. QED
    BY <2>1, <2>2
<1>5. PowerTyped'
  BY <1>1 DEF PowerInv, PowerTyped, FlagsTyped
<1>6. ThreadsTyped'
  <2>1. Sleep \in Rests /\ Tail(todo) \in Rests
    BY <1>2, RestsHave, RestsTail DEF PowerInv, ThreadsTyped, Routines
  <2>2. QED
    BY <1>1, <2>1 DEF PowerInv, ThreadsTyped
<1>7. RailOrder' /\ SleepIsDark' /\ AskedIsFlagged' /\ (power' = "off" => isr' = << >>)
  BY <1>1 DEF PowerInv, RailOrder, SleepIsDark, AskedIsFlagged
<1>8. Undecided' /\ OuterReady'
  BY <1>1, OuterKeeps DEF MainRuns, Undecided, PowerInv
<1>9. QED
  BY <1>4, <1>5, <1>6, <1>7, <1>8 DEF PowerInv

(* main.py is run, or skipped in safe mode.                                *)
LEMMA MainPyKeeps ==
  ASSUME PowerInv, MainPy
  PROVE  PowerInv'
<1>1. /\ MainRuns /\ Head(todo) = Do("main.py") /\ todo' = Tail(todo)
      /\ ranMain' = ~safeFlag /\ asked' = (asked /\ ~safeFlag) /\ safeFlag' = FALSE
      /\ UNCHANGED <<hardware, isr, outer, flags, world, power, resets>>
  BY DEF MainPy
<1>2. MainReady /\ todo # << >>
  BY <1>1 DEF PowerInv, MainRuns, Undecided
<1>3. AtPython /\ todo = <<Do("main.py")>>
  <2>1. ~InStartUp /\ ~InBoot /\ ~InHold /\ ~InLater /\ ~InSleep
    BY <1>1, InRoutines, Heads DEF Before
  <2>2. QED
    BY <1>2, <2>1 DEF MainReady, AtPython
<1>4. todo' = << >>
  BY <1>1, <1>3
<1> USE DEF hardware, flags, world
<1>5. AtPython'
  BY <1>1, <1>3, <1>4 DEF AtPython, PythonReady, Up
<1>6. safeFlag \in BOOLEAN /\ asked \in BOOLEAN /\ (asked => safeFlag)
  BY DEF PowerInv, PowerTyped, FlagsTyped, AskedIsFlagged
<1>7. asked' = FALSE /\ safeFlag' = FALSE /\ ranMain' \in BOOLEAN
  BY <1>1, <1>6
<1>8. PowerTyped'
  <2>1. PowerTyped /\ FlagsTyped
    BY DEF PowerInv, PowerTyped
  <2>2. FlagsTyped'
    BY <1>1, <1>7, <2>1, Zenon DEF FlagsTyped
  <2>3. QED
    BY <1>1, <2>1, <2>2 DEF PowerTyped
<1>9. ThreadsTyped'
  BY <1>1, <1>4, RestsHave DEF PowerInv, ThreadsTyped
<1>10. RailOrder' /\ SleepIsDark' /\ AskedIsFlagged' /\ (power' = "off" => isr' = << >>)
  BY <1>1, <1>7 DEF PowerInv, RailOrder, SleepIsDark, AskedIsFlagged
<1>11. Undecided' /\ OuterReady'
  BY <1>1, OuterKeeps DEF MainRuns, Undecided, PowerInv
<1>12. QED
  BY <1>5, <1>8, <1>9, <1>10, <1>11 DEF PowerInv, MainReady

(* Any other step of the main thread.                                      *)
LEMMA MainStepKeeps ==
  ASSUME PowerInv, MainStep
  PROVE  PowerInv'
<1>1. /\ power = "on" /\ isr = << >> /\ todo # << >>
      /\ Head(todo)[1] \notin Special /\ HardwareStep(Head(todo)) /\ todo' = Tail(todo)
      /\ isr' = isr
      /\ UNCHANGED <<outer, runFlag, cut, safeMode, charging, resets>>
  BY DEF MainStep, MainRuns
<1>2. MainReady /\ PowerTyped /\ RailOrder
  BY <1>1 DEF PowerInv, Undecided
<1>3. Head(todo) \in Steps /\ Tail(todo) \in Rests
  BY <1>1, RestsTail DEF PowerInv, ThreadsTyped
<1>4. PowerTyped'
  BY <1>1, <1>2, <1>3, StepTyped
<1>5. ThreadsTyped' /\ AskedIsFlagged' /\ Undecided' /\ isr' = << >> /\ OuterReady'
  BY <1>1, <1>3, RestsHave, OuterKeeps DEF PowerInv, ThreadsTyped, AskedIsFlagged, Undecided, safeMode
<1>6. /\ RailOrder'
      /\ \/ power' = power /\ MainReady'
         \/ power' = "off" /\ rails' = {} /\ ~spi' /\ ~ble'
  <2>1. CASE InStartUp
    <3>1. PICK i \in 1 .. 18 : Before(todo, StartUp, i) /\ StartUpReady(i)
      BY <2>1, InRoutines
    <3>2. HardwareStep(StartUp[i]) /\ RestOf(todo', StartUp, i + 1) /\ StartUp[i][1] # "check"
      BY <1>1, <3>1 DEF Before, Special
    <3>3. i # 6
      BY <3>2, Heads
    <3>4. /\ RailOrder' /\ power' = power
          /\ i < 18 => StartUpReady(i + 1)'
          /\ i = 18 => PythonReady'
      BY <1>1, <1>2, <3>1, <3>2, <3>3, StartUpStep
    <3>5. CASE i < 18
      <4>1. RestOf(todo, StartUp, i + 1)'
        BY <3>2 DEF RestOf
      <4>2. i + 1 \in 1 .. 18
        BY <3>5
      <4>3. InStartUp'
        BY <3>4, <3>5, <4>1, <4>2 DEF InStartUp
      <4>4. QED
        BY <3>4, <4>3 DEF MainReady
    <3>6. CASE i = 18
      <4>1. todo' = <<Do("main.py")>>
        BY <3>2, <3>6, RestsHave DEF RestOf
      <4>2. QED
        BY <3>4, <3>6, <4>1 DEF MainReady, AtPython
    <3>7. QED
      BY <3>5, <3>6
  <2>2. CASE InBoot
    <3>1. PICK i \in 1 .. 9 : Before(todo, BootFpga, i) /\ BootReady(i)
      BY <2>2, InRoutines
    <3>2. HardwareStep(BootFpga[i]) /\ RestOf(todo', BootFpga, i + 1) /\ (i = 9 => todo' = << >>)
      BY <1>1, <3>1, BootSteps DEF Before
    <3>3. /\ RailOrder' /\ power' = power
          /\ i < 9 => BootReady(i + 1)'
          /\ i = 9 => PythonReady'
      BY <1>1, <1>2, <3>1, <3>2, BootStep
    <3>4. CASE i < 9
      <4>1. RestOf(todo, BootFpga, i + 1)' /\ i + 1 \in 1 .. 9
        BY <3>2, <3>4 DEF RestOf
      <4>2. InBoot'
        BY <3>3, <3>4, <4>1 DEF InBoot
      <4>3. QED
        BY <3>3, <4>2 DEF MainReady
    <3>5. CASE i = 9
      BY <3>2, <3>3, <3>5 DEF MainReady, AtPython
    <3>6. QED
      BY <3>4, <3>5
  <2>3. CASE InHold
    <3>1. PICK i \in 1 .. 10 : Before(todo, HoldFpga, i) /\ HoldReady(i)
      BY <2>3, InRoutines
    <3>2. HardwareStep(HoldFpga[i]) /\ RestOf(todo', HoldFpga, i + 1) /\ (i = 10 => todo' = << >>)
      BY <1>1, <3>1, HoldSteps DEF Before
    <3>3. /\ RailOrder' /\ power' = power
          /\ i < 10 => HoldReady(i + 1)'
          /\ i = 10 => PythonReady'
      BY <1>1, <1>2, <3>1, <3>2, HoldStep
    <3>4. CASE i < 10
      <4>1. RestOf(todo, HoldFpga, i + 1)' /\ i + 1 \in 1 .. 10
        BY <3>2, <3>4 DEF RestOf
      <4>2. InHold'
        BY <3>3, <3>4, <4>1 DEF InHold
      <4>3. QED
        BY <3>3, <4>2 DEF MainReady
    <3>5. CASE i = 10
      BY <3>2, <3>3, <3>5 DEF MainReady, AtPython
    <3>6. QED
      BY <3>4, <3>5
  <2>4. CASE InLater
    <3>1. PICK act \in {"force", "reset"}, i \in 1 .. 4 : Before(todo, Later(act), i) /\ PythonReady
      BY <2>4, InRoutines
    <3>2. PICK o \in {"delay", "force"} : Later(act)[i] = Do(o)
      <4>1. i \in 1 .. 3 => Later(act)[i] = Do("delay")
        BY LaterSteps
      <4>2. i = 4 => Later(act)[i] = Do(act)
        BY LaterSteps
      <4>3. i = 4 => act # "reset"
        BY <1>1, <3>1, <4>2, StepsDiffer DEF Before, Special
      <4>4. QED
        BY <4>1, <4>2, <4>3
    <3>3. /\ HardwareStep(Do(o)) /\ RestOf(todo', Later(act), i + 1)
          /\ i = 4 => todo' = << >>
      BY <1>1, <3>1, <3>2, LaterSteps DEF Before
    <3>4. RailOrder' /\ power' = power /\ PythonReady'
      BY <1>1, <1>2, <3>1, <3>3, LaterStep
    <3>5. CASE i < 4
      <4>1. RestOf(todo, Later(act), i + 1)' /\ i + 1 \in 1 .. 4
        BY <3>3, <3>5 DEF RestOf
      <4>2. InLater'
        BY <3>4, <4>1 DEF InLater
      <4>3. QED
        BY <3>4, <4>2 DEF MainReady
    <3>6. CASE i = 4
      BY <3>3, <3>4, <3>6 DEF MainReady, AtPython
    <3>7. QED
      BY <3>5, <3>6
  <2>5. CASE InSleep
    <3>1. PICK i \in 1 .. 7 : Before(todo, Sleep, i) /\ SleepReady(i) /\ ~timer
      BY <2>5, InRoutines
    <3>2. HardwareStep(Sleep[i]) /\ RestOf(todo', Sleep, i + 1)
      BY <1>1, <3>1 DEF Before
    <3>3. /\ RailOrder' /\ timer' = timer
          /\ i < 7 => SleepReady(i + 1)' /\ power' = power
          /\ i = 7 => power' = "off" /\ rails' = {} /\ ~spi' /\ ~ble'
      BY <1>2, <3>1, <3>2, SleepStep
    <3>4. CASE i < 7
      <4>1. RestOf(todo, Sleep, i + 1)' /\ i + 1 \in 1 .. 7
        BY <3>2, <3>4 DEF RestOf
      <4>2. InSleep'
        BY <3>1, <3>3, <3>4, <4>1 DEF InSleep
      <4>3. QED
        BY <3>3, <3>4, <4>2 DEF MainReady
    <3>5. CASE i = 7
      BY <3>3, <3>5
    <3>6. QED
      BY <3>4, <3>5
  <2>6. CASE AtPython
    <3>1. todo = <<Do("main.py")>>
      BY <1>1, <2>6 DEF AtPython
    <3>2. Head(todo)[1] = "main.py"
      BY <3>1, StepsDiffer
    <3>3. QED
      BY <1>1, <3>2 DEF Special
  <2>7. QED
    BY <1>2, <2>1, <2>2, <2>3, <2>4, <2>5, <2>6 DEF MainReady
<1>7. SleepIsDark'
  BY <1>1, <1>6 DEF SleepIsDark
<1>8. power' = "on" => MainReady'
  BY <1>6
<1>9. QED
  BY <1>4, <1>5, <1>6, <1>7, <1>8 DEF PowerInv

(* The timer interrupt: it starts, decides, and goes to sleep.             *)
LEMMA TimerFiresKeeps ==
  ASSUME PowerInv, TimerFires
  PROVE  PowerInv'
<1>1. /\ power = "on" /\ isr = << >> /\ isr' = <<Do("check")>>
      /\ UNCHANGED <<hardware, todo, outer, flags, safeMode, world, power, resets>>
  BY DEF TimerFires
<1>2. MainReady
  BY <1>1 DEF PowerInv, Undecided
<1>3. MainReady'
  <2>1. UNCHANGED <<hardware, todo, outer, runFlag, cut>>
    BY <1>1 DEF flags
  <2>2. QED
    BY <1>2, <2>1, ReadyKeeps
<1> USE DEF hardware, flags, safeMode, world
<1>4. PowerTyped' /\ ThreadsTyped'
  BY <1>1 DEF PowerInv, PowerTyped, FlagsTyped, ThreadsTyped
<1>5. RailOrder' /\ SleepIsDark' /\ AskedIsFlagged' /\ power' = "on"
  BY <1>1 DEF PowerInv, RailOrder, SleepIsDark, AskedIsFlagged
<1>6. Undecided' /\ OuterReady'
  BY <1>1, OuterKeeps DEF Undecided, PowerInv
<1>7. QED
  BY <1>3, <1>4, <1>5, <1>6 DEF PowerInv

LEMMA IsrCheckKeeps ==
  ASSUME PowerInv, IsrCheck
  PROVE  PowerInv'
<1>1. /\ isr = <<Do("check")>> /\ isr' = IF SleepNow THEN Sleep ELSE << >>
      /\ UNCHANGED <<hardware, todo, outer, flags, safeMode, world, power, resets>>
  BY DEF IsrCheck
<1>2. power = "on" /\ MainReady
  <2>1. isr # << >>
    BY <1>1
  <2>2. QED
    BY <1>1, <2>1 DEF PowerInv, PowerTyped, Undecided
<1>3. MainReady'
  <2>1. UNCHANGED <<hardware, todo, outer, runFlag, cut>>
    BY <1>1 DEF flags
  <2>2. QED
    BY <1>2, <2>1, ReadyKeeps
<1>4. Undecided' \/ IsrSleeps'
  <2>1. CASE SleepNow
    <3>1. RestOf(isr', Sleep, 1)
      BY <1>1, <2>1, RestsHave DEF Routines
    <3>2. SleepReady(1)'
      BY DEF SleepReady
    <3>3. QED
      BY <3>1, <3>2 DEF IsrSleeps, RestOf
  <2>2. CASE ~SleepNow
    BY <1>1, <2>2 DEF Undecided
  <2>3. QED
    BY <2>1, <2>2
<1>5. isr' \in Rests
  BY <1>1, RestsHave DEF Routines
<1> USE DEF hardware, flags, safeMode, world
<1>6. PowerTyped' /\ ThreadsTyped'
  BY <1>1, <1>5 DEF PowerInv, PowerTyped, FlagsTyped, ThreadsTyped
<1>7. RailOrder' /\ SleepIsDark' /\ AskedIsFlagged' /\ power' = "on"
  BY <1>1, <1>2 DEF PowerInv, RailOrder, SleepIsDark, AskedIsFlagged
<1>8. OuterReady'
  BY <1>1, OuterKeeps DEF PowerInv
<1>9. QED
  BY <1>3, <1>4, <1>6, <1>7, <1>8 DEF PowerInv

LEMMA IsrStepKeeps ==
  ASSUME PowerInv, IsrStep
  PROVE  PowerInv'
<1>1. /\ power = "on" /\ isr # << >> /\ Head(isr)[1] \notin Special
      /\ HardwareStep(Head(isr)) /\ isr' = Tail(isr)
      /\ UNCHANGED <<todo, outer, runFlag, cut, safeMode, charging, resets>>
  BY DEF IsrStep
<1>2. PowerTyped /\ RailOrder
  BY DEF PowerInv
<1>3. IsrSleeps
  <2>1. isr # <<Do("check")>>
    BY <1>1, StepsDiffer DEF Special
  <2>2. QED
    BY <1>1, <2>1 DEF PowerInv, Undecided
<1>4. PICK i \in 1 .. 7 : RestOf(isr, Sleep, i) /\ SleepReady(i)
  BY <1>3 DEF IsrSleeps
<1>5. Head(isr) = Sleep[i] /\ RestOf(Tail(isr), Sleep, i + 1) /\ (i = 7 => Tail(isr) = << >>)
  <2>1. ASSUME NEW routine \in Seq(Steps), NEW j \in 1 .. Len(routine), RestOf(isr, routine, j)
        PROVE  Before(isr, routine, j)
    BY <2>1, RestSteps DEF Before
  <2>2. Sleep \in Seq(Steps) /\ i \in 1 .. Len(Sleep) /\ Len(Sleep) = 7
    BY SleepSteps
  <2>3. Before(isr, Sleep, i)
    BY <1>4, <2>1, <2>2
  <2>4. QED
    BY <2>2, <2>3 DEF Before
<1>6. Head(isr) \in Steps
  <2>1. \A routine \in Seq(Steps) : \A j \in 1 .. Len(routine) : routine[j] \in Steps
    OBVIOUS
  <2>2. Sleep[i] \in Steps
    BY <2>1, SleepSteps
  <2>3. QED
    BY <1>5, <2>2
<1>7. /\ RailOrder'
      /\ i < 7 => SleepReady(i + 1)' /\ power' = power
      /\ i = 7 => power' = "off" /\ rails' = {} /\ ~spi' /\ ~ble'
  BY <1>1, <1>2, <1>4, <1>5, SleepStep
<1>8. PowerTyped'
  BY <1>1, <1>2, <1>6, StepTyped
<1>9. AskedIsFlagged' /\ todo' \in Rests /\ outer' \in Rests /\ OuterReady'
  BY <1>1, OuterKeeps DEF PowerInv, AskedIsFlagged, ThreadsTyped, safeMode
<1>10. CASE i < 7
  <2>1. RestOf(isr, Sleep, i + 1)' /\ i + 1 \in 1 .. 7
    BY <1>1, <1>5, <1>10 DEF RestOf
  <2>2. IsrSleeps'
    BY <1>7, <1>10, <2>1 DEF IsrSleeps
  <2>3. ~Undecided'
    <3>1. RestOf(isr', Sleep, i + 1)
      BY <1>1, <1>5
    <3>2. Sleep \in Seq(Steps) /\ i + 1 \in 1 .. Len(Sleep)
      BY <2>1, SleepSteps
    <3>3. isr' # << >> /\ Head(isr') = Sleep[i + 1]
      BY <3>1, <3>2, RestSteps
    <3>4. Sleep[i + 1] # Do("check")
      BY <2>1, Heads
    <3>5. isr' # <<Do("check")>>
      BY <3>3, <3>4
    <3>6. QED
      BY <3>3, <3>5 DEF Undecided
  <2>4. isr' \in Rests
    <3>1. Sleep \in Routines /\ i + 1 \in 1 .. Len(Sleep) + 1
      BY <2>1, SleepSteps DEF Routines
    <3>2. QED
      BY <1>1, <1>5, <3>1, RestsOfRoutines DEF RestOf
  <2>5. power' = "on" /\ SleepIsDark'
    BY <1>1, <1>7, <1>10 DEF SleepIsDark
  <2>6. QED
    BY <1>7, <1>8, <1>9, <2>2, <2>3, <2>4, <2>5 DEF PowerInv, ThreadsTyped
<1>11. CASE i = 7
  <2>1. isr' = << >> /\ power' = "off" /\ SleepIsDark'
    BY <1>1, <1>5, <1>7, <1>11 DEF SleepIsDark
  <2>2. Undecided' /\ ThreadsTyped'
    BY <1>9, <2>1, RestsHave DEF Undecided, ThreadsTyped
  <2>3. QED
    BY <1>7, <1>8, <1>9, <2>1, <2>2 DEF PowerInv
<1>12. QED
  BY <1>10, <1>11

LEMMA PowerNext == PowerInv /\ [Next]_vars => PowerInv'
<1> SUFFICES ASSUME PowerInv, [Next]_vars PROVE PowerInv'
  OBVIOUS
<1>0. FlagsTyped
  BY DEF PowerInv, PowerTyped
<1>1. CASE MainStep \/ MainCheck \/ MainPy
  BY <1>1, MainStepKeeps, MainCheckKeeps, MainPyKeeps
<1>2. CASE TimerFires \/ IsrCheck \/ IsrStep
  BY <1>2, TimerFiresKeeps, IsrCheckKeeps, IsrStepKeeps
<1>3. CASE Reset \/ WakeUp \/ EnterSafeMode \/ MainReset
  BY <1>3, ResetActions
<1>4. CASE Python
  <2>1. ASSUME NEW b \in BOOLEAN, FpgaRun(b) PROVE PowerInv'
    BY <2>1, FpgaRunKeeps
  <2>2. ASSUME NEW b \in BOOLEAN, PreventSleep(b) PROVE PowerInv'
    <3>1. /\ prevent' \in BOOLEAN
          /\ UNCHANGED <<hardware, threads, force, runFlag, cut, safeMode, power, resets, world>>
      BY <2>2 DEF PreventSleep
    <3>2. charging' \in BOOLEAN /\ subscribed' \in BOOLEAN
      BY <1>0, <3>1 DEF world, FlagsTyped
    <3>3. QED
      BY <3>1, <3>2, WorldKeeps
  <2>3. CASE CallLater("force") \/ CallLater("reset")
    BY <2>3, CallLaterKeeps
  <2>4. CASE Interrupted \/ CallbackStarts \/ CallbackReturns \/ SoftReboot
    BY <2>4, InterruptedKeeps, CallbackStartsKeeps, CallbackReturnsKeeps, SoftRebootKeeps
  <2>5. QED
    BY <1>4, <2>1, <2>2, <2>3, <2>4 DEF Python
<1>5. CASE Charger \/ Central
  <2>1. /\ charging' \in BOOLEAN /\ subscribed' \in BOOLEAN
        /\ UNCHANGED <<hardware, threads, flags, safeMode, power, resets>>
    BY <1>0, <1>5 DEF Charger, Central, FlagsTyped
  <2>2. prevent' \in BOOLEAN /\ UNCHANGED <<force, runFlag, cut>>
    BY <1>0, <2>1 DEF flags, FlagsTyped
  <2>3. QED
    BY <2>1, <2>2, WorldKeeps
<1>6. CASE UNCHANGED vars
  <2>1. /\ UNCHANGED <<hardware, threads, force, runFlag, cut, safeMode, power, resets>>
        /\ prevent' = prevent /\ charging' = charging /\ subscribed' = subscribed
    BY <1>6 DEF vars, flags, world
  <2>2. QED
    BY <1>0, <2>1, WorldKeeps DEF FlagsTyped
<1>7. QED
  BY <1>1, <1>2, <1>3, <1>4, <1>5, <1>6 DEF Next

LEMMA PowerSafe == Spec => []PowerInv
BY PowerInit, PowerNext, PTL DEF Spec

-----------------------------------------------------------------------------
(* TypeOK of the rails, threads and flags.                                 *)
THEOREM PowerTypeCorrect == Spec => []TypeOK
<1>1. PowerInv => TypeOK
  BY DEF PowerInv, PowerTyped, FlagsTyped, ThreadsTyped, TypeOK
<1>2. QED
  BY <1>1, PowerSafe, PTL

(* power_all_rails keeps the order of the rails, although the timer        *)
(* interrupt or a reset cuts it anywhere and starts another sequence.      *)
THEOREM RailsInOrder == Spec => []RailOrder
<1>1. PowerInv => RailOrder
  BY DEF PowerInv
<1>2. QED
  BY <1>1, PowerSafe, PTL

(* check_if_battery_charging_and_sleep turns the device off with every     *)
(* rail, the SPI driver and the SoftDevice off.                            *)
THEOREM SleepsDark == Spec => []SleepIsDark
<1>1. PowerInv => SleepIsDark
  BY DEF PowerInv
<1>2. QED
  BY <1>1, PowerSafe, PTL

(* Wherever monocle_fpga_reset was cut by KeyboardInterrupt: when Python   *)
(* runs all rails are up and the SPI driver works.                         *)
THEOREM PythonIsPowered == Spec => []PythonHasPower
<1>1. PowerInv => PythonHasPower
  <2> SUFFICES ASSUME PowerInv, PythonRuns PROVE rails = Rails /\ spi
    BY DEF PythonHasPower
  <2>1. PythonReady /\ rails \subseteq Rails
    BY PythonIsReady DEF AtPython, PowerInv, PowerTyped
  <2>2. spi
    BY <2>1 DEF PythonReady
  <2>3. Up(5)
    BY <2>1 DEF PythonReady
  <2>4. "1V2" \in rails /\ "1V8" \in rails /\ "2V8" \in rails /\ "10V" \in rails
    BY <2>3 DEF Up
  <2>5. rails = Rails
    BY <2>1, <2>4 DEF Rails
  <2>6. QED
    BY <2>2, <2>5
<1>2. QED
  BY <1>1, PowerSafe, PTL

(* Outside a boot fpga.run() answers what the FPGA does, unless something  *)
(* came into the wait of the last boot of monocle_fpga_reset.              *)
THEOREM FlagIsTold == Spec => []FlagTellsState
<1>1. PowerInv => FlagTellsState
  BY PythonIsReady DEF FlagTellsState, AtPython, PythonReady
<1>2. QED
  BY <1>1, PowerSafe, PTL

(* main.py does not run before a boot that honoured the safe mode flag.    *)
THEOREM SafeModeIsHonoured == Spec => []SafeModeHonoured
<1>1. PowerInv => SafeModeHonoured
  BY DEF PowerInv, AskedIsFlagged, SafeModeHonoured
<1>2. QED
  BY <1>1, PowerSafe, PTL

-----------------------------------------------------------------------------
(* TwiBus.                                                                 *)

(* BusTypeOK, variable by variable.                                        *)
BusFlagsTyped ==
  /\ inFlight \in BOOLEAN /\ writes \in BOOLEAN /\ txOk \in BOOLEAN
  /\ fail \in BOOLEAN /\ disturbed \in BOOLEAN
DataTyped ==
  /\ reg \in [Registers -> Values]
  /\ pointer \in Registers
  /\ pc \in {"idle", "address", "read", "write"}
  /\ tries \in 0 .. 2
  /\ target \in Registers
  /\ mask \in Values /\ set \in Values /\ value \in Values
Typed == BusFlagsTyped /\ DataTyped

(* Only a write is at its third transfer, and only another register than   *)
(* the charge check's is written.                                          *)
WriteIsMeant ==
  /\ pc = "write" => writes
  /\ writes => target # Status

(* The address that was acknowledged is still where the PMIC will read.    *)
AddressHolds == (pc = "read" /\ txOk /\ ~disturbed) => pointer = target

(* What is merged in is the target's own.                                  *)
ValueIsTargets == (pc = "write" /\ ~disturbed) => value \ mask = reg[target] \ mask

BusInv ==
  /\ Typed
  /\ WriteIsMeant
  /\ AddressHolds
  /\ ValueIsTargets
  /\ RequestedBitsSet

(* The value written has the other bits of the value read, and the bits    *)
(* asked for.                                                              *)
LEMMA Merging ==
  /\ UpdatedValue \ mask = value \ mask
  /\ UpdatedValue \cap mask = set \cap mask
BY DEF UpdatedValue

LEMMA WrittenIs ==
  ASSUME Typed
  PROVE  /\ UpdatedValue \in Values
         /\ Written \in [Registers -> Values]
         /\ Written[target] = UpdatedValue
<1>1. value \subseteq Bits /\ set \subseteq Bits
  BY DEF Typed, BusFlagsTyped, DataTyped, Values
<1>2. UpdatedValue \in Values
  BY <1>1 DEF UpdatedValue, Values
<1>3. QED
  BY <1>2 DEF Typed, BusFlagsTyped, DataTyped, Written

LEMMA NoBits == {} \in Values
BY DEF Values

LEMMA BusStarts == BusInit => BusInv
<1> SUFFICES ASSUME BusInit PROVE BusInv
  OBVIOUS
<1>1. Typed
  <2>1. BusFlagsTyped
    BY DEF BusInit, Idle, BusFlagsTyped
  <2>2. DataTyped
    BY BusAssumption, NoBits DEF BusInit, Idle, DataTyped
  <2>3. QED
    BY <2>1, <2>2 DEF Typed
<1>2. WriteIsMeant /\ AddressHolds /\ ValueIsTargets /\ RequestedBitsSet
  BY DEF BusInit, Idle, WriteIsMeant, AddressHolds, ValueIsTargets, RequestedBitsSet
<1>3. QED
  BY <1>1, <1>2 DEF BusInv

LEMMA CallReadKeeps == ASSUME BusInv, CallRead PROVE BusInv'
<1>1. Typed
  BY DEF BusInv
<1>2. Typed'
  <2>1. BusFlagsTyped'
    BY <1>1 DEF CallRead, Start, Typed, BusFlagsTyped
  <2>2. DataTyped'
    BY <1>1, NoBits DEF CallRead, Start, Typed, DataTyped
  <2>3. QED
    BY <2>1, <2>2 DEF Typed
<1>3. /\ pc' = "address" /\ ~writes'
  BY DEF CallRead, Start
<1>4. WriteIsMeant' /\ AddressHolds' /\ ValueIsTargets' /\ RequestedBitsSet'
  BY <1>3 DEF WriteIsMeant, AddressHolds, ValueIsTargets, RequestedBitsSet
<1>5. QED
  BY <1>2, <1>4 DEF BusInv

LEMMA CallWriteKeeps == ASSUME BusInv, CallWrite PROVE BusInv'
<1>1. Typed
  BY DEF BusInv
<1>2. Typed'
  <2>1. BusFlagsTyped'
    BY <1>1 DEF CallWrite, Start, Typed, BusFlagsTyped
  <2>2. DataTyped'
    BY <1>1, NoBits DEF CallWrite, Start, Typed, DataTyped
  <2>3. QED
    BY <2>1, <2>2 DEF Typed
<1>3. PICK r \in Registers \ {Status}, m \in Values, v \in Values :
        /\ Start(r, IF m = Bits THEN "write" ELSE "address")
        /\ writes' = TRUE
        /\ mask' = m
        /\ set' = v
  BY DEF CallWrite
<1>4. WriteIsMeant' /\ AddressHolds' /\ RequestedBitsSet'
  BY <1>3 DEF Start, WriteIsMeant, AddressHolds, RequestedBitsSet
<1>5. ValueIsTargets'
  <2>1. SUFFICES ASSUME pc' = "write" PROVE value' \ mask' = reg'[target'] \ mask'
    BY DEF ValueIsTargets
  <2>2. mask' = Bits
    BY <1>3, <2>1 DEF Start
  <2>3. value' \subseteq Bits /\ reg'[target'] \subseteq Bits
    BY <1>2 DEF Typed, BusFlagsTyped, DataTyped, Values
  <2>4. QED
    BY <2>2, <2>3
<1>6. QED
  BY <1>2, <1>4, <1>5 DEF BusInv

LEMMA BeginKeeps == ASSUME BusInv, BeginTransfer PROVE BusInv'
BY DEF BeginTransfer, call, response, BusInv, Typed, BusFlagsTyped, DataTyped, WriteIsMeant, AddressHolds, ValueIsTargets, RequestedBitsSet

LEMMA AddressSentKeeps == ASSUME BusInv, AddressSent PROVE BusInv'
<1>1. Typed'
  BY DEF AddressSent, BusInv, Typed, BusFlagsTyped, DataTyped, call, response
<1>2. pc' = "read" /\ (txOk' => pointer' = target') /\ writes' = writes /\ target' = target
  BY DEF AddressSent, call
<1>3. WriteIsMeant' /\ AddressHolds' /\ ValueIsTargets' /\ RequestedBitsSet'
  BY <1>2 DEF BusInv, WriteIsMeant, AddressHolds, ValueIsTargets, RequestedBitsSet
<1>4. QED
  BY <1>1, <1>3 DEF BusInv

LEMMA ValueReadKeeps == ASSUME BusInv, ValueRead PROVE BusInv'
<1>1. Typed /\ WriteIsMeant /\ AddressHolds
  BY DEF BusInv
<1>2. /\ pc = "read"
      /\ reg' = reg /\ pointer' = pointer /\ txOk' = txOk /\ disturbed' = disturbed
      /\ target' = target /\ mask' = mask /\ set' = set /\ writes' = writes
      /\ inFlight' = FALSE
  BY DEF ValueRead, call
<1>3. PICK rxOk \in BOOLEAN :
        LET got == IF rxOk THEN reg[pointer] ELSE value
        IN  /\ value' = IF writes THEN got ELSE got \cap mask
            /\ \/ /\ ReadIsGood(rxOk)
                  /\ pc' = IF writes THEN "write" ELSE "idle"
                  /\ tries' = 0
                  /\ UNCHANGED fail
               \/ /\ ~ReadIsGood(rxOk)
                  /\ ~LastTry
                  /\ pc' = "address"
                  /\ tries' = tries + 1
                  /\ UNCHANGED fail
               \/ /\ ~ReadIsGood(rxOk)
                  /\ LastTry
                  /\ pc' = "idle"
                  /\ fail' = TRUE
                  /\ UNCHANGED tries
  BY DEF ValueRead
<1>4. Typed'
  <2>1. value' \in Values
    <3>1. reg[pointer] \subseteq Bits /\ value \subseteq Bits
      BY <1>1 DEF Typed, BusFlagsTyped, DataTyped, Values
    <3>2. value' \subseteq Bits
      BY <1>3, <3>1
    <3>3. QED
      BY <3>2 DEF Values
  <2>2. tries' \in 0 .. 2
    BY <1>1, <1>3 DEF Typed, BusFlagsTyped, DataTyped, LastTry, Tries
  <2>3. pc' \in {"idle", "address", "read", "write"} /\ fail' \in BOOLEAN
    BY <1>1, <1>3 DEF Typed, BusFlagsTyped, DataTyped
  <2>4. QED
    BY <1>1, <1>2, <2>1, <2>2, <2>3 DEF Typed, BusFlagsTyped, DataTyped
<1>5. WriteIsMeant'
  BY <1>1, <1>2, <1>3 DEF WriteIsMeant
<1>6. AddressHolds'
  BY <1>3 DEF AddressHolds
<1>7. ValueIsTargets'
  <2>1. SUFFICES ASSUME pc' = "write", ~disturbed PROVE value' = reg[target]
    BY <1>2 DEF ValueIsTargets
  <2>2. rxOk /\ txOk /\ writes
    BY <1>3, <2>1 DEF ReadIsGood
  <2>3. pointer = target
    BY <1>1, <1>2, <2>1, <2>2 DEF AddressHolds
  <2>4. QED
    BY <1>3, <2>2, <2>3
<1>8. RequestedBitsSet'
  BY <1>2, <1>3 DEF RequestedBitsSet
<1>9. QED
  BY <1>4, <1>5, <1>6, <1>7, <1>8 DEF BusInv

LEMMA ValueWrittenKeeps == ASSUME BusInv, ValueWritten PROVE BusInv'
<1>1. Typed /\ WriteIsMeant /\ ValueIsTargets
  BY DEF BusInv
<1>2. /\ pc = "write" /\ inFlight' = FALSE
      /\ target' = target /\ mask' = mask /\ set' = set /\ writes' = writes
      /\ txOk' = txOk /\ value' = value /\ disturbed' = disturbed
  BY DEF ValueWritten, call
<1>3. CASE /\ reg' = Written
           /\ pointer' = target
           /\ pc' = "idle"
           /\ UNCHANGED <<tries, fail>>
  <2>1. Typed'
    BY <1>1, <1>2, <1>3, WrittenIs DEF Typed, BusFlagsTyped, DataTyped
  <2>2. reg'[target'] \cap mask' = set' \cap mask'
    BY <1>1, <1>2, <1>3, WrittenIs, Merging
  <2>3. WriteIsMeant' /\ AddressHolds' /\ ValueIsTargets' /\ RequestedBitsSet'
    BY <1>1, <1>2, <1>3, <2>2 DEF WriteIsMeant, AddressHolds, ValueIsTargets, RequestedBitsSet
  <2>4. QED
    BY <2>1, <2>3 DEF BusInv
<1>4. CASE /\ ~LastTry
           /\ tries' = tries + 1
           /\ UNCHANGED <<reg, pointer, pc, fail>>
  <2>1. Typed'
    <3>1. tries' \in 0 .. 2
      BY <1>1, <1>4 DEF Typed, DataTyped, LastTry, Tries
    <3>2. QED
      BY <1>1, <1>2, <1>4, <3>1 DEF Typed, BusFlagsTyped, DataTyped
  <2>2. WriteIsMeant' /\ AddressHolds' /\ ValueIsTargets' /\ RequestedBitsSet'
    BY <1>1, <1>2, <1>4 DEF WriteIsMeant, AddressHolds, ValueIsTargets, RequestedBitsSet
  <2>3. QED
    BY <2>1, <2>2 DEF BusInv
<1>5. CASE /\ LastTry
           /\ pc' = "idle"
           /\ fail' = TRUE
           /\ UNCHANGED <<reg, pointer, tries>>
  <2>1. Typed'
    BY <1>1, <1>2, <1>5 DEF Typed, BusFlagsTyped, DataTyped
  <2>2. WriteIsMeant' /\ AddressHolds' /\ ValueIsTargets' /\ RequestedBitsSet'
    BY <1>1, <1>2, <1>5 DEF WriteIsMeant, AddressHolds, ValueIsTargets, RequestedBitsSet
  <2>3. QED
    BY <2>1, <2>2 DEF BusInv
<1>6. QED
  BY <1>3, <1>4, <1>5 DEF ValueWritten

LEMMA BusRestartKeeps == ASSUME BusInv, Restart PROVE BusInv'
<1>1. Typed
  BY DEF BusInv
<1>2. Typed'
  <2>1. BusFlagsTyped'
    BY DEF Restart, BusFlagsTyped
  <2>2. DataTyped'
    BY <1>1, BusAssumption, NoBits, WrittenIs DEF Restart, Typed, DataTyped
  <2>3. QED
    BY <2>1, <2>2 DEF Typed
<1>3. WriteIsMeant' /\ AddressHolds' /\ ValueIsTargets' /\ RequestedBitsSet'
  BY DEF Restart, WriteIsMeant, AddressHolds, ValueIsTargets, RequestedBitsSet
<1>4. QED
  BY <1>2, <1>3 DEF BusInv

(* The charge check moves the pointer, and disturbs a read under way.      *)
LEMMA ChargeCheckKeeps == ASSUME BusInv, ChargeCheck PROVE BusInv'
<1>1. CASE Restart
  BY <1>1, BusRestartKeeps
<1>2. CASE /\ ~inFlight
           /\ pointer' = Status
           /\ disturbed' = (disturbed \/ pc = "read")
           /\ UNCHANGED <<reg, pc, inFlight, tries, call, txOk, response>>
  <2>1. Typed'
    BY <1>2, BusAssumption DEF BusInv, Typed, BusFlagsTyped, DataTyped, call, response
  <2>2. WriteIsMeant' /\ AddressHolds' /\ ValueIsTargets' /\ RequestedBitsSet'
    BY <1>2 DEF BusInv, WriteIsMeant, AddressHolds, ValueIsTargets, RequestedBitsSet, call, response
  <2>3. QED
    BY <2>1, <2>2 DEF BusInv
<1>3. QED
  BY <1>1, <1>2 DEF ChargeCheck

(* No write is for the status register.                                    *)
LEMMA StatusChangesKeeps == ASSUME BusInv, StatusChanges PROVE BusInv'
<1>1. Typed /\ WriteIsMeant
  BY DEF BusInv
<1>2. Typed'
  BY <1>1 DEF StatusChanges, Typed, BusFlagsTyped, DataTyped, call, response
<1>3. \A r \in Registers : r # Status => reg'[r] = reg[r]
  BY <1>1 DEF StatusChanges, Typed, BusFlagsTyped, DataTyped
<1>4. target \in Registers /\ (writes => reg'[target] = reg[target])
  BY <1>1, <1>3 DEF Typed, BusFlagsTyped, DataTyped, WriteIsMeant
<1>5. WriteIsMeant' /\ AddressHolds' /\ ValueIsTargets' /\ RequestedBitsSet'
  BY <1>1, <1>4 DEF StatusChanges, call, response, BusInv, WriteIsMeant, AddressHolds, ValueIsTargets, RequestedBitsSet
<1>6. QED
  BY <1>2, <1>5 DEF BusInv

LEMMA BusSteps == BusInv /\ [BusNext]_busVars => BusInv'
<1> SUFFICES ASSUME BusInv, [BusNext]_busVars PROVE BusInv'
  OBVIOUS
<1>1. CASE CallRead
  BY <1>1, CallReadKeeps
<1>2. CASE CallWrite
  BY <1>2, CallWriteKeeps
<1>3. CASE Transfer
  BY <1>3, BeginKeeps, AddressSentKeeps, ValueReadKeeps, ValueWrittenKeeps DEF Transfer
<1>4. CASE ChargeCheck
  BY <1>4, ChargeCheckKeeps
<1>5. CASE TouchInterrupt
  BY <1>5, BusRestartKeeps DEF TouchInterrupt
<1>6. CASE StatusChanges
  BY <1>6, StatusChangesKeeps
<1>7. CASE UNCHANGED busVars
  BY <1>7 DEF busVars, call, response, BusInv, Typed, BusFlagsTyped, DataTyped, WriteIsMeant, AddressHolds, ValueIsTargets, RequestedBitsSet
<1>8. QED
  BY <1>1, <1>2, <1>3, <1>4, <1>5, <1>6, <1>7 DEF BusNext

LEMMA BusSafe == BusSpec => []BusInv
BY BusStarts, BusSteps, PTL DEF BusSpec

(* BusTypeOK of the register access.                                       *)
THEOREM BusTypeCorrect == BusSpec => []BusTypeOK
<1>1. BusInv => BusTypeOK
  BY DEF BusInv, Typed, BusFlagsTyped, DataTyped, BusTypeOK, Tries
<1>2. QED
  BY <1>1, BusSafe, PTL

(* After a write that did not report failure the bits of its mask have the *)
(* values asked for, whatever interrupted monocle_i2c_write.               *)
THEOREM BusRequestedBitsSet == BusSpec => []RequestedBitsSet
<1>1. BusInv => RequestedBitsSet
  BY DEF BusInv
<1>2. QED
  BY <1>1, BusSafe, PTL

(* A masked write that the charge check did not disturb leaves the other   *)
(* bits as they were, through all retries of monocle_i2c_write.            *)
THEOREM BusUndisturbedWriteMerges == BusSpec => UndisturbedWriteMerges
<1> DEFINE Merges == (WritesRegister /\ ~disturbed) => Kept(reg') = Kept(reg)
<1>1. BusInv /\ [BusNext]_busVars => [Merges]_busVars
  <2> SUFFICES ASSUME BusInv, BusNext, pc = "write", reg' # reg, ~disturbed PROVE Kept(reg') = Kept(reg)
    BY DEF WritesRegister
  <2>1. Typed /\ WriteIsMeant /\ value \ mask = reg[target] \ mask
    BY DEF BusInv, ValueIsTargets
  <2>2. CASE reg' = Written
    BY <2>1, <2>2, WrittenIs, Merging DEF Kept
  <2>3. CASE StatusChanges
    BY <2>1, <2>3 DEF StatusChanges, Typed, BusFlagsTyped, DataTyped, WriteIsMeant, Kept
  <2>4. Restart => reg' = Written
    BY DEF Restart
  <2>5. CASE CallRead \/ CallWrite
    BY <2>5 DEF CallRead, CallWrite, Start
  <2>6. CASE Transfer
    BY <2>2, <2>6 DEF Transfer, BeginTransfer, AddressSent, ValueRead, ValueWritten
  <2>7. CASE ChargeCheck \/ TouchInterrupt
    BY <2>2, <2>4, <2>7 DEF ChargeCheck, TouchInterrupt
  <2>8. QED
    BY <2>3, <2>5, <2>6, <2>7 DEF BusNext
<1>2. QED
  BY <1>1, BusSafe, PTL DEF BusSpec, UndisturbedWriteMerges
=============================================================================
