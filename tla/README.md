# FornelloFW: specifications

FornelloFW is the firmware of an electric oven on an STM32F4: a knob chooses
one of eleven modes, a push button with an encoder sets temperature and time,
relays behind an HC595 shift register switch three heaters and a fan, and an
FRAM keeps eight registers over a power failure. Current transformers watch the
heaters, and a DS18B20 measures the circuit board. This directory holds TLA+
models of the parts that decide about heating and supervise it, and of the board's
sensor, the TLC configurations that check them, and TLAPS proofs.

Run from this directory:

    tlc -config MCFram.cfg MCFram        # one run; see the table of runs below
    tlapm FramProofs.tla                 # all proofs of the driver
    tlapm OvenProofs.tla                 # all proofs of the control program
    tlapm ProtectionProofs.tla           # ... of the supervision: its types
    tlapm HealthyProofs.tla              # ... and that it gives no false alarm
    tlapm PlateSensorProofs.tla          # ... of the board's sensor

## Inventory

Almost all files of the repository are the Boost headers under `Core/Inc/boost`,
of which one macro is used, and most of `Core/Src` is generated set-up code. The
program itself is `Core/Src/main.cpp`, the sensor drivers beside it and `User/`.

| Component | Source | State | Operations | Talks to |
|---|---|---|---|---|
| FRAM driver | User/Fram/Fram.hpp | `massive_wr`, `massive_rd` in RAM, the chip | `elementFram(i, v)`, `elementFram(i)`, `fram_wr_massive`, `fram_rd_massive` | called by everything; the chip over a bit-banged bus |
| Main loop | Core/Src/main.cpp | order of the calls; the saved work flag at start | start-up, super loop | calls the parts below in turn |
| Cooking modes | User/Mode | `modeCookOld` | `ModeSetLambda`, the mode lambdas, `firstRegim` | FRAM, encoder counter, relays, TIM4, button state |
| Button and encoder | User/Button | `buttonRegim`, the flags, `cntEncoder`, `encDone`, TIM2 counter | `scanButton`, `executeButtonRegim`, the three states, `encCount`, `zeroing` | FRAM, TIM4, heating, relays |
| Heating | User/Heat | what was last sent to the relays | `ajustHeat595`, `checkProtectionTriggers`, `TransmitToTENs`, `all_off` | FRAM, button state, cooking time, HC595 |
| Cooking time | User/SetTime | minute counters, seconds, total time, first-pass flags | `TimeCook`, `IncrementCookTime`, `DecrementCookTime` | FRAM, button state |
| Control | User/Control | oven temperature | `readAdc` (knob), `bakeTemper`, `backInfo` | ADC, FRAM, heating |
| Interrupts | User/Callbacks | none of their own | TIM2 (encoder), TIM4 (clock), TIM6 (too hot), ADC1 (temperature), EXTI (current pulses) | write the variables of the others |
| Relay and heater protection | User/Protection, EXTIManager in User/Callbacks | pulse times, 5 s timers, error code | `checkProtection`, `checkHeaters`, `getRealStatus`, `handleError`, pulse interrupts | button state, `Heat::dataTransmit`, cut-off relay; the call is commented out at main.cpp:262 |
| Plate sensor | Core/Src/ds18b20.c, onewire.c, tempSensor.* | `isConnected`, temperature, limits; the sensor's own protocol state | `Sensor_init`, `plateTemp`: reset, ROM command, convert, wait, read, write | main program at start and in mode Set; the display |
| Melody | User/Melody | position in the melody | start, DMA callbacks | nothing else |
| Display | `buf_485`, usart.c | 21-byte frame | DMA transfer each pass | written by all, read by none |

How the parts interact: there is no operating system. One main program runs an
endless loop; the interrupts preempt it anywhere, share its variables without
masking anything, and communicate only through these variables: `buttonRegim`
(TIM6), `encDone` and the TIM2 counter (encoder), the minute counters and
`totalTime` (TIM4), `ovenTemper` (ADC1). The other channel is the FRAM: the
mode that `scanButton`, `buttonRegimThree` and the heating use is read from
register 1, the temperature from register 0, not from RAM variables.

What is hard about it:

* *A request is a variable.* To end cooking, three places (`SetTimer.cpp:65`,
  `Heat.cpp:126`, TIM6) write 0 to `buttonRegim`, and a mode change does so too. The
  relays are switched off later, by a pass of `buttonRegimOne` that finds
  `flagOneButton` reset. A press in between increments the 0.
* *Read-modify-write.* `buttonRegim++` and `encDone` are read and written
  non-atomically by the main program while interrupts write them.
* *One counter, two meanings.* The encoder counter is degrees or minutes.
* *Power failures.* RAM is lost at any point, the FRAM is not, and start-up
  decides from register 5 whether to go on cooking.
* *Failing input.* The conversion of the knob may time out; the wire of the
  sensor may break or be held low between any two calls.
* *Time kept in ticks.* The supervision compares ticks modulo 2^32, uses 0 for "not
  running", and its pulses arrive while it computes.
* *Numbers.* Unsigned 8-bit differences, 32-bit counters decremented at 0,
  minutes split in two bytes.
* *Liveness.* A countdown, a time limit and the overheating cut-out have to end
  a cooking that nobody else ends.

What makes each component correct:

* FRAM driver: a call changes the register it names and leaves the others
  alone, and a power failure leaves that register old or new.
* Modes, button, heating together: heaters are on only when the user asked for
  it and the request has not been ended; nothing is on in Off, Set and Light;
  entering state 0 leaves everything off.
* Cooking time: heating is on the clock; a countdown starts at what was dialled
  and ends; cooking above 70 degrees is limited.
* Interrupts: a request by an interrupt is carried out.
* Restart: cooking is taken up exactly when there was some.
* Protection: a healthy oven is left alone, a relay that does not open trips the
  cut-off, a heater without current is shown, and nothing else trips.
* Plate sensor: the sensor is asked in the order it needs, the main loop gets
  out of the measurement, and a repaired sensor is shown again.

## Modules

| Module | What it is |
|---|---|
| `FramStore` | abstract: a register store with power failures; what callers may rely on |
| `Fram` | the driver, byte by byte; `Refinement` says it implements `FramStore` |
| `FramProofs` | proofs about `Fram`, the refinement among them |
| `Oven` | the control program: main loop, modes, button, encoder, heating, cooking time, restart, interrupts |
| `OvenProofs` | proofs about `Oven` |
| `Heating` | abstract: what the user may rely on about the relays; `HeatingContract` says that `Oven` implements it |
| `Protection` | the supervision of relays and heaters, with the part of the main loop it can see, and failures |
| `ProtectionProofs` | the types of `Protection` |
| `HealthyProofs` | proofs that the supervision leaves a healthy oven alone |
| `PlateSensor` | the board's temperature sensor, its driver and its wire |
| `PlateSensorProofs` | proofs about `PlateSensor` |
| `MCFram`, `MCOven`, `MCProtection`, `MCPlateSensor` | the roots that TLC runs; they only extend |

### Fram and the code

`mem` is the chip, `massive_wr` and `massive_rd` are the two arrays
(Fram.hpp:73-74). `WriteElement` and `SendByte` are `elementFram(index, value)`
with the loop of `fram_wr_massive`; one byte is one step because the chip
stores each byte as it arrives. The bits on the bus, the write-enable command
and the pin writes are one byte's transport. `target` and `synced` are history
variables: which element the transfer is for, and whether one has completed
since power-up. `ReadMassive` is atomic: only the main program uses the driver,
and nothing else writes the chip.

The abstract store makes the odd part of the driver visible: nothing loads
`massive_wr` from the chip, so the first write after power-up sends zeros for
the seven other registers. `FramStore` allows exactly this (`Wipe`, only while
`fresh`) and nothing else.

### Oven and the code

`pc` names the next stretch of the main program; a stretch ends where an
interrupt that comes then can make a difference, that is, before each access to
a variable which interrupts write. `encCount` and `ajustHeat595` have several
callers, so `encRet` and `heatRet` hold the return address.

| pc | code |
|---|---|
| `boot` | main.cpp:144-152, `backInfo` |
| `readAdc`, `modeSet`, `store` | main.cpp:246-248 |
| `encLoad`, `encTest`, `encReset` | `Button::encCount` |
| `scan`, `scanStore` | `Button::scanButton`; `scanStore` lies between the read and the write of `buttonRegim++` |
| `exec` | `executeButtonRegim`: the state is tested here, and an interrupt may change it afterwards |
| `one`, `oneStop` / `two`, `twoTime` / `three`, `threeFlag` | the three button states |
| `diff`, `protect`, `overheat`, `transmit` | `Heat::ajustHeat595`: choice of the stage, door, temperature and time limit, relays |
| `timeCook`, `timeLow` | `SetTimer::TimeCook` |
| `cooler` | the end of the pass |

`out` is what the HC595 drives. `all_off` pulses its reset pin and the latch:
all outputs low. `firstRegim` means to do the same but writes another pin
(FryMode.cpp:31), so it leaves `out` alone. `fram` and `wr` are the chip and
`massive_wr`, one register written in one step: the byte-wise transfer is
`Fram`'s subject. `commanded` is a history variable: set when the button (or
the mode Pre) takes the program to state 2, reset when `zeroing` or a cold mode
ends cooking.

Two writes to the FRAM inside one stretch (`elementFram(0, cntEncoder)` and then
the initial temperature, Button.cpp:99 and 116) are one action with the last
value, because no interrupt reads the FRAM. A power failure between the two
is therefore not a separate case; it could only change the restored
temperature, which no property of the runs with power failures speaks about.

Not in the model, because nothing in the control reads it: the display buffer,
sound, lamp, outer fan, FRAM registers 2 and 3. The temperature is chosen
freely from `OvenTemps` at every conversion, which includes what the real
formula can yield; the knob is any member of `Modes`, which stands for the ADC
table.

### Heating and Oven

`Heating` has three steps: the user permits heat, heat is adjusted under the
permission, or the permission ends and every relay is off in the same step.
`Oven` implements it with `relays <- out` and `mayHeat <- commanded`: `ScanStore`
and `TwoPre` permit, `TransmitToTENs` adjusts, `OneZero` and `NewMode` end, and
everything else is a stutter. The contract says more than `HeatIsCommanded`: a relay
changes in no other step, and nothing ends cooking in two steps. With power failures it does
not hold, for the reason `oven_restore` shows.

### Protection and the code

| Action | Code |
|---|---|
| `LoopPass` | the rest of the main loop, seen through `buttonRegim`, `Heat::dataTransmit` and the relays; then `now` is read at Protection.cpp:17 |
| `TripleError`, `TripleNone` | Protection.cpp:20-31, current in all heaters |
| `Scan` | the second `scanButton` of the pass (Protection.cpp:34) and the commands, CallBacks.cpp:176-189 |
| `StuckError`, `OpenError`, `HeaterFine` | one heater of the loop at CallBacks.cpp:195-215, with its early returns and `handleError`; the last heater ends with Protection.cpp:36-42 |
| `Race` | a tick and the pulse interrupts while the check runs (`Disturb`) |
| `HandleTIM6` | TIM6 while the check runs |
| `Fail` | a relay welds or a heater breaks |

Every check ends with the pause of 100 ms, in which one tick of the model passes
and each heater with current has a pulse. One tick stands for the 100 ms after
which a pulse is stale (`pulseValid = 1`). What the loop does is the visible part
of `Oven`: `Idle`, `Dial`, `Cook`, `CookMasked` (door, overheating and time limit mask
what is sent but not `dataTransmit`, Heat.cpp:24-26) and `Cold` (a cold mode
clears the relays, state 2 and `dataTransmit` stay). Two kinds of pass mislead
the check: a masked one, and the lost stop that `oven_lost_stop` of `Oven` shows.
The constant `Slips` says which of them happen, the history variable `slips` which have
happened, so that a property can say what it needs. `steady` is a history variable as
well: no interrupt has fallen into a check yet, and the tick has not wrapped.

Interrupts fall into checks again and again, but not at any density: a check takes
microseconds of a pass of more than 100 ms. `races` counts those that have fallen into
checks, `since` the passes that have ended since the last one, and `Settle` sets the
count back when three passes in a row were spared; `MaxRaces` bounds it.

`Modes` stands for `modeTable`: for each mode the sets of heaters at low and at high heat.
`Choose` keeps to the mode of the relays that are on: a change of mode goes through state 0 or a cold
position, which clear the relays (`IdleIsOff`, `NoHeatInColdModes`), unless that stop is lost.

The error codes are the code's, with `N` for 3: `h` for a heater without
current, `N + h` for a relay that stays closed, `2N + 1` for current in all. (The
comment at CallBacks.cpp:143-147 has 11 to 13 and 21 to 23.)

### PlateSensor and the code

`script` holds the calls that `Sensor_init` or `plateTemp` has still to make; each
call is one 1-Wire transaction and one step. The sensor is modelled with what it
expects next (a reset, a ROM command, a function command), its conversion and its
scratchpad. Bits are not modelled, but what a transaction yields is: an open wire
reads ones, so that a reset finds nobody and a checksum fails; a wire held low
reads zeros, which a reset takes for an answer (onewire.c:86: anything but the
byte sent) and nine of which have the right checksum. `ExecuteCommand` sends nothing while
`isConnected` is 0, but `DS18B20_ConvertT` waits in any case.

Abstracted: `configRegister` and the resolution, negative temperatures, the serial
number, which nothing reads. `Plate` is the factor 0.77777 of tempSensor.cpp:39.

## Runs

| Run | Shows | Bounds | Size |
|---|---|---|---|
| `fram` | types, `Coherent`, `TransferExact`, `FreshIsBlank`, and `Refinement` to `FramStore` | 3 registers, 2 values | 1441 states |
| `oven_safety` | `TypeOK`, `IdleIsOff`, `NoHeatInColdModes`, `HeatIsCommanded`, `HeatIsTimed`, the refinement `HeatingContract` and `OverheatingEnds`, with a failing knob ADC, door, TIM6 | modes Off, Pre, Set, 4; two temperatures | 1.6 M states |
| `oven_power` | `IdleIsOff`, `NoHeatInColdModes` with the supply failing anywhere | modes Off, Dry, Set, Light | 6.7 M states |
| `oven_clock` | `MinutesAreNoTemperature`, `StopTakesEffect`, `TimeLimited`, `CountdownEnds` | modes Off, Pre, 4; small numbers, see below | 1.4 M states |
| `protection` | `TypeOK`, `HealthyIsQuiet`, `HealthyKeepsSupply`, `WeldIsCutOff`, `BreakIsShown` | 2 heaters, one failure, one race in any four passes, ticks modulo 8 | 1.3 M states |
| `plate_sensor` | `TypeOK`, `CommandsInStep`, `ReturnsUnlessLow`, `ShowsAfterRepair` | two temperatures | 2904 states |
| `oven_restore`, `oven_lost_stop`, `oven_hot_dial`, `oven_countdown`, `oven_pre_unlimited`, `protection_trip` | each a disagreement of code and comment, below | | seconds, `oven_pre_unlimited` a minute |

Why the bounds are enough.

* *Registers and values of `Fram`*: a transfer treats all bytes alike, and the
  properties relate one element with the rest: three registers give a target,
  one before and one after it. The proofs lift the bound.
* *Modes*: the code distinguishes Off, Pre, Dry, Set, Light and "the others",
  which differ in `modeTable` only. `oven_safety` has Off, Pre, Set and one of the
  others, `oven_power` the cold modes and Dry. Light, which differs from Set in that Set is set
  again in each pass, is left out of `oven_safety`, and Dry, which differs from the
  others in its initial temperature and its row: what that run checks of them is proved,
  except for `OverheatingEnds`. `oven_clock` has one of the others, Pre, which stops the clock, and Off;
  in Set and Light the program does not come to the clock's limits (`ThreeFlag`).
* *Temperatures*: 60 and 250 lie below and above every limit in the code; that
  both sides of every comparison are met is what matters, since the value may
  change at every step.
* *Clock off* (`TicksPerLoop = 0`) in the safety runs: the clock only counts
  variables that decide when a stop is requested, and TIM6 requests it at any
  time there. In `oven_clock` the clock runs and the oven does not overheat.
* *Small numbers in `oven_clock`*: a minute is two ticks, the encoder is at 0 or 1,
  the limits are 1 tick, a minute counter wraps at 2. The numbers are constants of the
  module; the comparisons are the code's. A dialled temperature of 1 is above `LowTemp` and
  `MidTemp`; one of 0, and the initial temperature, are not and cook without limit, so that only
  the countdown can end that. The range between 70 and 120 degrees differs from the one above
  by its limit alone and is left out of this run. A pass of the loop
  must see less than a minute's ticks (`TicksPerLoop < SecPerMin`): TIM4 is set
  to a period of 20 ms (tim.c:205-207 at 84 MHz), so that a minute of the code
  takes 1.2 s, and a pass takes two to three tenths of a second at most (pauses
  of 150 ms and some dozens of FRAM transfers).
* *Wrapping*: `Byte` and `MinBase` are 256 and `Word` is 65536 in the runs with
  the real numbers: the largest value that is ever compared is the dialled 240,
  so a wrap at 2^16 and one at 2^32 are the same. `totalTime` stops one above
  the larger limit, since it is only compared with them.

* *`protection`*: two heaters give one that fails and one before or after it in the
  loop; one mode with a heater at high heat only (a
  second mode would make more than 7 M states; `HealthyIsQuiet` and `HealthyKeepsSupply` are proved for any). The time limit of 4 ticks is the
  smallest that switching itself does not reach: relays and current may differ for two
  checks, and a race adds up to three passes (`3 * MaxRaces + 1 <= timeout` in
  `HealthyIsQuietHolds`; with 3 ticks TLC finds a false alarm). The code's limit is 50
  passes. `Word = 8` makes the tick wrap within a few passes, so that timers start
  at tick 0, wrap while they run, and meet stale pulses. TIM6 counts as a race because
  its period, 20 s, is far longer than three passes. The count of races starts again after three
  spared passes because by then nothing of a race is left in the timers of a healthy oven; so one
  race in any four passes happens without end in this run. `Slips = {"masked"}`: a lost stop is left to
  `oven_lost_stop`; with it a healthy oven trips (see below).
  Heater 2 is never commanded in this run. `BreakIsShown` therefore says something about heater 1
  only, and so does every claim about a warning that leaves a later, commanded heater
  unvisited; for `HealthyKeepsSupply` that case is covered by the proof
  (`HealthyKeepsSupplyHolds`, any number of heaters) and not by TLC.
* *`protection_trip`*: three heaters and no race; the trace needs two relays that
  switch at different times after a third heater has broken.
* *`plate_sensor`*: the driver treats all temperatures alike; two differ from each other
  and from 85, and tell the shown value from the measured one.

No symmetry is used: modes and temperatures are numbers that the code compares.

`CHECK_DEADLOCK` stays on everywhere: the program never stops.

### Fairness

`FairSpec` assumes weak fairness of the main program, of TIM4 and of TIM6. The
main program is one endless loop with bounded delays and the interrupts do not
starve it (they are short; the fastest periodic one, TIM4, comes every 20 ms); both
timers are periodic hardware, and their interrupts are nowhere masked. Nothing
is assumed of the user, the knob, the oven or the supply: a property that needs
the user to keep off the button says so (`OverheatingEnds` has
`<>[](~flagButton)` as a premise, `StopTakesEffect` allows `buttonRegim # 0`).

In `Protection` the main loop (`LoopPass`, `Check`) is fair, for the same reason. Nothing
is assumed of failures and presses: `WeldIsCutOff` and `BreakIsShown` have the
failure and the command in their premises. In `PlateSensor` the main program is fair and a
conversion ends, after at most 750 ms (DS18B20.h:49). Nothing is assumed of the wire:
`ReturnsUnlessLow` and `ShowsAfterRepair` name the wire they need.

### Disagreements

| Run | Property | What happens |
|---|---|---|
| `oven_restore` | `HeatIsCommanded` | Register 5 is 1 while regulating (Button.cpp:119), and main.cpp:149 takes cooking up again when it is 0. A power failure on an idle oven starts heating; one during cooking ends it. |
| `oven_lost_stop` | `NoHeatWhileDialling` | A stop request followed by a press in the same pass goes from 0 to 1; `buttonRegimOne` never runs, the relays stay on while the time is dialled. CallBacks.cpp:190 says current is forbidden in states 0 and 1. |
| `oven_hot_dial` | `MinutesAreNoTemperature` | TIM6 sets `buttonRegim` to 0 while minutes are dialled; `flagOneButton` is still set, nothing is reset, and `encCount` takes the minutes for the temperature. |
| `oven_countdown` | `CountdownFromDial` | `number_Iterator_Decrement` is reset in state 0 only. A press right after the end of a countdown skips state 0, and the next countdown starts at stale minutes. |
| `oven_pre_unlimited` | `EveryModeLimited` | Turning the knob to Pre while cooking stops TIM4 (FryMode.cpp:61) and asks for state 0. With a press in the same pass state 0 is skipped as in `oven_lost_stop`, and `buttonRegimTwo` goes on to state 2 with `pass3Button` still set (Button.cpp:76-77), so that `buttonRegimThree` does not start the clock again: cooking above 70 degrees has no limit, although Heat.cpp:111 and 115 limit it to 12 or 3 hours in every mode. |
| `protection_trip` | `TripMeansWeld` | Down breaks while its command is on, and its warning ends every check before Grill is looked at (CallBacks.cpp:211). Grill's `stuckTimer`, started when its relay opened just before, keeps its time while Grill is switched on again. At the end of cooking Grill's relay opens, its last pulse is still young, and the timer has long run out: code 5, the breaker trips. CallBacks.cpp:140-141 promises a reset whenever the anomaly goes, and an error only after 5 s without interruption. |

The same properties hold where the cause is absent: `HeatIsCommanded` in
`oven_safety` (no power failure), `MinutesAreNoTemperature` in `oven_clock`
(no overheating), and `TimeLimited`, which is `EveryModeLimited` without the mode Pre, in
`oven_clock`, where the knob may be turned to Pre and back.

The clock that stands still in Pre stops a countdown as well: `minCounterDec` stays where it is,
and the countdown neither ends nor goes on. `CountdownEnds` and `HeatIsTimed` therefore exclude
the mode Pre, too. Without that condition `CountdownEnds` is violated under the bounds of
`oven_pre_unlimited`, and `HeatIsTimed` in `oven_safety`. In all other modes the first pass of
state 1 resets `pass3Button`, the clock is started, and `HeatIsTimed` is proved.

### Seen while modelling

No run keeps these; they follow from the lines named.

* The first pass of `buttonRegimThree` writes the dialled temperature and then
  180 (70 in Dry) over it (Button.cpp:99, 116), and heats towards that.
* A turn of the encoder between the read of the counter and `encDone = false`
  (Button.cpp:190, 204) is taken over only with the next turn.
* The difference at Heat.cpp:21 is a `vu8` and wraps when the oven is above the
  set temperature. `checkProtectionTriggers` catches it, unless the temperature
  falls below the set point between the two reads.
* The two bytes of the minutes come from two reads (SetTimer.cpp:21-23, 53-55).
* main.cpp:158-160 calls TIM4 "1 sec" and TIM6 "10 sec"; with the dividers in
  tim.c (205-207, 284-286) and a timer clock of 84 MHz the periods are 20 ms and
  20 s. All times of the cooking clock, the limits of 3 and 12 hours among them,
  pass fifty times as fast as the comments say. The models count periods.
* firstRegim says it resets all outputs of the HC595 (FryMode.cpp:30), but pulses PA8
  (line 31), while all_off (Heat.hpp:52) and the start (main.cpp:127) drive PC9.
  Turning from one heating mode to another leaves the old relays on until
  state 0 of the button runs, which it does later in the same pass.

About the protection, were its call restored:

* After 5 s with the knob turned to a cold position while cooking, or with the door open or
  the oven too hot, every heater that the mode asks for is shown as broken:
  the relays are masked (Heat.cpp:24-26), `dataTransmit` and state 2 are not. This is why
  `HealthyIsQuiet` needs passes that do not mislead; `HealthyKeepsSupply`
  shows that the warning stays a warning.
* The lost stop of `oven_lost_stop`, relays on in state 1, trips the breaker of a healthy
  oven after 5 s.
* A pulse between the read of `now` and of `lastPulse` makes the difference wrap: for
  one check there is "no current", the timer of a welded relay starts again and
  an error just shown is withdrawn, the cut-off with it. 2^32 ms after a timer started it looks
  young again, and the error is withdrawn for 5 s. Hence `[]<>` in `WeldIsCutOff` and `BreakIsShown`.
* A pulse from 2^32 ms ago looks young for 100 ms.
* A masked oven warns of heaters that are in order, and each such warning ends the check: a later
  heater whose relay is welded is not looked at while that lasts (premise of `WeldIsCutOff`).
  The same may start a timer that nothing resets: a stale pulse after a wrap of the
  tick, or interrupts in checks, look like current without command, the warnings keep
  that timer, and 5 s later the end of cooking trips the breaker of a healthy oven. Hence `steady` in
  `HealthyKeepsSupply`.
* A broken Down, which is looked at first, hides a welded Grill as long as Down is commanded,
  and each of its warnings sets the cut-off output again
  (CallBacks.cpp:195-213, Protection.cpp:66). With two failures `WeldIsCutOff` would not hold;
  the run has one.

About the plate sensor:

* A wire held low stops the main loop in mode Set (ds18b20.c:100). FryMode.cpp:71-75 has
  switched the relays off before that; the knob and the button are dead.
* Nine zero bytes pass the checksum, so that a wire held low during the read shows 0
  degrees. A sensor that was off shows 85, its power-on value, if its conversion was not heard.
* If the first read fails, `Sensor_init` writes alarm limits of 0 and 0.

## Proofs

`FramProofs` (any number of registers, any values):

* `IInvHolds`: the inductive invariant `IInv == Inv /\ NoneNamed`. `Inv` alone
  is not inductive: a `WriteMassive` sends the array without naming a target,
  and `NoneNamed` says that outside a transfer none is named.
* `CoherentHolds`, `TransferExactHolds`, `FreshIsBlankHolds` from it.
* `TypesHold`, the types alone.
* `Implements`: `Spec => Store!Spec`. `WriteElement` maps to `Call`, a byte
  to `Proceed`, `Return` or a stutter, `PowerLoss` to `PowerCycle`. The case
  analysis of a byte needs `TransferExact` and `FreshIsBlank`: what was already
  sent is right, and the bytes still to come wipe only while `fresh`.

`OvenProofs` (all modes, temperatures, turns, limits; any word widths that hold
the values, as the assumptions of `Oven` say):

* `TypeCorrect`: `TypeOK` with `CallsOK`. The return addresses are the part
  that is not obvious: `encCount` returns to wherever `encRet` says, so the
  invariant is that one is set exactly while the body runs.
* `IdleIsOffHolds`: with `IdleFirm`. `IdleIsOff` alone is not inductive: the
  heating code could still have something to send, and the next FRAM write
  could bring an old work flag back. `IdleFirm` says that while `flagOneButton`
  is set the body of `ajustHeat595` is not running, that the RAM array holds the
  work flag withdrawn, and that `zeroing` has switched the relays off before the
  flag is set. Power failures included.
* `NoHeatInColdModesHolds`: with `ModeFirm`, which says that knob, mode in force, FRAM
  register 1 and the argument of `ajustHeat595` name one mode from `modeSet`
  on, that nothing is held to be sent outside the heating code, and nothing in
  a cold mode. Power failures and a failing ADC included.
* `HeatIsCommandedHolds`: with `CommandFirm`, under `~PowerMayFail`, which is needed
  (`oven_restore` refutes it otherwise). It says where state 2 can come from: the
  button, the mode Pre, or a cold mode, where no relay can be on.
* `HeatIsTimedHolds`: with `TimedFirm`, which follows the first pass of state 2 while it is due: from
  the entry of state 0 or the first pass of state 1, which reset `pass3Button`, to the pass that
  starts the clock, also when a press restores a state 2 that TIM6 has just reset
  (`buttonRegim++` at Button.cpp:25). That the modes Set and Light stop the clock is no exception: by
  `ModeFirm` no relay is on there. Power failures included.
* `ContractHolds`: `Spec => HeatingContract`, again under `~PowerMayFail`. The step that
  needs an invariant is `TransmitToTENs`: `CommandFirm` says that nothing is held
  to be sent unless commanded.
* `MinutesAreNoTemperatureHolds`, under the assumption that every measured temperature is
  below `tempMax` (`oven_hot_dial` refutes it otherwise), power failures included. With
  `DialFirm`, which says that while the counter holds minutes the button is in state 1, or
  in state 2 in the pass that has just seen the press; that needs the mode in force
  not to be Pre, and no request for state 0 between a press and its end.

The strengthenings of `Oven` build on each other in this order, and each
was checked with TLC before it was proved. The assumptions are those declared in
`Fram` and `Oven`; TLC evaluates them in every run.

`PlateSensorProofs` (any temperatures and limits, whatever the wire does):

* `CommandsInStepHolds`: with `IInv == InOrder /\ Tuned`. `InOrder` says that in what is
  left of a script a ROM command follows exactly a reset and a function command follows only
  a ROM command; `Tuned` that a sensor left alone since the reset expects what
  comes next, ROM commands included. `CommandsInStep` alone says nothing about a ROM command.
* `TypeCorrect`.

`ProtectionProofs` (any number of heaters, any word and limits, any number of
failures and races): `TypeCorrect`, that is, no timer leaves the range of the tick and no
error code comes up that `handleError` does not know.

`HealthyProofs` (any number of heaters, rows, timeout and word):

* `HealthyIsQuietHolds`, under four assumptions on the constants. A pulse is young for one tick
  (`pulseValid` is 100 ms, CallBacks.cpp:178, and so is the pause at main.cpp:263). No row switches on all
  heaters (true of each row of `modeTable`; with one that did, `checkTripleTen` would
  report an error). `3 * MaxRaces + 1 <= timeout`, and `timeout < Word`: 50 passes and 2^32 ms in the code. The
  inductive invariant is `BaseInv /\ QuietInv`. `BaseInv` ties relays, commands and pulses
  together: `RelaysInv` (the relays are those chosen last or off, and a relay on
  without command is a stop that the next pass carries out), `ClockInv` (`now` is behind the tick
  only by interrupts into the running check) and `FlowInv` (when a pass begins, the relays that are
  on have a pulse of this tick). `QuietInv` bounds the age of each running timer over the wrap: one or two passes
  and three more for each interrupt that is not forgotten yet. Ages are distances modulo
  `Word` (`DistNext`, `DistSum`), which is where `timeout < Word` comes in.
* `HealthyKeepsSupplyHolds`: the same for an oven whose relays are masked, where warnings do
  come and leave timers running, so that their age is not bounded. The
  invariant `SupplyInv` says instead that a timer of a stuck relay is one pass old or about to
  be reset (`ShortInv`): with no interrupt in a check and no wrap, current
  follows the command by one pass (`CurrentInv`), so that current without a command means that the relay has just
  opened. `ApartInv` says that the two anomalies never come together, so that what a
  warning leaves unvisited has no timer of a stuck relay: a broken heater can bring them together,
  which is what `protection_trip` shows. It needs the sets of a row to be nested (`Chain`), so that no
  pass opens one relay and closes another; in `modeTable` low heat is a subset of high heat in every row.

Only model-checked, because the prover does neither fairness nor ENABLED: the liveness properties
(`StopTakesEffect`, `TimeLimited`, `CountdownEnds`, `OverheatingEnds`, `WeldIsCutOff`, `BreakIsShown`,
`ReturnsUnlessLow`, `ShowsAfterRepair`). The six counterexamples are TLC's. Every other property of
a passing run is a theorem.

## Plan

Done: `FramStore`, `Fram`, `Heating`, `Oven`, `Protection`, `PlateSensor`, their runs
and proofs. What could follow:

1. A composition of `Fram` with the restart decision: power failing between
   the bytes of a register, in `Oven`'s terms.
2. Proofs: `CountdownFromDial` under the condition that state 0 is not skipped, and that
   `LoopPass` of `Protection` allows every pass of `Oven`.
3. The HC595 at bit level: the order of data, clock and latch, against `out`.

## Not modelled

* The outer fan (`Heat::setOutCooler`), lamp and sound: outputs that follow a value of
  the moment; nothing reads them.
* The ADC tables of the knob and the formula of `bakeTemper`: pure conversions; the models
  choose their results freely.
* The melody: a table computed at compile time, sent once by DMA.
  `MelodyPlayer::playing` is reset only by `HAL_DMA_XferCpltCallback`, which is not a name
  the HAL calls; nothing in the control depends on it.
* The display frame: written everywhere, read by nothing; a frame mixed of two passes is
  replaced 100 ms later.
* Peripheral set-up, C run time, the HAL: generated. Their constants (timer periods, the
  interrupts that are on, their being nowhere masked) are used in the models and in the
  fairness.
* Boost: third-party headers, nearly all lines of the repository; the one macro that is used
  writes the knob table.
