-------------------------------- MODULE Oven --------------------------------
(***************************************************************************)
(* The control program of the oven: the super loop of Core/Src/main.cpp    *)
(* with everything it calls that decides about heating (User/Control,      *)
(* User/Mode, User/Button, User/Heat, User/SetTime), and the interrupts    *)
(* that run between its steps (User/Callbacks).                            *)
(*                                                                         *)
(* One action is one stretch of the main program between two places where  *)
(* an interrupt can matter; pc names the stretch that runs next.  The      *)
(* FRAM is written register by register (the byte-wise transfer is module  *)
(* Fram).  Sound, lamp and display do not feed back into the control and   *)
(* are left out, and so are FRAM registers 2 and 3, which nothing reads.   *)
(***************************************************************************)
EXTENDS Integers

CONSTANTS
    Modes,          \* positions the mode knob is turned to, within 0 .. 10
    Turns,          \* counter values the encoder is turned to
    OvenTemps,      \* temperatures the ADC measures in the oven
    Pins,           \* levels of the button input: a subset of BOOLEAN
    Doors,          \* levels of the door input: a subset of BOOLEAN
    AdcMayFail,     \* whether the conversion of the knob may time out
    PowerMayFail,   \* whether the supply may fail
    TicksPerLoop,   \* most TIM4 interrupts during one pass of the main loop
    CntMax,         \* 240: auto-reload value of TIM2, the encoder counter
    FirstTemp,      \* 180: FryModeLambda::firstTemp, and TIM2->CNT at start
    FirstTempDry,   \* 70: FryModeLambda::firstTempDry
    safeTemperature,\* 90: with the door open, no heating above it
    tempMax,        \* 240: TIM6 ends cooking from here on
    tempPreOver,    \* 10: hysteresis of the mode Pre
    tempOtherOver,  \* 3: hysteresis of the other modes
    LowTemp,        \* 70: above it cooking time is limited to maxTotalTime
    MidTemp,        \* 120: above it cooking time is limited to minTotalTime
    maxTotalTime,   \* 43200 TIM4 periods
    minTotalTime,   \* 10800 TIM4 periods
    SecPerMin,      \* 60 TIM4 periods in a minute of the cooking clock
    Byte,           \* 256: what a vu8 wraps at
    MinBase,        \* 256: radix that splits the minutes into two registers
    Word            \* 2^32: what a vu32 wraps at

ASSUME ModesAssumption == Modes \subseteq 0 .. 10
ASSUME InputAssumption ==
    /\ Pins \subseteq BOOLEAN
    /\ Doors \subseteq BOOLEAN
    /\ AdcMayFail \in BOOLEAN
    /\ PowerMayFail \in BOOLEAN
    /\ OvenTemps \subseteq Nat
    /\ OvenTemps # {}
ASSUME NumberAssumption ==
    /\ TicksPerLoop \in 0 .. SecPerMin - 1
    /\ CntMax \in Nat
    /\ FirstTemp \in 0 .. CntMax
    /\ FirstTempDry \in 0 .. CntMax
    /\ {safeTemperature, tempMax, tempPreOver, tempOtherOver,
        LowTemp, MidTemp, maxTotalTime, minTotalTime} \subseteq Nat
    /\ SecPerMin \in Nat \ {0}
    /\ MinBase \in Nat \ {0, 1}
    /\ Byte \in Nat \ {0}
    /\ Byte > CntMax
    /\ Byte >= MinBase
    /\ Byte > 10
    /\ Word \in Nat \ {0}
    /\ Word > CntMax
ASSUME TurnsAssumption == Turns \subseteq 0 .. CntMax

(* The knob positions (flashdata.hpp, enum). *)
off == 0
pre == 1
dry == 2
set == 3
light == 10

(* The registers of the FRAM (main.cpp:200-208). *)
Temp == 0       \* the temperature to keep
Mode == 1       \* the knob position
Dir == 4        \* 1: the clock counts down
Work == 5       \* "Сброс во время работы": 1 while regulating
High == 6       \* the minutes, high byte
Low == 7        \* the minutes, low byte
Reg == {Temp, Mode, Dir, Work, High, Low}

Cold == {off, set, light}    \* the positions without heating

Heaters == {"down", "grill", "right"}
Relay == Heaters \cup {"fan"}

(* modeTable: what each mode switches on, at low and at high heat.         *)
modeTable == [m \in 0 .. 10 |->
    CASE m = 1 -> [low |-> {"down"}, high |-> {"down", "grill"}]
      [] m = 2 -> [low |-> {"down", "fan"}, high |-> {"down", "fan"}]
      [] m = 4 -> [low |-> {"grill"}, high |-> {"grill"}]
      [] m = 5 -> [low |-> {"right"}, high |-> {"down", "right"}]
      [] m = 6 -> [low |-> {"down", "fan"}, high |-> {"down", "grill", "fan"}]
      [] m = 7 -> [low |-> {"grill", "fan"}, high |-> {"down", "grill", "fan"}]
      [] m = 8 -> [low |-> {"down"}, high |-> {"down", "grill"}]
      [] m = 9 -> [low |-> {"grill", "fan"}, high |-> {"grill", "fan"}]
      [] OTHER -> [low |-> {}, high |-> {}]]

VARIABLES
    pc,             \* the stretch of the main program that runs next
    encRet,         \* where encCount returns to
    heatRet,        \* where ajustHeat595 returns to
    tmp,            \* scanButton: the value of buttonRegim it loaded
    heatMode,       \* ajustHeat595: its argument numberRegimCook
    send,           \* ajustHeat595: what it is about to send to the relays
    mode,           \* main: modeCookAveADC, the knob as read in this pass
    modeCookOld,    \* the mode whose settings are in force
    buttonRegim,    \* 0: choose temperature, 1: choose time, 2: cook
    flagButton,     \* the button level seen by the last scan
    flagOneButton,  \* state 0 has been entered and everything reset
    pass3Button,    \* state 2 has been entered and the clock started
    firstCall,      \* state 1 has not run yet
    cntEncoder,     \* the temperature dialled
    encMemory,      \* the temperature last written to the FRAM
    encDone,        \* the encoder moved (set by interrupt)
    CNT,            \* TIM2->CNT, the encoder counter
    timerCntEncoder,\* the minutes dialled
    dirTime,        \* TRUE: the clock counts down
    iterInc,        \* number_Iterator_Increment: counting up has begun
    iterDec,        \* number_Iterator_Decrement: counting down has begun
    minInc,         \* minCounterInc
    minDec,         \* minCounterDec
    secondCounter,
    totalTime,      \* TIM4 periods of heating; stops counting above its limits
    tim4,           \* the cooking clock runs
    ticks,          \* TIM4 interrupts in this pass of the main loop
    oven,           \* Control::ovenTemper
    out,            \* the relays switched on (the outputs of the HC595)
    fram,           \* the FRAM registers
    wr,             \* Fram::massive_wr
    commanded       \* history: the user has started cooking and it has not
                    \* been ended since

ctl == <<encRet, heatRet, tmp, heatMode, send>>
knob == <<mode, modeCookOld>>
flags == <<flagButton, flagOneButton, pass3Button, firstCall>>
button == <<buttonRegim, flags>>
encoder == <<cntEncoder, encMemory, encDone, CNT>>
dial == <<timerCntEncoder, dirTime, iterInc, iterDec>>
counters == <<minInc, minDec, secondCounter, totalTime>>
clock == <<dial, counters, tim4, ticks>>
plant == <<oven, out>>
store == <<fram, wr>>
data == <<knob, button, encoder, clock, plant, store, commanded>>
vars == <<pc, ctl, data>>

Label == {"boot", "readAdc", "modeSet", "store", "encLoad", "encTest",
          "encReset", "scan", "scanStore", "exec", "one", "oneStop", "two",
          "twoTime", "three", "threeFlag", "diff", "protect", "overheat",
          "transmit", "timeCook", "timeLow", "cooler"}

(* totalTime is only compared with the two limits. *)
TotalCap == IF maxTotalTime > minTotalTime THEN maxTotalTime + 1
            ELSE minTotalTime + 1

Registers == {f \in [Reg -> 0 .. Byte - 1] : f[Temp] <= CntMax /\ f[Mode] <= 10}

TypeOK ==
    /\ pc \in Label
    /\ encRet \in {"none", "scan", "twoTime", "diff"}
    /\ heatRet \in {"none", "readAdc", "cooler"}
    /\ tmp \in 0 .. 2
    /\ heatMode \in 0 .. 10
    /\ send \subseteq Relay
    /\ mode \in 0 .. 10
    /\ modeCookOld \in 0 .. 10
    /\ buttonRegim \in 0 .. 2
    /\ {flagButton, flagOneButton, pass3Button, firstCall} \subseteq BOOLEAN
    /\ {cntEncoder, encMemory, CNT, timerCntEncoder} \subseteq 0 .. CntMax
    /\ {encDone, dirTime, iterInc, iterDec, tim4} \subseteq BOOLEAN
    /\ {minInc, minDec} \subseteq 0 .. Word - 1
    /\ secondCounter \in 0 .. SecPerMin - 1
    /\ totalTime \in 0 .. TotalCap
    /\ ticks \in 0 .. TicksPerLoop
    /\ oven \in OvenTemps
    /\ out \subseteq Relay
    /\ fram \in Registers
    /\ wr \in Registers
    /\ commanded \in BOOLEAN
-----------------------------------------------------------------------------
(* RAM after start-up, main.cpp up to line 142. *)
RamAtStart ==
    /\ pc = "boot" /\ encRet = "none" /\ heatRet = "none"
    /\ tmp = 0 /\ heatMode = 0 /\ send = {}
    /\ mode = 0 /\ modeCookOld = 0
    /\ buttonRegim = 0 /\ flagButton = FALSE /\ flagOneButton = FALSE
    /\ pass3Button = FALSE /\ firstCall = TRUE
    /\ cntEncoder = 0 /\ encMemory = 0 /\ encDone = FALSE /\ CNT = FirstTemp
    /\ timerCntEncoder = 0 /\ dirTime = FALSE
    /\ iterInc = FALSE /\ iterDec = FALSE /\ minInc = 0 /\ minDec = 0
    /\ secondCounter = 0 /\ totalTime = 0 /\ tim4 = FALSE /\ ticks = 0
    /\ wr = [r \in Reg |-> 0]

(* A new board: nothing was ever stored.  The HC595 has been cleared and   *)
(* the first temperature measured before main.cpp:142.                     *)
Init == /\ RamAtStart
        /\ out = {}
        /\ oven \in OvenTemps
        /\ fram = [r \in Reg |-> 0]
        /\ commanded = FALSE

(* One stretch of the main program, and one that changes nothing else. *)
Go(from, to) == pc = from /\ pc' = to
Pass(from, to) == Go(from, to) /\ UNCHANGED <<ctl, data>>

(* Fram::elementFram(r, v): the RAM array with its new element is sent     *)
(* whole, so that after start-up it overwrites all registers.              *)
FramWrite(r, v) == /\ wr' = [wr EXCEPT ![r] = v]
                   /\ fram' = wr'

FramWrite2(r, v, q, w) == /\ wr' = [wr EXCEPT ![r] = v, ![q] = w]
                          /\ fram' = wr'

(* mutant: resets PA8 as firstRegim does, which is not the MR input *)
AllOffWrongPin == UNCHANGED out

(* Heat::all_off: MR and a latch pulse clear the HC595. *)
AllOff == out' = {}

(* mutant: the request is lost *)
Regim1ButtonLost == UNCHANGED buttonRegim

(* Button::regim1Button: back to state 0. *)
Regim1Button == buttonRegim' = 0
-----------------------------------------------------------------------------
(* Start of main and Control::backInfo.                                    *)

(* main.cpp:144-151: with register 5 at 0 the saved cooking is taken up.   *)
BackInfo ==
    /\ Go("boot", "encLoad")
    /\ fram[Work] = 0
    /\ CNT' = fram[Temp]
    /\ dirTime' = (fram[Dir] # 0)
    /\ minDec' = (fram[High] * MinBase + fram[Low]) % Word
    /\ minInc' = minDec'
    /\ buttonRegim' = 2
    /\ iterDec' = TRUE
    /\ iterInc' = TRUE
    /\ modeCookOld' = fram[Mode]
    /\ heatMode' = fram[Mode]
    /\ encRet' = "diff"
    /\ heatRet' = "readAdc"
    /\ UNCHANGED <<tmp, send, mode, flags, cntEncoder, encMemory, encDone,
                   timerCntEncoder, secondCounter, totalTime, tim4, ticks,
                   plant, store, commanded>>

(* main.cpp:152-215: nothing to take up. *)
ColdStart == fram[Work] # 0 /\ Pass("boot", "readAdc")

-----------------------------------------------------------------------------
(* The main loop: reading the knob and setting the mode.                   *)

(* Control::readAdc(1): store the knob position and return it; when the    *)
(* conversion times out return 0 and store nothing.                        *)
ReadAdc ==
    /\ Go("readAdc", "modeSet")
    /\ \/ \E m \in Modes : mode' = m /\ FramWrite(Mode, m)
       \/ AdcMayFail /\ mode' = off /\ UNCHANGED store
    /\ ticks' = 0
    /\ UNCHANGED <<ctl, modeCookOld, button, encoder, dial, counters, tim4,
                   plant, commanded>>

(* firstRegim(tempFirst).  The pin it resets for "Сбрасываем все выходы у  *)
(* HC595" is PA8, not the MR input PC9: the latch pulse alone leaves the   *)
(* outputs as they are.                                                    *)
FirstRegim(tempFirst) ==
    /\ Regim1Button
    /\ flagOneButton' = FALSE
    /\ FramWrite2(Work, 0, Temp, tempFirst)
    /\ CNT' = tempFirst
    /\ UNCHANGED <<flagButton, pass3Button, firstCall, cntEncoder, encMemory,
                   encDone>>

(* ModeSetLambda, early return. *)
SameMode == mode = modeCookOld /\ mode # set /\ Pass("modeSet", "store")

(* ModeSetLambda and the lambdas it selects.  Set runs in every pass of    *)
(* the loop; the encoder goes on counting in it, since only one of its two *)
(* channels is stopped.                                                    *)
NewMode ==
    /\ Go("modeSet", "store")
    /\ mode # modeCookOld \/ mode = set
    /\ modeCookOld' = mode
    /\ IF mode \in Cold THEN AllOff /\ commanded' = FALSE
                        ELSE UNCHANGED <<out, commanded>>
    /\ IF mode \in {off, set} THEN UNCHANGED <<button, encoder, store>>
       ELSE FirstRegim(IF mode = dry THEN FirstTempDry ELSE FirstTemp)
    /\ tim4' = (tim4 /\ mode \notin {pre, set, light})
    /\ UNCHANGED <<ctl, mode, dial, counters, ticks, oven>>

(* main.cpp:248-249: store the mode again, call encCount. *)
StoreMode ==
    /\ Go("store", "encLoad")
    /\ FramWrite(Mode, mode)
    /\ encRet' = "scan"
    /\ UNCHANGED <<heatRet, tmp, heatMode, send, knob, button, encoder, clock,
                   plant, commanded>>

-----------------------------------------------------------------------------
(* Button::encCount, called from the main loop, from executeMainRegimLogic *)
(* and from ajustHeat595; the encoder interrupt may come between its steps.*)

EncReturn(from) == /\ pc = from /\ pc' = encRet
                   /\ encRet' = "none"
                   /\ UNCHANGED <<heatRet, tmp, heatMode, send>>

(* mutant: the guard is missing *)
DialsAnything == TRUE

(* Not while the time is being dialled. *)
DialsTemperature == buttonRegim # 1

EncSkip == ~DialsTemperature /\ EncReturn("encLoad") /\ UNCHANGED data

EncLoad ==
    /\ Go("encLoad", "encTest")
    /\ DialsTemperature
    /\ cntEncoder' = CNT
    /\ UNCHANGED <<ctl, knob, button, encMemory, encDone, CNT, clock, plant,
                   store, commanded>>

EncSame == /\ encMemory = cntEncoder \/ ~encDone
           /\ EncReturn("encTest")
           /\ UNCHANGED data

EncStore ==
    /\ Go("encTest", "encReset")
    /\ encMemory # cntEncoder /\ encDone
    /\ encMemory' = cntEncoder
    /\ FramWrite(Temp, cntEncoder)
    /\ UNCHANGED <<ctl, knob, button, cntEncoder, encDone, CNT, clock, plant,
                   commanded>>

EncReset ==
    /\ EncReturn("encReset")
    /\ encDone' = FALSE
    /\ UNCHANGED <<knob, button, cntEncoder, encMemory, CNT, clock, plant,
                   store, commanded>>

-----------------------------------------------------------------------------
(* Button::scanButton and the three button states.                         *)

(* main.cpp:251: with the knob at Off the button is not looked at. *)
ScanOff == fram[Mode] = off /\ Pass("scan", "cooler")

(* No press begins: buttonRegim keeps its value. *)
ScanIdle ==
    /\ Go("scan", "exec")
    /\ fram[Mode] # off
    /\ \E pin \in Pins : (pin => flagButton) /\ flagButton' = pin
    /\ UNCHANGED <<ctl, knob, buttonRegim, flagOneButton, pass3Button,
                   firstCall, encoder, clock, plant, store, commanded>>

(* A press begins: buttonRegim++ reads the variable here... *)
ScanPress ==
    /\ Go("scan", "scanStore")
    /\ fram[Mode] # off
    /\ TRUE \in Pins /\ ~flagButton
    /\ tmp' = buttonRegim
    /\ UNCHANGED <<encRet, heatRet, heatMode, send, data>>

(* mutant: the state counts on past 2 *)
CountedNoCap(regim) == regim + 1

Counted(regim) == IF regim = 2 THEN 2 ELSE regim + 1

(* ... and writes it here, at most 2. *)
ScanStore ==
    /\ Go("scanStore", "exec")
    /\ buttonRegim' = Counted(tmp)
    /\ tmp' = 0
    /\ flagButton' = TRUE
    /\ commanded' = (commanded \/ buttonRegim' = 2)
    /\ UNCHANGED <<encRet, heatRet, heatMode, send, knob, flagOneButton,
                   pass3Button, firstCall, encoder, clock, plant, store>>

(* executeButtonRegim(buttonRegim): an interrupt may have reset it. *)
Exec == \/ buttonRegim = 0 /\ Pass("exec", "one")
        \/ buttonRegim = 1 /\ Pass("exec", "two")
        \/ buttonRegim = 2 /\ Pass("exec", "three")

(* buttonRegimOne once entered: nothing to do. *)
OneAgain == flagOneButton /\ Pass("one", "cooler")

(* buttonRegimOne on entry: zeroing() resets the clock and all relays.     *)
OneZero ==
    /\ Go("one", "oneStop")
    /\ ~flagOneButton
    /\ buttonRegim' = IF fram[Mode] \in {set, light} THEN 2 ELSE buttonRegim
    /\ iterInc' = FALSE
    /\ iterDec' = FALSE
    /\ firstCall' = TRUE
    /\ cntEncoder' = 0
    /\ AllOff
    /\ dirTime' = FALSE
    /\ secondCounter' = 0
    /\ minInc' = 0
    /\ minDec' = 0
    /\ totalTime' = 0
    /\ pass3Button' = FALSE
    /\ commanded' = FALSE
    /\ UNCHANGED <<ctl, knob, flagButton, flagOneButton, encMemory, encDone,
                   CNT, timerCntEncoder, tim4, ticks, oven, store>>

(* mutant: the working flag stays *)
KeepWorkFlag == UNCHANGED store

ClearWorkFlag == FramWrite(Work, 0)

(* ... stops the clock and withdraws the working flag. *)
OneStop ==
    /\ Go("oneStop", "cooler")
    /\ tim4' = FALSE
    /\ flagOneButton' = TRUE
    /\ ClearWorkFlag
    /\ UNCHANGED <<ctl, knob, buttonRegim, flagButton, pass3Button, firstCall,
                   encoder, dial, counters, ticks, plant, commanded>>

(* buttonRegimTwo in mode Pre: no time to dial, on to cooking. *)
TwoPre ==
    /\ Go("two", "cooler")
    /\ fram[Mode] = pre
    /\ buttonRegim' = 2
    /\ commanded' = TRUE
    /\ UNCHANGED <<ctl, knob, flags, encoder, clock, plant, store>>

(* mutant: the first pass of state 2 is not made due again *)
TwoDialOnly ==
    /\ Go("two", "encLoad")
    /\ fram[Mode] # pre
    /\ CNT' = IF firstCall THEN 0 ELSE CNT
    /\ encRet' = "twoTime"
    /\ UNCHANGED <<heatRet, tmp, heatMode, send, knob, button, cntEncoder,
                   encMemory, encDone, clock, plant, store, commanded>>

(* buttonRegimTwo, executeMainRegimLogic: the encoder now dials minutes.   *)
TwoDial ==
    /\ Go("two", "encLoad")
    /\ fram[Mode] # pre
    /\ CNT' = IF firstCall THEN 0 ELSE CNT
    /\ pass3Button' = FALSE
    /\ encRet' = "twoTime"
    /\ UNCHANGED <<heatRet, tmp, heatMode, send, knob, buttonRegim, flagButton,
                   flagOneButton, firstCall, cntEncoder, encMemory, encDone,
                   clock, plant, store, commanded>>

TwoTime ==
    /\ Go("twoTime", "cooler")
    /\ timerCntEncoder' = CNT
    /\ dirTime' = (CNT # 0)
    /\ firstCall' = FALSE
    /\ UNCHANGED <<ctl, knob, buttonRegim, flagButton, flagOneButton,
                   pass3Button, encoder, iterInc, iterDec, counters, tim4,
                   ticks, plant, store, commanded>>

(* buttonRegimThree: back to the temperature dialled before the time; the  *)
(* first pass starts the clock and stores the initial temperature.         *)
ThreeTemp ==
    /\ Go("three", "threeFlag")
    /\ CNT' = cntEncoder
    /\ FramWrite(Temp, IF pass3Button THEN cntEncoder
                       ELSE IF fram[Mode] = dry THEN FirstTempDry
                       ELSE FirstTemp)
    /\ tim4' = (tim4 \/ ~pass3Button)
    /\ pass3Button' = TRUE
    /\ UNCHANGED <<ctl, knob, buttonRegim, flagButton, flagOneButton,
                   firstCall, cntEncoder, encMemory, encDone, dial, counters,
                   ticks, plant, commanded>>

(* ... the working flag is set; Set and Light do not heat. *)
ThreeFlag ==
    /\ pc = "threeFlag"
    /\ FramWrite(Work, 1)
    /\ flagOneButton' = FALSE
    /\ IF fram[Mode] \in {set, light}
       THEN /\ pc' = "cooler"
            /\ UNCHANGED <<heatMode, heatRet, encRet>>
       ELSE /\ pc' = "encLoad"
            /\ heatMode' = fram[Mode]
            /\ heatRet' = "cooler"
            /\ encRet' = "diff"
    /\ UNCHANGED <<tmp, send, knob, buttonRegim, flagButton, pass3Button,
                   firstCall, encoder, clock, plant, commanded>>
-----------------------------------------------------------------------------
(* Heat::ajustHeat595, after its call of encCount.                         *)

HysteresisTemp == IF fram[Mode] = pre THEN tempPreOver ELSE tempOtherOver

(* How far the oven is below the temperature to keep, as a vu8. *)
differenceTemper == (fram[Temp] - oven) % Byte

Diff ==
    /\ Go("diff", "protect")
    /\ send' = IF differenceTemper > HysteresisTemp
               THEN modeTable[heatMode].high
               ELSE modeTable[heatMode].low
    /\ UNCHANGED <<encRet, heatRet, tmp, heatMode, data>>

(* The conditions of checkProtectionTriggers, one after the other; the     *)
(* first that holds counts.                                                *)
HotOpen(door) == door /\ oven > safeTemperature
Overheated == oven > fram[Temp]

(* mutant: only the limit for low temperatures *)
TooLongLowOnly == /\ fram[Temp] > LowTemp /\ fram[Temp] <= MidTemp
                  /\ totalTime > maxTotalTime

TooLong == \/ /\ fram[Temp] > LowTemp /\ fram[Temp] <= MidTemp
              /\ totalTime > maxTotalTime
           \/ fram[Temp] > MidTemp /\ totalTime > minTotalTime

(* With the door open and the oven hot, everything is switched off. *)
ProtectDoor ==
    /\ Go("protect", "transmit")
    /\ \E door \in Doors : HotOpen(door)
    /\ send' = {}
    /\ UNCHANGED <<encRet, heatRet, tmp, heatMode, data>>

ProtectDoorShut ==
    /\ \E door \in Doors : ~HotOpen(door)
    /\ Pass("protect", "overheat")

(* The oven is too hot: the fan may stay. *)
ProtectOverheat ==
    /\ Go("overheat", "transmit")
    /\ Overheated
    /\ send' = send \cap {"fan"}
    /\ UNCHANGED <<encRet, heatRet, tmp, heatMode, data>>

ProtectNone == ~Overheated /\ ~TooLong /\ Pass("overheat", "transmit")

(* The time limit stops cooking, and sends nothing in this pass. *)
ProtectStop ==
    /\ Go("overheat", "timeCook")
    /\ ~Overheated
    /\ TooLong
    /\ Regim1Button
    /\ send' = {}
    /\ UNCHANGED <<encRet, heatRet, tmp, heatMode, knob, flags, encoder, clock,
                   plant, store, commanded>>

TransmitToTENs ==
    /\ Go("transmit", "timeCook")
    /\ out' = send
    /\ send' = {}
    /\ UNCHANGED <<encRet, heatRet, tmp, heatMode, knob, button, encoder,
                   clock, oven, store, commanded>>

(* SetTimer::TimeCook: the minutes go to the FRAM, high byte first...      *)
SaveHigh(minutes) == FramWrite(High, (minutes \div MinBase) % MinBase)

IncrementCookTime ==
    /\ Go("timeCook", "timeLow")
    /\ ~dirTime
    /\ minInc' = IF iterInc THEN minInc ELSE 0
    /\ iterInc' = TRUE
    /\ SaveHigh(minInc')
    /\ UNCHANGED <<ctl, knob, button, encoder, timerCntEncoder, dirTime,
                   iterDec, minDec, secondCounter, totalTime, tim4, ticks,
                   plant, commanded>>

(* mutant: every pass takes the dialled minutes *)
DecrementStartAgain == timerCntEncoder

(* ... a countdown takes the dialled minutes over in its first pass... *)
DecrementStart == IF iterDec THEN minDec ELSE timerCntEncoder

DecrementCookTime ==
    /\ Go("timeCook", "timeLow")
    /\ dirTime
    /\ DecrementStart > 0
    /\ minDec' = DecrementStart
    /\ iterDec' = TRUE
    /\ SaveHigh(minDec')
    /\ UNCHANGED <<ctl, knob, button, encoder, timerCntEncoder, dirTime,
                   iterInc, minInc, secondCounter, totalTime, tim4, ticks,
                   plant, commanded>>

HeatReturn(from) == /\ pc = from /\ pc' = heatRet
                    /\ heatRet' = "none" /\ heatMode' = 0
                    /\ UNCHANGED <<encRet, tmp, send>>

(* ... and when they are over, cooking stops. *)
TimeOver ==
    /\ HeatReturn("timeCook")
    /\ dirTime
    /\ DecrementStart = 0
    /\ minDec' = 0
    /\ iterDec' = TRUE
    /\ Regim1Button
    /\ UNCHANGED <<knob, flags, encoder, timerCntEncoder, dirTime, iterInc,
                   minInc, secondCounter, totalTime, tim4, ticks, plant, store,
                   commanded>>

(* ... low byte and direction: the counter is read a second time. *)
TimeLow ==
    /\ HeatReturn("timeLow")
    /\ FramWrite2(Low, (IF dirTime THEN minDec ELSE minInc) % MinBase,
                  Dir, IF dirTime THEN 1 ELSE 0)
    /\ UNCHANGED <<knob, button, encoder, clock, plant, commanded>>

(* main.cpp:255-263: the outer fan, the display, the pause of 100 ms. *)
SetOutCooler == Pass("cooler", "readAdc")
-----------------------------------------------------------------------------
(* Interrupts and the world.                                               *)

(* TIM4: the cooking clock. *)
HandleTIM4 ==
    /\ tim4
    /\ ticks < TicksPerLoop
    /\ ticks' = ticks + 1
    /\ totalTime' = IF totalTime < TotalCap THEN totalTime + 1 ELSE totalTime
    /\ IF secondCounter + 1 = SecPerMin
       THEN /\ secondCounter' = 0
            /\ minInc' = (minInc + 1) % Word
            /\ minDec' = (minDec - 1) % Word
       ELSE /\ secondCounter' = secondCounter + 1
            /\ UNCHANGED <<minInc, minDec>>
    /\ UNCHANGED <<pc, ctl, knob, button, encoder, dial, tim4, plant, store,
                   commanded>>

(* mutant: the comparison the wrong way round *)
NotTooHot == oven < tempMax

TooHot == oven >= tempMax

(* TIM6: the oven is too hot, back to state 0. *)
HandleTIM6 ==
    /\ TooHot
    /\ Regim1Button
    /\ UNCHANGED <<pc, ctl, knob, flags, encoder, clock, plant, store,
                   commanded>>

(* ADC1: Control::bakeTemper. *)
BakeTemper ==
    /\ oven' \in OvenTemps \ {oven}
    /\ UNCHANGED <<pc, ctl, knob, button, encoder, clock, out, store,
                   commanded>>

(* TIM2 capture: the encoder is turned. *)
HandleTIM2 ==
    /\ CNT' \in Turns \ {CNT}
    /\ encDone' = TRUE
    /\ UNCHANGED <<pc, ctl, knob, button, cntEncoder, encMemory, clock, plant,
                   store, commanded>>

(* mutant: the HC595 is not cleared at start *)
RelaysLeft == UNCHANGED out

(* main.cpp:125-127: the HC595 is cleared. *)
RelaysCleared == out' = {}

(* The supply fails and comes back; the FRAM keeps its contents. *)
PowerLoss ==
    /\ PowerMayFail
    /\ pc' = "boot" /\ encRet' = "none" /\ heatRet' = "none"
    /\ tmp' = 0 /\ heatMode' = 0 /\ send' = {}
    /\ mode' = 0 /\ modeCookOld' = 0
    /\ buttonRegim' = 0 /\ flagButton' = FALSE /\ flagOneButton' = FALSE
    /\ pass3Button' = FALSE /\ firstCall' = TRUE
    /\ cntEncoder' = 0 /\ encMemory' = 0 /\ encDone' = FALSE
    /\ CNT' = FirstTemp
    /\ timerCntEncoder' = 0 /\ dirTime' = FALSE
    /\ iterInc' = FALSE /\ iterDec' = FALSE /\ minInc' = 0 /\ minDec' = 0
    /\ secondCounter' = 0 /\ totalTime' = 0 /\ tim4' = FALSE /\ ticks' = 0
    /\ wr' = [r \in Reg |-> 0]
    /\ RelaysCleared
    /\ UNCHANGED <<oven, fram, commanded>>

Boot == BackInfo \/ ColdStart
SetMode == ReadAdc \/ SameMode \/ NewMode \/ StoreMode
EncCount == EncSkip \/ EncLoad \/ EncSame \/ EncStore \/ EncReset
ScanButton == ScanOff \/ ScanIdle \/ ScanPress \/ ScanStore
ButtonRegim == \/ Exec \/ OneAgain \/ OneZero \/ OneStop
               \/ TwoPre \/ TwoDial \/ TwoTime \/ ThreeTemp \/ ThreeFlag
AjustHeat == \/ Diff \/ ProtectDoor \/ ProtectDoorShut \/ ProtectOverheat
             \/ ProtectNone \/ ProtectStop \/ TransmitToTENs
             \/ IncrementCookTime \/ DecrementCookTime \/ TimeOver \/ TimeLow

Main == \/ Boot \/ SetMode \/ EncCount \/ ScanButton \/ ButtonRegim
        \/ AjustHeat \/ SetOutCooler

Next == Main \/ HandleTIM4 \/ HandleTIM6 \/ BakeTemper \/ HandleTIM2 \/ PowerLoss

Spec == Init /\ [][Next]_vars

(* The main program keeps running and enabled timers keep firing; nothing  *)
(* is assumed of the user, the oven and the supply.                        *)
Fairness == WF_vars(Main) /\ WF_vars(HandleTIM4) /\ WF_vars(HandleTIM6)

FairSpec == Spec /\ Fairness
-----------------------------------------------------------------------------
(* Safety.                                                                 *)

HeatersOn == out \cap Heaters # {}

(* Once state 0 of the button has been entered (Button.cpp:39-65) no relay *)
(* is on and the FRAM does not say "cooking", whatever interrupts, mode    *)
(* changes and power failures come in between, until buttonRegimThree has  *)
(* run again.  The clock may only run between starting it there and the    *)
(* first heating.                                                          *)
IdleIsOff ==
    flagOneButton => /\ out = {}
                     /\ fram[Work] = 0
                     /\ tim4 => pc = "threeFlag"

(* In the positions Off, Set and Light no relay is on, from the moment the *)
(* mode is set until the knob is read again (FryMode.cpp:49-105); a failed *)
(* reading of the knob counts as Off (Control.cpp:42-44).                  *)
NoHeatInColdModes ==
    /\ pc \notin {"boot", "readAdc", "modeSet"} /\ heatRet # "readAdc"
          => (mode \in Cold => out = {})
    /\ modeCookOld \in Cold => out = {}

(* Heaters are on only if the user pressed the button through to cooking   *)
(* and cooking has not been ended since (Button.cpp:16-37, 98-134).        *)
HeatIsCommanded == HeatersOn => commanded

(* Heaters that state 2 has found on, or switched on, after its first pass *)
(* are on the cooking clock, whatever has stopped the clock before: the    *)
(* first pass starts it (Button.cpp:107-109), and the modes Set and Light  *)
(* and the entry of state 0 stop it (Button.cpp:58, FryMode.cpp:75, 88),   *)
(* each with the relays off.  Without the clock neither the countdown nor  *)
(* the limits of cooking count (CallBacks.cpp:110-121).  Mode Pre stops    *)
(* the clock, too, but leaves the relays and pass3Button as they are       *)
(* (FryMode.cpp:58-62).                                                    *)
HeatIsTimed ==
    buttonRegim = 2 /\ pass3Button /\ HeatersOn /\ modeCookOld # pre => tim4

(* The encoder is read as a temperature only when it does not hold the     *)
(* minutes being dialled: state 1 turns its counter into minutes, resetting*)
(* firstCall, and only state 2 turns it back, resetting flagOneButton      *)
(* (Button.cpp:83-93, 118-123); encCount guards its reading with           *)
(* buttonRegim instead (Button.cpp:188).                                   *)
MinutesAreNoTemperature ==
    pc = "encTest" /\ flagOneButton => firstCall

(* A countdown starts from the dialled minutes and never exceeds them      *)
(* (SetTimer.cpp:36-40).                                                   *)
CountdownFromDial ==
    buttonRegim = 2 /\ dirTime /\ iterDec /\ pc = "cooler"
        => minDec <= timerCntEncoder

(* "Если режим 0 или 1 - команды ВСЕГДА false (ток запрещен)",             *)
(* CallBacks.cpp:190: no heater is on while the time is dialled.           *)
NoHeatWhileDialling == pc = "twoTime" => ~HeatersOn

(* The relays switch only while cooking is commanded, and are all off from *)
(* the step that ends it: the program implements Heating (Heat.cpp:19-33,  *)
(* Button.cpp:39-65, 153-162, FryMode.cpp:50-88).                          *)
Stove == INSTANCE Heating WITH relays <- out, mayHeat <- commanded

HeatingContract == Stove!Spec

-----------------------------------------------------------------------------
(* Liveness.                                                               *)

(* A request to stop -- by the countdown, the time limit, TIM6 or a change *)
(* of mode -- switches everything off, unless the button is pressed first  *)
(* (SetTimer.cpp:65, Heat.cpp:110-116, CallBacks.cpp:124).                 *)
StopTakesEffect == buttonRegim = 0 ~> (out = {} \/ buttonRegim # 0)

(* An oven that stays above its maximum ends up without heating if nobody  *)
(* keeps pressing the button (CallBacks.cpp:123-125, Heat.cpp:103-105).    *)
OverheatingEnds ==
    <>[](oven > tempMax) /\ <>[](~flagButton) => <>[](~HeatersOn)

(* Cooking above 70 degrees does not go on for ever in any mode but Pre    *)
(* (Heat.cpp:112-116): the clock runs, for the limits to be reached        *)
(* (Button.cpp:107-109), and the stop they ask for ends the cooking.  Mode *)
(* Pre stops the clock and may leave cooking on (FryMode.cpp:58-62).       *)
TimeLimited ==
    ~<>[](/\ buttonRegim = 2 /\ HeatersOn /\ fram[Temp] > LowTemp
          /\ modeCookOld # pre)

(* "Проверка прошедшего времени при t > 120 град (3 часа)", Heat.cpp:115,  *)
(* and line 111 with 12 hours for lower temperatures: cooking above 70     *)
(* degrees does not go on for ever, whatever the mode.                     *)
EveryModeLimited ==
    ~<>[](buttonRegim = 2 /\ HeatersOn /\ fram[Temp] > LowTemp)

(* A countdown ends in every mode that cooks with one                      *)
(* (SetTimer.cpp:35-67, CallBacks.cpp:110-121), which are all but Off, Set *)
(* and Light, that keep state 2 without coming to TimeCook, and Pre, which *)
(* stops the clock (FryMode.cpp:61).                                       *)
CountdownEnds ==
    ~<>[](buttonRegim = 2 /\ dirTime /\ modeCookOld \notin Cold \cup {pre})
=============================================================================
