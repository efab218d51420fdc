----------------------------- MODULE OvenProofs -----------------------------
(***************************************************************************)
(* What the control program guarantees for every set of inputs and every   *)
(* value of its numbers: its variables keep their types, an idle oven is   *)
(* off, and nothing heats in the cold positions of the knob, whatever the  *)
(* interrupts and power failures that come in between.                     *)
(***************************************************************************)
EXTENDS Oven, TLAPS

USE ModesAssumption, InputAssumption, NumberAssumption, TurnsAssumption
    DEF ModesAssumption, InputAssumption, NumberAssumption, TurnsAssumption

(* encCount and ajustHeat595 return to where they were called from: a      *)
(* return address is set exactly while their body runs.                    *)
EncLabel == {"encLoad", "encTest", "encReset"}
HeatLabel == {"diff", "protect", "overheat", "transmit", "timeCook", "timeLow"}
CallsOK ==
    /\ pc \in EncLabel <=> encRet # "none"
    /\ pc \in HeatLabel \/ encRet = "diff" <=> heatRet # "none"
-----------------------------------------------------------------------------
(* Types.                                                                  *)

LEMMA ModRange ==
  ASSUME NEW a \in Int, NEW n \in Nat \ {0}
  PROVE  a % n \in 0 .. n - 1
  OBVIOUS

LEMMA RegistersType ==
  ASSUME NEW f \in Registers
  PROVE  /\ f \in [Reg -> 0 .. Byte - 1]
         /\ f[Temp] \in 0 .. CntMax
         /\ f[Mode] \in 0 .. 10
         /\ f[High] \in Nat
         /\ f[Low] \in Nat
  BY DEF Registers, Reg, Temp, Mode, High, Low, Dir, Work

(* A register may be given any byte; the temperature and the mode have     *)
(* their own bounds.                                                       *)
LEMMA RegistersPut ==
  ASSUME NEW f \in Registers, NEW r \in Reg, NEW v \in 0 .. Byte - 1,
         r = Temp => v <= CntMax, r = Mode => v <= 10
  PROVE  [f EXCEPT ![r] = v] \in Registers
  BY DEF Registers, Reg, Temp, Mode, High, Low, Dir, Work

LEMMA FramWriteType ==
  ASSUME TypeOK, NEW r \in Reg, NEW v \in 0 .. Byte - 1, FramWrite(r, v),
         r = Temp => v <= CntMax, r = Mode => v <= 10
  PROVE  fram' \in Registers /\ wr' \in Registers
  BY RegistersPut DEF TypeOK, FramWrite

LEMMA FramWrite2Type ==
  ASSUME TypeOK, NEW r \in Reg, NEW v \in 0 .. Byte - 1,
         NEW q \in Reg, NEW w \in 0 .. Byte - 1, FramWrite2(r, v, q, w),
         r = Temp => v <= CntMax, r = Mode => v <= 10,
         q = Temp => w <= CntMax, q = Mode => w <= 10
  PROVE  fram' \in Registers /\ wr' \in Registers
  <1> DEFINE f == [wr EXCEPT ![r] = v]
  <1>1. f \in Registers
    BY RegistersPut DEF TypeOK
  <1>2. [f EXCEPT ![q] = w] \in Registers
    BY <1>1, RegistersPut
  <1>3. [wr EXCEPT ![r] = v, ![q] = w] = [f EXCEPT ![q] = w]
    OBVIOUS
  <1> QED BY <1>2, <1>3 DEF FramWrite2

LEMMA RegisterNames ==
  /\ Temp \in Reg /\ Mode \in Reg /\ Dir \in Reg
  /\ Work \in Reg /\ High \in Reg /\ Low \in Reg
  /\ Temp # Mode /\ Temp # Dir /\ Temp # Work /\ Temp # High /\ Temp # Low
  /\ Mode # Dir /\ Mode # Work /\ Mode # High /\ Mode # Low
  /\ Dir # Work /\ Dir # High /\ Dir # Low
  /\ Work # High /\ Work # Low
  /\ High # Low
  BY DEF Reg, Temp, Mode, Dir, Work, High, Low

(* What backInfo joins is again a number of minutes. *)
LEMMA JoinType ==
  ASSUME NEW a \in Nat, NEW b \in Nat, NEW c \in Nat, NEW n \in Nat \ {0}
  PROVE  (a * b + c) % n \in 0 .. n - 1
  <1> DEFINE p == a * b
  <1>1. p \in Nat
    OBVIOUS
  <1> HIDE DEF p
  <1>2. (p + c) % n \in 0 .. n - 1
    BY <1>1
  <1> QED BY <1>2 DEF p

LEMMA SavedMinutesType ==
  ASSUME fram \in Registers
  PROVE  (fram[High] * MinBase + fram[Low]) % Word \in 0 .. Word - 1
  <1>1. fram[High] \in Nat /\ fram[Low] \in Nat
    BY RegistersType
  <1>2. MinBase \in Nat /\ Word \in Nat \ {0}
    OBVIOUS
  <1> QED BY <1>1, <1>2, JoinType

LEMMA SaveHighType ==
  ASSUME TypeOK, NEW m \in 0 .. Word - 1, SaveHigh(m)
  PROVE  fram' \in Registers /\ wr' \in Registers
  <1>1. m \div MinBase \in Int
    OBVIOUS
  <1>2. (m \div MinBase) % MinBase \in 0 .. Byte - 1
    <2>1. (m \div MinBase) % MinBase \in 0 .. MinBase - 1
      BY <1>1, ModRange
    <2> QED BY <2>1
  <1> QED BY <1>2, FramWriteType, RegisterNames DEF SaveHigh

LEMMA WriteThis ==
  ASSUME TypeOK, NEW r \in Reg, NEW v, FramWrite(r, v)
  PROVE  fram'[r] = v /\ wr'[r] = v
  BY RegistersType DEF TypeOK, FramWrite

LEMMA WriteOther ==
  ASSUME TypeOK, NEW r \in Reg, NEW v, NEW q \in Reg, q # r, FramWrite(r, v)
  PROVE  fram'[q] = wr[q] /\ wr'[q] = wr[q]
  BY RegistersType DEF TypeOK, FramWrite

LEMMA WriteTwo ==
  ASSUME TypeOK, NEW r \in Reg, NEW v, NEW q \in Reg, NEW w, q # r,
         FramWrite2(r, v, q, w)
  PROVE  /\ fram'[r] = v /\ wr'[r] = v
         /\ fram'[q] = w /\ wr'[q] = w
         /\ \A p \in Reg \ {r, q} : fram'[p] = wr[p] /\ wr'[p] = wr[p]
  BY RegistersType DEF TypeOK, FramWrite2

LEMMA InitType == ASSUME Init PROVE TypeOK
  <1> USE DEF Init, RamAtStart
  <1>1. fram \in Registers /\ wr \in Registers
    BY DEF Registers, Reg
  <1>2. totalTime \in 0 .. TotalCap
    BY DEF TotalCap
  <1>3. CNT \in 0 .. CntMax /\ oven \in OvenTemps /\ out = {} /\ send = {}
    OBVIOUS
  <1>4. /\ {cntEncoder, encMemory, timerCntEncoder} \subseteq 0 .. CntMax
        /\ {minInc, minDec} \subseteq 0 .. Word - 1
        /\ secondCounter \in 0 .. SecPerMin - 1
        /\ ticks \in 0 .. TicksPerLoop
    OBVIOUS
  <1>5. {flagButton, flagOneButton, pass3Button, firstCall, encDone, dirTime,
         iterInc, iterDec, tim4, commanded} \subseteq BOOLEAN
    OBVIOUS
  <1>6. /\ pc = "boot" /\ encRet = "none" /\ heatRet = "none"
        /\ tmp = 0 /\ heatMode = 0 /\ mode = 0 /\ modeCookOld = 0
        /\ buttonRegim = 0
    OBVIOUS
  <1> HIDE DEF Init, RamAtStart
  <1> QED BY <1>1, <1>2, <1>3, <1>4, <1>5, <1>6 DEF TypeOK, Label

LEMMA TypeStep ==
  ASSUME TypeOK, CallsOK, [Next]_vars
  PROVE  TypeOK'
  <1> USE DEF TypeOK, Label, Go, Pass, vars, data, ctl, knob, flags, button,
          encoder, dial, counters, clock, plant, store
  <1>1. CASE BackInfo
    <2>1. minDec' \in 0 .. Word - 1
      BY <1>1, SavedMinutesType DEF BackInfo
    <2>2. CNT' \in 0 .. CntMax /\ modeCookOld' \in 0 .. 10 /\ heatMode' \in 0 .. 10
      BY <1>1, RegistersType DEF BackInfo
    <2>3. dirTime' \in BOOLEAN /\ minInc' = minDec'
      BY <1>1 DEF BackInfo
    <2> QED BY <1>1, <2>1, <2>2, <2>3 DEF BackInfo
  <1>2. CASE ColdStart
    BY <1>2 DEF ColdStart
  <1>3. CASE ReadAdc
    <2>1. fram' \in Registers /\ wr' \in Registers
      <3>1. CASE \E m \in Modes : mode' = m /\ FramWrite(Mode, m)
        <4>1. PICK m \in Modes : FramWrite(Mode, m)
          BY <3>1
        <4>2. m \in 0 .. 10 /\ m \in 0 .. Byte - 1
          OBVIOUS
        <4> QED BY <4>1, <4>2, FramWriteType, RegisterNames
      <3>2. CASE UNCHANGED store
        BY <3>2
      <3> QED BY <1>3, <3>1, <3>2 DEF ReadAdc
    <2>2. mode' \in 0 .. 10
      BY <1>3 DEF ReadAdc, off
    <2> QED BY <1>3, <2>1, <2>2 DEF ReadAdc
  <1>4. CASE SameMode
    BY <1>4 DEF SameMode
  <1>5. CASE NewMode
    <2>1. CASE mode \in {off, set}
      BY <1>5, <2>1 DEF NewMode, AllOff
    <2>2. CASE mode \notin {off, set}
      <3>1. PICK t \in {FirstTemp, FirstTempDry} : FirstRegim(t)
        BY <1>5, <2>2 DEF NewMode
      <3>2. fram' \in Registers /\ wr' \in Registers
        BY <3>1, FramWrite2Type, RegisterNames DEF FirstRegim
      <3>3. CNT' \in 0 .. CntMax /\ buttonRegim' = 0 /\ flagOneButton' = FALSE
        BY <3>1 DEF FirstRegim, Regim1Button
      <3>4. UNCHANGED <<flagButton, pass3Button, firstCall, cntEncoder,
                        encMemory, encDone>>
        BY <3>1 DEF FirstRegim
      <3>5. out' \in SUBSET Relay /\ commanded' \in BOOLEAN /\ tim4' \in BOOLEAN
        BY <1>5 DEF NewMode, AllOff
      <3>6. UNCHANGED <<ctl, mode, dial, counters, ticks, oven>>
        BY <1>5 DEF NewMode
      <3>7. pc' = "store" /\ modeCookOld' = mode
        BY <1>5 DEF NewMode
      <3>8. {flagButton', flagOneButton', pass3Button', firstCall', encDone',
             dirTime', iterInc', iterDec', tim4', commanded'} \subseteq BOOLEAN
        BY <3>3, <3>4, <3>5, <3>6
      <3> QED BY <3>2, <3>3, <3>4, <3>5, <3>6, <3>7, <3>8
    <2> QED BY <2>1, <2>2
  <1>6. CASE StoreMode
    <2>1. fram' \in Registers /\ wr' \in Registers
      BY <1>6, FramWriteType, RegisterNames
      DEF StoreMode
    <2> QED BY <1>6, <2>1 DEF StoreMode
  <1>7. CASE EncSkip
    BY <1>7 DEF EncSkip, EncReturn, CallsOK, EncLabel
  <1>8. CASE EncLoad
    BY <1>8 DEF EncLoad
  <1>9. CASE EncSame
    BY <1>9 DEF EncSame, EncReturn, CallsOK, EncLabel
  <1>10. CASE EncStore
    <2>1. fram' \in Registers /\ wr' \in Registers
      BY <1>10, FramWriteType, RegisterNames
      DEF EncStore
    <2> QED BY <1>10, <2>1 DEF EncStore
  <1>11. CASE EncReset
    BY <1>11 DEF EncReset, EncReturn, CallsOK, EncLabel
  <1>12. CASE ScanOff
    BY <1>12 DEF ScanOff
  <1>13. CASE ScanIdle
    BY <1>13 DEF ScanIdle
  <1>14. CASE ScanPress
    BY <1>14 DEF ScanPress
  <1>15. CASE ScanStore
    BY <1>15 DEF ScanStore, Counted
  <1>16. CASE Exec
    BY <1>16 DEF Exec
  <1>17. CASE OneAgain
    BY <1>17 DEF OneAgain
  <1>18. CASE OneZero
    <2>1. buttonRegim' \in 0 .. 2
      BY <1>18 DEF OneZero
    <2>2. /\ secondCounter' \in 0 .. SecPerMin - 1
          /\ totalTime' \in 0 .. TotalCap
          /\ {minInc', minDec'} \subseteq 0 .. Word - 1
          /\ cntEncoder' \in 0 .. CntMax
      BY <1>18 DEF OneZero, TotalCap
    <2>3. /\ out' \in SUBSET Relay
          /\ {firstCall', iterInc', iterDec', dirTime', pass3Button',
              commanded'} \subseteq BOOLEAN
      BY <1>18 DEF OneZero, AllOff
    <2>4. pc' = "oneStop" /\ UNCHANGED <<ctl, knob, flagButton, flagOneButton,
               encMemory, encDone, CNT, timerCntEncoder, tim4, ticks, oven, store>>
      BY <1>18 DEF OneZero
    <2> QED BY <2>1, <2>2, <2>3, <2>4
  <1>19. CASE OneStop
    <2>1. fram' \in Registers /\ wr' \in Registers
      BY <1>19, FramWriteType, RegisterNames
      DEF OneStop, ClearWorkFlag
    <2> QED BY <1>19, <2>1 DEF OneStop
  <1>20. CASE TwoPre
    BY <1>20 DEF TwoPre
  <1>21. CASE TwoDial
    <2>1. CNT' \in 0 .. CntMax
      BY <1>21 DEF TwoDial
    <2> QED BY <1>21, <2>1 DEF TwoDial
  <1>22. CASE TwoTime
    BY <1>22 DEF TwoTime
  <1>23. CASE ThreeTemp
    <2>1. fram' \in Registers /\ wr' \in Registers
      BY <1>23, FramWriteType, RegisterNames
      DEF ThreeTemp
    <2> QED BY <1>23, <2>1 DEF ThreeTemp
  <1>24. CASE ThreeFlag
    <2>1. fram' \in Registers /\ wr' \in Registers
      BY <1>24, FramWriteType, RegisterNames DEF ThreeFlag
    <2>2. heatMode' \in 0 .. 10
      BY <1>24, RegistersType DEF ThreeFlag
    <2>3. CASE fram[Mode] \in {set, light}
      BY <1>24, <2>1, <2>3 DEF ThreeFlag
    <2>4. CASE fram[Mode] \notin {set, light}
      BY <1>24, <2>1, <2>2, <2>4 DEF ThreeFlag
    <2> QED BY <2>3, <2>4
  <1>25. CASE Diff
    BY <1>25 DEF Diff, modeTable, Relay, Heaters
  <1>26. CASE ProtectDoor
    BY <1>26 DEF ProtectDoor
  <1>27. CASE ProtectDoorShut
    BY <1>27 DEF ProtectDoorShut
  <1>28. CASE ProtectOverheat
    BY <1>28 DEF ProtectOverheat
  <1>29. CASE ProtectNone
    BY <1>29 DEF ProtectNone
  <1>30. CASE ProtectStop
    BY <1>30 DEF ProtectStop, Regim1Button
  <1>31. CASE TransmitToTENs
    BY <1>31 DEF TransmitToTENs
  <1>32. CASE IncrementCookTime
    <2>1. minInc' \in 0 .. Word - 1
      BY <1>32 DEF IncrementCookTime
    <2>2. fram' \in Registers /\ wr' \in Registers
      BY <1>32, <2>1, SaveHighType DEF IncrementCookTime
    <2> QED BY <1>32, <2>1, <2>2 DEF IncrementCookTime
  <1>33. CASE DecrementCookTime
    <2>1. minDec' \in 0 .. Word - 1
      BY <1>33 DEF DecrementCookTime, DecrementStart
    <2>2. fram' \in Registers /\ wr' \in Registers
      BY <1>33, <2>1, SaveHighType DEF DecrementCookTime
    <2> QED BY <1>33, <2>1, <2>2 DEF DecrementCookTime
  <1>34. CASE TimeOver
    BY <1>34 DEF TimeOver, HeatReturn, CallsOK, HeatLabel, Regim1Button
  <1>35. CASE TimeLow
    <2>1. PICK m \in {minDec, minInc}, d \in {0, 1} :
             FramWrite2(Low, m % MinBase, Dir, d)
      BY <1>35 DEF TimeLow
    <2>2. m % MinBase \in 0 .. Byte - 1 /\ d \in 0 .. Byte - 1
      <3>1. m \in Int /\ MinBase \in Nat \ {0}
        OBVIOUS
      <3>2. m % MinBase \in 0 .. MinBase - 1
        BY <3>1, ModRange
      <3> QED BY <3>2
    <2>3. fram' \in Registers /\ wr' \in Registers
      BY <2>1, <2>2, FramWrite2Type, RegisterNames
    <2> QED BY <1>35, <2>3 DEF TimeLow, HeatReturn, CallsOK, HeatLabel
  <1>36. CASE SetOutCooler
    BY <1>36 DEF SetOutCooler
  <1>37. CASE HandleTIM4
    BY <1>37 DEF HandleTIM4, TotalCap
  <1>38. CASE HandleTIM6
    BY <1>38 DEF HandleTIM6, Regim1Button
  <1>39. CASE BakeTemper
    BY <1>39 DEF BakeTemper
  <1>40. CASE HandleTIM2
    BY <1>40 DEF HandleTIM2
  <1>41. CASE PowerLoss
    <2>1. wr' \in Registers
      BY <1>41 DEF PowerLoss, Registers, Reg
    <2>2. totalTime' \in 0 .. TotalCap
      BY <1>41 DEF PowerLoss, TotalCap
    <2>3. CNT' \in 0 .. CntMax /\ out' \in SUBSET Relay
      BY <1>41 DEF PowerLoss, RelaysCleared
    <2>4. {minInc', minDec'} \subseteq 0 .. Word - 1 /\ secondCounter' \in 0 .. SecPerMin - 1
      BY <1>41 DEF PowerLoss
    <2>5. /\ {cntEncoder', encMemory', timerCntEncoder'} \subseteq 0 .. CntMax
          /\ ticks' \in 0 .. TicksPerLoop
      BY <1>41 DEF PowerLoss
    <2>6. UNCHANGED <<oven, fram, commanded>>
      BY <1>41 DEF PowerLoss
    <2>7. /\ pc' = "boot" /\ encRet' = "none" /\ heatRet' = "none"
          /\ tmp' = 0 /\ heatMode' = 0 /\ send' = {}
          /\ mode' = 0 /\ modeCookOld' = 0 /\ buttonRegim' = 0
      BY <1>41 DEF PowerLoss
    <2>8. {flagButton', flagOneButton', pass3Button', firstCall', encDone',
           dirTime', iterInc', iterDec', tim4'} \subseteq BOOLEAN
      BY <1>41 DEF PowerLoss
    <2> QED BY <2>1, <2>2, <2>3, <2>4, <2>5, <2>6, <2>7, <2>8
  <1>42. CASE UNCHANGED vars
    BY <1>42
  <1> QED BY <1>1, <1>2, <1>3, <1>4, <1>5, <1>6, <1>7, <1>8, <1>9, <1>10, <1>11, <1>12, <1>13, <1>14, <1>15, <1>16, <1>17, <1>18, <1>19, <1>20, <1>21, <1>22, <1>23, <1>24, <1>25, <1>26, <1>27, <1>28, <1>29, <1>30, <1>31, <1>32, <1>33, <1>34, <1>35, <1>36, <1>37, <1>38, <1>39, <1>40, <1>41, <1>42
    DEF Next, Main, Boot, SetMode, EncCount, ScanButton, ButtonRegim, AjustHeat

LEMMA CallsStep ==
  ASSUME TypeOK, CallsOK, [Next]_vars
  PROVE  CallsOK'
  <1> USE DEF TypeOK, CallsOK, EncLabel, HeatLabel, Go, Pass, vars, ctl
  <1>1. CASE BackInfo
    BY <1>1 DEF BackInfo
  <1>2. CASE ColdStart
    BY <1>2 DEF ColdStart
  <1>3. CASE ReadAdc
    BY <1>3 DEF ReadAdc
  <1>4. CASE SameMode
    BY <1>4 DEF SameMode
  <1>5. CASE NewMode
    BY <1>5 DEF NewMode
  <1>6. CASE StoreMode
    BY <1>6 DEF StoreMode
  <1>7. CASE EncSkip
    BY <1>7 DEF EncSkip, EncReturn
  <1>8. CASE EncLoad
    BY <1>8 DEF EncLoad
  <1>9. CASE EncSame
    BY <1>9 DEF EncSame, EncReturn
  <1>10. CASE EncStore
    BY <1>10 DEF EncStore
  <1>11. CASE EncReset
    BY <1>11 DEF EncReset, EncReturn
  <1>12. CASE ScanOff
    BY <1>12 DEF ScanOff
  <1>13. CASE ScanIdle
    BY <1>13 DEF ScanIdle
  <1>14. CASE ScanPress
    BY <1>14 DEF ScanPress
  <1>15. CASE ScanStore
    BY <1>15 DEF ScanStore
  <1>16. CASE Exec
    BY <1>16 DEF Exec
  <1>17. CASE OneAgain
    BY <1>17 DEF OneAgain
  <1>18. CASE OneZero
    BY <1>18 DEF OneZero
  <1>19. CASE OneStop
    BY <1>19 DEF OneStop
  <1>20. CASE TwoPre
    BY <1>20 DEF TwoPre
  <1>21. CASE TwoDial
    BY <1>21 DEF TwoDial
  <1>22. CASE TwoTime
    BY <1>22 DEF TwoTime
  <1>23. CASE ThreeTemp
    BY <1>23 DEF ThreeTemp
  <1>24. CASE ThreeFlag
    BY <1>24 DEF ThreeFlag
  <1>25. CASE Diff
    BY <1>25 DEF Diff
  <1>26. CASE ProtectDoor
    BY <1>26 DEF ProtectDoor
  <1>27. CASE ProtectDoorShut
    BY <1>27 DEF ProtectDoorShut
  <1>28. CASE ProtectOverheat
    BY <1>28 DEF ProtectOverheat
  <1>29. CASE ProtectNone
    BY <1>29 DEF ProtectNone
  <1>30. CASE ProtectStop
    BY <1>30 DEF ProtectStop
  <1>31. CASE TransmitToTENs
    BY <1>31 DEF TransmitToTENs
  <1>32. CASE IncrementCookTime
    BY <1>32 DEF IncrementCookTime
  <1>33. CASE DecrementCookTime
    BY <1>33 DEF DecrementCookTime
  <1>34. CASE TimeOver
    BY <1>34 DEF TimeOver, HeatReturn
  <1>35. CASE TimeLow
    BY <1>35 DEF TimeLow, HeatReturn
  <1>36. CASE SetOutCooler
    BY <1>36 DEF SetOutCooler
  <1>37. CASE HandleTIM4
    BY <1>37 DEF HandleTIM4
  <1>38. CASE HandleTIM6
    BY <1>38 DEF HandleTIM6
  <1>39. CASE BakeTemper
    BY <1>39 DEF BakeTemper
  <1>40. CASE HandleTIM2
    BY <1>40 DEF HandleTIM2
  <1>41. CASE PowerLoss
    BY <1>41 DEF PowerLoss
  <1>42. CASE UNCHANGED vars
    BY <1>42
  <1> QED BY <1>1, <1>2, <1>3, <1>4, <1>5, <1>6, <1>7, <1>8, <1>9, <1>10, <1>11, <1>12, <1>13, <1>14, <1>15, <1>16, <1>17, <1>18, <1>19, <1>20, <1>21, <1>22, <1>23, <1>24, <1>25, <1>26, <1>27, <1>28, <1>29, <1>30, <1>31, <1>32, <1>33, <1>34, <1>35, <1>36, <1>37, <1>38, <1>39, <1>40, <1>41, <1>42
    DEF Next, Main, Boot, SetMode, EncCount, ScanButton, ButtonRegim, AjustHeat

-----------------------------------------------------------------------------
(* An idle oven is off.                                                    *)

(* Heating is only ever decided while flagOneButton is reset: the body of  *)
(* ajustHeat595 runs between ThreeFlag, or the start, and a pass in which  *)
(* buttonRegimOne may set it again, and by then zeroing() has switched the *)
(* relays off.                                                             *)
IdleFirm ==
    /\ flagOneButton => wr[Work] = 0
    /\ flagOneButton => heatRet = "none" /\ pc # "boot"
    /\ pc = "oneStop" => out = {}

IdleInv == TypeOK /\ CallsOK /\ IdleFirm /\ IdleIsOff

LEMMA IdleStep ==
  ASSUME IdleInv, [Next]_vars
  PROVE  IdleFirm' /\ IdleIsOff'
  <1> USE DEF IdleInv, CallsOK, EncLabel, HeatLabel, IdleFirm, IdleIsOff, Go, Pass,
          vars, data, ctl, knob, flags, button, encoder, dial, counters, clock,
          plant, store
  <1>1. CASE BackInfo
    BY <1>1 DEF BackInfo
  <1>2. CASE ColdStart
    BY <1>2 DEF ColdStart
  <1>3. CASE ReadAdc
    <2>1. \/ fram'[Work] = wr[Work] /\ wr'[Work] = wr[Work]
          \/ UNCHANGED <<fram, wr>>
      BY <1>3, WriteOther, RegisterNames DEF ReadAdc
    <2> QED BY <1>3, <2>1 DEF ReadAdc
  <1>4. CASE SameMode
    BY <1>4 DEF SameMode
  <1>5. CASE NewMode
    <2>1. CASE mode \in {off, set}
      BY <1>5, <2>1 DEF NewMode, AllOff
    <2>2. CASE mode \notin {off, set}
      <3>1. PICK t \in {FirstTemp, FirstTempDry} : FirstRegim(t)
        BY <1>5, <2>2 DEF NewMode
      <3>2. flagOneButton' = FALSE
        BY <3>1 DEF FirstRegim
      <3> QED BY <1>5, <3>2 DEF NewMode
    <2> QED BY <2>1, <2>2
  <1>6. CASE StoreMode
    <2>1. fram'[Work] = wr[Work] /\ wr'[Work] = wr[Work]
      BY <1>6, WriteOther, RegisterNames DEF StoreMode
    <2> QED BY <1>6, <2>1 DEF StoreMode
  <1>7. CASE EncSkip
    <2>1. encRet \in {"scan", "twoTime", "diff"}
      BY <1>7 DEF EncSkip, EncReturn, TypeOK
    <2> QED BY <1>7, <2>1 DEF EncSkip, EncReturn
  <1>8. CASE EncLoad
    BY <1>8 DEF EncLoad
  <1>9. CASE EncSame
    <2>1. encRet \in {"scan", "twoTime", "diff"}
      BY <1>9 DEF EncSame, EncReturn, TypeOK
    <2> QED BY <1>9, <2>1 DEF EncSame, EncReturn
  <1>10. CASE EncStore
    <2>1. fram'[Work] = wr[Work] /\ wr'[Work] = wr[Work]
      BY <1>10, WriteOther, RegisterNames DEF EncStore
    <2> QED BY <1>10, <2>1 DEF EncStore
  <1>11. CASE EncReset
    <2>1. encRet \in {"scan", "twoTime", "diff"}
      BY <1>11 DEF EncReset, EncReturn, TypeOK
    <2> QED BY <1>11, <2>1 DEF EncReset, EncReturn
  <1>12. CASE ScanOff
    BY <1>12 DEF ScanOff
  <1>13. CASE ScanIdle
    BY <1>13 DEF ScanIdle
  <1>14. CASE ScanPress
    BY <1>14 DEF ScanPress
  <1>15. CASE ScanStore
    BY <1>15 DEF ScanStore
  <1>16. CASE Exec
    BY <1>16 DEF Exec
  <1>17. CASE OneAgain
    BY <1>17 DEF OneAgain
  <1>18. CASE OneZero
    BY <1>18 DEF OneZero, AllOff
  <1>19. CASE OneStop
    <2>1. fram'[Work] = 0 /\ wr'[Work] = 0
      BY <1>19, WriteThis, RegisterNames DEF OneStop, ClearWorkFlag
    <2> QED BY <1>19, <2>1 DEF OneStop, ClearWorkFlag
  <1>20. CASE TwoPre
    BY <1>20 DEF TwoPre
  <1>21. CASE TwoDial
    BY <1>21 DEF TwoDial
  <1>22. CASE TwoTime
    BY <1>22 DEF TwoTime
  <1>23. CASE ThreeTemp
    <2>1. fram'[Work] = wr[Work] /\ wr'[Work] = wr[Work]
      BY <1>23, WriteOther, RegisterNames DEF ThreeTemp
    <2> QED BY <1>23, <2>1 DEF ThreeTemp
  <1>24. CASE ThreeFlag
    BY <1>24 DEF ThreeFlag
  <1>25. CASE Diff
    BY <1>25 DEF Diff
  <1>26. CASE ProtectDoor
    BY <1>26 DEF ProtectDoor
  <1>27. CASE ProtectDoorShut
    BY <1>27 DEF ProtectDoorShut
  <1>28. CASE ProtectOverheat
    BY <1>28 DEF ProtectOverheat
  <1>29. CASE ProtectNone
    BY <1>29 DEF ProtectNone
  <1>30. CASE ProtectStop
    BY <1>30 DEF ProtectStop
  <1>31. CASE TransmitToTENs
    BY <1>31 DEF TransmitToTENs
  <1>32. CASE IncrementCookTime
    BY <1>32 DEF IncrementCookTime
  <1>33. CASE DecrementCookTime
    BY <1>33 DEF DecrementCookTime
  <1>34. CASE TimeOver
    <2>1. heatRet \in {"readAdc", "cooler"}
      BY <1>34 DEF TimeOver, HeatReturn, TypeOK
    <2> QED BY <1>34, <2>1 DEF TimeOver, HeatReturn
  <1>35. CASE TimeLow
    <2>1. heatRet \in {"readAdc", "cooler"}
      BY <1>35 DEF TimeLow, HeatReturn, TypeOK
    <2> QED BY <1>35, <2>1 DEF TimeLow, HeatReturn
  <1>36. CASE SetOutCooler
    BY <1>36 DEF SetOutCooler
  <1>37. CASE HandleTIM4
    BY <1>37 DEF HandleTIM4
  <1>38. CASE HandleTIM6
    BY <1>38 DEF HandleTIM6
  <1>39. CASE BakeTemper
    BY <1>39 DEF BakeTemper
  <1>40. CASE HandleTIM2
    BY <1>40 DEF HandleTIM2
  <1>41. CASE PowerLoss
    BY <1>41 DEF PowerLoss, RelaysCleared
  <1>42. CASE UNCHANGED vars
    BY <1>42
  <1> QED BY <1>1, <1>2, <1>3, <1>4, <1>5, <1>6, <1>7, <1>8, <1>9, <1>10, <1>11, <1>12, <1>13, <1>14, <1>15, <1>16, <1>17, <1>18, <1>19, <1>20, <1>21, <1>22, <1>23, <1>24, <1>25, <1>26, <1>27, <1>28, <1>29, <1>30, <1>31, <1>32, <1>33, <1>34, <1>35, <1>36, <1>37, <1>38, <1>39, <1>40, <1>41, <1>42
    DEF Next, Main, Boot, SetMode, EncCount, ScanButton, ButtonRegim, AjustHeat

LEMMA InitIdle == Init => IdleInv
  <1> SUFFICES ASSUME Init
               PROVE  IdleInv
    OBVIOUS
  <1>1. TypeOK
    BY InitType
  <1>2. CallsOK
    BY DEF Init, RamAtStart, CallsOK, EncLabel, HeatLabel
  <1>3. IdleFirm /\ IdleIsOff
    BY DEF Init, RamAtStart, IdleFirm, IdleIsOff
  <1> QED BY <1>1, <1>2, <1>3 DEF IdleInv

(* Every variable keeps to the values its declaration and its uses allow,  *)
(* so that for instance no return address is ever missing, the relay table *)
(* is never indexed out of its range (Heat.cpp:24) and no register holds   *)
(* more than a byte.                                                       *)
THEOREM TypeCorrect == Spec => []TypeOK
  <1>1. Init => TypeOK /\ CallsOK
    BY InitIdle DEF IdleInv
  <1>2. TypeOK /\ CallsOK /\ [Next]_vars => (TypeOK /\ CallsOK)'
    BY TypeStep, CallsStep
  <1> QED BY <1>1, <1>2, PTL DEF Spec

(* Once state 0 of the button has been entered, no relay is on and the     *)
(* FRAM does not say "cooking" until buttonRegimThree runs again           *)
(* (Button.cpp:39-65): for all inputs, interrupts and power failures.      *)
THEOREM IdleIsOffHolds == Spec => []IdleIsOff
  <1>1. IdleInv /\ [Next]_vars => IdleInv'
    BY TypeStep, CallsStep, IdleStep DEF IdleInv
  <1>2. IdleInv => IdleIsOff
    BY DEF IdleInv
  <1> QED BY <1>1, <1>2, InitIdle, PTL DEF Spec

-----------------------------------------------------------------------------
(* The cold positions of the knob.                                         *)

(* From the mode being set to the knob being read again, the knob, the     *)
(* mode in force, the FRAM and the argument of ajustHeat595 name the same  *)
(* mode, so that nothing is ever sent in a cold one.  (The first call of   *)
(* ajustHeat595, from backInfo, has the mode of the FRAM and no knob yet.) *)
Settled == pc \notin {"boot", "readAdc", "modeSet"} /\ heatRet # "readAdc"

ModeFirm ==
    /\ Settled => mode = modeCookOld
    /\ Settled /\ pc # "store" => wr[Mode] = mode /\ fram[Mode] = mode
    /\ heatRet # "none" => heatMode = modeCookOld
    /\ pc \notin {"protect", "overheat", "transmit"} => send = {}
    /\ send # {} => modeCookOld \notin Cold
    /\ pc = "boot" => out = {}
    /\ modeCookOld \in Cold => out = {}

ModeInv == TypeOK /\ CallsOK /\ ModeFirm

LEMMA ModeStep ==
  ASSUME ModeInv, [Next]_vars
  PROVE  ModeFirm'
  <1> USE DEF ModeInv, CallsOK, EncLabel, HeatLabel, ModeFirm, Settled, Go, Pass,
          vars, data, ctl, knob, flags, button, encoder, dial, counters, clock,
          plant, store
  <1>1. CASE BackInfo
    BY <1>1 DEF BackInfo
  <1>2. CASE ColdStart
    BY <1>2 DEF ColdStart
  <1>3. CASE ReadAdc
    BY <1>3 DEF ReadAdc
  <1>4. CASE SameMode
    BY <1>4 DEF SameMode
  <1>5. CASE NewMode
    <2>1. out' = IF mode \in Cold THEN {} ELSE out
      BY <1>5 DEF NewMode, AllOff
    <2>2. modeCookOld' = mode /\ UNCHANGED <<ctl, mode>>
      BY <1>5 DEF NewMode
    <2> QED BY <1>5, <2>1, <2>2 DEF NewMode
  <1>6. CASE StoreMode
    <2>1. fram'[Mode] = mode /\ wr'[Mode] = mode
      BY <1>6, WriteThis, RegisterNames DEF StoreMode
    <2> QED BY <1>6, <2>1 DEF StoreMode
  <1>7. CASE EncSkip
    <2>1. encRet \in {"scan", "twoTime", "diff"}
      BY <1>7 DEF EncSkip, EncReturn, TypeOK
    <2> QED BY <1>7, <2>1, RegisterNames DEF EncSkip, EncReturn
  <1>8. CASE EncLoad
    BY <1>8 DEF EncLoad
  <1>9. CASE EncSame
    <2>1. encRet \in {"scan", "twoTime", "diff"}
      BY <1>9 DEF EncSame, EncReturn, TypeOK
    <2> QED BY <1>9, <2>1, RegisterNames DEF EncSame, EncReturn
  <1>10. CASE EncStore
    <2>1. fram'[Mode] = wr[Mode] /\ wr'[Mode] = wr[Mode]
      BY <1>10, WriteOther, RegisterNames DEF EncStore
    <2> QED BY <1>10, <2>1 DEF EncStore
  <1>11. CASE EncReset
    <2>1. encRet \in {"scan", "twoTime", "diff"}
      BY <1>11 DEF EncReset, EncReturn, TypeOK
    <2> QED BY <1>11, <2>1, RegisterNames DEF EncReset, EncReturn
  <1>12. CASE ScanOff
    BY <1>12 DEF ScanOff
  <1>13. CASE ScanIdle
    BY <1>13 DEF ScanIdle
  <1>14. CASE ScanPress
    BY <1>14 DEF ScanPress
  <1>15. CASE ScanStore
    BY <1>15 DEF ScanStore
  <1>16. CASE Exec
    BY <1>16 DEF Exec
  <1>17. CASE OneAgain
    BY <1>17 DEF OneAgain
  <1>18. CASE OneZero
    BY <1>18 DEF OneZero, AllOff
  <1>19. CASE OneStop
    <2>1. fram'[Mode] = wr[Mode] /\ wr'[Mode] = wr[Mode]
      BY <1>19, WriteOther, RegisterNames DEF OneStop, ClearWorkFlag
    <2> QED BY <1>19, <2>1 DEF OneStop, ClearWorkFlag
  <1>20. CASE TwoPre
    BY <1>20 DEF TwoPre
  <1>21. CASE TwoDial
    BY <1>21 DEF TwoDial
  <1>22. CASE TwoTime
    BY <1>22 DEF TwoTime
  <1>23. CASE ThreeTemp
    <2>1. fram'[Mode] = wr[Mode] /\ wr'[Mode] = wr[Mode]
      BY <1>23, WriteOther, RegisterNames DEF ThreeTemp
    <2> QED BY <1>23, <2>1 DEF ThreeTemp
  <1>24. CASE ThreeFlag
    <2>1. fram'[Mode] = wr[Mode] /\ wr'[Mode] = wr[Mode]
      BY <1>24, WriteOther, RegisterNames DEF ThreeFlag
    <2> QED BY <1>24, <2>1 DEF ThreeFlag
  <1>25. CASE Diff
    <2>1. heatMode \in Cold => send' = {}
      BY <1>25 DEF Diff, modeTable, Cold, off, set, light, TypeOK
    <2> QED BY <1>25, <2>1 DEF Diff
  <1>26. CASE ProtectDoor
    BY <1>26 DEF ProtectDoor
  <1>27. CASE ProtectDoorShut
    BY <1>27 DEF ProtectDoorShut
  <1>28. CASE ProtectOverheat
    BY <1>28 DEF ProtectOverheat
  <1>29. CASE ProtectNone
    BY <1>29 DEF ProtectNone
  <1>30. CASE ProtectStop
    BY <1>30 DEF ProtectStop
  <1>31. CASE TransmitToTENs
    BY <1>31 DEF TransmitToTENs
  <1>32. CASE IncrementCookTime
    <2>1. fram'[Mode] = wr[Mode] /\ wr'[Mode] = wr[Mode]
      BY <1>32, WriteOther, RegisterNames DEF IncrementCookTime, SaveHigh
    <2> QED BY <1>32, <2>1 DEF IncrementCookTime
  <1>33. CASE DecrementCookTime
    <2>1. fram'[Mode] = wr[Mode] /\ wr'[Mode] = wr[Mode]
      BY <1>33, WriteOther, RegisterNames DEF DecrementCookTime, SaveHigh
    <2> QED BY <1>33, <2>1 DEF DecrementCookTime
  <1>34. CASE TimeOver
    <2>1. heatRet \in {"readAdc", "cooler"}
      BY <1>34 DEF TimeOver, HeatReturn, TypeOK
    <2> QED BY <1>34, <2>1 DEF TimeOver, HeatReturn
  <1>35. CASE TimeLow
    <2>1. heatRet \in {"readAdc", "cooler"}
      BY <1>35 DEF TimeLow, HeatReturn, TypeOK
    <2>2. fram'[Mode] = wr[Mode] /\ wr'[Mode] = wr[Mode]
      BY <1>35, WriteTwo, RegisterNames DEF TimeLow
    <2> QED BY <1>35, <2>1, <2>2 DEF TimeLow, HeatReturn
  <1>36. CASE SetOutCooler
    BY <1>36 DEF SetOutCooler
  <1>37. CASE HandleTIM4
    BY <1>37 DEF HandleTIM4
  <1>38. CASE HandleTIM6
    BY <1>38 DEF HandleTIM6
  <1>39. CASE BakeTemper
    BY <1>39 DEF BakeTemper
  <1>40. CASE HandleTIM2
    BY <1>40 DEF HandleTIM2
  <1>41. CASE PowerLoss
    BY <1>41 DEF PowerLoss, RelaysCleared
  <1>42. CASE UNCHANGED vars
    BY <1>42
  <1> QED BY <1>1, <1>2, <1>3, <1>4, <1>5, <1>6, <1>7, <1>8, <1>9, <1>10, <1>11, <1>12, <1>13, <1>14, <1>15, <1>16, <1>17, <1>18, <1>19, <1>20, <1>21, <1>22, <1>23, <1>24, <1>25, <1>26, <1>27, <1>28, <1>29, <1>30, <1>31, <1>32, <1>33, <1>34, <1>35, <1>36, <1>37, <1>38, <1>39, <1>40, <1>41, <1>42
    DEF Next, Main, Boot, SetMode, EncCount, ScanButton, ButtonRegim, AjustHeat

LEMMA InitMode == Init => ModeInv
  <1> SUFFICES ASSUME Init
               PROVE  ModeFirm
    BY InitIdle DEF ModeInv, IdleInv
  <1> QED BY DEF Init, RamAtStart, ModeFirm, Settled

(* In the positions Off, Set and Light no relay is on once the mode has    *)
(* been set, and the mode in force is never one of them with a relay on    *)
(* (FryMode.cpp:49-105), even if the knob cannot be read                   *)
(* (Control.cpp:42-44).                                                    *)
THEOREM NoHeatInColdModesHolds == Spec => []NoHeatInColdModes
  <1>1. ModeInv /\ [Next]_vars => ModeInv'
    BY TypeStep, CallsStep, ModeStep DEF ModeInv
  <1>2. ModeInv => NoHeatInColdModes
    BY DEF ModeInv, ModeFirm, Settled, NoHeatInColdModes
  <1> QED BY InitMode, <1>1, <1>2, PTL DEF Spec
-----------------------------------------------------------------------------
(* The encoder dials one thing at a time.                                  *)

(* The counter of the encoder holds minutes: state 1 has run since state 0 *)
(* was entered.                                                            *)
Dialled == flagOneButton /\ ~firstCall

(* While it does, buttonRegim is 1, and the guard of encCount holds, until *)
(* executeButtonRegim has run state 2 in the pass that saw the press.      *)
(* Mode Pre, which passes state 1 over, never gets there, and neither does *)
(* state 0, since nothing asks for it between a press and its end.         *)
DialFirm ==
    /\ pc = "scanStore" => tmp = buttonRegim
    /\ pc = "oneStop" => firstCall
    /\ pc \in {"two", "twoTime"} \/ encRet = "twoTime" => buttonRegim = 1
    /\ pc = "twoTime" \/ encRet = "twoTime" => modeCookOld # pre
    /\ Dialled => /\ modeCookOld # pre
                  /\ pc \notin {"encTest", "encReset", "one", "oneStop"}
                  /\ \/ buttonRegim = 1
                     \/ buttonRegim = 2 /\ pc \in {"exec", "three", "threeFlag"}

DialInv == IdleInv /\ ModeFirm /\ DialFirm

LEMMA DialStep ==
  ASSUME \A t \in OvenTemps : t < tempMax, DialInv, [Next]_vars
  PROVE  DialFirm'
  <1> USE DEF DialInv, IdleInv, TypeOK, CallsOK, EncLabel, HeatLabel, DialFirm,
          Dialled, Go, Pass, vars, data, ctl, knob, flags, button
  <1>1. CASE BackInfo
    BY <1>1 DEF BackInfo, IdleFirm
  <1>2. CASE ColdStart
    BY <1>2 DEF ColdStart
  <1>3. CASE ReadAdc
    BY <1>3 DEF ReadAdc
  <1>4. CASE SameMode
    BY <1>4 DEF SameMode
  <1>5. CASE NewMode
    <2>1. CASE mode \in {off, set}
      <3>1. UNCHANGED <<button, ctl>> /\ modeCookOld' = mode
        BY <1>5, <2>1 DEF NewMode
      <3>2. mode # pre /\ pc = "modeSet" /\ pc' = "store"
        BY <1>5, <2>1 DEF NewMode, off, set, pre
      <3> QED BY <3>1, <3>2
    <2>2. CASE mode \notin {off, set}
      <3>1. PICK t \in {FirstTemp, FirstTempDry} : FirstRegim(t)
        BY <1>5, <2>2 DEF NewMode
      <3>2. flagOneButton' = FALSE
        BY <3>1 DEF FirstRegim
      <3>3. pc = "modeSet" /\ pc' = "store" /\ UNCHANGED ctl
        BY <1>5 DEF NewMode
      <3> QED BY <3>2, <3>3
    <2> QED BY <2>1, <2>2
  <1>6. CASE StoreMode
    BY <1>6 DEF StoreMode
  <1>7. CASE EncSkip
    <2>1. encRet \in {"scan", "twoTime", "diff"}
      BY <1>7 DEF EncSkip, EncReturn
    <2> QED BY <1>7, <2>1 DEF EncSkip, EncReturn
  <1>8. CASE EncLoad
    BY <1>8 DEF EncLoad, DialsTemperature
  <1>9. CASE EncSame
    <2>1. encRet \in {"scan", "twoTime", "diff"}
      BY <1>9 DEF EncSame, EncReturn
    <2> QED BY <1>9, <2>1 DEF EncSame, EncReturn
  <1>10. CASE EncStore
    BY <1>10 DEF EncStore
  <1>11. CASE EncReset
    <2>1. encRet \in {"scan", "twoTime", "diff"}
      BY <1>11 DEF EncReset, EncReturn
    <2> QED BY <1>11, <2>1 DEF EncReset, EncReturn
  <1>12. CASE ScanOff
    BY <1>12 DEF ScanOff
  <1>13. CASE ScanIdle
    BY <1>13 DEF ScanIdle
  <1>14. CASE ScanPress
    BY <1>14 DEF ScanPress
  <1>15. CASE ScanStore
    BY <1>15 DEF ScanStore, Counted
  <1>16. CASE Exec
    BY <1>16 DEF Exec
  <1>17. CASE OneAgain
    BY <1>17 DEF OneAgain
  <1>18. CASE OneZero
    BY <1>18 DEF OneZero
  <1>19. CASE OneStop
    BY <1>19 DEF OneStop
  <1>20. CASE TwoPre
    <2>1. modeCookOld = pre
      BY <1>20 DEF TwoPre, ModeFirm, Settled
    <2> QED BY <1>20, <2>1 DEF TwoPre
  <1>21. CASE TwoDial
    <2>1. modeCookOld # pre
      BY <1>21 DEF TwoDial, ModeFirm, Settled
    <2> QED BY <1>21, <2>1 DEF TwoDial
  <1>22. CASE TwoTime
    BY <1>22 DEF TwoTime
  <1>23. CASE ThreeTemp
    BY <1>23 DEF ThreeTemp
  <1>24. CASE ThreeFlag
    BY <1>24 DEF ThreeFlag
  <1>25. CASE Diff
    BY <1>25 DEF Diff
  <1>26. CASE ProtectDoor
    BY <1>26 DEF ProtectDoor
  <1>27. CASE ProtectDoorShut
    BY <1>27 DEF ProtectDoorShut
  <1>28. CASE ProtectOverheat
    BY <1>28 DEF ProtectOverheat
  <1>29. CASE ProtectNone
    BY <1>29 DEF ProtectNone
  <1>30. CASE ProtectStop
    BY <1>30 DEF ProtectStop, IdleFirm
  <1>31. CASE TransmitToTENs
    BY <1>31 DEF TransmitToTENs
  <1>32. CASE IncrementCookTime
    BY <1>32 DEF IncrementCookTime
  <1>33. CASE DecrementCookTime
    BY <1>33 DEF DecrementCookTime
  <1>34. CASE TimeOver
    <2>1. heatRet \in {"readAdc", "cooler"} /\ ~flagOneButton
      BY <1>34 DEF TimeOver, HeatReturn, IdleFirm
    <2> QED BY <1>34, <2>1 DEF TimeOver, HeatReturn
  <1>35. CASE TimeLow
    <2>1. heatRet \in {"readAdc", "cooler"}
      BY <1>35 DEF TimeLow, HeatReturn
    <2> QED BY <1>35, <2>1 DEF TimeLow, HeatReturn
  <1>36. CASE SetOutCooler
    BY <1>36 DEF SetOutCooler
  <1>37. CASE HandleTIM4
    BY <1>37 DEF HandleTIM4
  <1>38. CASE HandleTIM6
    BY <1>38 DEF HandleTIM6, TooHot
  <1>39. CASE BakeTemper
    BY <1>39 DEF BakeTemper
  <1>40. CASE HandleTIM2
    BY <1>40 DEF HandleTIM2
  <1>41. CASE PowerLoss
    BY <1>41 DEF PowerLoss
  <1>42. CASE UNCHANGED vars
    BY <1>42
  <1> QED BY <1>1, <1>2, <1>3, <1>4, <1>5, <1>6, <1>7, <1>8, <1>9, <1>10, <1>11, <1>12, <1>13, <1>14, <1>15, <1>16, <1>17, <1>18, <1>19, <1>20, <1>21, <1>22, <1>23, <1>24, <1>25, <1>26, <1>27, <1>28, <1>29, <1>30, <1>31, <1>32, <1>33, <1>34, <1>35, <1>36, <1>37, <1>38, <1>39, <1>40, <1>41, <1>42
    DEF Next, Main, Boot, SetMode, EncCount, ScanButton, ButtonRegim, AjustHeat

(* As long as the oven stays below the temperature at which TIM6 ends      *)
(* cooking, the minutes being dialled are never read as a temperature      *)
(* (Button.cpp:83-93, 118-123, 188), power failures included.  Without     *)
(* this assumption it is false: TIM6 requests state 0 in the middle.       *)
THEOREM MinutesAreNoTemperatureHolds ==
  ASSUME \A t \in OvenTemps : t < tempMax
  PROVE  Spec => []MinutesAreNoTemperature
  <1>1. Init => DialInv
    <2>1. Init => DialFirm
      BY DEF Init, RamAtStart, DialFirm, Dialled
    <2> QED BY <2>1, InitIdle, InitMode DEF DialInv, ModeInv
  <1>2. DialInv /\ [Next]_vars => DialInv'
    BY TypeStep, CallsStep, IdleStep, ModeStep, DialStep
    DEF DialInv, IdleInv, ModeInv
  <1>3. DialInv => MinutesAreNoTemperature
    BY DEF DialInv, DialFirm, Dialled, MinutesAreNoTemperature
  <1> QED BY <1>1, <1>2, <1>3, PTL DEF Spec
-----------------------------------------------------------------------------
(* Heat is timed.                                                          *)

(* The clock is stopped only where state 2 cannot go on: in mode Pre, in   *)
(* the cold modes, and on entry of state 0, which makes the first pass of  *)
(* state 2 due again.  It stays due until that pass has run: no step of    *)
(* state 1 takes it away, and a press that turns 1 into 2 has seen it due. *)
(* A press in state 2 that an interrupt has reset meanwhile restores it.   *)
TimedFirm ==
    /\ buttonRegim = 2 \/ (pc = "scanStore" /\ tmp = 2)
          => (pass3Button /\ modeCookOld \notin Cold \cup {pre} => tim4)
    /\ pc \in {"boot", "oneStop"} => ~pass3Button
    /\ buttonRegim = 1 /\ pc \notin {"exec", "two"} => ~pass3Button
    /\ pc = "scanStore" /\ tmp = 1 => ~pass3Button
    /\ pc = "three" => buttonRegim # 1

TimedInv == ModeInv /\ TimedFirm

LEMMA TimedStep ==
  ASSUME TimedInv, [Next]_vars
  PROVE  TimedFirm'
  <1> USE DEF TimedInv, ModeInv, CallsOK, EncLabel, HeatLabel, ModeFirm, Settled,
          TimedFirm, Go, Pass, vars, data, ctl, knob, flags, button, encoder,
          dial, counters, clock, plant, store
  <1>1. CASE BackInfo
    BY <1>1 DEF BackInfo
  <1>2. CASE ColdStart
    BY <1>2 DEF ColdStart
  <1>3. CASE ReadAdc
    BY <1>3 DEF ReadAdc
  <1>4. CASE SameMode
    BY <1>4 DEF SameMode
  <1>5. CASE NewMode
    BY <1>5 DEF NewMode, FirstRegim, Regim1Button, AllOff, Cold, off, set, light, pre, dry
  <1>6. CASE StoreMode
    BY <1>6 DEF StoreMode
  <1>7. CASE EncSkip
    <2>1. encRet \in {"scan", "twoTime", "diff"}
      BY <1>7 DEF EncSkip, EncReturn, TypeOK
    <2> QED BY <1>7, <2>1 DEF EncSkip, EncReturn
  <1>8. CASE EncLoad
    BY <1>8 DEF EncLoad
  <1>9. CASE EncSame
    <2>1. encRet \in {"scan", "twoTime", "diff"}
      BY <1>9 DEF EncSame, EncReturn, TypeOK
    <2> QED BY <1>9, <2>1 DEF EncSame, EncReturn
  <1>10. CASE EncStore
    BY <1>10 DEF EncStore
  <1>11. CASE EncReset
    <2>1. encRet \in {"scan", "twoTime", "diff"}
      BY <1>11 DEF EncReset, EncReturn, TypeOK
    <2> QED BY <1>11, <2>1 DEF EncReset, EncReturn
  <1>12. CASE ScanOff
    BY <1>12 DEF ScanOff
  <1>13. CASE ScanIdle
    BY <1>13 DEF ScanIdle
  <1>14. CASE ScanPress
    BY <1>14 DEF ScanPress
  <1>15. CASE ScanStore
    BY <1>15 DEF ScanStore, Counted, TypeOK
  <1>16. CASE Exec
    BY <1>16 DEF Exec
  <1>17. CASE OneAgain
    BY <1>17 DEF OneAgain
  <1>18. CASE OneZero
    BY <1>18 DEF OneZero, AllOff, Cold, off, set, light, pre
  <1>19. CASE OneStop
    BY <1>19 DEF OneStop
  <1>20. CASE TwoPre
    BY <1>20 DEF TwoPre, AllOff, Cold, off, set, light, pre
  <1>21. CASE TwoDial
    BY <1>21 DEF TwoDial, AllOff, Cold, off, set, light, pre
  <1>22. CASE TwoTime
    BY <1>22 DEF TwoTime
  <1>23. CASE ThreeTemp
    BY <1>23 DEF ThreeTemp, AllOff, Cold, off, set, light, pre
  <1>24. CASE ThreeFlag
    BY <1>24 DEF ThreeFlag, AllOff, Cold, off, set, light, pre
  <1>25. CASE Diff
    BY <1>25 DEF Diff
  <1>26. CASE ProtectDoor
    BY <1>26 DEF ProtectDoor
  <1>27. CASE ProtectDoorShut
    BY <1>27 DEF ProtectDoorShut
  <1>28. CASE ProtectOverheat
    BY <1>28 DEF ProtectOverheat
  <1>29. CASE ProtectNone
    BY <1>29 DEF ProtectNone
  <1>30. CASE ProtectStop
    BY <1>30 DEF ProtectStop, Regim1Button
  <1>31. CASE TransmitToTENs
    BY <1>31 DEF TransmitToTENs
  <1>32. CASE IncrementCookTime
    BY <1>32 DEF IncrementCookTime
  <1>33. CASE DecrementCookTime
    BY <1>33 DEF DecrementCookTime
  <1>34. CASE TimeOver
    <2>1. heatRet \in {"readAdc", "cooler"}
      BY <1>34 DEF TimeOver, HeatReturn, TypeOK
    <2> QED BY <1>34, <2>1 DEF TimeOver, HeatReturn, Regim1Button
  <1>35. CASE TimeLow
    <2>1. heatRet \in {"readAdc", "cooler"}
      BY <1>35 DEF TimeLow, HeatReturn, TypeOK
    <2> QED BY <1>35, <2>1 DEF TimeLow, HeatReturn, Regim1Button
  <1>36. CASE SetOutCooler
    BY <1>36 DEF SetOutCooler
  <1>37. CASE HandleTIM4
    BY <1>37 DEF HandleTIM4
  <1>38. CASE HandleTIM6
    BY <1>38 DEF HandleTIM6, Regim1Button
  <1>39. CASE BakeTemper
    BY <1>39 DEF BakeTemper
  <1>40. CASE HandleTIM2
    BY <1>40 DEF HandleTIM2
  <1>41. CASE PowerLoss
    BY <1>41 DEF PowerLoss
  <1>42. CASE UNCHANGED vars
    BY <1>42
  <1> QED BY <1>1, <1>2, <1>3, <1>4, <1>5, <1>6, <1>7, <1>8, <1>9, <1>10,
             <1>11, <1>12, <1>13, <1>14, <1>15, <1>16, <1>17, <1>18, <1>19,
             <1>20, <1>21, <1>22, <1>23, <1>24, <1>25, <1>26, <1>27, <1>28,
             <1>29, <1>30, <1>31, <1>32, <1>33, <1>34, <1>35, <1>36, <1>37,
             <1>38, <1>39, <1>40, <1>41, <1>42
    DEF Next, Main, Boot, SetMode, EncCount, ScanButton, ButtonRegim, AjustHeat

LEMMA InitTimed == Init => TimedInv
  <1> SUFFICES ASSUME Init
               PROVE  TimedFirm
    BY InitMode DEF TimedInv
  <1> QED BY DEF Init, RamAtStart, TimedFirm

(* Heaters that state 2 keeps on after its first pass are on the cooking   *)
(* clock, except in mode Pre: no order of presses, turns of the knob,      *)
(* interrupts and power failures gets past the pass that starts it         *)
(* (Button.cpp:76-134, FryMode.cpp:49-89).                                 *)
THEOREM HeatIsTimedHolds == Spec => []HeatIsTimed
  <1>1. TimedInv /\ [Next]_vars => TimedInv'
    BY TypeStep, CallsStep, ModeStep, TimedStep DEF TimedInv, ModeInv
  <1>2. TimedInv => HeatIsTimed
    <2> SUFFICES ASSUME TimedInv, buttonRegim = 2, pass3Button, HeatersOn,
                        modeCookOld # pre
                 PROVE  tim4
      BY DEF HeatIsTimed
    <2>1. modeCookOld \notin Cold
      BY DEF TimedInv, ModeInv, ModeFirm, HeatersOn
    <2> QED BY <2>1 DEF TimedInv, TimedFirm
  <1> QED BY InitTimed, <1>1, <1>2, PTL DEF Spec
-----------------------------------------------------------------------------
(* Heat is commanded.                                                      *)

(* While the supply does not fail, state 2 of the button is entered by the *)
(* user, or in a cold position of the knob, where nothing is sent; and it  *)
(* is left whenever the mode changes to a heating one.                     *)
CommandFirm ==
    /\ out # {} => commanded
    /\ send # {} => commanded
    /\ heatRet # "none" => commanded \/ heatMode \in Cold
    /\ buttonRegim = 2 => commanded \/ modeCookOld \in Cold
    /\ pc \in {"three", "threeFlag"} => commanded \/ modeCookOld \in Cold
    /\ pc = "one" => buttonRegim = 0
    /\ pc = "boot" => fram[Mode] = off

CommandInv == ModeInv /\ CommandFirm

LEMMA CommandStep ==
  ASSUME ~PowerMayFail, CommandInv, [Next]_vars
  PROVE  CommandFirm'
  <1> USE DEF CommandInv, ModeInv, CallsOK, EncLabel, HeatLabel, CommandFirm, Go, Pass,
          vars, data, ctl, knob, flags, button, encoder, dial, counters, clock,
          plant, store
  <1>1. CASE BackInfo
    BY <1>1 DEF BackInfo, Cold
  <1>2. CASE ColdStart
    BY <1>2 DEF ColdStart
  <1>3. CASE ReadAdc
    BY <1>3 DEF ReadAdc
  <1>4. CASE SameMode
    BY <1>4 DEF SameMode
  <1>5. CASE NewMode
    <2>1. CASE mode \in Cold
      <3>1. pc = "modeSet" /\ pc' = "store" /\ modeCookOld' \in Cold
        BY <1>5, <2>1 DEF NewMode
      <3>2. out' = {}
        BY <1>5, <2>1 DEF NewMode, AllOff
      <3>3. heatRet = "none" /\ send = {} /\ UNCHANGED <<heatRet, send>>
        BY <1>5, <3>1 DEF NewMode, ModeFirm
      <3> QED BY <3>1, <3>2, <3>3
    <2>2. CASE mode \notin Cold
      <3>1. buttonRegim' = 0
        BY <1>5, <2>2 DEF NewMode, FirstRegim, Regim1Button, Cold
      <3>2. UNCHANGED <<out, commanded>>
        BY <1>5, <2>2 DEF NewMode
      <3> QED BY <1>5, <3>1, <3>2 DEF NewMode
    <2> QED BY <2>1, <2>2
  <1>6. CASE StoreMode
    BY <1>6 DEF StoreMode
  <1>7. CASE EncSkip
    <2>1. encRet \in {"scan", "twoTime", "diff"}
      BY <1>7 DEF EncSkip, EncReturn, TypeOK
    <2> QED BY <1>7, <2>1 DEF EncSkip, EncReturn
  <1>8. CASE EncLoad
    BY <1>8 DEF EncLoad
  <1>9. CASE EncSame
    <2>1. encRet \in {"scan", "twoTime", "diff"}
      BY <1>9 DEF EncSame, EncReturn, TypeOK
    <2> QED BY <1>9, <2>1 DEF EncSame, EncReturn
  <1>10. CASE EncStore
    BY <1>10 DEF EncStore
  <1>11. CASE EncReset
    <2>1. encRet \in {"scan", "twoTime", "diff"}
      BY <1>11 DEF EncReset, EncReturn, TypeOK
    <2> QED BY <1>11, <2>1 DEF EncReset, EncReturn
  <1>12. CASE ScanOff
    BY <1>12 DEF ScanOff
  <1>13. CASE ScanIdle
    BY <1>13 DEF ScanIdle
  <1>14. CASE ScanPress
    BY <1>14 DEF ScanPress
  <1>15. CASE ScanStore
    BY <1>15 DEF ScanStore
  <1>16. CASE Exec
    BY <1>16 DEF Exec
  <1>17. CASE OneAgain
    BY <1>17 DEF OneAgain
  <1>18. CASE OneZero
    <2>1. out' = {} /\ send' = {} /\ pc' = "oneStop"
      BY <1>18 DEF OneZero, AllOff, ModeFirm
    <2>2. buttonRegim' = 2 => modeCookOld' \in Cold
      BY <1>18 DEF OneZero, ModeFirm, Settled, Cold
    <2>3. heatRet' = "none"
      BY <1>18 DEF OneZero
    <2> QED BY <2>1, <2>2, <2>3
  <1>19. CASE OneStop
    BY <1>19 DEF OneStop
  <1>20. CASE TwoPre
    BY <1>20 DEF TwoPre
  <1>21. CASE TwoDial
    BY <1>21 DEF TwoDial
  <1>22. CASE TwoTime
    BY <1>22 DEF TwoTime
  <1>23. CASE ThreeTemp
    BY <1>23 DEF ThreeTemp
  <1>24. CASE ThreeFlag
    BY <1>24 DEF ThreeFlag, ModeFirm, Settled
  <1>25. CASE Diff
    <2>1. heatMode \in Cold => send' = {}
      BY <1>25 DEF Diff, modeTable, Cold, off, set, light, TypeOK
    <2> QED BY <1>25, <2>1 DEF Diff
  <1>26. CASE ProtectDoor
    BY <1>26 DEF ProtectDoor
  <1>27. CASE ProtectDoorShut
    BY <1>27 DEF ProtectDoorShut
  <1>28. CASE ProtectOverheat
    BY <1>28 DEF ProtectOverheat
  <1>29. CASE ProtectNone
    BY <1>29 DEF ProtectNone
  <1>30. CASE ProtectStop
    BY <1>30 DEF ProtectStop, Regim1Button
  <1>31. CASE TransmitToTENs
    BY <1>31 DEF TransmitToTENs
  <1>32. CASE IncrementCookTime
    BY <1>32 DEF IncrementCookTime
  <1>33. CASE DecrementCookTime
    BY <1>33 DEF DecrementCookTime
  <1>34. CASE TimeOver
    <2>1. heatRet \in {"readAdc", "cooler"}
      BY <1>34 DEF TimeOver, HeatReturn, TypeOK
    <2> QED BY <1>34, <2>1 DEF TimeOver, HeatReturn, Regim1Button
  <1>35. CASE TimeLow
    <2>1. heatRet \in {"readAdc", "cooler"}
      BY <1>35 DEF TimeLow, HeatReturn, TypeOK
    <2> QED BY <1>35, <2>1 DEF TimeLow, HeatReturn
  <1>36. CASE SetOutCooler
    BY <1>36 DEF SetOutCooler
  <1>37. CASE HandleTIM4
    BY <1>37 DEF HandleTIM4
  <1>38. CASE HandleTIM6
    BY <1>38 DEF HandleTIM6, Regim1Button
  <1>39. CASE BakeTemper
    BY <1>39 DEF BakeTemper
  <1>40. CASE HandleTIM2
    BY <1>40 DEF HandleTIM2
  <1>41. CASE PowerLoss
    BY <1>41 DEF PowerLoss
  <1>42. CASE UNCHANGED vars
    BY <1>42
  <1> QED BY <1>1, <1>2, <1>3, <1>4, <1>5, <1>6, <1>7, <1>8, <1>9, <1>10, <1>11, <1>12, <1>13, <1>14, <1>15, <1>16, <1>17, <1>18, <1>19, <1>20, <1>21, <1>22, <1>23, <1>24, <1>25, <1>26, <1>27, <1>28, <1>29, <1>30, <1>31, <1>32, <1>33, <1>34, <1>35, <1>36, <1>37, <1>38, <1>39, <1>40, <1>41, <1>42
    DEF Next, Main, Boot, SetMode, EncCount, ScanButton, ButtonRegim, AjustHeat

LEMMA InitCommand == Init => CommandInv
  <1> SUFFICES ASSUME Init
               PROVE  CommandFirm
    BY InitMode DEF CommandInv
  <1> QED BY DEF Init, RamAtStart, CommandFirm, Reg, Mode, off, Cold

LEMMA CommandNext ==
  ASSUME ~PowerMayFail
  PROVE  CommandInv /\ [Next]_vars => CommandInv'
  BY TypeStep, CallsStep, ModeStep, CommandStep DEF CommandInv, ModeInv

(* Without power failures, heaters are on only if the user pressed the     *)
(* button through to cooking and cooking has not been ended since          *)
(* (Button.cpp:16-37, 98-134).  With power failures this is false:         *)
(* main.cpp:149 takes up cooking that was not going on.                    *)
THEOREM HeatIsCommandedHolds ==
  ASSUME ~PowerMayFail
  PROVE  Spec => []HeatIsCommanded
  <1>1. CommandInv => HeatIsCommanded
    BY DEF CommandInv, CommandFirm, HeatIsCommanded, HeatersOn
  <1> QED BY <1>1, InitCommand, CommandNext, PTL DEF Spec
-----------------------------------------------------------------------------
(* The heating contract.                                                   *)

(* The steps that neither switch relays nor give or end the permission. *)
LEMMA QuietStep ==
  ASSUME \/ Boot \/ ReadAdc \/ SameMode \/ StoreMode \/ EncCount
         \/ ScanOff \/ ScanIdle \/ ScanPress \/ Exec \/ OneAgain \/ OneStop
         \/ TwoDial \/ TwoTime \/ ThreeTemp \/ ThreeFlag \/ Diff
         \/ ProtectDoor \/ ProtectDoorShut \/ ProtectOverheat \/ ProtectNone
         \/ ProtectStop \/ IncrementCookTime \/ DecrementCookTime \/ TimeOver
         \/ TimeLow \/ SetOutCooler \/ HandleTIM4 \/ HandleTIM6 \/ BakeTemper
         \/ HandleTIM2 \/ UNCHANGED vars
  PROVE  UNCHANGED <<out, commanded>>
  <1> USE DEF Go, Pass, vars, data, plant
  <1>1. CASE Boot
    BY <1>1 DEF Boot, BackInfo, ColdStart
  <1>2. CASE ReadAdc \/ SameMode \/ StoreMode
    BY <1>2 DEF ReadAdc, SameMode, StoreMode
  <1>3. CASE EncCount
    BY <1>3 DEF EncCount, EncSkip, EncLoad, EncSame, EncStore, EncReset
  <1>4. CASE ScanOff \/ ScanIdle \/ ScanPress \/ Exec \/ OneAgain \/ OneStop
    BY <1>4 DEF ScanOff, ScanIdle, ScanPress, Exec, OneAgain, OneStop
  <1>5. CASE TwoDial \/ TwoTime \/ ThreeTemp \/ ThreeFlag \/ Diff
    BY <1>5 DEF TwoDial, TwoTime, ThreeTemp, ThreeFlag, Diff
  <1>6. CASE \/ ProtectDoor \/ ProtectDoorShut \/ ProtectOverheat
             \/ ProtectNone \/ ProtectStop
    BY <1>6 DEF ProtectDoor, ProtectDoorShut, ProtectOverheat, ProtectNone,
                ProtectStop
  <1>7. CASE IncrementCookTime \/ DecrementCookTime \/ TimeOver \/ TimeLow
    BY <1>7 DEF IncrementCookTime, DecrementCookTime, TimeOver, TimeLow
  <1>8. CASE SetOutCooler \/ HandleTIM4 \/ HandleTIM6
    BY <1>8 DEF SetOutCooler, HandleTIM4, HandleTIM6
  <1>9. CASE BakeTemper \/ HandleTIM2 \/ UNCHANGED vars
    BY <1>9 DEF BakeTemper, HandleTIM2
  <1> QED BY <1>1, <1>2, <1>3, <1>4, <1>5, <1>6, <1>7, <1>8, <1>9

(* The program implements the contract while the supply does not fail:     *)
(* relays switch only while cooking is commanded (Heat.cpp:24-27), and     *)
(* whatever ends it clears them (Button.cpp:162, FryMode.cpp:53, 71, 86).  *)
THEOREM ContractHolds ==
  ASSUME ~PowerMayFail
  PROVE  Spec => HeatingContract
  <1>1. Init => Stove!Init
    BY DEF Init, Stove!Init
  <1>2. CommandInv /\ [Next]_vars => [Stove!Next]_(Stove!vars)
    <2> SUFFICES ASSUME CommandInv, [Next]_vars
                 PROVE  Stove!Next \/ UNCHANGED <<out, commanded>>
      BY DEF Stove!vars
    <2>1. CASE NewMode
      BY <2>1 DEF NewMode, AllOff, Stove!Next, Stove!End
    <2>2. CASE ScanStore
      BY <2>2 DEF ScanStore, plant, CommandInv, ModeInv, TypeOK, Stove!Next, Stove!Permit
    <2>3. CASE OneZero
      BY <2>3 DEF OneZero, AllOff, Stove!Next, Stove!End
    <2>4. CASE TwoPre
      BY <2>4 DEF TwoPre, plant, Stove!Next, Stove!Permit
    <2>5. CASE TransmitToTENs
      <3>1. out' = send /\ send \subseteq Relay /\ UNCHANGED commanded
        BY <2>5 DEF TransmitToTENs, CommandInv, ModeInv, TypeOK
      <3>2. CASE commanded
        BY <3>1, <3>2 DEF Stove!Next, Stove!Adjust
      <3>3. CASE ~commanded
        BY <3>1, <3>3 DEF CommandInv, CommandFirm
      <3> QED BY <3>2, <3>3
    <2>6. ~PowerLoss
      BY DEF PowerLoss
    <2> QED BY <2>1, <2>2, <2>3, <2>4, <2>5, <2>6, QuietStep
      DEF Next, Main, SetMode, ScanButton, ButtonRegim, AjustHeat
  <1> QED BY <1>1, <1>2, InitCommand, CommandNext, PTL
    DEF Spec, HeatingContract, Stove!Spec
=============================================================================
