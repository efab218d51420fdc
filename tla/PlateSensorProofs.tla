--------------------------- MODULE PlateSensorProofs ---------------------------
(***************************************************************************)
(* The order of the 1-Wire commands, for all temperatures and whatever     *)
(* happens to the wire.                                                    *)
(***************************************************************************)
EXTENDS PlateSensor, TLAPS

Rom == {"ReadRom", "SkipRom"}
Function == {"ConvertT", "ReadScratchpad", "WriteScratchpad"}

(* What comes after a call in Sensor_init and in plateTemp. *)
Follows(call, next) ==
    /\ next \in Rom <=> call = "Reset"
    /\ next \in Function <=> call \in Rom

InOrder == /\ script \in Seq(Calls)
           /\ \A k \in 1 .. Len(script) - 1 : Follows(script[k], script[k + 1])

(* Since the reset the sensor expects what comes next. *)
Tuned == script # <<>> /\ calm /\ wire = "sensor" /\ isConnected
            => /\ Head(script) \in Rom => expects = "rom"
               /\ Head(script) \in Function => expects = "function"

IInv == InOrder /\ Tuned

LEMMA CallInOrder ==
  ASSUME InOrder, NEW name, Call(name)
  PROVE  /\ InOrder'
         /\ script' # <<>> => Follows(name, Head(script'))
  <1>1. script' = Tail(script) /\ script # <<>> /\ script[1] = name
    BY DEF Call, InOrder
  <1>2. script' \in Seq(Calls) /\ Len(script') = Len(script) - 1
    BY <1>1 DEF InOrder
  <1>3. \A k \in 1 .. Len(script') : script'[k] = script[k + 1]
    BY <1>1 DEF InOrder
  <1>4. \A k \in 1 .. Len(script') - 1 : Follows(script'[k], script'[k + 1])
    <2> SUFFICES ASSUME NEW k \in 1 .. Len(script') - 1
                 PROVE  Follows(script'[k], script'[k + 1])
      OBVIOUS
    <2>1. Len(script') \in Nat
      BY <1>2
    <2>2. k \in 1 .. Len(script') /\ k + 1 \in 1 .. Len(script')
      BY <2>1
    <2>3. script'[k] = script[k + 1] /\ script'[k + 1] = script[(k + 1) + 1]
      BY <1>3, <2>2
    <2>4. k + 1 \in 1 .. Len(script) - 1
      BY <1>2, <2>2
    <2> QED BY <2>3, <2>4 DEF InOrder
  <1>5. ASSUME script' # <<>>
        PROVE  Follows(name, Head(script'))
    <2>1. Len(script') \in Nat /\ Len(script') # 0
      BY <1>2, <1>5
    <2>2. 1 \in 1 .. Len(script') /\ 1 \in 1 .. Len(script) - 1
      BY <1>2, <2>1 DEF InOrder
    <2>3. Head(script') = script'[1]
      BY <1>2, <1>5
    <2>4. Head(script') = script[2]
      BY <1>3, <2>2, <2>3
    <2>5. Follows(script[1], script[2])
      BY <2>2 DEF InOrder
    <2> QED BY <1>1, <2>4, <2>5
  <1> QED BY <1>2, <1>4, <1>5 DEF InOrder

LEMMA ScriptsInOrder ==
  /\ SensorInit \in Seq(Calls) /\ Head(SensorInit) = "Reset"
  /\ \A k \in 1 .. Len(SensorInit) - 1 : Follows(SensorInit[k], SensorInit[k + 1])
  /\ PlateTemp \in Seq(Calls) /\ Head(PlateTemp) = "Reset"
  /\ \A k \in 1 .. Len(PlateTemp) - 1 : Follows(PlateTemp[k], PlateTemp[k + 1])
  <1> USE DEF Follows, Rom, Function
  <1>1. SensorInit \in Seq(Calls) /\ Head(SensorInit) = "Reset" /\ Len(SensorInit) = 6
    <2>1. SensorInit \in Seq(Calls)
      BY DEF SensorInit, Calls
    <2>2. Len(SensorInit) = 6
      BY DEF SensorInit
    <2>3. Head(SensorInit) = SensorInit[1] /\ SensorInit[1] = "Reset"
      BY <2>1, <2>2 DEF SensorInit
    <2> QED BY <2>1, <2>2, <2>3
  <1>2. ASSUME NEW k \in 1 .. 5
        PROVE  Follows(SensorInit[k], SensorInit[k + 1])
    <2>1. k = 1 \/ k = 2 \/ k = 3 \/ k = 4 \/ k = 5
      OBVIOUS
    <2> QED BY <2>1 DEF SensorInit
  <1>3. PlateTemp \in Seq(Calls) /\ Head(PlateTemp) = "Reset" /\ Len(PlateTemp) = 8
    <2>1. PlateTemp \in Seq(Calls)
      BY DEF PlateTemp, Calls
    <2>2. Len(PlateTemp) = 8
      BY DEF PlateTemp
    <2>3. Head(PlateTemp) = PlateTemp[1] /\ PlateTemp[1] = "Reset"
      BY <2>1, <2>2 DEF PlateTemp
    <2> QED BY <2>1, <2>2, <2>3
  <1>4. ASSUME NEW k \in 1 .. 7
        PROVE  Follows(PlateTemp[k], PlateTemp[k + 1])
    <2>1. k = 1 \/ k = 2 \/ k = 3 \/ k = 4 \/ k = 5 \/ k = 6 \/ k = 7
      OBVIOUS
    <2> QED BY <2>1 DEF PlateTemp
  <1> QED BY <1>1, <1>2, <1>3, <1>4

LEMMA InitTuned == Init => IInv
  BY ScriptsInOrder DEF Init, IInv, InOrder, Tuned

LEMMA StepTuned ==
  ASSUME IInv, [Next]_vars
  PROVE  IInv'
  <1> USE DEF IInv, Tuned, Rom, Function, vars, device, driver, pad
  <1>1. CASE Measure
    BY <1>1, ScriptsInOrder DEF Measure, InOrder
  <1>2. CASE Reset
    <2>1. InOrder' /\ (script' # <<>> => Follows("Reset", Head(script')))
      BY <1>2, CallInOrder DEF Reset
    <2> QED BY <1>2, <2>1 DEF Reset, Follows
  <1>3. CASE SelectRom
    <2>1. PICK name \in Rom : Call(name)
      BY <1>3 DEF SelectRom
    <2>2. InOrder' /\ (script' # <<>> => Follows(name, Head(script')))
      BY <2>1, CallInOrder
    <2>3. Head(script) = name
      BY <2>1 DEF Call
    <2> QED BY <1>3, <2>1, <2>2, <2>3 DEF SelectRom, Follows, Hears, Call
  <1>4. CASE ConvertT
    <2>1. InOrder' /\ (script' # <<>> => Follows("ConvertT", Head(script')))
      BY <1>4, CallInOrder DEF ConvertT
    <2> QED BY <1>4, <2>1 DEF ConvertT, Follows
  <1>5. CASE Wait
    <2>1. InOrder' /\ (script' # <<>> => Follows("Wait", Head(script')))
      BY <1>5, CallInOrder DEF Wait
    <2> QED BY <1>5, <2>1 DEF Wait, Follows
  <1>6. CASE ReadScratchpad
    <2>1. InOrder' /\ (script' # <<>> => Follows("ReadScratchpad", Head(script')))
      BY <1>6, CallInOrder DEF ReadScratchpad
    <2> QED BY <1>6, <2>1 DEF ReadScratchpad, Follows
  <1>7. CASE WriteScratchpad
    <2>1. InOrder' /\ (script' # <<>> => Follows("WriteScratchpad", Head(script')))
      BY <1>7, CallInOrder DEF WriteScratchpad
    <2> QED BY <1>7, <2>1 DEF WriteScratchpad, Follows
  <1>8. CASE Show
    <2>1. InOrder' /\ (script' # <<>> => Follows("Show", Head(script')))
      BY <1>8, CallInOrder DEF Show
    <2> QED BY <1>8, <2>1 DEF Show, Follows
  <1>9. CASE Converted
    BY <1>9 DEF Converted, InOrder
  <1>10. CASE WireChanges
    BY <1>10 DEF WireChanges, InOrder
  <1>11. CASE KnobTurned
    BY <1>11 DEF KnobTurned, InOrder
  <1>12. CASE UNCHANGED vars
    BY <1>12 DEF InOrder
  <1> QED BY <1>1, <1>2, <1>3, <1>4, <1>5, <1>6, <1>7, <1>8, <1>9, <1>10,
             <1>11, <1>12 DEF Next, Main

(* A sensor whose wire was left alone since the reset is given each        *)
(* function command when it expects one (tempSensor.cpp:19-28, 33-38),     *)
(* whatever happened to the wire before.                                   *)
THEOREM CommandsInStepHolds == Spec => []CommandsInStep
  <1>1. IInv => CommandsInStep
    BY DEF IInv, Tuned, Function, CommandsInStep
  <1> QED BY <1>1, InitTuned, StepTuned, PTL DEF Spec
-----------------------------------------------------------------------------
LEMMA CallType ==
  ASSUME script \in Seq(Calls), NEW name, Call(name)
  PROVE  script' \in Seq(Calls)
  BY DEF Call

LEMMA TypeStep ==
  ASSUME TypeOK, [Next]_vars
  PROVE  TypeOK'
  <1> USE DEF TypeOK, Celsius, vars, device, driver, pad
  <1>1. CASE Measure
    BY <1>1, ScriptsInOrder DEF Measure
  <1>2. CASE Reset
    BY <1>2, CallType DEF Reset, Present
  <1>3. CASE SelectRom
    <2>1. script' \in Seq(Calls)
      BY <1>3, CallType DEF SelectRom
    <2> QED BY <1>3, <2>1 DEF SelectRom
  <1>4. CASE ConvertT
    BY <1>4, CallType DEF ConvertT
  <1>5. CASE Wait
    BY <1>5, CallType DEF Wait
  <1>6. CASE ReadScratchpad
    BY <1>6, CallType DEF ReadScratchpad
  <1>7. CASE WriteScratchpad
    BY <1>7, CallType DEF WriteScratchpad
  <1>8. CASE Show
    BY <1>8, CallType DEF Show
  <1>9. CASE Converted
    BY <1>9 DEF Converted
  <1>10. CASE WireChanges
    BY <1>10 DEF WireChanges
  <1>11. CASE KnobTurned
    BY <1>11 DEF KnobTurned
  <1>12. CASE UNCHANGED vars
    BY <1>12
  <1> QED BY <1>1, <1>2, <1>3, <1>4, <1>5, <1>6, <1>7, <1>8, <1>9, <1>10,
             <1>11, <1>12 DEF Next, Main

(* The driver only stores temperatures and limits that the sensor had or   *)
(* nine zeros stand for, and the display only their conversion             *)
(* (ds18b20.c, tempSensor.cpp:40-44).                                      *)
THEOREM TypeCorrect == Spec => []TypeOK
  <1>1. Init => TypeOK
    <2> SUFFICES ASSUME Init
                 PROVE  TypeOK
      OBVIOUS
    <2>1. Plate(0) = 0
      BY DEF Plate
    <2>2. shown \in {Plate(t) : t \in Celsius}
      BY <2>1 DEF Init, Celsius
    <2>3. script \in Seq(Calls)
      BY ScriptsInOrder DEF Init
    <2> QED BY <2>2, <2>3 DEF Init, TypeOK, Celsius
  <1> QED BY <1>1, TypeStep, PTL DEF Spec
=============================================================================
