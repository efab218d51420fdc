--------------------------- MODULE ProtectionProofs ---------------------------
(***************************************************************************)
(* The types of the supervision, for every number of heaters and every     *)
(* value of its limits: no timer leaves the range of HAL_GetTick, and no   *)
(* code comes up that handleError does not know.                           *)
(***************************************************************************)
EXTENDS Protection, TLAPS

USE HeaterAssumption, SlipAssumption, LimitAssumption
    DEF HeaterAssumption, SlipAssumption, LimitAssumption

(* While a check runs, now is a tick. *)
LEMMA ChooseType == Choose => dataTransmit' \in Commands
  BY DEF Choose, Commands

LEMMA TickType == TypeOK => (tick + 1) % Word \in Tick /\ 0 \in Tick
  BY DEF TypeOK, Tick

LEMMA PulseType ==
  ASSUME TypeOK, TimePasses
  PROVE  tick' \in Tick /\ lastPulse' \in [Heaters -> Tick]
  <1>1. tick' \in Tick
    BY TickType DEF TimePasses
  <1>2. \A h \in Heaters : (IF h \in Live THEN tick' ELSE lastPulse[h]) \in Tick
    BY <1>1 DEF TypeOK
  <1> QED BY <1>1, <1>2 DEF TimePasses, Pulse

LEMMA RunningType ==
  ASSUME TypeOK, NEW anomaly \in BOOLEAN, NEW t \in Tick
  PROVE  Running(anomaly, t) \in Tick /\ Started(t) \in Tick
  BY TickType DEF TypeOK, Running, Started

(* What the end of a check leaves behind. *)
LEMMA EndPassType ==
  ASSUME TypeOK, EndPass
  PROVE  /\ pc' = "pass"
         /\ {tick', now'} \subseteq Tick
         /\ lastPulse' \in [Heaters -> Tick]
         /\ {cmdOn', dataTransmit', on', welded', broken'} \subseteq SUBSET Heaters
         /\ i' \in Heaters
         /\ races' \in 0 .. MaxRaces
         /\ slips' \subseteq Slips
         /\ since' \in 0 .. 3
         /\ steady' \in BOOLEAN
  <1>1. tick' \in Tick /\ lastPulse' \in [Heaters -> Tick]
    BY PulseType DEF EndPass
  <1>2. 0 \in Tick /\ 1 \in Heaters
    BY TickType DEF Heaters
  <1>3. steady' \in BOOLEAN
    BY DEF EndPass
  <1>4. races' \in 0 .. MaxRaces /\ since' \in 0 .. 3
    BY DEF EndPass, Settle, TypeOK
  <1> QED BY <1>1, <1>2, <1>3, <1>4 DEF EndPass, TypeOK, fault

LEMMA DisturbType ==
  ASSUME TypeOK, Disturb
  PROVE  races' \in 0 .. MaxRaces /\ since' \in 0 .. 3 /\ steady' \in BOOLEAN
  <1>1. steady' = FALSE
    BY DEF Disturb
  <1>2. races' \in 0 .. MaxRaces /\ since' \in 0 .. 3
    BY DEF Disturb, TypeOK
  <1> QED BY <1>1, <1>2

LEMMA HandleErrorType ==
  ASSUME TypeOK, NEW code \in 1 .. 2 * N + 1, HandleError(code)
  PROVE  error' \in 0 .. 2 * N + 1 /\ off' \in BOOLEAN /\ buttonRegim' \in 0 .. 2
  BY DEF TypeOK, HandleError

LEMMA PressedType ==
  ASSUME slips \subseteq Slips, Pressed
  PROVE  slips' \subseteq Slips
  <1>1. CASE buttonRegim = 0 /\ on # {}
    BY <1>1 DEF Pressed
  <1>2. CASE ~(buttonRegim = 0 /\ on # {})
    BY <1>2 DEF Pressed
  <1> QED BY <1>1, <1>2

LEMMA NoErrorType ==
  ASSUME TypeOK, NoError
  PROVE  error' \in 0 .. 2 * N + 1 /\ off' \in BOOLEAN /\ buttonRegim' \in 0 .. 2
  <1>1. buttonRegim' \in 0 .. 2
    BY DEF NoError, TypeOK
  <1>2. CASE tripleTenTimer = 0
    <2>1. error' = 0 /\ off' = TRUE
      BY <1>2 DEF NoError
    <2>2. 0 \in 0 .. 2 * N + 1
      OBVIOUS
    <2> QED BY <1>1, <2>1, <2>2
  <1>3. CASE tripleTenTimer # 0
    <2>1. error' = error /\ off' = off
      BY <1>3 DEF NoError, result
    <2> QED BY <1>1, <2>1 DEF TypeOK
  <1> QED BY <1>2, <1>3

LEMMA TypeStep ==
  ASSUME TypeOK, [Next]_vars
  PROVE  TypeOK'
  <1> USE DEF fault, timers, time, chance, local, loop, result, vars
  <1>1. CASE LoopPass
    <2>1. buttonRegim' \in 0 .. 2 /\ {dataTransmit', on'} \subseteq SUBSET Heaters
      BY <1>1, ChooseType DEF LoopPass, Idle, Dial, Cook, CookMasked, Cold, TypeOK
    <2>2. slips' \subseteq Slips
      <3>1. CASE Idle \/ Cook
        BY <3>1 DEF Idle, Cook, TypeOK
      <3>2. CASE Dial
        BY <3>2, PressedType DEF Dial, TypeOK
      <3>3. CASE CookMasked \/ Cold
        BY <3>3 DEF CookMasked, Cold, TypeOK
      <3> QED BY <1>1, <3>1, <3>2, <3>3 DEF LoopPass
    <2> QED BY <1>1, <2>1, <2>2 DEF LoopPass, TypeOK
  <1>2. CASE TripleError
    <2>1. 2 * N + 1 \in 1 .. 2 * N + 1
      OBVIOUS
    <2>2. tripleTenTimer' \in Tick
      BY <1>2, RunningType DEF TripleError, TypeOK
    <2>3. error' \in 0 .. 2 * N + 1 /\ off' \in BOOLEAN /\ buttonRegim' \in 0 .. 2
      BY <1>2, <2>1, HandleErrorType DEF TripleError
    <2>4. EndPass /\ UNCHANGED <<stuckTimer, openTimer>>
      BY <1>2 DEF TripleError
    <2> QED BY <2>2, <2>3, <2>4, EndPassType DEF TypeOK
  <1>3. CASE TripleNone
    <2>1. tripleTenTimer' \in Tick
      BY <1>3, RunningType, TickType DEF TripleNone, TypeOK
    <2> QED BY <1>3, <2>1 DEF TripleNone, TypeOK
  <1>4. CASE Scan
    <2>1. buttonRegim' \in 0 .. 2 /\ slips' \subseteq Slips
      <3>1. CASE UNCHANGED <<buttonRegim, slips>>
        BY <3>1 DEF TypeOK
      <3>2. CASE buttonRegim < 2 /\ buttonRegim' = buttonRegim + 1 /\ Pressed
        BY <3>2, PressedType DEF TypeOK
      <3> QED BY <1>4, <3>1, <3>2 DEF Scan
    <2>2. cmdOn' \subseteq Heaters /\ 1 \in Heaters
      BY <1>4 DEF Scan, TypeOK, Heaters
    <2> QED BY <1>4, <2>1, <2>2 DEF Scan, TypeOK
  <1>5. CASE StuckError
    <2>1. N + i \in 1 .. 2 * N + 1
      BY DEF TypeOK, Heaters
    <2>2. stuckTimer' \in [Heaters -> Tick]
      BY <1>5, RunningType DEF StuckError, TypeOK
    <2>3. error' \in 0 .. 2 * N + 1 /\ off' \in BOOLEAN /\ buttonRegim' \in 0 .. 2
      BY <1>5, <2>1, HandleErrorType DEF StuckError
    <2>4. EndPass /\ UNCHANGED <<openTimer, tripleTenTimer>>
      BY <1>5 DEF StuckError
    <2> QED BY <2>2, <2>3, <2>4, EndPassType DEF TypeOK
  <1>6. CASE OpenError
    <2>1. i \in 1 .. 2 * N + 1
      BY DEF TypeOK, Heaters
    <2>2. stuckTimer' \in [Heaters -> Tick] /\ openTimer' \in [Heaters -> Tick]
      BY <1>6, RunningType, TickType DEF OpenError, TypeOK
    <2>3. error' \in 0 .. 2 * N + 1 /\ off' \in BOOLEAN /\ buttonRegim' \in 0 .. 2
      BY <1>6, <2>1, HandleErrorType DEF OpenError
    <2>4. EndPass /\ UNCHANGED tripleTenTimer
      BY <1>6 DEF OpenError
    <2> QED BY <2>2, <2>3, <2>4, EndPassType DEF TypeOK
  <1>7. CASE HeaterFine
    <2>1. Stuck \in BOOLEAN /\ Open \in BOOLEAN
      BY DEF Stuck, Open
    <2>2. stuckTimer' \in [Heaters -> Tick] /\ openTimer' \in [Heaters -> Tick]
      BY <1>7, <2>1, RunningType DEF HeaterFine, TypeOK
    <2>3. CASE i < N
      <3>1. i' \in Heaters /\ UNCHANGED <<pc, time, chance, now, cmdOn, loop, fault, result>>
        BY <1>7, <2>3 DEF HeaterFine, TypeOK, Heaters
      <3> QED BY <1>7, <2>2, <3>1 DEF HeaterFine, TypeOK
    <2>4. CASE i = N
      <3>1. NoError /\ EndPass /\ UNCHANGED tripleTenTimer
        BY <1>7, <2>4 DEF HeaterFine
      <3>2. error' \in 0 .. 2 * N + 1 /\ off' \in BOOLEAN /\ buttonRegim' \in 0 .. 2
        BY <3>1, NoErrorType
      <3> QED BY <2>2, <3>1, <3>2, EndPassType DEF TypeOK
    <2> QED BY <1>7, <2>3, <2>4 DEF HeaterFine
  <1>8. CASE Race
    BY <1>8, PulseType, DisturbType DEF Race, TypeOK
  <1>9. CASE HandleTIM6
    BY <1>9, DisturbType DEF HandleTIM6, TypeOK
  <1>10. CASE Fail
    BY <1>10 DEF Fail, TypeOK
  <1>11. CASE UNCHANGED vars
    BY <1>11 DEF TypeOK
  <1> QED BY <1>1, <1>2, <1>3, <1>4, <1>5, <1>6, <1>7, <1>8, <1>9, <1>10,
             <1>11 DEF Next, Check

LEMMA InitType == Init => TypeOK
  <1> SUFFICES ASSUME Init
               PROVE  TypeOK
    OBVIOUS
  <1>1. 0 \in Tick /\ 1 \in Heaters
    BY DEF Tick, Heaters
  <1>2. /\ lastPulse \in [Heaters -> Tick]
        /\ stuckTimer \in [Heaters -> Tick]
        /\ openTimer \in [Heaters -> Tick]
    BY <1>1 DEF Init
  <1>3. {tick, now, tripleTenTimer} \subseteq Tick /\ i \in Heaters
    BY <1>1 DEF Init
  <1>4. {cmdOn, dataTransmit, on, welded, broken} \subseteq SUBSET Heaters
    BY DEF Init
  <1>5. /\ buttonRegim \in 0 .. 2 /\ races \in 0 .. MaxRaces /\ since \in 0 .. 3
        /\ error \in 0 .. 2 * N + 1
    BY DEF Init
  <1>6. pc \in {"pass", "triple", "scan", "check"} /\ slips \subseteq Slips
    BY DEF Init
  <1>7. off \in BOOLEAN /\ steady \in BOOLEAN
    BY DEF Init
  <1> QED BY <1>2, <1>3, <1>4, <1>5, <1>6, <1>7 DEF TypeOK

(* Every timer holds a tick, the loop never runs past the last heater, and *)
(* the error shown is one of the codes (CallBacks.cpp:182-218,             *)
(* Protection.cpp:15-69).                                                  *)
THEOREM TypeCorrect == Spec => []TypeOK
  BY InitType, TypeStep, PTL DEF Spec
=============================================================================
