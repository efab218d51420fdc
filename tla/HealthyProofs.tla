----------------------------- MODULE HealthyProofs -----------------------------
(***************************************************************************)
(* The supervision raises no false alarm: what a healthy oven makes of the *)
(* timers of checkHeaters and checkTripleTen, for every number of heaters, *)
(* every row of modeTable and every timeout.                               *)
(***************************************************************************)
EXTENDS ProtectionProofs

USE HeaterAssumption, SlipAssumption, LimitAssumption
    DEF HeaterAssumption, SlipAssumption, LimitAssumption

(* Ticks from b to a, over the wrap. *)
Dist(a, b) == (a - b) % Word

Age(t) == Dist(tick, t)

(* The age of t at now, and the ticks since now. *)
Total(t) == Dist(now, t) + Age(now)

NoLostStop == "lostStop" \notin slips

Calm == Healthy /\ slips = {}

(* The interrupts that have fallen into the running check. *)
Late == IF since = 0 THEN races ELSE 0

(* By how much the interrupts into the running check and the n before it   *)
(* may have stretched the age of an anomaly.                               *)
Stretch(n) == IF since <= n THEN 3 * races ELSE 0
-----------------------------------------------------------------------------
(* The distance of two ticks.                                              *)

LEMMA ModDiff ==
  ASSUME NEW W \in Nat \ {0}, NEW x \in 0 .. W - 1, NEW y \in 0 .. W - 1
  PROVE  (x - y) % W = IF x >= y THEN x - y ELSE x - y + W
  OBVIOUS

LEMMA ModSucc ==
  ASSUME NEW W \in Nat \ {0}, NEW x \in 0 .. W - 1
  PROVE  (x + 1) % W = IF x + 1 = W THEN 0 ELSE x + 1
  OBVIOUS

LEMMA DistValue ==
  ASSUME NEW a \in Tick, NEW b \in Tick
  PROVE  Dist(a, b) = IF a >= b THEN a - b ELSE a - b + Word
  BY ModDiff DEF Dist, Tick

LEMMA DistRange ==
  ASSUME NEW a \in Tick, NEW b \in Tick
  PROVE  /\ Dist(a, b) \in Nat /\ Dist(a, b) < Word
         /\ Dist(a, b) = 0 <=> a = b
  BY DistValue DEF Tick

(* Time passes: a distance grows by one, unless it wraps. *)
LEMMA DistNext ==
  ASSUME NEW a \in Tick, NEW b \in Tick, NEW c \in Tick, c = (a + 1) % Word
  PROVE  /\ Dist(c, b) <= Dist(a, b) + 1
         /\ Dist(a, b) + 1 < Word => Dist(c, b) = Dist(a, b) + 1
  <1>1. c = IF a + 1 = Word THEN 0 ELSE a + 1
    BY ModSucc DEF Tick
  <1>2. Dist(c, b) = IF c >= b THEN c - b ELSE c - b + Word
    BY DistValue
  <1>3. Dist(a, b) = IF a >= b THEN a - b ELSE a - b + Word
    BY DistValue
  <1> QED BY <1>1, <1>2, <1>3 DEF Tick

LEMMA DistSum ==
  ASSUME NEW a \in Tick, NEW b \in Tick, NEW c \in Tick
  PROVE  Dist(a, c) <= Dist(b, c) + Dist(a, b)
  BY DistValue DEF Tick

LEMMA SinceDist == \A t : Since(t) = Dist(now, t)
  BY DEF Since, Dist

(* A pulse is young only in the tick in which it came. *)
LEMMA CurrentNow ==
  ASSUME TypeOK, pulseValid = 1, NEW h \in Heaters
  PROVE  HasCurrent(h) <=> lastPulse[h] = now
  <1>1. lastPulse[h] \in Tick /\ now \in Tick
    BY DEF TypeOK
  <1>2. HasCurrent(h) <=> Dist(now, lastPulse[h]) < 1
    BY SinceDist DEF HasCurrent
  <1> QED BY <1>1, <1>2, DistRange

(* A timer that starts now has not expired. *)
LEMMA NotExpired ==
  ASSUME TypeOK, NEW t \in Tick, t # 0 => Dist(now, t) <= timeout
  PROVE  ~Expired(t)
  <1>1. Dist(now, Started(t)) <= timeout
    BY DistRange DEF Started, TypeOK
  <1> QED BY <1>1, SinceDist, RunningType, DistRange DEF Expired, TypeOK
-----------------------------------------------------------------------------
(* What the loop and the check agree on.                                   *)

(* As long as no stop is lost, the relays are those that were chosen last  *)
(* or off, and while the check runs they are the ones it takes to be       *)
(* commanded, or off: "on" without a command is left over from a pass that *)
(* was asked to stop, and state 0 clears it in the next.                   *)
RelaysInv == NoLostStop =>
    /\ on \in Commands \cup {{}}
    /\ dataTransmit \in Commands \cup {{}}
    /\ buttonRegim = 1 => on = {}
    /\ buttonRegim = 2 => on \in {{}, dataTransmit}
    /\ pc = "check" => /\ cmdOn \in {{}, dataTransmit}
                       /\ cmdOn # {} => on \in {{}, cmdOn}
                       /\ cmdOn = {} /\ on # {} => buttonRegim = 0

(* Every tick that now is behind has cost an interrupt into this check,    *)
(* and so has a command that is not in force any more.                     *)
ClockInv ==
    /\ pc # "check" => i = 1
    /\ pc = "pass" => since > 0
    /\ pc # "pass" => Age(now) <= Late
    /\ pc = "check" /\ cmdOn # {} /\ buttonRegim # 2 =>
          buttonRegim = 0 /\ since = 0 /\ Age(now) < races

SteadyInv == steady => since = 3 /\ races = 0

(* When a pass begins, current flows in the relays that are on. *)
FlowInv == Healthy /\ pc = "pass" => \A h \in on : lastPulse[h] = tick

BaseInv == TypeOK /\ RelaysInv /\ ClockInv /\ SteadyInv /\ FlowInv

(* The history only grows. *)
LEMMA Monotone ==
  ASSUME [Next]_vars
  PROVE  /\ Healthy' => Healthy
         /\ slips \subseteq slips'
         /\ steady' => steady
  <1> USE DEF vars, time, chance, fault, loop, local, timers, result
  <1>1. CASE LoopPass
    BY <1>1 DEF LoopPass, Idle, Dial, Pressed, Cook, CookMasked, Cold, Healthy
  <1>2. CASE Check
    <2>1. UNCHANGED fault
      BY <1>2 DEF Check, TripleError, TripleNone, Scan, StuckError, OpenError,
                  HeaterFine, EndPass
    <2>2. slips \subseteq slips'
      BY <1>2 DEF Check, TripleError, TripleNone, Scan, StuckError, OpenError,
                  HeaterFine, EndPass, Pressed
    <2>3. EndPass \/ UNCHANGED steady
      BY <1>2 DEF Check, TripleError, TripleNone, Scan, StuckError, OpenError,
                  HeaterFine
    <2>4. Healthy' => Healthy
      BY <2>1 DEF Healthy
    <2>5. steady' => steady
      BY <2>3, Zenon DEF EndPass
    <2> QED BY <2>2, <2>4, <2>5
  <1>3. CASE Race \/ HandleTIM6
    <2>1. UNCHANGED <<fault, slips>> /\ Disturb
      BY <1>3 DEF Race, HandleTIM6
    <2>2. Healthy' => Healthy
      BY <2>1 DEF Healthy
    <2>3. steady' => steady
      BY <2>1, Zenon DEF Disturb
    <2> QED BY <2>1, <2>2, <2>3
  <1>4. CASE Fail
    BY <1>4 DEF Fail, Healthy
  <1>5. CASE UNCHANGED vars
    BY <1>5 DEF Healthy
  <1> QED BY <1>1, <1>2, <1>3, <1>4, <1>5 DEF Next

(* One interrupt more makes an age at most one older. *)
LEMMA AgeNext ==
  ASSUME TypeOK, TimePasses, NEW t \in Tick
  PROVE  /\ Dist(tick', t) <= Dist(tick, t) + 1
         /\ Dist(tick, t) + 1 < Word => Dist(tick', t) = Dist(tick, t) + 1
  <1>1. tick \in Tick /\ tick' \in Tick /\ tick' = (tick + 1) % Word
    BY PulseType DEF TimePasses, TypeOK
  <1> QED BY <1>1, DistNext

LEMMA RelaysStep ==
  ASSUME TypeOK, RelaysInv, [Next]_vars
  PROVE  RelaysInv'
  <1> SUFFICES ASSUME NoLostStop'
               PROVE  RelaysInv'
    BY DEF RelaysInv
  <1>a. NoLostStop
    BY Monotone DEF NoLostStop
  <1> USE <1>a DEF vars, time, chance, fault, loop, local, timers, result
  <1>1. CASE LoopPass
    <2>1. /\ on' \in Commands \cup {{}}
          /\ dataTransmit' \in Commands \cup {{}}
          /\ buttonRegim' = 1 => on' = {}
          /\ buttonRegim' = 2 => on' \in {{}, dataTransmit'}
      <3>1. CASE Idle
        BY <3>1 DEF Idle, RelaysInv
      <3>2. CASE Dial
        <4>1. buttonRegim = 0 => on = {}
          BY <3>2 DEF Dial, Pressed, NoLostStop
        <4> QED BY <3>2, <4>1 DEF Dial, RelaysInv
      <3>3. CASE Cook
        BY <3>3, ChooseType DEF Cook, RelaysInv
      <3>4. CASE CookMasked \/ Cold
        BY <3>4, ChooseType DEF CookMasked, Cold, RelaysInv
      <3> QED BY <1>1, <3>1, <3>2, <3>3, <3>4 DEF LoopPass
    <2> QED BY <1>1, <2>1 DEF LoopPass, RelaysInv
  <1>2. CASE TripleError \/ StuckError \/ OpenError
    <2>1. pc' = "pass" /\ UNCHANGED <<on, dataTransmit>>
      BY <1>2 DEF TripleError, StuckError, OpenError, EndPass
    <2>2. buttonRegim' \in {0, buttonRegim}
      BY <1>2 DEF TripleError, StuckError, OpenError, HandleError
    <2> QED BY <2>1, <2>2 DEF RelaysInv
  <1>3. CASE TripleNone
    BY <1>3 DEF TripleNone, RelaysInv
  <1>4. CASE Scan
    <2>1. \/ UNCHANGED buttonRegim
          \/ on = {} /\ buttonRegim < 2 /\ buttonRegim' = buttonRegim + 1
      BY <1>4 DEF Scan, Pressed, NoLostStop, RelaysInv, TypeOK
    <2>2. cmdOn' = IF buttonRegim' = 2 THEN dataTransmit ELSE {}
      BY <1>4 DEF Scan
    <2>3. pc' = "check" /\ UNCHANGED <<on, dataTransmit>>
      BY <1>4 DEF Scan
    <2> QED BY <2>1, <2>2, <2>3 DEF RelaysInv, TypeOK
  <1>5. CASE HeaterFine
    <2>1. UNCHANGED <<on, dataTransmit, buttonRegim>>
      BY <1>5 DEF HeaterFine, EndPass, NoError
    <2>2. pc' = "pass" \/ (pc = "check" /\ UNCHANGED cmdOn)
      BY <1>5 DEF HeaterFine, EndPass
    <2> QED BY <2>1, <2>2 DEF RelaysInv
  <1>6. CASE Race
    BY <1>6 DEF Race, RelaysInv
  <1>7. CASE HandleTIM6
    BY <1>7 DEF HandleTIM6, RelaysInv
  <1>8. CASE Fail \/ UNCHANGED vars
    BY <1>8 DEF Fail, RelaysInv
  <1> QED BY <1>1, <1>2, <1>3, <1>4, <1>5, <1>6, <1>7, <1>8 DEF Next, Check

(* The window of MaxRaces closes only after three passes. *)
LEMMA SettleStep ==
  ASSUME TypeOK, Settle
  PROVE  \/ since < 3 /\ since' = since + 1 /\ races' = races
         \/ since = 3 /\ since' = 3 /\ races' = 0
  BY DEF Settle, TypeOK

LEMMA ClockStep ==
  ASSUME TypeOK, ClockInv, [Next]_vars
  PROVE  ClockInv'
  <1> USE DEF vars, time, chance, fault, loop, local, timers, result
  <1>t. /\ now \in Tick /\ tick \in Tick
        /\ races \in Nat /\ since \in 0 .. 3 /\ Late \in Nat
    BY DEF TypeOK, Late
  <1>1. CASE LoopPass
    <2>1. Dist(tick, tick) = 0
      BY <1>t, DistRange
    <2> QED BY <1>1, <1>t, <2>1 DEF LoopPass, ClockInv, Age, Late
  <1>2. CASE TripleError \/ StuckError \/ OpenError \/ (HeaterFine /\ EndPass)
    <2>1. pc' = "pass" /\ i' = 1 /\ Settle
      BY <1>2 DEF TripleError, StuckError, OpenError, EndPass
    <2>2. since' > 0
      BY <1>t, <2>1, SettleStep
    <2> QED BY <2>1, <2>2 DEF ClockInv
  <1>3. CASE TripleNone
    BY <1>3 DEF TripleNone, ClockInv, Age, Late
  <1>4. CASE Scan
    <2>1. Dist(tick, tick) = 0
      BY <1>t, DistRange
    <2> QED BY <1>4, <1>t, <2>1 DEF Scan, ClockInv, Age, Late
  <1>5. CASE HeaterFine /\ ~EndPass
    BY <1>5 DEF HeaterFine, ClockInv, Age, Late
  <1>6. CASE Race
    <2>1. Age(now)' <= Age(now) + 1
      BY <1>6, <1>t, AgeNext DEF Race, Age
    <2>2. Age(now) \in Nat /\ Age(now)' \in Nat
      BY <1>6, <1>t, PulseType, DistRange DEF Race, Age
    <2> QED BY <1>6, <1>t, <2>1, <2>2 DEF Race, Disturb, ClockInv, Late
  <1>7. CASE HandleTIM6
    <2>1. Age(now) \in Nat
      BY <1>t, DistRange DEF Age
    <2> QED BY <1>7, <1>t, <2>1 DEF HandleTIM6, Disturb, ClockInv, Age, Late
  <1>8. CASE Fail \/ UNCHANGED vars
    BY <1>8 DEF Fail, ClockInv, Age, Late
  <1> QED BY <1>1, <1>2, <1>3, <1>4, <1>5, <1>6, <1>7, <1>8 DEF Next, Check

LEMMA SteadyStep ==
  ASSUME TypeOK, SteadyInv, [Next]_vars
  PROVE  SteadyInv'
  <1> SUFFICES ASSUME steady'
               PROVE  since' = 3 /\ races' = 0
    BY Zenon DEF SteadyInv
  <1>1. since = 3 /\ races = 0
    <2>1. steady
      BY Monotone
    <2> QED BY <2>1, Zenon DEF SteadyInv
  <1>2. ~Disturb
    BY Zenon DEF Disturb
  <1>3. Settle \/ UNCHANGED chance
    BY <1>2 DEF Next, LoopPass, Check, TripleError, TripleNone, Scan, StuckError,
                OpenError, HeaterFine, EndPass, Race, HandleTIM6, Fail, vars
  <1> QED BY <1>1, <1>3 DEF Settle, chance

LEMMA FlowStep ==
  ASSUME TypeOK, FlowInv, [Next]_vars
  PROVE  FlowInv'
  <1> SUFFICES ASSUME Healthy', pc' = "pass", NEW h \in on'
               PROVE  lastPulse'[h] = tick'
    BY DEF FlowInv
  <1> USE DEF vars, time, chance, fault, loop, local, timers, result
  <1>1. CASE EndPass
    <2>1. h \in Heaters /\ h \in Live
      BY <1>1 DEF EndPass, Live, Healthy, TypeOK
    <2> QED BY <1>1, <2>1 DEF EndPass, TimePasses, Pulse
  <1>2. CASE pc = "pass" /\ UNCHANGED <<tick, lastPulse, on>> /\ Healthy
    BY <1>2 DEF FlowInv
  <1>3. CASE Check
    BY <1>1, <1>3 DEF Check, TripleError, TripleNone, Scan, StuckError, OpenError,
                      HeaterFine
  <1>4. CASE LoopPass \/ Race \/ HandleTIM6
    BY <1>4 DEF LoopPass, Race, HandleTIM6, Disturb
  <1>5. CASE Fail \/ UNCHANGED vars
    <2>1. Healthy
      BY Monotone
    <2> QED BY <1>2, <1>5, <2>1 DEF Fail
  <1> QED BY <1>3, <1>4, <1>5 DEF Next

LEMMA BaseStep == ASSUME BaseInv, [Next]_vars PROVE BaseInv'
  BY TypeStep, RelaysStep, ClockStep, SteadyStep, FlowStep DEF BaseInv

LEMMA InitBase == Init => BaseInv
  <1> SUFFICES ASSUME Init
               PROVE  BaseInv
    OBVIOUS
  <1>1. RelaysInv /\ ClockInv /\ SteadyInv /\ FlowInv
    BY DEF Init, RelaysInv, ClockInv, SteadyInv, FlowInv
  <1> QED BY <1>1, InitType DEF BaseInv
-----------------------------------------------------------------------------
(* Current in all heaters: never in two checks in a row.                   *)

(* A running timer of checkTripleTen has seen the pulse of a heater that   *)
(* is off: it was switched off by the pass whose check started the timer,  *)
(* and is too old for the next.                                            *)
TripleInv == tripleTenTimer # 0 =>
    /\ pc = "pass" => \E h \in Heaters : Age(lastPulse[h]) \in 1 .. races + 1
    /\ pc = "triple" => \E h \in Heaters : lastPulse[h] # now
    /\ pc \in {"scan", "check"} =>
          \E h \in Heaters \ on : Age(lastPulse[h]) <= Late

(* In a healthy oven a pulse comes from each heater that is on. *)
LEMMA HealthyPulse ==
  ASSUME TypeOK, Healthy, TimePasses, NEW h \in Heaters
  PROVE  lastPulse'[h] = IF h \in on THEN tick' ELSE lastPulse[h]
  BY DEF Healthy, TimePasses, Pulse, Live

LEMMA NoFault == ASSUME TypeOK, Healthy' PROVE ~Fail
  BY DEF TypeOK, Healthy, Fail

LEMMA NoTripleError ==
  ASSUME pulseValid = 1, TypeOK, TripleInv
  PROVE  ~TripleError
  <1> SUFFICES ASSUME TripleError
               PROVE  FALSE
    OBVIOUS
  <1>1. \A h \in Heaters : lastPulse[h] = now
    BY CurrentNow DEF TripleError, AllLive
  <1>2. tripleTenTimer = 0
    BY <1>1 DEF TripleError, TripleInv
  <1> QED BY <1>2, NotExpired DEF TripleError, TypeOK

LEMMA TripleStep ==
  ASSUME pulseValid = 1, Heaters \notin Commands, MaxRaces + 1 < Word,
         BaseInv, TripleInv, Healthy', NoLostStop, [Next]_vars
  PROVE  TripleInv'
  <1> USE DEF vars, time, chance, fault, loop, local, timers, result
  <1>t. /\ TypeOK /\ Healthy
        /\ now \in Tick /\ tick \in Tick
        /\ races \in Nat /\ races <= MaxRaces
        /\ since \in 0 .. 3 /\ Late \in Nat /\ Late <= races
        /\ \A h \in Heaters : lastPulse[h] \in Tick
    BY Monotone DEF BaseInv, TypeOK, Late
  <1>a. \A h \in Heaters : Age(lastPulse[h]) \in Nat
    BY <1>t, DistRange DEF Age
  <1>1. CASE LoopPass
    <2> SUFFICES ASSUME tripleTenTimer # 0
                 PROVE  \E h \in Heaters : lastPulse[h] # tick
      BY <1>1 DEF LoopPass, TripleInv
    <2>1. PICK h \in Heaters : Age(lastPulse[h]) \in 1 .. races + 1
      BY <1>1 DEF LoopPass, TripleInv
    <2>2. lastPulse[h] # tick
      BY <1>t, <2>1, DistRange DEF Age
    <2> QED BY <2>2
  <1>2. CASE TripleNone
    <2> SUFFICES ASSUME tripleTenTimer' # 0
                 PROVE  \E h \in Heaters \ on : Age(lastPulse[h]) <= Late
      BY <1>2 DEF TripleNone, TripleInv, Age, Late
    <2>1. \A h \in Heaters : lastPulse[h] = now
      BY <1>2, <1>t, CurrentNow DEF TripleNone, AllLive
    <2>2. PICK h \in Heaters : h \notin on
      <3>1. on # Heaters
        <4>1. 1 \in Heaters
          BY DEF Heaters
        <4> QED BY <4>1 DEF BaseInv, RelaysInv
      <3> QED BY <1>t, <3>1 DEF TypeOK
    <2>3. Age(lastPulse[h]) <= Late
      BY <1>2, <2>1 DEF TripleNone, BaseInv, ClockInv
    <2> QED BY <2>2, <2>3
  <1>3. CASE Scan
    BY <1>3 DEF Scan, TripleInv, Age, Late
  <1>4. CASE EndPass /\ pc = "check" /\ UNCHANGED tripleTenTimer
    <2> SUFFICES ASSUME tripleTenTimer # 0
                 PROVE  \E h \in Heaters : Age(lastPulse[h])' \in 1 .. races' + 1
      BY <1>4 DEF EndPass, TripleInv
    <2>1. PICK h \in Heaters \ on : Age(lastPulse[h]) <= Late
      BY <1>4 DEF TripleInv
    <2>2. lastPulse'[h] = lastPulse[h] /\ TimePasses
      BY <1>t, <1>4, HealthyPulse DEF EndPass
    <2>3. Age(lastPulse[h])' = Age(lastPulse[h]) + 1
      BY <1>t, <1>a, <2>1, <2>2, AgeNext DEF Age
    <2>4. Late <= races'
      BY <1>t, <1>4, SettleStep DEF EndPass, Late
    <2> QED BY <1>t, <1>a, <1>4, <2>1, <2>3, <2>4, SettleStep DEF EndPass
  <1>5. CASE HeaterFine /\ ~EndPass
    BY <1>5 DEF HeaterFine, TripleInv, Age, Late
  <1>6. CASE Race
    <2>1. /\ TimePasses /\ pc # "pass"
          /\ races < MaxRaces /\ races' = races + 1 /\ Late' = races + 1
          /\ UNCHANGED <<pc, now, on, tripleTenTimer>>
      BY <1>6 DEF Race, Disturb, Late
    <2> SUFFICES ASSUME tripleTenTimer # 0
                 PROVE  TripleInv'
      BY <2>1 DEF TripleInv
    <2>2. CASE pc = "triple"
      <3>1. PICK h \in Heaters : lastPulse[h] # now
        BY <2>2 DEF TripleInv
      <3>2. tick' # now
        <4>1. Dist(tick, now) <= races /\ Dist(tick, now) \in Nat
          BY <1>t, <2>2, DistRange DEF BaseInv, ClockInv, Age
        <4>2. Dist(tick', now) = Dist(tick, now) + 1
          BY <1>t, <2>1, <4>1, AgeNext
        <4> QED BY <1>t, <2>1, <4>1, <4>2, DistRange, PulseType
      <3>3. lastPulse'[h] # now'
        BY <1>t, <2>1, <3>1, <3>2, HealthyPulse
      <3> QED BY <2>1, <2>2, <3>3 DEF TripleInv
    <2>3. CASE pc \in {"scan", "check"}
      <3>1. PICK h \in Heaters \ on : Age(lastPulse[h]) <= Late
        BY <2>3 DEF TripleInv
      <3>2. lastPulse'[h] = lastPulse[h]
        BY <1>t, <2>1, HealthyPulse
      <3>3. Age(lastPulse[h])' <= Age(lastPulse[h]) + 1
        BY <1>t, <2>1, <3>2, AgeNext DEF Age
      <3>4. Age(lastPulse[h])' <= Late'
        <4>1. Age(lastPulse[h])' \in Nat
          BY <1>t, <2>1, <3>2, DistRange, PulseType DEF Age
        <4> QED BY <1>t, <1>a, <2>1, <3>1, <3>3, <4>1
      <3> QED BY <2>1, <2>3, <3>4 DEF TripleInv
    <2> QED BY <1>t, <2>1, <2>2, <2>3 DEF TypeOK
  <1>7. CASE HandleTIM6
    <2>1. /\ pc # "pass" /\ races' = races + 1 /\ Late' = races + 1
          /\ UNCHANGED <<pc, tick, lastPulse, now, on, tripleTenTimer>>
      BY <1>7 DEF HandleTIM6, Disturb, Late
    <2>2. CASE tripleTenTimer # 0 /\ pc \in {"scan", "check"}
      <3>1. PICK h \in Heaters \ on : Age(lastPulse[h]) <= Late
        BY <2>2 DEF TripleInv
      <3>2. Age(lastPulse[h])' <= Late'
        BY <1>t, <1>a, <2>1, <3>1 DEF Age
      <3> QED BY <2>1, <2>2, <3>2 DEF TripleInv
    <2> QED BY <2>1, <2>2 DEF TripleInv
  <1>8. CASE UNCHANGED vars
    BY <1>8 DEF TripleInv, Age, Late
  <1>9. ~Fail /\ ~TripleError
    BY <1>t, NoFault, NoTripleError
  <1>10. CASE StuckError \/ OpenError \/ (HeaterFine /\ EndPass)
    BY <1>4, <1>10 DEF StuckError, OpenError, HeaterFine
  <1> QED BY <1>1, <1>2, <1>3, <1>5, <1>6, <1>7, <1>8, <1>9, <1>10
          DEF Next, Check
-----------------------------------------------------------------------------
(* Current without command: at most in two checks in a row, unless the     *)
(* interrupts that fall into the checks stretch them.                      *)

(* The age t of an anomaly that the running check has seen at heater h:    *)
(* the heater was switched off and has sent its last pulse in this tick,   *)
(* or it is on and the loop was asked to stop.                             *)
StuckDone(h, t) ==
    \/ h \notin on /\ lastPulse[h] = now /\ Total(t) <= Stretch(1) + 1
    \/ h \in on /\ buttonRegim = 0 /\ Total(t) <= Stretch(0)

(* ... which the check still has to look at: a pulse that is not of this   *)
(* tick resets the timer.                                                  *)
StuckAhead(h, t) ==
    \/ lastPulse[h] # now
    \/ h \notin on /\ Total(t) <= Stretch(1) + 1
    \/ h \in on /\ Total(t) <= Stretch(0)

(* ... when a pass begins ...                                              *)
StuckAtPass(h, t) ==
    \/ h \in on /\ buttonRegim = 0 /\ Age(t) <= Stretch(1) + 1
    \/ /\ h \notin on
       /\ Age(lastPulse[h]) \in 1 .. races + 1
       /\ Age(t) <= 3 * races + 2

(* ... and when the loop has switched the relays.                          *)
StuckBefore(h, t) ==
    \/ h \notin on /\ Age(t) <= Stretch(1) + 1
    \/ h \notin on /\ Age(lastPulse[h]) \in 1 .. races + 1
    \/ h \in on /\ lastPulse[h] # tick /\ Age(t) <= 3 * races + 2
    \/ h \in on /\ Age(t) <= Stretch(0)

StuckAt(h, t) ==
    /\ pc = "pass" => StuckAtPass(h, t)
    /\ pc \in {"triple", "scan"} => StuckBefore(h, t)
    /\ pc = "check" => IF h < i THEN StuckDone(h, t) ELSE StuckAhead(h, t)

StuckInv == \A h \in Heaters : stuckTimer[h] # 0 => StuckAt(h, stuckTimer[h])

LEMMA VisitStuck ==
  ASSUME pulseValid = 1, BaseInv, NoLostStop, pc = "check",
         stuckTimer[i] # 0 => StuckAhead(i, stuckTimer[i]),
         Running(Stuck, stuckTimer[i]) # 0
  PROVE  StuckDone(i, Running(Stuck, stuckTimer[i]))
  <1>t. /\ TypeOK /\ i \in Heaters
        /\ now \in Tick /\ tick \in Tick /\ races \in Nat
        /\ stuckTimer[i] \in Tick
    BY DEF BaseInv, TypeOK
  <1>1. Stuck
    BY DEF Running
  <1>2. lastPulse[i] = now /\ i \notin cmdOn
    BY <1>1, <1>t, CurrentNow DEF Stuck
  <1>3. i \in on => buttonRegim = 0
    BY <1>2 DEF BaseInv, RelaysInv
  <1>4. CASE stuckTimer[i] = 0
    <2>1. Running(Stuck, stuckTimer[i]) = now
      BY <1>1, <1>4 DEF Running, Started
    <2>2. Total(now) <= Late /\ Total(now) \in Nat
      BY <1>t, DistRange DEF Total, Age, BaseInv, ClockInv
    <2> QED BY <1>t, <1>2, <1>3, <2>1, <2>2 DEF StuckDone, Late, Stretch
  <1>5. CASE stuckTimer[i] # 0
    <2>1. Running(Stuck, stuckTimer[i]) = stuckTimer[i]
      BY <1>1, <1>5 DEF Running, Started
    <2> QED BY <1>2, <1>3, <1>5, <2>1 DEF StuckDone, StuckAhead
  <1> QED BY <1>4, <1>5

LEMMA EndStuck ==
  ASSUME MaxRaces + 1 < Word, BaseInv, Healthy, pc = "check",
         NEW h \in Heaters, NEW t \in Tick, StuckDone(h, t),
         EndPass, UNCHANGED buttonRegim
  PROVE  /\ h \in on => buttonRegim' = 0 /\ Dist(tick', t) <= Stretch(1)' + 1
         /\ h \notin on => /\ Dist(tick', lastPulse'[h]) \in 1 .. races' + 1
                           /\ Dist(tick', t) <= 3 * races' + 2
  <1>t. /\ TypeOK /\ TimePasses
        /\ now \in Tick /\ tick \in Tick /\ tick' \in Tick
        /\ races \in Nat /\ races <= MaxRaces
        /\ since \in 0 .. 3 /\ lastPulse[h] \in Tick
    BY PulseType DEF BaseInv, TypeOK, EndPass
  <1>s. \/ since < 3 /\ since' = since + 1 /\ races' = races
        \/ since = 3 /\ since' = 3 /\ races' = 0
    BY <1>t, SettleStep DEF EndPass
  <1>1. Dist(tick', t) <= Total(t) + 1
    <2>1. Dist(tick', t) <= Dist(tick, t) + 1
      BY <1>t, AgeNext
    <2>2. Dist(tick, t) <= Total(t)
      BY <1>t, DistSum DEF Total, Age
    <2>3. Dist(tick', t) \in Nat /\ Dist(tick, t) \in Nat /\ Total(t) \in Nat
      BY <1>t, DistRange DEF Total, Age
    <2> QED BY <2>1, <2>2, <2>3
  <1>2. Dist(tick', t) \in Nat /\ Total(t) \in Nat
    BY <1>t, DistRange DEF Total, Age
  <1>3. ASSUME h \notin on
        PROVE  Dist(tick', lastPulse'[h]) \in 1 .. races' + 1
    <2>1. lastPulse'[h] = now
      BY <1>t, <1>3, HealthyPulse DEF StuckDone
    <2>2. /\ Dist(tick, now) <= Late /\ Dist(tick, now) \in Nat
          /\ Late <= races /\ Late <= races' /\ Late \in Nat
      BY <1>t, <1>s, DistRange DEF BaseInv, ClockInv, Age, Late
    <2>3. Dist(tick', now) = Dist(tick, now) + 1
      BY <1>t, <2>2, AgeNext
    <2> QED BY <1>t, <1>s, <2>1, <2>2, <2>3
  <1> QED BY <1>t, <1>s, <1>1, <1>2, <1>3 DEF StuckDone, Stretch

LEMMA NoStuckError ==
  ASSUME pulseValid = 1, 3 * MaxRaces + 1 <= timeout, BaseInv, StuckInv
  PROVE  ~StuckError
  <1> SUFFICES ASSUME StuckError
               PROVE  FALSE
    OBVIOUS
  <1>t. /\ TypeOK /\ i \in Heaters /\ pc = "check"
        /\ now \in Tick /\ tick \in Tick
        /\ races \in Nat /\ races <= MaxRaces
        /\ stuckTimer[i] \in Tick
    BY DEF BaseInv, TypeOK, StuckError
  <1>1. lastPulse[i] = now
    BY <1>t, CurrentNow DEF StuckError, Stuck
  <1>2. ASSUME stuckTimer[i] # 0
        PROVE  Dist(now, stuckTimer[i]) <= timeout
    <2>1. StuckAhead(i, stuckTimer[i])
      BY <1>t, <1>2 DEF StuckInv, StuckAt, Heaters
    <2>2. Total(stuckTimer[i]) <= 3 * races + 1
      BY <1>t, <1>1, <2>1, DistRange DEF StuckAhead, Total, Age, Stretch
    <2> QED BY <1>t, <2>2, DistRange DEF Total, Age
  <1> QED BY <1>t, <1>2, NotExpired DEF StuckError

LEMMA StuckStep ==
  ASSUME pulseValid = 1, MaxRaces + 1 < Word, 3 * MaxRaces + 1 <= timeout,
         BaseInv, StuckInv, TripleInv, ~OpenError,
         Healthy', NoLostStop', [Next]_vars
  PROVE  StuckInv'
  <1> SUFFICES ASSUME NEW h \in Heaters, stuckTimer'[h] # 0
               PROVE  StuckAt(h, stuckTimer[h])'
    BY DEF StuckInv
  <1> USE DEF vars, time, chance, fault, loop, local, timers, result
  <1>t. /\ TypeOK /\ TypeOK' /\ Healthy /\ NoLostStop
        /\ now \in Tick /\ tick \in Tick /\ i \in Heaters /\ tick' \in Tick
        /\ races \in Nat /\ races <= MaxRaces /\ since \in 0 .. 3
        /\ lastPulse[h] \in Tick /\ stuckTimer[h] \in Tick
        /\ lastPulse'[h] \in Tick /\ stuckTimer'[h] \in Tick
    BY Monotone, BaseStep DEF BaseInv, TypeOK, NoLostStop
  <1>a. Age(lastPulse[h]) \in Nat /\ Age(stuckTimer[h]) \in Nat
    BY <1>t, DistRange DEF Age
  <1>1. CASE LoopPass
    <2>1. StuckAtPass(h, stuckTimer[h])
      BY <1>1 DEF LoopPass, StuckInv, StuckAt
    <2>2. h \in on /\ buttonRegim = 0 => h \notin on'
      BY <1>1, <1>t DEF LoopPass, Idle, Dial, Pressed, Cook, CookMasked, Cold,
                        NoLostStop
    <2>3. Age(lastPulse[h]) \in 1 .. races + 1 => lastPulse[h] # tick
      BY <1>t, DistRange DEF Age
    <2>4. UNCHANGED <<tick, lastPulse, chance, stuckTimer>> /\ pc' = "triple"
      BY <1>1 DEF LoopPass
    <2>5. StuckBefore(h, stuckTimer[h])'
      BY <1>t, <1>a, <2>1, <2>2, <2>3, <2>4 DEF StuckAtPass, StuckBefore, Age, Stretch
    <2> QED BY <2>4, <2>5 DEF StuckAt
  <1>2. CASE TripleNone
    BY <1>2 DEF TripleNone, StuckInv, StuckAt, StuckBefore, Age, Stretch
  <1>3. CASE Scan
    <2>1. StuckBefore(h, stuckTimer[h])
      BY <1>3 DEF Scan, StuckInv, StuckAt
    <2>2. Dist(tick, tick) = 0
      BY <1>t, DistRange
    <2>3. Age(lastPulse[h]) \in 1 .. races + 1 => lastPulse[h] # tick
      BY <1>t, DistRange DEF Age
    <2>4. StuckAhead(h, stuckTimer[h])'
      BY <1>3, <1>t, <1>a, <2>1, <2>2, <2>3
         DEF Scan, StuckBefore, StuckAhead, Total, Age, Stretch
    <2> QED BY <1>3, <1>t, <2>4 DEF Scan, StuckAt, Heaters
  <1>4. CASE HeaterFine
    <2>1. pc = "check" /\ stuckTimer' = [stuckTimer EXCEPT ![i] = Running(Stuck, @)]
      BY <1>4 DEF HeaterFine
    <2>2. CASE h < i
      <3>1. stuckTimer'[h] = stuckTimer[h] /\ StuckDone(h, stuckTimer[h])
        BY <1>t, <2>1, <2>2 DEF TypeOK, StuckInv, StuckAt, Heaters
      <3>2. CASE i < N
        <4>1. /\ UNCHANGED <<pc, on, buttonRegim, lastPulse, now, tick, chance>>
              /\ i' = i + 1
          BY <1>4, <3>2 DEF HeaterFine
        <4> QED BY <1>t, <2>1, <2>2, <3>1, <4>1
                DEF StuckAt, StuckDone, Total, Age, Stretch, Heaters
      <3>3. CASE i = N
        <4>1. EndPass /\ UNCHANGED buttonRegim
          BY <1>4, <3>3 DEF HeaterFine, NoError
        <4>2. /\ h \in on => buttonRegim' = 0 /\ Dist(tick', stuckTimer[h]) <= Stretch(1)' + 1
              /\ h \notin on => /\ Dist(tick', lastPulse'[h]) \in 1 .. races' + 1
                                /\ Dist(tick', stuckTimer[h]) <= 3 * races' + 2
          BY <1>t, <2>1, <3>1, <4>1, EndStuck
        <4> QED BY <3>1, <4>1, <4>2 DEF EndPass, StuckAt, StuckAtPass, Age
      <3> QED BY <1>t, <3>2, <3>3 DEF Heaters
    <2>3. CASE h = i
      <3>1. stuckTimer'[h] = Running(Stuck, stuckTimer[i])
        BY <1>t, <2>1, <2>3 DEF TypeOK
      <3>2. StuckDone(h, stuckTimer'[h])
        <4>1. stuckTimer[i] # 0 => StuckAhead(i, stuckTimer[i])
          BY <1>t, <2>1 DEF StuckInv, StuckAt, Heaters
        <4> QED BY <1>t, <2>1, <2>3, <3>1, <4>1, VisitStuck
      <3>3. CASE i < N
        <4>1. /\ UNCHANGED <<pc, on, buttonRegim, lastPulse, now, tick, chance>>
              /\ i' = i + 1
          BY <1>4, <3>3 DEF HeaterFine
        <4> QED BY <1>t, <2>1, <2>3, <3>2, <4>1
                DEF StuckAt, StuckDone, Total, Age, Stretch, Heaters
      <3>4. CASE i = N
        <4>1. EndPass /\ UNCHANGED buttonRegim
          BY <1>4, <3>4 DEF HeaterFine, NoError
        <4>2. /\ h \in on => buttonRegim' = 0 /\ Dist(tick', stuckTimer'[h]) <= Stretch(1)' + 1
              /\ h \notin on => /\ Dist(tick', lastPulse'[h]) \in 1 .. races' + 1
                                /\ Dist(tick', stuckTimer'[h]) <= 3 * races' + 2
          BY <1>t, <2>1, <3>2, <4>1, EndStuck
        <4> QED BY <4>1, <4>2 DEF EndPass, StuckAt, StuckAtPass, Age
      <3> QED BY <1>t, <3>3, <3>4 DEF Heaters
    <2>4. CASE h > i
      <3>1. stuckTimer'[h] = stuckTimer[h] /\ StuckAhead(h, stuckTimer[h])
        BY <1>t, <2>1, <2>4 DEF TypeOK, StuckInv, StuckAt, Heaters
      <3>2. /\ UNCHANGED <<pc, on, buttonRegim, lastPulse, now, tick, chance>>
            /\ i' = i + 1
        BY <1>4, <1>t, <2>4 DEF HeaterFine, Heaters
      <3> QED BY <1>t, <2>1, <2>4, <3>1, <3>2
              DEF StuckAt, StuckAhead, Total, Age, Stretch, Heaters
    <2> QED BY <1>t, <2>2, <2>3, <2>4 DEF Heaters
  <1>5. CASE Race
    <2>1. /\ TimePasses /\ pc # "pass" /\ races' = races + 1 /\ since' = 0
          /\ UNCHANGED <<pc, now, i, on, buttonRegim, stuckTimer>>
      BY <1>5 DEF Race, Disturb
    <2>2. /\ lastPulse'[h] = IF h \in on THEN tick' ELSE lastPulse[h]
          /\ Age(stuckTimer[h])' <= Age(stuckTimer[h]) + 1
          /\ Dist(tick', lastPulse[h]) <= Age(lastPulse[h]) + 1
          /\ Dist(tick, lastPulse[h]) + 1 < Word
               => Dist(tick', lastPulse[h]) = Age(lastPulse[h]) + 1
      BY <1>t, <2>1, HealthyPulse, AgeNext DEF Age
    <2>3. tick' # now /\ Age(now)' <= Age(now) + 1
      <3>1. Dist(tick, now) <= races /\ Dist(tick, now) \in Nat
        BY <1>t, <2>1, DistRange DEF BaseInv, ClockInv, Age, Late
      <3>2. Dist(tick', now) = Dist(tick, now) + 1
        BY <1>t, <2>1, <3>1, AgeNext
      <3> QED BY <1>t, <2>1, <3>1, <3>2, DistRange DEF Age
    <2>4. /\ Age(stuckTimer[h])' \in Nat /\ Age(now) \in Nat /\ Age(now)' \in Nat
          /\ Dist(now, stuckTimer[h]) \in Nat
          /\ Dist(tick', lastPulse[h]) \in Nat
      BY <1>t, <2>1, DistRange DEF Age
    <2>5. StuckAt(h, stuckTimer[h])
      BY <2>1 DEF StuckInv
    <2>6. CASE pc \in {"triple", "scan"}
      <3>1. races < MaxRaces
        BY <1>5 DEF Race, Disturb
      <3>2. StuckBefore(h, stuckTimer[h])'
        BY <1>t, <1>a, <2>1, <2>2, <2>4, <2>5, <2>6, <3>1
           DEF StuckAt, StuckBefore, Age, Stretch
      <3> QED BY <2>1, <2>6, <3>2 DEF StuckAt
    <2>7. CASE pc = "check"
      <3>1. Total(stuckTimer[h])' <= Total(stuckTimer[h]) + 1
        BY <2>1, <2>3, <2>4 DEF Total
      <3>2. Total(stuckTimer[h]) \in Nat /\ Total(stuckTimer[h])' \in Nat
        BY <2>1, <2>4 DEF Total
      <3> QED BY <1>t, <2>1, <2>2, <2>3, <2>5, <2>7, <3>1, <3>2
              DEF StuckAt, StuckAhead, StuckDone, Stretch
    <2> QED BY <1>t, <2>1, <2>6, <2>7 DEF TypeOK
  <1>6. CASE HandleTIM6
    <2>1. /\ pc # "pass" /\ races' = races + 1 /\ since' = 0 /\ buttonRegim' = 0
          /\ UNCHANGED <<pc, tick, now, i, lastPulse, on, stuckTimer>>
      BY <1>6 DEF HandleTIM6, Disturb
    <2>2. StuckAt(h, stuckTimer[h])
      BY <2>1 DEF StuckInv
    <2>3. Total(stuckTimer[h]) \in Nat /\ Total(stuckTimer[h])' = Total(stuckTimer[h])
      BY <1>t, <2>1, DistRange DEF Total, Age
    <2>4. CASE pc \in {"triple", "scan"}
      BY <1>t, <1>a, <2>1, <2>2, <2>4 DEF StuckAt, StuckBefore, Age, Stretch
    <2>5. CASE pc = "check"
      BY <1>t, <2>1, <2>2, <2>3, <2>5 DEF StuckAt, StuckAhead, StuckDone, Stretch
    <2> QED BY <1>t, <2>1, <2>4, <2>5 DEF TypeOK
  <1>7. CASE UNCHANGED vars
    BY <1>7 DEF StuckInv, StuckAt, StuckAtPass, StuckBefore, StuckAhead,
                StuckDone, Total, Age, Stretch
  <1>8. ~Fail /\ ~TripleError /\ ~StuckError
    BY <1>t, NoFault, NoTripleError, NoStuckError
  <1> QED BY <1>1, <1>2, <1>3, <1>4, <1>5, <1>6, <1>7, <1>8 DEF Next, Check
-----------------------------------------------------------------------------
(* A command without current: the relays were switched on by the pass      *)
(* whose check saw it, or an interrupt came between the two readings of    *)
(* the tick.                                                               *)

(* Relays that are off in spite of a command owe it to interrupts: one     *)
(* into the last check but one, or one into this check, which has taken    *)
(* the oven back to state 0.                                               *)
Budget == IF buttonRegim = 2 THEN Stretch(1) ELSE 3 * races - 2

(* The age t of an anomaly that the running check has seen at heater h ... *)
OpenDone(h, t) ==
    /\ h \in cmdOn
    /\ \/ h \in on /\ Total(t) <= Stretch(2) + 1
       \/ h \notin on /\ Total(t) <= Budget

(* ... or still has to look at ...                                         *)
OpenAhead(h, t) == h \in cmdOn =>
    \/ lastPulse[h] = now /\ Total(t) <= 3 * races + 2
    \/ h \in on /\ Total(t) <= Stretch(2) + 1
    \/ h \notin on /\ Total(t) <= Budget

(* ... when a pass begins ...                                              *)
OpenAtPass(h, t) ==
    \/ h \in on /\ Age(t) <= 3 * races + 2
    \/ on = {} /\ buttonRegim = 2 /\ Age(t) <= Stretch(2) + 1
    \/ on = {} /\ buttonRegim = 0 /\ since = 1 /\ Age(t) <= 3 * races - 1

(* ... and when the loop has switched the relays.                          *)
OpenBefore(h, t) ==
    \/ lastPulse[h] = tick /\ Age(t) <= 3 * races + 2
    \/ Age(t) <= Stretch(1)
    \/ /\ Age(t) <= Stretch(2) + 1
       /\ h \in on \/ buttonRegim = 0 \/ h \notin dataTransmit

OpenAt(h, t) ==
    /\ pc = "pass" => OpenAtPass(h, t)
    /\ pc \in {"triple", "scan"} => OpenBefore(h, t)
    /\ pc = "check" => IF h < i THEN OpenDone(h, t) ELSE OpenAhead(h, t)

OpenInv == \A h \in Heaters : openTimer[h] # 0 => OpenAt(h, openTimer[h])

LEMMA VisitOpen ==
  ASSUME pulseValid = 1, BaseInv, pc = "check",
         openTimer[i] # 0 => OpenAhead(i, openTimer[i]),
         Running(Open, openTimer[i]) # 0
  PROVE  OpenDone(i, Running(Open, openTimer[i]))
  <1>t. /\ TypeOK /\ i \in Heaters
        /\ now \in Tick /\ tick \in Tick /\ races \in Nat
        /\ openTimer[i] \in Tick
    BY DEF BaseInv, TypeOK
  <1>1. Open
    BY DEF Running
  <1>2. lastPulse[i] # now /\ i \in cmdOn
    BY <1>1, <1>t, CurrentNow DEF Open
  <1>3. CASE openTimer[i] = 0
    <2>1. Running(Open, openTimer[i]) = now
      BY <1>1, <1>3 DEF Running, Started
    <2>2. Total(now) = Age(now) /\ Age(now) \in Nat
      BY <1>t, DistRange DEF Total, Age
    <2>3. Age(now) <= Late /\ (buttonRegim # 2 => Age(now) < races)
      BY <1>2 DEF BaseInv, ClockInv
    <2> QED BY <1>t, <1>2, <2>1, <2>2, <2>3 DEF OpenDone, Budget, Late, Stretch
  <1>4. CASE openTimer[i] # 0
    <2>1. Running(Open, openTimer[i]) = openTimer[i]
      BY <1>1, <1>4 DEF Running, Started
    <2> QED BY <1>2, <1>4, <2>1 DEF OpenDone, OpenAhead
  <1> QED BY <1>3, <1>4

LEMMA EndOpen ==
  ASSUME BaseInv, NoLostStop, pc = "check",
         NEW h \in Heaters, NEW t \in Tick, OpenDone(h, t),
         EndPass, UNCHANGED buttonRegim
  PROVE  \/ h \in on /\ Dist(tick', t) <= 3 * races' + 2
         \/ on = {} /\ buttonRegim = 2 /\ Dist(tick', t) <= Stretch(2)' + 1
         \/ /\ on = {} /\ buttonRegim = 0 /\ since' = 1
            /\ Dist(tick', t) <= 3 * races' - 1
  <1>t. /\ TypeOK /\ TimePasses
        /\ now \in Tick /\ tick \in Tick /\ tick' \in Tick
        /\ races \in Nat /\ since \in 0 .. 3
    BY PulseType DEF BaseInv, TypeOK, EndPass
  <1>s. \/ since < 3 /\ since' = since + 1 /\ races' = races
        \/ since = 3 /\ since' = 3 /\ races' = 0
    BY <1>t, SettleStep DEF EndPass
  <1>1. Dist(tick', t) <= Total(t) + 1
    <2>1. Dist(tick', t) <= Dist(tick, t) + 1
      BY <1>t, AgeNext
    <2>2. Dist(tick, t) <= Total(t)
      BY <1>t, DistSum DEF Total, Age
    <2>3. Dist(tick', t) \in Nat /\ Dist(tick, t) \in Nat /\ Total(t) \in Nat
      BY <1>t, DistRange DEF Total, Age
    <2> QED BY <2>1, <2>2, <2>3
  <1>2. Dist(tick', t) \in Nat /\ Total(t) \in Nat
    BY <1>t, DistRange DEF Total, Age
  <1>3. h \notin on => on = {} /\ (buttonRegim = 2 \/ (buttonRegim = 0 /\ since = 0))
    BY DEF OpenDone, BaseInv, RelaysInv, ClockInv
  <1> QED BY <1>t, <1>s, <1>1, <1>2, <1>3 DEF OpenDone, Budget, Stretch

LEMMA NoOpenError ==
  ASSUME pulseValid = 1, 3 * MaxRaces + 1 <= timeout, BaseInv, OpenInv
  PROVE  ~OpenError
  <1> SUFFICES ASSUME OpenError
               PROVE  FALSE
    OBVIOUS
  <1>t. /\ TypeOK /\ i \in Heaters /\ pc = "check"
        /\ now \in Tick /\ tick \in Tick
        /\ races \in Nat /\ races <= MaxRaces
        /\ openTimer[i] \in Tick
    BY DEF BaseInv, TypeOK, OpenError
  <1>1. lastPulse[i] # now /\ i \in cmdOn
    BY <1>t, CurrentNow DEF OpenError, Open
  <1>2. ASSUME openTimer[i] # 0
        PROVE  Dist(now, openTimer[i]) <= timeout
    <2>1. OpenAhead(i, openTimer[i])
      BY <1>t, <1>2 DEF OpenInv, OpenAt, Heaters
    <2>2. Total(openTimer[i]) <= 3 * races + 1
      BY <1>t, <1>1, <2>1, DistRange DEF OpenAhead, Total, Age, Budget, Stretch
    <2> QED BY <1>t, <2>2, DistRange DEF Total, Age
  <1> QED BY <1>t, <1>2, NotExpired DEF OpenError

LEMMA OpenStep ==
  ASSUME pulseValid = 1, 3 * MaxRaces + 1 <= timeout,
         BaseInv, OpenInv, ~TripleError, ~StuckError,
         Healthy', slips' = {}, [Next]_vars
  PROVE  OpenInv'
  <1> SUFFICES ASSUME NEW h \in Heaters, openTimer'[h] # 0
               PROVE  OpenAt(h, openTimer[h])'
    BY DEF OpenInv
  <1> USE DEF vars, time, chance, fault, loop, local, timers, result
  <1>t. /\ TypeOK /\ TypeOK' /\ Healthy /\ NoLostStop
        /\ now \in Tick /\ tick \in Tick /\ i \in Heaters /\ tick' \in Tick
        /\ races \in Nat /\ since \in 0 .. 3
        /\ openTimer[h] \in Tick /\ openTimer'[h] \in Tick
    BY Monotone, BaseStep DEF BaseInv, TypeOK, NoLostStop
  <1>a. Age(openTimer[h]) \in Nat
    BY <1>t, DistRange DEF Age
  <1>1. CASE LoopPass
    <2>1. OpenAtPass(h, openTimer[h])
      BY <1>1 DEF LoopPass, OpenInv, OpenAt
    <2>2. h \in on => lastPulse[h] = tick
      BY <1>1, <1>t DEF LoopPass, BaseInv, FlowInv
    <2>3. buttonRegim = 2 =>
             h \in on' \/ buttonRegim' = 0 \/ h \notin dataTransmit'
      BY <1>1 DEF LoopPass, Idle, Dial, Cook, CookMasked, Cold
    <2>4. UNCHANGED <<tick, lastPulse, chance, openTimer>> /\ pc' = "triple"
      BY <1>1 DEF LoopPass
    <2>5. OpenBefore(h, openTimer[h])'
      BY <1>t, <1>a, <2>1, <2>2, <2>3, <2>4 DEF OpenAtPass, OpenBefore, Age, Stretch
    <2> QED BY <2>4, <2>5 DEF OpenAt
  <1>2. CASE TripleNone
    BY <1>2 DEF TripleNone, OpenInv, OpenAt, OpenBefore, Age, Stretch
  <1>3. CASE Scan
    <2>1. OpenBefore(h, openTimer[h])
      BY <1>3 DEF Scan, OpenInv, OpenAt
    <2>2. Dist(tick, tick) = 0
      BY <1>t, DistRange
    <2>3. /\ cmdOn' = IF buttonRegim' = 2 THEN dataTransmit ELSE {}
          /\ buttonRegim = 0 => buttonRegim' # 2
          /\ now' = tick /\ i' = 1 /\ pc' = "check"
          /\ UNCHANGED <<tick, lastPulse, chance, on, openTimer>>
      BY <1>3 DEF Scan
    <2>4. OpenAhead(h, openTimer[h])'
      BY <1>t, <1>a, <2>1, <2>2, <2>3
         DEF OpenBefore, OpenAhead, Total, Age, Budget, Stretch
    <2> QED BY <1>t, <2>3, <2>4 DEF OpenAt, Heaters
  <1>4. CASE HeaterFine
    <2>1. pc = "check" /\ openTimer' = [openTimer EXCEPT ![i] = Running(Open, @)]
      BY <1>4 DEF HeaterFine
    <2>2. ASSUME i < N
          PROVE  /\ UNCHANGED <<pc, on, cmdOn, buttonRegim, lastPulse, now, tick, chance>>
                 /\ i' = i + 1
      BY <1>4, <2>2 DEF HeaterFine
    <2>3. ASSUME i = N, OpenDone(h, openTimer'[h])
          PROVE  OpenAt(h, openTimer[h])'
      <3>1. EndPass /\ UNCHANGED buttonRegim
        BY <1>4, <2>3 DEF HeaterFine, NoError
      <3>2. \/ h \in on /\ Dist(tick', openTimer'[h]) <= 3 * races' + 2
            \/ /\ on = {} /\ buttonRegim = 2
               /\ Dist(tick', openTimer'[h]) <= Stretch(2)' + 1
            \/ /\ on = {} /\ buttonRegim = 0 /\ since' = 1
               /\ Dist(tick', openTimer'[h]) <= 3 * races' - 1
        BY <1>t, <2>1, <2>3, <3>1, EndOpen
      <3> QED BY <3>1, <3>2 DEF EndPass, OpenAt, OpenAtPass, Age
    <2>4. CASE h < i
      <3>1. openTimer'[h] = openTimer[h] /\ OpenDone(h, openTimer[h])
        BY <1>t, <2>1, <2>4 DEF TypeOK, OpenInv, OpenAt, Heaters
      <3>2. CASE i < N
        BY <1>t, <2>1, <2>2, <2>4, <3>1, <3>2
           DEF OpenAt, OpenDone, Total, Age, Budget, Stretch, Heaters
      <3> QED BY <1>t, <2>3, <3>1, <3>2 DEF Heaters
    <2>5. CASE h = i
      <3>1. openTimer'[h] = Running(Open, openTimer[i])
        BY <1>t, <2>1, <2>5 DEF TypeOK
      <3>2. OpenDone(h, openTimer'[h])
        <4>1. openTimer[i] # 0 => OpenAhead(i, openTimer[i])
          BY <1>t, <2>1 DEF OpenInv, OpenAt, Heaters
        <4> QED BY <1>t, <2>1, <2>5, <3>1, <4>1, VisitOpen
      <3>3. CASE i < N
        BY <1>t, <2>1, <2>2, <2>5, <3>2, <3>3
           DEF OpenAt, OpenDone, Total, Age, Budget, Stretch, Heaters
      <3> QED BY <1>t, <2>3, <3>2, <3>3 DEF Heaters
    <2>6. CASE h > i
      <3>1. openTimer'[h] = openTimer[h] /\ OpenAhead(h, openTimer[h])
        BY <1>t, <2>1, <2>6 DEF TypeOK, OpenInv, OpenAt, Heaters
      <3>2. i < N
        BY <1>t, <2>6 DEF Heaters
      <3> QED BY <1>t, <2>1, <2>2, <2>6, <3>1, <3>2
              DEF OpenAt, OpenAhead, Total, Age, Budget, Stretch, Heaters
    <2> QED BY <1>t, <2>4, <2>5, <2>6 DEF Heaters
  <1>5. CASE Race
    <2>1. /\ TimePasses /\ pc # "pass" /\ races' = races + 1 /\ since' = 0
          /\ UNCHANGED <<pc, now, i, cmdOn, dataTransmit, on, buttonRegim, openTimer>>
      BY <1>5 DEF Race, Disturb
    <2>2. /\ lastPulse'[h] = IF h \in on THEN tick' ELSE lastPulse[h]
          /\ Age(openTimer[h])' <= Age(openTimer[h]) + 1
          /\ Age(now)' <= Age(now) + 1
      BY <1>t, <2>1, HealthyPulse, AgeNext DEF Age
    <2>3. /\ Age(openTimer[h])' \in Nat /\ Age(now) \in Nat /\ Age(now)' \in Nat
          /\ Dist(now, openTimer[h]) \in Nat
      BY <1>t, <2>1, DistRange DEF Age
    <2>4. OpenAt(h, openTimer[h])
      BY <2>1 DEF OpenInv
    <2>5. CASE pc \in {"triple", "scan"}
      <3>1. OpenBefore(h, openTimer[h])'
        BY <1>t, <1>a, <2>1, <2>2, <2>3, <2>4, <2>5 DEF OpenAt, OpenBefore, Stretch
      <3> QED BY <2>1, <2>5, <3>1 DEF OpenAt
    <2>6. CASE pc = "check"
      <3>1. Total(openTimer[h])' <= Total(openTimer[h]) + 1
        BY <2>1, <2>2, <2>3 DEF Total
      <3>2. Total(openTimer[h]) \in Nat /\ Total(openTimer[h])' \in Nat
        BY <2>1, <2>3 DEF Total
      <3> QED BY <1>t, <2>1, <2>2, <2>4, <2>6, <3>1, <3>2
              DEF OpenAt, OpenAhead, OpenDone, Budget, Stretch
    <2> QED BY <1>t, <2>1, <2>5, <2>6 DEF TypeOK
  <1>6. CASE HandleTIM6
    <2>1. /\ pc # "pass" /\ races' = races + 1 /\ since' = 0 /\ buttonRegim' = 0
          /\ UNCHANGED <<pc, tick, now, i, cmdOn, dataTransmit, lastPulse, on, openTimer>>
      BY <1>6 DEF HandleTIM6, Disturb
    <2>2. OpenAt(h, openTimer[h])
      BY <2>1 DEF OpenInv
    <2>3. Total(openTimer[h]) \in Nat /\ Total(openTimer[h])' = Total(openTimer[h])
      BY <1>t, <2>1, DistRange DEF Total, Age
    <2>4. CASE pc \in {"triple", "scan"}
      BY <1>t, <1>a, <2>1, <2>2, <2>4 DEF OpenAt, OpenBefore, Age, Stretch
    <2>5. CASE pc = "check"
      BY <1>t, <2>1, <2>2, <2>3, <2>5
         DEF OpenAt, OpenAhead, OpenDone, Budget, Stretch
    <2> QED BY <1>t, <2>1, <2>4, <2>5 DEF TypeOK
  <1>7. CASE UNCHANGED vars
    BY <1>7 DEF OpenInv, OpenAt, OpenAtPass, OpenBefore, OpenAhead, OpenDone,
                Total, Age, Budget, Stretch
  <1>8. ~Fail /\ ~TripleError /\ ~StuckError /\ ~OpenError
    BY <1>t, NoFault, NoOpenError
  <1> QED BY <1>1, <1>2, <1>3, <1>4, <1>5, <1>6, <1>7, <1>8 DEF Next, Check
-----------------------------------------------------------------------------
(* A healthy oven is quiet.                                                *)

QuietInv == Calm =>
    /\ TripleInv /\ StuckInv /\ OpenInv
    /\ error = 0 /\ off

LEMMA QuietStep ==
  ASSUME pulseValid = 1, Heaters \notin Commands,
         3 * MaxRaces + 1 <= timeout, timeout < Word,
         BaseInv, QuietInv, [Next]_vars
  PROVE  QuietInv'
  <1> SUFFICES ASSUME Calm'
               PROVE  (TripleInv /\ StuckInv /\ OpenInv /\ error = 0 /\ off)'
    BY DEF QuietInv
  <1>1. Healthy' /\ slips' = {} /\ Calm /\ NoLostStop /\ NoLostStop' /\ TypeOK
    BY Monotone DEF Calm, NoLostStop, BaseInv
  <1>2. TripleInv /\ StuckInv /\ OpenInv /\ error = 0 /\ off
    BY <1>1 DEF QuietInv
  <1>3. MaxRaces + 1 < Word
    OBVIOUS
  <1>4. ~TripleError /\ ~StuckError /\ ~OpenError /\ ~Fail
    BY <1>1, <1>2, NoTripleError, NoStuckError, NoOpenError, NoFault
  <1>5. TripleInv'
    BY <1>1, <1>2, <1>3, TripleStep
  <1>6. StuckInv'
    BY <1>1, <1>2, <1>3, <1>4, StuckStep
  <1>7. OpenInv'
    BY <1>1, <1>2, <1>4, OpenStep
  <1>8. error' = 0 /\ off'
    <2>1. NoError \/ UNCHANGED result
      BY <1>4 DEF Next, Check, LoopPass, TripleNone, Scan, HeaterFine, Race,
                  HandleTIM6, vars
    <2>2. CASE tripleTenTimer = 0 /\ NoError
      <3>1. error' = 0 /\ off' = TRUE
        BY <2>2 DEF NoError
      <3> QED BY <3>1
    <2>3. CASE UNCHANGED result
      <3>1. error' = error /\ off' = off
        BY <2>3 DEF result
      <3> QED BY <1>2, <3>1
    <2>4. CASE tripleTenTimer # 0 /\ NoError
      BY <2>3, <2>4 DEF NoError
    <2> QED BY <2>1, <2>2, <2>3, <2>4
  <1> QED BY <1>2, <1>5, <1>6, <1>7, <1>8

(* A healthy oven whose relays are not masked shows no error and keeps its *)
(* supply, provided that a pulse is young for less than the pause of a     *)
(* pass (main.cpp:263), that no row of modeTable switches all heaters on,  *)
(* and that the timeout outlasts an anomaly stretched by interrupts: while *)
(* relays and current differ by a pass, each of at most MaxRaces of them   *)
(* adds up to three passes (CallBacks.cpp:139-222).                        *)
THEOREM HealthyIsQuietHolds ==
  ASSUME pulseValid = 1, Heaters \notin Commands,
         3 * MaxRaces + 1 <= timeout, timeout < Word
  PROVE  Spec => []HealthyIsQuiet
  <1>1. Init => QuietInv
    <2> SUFFICES ASSUME Init
                 PROVE  QuietInv
      OBVIOUS
    <2>1. TripleInv /\ StuckInv /\ OpenInv /\ error = 0
      BY DEF Init, TripleInv, StuckInv, OpenInv
    <2>2. off
      BY DEF Init
    <2> QED BY <2>1, <2>2 DEF QuietInv
  <1>2. BaseInv /\ QuietInv /\ [Next]_vars => (BaseInv /\ QuietInv)'
    BY BaseStep, QuietStep
  <1>3. QuietInv => HealthyIsQuiet
    BY DEF QuietInv, HealthyIsQuiet, Calm
  <1> QED BY InitBase, <1>1, <1>2, <1>3, PTL DEF Spec
-----------------------------------------------------------------------------
(* A healthy oven with masked relays keeps its supply: warnings, no more.  *)

Supplied == Healthy /\ steady /\ NoLostStop

(* The heaters whose last pulse is of this tick. *)
Flowing == {h \in Heaters : lastPulse[h] = tick}

(* One of the two sets contains the other. *)
Nested(C, D) == C \subseteq D \/ D \subseteq C

(* Until the tick wraps, current flows in one set of heaters that was      *)
(* commanded, nested with the command of the moment, and in the first      *)
(* tick, where no pulse has come yet, in all heaters.                      *)
CurrentInv ==
    /\ \A h \in Heaters : lastPulse[h] <= tick
    /\ tick # 0 => IF pc = "pass" THEN Flowing = on
                                  ELSE /\ Flowing \in Commands \cup {{}}
                                       /\ Nested(Flowing, dataTransmit)
    /\ Nested(on, dataTransmit)

LooksStuck(h) == h \notin cmdOn /\ lastPulse[h] = tick
LooksOpen(h) == h \in cmdOn /\ lastPulse[h] # tick

(* What the running check has seen of the heaters before i. *)
SeenStuck(h, t) == LooksStuck(h) /\ (h \in on => buttonRegim = 0 /\ t = tick)

SeenInv == \A h \in 1 .. i - 1 :
    /\ stuckTimer[h] # 0 => SeenStuck(h, stuckTimer[h])
    /\ openTimer[h] # 0 => LooksOpen(h)

(* What a warning leaves unvisited has no timer of a stuck relay: the two  *)
(* anomalies never come at the same time.                                  *)
ApartInv ==
    \/ \A h \in i .. N : stuckTimer[h] = 0
    \/ error = 0 /\ \A h \in i .. N : openTimer[h] = 0

(* A timer of a stuck relay is one pass old or is about to be reset. *)
ShortInv == \A h \in Heaters : stuckTimer[h] # 0 =>
    /\ stuckTimer[h] <= tick
    /\ pc = "pass" => h \notin on \/ (buttonRegim = 0 /\ stuckTimer[h] + 1 = tick)
    /\ pc # "pass" /\ h >= i =>
          lastPulse[h] # tick \/ (h \notin on /\ stuckTimer[h] + 1 = tick)

SupplyInv == Supplied =>
    /\ tripleTenTimer = 0 /\ error <= N /\ off
    /\ CurrentInv /\ SeenInv /\ ApartInv /\ ShortInv

(* In every row of modeTable the sets are nested. *)
Chain == \A rows \in Modes : \A C, D \in rows : Nested(C, D)

LEMMA ChooseNested ==
  ASSUME Chain, NoLostStop, Choose
  PROVE  Nested(on, dataTransmit')
  BY DEF Choose, Chain, NoLostStop, Nested

LEMMA NowIsTick ==
  ASSUME BaseInv, steady, pc # "pass"
  PROVE  now = tick
  <1>1. since = 3 /\ races = 0
    BY Zenon DEF BaseInv, SteadyInv
  <1>2. now \in Tick /\ tick \in Tick
    BY DEF BaseInv, TypeOK
  <1>3. Dist(tick, now) = 0
    BY <1>1, <1>2, DistRange DEF BaseInv, ClockInv, Age, Late
  <1> QED BY <1>2, <1>3, DistRange

LEMMA Apart ==
  ASSUME BaseInv, NoLostStop, CurrentInv, pc = "check",
         NEW g \in Heaters, NEW h \in Heaters, LooksOpen(g), LooksStuck(h)
  PROVE  FALSE
  <1>1. tick # 0
    BY DEF LooksOpen, CurrentInv, BaseInv, TypeOK, Tick
  <1>2. Nested(Flowing, dataTransmit) /\ cmdOn \in {{}, dataTransmit}
    BY <1>1 DEF CurrentInv, BaseInv, RelaysInv
  <1>3. h \in Flowing \ cmdOn /\ g \in cmdOn \ Flowing
    BY DEF LooksOpen, LooksStuck, Flowing
  <1> QED BY <1>2, <1>3 DEF Nested

(* The end of a check before the tick wraps. *)
LEMMA EndCurrent ==
  ASSUME TypeOK, Healthy, CurrentInv, EndPass, steady'
  PROVE  CurrentInv' /\ tick' = tick + 1
  <1>1. tick \in Tick /\ tick' = (tick + 1) % Word /\ tick' # 0
    <2>1. tick' # 0
      BY Zenon DEF EndPass
    <2> QED BY <2>1 DEF EndPass, TimePasses, TypeOK
  <1>2. tick' = tick + 1
    BY <1>1, ModSucc DEF Tick
  <1>3. \A h \in Heaters : lastPulse'[h] = IF h \in on THEN tick' ELSE lastPulse[h]
    BY HealthyPulse DEF EndPass
  <1>4. \A h \in Heaters : lastPulse[h] <= tick /\ lastPulse[h] \in Tick
    BY DEF CurrentInv, TypeOK
  <1>5. \A h \in Heaters : lastPulse'[h] <= tick' /\ (lastPulse'[h] = tick' <=> h \in on)
    BY <1>1, <1>2, <1>3, <1>4 DEF Tick
  <1>6. Flowing' = on'
    BY <1>5 DEF Flowing, TypeOK, EndPass
  <1> QED BY <1>2, <1>5, <1>6 DEF CurrentInv, EndPass

LEMMA NoErrorButWarnings ==
  ASSUME pulseValid = 1, timeout >= 1, BaseInv, Supplied, SupplyInv
  PROVE  ~TripleError /\ ~StuckError
  <1>t. /\ TypeOK /\ tick \in Tick /\ now \in Tick
        /\ CurrentInv /\ ShortInv /\ tripleTenTimer = 0
    BY DEF BaseInv, TypeOK, SupplyInv
  <1>s. steady
    BY Zenon DEF Supplied
  <1>1. ~TripleError
    BY <1>t, NotExpired DEF TripleError, TypeOK
  <1>2. ASSUME StuckError PROVE FALSE
    <2>1. /\ now = tick /\ i \in Heaters /\ stuckTimer[i] \in Tick
          /\ lastPulse[i] \in Tick /\ pc = "check"
      BY <1>2, <1>s, <1>t, NowIsTick DEF StuckError, TypeOK
    <2>2. lastPulse[i] = tick
      BY <1>2, <1>t, <2>1, CurrentNow DEF StuckError, Stuck
    <2>3. stuckTimer[i] # 0 => stuckTimer[i] + 1 = tick
      BY <1>t, <2>1, <2>2 DEF ShortInv, Heaters
    <2>4. stuckTimer[i] # 0 => Dist(now, stuckTimer[i]) <= timeout
      BY <1>t, <2>1, <2>3, DistValue DEF Tick
    <2> QED BY <1>2, <1>t, <2>1, <2>4, NotExpired DEF StuckError
  <1> QED BY <1>1, <1>2

(* What the check notes of the heater it looks at. *)
LEMMA VisitBoth ==
  ASSUME pulseValid = 1, BaseInv, steady, NoLostStop,
         SeenInv, ShortInv, HeaterFine, NEW h \in 1 .. i
  PROVE  /\ stuckTimer'[h] # 0 => SeenStuck(h, stuckTimer'[h])
         /\ openTimer'[h] # 0 => LooksOpen(h)
  <1>t. /\ TypeOK /\ now = tick /\ i \in Heaters /\ h \in Heaters /\ pc = "check"
        /\ lastPulse[i] \in Tick
        /\ stuckTimer' = [stuckTimer EXCEPT ![i] = Running(Stuck, @)]
        /\ openTimer' = [openTimer EXCEPT ![i] = Running(Open, @)]
    BY NowIsTick DEF BaseInv, TypeOK, HeaterFine, Heaters
  <1>1. CASE h < i
    <2>1. stuckTimer'[h] = stuckTimer[h] /\ openTimer'[h] = openTimer[h]
      BY <1>t, <1>1 DEF TypeOK, Heaters
    <2> QED BY <1>t, <1>1, <2>1 DEF SeenInv, Heaters
  <1>2. CASE h = i
    <2>1. /\ stuckTimer'[i] = Running(Stuck, stuckTimer[i])
          /\ openTimer'[i] = Running(Open, openTimer[i])
      BY <1>t DEF TypeOK
    <2>2. ASSUME openTimer'[i] # 0 PROVE LooksOpen(i)
      BY <1>t, <2>1, <2>2, CurrentNow DEF Running, Open, LooksOpen
    <2>3. ASSUME stuckTimer'[i] # 0 PROVE SeenStuck(i, stuckTimer'[i])
      <3>1. Stuck /\ stuckTimer'[i] = Started(stuckTimer[i])
        BY <2>1, <2>3 DEF Running
      <3>2. i \notin cmdOn /\ lastPulse[i] = tick
        BY <1>t, <3>1, CurrentNow DEF Stuck
      <3>3. i \in on => buttonRegim = 0
        BY <1>t, <3>2 DEF BaseInv, RelaysInv
      <3>4. i \in on => stuckTimer[i] = 0
        BY <1>t, <3>2 DEF ShortInv, Heaters
      <3> QED BY <1>t, <3>1, <3>2, <3>3, <3>4 DEF SeenStuck, LooksStuck, Started
    <2> QED BY <1>2, <2>2, <2>3
  <1> QED BY <1>t, <1>1, <1>2 DEF Heaters

LEMMA SupplyStep ==
  ASSUME pulseValid = 1, Heaters \notin Commands, Chain, timeout >= 1,
         BaseInv, SupplyInv, [Next]_vars
  PROVE  SupplyInv'
  <1> SUFFICES ASSUME Supplied'
               PROVE  /\ (tripleTenTimer = 0 /\ error <= N /\ off)'
                      /\ CurrentInv' /\ SeenInv' /\ ApartInv' /\ ShortInv'
    BY DEF SupplyInv
  <1>s. Supplied /\ NoLostStop'
    <2>1. Healthy' /\ steady' /\ NoLostStop'
      BY DEF Supplied
    <2>2. Healthy /\ steady /\ NoLostStop
      BY <2>1, Monotone DEF NoLostStop
    <2> QED BY <2>1, <2>2 DEF Supplied
  <1>t. /\ TypeOK /\ TypeOK' /\ Healthy /\ Healthy' /\ steady /\ steady' /\ NoLostStop
        /\ tick \in Tick /\ i \in Heaters
        /\ \A h \in Heaters : lastPulse[h] \in Tick /\ stuckTimer[h] \in Tick
        /\ CurrentInv /\ SeenInv /\ ApartInv /\ ShortInv
        /\ tripleTenTimer = 0 /\ error <= N /\ off
    BY <1>s, BaseStep DEF BaseInv, TypeOK, Supplied, SupplyInv
  <1> USE DEF vars, time, chance, fault, loop, local, timers, result
  <1>1. CASE LoopPass
    <2>1. /\ UNCHANGED <<tick, lastPulse, i, stuckTimer, openTimer, tripleTenTimer>>
          /\ error' = error /\ off' = off
          /\ pc = "pass" /\ pc' = "triple" /\ i = 1
      BY <1>1 DEF LoopPass, BaseInv, ClockInv
    <2>2. CurrentInv'
      <3>1. tick # 0 => Flowing \in Commands \cup {{}}
        BY <1>t, <2>1 DEF CurrentInv, BaseInv, RelaysInv
      <3>2. Flowing' = Flowing
        BY <2>1 DEF Flowing
      <3>3. Nested(on, dataTransmit')
        BY <1>1, <1>t, ChooseNested
           DEF LoopPass, Idle, Dial, Cook, CookMasked, Cold, CurrentInv
      <3>4. tick # 0 => Nested(Flowing, dataTransmit')
        BY <1>t, <2>1, <3>3 DEF CurrentInv
      <3>5. Nested(on', dataTransmit')
        BY <1>1, <3>3 DEF LoopPass, Idle, Dial, Cook, CookMasked, Cold, Nested
      <3> QED BY <1>t, <2>1, <3>1, <3>2, <3>4, <3>5 DEF CurrentInv
    <2>3. SeenInv' /\ ApartInv'
      BY <1>t, <2>1 DEF SeenInv, ApartInv
    <2>4. ShortInv'
      <3> SUFFICES ASSUME NEW h \in Heaters, stuckTimer[h] # 0, lastPulse[h] = tick
                   PROVE  h \notin on' /\ stuckTimer[h] + 1 = tick
        BY <1>t, <2>1 DEF ShortInv
      <3>1. tick # 0
        BY <1>t DEF ShortInv, Tick
      <3>2. h \in on
        BY <2>1, <3>1, <1>t DEF CurrentInv, Flowing
      <3>3. buttonRegim = 0 /\ stuckTimer[h] + 1 = tick
        BY <1>t, <2>1, <3>2 DEF ShortInv
      <3>4. h \notin on'
        BY <1>1, <1>s, <3>2, <3>3
           DEF LoopPass, Idle, Dial, Pressed, Cook, CookMasked, Cold, NoLostStop
      <3> QED BY <3>3, <3>4
    <2> QED BY <1>t, <2>1, <2>2, <2>3, <2>4
  <1>2. CASE TripleNone
    <2>1. /\ UNCHANGED <<tick, lastPulse, i, on, dataTransmit, buttonRegim, cmdOn,
                         stuckTimer, openTimer>>
          /\ error' = error /\ off' = off
          /\ pc = "triple" /\ pc' = "scan" /\ i = 1
      BY <1>2 DEF TripleNone, BaseInv, ClockInv
    <2>2. tripleTenTimer' = 0
      <3>1. CASE AllLive
        <4>1. now = tick /\ \A h \in Heaters : lastPulse[h] = tick
          BY <1>t, <2>1, <3>1, NowIsTick, CurrentNow DEF AllLive
        <4>2. 1 \in Heaters /\ Flowing = Heaters
          BY <4>1 DEF Flowing, Heaters
        <4>3. tick = 0
          BY <1>t, <2>1, <4>2 DEF CurrentInv
        <4> QED BY <1>2, <1>t, <3>1, <4>1, <4>3 DEF TripleNone, Started
      <3>2. CASE ~AllLive
        BY <1>2, <3>2 DEF TripleNone
      <3> QED BY <3>1, <3>2
    <2>3. Flowing' = Flowing
      BY <2>1 DEF Flowing
    <2>4. CurrentInv' /\ SeenInv' /\ ApartInv' /\ ShortInv'
      BY <1>t, <2>1, <2>3 DEF CurrentInv, SeenInv, ApartInv, ShortInv
    <2> QED BY <1>t, <2>1, <2>2, <2>4
  <1>3. CASE Scan
    <2>1. /\ UNCHANGED <<tick, lastPulse, on, dataTransmit, stuckTimer, openTimer,
                         tripleTenTimer>>
          /\ error' = error /\ off' = off
          /\ pc = "scan" /\ pc' = "check" /\ i = 1 /\ i' = 1
      BY <1>3 DEF Scan, BaseInv, ClockInv
    <2>2. Flowing' = Flowing
      BY <2>1 DEF Flowing
    <2>3. CurrentInv' /\ SeenInv' /\ ApartInv' /\ ShortInv'
      BY <1>t, <2>1, <2>2 DEF CurrentInv, SeenInv, ApartInv, ShortInv
    <2> QED BY <1>t, <2>1, <2>3
  <1>4. CASE OpenError
    <2>1. /\ pc = "check" /\ pc' = "pass" /\ i' = 1 /\ EndPass
          /\ HandleError(i)
          /\ stuckTimer' = [stuckTimer EXCEPT ![i] = 0]
          /\ UNCHANGED <<on, tripleTenTimer>>
          /\ Open /\ Expired(openTimer[i])
      BY <1>4 DEF OpenError, EndPass
    <2>2. LooksOpen(i) /\ openTimer[i] # 0
      <3>1. LooksOpen(i)
        BY <1>t, <2>1, NowIsTick, CurrentNow DEF Open, LooksOpen
      <3>2. openTimer[i] \in Tick
        BY <1>t DEF TypeOK
      <3> QED BY <1>t, <2>1, <3>1, <3>2, NotExpired
    <2>3. \A h \in Heaters : stuckTimer'[h] = 0
      <3> SUFFICES ASSUME NEW h \in Heaters, h # i
                   PROVE  stuckTimer[h] = 0
        BY <1>t, <2>1 DEF TypeOK
      <3>1. CASE h < i
        <4>1. stuckTimer[h] # 0 => LooksStuck(h)
          BY <1>t, <3>1 DEF SeenInv, SeenStuck, Heaters
        <4> QED BY <1>t, <2>1, <2>2, <4>1, Apart
      <3>2. CASE h > i
        BY <1>t, <2>2, <3>2 DEF ApartInv, Heaters
      <3> QED BY <1>t, <3>1, <3>2 DEF Heaters
    <2>4. CurrentInv'
      BY <1>t, <2>1, EndCurrent
    <2>5. SeenInv' /\ ApartInv' /\ ShortInv'
      BY <2>1, <2>3 DEF SeenInv, ApartInv, ShortInv, Heaters
    <2>6. tripleTenTimer' = 0 /\ error' <= N /\ off'
      <3>1. i <= N
        BY <1>t DEF Heaters
      <3>2. error' <= N /\ off' = TRUE
        BY <2>1, <3>1 DEF HandleError
      <3> QED BY <1>t, <2>1, <3>2
    <2> QED BY <2>4, <2>5, <2>6
  <1>5. CASE HeaterFine
    <2>1. /\ pc = "check"
          /\ UNCHANGED <<on, dataTransmit, buttonRegim, tripleTenTimer>>
          /\ stuckTimer' = [stuckTimer EXCEPT ![i] = Running(Stuck, @)]
          /\ openTimer' = [openTimer EXCEPT ![i] = Running(Open, @)]
      BY <1>5 DEF HeaterFine, EndPass, NoError
    <2>2. \A h \in 1 .. i : /\ stuckTimer'[h] # 0 => SeenStuck(h, stuckTimer'[h])
                            /\ openTimer'[h] # 0 => LooksOpen(h)
      BY <1>5, <1>t, VisitBoth
    <2>3. \A h \in i + 1 .. N : /\ h \in Heaters
                                /\ stuckTimer'[h] = stuckTimer[h]
                                /\ openTimer'[h] = openTimer[h]
      BY <1>t, <2>1 DEF TypeOK, Heaters
    <2>4. CASE i < N
      <3>1. /\ UNCHANGED <<pc, tick, lastPulse, cmdOn>>
            /\ i' = i + 1 /\ error' = error /\ off' = off
        BY <1>5, <2>4 DEF HeaterFine
      <3>2. CurrentInv'
        <4>1. Flowing' = Flowing
          BY <3>1 DEF Flowing
        <4> QED BY <1>t, <2>1, <3>1, <4>1 DEF CurrentInv
      <3>3. SeenInv'
        BY <1>t, <2>1, <2>2, <3>1 DEF SeenInv, SeenStuck, LooksStuck, LooksOpen, Heaters
      <3>4. ApartInv'
        BY <1>t, <2>3, <3>1 DEF ApartInv, Heaters
      <3>5. ShortInv'
        <4> SUFFICES ASSUME NEW h \in Heaters, stuckTimer'[h] # 0
                     PROVE  /\ stuckTimer'[h] <= tick
                            /\ h >= i + 1 => \/ lastPulse[h] # tick
                                             \/ h \notin on /\ stuckTimer'[h] + 1 = tick
          BY <2>1, <3>1 DEF ShortInv
        <4>1. CASE h = i
          <5>1. stuckTimer'[h] \in {now, stuckTimer[h]} /\ now = tick
            BY <1>t, <2>1, <4>1, NowIsTick DEF TypeOK, Running, Started
          <5> QED BY <1>t, <4>1, <5>1 DEF ShortInv, Heaters, Tick
        <4>2. CASE h # i
          <5>1. stuckTimer'[h] = stuckTimer[h]
            BY <1>t, <2>1, <4>2 DEF TypeOK
          <5> QED BY <1>t, <2>1, <4>2, <5>1 DEF ShortInv, Heaters
        <4> QED BY <4>1, <4>2
      <3> QED BY <1>t, <2>1, <3>1, <3>2, <3>3, <3>4, <3>5
    <2>5. CASE i = N
      <3>1. EndPass /\ NoError
        BY <1>5, <2>5 DEF HeaterFine
      <3>2. pc' = "pass" /\ i' = 1 /\ TimePasses
        BY <3>1 DEF EndPass
      <3>3. CurrentInv' /\ tick' = tick + 1
        BY <1>t, <3>1, EndCurrent
      <3>4. error' = 0 /\ off' = TRUE
        BY <1>t, <3>1 DEF NoError
      <3>5. SeenInv'
        BY <3>2 DEF SeenInv
      <3>6. ApartInv'
        <4> SUFFICES ASSUME NEW g \in Heaters, openTimer'[g] # 0,
                            NEW h \in Heaters, stuckTimer'[h] # 0
                     PROVE  FALSE
          BY <3>2, <3>4 DEF ApartInv, Heaters
        <4>1. LooksOpen(g) /\ LooksStuck(h)
          BY <2>2, <2>5 DEF Heaters, SeenStuck
        <4> QED BY <1>t, <2>1, <4>1, Apart
      <3>7. ShortInv'
        <4> SUFFICES ASSUME NEW h \in Heaters, stuckTimer'[h] # 0
                     PROVE  /\ stuckTimer'[h] <= tick + 1
                            /\ h \in on => buttonRegim = 0 /\ stuckTimer'[h] = tick
          BY <1>t, <2>1, <3>2, <3>3 DEF ShortInv, Tick
        <4>1. h \in on => buttonRegim = 0 /\ stuckTimer'[h] = tick
          BY <2>2, <2>5 DEF Heaters, SeenStuck
        <4>2. stuckTimer'[h] <= tick
          <5>1. stuckTimer'[h] \in {now, stuckTimer[h]} /\ now = tick
            BY <1>t, <2>1, NowIsTick DEF TypeOK, Running, Started
          <5> QED BY <1>t, <5>1 DEF ShortInv, Tick
        <4>3. stuckTimer'[h] \in Tick
          BY <1>t DEF TypeOK
        <4> QED BY <1>t, <4>1, <4>2, <4>3 DEF Tick
      <3> QED BY <1>t, <2>1, <3>3, <3>4, <3>5, <3>6, <3>7
    <2> QED BY <1>t, <2>4, <2>5 DEF Heaters
  <1>6. CASE UNCHANGED vars
    <2>1. Flowing' = Flowing
      BY <1>6 DEF Flowing
    <2>2. CurrentInv' /\ SeenInv' /\ ApartInv' /\ ShortInv'
      BY <1>6, <1>t, <2>1 DEF CurrentInv, SeenInv, SeenStuck, LooksStuck, LooksOpen,
                              ApartInv, ShortInv
    <2>3. tripleTenTimer' = tripleTenTimer /\ error' = error /\ off' = off
      BY <1>6
    <2> QED BY <1>t, <2>2, <2>3
  <1>7. ~Fail /\ ~TripleError /\ ~StuckError
    BY <1>s, <1>t, NoFault, NoErrorButWarnings
  <1>8. ~Race /\ ~HandleTIM6
    <2>1. ~Disturb
      BY <1>t, Zenon DEF Disturb
    <2> QED BY <2>1 DEF Race, HandleTIM6
  <1> QED BY <1>1, <1>2, <1>3, <1>4, <1>5, <1>6, <1>7, <1>8 DEF Next, Check

(* A healthy oven keeps its supply even if relays are masked and warnings  *)
(* come, until an interrupt falls into a check or the tick wraps: provided *)
(* that a pulse is young for less than the pause of a pass, that no row of *)
(* modeTable switches all heaters on, and that the sets of a row are       *)
(* nested, so that no pass switches one relay on and another one off       *)
(* (CallBacks.cpp:182-218, Protection.cpp:45-55).                          *)
THEOREM HealthyKeepsSupplyHolds ==
  ASSUME pulseValid = 1, Heaters \notin Commands, Chain, timeout >= 1
  PROVE  Spec => []HealthyKeepsSupply
  <1>1. Init => SupplyInv
    <2> SUFFICES ASSUME Init
                 PROVE  SupplyInv
      OBVIOUS
    <2>1. CurrentInv
      <3>1. tick = 0 /\ \A h \in Heaters : lastPulse[h] = 0
        BY DEF Init
      <3>2. Nested(on, dataTransmit)
        BY DEF Init, Nested
      <3> QED BY <3>1, <3>2 DEF CurrentInv
    <2>2. SeenInv /\ ShortInv
      BY DEF Init, SeenInv, ShortInv
    <2>3. ApartInv
      BY DEF Init, ApartInv, Heaters
    <2>4. tripleTenTimer = 0 /\ error <= N
      BY DEF Init
    <2>5. off
      BY DEF Init
    <2> QED BY <2>1, <2>2, <2>3, <2>4, <2>5 DEF SupplyInv
  <1>2. BaseInv /\ SupplyInv /\ [Next]_vars => (BaseInv /\ SupplyInv)'
    BY BaseStep, SupplyStep
  <1>3. SupplyInv => HealthyKeepsSupply
    BY DEF SupplyInv, HealthyKeepsSupply, Supplied, NoLostStop
  <1> QED BY InitBase, <1>1, <1>2, <1>3, PTL DEF Spec
=============================================================================
