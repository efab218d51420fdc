------------------------------ MODULE Protection ------------------------------
(***************************************************************************)
(* The supervision of heaters and relays: EXTIManager in User/Callbacks,   *)
(* which sees the current of each heater by its pulses, and                *)
(* Protection::checkProtection, which reports a relay that does not open   *)
(* or a heater without current, and drives the cut-off relay.              *)
(*                                                                         *)
(* main.cpp:262 has the call commented out; the module runs it where it    *)
(* stands there, once in every pass of the main loop ("вызывать в          *)
(* while(1)", CallBacks.hpp:54).  What the rest of the loop does to        *)
(* buttonRegim, to the relays and to Heat::dataTransmit is LoopPass, the   *)
(* part of module Oven that can be seen from here.  Heaters are numbered   *)
(* from 1, so that the error codes are the code's: h for a heater without  *)
(* current, N + h for a relay that does not open, 2N + 1 for current in    *)
(* all heaters.                                                            *)
(***************************************************************************)
EXTENDS Integers, FiniteSets

CONSTANTS
    N,          \* 3 heaters: Down, Grill, Right
    Modes,      \* for each mode, the sets of heaters its row of modeTable
                \* switches on, at low and at high heat
    Slips,      \* which passes that mislead the check happen
    FaultMax,   \* most heaters and relays that fail
    MaxRaces,   \* most interrupts that fall into checks one after the other
    Word,       \* 2^32: what HAL_GetTick wraps at
    pulseValid, \* 100 ms: a pulse younger than that means current
    timeout     \* 5000 ms: an anomaly older than that is reported

Heaters == 1 .. N

Commands == UNION Modes

ASSUME HeaterAssumption == N \in Nat \ {0} /\ Commands \subseteq SUBSET Heaters
ASSUME SlipAssumption == Slips \subseteq {"masked", "lostStop"}
ASSUME LimitAssumption ==
    /\ FaultMax \in Nat
    /\ MaxRaces \in Nat
    /\ Word \in Nat \ {0}
    /\ pulseValid \in Nat
    /\ timeout \in Nat

VARIABLES
    pc,             \* the stretch of the main program that runs next
    tick,           \* HAL_GetTick()
    now,            \* the local now of the check that is running
    lastPulse,      \* the tick of the last current pulse of each heater
    stuckTimer,     \* since when there is current without command, or 0
    openTimer,      \* since when there is a command without current, or 0
    tripleTenTimer, \* since when there is current in all heaters, or 0
    cmdOn,          \* checkHeaters: the heaters that are to be on
    i,              \* checkHeaters: the heater looked at next
    buttonRegim,    \* 0: choose temperature, 1: choose time, 2: cook
    dataTransmit,   \* Heat::dataTransmit, the heaters in it
    on,             \* the heaters whose relay the HC595 switches on
    welded,         \* heaters whose relay does not open any more
    broken,         \* heaters through which no current flows any more
    races,          \* interrupts that have fallen into the last checks
    since,          \* passes that have ended since, at most 3
    error,          \* buf_485[19], the error on the display
    off,            \* the output Off; FALSE makes the cut-off relay trip
    slips,          \* history: the misleading passes so far
    steady          \* history: no such interrupt, and no wrap of the tick

fault == <<welded, broken>>
timers == <<stuckTimer, openTimer, tripleTenTimer>>
time == <<tick, lastPulse, steady>>
chance == <<races, since>>
local == <<now, cmdOn, i>>
loop == <<buttonRegim, dataTransmit, on, slips>>
result == <<error, off>>
vars == <<pc, time, chance, local, timers, loop, fault, result>>

Tick == 0 .. Word - 1

TypeOK ==
    /\ pc \in {"pass", "triple", "scan", "check"}
    /\ {tick, now, tripleTenTimer} \subseteq Tick
    /\ lastPulse \in [Heaters -> Tick]
    /\ stuckTimer \in [Heaters -> Tick]
    /\ openTimer \in [Heaters -> Tick]
    /\ {cmdOn, dataTransmit, on, welded, broken} \subseteq SUBSET Heaters
    /\ i \in Heaters
    /\ buttonRegim \in 0 .. 2
    /\ races \in 0 .. MaxRaces
    /\ since \in 0 .. 3
    /\ error \in 0 .. 2 * N + 1
    /\ off \in BOOLEAN
    /\ slips \subseteq Slips
    /\ steady \in BOOLEAN

Init ==
    /\ pc = "pass"
    /\ tick = 0 /\ now = 0 /\ tripleTenTimer = 0
    /\ races = 0 /\ since = 3
    /\ lastPulse = [h \in Heaters |-> 0]
    /\ stuckTimer = [h \in Heaters |-> 0]
    /\ openTimer = [h \in Heaters |-> 0]
    /\ cmdOn = {} /\ i = 1
    /\ buttonRegim = 0 /\ dataTransmit = {} /\ on = {}
    /\ welded = {} /\ broken = {}
    /\ error = 0 /\ off = TRUE
    /\ slips = {} /\ steady = TRUE
-----------------------------------------------------------------------------
(* Time and current.                                                       *)

(* The heaters through which current flows: each sends a pulse every 20 ms *)
(* (EXTI), which stores the tick.                                          *)
Live == (on \ broken) \cup welded

Pulse == lastPulse' = [h \in Heaters |-> IF h \in Live THEN tick'
                                                       ELSE lastPulse[h]]

TimePasses == tick' = (tick + 1) % Word /\ Pulse

(* An interrupt falls into a check, not between two checks: at most        *)
(* MaxRaces do, until three passes in a row have been spared.              *)
Disturb == /\ pc # "pass"
           /\ races < MaxRaces
           /\ races' = races + 1
           /\ since' = 0
           /\ steady' = FALSE

Settle == IF since < 3 THEN since' = since + 1 /\ UNCHANGED races
                       ELSE races' = 0 /\ UNCHANGED since

(* The tick and the pulses come while a check runs. *)
Race ==
    /\ Disturb
    /\ TimePasses
    /\ UNCHANGED <<pc, local, timers, loop, fault, result>>

Since(t) == (now - t) % Word

HasCurrent(h) == Since(lastPulse[h]) < pulseValid

(* mutant: a running timer starts again *)
StartedAgain(t) == now

(* A timer that is 0 does not run, and starts now. *)
Started(t) == IF t = 0 THEN now ELSE t

Expired(t) == Since(Started(t)) > timeout
-----------------------------------------------------------------------------
(* The rest of the main loop, as module Oven has it in detail.             *)

(* State 0: everything is off. *)
Idle == buttonRegim' = 0 /\ on' = {} /\ UNCHANGED <<dataTransmit, slips>>

(* A press in the pass in which cooking was asked to stop hides the stop   *)
(* from state 0: the relays stay on (oven_lost_stop of module Oven).       *)
Pressed == IF buttonRegim = 0 /\ on # {}
           THEN "lostStop" \in Slips /\ slips' = slips \cup {"lostStop"}
           ELSE UNCHANGED slips

(* State 1: the time is dialled, in mode Pre passed over; the relays are   *)
(* left alone.                                                             *)
Dial == /\ buttonRegim \in {0, 1}
        /\ buttonRegim' \in {1, 2}
        /\ Pressed
        /\ UNCHANGED <<dataTransmit, on>>

(* modeTable[numberRegimCook][hiLowMode].  The mode changes only through a *)
(* pass that switches the relays off, unless that stop is lost.            *)
Choose == \E rows \in Modes :
    /\ dataTransmit' \in rows
    /\ on \in rows \cup {{}} \/ "lostStop" \in slips

(* State 2: ajustHeat595 chooses and sends; a request to stop after that   *)
(* takes effect in the next pass.                                          *)
Cook == /\ buttonRegim # 0
        /\ buttonRegim' \in {0, 2}
        /\ Choose
        /\ on' = dataTransmit' \/ (on' = on /\ buttonRegim' = 0)
        /\ UNCHANGED slips

(* The door, the overheating or the time limit masks what is sent, not     *)
(* dataTransmit (Heat.cpp:24-26).                                          *)
CookMasked == /\ buttonRegim # 0 /\ "masked" \in Slips
              /\ buttonRegim' \in {0, 2}
              /\ Choose
              /\ on' = {}
              /\ slips' = slips \cup {"masked"}

(* The knob is turned to Off, Set or Light while cooking: the relays are   *)
(* cleared, buttonRegim and dataTransmit keep their values.                *)
Cold == /\ buttonRegim = 2 /\ "masked" \in Slips
        /\ on' = {}
        /\ slips' = slips \cup {"masked"}
        /\ UNCHANGED <<buttonRegim, dataTransmit>>

(* ... and checkProtection begins; now is read there and in getRealStatus. *)
LoopPass ==
    /\ pc = "pass" /\ pc' = "triple"
    /\ Idle \/ Dial \/ Cook \/ CookMasked \/ Cold
    /\ now' = tick
    /\ UNCHANGED <<time, chance, cmdOn, i, timers, fault, result>>
-----------------------------------------------------------------------------
(* Protection::checkProtection.                                            *)

(* The check returns; the main loop pauses for 100 ms. *)
EndPass ==
    /\ pc' = "pass"
    /\ now' = 0 /\ cmdOn' = {} /\ i' = 1
    /\ TimePasses
    /\ steady' = (steady /\ tick' # 0)
    /\ Settle
    /\ UNCHANGED <<dataTransmit, on, slips, fault>>

(* mutant: the codes start one too high *)
HandleErrorOneHigh(code) ==
    /\ error' = code + 1
    /\ off' = (code <= N)
    /\ buttonRegim' = IF code > N THEN 0 ELSE buttonRegim

(* mutant: a warning cuts the supply, too *)
HandleErrorCuts(code) ==
    /\ error' = code
    /\ off' = FALSE
    /\ buttonRegim' = IF code > N THEN 0 ELSE buttonRegim

(* A warning keeps the supply, any other error cuts it and ends cooking. *)
HandleError(code) ==
    /\ error' = code
    /\ off' = (code <= N)
    /\ buttonRegim' = IF code > N THEN 0 ELSE buttonRegim

NoError ==
    /\ IF tripleTenTimer = 0 THEN error' = 0 /\ off' = TRUE
                             ELSE UNCHANGED result
    /\ UNCHANGED buttonRegim

AllLive == \A h \in Heaters : HasCurrent(h)

TripleError ==
    /\ pc = "triple"
    /\ AllLive
    /\ Expired(tripleTenTimer)
    /\ tripleTenTimer' = Started(tripleTenTimer)
    /\ HandleError(2 * N + 1)
    /\ EndPass
    /\ UNCHANGED <<stuckTimer, openTimer>>

TripleNone ==
    /\ pc = "triple" /\ pc' = "scan"
    /\ AllLive => ~Expired(tripleTenTimer)
    /\ tripleTenTimer' = IF AllLive THEN Started(tripleTenTimer) ELSE 0
    /\ UNCHANGED <<time, chance, local, stuckTimer, openTimer, loop, fault, result>>

(* scanButton is called once more and may see a press; checkHeaters gets   *)
(* its result and computes cmdOn.                                          *)
Scan ==
    /\ pc = "scan" /\ pc' = "check"
    /\ \/ UNCHANGED <<buttonRegim, slips>>
       \/ buttonRegim < 2 /\ buttonRegim' = buttonRegim + 1 /\ Pressed
    /\ cmdOn' = IF buttonRegim' = 2 THEN dataTransmit ELSE {}
    /\ now' = tick
    /\ i' = 1
    /\ UNCHANGED <<time, chance, timers, dataTransmit, on, fault, result>>

Stuck == i \notin cmdOn /\ HasCurrent(i)
Open == i \in cmdOn /\ ~HasCurrent(i)

(* mutant: the timer is not reset when the anomaly has gone *)
NeverReset(anomaly, t) == IF anomaly THEN Started(t) ELSE t

Running(anomaly, t) == IF anomaly THEN Started(t) ELSE 0

(* An error ends the loop: the timers of the heaters after it, and here    *)
(* openTimer, keep their values.                                           *)
StuckError ==
    /\ pc = "check"
    /\ Stuck
    /\ Expired(stuckTimer[i])
    /\ stuckTimer' = [stuckTimer EXCEPT ![i] = Running(TRUE, @)]
    /\ HandleError(N + i)
    /\ EndPass
    /\ UNCHANGED <<openTimer, tripleTenTimer>>

OpenError ==
    /\ pc = "check"
    /\ Open
    /\ Expired(openTimer[i])
    /\ stuckTimer' = [stuckTimer EXCEPT ![i] = 0]
    /\ openTimer' = [openTimer EXCEPT ![i] = Running(TRUE, @)]
    /\ HandleError(i)
    /\ EndPass
    /\ UNCHANGED tripleTenTimer

HeaterFine ==
    /\ pc = "check"
    /\ Stuck => ~Expired(stuckTimer[i])
    /\ Open => ~Expired(openTimer[i])
    /\ stuckTimer' = [stuckTimer EXCEPT ![i] = Running(Stuck, @)]
    /\ openTimer' = [openTimer EXCEPT ![i] = Running(Open, @)]
    /\ UNCHANGED tripleTenTimer
    /\ \/ /\ i < N
          /\ i' = i + 1
          /\ UNCHANGED <<pc, time, chance, now, cmdOn, loop, fault, result>>
       \/ i = N /\ NoError /\ EndPass
-----------------------------------------------------------------------------
(* The world.                                                              *)

(* TIM6: the oven is too hot, back to state 0 (Button::regim1Button). *)
HandleTIM6 ==
    /\ Disturb
    /\ buttonRegim' = 0
    /\ UNCHANGED <<pc, tick, lastPulse, local, timers, dataTransmit, on, slips,
                   fault, result>>

Fail ==
    /\ Cardinality(welded) + Cardinality(broken) < FaultMax
    /\ \E h \in Heaters \ (welded \cup broken) :
          \/ welded' = welded \cup {h} /\ UNCHANGED broken
          \/ broken' = broken \cup {h} /\ UNCHANGED welded
    /\ UNCHANGED <<pc, time, chance, local, timers, loop, result>>

Check == TripleError \/ TripleNone \/ Scan \/ StuckError \/ OpenError \/ HeaterFine

Next == LoopPass \/ Check \/ Race \/ HandleTIM6 \/ Fail

Spec == Init /\ [][Next]_vars

(* The main loop keeps running. *)
FairSpec == Spec /\ WF_vars(LoopPass \/ Check)
-----------------------------------------------------------------------------
(* What the check takes to be commanded. *)
Commanded == IF buttonRegim = 2 THEN dataTransmit ELSE {}

Healthy == welded = {} /\ broken = {}

(* As long as nothing is masked and no stop is lost, a healthy oven shows  *)
(* no error, whatever the switching of relays, the pulses that come during *)
(* a check and the wrap of the tick look like ("Для предотвращения ложных  *)
(* срабатываний", CallBacks.cpp:139) ...                                   *)
HealthyIsQuiet == Healthy /\ slips = {} => error = 0 /\ off

(* ... and with relays masked the false warnings do not cut its supply, as *)
(* long as no interrupt falls into a check and the tick does not wrap:     *)
(* then a stale or a late pulse may look like current without a command    *)
(* while a warning keeps the timers behind it from being reset             *)
(* (CallBacks.cpp:195-213).                                                *)
HealthyKeepsSupply ==
    Healthy /\ steady /\ "lostStop" \notin slips => off

(* The cut-off trips only if some relay does not open: "Только непрерывная *)
(* аномалия в течение 5000 мс приводит к генерации кода ошибки",           *)
(* CallBacks.cpp:141.                                                      *)
TripMeansWeld == ~off => welded # {}

(* A relay that does not open trips the cut-off while its heater is not    *)
(* commanded and no interrupt falls into a check any more (CallBacks.cpp:  *)
(* 145-148, Protection.cpp:51-55), unless the check keeps ending at a      *)
(* warning about an earlier heater (CallBacks.cpp:211), which a masked     *)
(* oven gives as well as a broken heater ...                               *)
WeldIsCutOff ==
    \A h \in Heaters : <>[](h \in welded \ Commanded /\ races = 0)
                          => []<>(~off \/ error \in 1 .. h - 1)

(* ... and a heater without current is shown while it is commanded         *)
(* (CallBacks.cpp:143-144, Protection.cpp:45-49), again unless an earlier  *)
(* one is.                                                                 *)
BreakIsShown ==
    \A h \in Heaters : <>[](h \in broken \cap Commanded /\ races = 0)
                          => []<>(error \in 1 .. h)
=============================================================================
