------------------------------ MODULE PlateSensor ------------------------------
(***************************************************************************)
(* The DS18B20 on the circuit board: tempSensor.cpp with the drivers       *)
(* ds18b20.c and onewire.c under it.  Sensor_init runs once at start-up,   *)
(* plateTemp in every pass of the main loop while the knob is at Set       *)
(* (FryMode.cpp:76), and the main loop waits for it.                       *)
(*                                                                         *)
(* One action is one 1-Wire transaction.  The bits are not modelled, but   *)
(* what a transaction yields on a wire that is connected, open, or held    *)
(* low is: an open wire reads ones, and on a low one each byte read stays  *)
(* the 0 that onewire.c:49 and 81 put there.                               *)
(***************************************************************************)
EXTENDS Integers, Sequences

CONSTANTS
    Temps,      \* temperatures that the sensor measures
    PowerOn,    \* 85: what its scratchpad holds before a conversion
    Limits      \* the alarm limits in its EEPROM

ASSUME PlateAssumption == Temps \subseteq 0 .. 125 /\ PowerOn \in 0 .. 125

VARIABLES
    script,     \* the calls that Sensor_init or plateTemp has still to make
    isConnected,\* temperatureSensor.isConnected
    temperature,\* temperatureSensor.temperature
    limits,     \* temperatureSensor.temperatureLimitHigh and -Low
    shown,      \* tempPlate, of which buf_485 holds the digits
    set,        \* the knob is at Set
    wire,       \* "sensor", "open" or "low"
    expects,    \* the sensor expects "reset", a "rom" or a "function" command
    converting, \* the sensor converts
    scratch,    \* its scratchpad: the temperature ...
    devLimits,  \* ... and the alarm limits
    calm        \* history: the wire has not changed since the last reset

driver == <<isConnected, temperature, limits>>
pad == <<scratch, devLimits>>
device == <<expects, converting, pad>>
vars == <<script, driver, shown, set, wire, device, calm>>

SensorInit == <<"Reset", "ReadRom", "ReadScratchpad",
                "Reset", "SkipRom", "WriteScratchpad">>

(* mutant: the result is read without a new reset *)
PlateTempOneReset == <<"Reset", "SkipRom", "ConvertT", "Wait",
                       "SkipRom", "ReadScratchpad", "Show">>

PlateTemp == <<"Reset", "SkipRom", "ConvertT", "Wait",
               "Reset", "SkipRom", "ReadScratchpad", "Show">>

Calls == {"Reset", "ReadRom", "SkipRom", "ConvertT", "Wait",
          "ReadScratchpad", "WriteScratchpad", "Show"}

Celsius == Temps \cup {0, PowerOn}

(* The display gets 7/9 of the temperature, rounded down. *)
Plate(t) == (t * 77777) \div 100000

TypeOK ==
    /\ script \in Seq(Calls)
    /\ {isConnected, set, converting, calm} \subseteq BOOLEAN
    /\ {temperature, scratch} \subseteq Celsius
    /\ {limits, devLimits} \subseteq {0, Limits}
    /\ shown \in {Plate(t) : t \in Celsius}
    /\ wire \in {"sensor", "open", "low"}
    /\ expects \in {"reset", "rom", "function"}

Init ==
    /\ script = SensorInit
    /\ isConnected = FALSE /\ temperature = 0 /\ limits = 0 /\ shown = 0
    /\ set \in BOOLEAN
    /\ wire \in {"sensor", "open", "low"}
    /\ expects = "reset" /\ converting = FALSE
    /\ scratch = PowerOn /\ devLimits = Limits
    /\ calm = FALSE
-----------------------------------------------------------------------------
(* The calls.                                                              *)

Call(name) == script # <<>> /\ Head(script) = name /\ script' = Tail(script)

(* OneWire_Reset: whatever differs from the byte sent is an answer. *)
Present == wire # "open"

Reset ==
    /\ Call("Reset")
    /\ isConnected' = Present
    /\ expects' = IF wire = "sensor" THEN "rom" ELSE expects
    /\ calm' = TRUE
    /\ UNCHANGED <<temperature, limits, shown, set, wire, converting, pad>>

(* The sensor hears a command only after ExecuteCommand's test of          *)
(* isConnected, on its wire, and when it expects one of this kind.         *)
Hears(kind) == isConnected /\ wire = "sensor" /\ expects = kind

(* ReadRom and SkipRom: the results are not used. *)
SelectRom ==
    /\ Call("ReadRom") \/ Call("SkipRom")
    /\ expects' = IF Hears("rom") THEN "function" ELSE expects
    /\ UNCHANGED <<driver, shown, set, wire, converting, pad, calm>>

ConvertT ==
    /\ Call("ConvertT")
    /\ IF Hears("function") THEN converting' = TRUE /\ expects' = "reset"
                            ELSE UNCHANGED <<converting, expects>>
    /\ UNCHANGED <<driver, shown, set, wire, pad, calm>>

(* mutant: waits for an answer *)
AnswersDone == wire = "sensor" /\ ~converting

(* WaitForConversionFinished, which ConvertT calls in any case, reads bits *)
(* until one is 1.                                                         *)
BitIsOne == wire = "open" \/ (wire = "sensor" /\ ~converting)

Wait ==
    /\ Call("Wait")
    /\ BitIsOne
    /\ UNCHANGED <<driver, shown, set, wire, device, calm>>

(* DS18B20_ReadScratchpad: nine zeros have the right checksum, nine ones   *)
(* and a transfer that is disturbed do not, and change nothing.            *)
ReadScratchpad ==
    /\ Call("ReadScratchpad")
    /\ \/ /\ Hears("function")
          /\ temperature' = scratch /\ limits' = devLimits
       \/ /\ isConnected /\ wire = "low"
          /\ temperature' = 0 /\ limits' = 0
       \/ /\ ~Hears("function") /\ ~(isConnected /\ wire = "low")
          /\ UNCHANGED <<temperature, limits>>
    /\ expects' = IF Hears("function") THEN "reset" ELSE expects
    /\ UNCHANGED <<isConnected, shown, set, wire, converting, pad, calm>>

(* The driver keeps the three bytes if the command could be sent. *)
WriteScratchpad ==
    /\ Call("WriteScratchpad")
    /\ IF Hears("function") THEN devLimits' = limits /\ expects' = "reset"
                            ELSE UNCHANGED <<devLimits, expects>>
    /\ UNCHANGED <<driver, shown, set, wire, converting, scratch, calm>>

(* mutant: the temperature is shown as it was read *)
ShowRaw ==
    /\ Call("Show")
    /\ shown' = temperature
    /\ UNCHANGED <<driver, set, wire, device, calm>>

Show ==
    /\ Call("Show")
    /\ shown' = Plate(temperature)
    /\ UNCHANGED <<driver, set, wire, device, calm>>

(* The main loop comes to plateTemp again. *)
Measure ==
    /\ script = <<>>
    /\ set
    /\ script' = PlateTemp
    /\ UNCHANGED <<driver, shown, set, wire, device, calm>>

Main == \/ Measure \/ Reset \/ SelectRom \/ ConvertT \/ Wait
        \/ ReadScratchpad \/ WriteScratchpad \/ Show
-----------------------------------------------------------------------------
(* The world.                                                              *)

Converted ==
    /\ converting
    /\ converting' = FALSE
    /\ scratch' \in Temps
    /\ UNCHANGED <<script, driver, shown, set, wire, expects, devLimits, calm>>

(* The wire breaks, is held low or is repaired at any time.  A sensor that *)
(* was taken off starts anew; to one that was held low this is a reset.    *)
WireChanges ==
    /\ wire' \in {"sensor", "open", "low"} \ {wire}
    /\ calm' = FALSE
    /\ IF wire' = "open"
       THEN /\ expects' = "reset" /\ converting' = FALSE
            /\ scratch' = PowerOn /\ devLimits' = Limits
       ELSE /\ expects' = IF wire = "low" THEN "rom" ELSE expects
            /\ UNCHANGED <<converting, pad>>
    /\ UNCHANGED <<script, driver, shown, set>>

KnobTurned ==
    /\ script = <<>>
    /\ set' = ~set
    /\ UNCHANGED <<script, driver, shown, wire, device, calm>>

Next == Main \/ Converted \/ WireChanges \/ KnobTurned

Spec == Init /\ [][Next]_vars

(* The main program runs on, and a conversion ends (750 ms, DS18B20.h:49). *)
FairSpec == Spec /\ WF_vars(Main) /\ WF_vars(Converted)
-----------------------------------------------------------------------------
(* A sensor whose wire was left alone since the reset is given each        *)
(* function command when it expects one, after ReadRom as after SkipRom    *)
(* (tempSensor.cpp:19-28, 33-38).                                          *)
CommandsInStep ==
    script # <<>> /\ calm /\ wire = "sensor" /\ isConnected
    /\ Head(script) \in {"ConvertT", "ReadScratchpad", "WriteScratchpad"}
        => expects = "function"

(* The main loop gets out of plateTemp unless the wire is held low: a      *)
(* sensor taken off in the middle of a conversion does not stop it.        *)
(* Nothing limits the wait otherwise (ds18b20.c:100).                      *)
ReturnsUnlessLow == <>[](wire # "low") => []<>(script = <<>>)

(* Once the wire is good for good, what is shown is again and again the    *)
(* temperature in the sensor, whatever Sensor_init and the calls before    *)
(* found: each plateTemp asks for the sensor anew (tempSensor.cpp:33, 36). *)
ShowsAfterRepair ==
    <>[](wire = "sensor" /\ set)
        => []<>(script = <<>> /\ shown = Plate(scratch) /\ scratch \in Temps)
=============================================================================
