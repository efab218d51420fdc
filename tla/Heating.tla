------------------------------- MODULE Heating -------------------------------
(***************************************************************************)
(* What the user of the oven may rely on about its relays, whatever the    *)
(* knob, the button, the clock and the temperatures do: they switch only   *)
(* under a permission, which the user gives, and when the permission ends  *)
(* they are all off in the same step.  Module Oven implements it as long   *)
(* as the supply does not fail.                                            *)
(***************************************************************************)
CONSTANT Relay      \* the relays: heaters and fan

VARIABLES
    relays,         \* the relays that are on
    mayHeat         \* the user has asked for heat and may still have it

vars == <<relays, mayHeat>>

Init == relays = {} /\ mayHeat = FALSE

(* The user starts cooking. *)
Permit == mayHeat' = TRUE /\ UNCHANGED relays

(* Heat is adjusted, to any relays or to none. *)
Adjust == mayHeat /\ relays' \subseteq Relay /\ UNCHANGED mayHeat

(* Cooking ends. *)
End == relays' = {} /\ mayHeat' = FALSE

Next == Permit \/ Adjust \/ End

Spec == Init /\ [][Next]_vars
=============================================================================
