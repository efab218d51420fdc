------------------------------ MODULE FramStore ------------------------------
(***************************************************************************)
(* What the FRAM driver (User/Fram/Fram.hpp) promises to its callers: a    *)
(* small register store that survives power loss.  A call names one        *)
(* register and a value; when it returns the register holds the value, and *)
(* a power failure before that leaves the register old or new.  All other  *)
(* registers keep their contents -- except that the first call after       *)
(* power-up finds the driver's RAM copy empty, and wipes them.             *)
(***************************************************************************)
EXTENDS Naturals

CONSTANTS
    Reg,        \* the register addresses
    Value,      \* what one register can hold
    Zero        \* the value of a RAM byte after start-up

VARIABLES
    store,      \* the non-volatile registers
    fresh,      \* TRUE from power-up until the first call has returned
    pending     \* the call in progress, <<register, value>>; at most one

vars == <<store, fresh, pending>>

Init == /\ store \in [Reg -> Value]
        /\ fresh = TRUE
        /\ pending = {}

Call(i, v) == /\ pending = {}
              /\ pending' = {<<i, v>>}
              /\ UNCHANGED <<store, fresh>>

(* What a call may do to one register at a time. *)
Store(i, v) == store' = [store EXCEPT ![i] = v]
Wipe(i) == fresh /\ \E j \in Reg \ {i} : store' = [store EXCEPT ![j] = Zero]

Proceed == \E c \in pending : /\ Store(c[1], c[2]) \/ Wipe(c[1])
                              /\ UNCHANGED <<fresh, pending>>

(* A call returns only when its work is done. *)
Return == \E c \in pending :
    /\ Store(c[1], c[2]) \/ Wipe(c[1]) \/ UNCHANGED store
    /\ store'[c[1]] = c[2]
    /\ fresh => \A j \in Reg \ {c[1]} : store'[j] = Zero
    /\ fresh' = FALSE
    /\ pending' = {}

(* The supply fails, also in the middle of a call, and comes back. *)
PowerCycle == /\ fresh' = TRUE
              /\ pending' = {}
              /\ UNCHANGED store

Next == \/ \E i \in Reg, v \in Value : Call(i, v)
        \/ Proceed
        \/ Return
        \/ PowerCycle

Spec == Init /\ [][Next]_vars
=============================================================================
