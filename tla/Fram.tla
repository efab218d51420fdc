-------------------------------- MODULE Fram --------------------------------
(***************************************************************************)
(* The FRAM driver, User/Fram/Fram.hpp.                                    *)
(*                                                                         *)
(* The chip is on a three-wire bus that the main program drives by hand.   *)
(* A write always sends the whole RAM array massive_wr, one byte after the *)
(* other; a read always fetches the whole chip into massive_rd.  The two   *)
(* arrays live in RAM and start as zeros, and nothing loads massive_wr     *)
(* from the chip.  Only the main program calls the driver, so its          *)
(* operations do not interleave with each other; the power may fail        *)
(* between any two bytes.                                                  *)
(***************************************************************************)
EXTENDS Naturals

CONSTANTS
    N,          \* the number of registers (8 in the code)
    Value,      \* what one byte can hold
    Zero        \* the value of a RAM byte after start-up

ASSUME NAssumption == N \in Nat \ {0}
ASSUME ZeroAssumption == Zero \in Value

Reg == 0 .. N - 1

VARIABLES
    mem,        \* the registers of the chip
    massive_wr, \* the RAM array every write sends
    massive_rd, \* the RAM array every read fills
    pos,        \* the next byte of the write in progress; N: no write
    target,     \* the element the write in progress is for; N: none
    synced      \* history: a whole transfer has run since power-up

vars == <<mem, massive_wr, massive_rd, pos, target, synced>>

Blank == [i \in Reg |-> Zero]
Idle == pos = N

TypeOK == /\ mem \in [Reg -> Value]
          /\ massive_wr \in [Reg -> Value]
          /\ massive_rd \in [Reg -> Value]
          /\ pos \in 0 .. N
          /\ target \in 0 .. N
          /\ synced \in BOOLEAN

(* Power-up: the chip holds whatever it held, the RAM is zero. *)
Init == /\ mem \in [Reg -> Value]
        /\ massive_wr = Blank
        /\ massive_rd = Blank
        /\ pos = N
        /\ target = N
        /\ synced = FALSE

(* mutant: the transfer starts with the second byte *)
WriteElementSkipsFirst(i, v) ==
    /\ Idle
    /\ massive_wr' = [massive_wr EXCEPT ![i] = v]
    /\ pos' = 1
    /\ target' = i
    /\ UNCHANGED <<mem, massive_rd, synced>>

(* elementFram(index, value): store into the RAM array, start the transfer. *)
WriteElement(i, v) ==
    /\ Idle
    /\ massive_wr' = [massive_wr EXCEPT ![i] = v]
    /\ pos' = 0
    /\ target' = i
    /\ UNCHANGED <<mem, massive_rd, synced>>

(* fram_wr_massive() called by itself sends the RAM array as it stands.    *)
(* Each caller has written an element just before (Button.cpp:101 after    *)
(* 99, SetTimer.cpp:24 after 23).                                          *)
WriteMassive ==
    /\ Idle
    /\ synced
    /\ pos' = 0
    /\ UNCHANGED <<mem, massive_wr, massive_rd, target, synced>>

(* mutant: the loop steps by two *)
SendByteByTwo ==
    /\ ~Idle
    /\ mem' = [mem EXCEPT ![pos] = massive_wr[pos]]
    /\ pos' = pos + 2
    /\ target' = IF pos' = N THEN N ELSE target
    /\ synced' = (synced \/ pos' = N)
    /\ UNCHANGED <<massive_wr, massive_rd>>

(* mutant: the last byte is not sent *)
SendByteOneShort ==
    /\ ~Idle
    /\ mem' = [mem EXCEPT ![pos] = massive_wr[pos]]
    /\ pos' = IF pos + 1 >= N - 1 THEN N ELSE pos + 1
    /\ target' = IF pos' = N THEN N ELSE target
    /\ synced' = (synced \/ pos' = N)
    /\ UNCHANGED <<massive_wr, massive_rd>>

(* One byte of the transfer reaches the chip, which stores it at once. *)
SendByte ==
    /\ ~Idle
    /\ mem' = [mem EXCEPT ![pos] = massive_wr[pos]]
    /\ pos' = pos + 1
    /\ target' = IF pos' = N THEN N ELSE target
    /\ synced' = (synced \/ pos' = N)
    /\ UNCHANGED <<massive_wr, massive_rd>>

(* fram_rd_massive() and elementFram(index). *)
ReadMassive ==
    /\ Idle
    /\ massive_rd' = mem
    /\ UNCHANGED <<mem, massive_wr, pos, target, synced>>

(* mutant: the RAM array survives *)
PowerLossKeepsRam ==
    /\ pos' = N
    /\ target' = N
    /\ synced' = FALSE
    /\ UNCHANGED <<mem, massive_wr, massive_rd>>

(* mutant: the chip loses the register being written *)
PowerLossTears ==
    /\ massive_wr' = Blank
    /\ massive_rd' = Blank
    /\ pos' = N
    /\ target' = N
    /\ synced' = FALSE
    /\ mem' = IF Idle THEN mem ELSE [mem EXCEPT ![pos] = Zero]

(* The supply fails and comes back: the RAM is lost, the chip is not. *)
PowerLoss ==
    /\ massive_wr' = Blank
    /\ massive_rd' = Blank
    /\ pos' = N
    /\ target' = N
    /\ synced' = FALSE
    /\ UNCHANGED mem

Next == \/ \E i \in Reg, v \in Value : WriteElement(i, v)
        \/ WriteMassive
        \/ SendByte
        \/ ReadMassive
        \/ PowerLoss

Spec == Init /\ [][Next]_vars
-----------------------------------------------------------------------------
(* Once a whole transfer has run, the chip and the RAM array agree between *)
(* driver calls, although only the RAM array is consulted when an element  *)
(* is written (Fram.hpp:138-142).                                          *)
Coherent == synced /\ Idle => mem = massive_wr

(* While a transfer runs, what was sent has arrived, and of what was not   *)
(* sent yet only the element being written differs (Fram.hpp:156-159).  So *)
(* a power failure inside the transfer leaves that element old or new and  *)
(* hits no other register.                                                 *)
TransferExact ==
    ~Idle => /\ \A j \in Reg : j < pos => mem[j] = massive_wr[j]
             /\ synced => \A j \in Reg : j # target => mem[j] = massive_wr[j]

(* Before the first transfer has run, the RAM array is empty but for the   *)
(* element being written (Fram.hpp:73, nothing else fills it).             *)
FreshIsBlank ==
    ~synced => \A j \in Reg : j # target => massive_wr[j] = Zero

Inv == TypeOK /\ Coherent /\ TransferExact /\ FreshIsBlank

(* The driver is the register store FramStore: calls change the register   *)
(* they name and no other, have changed it when they return, and survive a *)
(* power failure between any two bytes; only the first call after power-up *)
(* wipes the other registers (Fram.hpp:134-162).                           *)
Pending == {<<i, massive_wr[i]>> : i \in {target} \cap Reg}
Store == INSTANCE FramStore
             WITH store <- mem, fresh <- ~synced, pending <- Pending
Refinement == Store!Spec
=============================================================================
