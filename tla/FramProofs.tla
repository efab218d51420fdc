----------------------------- MODULE FramProofs -----------------------------
(***************************************************************************)
(* What the FRAM driver guarantees for every number of registers and every *)
(* set of values.                                                          *)
(***************************************************************************)
EXTENDS Fram, TLAPS

USE NAssumption, ZeroAssumption DEF NAssumption, ZeroAssumption

(* Between driver calls no element is named.  Without this FreshIsBlank is *)
(* not inductive: a write that finds another element still named would     *)
(* leave two elements filled before the first transfer has run.  And only  *)
(* a later transfer names none, so that the first one has an owner.        *)
NoneNamed == /\ Idle => target = N
             /\ ~Idle /\ target = N => synced

IInv == Inv /\ NoneNamed

LEMMA BlankType ==
  /\ Blank \in [Reg -> Value]
  /\ \A i \in Reg : Blank[i] = Zero
  BY DEF Blank

LEMMA InitInv == Init => IInv
  <1> SUFFICES ASSUME Init
               PROVE  IInv
    OBVIOUS
  <1>1. TypeOK
    <2>1. N \in 0 .. N
      OBVIOUS
    <2>2. synced \in BOOLEAN
      BY DEF Init
    <2>3. mem \in [Reg -> Value] /\ massive_wr \in [Reg -> Value]
                                /\ massive_rd \in [Reg -> Value]
      BY BlankType, Zenon DEF Init
    <2>4. pos \in 0 .. N /\ target \in 0 .. N
      BY <2>1 DEF Init
    <2> QED BY <2>2, <2>3, <2>4 DEF TypeOK
  <1>2. NoneNamed /\ Coherent /\ TransferExact
    BY DEF Init, NoneNamed, Coherent, TransferExact, Idle
  <1>3. FreshIsBlank
    BY BlankType DEF Init, FreshIsBlank
  <1> QED BY <1>1, <1>2, <1>3 DEF IInv, Inv

LEMMA WriteElementInv ==
  ASSUME IInv, NEW i \in Reg, NEW v \in Value, WriteElement(i, v)
  PROVE  IInv'
  <1> USE DEF IInv, Inv, WriteElement, Idle
  <1>1. TypeOK'
    BY DEF TypeOK, Reg
  <1>2. Coherent' /\ NoneNamed'
    BY DEF Coherent, NoneNamed, Reg
  <1>3. TransferExact'
    BY DEF TransferExact, Coherent, TypeOK, Reg
  <1>4. FreshIsBlank'
    BY DEF FreshIsBlank, NoneNamed, TypeOK, Reg
  <1> QED BY <1>1, <1>2, <1>3, <1>4

LEMMA WriteMassiveInv ==
  ASSUME IInv, WriteMassive
  PROVE  IInv'
  <1> USE DEF IInv, Inv, WriteMassive, Idle
  <1>1. TypeOK' /\ Coherent' /\ NoneNamed' /\ FreshIsBlank'
    BY DEF TypeOK, Coherent, NoneNamed, FreshIsBlank
  <1>2. TransferExact'
    BY DEF TransferExact, Coherent, TypeOK, Reg
  <1> QED BY <1>1, <1>2

LEMMA SendByteInv ==
  ASSUME IInv, SendByte
  PROVE  IInv'
  <1> USE DEF IInv, Inv, SendByte, Idle
  <1>1. pos \in Reg
    BY DEF TypeOK, Reg
  <1>2. TypeOK'
    BY <1>1 DEF TypeOK, Reg
  <1>3. NoneNamed'
    BY DEF NoneNamed
  <1>4. \A j \in Reg : j < pos' => mem'[j] = massive_wr'[j]
    BY <1>1 DEF TransferExact, TypeOK, Reg
  <1>5. Coherent'
    <2> SUFFICES ASSUME synced', pos' = N
                 PROVE  mem' = massive_wr'
      BY DEF Coherent
    <2>1. \A j \in Reg : mem'[j] = massive_wr'[j]
      BY <1>4 DEF Reg
    <2> QED BY <2>1, <1>2 DEF TypeOK
  <1>6. TransferExact'
    BY <1>1, <1>4 DEF TransferExact, TypeOK, Reg
  <1>7. FreshIsBlank'
    BY DEF FreshIsBlank, TypeOK
  <1> QED BY <1>2, <1>3, <1>5, <1>6, <1>7

LEMMA PowerLossInv ==
  ASSUME IInv, PowerLoss
  PROVE  IInv'
  <1> USE DEF IInv, Inv, PowerLoss
  <1>1. TypeOK'
    <2>1. N \in 0 .. N
      OBVIOUS
    <2>2. synced' \in BOOLEAN
      OBVIOUS
    <2>3. mem' \in [Reg -> Value] /\ massive_wr' \in [Reg -> Value]
                                 /\ massive_rd' \in [Reg -> Value]
      BY BlankType, Zenon DEF TypeOK
    <2>4. pos' \in 0 .. N /\ target' \in 0 .. N
      BY <2>1
    <2> QED BY <2>2, <2>3, <2>4 DEF TypeOK
  <1>2. NoneNamed' /\ Coherent' /\ TransferExact'
    BY DEF NoneNamed, Coherent, TransferExact, Idle
  <1>3. FreshIsBlank'
    BY BlankType DEF FreshIsBlank
  <1> QED BY <1>1, <1>2, <1>3

LEMMA StepInv == IInv /\ [Next]_vars => IInv'
  <1> SUFFICES ASSUME IInv, [Next]_vars
               PROVE  IInv'
    OBVIOUS
  <1>1. ASSUME NEW i \in Reg, NEW v \in Value, WriteElement(i, v)
        PROVE  IInv'
    BY <1>1, WriteElementInv
  <1>2. CASE WriteMassive
    BY <1>2, WriteMassiveInv
  <1>3. CASE SendByte
    BY <1>3, SendByteInv
  <1>4. CASE ReadMassive
    BY <1>4 DEF IInv, Inv, ReadMassive, Idle, TypeOK, Coherent, NoneNamed,
                TransferExact, FreshIsBlank
  <1>5. CASE PowerLoss
    BY <1>5, PowerLossInv
  <1>6. CASE UNCHANGED vars
    BY <1>6 DEF IInv, Inv, vars, Idle, TypeOK, Coherent, NoneNamed,
                TransferExact, FreshIsBlank
  <1> QED BY <1>1, <1>2, <1>3, <1>4, <1>5, <1>6 DEF Next

(* The inductive invariant, and with it the types, hold in every run of    *)
(* the driver (Fram.hpp:134-179).                                          *)
THEOREM IInvHolds == Spec => []IInv
  BY InitInv, StepInv, PTL DEF Spec

(* The arrays keep a value in every register, and no transfer runs past    *)
(* the last of them (Fram.hpp:156-179).                                    *)
THEOREM TypesHold == Spec => []TypeOK
  <1>1. IInv => TypeOK
    BY DEF IInv, Inv
  <1> QED BY <1>1, IInvHolds, PTL

(* Between driver calls the chip holds what the RAM array says, as soon as *)
(* one transfer has run: consulting only the RAM array when an element is  *)
(* written loses nothing (Fram.hpp:138-162).                               *)
THEOREM CoherentHolds == Spec => []Coherent
  <1>1. IInv => Coherent
    BY DEF IInv, Inv
  <1> QED BY <1>1, IInvHolds, PTL

(* A transfer, also one cut short by a power failure, has changed no       *)
(* register but the one it was started for, once a first transfer has run  *)
(* (Fram.hpp:156-159).                                                     *)
THEOREM TransferExactHolds == Spec => []TransferExact
  <1>1. IInv => TransferExact
    BY DEF IInv, Inv
  <1> QED BY <1>1, IInvHolds, PTL

(* Until the first transfer after power-up has run, the RAM array it sends *)
(* is empty but for one element: this is what the registers are            *)
(* overwritten with (Fram.hpp:73).                                         *)
THEOREM FreshIsBlankHolds == Spec => []FreshIsBlank
  <1>1. IInv => FreshIsBlank
    BY DEF IInv, Inv
  <1> QED BY <1>1, IInvHolds, PTL

LEMMA NoCall == ASSUME target = N PROVE Pending = {}
  BY DEF Pending, Reg

LEMMA OneCall ==
  ASSUME target \in Reg
  PROVE  Pending = {<<target, massive_wr[target]>>}
  BY DEF Pending

(* A byte that arrives does what the call in progress may do to a register *)
(* at a time: it stores the value, wipes another register in the first     *)
(* transfer, or finds its value there already.                             *)
LEMMA ByteEffect ==
  ASSUME IInv, SendByte, target \in Reg
  PROVE  \/ Store!Store(target, massive_wr[target])
         \/ Store!Wipe(target)
         \/ UNCHANGED mem
  <1>1. pos \in Reg
    BY DEF SendByte, Idle, IInv, Inv, TypeOK, Reg
  <1>2. mem' = [mem EXCEPT ![pos] = massive_wr[pos]]
    BY DEF SendByte
  <1>3. CASE pos = target
    BY <1>2, <1>3 DEF Store!Store
  <1>4. CASE pos # target /\ synced
    <2>1. mem[pos] = massive_wr[pos]
      BY <1>1, <1>4 DEF SendByte, IInv, Inv, TransferExact
    <2> QED BY <1>1, <1>2, <2>1 DEF IInv, Inv, TypeOK
  <1>5. CASE pos # target /\ ~synced
    <2>1. massive_wr[pos] = Zero
      BY <1>1, <1>5 DEF IInv, Inv, FreshIsBlank
    <2> QED BY <1>1, <1>2, <1>5, <2>1 DEF Store!Wipe
  <1> QED BY <1>3, <1>4, <1>5

(* The last byte of a transfer is the return of the call. *)
LEMMA LastByteReturns ==
  ASSUME IInv, SendByte, target \in Reg, pos' = N
  PROVE  Store!Return
  <1>1. synced' = TRUE /\ target' = N
    BY DEF SendByte
  <1>2. Pending' = {}
    BY <1>1 DEF Pending, Reg
  <1>3. IInv'
    BY SendByteInv
  <1>4. mem' = massive_wr
    BY <1>1, <1>3 DEF IInv, Inv, Coherent, Idle, SendByte
  <1>5. mem'[target] = massive_wr[target]
    BY <1>4
  <1>6. ~synced => \A j \in Reg \ {target} : mem'[j] = Zero
    BY <1>4 DEF IInv, Inv, FreshIsBlank
  <1>7. <<target, massive_wr[target]>> \in Pending
    BY OneCall
  <1> QED BY <1>1, <1>2, <1>5, <1>6, <1>7, ByteEffect DEF Store!Return

LEMMA SendByteRefines ==
  ASSUME IInv, SendByte
  PROVE  [Store!Next]_(Store!vars)
  <1>1. CASE target \in Reg /\ pos' = N
    BY <1>1, LastByteReturns DEF Store!Next
  <1>2. CASE target \in Reg /\ pos' # N
    <2>1. UNCHANGED <<target, massive_wr, synced>>
      BY <1>2 DEF SendByte, IInv, Inv, TypeOK
    <2>2. UNCHANGED Pending
      BY <2>1 DEF Pending
    <2>3. CASE UNCHANGED mem
      BY <2>1, <2>2, <2>3 DEF Store!vars
    <2>4. CASE \/ Store!Store(target, massive_wr[target])
               \/ Store!Wipe(target)
      <3>1. <<target, massive_wr[target]>> \in Pending
        BY <1>2, OneCall
      <3>2. Store!Proceed
        BY <2>1, <2>2, <2>4, <3>1 DEF Store!Proceed
      <3> QED BY <3>2 DEF Store!Next
    <2> QED BY <1>2, <2>3, <2>4, ByteEffect
  <1>3. CASE target = N
    <2>1. pos \in Reg
      BY DEF SendByte, Idle, IInv, Inv, TypeOK, Reg
    <2>2. synced
      BY <1>3 DEF SendByte, IInv, NoneNamed
    <2>3. mem[pos] = massive_wr[pos]
      BY <1>3, <2>1, <2>2 DEF SendByte, IInv, Inv, TransferExact, Reg
    <2>4. UNCHANGED <<mem, massive_wr, target>> /\ synced'
      BY <1>3, <2>1, <2>2, <2>3 DEF SendByte, IInv, Inv, TypeOK
    <2> QED BY <2>2, <2>4 DEF Pending, Store!vars
  <1> QED BY <1>1, <1>2, <1>3 DEF IInv, Inv, TypeOK, Reg

LEMMA StepRefines ==
  ASSUME IInv, [Next]_vars
  PROVE  [Store!Next]_(Store!vars)
  <1>1. ASSUME NEW i \in Reg, NEW v \in Value, WriteElement(i, v)
        PROVE  Store!Call(i, v)
    <2>1. Pending = {}
      BY <1>1, NoCall DEF WriteElement, IInv, NoneNamed
    <2>2. Pending' = {<<i, v>>}
      BY <1>1 DEF WriteElement, Pending, IInv, Inv, TypeOK
    <2> QED BY <1>1, <2>1, <2>2 DEF WriteElement, Store!Call
  <1>2. CASE WriteMassive
    BY <1>2 DEF WriteMassive, Pending, Store!vars
  <1>3. CASE SendByte
    BY <1>3, SendByteRefines
  <1>4. CASE ReadMassive
    BY <1>4 DEF ReadMassive, Pending, Store!vars
  <1>5. CASE PowerLoss
    <2>1. Pending' = {}
      BY <1>5 DEF PowerLoss, Pending, Reg
    <2> QED BY <1>5, <2>1 DEF PowerLoss, Store!Next, Store!PowerCycle
  <1>6. CASE UNCHANGED vars
    BY <1>6 DEF vars, Pending, Store!vars
  <1> QED BY <1>1, <1>2, <1>3, <1>4, <1>5, <1>6 DEF Next, Store!Next

(* The driver implements the register store FramStore: a write changes the *)
(* register it names and no other, unless it is the first after power-up   *)
(* (Fram.hpp:134-162).                                                     *)
THEOREM Implements == Spec => Refinement
  <1>1. Init => Store!Init
    BY DEF Init, Pending, Reg, Store!Init
  <1>2. IInv /\ [Next]_vars => [Store!Next]_(Store!vars)
    BY StepRefines
  <1> QED BY <1>1, <1>2, IInvHolds, PTL DEF Spec, Refinement, Store!Spec
=============================================================================
