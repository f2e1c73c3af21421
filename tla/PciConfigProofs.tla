--------------------------- MODULE PciConfigProofs ---------------------------
(***************************************************************************)
(* What holds of PciConfig for every machine, every set of calls and any   *)
(* number of interrupts.  The invariants of the model checking runs are    *)
(* not inductive: that the data port addresses the register of the call    *)
(* rests on the interrupt flag, on the half-set latches of mechanism 2 and *)
(* on the access being the one the call needs.                             *)
(***************************************************************************)
EXTENDS PciConfig, TLAPS

(* pci_init has found the mechanism the host bridge implements.            *)
MechDetected ==
  /\ pc = "boot" => ie /\ mech = 0
  /\ pc \notin {"boot", "exit"} =>
       \/ mech = 1 /\ chipset = "mech1"
       \/ mech = 2 /\ chipset = "mech2"

(* Between its two outb, mechanism 2 has set the function but not the bus. *)
HalfAddressed ==
  pc = "bus" => mech = 2 /\ latch.open /\ latch.fn = op.loc.fn

Narrow == op.kind = "write" /\ op.size # "l"

(* The instruction about to be made is the one the call needs.             *)
AccessFits ==
  /\ pc \in {"cli", "addr", "bus", "data", "sti"} =>
       \/ /\ mech = 1
          /\ acc = Access(op.kind, CS!Touched(op), op.val)
       \/ /\ mech = 2 /\ acc.lanes = CS!Lanes
          /\ ~Narrow => acc.kind = op.kind /\ acc.val = op.val
          /\ Narrow /\ acc.kind = "write" => acc.val = CS!Merged(IntLanes, cf8, op)
  /\ pc = "merge" => mech = 2 /\ Narrow

IInv ==
  /\ TypeOK
  /\ MechDetected
  /\ MaskedOnlyInAccess
  /\ HalfAddressed
  /\ DataPortAddressed
  /\ AccessFits

-----------------------------------------------------------------------------
(* The operators on dwords give dwords.                                    *)

LEMMA SelectType ==
  ASSUME NEW d \in CS!Dword, NEW s
  PROVE  CS!Select(d, s) \in CS!Dword
BY DEF CS!Select, CS!Dword, CS!Byte, CS!Lanes

LEMMA ConstantDwords == CS!Zeroes \in CS!Dword /\ CS!Ones \in CS!Dword
BY DEF CS!Zeroes, CS!Ones, CS!Dword, CS!Byte

LEMMA LanesOfType ==
  ASSUME NEW size \in {"b", "w", "l"}, NEW off \in CS!Lanes
  PROVE  CS!LanesOf(size, off) \subseteq CS!Lanes
BY DEF CS!LanesOf, CS!Lanes

LEMMA ReadType ==
  ASSUME space \in [Locs -> CS!Dword], NEW loc \in Locs
  PROVE  CS!Read(loc) \in CS!Dword
BY ConstantDwords DEF CS!Read

LEMMA StoredType ==
  ASSUME NEW loc, NEW lane, NEW old \in CS!Byte, NEW val \in CS!Byte
  PROVE  CS!Stored(loc, lane, old, val) \in CS!Byte
BY DEF CS!Stored, CS!Byte

LEMMA PokeType ==
  ASSUME NEW mem \in [Locs -> CS!Dword], NEW loc \in Locs, NEW s,
         NEW val \in CS!Dword
  PROVE  CS!Poke(mem, loc, s, val) \in [Locs -> CS!Dword]
<1> DEFINE d == [l \in CS!Lanes |-> IF l \in s
                   THEN CS!Stored(loc, l, mem[loc][l], val[l]) ELSE mem[loc][l]]
<1>1. d \in CS!Dword
  BY StoredType DEF CS!Dword
<1>2. CS!Poke(mem, loc, s, val) = [mem EXCEPT ![loc] = d]
  BY DEF CS!Poke
<1>3. QED BY <1>1, <1>2

(* What a narrow write puts together from the old dword and the new bytes. *)
LEMMA MergedType ==
  ASSUME NEW old \in CS!Dword, NEW o \in CS!Ops
  PROVE  CS!Merged(IntLanes, old, o) \in CS!Dword
<1>1. o.val \in CS!Dword
  BY DEF CS!Ops
<1>2. QED
  BY <1>1 DEF CS!Merged, CS!Dword, CS!Byte

-----------------------------------------------------------------------------
LEMMA InitIInv == Init => IInv
<1> SUFFICES ASSUME Init PROVE IInv
  OBVIOUS
<1>1. op \in CS!Ops
  BY PciConfigInputs DEF Init
<1>2. TypeOK
  BY <1>1, PciConfigInputs, ConstantDwords
     DEF Init, TypeOK, Access, PCs
<1>3. QED
  BY <1>2 DEF Init, IInv, MechDetected, MaskedOnlyInAccess, HalfAddressed,
              DataPortAddressed, AccessFits

LEMMA NextIInv == IInv /\ [Next]_vars => IInv'
<1> SUFFICES ASSUME IInv, [Next]_vars PROVE IInv'
  OBVIOUS
<1> USE DEF IInv, PCs
<1>1. CASE PciInit
  <2>1. TypeOK'
    BY <1>1 DEF PciInit, TypeOK
  <2>2. QED
    BY <1>1, <2>1 DEF PciInit, MechDetected, MaskedOnlyInAccess, HalfAddressed,
       DataPortAddressed, AccessFits, TypeOK
<1>2. ASSUME NEW c \in Calls, Call(c) PROVE IInv'
  <2>1. c \in CS!Ops
    BY PciConfigInputs
  <2>2. CS!LanesOf(c.size, c.off) \subseteq CS!Lanes
    BY <2>1, LanesOfType DEF CS!Ops
  <2>3. mech = 1 \/ mech = 2
    BY <1>2 DEF Call, MechDetected
  <2>4. acc' \in [kind : {"read", "write"}, lanes : SUBSET CS!Lanes, val : CS!Dword]
    BY <1>2, <2>1, <2>2, <2>3 DEF Call, Access, CS!Ops
  <2>5. space[c.loc] \in CS!Dword
    BY <2>1 DEF TypeOK, CS!Ops
  <2>6. TypeOK'
    <3>1. calls' \in Nat /\ op' \in CS!Ops /\ before' \in CS!Dword /\ disturbed' = {}
      BY <1>2, <2>1, <2>5 DEF Call, TypeOK
    <3>2. QED
      BY <1>2, <2>4, <3>1 DEF Call, TypeOK
  <2>7. AccessFits'
    BY <1>2, <2>1, <2>3 DEF Call, AccessFits, Access, CS!Touched, CS!Ops, Narrow
  <2>8. QED
    BY <1>2, <2>6, <2>7 DEF Call, MechDetected, MaskedOnlyInAccess, HalfAddressed,
       DataPortAddressed
<1>3. CASE Cli
  <2>1. TypeOK'
    BY <1>3 DEF Cli, TypeOK
  <2>2. QED
    BY <1>3, <2>1 DEF Cli, MechDetected, MaskedOnlyInAccess, HalfAddressed,
       DataPortAddressed, AccessFits, Narrow, CS!Touched
<1>4. CASE OutAddress
  <2>1. TypeOK' /\ latch'.open /\ latch'.fn = op.loc.fn
    <3>1. op.loc \in Locs
      BY DEF TypeOK, CS!Ops
    <3>2. latch' \in Latches /\ latch'.open /\ latch'.fn = op.loc.fn
      <4>1. latch \in Latches
        BY DEF TypeOK
      <4>2. CASE mech = 1
        <5>1. latch' = [open |-> TRUE, bus |-> op.loc.bus, dev |-> op.loc.dev,
                        fn |-> op.loc.fn, dw |-> op.loc.dw]
          BY <1>4, <4>2 DEF OutAddress
        <5>2. latch' \in Latches
          BY <5>1, <3>1 DEF Latches, Locs
        <5>3. latch'.fn = op.loc.fn
          BY <5>1
        <5>4. latch'.open
          BY <5>1
        <5>5. QED BY <5>2, <5>3, <5>4
      <4>3. CASE mech = 2
        <5>1. latch' = [latch EXCEPT !.open = TRUE, !.fn = op.loc.fn]
          BY <1>4, <4>3 DEF OutAddress
        <5>2. latch' \in Latches
          BY <5>1, <4>1, <3>1 DEF Latches, Locs
        <5>3. latch'.fn = op.loc.fn
          BY <5>1, <4>1 DEF Latches
        <5>4. latch'.open
          BY <5>1, <4>1 DEF Latches
        <5>5. QED BY <5>2, <5>3, <5>4
      <4>4. QED
        BY <1>4, <4>2, <4>3 DEF OutAddress
    <3>3. pc' \in PCs
      BY <1>4 DEF OutAddress
    <3>4. QED
      BY <1>4, <3>2, <3>3 DEF OutAddress, TypeOK
  <2>2. DataPortAddressed'
    BY <1>4 DEF OutAddress, TypeOK, DataPortAddressed, Reached, Merging,
       MechDetected, CS!Ops, Locs
  <2>3. HalfAddressed'
    BY <1>4, <2>1 DEF OutAddress, HalfAddressed
  <2>4. QED
    BY <1>4, <2>1, <2>2, <2>3 DEF OutAddress, MechDetected, MaskedOnlyInAccess,
       AccessFits, Narrow, CS!Touched
<1>5. CASE OutBus
  <2>1. TypeOK'
    BY <1>5 DEF OutBus, TypeOK, Latches, CS!Ops, Locs
  <2>2. DataPortAddressed'
    BY <1>5 DEF OutBus, TypeOK, DataPortAddressed, HalfAddressed, Reached, Merging,
       MechDetected, CS!Ops, Locs, Latches
  <2>3. QED
    BY <1>5, <2>1, <2>2 DEF OutBus, HalfAddressed, MechDetected, MaskedOnlyInAccess,
       AccessFits, Narrow, CS!Touched
<1>6. CASE InData
  <2>1. Reached = op.loc /\ op.loc \in Locs
    BY <1>6 DEF InData, DataPortAddressed, TypeOK, CS!Ops
  <2>2. cf8' \in CS!Dword
    BY <1>6, <2>1, SelectType, ReadType, ConstantDwords DEF InData, TypeOK
  <2>3. TypeOK'
    BY <1>6, <2>2 DEF InData, TypeOK
  <2>4. QED
    BY <1>6, <2>3 DEF InData, HalfAddressed, MechDetected, MaskedOnlyInAccess,
       DataPortAddressed, AccessFits, Narrow, CS!Touched, TypeOK
<1>7. CASE OutData
  <2>1. Reached = op.loc /\ op.loc \in Locs /\ acc.val \in CS!Dword
    BY <1>7 DEF OutData, DataPortAddressed, TypeOK, CS!Ops
  <2>2. space' \in [Locs -> CS!Dword]
    BY <1>7, <2>1, PokeType DEF OutData, TypeOK, CS!Write
  <2>3. TypeOK'
    BY <1>7, <2>2 DEF OutData, TypeOK
  <2>4. QED
    BY <1>7, <2>3 DEF OutData, HalfAddressed, MechDetected, MaskedOnlyInAccess,
       DataPortAddressed, AccessFits, Narrow, CS!Touched
<1>8. CASE Sti
  <2>1. TypeOK'
    BY <1>8 DEF Sti, TypeOK
  <2>2. AccessFits'
    BY <1>8 DEF Sti, AccessFits, Narrow, Access, CS!Touched, TypeOK
  <2>3. QED
    BY <1>8, <2>1, <2>2 DEF Sti, HalfAddressed, MechDetected, MaskedOnlyInAccess,
       DataPortAddressed
<1>9. CASE Merge
  <2>1. CS!Merged(IntLanes, cf8, op) \in CS!Dword
    BY MergedType DEF TypeOK
  <2>2. TypeOK'
    BY <1>9, <2>1 DEF Merge, TypeOK, Access
  <2>3. AccessFits'
    BY <1>9 DEF Merge, AccessFits, Access, Narrow
  <2>4. QED
    BY <1>9, <2>2, <2>3 DEF Merge, HalfAddressed, MechDetected, MaskedOnlyInAccess,
       DataPortAddressed
<1>10. CASE Return
  <2>1. TypeOK'
    BY <1>10 DEF Return, TypeOK
  <2>2. QED
    BY <1>10, <2>1 DEF Return, HalfAddressed, MechDetected, MaskedOnlyInAccess,
       DataPortAddressed, AccessFits
<1>11. CASE Exit
  <2>1. TypeOK'
    BY <1>11 DEF Exit, TypeOK
  <2>2. QED
    BY <1>11, <2>1 DEF Exit, HalfAddressed, MechDetected, MaskedOnlyInAccess,
       DataPortAddressed, AccessFits
<1>12. ASSUME NEW loc \in Present, NEW lane \in CS!Lanes, NEW b \in CS!Byte,
              Disturb(loc, lane, b)
       PROVE  /\ space' \in [Locs -> CS!Dword]
              /\ disturbed' \subseteq CS!Lanes
              /\ disturbances' \in Nat
  <2>1. loc \in Locs
    BY PciConfigAssumption
  <2>2. QED
    BY <1>12, <2>1 DEF Disturb, TypeOK, CS!Dword
<1>13. CASE Interrupt
  <2>1. pc \notin {"addr", "bus", "data", "sti"}
    BY <1>13 DEF Interrupt, MaskedOnlyInAccess
  <2>2. TypeOK'
    BY <1>12, <1>13 DEF Interrupt, TypeOK
  <2>3. QED
    BY <1>13, <2>1, <2>2 DEF Interrupt, HalfAddressed, MechDetected,
       MaskedOnlyInAccess, DataPortAddressed, AccessFits, Narrow, CS!Touched
<1>14. CASE RaiseStatus
  <2>1. Bits \in CS!Byte
    BY DEF CS!Byte
  <2>2. TypeOK'
    BY <1>12, <1>14, <2>1 DEF RaiseStatus, tool, TypeOK
  <2>3. QED
    BY <1>14, <2>2 DEF RaiseStatus, tool, HalfAddressed, MechDetected, Reached,
       Merging, MaskedOnlyInAccess, DataPortAddressed, AccessFits, Narrow, CS!Touched
<1>15. CASE UNCHANGED vars
  BY <1>15 DEF vars, TypeOK, HalfAddressed, MechDetected, Reached,
     Merging, MaskedOnlyInAccess, DataPortAddressed, AccessFits, Narrow, CS!Touched
<1>16. QED
  BY <1>1, <1>2, <1>3, <1>4, <1>5, <1>6, <1>7, <1>8, <1>9, <1>10, <1>11, <1>13,
     <1>14, <1>15 DEF Next, Step, Ended

LEMMA Invariance == Spec => []IInv
BY InitIInv, NextIInv, PTL DEF Spec

(* Type correctness.                                                       *)
THEOREM TypeCorrect == Spec => []TypeOK
<1>1. IInv => TypeOK
  BY DEF IInv
<1>2. QED BY <1>1, Invariance, PTL

(* Whatever interrupt handlers leave in the latches, a data port access    *)
(* reaches the register the call names.                                    *)
THEOREM AccessReachesRegister == Spec => []DataPortAddressed
<1>1. IInv => DataPortAddressed
  BY DEF IInv
<1>2. QED BY <1>1, Invariance, PTL

(* Interrupts are masked during the port accesses of a call and only then. *)
THEOREM InterruptsComeBack == Spec => []MaskedOnlyInAccess
<1>1. IInv => MaskedOnlyInAccess
  BY DEF IInv
<1>2. QED BY <1>1, Invariance, PTL

-----------------------------------------------------------------------------
LEMMA RefinementInit == Init => CS!Init
<1> SUFFICES ASSUME Init PROVE CS!Init
  OBVIOUS
<1>1. op \in CS!Ops /\ space \in [Locs -> CS!Dword]
  BY PciConfigInputs DEF Init
<1>2. Stage = "idle"
  BY DEF Init, Stage
<1>3. QED
  BY <1>1, <1>2 DEF Init, CS!Init, Merging

(* Every step of the detailed specification is a step of the abstract one, *)
(* or changes nothing the abstract one sees.                               *)
LEMMA RefinementStep == IInv /\ [Next]_vars => [CS!Next]_(CS!vars)
<1> SUFFICES ASSUME IInv, [Next]_vars PROVE [CS!Next]_(CS!vars)
  OBVIOUS
<1> USE DEF IInv, CS!vars, CS!Next, Merging
<1>1. CASE PciInit
  BY <1>1 DEF PciInit, Stage
<1>2. ASSUME NEW c \in Calls, Call(c) PROVE CS!Invoke
  <2>1. c \in CS!Ops
    BY PciConfigInputs
  <2>2. (mech = 1 /\ chipset = "mech1") \/ (mech = 2 /\ chipset = "mech2")
    BY <1>2 DEF Call, MechDetected
  <2>3. Stage = "idle"
    BY <1>2 DEF Call, Stage
  <2>4. Stage' = "called"
    BY <1>2, <2>1, <2>2 DEF Call, Stage, Access, CS!Ops
  <2>5. QED
    BY <1>2, <2>1, <2>3, <2>4 DEF Call, CS!Invoke
<1>3. CASE Cli
  BY <1>3 DEF Cli, Stage
<1>4. CASE OutAddress
  BY <1>4 DEF OutAddress, Stage
<1>5. CASE OutBus
  BY <1>5 DEF OutBus, Stage
<1>6. CASE InData
  <2>1. Reached = op.loc /\ latch.open
    BY <1>6 DEF InData, DataPortAddressed
  <2>2. op.kind \in {"read", "write"} /\ op.loc \in Locs
    BY DEF TypeOK, CS!Ops
  <2>3. CS!Read(op.loc) \in CS!Dword
    BY <2>2, ReadType DEF TypeOK
  <2>4. UNCHANGED <<space, Merging, op, result>>
    BY <1>6 DEF InData
  <2>5. CASE op.kind = "read"
    <3>1. acc.kind = op.kind /\ CS!Touched(op) \subseteq CS!Lanes
      BY <1>6, <2>5, LanesOfType
         DEF InData, AccessFits, Narrow, Access, CS!Touched, TypeOK, CS!Ops
    <3>2. acc.lanes = CS!Touched(op) \/ acc.lanes = CS!Lanes
      BY <1>6 DEF InData, AccessFits, Access
    <3>3. cf8' = CS!Select(CS!Read(op.loc), CS!Touched(op))
      BY <1>6, <2>1, <2>5, <3>1, <3>2 DEF InData, CS!Select
    <3>4. Stage = "called" /\ Stage' = "taken"
      BY <1>6, <2>5, <3>1 DEF InData, Stage
    <3>5. CS!TakeRead
      BY <2>4, <2>5, <3>3, <3>4 DEF CS!TakeRead
    <3>6. QED BY <3>5
  <2>6. CASE op.kind = "write"
    <3>1. mech = 2 /\ acc.lanes = CS!Lanes /\ Narrow
      BY <1>6, <2>6 DEF InData, AccessFits, Access
    <3>2. chipset = "mech2"
      BY <1>6, <3>1 DEF InData, MechDetected
    <3>3. cf8' = CS!Select(CS!Select(CS!Read(op.loc), CS!Lanes), CS!Lanes)
      BY <1>6, <2>1, <2>6, <3>1 DEF InData
    <3>4. cf8' = CS!Read(op.loc)
      BY <2>3, <3>3 DEF CS!Select, CS!Dword
    <3>5. Stage = "called" /\ Stage' = "fetched"
      BY <1>6, <2>6 DEF InData, Stage
    <3>6. CS!Fetch
      BY <2>4, <2>6, <3>1, <3>2, <3>4, <3>5 DEF CS!Fetch, CS!Splits, Narrow
    <3>7. QED BY <3>6
  <2>7. QED BY <2>2, <2>5, <2>6
<1>7. CASE OutData
  <2>1. Reached = op.loc /\ latch.open
    BY <1>7 DEF OutData, DataPortAddressed
  <2>2. CS!Write(op.loc, acc.lanes, acc.val)
    BY <1>7, <2>1 DEF OutData
  <2>3. UNCHANGED <<Merging, op, cf8, result>>
    BY <1>7 DEF OutData
  <2>4. op.kind = "write"
    BY <1>7 DEF OutData, AccessFits, Narrow, Access, TypeOK, CS!Ops
  <2>5. Stage' = "taken"
    BY <1>7, <2>4 DEF OutData, Stage
  <2>6. CASE chipset = "mech2" /\ op.size # "l"
    <3>1. acc.lanes = CS!Lanes /\ acc.val = CS!Merged(IntLanes, cf8, op)
      BY <1>7, <2>4, <2>6 DEF OutData, AccessFits, Narrow, Access, MechDetected
    <3>2. Stage = "fetched"
      BY <1>7, <2>6 DEF OutData, Stage
    <3>3. CS!Store
      BY <2>2, <2>3, <2>5, <3>1, <3>2 DEF CS!Store
    <3>4. QED BY <3>3
  <2>7. CASE ~(chipset = "mech2" /\ op.size # "l")
    <3>1. acc.lanes = CS!Touched(op) /\ acc.val = op.val
      <4>1. CASE mech = 1
        BY <1>7, <4>1 DEF OutData, AccessFits, Access
      <4>2. CASE mech = 2
        <5>1. op.size = "l"
          BY <1>7, <2>7, <4>2 DEF OutData, MechDetected
        <5>2. CS!Touched(op) = CS!Lanes
          BY <5>1 DEF CS!Touched, CS!LanesOf
        <5>3. acc.lanes = CS!Lanes /\ acc.val = op.val
          BY <1>7, <4>2, <5>1 DEF OutData, AccessFits, Narrow
        <5>4. QED BY <5>2, <5>3
      <4>3. QED
        BY <1>7, <4>1, <4>2 DEF OutData, AccessFits
    <3>2. Stage = "called" /\ ~CS!Splits
      BY <1>7, <2>7 DEF OutData, Stage, CS!Splits
    <3>3. CS!TakeWrite
      BY <2>2, <2>3, <2>4, <2>5, <3>1, <3>2 DEF CS!TakeWrite
    <3>4. QED BY <3>3
  <2>8. QED BY <2>6, <2>7
<1>8. CASE Sti
  BY <1>8 DEF Sti, Stage
<1>9. CASE Merge
  <2>1. chipset = "mech2" /\ op.size # "l"
    BY <1>9 DEF Merge, AccessFits, Narrow, MechDetected
  <2>2. QED
    BY <1>9, <2>1 DEF Merge, Stage, Access
<1>10. CASE Return
  <2>1. Stage = "taken" /\ Stage' = "idle"
    BY <1>10 DEF Return, Stage
  <2>2. CS!Return
    BY <1>10, <2>1 DEF Return, CS!Return
  <2>3. QED BY <2>2
<1>11. CASE Exit
  BY <1>11 DEF Exit, Stage
<1>12. ASSUME NEW loc \in Present, NEW lane \in CS!Lanes, NEW b \in CS!Byte,
              Disturb(loc, lane, b), UNCHANGED <<chipset, pc, op, acc, cf8, result>>
       PROVE  CS!Others
  BY <1>12 DEF Disturb, CS!Others, Stage
<1>13. CASE Interrupt
  BY <1>12, <1>13 DEF Interrupt, Stage
<1>14. CASE RaiseStatus
  <2>1. Bits \in CS!Byte
    BY DEF CS!Byte
  <2>2. QED
    BY <1>12, <1>14, <2>1 DEF RaiseStatus, tool
<1>15. CASE UNCHANGED vars
  BY <1>15 DEF vars, Stage
<1>16. QED
  BY <1>1, <1>2, <1>3, <1>4, <1>5, <1>6, <1>7, <1>8, <1>9, <1>10, <1>11, <1>13,
     <1>14, <1>15 DEF Next, Step, Ended

(* A call takes effect at one instant between call and return, on the      *)
(* register it names; only narrow mechanism 2 writes take two.             *)
THEOREM Refinement == Spec => RefinesConfigSpace
BY InitIInv, NextIInv, RefinementInit, RefinementStep, PTL
   DEF Spec, RefinesConfigSpace, CS!Spec

-----------------------------------------------------------------------------
(* The bytes beside a narrow write.  Until the write, they are what they   *)
(* were when the call started; so is what a merging write has fetched.     *)
Beside == CS!Lanes \ (CS!Touched(op) \cup disturbed)

NeighbourInv ==
  pc \notin {"boot", "idle", "exit"} /\ op.kind = "write" =>
    \A l \in Beside : <<op.loc, l>> \notin Status =>
      /\ space[op.loc][l] = before[l]
      /\ Stage = "fetched" /\ op.loc \in Present => cf8[l] = before[l]

LEMMA MergedKeepsOld ==
  ASSUME IntLanes = 4, NEW old \in CS!Dword, NEW o, NEW l \in CS!Lanes \ CS!Touched(o)
  PROVE  CS!Merged(IntLanes, old, o)[l] = old[l]
BY DEF CS!Merged, CS!Dword

LEMMA NeighbourStep ==
  ASSUME IntLanes = 4, IInv, NeighbourInv, [Next]_vars
  PROVE  NeighbourInv'
<1> USE DEF IInv
<1>1. ASSUME NEW c \in Calls, Call(c) PROVE NeighbourInv'
  <2>1. space' = space /\ before' = space'[op'.loc]
    BY <1>1 DEF Call
  <2>3. c.kind \in {"read", "write"}
    BY PciConfigInputs DEF CS!Ops
  <2>4. Stage' = "called"
    <3>1. (mech = 1 /\ chipset = "mech1") \/ (mech = 2 /\ chipset = "mech2")
      BY <1>1 DEF Call, MechDetected
    <3>2. QED
      BY <1>1, <2>3, <3>1 DEF Call, Stage, Access, Merging
  <2>5. QED
    BY <2>1, <2>4 DEF NeighbourInv
<1>2. CASE PciInit \/ Exit
  BY <1>2 DEF PciInit, Exit, NeighbourInv
<1>3. CASE Cli \/ OutAddress \/ OutBus \/ Sti
  <2>1. UNCHANGED <<space, chipset, op, acc, cf8, before, disturbed>>
    BY <1>3 DEF Cli, OutAddress, OutBus, Sti
  <2>2. Stage' = "fetched" => Stage = "fetched"
    BY <1>3 DEF Cli, OutAddress, OutBus, Sti, Stage, Merging
  <2>3. pc \notin {"boot", "idle", "exit"}
    BY <1>3 DEF Cli, OutAddress, OutBus, Sti
  <2>4. QED
    BY <2>1, <2>2, <2>3 DEF NeighbourInv, Beside, CS!Touched
<1>4. CASE InData
  <2>1. UNCHANGED <<space, chipset, op, acc, before, disturbed>>
    BY <1>4 DEF InData
  <2>2. SUFFICES ASSUME op.kind = "write", NEW l \in Beside, <<op.loc, l>> \notin Status
                 PROVE  /\ space[op.loc][l] = before[l]
                        /\ op.loc \in Present => cf8'[l] = before[l]
    BY <2>1 DEF NeighbourInv, Beside, CS!Touched
  <2>3. space[op.loc][l] = before[l]
    BY <1>4, <2>2 DEF InData, NeighbourInv
  <2>4. acc.lanes = CS!Lanes
    BY <1>4, <2>2 DEF InData, AccessFits, Access
  <2>5. ASSUME op.loc \in Present PROVE cf8'[l] = space[op.loc][l]
    <3>1. Reached = op.loc /\ latch.open
      BY <1>4 DEF InData, DataPortAddressed
    <3>2. cf8' = CS!Select(CS!Select(space[op.loc], CS!Lanes), CS!Lanes)
      BY <1>4, <2>2, <2>4, <2>5, <3>1 DEF InData, CS!Read
    <3>3. QED
      BY <3>2 DEF CS!Select, Beside
  <2>6. QED BY <2>3, <2>5
<1>5. CASE OutData
  <2>1. UNCHANGED <<op, cf8, before, disturbed>> /\ Stage' = "taken"
    <3>1. acc.kind = op.kind
      BY <1>5 DEF OutData, AccessFits, Narrow, Access, TypeOK, CS!Ops
    <3>2. QED
      BY <1>5, <3>1 DEF OutData, Stage
  <2>2. SUFFICES ASSUME op.kind = "write", NEW l \in Beside, <<op.loc, l>> \notin Status
                 PROVE  space'[op.loc][l] = before[l]
    BY <2>1 DEF NeighbourInv, Beside, CS!Touched
  <2>3. space[op.loc][l] = before[l]
    BY <1>5, <2>2 DEF OutData, NeighbourInv
  <2>4. /\ op.loc \in Locs /\ l \in CS!Lanes /\ l \notin CS!Touched(op)
        /\ space \in [Locs -> CS!Dword] /\ cf8 \in CS!Dword
    BY <2>2 DEF TypeOK, CS!Ops, Beside
  <2>5. CASE op.loc \notin Present
    <3>1. space' = space
      BY <1>5, <2>5 DEF OutData, DataPortAddressed, CS!Write
    <3>2. QED BY <2>3, <3>1
  <2>6. CASE op.loc \in Present
    <3>1. space' = CS!Poke(space, op.loc, acc.lanes, acc.val)
      BY <1>5, <2>6 DEF OutData, DataPortAddressed, CS!Write
    <3>2. space'[op.loc][l] = IF l \in acc.lanes THEN acc.val[l] ELSE space[op.loc][l]
      BY <2>2, <2>4, <3>1 DEF CS!Poke, CS!Stored
    <3>3. CASE l \notin acc.lanes
      BY <2>3, <3>2, <3>3
    <3>4. CASE l \in acc.lanes
      <4>1. mech = 2
        BY <1>5, <2>4, <3>4 DEF OutData, AccessFits, Access
      <4>2. op.size # "l"
        BY <2>4 DEF CS!Touched, CS!LanesOf
      <4>3. acc.val = CS!Merged(IntLanes, cf8, op) /\ Stage = "fetched"
        BY <1>5, <2>2, <4>1, <4>2
           DEF OutData, AccessFits, Access, Narrow, Stage, Merging, MechDetected
      <4>4. acc.val[l] = cf8[l]
        BY <2>4, <4>3, MergedKeepsOld
      <4>5. cf8[l] = before[l]
        BY <1>5, <2>2, <2>6, <4>3 DEF OutData, NeighbourInv
      <4>6. QED BY <3>2, <3>4, <4>4, <4>5
    <3>5. QED BY <3>3, <3>4
  <2>7. QED BY <2>5, <2>6
<1>6. CASE Merge
  <2>1. UNCHANGED <<space, chipset, op, cf8, before, disturbed>> /\ Stage = "fetched"
    BY <1>6 DEF Merge, Stage
  <2>2. QED
    BY <1>6, <2>1 DEF Merge, NeighbourInv, Beside, CS!Touched
<1>7. CASE Return
  BY <1>7 DEF Return, NeighbourInv
<1>8. ASSUME NEW loc \in Present, NEW lane \in CS!Lanes, NEW b \in CS!Byte,
             Disturb(loc, lane, b), UNCHANGED <<chipset, pc, op, acc, cf8, before>>
      PROVE  NeighbourInv'
  <2>1. /\ Stage' = Stage
        /\ Beside' \subseteq Beside
        /\ \A l \in Beside' : space'[op.loc][l] = space[op.loc][l]
    <3>1. Stage' = Stage
      BY <1>8 DEF Stage, Merging
    <3>2. Beside' \subseteq Beside
      BY <1>8 DEF Disturb, Beside, CS!Touched
    <3>3. ASSUME NEW l \in Beside' PROVE space'[op.loc][l] = space[op.loc][l]
      <4>1. loc # op.loc \/ lane # l
        BY <1>8, <3>3 DEF Disturb, Beside
      <4>2. op.loc \in Locs /\ l \in CS!Lanes /\ space \in [Locs -> CS!Dword]
        BY <3>3 DEF TypeOK, CS!Ops, Beside
      <4>3. QED
        BY <1>8, <4>1, <4>2 DEF Disturb, CS!Dword
    <3>4. QED BY <3>1, <3>2, <3>3
  <2>2. QED
    BY <1>8, <2>1 DEF NeighbourInv
<1>9. CASE Interrupt
  <2>1. CASE UNCHANGED <<space, disturbed, disturbances>>
    BY <1>9, <2>1 DEF Interrupt, NeighbourInv, Stage, Merging, Beside, CS!Touched
  <2>2. QED
    BY <1>8, <1>9, <2>1 DEF Interrupt
<1>10. CASE RaiseStatus
  <2>1. Bits \in CS!Byte
    BY DEF CS!Byte
  <2>2. QED
    BY <1>8, <1>10, <2>1 DEF RaiseStatus, tool
<1>11. CASE UNCHANGED vars
  BY <1>11 DEF vars, NeighbourInv, Stage, Merging, Beside, CS!Touched
<1>12. QED
  BY <1>1, <1>2, <1>3, <1>4, <1>5, <1>6, <1>7, <1>9, <1>10, <1>11
     DEF Next, Step, Ended

(* In the 32-bit builds a narrow write leaves the plain registers beside   *)
(* the one it names as they are, unless someone else changes them.         *)
THEOREM NeighboursSafe ==
  ASSUME IntLanes = 4
  PROVE  Spec => []NeighboursKept
<1>1. Init => NeighbourInv
  BY DEF Init, NeighbourInv
<1>2. IInv /\ NeighbourInv /\ [Next]_vars => NeighbourInv'
  BY NeighbourStep
<1>3. IInv /\ NeighbourInv => NeighboursKept
  BY DEF NeighbourInv, NeighboursKept, Beside
<1>4. QED
  BY <1>1, <1>2, <1>3, Invariance, PTL DEF Spec
=============================================================================
