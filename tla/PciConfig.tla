------------------------------ MODULE PciConfig ------------------------------
(***************************************************************************)
(* PCI configuration accesses as clib_pci.c makes them: pci_init and       *)
(* pci_{read,write}{b,w,l} on a bare machine, one action per port access.  *)
(*                                                                         *)
(* The two access mechanisms go through latches that every program of the  *)
(* machine shares: port CF8h holds the whole address under mechanism 1;    *)
(* under mechanism 2 ports CF8h and CFAh hold the function and the bus,    *)
(* and the device and register are part of the data port's number.  The    *)
(* BIOS and resident software use the same latches from interrupt handlers *)
(* whenever the interrupt flag allows it.                                  *)
(***************************************************************************)
EXTENDS Naturals

CONSTANTS
  Buses, Devs, Funcs, Dwords,   \* what an address is made of
  Bits, TopBit,                 \* see ConfigSpace
  Status,
  Present,
  IntLanes,
  Calls,                        \* the calls the tool makes
  Contents,                     \* what the registers may hold at the start
  MaxCalls, MaxDisturbances     \* bounds on the calls and on others' writes

Locs == [bus : Buses, dev : Devs, fn : Funcs, dw : Dwords]
Latches == [open : BOOLEAN, bus : Buses, dev : Devs, fn : Funcs, dw : Dwords]

ASSUME PciConfigAssumption ==
  /\ TopBit \in Bits
  /\ IntLanes \in {2, 4}
  /\ Present \subseteq Locs
  /\ MaxCalls \in Nat /\ MaxDisturbances \in Nat

VARIABLES
  space,        \* configuration registers
  chipset,      \* the mechanism the host bridge implements
  mech,         \* pci_mechanism
  ie,           \* the processor's interrupt flag
  latch,        \* ports CF8h and CFAh
  pc,           \* the next thing the tool does
  op,           \* the call in progress
  acc,          \* the in or out instruction it is about to make
  cf8,          \* local variable: what that instruction has read
  result,       \* what the last read returned
  before,       \* history: the dword when the call started
  disturbed,    \* history: lanes of it someone else has changed since
  calls,        \* number of calls made
  disturbances  \* number of register bytes others have changed

vars == <<space, chipset, mech, ie, latch, pc, op, acc, cf8, result, before,
          disturbed, calls, disturbances>>
tool == <<mech, ie, latch, pc, op, acc, cf8, result, before, calls>>

Merging == chipset = "mech2"

(* How far the call in progress is, seen from outside.                     *)
Stage ==
  CASE pc \in {"boot", "idle", "exit"} -> "idle"
    [] pc = "ret" -> "taken"
    [] pc = "merge" -> "fetched"
    [] pc = "sti" ->
         IF acc.kind # op.kind THEN "fetched" ELSE "taken"
    [] OTHER ->
         IF acc.kind = "write" /\ Merging /\ op.size # "l" THEN "fetched"
         ELSE "called"

CS == INSTANCE ConfigSpace WITH merges <- Merging, stage <- Stage, snap <- cf8

(* The dword a data port access reaches: mechanism 1 takes the whole       *)
(* address from the latch, mechanism 2 only bus and function.              *)
Reached ==
  [bus |-> latch.bus, fn |-> latch.fn,
   dev |-> IF Merging THEN op.loc.dev ELSE latch.dev,
   dw  |-> IF Merging THEN op.loc.dw ELSE latch.dw]

Access(kind, lanes, val) == [kind |-> kind, lanes |-> lanes, val |-> val]

(* What the tools pass and what the machine holds is of the right type.    *)
ASSUME PciConfigInputs ==
  /\ Calls # {} /\ Calls \subseteq CS!Ops
  /\ Contents \subseteq [Locs -> CS!Dword]

-----------------------------------------------------------------------------
Init ==
  /\ space \in Contents
  /\ chipset \in {"mech1", "mech2", "none"}
  /\ mech = 0
  /\ ie = TRUE
  /\ latch \in Latches
  /\ pc = "boot"
  /\ op = CHOOSE c \in Calls : TRUE
  /\ acc = Access("read", CS!Lanes, CS!Zeroes)
  /\ cf8 = CS!Zeroes
  /\ result = CS!Zeroes
  /\ before = CS!Zeroes
  /\ disturbed = {}
  /\ calls = 0
  /\ disturbances = 0

(* pci_init.  Interrupts are off from its first port access to its last,   *)
(* so it is one step.  The latch is left with the probe's address, enabled *)
(* or, under mechanism 2, closed.  The tools exit if it returns 0.         *)
PciInit ==
  /\ pc = "boot"
  /\ mech' = CASE chipset = "mech1" -> 1
               [] chipset = "mech2" -> 2
               [] chipset = "none" -> 0
  /\ latch' \in {l \in Latches : l.open = (chipset = "mech1")}
  /\ pc' = IF mech' = 0 THEN "exit" ELSE "idle"
  /\ UNCHANGED <<space, chipset, ie, op, acc, cf8, result, before, disturbed,
                 calls, disturbances>>

(* Entering pci_{read,write}{b,w,l}.  Mechanism 2 has no narrow accesses:  *)
(* reads take a dword and writes start by reading one.                     *)
Call(c) ==
  /\ pc = "idle"
  /\ calls < MaxCalls
  /\ calls' = calls + 1
  /\ op' = c
  /\ acc' = CASE mech = 1 -> Access(c.kind, CS!LanesOf(c.size, c.off), c.val)
              [] mech = 2 ->
                   Access(IF c.size = "l" THEN c.kind ELSE "read", CS!Lanes, c.val)
  /\ before' = space[c.loc]
  /\ disturbed' = {}
  /\ pc' = "cli"
  /\ UNCHANGED <<space, chipset, mech, ie, latch, cf8, result, disturbances>>

(* Mutant: cli forgotten.                                                  *)
CliForgotten ==
  /\ pc = "cli"
  /\ pc' = "addr"
  /\ UNCHANGED <<space, chipset, mech, ie, latch, op, acc, cf8, result, before,
                 disturbed, calls, disturbances>>

Cli ==
  /\ pc = "cli"
  /\ ie' = FALSE
  /\ pc' = "addr"
  /\ UNCHANGED <<space, chipset, mech, latch, op, acc, cf8, result, before,
                 disturbed, calls, disturbances>>

(* outl(0xcf8, cf8) under mechanism 1; outb(0xcf8, func) under mechanism 2. *)
OutAddress ==
  /\ pc = "addr"
  /\ \/ /\ mech = 1
        /\ latch' = [open |-> TRUE, bus |-> op.loc.bus, dev |-> op.loc.dev,
                     fn |-> op.loc.fn, dw |-> op.loc.dw]
        /\ pc' = "data"
     \/ /\ mech = 2
        /\ latch' = [latch EXCEPT !.open = TRUE, !.fn = op.loc.fn]
        /\ pc' = "bus"
  /\ UNCHANGED <<space, chipset, mech, ie, op, acc, cf8, result, before,
                 disturbed, calls, disturbances>>

(* outb(0xcfa, bus).                                                       *)
OutBus ==
  /\ pc = "bus"
  /\ latch' = [latch EXCEPT !.bus = op.loc.bus]
  /\ pc' = "data"
  /\ UNCHANGED <<space, chipset, mech, ie, op, acc, cf8, result, before,
                 disturbed, calls, disturbances>>

(* Mutant: a narrow mechanism 2 read returns the dword's low lanes.        *)
InDataUnshifted ==
  /\ pc = "data" /\ acc.kind = "read"
  /\ LET dword == IF latch.open THEN CS!Read(Reached) ELSE CS!Ones
         wanted == IF op.kind = "read" THEN CS!LanesOf(op.size, 0) ELSE CS!Lanes
     IN cf8' = CS!Select(CS!Select(dword, acc.lanes), wanted)
  /\ pc' = "sti"
  /\ UNCHANGED <<space, chipset, mech, ie, latch, op, acc, result, before,
                 disturbed, calls, disturbances>>

(* in{b,w,l} from the data port, and the shift that makes a narrow value   *)
(* of the dword.                                                           *)
InData ==
  /\ pc = "data" /\ acc.kind = "read"
  /\ LET dword == IF latch.open THEN CS!Read(Reached) ELSE CS!Ones
         wanted == IF op.kind = "read" THEN CS!Touched(op) ELSE CS!Lanes
     IN cf8' = CS!Select(CS!Select(dword, acc.lanes), wanted)
  /\ pc' = "sti"
  /\ UNCHANGED <<space, chipset, mech, ie, latch, op, acc, result, before,
                 disturbed, calls, disturbances>>

OutData ==
  /\ pc = "data" /\ acc.kind = "write"
  /\ IF latch.open THEN CS!Write(Reached, acc.lanes, acc.val)
                   ELSE UNCHANGED space
  /\ pc' = "sti"
  /\ UNCHANGED <<chipset, mech, ie, latch, op, acc, cf8, result, before,
                 disturbed, calls, disturbances>>

(* Mutant: the write functions do not enable interrupts again.             *)
StiAfterReads ==
  /\ pc = "sti"
  /\ ie' = (acc.kind = "read")
  /\ pc' = IF acc.kind = op.kind THEN "ret" ELSE "merge"
  /\ UNCHANGED <<space, chipset, mech, latch, op, acc, cf8, result, before,
                 disturbed, calls, disturbances>>

(* After the pci_readl of a narrow mechanism 2 write comes its pci_writel.  *)
Sti ==
  /\ pc = "sti"
  /\ ie' = TRUE
  /\ pc' = IF acc.kind = op.kind THEN "ret" ELSE "merge"
  /\ UNCHANGED <<space, chipset, mech, latch, op, acc, cf8, result, before,
                 disturbed, calls, disturbances>>

Merge ==
  /\ pc = "merge"
  /\ acc' = Access("write", CS!Lanes, CS!Merged(IntLanes, cf8, op))
  /\ pc' = "cli"
  /\ UNCHANGED <<space, chipset, mech, ie, latch, op, cf8, result, before,
                 disturbed, calls, disturbances>>

Return ==
  /\ pc = "ret"
  /\ result' = IF op.kind = "read" THEN cf8 ELSE result
  /\ pc' = "idle"
  /\ UNCHANGED <<space, chipset, mech, ie, latch, op, acc, cf8, before,
                 disturbed, calls, disturbances>>

(* main returns.                                                           *)
Exit ==
  /\ pc = "idle"
  /\ pc' = "exit"
  /\ UNCHANGED <<space, chipset, mech, ie, latch, op, acc, cf8, result, before,
                 disturbed, calls, disturbances>>

-----------------------------------------------------------------------------
(* A byte of the registers changes behind the tool's back.                 *)
Disturb(loc, lane, b) ==
  /\ disturbances < MaxDisturbances
  /\ disturbances' = disturbances + 1
  /\ space' = [space EXCEPT ![loc][lane] = b]
  /\ disturbed' = IF loc = op.loc THEN disturbed \cup {lane} ELSE disturbed

(* An interrupt handler makes a configuration access of its own and leaves *)
(* the latches as it likes (external code: what BIOS handlers may do).     *)
Interrupt ==
  /\ ie
  /\ latch' \in Latches
  /\ \/ \E loc \in Present, lane \in CS!Lanes, b \in CS!Byte : Disturb(loc, lane, b)
     \/ UNCHANGED <<space, disturbed, disturbances>>
  /\ UNCHANGED <<chipset, mech, ie, pc, op, acc, cf8, result, before, calls>>

(* A device raises a status bit; no interrupt flag stops it.               *)
RaiseStatus ==
  /\ \E loc \in Present, lane \in CS!Lanes :
       /\ <<loc, lane>> \in Status
       /\ Disturb(loc, lane, Bits)
  /\ UNCHANGED <<tool, chipset>>

(* The tool has ended.                                                     *)
Ended == pc = "exit" /\ UNCHANGED vars

Step == PciInit \/ Cli \/ OutAddress \/ OutBus \/ InData \/ OutData \/ Sti
          \/ Merge \/ Return

Next ==
  \/ Step
  \/ \E c \in Calls : Call(c)
  \/ Exit
  \/ Interrupt
  \/ RaiseStatus
  \/ Ended

Spec == Init /\ [][Next]_vars

-----------------------------------------------------------------------------
PCs == {"boot", "idle", "cli", "addr", "bus", "data", "sti", "merge", "ret", "exit"}

(* Every variable has a value of its type.                                 *)
TypeOK ==
  /\ space \in [Locs -> CS!Dword]
  /\ chipset \in {"mech1", "mech2", "none"}
  /\ mech \in 0 .. 2
  /\ ie \in BOOLEAN
  /\ latch \in Latches
  /\ pc \in PCs
  /\ op \in CS!Ops
  /\ acc \in [kind : {"read", "write"}, lanes : SUBSET CS!Lanes, val : CS!Dword]
  /\ cf8 \in CS!Dword
  /\ result \in CS!Dword
  /\ before \in CS!Dword
  /\ disturbed \subseteq CS!Lanes
  /\ calls \in Nat
  /\ disturbances \in Nat

(* When the data port is accessed, the latches still address the register  *)
(* of the call: no interrupt handler has come between (the cli and sti of  *)
(* clib_pci.c), whatever it left in them before.                           *)
DataPortAddressed ==
  pc = "data" => latch.open /\ Reached = op.loc

(* Interrupts are off during the port accesses and only then: a tool never *)
(* runs on, calls back or exits with interrupts disabled.                  *)
MaskedOnlyInAccess ==
  ie <=> pc \notin {"addr", "bus", "data", "sti"}

(* A write changes no register beside the one it names, in the bytes that  *)
(* nobody else changed meanwhile and that are not cleared by writing ones. *)
NeighboursKept ==
  pc = "ret" /\ op.kind = "write" =>
    \A l \in CS!Lanes \ (CS!Touched(op) \cup disturbed) :
      <<op.loc, l>> \notin Status => space[op.loc][l] = before[l]

(* pcireg -w: "Write byte, word or dword to the specified register", and   *)
(* so to no other: a byte nobody else changes keeps its value.             *)
WritesOnlySpecifiedRegister ==
  pc = "ret" /\ op.kind = "write" =>
    \A l \in CS!Lanes \ (CS!Touched(op) \cup disturbed) :
      space[op.loc][l] = before[l]

(* Seen from outside, a call takes effect at one instant between call and  *)
(* return, on the register it names: the latches, the interrupt flag and   *)
(* the two mechanisms cannot be told apart, but for merging writes.        *)
RefinesConfigSpace == CS!Spec
=============================================================================
