----------------------------- MODULE ConfigSpace -----------------------------
(***************************************************************************)
(* What clib_pci.c promises to the tools built on it: PCI configuration    *)
(* space as a file of registers.  A call reads or writes some lanes (bytes)*)
(* of one dword; it takes effect at one instant between call and return.   *)
(* There are no ports, address latches or interrupt flags here.            *)
(*                                                                         *)
(* One exception is promised openly.  When `merges' is TRUE (access        *)
(* mechanism 2) a narrow write is not atomic: it fetches the whole dword   *)
(* and later stores it back with the written lanes replaced.               *)
(***************************************************************************)
EXTENDS Naturals

CONSTANTS
  Locs,      \* dwords of configuration space: [bus, dev, fn, dw] records
  Bits,      \* the bits of a byte
  TopBit,    \* the most significant one
  Status     \* <<loc, lane>> pairs whose bits are cleared by writing 1 to them

Lanes == 0 .. 3
Byte == SUBSET Bits                       \* a byte is the set of its 1 bits
Dword == [Lanes -> Byte]
Zeroes == [l \in Lanes |-> {}]
Ones == [l \in Lanes |-> Bits]

(* Mutant: a word access at the register's own offset.                     *)
LanesUnaligned(size, off) ==
  CASE size = "b" -> {off}
    [] size = "w" -> {off, off + 1}
    [] size = "l" -> Lanes

(* The lanes a call of each size touches; off is the register number's low *)
(* two bits.  A word access ignores bit 0 and a dword access both bits.    *)
LanesOf(size, off) ==
  CASE size = "b" -> {off}
    [] size = "w" -> {2 * (off \div 2), 2 * (off \div 2) + 1}
    [] size = "l" -> Lanes

Ops == [kind : {"read", "write"}, loc : Locs, size : {"b", "w", "l"},
        off : Lanes, val : Dword]

Touched(op) == LanesOf(op.size, op.off)

(* The value of some lanes of a dword, the other lanes being zero.         *)
Select(dword, lanes) ==
  [l \in Lanes |-> IF l \in lanes THEN dword[l] ELSE {}]

(* What a register byte holds after val is written to it.                  *)
Stored(loc, lane, old, val) ==
  IF <<loc, lane>> \in Status THEN old \ val ELSE val

Poke(mem, loc, lanes, val) ==
  [mem EXCEPT ![loc] = [l \in Lanes |->
     IF l \in lanes THEN Stored(loc, l, @[l], val[l]) ELSE @[l]]]

(* Mutant: the byte write keeps the word write's mask.                     *)
MergedWordMask(intLanes, old, op) ==
  [l \in Lanes |-> IF l \in Touched(op) THEN op.val[l]
                   ELSE IF l \in LanesOf("w", op.off) THEN {} ELSE old[l]]

(* The read-modify-write of clib_pci.c: the lanes of the old dword that    *)
(* survive the mask, then the new value.  With a 16-bit int (the real mode *)
(* builds) neither the mask nor the shifted value is as wide as the dword: *)
(* a shift by 16 or 24 leaves nothing.                                     *)
Merged(intLanes, old, op) ==
  LET new == Touched(op)
      base == CHOOSE l \in new : \A m \in new : l <= m
      wide == intLanes = 4
      kept ==
        IF wide THEN Lanes \ new
        ELSE CASE op.size = "w" -> IF base = 0 THEN {} ELSE {0, 1}
               [] base = 0 -> {1, 2, 3}
               [] base = 1 -> {0}
               [] OTHER -> Lanes
      value(l) ==
        CASE ~wide /\ base >= 2 -> {}
          [] l \in new -> op.val[l]
          [] ~wide /\ op.size = "b" /\ base = 1 /\ l > 1 /\ TopBit \in op.val[1] -> Bits
          [] OTHER -> {}
  IN [l \in Lanes |-> (IF l \in kept THEN old[l] ELSE {}) \cup value(l)]

-----------------------------------------------------------------------------
CONSTANTS
  Present,   \* the dwords a PCI function answers for
  IntLanes   \* sizeof(int): 2 in the real mode builds, 4 in the others

VARIABLES
  space,     \* the registers
  merges,    \* are narrow writes read-modify-write?
  op,        \* the call in progress
  stage,     \* how far it is
  snap,      \* the dword a merging write has fetched
  result     \* the value of the last call that returned

vars == <<space, merges, op, stage, snap, result>>

Read(loc) == IF loc \in Present THEN space[loc] ELSE Ones
Write(loc, lanes, val) ==
  space' = IF loc \in Present THEN Poke(space, loc, lanes, val) ELSE space

Splits == op.kind = "write" /\ merges /\ op.size # "l"

Init ==
  /\ space \in [Locs -> Dword]
  /\ merges \in BOOLEAN
  /\ op \in Ops
  /\ stage = "idle"
  /\ snap = Zeroes
  /\ result = Zeroes

Invoke ==
  /\ stage = "idle"
  /\ op' \in Ops
  /\ stage' = "called"
  /\ UNCHANGED <<space, merges, snap, result>>

TakeRead ==
  /\ stage = "called" /\ op.kind = "read"
  /\ snap' = Select(Read(op.loc), Touched(op))
  /\ stage' = "taken"
  /\ UNCHANGED <<space, merges, op, result>>

TakeWrite ==
  /\ stage = "called" /\ op.kind = "write" /\ ~Splits
  /\ Write(op.loc, Touched(op), op.val)
  /\ stage' = "taken"
  /\ UNCHANGED <<merges, op, snap, result>>

Fetch ==
  /\ stage = "called" /\ Splits
  /\ snap' = Read(op.loc)
  /\ stage' = "fetched"
  /\ UNCHANGED <<space, merges, op, result>>

Store ==
  /\ stage = "fetched"
  /\ Write(op.loc, Lanes, Merged(IntLanes, snap, op))
  /\ stage' = "taken"
  /\ UNCHANGED <<merges, op, snap, result>>

Return ==
  /\ stage = "taken"
  /\ result' = IF op.kind = "read" THEN snap ELSE result
  /\ stage' = "idle"
  /\ UNCHANGED <<space, merges, op, snap>>

(* Interrupt handlers and the devices themselves also change registers.    *)
Others ==
  /\ \E loc \in Present, lane \in Lanes, b \in Byte :
       space' = [space EXCEPT ![loc][lane] = b]
  /\ UNCHANGED <<merges, op, stage, snap, result>>

Next == Invoke \/ TakeRead \/ TakeWrite \/ Fetch \/ Store \/ Return \/ Others

Spec == Init /\ [][Next]_vars
=============================================================================
