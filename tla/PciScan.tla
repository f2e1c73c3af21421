------------------------------ MODULE PciScan -------------------------------
(***************************************************************************)
(* The walks over the PCI buses: pci_scan_bus of clib_pci.c, which calls   *)
(* the tool back for every function, and scan_bus of pcireg.c (-s), which  *)
(* prints every function as a line of a tree.  Both recurse into the bus   *)
(* behind a bridge as soon as they meet it.  To know which line is the     *)
(* last of its bus, pcireg walks every bus once more beforehand, without   *)
(* recursion.                                                              *)
(***************************************************************************)
EXTENDS Naturals, Sequences, FiniteSets

CONSTANTS
  Buses,          \* the bus numbers in use
  DeviceCount,    \* pci_device_count: 32, or 16 under access mechanism 2
  FunctionCount,  \* 8 in the code
  Spaces          \* configuration spaces: partial functions from locations

Root == 0
Locations == Buses \X (0 .. DeviceCount - 1) \X (0 .. FunctionCount - 1)
Bus(l) == l[1]
Dev(l) == l[2]
Func(l) == l[3]

(* The header of a function: the multi-function bit, and the secondary bus *)
(* of a bridge.  No bridge leads to the root, which stands for none.       *)
Headers == [multi : BOOLEAN, to : Buses]

(* The BIOS has numbered the buses: the bus behind a bridge has a higher   *)
(* number than the bus before it, and no other bridge leads to it.         *)
Numbered(space) ==
  /\ \A l \in DOMAIN space : space[l].to # Root => space[l].to > Bus(l)
  /\ \A l, m \in DOMAIN space :
       space[l].to = space[m].to /\ space[l].to # Root => l = m

ASSUME PciScanAssumption ==
  /\ Buses \subseteq Nat /\ IsFiniteSet(Buses) /\ Root \in Buses
  /\ DeviceCount \in Nat \ {0} /\ FunctionCount \in Nat \ {0}
  /\ \A space \in Spaces :
       /\ DOMAIN space \subseteq Locations
       /\ \A l \in DOMAIN space : space[l] \in Headers
       /\ Numbered(space)

VARIABLES
  tool,           \* "clib" or "pcireg"
  space,          \* the machine
  stack,          \* the calls in progress, the innermost first
  nesting_buf,    \* what precedes a line: for each level, was it the last?
  lines           \* the callbacks made, or the lines printed

vars == <<tool, space, stack, nesting_buf, lines>>

-----------------------------------------------------------------------------
(* A call scans a bus for its lines, or counts: finds the last function.   *)
Scan(bus) ==
  [bus |-> bus, dev |-> 0, func |-> 0, counts |-> FALSE, ret |-> <<0, 0>>, cut |-> 0]

(* Mutant: the walk that counts reports, too.                              *)
CountingAloud(bus) == Scan(bus)

Counting(bus) == [Scan(bus) EXCEPT !.counts = TRUE]

Push(call, calls) == <<call>> \o calls

(* pcireg's scan_bus with a buffer begins with a call without one.         *)
Enter(bus, calls) ==
  LET scans == Push(Scan(bus), calls)
  IN  IF tool = "pcireg" THEN Push(Counting(bus), scans) ELSE scans

Init ==
  /\ tool \in {"clib", "pcireg"}
  /\ space \in Spaces
  /\ stack = Enter(Root, <<>>)
  /\ nesting_buf = <<>>
  /\ lines = <<>>

Top == stack[1]
Here == <<Top.bus, Top.dev, Top.func>>
Scanning == stack # <<>> /\ Top.dev < DeviceCount
Found == Here \in DOMAIN space

(* The first function of the next device, and the next function.           *)
NextDevice(call) == [call EXCEPT !.dev = @ + 1, !.func = 0]

(* Mutant: there is one function too many.                                 *)
NextFunctionLate(call) ==
  IF call.func = FunctionCount THEN NextDevice(call)
                               ELSE [call EXCEPT !.func = @ + 1]

NextFunction(call) ==
  IF call.func + 1 = FunctionCount THEN NextDevice(call)
                                   ELSE [call EXCEPT !.func = @ + 1]

(* Mutant: an absent function is skipped without counting it.              *)
AbsentSkipped ==
  /\ Scanning /\ ~Found
  /\ stack' = [stack EXCEPT ![1] = IF @.func = 0 THEN NextDevice(@) ELSE @]
  /\ UNCHANGED <<tool, space, nesting_buf, lines>>

(* Nothing answers: the rest of a device without function 0 is not asked.  *)
Absent ==
  /\ Scanning /\ ~Found
  /\ stack' = [stack EXCEPT ![1] = IF @.func = 0 THEN NextDevice(@) ELSE NextFunction(@)]
  /\ UNCHANGED <<tool, space, nesting_buf, lines>>

(* Mutant: the multi-function bit is looked for in every function.         *)
AfterEveryHeader(call, header) ==
  IF ~header.multi THEN NextDevice(call) ELSE NextFunction(call)

(* A device whose function 0 does not say that there are others has none.  *)
After(call, header) ==
  IF call.func = 0 /\ ~header.multi THEN NextDevice(call) ELSE NextFunction(call)

Count ==
  /\ Scanning /\ Found /\ Top.counts
  /\ stack' = [stack EXCEPT
                 ![1] = [After(@, space[Here]) EXCEPT !.ret = <<Top.dev, Top.func>>]]
  /\ UNCHANGED <<tool, space, nesting_buf, lines>>

(* The walk without a buffer came no further than here.                    *)
IsLast ==
  \/ Top.dev > Top.ret[1]
  \/ Top.dev = Top.ret[1] /\ Top.func >= Top.ret[2]

Line == [at |-> Here, nesting |-> nesting_buf, last |-> IsLast]

Nesting == Cardinality({k \in DOMAIN stack : ~stack[k].counts}) - 1

(* A function is called back for, or printed; behind a bridge the walk     *)
(* goes on first.                                                          *)
Device ==
  /\ Scanning /\ Found /\ ~Top.counts
  /\ space[Here].to = Root
  /\ lines' = Append(lines, Line)
  /\ stack' = [stack EXCEPT ![1] = After(@, space[Here])]
  /\ UNCHANGED <<tool, space, nesting_buf>>

Bridge ==
  /\ Scanning /\ Found /\ ~Top.counts
  /\ space[Here].to # Root
  /\ lines' = Append(lines, Line)
  /\ nesting_buf' = IF tool = "pcireg" /\ Nesting > 0
                     THEN Append(nesting_buf, IsLast) ELSE nesting_buf
  /\ stack' = Enter(space[Here].to,
                    [stack EXCEPT ![1] = [After(@, space[Here])
                                            EXCEPT !.cut = Len(nesting_buf)]])
  /\ UNCHANGED <<tool, space>>

(* The walk without a buffer returns to the one with it.                   *)
Counted ==
  /\ stack # <<>> /\ Top.dev = DeviceCount /\ Top.counts
  /\ stack' = [Tail(stack) EXCEPT ![1].ret = Top.ret]
  /\ UNCHANGED <<tool, space, nesting_buf, lines>>

(* Mutant: the caller's nesting is not restored.                           *)
ReturnKeepsNesting ==
  /\ stack # <<>> /\ Top.dev = DeviceCount /\ ~Top.counts
  /\ stack' = Tail(stack)
  /\ UNCHANGED <<tool, space, nesting_buf, lines>>

(* A bus is done: its bridge's device goes on, with its own nesting.       *)
Return ==
  /\ stack # <<>> /\ Top.dev = DeviceCount /\ ~Top.counts
  /\ stack' = Tail(stack)
  /\ nesting_buf' = IF stack' = <<>> THEN nesting_buf
                                     ELSE SubSeq(nesting_buf, 1, stack'[1].cut)
  /\ UNCHANGED <<tool, space, lines>>

Ended == stack = <<>> /\ UNCHANGED vars

Walk == Absent \/ Count \/ Device \/ Bridge \/ Counted \/ Return

Next == Walk \/ Ended

Spec == Init /\ [][Next]_vars

(* The processor runs the tool; nothing is waited for.                     *)
FairSpec == Spec /\ WF_vars(Walk)

-----------------------------------------------------------------------------
Frames == [bus : Buses, dev : 0 .. DeviceCount, func : 0 .. FunctionCount - 1,
           counts : BOOLEAN, ret : Nat \X Nat, cut : Nat]

(* Every variable has a value of its type, and the recursion, with what it *)
(* puts into nesting_buf, is no deeper than there are buses.               *)
TypeOK ==
  /\ tool \in {"clib", "pcireg"}
  /\ stack \in Seq(Frames)
  /\ Len(stack) <= Cardinality(Buses) + 1
  /\ nesting_buf \in Seq(BOOLEAN) /\ Len(nesting_buf) < Cardinality(Buses)
  /\ \A k \in DOMAIN lines :
       /\ lines[k].at \in Locations
       /\ lines[k].nesting \in Seq(BOOLEAN) /\ lines[k].last \in BOOLEAN

(* What there is to find: function 0 of a device, and the others if it     *)
(* says that there are others, on a bus that a bridge to be found leads    *)
(* to: one that is in every set with the root that bridges do not leave.   *)
Answers(l) ==
  /\ l \in DOMAIN space
  /\ Func(l) = 0 \/ LET first == <<Bus(l), Dev(l), 0>>
                    IN first \in DOMAIN space /\ space[first].multi

Closed(buses) ==
  /\ Root \in buses
  /\ \A l \in DOMAIN space : Answers(l) /\ Bus(l) \in buses => space[l].to \in buses

BusesReached == {b \in Buses : \A buses \in SUBSET Buses : Closed(buses) => b \in buses}

Visible ==
  LET reached == BusesReached
  IN  {l \in DOMAIN space : Answers(l) /\ Bus(l) \in reached}

(* src/pcireg/README.md, -s: "Display all devices on the PCI bus."  Every  *)
(* visible function has been reported in the end, and a function that      *)
(* another one's missing bit hides has not.                                *)
ReportsAll ==
  stack = <<>> => {lines[k].at : k \in DOMAIN lines} = Visible

(* No function is reported twice, by whatever bridges the walk went.       *)
ReportsOnce ==
  \A j, k \in DOMAIN lines : lines[j].at = lines[k].at => j = k

(* pcireg's lines draw the tree: the last line of a bus, and no other, has *)
(* a corner, and a line below a bridge repeats what precedes the bridge,   *)
(* with a bar where more follows beside the bridge.                        *)
TreeDrawn ==
  tool = "pcireg" =>
    \A j \in DOMAIN lines :
      /\ lines[j].last <=>
           \A l \in Visible : Bus(l) = Bus(lines[j].at) =>
             \/ Dev(l) < Dev(lines[j].at)
             \/ Dev(l) = Dev(lines[j].at) /\ Func(l) <= Func(lines[j].at)
      /\ \A k \in DOMAIN lines :
           space[lines[k].at].to = Bus(lines[j].at) /\ Bus(lines[j].at) # Root =>
             lines[j].nesting = IF Bus(lines[k].at) = Root THEN <<>>
                                ELSE Append(lines[k].nesting, lines[k].last)

(* The walk ends.                                                          *)
Terminates == <>(stack = <<>>)
=============================================================================
