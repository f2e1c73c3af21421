------------------------------ MODULE Steering ------------------------------
(***************************************************************************)
(* pcireg -t: dump_steering_table fetches the IRQ routing table, from the  *)
(* PCI BIOS into a real mode buffer that it enlarges when the BIOS asks,   *)
(* or from the $PIR table of the BIOS segment, and displays it, either as  *)
(* it is or as 86Box code, which numbers the chipset's link values.        *)
(***************************************************************************)
EXTENDS Integers, Sequences, FiniteSets

CONSTANTS
  Modes,         \* sets of the options "m" and "8"
  Firmwares,     \* PCI BIOSes and $PIR tables, with the devices' classes
  MaxTrouble     \* bound: allocations and DPMI calls that fail

Words == {x \in Nat : x < 65536}
EntrySize == 16
FirstSize == 1024
NoTable == <<>>

irq_routing_entry_t ==
  [bus : 0 .. 255, dev : 0 .. 255, slot : 0 .. 255, ints : [1 .. 4 -> 0 .. 255],
   bitmaps : [1 .. 4 -> SUBSET (0 .. 15)]]

VARIABLES
  mode, firmware,
  at,            \* where dump_steering_table is
  buf_size,
  held,          \* bytes of real mode memory allocated, 0 if none
  len,           \* table->len
  table,         \* the entries, in near memory
  irq_bitmap,    \* link value |-> INT line number, 0 if none
  warned,
  lines,         \* the entries displayed
  next,          \* the entry to display
  trouble

tool == <<mode, firmware>>
buffer == <<buf_size, held>>
display == <<irq_bitmap, warned, lines, next>>
vars == <<tool, at, buffer, len, table, display, trouble>>

Init ==
  /\ mode \in Modes /\ firmware \in Firmwares
  /\ at = "start" /\ buf_size = FirstSize /\ held = 0
  /\ len = 0 /\ table = NoTable
  /\ irq_bitmap = [l \in 0 .. 255 |-> 0] /\ warned = FALSE
  /\ lines = <<>> /\ next = 1 /\ trouble = 0

Trouble == trouble < MaxTrouble /\ trouble' = trouble + 1

-----------------------------------------------------------------------------
(* The table.                                                              *)

(* The $PIR table's size is at its byte 6; 32 bytes come before the entries*)
FindPir ==
  /\ at = "start" /\ "m" \in mode
  /\ LET i == (firmware.pir.size - 32) \div EntrySize
     IN  IF firmware.pir.size = 0 THEN at' = "failed" /\ UNCHANGED <<len, table, trouble>>
         ELSE \/ /\ len' = (i * EntrySize) % 65536
                 /\ table' = SubSeq(firmware.pir.entries, 1, i)
                 /\ at' = "have" /\ UNCHANGED trouble
              \/ Trouble /\ at' = "failed" /\ UNCHANGED <<len, table>>
  /\ UNCHANGED <<tool, buffer, display>>

(* Real mode memory comes in paragraphs.                                   *)
Allocate ==
  /\ at = "start" /\ "m" \notin mode
  /\ \/ held' = 16 * ((buf_size + 15) \div 16) /\ at' = "call" /\ UNCHANGED trouble
     \/ Trouble /\ at' = "failed" /\ UNCHANGED held
  /\ UNCHANGED <<tool, buf_size, len, table, display>>

(* What a BIOS does with the length it is given: the table, or the length  *)
(* that it needs; an odd one never agrees.                           *)
Answers ==
  IF firmware.odd # {} THEN [ah : {89, 130}, len : firmware.odd]
  ELSE {[ah |-> IF firmware.len > buf_size THEN 89 ELSE 0, len |-> firmware.len]}

(* Mutant: the length field before the entries is forgotten.               *)
RetryTight(answer) ==
  /\ held' = 0
  /\ IF answer.len >= 65530 THEN at' = "failed" /\ buf_size' = answer.len
     ELSE at' = "start" /\ buf_size' = answer.len

(* Once more, with what was asked for and the length field before it.      *)
Retry(answer) ==
  /\ held' = 0
  /\ IF answer.len >= 65530 THEN at' = "failed" /\ buf_size' = answer.len
     ELSE at' = "start" /\ buf_size' = answer.len + 2

CallBios ==
  /\ at = "call"
  /\ \/ \E answer \in Answers :
          /\ len' = answer.len
          /\ IF answer.ah = 89 /\ answer.len > buf_size THEN Retry(answer)
             ELSE /\ at' = (IF answer.ah = 0 THEN "fetched" ELSE "failed")
                  /\ held' = (IF answer.ah = 0 THEN held ELSE 0)
                  /\ UNCHANGED buf_size
          /\ UNCHANGED trouble
     \/ Trouble /\ at' = "lost" /\ UNCHANGED <<buffer, len>>
  /\ UNCHANGED <<tool, table, display>>

(* buf_size bytes are copied: the length and what follows it.  If that is  *)
(* two bytes short, the last entry's slot is whatever memory held.         *)
Copied ==
  LET k == len \div EntrySize
      entries == SubSeq(firmware.entries, 1, k)
  IN  IF 2 + len <= buf_size THEN {entries}
      ELSE {[entries EXCEPT ![k].slot = s] : s \in {0, 255}}

CopyTable ==
  /\ at = "fetched"
  /\ held' = 0
  /\ \/ table' \in Copied /\ at' = "have" /\ UNCHANGED trouble
     \/ Trouble /\ at' = "failed" /\ UNCHANGED table
  /\ UNCHANGED <<tool, buf_size, len, display>>

-----------------------------------------------------------------------------
(* The display.                                                            *)

Entries == DOMAIN table
RootLinks ==
  {l \in 1 .. 255 : \E i \in Entries : table[i].bus = 0 /\ \E p \in 1 .. 4 : table[i].ints[p] = l}

(* Link values in the order most chipsets number them: rotated left by one.*)
Rotated(link) ==
  LET a == IF link = 137 THEN 193 ELSE link IN ((a * 2) % 256) + (a \div 128)

(* Mutant: links as they are.                                              *)
LinkOrdersPlain ==
  {f \in [1 .. Cardinality(RootLinks) -> RootLinks] :
     \A i, j \in DOMAIN f : i < j => f[i] # f[j] /\ f[i] <= f[j]}

(* The orders that a sort may leave the links in.                          *)
LinkOrders ==
  {f \in [1 .. Cardinality(RootLinks) -> RootLinks] :
     \A i, j \in DOMAIN f : i < j => f[i] # f[j] /\ Rotated(f[i]) <= Rotated(f[j])}

DeviceOrders ==
  {f \in [Entries -> Entries] :
     \A i, j \in Entries : i < j => f[i] # f[j] /\ table[f[i]].dev <= table[f[j]].dev}

Has(dev) == \E i \in Entries : table[i].bus = 0 /\ table[i].dev \div 8 = dev

Slot(dev, type, ints) == [dev |-> dev, type |-> type, ints |-> ints]

(* Slots that the table should have and may not.                           *)
Missing ==
  (IF ~Has(0) /\ firmware.class[0] = "host" THEN <<Slot(0, "NORTHBRIDGE", <<1, 2, 3, 4>>)>> ELSE <<>>)
  \o (IF ~Has(1) /\ firmware.class[1] = "bridge" THEN <<Slot(1, "AGPBRIDGE", <<1, 2, 3, 4>>)>> ELSE <<>>)

(* As 86Box code: in the order of devices, links numbered 1 to 4.          *)
Prepare ==
  /\ at = "have"
  /\ IF "8" \notin mode THEN at' = "display" /\ UNCHANGED <<table, irq_bitmap, warned, lines>>
     ELSE IF table = NoTable THEN at' = "failed" /\ UNCHANGED <<table, irq_bitmap, warned, lines>>
     ELSE /\ \E f \in DeviceOrders : table' = [i \in Entries |-> table[f[i]]]
          /\ lines' = Missing
          /\ \E f \in LinkOrders :
               irq_bitmap' = [l \in 0 .. 255 |->
                 IF \E i \in DOMAIN f : i <= 4 /\ f[i] = l THEN CHOOSE i \in DOMAIN f : f[i] = l ELSE 0]
          /\ warned' = (Cardinality(RootLinks) % 4 # 0)
          /\ at' = "display"
  /\ UNCHANGED <<tool, buffer, len, next, trouble>>

Onboard == {"VIDEO", "IDE", "SCSI", "SOUND", "MODEM", "NETWORK", "UART", "USB"}

SlotType(dev, slot) ==
  LET class == firmware.class[dev]
  IN  CASE dev = 0 -> "NORTHBRIDGE"
        [] dev = 1 /\ class = "bridge" -> "AGPBRIDGE"
        [] class = "isa" -> "SOUTHBRIDGE"
        [] class \in Onboard /\ slot = 0 /\ dev # 0 -> class
        [] OTHER -> "NORMAL"

(* IRQ i can be given to the pins in the set with number i.                *)
Steerable(e) == [i \in 0 .. 15 |-> {p \in 1 .. 4 : i \in e.bitmaps[p]}]

Display ==
  /\ at = "display"
  /\ IF next \notin Entries THEN at' = "done" /\ UNCHANGED <<lines, next>>
     ELSE LET e == table[next]
              dev == e.dev \div 8
          IN  /\ lines' =
                   IF "8" \notin mode
                   THEN Append(lines, [slot |-> e.slot, bus |-> e.bus, dev |-> dev,
                                       ints |-> e.ints, irqs |-> Steerable(e)])
                   ELSE IF e.bus # 0 THEN lines
                   ELSE Append(lines, Slot(dev, SlotType(dev, e.slot),
                                           [p \in 1 .. 4 |-> irq_bitmap[e.ints[p]]]))
              /\ next' = next + 1 /\ UNCHANGED at
  /\ UNCHANGED <<tool, buffer, len, table, irq_bitmap, warned, trouble>>

Next == FindPir \/ Allocate \/ CallBios \/ CopyTable \/ Prepare \/ Display
Spec == Init /\ [][Next]_vars

-----------------------------------------------------------------------------
(* Properties.                                                             *)

TypeOK ==
  /\ at \in {"start", "call", "fetched", "have", "display", "done", "failed", "lost"}
  /\ {buf_size, len} \subseteq Words /\ held \in Nat /\ held <= 65536
  /\ irq_bitmap \in [0 .. 255 -> 0 .. 4]
  /\ next \in 1 .. Len(table) + 1 /\ trouble \in 0 .. MaxTrouble

(* The BIOS is never told of more room than there is, so that its table    *)
(* ends within the real mode buffer, but for a table of exactly the first  *)
(* buffer's size, 64 entries: that one comes two bytes after its start and *)
(* ends two bytes past the buffer.  The buffer is there for the calls and  *)
(* freed before it is allocated again and before the table is used or      *)
(* given up, except after a DPMI call that failed (at = "lost"): then it   *)
(* is never freed.                                                         *)
BufferKept ==
  /\ at = "fetched" /\ firmware.odd = {} =>
       IF len = FirstSize THEN held = len ELSE 2 + len <= held
  /\ held = 0 <=> at \notin {"call", "fetched", "lost"}

Given == IF "m" \in mode THEN firmware.pir.entries ELSE firmware.entries

(* INT lines follow the links: equal links have equal numbers, different   *)
(* ones different numbers as long as these are not 0, a link that has none *)
(* comes with the warning (not when the number of links is a multiple of   *)
(* four), and the numbers of up to four links start at 1 and follow the    *)
(* rotated link values.                                                    *)
NumbersFollowLinks ==
  LET nums == [l \in RootLinks |-> irq_bitmap[l]]
      few == Cardinality(RootLinks) <= 4
  IN  /\ irq_bitmap[0] = 0
      /\ \A k, l \in RootLinks : nums[k] = nums[l] => k = l \/ nums[k] = 0
      /\ few => {nums[l] : l \in RootLinks} = 1 .. Cardinality(RootLinks)
      /\ few => \A k, l \in RootLinks : Rotated(k) < Rotated(l) => nums[k] < nums[l]
      /\ (\E l \in RootLinks : nums[l] = 0) /\ Cardinality(RootLinks) % 4 # 0 => warned

(* Each of the root bus's entries has its line, and the north bridge and   *)
(* the AGP bridge are added only if they have none.                        *)
LinesFollowTable ==
  LET root == {i \in DOMAIN Given : Given[i].bus = 0}
      of(dev) == Cardinality({i \in root : Given[i].dev \div 8 = dev})
      shown(dev) == Cardinality({i \in DOMAIN lines : lines[i].dev = dev})
      dup(dev) == IF of(dev) = 0 THEN 1 ELSE of(dev)
  IN  /\ \A i \in root : \E j \in DOMAIN lines :
            /\ lines[j].dev = Given[i].dev \div 8
            /\ lines[j].ints = [p \in 1 .. 4 |-> irq_bitmap[Given[i].ints[p]]]
      /\ \A dev \in 0 .. 31 : shown(dev) >= of(dev) /\ shown(dev) <= dup(dev)
      /\ firmware.class[0] = "host" => shown(0) > 0

(* What the buffer of the first size has no room for (see BufferKept): the *)
(* slot of the last of 64 entries is whatever memory held.                 *)
CutShort(i) == "m" \notin mode /\ len = FirstSize /\ i = Len(Given)

(* What pcireg -t displays is the firmware's table, all of it in order     *)
(* with its devices, links and IRQs, or in 86Box code with the numbering   *)
(* and the lines as above; only the slot of a last entry that was cut      *)
(* short is not known.                                                     *)
SteeringRight ==
  at = "done" =>
    IF "8" \in mode THEN NumbersFollowLinks /\ LinesFollowTable
    ELSE /\ Len(lines) = Len(Given)
         /\ \A i \in DOMAIN Given :
              /\ lines[i].bus = Given[i].bus /\ lines[i].dev = Given[i].dev \div 8
              /\ lines[i].ints = Given[i].ints /\ lines[i].irqs = Steerable(Given[i])
              /\ lines[i].slot = Given[i].slot \/ CutShort(i)
=============================================================================
