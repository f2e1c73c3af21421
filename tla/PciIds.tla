------------------------------- MODULE PciIds -------------------------------
(***************************************************************************)
(* pcireg's PCI ID database: pciids.py makes seven files of pci.ids, which *)
(* lha packs into PCIIDS.LHA; pcireg loads each when a lookup first needs  *)
(* it, and looks IDs up with cursors that one lookup leaves for the next.  *)
(* The lookups are those of pcireg -s for each function, and of pcireg -i. *)
(***************************************************************************)
EXTENDS Integers, Sequences, FiniteSets

CONSTANTS
  Ones,          \* FFFFh, and FFh of class codes
  HeaderBuf,     \* 128: bytes read where an archive header should be
  Sources,       \* contents of pci.ids
  Disks,         \* what is on the disk
  Machines,      \* sequences of functions, and the tool that looks at them
  MaxFaults      \* bound: allocations and reads that fail

Dbs == {"V", "D", "S", "C", "U", "P", "T"}
Ids == 0 .. Ones
Keys(k) == [1 .. k -> Ids]
None == "none"
NoName == <<>>
Stray == <<-1>>  \* whatever a string offset from outside a table points to
NoOffset == -1   \* FFFFFFFFh, converted to int where it is an index

-----------------------------------------------------------------------------
(* What there may be: in pci.ids devices are under their vendor and        *)
(* subdevices under their device.                                          *)
IsPciIds(s) ==
  /\ s.vendors \subseteq Ids
  /\ s.devices \subseteq Keys(2) /\ s.devices # {} /\ s.subdevices \subseteq Keys(4)
  /\ \A d \in s.devices : d[1] \in s.vendors
  /\ \A d \in s.subdevices : <<d[1], d[2]>> \in s.devices
  /\ s.classes \subseteq Keys(1) /\ s.subclasses \subseteq Keys(2) /\ s.progifs \subseteq Keys(3)

IsDisk(d) ==
  /\ d.archive \in Seq([db : Dbs, method : STRING, level : Nat, header : Nat, exts : Nat, data : Nat])
  /\ d.plain \subseteq Dbs

IsMachine(m) ==
  /\ m.tool \in {"scan", "info"} /\ m.libpci \in BOOLEAN
  /\ m.functions \in Seq([vendor : Ids, device : Ids, sub : Keys(2), class : Keys(3), header : Nat])
  /\ m.functions # <<>>

-----------------------------------------------------------------------------
(* pciids.py.  Names are left in place of their offsets in the string      *)
(* database; the name of a thing is its key.                               *)
KeyBefore(a, b) == \E i \in DOMAIN a : a[i] < b[i] /\ \A j \in 1 .. i - 1 : a[j] = b[j]

Sorted(S) ==
  CHOOSE f \in [1 .. Cardinality(S) -> S] : \A i, j \in DOMAIN f : i < j => KeyBefore(f[i], f[j])

(* The first k blocks of a table, for each k: where block k + 1 begins.    *)
UpTo(blocks) ==
  LET upTo[k \in 0 .. Len(blocks)] == IF k = 0 THEN <<>> ELSE upTo[k - 1] \o blocks[k]
  IN  upTo

SubdevicesOf(src, dev) == Sorted({s \in src.subdevices : SubSeq(s, 1, 2) = dev})
DevicesOf(src, v) == Sorted({d \in src.devices : d[1] = v})
VendorsWithDevices(src) == Sorted({<<d[1]>> : d \in src.devices})

(* The entries of one device in the subdevice database.  A subdevice FFFFh *)
(* passes for a termination whatever its vendor is.                        *)
SubdeviceEntries(src, dev) ==
  LET subs == SubdevicesOf(src, dev)
      entries == [k \in DOMAIN subs |-> [key |-> <<subs[k][3], subs[k][4]>>, name |-> subs[k]]]
  IN  IF subs = <<>> \/ subs[Len(subs)][4] = Ones THEN entries
      ELSE Append(entries, [key |-> <<Ones, Ones>>, name |-> NoName])

(* All devices in order, each with its subdevices' offset.                 *)
SubdeviceDb(src) ==
  UpTo([k \in 1 .. Cardinality(src.devices) |-> SubdeviceEntries(src, Sorted(src.devices)[k])])

(* Mutant: vendors' devices follow each other without a termination.       *)
DeviceEntriesBare(src, k) ==
  LET devs == DevicesOf(src, VendorsWithDevices(src)[k][1])
      at(dev) == CHOOSE i \in 1 .. Cardinality(src.devices) : Sorted(src.devices)[i] = dev
  IN  [i \in DOMAIN devs |->
         [key |-> <<devs[i][2]>>, name |-> devs[i],
          subs |-> IF SubdevicesOf(src, devs[i]) = <<>> THEN NoOffset
                   ELSE Len(SubdeviceDb(src)[at(devs[i]) - 1])]]

(* The entries of the k-th vendor that has devices, terminated.            *)
DeviceEntries(src, k) ==
  LET devs == DevicesOf(src, VendorsWithDevices(src)[k][1])
      at(dev) == CHOOSE i \in 1 .. Cardinality(src.devices) : Sorted(src.devices)[i] = dev
      entries == [i \in DOMAIN devs |->
         [key |-> <<devs[i][2]>>, name |-> devs[i],
          subs |-> IF SubdevicesOf(src, devs[i]) = <<>> THEN NoOffset
                   ELSE Len(SubdeviceDb(src)[at(devs[i]) - 1])]]
  IN  IF devs[Len(devs)][2] = Ones THEN entries
      ELSE Append(entries, [key |-> <<Ones>>, name |-> NoName, subs |-> NoOffset])

DeviceDb(src) == UpTo([k \in DOMAIN VendorsWithDevices(src) |-> DeviceEntries(src, k)])

(* Mutant: no termination after the last vendor.                           *)
VendorDbBare(src) ==
  LET vendors == Sorted({<<v>> : v \in src.vendors})
      with == VendorsWithDevices(src)
      offset(v) == IF \E k \in DOMAIN with : with[k] = v
                   THEN Len(DeviceDb(src)[(CHOOSE k \in DOMAIN with : with[k] = v) - 1])
                   ELSE NoOffset
  IN  [k \in DOMAIN vendors |->
         [key |-> vendors[k], name |-> vendors[k], devices |-> offset(vendors[k])]]

VendorDb(src) ==
  LET vendors == Sorted({<<v>> : v \in src.vendors})
      with == VendorsWithDevices(src)
      offset(v) == IF \E k \in DOMAIN with : with[k] = v
                   THEN Len(DeviceDb(src)[(CHOOSE k \in DOMAIN with : with[k] = v) - 1])
                   ELSE NoOffset
      entries == [k \in DOMAIN vendors |->
                    [key |-> vendors[k], name |-> vendors[k], devices |-> offset(vendors[k])]]
  IN  IF Ones \in src.vendors THEN entries
      ELSE Append(entries, [key |-> <<Ones>>, name |-> NoName, devices |-> NoOffset])

(* Classes, subclasses and programming interfaces: keys of n bytes.        *)
ClassDb(keys, n) ==
  LET last == [i \in 1 .. n |-> Ones]
      sorted == Sorted(keys)
      entries == [k \in DOMAIN sorted |-> [key |-> sorted[k], name |-> sorted[k]]]
  IN  IF last \in keys THEN entries ELSE Append(entries, [key |-> last, name |-> NoName])

Built(src) ==
  [V |-> VendorDb(src),
   D |-> DeviceDb(src)[Len(VendorsWithDevices(src))],
   S |-> SubdeviceDb(src)[Cardinality(src.devices)],
   C |-> ClassDb(src.classes, 1), U |-> ClassDb(src.subclasses, 2), P |-> ClassDb(src.progifs, 3)]

-----------------------------------------------------------------------------
VARIABLES
  src, disk, machine,
  tables,        \* the databases' contents
  loaded,        \* those that are in memory
  pciids_cur_vendor, pciids_cur_device,
  n, step,       \* the function looked at, and the lookup in progress
  pc,
  want,          \* the database being loaded
  pos,           \* where in the archive
  entry,         \* the entry found there
  name,          \* what the lookup has found
  shown,         \* the lookups made and the names displayed
  faults

files == <<src, disk, machine, tables>>
cursors == <<pciids_cur_vendor, pciids_cur_device>>
caller == <<n, step, shown>>
loading == <<want, pos, entry>>
vars == <<files, loaded, cursors, caller, pc, loading, name, faults>>

Init ==
  /\ src \in Sources /\ disk \in Disks /\ machine \in Machines
  /\ tables = Built(src)
  /\ loaded = {}
  /\ pciids_cur_vendor = -1 /\ pciids_cur_device = -1
  /\ n = 1 /\ step = "vendor" /\ shown = <<>>
  /\ pc = "ask"
  /\ want = None /\ pos = 0 /\ entry = None
  /\ name = NoName /\ faults = 0

Function == machine.functions[n]

DbOf == [vendor |-> "V", device |-> "D", subvendor |-> "V", subdevice |-> "S",
         class |-> "C", subclass |-> "U", progif |-> "P"]

(* The key that a lookup compares, and the key of what it is about.        *)
Asked ==
  CASE step = "vendor" -> <<Function.vendor>>
    [] step = "device" -> <<Function.device>>
    [] step = "subvendor" -> <<Function.sub[1]>>
    [] step = "subdevice" -> Function.sub
    [] step = "class" -> SubSeq(Function.class, 1, 1)
    [] step = "subclass" -> SubSeq(Function.class, 1, 2)
    [] step = "progif" -> Function.class

Full ==
  CASE step = "device" -> <<Function.vendor, Function.device>>
    [] step = "subdevice" -> <<Function.vendor, Function.device>> \o Function.sub
    [] OTHER -> Asked

-----------------------------------------------------------------------------
(* A lookup.                                                               *)

(* Mutant: the cursor is set before the database is opened.                *)
AskEager ==
  /\ pc = "ask"
  /\ pc' = (IF DbOf[step] \in loaded THEN "search" ELSE "open") /\ want' = DbOf[step]
  /\ pciids_cur_vendor' = IF DbOf[step] = "V" THEN 0 ELSE pciids_cur_vendor
  /\ UNCHANGED <<files, loaded, pciids_cur_device, caller, pos, entry, name, faults>>

(* Without a cursor from the lookup before there is nothing to look up.    *)
NoCursor ==
  \/ step = "device" /\ pciids_cur_vendor < 0
  \/ step = "subdevice" /\ pciids_cur_device < 0

Ask ==
  /\ pc = "ask"
  /\ IF NoCursor THEN pc' = "missed" /\ UNCHANGED want
     ELSE IF DbOf[step] \in loaded THEN pc' = "search" /\ UNCHANGED want
     ELSE pc' = "open" /\ want' = DbOf[step]
  /\ UNCHANGED <<files, loaded, cursors, caller, pos, entry, name, faults>>

Db == tables[DbOf[step]]

(* The scan goes on while any part of the key is below the one asked for.  *)
Passes(e) == \E i \in DOMAIN Asked : e.key[i] < Asked[i]

From ==
  CASE step = "device" -> tables.V[pciids_cur_vendor + 1].devices
    [] step = "subdevice" -> tables.D[pciids_cur_device + 1].subs
    [] OTHER -> 0

(* Where the scan of a database stops: at the first entry that does not    *)
(* pass, or on whatever lies outside the table, before it if a vendor has  *)
(* no devices or a device no subdevices, or past its end.                  *)
Stops ==
  LET in == {i \in From .. Len(Db) - 1 : i >= 0 /\ ~Passes(Db[i + 1])}
      first == IF in = {} THEN Len(Db) ELSE CHOOSE i \in in : \A j \in in : i <= j
  IN  {first} \cup (IF From = NoOffset THEN {NoOffset} ELSE {})

(* A string is read from a database of its own.                            *)
Found(string) ==
  /\ name' = string
  /\ IF string = NoName \/ "T" \in loaded THEN pc' = "tell" /\ UNCHANGED want
     ELSE pc' = "open" /\ want' = "T"

Missed == pc' = "missed" /\ UNCHANGED <<want, name>>

(* The cursors move whether or not the ID is matched.                      *)
Search ==
  /\ pc = "search"
  /\ \E at \in Stops :
       /\ pciids_cur_vendor' = IF DbOf[step] = "V" THEN at ELSE pciids_cur_vendor
       /\ pciids_cur_device' = IF DbOf[step] = "D" THEN at ELSE pciids_cur_device
       /\ IF at + 1 \in DOMAIN Db
          THEN IF Db[at + 1].key = Asked THEN Found(Db[at + 1].name) ELSE Missed
          ELSE Found(Stray) \/ Missed
  /\ UNCHANGED <<files, loaded, caller, pos, entry, faults>>

(* With libpci a miss takes the cursor away and asks the system's pci.ids, *)
(* which may know the ID; the other builds keep the cursor as it is.       *)
AskSystem ==
  /\ pc = "missed"
  /\ pc' = "tell"
  /\ IF machine.libpci
     THEN /\ pciids_cur_vendor' = IF DbOf[step] = "V" THEN -1 ELSE pciids_cur_vendor
          /\ pciids_cur_device' = IF DbOf[step] = "D" THEN -1 ELSE pciids_cur_device
          /\ name' \in {NoName, Full}
     ELSE name' = NoName /\ UNCHANGED cursors
  /\ UNCHANGED <<files, loaded, caller, loading, faults>>

-----------------------------------------------------------------------------
(* pcireg -s looks up each function's vendor and device, or its class when *)
(* one of these has no name.                                               *)
NextOfScan ==
  CASE step = "vendor" /\ name # NoName -> "device"
    [] step = "subclass" \/ (step = "device" /\ name # NoName) -> "next"
    [] OTHER -> "subclass"

(* pcireg -i looks up everything there is to know about one function.      *)
NextOfInfo ==
  CASE step = "vendor" -> "device"
    [] step = "device" -> IF Function.header \in {0, 2} /\ Function.sub \notin {<<0, 0>>, <<Ones, Ones>>}
                          THEN "subvendor" ELSE "class"
    [] step = "subvendor" -> "subdevice"
    [] step = "subdevice" -> "class"
    [] step = "class" -> "subclass"
    [] step = "subclass" -> "progif"
    [] OTHER -> "next"

Tell ==
  /\ pc = "tell"
  /\ shown' = Append(shown, [function |-> n, step |-> step, key |-> Full, name |-> name])
  /\ LET next == IF machine.tool = "scan" THEN NextOfScan ELSE NextOfInfo
     IN  IF next # "next" THEN step' = next /\ pc' = "ask" /\ UNCHANGED n
         ELSE IF n < Len(machine.functions) THEN n' = n + 1 /\ step' = "vendor" /\ pc' = "ask"
         ELSE pc' = "end" /\ UNCHANGED <<n, step>>
  /\ name' = NoName
  /\ UNCHANGED <<files, loaded, cursors, loading, faults>>

-----------------------------------------------------------------------------
(* pciids_open_database.                                                   *)

(* Lengths of a header with its extensions, and of an entry, in the archive *)
HeaderSize(e) == e.header + 2 + e.exts
Place(k) == LET upTo[i \in 0 .. Len(disk.archive)] ==
                  IF i = 0 THEN 0
                  ELSE upTo[i - 1] + HeaderSize(disk.archive[i]) + disk.archive[i].data
            IN  upTo[k - 1]
ArchiveSize == Place(Len(disk.archive) + 1) + 1

(* LH5HeaderParse takes headers that fit the buffer, of a known method.    *)
LH5HeaderParse(e) == e.method \in {"0", "5"} /\ e.level = 1 /\ e.header + 2 <= HeaderBuf

Open ==
  /\ pc = "open"
  /\ IF disk.archive # <<>> THEN pc' = "header" /\ pos' = 0 /\ UNCHANGED entry
     ELSE IF want \in disk.plain THEN pc' = "found" /\ entry' = "plain" /\ UNCHANGED pos
     ELSE pc' = "notloaded" /\ UNCHANGED <<pos, entry>>
  /\ UNCHANGED <<files, loaded, cursors, caller, want, name, faults>>

(* Headers are read whole buffers at a time, to the end of the archive.    *)
ReadHeader ==
  /\ pc = "header"
  /\ LET here == {k \in DOMAIN disk.archive : Place(k) = pos}
     IN  IF pos + HeaderBuf > ArchiveSize \/ here = {} THEN pc' = "notloaded" /\ UNCHANGED <<pos, entry>>
         ELSE LET e == disk.archive[CHOOSE k \in here : TRUE]
              IN  IF ~LH5HeaderParse(e) THEN pc' = "notloaded" /\ UNCHANGED <<pos, entry>>
                  ELSE IF e.db = want THEN pc' = "found" /\ entry' = e.method /\ UNCHANGED pos
                  ELSE pos' = pos + HeaderSize(e) + e.data /\ UNCHANGED <<pc, entry>>
  /\ UNCHANGED <<files, loaded, cursors, caller, want, name, faults>>

Fault == faults < MaxFaults /\ faults' = faults + 1

(* The database is read, and decompressed.  A plain file is read from      *)
(* where two variables say that were never set.                            *)
Load ==
  /\ pc = "found"
  /\ loaded' = loaded \cup {want}
  /\ pc' = (IF want = "T" THEN "tell" ELSE "search")
  /\ entry' = None
  /\ UNCHANGED <<files, cursors, caller, want, pos, name, faults>>

(* Memory runs out, or reading or decompressing fails; the buffers are     *)
(* freed.  Without compression both pointers hold one buffer, freed twice. *)
LoadFails ==
  /\ pc = "found"
  /\ \E what \in {"memory", "read"} :
       /\ IF what = "read" /\ entry = "plain" THEN UNCHANGED faults ELSE Fault
       /\ \/ what = "read" /\ entry # "5" /\ pc' = "undefined"
          \/ pc' = "notloaded"
  /\ entry' = None
  /\ UNCHANGED <<files, loaded, cursors, caller, want, pos, name>>

(* What was asked for goes on without its database.                        *)
NotLoaded ==
  /\ pc = "notloaded"
  /\ pc' = (IF want = "T" THEN "tell" ELSE "missed")
  /\ name' = NoName
  /\ UNCHANGED <<files, loaded, cursors, caller, loading, faults>>

Next ==
  \/ Ask \/ Search \/ AskSystem \/ Tell
  \/ Open \/ ReadHeader \/ Load \/ LoadFails \/ NotLoaded

Spec == Init /\ [][Next]_vars

-----------------------------------------------------------------------------
(* Properties.                                                             *)

InMemory(ptr) == ptr \in loaded

(* Types; and a cursor that a scan of vendors or devices leaves is -1 or   *)
(* an entry of the table, terminations included: no scan runs past the end *)
(* of its table.                                                           *)
TypeOK ==
  /\ loaded \subseteq Dbs
  /\ step \in DOMAIN DbOf /\ n \in DOMAIN machine.functions
  /\ pciids_cur_vendor \in -1 .. Len(tables.V) - 1
  /\ pciids_cur_device \in -1 .. Len(tables.D) - 1
  /\ pc \in {"ask", "search", "missed", "open", "header", "found", "notloaded", "tell", "end",
             "undefined"}
  /\ want \in Dbs \cup {None} /\ entry \in {None, "plain", "0", "5"}
  /\ pos \in 0 .. ArchiveSize
  /\ faults \in 0 .. MaxFaults

(* A cursor is not used before its table is there: while one is set, its   *)
(* table is in memory, whatever failed to load before and is tried again.  *)
CursorsBacked ==
  /\ pciids_cur_vendor >= 0 => InMemory("V")
  /\ pciids_cur_device >= 0 => InMemory("D")

Named(s) ==
  CASE s \in {"vendor", "subvendor"} -> {<<v>> : v \in src.vendors}
    [] s = "device" -> src.devices
    [] s = "subdevice" -> src.subdevices
    [] s = "class" -> src.classes
    [] s = "subclass" -> src.subclasses
    [] s = "progif" -> src.progifs

(* "Must be preceded by a call to {find|get}_vendor to establish the       *)
(* vendor ID!" (pcireg.c), and likewise of devices for subdevices: the     *)
(* lookups that this holds of.  Other cursors are at the entry that        *)
(* overtook the ID, or nowhere; with libpci a miss has taken them away,    *)
(* but FFFFh does not miss the terminations.                               *)
VendorStands(v) ==
  \/ \E d \in src.devices : d[1] = v
  \/ machine.libpci /\ v \notin src.vendors /\ v # Ones
DeviceStands(dev) ==
  \/ SubdevicesOf(src, dev) # <<>> /\ SubdevicesOf(src, dev)[Len(SubdevicesOf(src, dev))][4] # Ones
  \/ machine.libpci /\ dev \notin src.devices /\ dev[2] # Ones
Established(l) ==
  /\ l.step \in {"device", "subdevice"} => VendorStands(l.key[1])
  /\ l.step = "subdevice" => DeviceStands(SubSeq(l.key, 1, 2))

(* Every database can be found in the archive.                             *)
Readable ==
  /\ \A k \in DOMAIN disk.archive :
       LH5HeaderParse(disk.archive[k]) /\ Place(k) + HeaderBuf <= ArchiveSize
  /\ \A db \in Dbs : \E k \in DOMAIN disk.archive : disk.archive[k].db = db

(* A lookup whose vendor and device are established shows the right name   *)
(* or none, whatever the lookups before it found and failed to load, and   *)
(* the right one if pci.ids has it, the archive can be read and nothing    *)
(* fails.                                                                  *)
NamesRight ==
  \A i \in DOMAIN shown : LET l == shown[i] IN
    Established(l) =>
      /\ l.name \in {NoName, l.key}
      /\ l.key \in Named(l.step) /\ l.name # l.key => faults > 0 \/ ~Readable

(* "Print device name if found.", "Return nothing if the device ID was not *)
(* found" (pcireg.c): no lookup ever shows another thing's name.           *)
NamesAlwaysRight == \A i \in DOMAIN shown : shown[i].name \in {NoName, shown[i].key}
=============================================================================
