# A TLA+ model of the 86Box probing tools

The tools of this repository probe PC hardware: PCI configuration space, ISA Plug and Play cards, keyboard controllers,
AC'97 codecs, power management. They are small sequential programs, but they share the machine with interrupt handlers and
other software, and they talk to devices that answer late, wrongly or never. This directory models what they do with
the machine and checks, with TLC and with the TLA+ proof system, what they may and may not leave behind.

## 1. Inventory

| Component | State it keeps | Operations | What is hard | What makes it correct |
|---|---|---|---|---|
| `clib/clib_pci.c` accessors | `pci_mechanism`; the address latch at CF8h/CFAh; the interrupt flag | `pci_init`, `pci_read{b,w,l}`, `pci_write{b,w,l}` | interrupt handlers share the latch; mechanism 2 narrow writes read, merge and write back | an access reaches its own register; nothing else changes; interrupts come back |
| `clib/clib_pci.c` scan, BARs | recursion stack; with libpci the global cursor `pdev` | `pci_scan_bus`, `pci_get_io_bar`, `pci_get_mem_bar` | bridges that are not configured; callbacks that move the cursor; ranges that look free | every function reported once; the scan ends; no two BARs on one range |
| `isapnp/isapnp.c` | `rd_data`, `csn`, the list `first_card`, `buf`, `buf_pos`, the dump file; the cards' own state | `main`, `try_isolate`, `dump_resource_data`, `read_resource_data` | ports that other hardware decodes; cards numbered before; time-outs in the middle of a tag; an 8-bit buffer index | one card answers at a time; every card dumped once; the file is what was read; the bus is left quiet |
| `amikey/AMIKEY.ASM`, `JETKEY.ASM` | `erl`, `dmp_arr`, `saved_cmd`, the file; the controller's command byte | forty tests in four rounds, `store_cmd`, `store_erl`, `write_everything`, `print_out` | commands that time out or hang the machine; saves that fail; errors that stick or vanish | no finished test lost; the dump tells what failed; the command byte is restored |
| `multikey/MULTIKEY.ASM`, `viakey` | as above, shorter | tests, file, messages | as above | as above |
| `kbtest/kbtest.c` | controller configuration, scan code set, scanning on or off | one long conversation with early returns | keyboards that do not answer; returns that skip the restore | keyboard and controller are left as found; the tool ends |
| `ac97/ac97.c` | `io_base`, `alt_io_base`, the shared counter `i` | codec handshakes per controller family | polling loops over a global counter; BARs assigned on the fly | each codec access waits for the one before |
| `acpi/acpi.c` | the chipset's ACPI base | probes, sleep | a base that is used before it is read | the sleep command goes to the right port |
| `usblgoff/usblgoff.c` | legacy bits of the USB controllers, I/O traps | one callback per controller | bits that stick, ranges compared by halves | only traps and bits of the keyboard ports change |
| `pcireg/pcireg.c`: arguments, registers | `hexargv`, the register dump | `-r -w -d`, and the dispatch to `-s -i -t` | argument forms that overlap; a value whose place depends on the others | the address on the command line is the one accessed |
| `pcireg/pcireg.c`: names | the databases' pointers, `pciids_cur_vendor`, `pciids_cur_device` | `pciids_open_database`, the finds and gets | cursors that outlive a lookup; databases that do not load, or only later | a lookup finds what was built, or nothing |
| `pcireg/pcireg.c`: `-t` | the routing table, a real mode buffer, `irq_bitmap` | `dump_steering_table` | a BIOS that asks for more room or disagrees with itself; tables at the buffer's size | the firmware's table is displayed, with consistent INT lines; the buffer is kept within and freed |
| `pcireg/pciids.py`, `pciutil.py` | the databases | build | terminations, ordering, empty parts | every ID is found, no other is |
| `pcireg/lh5_extract.c` | bit buffer, code lengths, tables and trees, all global | header, tables, blocks | state that the block before left; trees that share memory; damaged archives | what was packed comes out, or a refusal |
| `biosdump`, `cp437`, `clib_std`, `clib_term`, `clib_sys` | little | dump ranges; byte conversion; parsing; port I/O | boundaries | small reference definitions |
| `pcireg/uefi`, build files | | | vendored or no behaviour | not modelled |

The tools are separate programs. They interact through the machine only: all PCI tools call `clib_pci.c`, which shares the
configuration ports with the BIOS and resident software; `pci_scan_bus` calls back into the tool; the keyboard tools share the controller
with the BIOS keyboard handler, which they shut out with `cli`. `PROJECT.json` lists the hazards that follow, line by line.

## 2. Modules

### ConfigSpace and PciConfig (clib_pci.c)

`ConfigSpace` is the abstract specification: a file of registers, and calls that read or write some byte lanes of a dword at
one instant between call and return. It has no ports, no latch and no interrupt flag. Its one open admission is `merges`:
under access mechanism 2 a narrow write is a fetch and a later store.

`PciConfig` is the code, one action per instruction that matters: `Call` enters an accessor, `Cli`, `OutAddress` (`outl(0xcf8)`, or
`outb(0xcf8)` of mechanism 2), `OutBus` (`outb(0xcfa)`), `InData`/`OutData`, `Sti`, and, for narrow writes under mechanism 2,
`Merge` between the `pci_readl` and the `pci_writel`. The locals `cf8` and `ret` are the variable `cf8`; `acc` is the access in progress.
`Interrupt` is any handler: whenever the interrupt flag allows, it leaves the latches as it likes and may write registers. `RaiseStatus`
is a device setting a status bit, which no flag prevents. A byte is a set of bits, so that masks and write-one-to-clear are sets.
`Merged` models the shift and mask arithmetic for both widths of `int`, shifts by 16 or more of a 16-bit `int` included.

`PciConfigProofs` holds its proofs (section 5).

### IsaPnp (isapnp.c: main, try_isolate)

The host's actions follow `try_isolate` from the reset of the cards (`TryPort`) through isolation rounds (`StartRound`, one `ReadPair` per bit,
then `NoMoreCards`, `BadChecksum` or `Assign`), `DumpCard` and `Close`. The cards are external and modelled from the commands they are sent:
Wake, CSN and the 55AA protocol of the serial isolation, in which a card with a 0 bit leaves when it hears another. A noisy port may read
anything. A garbled identifier is assumed to fail its checksum; the LFSR is not modelled. `listed` is the list `first_card`, `files` what
each dump file was read from.

### IsaPnpDump (isapnp.c: dump_resource_data, read_resource_data)

The data path of one dump: a card is a finite sequence of bytes and time-outs, read through the wrapping buffer into the file while the
tag parser counts. `Read` is `read_resource_data`; `CheckHeader` the header's flush and check; `ReadTag`, `ReadLengthLow`, `ReadLengthHigh`,
`ReadBody`, `EndBody` the parser; any write may fail. When the card will not answer again the rest of a length's reads
(up to 65535 time-outs) are taken in one step, since they change nothing.
`Extent` says where the resource data ends, as a recursive function that does not know the parser. `IsaPnpDumpProofs` holds the proofs.

### KbcProbe (AMIKEY.ASM, JETKEY.ASM, MULTIKEY.ASM)

The three tools are one module: they differ in their tests (`ScriptOf`, `RoundEndsOf`), in the size of their dump, and in `SaveEach`, whether
`store_erl` ends with a `write_everything` (JETKEY). A test is `Send` (`store_cmd` and the first `out`), an outcome (`Answered`, `TimesOut`, `Hang`) and
`StoreErl`; a save is `OpenFile`, `WriteFile`, `CloseFile`; `PrintOut` ends a round. The error level is a pair of a command and a
way of failing instead of a number. The controller is external: its command byte, with bit 4 for the keyboard, follows the commands
ADh, AEh, 60h and, on controllers that know it, AFh. Interrupts are off from the first test of a round to its
`print_out`, so nobody else appears in the model. `KbcProbeProofs` holds its proofs.

### Kbtest (kbtest.c)

The conversation is a table of sends (`Opening`, `ScanSets`, `Closing`), one of acknowledgements (`Acks`) and one of messages (`Says`), which
are the only places, apart from a send that times out, where interrupts are on. `Send` and `SendTimesOut` are `send_cmd` and `send_data`; `ReadGives` and
`ReadTimesOut` are `read_data`, used by `ReadAck`, `ReadConfig`, `ReadId`, `ReadScanSet` and `ReadKeys`. Around the tool there are the
controller (`Deliver`, `Heard`: it takes configuration bytes, passes others on, translates), the keyboard (`KeyboardTakes`, with or without an ID, with or
without scan code sets), the user (`Press`) and the BIOS's interrupt handler (`BiosTakes`). The tool and the keyboard are not synchronised:
the tool only sees the bytes of `out`, and may give up before the keyboard has looked at `inbox`. `KbtestProofs` holds the proofs; all that
`KbtestAssumption` asks of the constants is that they are numbers and that the buffer holds a code.

### PciScan (clib_pci.c: pci_scan_bus; pcireg.c: scan_bus, scan_buses)

Both recursions with an explicit stack of calls; an action examines one location. `tool` is "clib" for the walk that calls a tool back
and "pcireg" for the one that prints a tree: it walks every bus without a buffer first (`counts`), and shares `nesting_buf` among all levels. The machine is a
partial function from locations to headers, in which bridges are numbered as a BIOS numbers them (`Numbered`), and there are finitely many buses
(256 in the machine). `PciScanProofs` holds the proofs.

### Ac97 (ac97.c; clib_pci.c: pci_get_io_bar; clib_sys.c: io_find_range)

The scan hands the tool one controller after another (`n`). `MainRange` and `AltRange` get its I/O ranges by `pci_get_io_bar`, which looks
for a free range by `io_find_range` and assigns it; I/O space is counted in units of 64 ports, so that a range is one or four. The tool masks a base by
the size it asks for (`Masked`), so that a base below the size counts as unassigned, and one in the middle is used at a lower address; the BAR itself decodes `Extent`, which for Intel's
second BAR is 64 ports where the tool asks for 256. Whether a controller's I/O is enabled (`decodes`) is the BIOS's choice: the tool never changes it. `Wake` may give up. `Probe` lists the
accesses of the 686's shadow test and of `codec_probe` (`accesses`), `step` is the one in progress and `fetched` says whether the first half of a modification is done. Each is a wait (`WaitBefore`, or `GiveUp`, which displays [!] and goes on), a command or a port
(`Command` for AudioPCI and VIA, `Port` for EMU10K and Intel) and, after a command, a wait for its result (`WaitAfter`). The 65535 polls of a wait are
one step. The controller and the codec are external: `Done` ends a command, `Answer` is VIA's separate answer to a read, both as late as they like or never; a busy
controller loses a command, or the one before. A codec register is its number and whether it was set, which is enough to tell a stale or shifted value.
`Ac97Proofs` is about the ranges and about the registers.

### Pcireg, PciIds and Steering (pcireg.c, pciids.py, clib_std.c)

`Pcireg` is the program: `Start`, `ParseFirst`, `ParseRest` and `Dispatch` are `main`, whose numbers go through `parse_hex_u32`; an argument is a
sequence of digits, with 16 for every other character. `Read`, `Write` and `Readback`, `DumpDword` and `Save`, `Identify` are the operations on registers; the value
of a register is the place it was read from. `-s` and `-i` then go on as `Names == INSTANCE PciIds`, `-t` as `Routing == INSTANCE Steering`.

`PciIds` has the database in both forms. `VendorDb`, `DeviceDb`, `SubdeviceDb` and `ClassDb` are the tables that `pciids.py` writes, terminations included; a name stands in the place
of its offset among the strings. The lookups of one run follow each other (`step`, `NextOfScan`, `NextOfInfo`): `Ask`, `Search`, on a miss `AskSystem`, and `Tell`. In between
`Open`, `ReadHeader`, `Load` and `LoadFails` are `pciids_open_database` on an archive or on plain files; memory and reads may fail at any of them, and a
database that failed is tried again by the next lookup. What a string offset outside a table points to is `Stray`, the system's own pci.ids (libpci) may know an ID or not.

`Steering` gets the table: `Allocate`, `CallBios`, `Retry`, `CopyTable` for the PCI BIOS through DPMI, `FindPir` for the `$PIR` table. `Prepare` sorts devices
and numbers links as 86Box code wants them, `Display` shows an entry. `qsort` may leave equal elements in any order (`DeviceOrders`, `LinkOrders`).

`CommandLineAssumption` says that arguments are strings; `FirmwareAssumption` that routing tables hold entries of the right type and, where a firmware does not
contradict itself (`odd`), are as long as it says. `NamesAssumption` says what pci.ids, the disk and the machine are: IDs have their width, devices are listed under their
vendor and subdevices under their device, as the syntax of pci.ids has it (`IsPciIds`), archives are sequences of headers (`IsDisk`). `PciregProofs` holds proofs about the whole.

### Lh5 (lh5_extract.c)

`LH5Decode` with every width and table size a constant: a byte has `ByteBits` bits, the bit buffer twice as many. The bit buffer (`fillbuf`, `peekbits`), `make_table` and
the tree walks are operators, the loops of the code are actions: `StartBlock`, `ReadPtCount`, `ReadPtLen`, `BuildPt`, `ReadCCount`, `ReadCLen`, `BuildC`, then `Literal` and `Copy`. The constants have to satisfy
`Lh5Assumption`, which the code takes for granted of its own numbers. `MCLh5` packs: it makes canonical codes, code lengths and tokens in a way of its own, so that the check
is one of two independent definitions against each other. `LH5HeaderParse` is in `PciIds`, where it is used.

## 3. Runs

| Run | Bounds | What it shows |
|---|---|---|
| `pci_config` | 2 buses, 2 functions, 1 bit a byte, both mechanisms and none, 2 calls of 6 kinds, 1 foreign write | the properties below; two calls are enough for one to find the latch and status the other left |
| `pci_narrow_write` | same | violated: see findings |
| `isapnp` | 3 cards (2 with one ID), 3-bit serials, 2 ports, any of them noisy, 3 letters | a card can win, lose and win later; a port can fail after 0, 1, 2 or 3 dumps |
| `isapnp_dump` | 17 streams, 2-byte header, 4-byte buffer | the index wraps in the header's neighbourhood, in resources and at their ends |
| `kbcprobe` | three tools, 2 failures and a hang anywhere | two failures are what it takes for one error to hide another |
| `kbtest` | 4 keyboards, 3 keys, a buffer of 2 codes, 2 lost sends or late answers | keys before, during and after; any two bytes lost, or one lost and one late; the buffer fills |
| `ac97` | five kinds alone, EMU10K and Intel in pairs; 4 registers, 3 ranges of 256 ports | a register written, one modified, one left alone; every wait may run out; a small range before a large one and the reverse; a full I/O space; controllers whose I/O is off; second BARs of Intel that 256 does not divide |
| `pci_scan` | some 5000 configuration spaces of 3 buses, 2 devices, 3 functions | gaps, hidden functions, bridges in a row, side by side and to nothing |
| `lh5` | bytes of 3 bits, 4 literals, 8 lengths, offsets up to 32, tables of 16 entries; 413 archives of one or two blocks | codes of one symbol, flat and skewed ones, longer than the table's index and not; runs of zero lengths of each kind; a second block over the first one's tables; three kinds of damage |
| `pcireg` | 233 command lines; IDs up to 5, two databases, 6 disks, 18 machines; 8 firmwares; 2 failures each | numbers of 0 to 6 arguments, with typos, a CF8h dword first or later; vendors without devices, devices without subdevices, FFFFh; routing tables that fit, fill and exceed the first buffer |
| `pciids_names` | one pci.ids, in which vendor 2 is missing between two others; one function, of vendor 2; no failures | violated: see findings |
| `pcireg_arguments` | same, no failures | violated: see findings |

Safety properties, by what would break them:

* `DataPortAddressed`, `MaskedOnlyInAccess`: a missing or misplaced `cli`/`sti`. `NeighboursKept`: the masks of the merging writes.
* `RefinesConfigSpace`: `PciConfig` implements `ConfigSpace`.
* `OneCardAnswers`, `CsnsDiffer`, `EveryCardDumped`, `QuietAtExit`: the order of commands in the isolation loop and its ways out.
* `FileIsWhatWasRead`, `ReadsWholeResource`: buffer wraps, the two flushes and the tag arithmetic.
* `DumpTellsOutcomes`, `HangLosesOneTest`, `CommandByteRestored`: the sticky error level, the save after every test, the saved command byte.
* `LeavesAsFound`, `ShowsSet3`: answers out of step with commands, bytes taken for others. `LeavesAsFound` leaves out that both bytes which write the configuration back are lost, `ShowsSet3`
  that one of the probing configuration's is.
* `TrueUntilMarked`, `MarkedIfWrong`: the order of waits, commands and results. `RangesApart`: the search for a range after an assignment. It is about ranges that are decoded
  at the time: those of a controller whose I/O is off read as free, so the tool may assign one range twice, which the run reaches and the property leaves out.
* `ReportsAll`, `ReportsOnce`, `TreeDrawn`: the multi-function rule, the walk before the walk, the shared nesting.
* `TablesDecode`, `DecodesContent`: whatever the block before left, each window of bits decodes to the symbol whose code it begins with; the packed content
  comes out, and a damaged archive is refused.
* `NamesRight`, `CursorsBacked`: what one lookup leaves for the next, when databases are there, missing or fail. `NamesRight` holds of lookups whose vendor (and device) is
  established, as a comment of `pcireg.c` demands; `pciids_names` shows what the others do. A device FFFFh passes for the termination of its vendor's devices, so that with libpci a miss is not one (`DeviceStands`);
  the proof needed that, the run does not meet it.
* `ArgumentsFollowed`: on a command line of the usage, an operation touches the place that the usage names (`TakenPlaces`), a write stores its value (`TakenValue`) and reads it back, a dump holds each dword at its place. For the
  two forms that `pcireg_arguments` shows going wrong it says where they go instead: two numbers for `-r` or `-w` to register 0 (`TwoNumbers`), and a CF8h dword with a value to what lies past `argv` (`DwordAndValue`).
* `BufferKept`, `SteeringRight`: the table ends within the buffer, the buffer is freed, each entry is shown once and INT lines follow links; the warning of a number of links that 86Box cannot have is required where that number is no multiple of four. Two cases
  are stated as they are: a table of exactly 1024 bytes from the BIOS ends two bytes past the buffer and the slot of its last entry is unknown (`CutShort`), and after a DPMI call that failed the buffer is never freed.

Liveness: `Terminates` of `isapnp` and `pci_scan` and `EndsOrWaits` of `kbtest`, the three with loops that a device or a bus controls. For the other tools the check
for deadlocks says that they do not stop before their end, and they have no loop without a counter. (`CHECK_DEADLOCK FALSE` in the configurations of `Pcireg`, which ends in many ways.) The fairness is weak fairness of the tool's own next step. A DOS program is the only
process; its step is always enabled until it ends, an interrupt handler returns, and every poll of a device is bounded by a counter
(`read_resource_data` 20 polls, `wait_for_nibf` and `wait_for_obf` 16 times 64k, the codec waits 65535), so each step ends. Of the environment only
the keyboard of `Kbtest` has fairness: it takes what it is sent. The two loops of kbtest that poll without a bound are named in `EndsOrWaits`.

## 4. Findings

Three runs expect a violation; each contradicts a sentence of a README, a usage text or a comment.

* A narrow write under mechanism 2 also writes the neighbouring register (`pci_narrow_write`).
* `pcireg -i` on a function whose vendor is not in pci.ids shows the name of another vendor's device (`pciids_names`): the vendor's lookup stops at the next vendor, and the device's goes on from there. The code has a second way to a
  wrong name, which the run `pcireg` meets and `NamesRight` leaves out (`Established`): of a vendor that is found but has no devices the scan starts at `pciids_device[-1]`.
* `-r` and `-w` with two numbers access register 0, and `-w` with a CF8h dword writes what comes after the arguments (`pcireg_arguments`).

Modelling met a few more disagreements, which the modules reproduce but no run is about: after a bad port the first device of a PnP ID may be dumped to `B` (isapnp.c:458-472); AMIKEY does not display
an error that a later success in the same round clears; kbtest announces the scan code set of its argument and selects set 3 (kbtest.c:147 and 156); an Intel controller
with both ranges unassigned and its I/O off gets the same range for both (ac97.c:465 and 470, clib_sys.c:167); its bus master range at a base that 256 does not divide is used at the base below (clib_pci.c:71); the buffer for the routing table is
two bytes short for a table of 1024 bytes, and is not freed when the DPMI call fails (pcireg.c:1204-1219).

## 5. Proofs

* `PciConfigProofs`. `IInv` strengthens `TypeOK` with what is known at each program counter: which mechanism `mech` stands for,
  that interrupts are off between `Cli` and `Sti`, that the latch holds the whole address at "data" (and its first half at "bus"), and that the
  access in progress fits the call (`AccessFits`). It is inductive because `Interrupt` needs `ie`. From it follow `TypeCorrect`,
  `AccessReachesRegister`, `InterruptsComeBack`, and `Refinement`: each step of `PciConfig` is a step of
  `ConfigSpace` or leaves its variables alone. `NeighboursSafe` adds a second invariant on what a merging write has fetched; it assumes
  `IntLanes = 4`, since with 16-bit ints it is false.
* `IsaPnpProofs`. The invariant says which cards may still be in Isolation after the bits read so far: those whose serial agrees with the
  identifier, as long as it is not garbled. With `SerialsDiffer`, one is left at the end (`OneIsLeft`). From it follow `DumpsOneCard`, `NumbersAreUnique`, `LeavesBusQuiet` and
  `IsolationTypes`, for any number of cards, bits and ports. `AllCardsDumped` adds `DInv`: the count is the number of numbered cards (`CountRight`); a quiet round without 55AA has
  heard a zero from every card that has no number, bit by bit (`QuietRound`), so that at its end there is no such card; a dumped card's file is one of the last made for its PnP ID,
  of which there are as many as such cards (`FilesKept`). These numbers lie within `Letters` of each other, so their letters differ (`ModApart`), although the count goes on from port to port.
* `IsaPnpDumpProofs`. `FileIsWhatWasRead` holds of every stream, buffer size and header length: what was delivered is the file and then the buffer. The invariant adds the types and what the
  parser's state says of the index; the wrap of the index is a lemma of its own. From it follow `FileFaithful` and `DumpTypeCorrect`. `ResourceRead` adds `Parses`: from where the parser is, the resource data
  goes on to the end that it has from the header on. That needs to know what the recursive `Extent` computes: the sets of tags on the way to an end (`OnTheWay`) give a function that satisfies its equation
  (`ExtentUnfolds`), because two such sets share their last tag (`OneEnd`).
* `KbcProbeProofs`. `Shape` is the form of the dump at each program counter, `ErlTellsOutcome` what the error level means between an outcome and `store_erl`,
  and `FileUpToDate` what JETKEY's file holds between two saves. `DumpTruthful` needs the first two because an entry is written one step after the
  outcome it tells; `HangSafe` follows from the third. Neither depends on the tests of the scripts or on the number of failures. `Restored` does: first come lemmas on how each round of the three scripts begins and
  ends (`IsRound`); the invariant says where in a round the tool is (`Progress`) and that a command byte that is not the original one has been saved and is going to be restored (`Restorable`). `Typing` follows from the same invariant.
* `KbtestProofs`. A keyboard that answers late makes the tool take each answer for the next one. The invariant says, for each group of the tool's labels (`AtStart`, `AtMask`, ... `AtExit`), which bytes may still be on their way to the
  keyboard, in which set and state it is, and whether an acknowledgement may be among the bytes on their way back: at most one when the tool asks for the scan code set, left over from the ID command. It may be taken for the answer to F0h,
  and the next one for the set (`Remembered`); but that one the keyboard does not acknowledge when it is sent back, and the tool returns 1. `Typing`, `FoundAgain` and `Set3Shown` hold for any number of keys and of faults and any buffer,
  with the exceptions of their properties: the bytes of the configuration, whose sends `main` does not look at, are not both lost on the way back (`FoundAgain`), nor is one of them on the way there (`Set3Shown`).
* `PciScanProofs`. `ReportsOnce` says nothing of the calls in progress, so the invariant does: they are on different buses, outer ones on lower ones
  (`CallsDescend`); what has been reported of a bus being walked is behind the walk (`LinesBehind`); no bus is walked before its bridge is reported
  (`BridgesFirst`). When a bridge is reported for the first time, its bus has therefore no line yet and no call. `NoFunctionTwice` follows for any number of
  buses, devices and functions, from the assumption that the bridges are numbered. `EveryFunctionReported` adds `CInv`: a call stands beyond function 0 only behind one that has others (`Places`),
  what it has passed and can be found is reported (`PassedReported`), and a bus whose bridge is reported is being walked or has been (`WalkedReported`). So in the end the buses of
  reported bridges are closed under bridges (`InTheEnd`), and `BusesReached` is the least closed set. `DrawsTree` adds `TInv`: the form of the stack (`Stacked`), how much of the shared `nesting_buf` belongs to each level
  and what is in it (`Cuts`), what the walk before the walk has told each call of its last function (`Told`), and that the lines drawn agree with it (`LastsRight`, `NestingsRight`).
  `Typing` counts: drawing calls are on different buses, of which there are finitely many.
* `Ac97Proofs`. `RangesApart` is not inductive: `io_find_range` tests only the ends of a range, and one for 64 ports might lie in the middle of one for 256. `FirstFree` says that below an assigned
  range for 64 ports everything answers, because the search starts at the bottom, so that no free end for 256 is found there. Ranges assigned lie at multiples of their size and devices are taken in their order (`Earlier`), so each has been compared with those
  that were decoded before it. `AssignsApart` follows for any controllers and any I/O space; of ranges that are not decoded, and of a BIOS range clear of both ends, it says nothing. For the registers the
  invariant tells what the settings up to the current one have left in the codec (`AsBefore`, `AsAfter`), and that the command in progress is the one issued last (`InStep`), as long as no wait was given up; `DumpsTrue` follows.
  `MarksWrong` is about what comes after: as long as a register may still be dumped without a [!], no write is on its way that could change it, and the read that was waited for is of that register (`NoLateWrite`); except with VIA, whose answers may be late.
* `PciregProofs`. `CursorsAlwaysBacked` needs to know what the lookup in progress has loaded (`Searching`: a search has its table, and what is being loaded is that table or the strings).
  `BufferAlwaysKept` needs the sizes the buffer can have (`RInv`): the first, or the length of a longer table plus two; with `FirmwareAssumption`, tables are whole entries of 16 bytes, so a table
  that does not fill the first buffer leaves room for the two bytes before it (`RoomForLength`), and one that fills it ends two bytes past it, as the property says. `ArgumentsAlwaysFollowed` follows the numbers from the command line to the accesses: `hexargv` is the parts of the first number, then the bytes of
  the arguments read (`Collected`); after the dispatch the place is among the readings of the usage; after so many dwords a dump has read and holds these (`Dumped`). The two forms that
  go elsewhere are part of the statement, and so is the slot of the last of 64 entries of `SteeringAlwaysRight`. `SteeringAlwaysRight` says what the table is at each point: what the firmware
  gave (`Fetched`), sorted or not (`Listed`), and what was made of it: the sort by a one-to-one function, the links numbered in order without gaps (`Generated`); entries shown and not yet shown of each device
  add up to those given (`Tally`). All hold for any database, disk, machine, firmware and command line and any number of failures.

  `NamesAreRight` goes from pci.ids to the name displayed. First the tables: `Sorted` lists a finite set of keys once and in order (`SortedIs`), a table that is put together of blocks
  keeps each of them where its offset says (`UpToUnfolds`, `BlocksFollow`), and so do the headers and data of the archive (`PlaceUnfolds`, `PlacesGrow`); these recursive functions are
  unfolded by way of the least index at which they would fail, since the library's induction theorems cannot be used. Then a `Listing` is what a scan is to stay in: entries that name what they should, in order, up to one that stops any scan; a scan that
  starts where a listing does stops in it, on the key if the listing has it (`ScanStops`). Vendors, devices of a vendor, subdevices of a device and classes are listings
  (`VendorsListed`, `DevicesListed`, `SubdevicesPlaced`, `ClassesListed`). The invariant `LookupInv` adds the course of a lookup: what is loaded and what is still to be (`LoadInv`, `At`), where the lookup before has left the
  cursors if its vendor or device stands, and that they are gone if it was missed (`CursorInv`), and the name that is going to be shown (`NameInv`).
  `Typing` takes its types from `LookupInv`, the invariants above and `TableTypes`.

The only assumptions are the named ones on the constants. Only model-checked are liveness, which is beyond the prover, and all of `Lh5`: its bit buffer, trees and tree walks are recursive operators, which the prover does not take, and what is
known of an archive (`blocks`, `content`) is a relation between a whole buffer and its packing that only `MCLh5` defines, for buffers made by it.

## 6. Not modelled, and the plan

See `PROJECT.json`, "components", for each part.

* `acpi`, `usblgoff`, `biosdump`, `cp437`, `viakey`: straight lines of register accesses, or one pure loop. Their hazards are listed where they have any.
* pcireg: what `dump_info` displays of registers it only reads, the dumps of `-s -d`, `pciutil.py`'s reading of pci.ids, archive headers that are larger than the buffer, a `$PIR` table smaller than its own header.
* clib: the libpci builds, where the kernel makes the accesses; `clib_term`, which only displays.
* `pcireg/uefi` is vendored, the build files have no behaviour.

What is left, in this order: `UsbLgOff` and `Acpi` on top of `PciConfig`; the libpci walk; of `Lh5`, that a canonical code's windows decode, with its trees as functions.
