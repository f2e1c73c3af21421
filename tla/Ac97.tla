-------------------------------- MODULE Ac97 --------------------------------
(***************************************************************************)
(* ac97: for each audio controller found, get its I/O ranges, assigning    *)
(* those the BIOS has not (pci_get_io_bar of clib_pci.c), wake the codec   *)
(* up, set its optional bits and dump its registers to a file.             *)
(* A codec is reached through the controller: the tool waits until it is   *)
(* ready, and goes on after a number of polls, displaying [!].             *)
(***************************************************************************)
EXTENDS Naturals, Sequences, FiniteSets

CONSTANTS
  Units, First,   \* I/O space in units of 64 ports: 1024, and 64 (1000h)
  Regs,           \* codec registers: 64 words in the code
  Settings,       \* the optional registers in their order, and how each is set
  Machines        \* hardware in the way, and audio controllers

Kinds == {"AudioPCI", "EMU10K", "VIA8233", "VIA686", "Intel"}
Via == {"VIA8233", "VIA686"}

(* The units that the tool takes a range for, 64 ports or 256, and those   *)
(* that a BAR decodes: Intel's second BAR is one for 64 ports.             *)
Size(kind) == IF kind \in {"AudioPCI", "EMU10K"} THEN 1 ELSE 4
Extent(kind, k) == IF kind = "Intel" /\ k = 2 THEN 1 ELSE Size(kind)
Ports(base, size) == base .. base + size - 1

(* A BAR is not one for I/O, is unassigned, or has a base.                 *)
NoBar == Units
Unassigned == 0
Bases == 1 .. Units - 1

Devices == [kind : Kinds,
            decodes : BOOLEAN,     \* I/O is enabled in the command register
            sticks : BOOLEAN]      \* the BARs keep what is written

ASSUME Ac97Assumption ==
  /\ First \in Bases /\ First % 4 = 0 /\ Units \in Nat /\ Units % 4 = 0
  /\ Regs \in Nat \ {0, 1}
  /\ Settings \in Seq({"write", "modify"} \X (1 .. Regs - 1))
  /\ \A m \in Machines :
       /\ m.hw \subseteq 0 .. Units - 1
       /\ m.devices \in Seq(Devices) /\ m.devices # <<>>
       /\ m.bars \in [DOMAIN m.devices -> [1 .. 2 -> {NoBar, Unassigned} \cup Bases]]
       /\ \A d \in DOMAIN m.devices : \A k \in 1 .. 2 :
            m.bars[d][k] % Extent(m.devices[d].kind, k) = 0

(* A codec register's value tells whose it is, and whether it was set.     *)
Values == [of : 0 .. Regs, set : BOOLEAN]
Garbage == [of |-> Regs, set |-> TRUE]
Reset == [r \in 0 .. Regs - 1 |-> [of |-> r, set |-> FALSE]]

(* The tool's accesses to the codec.  "modify" is codec_write(reg,         *)
(* codec_read(reg) | bits): it has two halves.                             *)
Access(op, reg) == <<[op |-> op, reg |-> reg]>>

CodecProbe ==
  Access("write", 0)
    \o [k \in 1 .. Len(Settings) |-> [op |-> Settings[k][1], reg |-> Settings[k][2]]]
    \o [r \in 1 .. Regs |-> [op |-> "dump", reg |-> r - 1]]

ShadowTest ==
  Access("write", 0) \o Access("show", 1) \o Access("write", 1)
    \o Access("write", 1) \o Access("show", 1) \o Access("show", 1)

NoCmd == [op |-> "none", reg |-> 0, val |-> Garbage]

VARIABLES
  machine,        \* the hardware in the way and the controllers
  bars,           \* the two BARs of each controller
  assigned,       \* those that the tool has assigned
  n,              \* the controller being probed
  pc,
  io_base, alt_io_base,
  accesses, step, \* the accesses to the codec, and the current one's number
  fetched, kept,  \* has the first half of a "modify" been done; what it has read
  regs,           \* the dump
  marks,          \* where [!] was displayed: 0 before the dump, r + 1 at register r
  file,
  codec,          \* the codec's registers
  cmd,            \* the command that keeps the controller busy
  late,           \* VIA: the register that the codec has yet to answer for
  data, valid     \* the controller's data register; VIA: Primary Valid

found == <<machine, bars, assigned, n, io_base, alt_io_base>>
probing == <<accesses, step, fetched, kept, regs, marks>>
controller == <<codec, cmd, late, data, valid>>
vars == <<found, pc, probing, file, controller>>

Device == machine.devices[n]
Kind == Device.kind
Answering == Device.decodes

(* A codec as another operating system left it.                            *)
Used == [r \in 0 .. Regs - 1 |-> [of |-> r, set |-> TRUE]]

Init ==
  /\ machine \in Machines
  /\ bars = machine.bars
  /\ assigned = {}
  /\ n = 1 /\ pc = "main"
  /\ io_base = 0 /\ alt_io_base = 0
  /\ file = "none"
  /\ accesses = <<>> /\ step = 1 /\ fetched = FALSE /\ kept = Garbage
  /\ regs = <<>> /\ marks = {}
  /\ codec = Used /\ cmd = NoCmd /\ late = Regs /\ data = Garbage /\ valid = TRUE

-----------------------------------------------------------------------------
(* Ranges.  The words of a unit read as ones if nothing answers there.     *)
Answers(u) ==
  \/ u \in machine.hw
  \/ \E d \in DOMAIN bars : \E k \in 1 .. 2 :
       /\ machine.devices[d].decodes
       /\ bars[d][k] \in Bases
       /\ u \in Ports(bars[d][k], Extent(machine.devices[d].kind, k))

FirstOf(bases) ==
  IF bases = {} THEN 0 ELSE CHOOSE b \in bases : \A c \in bases : b <= c

(* Mutant: only the last word is tested.                                   *)
FindRangeByEnd(size) ==
  FirstOf({b \in First .. Units - 1 : b % size = 0 /\ ~Answers(b + size - 1)})

(* Mutant: the wrap to 0 is missed.                                        *)
FindRangePastEnd(size) ==
  FirstOf({b \in First .. Units : b % size = 0 /\ ~Answers(b) /\ ~Answers(b + size - 1)})

(* The first range whose first and last words read as ones; 0 for none.    *)
io_find_range(size) ==
  FirstOf({b \in First .. Units - 1 :
             b % size = 0 /\ ~Answers(b) /\ ~Answers(b + size - 1)})

(* The base without the bits below the size.                               *)
Masked(bar, size) == bar - (bar % size)

(* The base that pci_get_io_bar returns, or 0.  A base below the size      *)
(* counts as unassigned.                                                   *)
pci_get_io_bar(k, base) ==
  \/ /\ bars[n][k] = NoBar /\ base = 0
     /\ UNCHANGED <<bars, assigned>>
  \/ /\ bars[n][k] # NoBar /\ Masked(bars[n][k], Size(Kind)) # 0
     /\ base = Masked(bars[n][k], Size(Kind))
     /\ UNCHANGED <<bars, assigned>>
  \/ /\ bars[n][k] # NoBar /\ Masked(bars[n][k], Size(Kind)) = 0
     /\ LET range == io_find_range(Size(Kind))
        IN  IF range # 0 /\ Device.sticks
            THEN /\ base = range
                 /\ bars' = [bars EXCEPT ![n][k] = range]
                 /\ assigned' = assigned \cup {<<n, k>>}
            ELSE base = 0 /\ UNCHANGED <<bars, assigned>>

Found == 0 .. Units

(* BAR 10h: without it the controller is left alone.                       *)
MainRange ==
  /\ pc = "main"
  /\ \E base \in Found :
       /\ pci_get_io_bar(1, base)
       /\ io_base' = base
       /\ pc' = IF base = 0 THEN "next" ELSE IF Kind = "Intel" THEN "alt" ELSE "wake"
  /\ UNCHANGED <<machine, n, alt_io_base, file, probing, controller>>

(* VIA and Intel wait for the codec, and give up without a dump.           *)
Wake ==
  /\ pc = "wake"
  /\ pc' \in {IF Kind = "VIA686" THEN "alt" ELSE "probe"}
               \cup IF Kind \in Via \cup {"Intel"} THEN {"next"} ELSE {}
  /\ UNCHANGED <<found, file, probing, controller>>

(* Intel's Bus Master BAR is needed; 686's Codec Shadow BAR is not.        *)
AltRange ==
  /\ pc = "alt"
  /\ \E base \in Found :
       /\ pci_get_io_bar(2, base)
       /\ alt_io_base' = base
       /\ pc' = IF Kind = "VIA686" THEN "probe" ELSE IF base = 0 THEN "next" ELSE "wake"
  /\ UNCHANGED <<machine, n, io_base, file, probing, controller>>

Probe ==
  /\ pc = "probe"
  /\ accesses' = (IF Kind = "VIA686" /\ alt_io_base # 0 THEN ShadowTest ELSE <<>>)
                   \o CodecProbe
  /\ pc' = "before"
  /\ UNCHANGED <<found, file, step, fetched, kept, regs, marks, controller>>

-----------------------------------------------------------------------------
(* One access to the codec.                                                *)
Acc == accesses[step]
Fetches == Acc.op = "modify" /\ ~fetched
Rewrites == Acc.op = "modify" /\ fetched
Writes == Acc.op = "write" \/ Rewrites
Commands == Kind \in {"AudioPCI"} \cup Via

(* Mutant: a read waits for the controller only.                           *)
ReadyBusyOnly == Answering /\ cmd = NoCmd

(* What the polls look for.  Where nothing answers they read ones, which   *)
(* EMU10K takes for ready.  After a read VIA waits for the answer, too.    *)
Ready ==
  IF Answering
  THEN cmd = NoCmd /\ (pc = "after" /\ Kind \in Via /\ ~Writes => valid)
  ELSE Kind = "EMU10K"

Value == [of |-> IF Rewrites THEN kept.of ELSE Acc.reg, set |-> TRUE]

(* The codec takes a value; register 0 resets it.                          *)
Taken(reg, val) == IF reg = 0 THEN Reset ELSE [codec EXCEPT ![reg] = val]

(* The access is over, with what it has read.                              *)
Finish(val) ==
  /\ fetched' = Fetches
  /\ step' = IF Fetches THEN step ELSE step + 1
  /\ regs' = IF Acc.op = "dump" THEN Append(regs, val) ELSE regs
  /\ kept' = IF Fetches THEN val ELSE kept
  /\ pc' = IF step' > Len(accesses) THEN "save" ELSE "before"

(* Mutant: nothing is waited for before a command.                         *)
WaitNotBefore ==
  /\ pc = "before"
  /\ pc' = "issue"
  /\ UNCHANGED <<found, file, probing, controller>>

WaitBefore ==
  /\ pc = "before" /\ Ready
  /\ pc' = "issue"
  /\ UNCHANGED <<found, file, probing, controller>>

WaitAfter ==
  /\ pc = "after" /\ Ready
  /\ Finish(data)
  /\ UNCHANGED <<found, file, accesses, marks, controller>>

(* The counter has come round to 0.                                        *)
GiveUp ==
  /\ pc \in {"before", "after"} /\ ~Ready
  /\ marks' = marks \cup {IF Acc.op = "dump" THEN Acc.reg + 1 ELSE 0}
  /\ IF pc = "before"
     THEN pc' = "issue" /\ UNCHANGED <<step, fetched, kept, regs>>
     ELSE Finish(IF Answering THEN data ELSE Garbage)
  /\ UNCHANGED <<found, file, accesses, controller>>

(* AudioPCI and VIA get a command, which for VIA takes back Primary Valid. *)
(* A controller that is still busy misses the command or the one before.   *)
Command ==
  /\ pc = "issue" /\ Commands
  /\ pc' = "after"
  /\ \/ /\ Answering
        /\ cmd' = [op |-> IF Writes THEN "write" ELSE "read",
                   reg |-> Acc.reg, val |-> IF Writes THEN Value ELSE Garbage]
     \/ (Answering => cmd # NoCmd) /\ UNCHANGED cmd
  /\ valid' = IF Answering /\ Kind \in Via THEN FALSE ELSE valid
  /\ UNCHANGED <<found, file, probing, codec, late, data>>

(* EMU10K and Intel have the codec's register behind a port; a controller  *)
(* that is still busy does not reach it.                                   *)
Port ==
  /\ pc = "issue" /\ ~Commands
  /\ IF Answering /\ cmd = NoCmd
     THEN /\ codec' = IF Writes THEN Taken(Acc.reg, Value) ELSE codec
          /\ cmd' = [NoCmd EXCEPT !.op = "settle"]
          /\ Finish(codec[Acc.reg])
     ELSE Finish(Garbage) /\ UNCHANGED <<codec, cmd>>
  /\ UNCHANGED <<found, file, accesses, marks, late, data, valid>>

-----------------------------------------------------------------------------
(* The controller is done with a command.  VIA has sent a read to the      *)
(* codec and is not busy any more; the others have the answer, too.        *)
Done ==
  /\ cmd # NoCmd
  /\ cmd' = NoCmd
  /\ codec' = IF cmd.op = "write" THEN Taken(cmd.reg, cmd.val) ELSE codec
  /\ data' = IF cmd.op = "read" /\ Kind \notin Via THEN codec[cmd.reg] ELSE data
  /\ late' = IF cmd.op = "read" /\ Kind \in Via THEN cmd.reg ELSE late
  /\ UNCHANGED <<found, pc, file, probing, valid>>

Answer ==
  /\ late # Regs
  /\ data' = codec[late]
  /\ valid' = TRUE
  /\ late' = Regs
  /\ UNCHANGED <<found, pc, file, probing, codec, cmd>>

(* The file is created and written, or not, or in part.                    *)
Save ==
  /\ pc = "save"
  /\ file' \in {"none", "part", "whole"}
  /\ pc' = "next"
  /\ UNCHANGED <<found, probing, controller>>

(* The scan goes on to the next controller, which has a codec of its own.  *)
NextDevice ==
  /\ pc = "next" /\ n < Len(machine.devices)
  /\ n' = n + 1 /\ pc' = "main"
  /\ file' = "none"
  /\ accesses' = <<>> /\ step' = 1 /\ fetched' = FALSE /\ kept' = Garbage
  /\ regs' = <<>> /\ marks' = {}
  /\ codec' = Used /\ cmd' = NoCmd /\ late' = Regs /\ data' = Garbage /\ valid' = TRUE
  /\ UNCHANGED <<machine, bars, assigned, io_base, alt_io_base>>

ScanEnds ==
  /\ pc = "next" /\ n = Len(machine.devices)
  /\ pc' = "done"
  /\ UNCHANGED <<found, file, probing, controller>>

Tool ==
  \/ MainRange \/ Wake \/ AltRange \/ Probe
  \/ WaitBefore \/ WaitAfter \/ GiveUp \/ Command \/ Port
  \/ Save \/ NextDevice \/ ScanEnds

Ended == pc = "done" /\ UNCHANGED vars

Next == Tool \/ Done \/ Answer \/ Ended

Spec == Init /\ [][Next]_vars

-----------------------------------------------------------------------------
(* Every variable has a value of its type: bases fit in 16 bits, and the   *)
(* dump in its buffer.                                                     *)
TypeOK ==
  /\ \A d \in DOMAIN bars : \A k \in 1 .. 2 : bars[d][k] \in {NoBar, Unassigned} \cup Bases
  /\ assigned \subseteq (DOMAIN bars) \X (1 .. 2)
  /\ {io_base, alt_io_base} \subseteq 0 .. Units - 1
  /\ kept \in Values /\ data \in Values /\ late \in 0 .. Regs
  /\ regs \in Seq(Values) /\ Len(regs) <= Regs /\ marks \subseteq 0 .. Regs
  /\ \A r \in 0 .. Regs - 1 : codec[r] \in Values

(* A BAR that has its place in the scan before another.                    *)
Earlier(b, a) == b[1] < a[1] \/ (b[1] = a[1] /\ b[2] < a[2])

(* A range that the tool assigns overlaps no range that a device decoded   *)
(* when it was assigned, be it of the BIOS or assigned earlier, with a     *)
(* size of its own or with another: except one of the BIOS that lies       *)
(* inside, clear of both ends, which the tool does not see.  Nor does it   *)
(* see the ranges of a device that does not decode, and it never enables   *)
(* decoding: of those nothing is said, and the same range may be assigned  *)
(* twice, to the two BARs of one Intel controller with I/O off, too.       *)
RangesApart ==
  \A a \in assigned, b \in (DOMAIN bars) \X (1 .. 2) :
    LET kind(x) == machine.devices[x[1]].kind
        base(x) == bars[x[1]][x[2]]
        range == Ports(base(a), Size(kind(a)))
        other == Ports(base(b), Extent(kind(b), b[2]))
    IN  /\ b \notin assigned \/ Earlier(b, a)
        /\ machine.devices[b[1]].decodes /\ base(b) \in Bases
        => \/ range \cap other = {}
           \/ /\ b \notin assigned
              /\ base(a) \notin other /\ base(a) + Size(kind(a)) - 1 \notin other

Expected(r) == [of |-> r, set |-> \E k \in DOMAIN Settings : Settings[k][2] = r]

Trusted == Answering \/ Kind # "EMU10K"

(* Until the first [!] every register dumped is as the settings left it,   *)
(* however slow the controller and the codec are.  Of an EMU10K that does  *)
(* not answer on its I/O range at all this is not known.                   *)
TrueUntilMarked ==
  Trusted =>
    \A r \in DOMAIN regs :
      (\A m \in marks : m > r) => regs[r] = Expected(r - 1)

(* After a [!], too, a register without one is right, except with VIA,     *)
(* where the answer to an earlier read may be taken for a later one's.     *)
MarkedIfWrong ==
  Trusted /\ Kind \notin Via =>
    \A r \in DOMAIN regs : r \notin marks => regs[r] = codec[r - 1]
=============================================================================
