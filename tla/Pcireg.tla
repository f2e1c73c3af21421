------------------------------- MODULE Pcireg -------------------------------
(***************************************************************************)
(* pcireg as a program: main() makes one operation of its arguments and    *)
(* runs it.  Reading, writing and dumping registers is here; names for -s  *)
(* and -i are PciIds, the IRQ steering table of -t is Steering.            *)
(***************************************************************************)
EXTENDS Integers, Sequences, FiniteSets

CONSTANTS
  Ones, HeaderBuf, Sources, Disks, Machines, MaxFaults,    \* of PciIds
  Modes, Firmwares, MaxTrouble,                            \* of Steering
  CommandLines,   \* [op, tokens] records: argv[1] and the arguments after it,
                  \* which are sequences of digits, 16 for any other character
  Outside         \* the argument that argv holds past its end

(* Where numbers are expected every argument is a string.                  *)
ASSUME CommandLineAssumption ==
  \A c \in CommandLines : c.op \notin {"none", "s", "t"} => c.tokens \in Seq(Seq(0 .. 16))

VARIABLES
  src, disk, machine, tables, loaded, pciids_cur_vendor, pciids_cur_device, n, step, pc, want,
  pos, entry, name, shown, faults,
  mode, firmware, at, buf_size, held, len, table, irq_bitmap, warned, lines, next, trouble,
  argv,
  doing,          \* what main() is at
  i,              \* the argument it is at
  hexargv,        \* the numbers among them
  place,          \* bus, device, function and register
  accesses,       \* reads and writes of configuration space
  cur_reg, regs,  \* the dump
  file

Names == INSTANCE PciIds
Routing == INSTANCE Steering

(* Lengths are words; a table of a BIOS that agrees with itself on its     *)
(* length is as long as its entries of 16 bytes, and so is a $PIR table.   *)
ASSUME FirmwareAssumption ==
  \A f \in Firmwares :
    /\ f.len \in Routing!Words /\ f.odd \subseteq Routing!Words
    /\ f.entries \in Seq(Routing!irq_routing_entry_t)
    /\ f.odd = {} => f.len = 16 * Len(f.entries)
    /\ f.pir.entries \in Seq(Routing!irq_routing_entry_t)
    /\ f.pir.size \in {0, 32 + 16 * Len(f.pir.entries)}

(* The files of the databases and the machine are what they should be.     *)
ASSUME NamesAssumption ==
  /\ Ones \in Nat /\ HeaderBuf \in Nat /\ MaxFaults \in Nat /\ MaxTrouble \in Nat
  /\ \A s \in Sources : Names!IsPciIds(s)
  /\ \A d \in Disks : Names!IsDisk(d)
  /\ \A m \in Machines : Names!IsMachine(m)

arguments == <<argv, i, hexargv, place>>
dump == <<cur_reg, regs, file>>
names == <<src, disk, machine, tables, loaded, pciids_cur_vendor, pciids_cur_device, n, step, pc,
           want, pos, entry, name, shown, faults>>
routing == <<mode, firmware, at, buf_size, held, len, table, irq_bitmap, warned, lines, next, trouble>>
own == <<arguments, doing, accesses, dump>>
vars == <<own, names, routing>>

Origin == [bus |-> 0, dev |-> 0, func |-> 0, reg |-> 0]
Zero == [Origin EXCEPT !.bus = -1]   \* the value 0, which no register has

(* Operations that are not run have one environment that they do not see.  *)
Init ==
  /\ argv \in CommandLines
  /\ doing = "start" /\ i = 1 /\ hexargv = <<>> /\ place = Origin /\ accesses = <<>>
  /\ cur_reg = 0 /\ regs = [r \in 0 .. 63 |-> Zero] /\ file = <<>>
  /\ IF argv.op \in {"s", "i"}
     THEN /\ src \in Sources /\ disk \in Disks
          /\ machine \in {m \in Machines : m.tool = IF argv.op = "s" THEN "scan" ELSE "info"}
     ELSE src = (CHOOSE s \in Sources : TRUE) /\ disk = (CHOOSE d \in Disks : TRUE)
          /\ machine = (CHOOSE m \in Machines : TRUE)
  /\ IF argv.op = "t"
     THEN mode = {argv.tokens[k] : k \in DOMAIN argv.tokens} /\ firmware \in Firmwares
     ELSE mode = {} /\ firmware = (CHOOSE f \in Firmwares : TRUE)
  /\ Names!Init /\ Routing!Init

-----------------------------------------------------------------------------
(* Arguments.                                                              *)

Tokens == argv.tokens

(* The digits up to the first character that is not one, of which the last *)
(* eight stay in 32 bits; the bytes of that number, the lowest first.      *)
parse_hex_u32(val) ==
  LET bad == {k \in DOMAIN val : val[k] = 16}
      len32 == IF bad = {} THEN Len(val) ELSE (CHOOSE k \in bad : \A l \in bad : k <= l) - 1
      digit(k) == IF k < len32 THEN val[len32 - k] ELSE 0
  IN  [ok |-> bad = {}, bytes |-> [b \in 1 .. 4 |-> digit(2 * b - 2) + 16 * digit(2 * b - 1)]]

Hex(val) == parse_hex_u32(val).ok
Bytes(val) == parse_hex_u32(val).bytes
IsCf8(val) == \E b \in 2 .. 4 : Bytes(val)[b] # 0

(* The bus, device, function and register bytes of a port CF8h dword.      *)
Cf8Parts(val) ==
  LET b == Bytes(val) IN <<b[3], b[2] \div 8, b[2] % 8, b[1]>>

(* PCI may not be there; -s and -t take no numbers, other options need one.*)
Start ==
  /\ doing = "start"
  /\ \/ doing' = "usage" /\ argv.op = "none"
     \/ doing' = "nopci" /\ argv.op # "none"
     \/ doing' = "scan" /\ argv.op = "s"
     \/ doing' = "steering" /\ argv.op = "t"
     \/ doing' = (IF Tokens = <<>> THEN "usage" ELSE "first") /\ argv.op \notin {"none", "s", "t"}
  /\ UNCHANGED <<arguments, accesses, dump, names, routing>>

ParseFirst ==
  /\ doing = "first"
  /\ LET t == Tokens[1] IN
       IF ~Hex(t) THEN doing' = "usage" /\ UNCHANGED <<i, hexargv>>
       ELSE /\ hexargv' = (IF IsCf8(t) THEN Cf8Parts(t) ELSE <<Bytes(t)[1]>>)
            /\ doing' = "rest" /\ i' = 2
  /\ UNCHANGED <<argv, place, accesses, dump, names, routing>>

(* At most four more; one that is not a number is the last and counts.     *)
ParseRest ==
  /\ doing = "rest"
  /\ IF i <= Len(Tokens) /\ i < 6
     THEN /\ hexargv' = Append(hexargv, Bytes(Tokens[i])[1])
          /\ i' = i + 1
          /\ doing' = (IF Hex(Tokens[i]) THEN "rest" ELSE "dispatch")
     ELSE doing' = "dispatch" /\ UNCHANGED <<i, hexargv>>
  /\ UNCHANGED <<argv, place, accesses, dump, names, routing>>

(* The numbers without the value to be written.                            *)
hexargc == IF argv.op = "w" THEN Len(hexargv) - 1 ELSE Len(hexargv)

(* Mutant: three numbers of a read or write end at the register.           *)
PlacesNoFallThrough ==
  LET where(bus, dev, func, reg) == [bus |-> bus, dev |-> dev, func |-> func, reg |-> reg]
      h == hexargv
  IN  CASE hexargc = 4 -> where(h[1], h[2], h[3], h[4])
        [] hexargc = 3 -> IF argv.op \in {"d", "i"} THEN where(h[1], h[2], h[3], 0)
                          ELSE where(0, 0, 0, h[3])
        [] hexargc = 2 -> where(0, h[1], h[2], 0)
        [] hexargc = 1 -> where(0, h[1], 0, 0)

Places ==
  LET where(bus, dev, func, reg) == [bus |-> bus, dev |-> dev, func |-> func, reg |-> reg]
      h == hexargv
  IN  CASE hexargc = 4 -> where(h[1], h[2], h[3], h[4])
        [] hexargc = 3 -> IF argv.op \in {"d", "i"} THEN where(h[1], h[2], h[3], 0)
                          ELSE where(0, h[1], h[2], h[3])
        [] hexargc = 2 -> where(0, h[1], h[2], 0)
        [] hexargc = 1 -> where(0, h[1], 0, 0)

Operation == [d |-> "dump", i |-> "identify", r |-> "read", w |-> "write"]

Dispatch ==
  /\ doing = "dispatch"
  /\ IF hexargc \notin 1 .. 4 \/ (argv.op = "i" /\ hexargc = 4) \/ argv.op \notin DOMAIN Operation
     THEN doing' = "usage" /\ UNCHANGED place
     ELSE doing' = Operation[argv.op] /\ place' = Places
  /\ UNCHANGED <<argv, i, hexargv, accesses, dump, names, routing>>

-----------------------------------------------------------------------------
(* Operations.  The value of a register is the register that was read.     *)

Access(kind, width, where, val) ==
  accesses' = Append(accesses, [kind |-> kind, width |-> width, where |-> where, val |-> val])

Read ==
  /\ doing = "read"
  /\ Access("read", 4, place, place) /\ doing' = "end"
  /\ UNCHANGED <<arguments, dump, names, routing>>

Argument(k) == IF k \in DOMAIN Tokens THEN Tokens[k] ELSE Outside
Width(strlen) == CASE strlen \in {1, 2} -> 1 [] strlen \in {3, 4} -> 2 [] OTHER -> 4

(* A byte, word or dword, by the length of the value, and then read back.  *)
Write ==
  /\ doing = "write"
  /\ LET value == Argument(hexargc + 1)
         width == Width(Len(value))
     IN  Access("write", width, place, SubSeq(Bytes(value), 1, width))
  /\ doing' = "readback"
  /\ UNCHANGED <<arguments, dump, names, routing>>

Readback ==
  /\ doing = "readback"
  /\ Access("read", accesses[Len(accesses)].width, place, place) /\ doing' = "end"
  /\ UNCHANGED <<arguments, dump, names, routing>>

(* A dword; the registers before the one to start from stay unread, as 0.  *)
DumpDword ==
  /\ doing = "dump"
  /\ LET here == [place EXCEPT !.reg = cur_reg]
         skip == cur_reg < 4 * (place.reg \div 4)
     IN  /\ regs' = [regs EXCEPT ![cur_reg \div 4] = IF skip THEN Zero ELSE here]
         /\ IF skip THEN UNCHANGED accesses ELSE Access("read", 4, here, here)
  /\ cur_reg' = (cur_reg + 4) % 256
  /\ doing' = (IF cur_reg' = 0 THEN "save" ELSE "dump")
  /\ UNCHANGED <<arguments, file, names, routing>>

(* The file may not open, or not take all of it.                           *)
Save ==
  /\ doing = "save"
  /\ file' \in {regs, <<>>} /\ doing' = "end"
  /\ UNCHANGED <<arguments, accesses, cur_reg, regs, names, routing>>

(* pcireg -i first sees whether there is a device.                         *)
Identify ==
  /\ doing = "identify"
  /\ Access("read", 4, place, place) /\ doing' \in {"info", "nodevice"}
  /\ UNCHANGED <<arguments, dump, names, routing>>

LookUp == doing \in {"scan", "info"} /\ Names!Next /\ UNCHANGED <<own, routing>>
Steer == doing = "steering" /\ Routing!Next /\ UNCHANGED <<own, names>>

Next ==
  \/ Start \/ ParseFirst \/ ParseRest \/ Dispatch
  \/ Read \/ Write \/ Readback \/ DumpDword \/ Save \/ Identify
  \/ LookUp \/ Steer

Spec == Init /\ [][Next]_vars

-----------------------------------------------------------------------------
(* Properties.                                                             *)

(* Types, of the components too.  A number of hexargv[8] is never past its *)
(* end, whatever there is on the command line.                             *)
TypeOK ==
  /\ hexargv \in UNION {[1 .. k -> 0 .. 255] : k \in {Len(hexargv)}} /\ Len(hexargv) <= 8
  /\ i \in 1 .. 6 /\ cur_reg \in {4 * k : k \in 0 .. 63}
  /\ place \in [bus : 0 .. 255, dev : 0 .. 255, func : 0 .. 255, reg : 0 .. 255]
  /\ file \in {<<>>, regs}
  /\ Names!TypeOK /\ Routing!TypeOK

NamesRight == Names!NamesRight
NamesAlwaysRight == Names!NamesAlwaysRight
CursorsBacked == Names!CursorsBacked
BufferKept == Routing!BufferKept
SteeringRight == Routing!SteeringRight

(* The forms of the usage: "-r [bus] device [function] register", -w the   *)
(* same with a value, "-i [bus] device [function]", "-d [bus] device       *)
(* [function [register]]" with the register only after a bus.              *)
Forms(op) ==
  CASE op \in {"r", "w"} -> {<<"dev", "reg">>, <<"bus", "dev", "reg">>, <<"dev", "func", "reg">>,
                             <<"bus", "dev", "func", "reg">>}
    [] op = "i" -> {<<"dev">>, <<"bus", "dev">>, <<"dev", "func">>, <<"bus", "dev", "func">>}
    [] op = "d" -> {<<"dev">>, <<"bus", "dev">>, <<"dev", "func">>, <<"bus", "dev", "func">>,
                    <<"bus", "dev", "func", "reg">>}

Numbers == IF argv.op = "w" THEN SubSeq(Tokens, 1, Len(Tokens) - 1) ELSE Tokens

(* Where a form says that the numbers are; what it leaves out is 0.        *)
Reading(form) ==
  [f \in DOMAIN Origin |->
     IF \E k \in DOMAIN form : form[k] = f
     THEN Bytes(Numbers[CHOOSE k \in DOMAIN form : form[k] = f])[1]
     ELSE 0]

(* "{bus device function register} can be substituted for a single port    *)
(* CF8h dword."                                                            *)
Readings ==
  IF Len(Numbers) = 1 /\ IsCf8(Numbers[1])
  THEN LET c == Cf8Parts(Numbers[1]) IN {[bus |-> c[1], dev |-> c[2], func |-> c[3], reg |-> c[4]]}
  ELSE {Reading(form) : form \in {f \in Forms(argv.op) : Len(f) = Len(Numbers)}}

WellFormed ==
  /\ argv.op \in DOMAIN Operation /\ \A k \in DOMAIN Tokens : Hex(Tokens[k])
  /\ \A k \in 2 .. Len(Numbers) : ~IsCf8(Numbers[k])
  /\ Readings # {}

(* The operation is done at one of some places, with a value.              *)
DoneAt(places, value) ==
  /\ place \in places
  /\ argv.op # "d" => \A k \in DOMAIN accesses : accesses[k].where = place
  /\ argv.op = "w" =>
       LET width == Width(Len(value))
       IN  /\ accesses[1].kind = "write" /\ accesses[1].val = SubSeq(Bytes(value), 1, width)
           /\ accesses[2].kind = "read" /\ accesses[2].width = width

(* A dump reads each dword from the one that holds the starting register   *)
(* to the last one once, in order, and none before it; the file holds what *)
(* was read at its place, and 0 before it.                                 *)
DumpRight ==
  LET start == place.reg \div 4
      dword(r) == [place EXCEPT !.reg = 4 * r]
  IN  /\ [k \in DOMAIN accesses |-> accesses[k].where] = [k \in 1 .. 64 - start |-> dword(start + k - 1)]
      /\ file # <<>> => \A r \in 0 .. 63 : file[r] = IF r < start THEN Zero ELSE dword(r)

(* Two forms are not taken as the usage has them.  Of "device register"    *)
(* the second number is taken for a function, and the register is 0.  With *)
(* a CF8h dword the value to write is looked for past the end of argv.     *)
TwoNumbers == argv.op \in {"r", "w"} /\ Len(Numbers) = 2
DwordAndValue == argv.op = "w" /\ Len(Numbers) = 1
TakenPlaces == IF TwoNumbers THEN {Reading(<<"dev", "func">>)} ELSE Readings
TakenValue == IF DwordAndValue THEN Outside ELSE Tokens[Len(Tokens)]

(* An operation on a well-formed command line touches a register that one  *)
(* reading of the usage names, or the one above; a write stores all of the *)
(* value, or what lies past the end of argv, as above, and what is read    *)
(* back is what was written; a dump is right.                              *)
ArgumentsFollowed ==
  doing = "end" =>
    /\ WellFormed => DoneAt(TakenPlaces, TakenValue)
    /\ argv.op = "d" => DumpRight

(* The usage itself: any form of it.                                       *)
UsageFollowed == doing = "end" /\ WellFormed => DoneAt(Readings, Tokens[Len(Tokens)])
=============================================================================
