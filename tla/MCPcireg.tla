------------------------------ MODULE MCPcireg ------------------------------
(* Command lines, a small pci.ids on several disks, and the firmwares of    *)
(* some machines.                                                           *)
EXTENDS Pcireg

(* Numbers of two digits, one of which may be two bytes long, a CF8h dword, *)
(* 02h followed by something else, and values of every width.               *)
Number(b) == <<b \div 16, b % 16>>
Cf8 == <<8, 0, 0, 2, 3, 13, 4, 4>>
Typo == <<2, 16>>
MCOutside == <<16, 10, 16, 1>>
First == {Number(1), Cf8, Typo}
Later == {Number(6), Number(255)}
Values == {Number(171), <<1, 2, 3, 4>>, <<5, 1, 2, 3, 4>>, <<9, 8, 0, 5, 1, 2, 3, 4, 10>>}
Numbered ==
  {<<f>> : f \in First}
  \cup {<<f, a>> : f \in First, a \in Later \cup {Typo}}
  \cup {<<f, a, b>> : f \in {Number(1), Cf8}, a \in Later, b \in Later \cup {Typo}}
  \cup {<<Number(1), a, b, c>> : a \in Later, b \in {Number(7)}, c \in Later}
  \cup {<<Number(1), Number(1), Number(3), Number(4), c>> : c \in Later}
  \cup {<<Cf8, Number(1), Number(2), Number(3), Number(4), Number(5)>>}
MCCommandLines ==
  [op : {"r", "d", "x"}, tokens : Numbered \cup {<<>>}]
  \cup [op : {"w"}, tokens : {Append(p, v) : p \in Numbered, v \in Values} \cup {<<v>> : v \in Values}]
  \cup {[op |-> "t", tokens |-> t] : t \in {<<>>, <<"m">>, <<"8">>, <<"m", "8">>}}
  \cup {[op |-> o, tokens |-> <<>>] : o \in {"none", "s"}}
  \cup {[op |-> "i", tokens |-> t] : t \in {<<>>, <<Number(0), Number(1)>>, <<Cf8>>}}

MCOnes == 5
MCHeaderBuf == 8

(* Vendor 2 has no devices in the one, and is missing in the other, where   *)
(* vendor 3 comes next.  Device 3 of vendor 1 has no subdevices, and the    *)
(* last subdevice of device 4 of vendor 3 is FFFFh of vendor 3.             *)
With(vendors, devices, subdevices) ==
  [vendors |-> vendors, devices |-> devices, subdevices |-> subdevices,
   classes |-> {<<1>>, <<3>>}, subclasses |-> {<<1, 0>>, <<3, 2>>},
   progifs |-> {<<1, 0, 1>>, <<3, 2, 0>>}]

Gapless ==
  With(1 .. 3, {<<1, 1>>, <<1, 3>>, <<3, 1>>, <<3, 4>>},
       {<<1, 1, 1, 2>>, <<1, 1, 3, 1>>, <<3, 1, 3, 2>>})
WithGap ==
  With({1, 3}, {<<1, 2>>, <<3, 2>>, <<3, 4>>, <<3, 5>>},
       {<<1, 2, 1, 1>>, <<3, 2, 1, 2>>, <<3, 2, 2, 1>>, <<3, 4, 3, 5>>, <<3, 5, 4, 4>>})
MCSources == {Gapless, WithGap}
MCGapSources == {WithGap}

Entry(db, method, data) ==
  [db |-> db, method |-> method, level |-> 1, header |-> 3, exts |-> 1, data |-> data]
(* All seven, the last one large enough to be read as a header.             *)
Packed(method) ==
  LET e(db, data) == Entry(db, method, data)
  IN  <<e("C", 1), e("D", 4), e("P", 2), e("S", 3), e("T", 9), e("U", 2), e("V", 4)>>

Whole(method) == [archive |-> Packed(method), plain |-> {}]
MCDisks == {
  Whole("5"), Whole("0"),
  \* packed in another order: the last entry is shorter than a header buffer
  [archive |-> Append(SubSeq(Packed("5"), 2, 7),
                      [Entry("C", "5", 1) EXCEPT !.exts = 0]), plain |-> {}],
  \* an entry of another method, and no string database
  [archive |-> <<Entry("V", "5", 4), Entry("D", "5", 4), [Entry("C", "5", 4) EXCEPT !.method = "6"],
                 Entry("U", "5", 9)>>, plain |-> {}],
  [archive |-> <<>>, plain |-> {"V", "D", "S", "C", "U", "P", "T"}],
  [archive |-> <<>>, plain |-> {}] }

F(vendor, device, sub, class) ==
  [vendor |-> vendor, device |-> device, sub |-> sub, class |-> class, header |-> 0]
One == F(1, 1, <<1, 2>>, <<1, 0, 1>>)
Two == F(3, 4, <<3, 2>>, <<3, 2, 1>>)
MCMachines ==
  [tool : {"info"}, libpci : BOOLEAN,
   functions : {<<One>>, <<F(1, 2, <<1, 1>>, <<2, 1, 0>>)>>, <<F(3, 2, <<2, 1>>, <<3, 2, 0>>)>>,
                <<F(2, 2, <<4, 4>>, <<3, 0, 0>>)>>, <<F(1, 4, <<3, 2>>, <<2, 2, 2>>)>>,
                <<F(4, 1, <<0, 0>>, <<5, 5, 5>>)>>,
                <<F(3, 4, <<3, 5>>, <<1, 0, 1>>)>>}]
  \cup [tool : {"scan"}, libpci : BOOLEAN,
        functions : {<<One, F(2, 1, <<0, 0>>, <<1, 0, 1>>), Two>>,
                     <<F(4, 1, <<0, 0>>, <<3, 2, 0>>), F(1, 3, <<0, 0>>, <<1, 1, 0>>), Two>>}]
(* A function of the missing vendor, with a device ID that vendor 3 has.    *)
MCOvertakenMachines ==
  [tool : {"info"}, libpci : BOOLEAN, functions : {<<F(2, 2, <<4, 4>>, <<3, 0, 0>>)>>}]

(* Routing tables of four devices, one behind a bridge, of an ALi chipset,  *)
(* of one with too many links, and tables about as large as the buffer.     *)
Routed(bus, dev, ints, slot) ==
  [bus |-> bus, dev |-> 8 * dev, ints |-> ints, slot |-> slot, bitmaps |-> <<{9, 10}, {10}, {}, {9}>>]
Routings == {
  <<Routed(0, 7, <<1, 2, 3, 129>>, 0), Routed(0, 8, <<2, 3, 129, 1>>, 1), Routed(1, 0, <<1, 2, 0, 0>>, 0),
    Routed(0, 1, <<3, 0, 0, 0>>, 0)>>,
  <<Routed(0, 0, <<137, 65, 0, 16>>, 0), Routed(0, 5, <<65, 16, 137, 64>>, 0),
    Routed(0, 2, <<16, 137, 64, 64>>, 2)>>,
  <<Routed(0, 3, <<1, 2, 3, 4>>, 0), Routed(0, 3, <<5, 2, 3, 4>>, 0)>>,
  <<>> }
Large == {[k \in 1 .. size |-> Routed(0, k % 32, <<1, 2, 3, 4>>, 1)] : size \in {64, 65, 70}}
Class == [d \in 0 .. 31 |-> CASE d = 0 -> "host" [] d = 1 -> "bridge" [] d = 7 -> "isa"
                              [] d = 5 -> "VIDEO" [] OTHER -> "none"]
Firmware(entries, pir) ==
  [entries |-> entries, len |-> 16 * Len(entries), odd |-> {}, class |-> Class, pir |-> pir]
Pir(entries) == [size |-> 32 + 16 * Len(entries), entries |-> entries]
MCFirmwares ==
  {Firmware(e, Pir(e)) : e \in Routings}
  \cup {Firmware(e, [size |-> 0, entries |-> <<>>]) : e \in Large}
  \cup {[Firmware(<<>>, Pir(<<>>)) EXCEPT !.odd = {8, 1025, 65529, 65530, 65535}]}
MCModes == SUBSET {"m", "8"}

(* Large tables are not sorted: too many orders to try.                     *)
MCInit == Init /\ (firmware.len >= 1024 => mode = {})
MCSpec == MCInit /\ [][Next]_vars
=============================================================================
