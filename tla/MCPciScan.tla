----------------------------- MODULE MCPciScan ------------------------------
(* Up to three buses.  There may be a gap before function 2, or function 0  *)
(* may hide the others, or be missing; the walk may go from bus 0 to 1 to   *)
(* 2, from 0 to both, or past a bus that no bridge leads to.                *)
EXTENDS PciScan, TLC

MCBuses == 0 .. 2

Slots(bus) ==
  CASE bus = 0 -> {<<0, 0, 0>>, <<0, 0, 2>>}
    [] bus = 1 -> {<<1, 0, 0>>, <<1, 0, 1>>, <<1, 0, 2>>}
    [] bus = 2 -> {<<2, 0, 0>>, <<2, 1, 0>>}

(* Only function 0 has the multi-function bit, and bus 2 has no bridge.     *)
Header(l) ==
  {h \in Headers : (h.multi => Func(l) = 0) /\ (h.to # Root => h.to > Bus(l))}

Filled(slots) ==
  IF slots = {} THEN {<<>>}
  ELSE {s \in [slots -> UNION {Header(l) : l \in slots}] :
          \A l \in slots : s[l] \in Header(l)}

OnBus0 == {s \in UNION {Filled(slots) : slots \in SUBSET Slots(0)} : Numbered(s)}
OnBus1 == {s \in UNION {Filled(slots) : slots \in SUBSET Slots(1)} : Numbered(s)}
OnBus2 == UNION {Filled(slots) : slots \in SUBSET Slots(2)}

MCSpaces ==
  {s \in {a @@ b @@ c : a \in OnBus0, b \in OnBus1, c \in OnBus2} : Numbered(s)}
=============================================================================
