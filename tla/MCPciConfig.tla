----------------------------- MODULE MCPciConfig -----------------------------
(* Instances of PciConfig for TLC: two buses, two functions, one bit a byte.*)
EXTENDS PciConfig

MCBits == {"t"}
MCLoc(b, f) == [bus |-> b, dev |-> 0, fn |-> f, dw |-> 0]

(* Three of the four addresses answer; lane 2 of the first is a status     *)
(* byte, as at register 06h.                                               *)
MCPresent == {MCLoc(0, 0), MCLoc(0, 1), MCLoc(1, 0)}
MCStatus == {<<MCLoc(0, 0), 2>>}

MCDword(ones) == [l \in 0 .. 3 |-> IF l \in ones THEN MCBits ELSE {}]

MCCall(kind, loc, size, off, ones) ==
  [kind |-> kind, loc |-> loc, size |-> size, off |-> off, val |-> MCDword(ones)]

(* Reads of every width, an absent function, narrow and full writes; an    *)
(* odd word offset, which the code rounds down.                            *)
MCCalls ==
  {MCCall("read", MCLoc(1, 1), "l", 0, {}), MCCall("read", MCLoc(1, 0), "w", 3, {}),
   MCCall("read", MCLoc(0, 1), "b", 2, {}),
   MCCall("write", MCLoc(0, 0), "l", 0, {0, 3}),
   MCCall("write", MCLoc(0, 0), "b", 1, {1}),
   MCCall("write", MCLoc(1, 0), "w", 2, {2})}

MCContents ==
  {[loc \in Locs |-> MCDword({0, 2})]}
=============================================================================
