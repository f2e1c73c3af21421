---------------------------- MODULE PciregProofs ----------------------------
(***************************************************************************)
(* What holds of pcireg for any databases, machines, firmwares, command    *)
(* lines and any number of failures: a lookup's cursor never outruns its   *)
(* table, the PCI BIOS is never told of room that is not there, the IRQ    *)
(* steering table is displayed as it was given, the operations are on the  *)
(* place that the arguments name, what -s and -i are told of an ID is its  *)
(* own name, and every variable has its type.                              *)
(***************************************************************************)
EXTENDS Pcireg, SequenceTheorems, FiniteSetTheorems, WellFoundedInduction, TLAPS

(* What the names know at each point of a lookup: the table that is being  *)
(* searched is in memory, and what is being loaded is that table or the    *)
(* strings.                                                                *)
Searching ==
  /\ pc = "search" => Names!DbOf[step] \in loaded
  /\ pc \in {"open", "header", "found", "notloaded"} => want \in {Names!DbOf[step], "T"}

NInv == Names!CursorsBacked /\ Searching

LEMMA InitNInv == Init => NInv
  BY DEF Init, Names!Init, NInv, Searching, Names!CursorsBacked, Names!InMemory

LEMMA NextNInv == NInv /\ [Next]_vars => NInv'
<1> SUFFICES ASSUME NInv, [Next]_vars PROVE NInv'
  OBVIOUS
<1> USE DEF NInv, Searching, Names!CursorsBacked, Names!InMemory, Names!files, Names!cursors,
            Names!caller, Names!loading
<1>1. CASE Names!Ask
  BY <1>1 DEF Names!Ask, Names!NoCursor
<1>2. CASE Names!Search
  BY <1>2 DEF Names!Search, Names!Found, Names!Missed
<1>3. CASE Names!AskSystem
  BY <1>3 DEF Names!AskSystem
<1>4. CASE Names!Tell
  BY <1>4 DEF Names!Tell
<1>5. CASE Names!Open
  BY <1>5 DEF Names!Open
<1>6. CASE Names!ReadHeader
  BY <1>6 DEF Names!ReadHeader
<1>7. CASE Names!Load
  BY <1>7 DEF Names!Load
<1>8. CASE Names!LoadFails
  BY <1>8 DEF Names!LoadFails
<1>9. CASE Names!NotLoaded
  BY <1>9 DEF Names!NotLoaded
<1>10. CASE UNCHANGED names
  BY <1>10 DEF names, Names!DbOf
<1>11. Names!Next \/ UNCHANGED names
  BY DEF Next, vars, Start, ParseFirst, ParseRest, Dispatch, Read, Write, Readback, DumpDword,
     Save, Identify, LookUp, Steer
<1> QED
  BY <1>1, <1>2, <1>3, <1>4, <1>5, <1>6, <1>7, <1>8, <1>9, <1>10, <1>11 DEF Names!Next

(* While a cursor is set its table is in memory, however many lookups      *)
(* failed to load theirs and were made again (pciids_open_database and the *)
(* lookups that leave and use cursors).                                    *)
THEOREM CursorsAlwaysBacked == Spec => []CursorsBacked
<1>1. NInv => CursorsBacked
  BY DEF NInv, CursorsBacked
<1> QED BY <1>1, InitNInv, NextNInv, PTL DEF Spec

-----------------------------------------------------------------------------
(* The real mode buffer.                                                   *)

Agreeing == firmware.odd = {}

(* The buffer has the first size, or that of a longer table and its length.*)
RInv ==
  /\ firmware \in Firmwares
  /\ held \in Nat /\ buf_size \in Nat
  /\ at \in {"start", "call"} => buf_size > 0
  /\ at = "call" => held >= buf_size
  /\ at = "call" /\ buf_size = 1024 => held = 1024
  /\ at \in {"call", "fetched", "lost"} => held # 0
  /\ at \notin {"call", "fetched", "lost"} => held = 0
  /\ Agreeing /\ at \in {"start", "call", "fetched"} =>
       buf_size = 1024 \/ (firmware.len > 1024 /\ buf_size = firmware.len + 2)
  /\ Agreeing /\ at = "fetched" => IF len = 1024 THEN held = 1024 ELSE 2 + len <= held

(* Paragraphs hold at least as much as they are asked for.                 *)
LEMMA Paragraphs ==
  ASSUME NEW b \in Nat
  PROVE  /\ 16 * ((b + 15) \div 16) \in Nat /\ 16 * ((b + 15) \div 16) >= b
         /\ b = 1024 => 16 * ((b + 15) \div 16) = 1024
  OBVIOUS

(* A whole number of entries that fits the first buffer, and does not fill *)
(* it, leaves room for the length.                                         *)
LEMMA RoomForLength ==
  ASSUME NEW k \in Nat, k % 16 = 0, k <= 1024, k # 1024
  PROVE  k + 2 <= 1024
  OBVIOUS

LEMMA InitRInv == Init => RInv
<1> SUFFICES ASSUME Init PROVE RInv
  OBVIOUS
<1> QED BY DEF Init, Routing!Init, Routing!FirstSize, RInv, Agreeing

LEMMA NextRInv == RInv /\ [Next]_vars => RInv'
<1> SUFFICES ASSUME RInv, [Next]_vars PROVE RInv'
  OBVIOUS
<1> USE DEF RInv, Agreeing, Routing!tool, Routing!buffer, Routing!display
<1>1. CASE Routing!FindPir
  BY <1>1 DEF Routing!FindPir
<1>2. CASE Routing!Allocate
  BY <1>2, Paragraphs DEF Routing!Allocate
<1>3. CASE Routing!CallBios
  <2>1. CASE Routing!Trouble /\ at' = "lost" /\ UNCHANGED <<buf_size, held, len>>
    BY <1>3, <2>1 DEF Routing!CallBios
  <2>2. ASSUME NEW answer \in Routing!Answers,
               len' = answer.len,
               IF answer.ah = 89 /\ answer.len > buf_size THEN Routing!Retry(answer)
               ELSE /\ at' = (IF answer.ah = 0 THEN "fetched" ELSE "failed")
                    /\ held' = (IF answer.ah = 0 THEN held ELSE 0)
                    /\ UNCHANGED buf_size
        PROVE  RInv'
    <3>1. firmware' = firmware /\ at = "call" /\ answer.len \in Nat
      <4>1. firmware.len \in Nat /\ \A l \in firmware.odd : l \in Nat
        BY FirmwareAssumption DEF RInv, Routing!Words
      <4>2. firmware' = firmware /\ at = "call"
        BY <1>3 DEF Routing!CallBios
      <4>3. answer.len \in Nat
        BY <4>1 DEF Routing!Answers
      <4> QED BY <4>2, <4>3
    <3>2. Agreeing => /\ answer.len = firmware.len /\ firmware.len % 16 = 0
                      /\ answer.ah = IF firmware.len > buf_size THEN 89 ELSE 0
      BY FirmwareAssumption DEF Routing!Answers
    <3>3. CASE answer.ah = 89 /\ answer.len > buf_size
      <4>1. held' = 0 /\ at' \in {"start", "failed"} /\ buf_size' \in Nat
            /\ (at' = "start" => buf_size' = answer.len + 2)
        BY <3>1, <3>3, <2>2 DEF Routing!Retry
      <4>2. answer.len + 2 > 0
        BY <3>1
      <4>3. (Agreeing' <=> Agreeing) /\ firmware' \in Firmwares /\ held' \in Nat
            /\ at' \notin {"call", "fetched", "lost"}
        BY <3>1, <4>1
      <4>4. at' = "start" =>
              /\ buf_size' > 0
              /\ Agreeing => firmware'.len > 1024 /\ buf_size' = firmware'.len + 2
        BY <3>1, <3>2, <3>3, <4>1, <4>2
      <4> QED BY <4>1, <4>3, <4>4
    <3>4. CASE answer.ah = 0
      <4>1. /\ at' = "fetched" /\ held' = held /\ buf_size' = buf_size /\ len' = answer.len
            /\ held \in Nat /\ held # 0 /\ firmware' = firmware
        BY <3>1, <3>4, <2>2
      <4>2. ASSUME Agreeing PROVE IF len' = 1024 THEN held = 1024 ELSE 2 + len' <= held
        <5>1. len' \in Nat /\ len' % 16 = 0 /\ len' <= buf_size /\ held >= buf_size /\ buf_size \in Nat
          BY <3>1, <3>2, <3>4, <4>1, <4>2
        <5>2. CASE buf_size = 1024
          BY <3>1, <5>1, <5>2, RoomForLength
        <5>3. CASE buf_size # 1024
          BY <3>1, <3>2, <4>1, <4>2, <5>1, <5>3
        <5> QED BY <5>2, <5>3
      <4> QED BY <3>1, <4>1, <4>2
    <3>5. CASE answer.ah # 0 /\ ~(answer.ah = 89 /\ answer.len > buf_size)
      BY <3>1, <3>5, <2>2
    <3> QED BY <3>3, <3>4, <3>5
  <2> QED BY <1>3, <2>1, <2>2 DEF Routing!CallBios
<1>4. CASE Routing!CopyTable
  BY <1>4 DEF Routing!CopyTable
<1>5. CASE Routing!Prepare
  BY <1>5 DEF Routing!Prepare
<1>6. CASE Routing!Display
  BY <1>6 DEF Routing!Display
<1>7. CASE UNCHANGED routing
  BY <1>7 DEF routing
<1>8. Routing!Next \/ UNCHANGED routing
  BY DEF Next, vars, Start, ParseFirst, ParseRest, Dispatch, Read, Write, Readback, DumpDword,
     Save, Identify, LookUp, Steer
<1> QED BY <1>1, <1>2, <1>3, <1>4, <1>5, <1>6, <1>7, <1>8 DEF Routing!Next

(* A BIOS that agrees with itself never writes past the real mode buffer,  *)
(* but for a table of 1024 bytes, which ends two bytes past it; and        *)
(* dump_steering_table frees the buffer before it goes on or returns,      *)
(* except after a DPMI call that failed, when it never does.               *)
THEOREM BufferAlwaysKept == Spec => []BufferKept
<1>1. RInv => BufferKept
  BY DEF RInv, Agreeing, BufferKept, Routing!BufferKept, Routing!FirstSize
<1> QED BY <1>1, InitRInv, NextRInv, PTL DEF Spec

-----------------------------------------------------------------------------
(* Numbering links.                                                        *)

LEMMA SameCardinality ==
  ASSUME NEW S
  PROVE  Routing!Cardinality(S) = Cardinality(S)
  BY DEF Routing!Cardinality, Cardinality

(* As many different members as there are are all of them.                 *)
LEMMA AllListed ==
  ASSUME NEW R, IsFiniteSet(R), NEW f \in [1 .. Cardinality(R) -> R],
         \A k, l \in 1 .. Cardinality(R) : k < l => f[k] # f[l]
  PROVE  Cardinality(R) \in Nat /\ \A r \in R : \E k \in 1 .. Cardinality(R) : f[k] = r
<1> PICK c : c = Cardinality(R)
  OBVIOUS
<1>1. c \in Nat
  BY FS_CardinalityType
<1>2. Cardinality(1 .. c) = c
  <2>1. 1 \in Int /\ c \in Int
    BY <1>1
  <2>2. Cardinality(1 .. c) = IF 1 > c THEN 0 ELSE c - 1 + 1
    BY <2>1, FS_Interval, Zenon
  <2> QED BY <1>1, <2>2
<1>3. \A k, l \in 1 .. c : f[k] = f[l] => k = l
  <2> SUFFICES ASSUME NEW k \in 1 .. c, NEW l \in 1 .. c, f[k] = f[l], k # l PROVE FALSE
    OBVIOUS
  <2>1. k < l \/ l < k
    BY <1>1
  <2> QED BY <2>1
<1>4. f \in Injection(1 .. c, R)
  BY <1>3 DEF Injection, IsInjective
<1>5. f \in Surjection(1 .. c, R)
  BY <1>2, <1>4, FS_Injection, SMTT(20)
<1> QED BY <1>1, <1>5 DEF Surjection

(* The INT lines that links get from the order they were sorted into.      *)
LineOf(f) == [l \in 0 .. 255 |->
  IF \E k \in DOMAIN f : k <= 4 /\ f[k] = l THEN CHOOSE k \in DOMAIN f : f[k] = l ELSE 0]

LEMMA LineOfListed ==
  ASSUME NEW c \in Nat, NEW f \in [1 .. c -> 1 .. 255],
         \A k, l \in 1 .. c : k < l => f[k] # f[l]
  PROVE  /\ LineOf(f) \in [0 .. 255 -> 0 .. 4] /\ LineOf(f)[0] = 0
         /\ \A k \in 1 .. c : LineOf(f)[f[k]] = IF k <= 4 THEN k ELSE 0
<1>1. \A k, l \in 1 .. c : f[k] = f[l] => k = l
  <2> SUFFICES ASSUME NEW k \in 1 .. c, NEW l \in 1 .. c, f[k] = f[l], k # l PROVE FALSE
    OBVIOUS
  <2>1. k < l \/ l < k
    OBVIOUS
  <2> QED BY <2>1
<1>2. ASSUME NEW k \in 1 .. c PROVE LineOf(f)[f[k]] = IF k <= 4 THEN k ELSE 0
  <2>1. f[k] \in 0 .. 255 /\ DOMAIN f = 1 .. c
    OBVIOUS
  <2>2. LineOf(f)[f[k]] =
          IF \E j \in 1 .. c : j <= 4 /\ f[j] = f[k] THEN CHOOSE j \in 1 .. c : f[j] = f[k] ELSE 0
    <3> PICK l \in 0 .. 255 : l = f[k]
      BY <2>1
    <3>1. LineOf(f)[l] =
            IF \E j \in DOMAIN f : j <= 4 /\ f[j] = l THEN CHOOSE j \in DOMAIN f : f[j] = l ELSE 0
      BY DEF LineOf
    <3>2. DOMAIN f = 1 .. c
      BY <2>1
    <3> QED BY <3>1, <3>2
  <2>3. (CHOOSE j \in 1 .. c : f[j] = f[k]) = k
    BY <1>1
  <2>4. (\E j \in 1 .. c : j <= 4 /\ f[j] = f[k]) <=> k <= 4
    BY <1>1
  <2> QED BY <2>2, <2>3, <2>4
<1>3. ASSUME NEW l \in 0 .. 255, ~ \E k \in 1 .. c : f[k] = l PROVE LineOf(f)[l] = 0
  BY <1>3 DEF LineOf
<1> HIDE DEF LineOf
<1>4. ASSUME NEW l \in 0 .. 255 PROVE LineOf(f)[l] \in 0 .. 4
  <2>1. CASE \E k \in 1 .. c : f[k] = l
    BY <1>2, <2>1
  <2>2. CASE ~ \E k \in 1 .. c : f[k] = l
    <3>1. LineOf(f)[l] = 0
      BY <1>3, <2>2, Zenon
    <3> QED BY <3>1
  <2> QED BY <2>1, <2>2
<1>5. LineOf(f) \in [0 .. 255 -> 0 .. 4]
  <2>1. LineOf(f) = [l \in 0 .. 255 |-> LineOf(f)[l]]
    BY DEF LineOf
  <2> QED BY <1>4, <2>1
<1>6. LineOf(f)[0] = 0
  <2>1. ASSUME NEW k \in 1 .. c PROVE f[k] # 0
    <3>1. PICK v \in 1 .. 255 : v = f[k]
      OBVIOUS
    <3>2. v # 0
      OBVIOUS
    <3> QED BY <3>1, <3>2, Zenon
  <2>2. 0 \in 0 .. 255
    OBVIOUS
  <2> QED BY <1>3, <2>1, <2>2
<1> QED BY <1>2, <1>5, <1>6

(* So the numbers are the places in the order, of the first four links.    *)
LEMMA LinesOrdered ==
  ASSUME NEW R \in SUBSET (1 .. 255), NEW f \in [1 .. Cardinality(R) -> R],
         \A k, l \in 1 .. Cardinality(R) :
           k < l => f[k] # f[l] /\ Routing!Rotated(f[k]) <= Routing!Rotated(f[l])
  PROVE  /\ Cardinality(R) \in Nat
         /\ \A k, l \in R : LineOf(f)[k] = LineOf(f)[l] => k = l \/ LineOf(f)[k] = 0
         /\ Cardinality(R) <= 4 => {LineOf(f)[l] : l \in R} = 1 .. Cardinality(R)
         /\ Cardinality(R) <= 4 => \A k, l \in R :
              Routing!Rotated(k) < Routing!Rotated(l) => LineOf(f)[k] < LineOf(f)[l]
<1> PICK c : c = Cardinality(R)
  OBVIOUS
<1>1. IsFiniteSet(R)
  <2>1. 1 \in Int /\ 255 \in Int
    OBVIOUS
  <2>2. IsFiniteSet(1 .. 255)
    BY <2>1, FS_Interval, ZenonT(40)
  <2> QED BY <2>2, FS_Subset
<1>2. \A k, l \in 1 .. c : k < l => f[k] # f[l]
  OBVIOUS
<1>3. c \in Nat /\ \A r \in R : \E k \in 1 .. c : f[k] = r
  <2>1. f \in [1 .. Cardinality(R) -> R] /\ \A k, l \in 1 .. Cardinality(R) : k < l => f[k] # f[l]
    BY <1>2
  <2>2. Cardinality(R) \in Nat /\ \A r \in R : \E k \in 1 .. Cardinality(R) : f[k] = r
    BY <1>1, <2>1, AllListed, ZenonT(40)
  <2> QED BY <2>2
<1>4. \A k \in 1 .. c : LineOf(f)[f[k]] = IF k <= 4 THEN k ELSE 0
  <2>1. c \in Nat /\ f \in [1 .. c -> 1 .. 255]
    BY <1>3
  <2> HIDE DEF LineOf
  <2> QED BY <1>2, <2>1, LineOfListed, ZenonT(40)
<1>5. ASSUME NEW k \in R, NEW l \in R, LineOf(f)[k] = LineOf(f)[l] PROVE k = l \/ LineOf(f)[k] = 0
  <2>1. PICK a \in 1 .. c, b \in 1 .. c : f[a] = k /\ f[b] = l
    BY <1>3
  <2>2. /\ LineOf(f)[k] = (IF a <= 4 THEN a ELSE 0)
        /\ LineOf(f)[l] = (IF b <= 4 THEN b ELSE 0)
    BY <1>4, <2>1
  <2>3. CASE a <= 4 /\ b <= 4
    BY <1>5, <2>1, <2>2, <2>3
  <2>4. CASE ~ (a <= 4 /\ b <= 4)
    BY <1>5, <2>2, <2>4
  <2> QED BY <2>3, <2>4
<1>6. ASSUME c <= 4 PROVE \A k \in 1 .. c : LineOf(f)[f[k]] = k
  BY <1>3, <1>4, <1>6
<1>7. ASSUME c <= 4 PROVE {LineOf(f)[l] : l \in R} = 1 .. c
  <2>1. ASSUME NEW l \in R PROVE LineOf(f)[l] \in 1 .. c
    BY <1>3, <1>6, <1>7
  <2>2. ASSUME NEW k \in 1 .. c PROVE \E l \in R : LineOf(f)[l] = k
    <3>1. f[k] \in R /\ LineOf(f)[f[k]] = k
      BY <1>6, <1>7
    <3> QED BY <3>1, Zenon
  <2>3. {LineOf(f)[l] : l \in R} \subseteq 1 .. c
    <3> SUFFICES ASSUME NEW l \in R PROVE LineOf(f)[l] \in 1 .. c
      OBVIOUS
    <3> QED BY <2>1
  <2>4. 1 .. c \subseteq {LineOf(f)[l] : l \in R}
    BY <2>2, Zenon
  <2> QED BY <2>3, <2>4, Zenon
<1>8. ASSUME c <= 4, NEW k \in R, NEW l \in R, Routing!Rotated(k) < Routing!Rotated(l)
      PROVE  LineOf(f)[k] < LineOf(f)[l]
  <2>1. PICK a \in 1 .. c, b \in 1 .. c : f[a] = k /\ f[b] = l
    BY <1>3
  <2>2. LineOf(f)[k] = a /\ LineOf(f)[l] = b
    BY <1>6, <1>8, <2>1
  <2>3. Routing!Rotated(k) \in Int /\ Routing!Rotated(l) \in Int
    BY DEF Routing!Rotated
  <2>4. a # b
    BY <1>8, <2>1, <2>3
  <2>5. ~ (b < a)
    BY <1>8, <2>1, <2>3
  <2> QED BY <1>3, <2>2, <2>4, <2>5
<1> QED BY <1>3, <1>5, <1>7, <1>8

-----------------------------------------------------------------------------
(* Lines and entries of a device.                                          *)

Lines(s, dev) == {k \in DOMAIN s : s[k].dev = dev}

LEMMA LinesAppended ==
  ASSUME NEW S, NEW s \in Seq(S), NEW e \in S, NEW dev
  PROVE  /\ Cardinality(Lines(s, dev)) \in Nat
         /\ Cardinality(Lines(Append(s, e), dev)) =
              Cardinality(Lines(s, dev)) + IF e.dev = dev THEN 1 ELSE 0
<1> PICK m \in Nat : m = Len(s)
  OBVIOUS
<1>1. /\ DOMAIN s = 1 .. m /\ DOMAIN Append(s, e) = 1 .. m + 1
      /\ \A k \in 1 .. m : Append(s, e)[k] = s[k]
      /\ Append(s, e)[m + 1] = e
  OBVIOUS
<1>2. IsFiniteSet(Lines(s, dev))
  <2>1. 1 \in Int /\ m \in Int
    OBVIOUS
  <2>2. IsFiniteSet(1 .. m)
    BY <2>1, FS_Interval, Zenon
  <2>3. Lines(s, dev) \in SUBSET (1 .. m)
    BY <1>1 DEF Lines
  <2> QED BY <2>2, <2>3, FS_Subset
<1>3. m + 1 \notin Lines(s, dev)
  BY <1>1 DEF Lines
<1>4. CASE e.dev = dev
  <2>1. Lines(Append(s, e), dev) = Lines(s, dev) \cup {m + 1}
    BY <1>1, <1>4 DEF Lines
  <2> QED BY <1>2, <1>3, <1>4, <2>1, FS_AddElement, FS_CardinalityType
<1>5. CASE e.dev # dev
  <2>1. Lines(Append(s, e), dev) = Lines(s, dev)
    BY <1>1, <1>5 DEF Lines
  <2> QED BY <1>2, <1>5, <2>1, FS_CardinalityType
<1> QED BY <1>4, <1>5

(* The root bus's entries of a device among the first ones.                *)
OfDevice(t, m, dev) == {k \in 1 .. m : t[k].bus = 0 /\ t[k].dev \div 8 = dev}

LEMMA OfDeviceFinite ==
  ASSUME NEW t, NEW m \in Nat, NEW dev
  PROVE  IsFiniteSet(OfDevice(t, m, dev)) /\ Cardinality(OfDevice(t, m, dev)) \in Nat
<1>1. 1 \in Int /\ m \in Int
  OBVIOUS
<1>2. IsFiniteSet(1 .. m)
  BY <1>1, FS_Interval, Zenon
<1>3. OfDevice(t, m, dev) \in SUBSET (1 .. m)
  BY DEF OfDevice
<1> QED BY <1>2, <1>3, FS_Subset, FS_CardinalityType

LEMMA OneMore ==
  ASSUME NEW t, NEW m \in Nat, NEW dev
  PROVE  Cardinality(OfDevice(t, m + 1, dev)) =
           Cardinality(OfDevice(t, m, dev))
             + IF t[m + 1].bus = 0 /\ t[m + 1].dev \div 8 = dev THEN 1 ELSE 0
<1>1. IsFiniteSet(OfDevice(t, m, dev)) /\ Cardinality(OfDevice(t, m, dev)) \in Nat
  BY OfDeviceFinite
<1>2. m + 1 \notin OfDevice(t, m, dev)
  BY DEF OfDevice
<1>3. \A k : k \in 1 .. m + 1 <=> k \in 1 .. m \/ k = m + 1
  OBVIOUS
<1>4. CASE t[m + 1].bus = 0 /\ t[m + 1].dev \div 8 = dev
  <2>1. OfDevice(t, m + 1, dev) = OfDevice(t, m, dev) \cup {m + 1}
    BY <1>3, <1>4, Zenon DEF OfDevice
  <2> QED BY <1>1, <1>2, <1>4, <2>1, FS_AddElement
<1>5. CASE ~ (t[m + 1].bus = 0 /\ t[m + 1].dev \div 8 = dev)
  <2>1. OfDevice(t, m + 1, dev) = OfDevice(t, m, dev)
    BY <1>3, <1>5, Zenon DEF OfDevice
  <2> QED BY <1>1, <1>5, <2>1
<1> QED BY <1>4, <1>5

(* Sorting changes neither which entries there are nor how many.           *)
Sorted(f, m, t, given) ==
  /\ f \in [1 .. m -> 1 .. m] /\ \A k, l \in 1 .. m : k < l => f[k] # f[l]
  /\ \A k \in 1 .. m : /\ t[k].bus = given[f[k]].bus /\ t[k].dev = given[f[k]].dev
                       /\ t[k].ints = given[f[k]].ints

LEMMA SortedAll ==
  ASSUME NEW m \in Nat, NEW t, NEW given, NEW f, Sorted(f, m, t, given)
  PROVE  \A k \in 1 .. m : \E l \in 1 .. m : f[l] = k
<1>1. 1 \in Int /\ m \in Int
  OBVIOUS
<1>2. IsFiniteSet(1 .. m) /\ Cardinality(1 .. m) = IF 1 > m THEN 0 ELSE m - 1 + 1
  BY <1>1, FS_Interval, Zenon
<1> PICK c : c = Cardinality(1 .. m)
  OBVIOUS
<1>3. c = m
  BY <1>2
<1>4. /\ f \in [1 .. Cardinality(1 .. m) -> 1 .. m]
      /\ \A k, l \in 1 .. Cardinality(1 .. m) : k < l => f[k] # f[l]
  BY <1>3 DEF Sorted
<1>5. \A k \in 1 .. m : \E l \in 1 .. Cardinality(1 .. m) : f[l] = k
  BY <1>2, <1>4, AllListed
<1> QED BY <1>3, <1>5

LEMMA SortedCounts ==
  ASSUME NEW m \in Nat, NEW t, NEW given, NEW f, Sorted(f, m, t, given), NEW dev
  PROVE  Cardinality(OfDevice(t, m, dev)) = Cardinality(OfDevice(given, m, dev))
<1> DEFINE A == OfDevice(t, m, dev)
           B == OfDevice(given, m, dev)
           g == [k \in A |-> f[k]]
<1>1. A \subseteq 1 .. m /\ B \subseteq 1 .. m
  BY DEF OfDevice
<1>2. \A k \in 1 .. m : f[k] \in 1 .. m /\ (k \in A <=> f[k] \in B)
  BY DEF OfDevice, Sorted
<1>3. \A k, l \in 1 .. m : f[k] = f[l] => k = l
  <2> SUFFICES ASSUME NEW k \in 1 .. m, NEW l \in 1 .. m, f[k] = f[l], k # l PROVE FALSE
    OBVIOUS
  <2>1. k < l \/ l < k
    OBVIOUS
  <2> QED BY <2>1 DEF Sorted
<1>4. IsFiniteSet(A)
  BY OfDeviceFinite
<1> HIDE DEF A, B
<1>5. g \in [A -> B]
  BY <1>1, <1>2
<1>6. \A k \in A : g[k] = f[k]
  OBVIOUS
<1> HIDE DEF g
<1>7. g \in Injection(A, B)
  BY <1>1, <1>3, <1>5, <1>6 DEF Injection, IsInjective
<1>8. ASSUME NEW b \in B PROVE \E a \in A : g[a] = b
  <2>1. PICK a \in 1 .. m : f[a] = b
    BY <1>1, SortedAll
  <2> QED BY <1>2, <1>6, <2>1
<1>9. g \in Surjection(A, B)
  BY <1>5, <1>8 DEF Surjection
<1>10. ExistsBijection(A, B)
  BY <1>7, <1>9 DEF ExistsBijection, Bijection
<1>11. Cardinality(B) = Cardinality(A)
  BY <1>4, <1>10, FS_Bijection
<1> QED BY <1>11 DEF A, B

-----------------------------------------------------------------------------
(* The table that is displayed.                                            *)

Given == Routing!Given
Size == Len(Given)
RoutingEntries == Routing!irq_routing_entry_t

LEMMA GivenEntries ==
  ASSUME firmware \in Firmwares
  PROVE  Given \in Seq(RoutingEntries) /\ Size \in Nat /\ Given \in [1 .. Size -> RoutingEntries]
<1>1. firmware.entries \in Seq(RoutingEntries) /\ firmware.pir.entries \in Seq(RoutingEntries)
  BY FirmwareAssumption DEF RoutingEntries
<1>2. Given \in Seq(RoutingEntries)
  BY <1>1 DEF Given, Routing!Given
<1> QED BY <1>2 DEF Size

(* What is fetched is what was given, but for the slot of a last entry     *)
(* that the first buffer has no room for.                                  *)
Fetched ==
  /\ table \in [1 .. Size -> RoutingEntries]
  /\ \A k \in 1 .. Size :
       /\ table[k].bus = Given[k].bus /\ table[k].dev = Given[k].dev
       /\ table[k].ints = Given[k].ints
       /\ table[k].bitmaps = Given[k].bitmaps
       /\ table[k].slot = Given[k].slot \/ Routing!CutShort(k)

LEMMA FetchedStays ==
  ASSUME Fetched, UNCHANGED <<mode, len, table>>,
         Given' = Given, Size' = Size, RoutingEntries' = RoutingEntries
  PROVE  Fetched'
<1>1. ASSUME NEW k PROVE Routing!CutShort(k)' <=> Routing!CutShort(k)
  BY DEF Routing!CutShort, Routing!FirstSize, Given
<1>2. table' = table
  OBVIOUS
<1> HIDE DEF Given, Size, RoutingEntries
<1> QED BY <1>1, <1>2 DEF Fetched

IsList(s) == \E S : s \in Seq(S)

LEMMA ListGrows ==
  ASSUME NEW s, IsList(s), NEW e
  PROVE  \E S : s \in Seq(S) /\ e \in S /\ Append(s, e) \in Seq(S)
<1> PICK S : s \in Seq(S)
  BY DEF IsList
<1> DEFINE T == S \cup {e}
<1>1. s \in Seq(T)
  <2>1. Len(s) \in Nat /\ s \in [1 .. Len(s) -> S]
    OBVIOUS
  <2>2. s \in [1 .. Len(s) -> T]
    BY <2>1
  <2> QED BY <2>1, <2>2
<1>2. e \in T
  OBVIOUS
<1> HIDE DEF T
<1>3. Append(s, e) \in Seq(T)
  BY <1>1, <1>2
<1> QED BY <1>1, <1>2, <1>3

(* As it is: a line for each entry so far.                                 *)
ShowsEntry(l, e) ==
  /\ l.bus = e.bus /\ l.dev = e.dev \div 8
  /\ l.ints = e.ints /\ l.irqs = Routing!Steerable(e) /\ l.slot = e.slot
Listed ==
  /\ IsList(lines) /\ DOMAIN lines = 1 .. next - 1
  /\ \A k \in 1 .. next - 1 : ShowsEntry(lines[k], table[k])

(* As 86Box code: a line for each of the root bus's entries so far, and    *)
(* one for a bridge that the table lacks.                                  *)
Added(dev) ==
  IF /\ ~ Routing!Has(dev)
     /\ \/ dev = 0 /\ firmware.class[0] = "host"
        \/ dev = 1 /\ firmware.class[1] = "bridge"
  THEN 1 ELSE 0

EachShown ==
  \A k \in 1 .. next - 1 : table[k].bus = 0 =>
    \E l \in DOMAIN lines : /\ lines[l].dev = table[k].dev \div 8
                            /\ lines[l].ints = [p \in 1 .. 4 |-> irq_bitmap[table[k].ints[p]]]

Tally ==
  \A dev \in 0 .. 31 :
    Cardinality(Lines(lines, dev)) = Cardinality(OfDevice(table, next - 1, dev)) + Added(dev)

Generated ==
  /\ table \in [1 .. Size -> RoutingEntries] /\ \E f : Sorted(f, Size, table, Given)
  /\ Routing!NumbersFollowLinks
  /\ IsList(lines) /\ EachShown /\ Tally

Fresh == at \in {"start", "call", "fetched", "have"} => lines = <<>> /\ next = 1
Room ==
  /\ at = "call" => "m" \notin mode
  /\ at = "fetched" => "m" \notin mode /\ Agreeing /\ len = firmware.len /\ len <= buf_size
Shown == at \in {"display", "done"}

SInv ==
  /\ Fresh /\ Room
  /\ at = "have" => Fetched
  /\ Shown => next \in 1 .. Size + 1
  /\ Shown /\ "8" \notin mode => Fetched /\ Listed
  /\ Shown /\ "8" \in mode => Generated
  /\ at = "done" => next = Size + 1

LEMMA InitSInv == Init => SInv
  BY DEF Init, Routing!Init, SInv, Fresh, Room, Shown

(* The whole table is fetched, or all but the slot at its end.             *)
LEMMA FindPirSInv == RInv /\ SInv /\ Routing!FindPir => SInv'
<1> SUFFICES ASSUME RInv, SInv, Routing!FindPir PROVE SInv'
  OBVIOUS
<1>1. /\ at = "start" /\ "m" \in mode /\ UNCHANGED <<mode, firmware, lines, next>>
      /\ firmware \in Firmwares
  BY DEF Routing!FindPir, Routing!tool, Routing!display, RInv
<1>2. lines' = <<>> /\ next' = 1
  BY <1>1 DEF SInv, Fresh
<1>3. CASE at' = "failed"
  BY <1>3 DEF SInv, Fresh, Room, Shown
<1>4. CASE at' # "failed"
  <2> DEFINE m == (firmware.pir.size - 32) \div Routing!EntrySize
  <2>1. at' = "have" /\ table' = SubSeq(firmware.pir.entries, 1, m) /\ firmware.pir.size # 0
    BY <1>4 DEF Routing!FindPir
  <2>2. Given = firmware.pir.entries /\ Given' = Given /\ Size' = Size
    BY <1>1 DEF Given, Routing!Given, Size
  <2>3. Size \in Nat /\ Given \in Seq(RoutingEntries) /\ Given \in [1 .. Size -> RoutingEntries]
    BY <1>1, GivenEntries
  <2>4. m = Size
    <3>1. firmware.pir.size = 32 + 16 * Size
      BY <1>1, <2>1, <2>2, FirmwareAssumption DEF Size
    <3> QED BY <2>3, <3>1 DEF Routing!EntrySize
  <2>5. table' = Given
    <3>1. SubSeq(Given, 1, Size) = Given
      BY <2>3 DEF Size
    <3> QED BY <2>1, <2>2, <2>4, <3>1
  <2>6. Fetched'
    <3>1. RoutingEntries' = RoutingEntries
      BY DEF RoutingEntries, Routing!irq_routing_entry_t
    <3> QED BY <2>2, <2>3, <2>5, <3>1 DEF Fetched
  <2> QED BY <1>2, <2>1, <2>6 DEF SInv, Fresh, Room, Shown
<1> QED BY <1>3, <1>4

LEMMA AllocateSInv == SInv /\ Routing!Allocate => SInv'
<1> SUFFICES ASSUME SInv, Routing!Allocate PROVE SInv'
  OBVIOUS
<1>1. /\ at = "start" /\ "m" \notin mode /\ UNCHANGED <<mode, firmware, lines, next>>
      /\ at' \in {"call", "failed"}
  BY DEF Routing!Allocate, Routing!tool, Routing!display
<1> QED BY <1>1 DEF SInv, Fresh, Room, Shown

LEMMA CallBiosSInv == RInv /\ SInv /\ Routing!CallBios => SInv'
<1> SUFFICES ASSUME RInv, SInv, Routing!CallBios PROVE SInv'
  OBVIOUS
<1>1. /\ at = "call" /\ UNCHANGED <<mode, firmware, lines, next>>
      /\ "m" \notin mode /\ lines = <<>> /\ next = 1
  BY DEF Routing!CallBios, Routing!tool, Routing!display, SInv, Fresh, Room
<1>2. CASE at' = "lost"
  BY <1>2 DEF SInv, Fresh, Room, Shown
<1>3. CASE at' # "lost"
  <2>1. PICK answer \in Routing!Answers :
          /\ len' = answer.len
          /\ IF answer.ah = 89 /\ answer.len > buf_size THEN Routing!Retry(answer)
             ELSE /\ at' = (IF answer.ah = 0 THEN "fetched" ELSE "failed")
                  /\ held' = (IF answer.ah = 0 THEN held ELSE 0)
                  /\ UNCHANGED buf_size
    BY <1>3 DEF Routing!CallBios
  <2>2. CASE at' = "fetched"
    <3>1. answer.ah = 0 /\ UNCHANGED buf_size
      BY <2>1, <2>2 DEF Routing!Retry
    <3>2. Agreeing /\ answer.len = firmware.len /\ ~ (firmware.len > buf_size)
      BY <3>1 DEF Routing!Answers, Agreeing
    <3>3. firmware.len \in Int /\ buf_size \in Int
      BY <3>2, FirmwareAssumption DEF RInv, Agreeing
    <3>4. len' <= buf_size'
      BY <2>1, <3>1, <3>2, <3>3
    <3> QED BY <1>1, <2>1, <2>2, <3>2, <3>4 DEF SInv, Fresh, Room, Shown, Agreeing
  <2>3. CASE at' # "fetched"
    <3>1. at' \in {"start", "failed"}
      BY <2>1, <2>3 DEF Routing!Retry
    <3> QED BY <1>1, <3>1 DEF SInv, Fresh, Room, Shown
  <2> QED BY <2>2, <2>3
<1> QED BY <1>2, <1>3

LEMMA CopyTableSInv == RInv /\ SInv /\ Routing!CopyTable => SInv'
<1> SUFFICES ASSUME RInv, SInv, Routing!CopyTable PROVE SInv'
  OBVIOUS
<1>1. /\ at = "fetched" /\ UNCHANGED <<mode, firmware, len, lines, next>>
      /\ "m" \notin mode /\ lines = <<>> /\ next = 1 /\ firmware \in Firmwares
      /\ firmware.odd = {} /\ len = firmware.len /\ len <= buf_size
      /\ buf_size = 1024 \/ buf_size = len + 2
  BY DEF Routing!CopyTable, Routing!tool, Routing!display, SInv, Fresh, Room, RInv, Agreeing
<1>2. CASE at' = "failed"
  BY <1>2 DEF SInv, Fresh, Room, Shown
<1>3. CASE at' # "failed"
  <2>1. at' = "have" /\ table' \in Routing!Copied
    BY <1>3 DEF Routing!CopyTable
  <2>2. Given = firmware.entries /\ Given' = Given /\ Size' = Size
    BY <1>1 DEF Given, Routing!Given, Size
  <2>3. Size \in Nat /\ Given \in Seq(RoutingEntries) /\ Given \in [1 .. Size -> RoutingEntries]
    BY <1>1, GivenEntries
  <2>4. len = 16 * Size /\ len \div Routing!EntrySize = Size
    <3>1. len = 16 * Size
      BY <1>1, <2>2, FirmwareAssumption DEF Size
    <3> QED BY <2>3, <3>1 DEF Routing!EntrySize
  <2>5. SubSeq(firmware.entries, 1, Size) = Given
    BY <2>2, <2>3 DEF Size
  <2>6. RoutingEntries' = RoutingEntries
    BY DEF RoutingEntries, Routing!irq_routing_entry_t
  <2>7. CASE 2 + len <= buf_size
    <3>1. table' = Given
      BY <2>1, <2>4, <2>5, <2>7 DEF Routing!Copied
    <3>2. Fetched'
      BY <2>2, <2>3, <2>6, <3>1 DEF Fetched
    <3> QED BY <1>1, <2>1, <3>2 DEF SInv, Fresh, Room, Shown
  <2>8. CASE ~ (2 + len <= buf_size)
    <3>1. len = 1024
      BY <1>1, <2>3, <2>4, <2>8
    <3>2. PICK s \in {0, 255} : table' = [Given EXCEPT ![Size].slot = s]
      BY <2>1, <2>4, <2>5, <2>8 DEF Routing!Copied
    <3>3. table' \in [1 .. Size -> RoutingEntries]
      <4>1. ASSUME NEW k \in 1 .. Size PROVE [Given[k] EXCEPT !.slot = s] \in RoutingEntries
        <5>1. Given[k] \in RoutingEntries
          BY <2>3
        <5> QED BY <5>1 DEF RoutingEntries, Routing!irq_routing_entry_t
      <4>2. table' = [k \in 1 .. Size |-> IF k = Size THEN [Given[k] EXCEPT !.slot = s] ELSE Given[k]]
        BY <2>3, <3>2
      <4>3. \A k \in 1 .. Size : Given[k] \in RoutingEntries
        BY <2>3
      <4> QED BY <4>1, <4>2, <4>3
    <3>4. ASSUME NEW k \in 1 .. Size
          PROVE  /\ table'[k].bus = Given[k].bus /\ table'[k].dev = Given[k].dev
                 /\ table'[k].ints = Given[k].ints /\ table'[k].bitmaps = Given[k].bitmaps
                 /\ table'[k].slot = Given[k].slot \/ k = Size
      <4>1. Given[k] \in RoutingEntries
        BY <2>3
      <4>2. table'[k] = IF k = Size THEN [Given[k] EXCEPT !.slot = s] ELSE Given[k]
        BY <2>3, <3>2
      <4> QED BY <4>1, <4>2 DEF RoutingEntries, Routing!irq_routing_entry_t
    <3>5. Fetched'
      BY <1>1, <2>2, <2>6, <3>1, <3>3, <3>4 DEF Fetched, Routing!CutShort, Routing!FirstSize, Size, Given
    <3> QED BY <1>1, <2>1, <3>5 DEF SInv, Fresh, Room, Shown
  <2> QED BY <2>7, <2>8
<1> QED BY <1>2, <1>3

(* A device is on the root bus, and a link used there, whatever the order. *)
HasDevice(t, m, dev) == \E k \in 1 .. m : t[k].bus = 0 /\ t[k].dev \div 8 = dev
HasLink(t, m, link) == \E k \in 1 .. m : t[k].bus = 0 /\ \E p \in 1 .. 4 : t[k].ints[p] = link

LEMMA SortedHas ==
  ASSUME NEW m \in Nat, NEW t, NEW given, NEW f, Sorted(f, m, t, given)
  PROVE  /\ \A dev : HasDevice(t, m, dev) <=> HasDevice(given, m, dev)
         /\ \A link : HasLink(t, m, link) <=> HasLink(given, m, link)
<1>1. \A k \in 1 .. m : /\ f[k] \in 1 .. m
                        /\ t[k].bus = given[f[k]].bus /\ t[k].dev = given[f[k]].dev
                        /\ t[k].ints = given[f[k]].ints
  BY DEF Sorted
<1>2. \A k \in 1 .. m : \E l \in 1 .. m : f[l] = k
  BY SortedAll
<1>3. ASSUME NEW dev PROVE HasDevice(t, m, dev) <=> HasDevice(given, m, dev)
  <2>1. ASSUME NEW k \in 1 .. m, t[k].bus = 0, t[k].dev \div 8 = dev
        PROVE  \E l \in 1 .. m : given[l].bus = 0 /\ given[l].dev \div 8 = dev
    BY <1>1, <2>1
  <2>2. ASSUME NEW k \in 1 .. m, given[k].bus = 0, given[k].dev \div 8 = dev
        PROVE  \E l \in 1 .. m : t[l].bus = 0 /\ t[l].dev \div 8 = dev
    BY <1>1, <1>2, <2>2
  <2> QED BY <2>1, <2>2 DEF HasDevice
<1>4. ASSUME NEW link PROVE HasLink(t, m, link) <=> HasLink(given, m, link)
  <2>1. ASSUME NEW k \in 1 .. m, t[k].bus = 0, NEW p \in 1 .. 4, t[k].ints[p] = link
        PROVE  \E j \in 1 .. m : given[j].bus = 0 /\ \E q \in 1 .. 4 : given[j].ints[q] = link
    BY <1>1, <2>1
  <2>2. ASSUME NEW k \in 1 .. m, given[k].bus = 0, NEW p \in 1 .. 4, given[k].ints[p] = link
        PROVE  \E j \in 1 .. m : t[j].bus = 0 /\ \E q \in 1 .. 4 : t[j].ints[q] = link
    BY <1>1, <1>2, <2>2
  <2> QED BY <2>1, <2>2 DEF HasLink
<1> QED BY <1>3, <1>4

(* As it was fetched, it is in the order it was given.                     *)
LEMMA FetchedSorted ==
  ASSUME Size \in Nat, Fetched
  PROVE  Sorted([k \in 1 .. Size |-> k], Size, table, Given)
<1> DEFINE f == [k \in 1 .. Size |-> k]
<1>1. f \in [1 .. Size -> 1 .. Size] /\ \A k \in 1 .. Size : f[k] = k
  OBVIOUS
<1>2. \A k, l \in 1 .. Size : k < l => f[k] # f[l]
  BY <1>1
<1> HIDE DEF f
<1>3. \A k \in 1 .. Size : /\ table[k].bus = Given[f[k]].bus /\ table[k].dev = Given[f[k]].dev
                           /\ table[k].ints = Given[f[k]].ints
  BY <1>1 DEF Fetched
<1>4. Sorted(f, Size, table, Given)
  BY <1>1, <1>2, <1>3 DEF Sorted
<1> QED BY <1>4 DEF f

(* The slots added are of bridges that the table lacks.                    *)
LEMMA MissingAdded ==
  ASSUME NEW dev \in 0 .. 31
  PROVE  IsList(Routing!Missing) /\ Cardinality(Lines(Routing!Missing, dev)) = Added(dev)
<1> DEFINE a == Routing!Slot(0, "NORTHBRIDGE", <<1, 2, 3, 4>>)
           b == Routing!Slot(1, "AGPBRIDGE", <<1, 2, 3, 4>>)
           north == ~ Routing!Has(0) /\ firmware.class[0] = "host"
           agp == ~ Routing!Has(1) /\ firmware.class[1] = "bridge"
           S == {a, b}
<1>1. a.dev = 0 /\ b.dev = 1
  BY DEF Routing!Slot
<1>2. Routing!Missing = (IF north THEN <<a>> ELSE <<>>) \o (IF agp THEN <<b>> ELSE <<>>)
  BY DEF Routing!Missing
<1>3. Added(dev) = IF (dev = 0 /\ north) \/ (dev = 1 /\ agp) THEN 1 ELSE 0
  <2>1. CASE dev = 0
    BY <2>1 DEF Added
  <2>2. CASE dev = 1
    BY <2>2 DEF Added
  <2>3. CASE dev # 0 /\ dev # 1
    BY <2>3 DEF Added
  <2> QED BY <2>1, <2>2, <2>3
<1>4. a \in S /\ b \in S
  OBVIOUS
<1> HIDE DEF a, b, north, agp, S
<1>5. <<>> \in Seq(S) /\ Append(<<>>, a) \in Seq(S) /\ Append(<<>>, b) \in Seq(S)
      /\ Append(Append(<<>>, a), b) \in Seq(S)
  BY <1>4
<1>6. Cardinality(Lines(<<>>, dev)) = 0
  <2>1. Lines(<<>>, dev) = {}
    BY DEF Lines
  <2> QED BY <2>1, FS_EmptySet
<1>7. /\ Cardinality(Lines(Append(<<>>, a), dev)) = IF dev = 0 THEN 1 ELSE 0
      /\ Cardinality(Lines(Append(<<>>, b), dev)) = IF dev = 1 THEN 1 ELSE 0
  <2>1. /\ Cardinality(Lines(Append(<<>>, a), dev)) =
             Cardinality(Lines(<<>>, dev)) + IF a.dev = dev THEN 1 ELSE 0
        /\ Cardinality(Lines(Append(<<>>, b), dev)) =
             Cardinality(Lines(<<>>, dev)) + IF b.dev = dev THEN 1 ELSE 0
    BY <1>4, <1>5, LinesAppended
  <2> QED BY <1>1, <1>6, <2>1
<1>8. Cardinality(Lines(Append(Append(<<>>, a), b), dev)) =
        (IF dev = 0 THEN 1 ELSE 0) + (IF dev = 1 THEN 1 ELSE 0)
  <2>1. Cardinality(Lines(Append(Append(<<>>, a), b), dev)) =
          Cardinality(Lines(Append(<<>>, a), dev)) + IF b.dev = dev THEN 1 ELSE 0
    BY <1>4, <1>5, LinesAppended
  <2> QED BY <1>1, <1>7, <2>1
<1>9. CASE north /\ agp
  <2>1. Routing!Missing = Append(Append(<<>>, a), b)
    BY <1>2, <1>9
  <2> QED BY <1>3, <1>5, <1>8, <1>9, <2>1 DEF IsList
<1>10. CASE north /\ ~ agp
  <2>1. Routing!Missing = Append(<<>>, a)
    BY <1>2, <1>10
  <2> QED BY <1>3, <1>5, <1>7, <1>10, <2>1 DEF IsList
<1>11. CASE ~ north /\ agp
  <2>1. Routing!Missing = Append(<<>>, b)
    BY <1>2, <1>11
  <2> QED BY <1>3, <1>5, <1>7, <1>11, <2>1 DEF IsList
<1>12. CASE ~ north /\ ~ agp
  <2>1. Routing!Missing = <<>>
    BY <1>2, <1>12
  <2> QED BY <1>3, <1>5, <1>6, <1>12, <2>1 DEF IsList
<1> QED BY <1>9, <1>10, <1>11, <1>12

(* Whatever the order of the links, numbers follow them.                   *)
LEMMA LinksNumbered ==
  ASSUME NEW f \in Routing!LinkOrders,
         irq_bitmap' = LineOf(f), Routing!RootLinks' = Routing!RootLinks,
         warned' = (Cardinality(Routing!RootLinks) % 4 # 0)
  PROVE  Routing!NumbersFollowLinks'
<1> PICK R, c : R = Routing!RootLinks /\ c = Cardinality(R)
  OBVIOUS
<1>1. R \in SUBSET (1 .. 255)
  BY DEF Routing!RootLinks
<1>2. /\ f \in [1 .. c -> R]
      /\ \A k, l \in 1 .. c :
           k < l => f[k] # f[l] /\ Routing!Rotated(f[k]) <= Routing!Rotated(f[l])
  <2>1. /\ f \in [1 .. Cardinality(Routing!RootLinks) -> Routing!RootLinks]
        /\ \A k, l \in DOMAIN f :
             k < l => f[k] # f[l] /\ Routing!Rotated(f[k]) <= Routing!Rotated(f[l])
    BY SameCardinality DEF Routing!LinkOrders
  <2>2. DOMAIN f = 1 .. c
    BY <2>1
  <2> QED BY <2>1, <2>2
<1>3. /\ c \in Nat
      /\ \A k, l \in R : LineOf(f)[k] = LineOf(f)[l] => k = l \/ LineOf(f)[k] = 0
      /\ c <= 4 => {LineOf(f)[l] : l \in R} = 1 .. c
      /\ c <= 4 => \A k, l \in R :
           Routing!Rotated(k) < Routing!Rotated(l) => LineOf(f)[k] < LineOf(f)[l]
  <2>1. /\ f \in [1 .. Cardinality(R) -> R]
        /\ \A k, l \in 1 .. Cardinality(R) :
             k < l => f[k] # f[l] /\ Routing!Rotated(f[k]) <= Routing!Rotated(f[l])
    BY <1>2
  <2> HIDE DEF LineOf
  <2> QED BY <1>1, <2>1, LinesOrdered, ZenonT(40)
<1>4. LineOf(f)[0] = 0
  <2>1. f \in [1 .. c -> 1 .. 255] /\ \A k, l \in 1 .. c : k < l => f[k] # f[l]
    BY <1>1, <1>2
  <2> QED BY <1>3, <2>1, LineOfListed
<1> HIDE DEF LineOf
<1> PICK b : b = LineOf(f)
  OBVIOUS
<1> DEFINE nums == [l \in R |-> b[l]]
<1>5. \A l \in R : nums[l] = b[l]
  OBVIOUS
<1>6. {nums[l] : l \in R} = {b[l] : l \in R}
  BY <1>5
<1> HIDE DEF nums
<1>7. \A k, l \in R : nums[k] = nums[l] => k = l \/ nums[k] = 0
  BY <1>3, <1>5
<1>8. c <= 4 => {nums[l] : l \in R} = 1 .. c
  BY <1>3, <1>6
<1>9. c <= 4 => \A k, l \in R :
        Routing!Rotated(k) < Routing!Rotated(l) => nums[k] < nums[l]
  BY <1>3, <1>5
<1>10. (\E l \in R : nums[l] = 0) /\ c % 4 # 0 => warned'
  OBVIOUS
<1>11. nums = [l \in R |-> b[l]]
  BY DEF nums
<1>12. irq_bitmap' = b /\ Routing!RootLinks' = R
  OBVIOUS
<1>13. \A k : Routing!Rotated(k)' = Routing!Rotated(k)
  BY DEF Routing!Rotated
<1>14. nums = [l \in Routing!RootLinks' |-> irq_bitmap'[l]] /\ c = Cardinality(Routing!RootLinks')
       /\ irq_bitmap'[0] = 0
  BY <1>4, <1>11, <1>12
<1> QED BY <1>7, <1>8, <1>9, <1>10, <1>12, <1>13, <1>14, SameCardinality DEF Routing!NumbersFollowLinks

LEMMA PrepareSInv == RInv /\ SInv /\ Routing!Prepare => SInv'
<1> SUFFICES ASSUME RInv, SInv, Routing!Prepare PROVE SInv'
  OBVIOUS
<1>1. /\ at = "have" /\ UNCHANGED <<mode, firmware, len, next>>
      /\ lines = <<>> /\ next = 1 /\ firmware \in Firmwares /\ Fetched
  BY DEF Routing!Prepare, Routing!tool, SInv, Fresh, RInv
<1>2. Size \in Nat /\ Given' = Given /\ Size' = Size /\ RoutingEntries' = RoutingEntries
  BY <1>1, GivenEntries, Zenon DEF Given, Routing!Given, Size, RoutingEntries, Routing!irq_routing_entry_t
<1>3. next' \in 1 .. Size' + 1
  BY <1>1, <1>2
<1>4. CASE at' = "failed"
  BY <1>4 DEF SInv, Fresh, Room, Shown
<1>5. CASE at' # "failed" /\ "8" \notin mode
  <2>1. at' = "display" /\ UNCHANGED <<table, lines>>
    BY <1>5 DEF Routing!Prepare
  <2>2. Fetched'
    BY <1>1, <1>2, <2>1, FetchedStays, Zenon
  <2>3. Listed'
    <3>1. lines' = <<>> /\ next' = 1
      BY <1>1, <2>1
    <3>2. lines' \in Seq({}) /\ DOMAIN lines' = 1 .. 0 /\ next' - 1 = 0
      BY <3>1
    <3> QED BY <3>2 DEF Listed, IsList
  <2> QED BY <1>1, <1>3, <1>5, <2>1, <2>2, <2>3 DEF SInv, Fresh, Room, Shown
<1>6. CASE at' # "failed" /\ "8" \in mode
  <2> DEFINE given == [k \in 1 .. Size |-> k]
  <2>1. PICK f \in Routing!DeviceOrders, g \in Routing!LinkOrders :
          /\ at' = "display" /\ lines' = Routing!Missing
          /\ table' = [k \in Routing!Entries |-> table[f[k]]]
          /\ irq_bitmap' = [l \in 0 .. 255 |->
                IF \E k \in DOMAIN g : k <= 4 /\ g[k] = l THEN CHOOSE k \in DOMAIN g : g[k] = l ELSE 0]
          /\ warned' = (Cardinality(Routing!RootLinks) % 4 # 0)
    BY <1>6, SameCardinality DEF Routing!Prepare
  <2>2. Routing!Entries = 1 .. Size /\ table \in [1 .. Size -> RoutingEntries]
    BY <1>1 DEF Routing!Entries, Fetched
  <2>3. f \in [1 .. Size -> 1 .. Size] /\ \A k, l \in 1 .. Size : k < l => f[k] # f[l]
    BY <2>2 DEF Routing!DeviceOrders
  <2>4. table' \in [1 .. Size -> RoutingEntries] /\ \A k \in 1 .. Size : table'[k] = table[f[k]]
    BY <2>1, <2>2, <2>3
  <2>5. Sorted(f, Size, table', Given)
    BY <1>1, <2>3, <2>4 DEF Sorted, Fetched
  <2>6. Sorted(given, Size, table, Given)
    BY <1>1, <1>2, FetchedSorted
  <2>7. /\ \A dev : HasDevice(table', Size, dev) <=> HasDevice(table, Size, dev)
        /\ \A link : HasLink(table', Size, link) <=> HasLink(table, Size, link)
    <3> HIDE DEF given
    <3>1. /\ \A dev : HasDevice(table', Size, dev) <=> HasDevice(Given, Size, dev)
          /\ \A link : HasLink(table', Size, link) <=> HasLink(Given, Size, link)
      BY <1>2, <2>5, SortedHas
    <3>2. /\ \A dev : HasDevice(table, Size, dev) <=> HasDevice(Given, Size, dev)
          /\ \A link : HasLink(table, Size, link) <=> HasLink(Given, Size, link)
      BY <1>2, <2>6, SortedHas
    <3> QED BY <3>1, <3>2
  <2>8. Routing!Entries' = 1 .. Size
    BY <2>4 DEF Routing!Entries
  <2>9. \A dev : Routing!Has(dev)' <=> Routing!Has(dev)
    BY <2>2, <2>7, <2>8 DEF Routing!Has, HasDevice
  <2>10. Routing!RootLinks' = Routing!RootLinks
    BY <2>2, <2>7, <2>8 DEF Routing!RootLinks, HasLink
  <2>11. Routing!NumbersFollowLinks'
    BY <2>1, <2>10, LinksNumbered, Zenon DEF LineOf
  <2>12. \A dev : Added(dev)' = Added(dev)
    BY <1>1, <2>9 DEF Added
  <2>13. EachShown' /\ next' = 1
    <3>1. next' = 1 /\ next' - 1 = 0
      BY <1>1
    <3> QED BY <3>1 DEF EachShown
  <2>14. ASSUME NEW dev \in 0 .. 31
         PROVE  Cardinality(Lines(lines', dev)) =
                  Cardinality(OfDevice(table', next' - 1, dev)) + Added(dev)'
    <3>1. OfDevice(table', 0, dev) = {}
      BY DEF OfDevice
    <3>2. Cardinality(OfDevice(table', 0, dev)) = 0
      BY <3>1, FS_EmptySet
    <3>3. Cardinality(Lines(lines', dev)) = Added(dev)' /\ Added(dev)' \in Nat
      <4>1. Added(dev) \in Nat
        BY DEF Added
      <4> QED BY <2>1, <2>12, <4>1, MissingAdded
    <3>4. next' - 1 = 0
      BY <2>13
    <3> QED BY <3>2, <3>3, <3>4
  <2>15. Tally'
    BY <2>14 DEF Tally, Lines, OfDevice
  <2>16. IsList(lines')
    <3>1. 0 \in 0 .. 31
      OBVIOUS
    <3> QED BY <2>1, <3>1, MissingAdded
  <2>17. Generated'
    <3>1. (\E h : Sorted(h, Size, table, Given))'
      BY <1>2, <2>5 DEF Sorted
    <3>2. (table \in [1 .. Size -> RoutingEntries])'
      BY <1>2, <2>4
    <3>3. IsList(lines)'
      BY <2>16 DEF IsList
    <3> QED BY <2>11, <2>13, <2>15, <3>1, <3>2, <3>3 DEF Generated
  <2> QED BY <1>1, <1>3, <1>6, <2>1, <2>17 DEF SInv, Fresh, Room, Shown
<1> QED BY <1>4, <1>5, <1>6

(* A line more, or none for an entry of another bus.                       *)
LEMMA ListSInv ==
  ASSUME Fetched, Listed, Size \in Nat, next \in 1 .. Size, "8" \notin mode, Routing!Display,
         next \in Routing!Entries
  PROVE  Listed'
<1> PICK m \in Nat : next = m + 1
  OBVIOUS
<1> DEFINE e == table[next]
           new == [slot |-> e.slot, bus |-> e.bus, dev |-> e.dev \div 8,
                   ints |-> e.ints, irqs |-> Routing!Steerable(e)]
<1>1. lines' = Append(lines, new) /\ next' = m + 2 /\ table' = table
  BY DEF Routing!Display
<1>2. ShowsEntry(new, e)
  BY DEF ShowsEntry
<1> HIDE DEF new
<1>3. PICK S : lines \in Seq(S) /\ new \in S /\ lines' \in Seq(S)
  BY <1>1, ListGrows DEF Listed
<1>4. DOMAIN lines = 1 .. m /\ \A k \in 1 .. m : ShowsEntry(lines[k], table[k])
  BY DEF Listed
<1>5. Len(lines) = m
  BY <1>3, <1>4
<1>6. /\ DOMAIN lines' = 1 .. m + 1 /\ \A k \in 1 .. m : lines'[k] = lines[k]
      /\ lines'[m + 1] = new
  BY <1>1, <1>3, <1>5
<1>7. \A k \in 1 .. m + 1 : ShowsEntry(lines'[k], table[k])
  BY <1>2, <1>4, <1>6
<1>8. next' - 1 = m + 1
  BY <1>1
<1> QED BY <1>1, <1>3, <1>6, <1>7, <1>8 DEF Listed, IsList

LEMMA GenerateSInv ==
  ASSUME Generated, Size \in Nat, next \in 1 .. Size, "8" \in mode, Routing!Display,
         next \in Routing!Entries
  PROVE  EachShown' /\ Tally' /\ IsList(lines)'
<1> PICK m \in Nat : next = m + 1
  OBVIOUS
<1> DEFINE e == table[next]
           d == e.dev \div 8
           new == Routing!Slot(d, Routing!SlotType(d, e.slot), [p \in 1 .. 4 |-> irq_bitmap[e.ints[p]]])
<1>1. /\ next' = m + 2 /\ UNCHANGED <<table, irq_bitmap, firmware>>
      /\ lines' = IF e.bus # 0 THEN lines ELSE Append(lines, new)
  BY DEF Routing!Display, Routing!tool
<1>2. new.dev = d /\ new.ints = [p \in 1 .. 4 |-> irq_bitmap[e.ints[p]]]
  BY DEF Routing!Slot
<1>3. \A dev : Added(dev)' = Added(dev)
  BY <1>1 DEF Added, Routing!Has, Routing!Entries
<1> HIDE DEF new
<1>4. next' - 1 = m + 1 /\ next - 1 = m
  BY <1>1
<1>5. ASSUME NEW dev \in 0 .. 31
      PROVE  /\ Cardinality(Lines(lines, dev)) = Cardinality(OfDevice(table, m, dev)) + Added(dev)
             /\ Cardinality(OfDevice(table, m + 1, dev)) =
                  Cardinality(OfDevice(table, m, dev)) + IF e.bus = 0 /\ d = dev THEN 1 ELSE 0
             /\ Cardinality(OfDevice(table, m, dev)) \in Nat /\ Added(dev) \in Nat
  <2>1. Cardinality(Lines(lines, dev)) = Cardinality(OfDevice(table, m, dev)) + Added(dev)
    BY <1>4 DEF Generated, Tally
  <2>2. Cardinality(OfDevice(table, m + 1, dev)) =
          Cardinality(OfDevice(table, m, dev)) + IF e.bus = 0 /\ d = dev THEN 1 ELSE 0
    BY OneMore
  <2>3. Added(dev) \in Nat
    BY DEF Added
  <2> QED BY <2>1, <2>2, <2>3, OfDeviceFinite
<1>6. \A k \in 1 .. m : table[k].bus = 0 =>
        \E l \in DOMAIN lines : /\ lines[l].dev = table[k].dev \div 8
                                /\ lines[l].ints = [p \in 1 .. 4 |-> irq_bitmap[table[k].ints[p]]]
  BY <1>4 DEF Generated, EachShown
<1>7. CASE e.bus # 0
  <2>1. lines' = lines
    BY <1>1, <1>7
  <2>2. EachShown'
    <3>1. ASSUME NEW k \in 1 .. m + 1, table[k].bus = 0
          PROVE  \E l \in DOMAIN lines : /\ lines[l].dev = table[k].dev \div 8
                                         /\ lines[l].ints = [p \in 1 .. 4 |-> irq_bitmap[table[k].ints[p]]]
      <4>1. k \in 1 .. m
        BY <1>7, <3>1
      <4> QED BY <1>6, <3>1, <4>1
    <3> QED BY <1>1, <1>4, <2>1, <3>1 DEF EachShown
  <2>3. ASSUME NEW dev \in 0 .. 31
        PROVE  Cardinality(Lines(lines, dev)) = Cardinality(OfDevice(table, m + 1, dev)) + Added(dev)
    BY <1>5, <1>7
  <2>4. Tally'
    BY <1>1, <1>3, <1>4, <2>1, <2>3, Zenon DEF Tally, Lines, OfDevice
  <2> QED BY <2>1, <2>2, <2>4 DEF Generated, IsList
<1>8. CASE e.bus = 0
  <2>1. PICK S : lines \in Seq(S) /\ new \in S /\ Append(lines, new) \in Seq(S)
    BY ListGrows DEF Generated
  <2>2. lines' = Append(lines, new)
    BY <1>1, <1>8
  <2> PICK n1 \in Nat : n1 = Len(lines)
    BY <2>1
  <2>3. /\ DOMAIN lines = 1 .. n1 /\ DOMAIN lines' = 1 .. n1 + 1
        /\ \A k \in 1 .. n1 : lines'[k] = lines[k]
        /\ lines'[n1 + 1] = new
    BY <2>1, <2>2
  <2>4. EachShown'
    <3>1. ASSUME NEW k \in 1 .. m + 1, table[k].bus = 0
          PROVE  \E l \in DOMAIN lines' : /\ lines'[l].dev = table[k].dev \div 8
                                          /\ lines'[l].ints = [p \in 1 .. 4 |-> irq_bitmap[table[k].ints[p]]]
      <4>1. CASE k \in 1 .. m
        <5>1. PICK l \in DOMAIN lines : /\ lines[l].dev = table[k].dev \div 8
                                        /\ lines[l].ints = [p \in 1 .. 4 |-> irq_bitmap[table[k].ints[p]]]
          BY <1>6, <3>1, <4>1
        <5>2. l \in DOMAIN lines' /\ lines'[l] = lines[l]
          BY <2>3
        <5> QED BY <5>1, <5>2
      <4>2. CASE k = m + 1
        <5>1. n1 + 1 \in DOMAIN lines'
          BY <2>3
        <5> QED BY <1>2, <2>3, <4>2, <5>1
      <4> QED BY <4>1, <4>2
    <3>2. table' = table /\ irq_bitmap' = irq_bitmap /\ next' - 1 = m + 1
      BY <1>1, <1>4
    <3>3. ASSUME NEW k \in 1 .. next' - 1, table'[k].bus = 0
          PROVE  \E l \in DOMAIN lines' : /\ lines'[l].dev = table'[k].dev \div 8
                                          /\ lines'[l].ints = [p \in 1 .. 4 |-> irq_bitmap'[table'[k].ints[p]]]
      <4>1. k \in 1 .. m + 1 /\ table[k].bus = 0
        BY <3>2, <3>3
      <4>2. PICK l \in DOMAIN lines' : /\ lines'[l].dev = table[k].dev \div 8
                                      /\ lines'[l].ints = [p \in 1 .. 4 |-> irq_bitmap[table[k].ints[p]]]
        BY <3>1, <4>1
      <4>3. [p \in 1 .. 4 |-> irq_bitmap'[table'[k].ints[p]]] = [p \in 1 .. 4 |-> irq_bitmap[table[k].ints[p]]]
        BY <3>2
      <4>4. table'[k].dev = table[k].dev
        BY <3>2
      <4> QED BY <4>2, <4>3, <4>4
    <3> QED BY <3>3 DEF EachShown
  <2>5. ASSUME NEW dev \in 0 .. 31
        PROVE  Cardinality(Lines(lines', dev)) = Cardinality(OfDevice(table, m + 1, dev)) + Added(dev)
    <3>1. Cardinality(Lines(lines', dev)) =
            Cardinality(Lines(lines, dev)) + IF new.dev = dev THEN 1 ELSE 0
      BY <2>1, <2>2, LinesAppended
    <3> PICK y \in Nat, z \in Nat : y = Cardinality(OfDevice(table, m, dev)) /\ z = Added(dev)
      BY <1>5
    <3>4. Cardinality(Lines(lines, dev)) = y + z
      BY <1>5
    <3>2. CASE d = dev
      <4>1. Cardinality(Lines(lines', dev)) = y + z + 1
        BY <1>2, <3>1, <3>4, <3>2
      <4>2. Cardinality(OfDevice(table, m + 1, dev)) = y + 1
        BY <1>5, <1>8, <3>2
      <4> QED BY <4>1, <4>2
    <3>3. CASE d # dev
      <4>1. Cardinality(Lines(lines', dev)) = y + z + 0
        BY <1>2, <3>1, <3>4, <3>3
      <4>2. Cardinality(OfDevice(table, m + 1, dev)) = y + 0
        BY <1>5, <3>3, Zenon
      <4> QED BY <4>1, <4>2
    <3> QED BY <3>2, <3>3
  <2>6. Tally'
    BY <1>1, <1>3, <1>4, <2>5, Zenon DEF Tally, Lines, OfDevice
  <2>7. IsList(lines')
    BY <2>1, <2>2 DEF IsList
  <2> QED BY <2>4, <2>6, <2>7 DEF IsList
<1> QED BY <1>7, <1>8

LEMMA NumbersStay ==
  ASSUME UNCHANGED <<table, irq_bitmap, warned>>, Routing!NumbersFollowLinks
  PROVE  Routing!NumbersFollowLinks'
<1>1. Routing!RootLinks' = Routing!RootLinks
  BY DEF Routing!RootLinks, Routing!Entries
<1>2. \A k : Routing!Rotated(k)' = Routing!Rotated(k)
  BY DEF Routing!Rotated
<1>3. irq_bitmap' = irq_bitmap /\ warned' = warned
  OBVIOUS
<1> QED BY <1>1, <1>2, <1>3, SameCardinality DEF Routing!NumbersFollowLinks

LEMMA DisplaySInv == RInv /\ SInv /\ Routing!Display => SInv'
<1> SUFFICES ASSUME RInv, SInv, Routing!Display PROVE SInv'
  OBVIOUS
<1>1. /\ at = "display" /\ UNCHANGED <<mode, firmware, len, table, irq_bitmap, warned>>
      /\ firmware \in Firmwares /\ next \in 1 .. Size + 1
  BY DEF Routing!Display, Routing!tool, SInv, Shown, RInv
<1>2. Size \in Nat /\ Given' = Given /\ Size' = Size /\ RoutingEntries' = RoutingEntries
  BY <1>1, GivenEntries, Zenon DEF Given, Routing!Given, Size, RoutingEntries, Routing!irq_routing_entry_t
<1>3. Routing!Entries = 1 .. Size
  BY <1>1 DEF SInv, Shown, Fetched, Generated, Routing!Entries
<1>4. CASE next \notin Routing!Entries
  <2>1. at' = "done" /\ UNCHANGED <<lines, next>>
    BY <1>4 DEF Routing!Display
  <2>2. next = Size + 1
    BY <1>1, <1>2, <1>3, <1>4
  <2>3. Fetched /\ Listed => Fetched' /\ Listed'
    <3>1. Fetched => Fetched'
      BY <1>1, <1>2, FetchedStays, Zenon
    <3>2. Listed => Listed'
      <4>1. ASSUME NEW l, NEW e PROVE ShowsEntry(l, e)' <=> ShowsEntry(l, e)
        BY DEF ShowsEntry, Routing!Steerable
      <4> QED BY <1>1, <2>1, <4>1 DEF Listed, IsList
    <3> QED BY <3>1, <3>2
  <2>4. Generated => Generated'
    <3>1. Routing!NumbersFollowLinks => Routing!NumbersFollowLinks'
      BY <1>1, NumbersStay, SMTT(20)
    <3>2. Tally => Tally'
      BY <1>1, <2>1 DEF Tally, Lines, OfDevice, Added, Routing!Has, Routing!Entries
    <3>3. EachShown => EachShown'
      BY <1>1, <2>1 DEF EachShown
    <3>4. \A f : Sorted(f, Size, table, Given) => Sorted(f, Size, table, Given)'
      BY <1>1, <1>2 DEF Sorted
    <3> QED BY <1>1, <1>2, <2>1, <3>1, <3>2, <3>3, <3>4 DEF Generated, IsList
  <2> QED BY <1>1, <1>2, <2>1, <2>2, <2>3, <2>4 DEF SInv, Fresh, Room, Shown
<1>5. CASE next \in Routing!Entries
  <2>1. at' = "display" /\ next' = next + 1 /\ next \in 1 .. Size
    BY <1>1, <1>3, <1>5 DEF Routing!Display
  <2>2. next' \in 1 .. Size' + 1
    BY <1>2, <2>1
  <2>3. CASE "8" \notin mode
    <3>1. Fetched /\ Listed
      BY <1>1, <2>3 DEF SInv, Shown
    <3>2. Fetched' /\ Listed'
      <4>1. Fetched'
        BY <1>1, <1>2, <3>1, FetchedStays, Zenon
      <4> QED BY <1>2, <1>5, <2>1, <2>3, <3>1, <4>1, ListSInv
    <3> QED BY <1>1, <2>1, <2>2, <2>3, <3>2 DEF SInv, Fresh, Room, Shown
  <2>4. CASE "8" \in mode
    <3>1. Generated
      BY <1>1, <2>4 DEF SInv, Shown
    <3>2. Generated'
      <4>1. Routing!NumbersFollowLinks'
        BY <1>1, <3>1, NumbersStay DEF Generated
      <4>2. \A f : Sorted(f, Size, table, Given) => Sorted(f, Size, table, Given)'
        BY <1>1, <1>2 DEF Sorted
      <4>3. EachShown' /\ Tally' /\ IsList(lines)'
        BY <1>2, <1>5, <2>1, <2>4, <3>1, GenerateSInv
      <4> QED BY <1>1, <1>2, <3>1, <4>1, <4>2, <4>3 DEF Generated
    <3> QED BY <1>1, <2>1, <2>2, <2>4, <3>2 DEF SInv, Fresh, Room, Shown
  <2> QED BY <2>3, <2>4
<1> QED BY <1>4, <1>5

LEMMA NextSInv == RInv /\ SInv /\ [Next]_vars => SInv'
<1> SUFFICES ASSUME RInv, SInv, [Next]_vars PROVE SInv'
  OBVIOUS
<1>1. CASE UNCHANGED routing
  <2>1. /\ UNCHANGED <<mode, firmware, at, buf_size, len, table, irq_bitmap, warned, lines, next>>
    BY <1>1 DEF routing
  <2>2. Given' = Given /\ Size' = Size /\ RoutingEntries' = RoutingEntries
    BY <2>1 DEF Given, Routing!Given, Size, RoutingEntries, Routing!irq_routing_entry_t
  <2>3. Fetched => Fetched'
    BY <2>1, <2>2, FetchedStays, Zenon
  <2>4. Listed => Listed'
    BY <2>1 DEF Listed, IsList
  <2>5. Generated => Generated'
    <3>1. Tally => Tally'
      BY <2>1 DEF Tally, Lines, OfDevice, Added, Routing!Has, Routing!Entries
    <3>2. EachShown => EachShown'
      BY <2>1 DEF EachShown
    <3>3. \A f : Sorted(f, Size, table, Given) => Sorted(f, Size, table, Given)'
      BY <2>1, <2>2 DEF Sorted
    <3> QED BY <2>1, <2>2, <3>1, <3>2, <3>3, NumbersStay, SMTT(20) DEF Generated, IsList
  <2> QED BY <2>1, <2>2, <2>3, <2>4, <2>5 DEF SInv, Fresh, Room, Shown, Agreeing
<1>2. Routing!Next \/ UNCHANGED routing
  BY DEF Next, vars, Start, ParseFirst, ParseRest, Dispatch, Read, Write, Readback, DumpDword,
     Save, Identify, LookUp, Steer
<1> QED BY <1>1, <1>2, FindPirSInv, AllocateSInv, CallBiosSInv, CopyTableSInv, PrepareSInv,
           DisplaySInv DEF Routing!Next

(* At the end each entry has come by.                                      *)
LEMMA ListedRight ==
  ASSUME RInv, SInv, at = "done", "8" \notin mode
  PROVE  /\ Len(lines) = Len(Given)
         /\ \A k \in DOMAIN Given :
              /\ lines[k].bus = Given[k].bus /\ lines[k].dev = Given[k].dev \div 8
              /\ lines[k].ints = Given[k].ints /\ lines[k].irqs = Routing!Steerable(Given[k])
              /\ lines[k].slot = Given[k].slot \/ Routing!CutShort(k)
<1>1. Fetched /\ Listed /\ next = Size + 1 /\ Size \in Nat /\ Given \in [1 .. Size -> RoutingEntries]
  BY GivenEntries DEF SInv, Shown, RInv
<1>2. DOMAIN lines = 1 .. Size /\ IsList(lines)
  <2>1. next - 1 = Size
    BY <1>1
  <2> QED BY <1>1, <2>1 DEF Listed
<1>3. Len(lines) = Size
  BY <1>1, <1>2 DEF IsList
<1>4. \A k \in 1 .. Size : ShowsEntry(lines[k], table[k])
  <2>1. next - 1 = Size
    BY <1>1
  <2> QED BY <1>1, <2>1 DEF Listed
<1>5. ASSUME NEW k \in 1 .. Size
      PROVE  /\ lines[k].bus = Given[k].bus /\ lines[k].dev = Given[k].dev \div 8
             /\ lines[k].ints = Given[k].ints /\ lines[k].irqs = Routing!Steerable(Given[k])
             /\ lines[k].slot = Given[k].slot \/ Routing!CutShort(k)
  <2>1. ShowsEntry(lines[k], table[k])
    BY <1>4
  <2>2. /\ table[k].bus = Given[k].bus /\ table[k].dev = Given[k].dev
        /\ table[k].ints = Given[k].ints /\ table[k].bitmaps = Given[k].bitmaps
        /\ table[k].slot = Given[k].slot \/ Routing!CutShort(k)
    BY <1>1 DEF Fetched
  <2>3. Routing!Steerable(table[k]) = Routing!Steerable(Given[k])
    BY <2>2 DEF Routing!Steerable
  <2> QED BY <2>1, <2>2, <2>3 DEF ShowsEntry
<1>6. DOMAIN Given = 1 .. Size
  BY <1>1
<1> QED BY <1>3, <1>5, <1>6 DEF Size

LEMMA GeneratedRight ==
  ASSUME RInv, SInv, at = "done", "8" \in mode
  PROVE  Routing!NumbersFollowLinks /\ Routing!LinesFollowTable
<1>1. Generated /\ next - 1 = Size /\ Size \in Nat /\ Given \in [1 .. Size -> RoutingEntries]
  <2>1. next = Size + 1 /\ Generated
    BY DEF SInv, Shown
  <2> QED BY <2>1, GivenEntries DEF RInv
<1> PICK f : Sorted(f, Size, table, Given)
  BY <1>1 DEF Generated
<1> DEFINE root == {k \in DOMAIN Given : Given[k].bus = 0}
           of(dev) == Cardinality({k \in root : Given[k].dev \div 8 = dev})
           shownOf(dev) == Cardinality({k \in DOMAIN lines : lines[k].dev = dev})
<1>2. DOMAIN Given = 1 .. Size
  BY <1>1
<1>3. \A dev : {k \in root : Given[k].dev \div 8 = dev} = OfDevice(Given, Size, dev)
  BY <1>2 DEF OfDevice
<1>4. \A dev : of(dev) = Cardinality(OfDevice(Given, Size, dev))
  BY <1>3
<1>5. ASSUME NEW dev \in 0 .. 31
      PROVE  /\ shownOf(dev) = of(dev) + Added(dev) /\ of(dev) \in Nat
             /\ Routing!Has(dev) <=> of(dev) # 0
  <2>1. shownOf(dev) = Cardinality(OfDevice(table, Size, dev)) + Added(dev)
    BY <1>1 DEF Generated, Tally, Lines
  <2>2. Cardinality(OfDevice(table, Size, dev)) = of(dev)
    BY <1>1, <1>4, SortedCounts
  <2>3. of(dev) \in Nat
    BY <1>1, <1>4, OfDeviceFinite
  <2>4. Routing!Has(dev) <=> OfDevice(table, Size, dev) # {}
    <3>1. Routing!Entries = 1 .. Size
      BY <1>1 DEF Generated, Routing!Entries
    <3> QED BY <3>1 DEF Routing!Has, OfDevice
  <2>5. OfDevice(table, Size, dev) # {} <=> Cardinality(OfDevice(table, Size, dev)) # 0
    BY <1>1, OfDeviceFinite, FS_EmptySet
  <2> QED BY <2>1, <2>2, <2>3, <2>4, <2>5
<1>6. ASSUME NEW k \in root
      PROVE  \E l \in DOMAIN lines :
               /\ lines[l].dev = Given[k].dev \div 8
               /\ lines[l].ints = [p \in 1 .. 4 |-> irq_bitmap[Given[k].ints[p]]]
  <2>1. k \in 1 .. Size /\ Given[k].bus = 0
    BY <1>2
  <2>2. PICK j \in 1 .. Size : f[j] = k
    BY <1>1, <2>1, SortedAll
  <2>3. table[j].bus = 0 /\ table[j].dev = Given[k].dev /\ table[j].ints = Given[k].ints
    BY <2>1, <2>2 DEF Sorted
  <2>4. \E l \in DOMAIN lines : /\ lines[l].dev = table[j].dev \div 8
                                /\ lines[l].ints = [p \in 1 .. 4 |-> irq_bitmap[table[j].ints[p]]]
    BY <1>1, <2>2, <2>3 DEF Generated, EachShown
  <2> QED BY <2>3, <2>4
<1>7. ASSUME NEW dev \in 0 .. 31
      PROVE  /\ shownOf(dev) >= of(dev)
             /\ shownOf(dev) <= IF of(dev) = 0 THEN 1 ELSE of(dev)
  <2> HIDE DEF of, shownOf
  <2>1. CASE Added(dev) = 0
    BY <1>5, <2>1
  <2>2. CASE Added(dev) = 1
    <3>1. ~ Routing!Has(dev)
      BY <2>2 DEF Added
    <3> QED BY <1>5, <2>2, <3>1
  <2> QED BY <2>1, <2>2 DEF Added
<1>8. ASSUME firmware.class[0] = "host" PROVE shownOf(0) > 0
  <2> HIDE DEF of, shownOf
  <2>1. 0 \in 0 .. 31
    OBVIOUS
  <2>2. CASE Routing!Has(0)
    <3>1. Added(0) = 0
      BY <2>2 DEF Added
    <3> QED BY <1>5, <2>1, <2>2, <3>1
  <2>3. CASE ~ Routing!Has(0)
    <3>1. Added(0) = 1
      BY <1>8, <2>3 DEF Added
    <3> QED BY <1>5, <2>1, <3>1
  <2> QED BY <2>2, <2>3
<1>9. Routing!LinesFollowTable
  BY <1>6, <1>7, <1>8, SameCardinality, Zenon DEF Routing!LinesFollowTable, Given
<1> QED BY <1>1, <1>9 DEF Generated

(* Whatever the table and wherever it comes from, pcireg -t displays it as *)
(* it was given, and as 86Box code makes a slot of each of the root bus's  *)
(* entries with INT lines that follow its links (dump_steering_table): all *)
(* but the slot of the last of 64 entries fetched from the PCI BIOS.       *)
THEOREM SteeringAlwaysRight == Spec => []SteeringRight
<1>1. RInv /\ SInv => SteeringRight
  BY ListedRight, GeneratedRight DEF SteeringRight, Routing!SteeringRight, Given, Routing!FirstSize
<1> QED BY <1>1, InitRInv, NextRInv, InitSInv, NextSInv, PTL DEF Spec

-----------------------------------------------------------------------------
(* Numbers on the command line.                                            *)

LEMMA Least ==
  ASSUME NEW S \in SUBSET Nat, S # {}
  PROVE  \E b \in S : \A c \in S : b <= c
<1> DEFINE R == OpToRel(<, Nat)
<1>1. IsWellFoundedOn(R, Nat)
  BY NatLessThanWellFounded
<1>2. \A x, y \in Nat : <<x, y>> \in R <=> x < y
  BY DEF OpToRel
<1> HIDE DEF R
<1>3. PICK b \in S : \A c \in S : ~ (<<c, b>> \in R)
  BY <1>1, WFMin
<1>4. ASSUME NEW c \in S PROVE b <= c
  <2>1. b \in Nat /\ c \in Nat
    OBVIOUS
  <2>2. ~ (<<c, b>> \in R)
    BY <1>3
  <2>3. ~ (c < b)
    BY <1>2, <2>1, <2>2
  <2> QED BY <2>1, <2>3
<1> QED BY <1>4

(* A string has as many digits as come before its first other character.   *)
LEMMA DigitsBefore ==
  ASSUME NEW val \in Seq(0 .. 16),
         NEW bad, bad = {k \in DOMAIN val : val[k] = 16}, bad # {},
         NEW c, c = CHOOSE k \in bad : \A l \in bad : k <= l
  PROVE  c \in 1 .. Len(val) /\ \A k \in 1 .. c - 1 : val[k] # 16
<1>1. bad \in SUBSET Nat
  OBVIOUS
<1>2. \E k \in bad : \A l \in bad : k <= l
  BY <1>1, Least
<1>3. c \in bad /\ \A l \in bad : c <= l
  BY <1>2
<1> QED BY <1>3

(* Whatever is given for a number, parse_hex_u32 makes four bytes of it.   *)
LEMMA BytesAreBytes ==
  ASSUME NEW val \in Seq(0 .. 16)
  PROVE  \A b \in 1 .. 4 : Bytes(val)[b] \in 0 .. 255
<1> DEFINE bad == {k \in DOMAIN val : val[k] = 16}
           len32 == IF bad = {} THEN Len(val) ELSE (CHOOSE k \in bad : \A l \in bad : k <= l) - 1
           digit(k) == IF k < len32 THEN val[len32 - k] ELSE 0
<1>1. len32 \in 0 .. Len(val) /\ \A k \in 1 .. len32 : val[k] # 16
  <2>1. CASE bad = {}
    BY <2>1
  <2>2. CASE bad # {}
    <3> DEFINE c == CHOOSE k \in bad : \A l \in bad : k <= l
    <3>1. c \in 1 .. Len(val) /\ \A k \in 1 .. c - 1 : val[k] # 16
      <4> HIDE DEF c
      <4>1. c = CHOOSE k \in bad : \A l \in bad : k <= l
        BY DEF c
      <4> QED BY <2>2, <4>1, DigitsBefore
    <3>2. len32 = c - 1
      BY <2>2
    <3> HIDE DEF c, bad, len32
    <3> QED BY <3>1, <3>2
  <2> QED BY <2>1, <2>2
<1>2. Bytes(val) = [b \in 1 .. 4 |-> digit(2 * b - 2) + 16 * digit(2 * b - 1)]
  BY DEF Bytes, parse_hex_u32
<1> HIDE DEF len32
<1>3. ASSUME NEW k \in Nat PROVE digit(k) \in 0 .. 15
  <2>1. CASE k < len32
    <3>1. len32 - k \in 1 .. len32 /\ len32 - k \in 1 .. Len(val)
      BY <1>1, <2>1
    <3>2. val[len32 - k] \in 0 .. 16 /\ val[len32 - k] # 16
      BY <1>1, <3>1, SMTT(20)
    <3> QED BY <2>1, <3>2
  <2>2. CASE ~ (k < len32)
    BY <2>2
  <2> QED BY <2>1, <2>2
<1>4. ASSUME NEW b \in 1 .. 4 PROVE Bytes(val)[b] \in 0 .. 255
  <2>1. digit(2 * b - 2) \in 0 .. 15 /\ digit(2 * b - 1) \in 0 .. 15
    BY <1>3
  <2>2. PICK low, high \in 0 .. 15 : Bytes(val)[b] = low + 16 * high
    BY <1>2, <2>1
  <2> QED BY <2>2
<1> QED BY <1>4

(* The numbers of a command line once some of its arguments are read.      *)
Numeric == argv.op \notin {"none", "s", "t"} /\ Tokens # <<>>
Lead == IF IsCf8(Tokens[1]) THEN Cf8Parts(Tokens[1]) ELSE <<Bytes(Tokens[1])[1]>>
Collected ==
  /\ Numeric
  /\ i \in 2 .. 6 /\ i <= Len(Tokens) + 1
  /\ hexargv \in Seq(0 .. 255) /\ Len(hexargv) = Len(Lead) + i - 2
  /\ \A k \in 1 .. Len(Lead) : hexargv[k] = Lead[k]
  /\ \A k \in 2 .. i - 1 : hexargv[Len(Lead) + k - 1] = Bytes(Tokens[k])[1]

(* No argument is left, or none that would be taken for a number.          *)
AllRead == i = 6 \/ i > Len(Tokens) \/ ~ Hex(Tokens[i - 1])

Strings == argv.op \notin {"none", "s", "t"} => Tokens \in Seq(Seq(0 .. 16))

LEMMA LeadOf ==
  ASSUME Strings, Numeric
  PROVE  /\ Lead \in Seq(0 .. 255)
         /\ Len(Lead) = IF IsCf8(Tokens[1]) THEN 4 ELSE 1
         /\ ~ IsCf8(Tokens[1]) => Lead[1] = Bytes(Tokens[1])[1]
<1>1. Tokens[1] \in Seq(0 .. 16)
  BY DEF Strings, Numeric
<1>2. \A b \in 1 .. 4 : Bytes(Tokens[1])[b] \in 0 .. 255
  BY <1>1, BytesAreBytes
<1> HIDE DEF Tokens
<1>3. CASE IsCf8(Tokens[1])
  <2>1. Lead = Cf8Parts(Tokens[1])
    BY <1>3 DEF Lead
  <2>2. PICK b \in [1 .. 4 -> 0 .. 255] : \A k \in 1 .. 4 : b[k] = Bytes(Tokens[1])[k]
    <3>1. [k \in 1 .. 4 |-> Bytes(Tokens[1])[k]] \in [1 .. 4 -> 0 .. 255]
      BY <1>2
    <3> QED BY <3>1
  <2>3. b[2] \div 8 \in 0 .. 255 /\ b[2] % 8 \in 0 .. 255
    <3>1. b[2] \in 0 .. 255
      OBVIOUS
    <3> QED BY <3>1
  <2>4. Cf8Parts(Tokens[1]) = <<b[3], b[2] \div 8, b[2] % 8, b[1]>>
    BY <2>2 DEF Cf8Parts
  <2> QED BY <1>3, <2>1, <2>3, <2>4
<1>4. CASE ~ IsCf8(Tokens[1])
  BY <1>2, <1>4 DEF Lead
<1> QED BY <1>3, <1>4

(* A reading has the numbers where its form says, and 0 elsewhere.         *)
LEMMA ReadingIs ==
  ASSUME NEW form, NEW f \in DOMAIN Origin
  PROVE  /\ Reading(form) = [g \in DOMAIN Origin |-> Reading(form)[g]]
         /\ (\A k \in DOMAIN form : form[k] # f) => Reading(form)[f] = 0
         /\ \A k \in DOMAIN form :
              form[k] = f /\ (\A l \in DOMAIN form : form[l] = f => l = k)
                => Reading(form)[f] = Bytes(Numbers[k])[1]
<1>1. Reading(form)[f] =
        IF \E k \in DOMAIN form : form[k] = f
        THEN Bytes(Numbers[CHOOSE k \in DOMAIN form : form[k] = f])[1] ELSE 0
  BY DEF Reading
<1>2. Reading(form) = [g \in DOMAIN Origin |-> Reading(form)[g]]
  BY DEF Reading
<1>3. (\A k \in DOMAIN form : form[k] # f) => Reading(form)[f] = 0
  BY <1>1
<1>4. ASSUME NEW k \in DOMAIN form, form[k] = f, \A l \in DOMAIN form : form[l] = f => l = k
      PROVE  Reading(form)[f] = Bytes(Numbers[k])[1]
  <2>1. (CHOOSE l \in DOMAIN form : form[l] = f) = k
    BY <1>4
  <2> QED BY <1>1, <1>4, <2>1
<1> QED BY <1>2, <1>3, <1>4

LEMMA PartsOfPlace == DOMAIN Origin = {"bus", "dev", "func", "reg"}
  BY DEF Origin

LEMMA ReadingOf ==
  ASSUME NEW form, NEW p,
         p \in [bus : 0 .. 255, dev : 0 .. 255, func : 0 .. 255, reg : 0 .. 255],
         \A f \in {"bus", "dev", "func", "reg"} : Reading(form)[f] = p[f]
  PROVE  Reading(form) = p
<1> DEFINE parts == {"bus", "dev", "func", "reg"}
<1>1. Reading(form) = [g \in DOMAIN Origin |-> Reading(form)[g]]
  <2>1. "bus" \in DOMAIN Origin
    BY PartsOfPlace
  <2> QED BY <2>1, ReadingIs
<1>2. Reading(form) = [g \in parts |-> Reading(form)[g]]
  BY <1>1, PartsOfPlace, Zenon
<1>3. [g \in parts |-> Reading(form)[g]] = [g \in parts |-> p[g]]
  OBVIOUS
<1>4. p = [g \in parts |-> p[g]]
  OBVIOUS
<1> QED BY <1>2, <1>3, <1>4, Zenon

(* What the forms of the usage name.                                       *)
LEMMA FormPlaces ==
  ASSUME NEW m \in Nat, NEW N,
         \A k \in 1 .. m : N[k] \in 0 .. 255 /\ Bytes(Numbers[k])[1] = N[k]
  PROVE  /\ m >= 1 => Reading(<<"dev">>) =
                    [bus |-> 0, dev |-> N[1], func |-> 0, reg |-> 0]
         /\ m >= 2 => Reading(<<"dev", "func">>) =
                    [bus |-> 0, dev |-> N[1], func |-> N[2], reg |-> 0]
         /\ m >= 3 => Reading(<<"dev", "func", "reg">>) =
                    [bus |-> 0, dev |-> N[1], func |-> N[2], reg |-> N[3]]
         /\ m >= 3 => Reading(<<"bus", "dev", "func">>) =
                    [bus |-> N[1], dev |-> N[2], func |-> N[3], reg |-> 0]
         /\ m >= 4 => Reading(<<"bus", "dev", "func", "reg">>) =
                    [bus |-> N[1], dev |-> N[2], func |-> N[3], reg |-> N[4]]
<1> HIDE DEF Numbers
<1>6. ASSUME NEW form, \A k \in DOMAIN form : k \in 1 .. m
      PROVE  \A f \in {"bus", "dev", "func", "reg"} :
               /\ (\A k \in DOMAIN form : form[k] # f) => Reading(form)[f] = 0
               /\ \A k \in DOMAIN form :
                    form[k] = f /\ (\A l \in DOMAIN form : form[l] = f => l = k)
                      => Reading(form)[f] = N[k] /\ N[k] \in 0 .. 255
  <2>1. \A k \in DOMAIN form : Bytes(Numbers[k])[1] = N[k] /\ N[k] \in 0 .. 255
    BY <1>6
  <2> QED BY <2>1, ReadingIs, PartsOfPlace
<1>1. ASSUME m >= 1
      PROVE  Reading(<<"dev">>) = [bus |-> 0, dev |-> N[1], func |-> 0, reg |-> 0]
  <2> DEFINE p == [bus |-> 0, dev |-> N[1], func |-> 0, reg |-> 0]
  <2>1. PICK form : form = <<"dev">>
    OBVIOUS
  <2>2. DOMAIN form = 1 .. 1 /\ \A k \in DOMAIN form : k \in 1 .. m
    BY <1>1, <2>1
  <2>3. \A f \in {"bus", "dev", "func", "reg"} :
          /\ (\A k \in DOMAIN form : form[k] # f) => Reading(form)[f] = 0
          /\ \A k \in DOMAIN form :
               form[k] = f /\ (\A l \in DOMAIN form : form[l] = f => l = k)
                 => Reading(form)[f] = N[k] /\ N[k] \in 0 .. 255
    BY <2>2, <1>6
  <2>4. Reading(form)["bus"] = 0
    BY <2>1, <2>2, <2>3
  <2>5. Reading(form)["dev"] = N[1] /\ N[1] \in 0 .. 255
    <3>1. 1 \in DOMAIN form /\ form[1] = "dev" /\ \A l \in DOMAIN form : form[l] = "dev" => l = 1
      BY <2>1, <2>2
    <3> QED BY <2>3, <3>1
  <2>6. Reading(form)["func"] = 0
    BY <2>1, <2>2, <2>3
  <2>7. Reading(form)["reg"] = 0
    BY <2>1, <2>2, <2>3
  <2>8. /\ p \in [bus : 0 .. 255, dev : 0 .. 255, func : 0 .. 255, reg : 0 .. 255]
        /\ \A f \in {"bus", "dev", "func", "reg"} : Reading(form)[f] = p[f]
    BY <2>4, <2>5, <2>6, <2>7
  <2> HIDE DEF p
  <2>9. Reading(form) = p
    BY <2>8, ReadingOf
  <2> QED BY <2>1, <2>9 DEF p
<1>2. ASSUME m >= 2
      PROVE  Reading(<<"dev", "func">>) = [bus |-> 0, dev |-> N[1], func |-> N[2], reg |-> 0]
  <2> DEFINE p == [bus |-> 0, dev |-> N[1], func |-> N[2], reg |-> 0]
  <2>1. PICK form : form = <<"dev", "func">>
    OBVIOUS
  <2>2. DOMAIN form = 1 .. 2 /\ \A k \in DOMAIN form : k \in 1 .. m
    BY <1>2, <2>1
  <2>3. \A f \in {"bus", "dev", "func", "reg"} :
          /\ (\A k \in DOMAIN form : form[k] # f) => Reading(form)[f] = 0
          /\ \A k \in DOMAIN form :
               form[k] = f /\ (\A l \in DOMAIN form : form[l] = f => l = k)
                 => Reading(form)[f] = N[k] /\ N[k] \in 0 .. 255
    BY <2>2, <1>6
  <2>4. Reading(form)["bus"] = 0
    BY <2>1, <2>2, <2>3
  <2>5. Reading(form)["dev"] = N[1] /\ N[1] \in 0 .. 255
    <3>1. 1 \in DOMAIN form /\ form[1] = "dev" /\ \A l \in DOMAIN form : form[l] = "dev" => l = 1
      BY <2>1, <2>2
    <3> QED BY <2>3, <3>1
  <2>6. Reading(form)["func"] = N[2] /\ N[2] \in 0 .. 255
    <3>1. 2 \in DOMAIN form /\ form[2] = "func" /\ \A l \in DOMAIN form : form[l] = "func" => l = 2
      BY <2>1, <2>2
    <3> QED BY <2>3, <3>1
  <2>7. Reading(form)["reg"] = 0
    BY <2>1, <2>2, <2>3
  <2>8. /\ p \in [bus : 0 .. 255, dev : 0 .. 255, func : 0 .. 255, reg : 0 .. 255]
        /\ \A f \in {"bus", "dev", "func", "reg"} : Reading(form)[f] = p[f]
    BY <2>4, <2>5, <2>6, <2>7
  <2> HIDE DEF p
  <2>9. Reading(form) = p
    BY <2>8, ReadingOf
  <2> QED BY <2>1, <2>9 DEF p
<1>3. ASSUME m >= 3
      PROVE  Reading(<<"dev", "func", "reg">>) = [bus |-> 0, dev |-> N[1], func |-> N[2], reg |-> N[3]]
  <2> DEFINE p == [bus |-> 0, dev |-> N[1], func |-> N[2], reg |-> N[3]]
  <2>1. PICK form : form = <<"dev", "func", "reg">>
    OBVIOUS
  <2>2. DOMAIN form = 1 .. 3 /\ \A k \in DOMAIN form : k \in 1 .. m
    BY <1>3, <2>1
  <2>3. \A f \in {"bus", "dev", "func", "reg"} :
          /\ (\A k \in DOMAIN form : form[k] # f) => Reading(form)[f] = 0
          /\ \A k \in DOMAIN form :
               form[k] = f /\ (\A l \in DOMAIN form : form[l] = f => l = k)
                 => Reading(form)[f] = N[k] /\ N[k] \in 0 .. 255
    BY <2>2, <1>6
  <2>4. Reading(form)["bus"] = 0
    BY <2>1, <2>2, <2>3
  <2>5. Reading(form)["dev"] = N[1] /\ N[1] \in 0 .. 255
    <3>1. 1 \in DOMAIN form /\ form[1] = "dev" /\ \A l \in DOMAIN form : form[l] = "dev" => l = 1
      BY <2>1, <2>2
    <3> QED BY <2>3, <3>1
  <2>6. Reading(form)["func"] = N[2] /\ N[2] \in 0 .. 255
    <3>1. 2 \in DOMAIN form /\ form[2] = "func" /\ \A l \in DOMAIN form : form[l] = "func" => l = 2
      BY <2>1, <2>2
    <3> QED BY <2>3, <3>1
  <2>7. Reading(form)["reg"] = N[3] /\ N[3] \in 0 .. 255
    <3>1. 3 \in DOMAIN form /\ form[3] = "reg" /\ \A l \in DOMAIN form : form[l] = "reg" => l = 3
      BY <2>1, <2>2
    <3>2. \A k \in DOMAIN form :
            form[k] = "reg" /\ (\A l \in DOMAIN form : form[l] = "reg" => l = k)
              => Reading(form)["reg"] = N[k] /\ N[k] \in 0 .. 255
      BY <2>3
    <3> QED BY <3>1, <3>2
  <2>8. /\ p \in [bus : 0 .. 255, dev : 0 .. 255, func : 0 .. 255, reg : 0 .. 255]
        /\ \A f \in {"bus", "dev", "func", "reg"} : Reading(form)[f] = p[f]
    BY <2>4, <2>5, <2>6, <2>7
  <2> HIDE DEF p
  <2>9. Reading(form) = p
    BY <2>8, ReadingOf
  <2> QED BY <2>1, <2>9 DEF p
<1>4. ASSUME m >= 3
      PROVE  Reading(<<"bus", "dev", "func">>) = [bus |-> N[1], dev |-> N[2], func |-> N[3], reg |-> 0]
  <2> DEFINE p == [bus |-> N[1], dev |-> N[2], func |-> N[3], reg |-> 0]
  <2>1. PICK form : form = <<"bus", "dev", "func">>
    OBVIOUS
  <2>2. DOMAIN form = 1 .. 3 /\ \A k \in DOMAIN form : k \in 1 .. m
    BY <1>4, <2>1
  <2>3. \A f \in {"bus", "dev", "func", "reg"} :
          /\ (\A k \in DOMAIN form : form[k] # f) => Reading(form)[f] = 0
          /\ \A k \in DOMAIN form :
               form[k] = f /\ (\A l \in DOMAIN form : form[l] = f => l = k)
                 => Reading(form)[f] = N[k] /\ N[k] \in 0 .. 255
    BY <2>2, <1>6
  <2>4. Reading(form)["bus"] = N[1] /\ N[1] \in 0 .. 255
    <3>1. 1 \in DOMAIN form /\ form[1] = "bus" /\ \A l \in DOMAIN form : form[l] = "bus" => l = 1
      BY <2>1, <2>2
    <3> QED BY <2>3, <3>1
  <2>5. Reading(form)["dev"] = N[2] /\ N[2] \in 0 .. 255
    <3>1. 2 \in DOMAIN form /\ form[2] = "dev" /\ \A l \in DOMAIN form : form[l] = "dev" => l = 2
      BY <2>1, <2>2
    <3> QED BY <2>3, <3>1
  <2>6. Reading(form)["func"] = N[3] /\ N[3] \in 0 .. 255
    <3>1. 3 \in DOMAIN form /\ form[3] = "func" /\ \A l \in DOMAIN form : form[l] = "func" => l = 3
      BY <2>1, <2>2
    <3> QED BY <2>3, <3>1
  <2>7. Reading(form)["reg"] = 0
    BY <2>1, <2>2, <2>3
  <2>8. /\ p \in [bus : 0 .. 255, dev : 0 .. 255, func : 0 .. 255, reg : 0 .. 255]
        /\ \A f \in {"bus", "dev", "func", "reg"} : Reading(form)[f] = p[f]
    BY <2>4, <2>5, <2>6, <2>7
  <2> HIDE DEF p
  <2>9. Reading(form) = p
    BY <2>8, ReadingOf
  <2> QED BY <2>1, <2>9 DEF p
<1>5. ASSUME m >= 4
      PROVE  Reading(<<"bus", "dev", "func", "reg">>) = [bus |-> N[1], dev |-> N[2], func |-> N[3], reg |-> N[4]]
  <2> DEFINE p == [bus |-> N[1], dev |-> N[2], func |-> N[3], reg |-> N[4]]
  <2>1. PICK form : form = <<"bus", "dev", "func", "reg">>
    OBVIOUS
  <2>2. DOMAIN form = 1 .. 4 /\ \A k \in DOMAIN form : k \in 1 .. m
    BY <1>5, <2>1
  <2>3. \A f \in {"bus", "dev", "func", "reg"} :
          /\ (\A k \in DOMAIN form : form[k] # f) => Reading(form)[f] = 0
          /\ \A k \in DOMAIN form :
               form[k] = f /\ (\A l \in DOMAIN form : form[l] = f => l = k)
                 => Reading(form)[f] = N[k] /\ N[k] \in 0 .. 255
    BY <2>2, <1>6
  <2>4. Reading(form)["bus"] = N[1] /\ N[1] \in 0 .. 255
    <3>1. 1 \in DOMAIN form /\ form[1] = "bus" /\ \A l \in DOMAIN form : form[l] = "bus" => l = 1
      BY <2>1, <2>2
    <3> QED BY <2>3, <3>1
  <2>5. Reading(form)["dev"] = N[2] /\ N[2] \in 0 .. 255
    <3>1. 2 \in DOMAIN form /\ form[2] = "dev" /\ \A l \in DOMAIN form : form[l] = "dev" => l = 2
      BY <2>1, <2>2
    <3> QED BY <2>3, <3>1
  <2>6. Reading(form)["func"] = N[3] /\ N[3] \in 0 .. 255
    <3>1. 3 \in DOMAIN form /\ form[3] = "func" /\ \A l \in DOMAIN form : form[l] = "func" => l = 3
      BY <2>1, <2>2
    <3> QED BY <2>3, <3>1
  <2>7. Reading(form)["reg"] = N[4] /\ N[4] \in 0 .. 255
    <3>1. 4 \in DOMAIN form /\ form[4] = "reg" /\ \A l \in DOMAIN form : form[l] = "reg" => l = 4
      BY <2>1, <2>2
    <3>2. \A k \in DOMAIN form :
            form[k] = "reg" /\ (\A l \in DOMAIN form : form[l] = "reg" => l = k)
              => Reading(form)["reg"] = N[k] /\ N[k] \in 0 .. 255
      BY <2>3
    <3> QED BY <3>1, <3>2
  <2>8. /\ p \in [bus : 0 .. 255, dev : 0 .. 255, func : 0 .. 255, reg : 0 .. 255]
        /\ \A f \in {"bus", "dev", "func", "reg"} : Reading(form)[f] = p[f]
    BY <2>4, <2>5, <2>6, <2>7
  <2> HIDE DEF p
  <2>9. Reading(form) = p
    BY <2>8, ReadingOf
  <2> QED BY <2>1, <2>9 DEF p
<1> QED BY <1>1, <1>2, <1>3, <1>4, <1>5

LEMMA ValueLast ==
  ASSUME NEW l \in Nat, NEW m, m = l - 1, m \in {2, 3, 4}
  PROVE  l \in 1 .. l /\ m + 1 = l /\ m # 1
  OBVIOUS

LEMMA FormLengths ==
  /\ \A f \in Forms("d") : Len(f) \in {1, 2, 3, 4}
  /\ \A f \in Forms("r") : Len(f) \in {2, 3, 4}
  /\ \A f \in Forms("w") : Len(f) \in {2, 3, 4}
  BY DEF Forms

(* The value to be written.                                                *)
Value == Argument(hexargc + 1)

(* The usage has some numbers before the value.                            *)
LEMMA SomeNumbers ==
  ASSUME Strings, argv.op \in {"d", "r", "w"}, Numeric, WellFormed
  PROVE  /\ Tokens \in Seq(Seq(0 .. 16)) /\ Len(Tokens) \in Nat /\ Len(Tokens) # 0
         /\ Len(Numbers) \in Nat /\ Len(Numbers) # 0
         /\ Len(Numbers) = IF argv.op = "w" THEN Len(Tokens) - 1 ELSE Len(Tokens)
         /\ Numbers[1] = Tokens[1]
<1>1. Tokens \in Seq(Seq(0 .. 16)) /\ Len(Tokens) \in Nat /\ Len(Tokens) # 0
  BY DEF Strings, Numeric
<1> PICK l \in Nat : l = Len(Tokens)
  BY <1>1
<1>2. Len(Numbers) = IF argv.op = "w" THEN l - 1 ELSE l
  BY <1>1 DEF Numbers
<1>3. Len(Numbers) \in Nat
  BY <1>1, <1>2
<1>4. Len(Numbers) # 0
  <2>1. CASE Len(Numbers) = 1
    BY <2>1
  <2>2. CASE Len(Numbers) # 1
    <3>1. Readings # {}
      BY DEF WellFormed
    <3>2. PICK form \in Forms(argv.op) : Len(form) = Len(Numbers)
      BY <2>2, <3>1 DEF Readings
    <3>3. Len(form) # 0
      BY FormLengths
    <3> QED BY <3>2, <3>3
  <2> QED BY <2>1, <2>2
<1>5. Numbers[1] = Tokens[1]
  <2>1. CASE argv.op = "w"
    <3>1. l - 1 >= 1
      BY <1>2, <1>4, <2>1
    <3> QED BY <1>1, <2>1, <3>1 DEF Numbers
  <2>2. CASE argv.op # "w"
    BY <2>2 DEF Numbers
  <2> QED BY <2>1, <2>2
<1> QED BY <1>1, <1>2, <1>3, <1>4, <1>5

(* A CF8h dword is where its reading says, alone or with a value, which is *)
(* looked for past the end of argv.                                        *)
LEMMA DwordFollowed ==
  ASSUME Strings, Collected, AllRead, argv.op \in {"d", "r", "w"}, WellFormed, IsCf8(Tokens[1]),
         hexargc \in 1 .. 4
  PROVE  Places \in TakenPlaces /\ (argv.op = "w" => Value = TakenValue)
<1> PICK l, m : l = Len(Tokens) /\ m = Len(Numbers)
  OBVIOUS
<1>1. /\ l \in Nat /\ l # 0 /\ m \in Nat /\ m # 0 /\ m = IF argv.op = "w" THEN l - 1 ELSE l
      /\ Numbers[1] = Tokens[1] /\ DOMAIN Tokens = 1 .. l
  BY SomeNumbers DEF Collected
<1>2. Len(Lead) = 4 /\ Lead = Cf8Parts(Tokens[1])
  BY LeadOf DEF Collected, Lead
<1> PICK e : e = Len(hexargv)
  OBVIOUS
<1>3. hexargc = (IF argv.op = "w" THEN e - 1 ELSE e) /\ i \in 2 .. 6 /\ i <= l + 1 /\ e = i + 2
      /\ \A k \in 1 .. 4 : hexargv[k] = Lead[k]
  BY <1>2 DEF hexargc, Collected
<1>4. i > l
  <2>1. i # 6
    BY <1>3
  <2>2. i - 1 \in DOMAIN Tokens
    BY <1>1, <1>3
  <2>3. Hex(Tokens[i - 1])
    BY <2>2 DEF WellFormed
  <2> QED BY <2>1, <2>3 DEF AllRead
<1>5. i = l + 1
  BY <1>1, <1>3, <1>4
<1>6. m = 1 /\ hexargc = 4
  <2>1. CASE argv.op = "w"
    BY <1>1, <1>3, <1>5, <2>1
  <2>2. CASE argv.op # "w"
    BY <1>1, <1>3, <1>5, <2>2
  <2> QED BY <2>1, <2>2
<1>7. Readings = {[bus |-> Lead[1], dev |-> Lead[2], func |-> Lead[3], reg |-> Lead[4]]}
  BY <1>1, <1>2, <1>6 DEF Readings
<1>8. Places = [bus |-> hexargv[1], dev |-> hexargv[2], func |-> hexargv[3], reg |-> hexargv[4]]
  BY <1>6 DEF Places
<1>9. TakenPlaces = Readings
  BY <1>6 DEF TakenPlaces, TwoNumbers
<1>10. ASSUME argv.op = "w" PROVE Value = TakenValue
  <2>1. 5 \notin 1 .. l /\ hexargc + 1 = 5
    BY <1>1, <1>6, <1>10
  <2>2. Value = Outside
    BY <1>1, <2>1 DEF Value, Argument
  <2> QED BY <1>6, <1>10, <2>2 DEF TakenValue, DwordAndValue
<1> QED BY <1>3, <1>7, <1>8, <1>9, <1>10

(* So are numbers that are listed, and a value to write comes after them.  *)
LEMMA ListFollowed ==
  ASSUME Strings, Collected, AllRead, argv.op \in {"d", "r", "w"}, WellFormed, ~ IsCf8(Tokens[1])
  PROVE  /\ Places \in TakenPlaces
         /\ argv.op = "w" => Value = TakenValue
<1>1. Tokens \in Seq(Seq(0 .. 16)) /\ Len(Tokens) \in Nat /\ Len(Tokens) # 0
  BY DEF Strings, Collected, Numeric
<1> PICK l, m : l = Len(Tokens) /\ m = Len(Numbers)
  OBVIOUS
<1>2. Len(Lead) = 1 /\ Lead[1] = Bytes(Tokens[1])[1]
  BY LeadOf DEF Collected
<1>3. Len(hexargv) = i - 1 /\ \A k \in 1 .. i - 1 : hexargv[k] = Bytes(Tokens[k])[1]
  BY <1>2 DEF Collected
<1>4. Readings # {} /\ \A k \in DOMAIN Tokens : Hex(Tokens[k])
  BY DEF WellFormed
<1>5. /\ m = IF argv.op = "w" THEN l - 1 ELSE l
      /\ \A k \in 1 .. m : Numbers[k] = Tokens[k] /\ k \in DOMAIN Tokens
      /\ DOMAIN Numbers = 1 .. m
  BY <1>1 DEF Numbers
<1>6. Readings = {Reading(form) : form \in {f \in Forms(argv.op) : Len(f) = Len(Numbers)}}
  BY SomeNumbers DEF Readings, Collected
<1> PICK form \in Forms(argv.op) : Len(form) = m
  <2>1. PICK r : r \in Readings
    BY <1>4, Zenon
  <2>2. r \in {Reading(form) : form \in {f \in Forms(argv.op) : Len(f) = Len(Numbers)}}
    BY <1>6, <2>1, Zenon
  <2> QED BY <2>2, Zenon
<1>7. argv.op = "d" => m \in {1, 2, 3, 4}
  BY FormLengths
<1>8. argv.op \in {"r", "w"} => m \in {2, 3, 4}
  BY FormLengths
<1>9. i = l + 1 /\ hexargc = m
  <2>1. l \in Nat /\ l <= 5
    <3>1. l \in Nat
      BY <1>1
    <3>2. CASE argv.op = "d"
      <4>1. m <= 4 /\ m = l
        BY <1>5, <1>7, <3>2
      <4> QED BY <3>1, <4>1
    <3>3. CASE argv.op = "r"
      <4>1. m <= 4 /\ m = l
        BY <1>5, <1>8, <3>3
      <4> QED BY <3>1, <4>1
    <3>4. CASE argv.op = "w"
      <4>1. m <= 4 /\ m = l - 1
        BY <1>5, <1>8, <3>4, SMTT(20)
      <4> QED BY <3>1, <4>1
    <3> QED BY <3>2, <3>3, <3>4
  <2>2. i \in 2 .. 6 /\ i <= l + 1
    BY DEF Collected
  <2>3. ~ (i - 1 \in DOMAIN Tokens /\ ~ Hex(Tokens[i - 1]))
    BY <1>4
  <2>4. i = l + 1
    BY <1>1, <2>1, <2>2, <2>3 DEF AllRead
  <2> QED BY <1>3, <1>5, <2>4 DEF hexargc
<1>10. \A k \in 1 .. m : hexargv[k] \in 0 .. 255 /\ Bytes(Numbers[k])[1] = hexargv[k]
  <2>1. ASSUME NEW k \in 1 .. m PROVE hexargv[k] \in 0 .. 255 /\ Bytes(Numbers[k])[1] = hexargv[k]
    <3>1. Numbers[k] = Tokens[k] /\ k \in DOMAIN Tokens
      BY <1>5
    <3>2. Tokens[k] \in Seq(0 .. 16)
      BY <1>1, <3>1
    <3>3. hexargv[k] = Bytes(Tokens[k])[1]
      <4>1. l \in Nat /\ k \in Nat /\ k >= 1 /\ k <= l
        BY <1>1, <1>5, <1>7, <1>8
      <4>2. k \in 1 .. i - 1
        BY <1>9, <4>1
      <4> QED BY <1>3, <4>2
    <3>4. Bytes(Tokens[k])[1] \in 0 .. 255
      BY <3>2, BytesAreBytes
    <3> QED BY <3>1, <3>3, <3>4
  <2> QED BY <2>1
<1>11. m \in Nat
  BY <1>7, <1>8
<1> HIDE DEF Numbers
<1>12. /\ m >= 1 => Reading(<<"dev">>) =
                    [bus |-> 0, dev |-> hexargv[1], func |-> 0, reg |-> 0]
       /\ m >= 2 => Reading(<<"dev", "func">>) =
                    [bus |-> 0, dev |-> hexargv[1], func |-> hexargv[2], reg |-> 0]
       /\ m >= 3 => Reading(<<"dev", "func", "reg">>) =
                    [bus |-> 0, dev |-> hexargv[1], func |-> hexargv[2], reg |-> hexargv[3]]
       /\ m >= 3 => Reading(<<"bus", "dev", "func">>) =
                    [bus |-> hexargv[1], dev |-> hexargv[2], func |-> hexargv[3], reg |-> 0]
       /\ m >= 4 => Reading(<<"bus", "dev", "func", "reg">>) =
                    [bus |-> hexargv[1], dev |-> hexargv[2], func |-> hexargv[3], reg |-> hexargv[4]]
  BY <1>10, <1>11, FormPlaces
<1>13. ASSUME argv.op = "w" PROVE Value = TakenValue
  <2>1. l \in Nat /\ m = l - 1 /\ DOMAIN Tokens = 1 .. l
    BY <1>1, <1>5, <1>13
  <2>2. m \in {2, 3, 4}
    BY <1>8, <1>13
  <2>3. m # 1 /\ hexargc + 1 = l /\ l \in DOMAIN Tokens
    <3>1. l \in 1 .. l /\ m + 1 = l /\ m # 1
      BY <2>1, <2>2, ValueLast, Zenon
    <3>2. hexargc + 1 = l
      BY <1>9, <3>1, Zenon
    <3> QED BY <2>1, <3>1, <3>2, Zenon
  <2> QED BY <2>3 DEF Value, Argument, TakenValue, DwordAndValue
<1>14. m # 2 \/ argv.op = "d" => TakenPlaces = Readings
  BY DEF TakenPlaces, TwoNumbers
<1>15. CASE argv.op = "d" /\ m = 1
  <2>1. Reading(<<"dev">>) = [bus |-> 0, dev |-> hexargv[1], func |-> 0, reg |-> 0]
    BY <1>12, <1>15
  <2>2. Places = [bus |-> 0, dev |-> hexargv[1], func |-> 0, reg |-> 0]
    BY <1>9, <1>15 DEF Places
  <2>3. Reading(<<"dev">>) \in Readings
    BY <1>6, <1>15 DEF Forms
  <2> QED BY <1>14, <1>15, <2>1, <2>2, <2>3
<1>16. CASE argv.op = "d" /\ m = 2
  <2>1. Reading(<<"dev", "func">>) = [bus |-> 0, dev |-> hexargv[1], func |-> hexargv[2], reg |-> 0]
    BY <1>12, <1>16
  <2>2. Places = [bus |-> 0, dev |-> hexargv[1], func |-> hexargv[2], reg |-> 0]
    BY <1>9, <1>16 DEF Places
  <2>3. Reading(<<"dev", "func">>) \in Readings
    BY <1>6, <1>16 DEF Forms
  <2> QED BY <1>9, <1>14, <1>16, <2>1, <2>2, <2>3
<1>17. CASE argv.op = "d" /\ m = 3
  <2>1. Reading(<<"bus", "dev", "func">>) = [bus |-> hexargv[1], dev |-> hexargv[2], func |-> hexargv[3], reg |-> 0]
    BY <1>12, <1>17
  <2>2. Places = [bus |-> hexargv[1], dev |-> hexargv[2], func |-> hexargv[3], reg |-> 0]
    BY <1>9, <1>17 DEF Places
  <2>3. Reading(<<"bus", "dev", "func">>) \in Readings
    BY <1>6, <1>17 DEF Forms
  <2> QED BY <1>9, <1>14, <1>17, <2>1, <2>2, <2>3
<1>18. CASE argv.op \in {"r", "w"} /\ m = 3
  <2>1. Reading(<<"dev", "func", "reg">>) = [bus |-> 0, dev |-> hexargv[1], func |-> hexargv[2], reg |-> hexargv[3]]
    BY <1>12, <1>18
  <2>2. Places = [bus |-> 0, dev |-> hexargv[1], func |-> hexargv[2], reg |-> hexargv[3]]
    BY <1>9, <1>18 DEF Places
  <2>3. Reading(<<"dev", "func", "reg">>) \in Readings
    BY <1>6, <1>18 DEF Forms
  <2> QED BY <1>18, <1>14, <1>13, <2>1, <2>2, <2>3
<1>19. CASE m = 4
  <2> DEFINE whole == <<"bus", "dev", "func", "reg">>
  <2>1. Reading(whole) = [bus |-> hexargv[1], dev |-> hexargv[2], func |-> hexargv[3], reg |-> hexargv[4]]
    BY <1>12, <1>19
  <2>2. Places = [bus |-> hexargv[1], dev |-> hexargv[2], func |-> hexargv[3], reg |-> hexargv[4]]
    BY <1>9, <1>19 DEF Places
  <2>3. Reading(whole) \in Readings
    BY <1>6, <1>19 DEF Forms
  <2> QED BY <1>19, <1>14, <1>13, <2>1, <2>2, <2>3
<1>20. CASE argv.op \in {"r", "w"} /\ m = 2
  <2>1. Reading(<<"dev", "func">>) = [bus |-> 0, dev |-> hexargv[1], func |-> hexargv[2], reg |-> 0]
    BY <1>12, <1>20
  <2>2. Places = [bus |-> 0, dev |-> hexargv[1], func |-> hexargv[2], reg |-> 0]
    BY <1>9, <1>20 DEF Places
  <2>3. TakenPlaces = {Reading(<<"dev", "func">>)}
    BY <1>20 DEF TakenPlaces, TwoNumbers
  <2> QED BY <1>13, <2>1, <2>2, <2>3
<1> QED BY <1>7, <1>8, <1>15, <1>16, <1>17, <1>18, <1>19, <1>20, <1>13

-----------------------------------------------------------------------------
(* What pcireg knows of its arguments and has done with them.              *)

Locations == [bus : 0 .. 255, dev : 0 .. 255, func : 0 .. 255, reg : 0 .. 255]
First == place.reg \div 4
Dword(r) == [place EXCEPT !.reg = 4 * r]

(* The accesses and the buffer of a dump that has passed c dwords.         *)
DumpTypes ==
  /\ accesses \in Seq([kind : {"read"}, width : {4}, where : Locations, val : Locations])
  /\ regs \in [0 .. 63 -> Locations \cup {Zero}]
Passed(c) == IF c > First THEN c - First ELSE 0
ReadSoFar(c) == Len(accesses) = Passed(c)
InOrder == \A k \in 1 .. Len(accesses) : accesses[k].where = Dword(First + k - 1)
HeldSoFar(c) == \A r \in 0 .. 63 : r < c => regs[r] = IF r < First THEN Zero ELSE Dword(r)
Dumped(c) == DumpTypes /\ ReadSoFar(c) /\ InOrder /\ HeldSoFar(c)

Stored == [kind |-> "write", width |-> Width(Len(Value)), where |-> place,
           val |-> SubSeq(Bytes(Value), 1, Width(Len(Value)))]
ReadBack == [kind |-> "read", width |-> Width(Len(Value)), where |-> place, val |-> place]

Types ==
  /\ argv \in CommandLines
  /\ hexargv \in Seq(0 .. 255) /\ Len(hexargv) <= 8
  /\ i \in 1 .. 6
  /\ place \in Locations

Parsing ==
  /\ doing = "first" => Numeric
  /\ doing \in {"rest", "dispatch"} => Collected
  /\ doing = "dispatch" => AllRead

(* What follows the parsing.                                               *)
Operating == {"dump", "save", "read", "write", "readback", "identify", "info", "nodevice", "end"}
Placed ==
  doing \in Operating =>
    /\ doing \in {"dump", "save"} => argv.op = "d"
    /\ doing = "read" => argv.op = "r"
    /\ doing \in {"write", "readback"} => argv.op = "w"
    /\ doing = "end" => argv.op \in {"d", "r", "w"}
    /\ argv.op \in {"d", "r", "w"} /\ WellFormed =>
         /\ place \in TakenPlaces
         /\ argv.op = "w" => Value = TakenValue

Done ==
  /\ doing \in {"start", "first", "rest", "dispatch", "read", "write"} => accesses = <<>>
  /\ doing = "readback" => accesses = <<Stored>>
  /\ doing = "end" /\ argv.op = "w" => accesses = <<Stored, ReadBack>>
  /\ doing = "end" /\ argv.op = "r" => \E a : accesses = <<a>> /\ a.where = place

Dumping ==
  /\ doing # "dump" => cur_reg = 0
  /\ doing \in {"start", "first", "rest", "dispatch"} => regs = [r \in 0 .. 63 |-> Zero]
  /\ doing = "dump" => \E c \in 0 .. 63 : cur_reg = 4 * c /\ Dumped(c)
  /\ doing = "save" \/ (doing = "end" /\ argv.op = "d") => Dumped(64)
  /\ file = <<>> \/ (doing = "end" /\ file = regs)

AInv == Types /\ Parsing /\ Placed /\ Done /\ Dumping

LEMMA StringsHold == Types => Strings
  BY CommandLineAssumption DEF Types, Strings, Tokens

LEMMA InitAInv == Init => AInv
<1> SUFFICES ASSUME Init PROVE AInv
  OBVIOUS
<1> USE DEF Init
<1>1. Types
  BY DEF Types, Locations, Origin
<1>2. Parsing /\ Placed /\ Done
  BY DEF Parsing, Placed, Done, Operating
<1>3. Dumping
  BY DEF Dumping
<1> QED BY <1>1, <1>2, <1>3 DEF AInv

(* The operations after the parsing leave the arguments alone.             *)
Same ==
  /\ WellFormed <=> WellFormed'
  /\ TakenPlaces' = TakenPlaces /\ Value' = Value /\ TakenValue' = TakenValue

LEMMA ArgumentsStay ==
  ASSUME Types, UNCHANGED arguments
  PROVE  Types' /\ Same /\ hexargc' = hexargc /\ Tokens' = Tokens
         /\ Stored' = Stored /\ ReadBack' = ReadBack /\ First' = First /\ (\A r : Dword(r) = Dword(r)')
<1> USE DEF arguments
<1>1. Tokens' = Tokens /\ Numbers' = Numbers /\ hexargc' = hexargc
  BY DEF Tokens, Numbers, hexargc
<1>2. Readings' = Readings /\ TakenPlaces' = TakenPlaces
  BY <1>1 DEF Readings, Reading, TakenPlaces, TwoNumbers
<1>3. Value' = Value /\ TakenValue' = TakenValue /\ (WellFormed <=> WellFormed')
  BY <1>1, <1>2 DEF WellFormed, Value, Argument, TakenValue, DwordAndValue
<1>4. Stored' = Stored /\ ReadBack' = ReadBack
  BY <1>3 DEF Stored, ReadBack
<1>5. Types'
  BY DEF Types
<1>6. First' = First /\ \A r : Dword(r) = Dword(r)'
  BY DEF First, Dword
<1> QED BY <1>1, <1>2, <1>3, <1>4, <1>5, <1>6 DEF Same

LEMMA StartAInv == AInv /\ Start => AInv'
<1> SUFFICES ASSUME AInv, Start PROVE AInv'
  OBVIOUS
<1>1. UNCHANGED <<arguments, accesses, dump>> /\ doing = "start"
      /\ (doing' = "first" => Numeric')
      /\ doing' \in {"usage", "nopci", "scan", "steering", "first"}
  BY DEF Start, Numeric, Tokens, arguments
<1>2. Types'
  BY <1>1, ArgumentsStay DEF AInv
<1>3. Parsing'
  BY <1>1 DEF Parsing
<1>4. Placed' /\ Done'
  BY <1>1 DEF Placed, Done, Operating, AInv
<1>5. Dumping'
  BY <1>1 DEF Dumping, dump, AInv
<1> QED BY <1>2, <1>3, <1>4, <1>5 DEF AInv

LEMMA ParseFirstAInv == AInv /\ ParseFirst => AInv'
<1> SUFFICES ASSUME AInv, ParseFirst PROVE AInv'
  OBVIOUS
<1>1. /\ doing = "first" /\ doing' \in {"usage", "rest"} /\ UNCHANGED <<argv, place, accesses, dump>>
      /\ Strings /\ Numeric /\ Tokens' = Tokens
  BY StringsHold DEF ParseFirst, AInv, Parsing, Tokens
<1>2. CASE doing' = "usage"
  <2>1. UNCHANGED <<arguments, accesses, dump>>
    BY <1>1, <1>2 DEF ParseFirst, arguments
  <2>2. Types'
    BY <2>1, ArgumentsStay DEF AInv
  <2>3. Parsing' /\ Placed' /\ Done' /\ Dumping'
    BY <1>1, <1>2 DEF Parsing, Placed, Done, Operating, AInv, Dumping, dump
  <2> QED BY <2>2, <2>3 DEF AInv
<1>3. CASE doing' = "rest"
  <2>1. hexargv' = Lead /\ i' = 2
    BY <1>3 DEF ParseFirst, Lead
  <2>2. /\ Lead \in Seq(0 .. 255) /\ Len(Lead) \in 1 .. 4 /\ Lead' = Lead
        /\ Len(Tokens) \in Nat /\ Len(Tokens) >= 1
    <3>1. Lead \in Seq(0 .. 255) /\ Len(Lead) \in 1 .. 4
      BY <1>1, LeadOf
    <3>2. Lead' = Lead
      BY <1>1 DEF Lead
    <3>3. Len(Tokens) \in Nat /\ Len(Tokens) >= 1
      BY <1>1 DEF Strings, Numeric
    <3> QED BY <3>1, <3>2, <3>3
  <2>3. Types'
    <3>1. hexargv' \in Seq(0 .. 255) /\ Len(hexargv') <= 8 /\ i' \in 1 .. 6
      <4>1. PICK d \in 1 .. 4 : d = Len(Lead)
        BY <2>2
      <4>2. d <= 8
        OBVIOUS
      <4> QED BY <2>1, <2>2, <4>1, <4>2
    <3> QED BY <1>1, <3>1 DEF AInv, Types
  <2>4. Collected'
    BY <1>1, <2>1, <2>2 DEF Collected, Numeric
  <2>5. Parsing' /\ Placed' /\ Done' /\ Dumping'
    BY <1>1, <1>3, <2>4 DEF Parsing, Placed, Done, Operating, AInv, Dumping, dump
  <2> QED BY <2>3, <2>5 DEF AInv
<1> QED BY <1>1, <1>2, <1>3

LEMMA ParseRestAInv == AInv /\ ParseRest => AInv'
<1> SUFFICES ASSUME AInv, ParseRest PROVE AInv'
  OBVIOUS
<1>1. /\ doing = "rest" /\ doing' \in {"rest", "dispatch"} /\ UNCHANGED <<argv, place, accesses, dump>>
      /\ Strings /\ Collected /\ Tokens' = Tokens /\ Types /\ Lead' = Lead
      /\ Tokens \in Seq(Seq(0 .. 16)) /\ Len(Tokens) \in Nat
  <2>1. doing = "rest" /\ doing' \in {"rest", "dispatch"} /\ UNCHANGED <<argv, place, accesses, dump>>
    BY DEF ParseRest
  <2>2. Strings /\ Collected /\ Types
    BY <2>1, StringsHold DEF AInv, Parsing
  <2>3. Tokens' = Tokens
    BY <2>1 DEF Tokens
  <2>4. Lead' = Lead
    BY <2>3 DEF Lead
  <2>5. Tokens \in Seq(Seq(0 .. 16)) /\ Len(Tokens) \in Nat
    BY <2>2 DEF Strings, Collected, Numeric
  <2> QED BY <2>1, <2>2, <2>3, <2>4, <2>5
<1>2. CASE i <= Len(Tokens) /\ i < 6
  <2> DEFINE b == Bytes(Tokens[i])[1]
  <2>1. i \in 2 .. 5 /\ i \in DOMAIN Tokens
    BY <1>1, <1>2 DEF Collected
  <2>2. b \in 0 .. 255
    <3>1. Tokens[i] \in Seq(0 .. 16)
      BY <1>1, <2>1
    <3> QED BY <3>1, BytesAreBytes
  <2>3. hexargv' = Append(hexargv, b) /\ i' = i + 1 /\ (doing' = "dispatch" => ~ Hex(Tokens[i]))
    BY <1>2 DEF ParseRest
  <2> HIDE DEF b
  <2>4. /\ hexargv \in Seq(0 .. 255) /\ Len(hexargv) = Len(Lead) + i - 2
        /\ Lead \in Seq(0 .. 255) /\ Len(Lead) \in 1 .. 4
    BY <1>1, LeadOf DEF Collected
  <2>5. /\ hexargv' \in Seq(0 .. 255) /\ Len(hexargv') = Len(Lead) + i' - 2 /\ Len(hexargv') <= 8
        /\ \A k \in 1 .. Len(hexargv) : hexargv'[k] = hexargv[k]
        /\ hexargv'[Len(hexargv) + 1] = b
    <3>1. /\ hexargv' \in Seq(0 .. 255) /\ Len(hexargv') = Len(hexargv) + 1
          /\ \A k \in 1 .. Len(hexargv) : hexargv'[k] = hexargv[k]
          /\ hexargv'[Len(hexargv) + 1] = b
      BY <2>2, <2>3, <2>4
    <3>2. PICK d \in 1 .. 4 : d = Len(Lead)
      BY <2>4
    <3>3. Len(hexargv') = d + i' - 2 /\ Len(hexargv') <= 8
      <4>1. PICK e : e = Len(hexargv')
        OBVIOUS
      <4>2. e = d + i - 2 + 1
        BY <2>4, <3>1, <3>2, <4>1
      <4>3. e = d + (i + 1) - 2 /\ e <= 8
        BY <2>1, <4>2
      <4> QED BY <2>3, <4>1, <4>3
    <3> QED BY <3>1, <3>2, <3>3
  <2>6. Types'
    BY <1>1, <2>1, <2>3, <2>5 DEF Types
  <2>7. Collected'
    <3>1. \A k \in 1 .. Len(Lead) : hexargv'[k] = Lead[k]
      <4>1. \A k \in 1 .. Len(Lead) : hexargv[k] = Lead[k]
        BY <1>1 DEF Collected
      <4>2. PICK d \in 1 .. 4 : d = Len(Lead)
        BY <2>4
      <4>3. \A k \in 1 .. d : k \in 1 .. Len(hexargv)
        BY <2>1, <2>4, <4>2
      <4> QED BY <2>5, <4>1, <4>2, <4>3
    <3>2. ASSUME NEW k \in 2 .. i' - 1 PROVE hexargv'[Len(Lead) + k - 1] = Bytes(Tokens[k])[1]
      <4>1. CASE k = i
        BY <2>1, <2>4, <2>5, <4>1 DEF b
      <4>2. CASE k \in 2 .. i - 1
        <5>1. hexargv[Len(Lead) + k - 1] = Bytes(Tokens[k])[1]
          BY <1>1, <4>2 DEF Collected
        <5>2. Len(Lead) + k - 1 \in 1 .. Len(hexargv)
          BY <2>1, <2>4, <4>2
        <5> QED BY <2>5, <5>1, <5>2
      <4>3. k = i \/ k \in 2 .. i - 1
        BY <2>1, <2>3
      <4> QED BY <4>1, <4>2, <4>3
    <3>3. Numeric'
      BY <1>1 DEF Numeric, Collected
    <3>4. i' \in 2 .. 6 /\ i' <= Len(Tokens) + 1
      BY <1>1, <1>2, <2>1, <2>3
    <3> QED BY <1>1, <2>5, <3>1, <3>2, <3>3, <3>4 DEF Collected
  <2>8. doing' = "dispatch" => AllRead'
    <3>1. i' - 1 = i
      BY <2>1, <2>3
    <3> QED BY <1>1, <2>3, <3>1 DEF AllRead
  <2>9. Parsing' /\ Placed' /\ Done' /\ Dumping'
    BY <1>1, <2>7, <2>8 DEF Parsing, Placed, Done, Operating, AInv, Dumping, dump
  <2> QED BY <2>6, <2>9 DEF AInv
<1>3. CASE ~ (i <= Len(Tokens) /\ i < 6)
  <2>1. UNCHANGED <<arguments, accesses, dump>> /\ doing' = "dispatch"
    BY <1>3 DEF ParseRest, arguments
  <2>2. Types'
    BY <1>1, <2>1, ArgumentsStay
  <2>3. Collected' /\ AllRead'
    <3>1. i' = i /\ hexargv' = hexargv /\ argv' = argv
      BY <2>1 DEF arguments
    <3>2. i \in 2 .. 6
      BY <1>1 DEF Collected
    <3>3. Collected'
      BY <1>1, <3>1 DEF Collected, Numeric
    <3>4. AllRead
      BY <1>1, <1>3, <3>2 DEF AllRead
    <3> QED BY <1>1, <3>1, <3>3, <3>4 DEF AllRead
  <2>4. Parsing' /\ Placed' /\ Done' /\ Dumping'
    BY <1>1, <2>1, <2>3 DEF Parsing, Placed, Done, Operating, AInv, Dumping, dump
  <2> QED BY <2>2, <2>4 DEF AInv
<1> QED BY <1>2, <1>3

LEMMA PlacesTyped ==
  ASSUME hexargv \in Seq(0 .. 255), hexargc \in 1 .. 4
  PROVE  Places \in Locations
<1>1. ASSUME NEW k \in 1 .. hexargc PROVE hexargv[k] \in 0 .. 255
  <2>1. PICK e \in Nat : e = Len(hexargv) /\ DOMAIN hexargv = 1 .. e
    OBVIOUS
  <2>2. hexargc \in {e, e - 1}
    BY <2>1 DEF hexargc
  <2>3. k \in 1 .. e
    BY <2>1, <2>2
  <2> QED BY <2>1, <2>3
<1>2. CASE hexargc = 4
  BY <1>1, <1>2 DEF Places, Locations
<1>3. CASE hexargc = 3
  BY <1>1, <1>3 DEF Places, Locations
<1>4. CASE hexargc = 2
  BY <1>1, <1>4 DEF Places, Locations
<1>5. CASE hexargc = 1
  BY <1>1, <1>5 DEF Places, Locations
<1> QED BY <1>2, <1>3, <1>4, <1>5

LEMMA DispatchAInv == AInv /\ Dispatch => AInv'
<1> SUFFICES ASSUME AInv, Dispatch PROVE AInv'
  OBVIOUS
<1>1. /\ doing = "dispatch" /\ Strings /\ Collected /\ AllRead /\ Types
      /\ UNCHANGED <<argv, i, hexargv, accesses, dump>>
  BY StringsHold DEF Dispatch, AInv, Parsing
<1>2. CASE UNCHANGED place /\ doing' = "usage"
  BY <1>1, <1>2, ArgumentsStay
     DEF arguments, Parsing, Placed, Done, Operating, AInv, Dumping, dump
<1>3. CASE /\ hexargc \in 1 .. 4 /\ ~ (argv.op = "i" /\ hexargc = 4) /\ argv.op \in {"d", "i", "r", "w"}
           /\ doing' = Operation[argv.op] /\ place' = Places
  <2>1. Types'
    BY <1>1, <1>3, PlacesTyped DEF Types
  <2>2. Tokens' = Tokens /\ Numbers' = Numbers /\ hexargc' = hexargc
    BY <1>1 DEF Tokens, Numbers, hexargc
  <2>3. Readings' = Readings /\ TakenPlaces' = TakenPlaces
    BY <1>1, <2>2 DEF Readings, Reading, TakenPlaces, TwoNumbers
  <2>4. (WellFormed' => WellFormed) /\ Value' = Value /\ TakenValue' = TakenValue
    BY <1>1, <2>2, <2>3 DEF WellFormed, Value, Argument, TakenValue, DwordAndValue
  <2>5. /\ argv.op = "d" => doing' = "dump"
        /\ argv.op = "i" => doing' = "identify"
        /\ argv.op = "r" => doing' = "read"
        /\ argv.op = "w" => doing' = "write"
    BY <1>3 DEF Operation
  <2>6. Placed'
    <3>1. ASSUME argv.op \in {"d", "r", "w"}, WellFormed
          PROVE  Places \in TakenPlaces /\ (argv.op = "w" => Value = TakenValue)
      BY <1>1, <1>3, <3>1, ListFollowed, DwordFollowed
    <3>2. argv' = argv
      BY <1>1
    <3> QED BY <1>3, <2>2, <2>3, <2>4, <2>5, <3>1, <3>2 DEF Placed
  <2>7. Parsing' /\ Done'
    BY <1>1, <1>3, <2>5 DEF Parsing, Done, AInv
  <2>8. Dumping'
    <3>1. ASSUME argv.op = "d" PROVE Dumped(0)'
      <4>1. accesses' = <<>> /\ regs' = [r \in 0 .. 63 |-> Zero]
        BY <1>1 DEF AInv, Done, Dumping, dump
      <4>2. First' \in Nat
        <5>1. place'.reg \in 0 .. 255
          BY <2>1 DEF Types, Locations
        <5> QED BY <5>1 DEF First
      <4>3. ~ (0 > First')
        BY <4>2
      <4>4. /\ accesses' \in Seq([kind : {"read"}, width : {4}, where : Locations, val : Locations])
            /\ Len(accesses') = 0 /\ \A k : k \notin 1 .. Len(accesses')
            /\ regs' \in [0 .. 63 -> Locations \cup {Zero}]
            /\ \A r \in 0 .. 63 : ~ (r < 0)
        BY <4>1
      <4>5. Locations' = Locations /\ Zero' = Zero
        BY DEF Locations
      <4> QED BY <4>3, <4>4, <4>5 DEF Dumped, DumpTypes, ReadSoFar, Passed, InOrder, HeldSoFar
    <3>2. cur_reg' = 0 /\ file' = <<>>
      BY <1>1 DEF AInv, Dumping, dump
    <3> QED BY <1>1, <1>3, <2>5, <3>1, <3>2 DEF Dumping
  <2> QED BY <2>1, <2>6, <2>7, <2>8 DEF AInv
<1> QED BY <1>2, <1>3 DEF Dispatch, Operation

(* Any other step keeps the arguments.                                     *)
LEMMA PlacedStays ==
  ASSUME AInv, UNCHANGED arguments, doing \in Operating, doing' \in Operating,
         \/ doing \in {"dump", "save"} /\ doing' \in {"dump", "save", "end"}
         \/ doing = "read" /\ doing' = "end"
         \/ doing \in {"write", "readback"} /\ doing' \in {"readback", "end"}
         \/ doing' \in {"info", "nodevice"}
  PROVE  Types' /\ Parsing' /\ Placed'
<1>1. Types' /\ Same
  BY ArgumentsStay DEF AInv
<1>2. argv' = argv /\ place' = place
  BY DEF arguments
<1>3. Placed'
  BY <1>1, <1>2 DEF Placed, AInv, Same
<1> QED BY <1>1, <1>3 DEF Parsing, Operating

LEMMA AppendNone ==
  ASSUME NEW a
  PROVE  Append(<<>>, a) = <<a>>
  OBVIOUS

LEMMA AppendOne ==
  ASSUME NEW a, NEW b
  PROVE  Append(<<a>>, b) = <<a, b>>
<1> DEFINE S == {a, b}
           s == Append(<<a>>, b)
           t == <<a, b>>
<1>1. <<a>> \in Seq(S) /\ Len(<<a>>) = 1 /\ <<a>>[1] = a
  OBVIOUS
<1>2. s \in Seq(S) /\ Len(s) = 2 /\ s[1] = a /\ s[2] = b
  BY <1>1, AppendProperties
<1>3. t \in Seq(S) /\ Len(t) = 2 /\ t[1] = a /\ t[2] = b
  OBVIOUS
<1> HIDE DEF s, t
<1>4. \A k \in 1 .. Len(s) : s[k] = t[k]
  BY <1>2, <1>3
<1>5. s = t
  BY <1>2, <1>3, <1>4, SeqEqual
<1> QED BY <1>5 DEF s, t

LEMMA ReadAInv == AInv /\ Read => AInv'
<1> SUFFICES ASSUME AInv, Read PROVE AInv'
  OBVIOUS
<1>1. /\ doing = "read" /\ doing' = "end" /\ UNCHANGED <<arguments, dump>> /\ argv.op = "r"
      /\ accesses' = <<[kind |-> "read", width |-> 4, where |-> place, val |-> place]>>
  BY AppendNone DEF Read, Access, AInv, Placed, Operating, Done
<1>2. Types' /\ Parsing' /\ Placed'
  BY <1>1, PlacedStays DEF Operating
<1>3. Done'
  BY <1>1 DEF Done, arguments
<1>4. Dumping'
  BY <1>1 DEF Dumping, dump, AInv, arguments
<1> QED BY <1>2, <1>3, <1>4 DEF AInv

LEMMA WriteAInv == AInv /\ Write => AInv'
<1> SUFFICES ASSUME AInv, Write PROVE AInv'
  OBVIOUS
<1>1. /\ doing = "write" /\ doing' = "readback" /\ UNCHANGED <<arguments, dump>> /\ argv.op = "w"
      /\ accesses' = <<Stored>>
  BY AppendNone DEF Write, Access, AInv, Placed, Operating, Done, Stored, Value
<1>2. Types' /\ Parsing' /\ Placed'
  BY <1>1, PlacedStays DEF Operating
<1>3. Stored' = Stored
  BY <1>1, ArgumentsStay DEF AInv
<1>4. Done'
  BY <1>1, <1>3 DEF Done
<1>5. Dumping'
  BY <1>1 DEF Dumping, dump, AInv, arguments
<1> QED BY <1>2, <1>4, <1>5 DEF AInv

LEMMA ReadbackAInv == AInv /\ Readback => AInv'
<1> SUFFICES ASSUME AInv, Readback PROVE AInv'
  OBVIOUS
<1>1. /\ doing = "readback" /\ doing' = "end" /\ UNCHANGED <<arguments, dump>> /\ argv.op = "w"
      /\ accesses = <<Stored>>
  BY DEF Readback, AInv, Placed, Operating, Done
<1>2. accesses' = <<Stored, ReadBack>>
  <2>1. accesses[Len(accesses)] = Stored
    BY <1>1
  <2>2. Stored.width = Width(Len(Value))
    BY DEF Stored
  <2>3. accesses' = Append(<<Stored>>, ReadBack)
    BY <1>1, <2>1, <2>2 DEF Readback, Access, ReadBack
  <2> QED BY <2>3, AppendOne, Zenon
<1>3. Types' /\ Parsing' /\ Placed'
  BY <1>1, PlacedStays DEF Operating
<1>4. Stored' = Stored /\ ReadBack' = ReadBack
  BY <1>1, ArgumentsStay DEF AInv
<1>5. Done'
  BY <1>1, <1>2, <1>4 DEF Done, arguments
<1>6. Dumping'
  BY <1>1 DEF Dumping, dump, AInv, arguments
<1> QED BY <1>3, <1>5, <1>6 DEF AInv

LEMMA SaveAInv == AInv /\ Save => AInv'
<1> SUFFICES ASSUME AInv, Save PROVE AInv'
  OBVIOUS
<1>1. /\ doing = "save" /\ doing' = "end" /\ UNCHANGED <<arguments, accesses, cur_reg, regs>>
      /\ argv.op = "d" /\ argv' = argv /\ place' = place /\ file' \in {regs, <<>>}
  BY DEF Save, AInv, Placed, Operating, arguments
<1>2. Types' /\ Parsing' /\ Placed'
  BY <1>1, PlacedStays DEF Operating
<1>3. Done'
  BY <1>1 DEF Done
<1>4. Dumped(64)'
  BY <1>1 DEF Dumped, DumpTypes, ReadSoFar, Passed, InOrder, HeldSoFar, Dumping, AInv, First, Dword
<1>5. Dumping'
  BY <1>1, <1>4 DEF Dumping, AInv
<1> QED BY <1>2, <1>3, <1>5 DEF AInv

LEMMA IdentifyAInv == AInv /\ Identify => AInv'
<1> SUFFICES ASSUME AInv, Identify PROVE AInv'
  OBVIOUS
<1>1. /\ doing = "identify" /\ doing' \in {"info", "nodevice"} /\ UNCHANGED <<arguments, dump>>
  BY DEF Identify
<1>2. Types' /\ Parsing' /\ Placed'
  BY <1>1, PlacedStays DEF Operating
<1>3. Done' /\ Dumping'
  BY <1>1 DEF Done, Dumping, dump, AInv
<1> QED BY <1>2, <1>3 DEF AInv

LEMMA OwnAInv == AInv /\ UNCHANGED own => AInv'
<1> SUFFICES ASSUME AInv, UNCHANGED own PROVE AInv'
  OBVIOUS
<1>1. UNCHANGED <<arguments, doing, accesses, dump>> /\ UNCHANGED <<argv, i, hexargv, place>>
      /\ UNCHANGED <<cur_reg, regs, file>>
  BY DEF own, arguments, dump
<1>2. Types' /\ Same /\ hexargc' = hexargc /\ Tokens' = Tokens
      /\ Stored' = Stored /\ ReadBack' = ReadBack
  BY <1>1, ArgumentsStay DEF AInv
<1>3. Parsing'
  BY <1>1, <1>2 DEF AInv, Parsing, Collected, Numeric, Lead, AllRead
<1>4. Placed'
  BY <1>1, <1>2 DEF AInv, Placed, Same
<1>5. Done'
  BY <1>1, <1>2 DEF AInv, Done
<1>6. \A c : Dumped(c) => Dumped(c)'
  BY <1>1 DEF Dumped, DumpTypes, ReadSoFar, Passed, InOrder, HeldSoFar, First, Dword
<1>7. Dumping'
  BY <1>1, <1>6 DEF AInv, Dumping
<1> QED BY <1>2, <1>3, <1>4, <1>5, <1>7 DEF AInv

(* Where the dump is, the dwords before it are done.                       *)
LEMMA DumpDwordAInv == AInv /\ DumpDword => AInv'
<1> SUFFICES ASSUME AInv, DumpDword PROVE AInv'
  OBVIOUS
<1>1. /\ doing = "dump" /\ argv.op = "d" /\ UNCHANGED <<arguments, file>> /\ argv' = argv /\ place' = place
      /\ doing' \in {"dump", "save"} /\ file = <<>>
  BY DEF DumpDword, AInv, Placed, Operating, arguments, Dumping
<1>2. PICK c \in 0 .. 63 : cur_reg = 4 * c /\ Dumped(c)
  BY <1>1 DEF AInv, Dumping
<1>3. First \in 0 .. 63 /\ place \in Locations /\ First' = First /\ \A r : Dword(r)' = Dword(r)
  <2>1. place \in Locations /\ place.reg \in 0 .. 255
    BY DEF AInv, Types, Locations
  <2>2. First \in 0 .. 63
    BY <2>1 DEF First
  <2>3. First' = First /\ \A r : Dword(r)' = Dword(r)
    BY <1>1 DEF First, Dword
  <2> QED BY <2>1, <2>2, <2>3
<1> DEFINE skip == c < First
           here == Dword(c)
           a == [kind |-> "read", width |-> 4, where |-> here, val |-> here]
<1>4. /\ cur_reg \div 4 = c
      /\ cur_reg < 4 * (place.reg \div 4) <=> skip
      /\ [place EXCEPT !.reg = cur_reg] = here
  BY <1>2, <1>3 DEF First, Dword
<1>5. /\ regs' = [regs EXCEPT ![c] = IF skip THEN Zero ELSE here]
      /\ accesses' = IF skip THEN accesses ELSE Append(accesses, a)
  BY <1>4 DEF DumpDword, Access
<1>6. here \in Locations /\ a \in [kind : {"read"}, width : {4}, where : Locations, val : Locations]
  BY <1>3 DEF Locations, Dword
<1> HIDE DEF a, here, skip
<1>7. Dumped(c + 1)'
  <2>1. regs' \in [0 .. 63 -> Locations \cup {Zero}]
    BY <1>2, <1>5, <1>6 DEF Dumped, DumpTypes, ReadSoFar, Passed, InOrder, HeldSoFar
  <2>2. ASSUME NEW r \in 0 .. 63, r < c + 1
        PROVE  regs'[r] = IF r < First THEN Zero ELSE Dword(r)
    <3>1. CASE r = c
      BY <1>2, <1>5, <3>1 DEF Dumped, DumpTypes, ReadSoFar, Passed, InOrder, HeldSoFar, skip, here
    <3>2. CASE r # c
      <4>1. r < c
        BY <1>2, <2>2, <3>2
      <4>2. regs[r] = IF r < First THEN Zero ELSE Dword(r)
        BY <1>2, <4>1 DEF Dumped, DumpTypes, ReadSoFar, Passed, InOrder, HeldSoFar
      <4>3. regs \in [0 .. 63 -> Locations \cup {Zero}]
        BY <1>2 DEF Dumped, DumpTypes, ReadSoFar, Passed, InOrder, HeldSoFar
      <4> QED BY <1>5, <3>2, <4>2, <4>3
    <3> QED BY <3>1, <3>2
  <2> DEFINE Records == [kind : {"read"}, width : {4}, where : Locations, val : Locations]
  <2>3. accesses \in Seq(Records) /\ Len(accesses) = IF c > First THEN c - First ELSE 0
    BY <1>2 DEF Dumped, DumpTypes, ReadSoFar, Passed, InOrder, HeldSoFar
  <2>4. /\ accesses' \in Seq(Records)
        /\ Len(accesses') = IF c + 1 > First THEN c + 1 - First ELSE 0
        /\ \A k \in 1 .. Len(accesses') : accesses'[k].where = Dword(First + k - 1)
    <3>1. CASE skip
      BY <1>2, <1>3, <1>5, <3>1 DEF Dumped, DumpTypes, ReadSoFar, Passed, InOrder, HeldSoFar, skip
    <3>2. CASE ~ skip
      <4>1. PICK m \in Nat : m = Len(accesses) /\ m = c - First
        BY <1>3, <2>3, <3>2 DEF skip
      <4>2. /\ accesses' \in Seq(Records) /\ Len(accesses') = m + 1
            /\ \A k \in 1 .. m : accesses'[k] = accesses[k]
            /\ accesses'[m + 1] = a
        BY <1>5, <1>6, <2>3, <3>2, <4>1
      <4>3. ASSUME NEW k \in 1 .. m + 1 PROVE accesses'[k].where = Dword(First + k - 1)
        <5>1. CASE k = m + 1
          <6>1. First + k - 1 = c
            BY <1>3, <4>1, <5>1
          <6> QED BY <4>2, <5>1, <6>1 DEF a, here
        <5>2. CASE k \in 1 .. m
          BY <1>2, <4>1, <4>2, <5>2 DEF Dumped, DumpTypes, ReadSoFar, Passed, InOrder, HeldSoFar
        <5> QED BY <5>1, <5>2
      <4>4. m + 1 = IF c + 1 > First THEN c + 1 - First ELSE 0
        BY <1>3, <3>2, <4>1 DEF skip
      <4> QED BY <4>2, <4>3, <4>4
    <3> QED BY <3>1, <3>2
  <2>5. Locations' = Locations /\ Zero' = Zero
    BY DEF Locations
  <2>6. (Len(accesses) = Passed(c + 1))'
    <3> DEFINE m == IF c + 1 > First THEN c + 1 - First ELSE 0
    <3>1. Passed(c + 1)' = m
      BY <1>3 DEF Passed
    <3>2. Len(accesses') = m
      BY <2>4
    <3> HIDE DEF m
    <3> QED BY <3>1, <3>2
  <2>7. (\A k \in 1 .. Len(accesses) : accesses[k].where = Dword(First + k - 1))'
    <3>1. ASSUME NEW k PROVE Dword(First + k - 1)' = Dword(First + k - 1)
      BY <1>1, <1>3 DEF Dword
    <3> QED BY <2>4, <3>1
  <2>8. (\A r \in 0 .. 63 : r < c + 1 => regs[r] = IF r < First THEN Zero ELSE Dword(r))'
    <3>1. \A r : Dword(r)' = Dword(r)
      BY <1>3
    <3>2. \A r \in 0 .. 63 : r < c + 1 => regs'[r] = IF r < First THEN Zero ELSE Dword(r)
      BY <2>2
    <3> HIDE DEF Zero, First, Dword
    <3> QED BY <1>3, <2>5, <3>1, <3>2
  <2>9. (accesses \in Seq([kind : {"read"}, width : {4}, where : Locations, val : Locations]))'
    BY <2>4, <2>5
  <2>10. (regs \in [0 .. 63 -> Locations \cup {Zero}])'
    BY <2>1, <2>5
  <2>11. DumpTypes'
    BY <2>9, <2>10 DEF DumpTypes
  <2>12. ReadSoFar(c + 1)'
    BY <2>6 DEF ReadSoFar
  <2>14. InOrder'
    BY <2>7 DEF InOrder
  <2>13. HeldSoFar(c + 1)'
    BY <2>8 DEF HeldSoFar
  <2> QED BY <2>11, <2>12, <2>13, <2>14 DEF Dumped
<1>8. CASE c = 63
  <2>1. cur_reg' = 0 /\ doing' = "save"
    BY <1>2, <1>8 DEF DumpDword
  <2>2. Dumped(64)'
    BY <1>7, <1>8
  <2> QED BY <1>1, <2>1, <2>2, PlacedStays DEF AInv, Operating, Done, Dumping
<1>9. CASE c # 63
  <2>1. cur_reg' = 4 * (c + 1) /\ doing' = "dump" /\ c + 1 \in 0 .. 63
    BY <1>2, <1>9 DEF DumpDword
  <2> QED BY <1>1, <1>7, <2>1, PlacedStays DEF AInv, Operating, Done, Dumping
<1> QED BY <1>8, <1>9

LEMMA NextAInv == AInv /\ [Next]_vars => AInv'
<1> SUFFICES ASSUME AInv, [Next]_vars PROVE AInv'
  OBVIOUS
<1>1. LookUp \/ Steer \/ UNCHANGED vars => UNCHANGED own
  BY DEF LookUp, Steer, vars
<1> QED BY <1>1, StartAInv, ParseFirstAInv, ParseRestAInv, DispatchAInv, ReadAInv, WriteAInv,
           ReadbackAInv, DumpDwordAInv, SaveAInv, IdentifyAInv, OwnAInv DEF Next

LEMMA DumpedRight ==
  ASSUME Dumped(64), First \in 0 .. 63, file \in {regs, <<>>}
  PROVE  DumpRight
<1>1. Len(accesses) = 64 - First /\ accesses \in Seq([kind : {"read"}, width : {4}, where : Locations, val : Locations])
      /\ \A k \in 1 .. 64 - First : accesses[k].where = Dword(First + k - 1)
  <2>1. Len(accesses) = (IF 64 > First THEN 64 - First ELSE 0)
    BY DEF Dumped, DumpTypes, ReadSoFar, Passed, InOrder, HeldSoFar
  <2>2. Len(accesses) = 64 - First
    BY <2>1
  <2> QED BY <2>2 DEF Dumped, DumpTypes, ReadSoFar, Passed, InOrder, HeldSoFar
<1>2. DOMAIN accesses = 1 .. 64 - First
  BY <1>1
<1>3. [k \in DOMAIN accesses |-> accesses[k].where] = [k \in 1 .. 64 - First |-> Dword(First + k - 1)]
  BY <1>1, <1>2
<1>4. file # <<>> => \A r \in 0 .. 63 : file[r] = IF r < First THEN Zero ELSE Dword(r)
  <2>1. \A r \in 0 .. 63 : r < 64
    OBVIOUS
  <2> QED BY <2>1 DEF Dumped, DumpTypes, ReadSoFar, Passed, InOrder, HeldSoFar
<1> QED BY <1>3, <1>4 DEF DumpRight, First, Dword

LEMMA AInvFollowed == AInv => ArgumentsFollowed
<1> SUFFICES ASSUME AInv, doing = "end"
             PROVE  /\ WellFormed => DoneAt(TakenPlaces, TakenValue)
                    /\ argv.op = "d" => DumpRight
  BY DEF ArgumentsFollowed
<1>1. /\ argv.op \in {"d", "r", "w"}
      /\ WellFormed => place \in TakenPlaces /\ (argv.op = "w" => Value = TakenValue)
  BY DEF AInv, Placed, Operating
<1>2. ASSUME argv.op = "d" PROVE DumpRight
  <2>1. Dumped(64) /\ file \in {regs, <<>>}
    BY <1>2 DEF AInv, Dumping
  <2>2. First \in 0 .. 63
    <3>1. place.reg \in 0 .. 255
      BY DEF AInv, Types, Locations
    <3> QED BY <3>1 DEF First
  <2> QED BY <2>1, <2>2, DumpedRight
<1>3. ASSUME WellFormed PROVE DoneAt(TakenPlaces, TakenValue)
  <2>1. CASE argv.op = "d"
    BY <1>1, <1>3, <2>1 DEF DoneAt
  <2>2. CASE argv.op = "r"
    <3>1. PICK a : accesses = <<a>> /\ a.where = place
      BY <2>2 DEF AInv, Done
    <3>2. \A k \in DOMAIN accesses : accesses[k].where = place
      BY <3>1
    <3> QED BY <1>1, <1>3, <2>2, <3>2 DEF DoneAt
  <2>3. CASE argv.op = "w"
    <3>1. accesses = <<Stored, ReadBack>> /\ Strings
      BY <2>3, StringsHold DEF AInv, Done
    <3>2. /\ \A k \in DOMAIN accesses : accesses[k] \in {Stored, ReadBack}
          /\ accesses[1] = Stored /\ accesses[2] = ReadBack
      BY <3>1
    <3>3. Value = TakenValue
      BY <1>1, <1>3, <2>3
    <3>4. /\ Stored.kind = "write" /\ Stored.where = place /\ ReadBack.where = place
          /\ Stored.val = SubSeq(Bytes(Value), 1, Width(Len(Value)))
          /\ ReadBack.kind = "read" /\ ReadBack.width = Width(Len(Value))
      BY DEF Stored, ReadBack
    <3>5. \A k \in DOMAIN accesses : accesses[k].where = place
      BY <3>2, <3>4
    <3> QED BY <1>1, <1>3, <2>3, <3>2, <3>3, <3>4, <3>5 DEF DoneAt
  <2> QED BY <1>1, <2>1, <2>2, <2>3
<1> QED BY <1>2, <1>3

(* Whatever the command line, a dump that comes to its end is right, and   *)
(* an operation that comes to its end on a command line of the usage was   *)
(* on the place that the usage gives it with the value it gives, but for   *)
(* two forms: -r and -w of two numbers were on register 0 of the function  *)
(* that the second number names, and -w of a CF8h dword wrote what lies    *)
(* past the end of argv (main, parse_hex_u32, pci_write, dump_regs).       *)
THEOREM ArgumentsAlwaysFollowed == Spec => []ArgumentsFollowed
<1> QED BY InitAInv, NextAInv, AInvFollowed, PTL DEF Spec

-----------------------------------------------------------------------------
(* Keys: sequences of IDs of one length, in lexicographic order.           *)

Before(a, b) == Names!KeyBefore(a, b)

LEMMA KeyIs ==
  ASSUME NEW m \in Nat, NEW a \in Names!Keys(m)
  PROVE  DOMAIN a = 1 .. m /\ \A j \in 1 .. m : a[j] \in Nat /\ a[j] <= Ones
<1>1. DOMAIN a = 1 .. m /\ \A j \in 1 .. m : a[j] \in 0 .. Ones
  BY DEF Names!Keys, Names!Ids
<1>2. \A x \in 0 .. Ones : x \in Nat /\ x <= Ones
  BY NamesAssumption
<1> QED BY <1>1, <1>2

LEMMA KeysOrdered ==
  ASSUME NEW m \in Nat, NEW a \in Names!Keys(m), NEW b \in Names!Keys(m), a # b
  PROVE  Before(a, b) \/ Before(b, a)
<1> DEFINE D == {j \in 1 .. m : a[j] # b[j]}
<1>1. D # {}
  <2>1. SUFFICES ASSUME \A j \in 1 .. m : a[j] = b[j] PROVE FALSE
    OBVIOUS
  <2> QED BY <2>1 DEF Names!Keys
<1>2. D \in SUBSET Nat
  OBVIOUS
<1> HIDE DEF D
<1>3. PICK k \in D : \A j \in D : k <= j
  BY <1>1, <1>2, Least
<1>4. k \in 1 .. m /\ a[k] # b[k]
  BY <1>3 DEF D
<1>5. ASSUME NEW j \in 1 .. k - 1 PROVE a[j] = b[j]
  <2>1. j \in 1 .. m /\ ~(k <= j)
    BY <1>4
  <2> QED BY <2>1, <1>3 DEF D
<1>6. a[k] \in Nat /\ b[k] \in Nat /\ DOMAIN a = 1 .. m /\ DOMAIN b = 1 .. m
  BY <1>4, KeyIs
<1>7. CASE a[k] < b[k]
  BY <1>4, <1>5, <1>6, <1>7 DEF Before, Names!KeyBefore
<1>8. CASE b[k] < a[k]
  BY <1>4, <1>5, <1>6, <1>8 DEF Before, Names!KeyBefore
<1> QED BY <1>4, <1>6, <1>7, <1>8

LEMMA KeysTransitive ==
  ASSUME NEW m \in Nat, NEW a \in Names!Keys(m), NEW b \in Names!Keys(m), NEW c \in Names!Keys(m),
         Before(a, b), Before(b, c)
  PROVE  Before(a, c)
<1>1. PICK j \in 1 .. m : a[j] < b[j] /\ \A l \in 1 .. j - 1 : a[l] = b[l]
  BY KeyIs DEF Before, Names!KeyBefore
<1>2. PICK k \in 1 .. m : b[k] < c[k] /\ \A l \in 1 .. k - 1 : b[l] = c[l]
  BY KeyIs DEF Before, Names!KeyBefore
<1>3. /\ a[j] \in Nat /\ b[j] \in Nat /\ c[j] \in Nat /\ a[k] \in Nat /\ b[k] \in Nat /\ c[k] \in Nat
      /\ DOMAIN a = 1 .. m
  BY KeyIs
<1>4. CASE j <= k
  <2>1. a[j] < c[j]
    <3>1. CASE j = k
      BY <3>1, <1>1, <1>2, <1>3
    <3>2. CASE j < k
      <4>1. j \in 1 .. k - 1
        BY <3>2
      <4> QED BY <4>1, <1>1, <1>2
    <3> QED BY <1>4, <3>1, <3>2
  <2>2. \A l \in 1 .. j - 1 : a[l] = c[l]
    <3>1. \A l \in 1 .. j - 1 : l \in 1 .. k - 1
      BY <1>4
    <3> QED BY <3>1, <1>1, <1>2
  <2> QED BY <2>1, <2>2, <1>3 DEF Before, Names!KeyBefore
<1>5. CASE k < j
  <2>1. k \in 1 .. j - 1 /\ \A l \in 1 .. k - 1 : l \in 1 .. j - 1
    BY <1>5
  <2>2. a[k] < c[k] /\ \A l \in 1 .. k - 1 : a[l] = c[l]
    BY <2>1, <1>1, <1>2
  <2> QED BY <2>2, <1>3 DEF Before, Names!KeyBefore
<1> QED BY <1>4, <1>5

LEMMA KeysIrreflexive ==
  ASSUME NEW m \in Nat, NEW a \in Names!Keys(m)
  PROVE  ~Before(a, a)
<1> SUFFICES ASSUME Before(a, a) PROVE FALSE
  OBVIOUS
<1>1. PICK j \in 1 .. m : a[j] < a[j]
  BY KeyIs DEF Before, Names!KeyBefore
<1> QED BY <1>1, KeyIs

LEMMA KeysFinite ==
  ASSUME NEW m \in Nat
  PROVE  IsFiniteSet(Names!Keys(m))
<1> DEFINE Bad == {k \in Nat : ~IsFiniteSet(Names!Keys(k))}
<1> SUFFICES ASSUME Bad # {} PROVE FALSE
  OBVIOUS
<1>1. PICK k \in Bad : \A l \in Bad : k <= l
  BY Least
<1>2. CASE k = 0
  <2>1. 1 .. 0 = {}
    OBVIOUS
  <2>2. \A f, g \in [{} -> Names!Ids] : f = g
    OBVIOUS
  <2>3. CASE Names!Keys(0) = {}
    BY <1>1, <1>2, <2>3, FS_EmptySet
  <2>4. CASE Names!Keys(0) # {}
    <3>1. PICK g : g \in Names!Keys(0)
      BY <2>4
    <3>2. Names!Keys(0) = {g}
      BY <2>1, <2>2, <3>1 DEF Names!Keys
    <3> QED BY <1>1, <1>2, <3>2, FS_Singleton
  <2> QED BY <2>3, <2>4
<1>3. CASE k # 0
  <2> PICK l : l = k - 1
    OBVIOUS
  <2>1. l \in Nat /\ k = l + 1 /\ ~(k <= l)
    BY <1>1, <1>3
  <2>2. IsFiniteSet(Names!Keys(l))
    BY <1>1, <2>1
  <2>3. IsFiniteSet(Names!Ids)
    BY NamesAssumption, FS_Interval DEF Names!Ids
  <2> DEFINE P == Names!Keys(l) \X Names!Ids
             g == [f \in Names!Keys(k) |-> <<[j \in 1 .. l |-> f[j]], f[k]>>]
  <2>4. IsFiniteSet(P)
    BY <2>2, <2>3, FS_Product
  <2>5. g \in [Names!Keys(k) -> P]
    <3>1. ASSUME NEW f \in Names!Keys(k) PROVE [j \in 1 .. l |-> f[j]] \in Names!Keys(l) /\ f[k] \in Names!Ids
      <4>1. f \in [1 .. k -> Names!Ids]
        BY DEF Names!Keys
      <4>2. k \in 1 .. k /\ \A j \in 1 .. l : j \in 1 .. k
        BY <2>1
      <4> QED BY <4>1, <4>2 DEF Names!Keys
    <3> QED BY <3>1
  <2>6. \A f, h \in Names!Keys(k) : g[f] = g[h] => f = h
    <3> SUFFICES ASSUME NEW f \in Names!Keys(k), NEW h \in Names!Keys(k), g[f] = g[h] PROVE f = h
      OBVIOUS
    <3>1. [j \in 1 .. l |-> f[j]] = [j \in 1 .. l |-> h[j]] /\ f[k] = h[k]
      OBVIOUS
    <3>2. \A j \in 1 .. l : f[j] = h[j]
      <4> TAKE j \in 1 .. l
      <4>1. [x \in 1 .. l |-> f[x]][j] = [x \in 1 .. l |-> h[x]][j]
        BY <3>1
      <4> QED BY <4>1
    <3>3. \A j \in 1 .. k : f[j] = h[j]
      BY <2>1, <3>1, <3>2
    <3> QED BY <3>3 DEF Names!Keys
  <2> HIDE DEF P, g
  <2>7. g \in Injection(Names!Keys(k), P)
    BY <2>5, <2>6 DEF Injection, IsInjective
  <2>8. IsFiniteSet(Names!Keys(k))
    BY <2>4, <2>7, FS_Injection
  <2> QED BY <1>1, <2>8
<1> QED BY <1>2, <1>3

LEMMA LastKey ==
  ASSUME NEW m \in Nat, NEW S \in SUBSET Names!Keys(m), S # {}, IsFiniteSet(S)
  PROVE  \E x \in S : \A y \in S : y = x \/ Before(y, x)
<1> DEFINE HasLast(T) == \E x \in T : \A y \in T : y = x \/ Before(y, x)
           Bad == {c \in Nat : \E T \in SUBSET S : T # {} /\ IsFiniteSet(T) /\ Cardinality(T) = c /\ ~HasLast(T)}
<1> SUFFICES ASSUME ~HasLast(S) PROVE FALSE
  OBVIOUS
<1> HIDE DEF HasLast
<1>1. Cardinality(S) \in Bad
  BY FS_CardinalityType
<1>2. PICK c \in Bad : \A d \in Bad : c <= d
  <2>1. Bad \in SUBSET Nat /\ Bad # {}
    BY <1>1
  <2> HIDE DEF Bad
  <2> QED BY <2>1, Least
<1>3. PICK T \in SUBSET S : T # {} /\ IsFiniteSet(T) /\ Cardinality(T) = c /\ ~HasLast(T)
  BY <1>2
<1>4. PICK z \in T : TRUE
  BY <1>3
<1> DEFINE U == T \ {z}
<1>5. IsFiniteSet(U) /\ Cardinality(U) = c - 1 /\ U \in SUBSET S
  <2>1. z \in T /\ IsFiniteSet(T) /\ Cardinality(T) = c
    BY <1>3, <1>4
  <2> QED BY <2>1, FS_RemoveElement
<1>6. c \in Nat /\ c - 1 \in Nat /\ ~(c <= c - 1)
  <2>1. c \in Nat
    BY <1>2
  <2>2. Cardinality(U) \in Nat
    BY <1>5, FS_CardinalityType
  <2> QED BY <2>1, <2>2, <1>5
<1>7. CASE U = {}
  <2>1. \A y \in T : y = z
    BY <1>7
  <2> QED BY <2>1, <1>3, <1>4 DEF HasLast
<1>8. CASE U # {}
  <2>1. HasLast(U)
    <3>1. c - 1 \notin Bad
      BY <1>2, <1>6
    <3> QED BY <3>1, <1>5, <1>6, <1>8
  <2>2. PICK x \in U : \A y \in U : y = x \/ Before(y, x)
    BY <2>1 DEF HasLast
  <2>3. x \in Names!Keys(m) /\ z \in Names!Keys(m) /\ x # z /\ x \in T
    BY <1>3, <1>4
  <2>4. CASE Before(z, x)
    <3>1. \A y \in T : y = x \/ Before(y, x)
      BY <2>2, <2>4
    <3> QED BY <2>3, <3>1, <1>3 DEF HasLast
  <2>5. CASE Before(x, z)
    <3>1. ASSUME NEW y \in T PROVE y = z \/ Before(y, z)
      <4>1. y \in Names!Keys(m)
        BY <1>3
      <4>2. CASE y # z
        BY <4>1, <4>2, <2>2, <2>3, <2>5, KeysTransitive
      <4> QED BY <4>2
    <3> QED BY <1>4, <3>1, <1>3 DEF HasLast
  <2> QED BY <2>3, <2>4, <2>5, KeysOrdered
<1> QED BY <1>7, <1>8

LEMMA SameCount ==
  ASSUME NEW S
  PROVE  Names!Cardinality(S) = Cardinality(S)
  BY DEF Names!Cardinality, Cardinality

Ascends(f, S) ==
  /\ f \in [1 .. Cardinality(S) -> S]
  /\ \A i1, j1 \in DOMAIN f : i1 < j1 => Names!KeyBefore(f[i1], f[j1])

LEMMA AscendingExists ==
  ASSUME NEW m \in Nat, NEW S \in SUBSET Names!Keys(m)
  PROVE  \E f : Ascends(f, S)
<1> DEFINE Bad == {c \in Nat : \E T \in SUBSET S : IsFiniteSet(T) /\ Cardinality(T) = c /\ ~ \E f : Ascends(f, T)}
<1>0. IsFiniteSet(S)
  BY KeysFinite, FS_Subset
<1> SUFFICES ASSUME ~ \E f : Ascends(f, S) PROVE FALSE
  OBVIOUS
<1>1. Bad \in SUBSET Nat /\ Bad # {}
  <2>1. Cardinality(S) \in Bad
    BY <1>0, FS_CardinalityType
  <2> QED BY <2>1
<1>2. PICK c \in Bad : \A d \in Bad : c <= d
  <2> HIDE DEF Bad
  <2> QED BY <1>1, Least
<1>3. PICK T \in SUBSET S : IsFiniteSet(T) /\ Cardinality(T) = c /\ ~ \E f : Ascends(f, T)
  BY <1>2
<1>4. CASE T = {}
  <2>1. Cardinality(T) = 0
    BY <1>4, FS_EmptySet
  <2> DEFINE f == [k \in 1 .. 0 |-> 0]
  <2>2. 1 .. 0 = {}
    OBVIOUS
  <2>3. f \in [1 .. 0 -> T] /\ DOMAIN f = {}
    BY <2>2
  <2> HIDE DEF f
  <2>4. Ascends(f, T)
    BY <2>1, <2>3 DEF Ascends
  <2> QED BY <2>4, <1>3
<1>5. CASE T # {}
  <2>1. PICK x \in T : \A y \in T : y = x \/ Before(y, x)
    BY <1>3, <1>5, LastKey
  <2> DEFINE U == T \ {x}
  <2>2. IsFiniteSet(U) /\ Cardinality(U) = c - 1 /\ U \in SUBSET S
    <3>1. x \in T /\ IsFiniteSet(T) /\ Cardinality(T) = c
      BY <1>3, <2>1
    <3> QED BY <3>1, FS_RemoveElement
  <2>3. c \in Nat \ {0} /\ c - 1 \in Nat /\ ~(c <= c - 1)
    <3>1. c \in Nat
      BY <1>2
    <3>2. Cardinality(U) \in Nat
      BY <2>2, FS_CardinalityType
    <3> QED BY <3>1, <3>2, <2>2
  <2>4. PICK g : Ascends(g, U)
    <3>1. c - 1 \notin Bad
      BY <1>2, <2>3
    <3> QED BY <3>1, <2>2, <2>3
  <2>5. /\ g \in [1 .. c - 1 -> U]
        /\ \A i1, j1 \in 1 .. c - 1 : i1 < j1 => Before(g[i1], g[j1])
    <3>1. g \in [1 .. c - 1 -> U] /\ \A i1, j1 \in DOMAIN g : i1 < j1 => Names!KeyBefore(g[i1], g[j1])
      BY <2>2, <2>4 DEF Ascends
    <3>2. DOMAIN g = 1 .. c - 1
      BY <3>1
    <3> QED BY <3>1, <3>2 DEF Before
  <2> DEFINE f == [k \in 1 .. c |-> IF k = c THEN x ELSE g[k]]
  <2>6. \A k \in 1 .. c : (k = c /\ f[k] = x) \/ (k \in 1 .. c - 1 /\ f[k] = g[k] /\ g[k] \in U)
    BY <2>3, <2>5
  <2>7. DOMAIN f = 1 .. c /\ f = [k \in 1 .. c |-> f[k]]
    OBVIOUS
  <2> HIDE DEF f
  <2>8. f \in [1 .. c -> T]
    BY <2>1, <2>6, <2>7
  <2>9. ASSUME NEW i1 \in 1 .. c, NEW j1 \in 1 .. c, i1 < j1 PROVE Before(f[i1], f[j1])
    <3>1. i1 \in 1 .. c - 1 /\ f[i1] = g[i1] /\ g[i1] \in U
      BY <2>3, <2>6, <2>9
    <3>2. CASE j1 = c
      <4>1. f[j1] = x
        BY <3>2, <2>3, <2>6
      <4> QED BY <4>1, <3>1, <2>1
    <3>3. CASE j1 # c
      <4>1. j1 \in 1 .. c - 1 /\ f[j1] = g[j1]
        BY <3>3, <2>6
      <4> QED BY <4>1, <3>1, <2>5, <2>9
    <3> QED BY <3>2, <3>3
  <2>10. Ascends(f, T)
    BY <1>3, <2>7, <2>8, <2>9 DEF Ascends, Before
  <2> QED BY <2>10, <1>3
<1> QED BY <1>4, <1>5

(* What Sorted lists: all there is, once, in order.                        *)
LEMMA SortedIs ==
  ASSUME NEW m \in Nat, NEW S \in SUBSET Names!Keys(m)
  PROVE  /\ Cardinality(S) \in Nat /\ IsFiniteSet(S)
         /\ Names!Sorted(S) \in [1 .. Cardinality(S) -> S]
         /\ \A k, l \in 1 .. Cardinality(S) : k < l => Before(Names!Sorted(S)[k], Names!Sorted(S)[l])
         /\ \A x \in S : \E k \in 1 .. Cardinality(S) : Names!Sorted(S)[k] = x
         /\ \A k, l \in 1 .. Cardinality(S) : Names!Sorted(S)[k] = Names!Sorted(S)[l] => k = l
<1>1. IsFiniteSet(S) /\ Cardinality(S) \in Nat
  BY KeysFinite, FS_Subset, FS_CardinalityType
<1> DEFINE f == Names!Sorted(S)
           n1 == Cardinality(S)
<1>2. /\ f \in [1 .. n1 -> S]
      /\ \A i1, j1 \in DOMAIN f : i1 < j1 => Names!KeyBefore(f[i1], f[j1])
  <2>1. PICK g : Ascends(g, S)
    BY AscendingExists
  <2>2. f = CHOOSE h \in [1 .. Cardinality(S) -> S] :
                \A i1, j1 \in DOMAIN h : i1 < j1 => Names!KeyBefore(h[i1], h[j1])
    <3>1. Names!Cardinality(S) = Cardinality(S)
      BY SameCount
    <3> QED BY <3>1 DEF Names!Sorted
  <2> HIDE DEF f
  <2>3. \E h \in [1 .. Cardinality(S) -> S] :
                \A i1, j1 \in DOMAIN h : i1 < j1 => Names!KeyBefore(h[i1], h[j1])
    BY <2>1 DEF Ascends
  <2> QED BY <2>2, <2>3
<1> HIDE DEF f
<1>3. DOMAIN f = 1 .. n1
  BY <1>2
<1>4. \A k, l \in 1 .. n1 : k < l => Before(f[k], f[l])
  BY <1>2, <1>3 DEF Before
<1>5. ASSUME NEW k \in 1 .. n1, NEW l \in 1 .. n1, f[k] = f[l] PROVE k = l
  <2>1. f[k] \in Names!Keys(m)
    BY <1>2
  <2>2. ~(k < l) /\ ~(l < k)
    BY <2>1, <1>4, <1>5, KeysIrreflexive
  <2>3. k \in Int /\ l \in Int
    OBVIOUS
  <2> QED BY <2>2, <2>3
<1>6. f \in Injection(1 .. n1, S)
  BY <1>2, <1>5 DEF Injection, IsInjective
<1>7. Cardinality(1 .. n1) = Cardinality(S)
  <2>1. 1 \in Int /\ n1 \in Int /\ n1 \in Nat
    BY <1>1
  <2> PICK c : c = Cardinality(1 .. n1)
    OBVIOUS
  <2> HIDE DEF n1
  <2>2. c = IF 1 > n1 THEN 0 ELSE n1 - 1 + 1
    BY <2>1, FS_Interval
  <2>3. c = n1
    BY <2>1, <2>2
  <2> QED BY <2>3 DEF n1
<1>8. f \in Surjection(1 .. n1, S)
  BY <1>1, <1>6, <1>7, FS_Injection
<1>9. \A x \in S : \E k \in 1 .. n1 : f[k] = x
  BY <1>8 DEF Surjection
<1> QED BY <1>1, <1>2, <1>4, <1>5, <1>9 DEF f

-----------------------------------------------------------------------------
(* Tables: blocks that follow each other.                                  *)

(* The definition of UpTo is that of a function.                           *)
LEMMA UpToUnfolds ==
  ASSUME NEW blocks, Len(blocks) \in Nat
  PROVE  /\ Names!UpTo(blocks)[0] = <<>>
         /\ \A k \in 1 .. Len(blocks) : Names!UpTo(blocks)[k] = Names!UpTo(blocks)[k - 1] \o blocks[k]
<1> DEFINE Body(m, f) == [k \in 0 .. m |-> IF k = 0 THEN <<>> ELSE f[k - 1] \o blocks[k]]
           Bad == {m \in Nat : ~ \E f : f = Body(m, f)}
<1>1. ASSUME Bad # {} PROVE FALSE
  <2>1. PICK m \in Bad : \A l \in Bad : m <= l
    <3>1. Bad \in SUBSET Nat
      OBVIOUS
    <3> HIDE DEF Bad
    <3> QED BY <3>1, <1>1, Least
  <2>2. CASE m = 0
    <3> DEFINE f == [k \in 0 .. 0 |-> <<>>]
    <3>1. f = Body(0, f)
      OBVIOUS
    <3> QED BY <3>1, <2>1, <2>2
  <2>3. CASE m # 0
    <3>1. m - 1 \in Nat /\ ~(m <= m - 1) /\ m \in Nat
      BY <2>1, <2>3
    <3>2. PICK f : f = Body(m - 1, f)
      <4>1. m - 1 \notin Bad
        <5> HIDE DEF Bad
        <5> QED BY <2>1, <3>1
      <4> QED BY <3>1, <4>1
    <3> DEFINE g == [k \in 0 .. m |-> IF k = m THEN f[m - 1] \o blocks[m] ELSE f[k]]
    <3>3. ASSUME NEW k \in 0 .. m PROVE g[k] = IF k = 0 THEN <<>> ELSE g[k - 1] \o blocks[k]
      <4>1. CASE k = m
        <5>1. g[m - 1] = f[m - 1] /\ g[k] = f[m - 1] \o blocks[m] /\ k # 0
          BY <2>3, <3>1, <4>1
        <5> HIDE DEF g
        <5> QED BY <5>1, <4>1
      <4>2. CASE k # m
        <5>1. k \in 0 .. m - 1
          BY <3>1, <4>2
        <5>2. f[k] = IF k = 0 THEN <<>> ELSE f[k - 1] \o blocks[k]
          <6>1. Body(m - 1, f)[k] = IF k = 0 THEN <<>> ELSE f[k - 1] \o blocks[k]
            BY <5>1
          <6> HIDE DEF Body
          <6> QED BY <6>1, <3>2
        <5>3. g[k] = f[k] /\ (k # 0 => g[k - 1] = f[k - 1])
          BY <5>1, <3>1, <4>2
        <5> HIDE DEF g
        <5> QED BY <5>2, <5>3
      <4> QED BY <4>1, <4>2
    <3>4. g = [k \in 0 .. m |-> g[k]]
      OBVIOUS
    <3> HIDE DEF g
    <3>5. g = Body(m, g)
      BY <3>3, <3>4
    <3> QED BY <3>5, <2>1
  <2> QED BY <2>2, <2>3
<1> DEFINE u == Names!UpTo(blocks)
<1>2. u = Body(Len(blocks), u)
  <2>1. u = CHOOSE f : f = Body(Len(blocks), f)
    BY DEF Names!UpTo
  <2>2. \E f : f = Body(Len(blocks), f)
    BY <1>1
  <2> HIDE DEF u, Body
  <2> QED BY <2>1, <2>2
<1>3. \A k \in 0 .. Len(blocks) : u[k] = IF k = 0 THEN <<>> ELSE u[k - 1] \o blocks[k]
  <2> TAKE k \in 0 .. Len(blocks)
  <2> HIDE DEF u
  <2>1. Body(Len(blocks), u)[k] = IF k = 0 THEN <<>> ELSE u[k - 1] \o blocks[k]
    OBVIOUS
  <2> HIDE DEF Body
  <2> QED BY <1>2, <2>1
<1> HIDE DEF u
<1>4. u[0] = <<>>
  BY <1>3
<1>5. ASSUME NEW k \in 1 .. Len(blocks) PROVE u[k] = u[k - 1] \o blocks[k]
  <2>1. k \in 0 .. Len(blocks) /\ k # 0
    OBVIOUS
  <2> QED BY <2>1, <1>3
<1> QED BY <1>4, <1>5 DEF u

LEMMA StillFits ==
  ASSUME NEW a \in Nat, NEW b \in Nat, NEW c \in Nat, NEW d \in Nat, a + b <= c
  PROVE  a + b <= c + d
  OBVIOUS

AreBlocks(blocks, X) == blocks \in Seq(Seq(X))
Follow(u, blocks, X) ==
  /\ \A k \in 0 .. Len(blocks) : u[k] \in Seq(X)
  /\ \A k \in 1 .. Len(blocks) : \A m \in k .. Len(blocks) :
       /\ Len(u[k - 1]) + Len(blocks[k]) <= Len(u[m])
       /\ m = k => Len(u[m]) = Len(u[k - 1]) + Len(blocks[k])
       /\ \A j \in 1 .. Len(blocks[k]) : u[m][Len(u[k - 1]) + j] = blocks[k][j]

(* A block stays where it is when others follow.                           *)
LEMMA BlocksFollow ==
  ASSUME NEW X, NEW blocks, AreBlocks(blocks, X)
  PROVE  Follow(Names!UpTo(blocks), blocks, X)
<1> DEFINE u == Names!UpTo(blocks)
           K == Len(blocks)
<1> USE DEF AreBlocks
<1>1. K \in Nat /\ \A k \in 1 .. K : blocks[k] \in Seq(X)
  OBVIOUS
<1>2. u[0] = <<>> /\ \A k \in 1 .. K : u[k] = u[k - 1] \o blocks[k]
  BY <1>1, UpToUnfolds
<1> HIDE DEF u, K
<1>3. \A k \in 0 .. K : u[k] \in Seq(X)
  <2> DEFINE Bad == {k \in 0 .. K : u[k] \notin Seq(X)}
  <2> SUFFICES ASSUME Bad # {} PROVE FALSE
    OBVIOUS
  <2>1. PICK k \in Bad : \A l \in Bad : k <= l
    <3>1. Bad \in SUBSET Nat
      BY <1>1
    <3> HIDE DEF Bad
    <3> QED BY <3>1, Least
  <2>2. k # 0
    <3>1. <<>> \in Seq(X)
      OBVIOUS
    <3> QED BY <3>1, <2>1, <1>2
  <2>3. k - 1 \in 0 .. K /\ k \in 1 .. K /\ ~(k <= k - 1)
    BY <1>1, <2>1, <2>2
  <2>4. u[k - 1] \in Seq(X)
    BY <2>1, <2>3
  <2>5. u[k] \in Seq(X)
    <3>1. u[k - 1] \o blocks[k] \in Seq(X)
      BY <1>1, <2>3, <2>4, ConcatProperties
    <3> QED BY <3>1, <1>2, <2>3
  <2> QED BY <2>1, <2>5
<1>4. ASSUME NEW k \in 1 .. K
      PROVE  /\ Len(u[k]) = Len(u[k - 1]) + Len(blocks[k])
             /\ Len(u[k - 1]) \in Nat /\ Len(blocks[k]) \in Nat
             /\ \A j \in 1 .. Len(u[k - 1]) : u[k][j] = u[k - 1][j]
             /\ \A j \in 1 .. Len(blocks[k]) : u[k][Len(u[k - 1]) + j] = blocks[k][j]
  <2>1. k - 1 \in 0 .. K
    BY <1>1
  <2>2. u[k - 1] \in Seq(X) /\ blocks[k] \in Seq(X) /\ u[k] = u[k - 1] \o blocks[k]
    BY <1>1, <1>2, <1>3, <2>1
  <2> DEFINE a == u[k - 1]
             b == blocks[k]
  <2> HIDE DEF a, b
  <2>3. a \in Seq(X) /\ b \in Seq(X) /\ u[k] = a \o b
    BY <2>2 DEF a, b
  <2>4. Len(a) \in Nat /\ Len(b) \in Nat
    BY <2>3
  <2>5. /\ Len(a \o b) = Len(a) + Len(b)
        /\ \A j \in 1 .. Len(a) + Len(b) : (a \o b)[j] = IF j <= Len(a) THEN a[j] ELSE b[j - Len(a)]
    BY <2>3, ConcatProperties
  <2>6. ASSUME NEW j \in 1 .. Len(a) PROVE (a \o b)[j] = a[j]
    BY <2>4, <2>5
  <2>7. ASSUME NEW j \in 1 .. Len(b) PROVE (a \o b)[Len(a) + j] = b[j]
    <3>1. Len(a) + j \in 1 .. Len(a) + Len(b) /\ ~(Len(a) + j <= Len(a)) /\ (Len(a) + j) - Len(a) = j
      BY <2>4
    <3> QED BY <3>1, <2>5
  <2> QED BY <2>3, <2>4, <2>5, <2>6, <2>7 DEF a, b
<1>5. ASSUME NEW k \in 1 .. K
      PROVE  \A m \in k .. K :
                  /\ Len(u[k - 1]) + Len(blocks[k]) <= Len(u[m])
                  /\ m = k => Len(u[m]) = Len(u[k - 1]) + Len(blocks[k])
                  /\ \A j \in 1 .. Len(blocks[k]) : u[m][Len(u[k - 1]) + j] = blocks[k][j]
  <2> DEFINE o == Len(u[k - 1])
             b == blocks[k]
             Good(m) == /\ o + Len(b) <= Len(u[m])
                        /\ m = k => Len(u[m]) = o + Len(b)
                        /\ \A j \in 1 .. Len(b) : u[m][o + j] = b[j]
             Bad == {m \in k .. K : ~Good(m)}
  <2> SUFFICES ASSUME Bad # {} PROVE FALSE
    OBVIOUS
  <2>1. o \in Nat /\ Len(b) \in Nat
    BY <1>4
  <2> HIDE DEF o, b
  <2>2. PICK m \in Bad : \A l \in Bad : m <= l
    <3>1. Bad \in SUBSET Nat
      BY <1>1
    <3> HIDE DEF Bad
    <3> QED BY <3>1, Least
  <2>3. m \in Nat /\ k \in Nat /\ k <= m /\ m \in 1 .. K
    BY <1>1, <2>2
  <2>4. CASE m = k
    <3>1. Good(k)
      <4>1. Len(u[k]) = o + Len(b) /\ \A j \in 1 .. Len(b) : u[k][o + j] = b[j]
        BY <1>4 DEF o, b
      <4>2. o + Len(b) <= Len(u[k])
        <5> PICK x : x = Len(u[k])
          OBVIOUS
        <5> PICK y : y = Len(b)
          OBVIOUS
        <5>1. o + y <= x
          BY <4>1, <2>1
        <5> QED BY <5>1
      <4> QED BY <4>1, <4>2
    <3> QED BY <3>1, <2>2, <2>4
  <2>5. CASE m # k
    <3>1. m - 1 \in k .. K /\ ~(m <= m - 1)
      BY <1>1, <2>3, <2>5
    <3>2. Good(m - 1)
      <4>1. m - 1 \notin Bad
        <5> HIDE DEF Bad
        <5> QED BY <2>2, <3>1
      <4> QED BY <3>1, <4>1
    <3>3. /\ Len(u[m]) = Len(u[m - 1]) + Len(blocks[m]) /\ Len(u[m - 1]) \in Nat /\ Len(blocks[m]) \in Nat
          /\ \A j \in 1 .. Len(u[m - 1]) : u[m][j] = u[m - 1][j]
      BY <1>4, <2>3
    <3>4. o + Len(b) <= Len(u[m])
      <4>1. o + Len(b) <= Len(u[m - 1])
        BY <3>2
      <4> HIDE DEF Good, Bad
      <4>2. o + Len(b) <= Len(u[m - 1]) + Len(blocks[m])
        BY <4>1, <3>3, <2>1, StillFits
      <4> QED BY <4>2, <3>3
    <3>5. ASSUME NEW j \in 1 .. Len(b) PROVE u[m][o + j] = b[j]
      <4>1. u[m - 1][o + j] = b[j] /\ o + Len(b) <= Len(u[m - 1])
        BY <3>2
      <4> HIDE DEF Good, Bad
      <4>2. o + j \in 1 .. Len(u[m - 1])
        BY <4>1, <2>1, <3>3, SMTT(20)
      <4> QED BY <4>1, <4>2, <3>3
    <3>6. Good(m)
      BY <3>4, <3>5, <2>5
    <3> QED BY <3>6, <2>2
  <2> QED BY <2>4, <2>5
<1> QED BY <1>3, <1>5 DEF u, K, Follow

(* The sequence E lies in the sequence T, after its first lo members.      *)
Lies(E, lo, T) ==
  /\ lo \in Nat /\ Len(T) \in Nat /\ DOMAIN T = 1 .. Len(T) /\ lo + Len(E) <= Len(T)
  /\ \A j \in 1 .. Len(E) : T[lo + j] = E[j]

LEMMA BlockStays ==
  ASSUME NEW X, NEW blocks, AreBlocks(blocks, X), NEW k \in 1 .. Len(blocks)
  PROVE  LET u == Names!UpTo(blocks)
             c == Len(blocks)
         IN  /\ Lies(blocks[k], Len(u[k - 1]), u[c]) /\ u[c] \in Seq(X)
             /\ k = c => Len(u[c]) = Len(u[k - 1]) + Len(blocks[k])
<1> DEFINE c == Len(blocks)
           u == Names!UpTo(blocks)
<1>1. c \in Nat /\ k - 1 \in 0 .. c /\ c \in 0 .. c /\ c \in k .. c /\ k \in 1 .. c
  BY DEF AreBlocks
<1>2. Follow(u, blocks, X)
  BY BlocksFollow
<1> HIDE DEF u
<1>3. u[k - 1] \in Seq(X) /\ u[c] \in Seq(X)
  BY <1>1, <1>2 DEF Follow
<1>4. /\ Len(u[k - 1]) + Len(blocks[k]) <= Len(u[c])
      /\ c = k => Len(u[c]) = Len(u[k - 1]) + Len(blocks[k])
      /\ \A j \in 1 .. Len(blocks[k]) : u[c][Len(u[k - 1]) + j] = blocks[k][j]
  BY <1>1, <1>2 DEF Follow
<1>5. Len(u[k - 1]) \in Nat /\ Len(u[c]) \in Nat /\ DOMAIN u[c] = 1 .. Len(u[c])
  BY <1>3
<1> HIDE DEF c
<1>6. Lies(blocks[k], Len(u[k - 1]), u[c])
  BY <1>4, <1>5 DEF Lies
<1> QED BY <1>3, <1>4, <1>6 DEF u, c

-----------------------------------------------------------------------------
(* Where entries are in the archive.                                       *)

Entries == Len(disk.archive)
Step(k) == Names!HeaderSize(disk.archive[k]) + disk.archive[k].data

LEMMA EntryIs ==
  ASSUME Names!IsDisk(disk), NEW k \in 1 .. Entries
  PROVE  disk.archive[k].header \in Nat /\ disk.archive[k].exts \in Nat /\ disk.archive[k].data \in Nat
<1> DEFINE E == [db : Names!Dbs, method : STRING, level : Nat, header : Nat, exts : Nat, data : Nat]
<1>1. disk.archive \in Seq(E)
  BY DEF Names!IsDisk
<1> HIDE DEF E
<1>2. disk.archive[k] \in E
  BY <1>1 DEF Entries
<1> QED BY <1>2 DEF E

LEMMA StepsGo ==
  ASSUME Names!IsDisk(disk)
  PROVE  /\ Entries \in Nat /\ DOMAIN disk.archive = 1 .. Entries
         /\ \A k \in 1 .. Entries : Step(k) \in Nat \ {0}
<1>1. disk.archive \in Seq([db : Names!Dbs, method : STRING, level : Nat, header : Nat, exts : Nat, data : Nat])
  BY DEF Names!IsDisk
<1>2. Entries \in Nat /\ DOMAIN disk.archive = 1 .. Entries
  BY <1>1 DEF Entries
<1>3. ASSUME NEW k \in 1 .. Entries PROVE Step(k) \in Nat \ {0}
  <2>1. disk.archive[k].header \in Nat /\ disk.archive[k].exts \in Nat /\ disk.archive[k].data \in Nat
    BY EntryIs
  <2> QED BY <2>1 DEF Step, Names!HeaderSize
<1> QED BY <1>2, <1>3

LEMMA PlaceUnfolds ==
  ASSUME Names!IsDisk(disk)
  PROVE  Names!Place(1) = 0 /\ \A k \in 1 .. Entries : Names!Place(k + 1) = Names!Place(k) + Step(k)
<1> DEFINE Body(m, f) == [k \in 0 .. m |-> IF k = 0 THEN 0
                            ELSE f[k - 1] + Names!HeaderSize(disk.archive[k]) + disk.archive[k].data]
           Bad == {m \in Nat : ~ \E f : f = Body(m, f)}
<1>1. ASSUME Bad # {} PROVE FALSE
  <2>1. PICK m \in Bad : \A l \in Bad : m <= l
    <3>1. Bad \in SUBSET Nat
      OBVIOUS
    <3> HIDE DEF Bad
    <3> QED BY <3>1, <1>1, Least
  <2>2. CASE m = 0
    <3> DEFINE f == [k \in 0 .. 0 |-> 0]
    <3>1. f = Body(0, f)
      OBVIOUS
    <3> QED BY <3>1, <2>1, <2>2
  <2>3. CASE m # 0
    <3>1. m - 1 \in Nat /\ ~(m <= m - 1) /\ m \in Nat
      BY <2>1, <2>3
    <3>2. PICK f : f = Body(m - 1, f)
      <4>1. m - 1 \notin Bad
        <5> HIDE DEF Bad
        <5> QED BY <2>1, <3>1
      <4> QED BY <3>1, <4>1
    <3> DEFINE after(x, k) == x + Names!HeaderSize(disk.archive[k]) + disk.archive[k].data
               g == [k \in 0 .. m |-> IF k = m THEN after(f[m - 1], m) ELSE f[k]]
    <3>3. ASSUME NEW k \in 0 .. m PROVE g[k] = IF k = 0 THEN 0 ELSE after(g[k - 1], k)
      <4> HIDE DEF after
      <4>1. CASE k = m
        <5>1. g[m - 1] = f[m - 1] /\ g[k] = after(f[m - 1], m) /\ k # 0
          BY <2>3, <3>1, <4>1
        <5> HIDE DEF g
        <5> QED BY <5>1, <4>1
      <4>2. CASE k # m
        <5>1. k \in 0 .. m - 1
          BY <3>1, <4>2
        <5>2. f[k] = IF k = 0 THEN 0 ELSE after(f[k - 1], k)
          <6>1. Body(m - 1, f)[k] = IF k = 0 THEN 0 ELSE after(f[k - 1], k)
            BY <5>1 DEF after
          <6> HIDE DEF Body
          <6> QED BY <6>1, <3>2
        <5>3. g[k] = f[k] /\ (k # 0 => g[k - 1] = f[k - 1])
          BY <5>1, <3>1, <4>2
        <5> HIDE DEF g
        <5> QED BY <5>2, <5>3
      <4> QED BY <4>1, <4>2
    <3>4. g = [k \in 0 .. m |-> g[k]]
      OBVIOUS
    <3> HIDE DEF g
    <3>5. g = Body(m, g)
      BY <3>3, <3>4
    <3> QED BY <3>5, <2>1
  <2> QED BY <2>2, <2>3
<1>2. Entries \in Nat
  BY StepsGo
<1> DEFINE u == CHOOSE f : f = Body(Entries, f)
<1>3. \A k : Names!Place(k) = u[k - 1]
  BY DEF Names!Place, Entries
<1>4. u = Body(Entries, u)
  <2>1. \E f : f = Body(Entries, f)
    BY <1>1, <1>2
  <2> HIDE DEF Body
  <2> QED BY <2>1
<1> HIDE DEF u
<1>5. \A k \in 0 .. Entries :
         u[k] = IF k = 0 THEN 0 ELSE u[k - 1] + Names!HeaderSize(disk.archive[k]) + disk.archive[k].data
  <2> TAKE k \in 0 .. Entries
  <2>1. Body(Entries, u)[k] = IF k = 0 THEN 0 ELSE u[k - 1] + Names!HeaderSize(disk.archive[k]) + disk.archive[k].data
    OBVIOUS
  <2> HIDE DEF Body
  <2> QED BY <1>4, <2>1
<1>6. Names!Place(1) = 0
  <2>1. 0 \in 0 .. Entries /\ 1 - 1 = 0
    BY <1>2
  <2> QED BY <2>1, <1>3, <1>5
<1>7. ASSUME NEW k \in 1 .. Entries, u[k - 1] \in Nat
      PROVE  u[k] = u[k - 1] + Step(k) /\ u[k] \in Nat
  <2>1. disk.archive[k].header \in Nat /\ disk.archive[k].exts \in Nat /\ disk.archive[k].data \in Nat
    BY EntryIs
  <2>2. u[k] = u[k - 1] + Names!HeaderSize(disk.archive[k]) + disk.archive[k].data
    <3>1. k \in 0 .. Entries /\ k # 0
      OBVIOUS
    <3> QED BY <3>1, <1>5
  <2>3. Names!HeaderSize(disk.archive[k]) \in Nat
    BY <2>1 DEF Names!HeaderSize
  <2> QED BY <1>7, <2>1, <2>2, <2>3 DEF Step
<1>8. \A k \in 0 .. Entries : u[k] \in Nat
  <2> DEFINE Wrong == {k \in 0 .. Entries : u[k] \notin Nat}
  <2> SUFFICES ASSUME Wrong # {} PROVE FALSE
    OBVIOUS
  <2>1. PICK k \in Wrong : \A l \in Wrong : k <= l
    <3>1. Wrong \in SUBSET Nat
      BY <1>2
    <3> HIDE DEF Wrong
    <3> QED BY <3>1, Least
  <2>2. k # 0
    <3>1. 0 \in 0 .. Entries
      BY <1>2
    <3> QED BY <3>1, <2>1, <1>5
  <2>3. k \in 1 .. Entries /\ k - 1 \in 0 .. Entries /\ ~(k <= k - 1)
    BY <2>1, <2>2, <1>2
  <2>4. u[k - 1] \in Nat
    BY <2>1, <2>3
  <2>5. u[k] \in Nat
    BY <2>3, <2>4, <1>7
  <2> QED BY <2>1, <2>5
<1>9. ASSUME NEW k \in 1 .. Entries PROVE Names!Place(k + 1) = Names!Place(k) + Step(k)
  <2>1. (k + 1) - 1 = k /\ k - 1 \in 0 .. Entries
    BY <1>2
  <2>2. Names!Place(k + 1) = u[k] /\ Names!Place(k) = u[k - 1]
    BY <2>1, <1>3
  <2> QED BY <2>1, <2>2, <1>7, <1>8
<1> QED BY <1>6, <1>9

(* Entries lie apart, in order.                                            *)
LEMMA PlacesGrow ==
  ASSUME Names!IsDisk(disk)
  PROVE  /\ \A k \in 1 .. Entries + 1 : Names!Place(k) \in Nat
         /\ \A j, k \in 1 .. Entries + 1 : j < k => Names!Place(j) < Names!Place(k)
<1> DEFINE P(k) == Names!Place(k)
<1>1. Entries \in Nat /\ \A k \in 1 .. Entries : Step(k) \in Nat \ {0}
  BY StepsGo
<1>2. P(1) = 0 /\ \A k \in 1 .. Entries : P(k + 1) = P(k) + Step(k)
  BY PlaceUnfolds
<1> HIDE DEF P
<1> DEFINE Good(k) == P(k) \in Nat /\ \A j \in 1 .. k - 1 : P(j) \in Nat /\ P(j) < P(k)
           Bad == {k \in 1 .. Entries + 1 : ~Good(k)}
<1>3. ASSUME Bad # {} PROVE FALSE
  <2>1. PICK k \in Bad : \A l \in Bad : k <= l
    <3>1. Bad \in SUBSET Nat
      BY <1>1
    <3> HIDE DEF Bad
    <3> QED BY <3>1, <1>3, Least
  <2>2. k # 1
    <3>1. 1 .. 1 - 1 = {}
      OBVIOUS
    <3>2. Good(1)
      BY <3>1, <1>2
    <3> HIDE DEF Good
    <3> QED BY <2>1, <3>2
  <2>3. k \in Nat /\ k - 1 \in 1 .. Entries /\ k - 1 \in 1 .. Entries + 1 /\ ~(k <= k - 1) /\ (k - 1) + 1 = k
    BY <1>1, <2>1, <2>2
  <2>4. Good(k - 1)
    <3> HIDE DEF Good
    <3> QED BY <2>1, <2>3
  <2> PICK l : l = k - 1
    OBVIOUS
  <2>5. P(k) = P(l) + Step(l) /\ P(l) \in Nat /\ Step(l) \in Nat \ {0}
    BY <1>1, <1>2, <2>3, <2>4
  <2>6. P(k) \in Nat /\ P(l) < P(k)
    BY <2>5
  <2>7. ASSUME NEW j \in 1 .. k - 1 PROVE P(j) \in Nat /\ P(j) < P(k)
    <3>1. CASE j = l
      BY <3>1, <2>5, <2>6
    <3>2. CASE j # l
      <4>1. j \in 1 .. l - 1
        BY <3>2, <2>3
      <4>2. P(j) \in Nat /\ P(j) < P(l)
        BY <4>1, <2>4
      <4> QED BY <4>2, <2>5, <2>6
    <3> QED BY <3>1, <3>2
  <2>8. Good(k)
    BY <2>6, <2>7
  <2> HIDE DEF Good
  <2> QED BY <2>1, <2>8
<1>4. \A k \in 1 .. Entries + 1 : Good(k)
  BY <1>3
<1>5. \A k \in 1 .. Entries + 1 : P(k) \in Nat
  BY <1>4
<1>6. ASSUME NEW j \in 1 .. Entries + 1, NEW k \in 1 .. Entries + 1, j < k PROVE P(j) < P(k)
  <2>1. j \in 1 .. k - 1
    BY <1>1, <1>6
  <2> QED BY <2>1, <1>4
<1> QED BY <1>5, <1>6 DEF P

-----------------------------------------------------------------------------
(* Listings: what a table, or the part of one that a scan is to stay in,   *)
(* has to be.                                                              *)

AllOnes(k) == [j \in 1 .. k |-> Ones]

LEMMA ShortKeys ==
  /\ \A a \in Names!Ids : <<a>> \in Names!Keys(1) /\ Len(<<a>>) = 1 /\ <<a>>[1] = a
  /\ \A a, b \in Names!Ids : <<a, b>> \in Names!Keys(2)
  /\ \A x \in Names!Keys(1) : x = <<x[1]>> /\ x[1] \in Names!Ids
  /\ \A x \in Names!Keys(2) : x = <<x[1], x[2]>> /\ x[1] \in Names!Ids /\ x[2] \in Names!Ids
  /\ AllOnes(1) = <<Ones>> /\ AllOnes(2) = <<Ones, Ones>>
<1>1. \A a \in Names!Ids : <<a>> \in Names!Keys(1) /\ Len(<<a>>) = 1 /\ <<a>>[1] = a
  BY DEF Names!Keys
<1>2. \A a, b \in Names!Ids : <<a, b>> \in Names!Keys(2)
  BY DEF Names!Keys
<1>3. \A x \in Names!Keys(1) : x = <<x[1]>> /\ x[1] \in Names!Ids
  BY DEF Names!Keys
<1>4. \A x \in Names!Keys(2) : x = <<x[1], x[2]>> /\ x[1] \in Names!Ids /\ x[2] \in Names!Ids
  BY DEF Names!Keys
<1>5. AllOnes(1) = <<Ones>> /\ AllOnes(2) = <<Ones, Ones>>
  BY DEF AllOnes
<1> QED BY <1>1, <1>2, <1>3, <1>4, <1>5

(* Entries with keys of k IDs, to the one that stops every scan; each name *)
(* is the one that R pairs with its key, and what R pairs is there, after  *)
(* entries with lower keys.                                                *)
Listing(E, k, R) ==
  /\ Len(E) \in Nat \ {0}
  /\ \A j \in 1 .. Len(E) : /\ E[j].key \in Names!Keys(k)
                            /\ \/ E[j].key = AllOnes(k) /\ E[j].name = Names!NoName
                               \/ <<E[j].key, E[j].name>> \in R
  /\ E[Len(E)].key = AllOnes(k)
  /\ \A r \in R : \E j \in 1 .. Len(E) :
       E[j].key = r[1] /\ E[j].name = r[2] /\ \A l \in 1 .. j - 1 : Before(E[l].key, r[1])

LEMMA OnesAreKey ==
  ASSUME NEW k \in Nat
  PROVE  /\ AllOnes(k) \in Names!Keys(k)
         /\ \A a \in Names!Keys(k) : \A j \in 1 .. k : ~(AllOnes(k)[j] < a[j])
         /\ \A a \in Names!Keys(k) : ~Before(AllOnes(k), a)
<1>1. Ones \in Names!Ids
  BY NamesAssumption DEF Names!Ids
<1>2. AllOnes(k) \in Names!Keys(k)
  BY <1>1 DEF AllOnes, Names!Keys
<1>3. ASSUME NEW a \in Names!Keys(k), NEW j \in 1 .. k PROVE ~(AllOnes(k)[j] < a[j])
  <2>1. a[j] \in Nat /\ a[j] <= Ones /\ AllOnes(k)[j] = Ones
    BY KeyIs DEF AllOnes
  <2> QED BY <2>1, NamesAssumption
<1>4. ASSUME NEW a \in Names!Keys(k) PROVE ~Before(AllOnes(k), a)
  <2>1. DOMAIN AllOnes(k) = 1 .. k
    BY DEF AllOnes
  <2> QED BY <2>1, <1>3 DEF Before, Names!KeyBefore
<1> QED BY <1>2, <1>3, <1>4

Stopping(T, lo, asked) ==
  {q \in lo .. Len(T) - 1 : q >= 0 /\ ~ \E c \in DOMAIN asked : T[q + 1].key[c] < asked[c]}

(* A scan that starts where a listing does stops in it: on the key that is *)
(* asked for, if the listing has that.                                     *)
LEMMA ScanStops ==
  ASSUME NEW k \in Nat, NEW E, NEW R, Listing(E, k, R), NEW lo, NEW T, Lies(E, lo, T),
         NEW asked \in Names!Keys(k)
  PROVE  LET In == Stopping(T, lo, asked) IN
         \E p \in 1 .. Len(E) :
           /\ In # {} /\ (CHOOSE q \in In : \A r \in In : q <= r) = lo + p - 1
           /\ T[lo + p] = E[p] /\ lo + p \in DOMAIN T
           /\ \A r \in R : r[1] = asked => E[p].key = r[1] /\ E[p].name = r[2]
<1> DEFINE Low(e) == \E c \in DOMAIN asked : e.key[c] < asked[c]
<1> PICK In : In = {q \in lo .. Len(T) - 1 : q >= 0 /\ ~ \E c \in DOMAIN asked : T[q + 1].key[c] < asked[c]}
  OBVIOUS
<1>1. Len(E) \in Nat \ {0} /\ DOMAIN asked = 1 .. k
  BY KeyIs DEF Listing
<1> USE DEF Lies
<1>2. ASSUME NEW j \in 1 .. Len(E) PROVE lo + j - 1 \in In <=> ~Low(E[j])
  <2>1. lo + j - 1 \in lo .. Len(T) - 1 /\ (lo + j - 1) + 1 = lo + j /\ lo + j - 1 >= 0
    BY <1>1
  <2>2. T[lo + j] = E[j]
    OBVIOUS
  <2> QED BY <2>1, <2>2
<1> HIDE DEF Low
<1>3. \A q \in In : q \in Int /\ lo <= q
  OBVIOUS
<1> DEFINE D == {j \in 1 .. Len(E) : ~Low(E[j])}
<1>4. Len(E) \in D
  <2>1. E[Len(E)].key = AllOnes(k)
    BY DEF Listing
  <2>2. ~Low(E[Len(E)])
    BY <2>1, <1>1, OnesAreKey DEF Low
  <2> QED BY <2>2, <1>1
<1>5. PICK p \in D : \A l \in D : p <= l
  <2>1. D \in SUBSET Nat /\ D # {}
    BY <1>4
  <2> HIDE DEF D
  <2> QED BY <2>1, Least
<1>6. p \in 1 .. Len(E) /\ ~Low(E[p]) /\ \A l \in 1 .. Len(E) : ~Low(E[l]) => p <= l
  BY <1>5
<1> HIDE DEF D
<1>7. lo + p - 1 \in In
  BY <1>2, <1>6
<1>8. ASSUME NEW q \in In PROVE lo + p - 1 <= q
  <2>1. CASE q > lo + Len(E) - 1
    BY <2>1, <1>1, <1>3, <1>6
  <2>2. CASE ~(q > lo + Len(E) - 1)
    <3> PICK l : l = q - lo + 1
      OBVIOUS
    <3>1. l \in 1 .. Len(E) /\ q = lo + l - 1
      BY <2>2, <1>1, <1>3
    <3>2. p <= l
      BY <3>1, <1>2, <1>6
    <3> QED BY <3>1, <3>2, <1>6
  <2> QED BY <2>1, <2>2
<1>9. (CHOOSE q \in In : \A r \in In : q <= r) = lo + p - 1
  <2> PICK b : b = lo + p - 1
    OBVIOUS
  <2>1. b \in In /\ b \in Int /\ \A r \in In : b <= r
    BY <1>3, <1>7, <1>8
  <2>2. \A q \in In : (\A r \in In : q <= r) => q = b
    BY <2>1, <1>3
  <2> DEFINE q0 == CHOOSE q \in In : \A r \in In : q <= r
  <2>3. q0 \in In /\ \A r \in In : q0 <= r
    <3>1. \E q \in In : \A r \in In : q <= r
      BY <2>1
    <3> QED BY <3>1
  <2> HIDE DEF q0
  <2>4. q0 = b
    BY <2>2, <2>3
  <2> QED BY <2>4 DEF q0
<1>10. ASSUME NEW r \in R, r[1] = asked PROVE E[p].key = r[1] /\ E[p].name = r[2]
  <2>1. PICK j \in 1 .. Len(E) : E[j].key = r[1] /\ E[j].name = r[2] /\ \A l \in 1 .. j - 1 : Before(E[l].key, r[1])
    BY DEF Listing
  <2>2. ~Low(E[j])
    <3>1. \A c \in DOMAIN asked : asked[c] \in Nat
      BY <1>1, KeyIs
    <3> QED BY <2>1, <1>10, <3>1 DEF Low
  <2>3. p <= j
    BY <1>6, <2>2
  <2>4. ASSUME p < j PROVE FALSE
    <3>1. p \in 1 .. j - 1
      BY <2>4, <1>6
    <3>2. Before(E[p].key, asked)
      BY <3>1, <2>1, <1>10
    <3>3. DOMAIN E[p].key = 1 .. k
      <4>1. E[p].key \in Names!Keys(k)
        BY <1>6 DEF Listing
      <4> QED BY <4>1, KeyIs
    <3>4. Low(E[p])
      BY <3>2, <3>3, <1>1 DEF Before, Names!KeyBefore, Low
    <3> QED BY <3>4, <1>6
  <2>5. p = j
    BY <2>3, <2>4, <1>6
  <2> QED BY <2>1, <2>5
<1>11. T[lo + p] = E[p] /\ lo + p \in DOMAIN T
  <2>1. lo + p \in 1 .. Len(T)
    BY <1>1, <1>6
  <2> QED BY <2>1, <1>6
<1>12. Stopping(T, lo, asked) = In
  BY DEF Stopping
<1> QED BY <1>6, <1>7, <1>9, <1>10, <1>11, <1>12

(* What is listed in order, under a part of its keys that keeps the order. *)
LEMMA SortedLists ==
  ASSUME NEW m \in Nat, NEW k \in Nat, NEW S \in SUBSET Names!Keys(m), NEW h \in [S -> Names!Keys(k)],
         \A x, y \in S : Before(x, y) => Before(h[x], h[y]),
         NEW E, Len(E) \in Nat \ {0}, Cardinality(S) <= Len(E),
         \A j \in 1 .. Cardinality(S) : E[j].key = h[Names!Sorted(S)[j]] /\ E[j].name = Names!Sorted(S)[j],
         \A j \in 1 .. Len(E) : j > Cardinality(S) => E[j].key = AllOnes(k) /\ E[j].name = Names!NoName,
         E[Len(E)].key = AllOnes(k)
  PROVE  Listing(E, k, {<<h[x], x>> : x \in S})
<1> DEFINE R == {<<h[x], x>> : x \in S}
           c == Cardinality(S)
           f == Names!Sorted(S)
<1>1. /\ c \in Nat /\ f \in [1 .. c -> S]
      /\ \A a, b \in 1 .. c : a < b => Before(f[a], f[b])
      /\ \A x \in S : \E a \in 1 .. c : f[a] = x
  BY SortedIs
<1>2. \A j \in 1 .. c : E[j].key = h[f[j]] /\ E[j].name = f[j]
  OBVIOUS
<1>3. \A j \in 1 .. Len(E) : j > c => E[j].key = AllOnes(k) /\ E[j].name = Names!NoName
  OBVIOUS
<1>4. c <= Len(E)
  OBVIOUS
<1> HIDE DEF c, f
<1>5. ASSUME NEW j \in 1 .. Len(E)
      PROVE  /\ E[j].key \in Names!Keys(k)
             /\ \/ E[j].key = AllOnes(k) /\ E[j].name = Names!NoName
                \/ <<E[j].key, E[j].name>> \in R
  <2>1. CASE j > c
    BY <2>1, <1>3, OnesAreKey
  <2>2. CASE ~(j > c)
    <3>1. j \in 1 .. c
      BY <2>2, <1>1
    <3>2. f[j] \in S /\ E[j].key = h[f[j]] /\ E[j].name = f[j]
      BY <3>1, <1>1, <1>2
    <3> QED BY <3>2
  <2> QED BY <2>1, <2>2
<1>6. ASSUME NEW r \in R
      PROVE  \E j \in 1 .. Len(E) :
               E[j].key = r[1] /\ E[j].name = r[2] /\ \A l \in 1 .. j - 1 : Before(E[l].key, r[1])
  <2>1. PICK x \in S : r = <<h[x], x>>
    OBVIOUS
  <2>2. PICK j \in 1 .. c : f[j] = x
    BY <1>1
  <2>3. E[j].key = r[1] /\ E[j].name = r[2] /\ j \in 1 .. Len(E)
    BY <2>1, <2>2, <1>1, <1>2, <1>4
  <2>4. ASSUME NEW l \in 1 .. j - 1 PROVE Before(E[l].key, r[1])
    <3>1. l \in 1 .. c /\ l < j
      BY <1>1
    <3>2. Before(f[l], f[j]) /\ f[l] \in S /\ E[l].key = h[f[l]]
      BY <3>1, <1>1, <1>2
    <3> QED BY <2>1, <2>2, <3>2
  <2> QED BY <2>3, <2>4
<1> QED BY <1>5, <1>6 DEF Listing

LEMMA AppendIs ==
  ASSUME NEW c \in Nat, NEW e, e = [j \in 1 .. c |-> e[j]], NEW t
  PROVE  /\ Len(e) = c /\ Len(Append(e, t)) = c + 1
         /\ \A j \in 1 .. c : Append(e, t)[j] = e[j]
         /\ Append(e, t)[c + 1] = t
         /\ DOMAIN e = 1 .. c /\ DOMAIN Append(e, t) = 1 .. c + 1
<1> DEFINE X == {e[j] : j \in 1 .. c} \cup {t}
<1>1. e \in [1 .. c -> X] /\ t \in X
  OBVIOUS
<1> HIDE DEF X
<1>2. e \in Seq(X) /\ Len(e) = c
  BY <1>1
<1>3. DOMAIN e = 1 .. c /\ DOMAIN Append(e, t) = 1 .. c + 1
  BY <1>1, <1>2
<1> QED BY <1>1, <1>2, <1>3

LEMMA TopLast ==
  ASSUME NEW m \in Nat, NEW S \in SUBSET Names!Keys(m), AllOnes(m) \in S
  PROVE  Cardinality(S) \in Nat \ {0} /\ Names!Sorted(S)[Cardinality(S)] = AllOnes(m)
<1> DEFINE c == Cardinality(S)
           f == Names!Sorted(S)
<1>1. /\ c \in Nat /\ f \in [1 .. c -> S]
      /\ \A a, b \in 1 .. c : a < b => Before(f[a], f[b])
      /\ \A x \in S : \E a \in 1 .. c : f[a] = x
  BY SortedIs
<1> HIDE DEF c, f
<1>2. PICK a \in 1 .. c : f[a] = AllOnes(m)
  BY <1>1
<1>3. ASSUME a < c PROVE FALSE
  <2>1. c \in 1 .. c /\ Before(f[a], f[c]) /\ f[c] \in Names!Keys(m)
    BY <1>1, <1>3
  <2> QED BY <2>1, <1>2, OnesAreKey
<1>4. a = c /\ c # 0
  BY <1>1, <1>2, <1>3
<1> QED BY <1>1, <1>2, <1>4 DEF c, f

LEMMA ClassesListed ==
  ASSUME NEW m \in Nat \ {0}, NEW keys \in SUBSET Names!Keys(m)
  PROVE  LET T == Names!ClassDb(keys, m)
         IN  Listing(T, m, {<<x, x>> : x \in keys}) /\ Lies(T, 0, T)
<1> DEFINE c == Cardinality(keys)
           f == Names!Sorted(keys)
           e == [k \in 1 .. c |-> [key |-> f[k], name |-> f[k]]]
           t == [key |-> AllOnes(m), name |-> Names!NoName]
           E == IF AllOnes(m) \in keys THEN e ELSE Append(e, t)
           h == [x \in keys |-> x]
<1>1. c \in Nat /\ f \in [1 .. c -> keys]
  BY SortedIs
<1>2. Names!ClassDb(keys, m) = E
  <2>1. DOMAIN f = 1 .. c
    BY <1>1
  <2> HIDE DEF f
  <2> QED BY <2>1 DEF Names!ClassDb, AllOnes, f
<1>3. /\ Len(e) = c /\ Len(Append(e, t)) = c + 1
      /\ \A j \in 1 .. c : Append(e, t)[j] = e[j]
      /\ Append(e, t)[c + 1] = t
      /\ DOMAIN e = 1 .. c /\ DOMAIN Append(e, t) = 1 .. c + 1
  <2>1. e = [j \in 1 .. c |-> e[j]]
    OBVIOUS
  <2> HIDE DEF e, t, c
  <2> QED BY <1>1, <2>1, AppendIs
<1>4. \A j \in 1 .. c : e[j].key = f[j] /\ e[j].name = f[j]
  OBVIOUS
<1>5. t.key = AllOnes(m) /\ t.name = Names!NoName
  OBVIOUS
<1>6. AllOnes(m) \in keys => c # 0 /\ f[c] = AllOnes(m)
  BY TopLast
<1> HIDE DEF e, t, c, f
<1>7. Len(E) \in Nat \ {0} /\ c <= Len(E) /\ E[Len(E)].key = AllOnes(m)
  <2>1. CASE AllOnes(m) \in keys
    <3>1. c \in 1 .. c
      BY <2>1, <1>1, <1>6
    <3> QED BY <2>1, <3>1, <1>1, <1>3, <1>4, <1>6
  <2>2. CASE AllOnes(m) \notin keys
    <3>1. Len(E) = c + 1 /\ E[c + 1] = t
      BY <2>2, <1>3
    <3> HIDE DEF E
    <3> QED BY <3>1, <1>1, <1>5
  <2> QED BY <2>1, <2>2
<1>8. \A j \in 1 .. c : E[j].key = h[f[j]] /\ E[j].name = f[j]
  <2> TAKE j \in 1 .. c
  <2>1. E[j] = e[j] /\ f[j] \in keys
    BY <1>1, <1>3
  <2> HIDE DEF E
  <2> QED BY <2>1, <1>4
<1>9. \A j \in 1 .. Len(E) : j > c => E[j].key = AllOnes(m) /\ E[j].name = Names!NoName
  <2> TAKE j \in 1 .. Len(E)
  <2> HAVE j > c
  <2>1. AllOnes(m) \notin keys /\ Len(E) = c + 1
    BY <1>1, <1>3
  <2>2. E[j] = t
    BY <2>1, <1>1, <1>3
  <2> HIDE DEF E
  <2> QED BY <2>2, <1>5
<1>14. DOMAIN E = 1 .. Len(E)
  BY <1>3
<1> HIDE DEF E
<1>15. Lies(E, 0, E)
  BY <1>7, <1>14 DEF Lies
<1>10. h \in [keys -> Names!Keys(m)] /\ \A x \in keys : h[x] = x
  OBVIOUS
<1> HIDE DEF h
<1>11. \A x, y \in keys : Before(x, y) => Before(h[x], h[y])
  BY <1>10
<1>12. Listing(E, m, {<<h[x], x>> : x \in keys})
  BY <1>7, <1>8, <1>9, <1>10, <1>11, SortedLists DEF c, f
<1>13. {<<h[x], x>> : x \in keys} = {<<x, x>> : x \in keys}
  BY <1>10
<1> QED BY <1>2, <1>12, <1>13, <1>15

-----------------------------------------------------------------------------
(* Subdevices.                                                             *)

Of(s, dev) == {x \in s.subdevices : SubSeq(x, 1, 2) = dev}
SubKey(x) == <<x[3], x[4]>>
SubEntries == [key : Names!Keys(2), name : Names!Keys(4) \cup {Names!NoName}]

(* Its last subdevice is not FFFFh.                                        *)
Ends(s, dev) ==
  LET subs == Names!SubdevicesOf(s, dev) IN subs # <<>> /\ subs[Len(subs)][4] # Ones

LEMMA LongKeys ==
  ASSUME NEW x \in Names!Keys(4)
  PROVE  /\ SubSeq(x, 1, 2) = <<x[1], x[2]>>
         /\ SubKey(x) \in Names!Keys(2)
         /\ x = <<x[1], x[2]>> \o SubKey(x)
         /\ x[1] \in Names!Ids /\ x[2] \in Names!Ids /\ x[3] \in Names!Ids /\ x[4] \in Names!Ids
<1>1. x \in [1 .. 4 -> Names!Ids]
  BY DEF Names!Keys
<1>2. x[1] \in Names!Ids /\ x[2] \in Names!Ids /\ x[3] \in Names!Ids /\ x[4] \in Names!Ids
  BY <1>1
<1>3. x \in Seq(Names!Ids) /\ Len(x) = 4
  <2>1. x \in Seq(Names!Ids)
    <3>1. \A c \in Nat : \A y \in [1 .. c -> Names!Ids] : y \in Seq(Names!Ids)
      OBVIOUS
    <3> QED BY <1>1, <3>1
  <2>2. Len(x) \in Nat /\ DOMAIN x = 1 .. Len(x) /\ DOMAIN x = 1 .. 4
    <3>1. Len(x) \in Nat /\ DOMAIN x = 1 .. Len(x)
      BY <2>1, LenProperties
    <3> QED BY <1>1, <3>1
  <2>3. \A l \in Nat : 1 .. l = 1 .. 4 => l = 4
    <3> TAKE l \in Nat
    <3> HAVE 1 .. l = 1 .. 4
    <3>1. 4 \in 1 .. l
      OBVIOUS
    <3>2. l \in 1 .. l
      BY <3>1
    <3>3. l \in 1 .. 4
      BY <3>2
    <3> QED BY <3>1, <3>3
  <2> QED BY <2>1, <2>2, <2>3
<1>4. SubSeq(x, 1, 2) = <<x[1], x[2]>>
  <2>1. /\ SubSeq(x, 1, 2) \in Seq(Names!Ids) /\ Len(SubSeq(x, 1, 2)) = 2
        /\ \A j \in 1 .. 2 : SubSeq(x, 1, 2)[j] = x[j]
    BY <1>2, <1>3
  <2> HIDE DEF Names!Ids
  <2> PICK y : y = SubSeq(x, 1, 2)
    OBVIOUS
  <2>2. y \in Seq(Names!Ids) /\ Len(y) = 2 /\ y[1] = x[1] /\ y[2] = x[2]
    BY <2>1
  <2>3. y = <<y[1], y[2]>>
    <3> PICK z : z = <<y[1], y[2]>>
      OBVIOUS
    <3>1. y[1] \in Names!Ids /\ y[2] \in Names!Ids
      BY <2>2
    <3>2. z \in Seq(Names!Ids) /\ Len(z) = 2 /\ z[1] = y[1] /\ z[2] = y[2]
      BY <3>1
    <3>3. \A j \in 1 .. Len(y) : y[j] = z[j]
      <4>1. \A j \in 1 .. 2 : j = 1 \/ j = 2
        OBVIOUS
      <4> QED BY <4>1, <3>2, <2>2
    <3> QED BY <3>2, <3>3, <2>2, SeqEqual
  <2> QED BY <2>2, <2>3
<1>5. SubKey(x) \in Names!Keys(2)
  BY <1>2, ShortKeys DEF SubKey
<1>6. x = <<x[1], x[2]>> \o SubKey(x)
  <2> DEFINE a == <<x[1], x[2]>>
             b == SubKey(x)
  <2>1. a \in Seq(Names!Ids) /\ b \in Seq(Names!Ids) /\ Len(a) = 2 /\ Len(b) = 2
        /\ a[1] = x[1] /\ a[2] = x[2] /\ b[1] = x[3] /\ b[2] = x[4]
    BY <1>2 DEF SubKey
  <2> HIDE DEF a, b
  <2>2. /\ a \o b \in Seq(Names!Ids) /\ Len(a \o b) = 4
        /\ \A j \in 1 .. 4 : (a \o b)[j] = IF j <= 2 THEN a[j] ELSE b[j - 2]
    <3>1. /\ a \o b \in Seq(Names!Ids) /\ Len(a \o b) = Len(a) + Len(b)
          /\ \A j \in 1 .. Len(a) + Len(b) : (a \o b)[j] = IF j <= Len(a) THEN a[j] ELSE b[j - Len(a)]
      BY <2>1, ConcatProperties
    <3>2. Len(a) + Len(b) = 4
      BY <2>1
    <3> QED BY <3>1, <3>2, <2>1
  <2>3. (a \o b)[1] = x[1] /\ (a \o b)[2] = x[2] /\ (a \o b)[3] = x[3] /\ (a \o b)[4] = x[4]
    BY <2>1, <2>2
  <2>4. \A j \in 1 .. 4 : j = 1 \/ j = 2 \/ j = 3 \/ j = 4
    OBVIOUS
  <2>5. \A j \in 1 .. Len(x) : x[j] = (a \o b)[j]
    BY <1>3, <2>3, <2>4
  <2>6. x = a \o b
    BY <1>3, <2>2, <2>5, SeqEqual
  <2> QED BY <2>6 DEF a, b
<1> QED BY <1>2, <1>4, <1>5, <1>6

(* Those of one device are ordered by what the entries keep of their keys. *)
LEMMA SubKeysOrdered ==
  ASSUME NEW x \in Names!Keys(4), NEW y \in Names!Keys(4), x[1] = y[1], x[2] = y[2], Before(x, y)
  PROVE  Before(SubKey(x), SubKey(y))
<1>1. PICK j \in 1 .. 4 : x[j] < y[j] /\ \A l \in 1 .. j - 1 : x[l] = y[l]
  BY KeyIs DEF Before, Names!KeyBefore
<1>2. x[1] \in Nat /\ x[2] \in Nat
  BY KeyIs
<1>3. j \in {3, 4}
  <2>1. ~(x[1] < y[1]) /\ ~(x[2] < y[2])
    BY <1>2
  <2>2. j \in {1, 2, 3, 4}
    OBVIOUS
  <2> QED BY <2>1, <2>2, <1>1
<1>4. DOMAIN SubKey(x) = 1 .. 2 /\ SubKey(x)[1] = x[3] /\ SubKey(x)[2] = x[4]
      /\ SubKey(y)[1] = y[3] /\ SubKey(y)[2] = y[4]
  BY DEF SubKey
<1>5. CASE j = 3
  <2>1. 1 \in DOMAIN SubKey(x) /\ SubKey(x)[1] < SubKey(y)[1] /\ 1 .. 1 - 1 = {}
    BY <1>1, <1>4, <1>5
  <2> QED BY <2>1 DEF Before, Names!KeyBefore
<1>6. CASE j = 4
  <2>1. 2 \in DOMAIN SubKey(x) /\ SubKey(x)[2] < SubKey(y)[2] /\ \A l \in 1 .. 2 - 1 : l = 1
    BY <1>1, <1>4, <1>6
  <2>2. SubKey(x)[1] = SubKey(y)[1]
    <3>1. 3 \in 1 .. 4 - 1
      OBVIOUS
    <3> QED BY <3>1, <1>1, <1>4, <1>6
  <2> QED BY <2>1, <2>2 DEF Before, Names!KeyBefore
<1> QED BY <1>3, <1>5, <1>6

(* The block of a device.                                                  *)
LEMMA SubdeviceBlock ==
  ASSUME NEW s, Names!IsPciIds(s), NEW dev
  PROVE  /\ Names!SubdeviceEntries(s, dev) \in Seq(SubEntries)
         /\ Ends(s, dev) =>
              Listing(Names!SubdeviceEntries(s, dev), 2, {<<SubKey(x), x>> : x \in Of(s, dev)})
<1> DEFINE S == Of(s, dev)
           c == Cardinality(S)
           f == Names!Sorted(S)
           e == [k \in 1 .. c |-> [key |-> SubKey(f[k]), name |-> f[k]]]
           t == [key |-> <<Ones, Ones>>, name |-> Names!NoName]
           Bare == f = <<>> \/ f[Len(f)][4] = Ones
           E == IF Bare THEN e ELSE Append(e, t)
           h == [x \in S |-> SubKey(x)]
<1>0. S \in SUBSET Names!Keys(4)
  BY DEF Of, Names!IsPciIds
<1>1. c \in Nat /\ f \in [1 .. c -> S]
  BY <1>0, SortedIs
<1>2. DOMAIN f = 1 .. c /\ \A j \in 1 .. c : f[j] \in S /\ f[j] \in Names!Keys(4)
  BY <1>0, <1>1
<1>3. Names!SubdevicesOf(s, dev) = f
  BY DEF Names!SubdevicesOf, Of
<1>4. Names!SubdeviceEntries(s, dev) = E
  <2> HIDE DEF f, c
  <2> QED BY <1>2, <1>3 DEF Names!SubdeviceEntries, SubKey
<1>5. Ends(s, dev) => ~Bare
  BY <1>3 DEF Ends
<1> HIDE DEF f, c, Bare
<1>6. \A j \in 1 .. c : e[j].key = SubKey(f[j]) /\ e[j].name = f[j] /\ e[j] \in SubEntries
  <2> TAKE j \in 1 .. c
  <2>1. SubKey(f[j]) \in Names!Keys(2) /\ f[j] \in Names!Keys(4)
    BY <1>2, LongKeys
  <2>2. e[j] = [key |-> SubKey(f[j]), name |-> f[j]]
    OBVIOUS
  <2> QED BY <2>1, <2>2 DEF SubEntries
<1>7. t.key = AllOnes(2) /\ t.name = Names!NoName /\ t \in SubEntries
  <2>1. <<Ones, Ones>> = AllOnes(2) /\ AllOnes(2) \in Names!Keys(2)
    BY ShortKeys, OnesAreKey
  <2> QED BY <2>1 DEF SubEntries
<1>8. e = [j \in 1 .. c |-> e[j]]
  OBVIOUS
<1> HIDE DEF e, t
<1>9. /\ Len(e) = c /\ Len(Append(e, t)) = c + 1
      /\ \A j \in 1 .. c : Append(e, t)[j] = e[j]
      /\ Append(e, t)[c + 1] = t
  BY <1>1, <1>8, AppendIs
<1>10. E \in Seq(SubEntries)
  <2>1. e \in [1 .. c -> SubEntries]
    BY <1>6, <1>8
  <2>2. e \in Seq(SubEntries)
    BY <1>1, <2>1
  <2>3. Append(e, t) \in Seq(SubEntries)
    BY <1>7, <2>2
  <2> QED BY <2>2, <2>3
<1>11. ASSUME ~Bare PROVE Listing(E, 2, {<<SubKey(x), x>> : x \in S})
  <2>1. E = Append(e, t)
    BY <1>11
  <2> HIDE DEF E
  <2>2. Len(E) \in Nat \ {0} /\ c <= Len(E) /\ E[Len(E)].key = AllOnes(2)
    <3>1. Len(E) = c + 1 /\ E[c + 1] = t
      BY <2>1, <1>9
    <3> QED BY <3>1, <1>1, <1>7
  <2>3. h \in [S -> Names!Keys(2)] /\ \A x \in S : h[x] = SubKey(x)
    BY <1>0, LongKeys
  <2>4. ASSUME NEW x \in S, NEW y \in S, Before(x, y) PROVE Before(h[x], h[y])
    <3>1. x \in Names!Keys(4) /\ y \in Names!Keys(4) /\ SubSeq(x, 1, 2) = SubSeq(y, 1, 2)
      BY <1>0 DEF Of
    <3>2. <<x[1], x[2]>> = <<y[1], y[2]>>
      BY <3>1, LongKeys
    <3>3. x[1] = y[1] /\ x[2] = y[2]
      BY <3>2
    <3>4. Before(SubKey(x), SubKey(y))
      BY <3>1, <3>3, <2>4, SubKeysOrdered
    <3> QED BY <3>4, <2>3
  <2> HIDE DEF h
  <2>5. \A j \in 1 .. c : E[j].key = h[f[j]] /\ E[j].name = f[j]
    BY <1>2, <1>6, <1>9, <2>1, <2>3
  <2>6. \A j \in 1 .. Len(E) : j > c => E[j].key = AllOnes(2) /\ E[j].name = Names!NoName
    <3> TAKE j \in 1 .. Len(E)
    <3> HAVE j > c
    <3>1. Len(E) = c + 1 /\ E[c + 1] = t
      BY <2>1, <1>9
    <3>2. j = c + 1
      BY <3>1, <1>1
    <3> QED BY <3>1, <3>2, <1>7
  <2> HIDE DEF S
  <2>7. Listing(E, 2, {<<h[x], x>> : x \in S})
    BY <1>0, <2>2, <2>3, <2>4, <2>5, <2>6, SortedLists DEF c, f
  <2>8. {<<h[x], x>> : x \in S} = {<<SubKey(x), x>> : x \in S}
    BY <2>3
  <2> QED BY <2>7, <2>8
<1> QED BY <1>4, <1>5, <1>10, <1>11

(* Where the block of a device is in the subdevice database.               *)
Spot(s, dev) ==
  CHOOSE k \in 1 .. Names!Cardinality(s.devices) : Names!Sorted(s.devices)[k] = dev
SubsAt(s, dev) == Len(Names!SubdeviceDb(s)[Spot(s, dev) - 1])

LEMMA SubdevicesPlaced ==
  ASSUME NEW s, Names!IsPciIds(s), NEW dev \in s.devices
  PROVE  LET T == Names!Built(s).S
             E == Names!SubdeviceEntries(s, dev)
         IN  Lies(E, SubsAt(s, dev), T)
<1> DEFINE c == Cardinality(s.devices)
           f == Names!Sorted(s.devices)
           blocks == [k \in 1 .. c |-> Names!SubdeviceEntries(s, f[k])]
           u == Names!UpTo(blocks)
           k == Spot(s, dev)
           E == Names!SubdeviceEntries(s, dev)
           T == Names!Built(s).S
<1>1. s.devices \in SUBSET Names!Keys(2)
  BY DEF Names!IsPciIds
<1>2. c \in Nat /\ f \in [1 .. c -> s.devices] /\ \E j \in 1 .. c : f[j] = dev
  BY <1>1, SortedIs
<1>3. Names!Cardinality(s.devices) = c
  BY SameCount
<1>4. k \in 1 .. c /\ f[k] = dev
  <2>1. k = CHOOSE j \in 1 .. c : f[j] = dev
    BY <1>3 DEF Spot
  <2> HIDE DEF k, f, c
  <2> QED BY <2>1, <1>2
<1>5. Names!SubdeviceDb(s) = u
  BY <1>3 DEF Names!SubdeviceDb
<1>6. T = u[c]
  BY <1>3, <1>5 DEF Names!Built
<1>7. SubsAt(s, dev) = Len(u[k - 1])
  BY <1>5 DEF SubsAt
<1> HIDE DEF k, f, c, u
<1>8. blocks \in Seq(Seq(SubEntries)) /\ Len(blocks) = c /\ blocks[k] = E
  <2>1. \A j \in 1 .. c : blocks[j] \in Seq(SubEntries)
    BY SubdeviceBlock
  <2>2. blocks \in [1 .. c -> Seq(SubEntries)] /\ blocks[k] = E
    BY <2>1, <1>4
  <2> HIDE DEF blocks
  <2>3. blocks \in Seq(Seq(SubEntries))
    BY <2>2, <1>2
  <2>4. Len(blocks) = c
    BY <2>2, <2>3, <1>2
  <2> QED BY <2>2, <2>3, <2>4
<1> HIDE DEF blocks
<1>9. Lies(E, Len(u[k - 1]), u[c])
  <2>1. AreBlocks(blocks, SubEntries) /\ k \in 1 .. Len(blocks)
    BY <1>4, <1>8 DEF AreBlocks
  <2>2. Lies(blocks[k], Len(u[k - 1]), u[Len(blocks)])
    BY <2>1, BlockStays DEF u
  <2> QED BY <2>2, <1>8
<1> QED BY <1>6, <1>7, <1>9

-----------------------------------------------------------------------------
(* Devices.                                                                *)

With(s) == Names!VendorsWithDevices(s)
Under(s, v) == {d \in s.devices : d[1] = v}
DevKey(d) == <<d[2]>>
DevEntries == [key : Names!Keys(1), name : Names!Keys(2) \cup {Names!NoName}, subs : Int]
SubsOf(s, dev) == IF Names!SubdevicesOf(s, dev) = <<>> THEN Names!NoOffset ELSE SubsAt(s, dev)

LEMMA WithDevices ==
  ASSUME NEW s, Names!IsPciIds(s)
  PROVE  /\ Len(With(s)) \in Nat \ {0} /\ DOMAIN With(s) = 1 .. Len(With(s))
         /\ \A k \in 1 .. Len(With(s)) : \E d \in s.devices : With(s)[k] = <<d[1]>>
         /\ \A d \in s.devices : \E k \in 1 .. Len(With(s)) : With(s)[k] = <<d[1]>>
<1> DEFINE S == {<<d[1]>> : d \in s.devices}
           c == Cardinality(S)
           f == Names!Sorted(S)
<1>1. S \in SUBSET Names!Keys(1)
  <2>1. \A d \in s.devices : d[1] \in Names!Ids
    BY ShortKeys DEF Names!IsPciIds
  <2> QED BY <2>1, ShortKeys
<1>2. c \in Nat /\ f \in [1 .. c -> S] /\ \A x \in S : \E k \in 1 .. c : f[k] = x
  BY <1>1, SortedIs
<1>3. With(s) = f
  BY DEF With, Names!VendorsWithDevices
<1>4. PICK d \in s.devices : TRUE
  BY DEF Names!IsPciIds
<1>5. c # 0
  <2>1. <<d[1]>> \in S
    OBVIOUS
  <2> HIDE DEF S, f
  <2> QED BY <2>1, <1>2
<1>6. Len(f) = c /\ DOMAIN f = 1 .. c
  <2> HIDE DEF c, f, S
  <2> QED BY <1>2
<1>7. \A k \in 1 .. c : \E x \in s.devices : f[k] = <<x[1]>>
  <2> TAKE k \in 1 .. c
  <2>1. f[k] \in S
    BY <1>2
  <2> HIDE DEF c, f
  <2> QED BY <2>1
<1>8. \A x \in s.devices : \E k \in 1 .. c : f[k] = <<x[1]>>
  <2> TAKE x \in s.devices
  <2>1. <<x[1]>> \in S
    OBVIOUS
  <2> HIDE DEF c, f, S
  <2> QED BY <2>1, <1>2
<1> HIDE DEF c, f, S
<1> QED BY <1>2, <1>3, <1>5, <1>6, <1>7, <1>8

LEMMA SubsAreNumbers ==
  ASSUME NEW s, Names!IsPciIds(s), NEW dev \in s.devices
  PROVE  SubsOf(s, dev) \in Int
<1>1. SubsAt(s, dev) \in Nat
  BY SubdevicesPlaced DEF Lies
<1> QED BY <1>1 DEF SubsOf, Names!NoOffset

LEMMA DevKeysOrdered ==
  ASSUME NEW x \in Names!Keys(2), NEW y \in Names!Keys(2), x[1] = y[1], Before(x, y)
  PROVE  Before(DevKey(x), DevKey(y))
<1>1. PICK j \in 1 .. 2 : x[j] < y[j] /\ \A l \in 1 .. j - 1 : x[l] = y[l]
  BY KeyIs DEF Before, Names!KeyBefore
<1>2. x[1] \in Nat /\ j \in {1, 2}
  BY KeyIs
<1>3. j = 2
  BY <1>1, <1>2
<1>4. DOMAIN DevKey(x) = 1 .. 1 /\ DevKey(x)[1] = x[2] /\ DevKey(y)[1] = y[2] /\ 1 .. 1 - 1 = {}
  BY DEF DevKey
<1> QED BY <1>1, <1>3, <1>4 DEF Before, Names!KeyBefore

(* The block of the k-th vendor that has devices.                          *)
LEMMA DeviceBlock ==
  ASSUME NEW s, Names!IsPciIds(s), NEW k \in 1 .. Len(With(s))
  PROVE  LET E == Names!DeviceEntries(s, k)
         IN  /\ E \in Seq(DevEntries)
             /\ Listing(E, 1, {<<DevKey(d), d>> : d \in Under(s, With(s)[k][1])})
             /\ \A j \in 1 .. Len(E) : E[j].name # Names!NoName => E[j].subs = SubsOf(s, E[j].name)
<1> DEFINE v == With(s)[k][1]
           S == Under(s, v)
           c == Cardinality(S)
           f == Names!Sorted(S)
           e == [j \in 1 .. c |-> [key |-> DevKey(f[j]), name |-> f[j], subs |-> SubsOf(s, f[j])]]
           t == [key |-> <<Ones>>, name |-> Names!NoName, subs |-> Names!NoOffset]
           Bare == f[Len(f)][2] = Ones
           E == IF Bare THEN e ELSE Append(e, t)
           h == [x \in S |-> DevKey(x)]
<1>0. S \in SUBSET Names!Keys(2) /\ S \in SUBSET s.devices
  BY DEF Under, Names!IsPciIds
<1>1. c \in Nat /\ f \in [1 .. c -> S] /\ \A x \in S : \E j \in 1 .. c : f[j] = x
  BY <1>0, SortedIs
<1>2. DOMAIN f = 1 .. c /\ \A j \in 1 .. c : f[j] \in S /\ f[j] \in Names!Keys(2) /\ f[j] \in s.devices
  BY <1>0, <1>1
<1>3. c # 0
  <2>1. PICK d \in s.devices : With(s)[k] = <<d[1]>>
    BY WithDevices
  <2>2. d \in S
    BY <2>1 DEF Under
  <2> HIDE DEF c, f
  <2> QED BY <2>2, <1>1
<1>4. Len(f) = c
  <2> HIDE DEF c, f
  <2> QED BY <1>1
<1>5. Names!DevicesOf(s, v) = f
  BY DEF Names!DevicesOf, Under
<1>6. Names!DeviceEntries(s, k) = E
  <2> DEFINE g == [i1 \in DOMAIN f |->
         [key |-> <<f[i1][2]>>, name |-> f[i1],
          subs |-> IF Names!SubdevicesOf(s, f[i1]) = <<>> THEN Names!NoOffset
                   ELSE Len(Names!SubdeviceDb(s)[(CHOOSE i2 \in 1 .. Names!Cardinality(s.devices) :
                              Names!Sorted(s.devices)[i2] = f[i1]) - 1])]]
  <2>1. Names!DeviceEntries(s, k) = IF Bare THEN g ELSE Append(g, t)
    BY <1>5 DEF Names!DeviceEntries, With
  <2>2. g = e
    BY <1>2 DEF SubsOf, SubsAt, Spot, DevKey
  <2> HIDE DEF g, e
  <2> QED BY <2>1, <2>2
<1>7. Bare => f[c][2] = Ones
  BY <1>4
<1> HIDE DEF f, c, Bare
<1>8. \A j \in 1 .. c : /\ e[j].key = DevKey(f[j]) /\ e[j].name = f[j] /\ e[j].subs = SubsOf(s, f[j])
                        /\ e[j] \in DevEntries
  <2> TAKE j \in 1 .. c
  <2>1. f[j] \in Names!Keys(2) /\ SubsOf(s, f[j]) \in Int
    BY <1>2, SubsAreNumbers
  <2>2. DevKey(f[j]) \in Names!Keys(1)
    BY <2>1, ShortKeys DEF DevKey
  <2>3. e[j] = [key |-> DevKey(f[j]), name |-> f[j], subs |-> SubsOf(s, f[j])]
    OBVIOUS
  <2> QED BY <2>1, <2>2, <2>3 DEF DevEntries
<1>9. t.key = AllOnes(1) /\ t.name = Names!NoName /\ t \in DevEntries
  <2>1. <<Ones>> = AllOnes(1) /\ AllOnes(1) \in Names!Keys(1)
    BY ShortKeys, OnesAreKey
  <2> QED BY <2>1 DEF DevEntries, Names!NoOffset
<1>10. e = [j \in 1 .. c |-> e[j]]
  OBVIOUS
<1> HIDE DEF e, t
<1>11. /\ Len(e) = c /\ Len(Append(e, t)) = c + 1
       /\ \A j \in 1 .. c : Append(e, t)[j] = e[j]
       /\ Append(e, t)[c + 1] = t
  BY <1>1, <1>10, AppendIs
<1>12. E \in Seq(DevEntries)
  <2>1. e \in [1 .. c -> DevEntries]
    BY <1>8, <1>10
  <2>2. e \in Seq(DevEntries)
    BY <1>1, <2>1
  <2>3. Append(e, t) \in Seq(DevEntries)
    BY <1>9, <2>2
  <2> QED BY <2>2, <2>3
<1>13. \A j \in 1 .. c : E[j] = e[j]
  BY <1>11
<1>14. (Bare /\ Len(E) = c) \/ (Len(E) = c + 1 /\ E[c + 1] = t)
  BY <1>11
<1> HIDE DEF E
<1>15. Len(E) \in Nat \ {0} /\ c <= Len(E) /\ E[Len(E)].key = AllOnes(1)
  <2>1. CASE Bare /\ Len(E) = c
    <3>1. c \in 1 .. c
      BY <1>1, <1>3
    <3>2. E[c].key = DevKey(f[c])
      BY <3>1, <1>8, <1>13
    <3>3. DevKey(f[c]) = AllOnes(1)
      BY <2>1, <1>7, ShortKeys DEF DevKey
    <3> QED BY <2>1, <3>1, <3>2, <3>3
  <2>2. CASE Len(E) = c + 1 /\ E[c + 1] = t
    BY <2>2, <1>1, <1>9
  <2> QED BY <2>1, <2>2, <1>14
<1>16. \A j \in 1 .. Len(E) : j > c => E[j] = t
  <2> TAKE j \in 1 .. Len(E)
  <2> HAVE j > c
  <2>1. Len(E) = c + 1 /\ E[c + 1] = t /\ j = c + 1
    BY <1>1, <1>14
  <2> QED BY <2>1
<1>17. Listing(E, 1, {<<DevKey(d), d>> : d \in S})
  <2>1. h \in [S -> Names!Keys(1)] /\ \A x \in S : h[x] = DevKey(x)
    <3>1. \A x \in S : DevKey(x) \in Names!Keys(1)
      BY <1>0, ShortKeys DEF DevKey
    <3> QED BY <3>1
  <2>2. ASSUME NEW x \in S, NEW y \in S, Before(x, y) PROVE Before(h[x], h[y])
    <3>1. x \in Names!Keys(2) /\ y \in Names!Keys(2) /\ x[1] = y[1]
      BY <1>0 DEF Under
    <3>2. Before(DevKey(x), DevKey(y))
      BY <3>1, <2>2, DevKeysOrdered
    <3> QED BY <3>2, <2>1
  <2> HIDE DEF h
  <2>3. \A j \in 1 .. c : E[j].key = h[f[j]] /\ E[j].name = f[j]
    BY <1>2, <1>8, <1>13, <2>1
  <2>4. \A j \in 1 .. Len(E) : j > c => E[j].key = AllOnes(1) /\ E[j].name = Names!NoName
    BY <1>9, <1>16
  <2> HIDE DEF S
  <2>5. Listing(E, 1, {<<h[x], x>> : x \in S})
    BY <1>0, <1>15, <2>1, <2>2, <2>3, <2>4, SortedLists DEF c, f
  <2>6. {<<h[x], x>> : x \in S} = {<<DevKey(x), x>> : x \in S}
    BY <2>1
  <2> QED BY <2>5, <2>6
<1>18. ASSUME NEW j \in 1 .. Len(E), E[j].name # Names!NoName PROVE E[j].subs = SubsOf(s, E[j].name)
  <2>1. j \in 1 .. c
    <3>1. ~(j > c)
      BY <1>9, <1>16, <1>18
    <3> QED BY <3>1, <1>1
  <2> QED BY <2>1, <1>8, <1>13
<1> QED BY <1>6, <1>12, <1>17, <1>18

LEMMA DevicesPlaced ==
  ASSUME NEW s, Names!IsPciIds(s), NEW k \in 1 .. Len(With(s))
  PROVE  LET D == Names!Built(s).D
             E == Names!DeviceEntries(s, k)
             o == Len(Names!DeviceDb(s)[k - 1])
         IN  Lies(E, o, D) /\ D \in Seq(DevEntries) /\ (k = Len(With(s)) => Len(D) = o + Len(E))
<1> DEFINE c == Len(With(s))
           blocks == [j \in DOMAIN With(s) |-> Names!DeviceEntries(s, j)]
           u == Names!UpTo(blocks)
           E == Names!DeviceEntries(s, k)
           D == Names!Built(s).D
<1>1. c \in Nat \ {0} /\ DOMAIN With(s) = 1 .. c
  BY WithDevices
<1>2. Names!DeviceDb(s) = u /\ D = u[c]
  BY DEF Names!DeviceDb, Names!Built, With
<1>3. blocks \in Seq(Seq(DevEntries)) /\ Len(blocks) = c /\ blocks[k] = E
  <2>1. \A j \in 1 .. c : blocks[j] \in Seq(DevEntries)
    <3> TAKE j \in 1 .. c
    <3>1. Names!DeviceEntries(s, j) \in Seq(DevEntries)
      BY DeviceBlock
    <3> QED BY <3>1, <1>1
  <2>2. DOMAIN blocks = 1 .. c /\ blocks = [j \in 1 .. c |-> blocks[j]] /\ blocks[k] = E
    BY <1>1
  <2> HIDE DEF blocks, c
  <2>3. blocks \in [1 .. c -> Seq(DevEntries)]
    BY <2>1, <2>2
  <2>4. blocks \in Seq(Seq(DevEntries))
    BY <2>3, <1>1
  <2>5. Len(blocks) = c
    BY <2>3, <2>4, <1>1
  <2> QED BY <2>2, <2>4, <2>5
<1> HIDE DEF blocks, u, c
<1>4. Lies(blocks[k], Len(u[k - 1]), u[Len(blocks)]) /\ u[Len(blocks)] \in Seq(DevEntries)
      /\ (k = Len(blocks) => Len(u[Len(blocks)]) = Len(u[k - 1]) + Len(blocks[k]))
  <2>1. AreBlocks(blocks, DevEntries) /\ k \in 1 .. Len(blocks)
    BY <1>3 DEF AreBlocks, c
  <2> QED BY <2>1, BlockStays DEF u
<1> QED BY <1>2, <1>3, <1>4 DEF c

(* Where the block of a vendor is in the device database.                  *)
DevsOf(s, v) ==
  IF \E k \in DOMAIN With(s) : With(s)[k] = <<v>>
  THEN Len(Names!DeviceDb(s)[(CHOOSE k \in DOMAIN With(s) : With(s)[k] = <<v>>) - 1])
  ELSE Names!NoOffset

(* A scan that starts at a vendor's offset is on its devices.              *)
LEMMA DevicesListed ==
  ASSUME NEW s, Names!IsPciIds(s), NEW d \in s.devices
  PROVE  LET D == Names!Built(s).D
             o == DevsOf(s, d[1])
         IN  \E E : /\ Listing(E, 1, {<<DevKey(x), x>> : x \in Under(s, d[1])}) /\ Lies(E, o, D)
                    /\ \A j \in 1 .. Len(E) : E[j].name # Names!NoName => E[j].subs = SubsOf(s, E[j].name)
<1>1. DOMAIN With(s) = 1 .. Len(With(s)) /\ \E k \in DOMAIN With(s) : With(s)[k] = <<d[1]>>
  BY WithDevices
<1> DEFINE k == CHOOSE k \in DOMAIN With(s) : With(s)[k] = <<d[1]>>
           E == Names!DeviceEntries(s, k)
<1>2. k \in 1 .. Len(With(s)) /\ With(s)[k] = <<d[1]>>
  BY <1>1
<1>3. DevsOf(s, d[1]) = Len(Names!DeviceDb(s)[k - 1])
  BY <1>1 DEF DevsOf
<1> HIDE DEF k
<1>4. Lies(E, DevsOf(s, d[1]), Names!Built(s).D)
  BY <1>2, <1>3, DevicesPlaced
<1>5. With(s)[k][1] = d[1]
  BY <1>2
<1>6. /\ Listing(E, 1, {<<DevKey(x), x>> : x \in Under(s, With(s)[k][1])})
      /\ \A j \in 1 .. Len(E) : E[j].name # Names!NoName => E[j].subs = SubsOf(s, E[j].name)
  BY <1>2, DeviceBlock
<1>7. Listing(E, 1, {<<DevKey(x), x>> : x \in Under(s, d[1])})
  BY <1>5, <1>6
<1> HIDE DEF E
<1> QED BY <1>4, <1>6, <1>7

(* The device database ends where every scan does, and no offset is past   *)
(* its end.                                                                *)
LEMMA DevicesEnd ==
  ASSUME NEW s, Names!IsPciIds(s)
  PROVE  LET D == Names!Built(s).D
         IN  /\ Len(D) \in Nat \ {0} /\ D[Len(D)].key = <<Ones>>
             /\ \A v : DevsOf(s, v) \in -1 .. Len(D) - 1
<1> DEFINE D == Names!Built(s).D
           c == Len(With(s))
           o(k) == Len(Names!DeviceDb(s)[k - 1])
<1>1. c \in Nat \ {0} /\ DOMAIN With(s) = 1 .. c
  BY WithDevices
<1>2. ASSUME NEW k \in 1 .. c PROVE o(k) \in Nat /\ Len(D) \in Nat /\ o(k) < Len(D)
  <2> DEFINE E == Names!DeviceEntries(s, k)
  <2>1. Lies(E, o(k), D)
    BY DevicesPlaced
  <2>2. Len(E) \in Nat \ {0}
    BY DeviceBlock DEF Listing
  <2> HIDE DEF E, o, D
  <2>3. o(k) \in Nat /\ Len(D) \in Nat /\ o(k) + Len(E) <= Len(D)
    BY <2>1 DEF Lies
  <2> QED BY <2>2, <2>3
<1>3. Len(D) \in Nat \ {0} /\ D[Len(D)].key = <<Ones>>
  <2> DEFINE E == Names!DeviceEntries(s, c)
  <2>1. c \in 1 .. c
    BY <1>1
  <2>2. Lies(E, o(c), D) /\ Len(D) = o(c) + Len(E)
    BY <2>1, DevicesPlaced
  <2>3. Len(E) \in Nat \ {0} /\ E[Len(E)].key = AllOnes(1)
    BY <2>1, DeviceBlock DEF Listing
  <2> HIDE DEF E, o, D
  <2>4. Len(E) \in 1 .. Len(E)
    BY <2>3
  <2>5. D[o(c) + Len(E)] = E[Len(E)]
    BY <2>2, <2>4 DEF Lies
  <2>6. D[Len(D)].key = <<Ones>>
    BY <2>2, <2>3, <2>5, ShortKeys
  <2> QED BY <2>1, <2>6, <1>2
<1>4. ASSUME NEW v PROVE DevsOf(s, v) \in -1 .. Len(D) - 1
  <2>1. CASE \E k \in DOMAIN With(s) : With(s)[k] = <<v>>
    <3> DEFINE k == CHOOSE k \in DOMAIN With(s) : With(s)[k] = <<v>>
    <3>1. k \in 1 .. c
      BY <1>1, <2>1
    <3>2. DevsOf(s, v) = o(k)
      BY <2>1 DEF DevsOf
    <3> HIDE DEF k, o, D
    <3>3. o(k) \in Nat /\ Len(D) \in Nat /\ o(k) < Len(D)
      BY <1>2, <3>1
    <3> QED BY <3>2, <3>3
  <2>2. CASE ~ \E k \in DOMAIN With(s) : With(s)[k] = <<v>>
    <3>1. DevsOf(s, v) = -1
      BY <2>2 DEF DevsOf, Names!NoOffset
    <3> HIDE DEF D
    <3> QED BY <3>1, <1>3
  <2> QED BY <2>1, <2>2
<1> QED BY <1>3, <1>4

(* Vendors, and where their devices are.                                   *)
LEMMA VendorsListed ==
  ASSUME NEW s, Names!IsPciIds(s)
  PROVE  LET V == Names!Built(s).V
         IN  /\ Listing(V, 1, {<<<<v>>, <<v>>>> : v \in s.vendors}) /\ Lies(V, 0, V)
             /\ \A j \in 1 .. Len(V) :
                  /\ V[j].devices \in -1 .. Len(Names!Built(s).D) - 1
                  /\ V[j].name # Names!NoName => V[j].devices = DevsOf(s, V[j].name[1])
<1> DEFINE V == Names!Built(s).V
           S == {<<v>> : v \in s.vendors}
           c == Cardinality(S)
           f == Names!Sorted(S)
           off(x) == IF \E k \in DOMAIN With(s) : With(s)[k] = x
                     THEN Len(Names!DeviceDb(s)[(CHOOSE k \in DOMAIN With(s) : With(s)[k] = x) - 1])
                     ELSE Names!NoOffset
           e == [j \in 1 .. c |-> [key |-> f[j], name |-> f[j], devices |-> off(f[j])]]
           t == [key |-> <<Ones>>, name |-> Names!NoName, devices |-> Names!NoOffset]
           h == [x \in S |-> x]
           E == IF Ones \in s.vendors THEN e ELSE Append(e, t)
<1>0. S \in SUBSET Names!Keys(1)
  BY ShortKeys DEF Names!IsPciIds
<1>1. c \in Nat /\ f \in [1 .. c -> S]
  BY <1>0, SortedIs
<1>2. DOMAIN f = 1 .. c /\ \A j \in 1 .. c : f[j] \in S /\ f[j] = <<f[j][1]>> /\ f[j] \in Names!Keys(1)
  <2>1. \A j \in 1 .. c : f[j] \in S
    BY <1>1
  <2>2. DOMAIN f = 1 .. c
    BY <1>1
  <2> HIDE DEF c, f
  <2> QED BY <2>1, <2>2, <1>0, ShortKeys
<1>3. V = E
  <2>1. V = Names!VendorDb(s)
    BY DEF Names!Built
  <2>2. DOMAIN f = 1 .. c
    BY <1>2
  <2> HIDE DEF f, c
  <2>3. Names!VendorDb(s) = E
    BY <2>2 DEF Names!VendorDb, With, f
  <2> QED BY <2>1, <2>3
<1>4. \A x \in Names!Keys(1) : off(x) = DevsOf(s, x[1])
  <2> TAKE x \in Names!Keys(1)
  <2>1. x = <<x[1]>>
    BY ShortKeys
  <2> QED BY <2>1 DEF DevsOf
<1>5. Ones \in s.vendors => c # 0 /\ f[c] = AllOnes(1)
  <2>1. Ones \in s.vendors => AllOnes(1) \in S
    BY ShortKeys
  <2> QED BY <2>1, <1>0, TopLast
<1>6. h \in [S -> Names!Keys(1)] /\ \A x \in S : h[x] = x
  BY <1>0
<1>7. {<<x, x>> : x \in S} = {<<<<v>>, <<v>>>> : v \in s.vendors}
  OBVIOUS
<1> HIDE DEF V, c, f, off, h, S
<1>8. \A j \in 1 .. c : e[j].key = f[j] /\ e[j].name = f[j] /\ e[j].devices = DevsOf(s, f[j][1])
  BY <1>2, <1>4
<1>9. t.key = AllOnes(1) /\ t.name = Names!NoName /\ t.devices = -1
  BY ShortKeys DEF Names!NoOffset
<1>10. e = [j \in 1 .. c |-> e[j]]
  OBVIOUS
<1> HIDE DEF e, t
<1>11. /\ Len(e) = c /\ Len(Append(e, t)) = c + 1
       /\ \A j \in 1 .. c : Append(e, t)[j] = e[j]
       /\ Append(e, t)[c + 1] = t
       /\ DOMAIN e = 1 .. c /\ DOMAIN Append(e, t) = 1 .. c + 1
  BY <1>1, <1>10, AppendIs
<1>12. DOMAIN E = 1 .. Len(E) /\ \A j \in 1 .. c : E[j] = e[j]
  BY <1>11
<1>13. (Ones \in s.vendors /\ Len(E) = c) \/ (Len(E) = c + 1 /\ E[c + 1] = t)
  BY <1>11
<1> HIDE DEF E
<1>14. Len(E) \in Nat \ {0} /\ c <= Len(E) /\ E[Len(E)].key = AllOnes(1)
  <2>1. CASE Ones \in s.vendors /\ Len(E) = c
    <3>1. c \in 1 .. c /\ f[c] = AllOnes(1)
      BY <2>1, <1>1, <1>5
    <3>2. E[c].key = f[c]
      BY <3>1, <1>8, <1>12
    <3> QED BY <2>1, <3>1, <3>2
  <2>2. CASE Len(E) = c + 1 /\ E[c + 1] = t
    BY <2>2, <1>1, <1>9
  <2> QED BY <2>1, <2>2, <1>13
<1>15. ASSUME NEW j \in 1 .. Len(E), j > c PROVE E[j] = t
  <2>1. Len(E) = c + 1 /\ E[c + 1] = t /\ j = c + 1
    BY <1>1, <1>13, <1>15
  <2> QED BY <2>1
<1>16. Listing(E, 1, {<<<<v>>, <<v>>>> : v \in s.vendors})
  <2>1. \A x, y \in S : Before(x, y) => Before(h[x], h[y])
    BY <1>6
  <2>2. \A j \in 1 .. c : E[j].key = h[f[j]] /\ E[j].name = f[j]
    BY <1>2, <1>6, <1>8, <1>12
  <2>3. \A j \in 1 .. Len(E) : j > c => E[j].key = AllOnes(1) /\ E[j].name = Names!NoName
    BY <1>9, <1>15
  <2>4. Listing(E, 1, {<<h[x], x>> : x \in S})
    BY <1>0, <1>6, <1>14, <2>1, <2>2, <2>3, SortedLists DEF c, f
  <2>5. {<<h[x], x>> : x \in S} = {<<x, x>> : x \in S}
    BY <1>6
  <2> QED BY <2>4, <2>5, <1>7
<1>17. ASSUME NEW j \in 1 .. Len(E)
       PROVE  /\ E[j].devices \in -1 .. Len(Names!Built(s).D) - 1
              /\ E[j].name # Names!NoName => E[j].devices = DevsOf(s, E[j].name[1])
  <2>1. CASE j > c
    <3>1. -1 \in -1 .. Len(Names!Built(s).D) - 1
      BY DevicesEnd
    <3> QED BY <3>1, <2>1, <1>9, <1>15
  <2>2. CASE ~(j > c)
    <3>1. j \in 1 .. c
      BY <2>2, <1>1
    <3>2. E[j].devices = DevsOf(s, f[j][1]) /\ E[j].name = f[j]
      BY <3>1, <1>8, <1>12
    <3>3. DevsOf(s, f[j][1]) \in -1 .. Len(Names!Built(s).D) - 1
      BY DevicesEnd
    <3> QED BY <3>2, <3>3
  <2> QED BY <2>1, <2>2
<1>18. Lies(E, 0, E)
  BY <1>12, <1>14 DEF Lies
<1> QED BY <1>3, <1>16, <1>17, <1>18 DEF V

-----------------------------------------------------------------------------
(* Lookups.                                                                *)

Vendor == Names!Function.vendor
Device == <<Names!Function.vendor, Names!Function.device>>

LEMMA SamePlaces ==
  ASSUME disk' = disk
  PROVE  \A k : Names!Place(k)' = Names!Place(k)
  BY DEF Names!Place, Names!HeaderSize

Setting ==
  /\ Names!IsPciIds(src) /\ Names!IsDisk(disk) /\ Names!IsMachine(machine)
  /\ tables = Names!Built(src)
  /\ n \in DOMAIN machine.functions /\ step \in DOMAIN Names!DbOf

LEMMA FunctionIs ==
  ASSUME Setting
  PROVE  /\ Vendor \in Names!Ids /\ Names!Function.device \in Names!Ids /\ Device \in Names!Keys(2)
         /\ Names!Function.sub \in Names!Keys(2) /\ Names!Function.class \in Names!Keys(3)
<1> DEFINE F == [vendor : Names!Ids, device : Names!Ids, sub : Names!Keys(2), class : Names!Keys(3), header : Nat]
<1>1. machine.functions \in Seq(F)
  BY DEF Setting, Names!IsMachine
<1>2. machine.functions[n] \in F
  <2> HIDE DEF F
  <2> QED BY <1>1 DEF Setting
<1>3. Vendor \in Names!Ids /\ Names!Function.device \in Names!Ids
      /\ Names!Function.sub \in Names!Keys(2) /\ Names!Function.class \in Names!Keys(3)
  BY <1>2 DEF Names!Function, Vendor
<1> QED BY <1>3, ShortKeys DEF Device, Vendor

LEMMA AskedIs ==
  ASSUME Setting
  PROVE  /\ step = "vendor" => Names!Asked = <<Vendor>> /\ Names!Full = <<Vendor>>
         /\ step = "device" => Names!Asked = <<Device[2]>> /\ Names!Full = Device
         /\ step = "subvendor" => Names!Asked = <<Names!Function.sub[1]>> /\ Names!Full = Names!Asked
         /\ step = "subdevice" => Names!Asked = Names!Function.sub /\ Names!Full = Device \o Names!Function.sub
         /\ step = "class" => Names!Asked = SubSeq(Names!Function.class, 1, 1) /\ Names!Full = Names!Asked
         /\ step = "subclass" => Names!Asked = SubSeq(Names!Function.class, 1, 2) /\ Names!Full = Names!Asked
         /\ step = "progif" => Names!Asked = Names!Function.class /\ Names!Full = Names!Asked
<1>1. CASE step = "vendor"
  BY <1>1 DEF Names!Asked, Names!Full, Vendor
<1>2. CASE step = "device"
  BY <1>2 DEF Names!Asked, Names!Full, Device
<1>3. CASE step = "subvendor"
  BY <1>3 DEF Names!Asked, Names!Full
<1>4. CASE step = "subdevice"
  BY <1>4 DEF Names!Asked, Names!Full, Device
<1>5. CASE step = "class"
  BY <1>5 DEF Names!Asked, Names!Full
<1>6. CASE step = "subclass"
  BY <1>6 DEF Names!Asked, Names!Full
<1>7. CASE step = "progif"
  BY <1>7 DEF Names!Asked, Names!Full
<1> QED BY <1>1, <1>2, <1>3, <1>4, <1>5, <1>6, <1>7

LEMMA DbIs ==
  ASSUME Setting
  PROVE  /\ step \in {"vendor", "device", "subvendor", "subdevice", "class", "subclass", "progif"}
         /\ Names!DbOf[step] \in Names!Dbs \ {"T"}
         /\ step \in {"vendor", "subvendor"} => Names!DbOf[step] = "V" /\ Names!Db = tables.V /\ Names!From = 0
         /\ step = "device" => Names!DbOf[step] = "D" /\ Names!Db = tables.D
                               /\ Names!From = tables.V[pciids_cur_vendor + 1].devices
         /\ step = "subdevice" => Names!DbOf[step] = "S" /\ Names!Db = tables.S
                               /\ Names!From = tables.D[pciids_cur_device + 1].subs
         /\ step = "class" => Names!DbOf[step] = "C" /\ Names!Db = tables.C /\ Names!From = 0
         /\ step = "subclass" => Names!DbOf[step] = "U" /\ Names!Db = tables.U /\ Names!From = 0
         /\ step = "progif" => Names!DbOf[step] = "P" /\ Names!Db = tables.P /\ Names!From = 0
<1>1. step \in {"vendor", "device", "subvendor", "subdevice", "class", "subclass", "progif"}
  BY DEF Setting, Names!DbOf
<1>2. tables.V = tables["V"] /\ tables.D = tables["D"] /\ tables.S = tables["S"]
      /\ tables.C = tables["C"] /\ tables.U = tables["U"] /\ tables.P = tables["P"]
  OBVIOUS
<1>3. CASE step \in {"vendor", "subvendor"}
  BY <1>3 DEF Names!Db, Names!From, Names!DbOf, Names!Dbs
<1>4. CASE step = "device"
  BY <1>4 DEF Names!Db, Names!From, Names!DbOf, Names!Dbs
<1>5. CASE step = "subdevice"
  BY <1>5 DEF Names!Db, Names!From, Names!DbOf, Names!Dbs
<1>6. CASE step = "class"
  BY <1>6 DEF Names!Db, Names!From, Names!DbOf, Names!Dbs
<1>7. CASE step = "subclass"
  BY <1>7 DEF Names!Db, Names!From, Names!DbOf, Names!Dbs
<1>8. CASE step = "progif"
  BY <1>8 DEF Names!Db, Names!From, Names!DbOf, Names!Dbs
<1> QED BY <1>1, <1>3, <1>4, <1>5, <1>6, <1>7, <1>8

LEMMA ClassKeys ==
  ASSUME NEW c \in Names!Keys(3)
  PROVE  SubSeq(c, 1, 1) \in Names!Keys(1) /\ SubSeq(c, 1, 2) \in Names!Keys(2)
<1>1. \A l \in 1 .. 3 : c[l] \in Names!Ids
  BY DEF Names!Keys
<1>2. ASSUME NEW l \in {1, 2} PROVE SubSeq(c, 1, l) \in Names!Keys(l)
  <2> DEFINE s == SubSeq(c, 1, l)
  <2>1. s \in Seq(Names!Ids) /\ Len(s) = l
    <3>1. 1 \in Int /\ l \in Int /\ 1 <= l /\ l - 1 + 1 = l /\ \A m \in 1 .. l : c[m] \in Names!Ids
      BY <1>1
    <3> QED BY <3>1, SubSeqProperties
  <2> HIDE DEF s
  <2>2. s \in [1 .. l -> Names!Ids]
    BY <2>1, LenProperties
  <2> QED BY <2>2 DEF Names!Keys, s
<1> QED BY <1>2

(* Where a scan stops that starts with a listing.                          *)
StopsAt(p, E, k, R, T, asked, a) ==
  /\ a \in Nat /\ a <= Len(T) - 1 /\ a + 1 \in DOMAIN T /\ T[a + 1] = E[p]
  /\ \A r \in R : r[1] = asked => E[p].key = r[1] /\ E[p].name = r[2]
  /\ E[p].key = asked => \/ asked = AllOnes(k) /\ E[p].name = Names!NoName
                         \/ <<asked, E[p].name>> \in R

LEMMA StopsIn ==
  ASSUME NEW k \in Nat, NEW E, NEW R, NEW T, NEW lo, NEW asked,
         T = Names!Db, lo = Names!From, asked = Names!Asked,
         Listing(E, k, R), Lies(E, lo, T), asked \in Names!Keys(k), NEW a \in Names!Stops
  PROVE  \E p \in 1 .. Len(E) : StopsAt(p, E, k, R, T, asked, a)
<1> DEFINE In == Stopping(T, lo, asked)
           first == CHOOSE q \in In : \A r \in In : q <= r
<1>1. Names!Stops = {IF In = {} THEN Len(T) ELSE first} \cup (IF lo = Names!NoOffset THEN {Names!NoOffset} ELSE {})
  BY DEF Names!Stops, Names!Passes, Stopping
<1>2. PICK p \in 1 .. Len(E) :
           /\ In # {} /\ first = lo + p - 1
           /\ T[lo + p] = E[p] /\ lo + p \in DOMAIN T
           /\ \A r \in R : r[1] = asked => E[p].key = r[1] /\ E[p].name = r[2]
  BY ScanStops
<1>3. lo \in Nat /\ Len(T) \in Nat /\ DOMAIN T = 1 .. Len(T) /\ Len(E) \in Nat
  BY DEF Lies, Listing
<1>4. a = lo + p - 1
  <2>1. lo # Names!NoOffset
    BY <1>3 DEF Names!NoOffset
  <2> HIDE DEF In, first
  <2> QED BY <1>1, <1>2, <2>1
<1> HIDE DEF In, first
<1>5. a \in Nat /\ a + 1 = lo + p /\ a <= Len(T) - 1
  BY <1>2, <1>3, <1>4
<1>6. E[p].key = asked => \/ asked = AllOnes(k) /\ E[p].name = Names!NoName
                          \/ <<asked, E[p].name>> \in R
  BY DEF Listing
<1> QED BY <1>2, <1>5, <1>6 DEF StopsAt

(* The scan of the lookup that is made finds what it should.               *)
Right(a) ==
  LET e == Names!Db[a + 1] IN
    /\ a \in Nat /\ a <= Len(Names!Db) - 1 /\ a + 1 \in DOMAIN Names!Db
    /\ e.key = Names!Asked => e.name \in {Names!NoName, Names!Full}
    /\ Names!Full \in Names!Named(step) => e.key = Names!Asked /\ e.name = Names!Full

LEMMA VendorLands ==
  ASSUME Setting, step \in {"vendor", "subvendor"}, NEW a \in Names!Stops
  PROVE  /\ Right(a)
         /\ step = "vendor" /\ Names!Db[a + 1].key = Names!Asked => Vendor \in src.vendors \/ Vendor = Ones
         /\ step = "vendor" /\ Vendor \in src.vendors => tables.V[a + 1].devices = DevsOf(src, Vendor)
<1> DEFINE V == tables.V
           R == {<<<<v>>, <<v>>>> : v \in src.vendors}
<1>1. Names!IsPciIds(src) /\ V = Names!Built(src).V /\ Names!Db = V /\ Names!From = 0
  BY DbIs DEF Setting
<1>2. PICK w \in Names!Ids : Names!Asked = <<w>> /\ Names!Full = <<w>> /\ (step = "vendor" => w = Vendor)
  BY AskedIs, FunctionIs, ShortKeys
<1>3. /\ Listing(V, 1, R) /\ Lies(V, 0, V)
      /\ \A j \in 1 .. Len(V) : V[j].name # Names!NoName => V[j].devices = DevsOf(src, V[j].name[1])
  BY <1>1, VendorsListed
<1>4. Names!Named(step) = {<<v>> : v \in src.vendors}
  BY DEF Names!Named
<1> HIDE DEF V, R
<1>5. <<w>> \in Names!Keys(1)
  BY ShortKeys
<1>6a. PICK p \in 1 .. Len(V) : StopsAt(p, V, 1, R, V, <<w>>, a)
  BY <1>1, <1>2, <1>3, <1>5, StopsIn
<1>6. /\ a \in Nat /\ a <= Len(V) - 1 /\ a + 1 \in DOMAIN V /\ V[a + 1] = V[p]
      /\ \A r \in R : r[1] = <<w>> => V[p].key = r[1] /\ V[p].name = r[2]
      /\ V[p].key = <<w>> => \/ <<w>> = AllOnes(1) /\ V[p].name = Names!NoName
                             \/ <<<<w>>, V[p].name>> \in R
  BY <1>6a DEF StopsAt
<1>7. w \in src.vendors => V[p].key = <<w>> /\ V[p].name = <<w>>
  <2>1. w \in src.vendors => <<<<w>>, <<w>>>> \in R
    BY DEF R
  <2> QED BY <2>1, <1>6
<1>8. V[p].key = <<w>> => (w = Ones /\ V[p].name = Names!NoName) \/ (w \in src.vendors /\ V[p].name = <<w>>)
  <2>1. <<w>> = AllOnes(1) => w = Ones
    BY ShortKeys
  <2>2. <<<<w>>, V[p].name>> \in R => w \in src.vendors /\ V[p].name = <<w>>
    BY DEF R
  <2> QED BY <2>1, <2>2, <1>6
<1>9. Names!Full \in Names!Named(step) => w \in src.vendors
  BY <1>2, <1>4
<1>10. Right(a)
  BY <1>1, <1>2, <1>6, <1>7, <1>8, <1>9 DEF Right
<1>11. w \in src.vendors => V[a + 1].devices = DevsOf(src, w)
  <2> HAVE w \in src.vendors
  <2>1. V[p].name = <<w>> /\ <<w>> # Names!NoName /\ <<w>>[1] = w
    BY <1>7 DEF Names!NoName
  <2> QED BY <2>1, <1>3, <1>6
<1> QED BY <1>1, <1>2, <1>6, <1>8, <1>10, <1>11 DEF V

LEMMA ClassLands ==
  ASSUME Setting, step \in {"class", "subclass", "progif"}, NEW a \in Names!Stops
  PROVE  Right(a)
<1> DEFINE T == Names!Db
           keys == Names!Named(step)
           R == {<<x, x>> : x \in keys}
           asked == Names!Asked
<1>1. Names!From = 0 /\ Names!Full = asked
  BY DbIs, AskedIs
<1>2. \E k \in Nat \ {0} : keys \in SUBSET Names!Keys(k) /\ T = Names!ClassDb(keys, k) /\ asked \in Names!Keys(k)
  <2>1. /\ src.classes \in SUBSET Names!Keys(1) /\ src.subclasses \in SUBSET Names!Keys(2)
        /\ src.progifs \in SUBSET Names!Keys(3)
        /\ tables.C = Names!ClassDb(src.classes, 1) /\ tables.U = Names!ClassDb(src.subclasses, 2)
        /\ tables.P = Names!ClassDb(src.progifs, 3)
    BY DEF Setting, Names!IsPciIds, Names!Built
  <2>2. Names!Function.class \in Names!Keys(3)
    BY FunctionIs
  <2>3. CASE step = "class"
    <3>1. keys = src.classes /\ T = tables.C /\ asked \in Names!Keys(1)
      BY <2>2, <2>3, DbIs, AskedIs, ClassKeys DEF Names!Named
    <3> QED BY <3>1, <2>1
  <2>4. CASE step = "subclass"
    <3>1. keys = src.subclasses /\ T = tables.U /\ asked \in Names!Keys(2)
      BY <2>2, <2>4, DbIs, AskedIs, ClassKeys DEF Names!Named
    <3> QED BY <3>1, <2>1
  <2>5. CASE step = "progif"
    <3>1. keys = src.progifs /\ T = tables.P /\ asked \in Names!Keys(3)
      BY <2>2, <2>5, DbIs, AskedIs DEF Names!Named
    <3> QED BY <3>1, <2>1
  <2> QED BY <2>3, <2>4, <2>5
<1> HIDE DEF T, keys, asked
<1>3. PICK k \in Nat \ {0} : keys \in SUBSET Names!Keys(k) /\ T = Names!ClassDb(keys, k) /\ asked \in Names!Keys(k)
  BY <1>2
<1>4. Listing(T, k, R) /\ Lies(T, 0, T)
  BY <1>3, ClassesListed
<1> HIDE DEF R
<1>5a. PICK p \in 1 .. Len(T) : StopsAt(p, T, k, R, T, asked, a)
  BY <1>1, <1>3, <1>4, StopsIn DEF T, asked
<1>5. /\ a \in Nat /\ a <= Len(T) - 1 /\ a + 1 \in DOMAIN T /\ T[a + 1] = T[p]
      /\ \A r \in R : r[1] = asked => T[p].key = r[1] /\ T[p].name = r[2]
      /\ T[p].key = asked => \/ asked = AllOnes(k) /\ T[p].name = Names!NoName
                             \/ <<asked, T[p].name>> \in R
  BY <1>5a DEF StopsAt
<1>6. asked \in keys => T[p].key = asked /\ T[p].name = asked
  <2>1. asked \in keys => <<asked, asked>> \in R
    BY DEF R
  <2> QED BY <2>1, <1>5
<1>7. <<asked, T[p].name>> \in R => T[p].name = asked
  BY DEF R
<1> QED BY <1>1, <1>5, <1>6, <1>7 DEF Right, T, asked, keys

LEMMA DeviceLands ==
  ASSUME Setting, step = "device", NEW a \in Names!Stops, NEW d0 \in src.devices, d0[1] = Vendor,
         tables.V[pciids_cur_vendor + 1].devices = DevsOf(src, Vendor)
  PROVE  /\ Right(a)
         /\ Names!Db[a + 1].key = Names!Asked => Device \in src.devices \/ Device[2] = Ones
         /\ Device \in src.devices => tables.D[a + 1].subs = SubsOf(src, Device)
<1> DEFINE D == tables.D
           R == {<<DevKey(x), x>> : x \in Under(src, Vendor)}
           w == Device[2]
<1>1. Names!IsPciIds(src) /\ D = Names!Built(src).D /\ Names!Db = D /\ Names!From = DevsOf(src, Vendor)
  BY DbIs DEF Setting
<1>2. Names!Asked = <<w>> /\ Names!Full = Device /\ Names!Named(step) = src.devices
      /\ w \in Names!Ids /\ Device = <<Vendor, w>>
  BY AskedIs, FunctionIs DEF Names!Named, Device, Vendor
<1>3. PICK E : /\ Listing(E, 1, R) /\ Lies(E, DevsOf(src, Vendor), D)
               /\ \A j \in 1 .. Len(E) : E[j].name # Names!NoName => E[j].subs = SubsOf(src, E[j].name)
  BY <1>1, DevicesListed
<1> HIDE DEF D, R, w
<1>4. <<w>> \in Names!Keys(1)
  BY <1>2, ShortKeys
<1>5a. PICK p \in 1 .. Len(E) : StopsAt(p, E, 1, R, D, <<w>>, a)
  BY <1>1, <1>2, <1>3, <1>4, StopsIn
<1>5. /\ a \in Nat /\ a <= Len(D) - 1 /\ a + 1 \in DOMAIN D /\ D[a + 1] = E[p]
      /\ \A r \in R : r[1] = <<w>> => E[p].key = r[1] /\ E[p].name = r[2]
      /\ E[p].key = <<w>> => \/ <<w>> = AllOnes(1) /\ E[p].name = Names!NoName
                             \/ <<<<w>>, E[p].name>> \in R
  BY <1>5a DEF StopsAt
<1>6. Device \in src.devices => E[p].key = <<w>> /\ E[p].name = Device
  <2> HAVE Device \in src.devices
  <2>1. Device \in Under(src, Vendor)
    BY <1>2 DEF Under
  <2>2. <<DevKey(Device), Device>> \in R /\ DevKey(Device) = <<w>>
    BY <2>1 DEF R, DevKey, w
  <2> QED BY <2>2, <1>5
<1>7. <<<<w>>, E[p].name>> \in R => E[p].name = Device /\ Device \in src.devices
  <2> HAVE <<<<w>>, E[p].name>> \in R
  <2>1. PICK x \in Under(src, Vendor) : <<w>> = DevKey(x) /\ E[p].name = x
    BY DEF R
  <2>2. x \in src.devices /\ x[1] = Vendor /\ x[2] = w /\ x \in Names!Keys(2)
    BY <2>1, <1>1 DEF Under, DevKey, Names!IsPciIds
  <2>3. x = <<Vendor, w>>
    BY <2>2, ShortKeys
  <2> QED BY <2>1, <2>2, <2>3, <1>2
<1>8. <<w>> = AllOnes(1) => w = Ones
  BY ShortKeys
<1>9. Right(a)
  BY <1>1, <1>2, <1>5, <1>6, <1>7 DEF Right
<1>10. D[a + 1].key = <<w>> => Device \in src.devices \/ w = Ones
  BY <1>5, <1>7, <1>8
<1>11. Device \in src.devices => D[a + 1].subs = SubsOf(src, Device)
  <2> HAVE Device \in src.devices
  <2>1. E[p].name = Device /\ Device # Names!NoName
    BY <1>2, <1>6 DEF Names!NoName
  <2> QED BY <2>1, <1>3, <1>5
<1> QED BY <1>1, <1>2, <1>9, <1>10, <1>11 DEF D, w

LEMMA Joined ==
  ASSUME NEW a \in Names!Keys(2), NEW b \in Names!Keys(2)
  PROVE  a \o b \in Names!Keys(4) /\ SubSeq(a \o b, 1, 2) = a /\ SubKey(a \o b) = b
<1>1. a = <<a[1], a[2]>> /\ b = <<b[1], b[2]>> /\ a[1] \in Names!Ids /\ a[2] \in Names!Ids
      /\ b[1] \in Names!Ids /\ b[2] \in Names!Ids
  BY ShortKeys
<1>2. a \in Seq(Names!Ids) /\ b \in Seq(Names!Ids) /\ Len(a) = 2 /\ Len(b) = 2
  <2>1. \A p, q \in Names!Ids : <<p, q>> \in Seq(Names!Ids) /\ Len(<<p, q>>) = 2
    OBVIOUS
  <2> QED BY <1>1, <2>1
<1> PICK x : x = a \o b
  OBVIOUS
<1>3. /\ x \in Seq(Names!Ids) /\ Len(x) = 4
      /\ \A j \in 1 .. 4 : x[j] = IF j <= 2 THEN a[j] ELSE b[j - 2]
  <2>1. /\ a \o b \in Seq(Names!Ids) /\ Len(a \o b) = Len(a) + Len(b)
        /\ \A j \in 1 .. Len(a) + Len(b) : (a \o b)[j] = IF j <= Len(a) THEN a[j] ELSE b[j - Len(a)]
    BY <1>2, ConcatProperties
  <2>2. Len(a) + Len(b) = 4
    BY <1>2
  <2> QED BY <2>1, <2>2, <1>2
<1>4. x[1] = a[1] /\ x[2] = a[2] /\ x[3] = b[1] /\ x[4] = b[2]
  BY <1>3
<1>5. x \in Names!Keys(4)
  <2>1. x \in [1 .. 4 -> Names!Ids]
    BY <1>3, LenProperties
  <2> QED BY <2>1 DEF Names!Keys
<1>6. SubSeq(x, 1, 2) = a
  BY <1>1, <1>4, <1>5, LongKeys
<1>7. SubKey(x) = b
  BY <1>1, <1>4 DEF SubKey
<1> QED BY <1>5, <1>6, <1>7

LEMMA SubdeviceLands ==
  ASSUME Setting, step = "subdevice", NEW a \in Names!Stops, Device \in src.devices, Ends(src, Device),
         tables.D[pciids_cur_device + 1].subs = SubsOf(src, Device)
  PROVE  Right(a)
<1> DEFINE S == tables.S
           R == {<<SubKey(x), x>> : x \in Of(src, Device)}
           asked == Names!Asked
           E == Names!SubdeviceEntries(src, Device)
<1>1. Names!IsPciIds(src) /\ S = Names!Built(src).S /\ Names!Db = S /\ Names!From = SubsAt(src, Device)
  <2>1. SubsOf(src, Device) = SubsAt(src, Device)
    BY DEF SubsOf, Ends
  <2> QED BY <2>1, DbIs DEF Setting
<1>2. /\ asked = Names!Function.sub /\ Names!Full = Device \o asked /\ Names!Named(step) = src.subdevices
      /\ asked \in Names!Keys(2) /\ Device \in Names!Keys(2)
  BY AskedIs, FunctionIs DEF Names!Named
<1>3. Listing(E, 2, R)
  BY <1>1, SubdeviceBlock
<1>4. Lies(E, SubsAt(src, Device), S)
  BY <1>1, SubdevicesPlaced
<1> HIDE DEF S, R, asked, E
<1>5a. PICK p \in 1 .. Len(E) : StopsAt(p, E, 2, R, S, asked, a)
  BY <1>1, <1>2, <1>3, <1>4, StopsIn DEF asked
<1>5. /\ a \in Nat /\ a <= Len(S) - 1 /\ a + 1 \in DOMAIN S /\ S[a + 1] = E[p]
      /\ \A r \in R : r[1] = asked => E[p].key = r[1] /\ E[p].name = r[2]
      /\ E[p].key = asked => \/ asked = AllOnes(2) /\ E[p].name = Names!NoName
                             \/ <<asked, E[p].name>> \in R
  BY <1>5a DEF StopsAt
<1>6. \A x \in Of(src, Device) : x = Device \o SubKey(x)
  <2> TAKE x \in Of(src, Device)
  <2>1. x \in Names!Keys(4) /\ SubSeq(x, 1, 2) = Device
    BY <1>1 DEF Of, Names!IsPciIds
  <2>2. <<x[1], x[2]>> = Device
    BY <2>1, LongKeys
  <2> QED BY <2>1, <2>2, LongKeys
<1>7. <<asked, E[p].name>> \in R => E[p].name = Device \o asked
  <2> HAVE <<asked, E[p].name>> \in R
  <2>1. PICK x \in Of(src, Device) : asked = SubKey(x) /\ E[p].name = x
    BY DEF R
  <2> QED BY <2>1, <1>6
<1>8. Device \o asked \in src.subdevices => E[p].key = asked /\ E[p].name = Device \o asked
  <2> HAVE Device \o asked \in src.subdevices
  <2> PICK x : x = Device \o asked
    OBVIOUS
  <2>1. SubSeq(x, 1, 2) = Device /\ SubKey(x) = asked
    BY <1>2, Joined
  <2>2. x \in Of(src, Device)
    BY <2>1 DEF Of
  <2>3. <<asked, x>> \in R
    BY <2>1, <2>2 DEF R
  <2> QED BY <2>3, <1>5
<1> QED BY <1>1, <1>2, <1>5, <1>7, <1>8 DEF Right, S, asked

-----------------------------------------------------------------------------
(* A lookup while it is made.                                              *)

Loading == pc \in {"open", "header", "found", "notloaded"}
Known == pc = "tell" \/ (Loading /\ want = "T")
After == pc = "missed" \/ Known
Sound == Names!Readable /\ faults = 0

(* What is loaded is not there yet, and what is needed for it is; the      *)
(* entries before the place in the archive are of other databases, and     *)
(* where nothing fails every database is found.                            *)
LoadInv ==
  /\ Loading => want \notin loaded
  /\ pc = "search" \/ (Loading /\ want # "T") => ~ Names!NoCursor
  /\ "D" \in loaded => "V" \in loaded
  /\ entry = "plain" => disk.archive = <<>>
  /\ pc = "header" => \A j \in 1 .. Entries : Names!Place(j) < pos => disk.archive[j].db # want
  /\ Sound => pc \notin {"notloaded", "undefined"}

At == \E k \in 1 .. Entries + 1 : pos = Names!Place(k)

(* What the lookup of a vendor or device leaves for the one that needs it. *)
VendorLeft ==
  Vendor \in src.vendors =>
    /\ pciids_cur_vendor >= 0 => tables.V[pciids_cur_vendor + 1].devices = DevsOf(src, Vendor)
    /\ "V" \in loaded => pciids_cur_vendor >= 0
    /\ Sound => "V" \in loaded

VendorGone ==
  machine.libpci /\ Vendor \notin src.vendors /\ Vendor # Ones => pciids_cur_vendor = -1

DeviceLeft ==
  Device \in src.devices =>
    /\ pciids_cur_device >= 0 => tables.D[pciids_cur_device + 1].subs = SubsOf(src, Device)
    /\ "D" \in loaded => pciids_cur_device >= 0
    /\ Sound => "D" \in loaded

DeviceGone ==
  machine.libpci /\ Device \notin src.devices /\ Device[2] # Ones /\ Names!VendorStands(Vendor) =>
    pciids_cur_device = -1

AfterVendor == step = "device" \/ (step = "vendor" /\ After)
AfterDevice == step \in {"subvendor", "subdevice"} \/ (step = "device" /\ After)

CursorInv ==
  /\ AfterVendor => VendorLeft
  /\ AfterVendor /\ (step = "vendor" => Known) => VendorGone
  /\ AfterDevice => DeviceLeft
  /\ AfterDevice /\ (step = "device" => Known) => DeviceGone
  /\ pc = "missed" /\ step = "vendor" /\ Vendor \in src.vendors => "V" \notin loaded
  /\ pc = "missed" /\ step = "device" /\ Device \in src.devices => "D" \notin loaded

(* The lookup's vendor and device are established.                         *)
Stands ==
  /\ step \in {"device", "subdevice"} => Names!VendorStands(Vendor)
  /\ step = "subdevice" => Names!DeviceStands(Device)

NameInv ==
  Stands =>
    /\ Known => name \in {Names!NoName, Names!Full}
    /\ After /\ Sound /\ Names!Full \in Names!Named(step) => name = Names!Full /\ pc # "missed"

ShownInv == IsList(shown) /\ Names!NamesRight

LookupInv ==
  /\ NInv /\ Setting /\ Names!TypeOK /\ At
  /\ LoadInv /\ CursorInv /\ NameInv /\ ShownInv

LEMMA SameThing ==
  ASSUME UNCHANGED Names!files, n' = n
  PROVE  /\ Vendor' = Vendor /\ Device' = Device
         /\ Names!Function' = Names!Function
         /\ Names!VendorStands(Vendor)' <=> Names!VendorStands(Vendor)
         /\ Names!DeviceStands(Device)' <=> Names!DeviceStands(Device)
         /\ Names!Readable' <=> Names!Readable
<1>1. src' = src /\ disk' = disk /\ machine' = machine /\ tables' = tables
  BY DEF Names!files
<1>2. Names!Function' = Names!Function
  BY <1>1 DEF Names!Function
<1>3. Vendor' = Vendor /\ Device' = Device
  BY <1>2 DEF Vendor, Device
<1>4. Names!VendorStands(Vendor)' <=> Names!VendorStands(Vendor)
  BY <1>1, <1>3 DEF Names!VendorStands
<1>5. Names!DeviceStands(Device)' <=> Names!DeviceStands(Device)
  BY <1>1, <1>3 DEF Names!DeviceStands
<1>6. \A k : Names!Place(k)' = Names!Place(k)
  BY <1>1, SamePlaces
<1>7. \A e : Names!LH5HeaderParse(e)' <=> Names!LH5HeaderParse(e)
  BY DEF Names!LH5HeaderParse
<1>8. Names!Readable' <=> Names!Readable
  BY <1>1, <1>6, <1>7 DEF Names!Readable, Names!ArchiveSize
<1> QED BY <1>2, <1>3, <1>4, <1>5, <1>8

LEMMA SameLookup ==
  ASSUME UNCHANGED Names!files, UNCHANGED <<n, step>>
  PROVE  /\ Setting => Setting'
         /\ Stands' <=> Stands
         /\ Names!Full' = Names!Full /\ Names!Named(step)' = Names!Named(step)
<1>1. src' = src /\ disk' = disk /\ machine' = machine /\ tables' = tables /\ n' = n /\ step' = step
  BY DEF Names!files
<1>2. Setting => Setting'
  BY <1>1 DEF Setting, Names!DbOf
<1>3. Stands' <=> Stands
  BY <1>1, SameThing DEF Stands
<1>4. Names!Full' = Names!Full
  BY <1>1 DEF Names!Full, Names!Asked, Names!Function
<1>5. Names!Named(step)' = Names!Named(step)
  BY <1>1 DEF Names!Named
<1> QED BY <1>2, <1>3, <1>4, <1>5

LEMMA SameCursors ==
  ASSUME UNCHANGED Names!files, n' = n, loaded' = loaded, UNCHANGED Names!cursors, Sound' => Sound
  PROVE  /\ (VendorLeft => VendorLeft') /\ (VendorGone => VendorGone')
         /\ (DeviceLeft => DeviceLeft') /\ (DeviceGone => DeviceGone')
<1>1. src' = src /\ machine' = machine /\ tables' = tables
      /\ pciids_cur_vendor' = pciids_cur_vendor /\ pciids_cur_device' = pciids_cur_device
  BY DEF Names!files, Names!cursors
<1>2. Vendor' = Vendor /\ Device' = Device /\ (Names!VendorStands(Vendor)' <=> Names!VendorStands(Vendor))
  BY SameThing
<1>3. VendorLeft => VendorLeft'
  BY <1>1, <1>2 DEF VendorLeft
<1>4. VendorGone => VendorGone'
  BY <1>1, <1>2 DEF VendorGone
<1>5. DeviceLeft => DeviceLeft'
  BY <1>1, <1>2 DEF DeviceLeft
<1>6. DeviceGone => DeviceGone'
  BY <1>1, <1>2 DEF DeviceGone
<1> QED BY <1>3, <1>4, <1>5, <1>6

(* What pcireg looks up next.                                              *)
NextStep == IF machine.tool = "scan" THEN Names!NextOfScan ELSE Names!NextOfInfo

LEMMA StepsFollow ==
  ASSUME Setting
  PROVE  /\ NextStep \in {"device", "subvendor", "subdevice", "class", "subclass", "progif", "next"}
         /\ NextStep = "device" => step = "vendor"
         /\ NextStep = "subvendor" => step = "device"
         /\ NextStep = "subdevice" => step = "subvendor"
<1>1. Names!NextOfScan \in {"device", "subclass", "next"} /\ (Names!NextOfScan = "device" => step = "vendor")
  <2>1. CASE step = "vendor" /\ name # Names!NoName
    BY <2>1 DEF Names!NextOfScan
  <2>2. CASE step = "subclass" \/ (step = "device" /\ name # Names!NoName)
    BY <2>2 DEF Names!NextOfScan
  <2>3. CASE ~(step = "vendor" /\ name # Names!NoName) /\ ~(step = "subclass" \/ (step = "device" /\ name # Names!NoName))
    BY <2>3 DEF Names!NextOfScan
  <2> QED BY <2>1, <2>2, <2>3
<1>2. step \in {"vendor", "device", "subvendor", "subdevice", "class", "subclass", "progif"}
  BY DbIs
<1>3. /\ Names!NextOfInfo \in {"device", "subvendor", "subdevice", "class", "subclass", "progif", "next"}
      /\ Names!NextOfInfo = "device" => step = "vendor"
      /\ Names!NextOfInfo = "subvendor" => step = "device"
      /\ Names!NextOfInfo = "subdevice" => step = "subvendor"
  <2>1. CASE step = "vendor"
    BY <2>1 DEF Names!NextOfInfo
  <2>2. CASE step = "device"
    BY <2>2 DEF Names!NextOfInfo
  <2>3. CASE step = "subvendor"
    BY <2>3 DEF Names!NextOfInfo
  <2>4. CASE step = "subdevice"
    BY <2>4 DEF Names!NextOfInfo
  <2>5. CASE step = "class"
    BY <2>5 DEF Names!NextOfInfo
  <2>6. CASE step = "subclass"
    BY <2>6 DEF Names!NextOfInfo
  <2>7. CASE step = "progif"
    BY <2>7 DEF Names!NextOfInfo
  <2> QED BY <1>2, <2>1, <2>2, <2>3, <2>4, <2>5, <2>6, <2>7
<1> QED BY <1>1, <1>3 DEF NextStep

(* Where the scans of vendors and devices stop: in their tables.           *)
LEMMA StopsTyped ==
  ASSUME Setting, Names!TypeOK, ~ Names!NoCursor, NEW a \in Names!Stops
  PROVE  /\ step \in {"vendor", "subvendor"} => a \in -1 .. Len(tables.V) - 1
         /\ step = "device" => a \in -1 .. Len(tables.D) - 1
<1>1. ASSUME step \in {"vendor", "subvendor"} PROVE a \in -1 .. Len(tables.V) - 1
  <2>1. a \in Nat /\ a <= Len(tables.V) - 1 /\ a + 1 \in DOMAIN tables.V
    BY <1>1, VendorLands, DbIs DEF Right
  <2>2. Len(tables.V) \in Nat
    BY VendorsListed DEF Setting, Listing
  <2> QED BY <2>1, <2>2
<1>2. ASSUME step = "device" PROVE a \in -1 .. Len(tables.D) - 1
  <2> DEFINE D == Names!Db
             lo == Names!From
             In == Stopping(D, lo, Names!Asked)
             first == CHOOSE q \in In : \A r \in In : q <= r
  <2>1. tables.D = D /\ lo = tables.V[pciids_cur_vendor + 1].devices /\ Names!Asked = <<Device[2]>>
        /\ Device[2] \in Names!Ids
    BY <1>2, DbIs, AskedIs, FunctionIs DEF Device
  <2>2. /\ Len(D) \in Nat \ {0} /\ D[Len(D)].key = <<Ones>>
        /\ Len(tables.V) \in Nat
        /\ \A j \in 1 .. Len(tables.V) : tables.V[j].devices \in -1 .. Len(D) - 1
    BY <2>1, VendorsListed, DevicesEnd DEF Setting, Listing
  <2>3. pciids_cur_vendor + 1 \in 1 .. Len(tables.V)
    BY <1>2, <2>2 DEF Names!TypeOK, Names!NoCursor
  <2>4. lo \in -1 .. Len(D) - 1
    BY <2>1, <2>2, <2>3
  <2>5. Names!Stops = {IF In = {} THEN Len(D) ELSE first} \cup (IF lo = Names!NoOffset THEN {Names!NoOffset} ELSE {})
    BY DEF Names!Stops, Names!Passes, Stopping
  <2>6. Len(D) - 1 \in In
    <3>1. ~ \E c \in DOMAIN <<Device[2]>> : D[Len(D)].key[c] < <<Device[2]>>[c]
      <4>1. Device[2] \in 0 .. Ones /\ Ones \in Nat
        BY <2>1, NamesAssumption DEF Names!Ids
      <4>2. ~ (Ones < Device[2])
        BY <4>1
      <4> QED BY <2>2, <4>2
    <3> HIDE DEF D, lo
    <3>2. Len(D) - 1 \in lo .. Len(D) - 1 /\ Len(D) - 1 >= 0 /\ Len(D) - 1 + 1 = Len(D)
      BY <2>2, <2>4
    <3> QED BY <3>1, <3>2, <2>1 DEF Stopping
  <2>7. In \in SUBSET Nat /\ \A q \in In : q <= Len(D) - 1
    BY <2>2, <2>4 DEF Stopping
  <2> HIDE DEF In, D, lo
  <2>8. first \in In
    BY <2>6, <2>7, Least
  <2> HIDE DEF first
  <2>9. first \in Nat /\ first <= Len(D) - 1 /\ In # {}
    BY <2>6, <2>7, <2>8
  <2>10. a = first \/ a = -1
    BY <2>5, <2>9 DEF Names!NoOffset
  <2>11. a \in -1 .. Len(D) - 1
    BY <2>2, <2>9, <2>10
  <2> QED BY <2>1, <2>11
<1> QED BY <1>1, <1>2

(* Whose lookups find what they should.                                    *)
LEMMA Parents ==
  ASSUME Setting
  PROVE  /\ Device \in src.devices => Vendor \in src.vendors /\ Names!VendorStands(Vendor)
         /\ \A d \in src.devices : d[1] \in src.vendors
         /\ Ends(src, Device) => Device \in src.devices
<1>1. Names!IsPciIds(src)
  BY DEF Setting
<1>2. Device[1] = Vendor
  BY DEF Device, Vendor
<1>3. Device \in src.devices => Vendor \in src.vendors /\ Names!VendorStands(Vendor)
  BY <1>1, <1>2 DEF Names!IsPciIds, Names!VendorStands
<1>4. ASSUME Ends(src, Device) PROVE Device \in src.devices
  <2>1. Of(src, Device) \in SUBSET Names!Keys(4)
    BY <1>1 DEF Of, Names!IsPciIds
  <2>2. Names!SubdevicesOf(src, Device) = Names!Sorted(Of(src, Device))
    BY DEF Names!SubdevicesOf, Of
  <2>3. Of(src, Device) # {}
    <3>1. SUFFICES ASSUME Of(src, Device) = {} PROVE FALSE
      OBVIOUS
    <3>2. Cardinality(Of(src, Device)) = 0
      BY <3>1, FS_EmptySet
    <3>3. Names!Sorted(Of(src, Device)) \in [1 .. 0 -> Of(src, Device)]
      BY <2>1, <3>2, SortedIs
    <3>4. Names!Sorted(Of(src, Device)) = <<>>
      BY <3>3
    <3> QED BY <1>4, <2>2, <3>4 DEF Ends
  <2>4. PICK x \in Of(src, Device) : TRUE
    BY <2>3
  <2>5. x \in src.subdevices /\ x \in Names!Keys(4) /\ SubSeq(x, 1, 2) = Device
    BY <2>1, <2>4 DEF Of
  <2>6. <<x[1], x[2]>> \in src.devices
    BY <1>1, <2>5 DEF Names!IsPciIds
  <2>7. <<x[1], x[2]>> = Device
    BY <2>5, LongKeys
  <2> QED BY <2>6, <2>7
<1> QED BY <1>1, <1>3, <1>4 DEF Names!IsPciIds

LEMMA Lands ==
  ASSUME LookupInv, pc = "search", Stands, NEW a \in Names!Stops
  PROVE  Right(a)
<1>1. Setting /\ LoadInv /\ CursorInv /\ Names!TypeOK /\ ~ Names!NoCursor
  BY DEF LookupInv, LoadInv
<1>2. CASE step \in {"vendor", "subvendor"}
  BY <1>1, <1>2, VendorLands
<1>3. CASE step = "device"
  <2>1. pciids_cur_vendor >= 0 /\ pciids_cur_vendor # -1
    BY <1>1, <1>3 DEF Names!NoCursor, Names!TypeOK
  <2>2. VendorLeft /\ VendorGone /\ Names!VendorStands(Vendor)
    BY <1>1, <1>3 DEF CursorInv, AfterVendor, Stands
  <2>3. PICK d \in src.devices : d[1] = Vendor
    BY <2>1, <2>2 DEF VendorGone, Names!VendorStands
  <2>4. tables.V[pciids_cur_vendor + 1].devices = DevsOf(src, Vendor)
    BY <1>1, <2>1, <2>2, <2>3, Parents DEF VendorLeft
  <2> QED BY <1>1, <1>3, <2>3, <2>4, DeviceLands
<1>4. CASE step = "subdevice"
  <2>1. pciids_cur_device >= 0 /\ pciids_cur_device # -1
    BY <1>1, <1>4 DEF Names!NoCursor, Names!TypeOK
  <2>2. DeviceLeft /\ DeviceGone /\ Names!DeviceStands(Device) /\ Names!VendorStands(Vendor)
    BY <1>1, <1>4 DEF CursorInv, AfterDevice, Stands
  <2>3. Ends(src, Device)
    BY <2>1, <2>2 DEF DeviceGone, Names!DeviceStands, Ends
  <2>4. Device \in src.devices
    BY <1>1, <2>3, Parents
  <2>5. tables.D[pciids_cur_device + 1].subs = SubsOf(src, Device)
    BY <2>1, <2>2, <2>4 DEF DeviceLeft
  <2> QED BY <1>1, <1>4, <2>3, <2>4, <2>5, SubdeviceLands
<1>5. CASE step \in {"class", "subclass", "progif"}
  BY <1>1, <1>5, ClassLands
<1> QED BY <1>1, <1>2, <1>3, <1>4, <1>5, DbIs

(* The entry that a header is read of, and the place after it.             *)
Here == {k \in DOMAIN disk.archive : Names!Place(k) = pos}
Read1 == CHOOSE k \in Here : TRUE

LEMMA HeaderAt ==
  ASSUME Setting, Here # {}
  PROVE  /\ Read1 \in 1 .. Entries /\ Names!Place(Read1) = pos
         /\ pos + Names!HeaderSize(disk.archive[Read1]) + disk.archive[Read1].data = Names!Place(Read1 + 1)
         /\ \A j \in 1 .. Entries : Names!Place(j) < Names!Place(Read1 + 1) => j = Read1 \/ Names!Place(j) < pos
<1>1. Read1 \in Here
  BY DEF Read1
<1>2. Names!IsDisk(disk)
  BY DEF Setting
<1>3. Entries \in Nat /\ DOMAIN disk.archive = 1 .. Entries
  BY <1>2, StepsGo
<1>4. Read1 \in 1 .. Entries /\ Names!Place(Read1) = pos
  BY <1>1, <1>3 DEF Here
<1>5. Names!Place(Read1 + 1) = Names!Place(Read1) + Step(Read1)
  BY <1>2, <1>4, PlaceUnfolds
<1>6. pos \in Nat /\ disk.archive[Read1].header \in Nat /\ disk.archive[Read1].exts \in Nat /\ disk.archive[Read1].data \in Nat
  <2>1. Read1 \in 1 .. Entries + 1
    BY <1>3, <1>4
  <2> QED BY <1>2, <1>4, <2>1, EntryIs, PlacesGrow
<1>7. pos + Names!HeaderSize(disk.archive[Read1]) + disk.archive[Read1].data = Names!Place(Read1 + 1)
  BY <1>4, <1>5, <1>6 DEF Step, Names!HeaderSize
<1>8. ASSUME NEW j \in 1 .. Entries, Names!Place(j) < Names!Place(Read1 + 1)
      PROVE  j = Read1 \/ Names!Place(j) < pos
  <2>1. j \in 1 .. Entries + 1 /\ Read1 + 1 \in 1 .. Entries + 1 /\ Read1 \in 1 .. Entries + 1
    BY <1>3, <1>4
  <2>2. /\ \A k \in 1 .. Entries + 1 : Names!Place(k) \in Nat
        /\ \A l, k \in 1 .. Entries + 1 : l < k => Names!Place(l) < Names!Place(k)
    BY <1>2, PlacesGrow
  <2>3. ~ (Read1 + 1 < j) /\ j # Read1 + 1
    <3>1. Names!Place(j) \in Nat /\ Names!Place(Read1 + 1) \in Nat
      BY <2>1, <2>2
    <3>2. Read1 + 1 < j => Names!Place(Read1 + 1) < Names!Place(j)
      BY <2>1, <2>2
    <3> QED BY <1>8, <3>1, <3>2
  <2>4. j < Read1 \/ j = Read1
    BY <1>4, <2>3
  <2> QED BY <1>4, <2>1, <2>2, <2>4
<1> QED BY <1>4, <1>7, <1>8

LEMMA WithinArchive ==
  ASSUME Setting, At
  PROVE  pos \in 0 .. Names!ArchiveSize
<1>1. Names!IsDisk(disk)
  BY DEF Setting
<1>2. Entries \in Nat
  BY <1>1, StepsGo
<1>3. PICK k \in 1 .. Entries + 1 : pos = Names!Place(k)
  BY DEF At
<1>4. /\ \A j \in 1 .. Entries + 1 : Names!Place(j) \in Nat
      /\ \A i1, j \in 1 .. Entries + 1 : i1 < j => Names!Place(i1) < Names!Place(j)
  BY <1>1, PlacesGrow
<1>5. Entries + 1 \in 1 .. Entries + 1
  BY <1>2
<1>6. pos \in Nat /\ Names!Place(Entries + 1) \in Nat /\ pos <= Names!Place(Entries + 1)
  <2>1. k = Entries + 1 \/ k < Entries + 1
    BY <1>2
  <2>2. k < Entries + 1 => Names!Place(k) < Names!Place(Entries + 1)
    BY <1>4, <1>5
  <2>3. Names!Place(k) \in Nat /\ Names!Place(Entries + 1) \in Nat
    BY <1>4, <1>5
  <2> QED BY <1>3, <2>1, <2>2, <2>3
<1>7. Names!ArchiveSize = Names!Place(Entries + 1) + 1
  BY DEF Names!ArchiveSize, Entries
<1> QED BY <1>6, <1>7

LEMMA FilesKept == Names!Next => UNCHANGED Names!files
  BY DEF Names!Next, Names!Ask, Names!Search, Names!AskSystem, Names!Tell, Names!Open, Names!ReadHeader,
     Names!Load, Names!LoadFails, Names!NotLoaded

LEMMA AtKept == Setting /\ At /\ Names!Next => At'
<1> SUFFICES ASSUME Setting, At, Names!Next PROVE At'
  OBVIOUS
<1>1. disk' = disk
  BY FilesKept DEF Names!files
<1>2. \A k : Names!Place(k)' = Names!Place(k)
  BY <1>1, SamePlaces
<1>3. Entries' = Entries
  BY <1>1 DEF Entries
<1>4. Entries \in Nat /\ Names!Place(1) = 0
  BY StepsGo, PlaceUnfolds DEF Setting
<1>5. CASE pos' = pos
  BY <1>2, <1>3, <1>5 DEF At
<1>6. CASE pos' = 0
  <2>1. 1 \in 1 .. Entries + 1
    BY <1>4
  <2> QED BY <1>2, <1>3, <1>4, <1>6, <2>1 DEF At
<1>7. CASE Here # {} /\ pos' = pos + Names!HeaderSize(disk.archive[Read1]) + disk.archive[Read1].data
  <2>1. pos' = Names!Place(Read1 + 1) /\ Read1 \in 1 .. Entries
    BY <1>7, HeaderAt
  <2>2. Read1 + 1 \in 1 .. Entries + 1
    BY <1>4, <2>1
  <2> HIDE DEF Read1
  <2> QED BY <1>2, <1>3, <2>1, <2>2 DEF At
<1>8. CASE Names!ReadHeader
  BY <1>5, <1>7, <1>8 DEF Names!ReadHeader, Here, Read1
<1>9. CASE ~ Names!ReadHeader
  BY <1>5, <1>6, <1>9 DEF Names!Next, Names!Ask, Names!Search, Names!AskSystem, Names!Tell, Names!Open,
     Names!Load, Names!LoadFails, Names!NotLoaded, Names!loading, Names!Found, Names!Missed
<1> QED BY <1>8, <1>9

LEMMA Tells ==
  ASSUME Names!Tell
  PROVE  \/ NextStep # "next" /\ step' = NextStep /\ pc' = "ask" /\ n' = n
         \/ n < Len(machine.functions) /\ n' = n + 1 /\ step' = "vendor" /\ pc' = "ask"
         \/ NextStep = "next" /\ pc' = "end" /\ n' = n /\ step' = step
  BY DEF Names!Tell, NextStep

LEMMA TypesKept == LookupInv /\ Names!Next => Names!TypeOK'
<1> SUFFICES ASSUME LookupInv, Names!Next PROVE Names!TypeOK'
  OBVIOUS
<1>1. Setting /\ Names!TypeOK /\ At /\ LoadInv /\ NInv
  BY DEF LookupInv
<1>2. src' = src /\ disk' = disk /\ machine' = machine /\ tables' = tables
  BY FilesKept DEF Names!files
<1>3. MaxFaults \in Nat /\ \A k \in DOMAIN Names!DbOf : Names!DbOf[k] \in Names!Dbs
  BY NamesAssumption DEF Names!DbOf, Names!Dbs
<1>4. /\ step' \in DOMAIN Names!DbOf /\ n' \in DOMAIN machine.functions
      /\ loaded' \subseteq Names!Dbs /\ want' \in Names!Dbs \cup {Names!None}
      /\ pc' \in {"ask", "search", "missed", "open", "header", "found", "notloaded", "tell", "end", "undefined"}
      /\ faults' \in 0 .. MaxFaults /\ entry' \in {Names!None, "plain", "0", "5"}
      /\ pciids_cur_vendor' \in -1 .. Len(tables.V) - 1
      /\ pciids_cur_device' \in -1 .. Len(tables.D) - 1
  <2>1. /\ step \in DOMAIN Names!DbOf /\ n \in DOMAIN machine.functions
        /\ loaded \subseteq Names!Dbs /\ want \in Names!Dbs \cup {Names!None}
        /\ pc \in {"ask", "search", "missed", "open", "header", "found", "notloaded", "tell", "end", "undefined"}
        /\ faults \in 0 .. MaxFaults /\ entry \in {Names!None, "plain", "0", "5"}
        /\ pciids_cur_vendor \in -1 .. Len(tables.V) - 1
        /\ pciids_cur_device \in -1 .. Len(tables.D) - 1
    BY <1>1 DEF Names!TypeOK
  <2>2. -1 \in -1 .. Len(tables.V) - 1 /\ -1 \in -1 .. Len(tables.D) - 1
    BY <2>1
  <2>3. "T" \in Names!Dbs
    BY DEF Names!Dbs
  <2>4. CASE Names!Ask
    BY <1>3, <2>1, <2>4 DEF Names!Ask, Names!cursors, Names!caller
  <2>5. CASE Names!Search
    <3>1. PICK a \in Names!Stops :
            /\ pciids_cur_vendor' = IF Names!DbOf[step] = "V" THEN a ELSE pciids_cur_vendor
            /\ pciids_cur_device' = IF Names!DbOf[step] = "D" THEN a ELSE pciids_cur_device
      BY <2>5 DEF Names!Search
    <3>2. ~ Names!NoCursor
      BY <1>1, <2>5 DEF LoadInv, Names!Search
    <3>3. /\ step \in {"vendor", "subvendor"} => a \in -1 .. Len(tables.V) - 1
          /\ step = "device" => a \in -1 .. Len(tables.D) - 1
      BY <1>1, <3>2, StopsTyped
    <3>4. /\ Names!DbOf[step] = "V" => step \in {"vendor", "subvendor"}
          /\ Names!DbOf[step] = "D" => step = "device"
      BY <1>1, DbIs
    <3>5. /\ pciids_cur_vendor' \in -1 .. Len(tables.V) - 1
          /\ pciids_cur_device' \in -1 .. Len(tables.D) - 1
      BY <2>1, <3>1, <3>3, <3>4
    <3> QED BY <2>1, <2>3, <2>5, <3>5 DEF Names!Search, Names!Found, Names!Missed, Names!caller
  <2>6. CASE Names!AskSystem
    BY <2>1, <2>2, <2>6 DEF Names!AskSystem, Names!cursors, Names!caller, Names!loading
  <2>7. CASE Names!Tell
    <3>1. \/ NextStep # "next" /\ step' = NextStep /\ pc' = "ask" /\ n' = n
          \/ n < Len(machine.functions) /\ n' = n + 1 /\ step' = "vendor" /\ pc' = "ask"
          \/ NextStep = "next" /\ pc' = "end" /\ n' = n /\ step' = step
      BY <2>7, Tells
    <3>2. NextStep \in DOMAIN Names!DbOf \cup {"next"} /\ "vendor" \in DOMAIN Names!DbOf
      BY <1>1, StepsFollow DEF Names!DbOf
    <3>3. step' \in DOMAIN Names!DbOf /\ pc' \in {"ask", "end"}
      BY <2>1, <3>1, <3>2
    <3>4. DOMAIN machine.functions = 1 .. Len(machine.functions) /\ Len(machine.functions) \in Nat
      BY <1>1 DEF Setting, Names!IsMachine
    <3>5. n' \in DOMAIN machine.functions
      BY <2>1, <3>1, <3>4
    <3> QED BY <2>1, <2>7, <3>1, <3>3, <3>5 DEF Names!Tell, Names!cursors, Names!loading
  <2>8. CASE Names!Open
    BY <2>1, <2>8 DEF Names!Open, Names!cursors, Names!caller
  <2>9. CASE Names!ReadHeader
    BY <2>1, <2>9 DEF Names!ReadHeader, Names!cursors, Names!caller, Names!LH5HeaderParse
  <2>10. CASE Names!Load
    BY <1>1, <1>3, <2>1, <2>3, <2>10 DEF Names!Load, Names!cursors, Names!caller, NInv, Searching
  <2>11. CASE Names!LoadFails
    BY <1>3, <2>1, <2>11 DEF Names!LoadFails, Names!Fault, Names!cursors, Names!caller
  <2>12. CASE Names!NotLoaded
    BY <2>1, <2>12 DEF Names!NotLoaded, Names!cursors, Names!caller, Names!loading
  <2> QED BY <2>4, <2>5, <2>6, <2>7, <2>8, <2>9, <2>10, <2>11, <2>12 DEF Names!Next
<1>5. Setting' /\ At'
  <2>1. At'
    BY <1>1, AtKept
  <2>2. Names!DbOf' = Names!DbOf
    BY DEF Names!DbOf
  <2> QED BY <1>1, <1>2, <1>4, <2>1, <2>2 DEF Setting
<1>6. (pos \in 0 .. Names!ArchiveSize)'
  BY <1>5, WithinArchive, PTL
<1>7. Names!DbOf' = Names!DbOf
  BY DEF Names!DbOf
<1> QED BY <1>2, <1>4, <1>6, <1>7 DEF Names!TypeOK

LEMMA LoadsKept == LookupInv /\ Names!Next => LoadInv'
<1> SUFFICES ASSUME LookupInv, Names!Next PROVE LoadInv'
  OBVIOUS
<1>1. Setting /\ LoadInv /\ NInv /\ Names!TypeOK /\ At
  BY DEF LookupInv
<1>2. src' = src /\ disk' = disk /\ machine' = machine /\ tables' = tables
  BY FilesKept DEF Names!files
<1>3. /\ Entries' = Entries /\ (\A k : Names!Place(k)' = Names!Place(k))
      /\ (Names!Readable' <=> Names!Readable)
      /\ Names!ArchiveSize' = Names!ArchiveSize
  <2>1. \A k : Names!Place(k)' = Names!Place(k)
    BY <1>2, SamePlaces
  <2>2. \A e : Names!LH5HeaderParse(e)' <=> Names!LH5HeaderParse(e)
    BY DEF Names!LH5HeaderParse
  <2> QED BY <1>2, <2>1, <2>2 DEF Entries, Names!Readable, Names!ArchiveSize
<1>4. /\ Names!DbOf[step] # "T" /\ Names!DbOf[step] \in Names!Dbs
      /\ Names!DbOf[step] = "D" => step = "device"
  BY <1>1, DbIs
<1> USE DEF Loading
<1>5. CASE Names!Ask
  <2>1. Names!NoCursor' <=> Names!NoCursor
    BY <1>5 DEF Names!Ask, Names!NoCursor, Names!cursors, Names!caller
  <2> QED BY <1>1, <1>2, <1>3, <1>4, <1>5, <2>1 DEF Names!Ask, LoadInv, Sound, Names!cursors, Names!caller
<1>6. CASE Names!Search
  BY <1>1, <1>2, <1>3, <1>6 DEF Names!Search, Names!Found, Names!Missed, LoadInv, Sound, Names!caller
<1>7. CASE Names!AskSystem
  BY <1>1, <1>2, <1>3, <1>7 DEF Names!AskSystem, LoadInv, Sound, Names!caller, Names!loading
<1>8. CASE Names!Tell
  BY <1>1, <1>2, <1>3, <1>8 DEF Names!Tell, LoadInv, Sound, Names!cursors, Names!loading
<1>9. CASE Names!Open
  <2>1. Names!NoCursor' <=> Names!NoCursor
    BY <1>9 DEF Names!Open, Names!NoCursor, Names!cursors, Names!caller
  <2>2. \A j \in 1 .. Entries : ~ (Names!Place(j) < 0)
    <3>1. Entries \in Nat /\ \A k \in 1 .. Entries + 1 : Names!Place(k) \in Nat
      BY <1>1, StepsGo, PlacesGrow DEF Setting
    <3>2. \A k \in 1 .. Entries : Names!Place(k) \in Nat
      BY <3>1
    <3> QED BY <3>2
  <2>3. Sound => disk.archive # <<>>
    <3>1. Names!Readable => \E k \in DOMAIN disk.archive : disk.archive[k].db = "T"
      BY DEF Names!Readable, Names!Dbs
    <3> QED BY <3>1 DEF Sound
  <2>4. Sound' => Sound
    BY <1>3, <1>9 DEF Names!Open, Sound
  <2>5. pc' = "header" => pos' = 0
    BY <1>9 DEF Names!Open
  <2>6. pc' = "header" => \A j \in 1 .. Entries : Names!Place(j) < pos' => disk.archive[j].db # want'
    BY <2>2, <2>5
  <2>7. Sound' => pc' \notin {"notloaded", "undefined"}
    BY <1>9, <2>3, <2>4 DEF Names!Open
  <2>8. /\ Loading' => want' \notin loaded'
        /\ pc' = "search" \/ (Loading' /\ want' # "T") => ~ Names!NoCursor'
        /\ "D" \in loaded' => "V" \in loaded'
        /\ entry' = "plain" => disk'.archive = <<>>
    BY <1>1, <1>2, <1>9, <2>1 DEF Names!Open, LoadInv
  <2> QED BY <1>2, <1>3, <2>6, <2>7, <2>8 DEF LoadInv
<1>10. CASE Names!ReadHeader
  <2>1. Names!NoCursor' <=> Names!NoCursor
    BY <1>10 DEF Names!ReadHeader, Names!NoCursor, Names!cursors, Names!caller
  <2>2. Sound' => Sound
    BY <1>3, <1>10 DEF Names!ReadHeader, Sound
  <2>3. DOMAIN disk.archive = 1 .. Entries /\ Entries \in Nat
    BY <1>1, StepsGo DEF Setting
  <2>4. /\ pc = "header" /\ want' = want /\ loaded' = loaded /\ faults' = faults
        /\ \/ (pos + HeaderBuf > Names!ArchiveSize \/ Here = {}) /\ pc' = "notloaded" /\ entry' = entry
           \/ /\ ~(pos + HeaderBuf > Names!ArchiveSize \/ Here = {})
              /\ \/ ~ Names!LH5HeaderParse(disk.archive[Read1]) /\ pc' = "notloaded" /\ entry' = entry
                 \/ Names!LH5HeaderParse(disk.archive[Read1]) /\ pc' = "found"
                    /\ entry' = disk.archive[Read1].method
                 \/ /\ disk.archive[Read1].db # want /\ pc' = "header" /\ entry' = entry
                    /\ pos' = pos + Names!HeaderSize(disk.archive[Read1]) + disk.archive[Read1].data
    BY <1>10 DEF Names!ReadHeader, Here, Read1
  <2>5. ASSUME Sound PROVE pc' # "notloaded" /\ pc' # "undefined"
    <3>1. PICK k \in 1 .. Entries : disk.archive[k].db = want
      <4>1. want \in Names!Dbs
        BY <1>1, <1>4, <2>4 DEF NInv, Searching, Names!Dbs
      <4> QED BY <2>3, <2>5, <4>1 DEF Sound, Names!Readable
    <3>2. ~ (Names!Place(k) < pos)
      BY <1>1, <2>4, <3>1 DEF LoadInv
    <3>3. PICK l \in 1 .. Entries + 1 : pos = Names!Place(l)
      BY <1>1 DEF At
    <3>4. l # Entries + 1
      <4>1. Names!Place(k) < Names!Place(Entries + 1)
        <5>1. k \in 1 .. Entries + 1 /\ Entries + 1 \in 1 .. Entries + 1 /\ k < Entries + 1
          BY <2>3
        <5> QED BY <1>1, <5>1, PlacesGrow DEF Setting
      <4> QED BY <3>2, <3>3, <4>1
    <3>5. l \in DOMAIN disk.archive
      BY <2>3, <3>4
    <3>6. Here # {}
      BY <3>3, <3>5 DEF Here
    <3>7. Read1 \in DOMAIN disk.archive /\ Names!Place(Read1) = pos
      BY <1>1, <2>3, <3>6, HeaderAt
    <3>8. Names!LH5HeaderParse(disk.archive[Read1]) /\ pos + HeaderBuf <= Names!ArchiveSize
      BY <2>5, <3>7 DEF Sound, Names!Readable
    <3>9. ~(pos + HeaderBuf > Names!ArchiveSize)
      <4>1. pos \in Int /\ HeaderBuf \in Int /\ Names!ArchiveSize \in Int
        <5>1. pos \in 0 .. Names!ArchiveSize /\ HeaderBuf \in Nat
          BY <1>1, NamesAssumption DEF Names!TypeOK
        <5>2. Names!Place(Entries + 1) \in Nat
          <6>1. Entries + 1 \in 1 .. Entries + 1
            BY <2>3
          <6> QED BY <1>1, <6>1, PlacesGrow DEF Setting
        <5> QED BY <5>1, <5>2 DEF Names!ArchiveSize, Entries
      <4> QED BY <3>8, <4>1
    <3> QED BY <2>4, <3>6, <3>8, <3>9
  <2>6. entry' = "plain" => disk.archive = <<>>
    BY <1>1, <2>4 DEF LoadInv, Names!LH5HeaderParse
  <2>7. ASSUME pc' = "header", NEW j \in 1 .. Entries, Names!Place(j) < pos' PROVE disk.archive[j].db # want'
    <3>1. /\ Here # {} /\ disk.archive[Read1].db # want
          /\ pos' = pos + Names!HeaderSize(disk.archive[Read1]) + disk.archive[Read1].data
      BY <2>4, <2>7
    <3>2. pos' = Names!Place(Read1 + 1) /\ (j = Read1 \/ Names!Place(j) < pos)
      BY <1>1, <2>7, <3>1, HeaderAt
    <3> QED BY <1>1, <2>4, <3>1, <3>2 DEF LoadInv
  <2>8. /\ Loading' => want' \notin loaded'
        /\ pc' = "search" \/ (Loading' /\ want' # "T") => ~ Names!NoCursor'
        /\ "D" \in loaded' => "V" \in loaded'
    BY <1>1, <2>1, <2>4 DEF LoadInv
  <2> QED BY <1>2, <1>3, <2>2, <2>5, <2>6, <2>7, <2>8 DEF LoadInv
<1>11. CASE Names!Load
  <2>1. Names!NoCursor' <=> Names!NoCursor
    BY <1>11 DEF Names!Load, Names!NoCursor, Names!cursors, Names!caller
  <2>2. "D" \in loaded' => "V" \in loaded'
    <3>1. ASSUME want = "D" PROVE "V" \in loaded
      <4>1. step = "device" /\ ~ Names!NoCursor
        BY <1>1, <1>4, <1>11, <3>1 DEF Names!Load, NInv, Searching, LoadInv
      <4>2. pciids_cur_vendor >= 0
        BY <1>1, <4>1 DEF Names!NoCursor, Names!TypeOK
      <4> QED BY <1>1, <4>2 DEF NInv, Names!CursorsBacked, Names!InMemory
    <3> QED BY <1>1, <1>11, <3>1 DEF Names!Load, LoadInv
  <2> QED BY <1>1, <1>2, <1>3, <1>11, <2>1, <2>2 DEF Names!Load, LoadInv, Sound, Names!None
<1>12. CASE Names!LoadFails
  <2>1. Names!NoCursor' <=> Names!NoCursor
    BY <1>12 DEF Names!LoadFails, Names!NoCursor, Names!cursors, Names!caller
  <2>2. ~ Sound'
    <3>1. SUFFICES ASSUME Sound' PROVE FALSE
      OBVIOUS
    <3>2. faults' = 0 /\ faults \in Nat /\ faults' # faults + 1 /\ disk.archive # <<>>
      <4>1. Names!Readable
        BY <1>3, <3>1 DEF Sound
      <4>2. \E k \in DOMAIN disk.archive : disk.archive[k].db = "T"
        BY <4>1 DEF Names!Readable, Names!Dbs
      <4>3. faults' = 0 /\ faults \in Nat
        BY <1>1, <3>1 DEF Names!TypeOK, Sound
      <4> QED BY <4>2, <4>3
    <3>3. entry # "plain"
      BY <1>1, <3>2 DEF LoadInv
    <3> QED BY <1>12, <3>2, <3>3 DEF Names!LoadFails, Names!Fault
  <2>3. /\ want' = want /\ loaded' = loaded /\ pc' \in {"notloaded", "undefined"} /\ pc = "found"
        /\ entry' = Names!None
    BY <1>12 DEF Names!LoadFails
  <2> QED BY <1>1, <1>2, <2>1, <2>2, <2>3 DEF LoadInv, Names!None
<1>13. CASE Names!NotLoaded
  BY <1>1, <1>2, <1>3, <1>13 DEF Names!NotLoaded, LoadInv, Sound, Names!caller, Names!loading
<1> QED BY <1>5, <1>6, <1>7, <1>8, <1>9, <1>10, <1>11, <1>12, <1>13 DEF Names!Next

(* The cursors.                                                            *)
LEMMA CursorsFollow == LookupInv /\ Names!Next => CursorInv'
<1> SUFFICES ASSUME LookupInv, Names!Next PROVE CursorInv'
  OBVIOUS
<1>1. Setting /\ LoadInv /\ NInv /\ Names!TypeOK /\ CursorInv
  BY DEF LookupInv
<1>2. UNCHANGED Names!files
  BY FilesKept
<1>3. /\ step \in {"vendor", "device", "subvendor", "subdevice", "class", "subclass", "progif"}
      /\ Names!DbOf[step] # "T"
      /\ Names!DbOf[step] = "V" <=> step \in {"vendor", "subvendor"}
      /\ Names!DbOf[step] = "D" <=> step = "device"
  <2>1. Names!DbOf["subdevice"] = "S" /\ Names!DbOf["class"] = "C" /\ Names!DbOf["subclass"] = "U"
        /\ Names!DbOf["progif"] = "P"
    BY DEF Names!DbOf
  <2> QED BY <1>1, <2>1, DbIs
<1>4. src' = src /\ disk' = disk /\ machine' = machine /\ tables' = tables
  BY <1>2 DEF Names!files
<1>5. Device \in src.devices => Vendor \in src.vendors
  BY <1>1, Parents
(* Steps that leave the lookup, the cursors and what is in memory alone.   *)
<1>6. ASSUME UNCHANGED <<n, step, loaded>>, UNCHANGED Names!cursors, Sound' => Sound,
             After' => After, Known' => Known, pc' = "missed" => pc = "missed"
      PROVE  CursorInv'
  <2>1. (AfterVendor' => AfterVendor) /\ (AfterDevice' => AfterDevice)
    BY <1>6 DEF AfterVendor, AfterDevice
  <2>2. /\ (VendorLeft => VendorLeft') /\ (VendorGone => VendorGone')
        /\ (DeviceLeft => DeviceLeft') /\ (DeviceGone => DeviceGone')
    BY <1>2, <1>6, SameCursors
  <2>3. Vendor' = Vendor /\ Device' = Device
    BY <1>2, <1>6, SameThing
  <2> QED BY <1>1, <1>4, <1>6, <2>1, <2>2, <2>3 DEF CursorInv
<1>7. (Names!Readable' <=> Names!Readable)
  <2>1. \A k : Names!Place(k)' = Names!Place(k)
    BY <1>4, SamePlaces
  <2>2. \A e : Names!LH5HeaderParse(e)' <=> Names!LH5HeaderParse(e)
    BY DEF Names!LH5HeaderParse
  <2> QED BY <1>4, <2>1, <2>2 DEF Names!Readable, Names!ArchiveSize
<1>8. CASE Names!Ask /\ ~ Names!NoCursor
  BY <1>6, <1>7, <1>3, <1>8 DEF Names!Ask, After, Known, Loading, Sound, Names!caller
<1>9. CASE Names!Ask /\ Names!NoCursor
  <2>1. /\ pc' = "missed" /\ UNCHANGED <<n, step, loaded>> /\ UNCHANGED Names!cursors
        /\ (Sound' => Sound) /\ ~ After /\ ~ Known /\ ~ Known' /\ step \in {"device", "subdevice"}
    BY <1>7, <1>9 DEF Names!Ask, After, Known, Loading, Sound, Names!caller, Names!NoCursor
  <2>2. /\ (VendorLeft => VendorLeft') /\ (VendorGone => VendorGone')
        /\ (DeviceLeft => DeviceLeft') /\ (DeviceGone => DeviceGone')
    BY <1>2, <2>1, SameCursors
  <2>3. Vendor' = Vendor /\ Device' = Device
    BY <1>2, <2>1, SameThing
  <2>4. CASE step = "subdevice"
    BY <1>1, <2>1, <2>2, <2>4 DEF CursorInv, AfterVendor, AfterDevice
  <2>5. CASE step = "device"
    <3>1. VendorLeft /\ VendorGone
      BY <1>1, <2>5 DEF CursorInv, AfterVendor
    <3>2. ASSUME Device \in src.devices PROVE "D" \notin loaded /\ pciids_cur_device < 0 /\ ~ Sound
      <4>1. ~ (pciids_cur_vendor >= 0)
        BY <1>1, <1>9, <2>5 DEF Names!NoCursor, Names!TypeOK
      <4>2. "V" \notin loaded /\ ~ Sound
        BY <1>5, <3>1, <3>2, <4>1 DEF VendorLeft
      <4>3. "D" \notin loaded
        BY <1>1, <4>2 DEF LoadInv
      <4>4. ~ (pciids_cur_device >= 0)
        BY <1>1, <4>3 DEF NInv, Names!CursorsBacked, Names!InMemory
      <4> QED BY <1>1, <4>2, <4>3, <4>4 DEF Names!TypeOK
    <3>3. DeviceLeft
      BY <1>1, <3>2 DEF DeviceLeft, Names!TypeOK
    <3> QED BY <2>1, <2>2, <2>3, <2>5, <3>1, <3>2, <3>3, <1>4 DEF CursorInv, AfterVendor, AfterDevice
  <2> QED BY <2>1, <2>4, <2>5
<1>10. CASE Names!Search
  <2>1. PICK a \in Names!Stops :
          /\ pciids_cur_vendor' = IF Names!DbOf[step] = "V" THEN a ELSE pciids_cur_vendor
          /\ pciids_cur_device' = IF Names!DbOf[step] = "D" THEN a ELSE pciids_cur_device
          /\ IF a + 1 \in DOMAIN Names!Db
             THEN IF Names!Db[a + 1].key = Names!Asked THEN Names!Found(Names!Db[a + 1].name) ELSE Names!Missed
             ELSE Names!Found(Names!Stray) \/ Names!Missed
    BY <1>10 DEF Names!Search
  <2>2. /\ pc = "search" /\ UNCHANGED <<n, step, loaded>> /\ (Sound' => Sound) /\ ~ After /\ ~ Known
        /\ Names!DbOf[step] \in loaded /\ ~ Names!NoCursor
    BY <1>1, <1>7, <1>10 DEF Names!Search, After, Known, Loading, Sound, Names!caller, NInv, Searching, LoadInv
  <2>3. Vendor' = Vendor /\ Device' = Device
        /\ (Names!VendorStands(Vendor)' <=> Names!VendorStands(Vendor))
    BY <1>2, <2>2, SameThing
  <2>4. ASSUME a + 1 \in DOMAIN Names!Db
        PROVE  /\ Names!Db[a + 1].key = Names!Asked => pc' # "missed"
               /\ Names!Db[a + 1].key # Names!Asked => ~ Known'
    BY <2>1, <2>4 DEF Names!Found, Names!Missed, Known, Loading
  <2>5. CASE step = "vendor"
    <3>1. pciids_cur_vendor' = a /\ Names!DbOf[step] = "V"
      BY <1>3, <2>1, <2>5
    <3>2. /\ Right(a)
          /\ Names!Db[a + 1].key = Names!Asked => Vendor \in src.vendors \/ Vendor = Ones
          /\ Vendor \in src.vendors => tables.V[a + 1].devices = DevsOf(src, Vendor)
      BY <1>1, <2>5, VendorLands
    <3>3. a \in Nat /\ a + 1 \in DOMAIN Names!Db
      BY <3>2 DEF Right
    <3>4. Vendor \in src.vendors => Names!Db[a + 1].key = Names!Asked
      <4>1. Names!Full = <<Vendor>> /\ Names!Named(step) = {<<v>> : v \in src.vendors}
        BY <1>1, <2>5, AskedIs DEF Names!Named
      <4> QED BY <3>2, <4>1 DEF Right
    <3>5. VendorLeft'
      BY <1>4, <2>2, <2>3, <3>1, <3>2, <3>3 DEF VendorLeft
    <3>6. Known' => VendorGone'
      BY <1>4, <2>3, <2>4, <3>2, <3>3 DEF VendorGone
    <3>7. pc' = "missed" => Vendor \notin src.vendors
      BY <2>4, <3>3, <3>4
    <3> QED BY <1>4, <2>2, <2>3, <2>5, <3>5, <3>6, <3>7 DEF CursorInv, AfterVendor, AfterDevice
  <2>6. CASE step = "subvendor"
    <3>1. DeviceLeft /\ DeviceGone /\ pciids_cur_device' = pciids_cur_device
      BY <1>1, <1>3, <2>1, <2>6 DEF CursorInv, AfterDevice
    <3>2. DeviceLeft' /\ DeviceGone'
      BY <1>4, <2>2, <2>3, <3>1 DEF DeviceLeft, DeviceGone
    <3> QED BY <2>2, <2>6, <3>2 DEF CursorInv, AfterVendor
  <2>7. CASE step = "subdevice"
    <3>1. DeviceLeft /\ DeviceGone /\ pciids_cur_device' = pciids_cur_device
      BY <1>1, <1>3, <2>1, <2>7 DEF CursorInv, AfterDevice
    <3>2. DeviceLeft' /\ DeviceGone'
      BY <1>4, <2>2, <2>3, <3>1 DEF DeviceLeft, DeviceGone
    <3> QED BY <2>2, <2>7, <3>2 DEF CursorInv, AfterVendor
  <2>8. CASE step = "device"
    <3>1. pciids_cur_device' = a /\ pciids_cur_vendor' = pciids_cur_vendor /\ Names!DbOf[step] = "D"
      BY <1>3, <2>1, <2>8
    <3>2. VendorLeft /\ VendorGone /\ pciids_cur_vendor >= 0 /\ pciids_cur_vendor # -1
      BY <1>1, <2>2, <2>8 DEF CursorInv, AfterVendor, Names!NoCursor, Names!TypeOK
    <3>3. VendorLeft' /\ VendorGone'
      BY <1>4, <2>2, <2>3, <3>1, <3>2 DEF VendorLeft, VendorGone
    <3>4. CASE \E d \in src.devices : d[1] = Vendor
      <4>1. PICK d \in src.devices : d[1] = Vendor
        BY <3>4
      <4>2. tables.V[pciids_cur_vendor + 1].devices = DevsOf(src, Vendor)
        BY <1>1, <3>2, <4>1, Parents DEF VendorLeft
      <4>3. /\ Right(a)
            /\ Names!Db[a + 1].key = Names!Asked => Device \in src.devices \/ Device[2] = Ones
            /\ Device \in src.devices => tables.D[a + 1].subs = SubsOf(src, Device)
        BY <1>1, <2>8, <4>1, <4>2, DeviceLands
      <4>4. a \in Nat /\ a + 1 \in DOMAIN Names!Db
        BY <4>3 DEF Right
      <4>5. Device \in src.devices => Names!Db[a + 1].key = Names!Asked
        <5>1. Names!Full = Device /\ Names!Named(step) = src.devices
          BY <1>1, <2>8, AskedIs DEF Names!Named
        <5> QED BY <4>3, <5>1 DEF Right
      <4>6. DeviceLeft'
        BY <1>4, <2>2, <2>3, <3>1, <4>3, <4>4 DEF DeviceLeft
      <4>7. Known' => DeviceGone'
        BY <1>4, <2>3, <2>4, <4>3, <4>4 DEF DeviceGone
      <4>8. pc' = "missed" => Device \notin src.devices
        BY <2>4, <4>4, <4>5
      <4> QED BY <1>4, <2>2, <2>3, <2>8, <3>3, <4>6, <4>7, <4>8 DEF CursorInv, AfterVendor, AfterDevice
    <3>5. CASE ~ \E d \in src.devices : d[1] = Vendor
      <4>1. Device \notin src.devices
        BY <3>5 DEF Device, Vendor
      <4>2. ~ Names!VendorStands(Vendor)
        BY <3>2, <3>5 DEF Names!VendorStands, VendorGone
      <4>3. DeviceLeft' /\ DeviceGone'
        BY <1>4, <2>3, <4>1, <4>2 DEF DeviceLeft, DeviceGone
      <4> QED BY <1>4, <2>2, <2>3, <2>8, <3>3, <4>1, <4>3 DEF CursorInv, AfterVendor, AfterDevice
    <3> QED BY <3>4, <3>5
  <2>9. CASE step \in {"class", "subclass", "progif"}
    BY <2>2, <2>9 DEF CursorInv, AfterVendor, AfterDevice
  <2> QED BY <1>3, <2>5, <2>6, <2>7, <2>8, <2>9
<1>11. CASE Names!AskSystem
  <2>1. /\ pc = "missed" /\ pc' = "tell" /\ UNCHANGED <<n, step, loaded>> /\ (Sound' => Sound)
        /\ After /\ Known'
        /\ IF machine.libpci
           THEN /\ pciids_cur_vendor' = IF Names!DbOf[step] = "V" THEN -1 ELSE pciids_cur_vendor
                /\ pciids_cur_device' = IF Names!DbOf[step] = "D" THEN -1 ELSE pciids_cur_device
           ELSE UNCHANGED Names!cursors
    BY <1>7, <1>11 DEF Names!AskSystem, After, Known, Sound, Names!caller
  <2>2. Vendor' = Vendor /\ Device' = Device
        /\ (Names!VendorStands(Vendor)' <=> Names!VendorStands(Vendor))
    BY <1>2, <2>1, SameThing
  <2>3. CASE ~ machine.libpci
    <3>1. VendorGone' /\ DeviceGone'
      BY <1>4, <2>3 DEF VendorGone, DeviceGone
    <3>2. (VendorLeft => VendorLeft') /\ (DeviceLeft => DeviceLeft')
      BY <1>2, <2>1, <2>3, SameCursors
    <3> QED BY <1>1, <2>1, <3>1, <3>2 DEF CursorInv, AfterVendor, AfterDevice
  <2>4. CASE machine.libpci /\ step = "vendor"
    <3>1. pciids_cur_vendor' = -1
      BY <1>3, <2>1, <2>4
    <3>2. VendorLeft /\ (Vendor \in src.vendors => "V" \notin loaded)
      BY <1>1, <2>1, <2>4 DEF CursorInv, AfterVendor
    <3>3. VendorLeft'
      BY <1>4, <2>1, <2>2, <3>1, <3>2 DEF VendorLeft
    <3>4. VendorGone'
      BY <3>1 DEF VendorGone
    <3> QED BY <2>1, <2>4, <3>3, <3>4 DEF CursorInv, AfterDevice
  <2>5. CASE machine.libpci /\ step = "device"
    <3>1. pciids_cur_device' = -1 /\ pciids_cur_vendor' = pciids_cur_vendor
      BY <1>3, <2>1, <2>5
    <3>2. DeviceLeft /\ (Device \in src.devices => "D" \notin loaded) /\ VendorLeft /\ VendorGone
      BY <1>1, <2>1, <2>5 DEF CursorInv, AfterVendor, AfterDevice
    <3>3. DeviceLeft'
      BY <1>4, <2>1, <2>2, <3>1, <3>2 DEF DeviceLeft
    <3>4. DeviceGone'
      BY <3>1 DEF DeviceGone
    <3>5. VendorLeft' /\ VendorGone'
      BY <1>4, <2>1, <2>2, <3>1, <3>2 DEF VendorLeft, VendorGone
    <3> QED BY <2>1, <2>5, <3>3, <3>4, <3>5 DEF CursorInv
  <2>6. CASE machine.libpci /\ step \in {"subvendor", "subdevice"}
    <3>1. DeviceLeft /\ DeviceGone /\ pciids_cur_device' = pciids_cur_device
      BY <1>1, <1>3, <2>1, <2>6 DEF CursorInv, AfterDevice
    <3>2. DeviceLeft' /\ DeviceGone'
      BY <1>4, <2>1, <2>2, <3>1 DEF DeviceLeft, DeviceGone
    <3> QED BY <2>1, <2>6, <3>2 DEF CursorInv, AfterVendor
  <2>7. CASE step \in {"class", "subclass", "progif"}
    BY <2>1, <2>7 DEF CursorInv, AfterVendor, AfterDevice
  <2> QED BY <1>3, <2>3, <2>4, <2>5, <2>6, <2>7
<1>12. CASE Names!Tell
  <2>1. \/ NextStep # "next" /\ step' = NextStep /\ pc' = "ask" /\ n' = n
        \/ n < Len(machine.functions) /\ n' = n + 1 /\ step' = "vendor" /\ pc' = "ask"
        \/ NextStep = "next" /\ pc' = "end" /\ n' = n /\ step' = step
    BY <1>12, Tells
  <2>2. /\ ~ After' /\ ~ Known' /\ pc' # "missed" /\ Known /\ After
        /\ UNCHANGED Names!cursors /\ loaded' = loaded /\ (Sound' => Sound)
    BY <1>7, <1>12, <2>1 DEF Names!Tell, After, Known, Loading, Sound
  <2>3. /\ NextStep \in {"device", "subvendor", "subdevice", "class", "subclass", "progif", "next"}
        /\ NextStep = "device" => step = "vendor"
        /\ NextStep = "subvendor" => step = "device"
        /\ NextStep = "subdevice" => step = "subvendor"
    BY <1>1, StepsFollow
  <2>4. /\ AfterVendor' => n' = n /\ AfterVendor
        /\ AfterDevice' => n' = n /\ AfterDevice
    BY <2>1, <2>2, <2>3 DEF AfterVendor, AfterDevice
  <2>5. n' = n => /\ (VendorLeft => VendorLeft') /\ (VendorGone => VendorGone')
                  /\ (DeviceLeft => DeviceLeft') /\ (DeviceGone => DeviceGone')
    BY <1>2, <2>2, SameCursors
  <2> QED BY <1>1, <2>2, <2>4, <2>5 DEF CursorInv
<1>13. CASE Names!Open
  BY <1>6, <1>7, <1>13 DEF Names!Open, After, Known, Loading, Sound, Names!caller
<1>14. CASE Names!ReadHeader
  BY <1>6, <1>7, <1>14 DEF Names!ReadHeader, After, Known, Loading, Sound, Names!caller
<1>15. CASE Names!Load
  <2>1. /\ UNCHANGED <<n, step>> /\ UNCHANGED Names!cursors /\ loaded' = loaded \cup {want}
        /\ (Sound' => Sound) /\ (After' => After) /\ (Known' => Known)
        /\ pc' # "missed" /\ (want # "T" => ~ After')
        /\ want \in {Names!DbOf[step], "T"}
    BY <1>1, <1>7, <1>15 DEF Names!Load, After, Known, Loading, Sound, Names!caller, NInv, Searching
  <2>2. Vendor' = Vendor /\ Device' = Device
        /\ (Names!VendorStands(Vendor)' <=> Names!VendorStands(Vendor))
    BY <1>2, <2>1, SameThing
  <2>3. (VendorGone => VendorGone') /\ (DeviceGone => DeviceGone')
    BY <1>4, <2>1, <2>2 DEF VendorGone, DeviceGone, Names!cursors
  <2>4. want # "V" => (VendorLeft => VendorLeft')
    BY <1>4, <2>1, <2>2 DEF VendorLeft, Names!cursors
  <2>5. want # "D" => (DeviceLeft => DeviceLeft')
    BY <1>4, <2>1, <2>2 DEF DeviceLeft, Names!cursors
  <2>6. AfterVendor' => AfterVendor /\ want # "V"
    BY <1>3, <2>1 DEF AfterVendor
  <2>7. AfterDevice' => AfterDevice /\ want # "D"
    BY <1>3, <2>1 DEF AfterDevice
  <2> QED BY <1>1, <2>1, <2>3, <2>4, <2>5, <2>6, <2>7 DEF CursorInv
<1>16. CASE Names!LoadFails
  <2>1. Sound' => Sound
    <3>1. faults' = faults \/ faults' = faults + 1
      BY <1>16 DEF Names!LoadFails, Names!Fault
    <3> QED BY <1>1, <1>7, <3>1 DEF Sound, Names!TypeOK
  <2> QED BY <1>6, <1>16, <2>1 DEF Names!LoadFails, After, Known, Loading, Names!caller
<1>17. CASE Names!NotLoaded /\ want = "T"
  BY <1>6, <1>7, <1>17 DEF Names!NotLoaded, After, Known, Loading, Sound, Names!caller, Names!loading
<1>18. CASE Names!NotLoaded /\ want # "T"
  <2>1. /\ UNCHANGED <<n, step, loaded>> /\ UNCHANGED Names!cursors /\ (Sound' => Sound)
        /\ pc' = "missed" /\ ~ Known' /\ ~ Known /\ ~ Sound
        /\ want = Names!DbOf[step] /\ want \notin loaded
    BY <1>1, <1>7, <1>18
       DEF Names!NotLoaded, Known, Loading, Sound, Names!caller, NInv, Searching, LoadInv
  <2>2. /\ (VendorLeft => VendorLeft') /\ (VendorGone => VendorGone')
        /\ (DeviceLeft => DeviceLeft') /\ (DeviceGone => DeviceGone')
    BY <1>2, <2>1, SameCursors
  <2>3. Vendor' = Vendor /\ Device' = Device
    BY <1>2, <2>1, SameThing
  <2>4. CASE step = "vendor"
    <3>1. "V" \notin loaded /\ ~ (pciids_cur_vendor >= 0)
      BY <1>1, <1>3, <2>1, <2>4 DEF NInv, Names!CursorsBacked, Names!InMemory
    <3>2. VendorLeft
      BY <2>1, <3>1 DEF VendorLeft
    <3> QED BY <2>1, <2>2, <2>4, <3>1, <3>2 DEF CursorInv, AfterVendor, AfterDevice
  <2>5. CASE step = "device"
    <3>1. "D" \notin loaded /\ ~ (pciids_cur_device >= 0)
      BY <1>1, <1>3, <2>1, <2>5 DEF NInv, Names!CursorsBacked, Names!InMemory
    <3>2. DeviceLeft
      BY <2>1, <3>1 DEF DeviceLeft
    <3>3. VendorLeft /\ VendorGone
      BY <1>1, <2>5 DEF CursorInv, AfterVendor
    <3> QED BY <2>1, <2>2, <2>5, <3>1, <3>2, <3>3 DEF CursorInv, AfterDevice
  <2>6. CASE step \in {"subvendor", "subdevice"}
    BY <1>1, <2>1, <2>2, <2>6 DEF CursorInv, AfterVendor, AfterDevice
  <2>7. CASE step \in {"class", "subclass", "progif"}
    BY <2>1, <2>7 DEF CursorInv, AfterVendor, AfterDevice
  <2> QED BY <1>3, <2>4, <2>5, <2>6, <2>7
<1> QED
  BY <1>8, <1>9, <1>10, <1>11, <1>12, <1>13, <1>14, <1>15, <1>16, <1>17, <1>18 DEF Names!Next

(* The names.                                                              *)
LEMMA FullIs ==
  ASSUME Setting
  PROVE  /\ step = "device" => Names!Full = Device /\ Names!Full[1] = Vendor
         /\ step = "subdevice" => Names!Full[1] = Vendor /\ SubSeq(Names!Full, 1, 2) = Device
         /\ step = "subdevice" /\ Names!Full \in src.subdevices => Device \in src.devices
<1>1. Device[1] = Vendor /\ Device \in Names!Keys(2) /\ Names!Function.sub \in Names!Keys(2)
  BY FunctionIs DEF Device, Vendor
<1>2. step = "device" => Names!Full = Device /\ Names!Full[1] = Vendor
  BY <1>1, AskedIs
<1>3. ASSUME step = "subdevice"
      PROVE  /\ Names!Full[1] = Vendor /\ SubSeq(Names!Full, 1, 2) = Device
             /\ Names!Full \in src.subdevices => Device \in src.devices
  <2> PICK x : x = Device \o Names!Function.sub
    OBVIOUS
  <2>1. Names!Full = x /\ x \in Names!Keys(4) /\ SubSeq(x, 1, 2) = Device
    BY <1>1, <1>3, AskedIs, Joined
  <2>2. Device = <<x[1], x[2]>>
    BY <2>1, LongKeys
  <2>3. x[1] = Vendor
    <3>1. \A a, b : <<a, b>>[1] = a
      OBVIOUS
    <3> QED BY <1>1, <2>2, <3>1
  <2>4. x \in src.subdevices => Device \in src.devices
    BY <2>2 DEF Setting, Names!IsPciIds
  <2> QED BY <2>1, <2>3, <2>4
<1> QED BY <1>2, <1>3

LEMMA EstablishedIs ==
  ASSUME Setting, NEW l, l.step = step, l.key = Names!Full
  PROVE  Names!Established(l) <=> Stands
  BY FullIs DEF Names!Established, Stands

LEMMA NamesFollow == LookupInv /\ Names!Next => NameInv'
<1> SUFFICES ASSUME LookupInv, Names!Next PROVE NameInv'
  OBVIOUS
<1>1. Setting /\ LoadInv /\ NInv /\ Names!TypeOK /\ CursorInv /\ NameInv
  BY DEF LookupInv
<1>2. UNCHANGED Names!files
  BY FilesKept
<1>3. src' = src /\ disk' = disk /\ machine' = machine /\ tables' = tables
  BY <1>2 DEF Names!files
<1>4. Names!Readable' <=> Names!Readable
  <2>1. \A k : Names!Place(k)' = Names!Place(k)
    BY <1>3, SamePlaces
  <2>2. \A e : Names!LH5HeaderParse(e)' <=> Names!LH5HeaderParse(e)
    BY DEF Names!LH5HeaderParse
  <2> QED BY <1>3, <2>1, <2>2 DEF Names!Readable, Names!ArchiveSize
<1>5. UNCHANGED <<n, step>> => /\ Stands' <=> Stands
                               /\ Names!Full' = Names!Full /\ Names!Named(step)' = Names!Named(step)
  BY <1>2, SameLookup
<1>6. CASE Names!Ask /\ ~ Names!NoCursor
  <2>1. Names!DbOf[step] # "T"
    BY <1>1, DbIs
  <2>2. ~ After'
    BY <1>6, <2>1 DEF Names!Ask, After, Known, Loading
  <2> QED BY <2>2 DEF NameInv, After
<1>7. CASE Names!Ask /\ Names!NoCursor
  <2>1. pc' = "missed" /\ UNCHANGED <<n, step>> /\ (Sound' => Sound) /\ step \in {"device", "subdevice"}
    BY <1>4, <1>7 DEF Names!Ask, Sound, Names!caller, Names!NoCursor
  <2>2. ASSUME Sound, Names!Full \in Names!Named(step) PROVE FALSE
    <3>1. CASE step = "device"
      <4>1. Device \in src.devices /\ ~ (pciids_cur_vendor >= 0)
        BY <1>1, <1>7, <2>2, <3>1, FullIs DEF Names!Named, Names!NoCursor, Names!TypeOK
      <4>2. Vendor \in src.vendors /\ VendorLeft
        BY <1>1, <3>1, <4>1, Parents DEF CursorInv, AfterVendor
      <4> QED BY <2>2, <4>1, <4>2 DEF VendorLeft
    <3>2. CASE step = "subdevice"
      <4>1. Names!Full \in src.subdevices
        BY <2>2, <3>2 DEF Names!Named
      <4>2. Device \in src.devices /\ DeviceLeft
        BY <1>1, <3>2, <4>1, FullIs DEF CursorInv, AfterDevice
      <4>3. ~ (pciids_cur_device >= 0)
        BY <1>1, <1>7, <3>2 DEF Names!NoCursor, Names!TypeOK
      <4> QED BY <2>2, <4>2, <4>3 DEF DeviceLeft
    <3> QED BY <2>1, <3>1, <3>2
  <2> QED BY <1>5, <2>1, <2>2 DEF NameInv, Known, Loading
<1>8. CASE Names!Search
  <2>1. /\ pc = "search" /\ UNCHANGED <<n, step>>
        /\ \E a \in Names!Stops :
             IF a + 1 \in DOMAIN Names!Db
             THEN IF Names!Db[a + 1].key = Names!Asked THEN Names!Found(Names!Db[a + 1].name) ELSE Names!Missed
             ELSE Names!Found(Names!Stray) \/ Names!Missed
    BY <1>8 DEF Names!Search, Names!caller
  <2>2. SUFFICES ASSUME Stands
        PROVE  /\ Known' => name' \in {Names!NoName, Names!Full}
               /\ After' /\ Names!Full \in Names!Named(step) => name' = Names!Full /\ pc' # "missed"
    BY <1>5, <2>1 DEF NameInv
  <2>3. PICK a \in Names!Stops :
             IF a + 1 \in DOMAIN Names!Db
             THEN IF Names!Db[a + 1].key = Names!Asked THEN Names!Found(Names!Db[a + 1].name) ELSE Names!Missed
             ELSE Names!Found(Names!Stray) \/ Names!Missed
    BY <2>1
  <2>4. Right(a)
    BY <2>1, <2>2, Lands
  <2>5. IF Names!Db[a + 1].key = Names!Asked THEN Names!Found(Names!Db[a + 1].name) ELSE Names!Missed
    BY <2>3, <2>4 DEF Right
  <2>6. CASE Names!Db[a + 1].key = Names!Asked
    <3>1. name' = Names!Db[a + 1].name /\ pc' # "missed"
      BY <2>5, <2>6 DEF Names!Found
    <3> QED BY <2>4, <2>6, <3>1 DEF Right
  <2>7. CASE Names!Db[a + 1].key # Names!Asked
    <3>1. pc' = "missed" /\ ~ Known'
      BY <2>5, <2>7 DEF Names!Missed, Known, Loading
    <3> QED BY <2>4, <2>7, <3>1 DEF Right
  <2> QED BY <2>6, <2>7
<1>9. CASE Names!AskSystem
  <2>1. pc = "missed" /\ UNCHANGED <<n, step>> /\ name' \in {Names!NoName, Names!Full} /\ (Sound' => Sound)
    BY <1>4, <1>9 DEF Names!AskSystem, Names!caller, Sound
  <2> QED BY <1>1, <1>5, <2>1 DEF NameInv, After
<1>10. CASE Names!Tell
  <2>1. pc' \in {"ask", "end"}
    BY <1>10, Tells
  <2> QED BY <2>1 DEF NameInv, After, Known, Loading
<1>11. ASSUME UNCHANGED <<n, step, name, faults>>, Known' => Known, After' => After, pc' # "missed"
       PROVE  NameInv'
  BY <1>1, <1>4, <1>5, <1>11 DEF NameInv, Sound
<1>12. CASE Names!Open
  BY <1>11, <1>12 DEF Names!Open, After, Known, Loading, Names!caller
<1>13. CASE Names!ReadHeader
  BY <1>11, <1>13 DEF Names!ReadHeader, After, Known, Loading, Names!caller
<1>14. CASE Names!Load
  BY <1>11, <1>14 DEF Names!Load, After, Known, Loading, Names!caller
<1>15. CASE Names!LoadFails
  <2>1. Sound' => Sound
    <3>1. faults' = faults \/ faults' = faults + 1
      BY <1>15 DEF Names!LoadFails, Names!Fault
    <3> QED BY <1>1, <1>4, <3>1 DEF Sound, Names!TypeOK
  <2>2. /\ UNCHANGED <<n, step, name>> /\ (Known' => Known) /\ (After' => After) /\ pc' # "missed"
    BY <1>15 DEF Names!LoadFails, After, Known, Loading, Names!caller
  <2> QED BY <1>1, <1>5, <2>1, <2>2 DEF NameInv
<1>16. CASE Names!NotLoaded
  <2>1. name' = Names!NoName /\ ~ Sound'
    BY <1>1, <1>4, <1>16 DEF Names!NotLoaded, LoadInv, Sound
  <2> QED BY <2>1 DEF NameInv
<1> QED BY <1>6, <1>7, <1>8, <1>9, <1>10, <1>12, <1>13, <1>14, <1>15, <1>16 DEF Names!Next

ShownRight(l) ==
  Names!Established(l) =>
    /\ l.name \in {Names!NoName, l.key}
    /\ l.key \in Names!Named(l.step) /\ l.name # l.key => faults > 0 \/ ~ Names!Readable

LEMMA ShownKept == LookupInv /\ Names!Next => ShownInv'
<1> SUFFICES ASSUME LookupInv, Names!Next PROVE ShownInv'
  OBVIOUS
<1>1. Setting /\ Names!TypeOK /\ NameInv /\ IsList(shown) /\ Names!NamesRight
  BY DEF LookupInv, ShownInv
<1>2. UNCHANGED Names!files
  BY FilesKept
<1>3. src' = src /\ disk' = disk /\ machine' = machine /\ tables' = tables
  BY <1>2 DEF Names!files
<1>4. Names!Readable' <=> Names!Readable
  <2>1. \A k : Names!Place(k)' = Names!Place(k)
    BY <1>3, SamePlaces
  <2>2. \A e : Names!LH5HeaderParse(e)' <=> Names!LH5HeaderParse(e)
    BY DEF Names!LH5HeaderParse
  <2> QED BY <1>3, <2>1, <2>2 DEF Names!Readable, Names!ArchiveSize
<1>5. faults \in Nat /\ (faults > 0 => faults' > 0)
  <2>1. faults \in Nat
    BY <1>1, NamesAssumption DEF Names!TypeOK
  <2>2. faults' = faults \/ faults' = faults + 1
    BY DEF Names!Next, Names!Ask, Names!Search, Names!AskSystem, Names!Tell, Names!Open, Names!ReadHeader,
       Names!Load, Names!LoadFails, Names!NotLoaded, Names!Fault
  <2> QED BY <2>1, <2>2
<1>6. ASSUME NEW l, ShownRight(l) PROVE ShownRight(l)'
  <2>1. Names!Established(l)' <=> Names!Established(l)
    BY <1>3 DEF Names!Established, Names!VendorStands, Names!DeviceStands
  <2>2. Names!Named(l.step)' = Names!Named(l.step)
    BY <1>3 DEF Names!Named
  <2> QED BY <1>4, <1>5, <1>6, <2>1, <2>2 DEF ShownRight
<1>7. \A k \in DOMAIN shown : ShownRight(shown[k])
  BY <1>1 DEF Names!NamesRight, ShownRight
<1>8. CASE shown' = shown
  <2>1. \A k \in DOMAIN shown' : ShownRight(shown[k])'
    BY <1>6, <1>7, <1>8
  <2>2. Names!NamesRight'
    BY <1>8, <2>1 DEF Names!NamesRight, ShownRight
  <2> QED BY <1>1, <1>8, <2>2 DEF ShownInv, IsList
<1>9. CASE Names!Tell
  <2> DEFINE l == [function |-> n, step |-> step, key |-> Names!Full, name |-> name]
  <2>1. shown' = Append(shown, l) /\ pc = "tell"
    BY <1>9 DEF Names!Tell
  <2>2. ShownRight(l)
    <3>1. Names!Established(l) <=> Stands
      BY <1>1, EstablishedIs
    <3>2. Known /\ After
      BY <2>1 DEF Known, After
    <3>3. Stands => /\ name \in {Names!NoName, Names!Full}
                    /\ Names!Full \in Names!Named(step) /\ name # Names!Full => ~ Sound
      BY <1>1, <3>2 DEF NameInv
    <3>4. ~ Sound => faults > 0 \/ ~ Names!Readable
      BY <1>5 DEF Sound
    <3> QED BY <3>1, <3>3, <3>4 DEF ShownRight
  <2> HIDE DEF l
  <2>3. PICK S : shown \in Seq(S) /\ l \in S /\ Append(shown, l) \in Seq(S)
    BY <1>1, ListGrows
  <2>4. \A k \in DOMAIN shown' : shown'[k] = l \/ (k \in DOMAIN shown /\ shown'[k] = shown[k])
    BY <2>1, <2>3
  <2>5. ASSUME NEW k \in DOMAIN shown' PROVE ShownRight(shown'[k])
    BY <1>7, <2>2, <2>4
  <2>6. \A k \in DOMAIN shown' : \E m : m = shown'[k] /\ ShownRight(m)'
    BY <1>6, <2>5
  <2>7. Names!NamesRight'
    BY <2>6 DEF Names!NamesRight, ShownRight
  <2> QED BY <2>1, <2>3, <2>7 DEF ShownInv, IsList
<1>10. shown' = shown \/ Names!Tell
  BY DEF Names!Next, Names!Ask, Names!Search, Names!AskSystem, Names!Open, Names!ReadHeader,
     Names!Load, Names!LoadFails, Names!NotLoaded, Names!caller
<1> QED BY <1>8, <1>9, <1>10

(* Together, and for any of pcireg's operations.                           *)
LEMMA InitLookup == Init => LookupInv
<1> SUFFICES ASSUME Init PROVE LookupInv
  OBVIOUS
<1> USE NamesAssumption
<1>1. Names!Init
  BY DEF Init
<1>2. src \in Sources /\ disk \in Disks /\ machine \in Machines
  BY <1>1 DEF Names!Init
<1>3. Names!IsPciIds(src) /\ Names!IsDisk(disk) /\ Names!IsMachine(machine)
  BY <1>2
<1>4. tables = Names!Built(src) /\ step = "vendor" /\ n = 1 /\ pc = "ask" /\ loaded = {} /\ faults = 0
      /\ pciids_cur_vendor = -1 /\ pciids_cur_device = -1 /\ shown = <<>> /\ pos = 0
      /\ want = Names!None /\ entry = Names!None
  BY <1>1 DEF Names!Init
<1>5. 1 \in DOMAIN machine.functions
  <2>1. PICK F : machine.functions \in Seq(F) /\ machine.functions # <<>>
    BY <1>3 DEF Names!IsMachine
  <2> QED BY <2>1
<1>6. Setting
  BY <1>3, <1>4, <1>5 DEF Setting, Names!DbOf
<1>7. At
  <2>1. Entries \in Nat /\ Names!Place(1) = 0
    BY <1>3, StepsGo, PlaceUnfolds
  <2>2. 1 \in 1 .. Entries + 1
    BY <2>1
  <2> QED BY <1>4, <2>1, <2>2 DEF At
<1>8. pos \in 0 .. Names!ArchiveSize
  BY <1>6, <1>7, WithinArchive
<1>9. Len(tables.V) \in Nat /\ Len(tables.D) \in Nat
  BY <1>3, <1>4, VendorsListed, DevicesEnd DEF Listing
<1>10. Names!TypeOK
  <2>1. -1 \in -1 .. Len(tables.V) - 1 /\ -1 \in -1 .. Len(tables.D) - 1 /\ 0 \in 0 .. MaxFaults
    BY <1>9
  <2> QED BY <1>4, <1>5, <1>8, <2>1 DEF Names!TypeOK, Names!DbOf
<1>11. NInv
  BY InitNInv
<1>12. LoadInv
  BY <1>4 DEF LoadInv, Loading, Names!None
<1>13. CursorInv
  BY <1>4 DEF CursorInv, AfterVendor, AfterDevice, After, Known, Loading
<1>14. NameInv
  BY <1>4 DEF NameInv, After, Known, Loading
<1>15. ShownInv
  <2>1. shown \in Seq({}) /\ DOMAIN shown = {}
    BY <1>4
  <2> QED BY <2>1 DEF ShownInv, IsList, Names!NamesRight
<1> QED BY <1>6, <1>7, <1>10, <1>11, <1>12, <1>13, <1>14, <1>15 DEF LookupInv

LEMMA NextLookup == LookupInv /\ [Next]_vars => LookupInv'
<1> SUFFICES ASSUME LookupInv, [Next]_vars PROVE LookupInv'
  OBVIOUS
<1>1. Names!Next \/ UNCHANGED names
  BY DEF Next, vars, Start, ParseFirst, ParseRest, Dispatch, Read, Write, Readback, DumpDword,
     Save, Identify, LookUp, Steer
<1>2. CASE Names!Next
  <2>1. Setting /\ At /\ NInv
    BY DEF LookupInv
  <2>2. Names!TypeOK'
    BY <1>2, TypesKept
  <2>3. src' = src /\ disk' = disk /\ machine' = machine /\ tables' = tables
    BY <1>2, FilesKept DEF Names!files
  <2>4. Setting'
    <3>1. Names!DbOf' = Names!DbOf
      BY DEF Names!DbOf
    <3> QED BY <2>1, <2>2, <2>3, <3>1 DEF Setting, Names!TypeOK
  <2>5. At' /\ NInv'
    BY <1>2, <2>1, AtKept, NextNInv
  <2> QED BY <1>2, <2>2, <2>4, <2>5, LoadsKept, CursorsFollow, NamesFollow, ShownKept DEF LookupInv
<1>3. CASE UNCHANGED names
  <2>1. /\ src' = src /\ disk' = disk /\ machine' = machine /\ tables' = tables /\ n' = n /\ step' = step
        /\ loaded' = loaded /\ pciids_cur_vendor' = pciids_cur_vendor /\ pciids_cur_device' = pciids_cur_device
        /\ pc' = pc /\ want' = want /\ pos' = pos /\ entry' = entry /\ name' = name /\ shown' = shown
        /\ faults' = faults
    BY <1>3 DEF names
  <2> USE <2>1
  <2>2. UNCHANGED Names!files /\ UNCHANGED Names!cursors /\ UNCHANGED <<n, step>>
    BY DEF Names!files, Names!cursors
  <2>3. Setting' /\ (Stands' <=> Stands) /\ Names!Full' = Names!Full
        /\ Names!Named(step)' = Names!Named(step) /\ (Names!Readable' <=> Names!Readable)
        /\ Vendor' = Vendor /\ Device' = Device
    BY <2>2, SameLookup, SameThing DEF LookupInv
  <2>4. (\A k : Names!Place(k)' = Names!Place(k)) /\ Entries' = Entries
    BY SamePlaces DEF Entries
  <2>5. At' /\ NInv'
    BY <2>4, NextNInv DEF LookupInv, At
  <2>6. Names!TypeOK'
    BY <2>4 DEF LookupInv, Names!TypeOK, Names!ArchiveSize, Names!DbOf
  <2>7. Sound' <=> Sound
    BY <2>3 DEF Sound
  <2>8. Loading' = Loading /\ Known' = Known /\ After' = After /\ AfterVendor' = AfterVendor /\ AfterDevice' = AfterDevice
    BY DEF Loading, Known, After, AfterVendor, AfterDevice
  <2>9. LoadInv'
    BY <2>4, <2>7, <2>8 DEF LookupInv, LoadInv, Names!NoCursor
  <2>10. /\ (VendorLeft => VendorLeft') /\ (VendorGone => VendorGone')
         /\ (DeviceLeft => DeviceLeft') /\ (DeviceGone => DeviceGone')
    BY <2>2, <2>7, SameCursors
  <2>11. CursorInv'
    BY <2>3, <2>8, <2>10 DEF LookupInv, CursorInv
  <2>12. NameInv'
    BY <2>3, <2>7, <2>8 DEF LookupInv, NameInv
  <2>13. ShownInv'
    <3>1. \A l : /\ Names!Established(l)' <=> Names!Established(l)
                 /\ Names!Named(l.step)' = Names!Named(l.step)
      BY DEF Names!Established, Names!VendorStands, Names!DeviceStands, Names!Named
    <3> QED BY <2>3, <3>1 DEF LookupInv, ShownInv, Names!NamesRight, IsList
  <2> QED BY <2>3, <2>5, <2>6, <2>9, <2>11, <2>12, <2>13 DEF LookupInv
<1> QED BY <1>1, <1>2, <1>3

(* A lookup whose vendor and device are established never shows another    *)
(* thing's name, whatever the lookups before it found and failed to load,  *)
(* and it shows the right one when pci.ids has it, the archive is readable *)
(* and nothing fails (pcireg's lookups with the cursors they leave, in the *)
(* tables that pciids.py makes).                                           *)
THEOREM NamesAreRight == Spec => []NamesRight
<1>1. LookupInv => NamesRight
  BY DEF LookupInv, ShownInv, NamesRight
<1> QED BY <1>1, InitLookup, NextLookup, PTL DEF Spec

-----------------------------------------------------------------------------
(* Types.                                                                  *)

TableTypes ==
  /\ at \in {"start", "call", "fetched", "have", "display", "done", "failed", "lost"}
  /\ buf_size \in Routing!Words /\ len \in Routing!Words /\ held \in Nat /\ held <= 65536
  /\ irq_bitmap \in [0 .. 255 -> 0 .. 4] /\ trouble \in 0 .. MaxTrouble
  /\ at \notin {"have", "display", "done"} => table = Routing!NoTable /\ next = 1

LEMMA InitTableTypes == Init => TableTypes
  BY NamesAssumption DEF Init, Routing!Init, TableTypes, Routing!FirstSize, Routing!Words

LEMMA ModWord == \A x \in Int : x % 65536 \in Routing!Words
  BY DEF Routing!Words

LEMMA FindPirTypes ==
  ASSUME firmware \in Firmwares, MaxTrouble \in Nat, TableTypes, Routing!FindPir
  PROVE  TableTypes'
<1>1. firmware.pir.size \in Int
  <2>1. /\ firmware.pir.entries \in Seq(RoutingEntries)
        /\ firmware.pir.size \in {0, 32 + 16 * Len(firmware.pir.entries)}
    BY FirmwareAssumption DEF RoutingEntries
  <2>2. Len(firmware.pir.entries) \in Nat
    BY <2>1
  <2> QED BY <2>1, <2>2
<1>2. (((firmware.pir.size - 32) \div 16) * 16) % 65536 \in Routing!Words
  <2>1. ((firmware.pir.size - 32) \div 16) * 16 \in Int
    BY <1>1
  <2> QED BY <2>1, ModWord
<1>3. /\ at' \in {"have", "failed"} /\ UNCHANGED <<buf_size, held, irq_bitmap, next>>
      /\ at = "start" /\ (at' = "failed" => table' = table /\ len' = len)
  BY DEF Routing!FindPir, Routing!buffer, Routing!display
<1>4. trouble' \in 0 .. MaxTrouble
  <2>1. trouble' = trouble \/ Routing!Trouble
    BY DEF Routing!FindPir
  <2> QED BY <2>1 DEF Routing!Trouble, TableTypes
<1>5. len' \in Routing!Words
  <2>1. CASE at' = "failed"
    BY <1>3, <2>1 DEF TableTypes
  <2>2. CASE at' = "have"
    <3> DEFINE m == (firmware.pir.size - 32) \div Routing!EntrySize
               l == (m * Routing!EntrySize) % 65536
    <3>1. len' = l
      <4> DEFINE s == SubSeq(firmware.pir.entries, 1, m)
      <4>1. IF firmware.pir.size = 0 THEN at' = "failed" /\ UNCHANGED <<len, table, trouble>>
            ELSE \/ len' = l /\ table' = s /\ at' = "have" /\ UNCHANGED trouble
                 \/ Routing!Trouble /\ at' = "failed" /\ UNCHANGED <<len, table>>
        BY DEF Routing!FindPir
      <4> HIDE DEF l, s
      <4> QED BY <2>2, <4>1
    <3>2. Routing!EntrySize = 16
      BY DEF Routing!EntrySize
    <3> QED BY <1>2, <3>1, <3>2
  <2> QED BY <1>3, <2>1, <2>2
<1> QED BY <1>3, <1>4, <1>5 DEF TableTypes

LEMMA AllocateTypes ==
  ASSUME MaxTrouble \in Nat, TableTypes, Routing!Allocate
  PROVE  TableTypes'
<1>1. ASSUME NEW b \in Routing!Words
      PROVE  16 * ((b + 15) \div 16) \in Nat /\ 16 * ((b + 15) \div 16) <= 65536
  BY DEF Routing!Words
<1>2. held' = 16 * ((buf_size + 15) \div 16) \/ held' = held
  BY DEF Routing!Allocate
<1>3. trouble' \in 0 .. MaxTrouble
  BY DEF Routing!Allocate, Routing!Trouble, TableTypes
<1>4. /\ at' \in {"call", "failed"} /\ UNCHANGED <<buf_size, len, table, irq_bitmap, next>>
      /\ at = "start"
  BY DEF Routing!Allocate, Routing!display
<1>5. held' \in Nat /\ held' <= 65536
  BY <1>1, <1>2 DEF TableTypes
<1> QED BY <1>3, <1>4, <1>5 DEF TableTypes

LEMMA CallBiosTypes ==
  ASSUME firmware \in Firmwares, MaxTrouble \in Nat, TableTypes, Routing!CallBios
  PROVE  TableTypes'
<1>1. \A answer \in Routing!Answers : answer.len \in Routing!Words
  <2>1. firmware.len \in Routing!Words /\ firmware.odd \subseteq Routing!Words
    BY FirmwareAssumption
  <2> QED BY <2>1 DEF Routing!Answers
<1>2. trouble' \in 0 .. MaxTrouble
  BY DEF Routing!CallBios, Routing!Trouble, TableTypes
<1>3. /\ at' \in {"start", "fetched", "failed", "lost"} /\ held' \in {held, 0}
      /\ at = "call" /\ UNCHANGED <<table, irq_bitmap, next>>
  BY DEF Routing!CallBios, Routing!Retry, Routing!buffer, Routing!display
<1>4. \/ UNCHANGED <<buf_size, len>>
      \/ \E answer \in Routing!Answers :
           /\ len' = answer.len
           /\ \/ buf_size' \in {buf_size, answer.len}
              \/ ~ (answer.len >= 65530) /\ buf_size' = answer.len + 2
  BY DEF Routing!CallBios, Routing!Retry, Routing!buffer
<1>5. buf_size' \in Routing!Words /\ len' \in Routing!Words
  <2>1. \A l \in Routing!Words : ~ (l >= 65530) => l + 2 \in Routing!Words
    BY DEF Routing!Words
  <2> QED BY <1>1, <1>4, <2>1 DEF TableTypes
<1> QED BY <1>2, <1>3, <1>5 DEF TableTypes

LEMMA CopyTableTypes ==
  ASSUME MaxTrouble \in Nat, TableTypes, Routing!CopyTable
  PROVE  TableTypes'
<1>1. trouble' \in 0 .. MaxTrouble
  BY DEF Routing!CopyTable, Routing!Trouble, TableTypes
<1>2. /\ at' \in {"have", "failed"} /\ held' = 0 /\ UNCHANGED <<buf_size, len, irq_bitmap, next>>
      /\ at = "fetched" /\ (at' = "failed" => table' = table)
  BY DEF Routing!CopyTable, Routing!display
<1> QED BY <1>1, <1>2 DEF TableTypes

LEMMA PrepareTypes ==
  ASSUME SInv, TableTypes, Routing!Prepare
  PROVE  TableTypes'
<1>1. irq_bitmap' \in [0 .. 255 -> 0 .. 4]
  <2>1. irq_bitmap' = irq_bitmap \/ \E f \in Routing!LinkOrders : irq_bitmap' = LineOf(f)
    BY DEF Routing!Prepare, LineOf
  <2>2. ASSUME NEW f \in Routing!LinkOrders PROVE LineOf(f) \in [0 .. 255 -> 0 .. 4]
    <3>1. PICK R, c : R = Routing!RootLinks /\ c = Cardinality(R)
      OBVIOUS
    <3>2. R \in SUBSET (1 .. 255)
      BY <3>1 DEF Routing!RootLinks
    <3>3. c \in Nat
      <4>1. 1 \in Int /\ 255 \in Int
        OBVIOUS
      <4>2. IsFiniteSet(1 .. 255)
        BY <4>1, FS_Interval, Zenon
      <4>3. IsFiniteSet(R)
        BY <3>2, <4>2, FS_Subset
      <4> QED BY <3>1, <4>3, FS_CardinalityType
    <3>4. f \in [1 .. c -> R] /\ \A k, l \in DOMAIN f : k < l => f[k] # f[l]
      BY <3>1, SameCardinality DEF Routing!LinkOrders
    <3>5. f \in [1 .. c -> 1 .. 255] /\ \A k, l \in 1 .. c : k < l => f[k] # f[l]
      BY <3>2, <3>4
    <3> QED BY <3>3, <3>5, LineOfListed
  <2> QED BY <2>1, <2>2 DEF TableTypes
<1>2. /\ at = "have" /\ at' \in {"display", "failed"}
      /\ UNCHANGED <<buf_size, held, len, next, trouble>>
      /\ at' = "failed" => table = Routing!NoTable /\ table' = table
  BY DEF Routing!Prepare, Routing!buffer
<1>3. next = 1
  BY <1>2 DEF SInv, Fresh
<1> QED BY <1>1, <1>2, <1>3 DEF TableTypes

LEMMA DisplayTypes ==
  ASSUME TableTypes, Routing!Display
  PROVE  TableTypes'
<1>1. /\ at = "display" /\ at' \in {"display", "done"}
      /\ UNCHANGED <<buf_size, held, len, irq_bitmap, trouble>>
  BY DEF Routing!Display, Routing!buffer
<1> QED BY <1>1 DEF TableTypes

LEMMA NextTableTypes == RInv /\ SInv /\ TableTypes /\ [Next]_vars => TableTypes'
<1> SUFFICES ASSUME RInv, SInv, TableTypes, [Next]_vars PROVE TableTypes'
  OBVIOUS
<1>1. CASE UNCHANGED routing
  BY <1>1 DEF routing, TableTypes
<1>2. Routing!Next \/ UNCHANGED routing
  BY DEF Next, vars, Start, ParseFirst, ParseRest, Dispatch, Read, Write, Readback, DumpDword,
     Save, Identify, LookUp, Steer
<1>3. firmware \in Firmwares /\ MaxTrouble \in Nat
  BY NamesAssumption DEF RInv
<1> QED BY <1>1, <1>2, <1>3, FindPirTypes, AllocateTypes, CallBiosTypes, CopyTableTypes,
           PrepareTypes, DisplayTypes DEF Routing!Next

LEMMA RoutingTyped == RInv /\ SInv /\ TableTypes => Routing!TypeOK
<1> SUFFICES ASSUME RInv, SInv, TableTypes PROVE Routing!TypeOK
  OBVIOUS
<1>1. firmware \in Firmwares
  BY DEF RInv
<1>2. Size \in Nat
  BY <1>1, GivenEntries
<1>3. next \in 1 .. Len(table) + 1
  <2>1. CASE at \notin {"have", "display", "done"}
    <3>1. Len(Routing!NoTable) = 0
      BY DEF Routing!NoTable
    <3> QED BY <2>1, <3>1 DEF TableTypes
  <2>2. CASE at \in {"have", "display", "done"}
    <3>1. table \in [1 .. Size -> RoutingEntries]
      BY <2>2 DEF SInv, Shown, Fetched, Generated
    <3>2. Len(table) = Size
      <4>1. table \in Seq(RoutingEntries) /\ DOMAIN table = 1 .. Size
        BY <1>2, <3>1
      <4> QED BY <1>2, <4>1, LenProperties
    <3>3. next \in 1 .. Size + 1
      BY <1>2, <2>2 DEF SInv, Shown, Fresh
    <3> QED BY <3>2, <3>3
  <2> QED BY <2>1, <2>2
<1> QED BY <1>3 DEF TableTypes, Routing!TypeOK

(* Every variable of pcireg has its type, in each of its operations: no    *)
(* number is stored past the end of hexargv, no cursor is outside its      *)
(* table, the archive is read within itself, and the IRQ routing table     *)
(* within its buffer's 64 KiB.                                             *)
THEOREM Typing == Spec => []TypeOK
<1>1. LookupInv /\ RInv /\ SInv /\ TableTypes /\ AInv => TypeOK
  <2> SUFFICES ASSUME LookupInv, RInv, SInv, TableTypes, AInv PROVE TypeOK
    OBVIOUS
  <2>1. Names!TypeOK /\ Routing!TypeOK
    BY RoutingTyped DEF LookupInv
  <2>2. hexargv \in Seq(0 .. 255) /\ Len(hexargv) <= 8 /\ i \in 1 .. 6 /\ place \in Locations
    BY DEF AInv, Types
  <2>3. hexargv \in UNION {[1 .. k -> 0 .. 255] : k \in {Len(hexargv)}}
    <3>1. hexargv \in [1 .. Len(hexargv) -> 0 .. 255]
      BY <2>2, LenProperties
    <3> QED BY <3>1
  <2>4. cur_reg \in {4 * k : k \in 0 .. 63}
    <3>1. \E k \in 0 .. 63 : cur_reg = 4 * k
      <4>1. doing # "dump" => cur_reg = 4 * 0 /\ 0 \in 0 .. 63
        BY DEF AInv, Dumping
      <4>2. doing = "dump" => \E k \in 0 .. 63 : cur_reg = 4 * k
        BY DEF AInv, Dumping
      <4> QED BY <4>1, <4>2
    <3> QED BY <3>1
  <2>5. file \in {<<>>, regs}
    BY DEF AInv, Dumping
  <2> QED BY <2>1, <2>2, <2>3, <2>4, <2>5 DEF TypeOK, Locations
<1> QED BY <1>1, InitLookup, NextLookup, InitRInv, NextRInv, InitSInv, NextSInv,
           InitTableTypes, NextTableTypes, InitAInv, NextAInv, PTL DEF Spec
=============================================================================
