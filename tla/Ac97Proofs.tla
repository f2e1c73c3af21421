----------------------------- MODULE Ac97Proofs -----------------------------
(***************************************************************************)
(* The I/O ranges that ac97 has pci_get_io_bar assign, for any number of   *)
(* controllers, any hardware in the way and an I/O space of any size; and  *)
(* the registers that it dumps, for any number of registers and settings.  *)
(***************************************************************************)
EXTENDS Ac97, SequenceTheorems, WellFoundedInduction, TLAPS

LEMMA Least ==
  ASSUME NEW S \in SUBSET Nat, S # {}
  PROVE  \E b \in S : \A c \in S : b <= c
<1> DEFINE R == OpToRel(<, Nat)
<1>1. IsWellFoundedOn(R, Nat)
  BY NatLessThanWellFounded
<1>2. \A x, y \in Nat : <<x, y>> \in R <=> x < y
  BY DEF OpToRel
<1> HIDE DEF R
<1>3. PICK b \in S : \A c \in S : ~ (<<c, b>> \in R)
  BY <1>1, WFMin
<1>4. ASSUME NEW c \in S PROVE b <= c
  <2>1. b \in Nat /\ c \in Nat
    OBVIOUS
  <2>2. ~ (<<c, b>> \in R)
    BY <1>3
  <2>3. ~ (c < b)
    BY <1>2, <2>1, <2>2
  <2> QED BY <2>1, <2>3
<1> QED BY <1>4

(* The first base of a set, unless there is none.                          *)
LEMMA FirstOfIs ==
  ASSUME NEW S \in SUBSET Nat, FirstOf(S) # 0
  PROVE  FirstOf(S) \in S /\ \A c \in S : FirstOf(S) <= c
<1>1. S # {}
  BY DEF FirstOf
<1>2. \E b \in S : \A c \in S : b <= c
  BY <1>1, Least
<1> QED BY <1>1, <1>2 DEF FirstOf

-----------------------------------------------------------------------------
Bars == (DOMAIN bars) \X (1 .. 2)
KindOf(x) == machine.devices[x[1]].kind
DecodesOf(x) == machine.devices[x[1]].decodes
BaseOf(x) == bars[x[1]][x[2]]
RangeOf(x) == Ports(BaseOf(x), Size(KindOf(x)))
DecodedBy(x) == Ports(BaseOf(x), Extent(KindOf(x), x[2]))

BarTypes ==
  /\ machine \in Machines
  /\ bars \in [DOMAIN machine.devices -> [1 .. 2 -> {NoBar, Unassigned} \cup Bases]]
  /\ n \in DOMAIN machine.devices
  /\ assigned \subseteq Bars

(* The low bits of a BAR are zeros.                                        *)
Aligned == \A x \in Bars : BaseOf(x) % Extent(KindOf(x), x[2]) = 0

(* An assigned range has a base, a multiple of its size.  One for 64 ports *)
(* is the first that was free: all below it answers.  That keeps it out of *)
(* the middle of one for 256, of which only the ends are tested.           *)
FirstFree ==
  \A a \in assigned :
    /\ BaseOf(a) \in First .. Units - 1
    /\ BaseOf(a) % Size(KindOf(a)) = 0
    /\ Size(KindOf(a)) = 1 => \A u \in First .. BaseOf(a) - 1 : Answers(u)

Clear(a, b) ==
  \/ RangeOf(a) \cap DecodedBy(b) = {}
  \/ /\ b \notin assigned
     /\ BaseOf(a) \notin DecodedBy(b) /\ BaseOf(a) + Size(KindOf(a)) - 1 \notin DecodedBy(b)

Disjoint ==
  \A a \in assigned, b \in Bars :
    (b \notin assigned \/ Earlier(b, a)) /\ DecodesOf(b) /\ BaseOf(b) \in Bases => Clear(a, b)

RInv == BarTypes /\ Aligned /\ FirstFree /\ Disjoint

(* Ranges are assigned in the order of the scan.                           *)
InOrder == \A a \in assigned : a[1] <= n /\ (pc = "main" => a[1] < n)

LEMMA Numbers ==
  /\ Units \in Nat /\ First \in Nat /\ First >= 4 /\ Units % 4 = 0
  /\ Bases \subseteq Nat /\ Bases = 1 .. Units - 1
<1>1. Units \in Nat /\ First \in 1 .. Units - 1 /\ First % 4 = 0 /\ Units % 4 = 0
  BY Ac97Assumption DEF Bases
<1> QED BY <1>1 DEF Bases

LEMMA Sizes ==
  ASSUME BarTypes, NEW x \in Bars
  PROVE  /\ Size(KindOf(x)) \in {1, 4}
         /\ \/ Extent(KindOf(x), x[2]) = Size(KindOf(x))
            \/ Extent(KindOf(x), x[2]) = 1 /\ Size(KindOf(x)) = 4
         /\ BaseOf(x) \in {NoBar, Unassigned} \cup Bases
         /\ BaseOf(x) \in Nat
<1>1. x[1] \in DOMAIN machine.devices /\ x[2] \in 1 .. 2
  BY DEF BarTypes, Bars
<1>2. BaseOf(x) \in {NoBar, Unassigned} \cup Bases
  BY <1>1 DEF BarTypes, BaseOf
<1>3. Size(KindOf(x)) \in {1, 4}
  BY DEF Size
<1>4. \/ Extent(KindOf(x), x[2]) = Size(KindOf(x))
      \/ Extent(KindOf(x), x[2]) = 1 /\ Size(KindOf(x)) = 4
  BY DEF Extent, Size
<1> QED BY <1>2, <1>3, <1>4, Numbers DEF NoBar, Unassigned

(* Two ranges that share a unit, of which the first is not the larger one, *)
(* share an end of the first.                                              *)
LEMMA EndsMeet ==
  ASSUME NEW r \in Nat, NEW s \in {1, 4}, NEW c \in Nat, NEW t \in {1, 4}, t >= s,
         NEW u \in r .. r + s - 1, u \in c .. c + t - 1
  PROVE  r \in c .. c + t - 1 \/ r + s - 1 \in c .. c + t - 1
  OBVIOUS

-----------------------------------------------------------------------------
(* The assignment: a BAR without a base, but for bits below the size, gets *)
(* the first range found.                                                  *)
Assign(k, r) ==
  /\ k \in 1 .. 2
  /\ bars[n][k] # NoBar /\ Masked(bars[n][k], Size(Kind)) = 0
  /\ r = io_find_range(Size(Kind)) /\ r # 0
  /\ bars' = [bars EXCEPT ![n][k] = r]
  /\ assigned' = assigned \cup {<<n, k>>}
  /\ UNCHANGED <<machine, n>>

LEMMA RangeFound ==
  ASSUME BarTypes, NEW k, NEW r, Assign(k, r)
  PROVE  /\ r \in First .. Units - 1 /\ r % Size(Kind) = 0
         /\ ~Answers(r) /\ ~Answers(r + Size(Kind) - 1)
         /\ Size(Kind) = 1 => \A u \in First .. r - 1 : Answers(u)
<1> DEFINE size == Size(Kind)
           S == {b \in First .. Units - 1 : b % size = 0 /\ ~Answers(b) /\ ~Answers(b + size - 1)}
<1>1. S \in SUBSET Nat /\ First \in Nat /\ Units \in Nat
  BY Ac97Assumption DEF Bases
<1>2. r = FirstOf(S) /\ FirstOf(S) # 0
  BY DEF Assign, io_find_range
<1>3. r \in S /\ \A c \in S : r <= c
  BY <1>1, <1>2, FirstOfIs
<1>4. ASSUME size = 1, NEW u \in First .. r - 1 PROVE Answers(u)
  <2>1. u \in First .. Units - 1 /\ ~ (r <= u)
    BY <1>1, <1>3
  <2>2. u % size = 0 /\ u + size - 1 = u
    BY <1>1, <1>4
  <2> QED BY <1>3, <2>1, <2>2
<1> QED BY <1>3, <1>4

LEMMA AssignedBars ==
  ASSUME BarTypes, NEW k, NEW r, Assign(k, r)
  PROVE  /\ <<n, k>> \in Bars /\ Bars' = Bars /\ DOMAIN bars' = DOMAIN bars
         /\ BaseOf(<<n, k>>)' = r /\ Kind = KindOf(<<n, k>>)
         /\ \A x \in Bars : KindOf(x)' = KindOf(x) /\ DecodesOf(x)' = DecodesOf(x)
         /\ \A x \in Bars : x # <<n, k>> => BaseOf(x)' = BaseOf(x)
<1>1. n \in DOMAIN bars /\ k \in 1 .. 2 /\ bars[n] \in [1 .. 2 -> {NoBar, Unassigned} \cup Bases]
  BY DEF BarTypes, Assign
<1>2. DOMAIN bars' = DOMAIN bars /\ bars'[n][k] = r
  BY <1>1 DEF Assign
<1>3. \A d \in DOMAIN bars, j \in 1 .. 2 : <<d, j>> # <<n, k>> => bars'[d][j] = bars[d][j]
  BY <1>1 DEF Assign
<1>4. Kind = KindOf(<<n, k>>)
  BY DEF Kind, Device, KindOf
<1>5. ASSUME NEW x \in Bars, x # <<n, k>> PROVE BaseOf(x)' = BaseOf(x)
  <2>1. x = <<x[1], x[2]>> /\ x[1] \in DOMAIN bars /\ x[2] \in 1 .. 2
    BY DEF Bars
  <2> QED BY <1>3, <1>5, <2>1 DEF BaseOf
<1>6. \A x \in Bars : KindOf(x)' = KindOf(x) /\ DecodesOf(x)' = DecodesOf(x)
  BY DEF KindOf, DecodesOf, Assign
<1>7. <<n, k>> \in Bars /\ Bars' = Bars
  BY <1>1, <1>2 DEF Bars
<1>8. BaseOf(<<n, k>>)' = r
  BY <1>2 DEF BaseOf, Assign
<1> QED BY <1>2, <1>4, <1>5, <1>6, <1>7, <1>8

(* What the BAR decoded before, if anything, lies below the first range    *)
(* that is looked at.                                                      *)
LEMMA OldBelow ==
  ASSUME BarTypes, Aligned, NEW k, NEW r, Assign(k, r), BaseOf(<<n, k>>) \in Bases,
         NEW u \in DecodedBy(<<n, k>>)
  PROVE  u < First
<1> DEFINE x == <<n, k>>  s == Size(KindOf(x))  e == Extent(KindOf(x), x[2])  c == BaseOf(x)
<1>1. x \in Bars /\ Kind = KindOf(x)
  BY AssignedBars
<1>2. s \in {1, 4} /\ (e = s \/ (e = 1 /\ s = 4)) /\ c \in Nat
  BY <1>1, Sizes
<1>3. c % e = 0
  BY <1>1 DEF Aligned
<1>4. c = bars[n][k]
  BY DEF BaseOf
<1>5. c - (c % s) = 0
  BY <1>1, <1>4 DEF Assign, Masked
<1>6. c > 0
  BY Numbers
<1>7. u \in c .. c + e - 1
  BY DEF DecodedBy, Ports
<1> HIDE DEF x, s, e, c
<1>8. s = 4 /\ c < 4
  BY <1>2, <1>5, <1>6
<1>9. e = 1
  BY <1>2, <1>3, <1>6, <1>8
<1> QED BY <1>2, <1>7, <1>8, <1>9, Numbers

(* What answered before answers still, from the first range on.            *)
LEMMA AnswersStay ==
  ASSUME BarTypes, Aligned, NEW k, NEW r, Assign(k, r), NEW u \in Nat, u >= First, Answers(u)
  PROVE  Answers(u)'
<1>1. CASE u \in machine.hw
  BY <1>1 DEF Answers, Assign
<1>2. CASE u \notin machine.hw
  <2>1. PICK d \in DOMAIN bars, j \in 1 .. 2 :
             /\ machine.devices[d].decodes /\ bars[d][j] \in Bases
             /\ u \in Ports(bars[d][j], Extent(machine.devices[d].kind, j))
    BY <1>2 DEF Answers
  <2>2. <<d, j>> \in Bars /\ BaseOf(<<d, j>>) = bars[d][j] /\ BaseOf(<<d, j>>)' = bars'[d][j]
    BY DEF Bars, BaseOf
  <2>3. <<d, j>> # <<n, k>>
    <3>1. ASSUME <<d, j>> = <<n, k>> PROVE FALSE
      <4>1. u \in DecodedBy(<<n, k>>) /\ BaseOf(<<n, k>>) \in Bases
        BY <2>1, <3>1 DEF DecodedBy, BaseOf, KindOf
      <4>2. u < First
        BY <4>1, OldBelow
      <4> QED BY <4>2, Numbers
    <3> QED BY <3>1
  <2>4. bars'[d][j] = bars[d][j] /\ d \in DOMAIN bars'
    BY <2>2, <2>3, AssignedBars
  <2>5. machine' = machine
    BY DEF Assign
  <2> QED BY <2>1, <2>4, <2>5 DEF Answers
<1> QED BY <1>1, <1>2

(* A BAR with a base answers on all of its range.                          *)
LEMMA BarAnswers ==
  ASSUME NEW x \in Bars, DecodesOf(x), BaseOf(x) \in Bases, NEW u \in DecodedBy(x)
  PROVE  Answers(u)
  BY DEF Bars, DecodesOf, BaseOf, KindOf, DecodedBy, Answers

(* The range found is clear of what a device decodes.                      *)
LEMMA FoundApart ==
  ASSUME BarTypes, FirstFree, NEW k, NEW r, Assign(k, r),
         NEW b \in Bars, DecodesOf(b), BaseOf(b) \in Bases
  PROVE  /\ r \notin DecodedBy(b) /\ r + Size(Kind) - 1 \notin DecodedBy(b)
         /\ b \in assigned => Ports(r, Size(Kind)) \cap DecodedBy(b) = {}
<1> DEFINE s == Size(Kind)  z == Size(KindOf(b))  t == Extent(KindOf(b), b[2])  c == BaseOf(b)
<1>1. s \in {1, 4} /\ z \in {1, 4} /\ (t = z \/ (t = 1 /\ z = 4)) /\ c \in Nat
  BY AssignedBars, Sizes
<1>2. /\ r \in First .. Units - 1 /\ r % s = 0 /\ ~Answers(r) /\ ~Answers(r + s - 1)
  BY RangeFound
<1>3. r \in Nat
  BY <1>2, Numbers
<1>4. \A u \in DecodedBy(b) : Answers(u)
  BY BarAnswers
<1>5. r \notin DecodedBy(b) /\ r + s - 1 \notin DecodedBy(b)
  BY <1>2, <1>4
<1>6. Ports(r, s) = r .. r + s - 1 /\ DecodedBy(b) = c .. c + t - 1
  BY DEF Ports, DecodedBy
<1>7. b \in assigned =>
        c \in First .. Units - 1 /\ c % z = 0 /\ (z = 1 => \A u \in First .. c - 1 : Answers(u))
  BY DEF FirstFree
<1> HIDE DEF s, t, c, z
<1>8. ASSUME b \in assigned, NEW u \in r .. r + s - 1, u \in c .. c + t - 1 PROVE FALSE
  <2>1. CASE t >= s
    <3>1. r \in c .. c + t - 1 \/ r + s - 1 \in c .. c + t - 1
      BY <1>1, <1>3, <1>8, <2>1, EndsMeet
    <3> QED BY <3>1, <1>5, <1>6
  <2>2. CASE ~ (t >= s)
    <3>1. t = 1 /\ s = 4 /\ u = c
      BY <1>1, <1>8, <2>2
    <3>2. r <= c /\ c <= r + 3 /\ r # c
      BY <1>1, <1>3, <1>5, <1>6, <1>8, <3>1
    <3>3. CASE z = 1
      <4>1. r \in First .. c - 1
        BY <1>1, <1>2, <1>3, <3>2, Numbers
      <4> QED BY <4>1, <3>3, <1>2, <1>7, <1>8
    <3>4. CASE z = 4
      <4>1. c % 4 = 0 /\ r % 4 = 0
        BY <1>2, <1>7, <1>8, <3>1, <3>4
      <4> QED BY <4>1, <1>1, <1>3, <3>2
    <3> QED BY <1>1, <3>3, <3>4
  <2> QED BY <2>1, <2>2
<1> QED BY <1>5, <1>6, <1>8 DEF s

LEMMA AssignKeeps ==
  ASSUME RInv, NEW k, NEW r, Assign(k, r), \A a \in assigned : ~Earlier(<<n, k>>, a)
  PROVE  RInv'
<1>0. PICK x : x = <<n, k>>
  OBVIOUS
<1>1. BarTypes /\ Aligned /\ FirstFree /\ Disjoint
  BY DEF RInv
<1>2. /\ x \in Bars /\ Bars' = Bars /\ DOMAIN bars' = DOMAIN bars /\ BaseOf(x)' = r
      /\ \A y \in Bars : KindOf(y)' = KindOf(y) /\ DecodesOf(y)' = DecodesOf(y)
      /\ \A y \in Bars : y # x => BaseOf(y)' = BaseOf(y)
      /\ Kind = KindOf(x)
  <2>1. /\ <<n, k>> \in Bars /\ Bars' = Bars /\ DOMAIN bars' = DOMAIN bars
        /\ BaseOf(<<n, k>>)' = r /\ Kind = KindOf(<<n, k>>)
        /\ \A y \in Bars : KindOf(y)' = KindOf(y) /\ DecodesOf(y)' = DecodesOf(y)
        /\ \A y \in Bars : y # <<n, k>> => BaseOf(y)' = BaseOf(y)
    BY <1>1, AssignedBars
  <2>2. n' = n
    BY DEF Assign
  <2>3. BaseOf(x)' = BaseOf(<<n, k>>)'
    BY <1>0, <2>2 DEF BaseOf
  <2> QED BY <1>0, <2>1, <2>3
<1>3. machine' = machine /\ n' = n /\ assigned' = assigned \cup {x}
  BY <1>0 DEF Assign
<1>4. r \in First .. Units - 1 /\ r \in Bases /\ r \in Nat /\ r % Size(Kind) = 0
  <2>1. r \in First .. Units - 1 /\ r % Size(Kind) = 0
    BY <1>1, RangeFound
  <2> QED BY <2>1, Numbers
<1>5. BarTypes'
  <2>1. bars' \in [DOMAIN machine.devices -> [1 .. 2 -> {NoBar, Unassigned} \cup Bases]]
    BY <1>1, <1>4 DEF BarTypes, Assign
  <2>2. assigned' \subseteq Bars'
    BY <1>1, <1>2, <1>3 DEF BarTypes
  <2> QED BY <1>1, <1>3, <2>1, <2>2 DEF BarTypes
<1>6. Aligned'
  <2>1. r % Extent(KindOf(x), x[2]) = 0
    <3>1. /\ Size(KindOf(x)) \in {1, 4}
          /\ \/ Extent(KindOf(x), x[2]) = Size(KindOf(x))
             \/ Extent(KindOf(x), x[2]) = 1 /\ Size(KindOf(x)) = 4
      BY <1>1, <1>2, Sizes
    <3> QED BY <3>1, <1>2, <1>4
  <2>2. ASSUME NEW y \in Bars PROVE BaseOf(y)' % Extent(KindOf(y)', y[2]) = 0
    BY <1>1, <1>2, <2>1 DEF Aligned
  <2> QED BY <1>2, <2>2 DEF Aligned
<1>7. FirstFree'
  <2>1. ASSUME NEW a \in assigned, a # x
        PROVE  /\ BaseOf(a)' \in First .. Units - 1
               /\ BaseOf(a)' % Size(KindOf(a)') = 0
               /\ Size(KindOf(a)') = 1 => \A u \in First .. BaseOf(a)' - 1 : Answers(u)'
    <3>1. a \in Bars /\ BaseOf(a)' = BaseOf(a) /\ KindOf(a)' = KindOf(a)
      BY <1>1, <1>2, <2>1 DEF BarTypes
    <3>2. /\ BaseOf(a) \in First .. Units - 1 /\ BaseOf(a) % Size(KindOf(a)) = 0
          /\ Size(KindOf(a)) = 1 => \A u \in First .. BaseOf(a) - 1 : Answers(u)
      BY <1>1, <2>1 DEF FirstFree
    <3>3. ASSUME NEW u \in First .. BaseOf(a) - 1, Answers(u) PROVE Answers(u)'
      <4>1. u \in Nat /\ u >= First
        BY Numbers
      <4> QED BY <1>1, <3>3, <4>1, AnswersStay
    <3> QED BY <3>1, <3>2, <3>3
  <2>2. Size(KindOf(x)') = 1 => \A u \in First .. r - 1 : Answers(u)'
    <3>1. ASSUME NEW u \in First .. r - 1, Answers(u) PROVE Answers(u)'
      <4>1. u \in Nat /\ u >= First
        BY Numbers
      <4> QED BY <1>1, <3>1, <4>1, AnswersStay
    <3>2. KindOf(x)' = Kind
      BY <1>2
    <3> QED BY <1>1, <3>1, <3>2, RangeFound
  <2>3. \A a \in assigned' : a = x \/ (a \in assigned /\ a # x)
    BY <1>3
  <2>4. /\ BaseOf(x)' \in First .. Units - 1 /\ BaseOf(x)' % Size(KindOf(x)') = 0
    BY <1>2, <1>4
  <2> QED BY <1>2, <2>1, <2>2, <2>3, <2>4 DEF FirstFree
<1>8. Disjoint'
  <2> SUFFICES ASSUME NEW a \in assigned', NEW b \in Bars', b \notin assigned' \/ Earlier(b, a),
                      DecodesOf(b)', BaseOf(b)' \in Bases
               PROVE  Clear(a, b)'
    BY DEF Disjoint
  <2>1. /\ a \in Bars /\ b \in Bars /\ KindOf(a)' = KindOf(a) /\ KindOf(b)' = KindOf(b)
        /\ DecodesOf(b)
    BY <1>1, <1>2, <1>3 DEF BarTypes
  <2>2. b # x
    <3>1. ~Earlier(x, a)
      <4>1. CASE a = x
        <5>1. machine.devices \in Seq(Devices) /\ n \in DOMAIN machine.devices
          BY <1>1, Ac97Assumption DEF BarTypes
        <5>2. n \in Int /\ k \in 1 .. 2
          BY <5>1 DEF Assign
        <5> QED BY <4>1, <5>2, <1>0 DEF Earlier
      <4>2. CASE a # x
        BY <1>0, <1>3, <4>2
      <4> QED BY <4>1, <4>2
    <3> QED BY <3>1, <1>3
  <2>3. /\ BaseOf(b) \in Bases /\ BaseOf(b)' = BaseOf(b) /\ DecodedBy(b)' = DecodedBy(b)
        /\ b \in assigned' <=> b \in assigned
    BY <1>2, <1>3, <2>1, <2>2 DEF DecodedBy
  <2>4. CASE a = x
    <3>1. /\ r \notin DecodedBy(b) /\ r + Size(Kind) - 1 \notin DecodedBy(b)
          /\ b \in assigned => Ports(r, Size(Kind)) \cap DecodedBy(b) = {}
      BY <1>1, <2>1, <2>3, FoundApart
    <3>2. RangeOf(a)' = Ports(r, Size(Kind)) /\ BaseOf(a)' = r /\ Size(KindOf(a)') = Size(Kind)
      BY <1>2, <2>1, <2>4 DEF RangeOf
    <3> QED BY <2>3, <3>1, <3>2 DEF Clear
  <2>5. CASE a # x
    <3>1. a \in assigned /\ BaseOf(a)' = BaseOf(a) /\ RangeOf(a)' = RangeOf(a)
      BY <1>2, <1>3, <2>1, <2>5 DEF RangeOf
    <3>2. Clear(a, b)
      BY <1>1, <2>1, <2>3, <3>1 DEF Disjoint
    <3> QED BY <2>1, <2>3, <3>1, <3>2 DEF Clear
  <2> QED BY <2>4, <2>5
<1> QED BY <1>5, <1>6, <1>7, <1>8 DEF RInv

-----------------------------------------------------------------------------
LEMMA InitRInv == Init => RInv /\ InOrder
<1> SUFFICES ASSUME Init PROVE RInv /\ InOrder
  OBVIOUS
<1>1. machine \in Machines /\ bars = machine.bars /\ assigned = {} /\ n = 1
  BY DEF Init
<1>2. machine.devices \in Seq(Devices) /\ machine.devices # <<>>
  BY <1>1, Ac97Assumption
<1>3. n \in DOMAIN machine.devices
  BY <1>1, <1>2
<1>4. BarTypes
  BY <1>1, <1>3, Ac97Assumption DEF BarTypes
<1>5. Aligned
  <2>1. \A d \in DOMAIN machine.devices : \A j \in 1 .. 2 :
          bars[d][j] % Extent(machine.devices[d].kind, j) = 0
    BY <1>1, Ac97Assumption
  <2> QED BY <1>4, <2>1 DEF Aligned, BarTypes, Bars, BaseOf, KindOf
<1>6. FirstFree /\ Disjoint /\ InOrder
  BY <1>1 DEF FirstFree, Disjoint, InOrder
<1> QED BY <1>4, <1>5, <1>6 DEF RInv

(* A step that leaves the ranges alone; only the scan moves n.             *)
LEMMA OtherStep ==
  ASSUME RInv, UNCHANGED <<machine, bars, assigned>>, n' \in DOMAIN machine.devices
  PROVE  RInv'
<1>1. BarTypes'
  BY DEF RInv, BarTypes, Bars
<1>2. Aligned'
  BY DEF RInv, Aligned, Bars, BaseOf, KindOf
<1>3. FirstFree'
  BY DEF RInv, FirstFree, BaseOf, KindOf, Answers
<1>4. Disjoint'
  BY DEF RInv, Disjoint, Clear, RangeOf, DecodedBy, Bars, BaseOf, KindOf, DecodesOf
<1> QED BY <1>1, <1>2, <1>3, <1>4 DEF RInv

LEMMA GetBarStep ==
  ASSUME RInv, NEW k \in 1 .. 2, NEW base, pci_get_io_bar(k, base), UNCHANGED <<machine, n>>,
         \A a \in assigned : ~Earlier(<<n, k>>, a)
  PROVE  RInv' /\ assigned' \subseteq assigned \cup {<<n, k>>}
<1>1. CASE UNCHANGED <<bars, assigned>>
  BY <1>1, OtherStep DEF RInv, BarTypes
<1>2. CASE ~UNCHANGED <<bars, assigned>>
  <2>1. Assign(k, io_find_range(Size(Kind)))
    BY <1>2 DEF pci_get_io_bar, Assign
  <2> QED BY <2>1, AssignKeeps DEF Assign
<1> QED BY <1>1, <1>2

LEMMA NextRInv == RInv /\ InOrder /\ [Next]_vars => RInv' /\ InOrder'
<1> SUFFICES ASSUME RInv, InOrder, [Next]_vars PROVE RInv' /\ InOrder'
  OBVIOUS
<1>1. machine.devices \in Seq(Devices) /\ n \in DOMAIN machine.devices
  BY Ac97Assumption DEF RInv, BarTypes
<1>2. n \in Int /\ \A a \in assigned : a[1] \in Int /\ a[2] \in 1 .. 2
  <2>1. \A a \in assigned : a[1] \in DOMAIN machine.devices /\ a[2] \in 1 .. 2
    BY DEF RInv, BarTypes, Bars
  <2> QED BY <1>1, <2>1
<1>3. CASE MainRange
  <2>1. PICK base : pci_get_io_bar(1, base)
    BY <1>3 DEF MainRange
  <2>2. pc = "main" /\ pc' # "main" /\ UNCHANGED <<machine, n>>
    BY <1>3 DEF MainRange
  <2>3. \A a \in assigned : ~Earlier(<<n, 1>>, a)
    BY <1>2, <2>2 DEF InOrder, Earlier
  <2>4. RInv' /\ assigned' \subseteq assigned \cup {<<n, 1>>}
    BY <2>1, <2>2, <2>3, GetBarStep
  <2> QED BY <1>2, <2>2, <2>4 DEF InOrder
<1>4. CASE AltRange
  <2>1. PICK base : pci_get_io_bar(2, base)
    BY <1>4 DEF AltRange
  <2>2. pc' # "main" /\ UNCHANGED <<machine, n>>
    BY <1>4 DEF AltRange
  <2>3. \A a \in assigned : ~Earlier(<<n, 2>>, a)
    BY <1>2 DEF InOrder, Earlier
  <2>4. RInv' /\ assigned' \subseteq assigned \cup {<<n, 2>>}
    BY <2>1, <2>2, <2>3, GetBarStep
  <2> QED BY <1>2, <2>2, <2>4 DEF InOrder
<1>5. CASE NextDevice
  <2>1. n' = n + 1 /\ n' \in DOMAIN machine.devices
    BY <1>1, <1>5 DEF NextDevice
  <2>2. RInv' /\ assigned' = assigned
    BY <1>5, <2>1, OtherStep DEF NextDevice
  <2> QED BY <1>2, <2>1, <2>2 DEF InOrder
<1>6. CASE UNCHANGED found /\ (pc' = "main" => pc = "main")
  <2>1. UNCHANGED <<machine, bars, assigned>> /\ n' \in DOMAIN machine.devices /\ n' = n
    BY <1>1, <1>6 DEF found
  <2> QED BY <1>6, <2>1, OtherStep DEF InOrder
<1>7. MainRange \/ AltRange \/ NextDevice \/ (UNCHANGED found /\ (pc' = "main" => pc = "main"))
  <2>1. CASE Wake \/ Probe \/ WaitBefore \/ Command \/ Save \/ ScanEnds \/ Done \/ Answer
             \/ Ended \/ UNCHANGED vars
    BY <2>1 DEF vars, Wake, Probe, WaitBefore, Command, Save, ScanEnds, Done, Answer, Ended
  <2>2. CASE WaitAfter \/ GiveUp \/ Port
    BY <2>2 DEF WaitAfter, GiveUp, Port, Finish
  <2> QED BY <2>1, <2>2 DEF Next, Tool
<1> QED BY <1>3, <1>4, <1>5, <1>6, <1>7

(* A range that pci_get_io_bar assigns overlaps nothing that a device      *)
(* decoded at the time, though only its ends are tested: except what the   *)
(* BIOS left inside, clear of both ends.  Of ranges that are not decoded   *)
(* (the tool never enables decoding) this says nothing.                    *)
THEOREM AssignsApart == Spec => []RangesApart
<1>1. RInv => RangesApart
  BY DEF RInv, RangesApart, Disjoint, Clear, RangeOf, DecodedBy, Bars, BaseOf, KindOf, DecodesOf
<1> QED BY <1>1, InitRInv, NextRInv, PTL DEF Spec

-----------------------------------------------------------------------------
(* The accesses to the codec: where in CodecProbe the current one is.  The *)
(* shadow test, if there is one, comes before, in places below 1.          *)
Place == step - (Len(accesses) - Len(CodecProbe))
LastSetting == Len(Settings) + 1
Accessing == pc \in {"before", "issue", "after"}
Dumping == Place > LastSetting

Program ==
  /\ step \in Nat /\ step > 0 /\ fetched \in BOOLEAN
  /\ pc \in {"main", "wake", "alt", "probe"} =>
       /\ step = 1 /\ ~fetched /\ regs = <<>> /\ marks = {}
       /\ cmd = NoCmd /\ late = Regs
  /\ Accessing =>
       /\ accesses \in {CodecProbe, ShadowTest \o CodecProbe}
       /\ step <= Len(accesses)
       /\ fetched => Acc.op = "modify"
       /\ IF Dumping THEN Len(regs) = Acc.reg /\ marks \subseteq 0 .. Acc.reg + 1
                     ELSE regs = <<>> /\ marks \subseteq {0}

(* The codec's registers when the first k settings have been made.         *)
Left(k) == [r \in 0 .. Regs - 1 |-> [of |-> r, set |-> \E i \in 1 .. k : Settings[i][2] = r]]
AsBefore == Place > 1 => codec = Left(IF Dumping THEN Len(Settings) ELSE Place - 2)
AsAfter == Place > 0 => codec = Left(Place - 1)

(* The controller between the command of a read and its answer.            *)
Reading ==
  \/ cmd.op = "read" /\ cmd.reg = Acc.reg /\ late = Regs /\ (Kind \in Via => ~valid)
  \/ cmd = NoCmd /\ late = Acc.reg /\ Kind \in Via /\ ~valid
  \/ cmd = NoCmd /\ late = Regs /\ data = codec[Acc.reg]

Writing == [op |-> "write", reg |-> Acc.reg, val |-> [of |-> Acc.reg, set |-> TRUE]]

(* Until the first [!] the codec is as the accesses before left it, and    *)
(* nothing of theirs is on its way.                                        *)
InStep ==
  Trusted /\ marks = {} /\ Accessing =>
    IF ~Answering THEN pc = "before" /\ step = 1
    ELSE /\ fetched => kept.of = Acc.reg
         /\ pc = "before" => AsBefore /\ late = Regs /\ (cmd = NoCmd \/ cmd.op = "settle")
         /\ pc = "issue" => AsBefore /\ late = Regs /\ cmd = NoCmd
         /\ pc = "after" =>
              IF Writes
              THEN /\ late = Regs
                   /\ (cmd = Writing /\ AsBefore) \/ (cmd = NoCmd /\ AsAfter)
              ELSE AsBefore /\ Reading

(* Is there a register without a [!], or can the current one still be one? *)
Unmarked ==
  \/ \E r \in DOMAIN regs : r \notin marks
  \/ pc \in {"issue", "after"} /\ Dumping /\ Acc.reg + 1 \notin marks

(* Then no write is on its way that could change what was dumped.          *)
NoLateWrite ==
  Trusted /\ Kind \notin Via =>
    /\ late = Regs
    /\ Unmarked => cmd.op # "write"
    /\ pc \in {"issue", "after"} /\ Dumping /\ Acc.reg + 1 \notin marks =>
         /\ Answering
         /\ pc = "issue" => cmd = NoCmd
         /\ pc = "after" =>
              \/ cmd.op = "read" /\ cmd.reg = Acc.reg
              \/ cmd = NoCmd /\ data = codec[Acc.reg]

Registers == 0 .. Regs - 1
CodecTypes ==
  /\ codec \in [Registers -> Values]
  /\ cmd \in [op : {"none", "settle", "read", "write"}, reg : Registers, val : Values]
  /\ kept \in Values /\ data \in Values /\ late \in 0 .. Regs /\ valid \in BOOLEAN
  /\ regs \in Seq(Values) /\ Len(regs) <= Regs /\ marks \subseteq 0 .. Regs


-----------------------------------------------------------------------------
(* The accesses by their place.                                            *)
Accesses == [op : {"write", "modify", "dump", "show"}, reg : Registers]

Joins(u, s, t) ==
  /\ Len(u) = Len(s) + Len(t)
  /\ \A k \in 1 .. Len(s) : u[k] = s[k]
  /\ \A k \in 1 .. Len(t) : u[k + Len(s)] = t[k]

LEMMA Joined ==
  ASSUME NEW S, NEW s \in Seq(S), NEW t \in Seq(S)
  PROVE  s \o t \in Seq(S) /\ Joins(s \o t, s, t)
  BY ConcatProperties DEF Joins

LEMMA RegsAtLeast == Regs \in Nat /\ Regs > 1 /\ 0 \in Registers /\ 1 \in Registers
  BY Ac97Assumption DEF Registers

LEMMA AccessIs ==
  ASSUME NEW op \in {"write", "modify", "dump", "show"}, NEW reg \in Registers
  PROVE  /\ Access(op, reg) \in Seq(Accesses) /\ Len(Access(op, reg)) = 1
         /\ Access(op, reg)[1] = [op |-> op, reg |-> reg]
<1>1. [op |-> op, reg |-> reg] \in Accesses
  BY DEF Accesses
<1> QED BY <1>1 DEF Access

LEMMA SettingIs ==
  /\ Len(Settings) \in Nat
  /\ \A k \in 1 .. Len(Settings) :
       /\ Settings[k][1] \in {"write", "modify"}
       /\ Settings[k][2] \in Registers /\ Settings[k][2] # 0
<1>1. Settings \in Seq({"write", "modify"} \X (1 .. Regs - 1))
  BY Ac97Assumption
<1>2. \A k \in 1 .. Len(Settings) : Settings[k] \in {"write", "modify"} \X (1 .. Regs - 1)
  BY <1>1, ElementOfSeq
<1> QED BY <1>1, <1>2, RegsAtLeast DEF Registers

LEMMA CodecProbeIs ==
  /\ CodecProbe \in Seq(Accesses)
  /\ Len(CodecProbe) = LastSetting + Regs
  /\ CodecProbe[1] = [op |-> "write", reg |-> 0]
  /\ \A k \in 1 .. Len(Settings) :
       CodecProbe[k + 1] = [op |-> Settings[k][1], reg |-> Settings[k][2]]
  /\ \A r \in 1 .. Regs : CodecProbe[r + LastSetting] = [op |-> "dump", reg |-> r - 1]
<1> DEFINE first == Access("write", 0)
           set == [k \in 1 .. Len(Settings) |-> [op |-> Settings[k][1], reg |-> Settings[k][2]]]
           dump == [r \in 1 .. Regs |-> [op |-> "dump", reg |-> r - 1]]
           settings == first \o set
<1>1. first \in Seq(Accesses) /\ Len(first) = 1 /\ first[1] = [op |-> "write", reg |-> 0]
  BY AccessIs, RegsAtLeast
<1>2. set \in Seq(Accesses) /\ Len(set) = Len(Settings)
  <2>1. \A k \in 1 .. Len(Settings) : [op |-> Settings[k][1], reg |-> Settings[k][2]] \in Accesses
    BY SettingIs DEF Accesses
  <2> QED BY <2>1, SettingIs, IsASeq
<1>3. dump \in Seq(Accesses) /\ Len(dump) = Regs
  <2>1. \A r \in 1 .. Regs : [op |-> "dump", reg |-> r - 1] \in Accesses
    BY RegsAtLeast DEF Accesses, Registers
  <2> QED BY <2>1, RegsAtLeast, IsASeq
<1>4. CodecProbe = settings \o dump
  BY DEF CodecProbe
<1>5. \A k \in 1 .. Len(Settings) : set[k] = [op |-> Settings[k][1], reg |-> Settings[k][2]]
  OBVIOUS
<1>6. \A r \in 1 .. Regs : dump[r] = [op |-> "dump", reg |-> r - 1]
  OBVIOUS
<1> HIDE DEF first, set, dump
<1>7. settings \in Seq(Accesses) /\ Joins(settings, first, set)
  BY <1>1, <1>2, Joined
<1> HIDE DEF settings
<1>8. CodecProbe \in Seq(Accesses) /\ Joins(CodecProbe, settings, dump)
  BY <1>3, <1>4, <1>7, Joined
<1>9. /\ Len(settings) = LastSetting /\ settings[1] = first[1]
      /\ \A k \in 1 .. Len(Settings) : settings[k + 1] = set[k]
  BY <1>1, <1>2, <1>7, SettingIs DEF Joins, LastSetting
<1>10. Len(CodecProbe) = LastSetting + Regs
  BY <1>3, <1>8, <1>9 DEF Joins
<1>11. \A r \in 1 .. Regs : CodecProbe[r + LastSetting] = dump[r]
  BY <1>3, <1>8, <1>9 DEF Joins
<1>12. \A k \in 1 .. LastSetting : CodecProbe[k] = settings[k]
  BY <1>8, <1>9 DEF Joins
<1>13. 1 \in 1 .. LastSetting /\ \A k \in 1 .. Len(Settings) : k + 1 \in 1 .. LastSetting
  BY SettingIs DEF LastSetting
<1> QED BY <1>1, <1>5, <1>6, <1>8, <1>9, <1>10, <1>11, <1>12, <1>13

LEMMA ShadowTestIs ==
  /\ ShadowTest \in Seq(Accesses) /\ Len(ShadowTest) \in Nat
  /\ \A k \in 1 .. Len(ShadowTest) : ShadowTest[k].op \in {"write", "show"}
<1> DEFINE Quiet == {x \in Accesses : x.op \in {"write", "show"}}
<1>1. \A op \in {"write", "show"}, reg \in {0, 1} : Access(op, reg) \in Seq(Quiet)
  <2> SUFFICES ASSUME NEW op \in {"write", "show"}, NEW reg \in {0, 1}
               PROVE  Access(op, reg) \in Seq(Quiet)
    OBVIOUS
  <2>1. [op |-> op, reg |-> reg] \in Quiet
    BY RegsAtLeast DEF Accesses
  <2> HIDE DEF Quiet
  <2> QED BY <2>1 DEF Access
<1>2. Quiet \subseteq Accesses
  OBVIOUS
<1>3. \A x \in Quiet : x.op \in {"write", "show"}
  OBVIOUS
<1> HIDE DEF Quiet
<1>4. \A s, t \in Seq(Quiet) : s \o t \in Seq(Quiet)
  BY ConcatProperties
<1> DEFINE w0 == Access("write", 0)
           w1 == Access("write", 1)
           s1 == Access("show", 1)
<1>5. w0 \in Seq(Quiet) /\ w1 \in Seq(Quiet) /\ s1 \in Seq(Quiet)
  BY <1>1
<1>6. ShadowTest = ((((w0 \o s1) \o w1) \o w1) \o s1) \o s1
  BY DEF ShadowTest
<1> HIDE DEF w0, w1, s1
<1>7. w0 \o s1 \in Seq(Quiet)
  BY <1>4, <1>5
<1>8. (w0 \o s1) \o w1 \in Seq(Quiet)
  BY <1>4, <1>5, <1>7
<1>9. ((w0 \o s1) \o w1) \o w1 \in Seq(Quiet)
  BY <1>4, <1>5, <1>8
<1>10. (((w0 \o s1) \o w1) \o w1) \o s1 \in Seq(Quiet)
  BY <1>4, <1>5, <1>9
<1>11. ShadowTest \in Seq(Quiet)
  BY <1>4, <1>5, <1>6, <1>10
<1>12. \A k \in 1 .. Len(ShadowTest) : ShadowTest[k] \in Quiet
  BY <1>11, ElementOfSeq
<1> QED BY <1>2, <1>3, <1>11, <1>12, SeqMonotonic

(* The access at a place.                                                  *)
AtPlace(p, a) ==
  /\ a \in Accesses
  /\ p < 1 => a.op \in {"write", "show"}
  /\ p = 1 => a.op = "write" /\ a.reg = 0
  /\ p > 1 /\ p <= LastSetting =>
       /\ a.op = Settings[p - 1][1] /\ a.op \in {"write", "modify"}
       /\ a.reg = Settings[p - 1][2] /\ a.reg # 0
  /\ p > LastSetting => a.op = "dump" /\ a.reg = p - LastSetting - 1

LEMMA ProbePlaces ==
  ASSUME NEW p \in 1 .. Len(CodecProbe)
  PROVE  AtPlace(p, CodecProbe[p])
<1>0. LastSetting \in Nat /\ LastSetting > 0 /\ Len(Settings) \in Nat /\ Regs \in Nat
  BY SettingIs, RegsAtLeast DEF LastSetting
<1>1. CodecProbe[p] \in Accesses
  BY CodecProbeIs, ElementOfSeq
<1>2. p > 1 /\ p <= LastSetting =>
        CodecProbe[p] = [op |-> Settings[p - 1][1], reg |-> Settings[p - 1][2]]
        /\ p - 1 \in 1 .. Len(Settings)
  <2>1. p > 1 /\ p <= LastSetting => p - 1 \in 1 .. Len(Settings) /\ (p - 1) + 1 = p
    BY <1>0 DEF LastSetting
  <2> QED BY <2>1, CodecProbeIs
<1>3. p > LastSetting => CodecProbe[p] = [op |-> "dump", reg |-> p - LastSetting - 1]
  <2>1. p > LastSetting => p - LastSetting \in 1 .. Regs /\ (p - LastSetting) + LastSetting = p
    BY <1>0, CodecProbeIs
  <2> QED BY <2>1, CodecProbeIs
<1> QED BY <1>0, <1>1, <1>2, <1>3, CodecProbeIs, SettingIs DEF AtPlace

LEMMA PlacesOf ==
  ASSUME NEW acc \in {CodecProbe, ShadowTest \o CodecProbe},
         NEW k \in Nat, k > 0, k <= Len(acc),
         NEW p, p = k - (Len(acc) - Len(CodecProbe))
  PROVE  Len(acc) \in Nat /\ p \in Int /\ (k = 1 => p <= 1) /\ AtPlace(p, acc[k])
<1>0. LastSetting \in Nat /\ LastSetting > 0 /\ Len(CodecProbe) = LastSetting + Regs /\ Regs \in Nat
  BY SettingIs, RegsAtLeast, CodecProbeIs DEF LastSetting
<1>2. CASE acc = CodecProbe
  <2>1. p = k
    BY <1>0, <1>2
  <2> QED BY <1>0, <1>2, <2>1, ProbePlaces
<1>3. CASE acc = ShadowTest \o CodecProbe
  <2>1. Joins(acc, ShadowTest, CodecProbe)
    BY <1>3, ShadowTestIs, CodecProbeIs, Joined
  <2>2. p = k - Len(ShadowTest) /\ Len(acc) = Len(ShadowTest) + Len(CodecProbe)
    BY <1>0, <2>1, ShadowTestIs DEF Joins
  <2>3. CASE p < 1
    <3>1. k \in 1 .. Len(ShadowTest)
      BY <2>2, <2>3, ShadowTestIs
    <3>2. acc[k].op \in {"write", "show"} /\ acc[k] \in Accesses
      <4>1. acc[k] = ShadowTest[k]
        BY <2>1, <3>1 DEF Joins
      <4> QED BY <3>1, <4>1, ShadowTestIs, ElementOfSeq
    <3>3. AtPlace(p, acc[k])
      BY <1>0, <2>3, <3>2 DEF AtPlace
    <3>4. Len(acc) \in Nat /\ p \in Int /\ (k = 1 => p <= 1)
      BY <1>0, <2>2, <2>3, ShadowTestIs
    <3> QED BY <3>3, <3>4
  <2>4. CASE p >= 1
    <3>1. p \in 1 .. Len(CodecProbe) /\ p + Len(ShadowTest) = k
      BY <1>0, <2>2, <2>4, ShadowTestIs
    <3>2. acc[k] = CodecProbe[p]
      <4>1. acc[p + Len(ShadowTest)] = CodecProbe[p]
        BY <2>1, <3>1 DEF Joins
      <4> QED BY <3>1, <4>1
    <3>3. AtPlace(p, acc[k])
      BY <3>1, <3>2, ProbePlaces
    <3>4. Len(acc) \in Nat /\ p \in Int /\ (k = 1 => p <= 1)
      BY <1>0, <2>2, ShadowTestIs
    <3> QED BY <3>3, <3>4
  <2>5. p \in Int
    BY <2>2, ShadowTestIs, <1>0
  <2> QED BY <2>3, <2>4, <2>5
<1> QED BY <1>2, <1>3

LEMMA ProgramSizes ==
  /\ LastSetting \in Nat /\ LastSetting > 0 /\ Len(Settings) = LastSetting - 1
  /\ Len(CodecProbe) = LastSetting + Regs /\ Len(CodecProbe) \in Nat
  /\ Regs \in Nat /\ Regs > 1
  BY SettingIs, RegsAtLeast, CodecProbeIs DEF LastSetting

LEMMA AccessPlaces ==
  ASSUME Program, Accessing
  PROVE  /\ Place \in Int /\ Place <= Len(CodecProbe)
         /\ Len(accesses) \in Nat
         /\ Len(accesses) - step = Len(CodecProbe) - Place
         /\ step = 1 => Place <= 1
         /\ AtPlace(Place, Acc)
         /\ Acc.op = "dump" <=> Dumping
         /\ Acc.reg \in Registers
<1>1. step \in Nat /\ step > 0 /\ step <= Len(accesses)
  BY DEF Program
<1>2. accesses \in {CodecProbe, ShadowTest \o CodecProbe}
  BY DEF Program
<1>3. /\ Len(accesses) \in Nat /\ Place \in Int /\ (step = 1 => Place <= 1)
      /\ AtPlace(Place, Acc)
  BY <1>1, <1>2, PlacesOf DEF Place, Acc
<1>4. Len(accesses) - step = Len(CodecProbe) - Place /\ Place <= Len(CodecProbe)
  BY <1>1, <1>3, ProgramSizes DEF Place
<1>5. Acc \in Accesses
  BY <1>3 DEF AtPlace
<1>6. Acc.op = "dump" <=> Dumping
  BY <1>3, ProgramSizes DEF AtPlace, Dumping
<1>7. Acc.reg \in Registers
  BY <1>5 DEF Accesses
<1> QED BY <1>3, <1>4, <1>6, <1>7

-----------------------------------------------------------------------------
(* What the end of an access does.                                         *)
Ahead(k) ==
  /\ step' = step + k /\ Place' = Place + k
  /\ accesses' = accesses

LEMMA FinishIs ==
  ASSUME Program, Accessing, NEW val, Finish(val), UNCHANGED accesses
  PROVE  /\ Fetches => /\ Ahead(0) /\ Acc' = Acc /\ fetched' /\ regs' = regs /\ kept' = val
                       /\ pc' = "before" /\ ~Dumping /\ Place > 1
         /\ ~Fetches => /\ Ahead(1) /\ ~fetched' /\ kept' = kept
                        /\ regs' = IF Dumping THEN Append(regs, val) ELSE regs
                        /\ pc' = IF Place = Len(CodecProbe) THEN "save" ELSE "before"
         /\ fetched' \in BOOLEAN
<1>1. step \in Nat /\ step > 0 /\ step <= Len(accesses) /\ Len(accesses) \in Nat
  BY AccessPlaces DEF Program
<1>2. CASE Fetches
  <2>1. Acc.op = "modify" /\ ~Dumping
    BY <1>2, AccessPlaces DEF Fetches
  <2>2. Place > 1
    BY <2>1, AccessPlaces DEF AtPlace
  <2>3. step' = step /\ fetched' = TRUE /\ kept' = val
    BY <1>2 DEF Finish
  <2>4. regs' = regs
    BY <2>1 DEF Finish
  <2>5. pc' = "before"
    BY <1>1, <2>3 DEF Finish
  <2>6. Place' = Place + 0 /\ step' = step + 0 /\ Acc' = Acc
    BY <1>1, <2>3, AccessPlaces DEF Place, Acc
  <2> QED BY <1>2, <2>1, <2>2, <2>3, <2>4, <2>5, <2>6 DEF Ahead
<1>3. CASE ~Fetches
  <2>1. step' = step + 1 /\ fetched' = FALSE /\ kept' = kept
    BY <1>3 DEF Finish
  <2>2. regs' = IF Dumping THEN Append(regs, val) ELSE regs
    BY AccessPlaces DEF Finish
  <2>3. pc' = IF Place = Len(CodecProbe) THEN "save" ELSE "before"
    <3>1. step + 1 > Len(accesses) <=> Place = Len(CodecProbe)
      BY <1>1, AccessPlaces, ProgramSizes
    <3> QED BY <2>1, <3>1 DEF Finish
  <2>4. Place' = Place + 1
    BY <1>1, <2>1, AccessPlaces, ProgramSizes DEF Place
  <2> QED BY <1>3, <2>1, <2>2, <2>3, <2>4 DEF Ahead
<1> QED BY <1>2, <1>3

LEMMA FinishKeeps ==
  ASSUME Program, CodecTypes, Accessing, NEW val \in Values, Finish(val), UNCHANGED accesses,
         marks' \subseteq IF Dumping THEN 0 .. Acc.reg + 1 ELSE {0}
  PROVE  /\ Program'
         /\ regs' \in Seq(Values) /\ Len(regs') <= Regs /\ kept' \in Values
<1>0. /\ Place \in Int /\ Place <= Len(CodecProbe) /\ Len(accesses) \in Nat
      /\ AtPlace(Place, Acc) /\ Acc.reg \in Registers /\ Acc.reg \in Nat /\ Acc.reg < Regs
      /\ Len(accesses) - step = Len(CodecProbe) - Place
      /\ step \in Nat /\ step > 0 /\ step <= Len(accesses)
      /\ accesses \in {CodecProbe, ShadowTest \o CodecProbe}
  BY AccessPlaces, RegsAtLeast DEF Program, Registers
<1>1. regs \in Seq(Values) /\ Len(regs) \in Nat /\ Len(regs) <= Regs
  BY DEF CodecTypes
<1>2. CASE Fetches
  <2>1. /\ Ahead(0) /\ Acc' = Acc /\ regs' = regs /\ kept' = val /\ fetched' \in BOOLEAN
        /\ pc' = "before" /\ ~Dumping /\ Acc.op = "modify"
    BY <1>2, FinishIs DEF Fetches
  <2>2. step' = step /\ Place' = Place
    BY <1>0, <2>1 DEF Ahead
  <2>3. ~Dumping'
    BY <2>1, <2>2 DEF Dumping, LastSetting
  <2>4. regs = <<>> /\ marks' \subseteq {0}
    BY <2>1 DEF Program
  <2> QED BY <1>0, <1>1, <2>1, <2>2, <2>3, <2>4 DEF Program, Ahead, Accessing
<1>3. CASE ~Fetches
  <2>1. /\ Ahead(1) /\ ~fetched' /\ fetched' \in BOOLEAN /\ kept' = kept
        /\ regs' = IF Dumping THEN Append(regs, val) ELSE regs
        /\ pc' = IF Place = Len(CodecProbe) THEN "save" ELSE "before"
    BY <1>3, FinishIs
  <2>2. Dumping => Len(regs) = Acc.reg
    BY DEF Program
  <2>3. regs' \in Seq(Values) /\ Len(regs') <= Regs /\ kept' \in Values
    <3>1. CASE Dumping
      <4>1. regs' = Append(regs, val)
        BY <2>1, <3>1
      <4>2. regs' \in Seq(Values) /\ Len(regs') = Len(regs) + 1
        BY <1>1, <4>1, AppendProperties
      <4>3. Len(regs') <= Regs
        BY <1>0, <1>1, <2>2, <3>1, <4>2, RegsAtLeast
      <4> QED BY <2>1, <4>2, <4>3 DEF CodecTypes
    <3>2. CASE ~Dumping
      BY <1>1, <2>1, <3>2 DEF CodecTypes
    <3> QED BY <3>1, <3>2
  <2>4. CASE pc' = "save"
    <3>1. step' \in Nat /\ step' > 0
      BY <1>0, <2>1 DEF Ahead
    <3> QED BY <2>1, <2>3, <2>4, <3>1 DEF Program, Accessing
  <2>5. CASE pc' = "before"
    <3>1. /\ step' = step + 1 /\ step' \in Nat /\ step' > 0 /\ accesses' = accesses
          /\ Place' = Place + 1
      BY <1>0, <2>1 DEF Ahead
    <3>2. Place # Len(CodecProbe)
      BY <2>1, <2>5
    <3>3. step + 1 <= Len(accesses)
      BY <1>0, <3>2, ProgramSizes
    <3>4. AtPlace(Place + 1, accesses[step + 1])
      <4>1. Place + 1 = (step + 1) - (Len(accesses) - Len(CodecProbe))
        BY <1>0, ProgramSizes
      <4>2. step + 1 \in Nat /\ step + 1 > 0
        BY <1>0
      <4> QED BY <1>0, <3>3, <4>1, <4>2, PlacesOf
    <3>5. Acc' = accesses[step + 1]
      BY <3>1 DEF Acc
    <3>6. Dumping' <=> Place + 1 > LastSetting
      BY <3>1 DEF Dumping, LastSetting
    <3>7. IF Dumping' THEN Len(regs') = Acc'.reg /\ marks' \subseteq 0 .. Acc'.reg + 1
                      ELSE regs' = <<>> /\ marks' \subseteq {0}
      <4>1. CASE Dumping
        <5>1. Dumping' /\ Acc.reg = Place - LastSetting - 1 /\ Acc'.reg = Place - LastSetting
          BY <1>0, <3>4, <3>5, <3>6, <4>1, ProgramSizes DEF Dumping, AtPlace
        <5>2. Len(regs') = Len(regs) + 1
          BY <1>1, <2>1, <4>1, AppendProperties
        <5>3. Len(regs') = Acc'.reg
          BY <1>0, <2>2, <4>1, <5>1, <5>2, ProgramSizes
        <5>4. 0 .. Acc.reg + 1 \subseteq 0 .. Acc'.reg + 1
          BY <1>0, <5>1, ProgramSizes
        <5> QED BY <4>1, <5>1, <5>3, <5>4
      <4>2. CASE ~Dumping /\ Dumping'
        <5>1. Place = LastSetting /\ Acc'.reg = 0
          BY <1>0, <3>4, <3>5, <3>6, <4>2, ProgramSizes DEF Dumping, AtPlace
        <5>2. regs' = <<>>
          BY <2>1, <4>2 DEF Program
        <5> QED BY <4>2, <5>1, <5>2
      <4>3. CASE ~Dumping /\ ~Dumping'
        BY <2>1, <4>3 DEF Program
      <4> QED BY <4>1, <4>2, <4>3
    <3> QED BY <1>0, <2>1, <2>3, <2>5, <3>1, <3>3, <3>7 DEF Program, Accessing
  <2> QED BY <2>1, <2>4, <2>5
<1> QED BY <1>2, <1>3

-----------------------------------------------------------------------------
(* The values are of their types.                                          *)
LEMMA ValueTypes ==
  /\ Garbage \in Values
  /\ Reset \in [Registers -> Values] /\ Used \in [Registers -> Values]
  /\ NoCmd \in [op : {"none", "settle", "read", "write"}, reg : Registers, val : Values]
<1>1. \A r \in 0 .. Regs, b \in BOOLEAN : [of |-> r, set |-> b] \in Values
  BY DEF Values
<1>2. Regs \in 0 .. Regs /\ Registers \subseteq 0 .. Regs
  BY RegsAtLeast DEF Registers
<1>3. Garbage \in Values
  BY <1>1, <1>2 DEF Garbage
<1>4. Reset \in [Registers -> Values] /\ Used \in [Registers -> Values]
  BY <1>1, <1>2 DEF Reset, Used, Registers
<1> QED BY <1>3, <1>4, RegsAtLeast DEF NoCmd

LEMMA WrittenTypes ==
  ASSUME Program, CodecTypes
  PROVE  /\ Accessing => Value \in Values
         /\ \A reg \in Registers, val \in Values : Taken(reg, val) \in [Registers -> Values]
<1>1. Accessing => Value \in Values
  <2> SUFFICES ASSUME Accessing PROVE Value \in Values
    OBVIOUS
  <2>1. Acc.reg \in 0 .. Regs /\ kept.of \in 0 .. Regs
    BY AccessPlaces, RegsAtLeast DEF CodecTypes, Registers, Values
  <2> QED BY <2>1 DEF Value, Values
<1>2. ASSUME NEW reg \in Registers, NEW val \in Values
      PROVE  Taken(reg, val) \in [Registers -> Values]
  BY ValueTypes DEF Taken, CodecTypes
<1> QED BY <1>1, <1>2

(* Steps that leave the accesses where they are.                           *)
LEMMA SameProgram ==
  ASSUME Program, UNCHANGED <<accesses, step, fetched, regs, marks>>,
         Accessing' => Accessing,
         pc' \in {"main", "wake", "alt", "probe"} =>
           pc \in {"main", "wake", "alt", "probe"} /\ UNCHANGED <<cmd, late>>
  PROVE  Program'
<1>1. Place' = Place /\ Acc' = Acc
  BY DEF Place, Acc
<1>2. Dumping' <=> Dumping
  BY <1>1 DEF Dumping, LastSetting
<1> QED BY <1>1, <1>2 DEF Program, NoCmd, Garbage

LEMMA ProbeStarts ==
  ASSUME Program, Probe
  PROVE  /\ accesses' \in {CodecProbe, ShadowTest \o CodecProbe}
         /\ 1 <= Len(accesses') /\ Len(accesses') \in Nat
         /\ Place' <= 1 /\ Place' \in Int
<1>1. accesses' \in {CodecProbe, ShadowTest \o CodecProbe} /\ step' = 1
  <2>1. <<>> \o CodecProbe = CodecProbe
    BY CodecProbeIs, ConcatEmptySeq
  <2> QED BY <2>1 DEF Probe, Program
<1>2. 1 <= Len(accesses') /\ Len(accesses') \in Nat
  <2>1. Len(CodecProbe) >= 1 /\ Len(CodecProbe) \in Nat
    BY ProgramSizes
  <2>2. Len(ShadowTest \o CodecProbe) = Len(ShadowTest) + Len(CodecProbe)
    BY ShadowTestIs, CodecProbeIs, ConcatProperties
  <2> QED BY <1>1, <2>1, <2>2, ShadowTestIs
<1>3. Place' <= 1 /\ Place' \in Int
  <2>1. Place' = 1 - (Len(accesses') - Len(CodecProbe))
    BY <1>1 DEF Place
  <2>2. 1 \in Nat /\ 1 > 0
    OBVIOUS
  <2> QED BY <1>1, <1>2, <2>1, <2>2, PlacesOf
<1> QED BY <1>1, <1>2, <1>3

LEMMA NextProgram == Program /\ CodecTypes /\ [Next]_vars => Program' /\ CodecTypes'
<1> SUFFICES ASSUME Program, CodecTypes, [Next]_vars PROVE Program' /\ CodecTypes'
  OBVIOUS
<1>1. CASE MainRange \/ AltRange \/ Wake
  <2>1. /\ pc \in {"main", "alt", "wake"} /\ pc' \in {"alt", "wake", "probe", "next"}
        /\ UNCHANGED <<probing, controller>>
    BY <1>1 DEF MainRange, AltRange, Wake
  <2>2. Program'
    BY <2>1, SameProgram DEF probing, controller, Accessing
  <2> QED BY <2>1, <2>2 DEF CodecTypes, probing, controller
<1>2. CASE Probe
  <2>1. /\ pc = "probe" /\ pc' = "before"
        /\ UNCHANGED <<step, fetched, kept, regs, marks, codec, cmd, late, data, valid>>
    BY <1>2 DEF Probe, controller
  <2>3. step = 1 /\ regs = <<>> /\ marks = {} /\ ~fetched /\ fetched \in BOOLEAN
    BY <2>1 DEF Program
  <2>4. /\ accesses' \in {CodecProbe, ShadowTest \o CodecProbe}
        /\ 1 <= Len(accesses') /\ Len(accesses') \in Nat
        /\ Place' <= 1 /\ Place' \in Int
    BY <1>2, ProbeStarts
  <2>6. ~Dumping'
    BY <2>4, ProgramSizes DEF Dumping, LastSetting
  <2>7. Program'
    BY <2>1, <2>3, <2>4, <2>6 DEF Program, Accessing
  <2> QED BY <2>1, <2>7 DEF CodecTypes
<1>3. CASE WaitBefore
  <2>1. pc = "before" /\ pc' = "issue" /\ UNCHANGED <<probing, controller>>
    BY <1>3 DEF WaitBefore
  <2>2. Program'
    BY <2>1, SameProgram DEF probing, controller, Accessing
  <2> QED BY <2>1, <2>2 DEF CodecTypes, probing, controller
<1>4. CASE WaitAfter
  <2>1. /\ Accessing /\ Finish(data) /\ data \in Values
        /\ UNCHANGED <<accesses, marks, codec, cmd, late, data, valid>>
    BY <1>4 DEF WaitAfter, controller, Accessing, CodecTypes
  <2>2. marks' \subseteq IF Dumping THEN 0 .. Acc.reg + 1 ELSE {0}
    BY <2>1 DEF Program
  <2>3. Program' /\ regs' \in Seq(Values) /\ Len(regs') <= Regs /\ kept' \in Values
    BY <2>1, <2>2, FinishKeeps
  <2> QED BY <2>1, <2>3 DEF CodecTypes
<1>5. CASE GiveUp
  <2>1. /\ Accessing /\ UNCHANGED <<accesses, codec, cmd, late, data, valid>>
        /\ marks' = marks \cup {IF Dumping THEN Acc.reg + 1 ELSE 0}
    BY <1>5, AccessPlaces DEF GiveUp, controller, Accessing
  <2>2. marks' \subseteq IF Dumping THEN 0 .. Acc.reg + 1 ELSE {0}
    <3>1. Acc.reg \in Nat
      BY <2>1, AccessPlaces, RegsAtLeast DEF Registers
    <3> QED BY <2>1, <3>1 DEF Program
  <2>3. marks' \subseteq 0 .. Regs
    <3>1. 0 .. Acc.reg + 1 \subseteq 0 .. Regs /\ 0 \in 0 .. Regs
      BY <2>1, AccessPlaces, RegsAtLeast DEF Registers
    <3> QED BY <2>2, <3>1
  <2>4. CASE pc = "before"
    <3>1. pc' = "issue" /\ UNCHANGED <<step, fetched, kept, regs>>
      BY <1>5, <2>4 DEF GiveUp
    <3>2. Place' = Place /\ Acc' = Acc
      BY <2>1, <3>1 DEF Place, Acc
    <3>3. Dumping' <=> Dumping
      BY <3>2 DEF Dumping, LastSetting
    <3>4. Program'
      BY <2>1, <2>2, <3>1, <3>2, <3>3 DEF Program, Accessing
    <3> QED BY <2>1, <2>3, <3>1, <3>4 DEF CodecTypes
  <2>5. CASE pc = "after"
    <3>1. PICK val \in Values : Finish(val)
      BY <1>5, <2>5, ValueTypes DEF GiveUp, CodecTypes
    <3>2. Program' /\ regs' \in Seq(Values) /\ Len(regs') <= Regs /\ kept' \in Values
      BY <2>1, <2>2, <3>1, FinishKeeps
    <3> QED BY <2>1, <2>3, <3>2 DEF CodecTypes
  <2> QED BY <1>5, <2>4, <2>5 DEF GiveUp
<1>6. CASE Command
  <2>1. /\ pc = "issue" /\ pc' = "after" /\ UNCHANGED <<probing, codec, late, data>>
        /\ valid' \in BOOLEAN
    BY <1>6 DEF Command, CodecTypes
  <2>2. Program'
    BY <2>1, SameProgram DEF probing, Accessing
  <2>3. cmd' \in [op : {"none", "settle", "read", "write"}, reg : Registers, val : Values]
    <3>1. Acc.reg \in Registers /\ Value \in Values /\ Garbage \in Values
      BY <2>1, AccessPlaces, WrittenTypes, ValueTypes DEF Accessing
    <3> HIDE DEF Value, Garbage
    <3> QED BY <1>6, <3>1 DEF Command, CodecTypes
  <2> QED BY <2>1, <2>2, <2>3 DEF CodecTypes, probing
<1>7. CASE Port
  <2>1. /\ Accessing /\ UNCHANGED <<accesses, marks, late, data, valid>>
    BY <1>7 DEF Port, Accessing
  <2>2. Acc.reg \in Registers /\ Value \in Values /\ codec[Acc.reg] \in Values
    BY <2>1, AccessPlaces, WrittenTypes DEF CodecTypes
  <2>3. PICK val \in Values : Finish(val)
    BY <1>7, <2>2, ValueTypes DEF Port
  <2>4. marks' \subseteq IF Dumping THEN 0 .. Acc.reg + 1 ELSE {0}
    BY <2>1 DEF Program
  <2>5. Program' /\ regs' \in Seq(Values) /\ Len(regs') <= Regs /\ kept' \in Values
    BY <2>1, <2>3, <2>4, FinishKeeps
  <2>6. codec' \in [Registers -> Values]
    <3>1. Taken(Acc.reg, Value) \in [Registers -> Values]
      BY <2>2, WrittenTypes
    <3>2. codec' \in {Taken(Acc.reg, Value), codec}
      BY <1>7 DEF Port
    <3> QED BY <3>1, <3>2 DEF CodecTypes
  <2>7. cmd' \in [op : {"none", "settle", "read", "write"}, reg : Registers, val : Values]
    <3>1. [NoCmd EXCEPT !.op = "settle"] = [op |-> "settle", reg |-> 0, val |-> Garbage]
      BY DEF NoCmd
    <3> QED BY <1>7, <3>1, ValueTypes, RegsAtLeast DEF Port, CodecTypes
  <2> QED BY <2>1, <2>5, <2>6, <2>7 DEF CodecTypes
<1>8. CASE Done
  <2>1. /\ cmd # NoCmd /\ cmd' = NoCmd /\ UNCHANGED <<pc, probing, valid>>
        /\ codec' = IF cmd.op = "write" THEN Taken(cmd.reg, cmd.val) ELSE codec
        /\ data' \in {data, codec[cmd.reg]} /\ late' \in {late, cmd.reg}
    BY <1>8 DEF Done
  <2>2. Program'
    BY <2>1, SameProgram DEF probing, Accessing, Program
  <2>3. cmd.reg \in Registers /\ cmd.val \in Values /\ Registers \subseteq 0 .. Regs
    BY RegsAtLeast DEF CodecTypes, Registers
  <2>4. codec' \in [Registers -> Values]
    BY <2>1, <2>3, WrittenTypes DEF CodecTypes
  <2>5. data' \in Values /\ late' \in 0 .. Regs
    BY <2>1, <2>3 DEF CodecTypes
  <2> QED BY <2>1, <2>2, <2>4, <2>5, ValueTypes DEF CodecTypes, probing
<1>9. CASE Answer
  <2>1. /\ late # Regs /\ late' = Regs /\ data' = codec[late] /\ valid' = TRUE
        /\ UNCHANGED <<pc, probing, codec, cmd>>
    BY <1>9 DEF Answer
  <2>2. Program'
    BY <2>1, SameProgram DEF probing, Accessing, Program
  <2>3. data' \in Values /\ late' \in 0 .. Regs
    BY <2>1, RegsAtLeast DEF CodecTypes, Registers
  <2> QED BY <2>1, <2>2, <2>3 DEF CodecTypes, probing
<1>10. CASE Save \/ ScanEnds
  <2>1. pc' \in {"next", "done"} /\ UNCHANGED <<probing, controller>>
    BY <1>10 DEF Save, ScanEnds
  <2>2. Program'
    BY <2>1, SameProgram DEF probing, controller, Accessing
  <2> QED BY <2>1, <2>2 DEF CodecTypes, probing, controller
<1>11. CASE NextDevice
  <2>1. /\ pc' = "main" /\ step' = 1 /\ fetched' = FALSE /\ kept' = Garbage
        /\ regs' = <<>> /\ marks' = {} /\ codec' = Used /\ cmd' = NoCmd
        /\ late' = Regs /\ data' = Garbage /\ valid' = TRUE
    BY <1>11 DEF NextDevice
  <2>2. Program'
    <3>1. ~Accessing' /\ fetched' \in BOOLEAN /\ step' \in Nat /\ step' > 0
      <4>1. ~Accessing'
        BY <2>1 DEF Accessing
      <4>2. fetched' \in BOOLEAN
        BY <2>1
      <4>3. step' \in Nat /\ step' > 0
        BY <2>1
      <4> QED BY <4>1, <4>2, <4>3
    <3>2. /\ step' = 1 /\ ~fetched' /\ regs' = <<>> /\ marks' = {}
          /\ cmd' = NoCmd /\ late' = Regs
      BY <2>1
    <3> QED BY ONLY <3>1, <3>2 DEF Program
  <2> QED BY <2>1, <2>2, ValueTypes, RegsAtLeast, EmptySeq DEF CodecTypes
<1>12. CASE UNCHANGED vars
  <2>1. UNCHANGED <<pc, probing, controller>>
    BY <1>12 DEF vars
  <2>2. Program'
    BY <2>1, SameProgram DEF probing, controller, Accessing
  <2> QED BY <2>1, <2>2 DEF CodecTypes, probing, controller
<1> QED
  BY <1>1, <1>2, <1>3, <1>4, <1>5, <1>6, <1>7, <1>8, <1>9, <1>10, <1>11, <1>12
  DEF Next, Tool, Ended

-----------------------------------------------------------------------------
(* The registers after one more setting.                                   *)
LEMMA LeftIs ==
  /\ Left(0) = Reset
  /\ \A k \in 1 .. Len(Settings) :
       Left(k) = [Left(k - 1) EXCEPT ![Settings[k][2]] = [of |-> Settings[k][2], set |-> TRUE]]
  /\ \A k \in Nat, r \in Registers : Left(k)[r].of = r
  /\ \A r \in Registers : Left(Len(Settings))[r] = Expected(r)
<1>1. Left(0) = Reset
  <2>1. 1 .. 0 = {}
    OBVIOUS
  <2>2. \A r \in Registers : (\E i \in 1 .. 0 : Settings[i][2] = r) = FALSE
    BY <2>1
  <2> QED BY <2>2 DEF Left, Reset, Registers
<1>2. ASSUME NEW k \in 1 .. Len(Settings)
      PROVE  Left(k) = [Left(k - 1) EXCEPT ![Settings[k][2]] = [of |-> Settings[k][2], set |-> TRUE]]
  <2>1. Settings[k][2] \in Registers /\ k \in Nat /\ k > 0
    BY SettingIs
  <2>2. 1 .. k = (1 .. k - 1) \cup {k}
    BY <2>1
  <2>3. \A r \in Registers :
          (\E i \in 1 .. k : Settings[i][2] = r) <=>
            (Settings[k][2] = r \/ \E i \in 1 .. k - 1 : Settings[i][2] = r)
    BY <2>2
  <2>4. \A r \in Registers : Left(k)[r] =
          IF r = Settings[k][2] THEN [of |-> r, set |-> TRUE] ELSE Left(k - 1)[r]
    <3> SUFFICES ASSUME NEW r \in Registers
                 PROVE  Left(k)[r] =
                          IF r = Settings[k][2] THEN [of |-> r, set |-> TRUE] ELSE Left(k - 1)[r]
      OBVIOUS
    <3>1. Left(k)[r] = [of |-> r, set |-> \E i \in 1 .. k : Settings[i][2] = r]
      BY DEF Left, Registers
    <3>2. Left(k - 1)[r] = [of |-> r, set |-> \E i \in 1 .. k - 1 : Settings[i][2] = r]
      BY DEF Left, Registers
    <3>3. CASE r = Settings[k][2]
      <4>1. (\E i \in 1 .. k : Settings[i][2] = r) = TRUE
        BY <2>3, <3>3
      <4> QED BY <3>1, <3>3, <4>1
    <3>4. CASE r # Settings[k][2]
      <4>1. (\E i \in 1 .. k : Settings[i][2] = r) = (\E i \in 1 .. k - 1 : Settings[i][2] = r)
        BY <2>3, <3>4
      <4> QED BY <3>1, <3>2, <3>4, <4>1
    <3> QED BY <3>3, <3>4
  <2>5. /\ Left(k) = [r \in Registers |-> Left(k)[r]]
        /\ Left(k - 1) = [r \in Registers |-> Left(k - 1)[r]]
    BY DEF Left, Registers
  <2> HIDE DEF Left
  <2> QED BY <2>1, <2>4, <2>5
<1>3. \A k \in Nat, r \in Registers : Left(k)[r].of = r
  BY DEF Left, Registers
<1>4. ASSUME NEW r \in Registers PROVE Left(Len(Settings))[r] = Expected(r)
  <2>1. DOMAIN Settings = 1 .. Len(Settings)
    BY Ac97Assumption
  <2> QED BY <2>1 DEF Left, Expected, Registers
<1> QED BY <1>1, <1>2, <1>3, <1>4

(* A write of the current access leaves the registers as they should be.   *)
LEMMA TakenLeft ==
  ASSUME Program, Accessing, Writes, AsBefore, Place > 0
  PROVE  Taken(Acc.reg, [of |-> Acc.reg, set |-> TRUE]) = Left(Place - 1)
<1>1. ~Dumping /\ Place \in Int /\ AtPlace(Place, Acc)
  BY AccessPlaces DEF Writes, Rewrites
<1>2. CASE Place = 1
  BY <1>1, <1>2, LeftIs DEF AtPlace, Taken
<1>3. CASE Place > 1
  <2>1. Place - 1 \in 1 .. Len(Settings) /\ (Place - 1) - 1 = Place - 2
    BY <1>1, <1>3, ProgramSizes DEF Dumping
  <2>2. Acc.reg = Settings[Place - 1][2] /\ Acc.reg # 0
    BY <1>1, <1>3, ProgramSizes DEF AtPlace, Dumping
  <2>3. codec = Left(Place - 2)
    BY <1>1, <1>3 DEF AsBefore
  <2> HIDE DEF Left
  <2> QED BY <2>1, <2>2, <2>3, LeftIs DEF Taken
<1> QED BY <1>1, <1>2, <1>3

(* The next access finds the codec as this one should leave it.            *)
LEMMA FinishInStep ==
  ASSUME Program, Accessing, NEW val, Finish(val), UNCHANGED <<found, accesses>>,
         Answering, late' = Regs, cmd' = NoCmd \/ cmd'.op = "settle",
         Writes /\ Place > 0 => codec' = Left(Place - 1),
         ~Writes /\ Place > 1 => codec' = Left(IF Dumping THEN Len(Settings) ELSE Place - 2),
         Fetches => val.of = Acc.reg
  PROVE  InStep'
<1>0. Place \in Int /\ AtPlace(Place, Acc) /\ (Acc.op = "dump" <=> Dumping)
  BY AccessPlaces
<1>1. Answering'
  BY DEF found, Answering, Device
<1>2. CASE Fetches
  <2>1. /\ Ahead(0) /\ Acc' = Acc /\ kept' = val /\ pc' = "before" /\ ~Dumping /\ Place > 1
    BY <1>2, FinishIs
  <2>2. Place' = Place /\ (Dumping' <=> Dumping)
    BY <1>0, <2>1 DEF Ahead, Dumping, LastSetting
  <2>3. ~Writes
    BY <1>2 DEF Fetches, Writes, Rewrites
  <2>4. codec' = Left(Place - 2)
    BY <2>1, <2>3
  <2>5. AsBefore'
    BY <2>1, <2>2, <2>4 DEF AsBefore, Left
  <2>6. NoCmd' = NoCmd
    BY DEF NoCmd, Garbage
  <2> QED BY <1>1, <1>2, <2>1, <2>5, <2>6 DEF InStep
<1>3. CASE ~Fetches
  <2>1. Ahead(1) /\ ~fetched' /\ pc' \in {"before", "save"}
    BY <1>3, FinishIs
  <2>2. Place' = Place + 1 /\ (Dumping' <=> Place + 1 > LastSetting)
    BY <2>1 DEF Ahead, Dumping, LastSetting
  <2>3. Place + 1 > 1 => codec' = Left(IF Place + 1 > LastSetting THEN Len(Settings) ELSE (Place + 1) - 2)
    <3> HIDE DEF Left
    <3>1. CASE Dumping
      <4>1. ~Writes /\ Place > 1
        BY <1>0, <3>1, ProgramSizes DEF Writes, Rewrites, Dumping
      <4>2. codec' = Left(Len(Settings))
        BY <3>1, <4>1
      <4>3. Place + 1 > LastSetting
        BY <1>0, <3>1, ProgramSizes DEF Dumping
      <4> QED BY <4>2, <4>3
    <3>2. CASE ~Dumping /\ Place > 0
      <4>1. Writes
        BY <1>0, <1>3, <3>2, ProgramSizes DEF AtPlace, Dumping, Writes, Rewrites, Fetches
      <4>2. codec' = Left(Place - 1)
        BY <3>2, <4>1
      <4>3. Place + 1 > LastSetting => Place - 1 = Len(Settings)
        BY <1>0, <3>2, ProgramSizes DEF Dumping
      <4>4. (Place + 1) - 2 = Place - 1
        BY <1>0
      <4> QED BY <4>2, <4>3, <4>4
    <3>3. CASE ~ (Place > 0)
      BY <1>0, <3>3
    <3> QED BY <3>1, <3>2, <3>3
  <2>4. AsBefore'
    BY <2>2, <2>3 DEF AsBefore, Left
  <2>5. NoCmd' = NoCmd
    BY DEF NoCmd, Garbage
  <2> QED BY <1>1, <2>1, <2>4, <2>5 DEF InStep, Accessing
<1> QED BY <1>2, <1>3

LEMMA Ops ==
  /\ NoCmd.op = "none" /\ Writing.op = "write" /\ [NoCmd EXCEPT !.op = "settle"].op = "settle"
  /\ NoCmd' = NoCmd
  BY DEF NoCmd, Writing, Garbage

(* The value written is the register's own.                                *)
LEMMA ValueIs ==
  ASSUME fetched => kept.of = Acc.reg
  PROVE  Value = [of |-> Acc.reg, set |-> TRUE]
  BY DEF Value, Rewrites

(* Steps that leave the current access where it is.                        *)
LEMMA SamePlace ==
  ASSUME UNCHANGED <<found, probing>>
  PROVE  /\ Place' = Place /\ Acc' = Acc /\ (Dumping' <=> Dumping)
         /\ (Writes' <=> Writes) /\ (Trusted' <=> Trusted) /\ (Answering' <=> Answering)
         /\ Kind' = Kind /\ Writing' = Writing
         /\ codec' = codec => (AsBefore' <=> AsBefore) /\ (AsAfter' <=> AsAfter)
<1>1. /\ UNCHANGED <<machine, n, accesses, step, fetched, kept, regs, marks>>
  BY DEF found, probing
<1>2. Place' = Place /\ Acc' = Acc
  BY <1>1 DEF Place, Acc
<1>3. Dumping' <=> Dumping
  BY <1>2 DEF Dumping, LastSetting
<1>4. Kind' = Kind /\ (Answering' <=> Answering)
  BY <1>1 DEF Kind, Answering, Device
<1>5. Writes' <=> Writes
  BY <1>1, <1>2 DEF Writes, Rewrites
<1>6. codec' = codec => (AsBefore' <=> AsBefore) /\ (AsAfter' <=> AsAfter)
  BY <1>2, <1>3 DEF AsBefore, AsAfter, Left
<1> QED BY <1>2, <1>3, <1>4, <1>5, <1>6 DEF Trusted, Writing

LEMMA NextInStep == Program /\ CodecTypes /\ InStep /\ [Next]_vars => InStep'
<1> SUFFICES ASSUME Program, CodecTypes, InStep, [Next]_vars PROVE InStep'
  OBVIOUS
<1> USE Ops
<1>1. CASE MainRange \/ AltRange \/ Wake \/ Save \/ ScanEnds \/ NextDevice
  <2>1. ~Accessing'
    BY <1>1 DEF MainRange, AltRange, Wake, Save, ScanEnds, NextDevice, Accessing
  <2> QED BY <2>1 DEF InStep
<1>2. CASE Probe
  <2>1. /\ pc = "probe" /\ pc' = "before" /\ UNCHANGED <<step, fetched, late, cmd>>
    BY <1>2 DEF Probe, controller
  <2>2. step' = 1 /\ ~fetched' /\ cmd' = NoCmd /\ late' = Regs
    BY <2>1 DEF Program
  <2>3. Place' <= 1 /\ Place' \in Int
    BY <1>2, ProbeStarts
  <2> QED BY <2>1, <2>2, <2>3 DEF InStep, AsBefore
<1>3. CASE WaitBefore
  <2>1. pc = "before" /\ pc' = "issue" /\ UNCHANGED <<found, probing, controller>> /\ Ready
    BY <1>3 DEF WaitBefore
  <2> SUFFICES ASSUME Trusted, marks = {} PROVE InStep'
    BY <2>1, SamePlace DEF InStep, probing
  <2>2. Answering /\ cmd = NoCmd
    BY <2>1 DEF Ready, Trusted
  <2>3. AsBefore /\ late = Regs /\ (fetched => kept.of = Acc.reg)
    BY <2>1, <2>2 DEF InStep, Accessing
  <2> QED BY <2>1, <2>2, <2>3, SamePlace DEF InStep, probing, controller
<1>4. CASE WaitAfter
  <2>1. /\ pc = "after" /\ Accessing /\ Ready /\ Finish(data)
        /\ UNCHANGED <<found, accesses, marks, codec, cmd, late>>
    BY <1>4 DEF WaitAfter, controller, Accessing
  <2>2. Trusted' <=> Trusted
    BY <2>1 DEF found, Trusted, Answering, Kind, Device
  <2> SUFFICES ASSUME Trusted, marks = {} PROVE InStep'
    BY <2>1, <2>2 DEF InStep
  <2>3. /\ Answering
        /\ Writes => late = Regs /\ ((cmd = Writing /\ AsBefore) \/ (cmd = NoCmd /\ AsAfter))
        /\ ~Writes => AsBefore /\ Reading
    BY <2>1 DEF InStep
  <2>4. cmd = NoCmd /\ (Kind \in Via /\ ~Writes => valid)
    BY <2>1, <2>3 DEF Ready
  <2>5. Writes => late = Regs /\ AsAfter
    BY <2>3, <2>4
  <2>6. ~Writes => AsBefore /\ late = Regs /\ data = codec[Acc.reg]
    BY <2>3, <2>4 DEF Reading
  <2>7. Fetches => data.of = Acc.reg
    <3> SUFFICES ASSUME Fetches PROVE data.of = Acc.reg
      OBVIOUS
    <3>1. ~Writes /\ Place > 1 /\ ~Dumping /\ Place \in Int /\ Acc.reg \in Registers
      BY <2>1, FinishIs, AccessPlaces DEF Fetches, Writes, Rewrites
    <3>2. codec = Left(Place - 2) /\ Place - 2 \in Nat
      BY <2>6, <3>1 DEF AsBefore
    <3> QED BY <2>6, <3>1, <3>2, LeftIs
  <2>8. late' = Regs /\ cmd' = NoCmd
    BY <2>1, <2>4, <2>5, <2>6
  <2>9. /\ Writes /\ Place > 0 => codec' = Left(Place - 1)
        /\ ~Writes /\ Place > 1 => codec' = Left(IF Dumping THEN Len(Settings) ELSE Place - 2)
    BY <2>1, <2>5, <2>6 DEF AsBefore, AsAfter
  <2> QED BY <2>1, <2>3, <2>7, <2>8, <2>9, FinishInStep
<1>5. CASE GiveUp
  <2>1. marks' # {}
    BY <1>5 DEF GiveUp
  <2> QED BY <2>1 DEF InStep
<1>6. CASE Command
  <2>1. /\ pc = "issue" /\ pc' = "after" /\ UNCHANGED <<found, probing, codec, late>>
    BY <1>6 DEF Command
  <2> SUFFICES ASSUME Trusted, marks = {} PROVE InStep'
    BY <2>1, SamePlace DEF InStep, probing
  <2>2. Answering /\ AsBefore /\ late = Regs /\ cmd = NoCmd /\ (fetched => kept.of = Acc.reg)
    BY <2>1 DEF InStep, Accessing
  <2>3. cmd' = [op |-> IF Writes THEN "write" ELSE "read",
                reg |-> Acc.reg, val |-> IF Writes THEN Value ELSE Garbage]
        /\ (Kind \in Via => ~valid')
    BY <1>6, <2>2 DEF Command
  <2>4. Writes => cmd' = Writing
    BY <2>2, <2>3, ValueIs DEF Writing
  <2>5. ~Writes => cmd'.op = "read" /\ cmd'.reg = Acc.reg
    BY <2>3
  <2>6. ~Writes => Reading'
    BY <2>1, <2>2, <2>3, <2>5, SamePlace DEF Reading
  <2>7. kept' = kept /\ fetched' = fetched
    BY <2>1 DEF probing
  <2> QED BY <2>1, <2>2, <2>4, <2>6, <2>7, SamePlace DEF InStep
<1>7. CASE Port
  <2>1. /\ pc = "issue" /\ Accessing
        /\ UNCHANGED <<found, accesses, marks, late>>
    BY <1>7 DEF Port, Accessing
  <2>2. Trusted' <=> Trusted
    BY <2>1 DEF found, Trusted, Answering, Kind, Device
  <2> SUFFICES ASSUME Trusted, marks = {} PROVE InStep'
    BY <2>1, <2>2 DEF InStep
  <2>3. Answering /\ AsBefore /\ late = Regs /\ cmd = NoCmd /\ (fetched => kept.of = Acc.reg)
    BY <2>1 DEF InStep
  <2>4. /\ codec' = IF Writes THEN Taken(Acc.reg, Value) ELSE codec
        /\ cmd' = [NoCmd EXCEPT !.op = "settle"] /\ Finish(codec[Acc.reg])
    BY <1>7, <2>3 DEF Port
  <2>5. Fetches => codec[Acc.reg].of = Acc.reg
    <3> SUFFICES ASSUME Fetches PROVE codec[Acc.reg].of = Acc.reg
      OBVIOUS
    <3>1. Place > 1 /\ ~Dumping /\ Place \in Int /\ Acc.reg \in Registers
      BY <2>1, <2>4, FinishIs, AccessPlaces
    <3>2. codec = Left(Place - 2) /\ Place - 2 \in Nat
      BY <2>3, <3>1 DEF AsBefore
    <3> QED BY <3>1, <3>2, LeftIs
  <2>6. Writes /\ Place > 0 => codec' = Left(Place - 1)
    BY <2>1, <2>3, <2>4, ValueIs, TakenLeft
  <2>7. ~Writes /\ Place > 1 => codec' = Left(IF Dumping THEN Len(Settings) ELSE Place - 2)
    BY <2>3, <2>4 DEF AsBefore
  <2>8. late' = Regs /\ cmd'.op = "settle"
    BY <2>1, <2>3, <2>4
  <2> QED BY <2>1, <2>3, <2>4, <2>5, <2>6, <2>7, <2>8, FinishInStep
<1>8. CASE Done
  <2>1. /\ cmd # NoCmd /\ cmd' = NoCmd /\ UNCHANGED <<found, pc, probing, valid>>
        /\ codec' = IF cmd.op = "write" THEN Taken(cmd.reg, cmd.val) ELSE codec
        /\ data' = IF cmd.op = "read" /\ Kind \notin Via THEN codec[cmd.reg] ELSE data
        /\ late' = IF cmd.op = "read" /\ Kind \in Via THEN cmd.reg ELSE late
    BY <1>8 DEF Done
  <2>2. UNCHANGED <<step, fetched, kept, marks>>
    BY <2>1 DEF probing
  <2> SUFFICES ASSUME Trusted, marks = {}, Accessing PROVE InStep'
    BY <2>1, <2>2, SamePlace DEF InStep, Accessing
  <2>3. CASE ~Answering
    BY <2>1, <2>2, <2>3, SamePlace DEF InStep
  <2>4. CASE Answering /\ pc = "before"
    <3>1. cmd.op = "settle" /\ AsBefore /\ late = Regs
      BY <2>1, <2>4 DEF InStep
    <3>2. codec' = codec /\ late' = Regs
      BY <2>1, <3>1
    <3> QED BY <2>1, <2>2, <2>4, <3>1, <3>2, SamePlace DEF InStep
  <2>5. CASE Answering /\ pc = "issue"
    BY <2>1, <2>5 DEF InStep
  <2>6. CASE Answering /\ pc = "after" /\ Writes
    <3>1. cmd = Writing /\ AsBefore /\ late = Regs
      BY <2>1, <2>6 DEF InStep
    <3>2. codec' = Taken(Acc.reg, [of |-> Acc.reg, set |-> TRUE]) /\ late' = Regs
      BY <2>1, <3>1 DEF Writing
    <3>3. Place > 0 => codec' = Left(Place - 1)
      BY <2>6, <3>1, <3>2, TakenLeft
    <3>4. AsAfter'
      BY <2>1, <3>3, SamePlace DEF AsAfter, Left
    <3> QED BY <2>1, <2>2, <2>6, <3>2, <3>4, SamePlace DEF InStep
  <2>7. CASE Answering /\ pc = "after" /\ ~Writes
    <3>1. AsBefore /\ cmd.op = "read" /\ cmd.reg = Acc.reg /\ late = Regs /\ (Kind \in Via => ~valid)
      BY <2>1, <2>7 DEF InStep, Reading
    <3>2. codec' = codec
      BY <2>1, <3>1
    <3>3. Reading'
      BY <2>1, <3>1, <3>2, SamePlace DEF Reading
    <3> QED BY <2>1, <2>2, <2>7, <3>1, <3>2, <3>3, SamePlace DEF InStep
  <2> QED BY <2>3, <2>4, <2>5, <2>6, <2>7 DEF Accessing
<1>9. CASE Answer
  <2>1. /\ late # Regs /\ late' = Regs /\ data' = codec[late] /\ valid' = TRUE
        /\ UNCHANGED <<found, pc, probing, codec, cmd>>
    BY <1>9 DEF Answer
  <2>2. UNCHANGED <<step, fetched, kept, marks>>
    BY <2>1 DEF probing
  <2> SUFFICES ASSUME Trusted, marks = {}, Accessing PROVE InStep'
    BY <2>1, <2>2, SamePlace DEF InStep, Accessing
  <2>3. CASE ~Answering
    BY <2>1, <2>2, <2>3, SamePlace DEF InStep
  <2>4. CASE Answering
    <3>1. pc = "after" /\ ~Writes /\ AsBefore /\ Reading /\ (fetched => kept.of = Acc.reg)
      BY <2>1, <2>4 DEF InStep, Accessing
    <3>2. cmd = NoCmd /\ late = Acc.reg
      BY <2>1, <3>1 DEF Reading
    <3>3. Reading'
      BY <2>1, <3>2, SamePlace DEF Reading
    <3> QED BY <2>1, <2>2, <2>4, <3>1, <3>3, SamePlace DEF InStep
  <2> QED BY <2>3, <2>4
<1>10. CASE UNCHANGED vars
  <2>1. UNCHANGED <<found, pc, probing, controller>>
    BY <1>10 DEF vars
  <2>2. UNCHANGED <<step, fetched, kept, marks, codec, cmd, late, data, valid>>
    BY <2>1 DEF probing, controller
  <2>3. Reading' <=> Reading
    BY <2>1, <2>2, SamePlace DEF Reading
  <2> QED BY <2>1, <2>2, <2>3, SamePlace DEF InStep, Accessing
<1> QED
  BY <1>1, <1>2, <1>3, <1>4, <1>5, <1>6, <1>7, <1>8, <1>9, <1>10 DEF Next, Tool, Ended

-----------------------------------------------------------------------------
(* A step that adds at most one register to the dump: one that is as the   *)
(* settings left it, if there is no [!] up to it.                          *)
LEMMA TrueStep ==
  ASSUME CodecTypes, TrueUntilMarked, NEW val \in Values, Trusted' => Trusted, marks \subseteq marks',
         regs' = regs \/ regs' = Append(regs, val),
         Trusted /\ (\A m \in marks' : m > Len(regs) + 1) => val = Expected(Len(regs))
  PROVE  TrueUntilMarked'
<1> SUFFICES ASSUME Trusted, NEW r \in DOMAIN regs', \A m \in marks' : m > r
             PROVE  regs'[r] = Expected(r - 1)
  BY DEF TrueUntilMarked, Expected
<1>1. regs \in Seq(Values) /\ Len(regs) \in Nat /\ DOMAIN regs = 1 .. Len(regs)
  BY DEF CodecTypes
<1>2. CASE r \in DOMAIN regs
  <2>1. regs'[r] = regs[r]
    BY <1>1, <1>2, AppendProperties
  <2> QED BY <1>2, <2>1 DEF TrueUntilMarked
<1>3. CASE r \notin DOMAIN regs
  <2>1. regs' = Append(regs, val)
    BY <1>3
  <2>2. r = Len(regs) + 1 /\ regs'[r] = val
    BY <1>1, <1>3, <2>1, AppendProperties
  <2>3. Len(regs) = r - 1
    BY <1>1, <2>2
  <2> QED BY <2>2, <2>3
<1> QED BY <1>2, <1>3

LEMMA NextTrue ==
  Program /\ CodecTypes /\ InStep /\ TrueUntilMarked /\ [Next]_vars => TrueUntilMarked'
<1> SUFFICES ASSUME Program, CodecTypes, InStep, TrueUntilMarked, [Next]_vars
             PROVE  TrueUntilMarked'
  OBVIOUS
<1>0. Garbage \in Values /\ data \in Values
  BY ValueTypes DEF CodecTypes
<1>1. CASE UNCHANGED <<machine, n, regs>> /\ marks \subseteq marks'
  <2>1. Trusted' <=> Trusted
    BY <1>1 DEF Trusted, Answering, Kind, Device
  <2> QED BY <1>1, <2>1 DEF TrueUntilMarked, Expected
<1>2. CASE NextDevice
  BY <1>2 DEF NextDevice, TrueUntilMarked
<1>3. ASSUME NEW val \in Values, Accessing, Finish(val), UNCHANGED <<found, accesses>>,
             marks \subseteq marks',
             marks' = {} /\ Trusted /\ Dumping => AsBefore /\ val = codec[Acc.reg],
             Dumping => marks' \subseteq 0 .. Acc.reg + 1
      PROVE  TrueUntilMarked'
  <2>1. Trusted' <=> Trusted
    BY <1>3 DEF found, Trusted, Answering, Kind, Device
  <2>2. CASE regs' = regs
    BY <1>3, <2>1, <2>2 DEF TrueUntilMarked, Expected
  <2>3. CASE regs' # regs
    <3>1. Dumping /\ regs' = Append(regs, val)
      BY <1>3, <2>3, FinishIs
    <3>2. Len(regs) = Acc.reg /\ Acc.reg \in Registers /\ Place > 1 /\ Acc.reg \in Nat
      <4>1. Len(regs) = Acc.reg /\ Acc.reg \in Registers /\ Place \in Int
        BY <1>3, <3>1, AccessPlaces DEF Program
      <4>2. Place > 1
        BY <3>1, <4>1, ProgramSizes DEF Dumping
      <4> QED BY <4>1, <4>2, RegsAtLeast DEF Registers
    <3>3. ASSUME Trusted, \A m \in marks' : m > Len(regs) + 1 PROVE val = Expected(Len(regs))
      <4>1. marks' = {}
        BY <1>3, <3>1, <3>2, <3>3
      <4>2. codec = Left(Len(Settings)) /\ val = codec[Acc.reg]
        BY <1>3, <3>1, <3>2, <3>3, <4>1 DEF AsBefore
      <4> QED BY <3>2, <4>2, LeftIs
    <3> HIDE DEF Expected
    <3> QED BY <1>3, <2>1, <3>1, <3>3, TrueStep
  <2> QED BY <2>2, <2>3
<1>4. CASE WaitAfter
  <2>1. /\ pc = "after" /\ Accessing /\ Ready /\ Finish(data)
        /\ UNCHANGED <<found, accesses, marks, codec>>
    BY <1>4 DEF WaitAfter, controller, Accessing
  <2>2. ASSUME marks = {}, Trusted, Dumping PROVE AsBefore /\ data = codec[Acc.reg]
    <3>1. ~Writes
      BY <2>1, <2>2, AccessPlaces DEF Writes, Rewrites
    <3>2. AsBefore /\ Reading /\ Answering
      BY <2>1, <2>2, <3>1 DEF InStep
    <3>3. cmd = NoCmd /\ (Kind \in Via => valid)
      BY <2>1, <3>1, <3>2 DEF Ready
    <3> QED BY <3>2, <3>3, Ops DEF Reading
  <2>3. Dumping => marks' \subseteq 0 .. Acc.reg + 1
    BY <2>1 DEF Program
  <2> QED BY <1>0, <1>3, <2>1, <2>2, <2>3
<1>5. CASE GiveUp /\ pc = "after"
  <2>1. /\ Accessing /\ UNCHANGED <<found, accesses>>
        /\ marks' = marks \cup {IF Dumping THEN Acc.reg + 1 ELSE 0}
    BY <1>5, AccessPlaces DEF GiveUp, Accessing
  <2>2. Finish(IF Answering THEN data ELSE Garbage)
    BY <1>5 DEF GiveUp
  <2>3. Dumping => marks' \subseteq 0 .. Acc.reg + 1
    <3>1. Acc.reg \in Nat
      BY <2>1, AccessPlaces, RegsAtLeast DEF Registers
    <3> QED BY <2>1, <3>1 DEF Program
  <2>4. marks \subseteq marks' /\ marks' # {}
    BY <2>1
  <2> QED BY <1>0, <1>3, <2>1, <2>2, <2>3, <2>4
<1>6. CASE Port
  <2>1. /\ pc = "issue" /\ Accessing /\ UNCHANGED <<found, accesses, marks>>
    BY <1>6 DEF Port, Accessing
  <2>2. Acc.reg \in Registers /\ codec[Acc.reg] \in Values
    BY <2>1, AccessPlaces DEF CodecTypes
  <2>3. Dumping => marks' \subseteq 0 .. Acc.reg + 1
    BY <2>1 DEF Program
  <2>4. CASE Answering /\ cmd = NoCmd
    <3>1. Finish(codec[Acc.reg])
      BY <1>6, <2>4 DEF Port
    <3>2. marks = {} /\ Trusted => AsBefore
      BY <2>1, <2>4 DEF InStep
    <3> QED BY <1>3, <2>1, <2>2, <2>3, <3>1, <3>2
  <2>5. CASE ~(Answering /\ cmd = NoCmd)
    <3>1. Finish(Garbage)
      BY <1>6, <2>5 DEF Port
    <3>2. ~(marks = {} /\ Trusted)
      BY <2>1, <2>5 DEF InStep
    <3> QED BY <1>0, <1>3, <2>1, <2>3, <3>1, <3>2
  <2> QED BY <2>4, <2>5
<1>7. CASE GiveUp /\ pc = "before"
  BY <1>1, <1>7 DEF GiveUp, found
<1>8. (UNCHANGED <<machine, n, regs>> /\ marks \subseteq marks')
        \/ NextDevice \/ WaitAfter \/ GiveUp \/ Port
  BY DEF Next, Tool, MainRange, Wake, AltRange, Probe, WaitBefore, Command, Save, ScanEnds,
     Done, Answer, Ended, vars, found, probing
<1> QED BY <1>1, <1>2, <1>4, <1>5, <1>6, <1>7, <1>8 DEF GiveUp

-----------------------------------------------------------------------------
(* What NoLateWrite and MarkedIfWrong say of an access under way.          *)
Clean == cmd.op # "write" /\ late = Regs
Readable ==
  /\ Answering
  /\ pc = "issue" => cmd = NoCmd
  /\ pc = "after" => \/ cmd.op = "read" /\ cmd.reg = Acc.reg
                     \/ cmd = NoCmd /\ data = codec[Acc.reg]

(* An access to be dumped that has no [!] ends with its register's value.  *)
LEMMA FinishMarked ==
  ASSUME Program, CodecTypes, NoLateWrite, MarkedIfWrong, Accessing, pc # "before",
         NEW val \in Values, Finish(val), UNCHANGED <<found, accesses>>,
         Trusted /\ Kind \notin Via => late' = Regs,
         Trusted /\ Kind \notin Via =>
           \/ marks' = marks \cup {IF Dumping THEN Acc.reg + 1 ELSE 0}
           \/ marks' = marks /\ (Dumping /\ Acc.reg + 1 \notin marks => val = codec[Acc.reg]),
         Dumping => codec' = codec /\ (cmd.op # "write" => cmd'.op # "write")
  PROVE  NoLateWrite' /\ MarkedIfWrong'
<1>1. (Trusted' <=> Trusted) /\ Kind' = Kind
  BY DEF found, Trusted, Answering, Kind, Device
<1> SUFFICES ASSUME Trusted, Kind \notin Via PROVE NoLateWrite' /\ MarkedIfWrong'
  BY <1>1 DEF NoLateWrite, MarkedIfWrong
<1>2. pc' \in {"before", "save"}
  BY FinishIs
<1>3. late' = Regs
  OBVIOUS
<1>4. CASE ~Dumping
  <2>1. regs' = <<>>
    BY <1>4, FinishIs DEF Program
  <2>2. ~Unmarked'
    BY <1>2, <2>1 DEF Unmarked
  <2> QED BY <1>2, <1>3, <2>1, <2>2 DEF NoLateWrite, MarkedIfWrong
<1>5. CASE Dumping
  <2>1. regs' = Append(regs, val) /\ codec' = codec
    <3>1. ~Fetches
      BY <1>5, FinishIs
    <3> QED BY <1>5, <3>1, FinishIs
  <2>2. /\ regs \in Seq(Values) /\ Len(regs) \in Nat /\ DOMAIN regs = 1 .. Len(regs)
        /\ Len(regs) = Acc.reg
    BY <1>5 DEF CodecTypes, Program
  <2>3. /\ DOMAIN regs' = 1 .. Len(regs) + 1 /\ regs'[Len(regs) + 1] = val
        /\ \A r \in DOMAIN regs : regs'[r] = regs[r]
    BY <2>1, <2>2, AppendProperties
  <2>4. MarkedIfWrong'
    <3> SUFFICES ASSUME NEW r \in DOMAIN regs', r \notin marks' PROVE regs'[r] = codec[r - 1]
      BY <2>1 DEF MarkedIfWrong
    <3>1. CASE r \in DOMAIN regs
      BY <2>3, <3>1 DEF MarkedIfWrong
    <3>2. CASE r = Len(regs) + 1
      <4>1. r = Acc.reg + 1 /\ r - 1 = Acc.reg
        BY <2>2, <3>2
      <4>2. val = codec[Acc.reg]
        BY <1>5, <4>1
      <4> QED BY <2>3, <3>2, <4>1, <4>2
    <3> QED BY <2>2, <2>3, <3>1, <3>2
  <2>5. NoLateWrite'
    <3> SUFFICES ASSUME Unmarked' PROVE cmd'.op # "write"
      BY <1>2, <1>3 DEF NoLateWrite
    <3>1. PICK r \in DOMAIN regs' : r \notin marks'
      BY <1>2 DEF Unmarked
    <3>2. Unmarked
      <4>1. CASE r \in DOMAIN regs
        BY <3>1, <4>1 DEF Unmarked
      <4>2. CASE r = Len(regs) + 1
        <5>1. Acc.reg + 1 \notin marks
          BY <2>2, <3>1, <4>2
        <5> QED BY <1>5, <5>1 DEF Unmarked, Accessing
      <4> QED BY <2>2, <2>3, <4>1, <4>2
    <3>3. cmd.op # "write"
      BY <3>2 DEF NoLateWrite
    <3> QED BY <1>5, <3>3
  <2> QED BY <2>4, <2>5
<1> QED BY <1>4, <1>5

LEMMA NextMarked ==
  Program /\ CodecTypes /\ NoLateWrite /\ MarkedIfWrong /\ [Next]_vars
    => NoLateWrite' /\ MarkedIfWrong'
<1> SUFFICES ASSUME Program, CodecTypes, NoLateWrite, MarkedIfWrong, [Next]_vars
             PROVE  NoLateWrite' /\ MarkedIfWrong'
  OBVIOUS
<1> USE Ops
<1>0. Garbage \in Values /\ data \in Values
  BY ValueTypes DEF CodecTypes
<1>1. CASE MainRange \/ Wake \/ AltRange \/ Probe
  <2>1. /\ pc \in {"main", "wake", "alt", "probe"} /\ pc' \notin {"issue", "after"}
        /\ UNCHANGED <<regs, late>>
    BY <1>1 DEF MainRange, Wake, AltRange, Probe, probing, controller
  <2>2. regs' = <<>> /\ late' = Regs
    BY <2>1 DEF Program
  <2>3. ~Unmarked'
    BY <2>1, <2>2 DEF Unmarked
  <2> QED BY <2>1, <2>2, <2>3 DEF NoLateWrite, MarkedIfWrong
<1>2. CASE Save \/ ScanEnds
  <2>1. pc' \notin {"issue", "after"} /\ UNCHANGED <<machine, n, regs, marks, cmd, codec, late>>
    BY <1>2 DEF Save, ScanEnds, probing, controller, found
  <2>2. (Trusted' <=> Trusted) /\ Kind' = Kind
    BY <2>1 DEF Trusted, Answering, Kind, Device
  <2>3. Unmarked' => Unmarked
    BY <2>1 DEF Unmarked
  <2> QED BY <2>1, <2>2, <2>3 DEF NoLateWrite, MarkedIfWrong
<1>3. CASE NextDevice
  <2>1. regs' = <<>> /\ late' = Regs /\ pc' = "main"
    BY <1>3 DEF NextDevice
  <2>2. ~Unmarked'
    BY <2>1 DEF Unmarked
  <2> QED BY <2>1, <2>2 DEF NoLateWrite, MarkedIfWrong
<1>4. CASE WaitBefore
  <2>1. pc = "before" /\ pc' = "issue" /\ Ready /\ UNCHANGED <<found, probing, controller>>
    BY <1>4 DEF WaitBefore
  <2>2. UNCHANGED <<regs, marks, codec, cmd, late, data>>
    BY <2>1 DEF probing, controller
  <2> SUFFICES ASSUME Trusted, Kind \notin Via PROVE NoLateWrite' /\ MarkedIfWrong'
    BY <2>1, SamePlace DEF NoLateWrite, MarkedIfWrong
  <2>3. Answering /\ cmd = NoCmd
    BY <2>1 DEF Ready, Trusted
  <2>4. late' = Regs /\ cmd' = NoCmd
    BY <2>2, <2>3 DEF NoLateWrite
  <2>5. MarkedIfWrong'
    BY <2>1, <2>2, SamePlace DEF MarkedIfWrong
  <2> QED BY <2>1, <2>3, <2>4, <2>5, SamePlace DEF NoLateWrite
<1>5. CASE WaitAfter
  <2>1. /\ pc = "after" /\ Accessing /\ Ready /\ Finish(data)
        /\ UNCHANGED <<found, accesses, marks, codec, cmd, late>>
    BY <1>5 DEF WaitAfter, controller, Accessing
  <2>2. ASSUME Trusted, Kind \notin Via PROVE late' = Regs
    BY <2>1, <2>2 DEF NoLateWrite
  <2>3. ASSUME Trusted, Kind \notin Via, Dumping, Acc.reg + 1 \notin marks
        PROVE  data = codec[Acc.reg]
    <3>1. Readable
      BY <2>1, <2>3 DEF NoLateWrite, Readable
    <3>2. cmd = NoCmd
      BY <2>1, <3>1 DEF Ready, Readable
    <3> QED BY <2>1, <3>1, <3>2 DEF Readable
  <2> QED BY <1>0, <2>1, <2>2, <2>3, FinishMarked
<1>6. CASE GiveUp /\ pc = "after"
  <2>1. /\ Accessing /\ UNCHANGED <<found, accesses, codec, cmd, late>>
        /\ marks' = marks \cup {IF Dumping THEN Acc.reg + 1 ELSE 0}
    BY <1>6, AccessPlaces DEF GiveUp, Accessing, controller
  <2>2. Finish(IF Answering THEN data ELSE Garbage)
    BY <1>6 DEF GiveUp
  <2>3. ASSUME Trusted, Kind \notin Via PROVE late' = Regs
    BY <2>1, <2>3 DEF NoLateWrite
  <2> QED BY <1>0, <1>6, <2>1, <2>2, <2>3, FinishMarked
<1>7. CASE GiveUp /\ pc = "before"
  <2>1. /\ Accessing /\ pc' = "issue" /\ UNCHANGED <<found, accesses, step, fetched, kept, regs>>
        /\ UNCHANGED <<codec, cmd, late, data>>
        /\ marks' = marks \cup {IF Dumping THEN Acc.reg + 1 ELSE 0}
    BY <1>7, AccessPlaces DEF GiveUp, Accessing, controller
  <2>2. Place' = Place /\ Acc' = Acc /\ (Trusted' <=> Trusted) /\ Kind' = Kind
    BY <2>1 DEF Place, Acc, found, Trusted, Answering, Kind, Device
  <2>3. Dumping' <=> Dumping
    BY <2>2 DEF Dumping, LastSetting
  <2>4. Dumping' => Acc'.reg + 1 \in marks'
    BY <2>1, <2>2, <2>3
  <2>5. Unmarked' => Unmarked
    BY <2>1, <2>4 DEF Unmarked
  <2> QED BY <2>1, <2>2, <2>4, <2>5 DEF NoLateWrite, MarkedIfWrong
<1>8. CASE Command
  <2>1. pc = "issue" /\ pc' = "after" /\ UNCHANGED <<found, probing, codec, late, data>>
    BY <1>8 DEF Command
  <2>2. UNCHANGED <<regs, marks>>
    BY <2>1 DEF probing
  <2> SUFFICES ASSUME Trusted, Kind \notin Via PROVE NoLateWrite' /\ MarkedIfWrong'
    BY <2>1, SamePlace DEF NoLateWrite, MarkedIfWrong
  <2>3. MarkedIfWrong'
    BY <2>1, <2>2, SamePlace DEF MarkedIfWrong
  <2>4. Dumping => ~Writes
    BY <2>1, AccessPlaces DEF Accessing, Writes, Rewrites
  <2>5. ~Dumping => regs = <<>>
    BY <2>1 DEF Program, Accessing
  <2>6. Unmarked' => Unmarked /\ Dumping
    BY <2>1, <2>2, <2>5, SamePlace DEF Unmarked
  <2>7. ASSUME Unmarked' PROVE cmd'.op # "write"
    <3>1. cmd.op # "write" /\ ~Writes
      BY <2>4, <2>6, <2>7 DEF NoLateWrite
    <3> QED BY <1>8, <3>1 DEF Command
  <2>8. ASSUME Dumping, Acc.reg + 1 \notin marks
        PROVE  Answering /\ cmd'.op = "read" /\ cmd'.reg = Acc.reg
    <3>1. Answering /\ cmd = NoCmd /\ ~Writes
      BY <2>1, <2>4, <2>8 DEF NoLateWrite
    <3> QED BY <1>8, <3>1 DEF Command
  <2>9. late' = Regs
    BY <2>1 DEF NoLateWrite
  <2> QED BY <2>1, <2>2, <2>3, <2>7, <2>8, <2>9, SamePlace DEF NoLateWrite
<1>9. CASE Port
  <2>1. pc = "issue" /\ Accessing /\ UNCHANGED <<found, accesses, marks, late>>
    BY <1>9 DEF Port, Accessing
  <2>2. Acc.reg \in Registers /\ codec[Acc.reg] \in Values
    BY <2>1, AccessPlaces DEF CodecTypes
  <2>3. Dumping => ~Writes
    BY <2>1, AccessPlaces DEF Writes, Rewrites
  <2>4. ASSUME Trusted, Kind \notin Via PROVE late' = Regs
    BY <2>1, <2>4 DEF NoLateWrite
  <2>5. CASE Answering /\ cmd = NoCmd
    <3>1. Finish(codec[Acc.reg]) /\ (~Writes => codec' = codec) /\ cmd'.op = "settle"
      BY <1>9, <2>5 DEF Port
    <3> QED BY <2>1, <2>2, <2>3, <2>4, <3>1, FinishMarked
  <2>6. CASE ~(Answering /\ cmd = NoCmd)
    <3>1. Finish(Garbage) /\ codec' = codec /\ cmd' = cmd
      BY <1>9, <2>6 DEF Port
    <3>2. ~(Trusted /\ Kind \notin Via /\ Dumping /\ Acc.reg + 1 \notin marks)
      BY <2>1, <2>6 DEF NoLateWrite
    <3> QED BY <1>0, <2>1, <2>4, <3>1, <3>2, FinishMarked
  <2> QED BY <2>5, <2>6
<1>10. CASE Done
  <2>1. /\ cmd # NoCmd /\ cmd' = NoCmd /\ UNCHANGED <<found, pc, probing>>
        /\ codec' = IF cmd.op = "write" THEN Taken(cmd.reg, cmd.val) ELSE codec
        /\ data' = IF cmd.op = "read" /\ Kind \notin Via THEN codec[cmd.reg] ELSE data
        /\ late' = IF cmd.op = "read" /\ Kind \in Via THEN cmd.reg ELSE late
    BY <1>10 DEF Done
  <2>2. UNCHANGED <<regs, marks>>
    BY <2>1 DEF probing
  <2> SUFFICES ASSUME Trusted, Kind \notin Via PROVE NoLateWrite' /\ MarkedIfWrong'
    BY <2>1, SamePlace DEF NoLateWrite, MarkedIfWrong
  <2>3. late' = Regs
    BY <2>1 DEF NoLateWrite
  <2>4. MarkedIfWrong'
    <3> SUFFICES ASSUME NEW r \in DOMAIN regs, r \notin marks PROVE regs[r] = codec'[r - 1]
      BY <2>1, <2>2, SamePlace DEF MarkedIfWrong
    <3>1. codec' = codec
      BY <2>1 DEF NoLateWrite, Unmarked
    <3> QED BY <3>1 DEF MarkedIfWrong
  <2>5. ASSUME pc \in {"issue", "after"}, Dumping, Acc.reg + 1 \notin marks
        PROVE  Answering /\ pc = "after" /\ data' = codec'[Acc.reg]
    <3>1. Readable
      BY <2>5 DEF NoLateWrite, Readable
    <3>2. pc = "after" /\ cmd.op = "read" /\ cmd.reg = Acc.reg
      BY <2>1, <2>5, <3>1 DEF Readable
    <3> QED BY <2>1, <3>1, <3>2 DEF Readable
  <2> QED BY <2>1, <2>2, <2>3, <2>4, <2>5, SamePlace DEF NoLateWrite
<1>11. CASE Answer
  <2>1. late # Regs /\ late' = Regs /\ UNCHANGED <<found, pc, probing, codec, cmd>>
    BY <1>11 DEF Answer
  <2>2. ~(Trusted /\ Kind \notin Via)
    BY <2>1 DEF NoLateWrite
  <2> QED BY <2>1, <2>2, SamePlace DEF NoLateWrite, MarkedIfWrong
<1>12. CASE UNCHANGED vars
  <2>1. UNCHANGED <<found, pc, probing, controller>>
    BY <1>12 DEF vars
  <2>2. UNCHANGED <<regs, marks, codec, cmd, late, data>>
    BY <2>1 DEF probing, controller
  <2>3. Unmarked' <=> Unmarked
    BY <2>1, <2>2, SamePlace DEF Unmarked
  <2> QED BY <2>1, <2>2, <2>3, SamePlace DEF NoLateWrite, MarkedIfWrong
<1> QED
  BY <1>1, <1>2, <1>3, <1>4, <1>5, <1>6, <1>7, <1>8, <1>9, <1>10, <1>11, <1>12
  DEF Next, Tool, Ended, GiveUp

-----------------------------------------------------------------------------
LEMMA InitCodec == Init => Program /\ CodecTypes /\ InStep /\ TrueUntilMarked /\ NoLateWrite /\ MarkedIfWrong
<1> SUFFICES ASSUME Init
             PROVE  Program /\ CodecTypes /\ InStep /\ TrueUntilMarked /\ NoLateWrite /\ MarkedIfWrong
  OBVIOUS
<1>1. /\ pc = "main" /\ step = 1 /\ fetched = FALSE /\ kept = Garbage /\ regs = <<>> /\ marks = {}
      /\ codec = Used /\ cmd = NoCmd /\ late = Regs /\ data = Garbage /\ valid = TRUE
  BY DEF Init
<1>2. ~Accessing
  BY <1>1 DEF Accessing
<1>3. Program
  <2>1. fetched \in BOOLEAN
    BY <1>1
  <2>2. step \in Nat /\ step > 0
    BY <1>1
  <2> QED BY <1>1, <1>2, <2>1, <2>2 DEF Program
<1>4. CodecTypes
  BY <1>1, ValueTypes, RegsAtLeast, EmptySeq DEF CodecTypes
<1>5. ~Unmarked
  BY <1>1 DEF Unmarked
<1> QED BY <1>1, <1>2, <1>3, <1>4, <1>5 DEF InStep, TrueUntilMarked, NoLateWrite, MarkedIfWrong

(* The bases that the tool has been given.                                 *)
BaseTypes == {io_base, alt_io_base} \subseteq 0 .. Units - 1

LEMMA BaseGot ==
  ASSUME RInv, NEW k \in 1 .. 2, NEW base, pci_get_io_bar(k, base), UNCHANGED <<machine, n>>
  PROVE  base \in 0 .. Units - 1
<1>1. BarTypes /\ Units \in Nat /\ First \in Nat /\ Units > 0
  BY Ac97Assumption DEF RInv, Bases
<1>2. CASE base = 0
  BY <1>1, <1>2
<1>3. CASE bars[n][k] # NoBar /\ base = Masked(bars[n][k], Size(Kind))
  <2>1. bars[n][k] \in 0 .. Units - 1
    BY <1>1, <1>3 DEF BarTypes, Bases, Unassigned
  <2>2. Size(Kind) \in {1, 4}
    BY DEF Size
  <2>3. \A c \in Nat, s \in {1, 4} : c - (c % s) \in 0 .. c
    OBVIOUS
  <2>4. base \in 0 .. bars[n][k]
    BY <1>1, <1>3, <2>1, <2>2, <2>3 DEF Masked
  <2> QED BY <1>1, <2>1, <2>4
<1>4. CASE base # 0 /\ ~ (bars[n][k] # NoBar /\ base = Masked(bars[n][k], Size(Kind)))
  <2>1. Assign(k, base)
    BY <1>4 DEF pci_get_io_bar, Assign
  <2>2. base \in First .. Units - 1
    BY <1>1, <2>1, RangeFound
  <2> QED BY <1>1, <2>1, <2>2
<1> QED BY <1>2, <1>3, <1>4

LEMMA NextBaseTypes == RInv /\ BaseTypes /\ [Next]_vars => BaseTypes'
<1> SUFFICES ASSUME RInv, BaseTypes, [Next]_vars PROVE BaseTypes'
  OBVIOUS
<1>1. CASE MainRange
  <2>1. PICK base : pci_get_io_bar(1, base) /\ io_base' = base
    BY <1>1 DEF MainRange
  <2>2. UNCHANGED <<machine, n, alt_io_base>>
    BY <1>1 DEF MainRange
  <2> QED BY <2>1, <2>2, BaseGot DEF BaseTypes
<1>2. CASE AltRange
  <2>1. PICK base : pci_get_io_bar(2, base) /\ alt_io_base' = base
    BY <1>2 DEF AltRange
  <2>2. UNCHANGED <<machine, n, io_base>>
    BY <1>2 DEF AltRange
  <2> QED BY <2>1, <2>2, BaseGot DEF BaseTypes
<1>3. CASE UNCHANGED <<io_base, alt_io_base>>
  BY <1>3 DEF BaseTypes
<1>4. MainRange \/ AltRange \/ UNCHANGED <<io_base, alt_io_base>>
  BY DEF Next, vars, Tool, Wake, Probe, WaitBefore, WaitAfter, GiveUp, Command, Port, Save,
     ScanEnds, NextDevice, Done, Answer, Ended, found
<1> QED BY <1>1, <1>2, <1>3, <1>4

(* The bases fit in 16 bits whatever is in the way in I/O space, and the   *)
(* dump in its buffer: each register is dumped once, in its place.         *)
THEOREM Typing == Spec => []TypeOK
<1> DEFINE Inv == RInv /\ InOrder /\ BaseTypes /\ Program /\ CodecTypes
<1>1. Init => Inv
  <2> SUFFICES ASSUME Init PROVE BaseTypes
    BY InitRInv, InitCodec
  <2>1. io_base = 0 /\ alt_io_base = 0 /\ Units \in Nat /\ 0 < Units
    BY Ac97Assumption DEF Init, Bases
  <2> QED BY <2>1 DEF BaseTypes
<1>2. Inv /\ [Next]_vars => Inv'
  <2> SUFFICES ASSUME Inv, [Next]_vars PROVE Inv'
    OBVIOUS
  <2>1. RInv' /\ InOrder'
    BY NextRInv
  <2>2. BaseTypes'
    BY NextBaseTypes
  <2>3. Program' /\ CodecTypes'
    BY NextProgram
  <2> QED BY <2>1, <2>2, <2>3
<1>3. Inv => TypeOK
  <2>1. BarTypes => /\ \A d \in DOMAIN bars : \A k \in 1 .. 2 :
                         bars[d][k] \in {NoBar, Unassigned} \cup Bases
                    /\ assigned \subseteq (DOMAIN bars) \X (1 .. 2)
    BY DEF BarTypes, Bars
  <2>2. RInv => BarTypes
    BY DEF RInv
  <2> QED BY <2>1, <2>2 DEF TypeOK, BaseTypes, CodecTypes, Registers
<1> QED BY <1>1, <1>2, <1>3, PTL DEF Spec

(* codec_read and codec_write of a controller that answers: every register *)
(* that is displayed before the first [!] has the codec's value, after all *)
(* the settings, however slow the controller and the codec are and for     *)
(* any list of settings.                                                   *)
THEOREM DumpsTrue == Spec => []TrueUntilMarked
<1> DEFINE Inv == Program /\ CodecTypes /\ InStep /\ TrueUntilMarked
<1>1. Init => Inv
  BY InitCodec
<1>2. Inv /\ [Next]_vars => Inv'
  BY NextProgram, NextInStep, NextTrue
<1> QED BY <1>1, <1>2, PTL DEF Spec

(* Where a wait gave up the [!] is at that register: one without it is     *)
(* right even after others were given up, except with VIA.                 *)
THEOREM MarksWrong == Spec => []MarkedIfWrong
<1> DEFINE Inv == Program /\ CodecTypes /\ NoLateWrite /\ MarkedIfWrong
<1>1. Init => Inv
  BY InitCodec
<1>2. Inv /\ [Next]_vars => Inv'
  BY NextProgram, NextMarked
<1> QED BY <1>1, <1>2, PTL DEF Spec
=============================================================================
