---------------------------- MODULE IsaPnpProofs ----------------------------
(***************************************************************************)
(* Isolation, for any number of cards, serials of any length and any noise *)
(* on the ports: at every dump exactly one card answers, the one with the  *)
(* identifier that was read, no two cards ever share a number, and on a    *)
(* quiet port every card gets its file.                                    *)
(***************************************************************************)
EXTENDS IsaPnp, FiniteSetTheorems, TLAPS

(* Cards still in the round have sent exactly the bits the host has read;  *)
(* if it has read a 1, the cards that sent it are still there.             *)
Round ==
  pc = "read" =>
    /\ InState("Isolation") \cup InState("Sleep") = Cards
    /\ \A c \in InState("Isolation") : cardCsn[c] = 0
    /\ ~garbled => \A c \in InState("Isolation") : \A b \in 1 .. bit - 1 :
                     Serial[c][b] = identifier[b]
    /\ seen55aa /\ ~garbled => InState("Isolation") # {}

(* Between rounds the cards without a number wait for the next one.        *)
BetweenRounds ==
  pc \in {"superio", "isolate"} =>
    \A c \in Cards : cardState[c] = IF cardCsn[c] = 0 THEN "Isolation" ELSE "Sleep"

Counting == pc \notin {"port", "close", "done"} => csn \in Nat

IInv ==
  /\ TypeOK
  /\ Round
  /\ BetweenRounds
  /\ Counting
  /\ CsnsDiffer
  /\ OneCardAnswers
  /\ QuietAtExit

-----------------------------------------------------------------------------
LEMMA DumpType ==
  ASSUME TypeOK, NEW name \in Names, NEW devices \in SUBSET (Cards \cup {SuperIo}),
         Dump(name, devices)
  PROVE  /\ listed' \in [Names -> Nat]
         /\ files' \in [Names \X (0 .. Letters - 1) -> SUBSET (Cards \cup {SuperIo})]
         /\ lost' \subseteq Cards \cup {SuperIo}
<1>1. listed' \in [Names -> Nat]
  BY DEF Dump, TypeOK
<1>2. files' \in [Names \X (0 .. Letters - 1) -> SUBSET (Cards \cup {SuperIo})]
  BY DEF Dump, TypeOK
<1>3. lost' \subseteq Cards \cup {SuperIo}
  BY DEF Dump, TypeOK
<1>4. QED BY <1>1, <1>2, <1>3

(* When all bits have been read, one card is left.                         *)
LEMMA OneIsLeft ==
  ASSUME IInv, pc = "read", bit > NBits, seen55aa, ~garbled
  PROVE  \E c \in Cards : InState("Isolation") = {c} /\ Serial[c] = identifier
<1>1. PICK c \in Cards : c \in InState("Isolation")
  BY DEF IInv, Round, InState
<1>2. bit - 1 = NBits /\ NBits \in Nat
  BY IsaPnpAssumption DEF IInv, TypeOK
<1>3. \A d \in InState("Isolation") : Serial[d] = identifier
  <2>1. TAKE d \in InState("Isolation")
  <2>2. d \in Cards
    BY <2>1 DEF InState
  <2>3. \A b \in Bits : Serial[d][b] = identifier[b]
    BY <1>2, <2>1 DEF IInv, Round, Bits
  <2>4. Serial[d] \in [Bits -> {0, 1}] /\ identifier \in [Bits -> {0, 1}]
    BY <2>2, IsaPnpAssumption DEF IInv, TypeOK
  <2>5. QED BY <2>3, <2>4
<1>4. ASSUME NEW d \in InState("Isolation") PROVE d = c
  <2>1. d \in Cards
    BY <1>4 DEF InState
  <2>2. Serial[d] = Serial[c]
    BY <1>1, <1>3, <1>4
  <2>3. QED BY <2>1, <2>2, SerialsDiffer
<1>5. QED BY <1>1, <1>3, <1>4

LEMMA InitIInv == Init => IInv
<1> SUFFICES ASSUME Init PROVE IInv
  OBVIOUS
<1>1. TypeOK
  <2>1. bit \in 1 .. NBits + 1 /\ port \in 0 .. NPorts
    BY IsaPnpAssumption DEF Init
  <2>2. /\ listed \in [Names -> Nat]
        /\ files \in [Names \X (0 .. Letters - 1) -> SUBSET (Cards \cup {SuperIo})]
    BY DEF Init
  <2>3. identifier \in [Bits -> {0, 1}] /\ cardCsn \in [Cards -> Nat]
    BY DEF Init
  <2>4. QED BY <2>1, <2>2, <2>3 DEF Init, TypeOK
<1>2. QED
  BY <1>1 DEF Init, IInv, Round, BetweenRounds, Counting, CsnsDiffer,
     OneCardAnswers, QuietAtExit

LEMMA NextIInv == IInv /\ [Next]_vars => IInv'
<1> SUFFICES ASSUME IInv, [Next]_vars PROVE IInv'
  OBVIOUS
<1> USE DEF IInv, cards, round, dumps
<1>1. CASE TryPort
  <2>1. port' \in 0 .. NPorts
    BY <1>1, IsaPnpAssumption DEF TryPort, TypeOK
  <2>2. /\ cardCsn' = [c \in Cards |-> 0]
        /\ cardState' = [c \in Cards |-> "Isolation"]
    BY <1>1 DEF TryPort, Woken
  <2>3. TypeOK'
    BY <1>1, <2>1, <2>2 DEF TryPort, TypeOK
  <2>4. BetweenRounds' /\ CsnsDiffer'
    BY <1>1, <2>2 DEF TryPort, BetweenRounds, CsnsDiffer
  <2>5. QED
    BY <1>1, <2>3, <2>4 DEF TryPort, Round, Counting, OneCardAnswers, QuietAtExit
<1>2. CASE DumpSuperIo
  <2>1. TypeOK'
    <3>1. SuperIo \in Names /\ {SuperIo} \in SUBSET (Cards \cup {SuperIo})
      BY DEF Names
    <3>2. QED
      BY <1>2, <3>1, DumpType DEF DumpSuperIo, TypeOK
  <2>2. QED
    BY <1>2, <2>1 DEF DumpSuperIo, Round, BetweenRounds, Counting, CsnsDiffer,
       OneCardAnswers, QuietAtExit
<1>3. CASE StartRound
  <2>1. TypeOK'
    <3>1. bit' \in 1 .. NBits + 1
      BY <1>3, IsaPnpAssumption DEF StartRound
    <3>2. identifier' \in [Bits -> {0, 1}]
      BY <1>3 DEF StartRound
    <3>3. QED
      BY <1>3, <3>1, <3>2 DEF StartRound, TypeOK
  <2>2. Round'
    BY <1>3 DEF StartRound, Round, BetweenRounds, InState
  <2>3. QED
    BY <1>3, <2>1, <2>2 DEF StartRound, BetweenRounds, Counting, CsnsDiffer,
       OneCardAnswers, QuietAtExit
<1>4. CASE ReadPair
  <2>1. PICK pattern \in Patterns :
          /\ seenLife' = (seenLife \/ pattern # "ffff")
          /\ seen55aa' = (seen55aa \/ pattern = "55aa")
          /\ identifier' = [identifier EXCEPT ![bit] = IF pattern = "55aa" THEN 1 ELSE 0]
          /\ garbled' = (garbled \/ (pattern = "55aa") # (Driving # {}))
          /\ cardState' = AfterPair(pattern)
    BY <1>4 DEF ReadPair
  <2>2. bit \in Bits /\ bit' = bit + 1 /\ bit' \in 1 .. NBits + 1
    BY <1>4, IsaPnpAssumption DEF ReadPair, TypeOK, Bits
  <2>3. cardState' \in [Cards -> {"WaitForKey", "Sleep", "Isolation", "Config"}]
    BY <2>1 DEF AfterPair, TypeOK
  <2>4. TypeOK'
    <3>1. identifier' \in [Bits -> {0, 1}]
      BY <2>1, <2>2 DEF TypeOK
    <3>2. seen55aa' \in BOOLEAN /\ seenLife' \in BOOLEAN /\ garbled' \in BOOLEAN
      BY <2>1
    <3>3. QED
      BY <1>4, <2>2, <2>3, <3>1, <3>2 DEF ReadPair, TypeOK
  <2>5. InState("Isolation")' \subseteq InState("Isolation")
    BY <2>1 DEF InState, AfterPair
  <2>6. InState("Isolation")' \cup InState("Sleep")' = Cards
    BY <1>4, <2>1 DEF ReadPair, Round, InState, AfterPair
  <2>7. \A c \in InState("Isolation")' : cardCsn'[c] = 0
    BY <1>4, <2>5 DEF ReadPair, Round
  <2>8. ASSUME ~garbled' , NEW c \in InState("Isolation")', NEW b \in 1 .. bit' - 1
        PROVE  Serial[c][b] = identifier'[b]
    <3>1. c \in Cards /\ c \in InState("Isolation") /\ ~garbled
      BY <2>1, <2>5, <2>8 DEF InState
    <3>2. CASE b < bit
      <4>1. b \in 1 .. bit - 1 /\ b # bit /\ b \in Bits
        <5>1. b \in Int /\ bit \in Int /\ 1 <= b /\ bit <= NBits /\ NBits \in Int
          BY <2>2, <2>8, IsaPnpAssumption DEF Bits
        <5>2. QED BY <3>2, <5>1 DEF Bits
      <4>2. Serial[c][b] = identifier[b]
        BY <1>4, <3>1, <4>1 DEF ReadPair, Round
      <4>3. QED BY <2>1, <4>1, <4>2 DEF TypeOK
    <3>3. CASE b = bit
      <4>1. identifier'[b] = IF pattern = "55aa" THEN 1 ELSE 0
        BY <2>1, <2>2, <3>3 DEF TypeOK
      <4>2. (pattern = "55aa") <=> (Driving # {})
        BY <2>1, <2>8
      <4>3. Serial[c][bit] \in {0, 1}
        BY <2>2, <3>1, IsaPnpAssumption
      <4>4. pattern = "55aa" => c \in Driving
        BY <2>1, <2>8, <3>1 DEF InState, AfterPair
      <4>5. pattern # "55aa" => Serial[c][bit] # 1
        BY <3>1, <4>2 DEF Driving
      <4>6. pattern = "55aa" => Serial[c][bit] = 1
        BY <4>4 DEF Driving
      <4>7. QED BY <3>3, <4>1, <4>3, <4>5, <4>6
    <3>4. b < bit \/ b = bit
      BY <2>2, <2>8 DEF Bits
    <3>5. QED BY <3>2, <3>3, <3>4
  <2>9. ASSUME seen55aa', ~garbled' PROVE InState("Isolation")' # {}
    <3>1. ~garbled /\ ((pattern = "55aa") <=> (Driving # {}))
      BY <2>1, <2>9
    <3>2. CASE pattern = "55aa"
      <4>1. PICK c \in Driving : TRUE
        BY <3>1, <3>2
      <4>2. c \in InState("Isolation")'
        BY <2>1, <4>1 DEF Driving, InState, AfterPair
      <4>3. QED BY <4>2
    <3>3. CASE pattern # "55aa"
      <4>1. seen55aa /\ cardState' = cardState
        BY <2>1, <2>9, <3>3 DEF AfterPair, TypeOK
      <4>2. QED
        BY <1>4, <3>1, <4>1 DEF ReadPair, Round, InState
    <3>4. QED BY <3>2, <3>3
  <2>10. Round'
    BY <2>6, <2>7, <2>8, <2>9 DEF Round
  <2>11. QED
    BY <1>4, <2>4, <2>10 DEF ReadPair, BetweenRounds, Counting, CsnsDiffer,
       OneCardAnswers, QuietAtExit
<1>5. CASE NoMoreCards
  <2>1. csn' \in Nat \cup {-1}
    BY <1>5 DEF NoMoreCards, TypeOK
  <2>2. TypeOK'
    BY <1>5, <2>1 DEF NoMoreCards, TypeOK
  <2>3. QED
    BY <1>5, <2>2 DEF NoMoreCards, Round, BetweenRounds, Counting, CsnsDiffer,
       OneCardAnswers, QuietAtExit
<1>6. CASE BadChecksum
  <2>1. TypeOK'
    BY <1>6 DEF BadChecksum, TypeOK
  <2>2. QED
    BY <1>6, <2>1 DEF BadChecksum, Round, BetweenRounds, Counting, CsnsDiffer,
       OneCardAnswers, QuietAtExit
<1>7. CASE Assign
  <2>1. PICK c \in Cards : InState("Isolation") = {c} /\ Serial[c] = identifier
    BY <1>7, OneIsLeft DEF Assign
  <2>2. csn \in Nat /\ csn' = csn + 1 /\ csn' \in Nat /\ csn' # 0
    BY <1>7 DEF Assign, Counting
  <2>3. cardCsn' = [cardCsn EXCEPT ![c] = csn']
    BY <1>7, <2>1 DEF Assign, Numbered, InState, TypeOK
  <2>4. \A d \in Cards : cardCsn[d] \in Nat /\ cardCsn[d] <= csn
    BY <1>7 DEF Assign, CsnsDiffer, TypeOK
  <2>5. \A d \in Cards : cardCsn'[d] = csn' <=> d = c
    BY <2>2, <2>3, <2>4 DEF TypeOK
  <2>6. cardState' = [d \in Cards |-> IF d = c THEN "Config" ELSE "Sleep"]
    BY <1>7, <2>2, <2>5 DEF Assign, Woken
  <2>7. TypeOK'
    <3>1. cardCsn' \in [Cards -> Nat]
      BY <2>2, <2>3 DEF TypeOK
    <3>2. QED
      BY <1>7, <2>2, <2>6, <3>1 DEF Assign, TypeOK
  <2>8. OneCardAnswers'
    BY <1>7, <2>1, <2>5, <2>6 DEF Assign, OneCardAnswers, InState
  <2>9. CsnsDiffer'
    BY <1>7, <2>2, <2>3, <2>4 DEF Assign, CsnsDiffer, TypeOK
  <2>10. QED
    BY <1>7, <2>2, <2>7, <2>8, <2>9 DEF Assign, Round, BetweenRounds, Counting,
       QuietAtExit
<1>8. CASE DumpCard
  <2>1. PICK c \in Cards : Dump(NameOf[c], InState("Config"))
    BY <1>8 DEF DumpCard
  <2>2. NameOf[c] \in Names /\ InState("Config") \in SUBSET (Cards \cup {SuperIo})
    BY DEF Names, InState
  <2>3. cardState' = [d \in Cards |-> IF cardCsn[d] = 0 THEN "Isolation" ELSE "Sleep"]
    BY <1>8 DEF DumpCard, Woken
  <2>4. TypeOK'
    BY <1>8, <2>1, <2>2, <2>3, DumpType DEF DumpCard, TypeOK
  <2>5. QED
    BY <1>8, <2>3, <2>4 DEF DumpCard, Round, BetweenRounds, Counting, CsnsDiffer,
       OneCardAnswers, QuietAtExit
<1>9. CASE Close
  <2>1. TypeOK'
    BY <1>9 DEF Close, TypeOK
  <2>2. QED
    BY <1>9, <2>1 DEF Close, Round, BetweenRounds, Counting, CsnsDiffer,
       OneCardAnswers, QuietAtExit, InState
<1>10. CASE UNCHANGED vars
  BY <1>10 DEF vars, TypeOK, Round, BetweenRounds, Counting, CsnsDiffer,
     OneCardAnswers, QuietAtExit, InState
<1>11. QED
  BY <1>1, <1>2, <1>3, <1>4, <1>5, <1>6, <1>7, <1>8, <1>9, <1>10
     DEF Next, Step, Ended

LEMMA Invariance == Spec => []IInv
BY InitIInv, NextIInv, PTL DEF Spec

-----------------------------------------------------------------------------
(* The count, the files.  The cards that have a number and have been       *)
(* dumped on this port, all of them or those of one PnP ID.                *)
Counted == {c \in Cards : cardCsn[c] # 0}
DumpedHere == {c \in Counted : pc = "dump" => cardCsn[c] # csn}
DumpedAs(name) == {c \in DumpedHere : NameOf[c] = name}

Active == pc \notin {"port", "close", "done"}

CountRight ==
  /\ Active => csn = Cardinality(Counted)
  /\ pc = "dump" => csn # 0

(* On a quiet port a round that has not seen 55AA has heard nothing but    *)
(* zeros from the cards that have no number, and all of them.              *)
QuietRound ==
  pc = "read" /\ port \notin noisy =>
    /\ ~garbled
    /\ ~seen55aa => \A c \in Cards \ Counted :
                      /\ cardState[c] = "Isolation"
                      /\ \A b \in 1 .. bit - 1 : Serial[c][b] = 0

(* Each card's file is one of the last that were made for its PnP ID, of   *)
(* which there are as many as such cards dumped on this port.              *)
FileKept(c) ==
  \E m \in Nat :
    /\ m < listed[NameOf[c]]
    /\ listed[NameOf[c]] <= m + Cardinality(DumpedAs(NameOf[c]))
    /\ files[<<NameOf[c], m % Letters>>] = {c}

FilesKept ==
  Active /\ Cardinality(Cards) <= Letters => \A c \in DumpedHere \ lost : FileKept(c)

AllDumped ==
  pc \in {"close", "done"} /\ csn >= 0 /\ port \notin noisy /\ Cardinality(Cards) <= Letters =>
    /\ csn = Cardinality(Cards)
    /\ \A c \in Cards \ lost :
         \E i \in 0 .. Letters - 1 : files[<<NameOf[c], i>>] = {c}

DInv == CountRight /\ QuietRound /\ FilesKept /\ AllDumped

-----------------------------------------------------------------------------
LEMMA DivMod ==
  ASSUME NEW L \in Nat \ {0}, NEW m \in Nat
  PROVE  /\ m \div L \in Nat /\ m % L \in 0 .. L - 1
         /\ m = L * (m \div L) + (m % L)
  OBVIOUS
LEMMA Mult ==
  ASSUME NEW L \in Nat \ {0}, NEW d \in Int
  PROVE  L * d <= 0 \/ L * d >= L
<1>1. CASE d <= 0
  BY <1>1
<1>2. CASE d >= 1
  BY <1>2
<1> QED BY <1>1, <1>2
(* The letters of fewer files than there are letters differ.               *)
LEMMA ModApart ==
  ASSUME NEW L \in Nat \ {0}, NEW m \in Nat, NEW n \in Nat, m < n, n < m + L
  PROVE  m % L # n % L
<1> SUFFICES ASSUME m % L = n % L PROVE FALSE
  OBVIOUS
<1> DEFINE p == m \div L
           q == n \div L
<1>1. p \in Nat /\ q \in Nat /\ m = L * p + (m % L) /\ n = L * q + (n % L) /\ m % L \in 0 .. L - 1
  BY DivMod
<1> HIDE DEF p, q
<1>2. L * (q - p) = L * q - L * p
  BY <1>1
<1>3. L * p \in Int /\ L * q \in Int
  BY <1>1
<1>4. L * (q - p) = n - m
  BY <1>1, <1>2, <1>3
<1>5. L * (q - p) <= 0 \/ L * (q - p) >= L
  BY <1>1, Mult
<1> QED BY <1>4, <1>5


LEMMA CountedFinite ==
  /\ IsFiniteSet(Counted) /\ Cardinality(Counted) \in Nat
  /\ \A name : IsFiniteSet(DumpedAs(name)) /\ Cardinality(DumpedAs(name)) \in Nat
  /\ Cardinality(Cards) \in Nat
<1>1. Counted \in SUBSET Cards /\ \A name : DumpedAs(name) \in SUBSET Cards
  BY DEF Counted, DumpedHere, DumpedAs
<1> QED BY <1>1, IsaPnpAssumption, FS_Subset, FS_CardinalityType

LEMMA CardNames ==
  ASSUME NEW c \in Cards
  PROVE  NameOf[c] \in Names /\ NameOf[c] # SuperIo /\ c # SuperIo
BY IsaPnpAssumption DEF Names

(* Nothing is dumped.                                                      *)
LEMMA KeepFiles ==
  ASSUME FilesKept, Active, UNCHANGED dumps, DumpedHere' = DumpedHere
  PROVE  FilesKept'
<1>1. \A name : DumpedAs(name)' = DumpedAs(name)
  BY DEF DumpedAs
<1>2. \A c \in Cards : FileKept(c) => FileKept(c)'
  BY <1>1 DEF FileKept, dumps
<1>3. \A c \in DumpedHere : c \in Cards
  BY DEF DumpedHere, Counted
<1> QED BY <1>2, <1>3 DEF FilesKept, dumps

LEMMA InitDInv == Init => DInv
BY DEF Init, DInv, CountRight, QuietRound, FilesKept, AllDumped, Active

(* No card is left without a number when a quiet port stays silent.        *)
LEMMA AllAreCounted ==
  ASSUME IInv, DInv, pc = "read", bit > NBits, ~seen55aa, port \notin noisy
  PROVE  Counted = Cards
<1>1. bit - 1 = NBits
  BY IsaPnpAssumption DEF IInv, TypeOK
<1>2. ASSUME NEW c \in Cards \ Counted PROVE FALSE
  <2>1. \A b \in Bits : Serial[c][b] = 0
    BY <1>1, <1>2 DEF DInv, QuietRound, Bits
  <2>2. \E b \in Bits : Serial[c][b] = 1
    BY <1>2, SerialsDiffer
  <2> QED BY <2>1, <2>2
<1> QED BY <1>2 DEF Counted

(* The next file of a PnP ID is none of those made for it on this port.    *)
LEMMA DumpKeeps ==
  ASSUME IInv, DInv, Cardinality(Cards) <= Letters, pc = "dump", DumpCard
  PROVE  \A c \in DumpedHere' \ lost' : FileKept(c)'
<1> PICK c \in Cards : Serial[c] = identifier /\ Dump(NameOf[c], InState("Config"))
  BY DEF DumpCard
<1> DEFINE name == NameOf[c]
<1>1. InState("Config") = {c} /\ cardCsn[c] = csn
  BY SerialsDiffer DEF IInv, OneCardAnswers
<1>2. cardCsn[c] # 0 /\ csn # 0
  BY <1>1 DEF DInv, CountRight
<1>3. DumpedHere' = DumpedHere \cup {c} /\ c \notin DumpedHere
  <2>1. \A d \in Cards \ {c} : cardCsn[d] # csn
    BY <1>1, <1>2 DEF IInv, CsnsDiffer
  <2>2. cardCsn' = cardCsn /\ pc' = "isolate"
    BY DEF DumpCard
  <2> QED BY <1>1, <1>2, <2>1, <2>2 DEF DumpedHere, Counted
<1>4. name \in Names /\ \A d \in Cards : NameOf[d] \in Names
  BY CardNames
<1>5. /\ listed \in [Names -> Nat] /\ listed' = [listed EXCEPT ![name] = @ + 1]
      /\ files \in [Names \X (0 .. Letters - 1) -> SUBSET (Cards \cup {SuperIo})]
  BY DEF IInv, TypeOK, Dump
<1>6. /\ listed'[name] = listed[name] + 1
      /\ \A d \in Cards : NameOf[d] # name => listed'[NameOf[d]] = listed[NameOf[d]]
  BY <1>4, <1>5
<1>7. DumpedAs(name)' = DumpedAs(name) \cup {c} /\ c \notin DumpedAs(name)
  BY <1>3 DEF DumpedAs
<1>8. \A d \in Cards : NameOf[d] # name => DumpedAs(NameOf[d])' = DumpedAs(NameOf[d])
  BY <1>3 DEF DumpedAs
<1>9. /\ Cardinality(DumpedAs(name)) \in Nat
      /\ Cardinality(DumpedAs(name)') = Cardinality(DumpedAs(name)) + 1
      /\ Cardinality(DumpedAs(name)) < Letters
  <2>1. DumpedAs(name)' \in SUBSET Cards
    BY <1>7 DEF DumpedAs, DumpedHere, Counted
  <2>2. Cardinality(DumpedAs(name)') <= Cardinality(Cards)
    BY <2>1, IsaPnpAssumption, FS_Subset
  <2>3. Cardinality(DumpedAs(name) \cup {c}) = Cardinality(DumpedAs(name)) + 1
    BY <1>7, CountedFinite, FS_AddElement
  <2> QED BY <1>7, <2>2, <2>3, CountedFinite, IsaPnpAssumption
<1>10. Letters \in Nat \ {0} /\ listed[name] \in Nat
  BY <1>4, <1>5, IsaPnpAssumption
<1> HIDE DEF name
<1>11. ASSUME NEW d \in DumpedHere, d \notin lost PROVE FileKept(d)'
  <2>1. d \in Cards /\ NameOf[d] \in Names
    BY <1>4, <1>11 DEF DumpedHere, Counted
  <2>2. PICK m \in Nat : /\ m < listed[NameOf[d]]
                         /\ listed[NameOf[d]] <= m + Cardinality(DumpedAs(NameOf[d]))
                         /\ files[<<NameOf[d], m % Letters>>] = {d}
    BY <1>11 DEF DInv, FilesKept, FileKept, Active
  <2>3. m % Letters \in 0 .. Letters - 1
    BY <1>10, DivMod
  <2>4. /\ m < listed'[NameOf[d]]
        /\ listed'[NameOf[d]] <= m + Cardinality(DumpedAs(NameOf[d])')
    BY <1>6, <1>8, <1>9, <1>10, <2>1, <2>2
  <2>5. <<NameOf[d], m % Letters>> # <<name, listed[name] % Letters>>
    BY <1>9, <1>10, <2>2, ModApart
  <2>6. files'[<<NameOf[d], m % Letters>>] = {d}
    BY <1>5, <2>1, <2>2, <2>3, <2>5 DEF Dump, name
  <2> QED BY <2>4, <2>6 DEF FileKept
<1>12. ASSUME c \notin lost' PROVE FileKept(c)'
  <2>1. listed[name] % Letters \in 0 .. Letters - 1
    BY <1>10, DivMod
  <2>2. files' = [files EXCEPT ![<<name, listed[name] % Letters>>] = {c}]
    BY <1>1, <1>12 DEF Dump, name
  <2>3. files'[<<name, listed[name] % Letters>>] = {c}
    BY <1>4, <1>5, <2>1, <2>2 DEF name
  <2>4. listed[name] < listed'[name] /\ listed'[name] <= listed[name] + Cardinality(DumpedAs(name)')
    BY <1>6, <1>9, <1>10
  <2> QED BY <1>10, <2>3, <2>4 DEF FileKept, name
<1>13. ASSUME NEW d \in DumpedHere, d \notin lost' PROVE d \notin lost
  <2>1. d # c
    BY <1>3, <1>13
  <2> QED BY <1>1, <1>13, <2>1 DEF Dump
<1> QED BY <1>3, <1>11, <1>12, <1>13

LEMMA NextDInv == IInv /\ DInv /\ [Next]_vars => DInv'
<1> SUFFICES ASSUME IInv, DInv, [Next]_vars PROVE DInv'
  OBVIOUS
<1>1. CASE TryPort
  <2>1. Counted' = {} /\ csn' = 0 /\ pc' \in {"superio", "isolate"}
    BY <1>1 DEF TryPort, Counted
  <2>2. DumpedHere' = {}
    BY <2>1 DEF DumpedHere
  <2> QED BY <2>1, <2>2, FS_EmptySet DEF DInv, CountRight, QuietRound, FilesKept, AllDumped
<1>2. CASE DumpSuperIo
  <2>1. /\ UNCHANGED cards /\ csn' = csn /\ pc = "superio" /\ pc' = "isolate"
        /\ Dump(SuperIo, {SuperIo})
    BY <1>2 DEF DumpSuperIo
  <2>2. Counted' = Counted /\ DumpedHere' = DumpedHere
    BY <2>1 DEF cards, Counted, DumpedHere
  <2>3. ASSUME NEW c \in DumpedHere, c \notin lost', FileKept(c) PROVE FileKept(c)'
    <3>1. c \in Cards /\ NameOf[c] \in Names /\ NameOf[c] # SuperIo
      BY <2>3, CardNames DEF DumpedHere, Counted
    <3>2. listed'[NameOf[c]] = listed[NameOf[c]]
      BY <2>1, <3>1 DEF Dump, IInv, TypeOK
    <3>3. \A i \in 0 .. Letters - 1 : files'[<<NameOf[c], i>>] = files[<<NameOf[c], i>>]
      BY <2>1, <3>1 DEF Dump, IInv, TypeOK
    <3>4. DumpedAs(NameOf[c])' = DumpedAs(NameOf[c])
      BY <2>2 DEF DumpedAs
    <3>5. PICK m \in Nat : /\ m < listed[NameOf[c]]
                           /\ listed[NameOf[c]] <= m + Cardinality(DumpedAs(NameOf[c]))
                           /\ files[<<NameOf[c], m % Letters>>] = {c}
      BY <2>3 DEF FileKept
    <3>6. m % Letters \in 0 .. Letters - 1
      BY DivMod, IsaPnpAssumption
    <3> QED BY <3>2, <3>3, <3>4, <3>5, <3>6 DEF FileKept
  <2>4. ASSUME NEW c \in DumpedHere, c \notin lost' PROVE c \notin lost
    <3>1. c # SuperIo
      BY <2>4, CardNames DEF DumpedHere, Counted
    <3> QED BY <2>1, <2>4, <3>1 DEF Dump
  <2>5. FilesKept'
    BY <2>1, <2>2, <2>3, <2>4 DEF DInv, FilesKept, Active
  <2> QED BY <2>1, <2>2, <2>5 DEF DInv, CountRight, QuietRound, AllDumped, Active
<1>3. CASE StartRound
  <2>1. /\ pc = "isolate" /\ pc' = "read" /\ UNCHANGED <<cardState, cardCsn, csn, dumps>>
        /\ bit' = 1 /\ ~seen55aa' /\ ~garbled'
    BY <1>3 DEF StartRound, cards
  <2>2. Counted' = Counted /\ DumpedHere' = DumpedHere
    BY <2>1 DEF Counted, DumpedHere
  <2>3. FilesKept'
    BY <2>1, <2>2, KeepFiles DEF DInv, Active
  <2>4. QuietRound'
    BY <2>1, <2>2 DEF QuietRound, Counted, IInv, BetweenRounds
  <2> QED BY <2>1, <2>2, <2>3, <2>4 DEF DInv, CountRight, AllDumped, Active
<1>4. CASE ReadPair
  <2>1. /\ pc = "read" /\ pc' = "read" /\ bit <= NBits /\ bit' = bit + 1
        /\ UNCHANGED <<cardCsn, noisy, port, csn, dumps>>
    BY <1>4 DEF ReadPair
  <2>2. Counted' = Counted /\ DumpedHere' = DumpedHere
    BY <2>1 DEF Counted, DumpedHere
  <2>3. FilesKept'
    BY <2>1, <2>2, KeepFiles DEF DInv, Active
  <2>4. PICK pattern \in Patterns :
          /\ seen55aa' = (seen55aa \/ pattern = "55aa")
          /\ garbled' = (garbled \/ (pattern = "55aa") # (Driving # {}))
          /\ cardState' = AfterPair(pattern)
    BY <1>4 DEF ReadPair
  <2>5. QuietRound'
    <3> SUFFICES ASSUME port \notin noisy
                 PROVE  /\ ~garbled'
                        /\ ~seen55aa' => \A c \in Cards \ Counted :
                             /\ cardState'[c] = "Isolation"
                             /\ \A b \in 1 .. bit' - 1 : Serial[c][b] = 0
      BY <2>1, <2>2 DEF QuietRound
    <3>1. (pattern = "55aa") = (Driving # {})
      BY <2>4 DEF Patterns
    <3>2. ~garbled'
      BY <2>1, <2>4, <3>1 DEF DInv, QuietRound
    <3>3. ASSUME ~seen55aa', NEW c \in Cards \ Counted
          PROVE  /\ cardState'[c] = "Isolation"
                 /\ \A b \in 1 .. bit' - 1 : Serial[c][b] = 0
      <4>1. pattern # "55aa" /\ ~seen55aa
        BY <2>4, <3>3
      <4>2. cardState[c] = "Isolation" /\ \A b \in 1 .. bit - 1 : Serial[c][b] = 0
        BY <2>1, <3>3, <4>1 DEF DInv, QuietRound
      <4>3. cardState'[c] = "Isolation"
        BY <2>4, <4>1, <4>2 DEF AfterPair
      <4>4. Serial[c][bit] = 0
        <5>1. c \notin Driving
          BY <3>1, <4>1
        <5>2. Serial[c][bit] # 1
          BY <4>2, <5>1 DEF Driving, InState
        <5>3. bit \in Bits /\ Serial[c] \in [Bits -> {0, 1}]
          BY <2>1, IsaPnpAssumption DEF IInv, TypeOK, Bits
        <5> QED BY <5>2, <5>3
      <4>5. \A b \in 1 .. bit' - 1 : b = bit \/ b \in 1 .. bit - 1
        BY <2>1 DEF IInv, TypeOK
      <4> QED BY <4>2, <4>3, <4>4, <4>5
    <3> QED BY <3>2, <3>3
  <2> QED BY <2>1, <2>2, <2>3, <2>5 DEF DInv, CountRight, AllDumped, Active
<1>5. CASE NoMoreCards
  <2>1. /\ pc = "read" /\ bit > NBits /\ ~seen55aa /\ pc' = "close"
        /\ csn' = IF csn = 0 /\ seenLife THEN -1 ELSE csn
        /\ UNCHANGED <<cardCsn, noisy, port, dumps>>
    BY <1>5 DEF NoMoreCards, cards
  <2>2. ASSUME csn' >= 0, port \notin noisy, Cardinality(Cards) <= Letters
        PROVE  /\ csn' = Cardinality(Cards)
               /\ \A c \in Cards \ lost :
                    \E i \in 0 .. Letters - 1 : files[<<NameOf[c], i>>] = {c}
    <3>1. Counted = Cards
      BY <2>1, <2>2, AllAreCounted
    <3>2. csn' = Cardinality(Cards)
      BY <2>1, <2>2, <3>1 DEF DInv, CountRight, Active
    <3>3. ASSUME NEW c \in Cards \ lost
          PROVE  \E i \in 0 .. Letters - 1 : files[<<NameOf[c], i>>] = {c}
      <4>1. FileKept(c)
        BY <2>1, <2>2, <3>1, <3>3 DEF DInv, FilesKept, Active, DumpedHere
      <4>2. PICK m \in Nat : files[<<NameOf[c], m % Letters>>] = {c}
        BY <4>1 DEF FileKept
      <4>3. m % Letters \in 0 .. Letters - 1
        BY DivMod, IsaPnpAssumption
      <4> QED BY <4>2, <4>3
    <3> QED BY <3>2, <3>3
  <2>3. AllDumped'
    BY <2>1, <2>2 DEF AllDumped, dumps
  <2> QED BY <2>1, <2>3 DEF DInv, CountRight, QuietRound, FilesKept, Active
<1>6. CASE BadChecksum
  BY <1>6 DEF BadChecksum, DInv, CountRight, QuietRound, FilesKept, AllDumped, Active
<1>7. CASE Assign
  <2>1. /\ pc = "read" /\ pc' = "dump" /\ csn' = csn + 1
        /\ cardCsn' = Numbered(csn') /\ UNCHANGED <<noisy, port, dumps>>
    BY <1>7 DEF Assign
  <2>2. PICK c \in Cards : InState("Isolation") = {c}
    BY <1>7, OneIsLeft DEF Assign
  <2>3. csn \in Nat /\ cardCsn[c] = 0 /\ \A d \in Cards : cardCsn[d] \in Nat /\ cardCsn[d] <= csn
    BY <2>1, <2>2 DEF IInv, Round, Counting, CsnsDiffer, TypeOK
  <2>4. \A d \in Cards : cardCsn'[d] = IF d = c THEN csn + 1 ELSE cardCsn[d]
    BY <2>1, <2>2 DEF Numbered, InState
  <2>5. Counted' = Counted \cup {c} /\ c \notin Counted
    BY <2>3, <2>4 DEF Counted
  <2>6. csn' = Cardinality(Counted') /\ csn' # 0
    <3>1. csn = Cardinality(Counted)
      BY <2>1 DEF DInv, CountRight, Active
    <3>2. Cardinality(Counted \cup {c}) = Cardinality(Counted) + 1
      BY <2>5, CountedFinite, FS_AddElement
    <3> QED BY <2>1, <2>3, <2>5, <3>1, <3>2
  <2>7. DumpedHere = Counted
    BY <2>1 DEF DumpedHere
  <2>8. \A d \in Counted : d \in Cards /\ cardCsn'[d] # csn'
    BY <2>1, <2>3, <2>4, <2>5 DEF Counted
  <2>9. DumpedHere' = DumpedHere
    BY <2>1, <2>4, <2>5, <2>7, <2>8 DEF DumpedHere
  <2>10. FilesKept'
    BY <2>1, <2>9, KeepFiles DEF DInv, Active
  <2> QED BY <2>1, <2>6, <2>10 DEF DInv, CountRight, QuietRound, AllDumped
<1>8. CASE DumpCard
  <2>1. /\ pc = "dump" /\ pc' = "isolate" /\ UNCHANGED <<cardCsn, csn>>
    BY <1>8 DEF DumpCard
  <2>2. FilesKept'
    BY <1>8, <2>1, DumpKeeps DEF FilesKept
  <2>3. Counted' = Counted
    BY <2>1 DEF Counted
  <2> QED BY <2>1, <2>2, <2>3 DEF DInv, CountRight, QuietRound, AllDumped, Active
<1>9. CASE Close
  BY <1>9 DEF Close, DInv, CountRight, QuietRound, FilesKept, AllDumped, Active, dumps
<1>10. CASE UNCHANGED vars
  <2>1. /\ UNCHANGED <<cardState, cardCsn, noisy, pc, port, csn, dumps>>
        /\ UNCHANGED <<bit, seen55aa, garbled>>
    BY <1>10 DEF vars, cards, round
  <2>2. Counted' = Counted /\ DumpedHere' = DumpedHere
    BY <2>1 DEF Counted, DumpedHere
  <2>3. FilesKept'
    <3>1. CASE Active
      BY <2>1, <2>2, <3>1, KeepFiles DEF DInv
    <3>2. CASE ~Active
      BY <2>1, <3>2 DEF FilesKept, Active
    <3> QED BY <3>1, <3>2
  <2>4. CountRight' /\ QuietRound'
    BY <2>1, <2>2 DEF DInv, CountRight, QuietRound, Active
  <2>5. AllDumped'
    BY <2>1 DEF DInv, AllDumped, dumps
  <2> QED BY <2>3, <2>4, <2>5 DEF DInv
<1>11. QED
  BY <1>1, <1>2, <1>3, <1>4, <1>5, <1>6, <1>7, <1>8, <1>9, <1>10
     DEF Next, Step, Ended

(* isapnp on a port that nothing else answers on: its count is the number  *)
(* of cards, and each card has a file of its own that was read from it and *)
(* from no other, whatever files the ports tried before have left.         *)
THEOREM AllCardsDumped == Spec => []EveryCardDumped
<1>1. DInv => EveryCardDumped
  BY DEF DInv, AllDumped, EveryCardDumped
<1>2. Spec => [](IInv /\ DInv)
  BY InitIInv, NextIInv, InitDInv, NextDInv, PTL DEF Spec
<1> QED BY <1>1, <1>2, PTL

(* Cards, numbers, letters and the list of dumps stay within their types.  *)
THEOREM IsolationTypes == Spec => []TypeOK
<1>1. IInv => TypeOK
  BY DEF IInv
<1> QED BY <1>1, Invariance, PTL

(* Exactly the card whose identifier was read answers while its resource   *)
(* data is dumped.                                                         *)
THEOREM DumpsOneCard == Spec => []OneCardAnswers
<1>1. IInv => OneCardAnswers
  BY DEF IInv
<1>2. QED BY <1>1, Invariance, PTL

(* Card select numbers are never shared.                                   *)
THEOREM NumbersAreUnique == Spec => []CsnsDiffer
<1>1. IInv => CsnsDiffer
  BY DEF IInv
<1>2. QED BY <1>1, Invariance, PTL

(* Every way out leaves all cards in Wait for Key.                         *)
THEOREM LeavesBusQuiet == Spec => []QuietAtExit
<1>1. IInv => QuietAtExit
  BY DEF IInv
<1>2. QED BY <1>1, Invariance, PTL
=============================================================================
