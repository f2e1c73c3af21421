--------------------------- MODULE KbcProbeProofs ---------------------------
(***************************************************************************)
(* What holds of KbcProbe for any number of failures, anywhere.  The dump  *)
(* and the file do not depend on which tests the scripts hold.  The        *)
(* command byte does: first comes what each round of the scripts begins    *)
(* and ends with.                                                          *)
(***************************************************************************)
EXTENDS KbcProbe, SequenceTheorems, TLAPS

(* The scripts: what they are put together from, and where the saves and   *)
(* the restores of the command byte are.                                   *)
Names ==
  {"20", "60", "ad", "a0", "a1", "ae", "af", "00", "ca", "cb", "c0", "c1",
   "b2", "d0", "d1", "e1", "ef", "d5", "d6", "d7", "data", "saved", "77",
   "bb", "df"}
Tests ==
  {x \in [cmd : Names, var : Names] :
     /\ x.cmd = "60" => x.var \in {"saved", "df"}
     /\ x.cmd = "af" => x.var \in {"77", "bb"}}

Joins(u, s, t) ==
  /\ Len(u) = Len(s) + Len(t)
  /\ \A k \in 1 .. Len(s) : u[k] = s[k]
  /\ \A k \in 1 .. Len(t) : u[k + Len(s)] = t[k]

LEMMA Joined ==
  ASSUME NEW S, NEW s \in Seq(S), NEW t \in Seq(S)
  PROVE  s \o t \in Seq(S) /\ Joins(s \o t, s, t)
  BY ConcatProperties DEF Joins

LEMMA Typed ==
  /\ \A c \in Names : c \notin {"60", "af"} => Do(c) \in Tests
  /\ With("20", "saved") \in Tests /\ With("60", "saved") \in Tests
  /\ With("60", "df") \in Tests
  /\ \A n \in {"77", "bb"} : With("af", n) \in Tests
<1>1. \A c \in Names : c \notin {"60", "af"} => Do(c) \in Tests
  BY DEF Do, Tests, Names
<1>2. /\ With("20", "saved") \in Tests /\ With("60", "saved") \in Tests
      /\ With("60", "df") \in Tests
  BY DEF With, Tests, Names
<1>3. \A n \in {"77", "bb"} : With("af", n) \in Tests
  BY DEF With, Tests, Names
<1> QED BY <1>1, <1>2, <1>3

LEMMA Round1Tests == Round1 \in Seq(Tests) /\ Len(Round1) = 4
<1>1. Do("ad") \in Tests /\ Do("a0") \in Tests /\ Do("a1") \in Tests /\ Do("ae") \in Tests
  BY Typed DEF Names
<1> QED BY <1>1 DEF Round1

LEMMA ReadBackTests ==
  ASSUME NEW n \in {"77", "bb"}
  PROVE  ReadBack(n) \in Seq(Tests) /\ Len(ReadBack(n)) = 7
<1>1. /\ With("20", "saved") \in Tests /\ With("60", "saved") \in Tests
      /\ Do("ad") \in Tests /\ Do("20") \in Tests /\ Do("00") \in Tests /\ Do("ae") \in Tests
      /\ With("af", n) \in Tests
  BY Typed DEF Names
<1> QED BY <1>1 DEF ReadBack

LEMMA Round4Tests ==
  /\ Round4 \in Seq(Tests) /\ Len(Round4) = 22
  /\ Round4[1] = With("20", "saved")
  /\ Round4[22] = With("60", "saved")
  /\ \A k \in 2 .. 21 : Round4[k].var # "saved"
<1> DEFINE head == <<With("20", "saved"), Do("ad"), With("60", "df")>>
           tail == <<Do("ae"), With("60", "saved")>>
           most == head \o Ports
<1>1. /\ With("20", "saved") \in Tests /\ Do("ad") \in Tests /\ With("60", "df") \in Tests
      /\ Do("ae") \in Tests /\ With("60", "saved") \in Tests
      /\ \A c \in {"ca", "cb", "c0", "c1", "b2", "d0", "d1", "e1", "ef"} : Do(c) \in Tests
  BY Typed DEF Names
<1>2. Ports \in Seq(Tests) /\ Len(Ports) = 17
  BY <1>1 DEF Ports
<1>3. \A k \in 1 .. 17 : Ports[k].var = "data"
  BY DEF Ports, Do
<1>4. head \in Seq(Tests) /\ tail \in Seq(Tests) /\ Len(head) = 3 /\ Len(tail) = 2
  BY <1>1
<1>5. /\ head[1] = With("20", "saved") /\ tail[2] = With("60", "saved")
      /\ head[2].var = "data" /\ head[3].var = "df" /\ tail[1].var = "data"
  BY DEF With, Do
<1>6. Round4 = most \o tail
  BY DEF Round4
<1> HIDE DEF head, tail
<1>7. Joins(most, head, Ports) /\ most \in Seq(Tests)
  BY <1>2, <1>4, Joined
<1> HIDE DEF most
<1>8. Joins(Round4, most, tail) /\ Round4 \in Seq(Tests)
  BY <1>4, <1>6, <1>7, Joined
<1>9. /\ Len(most) = 20
      /\ \A k \in 1 .. 3 : most[k] = head[k]
      /\ \A k \in 1 .. 17 : most[k + 3] = Ports[k]
  BY <1>2, <1>4, <1>7 DEF Joins
<1>10. /\ Len(Round4) = 22
       /\ \A k \in 1 .. 20 : Round4[k] = most[k]
       /\ \A k \in 1 .. 2 : Round4[k + 20] = tail[k]
  BY <1>4, <1>8, <1>9 DEF Joins
<1>11. /\ Round4[1] = head[1] /\ Round4[2] = head[2] /\ Round4[3] = head[3]
       /\ Round4[1 + 20] = tail[1] /\ Round4[2 + 20] = tail[2]
  BY <1>9, <1>10
<1>12. Round4[21] = tail[1] /\ Round4[22] = tail[2]
  BY <1>11
<1>13. ASSUME NEW k \in 2 .. 21 PROVE Round4[k].var # "saved"
  <2>1. CASE k \in 4 .. 20
    <3>1. k - 3 \in 1 .. 17 /\ (k - 3) + 3 = k /\ k \in 1 .. 20
      BY <2>1
    <3>2. most[(k - 3) + 3] = Ports[k - 3] /\ Round4[k] = most[k]
      BY <3>1, <1>9, <1>10
    <3> QED BY <3>1, <3>2, <1>3
  <2>2. CASE k \in {2, 3, 21}
    BY <2>2, <1>5, <1>11, <1>12
  <2> QED BY <2>1, <2>2
<1> QED BY <1>5, <1>8, <1>10, <1>11, <1>12, <1>13

LEMMA AmiKeyTests ==
  /\ AmiKeyScript \in Seq(Tests) /\ Len(AmiKeyScript) = 40
  /\ \A k \in 1 .. 4 : AmiKeyScript[k] = Round1[k]
  /\ \A k \in 1 .. 7 : AmiKeyScript[k + 4] = ReadBack("77")[k]
  /\ \A k \in 1 .. 7 : AmiKeyScript[k + 11] = ReadBack("bb")[k]
  /\ \A k \in 1 .. 22 : AmiKeyScript[k + 18] = Round4[k]
<1> DEFINE second == ReadBack("77")
           third == ReadBack("bb")
           two == Round1 \o second
           three == two \o third
<1>1. second \in Seq(Tests) /\ third \in Seq(Tests) /\ Len(second) = 7 /\ Len(third) = 7
  BY ReadBackTests DEF Names
<1>2. AmiKeyScript = three \o Round4
  BY DEF AmiKeyScript
<1> HIDE DEF second, third
<1>3. Joins(two, Round1, second) /\ two \in Seq(Tests)
  BY <1>1, Round1Tests, Joined
<1> HIDE DEF two
<1>4. Joins(three, two, third) /\ three \in Seq(Tests)
  BY <1>1, <1>3, Joined
<1> HIDE DEF three
<1>5. Joins(AmiKeyScript, three, Round4) /\ AmiKeyScript \in Seq(Tests)
  BY <1>2, <1>4, Round4Tests, Joined
<1>6. /\ Len(two) = 11
      /\ \A k \in 1 .. 4 : two[k] = Round1[k]
      /\ \A k \in 1 .. 7 : two[k + 4] = second[k]
  BY <1>1, <1>3, Round1Tests DEF Joins
<1>7. /\ Len(three) = 18
      /\ \A k \in 1 .. 11 : three[k] = two[k]
      /\ \A k \in 1 .. 7 : three[k + 11] = third[k]
  BY <1>1, <1>4, <1>6 DEF Joins
<1>8. /\ Len(AmiKeyScript) = 40
      /\ \A k \in 1 .. 18 : AmiKeyScript[k] = three[k]
      /\ \A k \in 1 .. 22 : AmiKeyScript[k + 18] = Round4[k]
  BY <1>5, <1>7, Round4Tests DEF Joins
<1>9. \A k \in 1 .. 7 : k + 4 \in 1 .. 11 /\ k + 4 \in 1 .. 18 /\ k + 11 \in 1 .. 18
  OBVIOUS
<1>10. \A k \in 1 .. 7 : AmiKeyScript[k + 4] = second[k] /\ AmiKeyScript[k + 11] = third[k]
  BY <1>6, <1>7, <1>8, <1>9
<1>11. \A k \in 1 .. 4 : AmiKeyScript[k] = Round1[k]
  BY <1>6, <1>7, <1>8
<1> QED BY <1>5, <1>8, <1>10, <1>11 DEF second, third

(* The first test of round r, counted from 0, is the one after Start.      *)
Start(t, r) == IF r = 0 THEN 0 ELSE RoundEndsOf(t)[r]
LastRound(t) == Len(RoundEndsOf(t))

LEMMA Places ==
  ASSUME NEW t \in Tools
  PROVE  /\ ScriptOf(t) \in Seq(Tests)
         /\ IF t = "MULTIKEY"
            THEN /\ ScriptOf(t) = MultiKeyScript /\ Len(ScriptOf(t)) = 5
                 /\ LastRound(t) = 1 /\ Start(t, 0) = 0 /\ Start(t, 1) = 5
            ELSE /\ ScriptOf(t) = AmiKeyScript /\ Len(ScriptOf(t)) = 40
                 /\ LastRound(t) = 4 /\ Start(t, 0) = 0 /\ Start(t, 1) = 4
                 /\ Start(t, 2) = 11 /\ Start(t, 3) = 18 /\ Start(t, 4) = 40
<1>1. MultiKeyScript \in Seq(Tests) /\ Len(MultiKeyScript) = 5
  <2>1. /\ Do("ad") \in Tests /\ Do("d5") \in Tests /\ Do("d6") \in Tests
        /\ Do("d7") \in Tests /\ Do("ae") \in Tests
    BY Typed DEF Names
  <2> QED BY <2>1 DEF MultiKeyScript
<1>2. CASE t = "MULTIKEY"
  <2>1. ScriptOf(t) = MultiKeyScript /\ RoundEndsOf(t) = <<5>>
    BY <1>1, <1>2 DEF ScriptOf, RoundEndsOf
  <2> QED BY <1>1, <1>2, <2>1 DEF Start, LastRound
<1>3. CASE t # "MULTIKEY"
  <2>1. ScriptOf(t) = AmiKeyScript /\ RoundEndsOf(t) = <<4, 11, 18, 40>>
    BY AmiKeyTests, <1>3 DEF ScriptOf, RoundEndsOf
  <2> QED BY AmiKeyTests, <1>3, <2>1 DEF Start, LastRound
<1> QED BY <1>2, <1>3

LEMMA RoundPlaces ==
  ASSUME NEW t \in Tools
  PROVE  /\ ScriptOf(t) \in Seq(Tests)
         /\ Len(ScriptOf(t)) \in Nat
         /\ 2 * Len(ScriptOf(t)) = DumpSizeOf(t)
         /\ LastRound(t) \in Nat /\ LastRound(t) > 0
         /\ Start(t, LastRound(t)) = Len(ScriptOf(t))
         /\ \A r \in 0 .. LastRound(t) :
              Start(t, r) \in Nat /\ Start(t, r) <= Len(ScriptOf(t))
         /\ \A r \in Nat : r < LastRound(t) => Start(t, r) < Start(t, r + 1)
<1>1. \A r \in 0 .. 4 : r = 0 \/ r = 1 \/ r = 2 \/ r = 3 \/ r = 4
  OBVIOUS
<1>2. \A r \in Nat : r < 4 => r = 0 \/ r = 1 \/ r = 2 \/ r = 3
  OBVIOUS
<1>3. CASE t = "MULTIKEY"
  <2>1. \A r \in 0 .. 1 : r = 0 \/ r = 1
    OBVIOUS
  <2>2. \A r \in Nat : r < 1 => r = 0
    OBVIOUS
  <2>3. /\ Len(ScriptOf(t)) = 5 /\ LastRound(t) = 1 /\ Start(t, 0) = 0 /\ Start(t, 1) = 5
        /\ DumpSizeOf(t) = 10 /\ ScriptOf(t) \in Seq(Tests)
    BY <1>3, Places DEF DumpSizeOf
  <2>4. \A r \in 0 .. 1 : Start(t, r) \in Nat /\ Start(t, r) <= 5
    BY <2>1, <2>3
  <2>5. \A r \in Nat : r < 1 => Start(t, r) < Start(t, r + 1)
    BY <2>2, <2>3
  <2>6. 2 * Len(ScriptOf(t)) = DumpSizeOf(t)
    BY <2>3
  <2>7. Start(t, LastRound(t)) = Len(ScriptOf(t))
    BY <2>3
  <2> QED BY <2>3, <2>4, <2>5, <2>6, <2>7
<1>4. CASE t # "MULTIKEY"
  <2>1. \A r \in 0 .. 4 : Start(t, r) \in Nat /\ Start(t, r) <= 40
    BY <1>1, <1>4, Places
  <2>2. \A r \in Nat : r < 4 => Start(t, r) < Start(t, r + 1)
    BY <1>2, <1>4, Places
  <2>3. /\ Len(ScriptOf(t)) = 40 /\ LastRound(t) = 4 /\ Start(t, 4) = 40
        /\ DumpSizeOf(t) = 80 /\ ScriptOf(t) \in Seq(Tests)
    BY <1>4, Places DEF DumpSizeOf
  <2>6. 2 * Len(ScriptOf(t)) = DumpSizeOf(t)
    BY <2>3
  <2>7. Start(t, LastRound(t)) = Len(ScriptOf(t))
    BY <2>3
  <2> QED BY <2>1, <2>2, <2>3, <2>6, <2>7
<1> QED BY <1>3, <1>4

(* The first round never touches the command byte but for the keyboard,    *)
(* and enables that last; the others save it first and restore it last.    *)
IsRound(t, r, k) ==
  IF r = 0
  THEN /\ ScriptOf(t)[k].cmd \notin {"20", "60", "af"}
       /\ ScriptOf(t)[k].var # "saved"
       /\ k = Start(t, 1) => ScriptOf(t)[k].cmd = "ae"
  ELSE /\ k = Start(t, r) + 1 => ScriptOf(t)[k] = With("20", "saved")
       /\ k = Start(t, r + 1) => ScriptOf(t)[k] = With("60", "saved")
       /\ k # Start(t, r) + 1 /\ k # Start(t, r + 1) =>
            ScriptOf(t)[k].var # "saved"

LEMMA ReadBackRound ==
  ASSUME NEW t \in Tools, NEW r \in Nat \ {0}, NEW n \in {"77", "bb"},
         Start(t, r) \in Nat, Start(t, r + 1) = Start(t, r) + 7,
         \A i \in 1 .. 7 : ScriptOf(t)[i + Start(t, r)] = ReadBack(n)[i],
         NEW k \in Nat, Start(t, r) < k, k <= Start(t, r + 1)
  PROVE  IsRound(t, r, k)
<1> DEFINE i == k - Start(t, r)
<1>1. i \in 1 .. 7 /\ i + Start(t, r) = k
  OBVIOUS
<1>2. ScriptOf(t)[k] = ReadBack(n)[i]
  <2> HIDE DEF i
  <2> QED BY <1>1
<1>3. /\ ReadBack(n)[1] = With("20", "saved") /\ ReadBack(n)[7] = With("60", "saved")
      /\ \A j \in 2 .. 6 : ReadBack(n)[j].var # "saved"
  BY DEF ReadBack, Do, With
<1>4. /\ i = 1 <=> k = Start(t, r) + 1
      /\ i = 7 <=> k = Start(t, r + 1)
      /\ i # 1 /\ i # 7 => i \in 2 .. 6
  BY <1>1
<1>5. r # 0
  OBVIOUS
<1> HIDE DEF i
<1> QED BY <1>2, <1>3, <1>4, <1>5 DEF IsRound

LEMMA RoundTests ==
  ASSUME NEW t \in Tools, NEW r \in Nat, r < LastRound(t),
         NEW k \in Nat, Start(t, r) < k, k <= Start(t, r + 1)
  PROVE  IsRound(t, r, k)
<1>1. CASE t = "MULTIKEY"
  <2>1. r = 0 /\ k \in 1 .. 5
    <3>1. LastRound(t) = 1 /\ Start(t, 0) = 0 /\ Start(t, 1) = 5
      BY <1>1, Places
    <3>2. r = 0
      BY <3>1
    <3> QED BY <3>1, <3>2
  <2> QED BY <1>1, <2>1, Places DEF MultiKeyScript, Do, IsRound
<1>2. CASE t # "MULTIKEY"
  <2>1. /\ ScriptOf(t) = AmiKeyScript /\ LastRound(t) = 4 /\ Start(t, 0) = 0
        /\ Start(t, 1) = 4 /\ Start(t, 2) = 11 /\ Start(t, 3) = 18 /\ Start(t, 4) = 40
    BY <1>2, Places
  <2>2. r = 0 \/ r = 1 \/ r = 2 \/ r = 3
    BY <2>1
  <2>3. CASE r = 0
    <3>1. k \in 1 .. 4
      BY <2>1, <2>3
    <3>2. ScriptOf(t)[k] = Round1[k]
      BY <2>1, <3>1, AmiKeyTests
    <3>3. /\ Round1[k].cmd \in {"ad", "a0", "a1", "ae"} /\ Round1[k].var = "data"
          /\ k = 4 => Round1[k].cmd = "ae"
      BY <3>1 DEF Round1, Do
    <3> QED BY <2>1, <2>3, <3>2, <3>3 DEF IsRound
  <2>4. CASE r = 1
    <3>1. Start(t, r) = 4 /\ Start(t, r + 1) = 4 + 7 /\ "77" \in {"77", "bb"}
      BY <2>1, <2>4 DEF Names
    <3>2. \A i \in 1 .. 7 : ScriptOf(t)[i + Start(t, r)] = ReadBack("77")[i]
      BY <2>1, <3>1, AmiKeyTests
    <3>3. Start(t, r) \in Nat /\ Start(t, r + 1) = Start(t, r) + 7
      BY <3>1
    <3> QED BY <2>4, <3>1, <3>2, <3>3, r \in Nat \ {0}, ReadBackRound
  <2>5. CASE r = 2
    <3>1. Start(t, r) = 11 /\ Start(t, r + 1) = 11 + 7 /\ "bb" \in {"77", "bb"}
      BY <2>1, <2>5 DEF Names
    <3>2. \A i \in 1 .. 7 : ScriptOf(t)[i + Start(t, r)] = ReadBack("bb")[i]
      BY <2>1, <3>1, AmiKeyTests
    <3>3. Start(t, r) \in Nat /\ Start(t, r + 1) = Start(t, r) + 7
      BY <3>1
    <3> QED BY <2>5, <3>1, <3>2, <3>3, r \in Nat \ {0}, ReadBackRound
  <2>6. CASE r = 3
    <3>1. /\ Start(t, r) = 18 /\ Start(t, r + 1) = 40
          /\ k - 18 \in 1 .. 22 /\ (k - 18) + 18 = k
      BY <2>1, <2>6
    <3>2. AmiKeyScript[k] = Round4[k - 18]
      <4>1. AmiKeyScript[(k - 18) + 18] = Round4[k - 18]
        BY <3>1, AmiKeyTests
      <4> QED BY <3>1, <4>1
    <3>3. /\ k - 18 = 1 <=> k = 18 + 1
          /\ k - 18 = 22 <=> k = 40
          /\ k - 18 # 1 /\ k - 18 # 22 => k - 18 \in 2 .. 21
      BY <3>1
    <3> DEFINE i == k - 18
    <3>4. /\ i = 1 <=> k = Start(t, r) + 1
          /\ i = 22 <=> k = Start(t, r + 1)
          /\ i # 1 /\ i # 22 => i \in 2 .. 21
      BY <3>1, <3>3
    <3>5. ScriptOf(t)[k] = Round4[i] /\ r # 0
      BY <2>1, <2>6, <3>2
    <3> HIDE DEF i
    <3> QED BY <3>4, <3>5, Round4Tests DEF IsRound
  <2> QED BY <2>2, <2>3, <2>4, <2>5, <2>6
<1> QED BY <1>1, <1>2

-----------------------------------------------------------------------------
InTest == pc \in {"wait", "record", "hung"}

(* The shape of the state: while a test runs the dump ends with its        *)
(* command, otherwise it holds a pair for every test done.                 *)
Shape ==
  /\ tool \in Tools
  /\ pc \in PCs
  /\ done \in Nat
  /\ erl \in Errors
  /\ dump \in Seq(DumpBytes)
  /\ failed \subseteq Nat \X Errors
  /\ Len(dump) = IF InTest THEN 2 * done + 1 ELSE 2 * done
  /\ InTest => dump[2 * done + 1] = Command(Test.cmd)
  /\ \A f \in failed :
       /\ f[1] > 0
       /\ f[1] <= IF pc = "record" THEN done + 1 ELSE done

(* Before store_erl the error level tells what came of the test, but for   *)
(* the commands that keep it when they succeed.                            *)
ErlTellsOutcome ==
  pc = "record" =>
    /\ \A f \in failed : f[1] = done + 1 => f[2] = erl
    /\ erl = NoError \/ Keeps(Test.cmd) \/ <<done + 1, erl>> \in failed

(* JETKEY's file between two saves.                                        *)
FileUpToDate ==
  SaveEach /\ io = "ok" /\ done > 0 =>
    /\ pc \in {"send", "print", "exit"} => file = dump
    /\ InTest => file = SubSeq(dump, 1, 2 * done)

(* The round that runs, and how far it is.                                 *)
Progress ==
  /\ done \in Nat
  /\ printed \in 0 .. LastRound(tool)
  /\ IF printed = LastRound(tool)
     THEN done = Len(Script) /\ pc \in {"open", "write", "close", "exit"}
     ELSE /\ pc # "exit"
          /\ Start(tool, printed) <= done /\ done <= Start(tool, printed + 1)
          /\ pc = "print" => done = Start(tool, printed + 1)
          /\ pc = "send" \/ InTest => done < Start(tool, printed + 1)

(* The number of tests whose command has done what it does.                *)
Effects == IF pc = "record" THEN done + 1 ELSE done

(* The command byte is the original one between two rounds.  In the first  *)
(* one nothing but the keyboard's bit changes, in the others the original  *)
(* is kept in saved_cmd.                                                   *)
Original == Byte("original", FALSE)
Restorable ==
  ~spoilt =>
    /\ Effects = Start(tool, printed) => command = Original
    /\ printed < LastRound(tool) =>
         /\ Effects = Start(tool, printed + 1) => command = Original
         /\ printed = 0 => command.base = "original"
         /\ printed > 0 /\ Effects > Start(tool, printed) => saved = Original

(* The variables the others do not look at.                                *)
Others ==
  /\ saved \in CommandBytes /\ command \in CommandBytes
  /\ Len(file) \in Nat /\ Len(file) <= Len(dump)
  /\ io \in {"none", "ok", "bad"}
  /\ faults \in 0 .. MaxFaults
  /\ shown \subseteq Errors
  /\ spoilt \in BOOLEAN

Dumped == Shape /\ ErlTellsOutcome /\ DumpTellsOutcomes /\ FileUpToDate
IInv == Dumped /\ Progress /\ Restorable /\ Others

-----------------------------------------------------------------------------
(* What was there before an element was added.                             *)
LEMMA SubSeqAppend ==
  ASSUME NEW S, NEW s \in Seq(S), NEW x \in S, NEW n \in Nat, n <= Len(s)
  PROVE  SubSeq(Append(s, x), 1, n) = SubSeq(s, 1, n)
  OBVIOUS

(* One more test is done: it is the last one or an earlier one.            *)
LEMMA LastOrEarlier ==
  ASSUME NEW n \in Nat, NEW k \in Nat, k > 0, k <= n + 1
  PROVE  k \in 1 .. n \/ k = n + 1
  OBVIOUS

(* Errors are of their types, and while tests run so is what they leave.   *)
LEMMA ErrorTypes ==
  NoError \in Errors /\ FileErrors \subseteq Errors /\ Errors \subseteq DumpBytes
  BY DEF Errors, DumpBytes

LEMMA TestTypes ==
  ASSUME tool \in Tools, Progress, pc = "send" \/ InTest
  PROVE  /\ done + 1 \in DOMAIN Script
         /\ Command(Test.cmd) \in DumpBytes
         /\ \A w \in Ways(Test.cmd) : Error(Test.cmd, w) \in Errors
         /\ Test \in Tests
<1>1. printed \in Nat /\ printed < LastRound(tool) /\ printed + 1 \in 0 .. LastRound(tool)
  BY RoundPlaces DEF Progress, InTest
<1>2. done + 1 \in 1 .. Len(Script)
  BY <1>1, RoundPlaces DEF Progress, Script
<1>3. done + 1 \in DOMAIN Script
  BY <1>2, RoundPlaces DEF Script
<1>4. Test \in Tests
  BY <1>2, RoundPlaces, ElementOfSeq DEF Test, Script
<1>5. Test.cmd \in Cmds
  BY <1>3 DEF Cmds, Test, Script
<1> QED BY <1>3, <1>4, <1>5 DEF DumpBytes, Errors

LEMMA InitIInv == Init => IInv
<1> SUFFICES ASSUME Init PROVE IInv
  OBVIOUS
<1> USE DEF Init
<1>1. Dumped
  BY ErrorTypes DEF Dumped, Shape, ErlTellsOutcome, DumpTellsOutcomes, FileUpToDate,
     InTest, PCs
<1>2. /\ LastRound(tool) \in Nat /\ LastRound(tool) > 0
      /\ Start(tool, 0) = 0 /\ Start(tool, 1) > 0 /\ Start(tool, 1) \in Nat
  <2>1. LastRound(tool) \in Nat /\ LastRound(tool) > 0
    BY RoundPlaces
  <2>2. 1 \in 0 .. LastRound(tool) /\ 0 + 1 = 1
    BY <2>1
  <2>3. Start(tool, 0) < Start(tool, 0 + 1)
    BY <2>1, RoundPlaces
  <2> QED BY <2>1, <2>2, <2>3, RoundPlaces DEF Start
<1>3. Progress
  BY <1>2 DEF Progress, InTest
<1>4. Restorable
  BY <1>2 DEF Restorable, Effects, Original, Byte
<1>5. Others
  <2>1. saved \in CommandBytes /\ command \in CommandBytes
    BY DEF CommandBytes, Byte
  <2>2. faults \in 0 .. MaxFaults
    BY KbcProbeAssumption
  <2>3. Len(file) \in Nat /\ Len(file) <= Len(dump)
    OBVIOUS
  <2> QED BY <2>1, <2>2, <2>3 DEF Others
<1> QED BY <1>1, <1>3, <1>4, <1>5 DEF IInv

(* The pairs of the tests done stay as they are when the dump grows.       *)
LEMMA PairsStay ==
  ASSUME Shape, DumpTellsOutcomes, NEW x \in DumpBytes, dump' = Append(dump, x),
         tool' = tool, done' \in Nat, done' = done,
         \A f \in failed' : f \in failed \/ f[1] = done + 1,
         failed \subseteq failed'
  PROVE  DumpTellsOutcomes'
<1>1. \A i \in 1 .. Len(dump) : dump'[i] = dump[i]
  BY AppendProperties DEF Shape
<1>2. \A k \in 1 .. done : 2 * k \in 1 .. Len(dump) /\ 2 * k - 1 \in 1 .. Len(dump)
  BY DEF Shape
<1>3. \A k \in 1 .. done : dump'[2 * k] = dump[2 * k] /\ dump'[2 * k - 1] = dump[2 * k - 1]
  BY <1>1, <1>2
<1>4. \A f \in failed' : f[1] <= done => f \in failed /\ f[1] \in 1 .. done
  BY DEF Shape
<1> QED
  BY <1>3, <1>4 DEF DumpTellsOutcomes, Script, Shape

LEMMA NextDumped == Dumped /\ Progress /\ [Next]_vars => Dumped'
<1> SUFFICES ASSUME Dumped, Progress, [Next]_vars PROVE Dumped'
  OBVIOUS
<1> USE DEF Dumped
<1>t. /\ pc = "send" \/ InTest =>
           /\ done + 1 \in DOMAIN Script
           /\ Command(Test.cmd) \in DumpBytes
           /\ \A w \in Ways(Test.cmd) : Error(Test.cmd, w) \in Errors
      /\ NoError \in Errors
      /\ FileErrors \subseteq Errors
      /\ Errors \subseteq DumpBytes
  BY TestTypes, ErrorTypes DEF Shape
<1>1. CASE Send
  <2> USE <1>1 DEF Send
  <2>1. dump \in Seq(DumpBytes) /\ Len(dump) = 2 * done /\ done \in Nat
    BY DEF Shape, InTest
  <2>2. /\ dump' \in Seq(DumpBytes)
        /\ Len(dump') = Len(dump) + 1
        /\ dump'[Len(dump) + 1] = Command(Test.cmd)
    BY <1>t, <2>1, AppendProperties
  <2>3. Shape'
    BY <2>1, <2>2 DEF Shape, InTest, PCs, Test, Script
  <2>4. DumpTellsOutcomes'
    BY <1>t, <2>1, PairsStay
  <2>5. FileUpToDate'
    <3>1. SubSeq(dump', 1, 2 * done) = SubSeq(dump, 1, 2 * done)
      BY <1>t, <2>1, SubSeqAppend
    <3>2. SubSeq(dump, 1, 2 * done) = dump
      BY <2>1, SubSeqFull
    <3> QED BY <3>1, <3>2 DEF FileUpToDate, InTest, SaveEach
  <2> QED BY <2>3, <2>4, <2>5 DEF ErlTellsOutcome
<1>2. CASE pc = "wait" /\ Answered
  <2> USE <1>2 DEF Answered
  <2>1. Shape'
    BY <1>t DEF Shape, InTest, PCs, Test, Script
  <2>2. ErlTellsOutcome'
    BY DEF ErlTellsOutcome, Shape, Test, Script
  <2>3. DumpTellsOutcomes'
    BY DEF DumpTellsOutcomes, Script
  <2>4. FileUpToDate'
    BY DEF FileUpToDate, InTest, SaveEach
  <2> QED BY <2>1, <2>2, <2>3, <2>4
<1>3. CASE pc = "wait" /\ Hang
  <2> USE <1>3 DEF Hang
  <2>1. Shape'
    BY DEF Shape, InTest, PCs, Test, Script
  <2>2. DumpTellsOutcomes'
    BY DEF DumpTellsOutcomes, Script
  <2>3. FileUpToDate'
    BY DEF FileUpToDate, InTest, SaveEach
  <2> QED BY <2>1, <2>2, <2>3 DEF ErlTellsOutcome
<1>4. ASSUME pc = "wait", NEW way \in Ways(Test.cmd), TimesOut(way)
      PROVE  Dumped'
  <2> USE <1>4 DEF TimesOut
  <2>1. failed' = failed \cup {<<done + 1, Error(Test.cmd, way)>>}
    OBVIOUS
  <2>2. Shape'
    BY <1>t, <2>1 DEF Shape, InTest, PCs, Test, Script
  <2>3. ErlTellsOutcome'
    BY <2>1 DEF ErlTellsOutcome, Shape, Test, Script
  <2>4. DumpTellsOutcomes'
    <3>1. UNCHANGED <<done, dump, Script>> /\ done \in Nat
      BY DEF Shape, Script
    <3>2. failed \subseteq failed' /\ \A f \in failed' : f[1] <= done => f \in failed
      <4>1. \A f \in failed' : f \in failed \/ f[1] = done + 1
        BY <2>1
      <4>2. ~ (done + 1 <= done)
        BY <3>1
      <4> QED BY <2>1, <4>1, <4>2
    <3> QED BY <3>1, <3>2 DEF DumpTellsOutcomes
  <2>5. FileUpToDate'
    BY DEF FileUpToDate, InTest, SaveEach
  <2> QED BY <2>2, <2>3, <2>4, <2>5
<1>5. CASE StoreErl
  <2> USE <1>5 DEF StoreErl
  <2>1. dump \in Seq(DumpBytes) /\ Len(dump) = 2 * done + 1 /\ done \in Nat
        /\ erl \in DumpBytes
    BY <1>t DEF Shape, InTest
  <2>2. /\ dump' \in Seq(DumpBytes)
        /\ Len(dump') = Len(dump) + 1
        /\ \A i \in 1 .. Len(dump) : dump'[i] = dump[i]
        /\ dump'[2 * done + 2] = erl
    BY <2>1, AppendProperties
  <2>3. pc' \in {"open", "print", "send"}
    BY DEF After
  <2>4. Shape'
    BY <2>1, <2>2, <2>3 DEF Shape, InTest, PCs
  <2>5. DumpTellsOutcomes'
    <3>1. \A k \in 1 .. done : 2 * k \in 1 .. Len(dump) /\ 2 * k - 1 \in 1 .. Len(dump)
      BY <2>1
    <3>2. \A k \in 1 .. done : dump'[2 * k] = dump[2 * k] /\ dump'[2 * k - 1] = dump[2 * k - 1]
      BY <2>2, <3>1
    <3>3. dump'[2 * (done + 1)] = erl
      BY <2>1, <2>2
    <3>4. dump'[2 * (done + 1) - 1] = Command(Script[done + 1].cmd)
      BY <2>1, <2>2 DEF Shape, InTest, Test
    <3>5. \A f \in failed : f[1] <= done' => dump'[2 * f[1]] = f[2]
      <4> SUFFICES ASSUME NEW f \in failed, f[1] <= done + 1
                   PROVE  dump'[2 * f[1]] = f[2]
        BY <2>1
      <4>1. f[1] \in Nat /\ f[1] > 0
        BY DEF Shape
      <4>2. CASE f[1] = done + 1
        BY <4>2, <3>3 DEF ErlTellsOutcome
      <4>3. CASE f[1] \in 1 .. done
        <5>1. dump'[2 * f[1]] = dump[2 * f[1]]
          BY <4>3, <3>2
        <5>2. dump[2 * f[1]] = f[2]
          BY <4>1, <4>3, <2>1 DEF DumpTellsOutcomes
        <5> QED BY <5>1, <5>2
      <4>4. f[1] \in 1 .. done \/ f[1] = done + 1
        BY <2>1, <4>1, LastOrEarlier
      <4> QED BY <4>2, <4>3, <4>4
    <3>6. ASSUME NEW k \in 1 .. done + 1
          PROVE  /\ dump'[2 * k - 1] = Command(Script[k].cmd)
                 /\ \/ dump'[2 * k] = NoError
                    \/ Keeps(Script[k].cmd)
                    \/ <<k, dump'[2 * k]>> \in failed
      <4>1. CASE k \in 1 .. done
        BY <4>1, <3>2 DEF DumpTellsOutcomes
      <4>2. CASE k = done + 1
        BY <4>2, <3>3, <3>4 DEF ErlTellsOutcome, Test
      <4>3. k \in 1 .. done \/ k = done + 1
        BY <2>1, LastOrEarlier
      <4> QED BY <4>1, <4>2, <4>3
    <3> QED BY <3>5, <3>6, done' = done + 1 DEF DumpTellsOutcomes, Script
  <2>6. FileUpToDate'
    BY DEF FileUpToDate, InTest, SaveEach
  <2> QED BY <2>3, <2>4, <2>5, <2>6 DEF ErlTellsOutcome
<1>6. ASSUME OpenFile \/ WriteFile PROVE Dumped'
  <2> USE <1>6 DEF OpenFile, WriteFile, FileCall, FileFault
  <2>1. erl' \in Errors /\ pc \in {"open", "write"} /\ pc' \in {"write", "close"}
    BY <1>t DEF Shape, FileErrors
  <2>2. UNCHANGED <<tool, done, dump, failed>>
    OBVIOUS
  <2>3. Shape'
    BY <2>1, <2>2 DEF Shape, InTest, PCs
  <2>4. DumpTellsOutcomes'
    BY <2>2 DEF DumpTellsOutcomes, Script
  <2> QED BY <2>1, <2>3, <2>4 DEF ErlTellsOutcome, FileUpToDate, InTest
<1>7. CASE CloseFile
  <2> USE <1>7 DEF CloseFile, FileCall, FileFault
  <2>1. erl' \in Errors /\ pc = "close" /\ pc' \in {"exit", "print", "send"}
    BY <1>t DEF Shape, FileErrors, After
  <2>2. UNCHANGED <<tool, done, dump, failed>>
    OBVIOUS
  <2>3. Shape'
    BY <2>1, <2>2 DEF Shape, InTest, PCs
  <2>4. DumpTellsOutcomes'
    BY <2>2 DEF DumpTellsOutcomes, Script
  <2>5. io' = "ok" => file' = dump'
    BY <2>2
  <2> QED BY <2>1, <2>3, <2>4, <2>5 DEF ErlTellsOutcome, FileUpToDate, InTest
<1>8. CASE PrintOut
  <2> USE <1>8 DEF PrintOut
  <2>1. erl' \in Errors /\ pc = "print" /\ pc' \in {"send", "open"}
    BY <1>t DEF Shape
  <2>2. Shape'
    BY <2>1 DEF Shape, InTest, PCs
  <2>3. DumpTellsOutcomes'
    BY DEF DumpTellsOutcomes, Script
  <2> QED BY <2>1, <2>2, <2>3 DEF ErlTellsOutcome, FileUpToDate, InTest, SaveEach
<1>9. CASE UNCHANGED vars
  BY <1>9 DEF vars, Shape, InTest, ErlTellsOutcome, DumpTellsOutcomes, FileUpToDate,
     Test, Script, SaveEach
<1> QED
  BY <1>1, <1>2, <1>3, <1>4, <1>5, <1>6, <1>7, <1>8, <1>9
  DEF Next, Tool, Outcome, Ended

-----------------------------------------------------------------------------
(* Where the round that runs starts and ends.                              *)
LEMMA ThisRound ==
  ASSUME tool \in Tools, Progress
  PROVE  /\ LastRound(tool) \in Nat
         /\ printed \in Nat
         /\ Start(tool, printed) \in Nat
         /\ Len(RoundEnds) = LastRound(tool)
         /\ printed < LastRound(tool) =>
              /\ Start(tool, printed + 1) \in Nat
              /\ Start(tool, printed) < Start(tool, printed + 1)
              /\ RoundEnds[printed + 1] = Start(tool, printed + 1)
<1>1. printed \in Nat /\ LastRound(tool) \in Nat
  BY RoundPlaces DEF Progress
<1>2. printed < LastRound(tool) => printed + 1 \in 0 .. LastRound(tool) /\ printed + 1 # 0
  BY <1>1
<1> QED BY <1>1, <1>2, RoundPlaces DEF Progress, RoundEnds, LastRound, Start

LEMMA NextProgress == Shape /\ Progress /\ [Next]_vars => Progress'
<1> SUFFICES ASSUME Shape, Progress, [Next]_vars PROVE Progress'
  OBVIOUS
<1>r. /\ LastRound(tool) \in Nat
      /\ printed \in Nat
      /\ Start(tool, printed) \in Nat
      /\ Len(RoundEnds) = LastRound(tool)
      /\ printed < LastRound(tool) =>
           /\ Start(tool, printed + 1) \in Nat
           /\ Start(tool, printed) < Start(tool, printed + 1)
           /\ RoundEnds[printed + 1] = Start(tool, printed + 1)
  BY ThisRound DEF Shape
<1>1. CASE Send \/ (pc = "wait" /\ Outcome)
  <2>1. /\ pc \in {"send", "wait"} /\ pc' \in {"wait", "record", "hung"}
        /\ UNCHANGED <<tool, done, printed>>
    BY <1>1 DEF Send, Outcome, Answered, Hang, TimesOut
  <2> QED BY <2>1 DEF Progress, InTest, Script
<1>2. CASE StoreErl
  <2>1. /\ pc = "record" /\ printed < LastRound(tool) /\ printed # LastRound(tool)
        /\ done \in Nat /\ done < Start(tool, printed + 1) /\ Start(tool, printed) <= done
    BY <1>2, <1>r DEF StoreErl, Progress, InTest
  <2>2. /\ done' = done + 1 /\ UNCHANGED <<tool, printed>>
        /\ pc' = IF SaveEach THEN "open"
                 ELSE IF Start(tool, printed + 1) = done + 1 THEN "print" ELSE "send"
    BY <1>2, <1>r, <2>1 DEF StoreErl, After
  <2> QED BY <1>r, <2>1, <2>2 DEF Progress, InTest
<1>3. CASE OpenFile \/ WriteFile
  <2>1. /\ pc \in {"open", "write"} /\ pc' \in {"write", "close"}
        /\ UNCHANGED <<tool, done, printed>>
    BY <1>3 DEF OpenFile, WriteFile, FileCall
  <2> QED BY <2>1 DEF Progress, InTest, Script
<1>4. CASE CloseFile
  <2>1. /\ pc = "close" /\ UNCHANGED <<tool, done, printed>>
        /\ pc' = IF printed = LastRound(tool) THEN "exit" ELSE After(done)
    BY <1>4, <1>r DEF CloseFile, FileCall
  <2>2. CASE printed = LastRound(tool)
    BY <2>1, <2>2 DEF Progress, InTest, Script
  <2>3. CASE printed < LastRound(tool)
    <3>1. pc' = IF Start(tool, printed + 1) = done THEN "print" ELSE "send"
      BY <1>r, <2>1, <2>3 DEF After
    <3> QED BY <1>r, <2>1, <2>3, <3>1 DEF Progress, InTest
  <2> QED BY <2>2, <2>3, <1>r DEF Progress
<1>5. CASE PrintOut
  <2>1. /\ pc = "print" /\ printed < LastRound(tool) /\ printed # LastRound(tool)
        /\ done \in Nat /\ done = Start(tool, printed + 1)
    BY <1>5, <1>r DEF PrintOut, Progress
  <2>2. /\ printed' = printed + 1 /\ UNCHANGED <<tool, done>>
        /\ pc' = IF printed + 1 < LastRound(tool) THEN "send" ELSE "open"
    BY <1>5, <1>r DEF PrintOut
  <2>3. printed + 1 \in Nat /\ printed + 1 <= LastRound(tool)
    BY <1>r, <2>1
  <2>4. CASE printed + 1 = LastRound(tool)
    <3>1. done = Len(Script)
      BY <2>1, <2>4, RoundPlaces DEF Shape, Script
    <3> QED BY <2>1, <2>2, <2>3, <2>4, <3>1 DEF Progress, Script
  <2>5. CASE printed + 1 < LastRound(tool)
    <3>1. Start(tool, printed + 1) < Start(tool, (printed + 1) + 1)
      BY <2>3, <2>5, RoundPlaces DEF Shape
    <3>2. /\ pc' = "send" /\ printed' = printed + 1 /\ tool' = tool /\ done' = done
          /\ printed + 1 # LastRound(tool) /\ printed + 1 \in 0 .. LastRound(tool)
      BY <2>2, <2>3, <2>5, <1>r
    <3>3. (printed + 1) + 1 \in 0 .. LastRound(tool)
      BY <1>r, <2>3, <2>5
    <3>4. /\ Start(tool, printed + 1) <= done /\ done < Start(tool, (printed + 1) + 1)
          /\ Start(tool, (printed + 1) + 1) \in Nat /\ done \in Nat
      BY <1>r, <2>1, <3>1, <3>3, RoundPlaces DEF Shape
    <3>5. done <= Start(tool, (printed + 1) + 1)
      BY <3>4
    <3> QED BY <3>2, <3>4, <3>5 DEF Progress, InTest
  <2> QED BY <1>r, <2>3, <2>4, <2>5
<1>6. CASE UNCHANGED vars
  BY <1>6 DEF vars, Progress, InTest, Script
<1> QED BY <1>1, <1>2, <1>3, <1>4, <1>5, <1>6 DEF Next, Tool, Ended

(* What a test makes of the command byte and of saved_cmd.                 *)
LEMMA Effect ==
  ASSUME Dumped, Progress, Others, pc = "wait", Outcome
  PROVE  /\ pc' \in {"record", "hung"}
         /\ pc' = "hung" => UNCHANGED <<command, saved, spoilt>>
         /\ command' \in Written \cup {command}
         /\ saved' \in {saved, command}
         /\ Test.cmd # "20" \/ Test.var # "saved" => saved' = saved
         /\ ~spoilt' => ~spoilt
         /\ ~spoilt' /\ Essential /\ pc' = "record" =>
              /\ command' \in Written
              /\ saved' = IF Test.cmd = "20" /\ Test.var = "saved" THEN command ELSE saved
         /\ UNCHANGED <<tool, done, printed, file, io, shown>>
<1>1. CASE Answered
  BY <1>1 DEF Answered
<1>2. CASE Hang
  BY <1>2 DEF Hang
<1>3. ASSUME NEW way \in Ways(Test.cmd), TimesOut(way)
      PROVE  /\ pc' = "record"
             /\ command' \in Written \cup {command}
             /\ spoilt' = (spoilt \/ Essential)
             /\ UNCHANGED <<tool, done, printed, file, io, shown, saved>>
  BY <1>3 DEF TimesOut
<1>4. CASE \E way \in Ways(Test.cmd) : TimesOut(way)
  <2>1. /\ pc' = "record"
        /\ command' \in Written \cup {command}
        /\ spoilt' = (spoilt \/ Essential)
        /\ UNCHANGED <<tool, done, printed, file, io, shown, saved>>
    BY <1>3, <1>4
  <2> QED BY <2>1
<1> QED BY <1>1, <1>2, <1>4 DEF Outcome

LEMMA NextRestorable ==
  Dumped /\ Progress /\ Others /\ Restorable /\ [Next]_vars => Restorable'
<1> SUFFICES ASSUME Dumped, Progress, Others, Restorable, [Next]_vars PROVE Restorable'
  OBVIOUS
<1>r. /\ LastRound(tool) \in Nat
      /\ printed \in Nat
      /\ Start(tool, printed) \in Nat
      /\ Len(RoundEnds) = LastRound(tool)
      /\ printed < LastRound(tool) =>
           /\ Start(tool, printed + 1) \in Nat
           /\ Start(tool, printed) < Start(tool, printed + 1)
           /\ RoundEnds[printed + 1] = Start(tool, printed + 1)
  BY ThisRound DEF Shape, Dumped
<1>1. CASE pc = "wait" /\ Outcome
  <2> SUFFICES ASSUME ~spoilt' PROVE Restorable'
    BY DEF Restorable
  <2>1. /\ pc' \in {"record", "hung"}
        /\ pc' = "hung" => UNCHANGED <<command, saved>>
        /\ command' \in Written \cup {command}
        /\ Test.cmd # "20" \/ Test.var # "saved" => saved' = saved
        /\ Essential /\ pc' = "record" =>
             /\ command' \in Written
             /\ saved' = IF Test.cmd = "20" /\ Test.var = "saved" THEN command ELSE saved
        /\ UNCHANGED <<tool, done, printed>>
        /\ ~spoilt
    BY <1>1, Effect
  <2>2. CASE pc' = "hung"
    BY <1>1, <2>1, <2>2 DEF Restorable, Effects
  <2>3. CASE pc' = "record"
    <3>1. /\ Effects = done /\ Effects' = done + 1
          /\ printed < LastRound(tool)
          /\ done \in Nat /\ Start(tool, printed) <= done /\ done < Start(tool, printed + 1)
      BY <1>1, <1>r, <2>1, <2>3 DEF Effects, Progress, InTest
    <3>2. IsRound(tool, printed, done + 1)
      BY <1>r, <3>1, RoundTests DEF Dumped, Shape
    <3>3. /\ done = Start(tool, printed) => command = Original
          /\ printed = 0 => command.base = "original"
          /\ printed > 0 /\ done > Start(tool, printed) => saved = Original
      BY <2>1, <3>1 DEF Restorable
    <3>4. CASE printed = 0
      <4>1. Test.cmd \notin {"20", "60", "af"} /\ Test.var # "saved"
            /\ (done + 1 = Start(tool, 1) => Test.cmd = "ae")
        BY <3>2, <3>4 DEF IsRound, Test, Script
      <4>2. command.base = "original" /\ command \in CommandBytes
        BY <3>3, <3>4 DEF Others
      <4>3. \A c \in Written \cup {command} : c.base = "original"
        BY <4>1, <4>2 DEF Written, CommandBytes
      <4>4. Test.cmd = "ae" => Written = {Original}
        BY <4>2 DEF Written, CommandBytes, Original, Byte
      <4>5. done + 1 = Start(tool, 1) => command' = Original
        BY <4>1, <4>4, <2>1, <2>3, <3>4 DEF Essential
      <4>6. command'.base = "original"
        BY <4>3, <2>1
      <4>7. Restorable' <=>
              /\ done + 1 = Start(tool, printed) => command' = Original
              /\ done + 1 = Start(tool, printed + 1) => command' = Original
              /\ printed = 0 => command'.base = "original"
              /\ printed > 0 /\ done + 1 > Start(tool, printed) => saved' = Original
        BY <2>1, <3>1 DEF Restorable, Original, Byte
      <4> QED BY <1>r, <3>1, <3>4, <4>5, <4>6, <4>7
    <3>5. CASE printed > 0
      <4>1. /\ done = Start(tool, printed) => Test = With("20", "saved")
            /\ done + 1 = Start(tool, printed + 1) => Test = With("60", "saved")
            /\ done # Start(tool, printed) /\ done + 1 # Start(tool, printed + 1) =>
                 Test.var # "saved"
        BY <1>r, <3>1, <3>2, <3>5 DEF IsRound, Test, Script
      <4>2. saved' = Original
        <5>1. CASE done = Start(tool, printed)
          BY <2>1, <2>3, <3>3, <4>1, <5>1 DEF With, Essential
        <5>2. CASE done # Start(tool, printed)
          <6>1. Test.cmd # "20" \/ Test.var # "saved"
            BY <4>1, <5>2 DEF With
          <6> QED BY <1>r, <2>1, <3>1, <3>3, <3>5, <5>2, <6>1
        <5> QED BY <5>1, <5>2
      <4>3. done + 1 = Start(tool, printed + 1) => command' = Original
        <5> SUFFICES ASSUME done + 1 = Start(tool, printed + 1) PROVE command' = Original
          OBVIOUS
        <5>1. Test.cmd = "60" /\ Test.var = "saved"
          BY <4>1 DEF With
        <5>2. Written = {saved} /\ Essential
          BY <5>1 DEF Written, Essential
        <5>3. saved' = saved
          BY <2>1, <5>1
        <5> QED BY <2>1, <2>3, <4>2, <5>2, <5>3
      <4>4. Restorable' <=>
              /\ done + 1 = Start(tool, printed) => command' = Original
              /\ done + 1 = Start(tool, printed + 1) => command' = Original
              /\ printed = 0 => command'.base = "original"
              /\ printed > 0 /\ done + 1 > Start(tool, printed) => saved' = Original
        BY <2>1, <3>1 DEF Restorable, Original, Byte
      <4> QED BY <1>r, <3>1, <3>5, <4>2, <4>3, <4>4
    <3> QED BY <1>r, <3>4, <3>5
  <2> QED BY <2>1, <2>2, <2>3
<1>2. CASE PrintOut
  <2> SUFFICES ASSUME ~spoilt PROVE Restorable'
    BY <1>2 DEF Restorable, PrintOut
  <2>1. /\ pc = "print" /\ printed < LastRound(tool) /\ done = Start(tool, printed + 1)
        /\ Effects = done /\ Effects' = done /\ printed' = printed + 1
        /\ UNCHANGED <<tool, command>>
    BY <1>2, <1>r DEF PrintOut, Progress, Effects
  <2>2. command = Original
    BY <2>1 DEF Restorable
  <2>3. printed + 1 < LastRound(tool) => done # Start(tool, (printed + 1) + 1)
    BY <1>r, <2>1, RoundPlaces DEF Dumped, Shape
  <2> QED BY <1>r, <2>1, <2>2, <2>3 DEF Restorable, Original, Byte
<1>3. CASE Send \/ StoreErl \/ OpenFile \/ WriteFile \/ CloseFile
  <2>1. UNCHANGED <<tool, printed, command, saved, spoilt>>
    BY <1>3 DEF Send, StoreErl, OpenFile, WriteFile, CloseFile, FileCall
  <2>2. Effects' = Effects
    BY <1>3 DEF Send, StoreErl, OpenFile, WriteFile, CloseFile, FileCall, Effects, After
  <2> QED BY <2>1, <2>2 DEF Restorable, Original, Byte
<1>4. CASE UNCHANGED vars
  BY <1>4 DEF vars, Restorable, Effects, Original, Byte
<1> QED BY <1>1, <1>2, <1>3, <1>4 DEF Next, Tool, Ended

LEMMA NextOthers == Dumped /\ Progress /\ Others /\ [Next]_vars => Others'
<1> SUFFICES ASSUME Dumped, Progress, Others, [Next]_vars PROVE Others'
  OBVIOUS
<1> USE DEF Dumped
<1>1. CASE pc = "wait" /\ Outcome
  <2>1. Written \cup {command} \subseteq CommandBytes
    <3>1. \A v \in {"77", "bb", "df"} : Byte(v, TRUE) \in CommandBytes
      BY DEF Byte, CommandBytes
    <3>2. /\ [command EXCEPT !.off = TRUE] \in CommandBytes
          /\ [command EXCEPT !.off = FALSE] \in CommandBytes
      BY DEF Others, CommandBytes
    <3>3. Test \in Tests
      BY <1>1, TestTypes DEF Shape, InTest
    <3>4. /\ Test.cmd = "60" => Test.var \in {"saved", "df"}
          /\ Test.cmd = "af" => Test.var \in {"77", "bb"}
      BY <3>3 DEF Tests
    <3> QED BY <3>1, <3>2, <3>4 DEF Written, Others
  <2>2. /\ command' \in Written \cup {command} /\ saved' \in {saved, command}
        /\ UNCHANGED <<file, io, shown>>
    BY <1>1, Effect
  <2>3. spoilt' \in BOOLEAN /\ faults' \in 0 .. MaxFaults /\ dump' = dump
    <3>1. CASE Answered \/ Hang
      BY <3>1 DEF Answered, Hang, Others
    <3>2. CASE \E way \in Ways(Test.cmd) : TimesOut(way)
      <4>1. /\ spoilt' = (spoilt \/ Essential) /\ dump' = dump
            /\ faults < MaxFaults /\ faults' = faults + 1
        BY <3>2 DEF TimesOut
      <4>2. spoilt' \in BOOLEAN
        BY <4>1
      <4>3. faults' \in 0 .. MaxFaults
        BY <4>1, KbcProbeAssumption DEF Others
      <4> QED BY <4>1, <4>2, <4>3
    <3> QED BY <1>1, <3>1, <3>2 DEF Outcome
  <2> QED BY <2>1, <2>2, <2>3 DEF Others
<1>2. CASE Send \/ StoreErl
  <2>1. /\ UNCHANGED <<saved, command, file, io, faults, shown, spoilt>>
        /\ \E x \in DumpBytes : dump' = Append(dump, x)
    <3>1. CASE Send
      BY <3>1, TestTypes DEF Send, Shape
    <3>2. CASE StoreErl
      BY <3>2, ErrorTypes DEF StoreErl, Shape
    <3> QED BY <1>2, <3>1, <3>2 DEF Send, StoreErl
  <2>2. Len(dump') = Len(dump) + 1 /\ Len(dump) \in Nat
    BY <2>1, AppendProperties DEF Shape
  <2> QED BY <2>1, <2>2 DEF Others
<1>3. CASE OpenFile \/ WriteFile \/ CloseFile
  <2>1. /\ UNCHANGED <<saved, command, dump, shown, spoilt>>
        /\ io' \in {io, "ok", "bad"} /\ file' \in {file, dump, <<>>}
        /\ faults' = faults \/ (faults < MaxFaults /\ faults' = faults + 1)
    BY <1>3 DEF OpenFile, WriteFile, CloseFile, FileCall, FileFault
  <2>2. Len(file') \in Nat /\ Len(file') <= Len(dump')
    <3>1. Len(dump) \in Nat /\ Len(<<>>) = 0
      BY DEF Shape
    <3>2. /\ file' = file \/ file' = dump \/ file' = <<>>
          /\ Len(file) \in Nat /\ Len(file) <= Len(dump)
          /\ dump' = dump
      BY <2>1 DEF Others
    <3> QED BY <3>1, <3>2
  <2>3. faults' \in 0 .. MaxFaults
    BY <2>1, KbcProbeAssumption DEF Others
  <2> QED BY <2>1, <2>2, <2>3 DEF Others
<1>4. CASE PrintOut
  BY <1>4 DEF PrintOut, Others, Shape
<1>5. CASE UNCHANGED vars
  BY <1>5 DEF vars, Others
<1> QED BY <1>1, <1>2, <1>3, <1>4, <1>5 DEF Next, Tool, Ended

-----------------------------------------------------------------------------
LEMMA Invariance == Spec => []IInv
<1>1. IInv /\ [Next]_vars => IInv'
  BY NextDumped, NextProgress, NextRestorable, NextOthers DEF IInv, Dumped
<1> QED BY <1>1, InitIInv, PTL DEF Spec

(* Every variable has a value of its type.  The dump in particular never   *)
(* outgrows dmp_arr, whichever tool fills it and whatever fails.           *)
THEOREM Typing == Spec => []TypeOK
<1>1. IInv => TypeOK
  <2> SUFFICES ASSUME IInv PROVE TypeOK
    OBVIOUS
  <2> USE DEF IInv, Dumped
  <2>1. /\ LastRound(tool) \in Nat /\ printed \in Nat
        /\ Len(RoundEnds) = LastRound(tool) /\ printed <= LastRound(tool)
    BY ThisRound DEF Shape, Progress
  <2>2. done \in Nat /\ done <= Len(Script) /\ (InTest => done < Len(Script))
    <3>1. CASE printed = LastRound(tool)
      BY <3>1, RoundPlaces DEF Progress, Script, Shape, InTest
    <3>2. CASE printed < LastRound(tool)
      <4>1. printed + 1 \in 0 .. LastRound(tool)
        BY <2>1, <3>2
      <4>2. Start(tool, printed + 1) \in Nat /\ Start(tool, printed + 1) <= Len(Script)
        BY <4>1, RoundPlaces DEF Shape, Script
      <4> QED BY <2>1, <3>2, <4>2, RoundPlaces DEF Progress, Script, Shape
    <3> QED BY <2>1, <3>1, <3>2
  <2>3. Len(Script) \in Nat /\ 2 * Len(Script) = DumpSizeOf(tool)
    BY RoundPlaces DEF Script, Shape
  <2>4. Len(dump) <= DumpSizeOf(tool)
    BY <2>2, <2>3 DEF Shape
  <2>5. DOMAIN Script = 1 .. Len(Script)
    BY RoundPlaces DEF Script, Shape
  <2>6. failed \subseteq (DOMAIN Script) \X Errors
    <3> SUFFICES ASSUME NEW f \in failed PROVE f[1] \in 1 .. Len(Script)
      BY <2>5 DEF Shape
    <3> QED BY <2>2, <2>3 DEF Shape, InTest
  <2>7. done \in 0 .. Len(Script) /\ printed \in 0 .. Len(RoundEnds)
    BY <2>1, <2>2, <2>3
  <2> QED BY <2>4, <2>6, <2>7 DEF TypeOK, Shape, Others
<1> QED BY <1>1, Invariance, PTL

(* However many tests fail that the command byte does not depend on, the   *)
(* tool leaves it as it found it.                                          *)
THEOREM Restored == Spec => []CommandByteRestored
<1>1. IInv => CommandByteRestored
  <2> SUFFICES ASSUME IInv, pc = "exit", ~spoilt PROVE command = Byte("original", FALSE)
    BY DEF CommandByteRestored
  <2>1. printed = LastRound(tool) /\ done = Len(Script)
    BY DEF IInv, Progress
  <2>2. Start(tool, printed) = done /\ Effects = done
    BY <2>1, RoundPlaces DEF IInv, Dumped, Shape, Script, Effects
  <2> QED BY <2>2 DEF IInv, Restorable, Original
<1> QED BY <1>1, Invariance, PTL

(* Whatever fails and however often, the dump records every failure beside *)
(* its own command, and no failure beside a command that succeeded, other  *)
(* than disable and enable keyboard.                                       *)
THEOREM DumpTruthful == Spec => []DumpTellsOutcomes
  BY Invariance, PTL DEF IInv, Dumped

(* However often a save has failed before, once one has gone well a hang   *)
(* costs the test that hangs and no other.                                 *)
THEOREM HangSafe == Spec => []HangLosesOneTest
<1>1. IInv => HangLosesOneTest
  BY DEF IInv, Dumped, FileUpToDate, HangLosesOneTest, InTest
<1> QED BY <1>1, Invariance, PTL
=============================================================================
