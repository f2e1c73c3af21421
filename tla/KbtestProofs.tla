---------------------------- MODULE KbtestProofs ----------------------------
(***************************************************************************)
(* What holds of Kbtest for any number of keys and of faults, anywhere.    *)
(* TypeOK and LeavesAsFound say nothing of what is on its way between the  *)
(* tool and the keyboard, and a late answer is taken for the next one: the *)
(* invariant says, label by label, which bytes may still be on their way   *)
(* to the keyboard and whether an acknowledgement may be among those on    *)
(* their way back.  First come the invariant and facts about the           *)
(* definitions and about short sequences, then what each action makes of   *)
(* the invariant, and the theorems at the end.                             *)
(***************************************************************************)
EXTENDS Kbtest, SequenceTheorems, TLAPS

-----------------------------------------------------------------------------
(* What the tool will read next is something else than an acknowledgement, *)
(* or nothing is known to be there.                                        *)
Other(s) == s # <<>> /\ s[1] # "fa"
Quiet(s) == s = <<>> \/ Other(s)
NoAck(s) == \A k \in DOMAIN s : s[k] # "fa"
OneAck(s) == \A j, k \in DOMAIN s : s[j] = "fa" /\ s[k] = "fa" => j = k
AckLast(s) == \A k \in DOMAIN s : s[k] = "fa" => k = Len(s)
HasAck(s) == \E k \in DOMAIN s : s[k] = "fa"

(* The tool's path, in parts: every label but "exit1" is in one of them.   *)
Starting == {"flush", "off", "off_ack"}
Masking == {"conf", "conf_in", "say_conf", "mask", "masked"}
Asking == {"id", "id_ack", "id1", "id2", "say_id", "get"}
Getting == {"get_ack", "get0", "get0_ack", "get2"}
Setting == {"say_set", "set", "set_ack", "set3", "set3_ack", "on"}
Keying == {"on_ack", "key", "keys", "say_keys", "say_end", "stop"}
Restoring == {"stop_ack", "back", "back_ack", "backset", "backset_ack", "unmask"}
Leaving == {"unmasked", "again", "again_ack"}

(* The keyboard as it was found, not scanning; the configuration that was  *)
(* set, unless a byte of it was lost, and the one that is put back.        *)
Still == keyboard.set = original /\ ~keyboard.awaits /\ ~keyboard.scans
Probing == lost \cap {"mask", "masked"} = {} => controller = "probing" /\ ~awaits
Restored == controller = "original" \/ {"unmask", "unmasked"} \subseteq lost

(* F5h has been sent: its answer is the last byte of all.                  *)
Stopping ==
  /\ inbox \in {<<>>, <<"f5">>}
  /\ AckLast(out) /\ (HasAck(out) => inbox = <<>> /\ ~keyboard.scans)

(* Until scanning is off, keys are all there is to be read.                *)
AtStart ==
  pc \in Starting =>
    /\ controller = "original" /\ ~awaits
    /\ keyboard.set = original /\ ~keyboard.awaits
    /\ IF pc = "off_ack" THEN Stopping ELSE inbox = <<>> /\ NoAck(out)

AtMask ==
  pc \in Masking =>
    /\ controller = "original" /\ inbox = <<>> /\ Still
    /\ out = <<>> \/ (pc = "conf_in" /\ out = <<"original">>)
    /\ awaits => pc = "masked"
    /\ pc \in {"say_conf", "mask", "masked"} => config = "original"
    /\ pc = "masked" => awaits \/ "mask" \in lost

(* While the tool asks for the ID, one acknowledgement at most can be left *)
(* over: that of the ID's command, when it was late.                       *)
AtId ==
  pc \in Asking =>
    /\ config = "original" /\ Probing /\ Still
    /\ awaits => inbox = <<>> /\ out = <<>>
    /\ inbox \in {<<>>, <<"probing">>, <<"f2">>, <<"probing", "f2">>}
    /\ OneAck(out) /\ (inbox # <<>> => NoAck(out))
    /\ pc = "id" => inbox \in {<<>>, <<"probing">>} /\ NoAck(out)

(* That one may be taken for the answer to F0h, but not for the second one.*)
AtGet ==
  pc \in Getting =>
    /\ config = "original" /\ Probing
    /\ keyboard.set = original /\ ~keyboard.scans
    /\ awaits => pc = "get_ack" /\ inbox = <<>> /\ out = <<>>
    /\ CASE pc = "get_ack" ->
            \/ /\ inbox \in {<<"probing", "f2", "f0">>, <<"f2", "f0">>, <<"probing", "f0">>,
                             <<"probing", "f2">>, <<"f2">>, <<"probing">>}
               /\ Quiet(out) /\ ~keyboard.awaits
            \/ /\ inbox \in {<<"f0">>, <<>>} /\ ~keyboard.awaits
               /\ Quiet(out) \/ (out # <<>> /\ out[1] = "fa" /\ Quiet(Tail(out)))
            \/ /\ inbox = <<>> /\ keyboard.awaits
               /\ Quiet(out) \/ (out # <<>> /\ out[1] = "fa" /\ (Quiet(Tail(out)) \/ Tail(out) = <<"fa">>))
         [] pc = "get0" ->
            \/ inbox \in {<<"f0">>, <<>>} /\ ~keyboard.awaits /\ Quiet(out)
            \/ inbox = <<>> /\ keyboard.awaits /\ (Quiet(out) \/ out = <<"fa">>)
         [] pc = "get0_ack" ->
            \/ inbox \in {<<"f0", "00">>, <<"f0">>, <<"00">>, <<>>} /\ ~keyboard.awaits /\ Quiet(out)
            \/ inbox \in {<<"00">>, <<>>} /\ keyboard.awaits /\ (Quiet(out) \/ out = <<"fa">>)
            \/ /\ inbox = <<>> /\ ~keyboard.awaits
               /\ out \in {<<"fa">>, <<"fa", original>>, <<"fa", "fa", original>>}
         [] pc = "get2" ->
            \/ inbox = <<"00">> /\ keyboard.awaits /\ out = <<>>
            \/ inbox = <<>> /\ out = <<>>
            \/ inbox = <<>> /\ ~keyboard.awaits /\ out \in {<<original>>, <<"fa", original>>}

(* What the tool takes for the old scan code set is that one, or a byte    *)
(* that the keyboard does not understand.                                  *)
Remembered == old_scanset \in {original, "fa", "translated"}

AtSet ==
  pc \in Setting =>
    /\ config = "original" /\ Probing /\ ~awaits
    /\ Remembered /\ ~keyboard.scans
    /\ CASE pc \in {"say_set", "set"} -> inbox = <<>> /\ out \in {<<>>, <<original>>}
         [] pc = "set_ack" ->
            \/ inbox \in {<<"f0">>, <<>>} /\ Quiet(out)
            \/ inbox = <<>> /\ out = <<"fa">> /\ keyboard.awaits
         [] pc = "set3" -> inbox = <<>> /\ out = <<>> /\ keyboard.awaits
         [] pc = "set3_ack" ->
            \/ inbox = <<"03">> /\ out = <<>> /\ keyboard.awaits
            \/ inbox = <<>> /\ out = <<>>
            \/ inbox = <<>> /\ out = <<"fa">> /\ keyboard.set = "03"
         [] pc = "on" -> inbox = <<>> /\ out = <<>> /\ keyboard.set = "03"

AtKeys ==
  pc \in Keying =>
    /\ config = "original" /\ Probing /\ ~awaits
    /\ Remembered /\ keyboard.set = "03"
    /\ IF pc = "on_ack"
       THEN \/ inbox \in {<<"f4">>, <<>>} /\ out = <<>> /\ ~keyboard.scans
            \/ inbox = <<>> /\ out # <<>> /\ NoAck(Tail(out))
       ELSE inbox = <<>> /\ NoAck(out)

AtRestore ==
  pc \in Restoring =>
    /\ config = "original" /\ Probing /\ ~awaits
    /\ Remembered
    /\ IF pc = "stop_ack" THEN Stopping ELSE ~keyboard.scans
    /\ CASE pc = "stop_ack" -> TRUE
         [] pc = "back" -> inbox = <<>> /\ out = <<>>
         [] pc = "back_ack" ->
            \/ inbox \in {<<"f0">>, <<>>} /\ out = <<>>
            \/ inbox = <<>> /\ Other(out)
            \/ inbox = <<>> /\ out = <<"fa">> /\ keyboard.awaits
         [] pc = "backset" -> inbox = <<>> /\ out = <<>> /\ keyboard.awaits
         [] pc = "backset_ack" ->
            \/ inbox = <<old_scanset>> /\ out = <<>> /\ keyboard.awaits
            \/ inbox = <<>> /\ Quiet(out)
            \/ inbox = <<>> /\ out = <<"fa">> /\ keyboard.set = original /\ ~keyboard.awaits
         [] pc = "unmask" -> inbox = <<>> /\ out = <<>> /\ Still

(* The configuration is back, or goes to the keyboard, which asks for it   *)
(* again and so ends the tool with 1.                                      *)
AtLeave ==
  pc \in Leaving =>
    /\ config = "original"
    /\ keyboard.set = original /\ ~keyboard.awaits
    /\ pc # "again_ack" => ~keyboard.scans
    /\ CASE pc = "unmasked" -> inbox = <<>> /\ out = <<>> /\ (awaits \/ "unmask" \in lost)
         [] pc = "again" ->
            \/ inbox = <<"original">> /\ out = <<>> /\ ~awaits
            \/ inbox = <<>> /\ Other(out) /\ ~awaits
            \/ inbox = <<>> /\ Quiet(out) /\ (awaits \/ Restored)
         [] pc = "again_ack" ->
            \/ inbox \in {<<"original", "f4">>, <<"original">>} /\ out = <<>> /\ ~keyboard.scans
            \/ inbox \in {<<"f4">>, <<>>} /\ Other(out)
            \/ inbox = <<>> /\ out = <<>> /\ ~keyboard.scans
            \/ inbox = <<"f4">> /\ out = <<>> /\ Restored
            \/ inbox = <<>> /\ out # <<>> /\ keyboard.scans /\ Restored

AtExit ==
  pc = "exit0" =>
    inbox = <<>> /\ keyboard.set = original /\ keyboard.scans /\ Restored

Path == /\ AtStart /\ AtMask /\ AtId /\ AtGet /\ AtSet /\ AtKeys /\ AtRestore
        /\ AtLeave /\ AtExit
IInv == TypeOK /\ original \in Sets /\ Path

(* The dialogues, label by label.                                          *)
LEMMA SendsAre ==
  /\ DOMAIN Sends = {"off", "conf", "mask", "masked", "id", "get", "get0", "set", "set3", "on",
                     "stop", "back", "backset", "unmask", "unmasked", "again"}
  /\ Sends["off"] = Data("f5", "off_ack")
  /\ Sends["conf"] = Command("20", "conf_in")
  /\ Sends["mask"] = Command("60", "masked")
  /\ Sends["masked"] = Data(Masked, "id")
  /\ Sends["id"] = Data("f2", "id_ack")
  /\ Sends["get"] = Data("f0", "get_ack")
  /\ Sends["get0"] = Data("00", "get0_ack")
  /\ Sends["set"] = Data("f0", "set_ack")
  /\ Sends["set3"] = Data("03", "set3_ack")
  /\ Sends["on"] = Data("f4", "on_ack")
  /\ Sends["stop"] = Data("f5", "stop_ack")
  /\ Sends["back"] = Data("f0", "back_ack")
  /\ Sends["backset"] = Data(old_scanset, "backset_ack")
  /\ Sends["unmask"] = Command("60", "unmasked")
  /\ Sends["unmasked"] = Data(config, "again")
  /\ Sends["again"] = Data("f4", "again_ack")
<1>1. DOMAIN Opening = {"off", "conf", "mask", "masked", "id"}
  BY DEF Opening
<1>2. DOMAIN ScanSets = {"get", "get0", "set", "set3", "on"}
  BY DEF ScanSets
<1>3. DOMAIN Closing = {"stop", "back", "backset", "unmask", "unmasked", "again"}
  BY DEF Closing
<1>4. /\ Sends["off"] = Opening["off"] /\ Sends["conf"] = Opening["conf"]
      /\ Sends["mask"] = Opening["mask"] /\ Sends["masked"] = Opening["masked"]
      /\ Sends["id"] = Opening["id"]
  BY <1>1 DEF Sends
<1>5. /\ Sends["get"] = ScanSets["get"] /\ Sends["get0"] = ScanSets["get0"]
      /\ Sends["set"] = ScanSets["set"] /\ Sends["set3"] = ScanSets["set3"]
      /\ Sends["on"] = ScanSets["on"]
  BY <1>1, <1>2 DEF Sends
<1>6. /\ Sends["stop"] = Closing["stop"] /\ Sends["back"] = Closing["back"]
      /\ Sends["backset"] = Closing["backset"] /\ Sends["unmask"] = Closing["unmask"]
      /\ Sends["unmasked"] = Closing["unmasked"] /\ Sends["again"] = Closing["again"]
  BY <1>1, <1>2, <1>3 DEF Sends
<1>7. DOMAIN Sends = DOMAIN Opening \cup DOMAIN ScanSets \cup DOMAIN Closing
  BY DEF Sends
<1> QED BY <1>1, <1>2, <1>3, <1>4, <1>5, <1>6, <1>7 DEF Opening, ScanSets, Closing

LEMMA AcksAre ==
  /\ DOMAIN Acks = {"off_ack", "id_ack", "get_ack", "get0_ack", "set_ack", "set3_ack", "on_ack",
                    "stop_ack", "back_ack", "backset_ack", "again_ack"}
  /\ Acks["off_ack"] = "conf" /\ Acks["id_ack"] = "id1" /\ Acks["get_ack"] = "get0"
  /\ Acks["get0_ack"] = "get2" /\ Acks["set_ack"] = "set3" /\ Acks["set3_ack"] = "on"
  /\ Acks["on_ack"] = "key" /\ Acks["stop_ack"] = "back" /\ Acks["back_ack"] = "backset"
  /\ Acks["backset_ack"] = "unmask" /\ Acks["again_ack"] = "exit0"
  BY DEF Acks

LEMMA SaysAre ==
  /\ DOMAIN Says = {"say_conf", "say_id", "say_set", "say_keys", "say_end"}
  /\ Says["say_conf"] = "mask" /\ Says["say_id"] = "get" /\ Says["say_set"] = "set"
  /\ Says["say_keys"] \in {"say_end", "key"} /\ Says["say_end"] = "stop"
  BY DEF Says

LEMMA LabelsAre ==
  Labels = {"flush", "conf_in", "id1", "id2", "get2", "key", "keys", "exit0", "exit1"}
             \cup {"off", "conf", "mask", "masked", "id", "get", "get0", "set", "set3", "on",
                     "stop", "back", "backset", "unmask", "unmasked", "again"}
             \cup {"off_ack", "id_ack", "get_ack", "get0_ack", "set_ack", "set3_ack", "on_ack",
                    "stop_ack", "back_ack", "backset_ack", "again_ack"}
             \cup {"say_conf", "say_id", "say_set", "say_keys", "say_end"}
  BY SendsAre, AcksAre, SaysAre DEF Labels, Exits

(* What is read of the bytes that are on their way back.                   *)
LEMMA Reading ==
  ASSUME NEW s \in Seq(Bytes), s # <<>>
  PROVE  /\ Head(s) \in Bytes /\ Tail(s) \in Seq(Bytes) /\ s[1] = Head(s)
         /\ Other(s) <=> Head(s) # "fa"
         /\ NoAck(s) => Head(s) # "fa" /\ NoAck(Tail(s))
         /\ OneAck(s) => OneAck(Tail(s)) /\ (Head(s) = "fa" => NoAck(Tail(s)))
<1>1. /\ Head(s) \in Bytes /\ Tail(s) \in Seq(Bytes) /\ s[1] = Head(s) /\ Len(s) \in Nat /\ Len(s) > 0
      /\ DOMAIN s = 1 .. Len(s) /\ DOMAIN Tail(s) = 1 .. Len(s) - 1
      /\ \A k \in 1 .. Len(s) - 1 : Tail(s)[k] = s[k + 1] /\ k + 1 \in 1 .. Len(s)
  OBVIOUS
<1>2. Other(s) <=> Head(s) # "fa"
  BY <1>1 DEF Other
<1>3. 1 \in DOMAIN s
  BY <1>1
<1>4. NoAck(s) => Head(s) # "fa" /\ NoAck(Tail(s))
  BY <1>1, <1>3 DEF NoAck
<1>5. ASSUME OneAck(s) PROVE OneAck(Tail(s))
  <2> SUFFICES ASSUME NEW j \in DOMAIN Tail(s), NEW k \in DOMAIN Tail(s),
                      Tail(s)[j] = "fa", Tail(s)[k] = "fa"
               PROVE  j = k
    BY DEF OneAck
  <2>1. s[j + 1] = "fa" /\ s[k + 1] = "fa" /\ j + 1 \in DOMAIN s /\ k + 1 \in DOMAIN s
    BY <1>1
  <2>2. j + 1 = k + 1
    BY <2>1, <1>5 DEF OneAck
  <2> QED BY <2>2, <1>1
<1>6. ASSUME OneAck(s), Head(s) = "fa" PROVE NoAck(Tail(s))
  <2> SUFFICES ASSUME NEW k \in DOMAIN Tail(s), Tail(s)[k] = "fa"
               PROVE  FALSE
    BY DEF NoAck
  <2>1. s[k + 1] = "fa" /\ k + 1 \in DOMAIN s
    BY <1>1
  <2>2. k + 1 = 1
    BY <2>1, <1>1, <1>3, <1>6 DEF OneAck
  <2> QED BY <2>2, <1>1
<1> QED BY <1>1, <1>2, <1>4, <1>5, <1>6

(* A step that ends in a part of the path has to respect that part only.   *)
LEMMA InPart ==
  /\ pc' \in Starting /\ AtStart' => Path'
  /\ pc' \in Masking /\ AtMask' => Path'
  /\ pc' \in Asking /\ AtId' => Path'
  /\ pc' \in Getting /\ AtGet' => Path'
  /\ pc' \in Setting /\ AtSet' => Path'
  /\ pc' \in Keying /\ AtKeys' => Path'
  /\ pc' \in Restoring /\ AtRestore' => Path'
  /\ pc' \in Leaving /\ AtLeave' => Path'
  /\ pc' = "exit0" /\ AtExit' => Path'
  /\ pc' = "exit1" => Path'
  BY DEF Path, AtStart, AtMask, AtId, AtGet, AtSet, AtKeys, AtRestore, AtLeave, AtExit,
         Starting, Masking, Asking, Getting, Setting, Keying, Restoring, Leaving

(* Sequences of up to three bytes.                                         *)
LEMMA Short ==
  /\ \A a : Append(<<>>, a) = <<a>>
  /\ \A a, b : Append(<<a>>, b) = <<a, b>>
  /\ \A a, b, c : Append(<<a, b>>, c) = <<a, b, c>>
  /\ \A a : Tail(<<a>>) = <<>> /\ Head(<<a>>) = a /\ <<a>> # <<>>
  /\ \A a, b : Tail(<<a, b>>) = <<b>> /\ Head(<<a, b>>) = a /\ <<a, b>> # <<>>
  /\ \A a, b, c : Tail(<<a, b, c>>) = <<b, c>> /\ Head(<<a, b, c>>) = a /\ <<a, b, c>> # <<>>
<1>1. \A a : Append(<<>>, a) = <<a>>
  OBVIOUS
<1>2. ASSUME NEW a, NEW b PROVE Append(<<a>>, b) = <<a, b>>
  <2>1. <<a>> \in Seq({a, b}) /\ <<a, b>> \in Seq({a, b}) /\ Len(<<a>>) = 1 /\ Len(<<a, b>>) = 2
    OBVIOUS
  <2>2. /\ Append(<<a>>, b) \in Seq({a, b}) /\ Len(Append(<<a>>, b)) = 2
        /\ Append(<<a>>, b)[1] = a /\ Append(<<a>>, b)[2] = b
    BY <2>1, AppendProperties
  <2>3. \A i \in 1 .. 2 : i = 1 \/ i = 2
    OBVIOUS
  <2>4. \A i \in 1 .. 2 : Append(<<a>>, b)[i] = <<a, b>>[i]
    BY <2>2, <2>3
  <2> QED BY <2>1, <2>2, <2>4, SeqEqual
<1>3. ASSUME NEW a, NEW b, NEW c PROVE Append(<<a, b>>, c) = <<a, b, c>>
  <2> DEFINE S == {a, b, c}
  <2>1. <<a, b>> \in Seq(S) /\ <<a, b, c>> \in Seq(S) /\ Len(<<a, b>>) = 2 /\ Len(<<a, b, c>>) = 3
    OBVIOUS
  <2>2. /\ Append(<<a, b>>, c) \in Seq(S) /\ Len(Append(<<a, b>>, c)) = 3
        /\ Append(<<a, b>>, c)[1] = a /\ Append(<<a, b>>, c)[2] = b /\ Append(<<a, b>>, c)[3] = c
    BY <2>1, AppendProperties
  <2>3. \A i \in 1 .. 3 : i = 1 \/ i = 2 \/ i = 3
    OBVIOUS
  <2>4. \A i \in 1 .. 3 : Append(<<a, b>>, c)[i] = <<a, b, c>>[i]
    BY <2>2, <2>3
  <2> QED BY <2>1, <2>2, <2>4, SeqEqual
<1>4. \A a : Tail(<<a>>) = <<>> /\ Head(<<a>>) = a /\ <<a>> # <<>>
  OBVIOUS
<1>5. \A a, b : Tail(<<a, b>>) = <<b>> /\ Head(<<a, b>>) = a /\ <<a, b>> # <<>>
  OBVIOUS
<1>6. \A a, b, c : Tail(<<a, b, c>>) = <<b, c>> /\ Head(<<a, b, c>>) = a /\ <<a, b, c>> # <<>>
  OBVIOUS
<1> QED BY <1>1, <1>2, <1>3, <1>4, <1>5, <1>6

LEMMA NoAcks ==
  /\ \A s : NoAck(s) => AckLast(s) /\ ~HasAck(s) /\ OneAck(s)
  /\ \A s \in Seq(Bytes) : NoAck(s) => Quiet(s)
  /\ NoAck(<<>>) /\ Quiet(<<>>)
<1>1. \A s : NoAck(s) => AckLast(s) /\ ~HasAck(s) /\ OneAck(s)
  BY DEF NoAck, AckLast, HasAck, OneAck
<1>2. ASSUME NEW s \in Seq(Bytes), NoAck(s), s # <<>> PROVE s[1] # "fa"
  BY <1>2, Reading DEF NoAck
<1>3. NoAck(<<>>)
  BY DEF NoAck
<1> QED BY <1>1, <1>2, <1>3 DEF Quiet, Other

(* Of a sequence with one acknowledgement at most, one at most is read.    *)
LEMMA OneRead ==
  ASSUME NEW s \in Seq(Bytes), OneAck(s)
  PROVE  Quiet(s) \/ (s # <<>> /\ s[1] = "fa" /\ Quiet(Tail(s)))
<1>1. CASE s # <<>> /\ s[1] = "fa"
  <2>1. NoAck(Tail(s)) /\ Tail(s) \in Seq(Bytes)
    BY <1>1, Reading
  <2> QED BY <1>1, <2>1, NoAcks
<1>2. CASE ~(s # <<>> /\ s[1] = "fa")
  BY <1>2 DEF Quiet, Other
<1> QED BY <1>1, <1>2

(* A byte is sent to the data port: for the controller, or the keyboard.   *)
Given(byte) ==
  IF awaits
  THEN /\ awaits' = FALSE
       /\ controller' = IF byte \in {"original", "probing"} THEN byte ELSE "stray"
       /\ UNCHANGED <<inbox, out>>
  ELSE /\ inbox' = Append(inbox, byte)
       /\ UNCHANGED <<controller, awaits, out>>

-----------------------------------------------------------------------------
(* A byte that is sent.                                                    *)
LEMMA SendKeeps ==
  ASSUME IInv, Send
  PROVE  Path'
<1> USE DEF Starting, Masking, Asking, Getting, Setting, Keying, Restoring, Leaving,
            Still, Probing, Restored, Remembered
<1>1. /\ config' = config /\ old_scanset' = old_scanset /\ keyboard' = keyboard
      /\ original' = original /\ lost' = lost
  BY DEF Send, tool
<1>2. Path /\ out \in Seq(Bytes) /\ original \in Sets
  BY DEF IInv, TypeOK
<1>3. CASE pc = "off"
  <2>1. pc' = "off_ack" /\ Given("f5")
    BY <1>3, SendsAre DEF Send, Deliver, Data, Given
  <2>2. AtStart'
    BY <1>1, <1>2, <1>3, <2>1, Short, NoAcks DEF Path, Given, AtStart, Stopping
  <2> QED BY <2>1, <2>2, InPart
<1>4. CASE pc = "conf"
  <2>1. pc' = "conf_in" /\ Deliver(Command("20", "conf_in"))
    BY <1>4, SendsAre DEF Send, Command
  <2>2. AtMask'
    BY <1>1, <1>2, <1>4, <2>1, Short, NoAcks DEF Path, Deliver, Command, AtMask
  <2> QED BY <2>1, <2>2, InPart
<1>5. CASE pc = "mask"
  <2>1. pc' = "masked" /\ Deliver(Command("60", "masked"))
    BY <1>5, SendsAre DEF Send, Command
  <2>2. AtMask'
    BY <1>1, <1>2, <1>5, <2>1, Short, NoAcks DEF Path, Deliver, Command, AtMask
  <2> QED BY <2>1, <2>2, InPart
<1>6. CASE pc = "masked"
  <2>1. pc' = "id" /\ Given(Masked)
    BY <1>6, SendsAre DEF Send, Deliver, Data, Given
  <2>2. /\ controller = "original" /\ inbox = <<>> /\ out = <<>> /\ Still /\ config = "original"
        /\ awaits \/ "mask" \in lost
    BY <1>2, <1>6 DEF Path, AtMask
  <2>3. config' = "original" /\ Still' /\ out' = <<>> /\ NoAck(out') /\ OneAck(out')
    BY <1>1, <2>1, <2>2, NoAcks DEF Given
  <2>4. CASE awaits
    <3>1. ~awaits' /\ controller' = "probing" /\ inbox' = <<>>
      BY <2>1, <2>2, <2>4 DEF Given, Masked
    <3> QED BY <2>1, <2>3, <3>1, InPart DEF AtId
  <2>5. CASE ~awaits
    <3>1. "mask" \in lost' /\ inbox' = <<"probing">> /\ ~awaits'
      BY <1>1, <2>1, <2>2, <2>5, Short DEF Given, Masked
    <3> QED BY <2>1, <2>3, <3>1, InPart DEF AtId
  <2> QED BY <2>4, <2>5
<1>7. CASE pc = "id"
  <2>1. pc' = "id_ack" /\ Given("f2")
    BY <1>7, SendsAre DEF Send, Deliver, Data, Given
  <2>2. /\ config = "original" /\ Probing /\ Still /\ NoAck(out)
        /\ awaits => inbox = <<>> /\ out = <<>>
        /\ inbox \in {<<>>, <<"probing">>}
    BY <1>2, <1>7 DEF Path, AtId
  <2>3. config' = "original" /\ Still' /\ out' = out /\ NoAck(out') /\ OneAck(out')
    BY <1>1, <2>1, <2>2, NoAcks DEF Given
  <2>4. Probing' /\ ~awaits'
    BY <1>1, <2>1, <2>2 DEF Given
  <2>5. inbox' \in {<<>>, <<"f2">>, <<"probing", "f2">>}
    BY <2>1, <2>2, Short DEF Given
  <2> QED BY <2>1, <2>3, <2>4, <2>5, InPart DEF AtId
<1>8. CASE pc = "get"
  <2>1. pc' = "get_ack" /\ Given("f0")
    BY <1>8, SendsAre DEF Send, Deliver, Data, Given
  <2>2. /\ config = "original" /\ Probing /\ Still /\ OneAck(out)
        /\ awaits => inbox = <<>> /\ out = <<>>
        /\ inbox \in {<<>>, <<"probing">>, <<"f2">>, <<"probing", "f2">>}
        /\ inbox # <<>> => NoAck(out)
    BY <1>2, <1>8 DEF Path, AtId
  <2>3. /\ config' = "original" /\ out' = out /\ Probing' /\ ~awaits'
        /\ keyboard'.set = original' /\ ~keyboard'.scans /\ ~keyboard'.awaits
    BY <1>1, <2>1, <2>2 DEF Given
  <2>4. CASE inbox = <<>>
    <3>1. inbox' \in {<<"f0">>, <<>>}
      BY <2>1, <2>4, Short DEF Given
    <3>2. Quiet(out') \/ (out' # <<>> /\ out'[1] = "fa" /\ Quiet(Tail(out')))
      BY <1>2, <2>2, <2>3, OneRead
    <3>3. AtGet'
      BY <2>1, <2>3, <3>1, <3>2 DEF AtGet
    <3> QED BY <2>1, <3>3, InPart
  <2>5. CASE inbox # <<>>
    <3>1. inbox' \in {<<"probing", "f2", "f0">>, <<"f2", "f0">>, <<"probing", "f0">>}
      <4>1. inbox' = Append(inbox, "f0")
        BY <2>1, <2>2, <2>5 DEF Given
      <4>2. inbox = <<"probing">> \/ inbox = <<"f2">> \/ inbox = <<"probing", "f2">>
        BY <2>2, <2>5
      <4>3. /\ Append(<<"probing">>, "f0") = <<"probing", "f0">>
            /\ Append(<<"f2">>, "f0") = <<"f2", "f0">>
            /\ Append(<<"probing", "f2">>, "f0") = <<"probing", "f2", "f0">>
        BY Short
      <4> QED BY <4>1, <4>2, <4>3
    <3>2. Quiet(out')
      BY <1>2, <2>2, <2>3, <2>5, NoAcks
    <3>3. AtGet'
      BY <2>1, <2>3, <3>1, <3>2 DEF AtGet
    <3> QED BY <2>1, <3>3, InPart
  <2> QED BY <2>4, <2>5
<1>9. CASE pc = "get0"
  <2>1. pc' = "get0_ack" /\ Given("00")
    BY <1>9, SendsAre DEF Send, Deliver, Data, Given
  <2>2. /\ config = "original" /\ Probing /\ ~awaits
        /\ keyboard.set = original /\ ~keyboard.scans
        /\ \/ inbox \in {<<"f0">>, <<>>} /\ ~keyboard.awaits /\ Quiet(out)
           \/ inbox = <<>> /\ keyboard.awaits /\ (Quiet(out) \/ out = <<"fa">>)
    BY <1>2, <1>9 DEF Path, AtGet
  <2>3. /\ config' = "original" /\ Probing' /\ ~awaits' /\ out' = out
        /\ keyboard'.set = original' /\ ~keyboard'.scans
    BY <1>1, <2>1, <2>2 DEF Given
  <2>4. \/ inbox' \in {<<"f0", "00">>, <<"00">>} /\ ~keyboard'.awaits /\ Quiet(out')
        \/ inbox' = <<"00">> /\ keyboard'.awaits /\ (Quiet(out') \/ out' = <<"fa">>)
    BY <1>1, <2>1, <2>2, <2>3, Short DEF Given
  <2>5. AtGet'
    BY <2>1, <2>3, <2>4 DEF AtGet
  <2> QED BY <2>1, <2>5, InPart
<1>10. CASE pc = "set"
  <2>1. pc' = "set_ack" /\ Given("f0")
    BY <1>10, SendsAre DEF Send, Deliver, Data, Given
  <2>2. /\ config = "original" /\ Probing /\ ~awaits /\ Remembered /\ ~keyboard.scans
        /\ inbox = <<>> /\ out \in {<<>>, <<original>>} /\ original # "fa"
    BY <1>2, <1>10 DEF Path, AtSet, Sets
  <2>3. /\ config' = "original" /\ Probing' /\ ~awaits' /\ Remembered' /\ ~keyboard'.scans
        /\ inbox' = <<"f0">> /\ out' = out
    BY <1>1, <2>1, <2>2, Short DEF Given
  <2>4. Quiet(out')
    BY <2>2, <2>3, Short DEF Quiet, Other
  <2>5. AtSet'
    BY <2>1, <2>3, <2>4 DEF AtSet
  <2> QED BY <2>1, <2>5, InPart
<1>11. CASE pc = "set3"
  <2>1. pc' = "set3_ack" /\ Given("03")
    BY <1>11, SendsAre DEF Send, Deliver, Data, Given
  <2>2. AtSet'
    BY <1>1, <1>2, <1>11, <2>1, Short, NoAcks DEF Path, Given, AtSet
  <2> QED BY <2>1, <2>2, InPart
<1>12. CASE pc = "on"
  <2>1. pc' = "on_ack" /\ Given("f4")
    BY <1>12, SendsAre DEF Send, Deliver, Data, Given
  <2>2. AtKeys'
    BY <1>1, <1>2, <1>12, <2>1, Short, NoAcks DEF Path, Given, AtKeys, AtSet
  <2> QED BY <2>1, <2>2, InPart
<1>13. CASE pc = "stop"
  <2>1. pc' = "stop_ack" /\ Given("f5")
    BY <1>13, SendsAre DEF Send, Deliver, Data, Given
  <2>2. AtRestore'
    BY <1>1, <1>2, <1>13, <2>1, Short, NoAcks DEF Path, Given, AtRestore, AtKeys, Stopping
  <2> QED BY <2>1, <2>2, InPart
<1>14. CASE pc = "back"
  <2>1. pc' = "back_ack" /\ Given("f0")
    BY <1>14, SendsAre DEF Send, Deliver, Data, Given
  <2>2. AtRestore'
    BY <1>1, <1>2, <1>14, <2>1, Short, NoAcks DEF Path, Given, AtRestore
  <2> QED BY <2>1, <2>2, InPart
<1>15. CASE pc = "backset"
  <2>1. pc' = "backset_ack" /\ Given(old_scanset)
    BY <1>15, SendsAre DEF Send, Deliver, Data, Given
  <2>2. AtRestore'
    BY <1>1, <1>2, <1>15, <2>1, Short, NoAcks DEF Path, Given, AtRestore
  <2> QED BY <2>1, <2>2, InPart
<1>16. CASE pc = "unmask"
  <2>1. pc' = "unmasked" /\ Deliver(Command("60", "unmasked"))
    BY <1>16, SendsAre DEF Send, Command
  <2>2. AtLeave'
    BY <1>1, <1>2, <1>16, <2>1, Short, NoAcks DEF Path, Deliver, Command, AtLeave, AtRestore
  <2> QED BY <2>1, <2>2, InPart
<1>17. CASE pc = "unmasked"
  <2>1. pc' = "again" /\ Given(config)
    BY <1>17, SendsAre DEF Send, Deliver, Data, Given
  <2>2. AtLeave'
    BY <1>1, <1>2, <1>17, <2>1, Short, NoAcks DEF Path, Given, AtLeave
  <2> QED BY <2>1, <2>2, InPart
<1>18. CASE pc = "again"
  <2>1. pc' = "again_ack" /\ Given("f4")
    BY <1>18, SendsAre DEF Send, Deliver, Data, Given
  <2>2. /\ config = "original" /\ keyboard.set = original /\ ~keyboard.awaits /\ ~keyboard.scans
        /\ \/ inbox = <<"original">> /\ out = <<>> /\ ~awaits
           \/ inbox = <<>> /\ Other(out) /\ ~awaits
           \/ inbox = <<>> /\ Quiet(out) /\ (awaits \/ Restored)
    BY <1>2, <1>18 DEF Path, AtLeave
  <2>3. /\ config' = "original" /\ keyboard'.set = original' /\ ~keyboard'.awaits
        /\ ~keyboard'.scans /\ out' = out /\ ~awaits'
    BY <1>1, <2>1, <2>2 DEF Given
  <2>4. CASE awaits
    <3>1. inbox' = <<>> /\ Quiet(out')
      BY <2>1, <2>2, <2>3, <2>4 DEF Given, Other
    <3>2. AtLeave'
      BY <2>1, <2>3, <3>1 DEF AtLeave, Quiet
    <3> QED BY <2>1, <3>2, InPart
  <2>5. CASE ~awaits
    <3>1. \/ inbox' = <<"original", "f4">> /\ out' = <<>>
          \/ inbox' = <<"f4">> /\ Other(out')
          \/ inbox' = <<"f4">> /\ out' = <<>> /\ Restored'
      BY <1>1, <2>1, <2>2, <2>3, <2>5, Short DEF Given, Quiet
    <3>2. AtLeave'
      BY <2>1, <2>3, <3>1 DEF AtLeave
    <3> QED BY <2>1, <3>2, InPart
  <2> QED BY <2>4, <2>5
<1>19. pc \in DOMAIN Sends
  BY DEF Send
<1> QED BY <1>3, <1>4, <1>5, <1>6, <1>7, <1>8, <1>9, <1>10, <1>11,
           <1>12, <1>13, <1>14, <1>15, <1>16, <1>17, <1>18, <1>19, SendsAre

-----------------------------------------------------------------------------
(* A send that times out: the byte is lost, and with it what the interrupt *)
(* handler takes while the message is printed.                             *)
LEMMA LossKeeps ==
  ASSUME IInv, SendTimesOut
  PROVE  Path'
<1> USE DEF Starting, Masking, Asking, Getting, Setting, Keying, Restoring, Leaving,
            Still, Probing, Restored, Remembered
<1>1. /\ config' = config /\ old_scanset' = old_scanset /\ keyboard' = keyboard
      /\ original' = original /\ lost' = lost \cup {pc}
      /\ controller' = controller /\ awaits' = awaits /\ inbox' = inbox
      /\ out' = out \/ out' = <<>>
  BY DEF SendTimesOut, tool, device
<1>2. Path /\ out \in Seq(Bytes) /\ original \in Sets
  BY DEF IInv, TypeOK
<1>3. CASE pc = "off"
  <2>1. pc' = "off_ack"
    BY <1>3, SendsAre DEF SendTimesOut, Data, Command
  <2>2. AtStart'
    BY <1>1, <1>2, <1>3, <2>1, Short, NoAcks DEF Path, AtStart, Stopping
  <2> QED BY <2>1, <2>2, InPart
<1>4. CASE pc = "conf"
  <2>1. pc' = "conf_in"
    BY <1>4, SendsAre DEF SendTimesOut, Data, Command
  <2>2. AtMask'
    BY <1>1, <1>2, <1>4, <2>1, Short, NoAcks DEF Path, AtMask
  <2> QED BY <2>1, <2>2, InPart
<1>5. CASE pc = "mask"
  <2>1. pc' = "masked"
    BY <1>5, SendsAre DEF SendTimesOut, Data, Command
  <2>2. AtMask'
    BY <1>1, <1>2, <1>5, <2>1, Short, NoAcks DEF Path, AtMask
  <2> QED BY <2>1, <2>2, InPart
<1>6. CASE pc = "masked"
  <2>1. pc' = "id"
    BY <1>6, SendsAre DEF SendTimesOut, Data, Command
  <2>2. AtId'
    BY <1>1, <1>2, <1>6, <2>1, Short, NoAcks DEF Path, AtId, AtMask
  <2> QED BY <2>1, <2>2, InPart
<1>7. CASE pc = "id"
  <2>1. pc' = "id_ack"
    BY <1>7, SendsAre DEF SendTimesOut, Data, Command
  <2>2. AtId'
    BY <1>1, <1>2, <1>7, <2>1, Short, NoAcks DEF Path, AtId
  <2> QED BY <2>1, <2>2, InPart
<1>8. CASE pc = "get"
  <2>1. pc' = "get_ack"
    BY <1>8, SendsAre DEF SendTimesOut, Data, Command
  <2>2. /\ config = "original" /\ Probing /\ Still /\ OneAck(out)
        /\ awaits => inbox = <<>> /\ out = <<>>
        /\ inbox \in {<<>>, <<"probing">>, <<"f2">>, <<"probing", "f2">>}
        /\ inbox # <<>> => NoAck(out)
    BY <1>2, <1>8 DEF Path, AtId
  <2>3. /\ config' = "original" /\ Probing'
        /\ keyboard'.set = original' /\ ~keyboard'.scans /\ ~keyboard'.awaits
        /\ awaits' => inbox' = <<>> /\ out' = <<>>
    BY <1>1, <2>1, <2>2
  <2>4. CASE inbox = <<>>
    <3>1. Quiet(out') \/ (out' # <<>> /\ out'[1] = "fa" /\ Quiet(Tail(out')))
      BY <1>1, <1>2, <2>2, OneRead, NoAcks
    <3>2. AtGet'
      BY <1>1, <2>1, <2>3, <2>4, <3>1 DEF AtGet
    <3> QED BY <2>1, <3>2, InPart
  <2>5. CASE inbox # <<>>
    <3>1. Quiet(out')
      BY <1>1, <1>2, <2>2, <2>5, NoAcks
    <3>2. inbox' \in {<<"probing", "f2">>, <<"f2">>, <<"probing">>}
      BY <1>1, <2>2, <2>5
    <3>3. AtGet'
      BY <2>1, <2>3, <3>1, <3>2, Short DEF AtGet
    <3> QED BY <2>1, <3>3, InPart
  <2> QED BY <2>4, <2>5
<1>9. CASE pc = "get0"
  <2>1. pc' = "get0_ack"
    BY <1>9, SendsAre DEF SendTimesOut, Data, Command
  <2>2. AtGet'
    BY <1>1, <1>2, <1>9, <2>1, Short, NoAcks DEF Path, AtGet
  <2> QED BY <2>1, <2>2, InPart
<1>10. CASE pc = "set"
  <2>1. pc' = "set_ack"
    BY <1>10, SendsAre DEF SendTimesOut, Data, Command
  <2>2. /\ config = "original" /\ Probing /\ ~awaits /\ Remembered /\ ~keyboard.scans
        /\ inbox = <<>> /\ out \in {<<>>, <<original>>} /\ original # "fa"
    BY <1>2, <1>10 DEF Path, AtSet, Sets
  <2>3. /\ config' = "original" /\ Probing' /\ ~awaits' /\ Remembered' /\ ~keyboard'.scans
        /\ inbox' = <<>> /\ out' \in {<<>>, <<original>>}
    BY <1>1, <2>1, <2>2
  <2>4. Quiet(out')
    BY <2>2, <2>3, Short DEF Quiet, Other
  <2>5. AtSet'
    BY <2>1, <2>3, <2>4 DEF AtSet
  <2> QED BY <2>1, <2>5, InPart
<1>11. CASE pc = "set3"
  <2>1. pc' = "set3_ack"
    BY <1>11, SendsAre DEF SendTimesOut, Data, Command
  <2>2. AtSet'
    BY <1>1, <1>2, <1>11, <2>1, Short, NoAcks DEF Path, AtSet
  <2> QED BY <2>1, <2>2, InPart
<1>12. CASE pc = "on"
  <2>1. pc' = "on_ack"
    BY <1>12, SendsAre DEF SendTimesOut, Data, Command
  <2>2. AtKeys'
    BY <1>1, <1>2, <1>12, <2>1, Short, NoAcks DEF Path, AtKeys, AtSet
  <2> QED BY <2>1, <2>2, InPart
<1>13. CASE pc = "stop"
  <2>1. pc' = "stop_ack"
    BY <1>13, SendsAre DEF SendTimesOut, Data, Command
  <2>2. AtRestore'
    BY <1>1, <1>2, <1>13, <2>1, Short, NoAcks DEF Path, AtRestore, AtKeys, Stopping
  <2> QED BY <2>1, <2>2, InPart
<1>14. CASE pc = "back"
  <2>1. pc' = "back_ack"
    BY <1>14, SendsAre DEF SendTimesOut, Data, Command
  <2>2. AtRestore'
    BY <1>1, <1>2, <1>14, <2>1, Short, NoAcks DEF Path, AtRestore
  <2> QED BY <2>1, <2>2, InPart
<1>15. CASE pc = "backset"
  <2>1. pc' = "backset_ack"
    BY <1>15, SendsAre DEF SendTimesOut, Data, Command
  <2>2. AtRestore'
    BY <1>1, <1>2, <1>15, <2>1, Short, NoAcks DEF Path, AtRestore
  <2> QED BY <2>1, <2>2, InPart
<1>16. CASE pc = "unmask"
  <2>1. pc' = "unmasked"
    BY <1>16, SendsAre DEF SendTimesOut, Data, Command
  <2>2. AtLeave'
    BY <1>1, <1>2, <1>16, <2>1, Short, NoAcks DEF Path, AtLeave, AtRestore
  <2> QED BY <2>1, <2>2, InPart
<1>17. CASE pc = "unmasked"
  <2>1. pc' = "again"
    BY <1>17, SendsAre DEF SendTimesOut, Data, Command
  <2>2. AtLeave'
    BY <1>1, <1>2, <1>17, <2>1, Short, NoAcks DEF Path, AtLeave
  <2> QED BY <2>1, <2>2, InPart
<1>18. CASE pc = "again"
  <2>1. pc' = "again_ack"
    BY <1>18, SendsAre DEF SendTimesOut, Data, Command
  <2>2. /\ config = "original" /\ keyboard.set = original /\ ~keyboard.awaits /\ ~keyboard.scans
        /\ \/ inbox = <<"original">> /\ out = <<>> /\ ~awaits
           \/ inbox = <<>> /\ Quiet(out)
    BY <1>2, <1>18 DEF Path, AtLeave, Quiet
  <2>3. /\ config' = "original" /\ keyboard'.set = original' /\ ~keyboard'.awaits
        /\ ~keyboard'.scans /\ inbox' = inbox
    BY <1>1, <2>1, <2>2
  <2>4. (inbox' = <<"original">> /\ out' = <<>>) \/ (inbox' = <<>> /\ Quiet(out'))
    BY <1>1, <2>2, <2>3, NoAcks
  <2>5. AtLeave'
    BY <2>1, <2>3, <2>4 DEF AtLeave, Quiet
  <2> QED BY <2>1, <2>5, InPart
<1>19. pc \in DOMAIN Sends
  BY DEF SendTimesOut
<1> QED BY <1>3, <1>4, <1>5, <1>6, <1>7, <1>8, <1>9, <1>10, <1>11,
           <1>12, <1>13, <1>14, <1>15, <1>16, <1>17, <1>18, <1>19, SendsAre

(* An acknowledgement passes translation, and nothing else becomes one.    *)
LEMMA HeardIs ==
  ASSUME NEW byte, NEW heard \in Heard(byte)
  PROVE  heard = "fa" <=> byte = "fa"
  BY DEF Heard, Sets

-----------------------------------------------------------------------------
(* The acknowledgements.                                                   *)
LEMMA AckRead ==
  ASSUME IInv, ReadAck
  PROVE  /\ config' = config /\ old_scanset' = old_scanset /\ keyboard' = keyboard
         /\ original' = original /\ lost' = lost
         /\ controller' = controller /\ awaits' = awaits /\ inbox' = inbox
         /\ \/ out' = out /\ out = <<>> /\ pc' = WrongAck(pc)
            \/ out' = Tail(out) /\ out # <<>> /\ Head(out) # "fa" /\ pc' = WrongAck(pc)
            \/ out' = Tail(out) /\ out # <<>> /\ Head(out) = "fa" /\ pc' = Acks[pc]
<1>1. CASE ReadTimesOut /\ pc' = WrongAck(pc)
  BY <1>1 DEF ReadAck, ReadTimesOut, tool, device
<1>2. CASE \E byte \in Bytes : ReadGives(byte) /\ pc' = IF byte = "fa" THEN Acks[pc] ELSE WrongAck(pc)
  <2>1. PICK byte \in Bytes : ReadGives(byte) /\ pc' = IF byte = "fa" THEN Acks[pc] ELSE WrongAck(pc)
    BY <1>2
  <2>2. byte = "fa" <=> Head(out) = "fa"
    BY <2>1, HeardIs DEF ReadGives
  <2> QED BY <2>1, <2>2 DEF ReadAck, ReadGives, tool, device
<1> QED BY <1>1, <1>2 DEF ReadAck

LEMMA AckKeeps ==
  ASSUME IInv, ReadAck
  PROVE  Path'
<1> USE DEF Starting, Masking, Asking, Getting, Setting, Keying, Restoring, Leaving,
            Still, Probing, Restored, Remembered
<1>1. Path /\ out \in Seq(Bytes) /\ original \in Sets
  BY DEF IInv, TypeOK
<1>2. out # <<>> =>
        /\ out[1] = Head(out) /\ Tail(out) \in Seq(Bytes)
        /\ Other(out) <=> Head(out) # "fa"
        /\ Quiet(out) <=> Head(out) # "fa"
        /\ NoAck(out) => NoAck(Tail(out)) /\ Head(out) # "fa"
        /\ OneAck(out) => OneAck(Tail(out)) /\ (Head(out) = "fa" => NoAck(Tail(out)))
  BY <1>1, Reading DEF Quiet
<1>3. CASE pc # "id_ack" /\ pc' = "exit1"
  BY <1>3, InPart
<1>4. CASE pc = "off_ack" /\ pc' # "exit1"
  <2>1. pc' = "conf" /\ out' = Tail(out) /\ out # <<>> /\ Head(out) = "fa"
    BY <1>4, AckRead, AcksAre DEF WrongAck
  <2>2. AtMask'
    BY <1>1, <1>2, <1>4, <2>1, AckRead, Short, NoAcks DEF Path, AtMask, AtStart, Stopping, AckLast, HasAck
  <2> QED BY <2>1, <2>2, InPart
<1>5. CASE pc = "id_ack"
  <2>1. pc' \in {"id1", "say_id"}
    BY <1>5, AckRead, AcksAre DEF WrongAck
  <2>2. AtId'
    BY <1>1, <1>2, <1>5, <2>1, AckRead, NoAcks DEF Path, AtId
  <2> QED BY <2>1, <2>2, InPart
<1>6. CASE pc = "get_ack" /\ pc' # "exit1"
  <2>1. pc' = "get0" /\ out' = Tail(out) /\ out # <<>> /\ Head(out) = "fa"
    BY <1>6, AckRead, AcksAre DEF WrongAck
  <2>2. AtGet'
    BY <1>1, <1>2, <1>6, <2>1, AckRead, Short, NoAcks DEF Path, AtGet
  <2> QED BY <2>1, <2>2, InPart
<1>7. CASE pc = "get0_ack" /\ pc' # "exit1"
  <2>1. pc' = "get2" /\ out' = Tail(out) /\ out # <<>> /\ Head(out) = "fa"
    BY <1>7, AckRead, AcksAre DEF WrongAck
  <2>2. /\ config = "original" /\ Probing /\ ~awaits
        /\ keyboard.set = original /\ ~keyboard.scans
        /\ \/ inbox \in {<<"00">>, <<>>} /\ keyboard.awaits /\ out = <<"fa">>
           \/ /\ inbox = <<>> /\ ~keyboard.awaits
              /\ out \in {<<"fa">>, <<"fa", original>>, <<"fa", "fa", original>>}
    BY <1>1, <1>2, <1>7, <2>1 DEF Path, AtGet
  <2>3. /\ config' = "original" /\ Probing' /\ ~awaits'
        /\ keyboard'.set = original' /\ ~keyboard'.scans
    BY <2>2, AckRead
  <2>4. \/ inbox' \in {<<"00">>, <<>>} /\ keyboard'.awaits /\ out' = <<>>
        \/ inbox' = <<>> /\ ~keyboard'.awaits /\ out' \in {<<>>, <<original>>, <<"fa", original>>}
    <3>1. /\ Tail(<<"fa">>) = <<>> /\ Tail(<<"fa", original>>) = <<original>>
          /\ Tail(<<"fa", "fa", original>>) = <<"fa", original>>
      BY Short
    <3>2. inbox' = inbox /\ keyboard' = keyboard /\ original' = original
      BY AckRead
    <3> QED BY <2>1, <2>2, <3>1, <3>2
  <2>5. AtGet'
    BY <2>1, <2>3, <2>4, AckRead DEF AtGet
  <2> QED BY <2>1, <2>5, InPart
<1>8. CASE pc = "set_ack" /\ pc' # "exit1"
  <2>1. pc' = "set3" /\ out' = Tail(out) /\ out # <<>> /\ Head(out) = "fa"
    BY <1>8, AckRead, AcksAre DEF WrongAck
  <2>2. AtSet'
    BY <1>1, <1>2, <1>8, <2>1, AckRead, Short, NoAcks DEF Path, AtSet
  <2> QED BY <2>1, <2>2, InPart
<1>9. CASE pc = "set3_ack" /\ pc' # "exit1"
  <2>1. pc' = "on" /\ out' = Tail(out) /\ out # <<>> /\ Head(out) = "fa"
    BY <1>9, AckRead, AcksAre DEF WrongAck
  <2>2. AtSet'
    BY <1>1, <1>2, <1>9, <2>1, AckRead, Short, NoAcks DEF Path, AtSet
  <2> QED BY <2>1, <2>2, InPart
<1>10. CASE pc = "on_ack" /\ pc' # "exit1"
  <2>1. pc' = "key" /\ out' = Tail(out) /\ out # <<>> /\ Head(out) = "fa"
    BY <1>10, AckRead, AcksAre DEF WrongAck
  <2>2. AtKeys'
    BY <1>1, <1>2, <1>10, <2>1, AckRead, Short, NoAcks DEF Path, AtKeys
  <2> QED BY <2>1, <2>2, InPart
<1>11. CASE pc = "stop_ack" /\ pc' # "exit1"
  <2>1. pc' = "back" /\ out' = Tail(out) /\ out # <<>> /\ Head(out) = "fa"
    BY <1>11, AckRead, AcksAre DEF WrongAck
  <2>2. AtRestore'
    BY <1>1, <1>2, <1>11, <2>1, AckRead, Short, NoAcks DEF Path, AtRestore, Stopping, AckLast, HasAck
  <2> QED BY <2>1, <2>2, InPart
<1>12. CASE pc = "back_ack" /\ pc' # "exit1"
  <2>1. pc' = "backset" /\ out' = Tail(out) /\ out # <<>> /\ Head(out) = "fa"
    BY <1>12, AckRead, AcksAre DEF WrongAck
  <2>2. AtRestore'
    BY <1>1, <1>2, <1>12, <2>1, AckRead, Short, NoAcks DEF Path, AtRestore
  <2> QED BY <2>1, <2>2, InPart
<1>13. CASE pc = "backset_ack" /\ pc' # "exit1"
  <2>1. pc' = "unmask" /\ out' = Tail(out) /\ out # <<>> /\ Head(out) = "fa"
    BY <1>13, AckRead, AcksAre DEF WrongAck
  <2>2. AtRestore'
    BY <1>1, <1>2, <1>13, <2>1, AckRead, Short, NoAcks DEF Path, AtRestore
  <2> QED BY <2>1, <2>2, InPart
<1>14. CASE pc = "again_ack" /\ pc' # "exit1"
  <2>1. pc' = "exit0" /\ out' = Tail(out) /\ out # <<>> /\ Head(out) = "fa"
    BY <1>14, AckRead, AcksAre DEF WrongAck
  <2>2. AtExit'
    BY <1>1, <1>2, <1>14, <2>1, AckRead, Short, NoAcks DEF Path, AtExit, AtLeave
  <2> QED BY <2>1, <2>2, InPart
<1>15. pc \in DOMAIN Acks
  BY DEF ReadAck
<1> QED BY <1>3, <1>4, <1>5, <1>6, <1>7, <1>8, <1>9, <1>10, <1>11,
           <1>12, <1>13, <1>14, <1>15, AcksAre

-----------------------------------------------------------------------------
(* The other reads, and what is printed.                                   *)
LEMMA FlushKeeps ==
  ASSUME IInv, Flush
  PROVE  Path'
<1>1. AtStart /\ out \in Seq(Bytes)
  BY DEF IInv, Path, TypeOK
<1>2. pc = "flush" /\ pc' = "off" /\ out' = (IF out = <<>> THEN out ELSE Tail(out))
  BY DEF Flush
<1>3. inbox = <<>> /\ NoAck(out) /\ NoAck(out')
  BY <1>1, <1>2, Reading DEF AtStart, Starting
<1>4. AtStart'
  BY <1>1, <1>2, <1>3 DEF Flush, device, AtStart, Starting
<1> QED BY <1>2, <1>4, InPart DEF Starting

(* A byte that is read and not tested.                                     *)
LEMMA ByteRead ==
  ASSUME NEW byte, ReadGives(byte), out \in Seq(Bytes)
  PROVE  /\ out # <<>> /\ out' = Tail(out) /\ out' \in Seq(Bytes) /\ faults' = faults
         /\ NoAck(out) => NoAck(out')
         /\ OneAck(out) => OneAck(out')
  BY Reading DEF ReadGives

LEMMA ConfigKeeps ==
  ASSUME IInv, ReadConfig
  PROVE  Path'
<1>1. AtMask /\ out \in Seq(Bytes) /\ pc = "conf_in"
  BY DEF IInv, Path, TypeOK, ReadConfig
<1>2. CASE pc' = "exit1"
  BY <1>2, InPart
<1>3. CASE pc' # "exit1"
  <2>1. PICK byte \in Bytes : ReadGives(byte) /\ config' = byte /\ pc' = "say_conf"
    BY <1>3 DEF ReadConfig
  <2>2. out # <<>> /\ out' = Tail(out) /\ byte \in Heard(Head(out))
    BY <2>1 DEF ReadGives
  <2>3. out = <<"original">> /\ controller = "original"
    BY <1>1, <2>2 DEF AtMask, Masking
  <2>4. out' = <<>> /\ Head(out) = "original"
    BY <2>2, <2>3, Short
  <2>5. byte = "original"
    BY <2>2, <2>3, <2>4 DEF Heard, Sets
  <2>6. AtMask'
    BY <1>1, <2>1, <2>4, <2>5 DEF ReadConfig, device, AtMask, Masking, Still
  <2> QED BY <2>1, <2>6, InPart DEF Masking
<1> QED BY <1>2, <1>3

LEMMA IdKeeps ==
  ASSUME IInv, ReadId
  PROVE  Path'
<1>1. AtId /\ out \in Seq(Bytes) /\ pc \in {"id1", "id2"} /\ pc' \in {"id2", "say_id"}
  BY DEF IInv, Path, TypeOK, ReadId
<1>2. out' = out \/ \E byte \in Bytes : ReadGives(byte)
  BY DEF ReadId, ReadTimesOut
<1>3. out' = out \/ (out # <<>> /\ out' = Tail(out))
  BY <1>2 DEF ReadGives
<1>4. (OneAck(out) => OneAck(out')) /\ (NoAck(out) => NoAck(out'))
  BY <1>1, <1>3, Reading
<1>5. out = <<>> => out' = <<>>
  BY <1>3
<1>6. AtId'
  BY <1>1, <1>4, <1>5 DEF ReadId, tool, device, AtId, Asking, Still, Probing
<1> QED BY <1>1, <1>6, InPart DEF Asking

LEMMA ScanSetKeeps ==
  ASSUME IInv, ReadScanSet
  PROVE  Path'
<1>1. AtGet /\ out \in Seq(Bytes) /\ pc = "get2" /\ original \in Sets
  BY DEF IInv, Path, TypeOK, ReadScanSet
<1>2. CASE pc' = "exit1"
  BY <1>2, InPart
<1>3. CASE pc' # "exit1"
  <2>1. PICK byte \in Bytes : ReadGives(byte) /\ old_scanset' = byte /\ pc' = "say_set"
    BY <1>3 DEF ReadScanSet
  <2>2. out # <<>> /\ out' = Tail(out) /\ byte \in Heard(Head(out))
    BY <2>1 DEF ReadGives
  <2>3. inbox = <<>> /\ out \in {<<original>>, <<"fa", original>>}
    BY <1>1, <2>2 DEF AtGet, Getting
  <2>4. Head(out) \in {original, "fa"} /\ out' \in {<<>>, <<original>>}
    <3>1. /\ Head(<<original>>) = original /\ Head(<<"fa", original>>) = "fa"
          /\ Tail(<<original>>) = <<>> /\ Tail(<<"fa", original>>) = <<original>>
      BY Short
    <3> QED BY <2>2, <2>3, <3>1
  <2>5. byte \in {original, "fa", "translated"}
    BY <1>1, <2>2, <2>4 DEF Heard, Sets
  <2>6. AtSet'
    BY <1>1, <2>1, <2>3, <2>4, <2>5
    DEF ReadScanSet, device, AtGet, AtSet, Getting, Setting, Probing, Remembered
  <2> QED BY <2>1, <2>6, InPart DEF Setting
<1> QED BY <1>2, <1>3

LEMMA KeysKeep ==
  ASSUME IInv, ReadKeys
  PROVE  Path'
<1>1. AtKeys /\ out \in Seq(Bytes) /\ pc \in {"key", "keys"} /\ pc' \in {"keys", "say_keys"}
  BY DEF IInv, Path, TypeOK, ReadKeys
<1>2. out' = out \/ \E byte \in Bytes : ReadGives(byte)
  BY DEF ReadKeys, ReadTimesOut
<1>3. out' = out \/ (out # <<>> /\ out' = Tail(out))
  BY <1>2 DEF ReadGives
<1>4. NoAck(out) => NoAck(out')
  BY <1>1, <1>3, Reading
<1>5. AtKeys'
  BY <1>1, <1>4 DEF ReadKeys, device, AtKeys, Keying, Probing, Remembered
<1> QED BY <1>1, <1>5, InPart DEF Keying

LEMMA SayKeeps ==
  ASSUME IInv, Say
  PROVE  Path'
<1> USE DEF Starting, Masking, Asking, Getting, Setting, Keying, Restoring, Leaving,
            Still, Probing, Restored, Remembered
<1>1. Path /\ out \in Seq(Bytes)
  BY DEF IInv, TypeOK
<1>2. /\ config' = config /\ old_scanset' = old_scanset /\ keyboard' = keyboard
      /\ original' = original /\ lost' = lost /\ out' = out
      /\ controller' = controller /\ awaits' = awaits /\ inbox' = inbox
      /\ pc \in DOMAIN Says /\ pc' = Says[pc]
  BY DEF Say, device
<1>3. CASE pc = "say_conf"
  <2>1. pc' = "mask"
    BY <1>2, <1>3, SaysAre
  <2>2. AtMask'
    BY <1>1, <1>2, <1>3, <2>1 DEF Path, AtMask
  <2> QED BY <2>1, <2>2, InPart
<1>4. CASE pc = "say_id"
  <2>1. pc' = "get"
    BY <1>2, <1>4, SaysAre
  <2>2. AtId'
    BY <1>1, <1>2, <1>4, <2>1 DEF Path, AtId
  <2> QED BY <2>1, <2>2, InPart
<1>5. CASE pc = "say_set"
  <2>1. pc' = "set"
    BY <1>2, <1>5, SaysAre
  <2>2. AtSet'
    BY <1>1, <1>2, <1>5, <2>1 DEF Path, AtSet
  <2> QED BY <2>1, <2>2, InPart
<1>6. CASE pc \in {"say_keys", "say_end"}
  <2>1. pc' \in {"say_end", "key", "stop"}
    BY <1>2, <1>6, SaysAre
  <2>2. AtKeys'
    BY <1>1, <1>2, <1>6, <2>1 DEF Path, AtKeys
  <2> QED BY <2>1, <2>2, InPart
<1> QED BY <1>2, <1>3, <1>4, <1>5, <1>6, SaysAre

-----------------------------------------------------------------------------
(* What the keyboard sends comes after what it keeps of what it has sent.  *)
LEMMA Kept ==
  ASSUME NEW s \in Seq(Bytes), NEW a \in Seq(Bytes), a # <<>>,
         NEW kept \in {s, IF s = <<>> THEN <<>> ELSE <<Head(s)>>}
  PROVE  /\ kept \o a \in Seq(Bytes) /\ kept \o a # <<>>
         /\ s = <<>> => kept \o a = a
         /\ s # <<>> => /\ (kept \o a)[1] = s[1]
                        /\ Tail(kept \o a) \in {a, Tail(s) \o a}
         /\ NoAck(s) => /\ NoAck(a) => NoAck(kept \o a)
                        /\ OneAck(a) => OneAck(kept \o a)
                        /\ a = <<"fa">> => AckLast(kept \o a)
<1> DEFINE u == kept \o a
<1>1. Len(s) \in Nat /\ Len(a) \in Nat /\ Len(a) > 0 /\ (s = <<>> <=> Len(s) = 0)
  OBVIOUS
<1>2. /\ kept \in Seq(Bytes) /\ Len(kept) \in Nat /\ Len(kept) <= Len(s)
      /\ Len(kept) = 0 <=> s = <<>>
      /\ \A i \in 1 .. Len(kept) : i \in 1 .. Len(s) /\ kept[i] = s[i]
  <2>1. CASE kept = s
    BY <2>1, <1>1
  <2>2. CASE kept # s /\ s # <<>>
    <3>1. kept = <<Head(s)>> /\ Head(s) \in Bytes /\ Head(s) = s[1] /\ Len(kept) = 1
      BY <2>2, Reading
    <3>2. \A i \in 1 .. 1 : i = 1 /\ i \in 1 .. Len(s)
      BY <1>1, <2>2
    <3> QED BY <3>1, <3>2, <1>1, <2>2
  <2> QED BY <2>1, <2>2
<1>3. /\ u \in Seq(Bytes) /\ Len(u) = Len(kept) + Len(a)
      /\ \A i \in 1 .. Len(kept) + Len(a) :
           u[i] = IF i <= Len(kept) THEN kept[i] ELSE a[i - Len(kept)]
  BY <1>2, ConcatProperties
<1>4. u # <<>> /\ DOMAIN u = 1 .. Len(kept) + Len(a) /\ DOMAIN s = 1 .. Len(s) /\ DOMAIN a = 1 .. Len(a)
  BY <1>1, <1>2, <1>3
<1>5. s = <<>> => u = a
  <2> SUFFICES ASSUME s = <<>> PROVE u = a
    OBVIOUS
  <2>1. kept = <<>>
    BY <1>2
  <2> QED BY <2>1
<1>6. \A i \in DOMAIN u : \/ i \in DOMAIN s /\ i <= Len(kept) /\ u[i] = s[i]
                          \/ i - Len(kept) \in DOMAIN a /\ i > Len(kept) /\ u[i] = a[i - Len(kept)]
  <2> TAKE i \in DOMAIN u
  <2>1. CASE i <= Len(kept)
    BY <2>1, <1>2, <1>3, <1>4
  <2>2. CASE ~(i <= Len(kept))
    <3>1. i \in 1 .. Len(kept) + Len(a)
      BY <1>4
    <3>2. i - Len(kept) \in 1 .. Len(a) /\ i > Len(kept)
      BY <3>1, <2>2, <1>1, <1>2
    <3>3. u[i] = a[i - Len(kept)]
      BY <3>1, <2>2, <1>3
    <3> QED BY <3>2, <3>3, <1>4
  <2> QED BY <2>1, <2>2
<1>7. ASSUME s # <<>> PROVE u[1] = s[1] /\ Tail(u) \in {a, Tail(s) \o a}
  <2>1. 1 \in 1 .. Len(kept) /\ 1 \in 1 .. Len(kept) + Len(a) /\ 1 <= Len(kept)
    BY <1>1, <1>2, <1>7
  <2>2. u[1] = s[1]
    BY <2>1, <1>2, <1>3
  <2>3. Tail(u) = Tail(kept) \o a
    BY <1>2, <1>7
  <2>4. CASE kept = s
    BY <2>2, <2>3, <2>4
  <2>5. CASE kept = <<Head(s)>>
    <3>1. Tail(kept) = <<>>
      BY <2>5, Short
    <3>2. <<>> \o a = a
      OBVIOUS
    <3> QED BY <2>2, <2>3, <3>1, <3>2
  <2> QED BY <2>4, <2>5, <1>7
<1> HIDE DEF u
<1>8. ASSUME NoAck(s), NoAck(a) PROVE NoAck(u)
  BY <1>6, <1>8 DEF NoAck
<1>9. ASSUME NoAck(s), OneAck(a) PROVE OneAck(u)
  <2> SUFFICES ASSUME NEW j \in DOMAIN u, NEW k \in DOMAIN u, u[j] = "fa", u[k] = "fa"
               PROVE  j = k
    BY DEF OneAck
  <2>1. /\ j - Len(kept) \in DOMAIN a /\ a[j - Len(kept)] = "fa"
        /\ k - Len(kept) \in DOMAIN a /\ a[k - Len(kept)] = "fa"
    BY <1>6, <1>9 DEF NoAck
  <2>2. j - Len(kept) = k - Len(kept)
    BY <2>1, <1>9 DEF OneAck
  <2>3. j \in Int /\ k \in Int
    BY <1>4
  <2> QED BY <2>2, <2>3, <1>2
<1>10. ASSUME NoAck(s), a = <<"fa">> PROVE AckLast(u)
  <2> SUFFICES ASSUME NEW k \in DOMAIN u, u[k] = "fa"
               PROVE  k = Len(u)
    BY DEF AckLast
  <2>1. k - Len(kept) \in DOMAIN a
    BY <1>6, <1>10 DEF NoAck
  <2>2. k - Len(kept) = 1 /\ Len(u) = Len(kept) + 1 /\ k \in Int
    <3>1. Len(a) = 1
      BY <1>10
    <3>2. DOMAIN a = 1 .. 1 /\ Len(u) = Len(kept) + 1
      BY <3>1, <1>3, <1>4
    <3>3. k - Len(kept) \in 1 .. 1
      BY <2>1, <3>2
    <3>4. k \in Int
      BY <1>4
    <3> QED BY <3>2, <3>3, <3>4
  <2> QED BY <2>2, <1>2
<1>11. u \in Seq(Bytes) /\ u # <<>>
  BY <1>3, <1>4
<1> QED BY <1>5, <1>7, <1>8, <1>9, <1>10, <1>11 DEF u

LEMMA AnswersAre ==
  ASSUME keyboard.set \in Sets, keyboard.awaits \in BOOLEAN, keyboard.sets \in BOOLEAN
  PROVE  /\ \A byte : Answer(byte) \in Seq(Bytes) /\ Answer(byte) # <<>>
         /\ Answer("f5") = <<"fa">> /\ Answer("f4") = <<"fa">>
         /\ Answer("f2") \in {<<"fa", "ab", "83">>, <<"fa">>}
         /\ Answer("f0") = IF keyboard.sets THEN <<"fa">> ELSE <<"fe">>
         /\ Answer("00") = IF keyboard.awaits THEN <<"fa", keyboard.set>> ELSE <<"fe">>
         /\ \A byte \in Sets : keyboard.awaits => Answer(byte) = <<"fa">>
         /\ \A byte \in {"original", "probing", "fa", "translated"} : Answer(byte) = <<"fe">>
<1>1. {"fa", "ab", "83", "fe", keyboard.set} \subseteq Bytes
  BY DEF Bytes
<1>2. \A byte : Answer(byte) \in {<<"fa">>, <<"fa", "ab", "83">>, <<"fe">>, <<"fa", keyboard.set>>}
  BY DEF Answer
<1>3. /\ <<"fa">> \in Seq(Bytes) /\ <<"fe">> \in Seq(Bytes) /\ <<"fa", "ab", "83">> \in Seq(Bytes)
      /\ <<"fa", keyboard.set>> \in Seq(Bytes)
  BY <1>1
<1>4. ASSUME NEW byte PROVE Answer(byte) \in Seq(Bytes) /\ Answer(byte) # <<>>
  <2>1. CASE Answer(byte) = <<"fa", "ab", "83">>
    BY <2>1, <1>3
  <2>2. CASE Answer(byte) = <<"fa", keyboard.set>>
    BY <2>2, <1>3
  <2>3. CASE Answer(byte) = <<"fa">>
    BY <2>3, <1>3
  <2>4. CASE Answer(byte) = <<"fe">>
    BY <2>4, <1>3
  <2> QED BY <2>1, <2>2, <2>3, <2>4, <1>2
<1>5. /\ Answer("f5") = <<"fa">> /\ Answer("f4") = <<"fa">>
      /\ Answer("f2") \in {<<"fa", "ab", "83">>, <<"fa">>}
      /\ Answer("f0") = IF keyboard.sets THEN <<"fa">> ELSE <<"fe">>
  <2>1. Answer("f5") = <<"fa">>
    BY DEF Answer, Sets
  <2>2. Answer("f4") = <<"fa">>
    BY DEF Answer, Sets
  <2>3. Answer("f2") = IF keyboard.id THEN <<"fa", "ab", "83">> ELSE <<"fa">>
    BY DEF Answer, Sets
  <2>4. Answer("f0") = IF keyboard.sets THEN <<"fa">> ELSE <<"fe">>
    BY DEF Answer, Sets
  <2> QED BY <2>1, <2>2, <2>3, <2>4
<1>6. Answer("00") = IF keyboard.awaits THEN <<"fa", keyboard.set>> ELSE <<"fe">>
  <2>1. CASE keyboard.awaits
    BY <2>1 DEF Answer, Sets
  <2>2. CASE ~keyboard.awaits
    BY <2>2 DEF Answer, Sets
  <2> QED BY <2>1, <2>2
<1>7. \A byte \in Sets : keyboard.awaits => Answer(byte) = <<"fa">>
  BY DEF Answer, Sets
<1>8. \A byte \in {"original", "probing", "fa", "translated"} : Answer(byte) = <<"fe">>
  BY DEF Answer, Sets
<1> QED BY <1>4, <1>5, <1>6, <1>7, <1>8

(* What a step of the keyboard does, in the words of the path.             *)
LEMMA Takes ==
  ASSUME IInv, KeyboardTakes
  PROVE  LET byte == Head(inbox) IN
         /\ pc' = pc /\ config' = config /\ old_scanset' = old_scanset
         /\ controller' = controller /\ awaits' = awaits
         /\ original' = original /\ lost' = lost
         /\ inbox # <<>> /\ inbox' = Tail(inbox)
         /\ keyboard'.scans = IF byte \in {"f4", "f5"} THEN byte = "f4" ELSE keyboard.scans
         /\ keyboard'.set = IF keyboard.awaits /\ byte \in Sets THEN byte ELSE keyboard.set
         /\ keyboard'.awaits = (byte = "f0" /\ keyboard.sets)
         /\ out' \in Seq(Bytes) /\ out' # <<>>
         /\ out = <<>> => out' = Answer(byte)
         /\ out # <<>> => /\ out'[1] = out[1]
                          /\ Tail(out') \in {Answer(byte), Tail(out) \o Answer(byte)}
         /\ NoAck(out) => /\ NoAck(Answer(byte)) => NoAck(out')
                          /\ OneAck(Answer(byte)) => OneAck(out')
                          /\ Answer(byte) = <<"fa">> => AckLast(out')
<1> DEFINE byte == Head(inbox)
<1>1. out \in Seq(Bytes) /\ keyboard.set \in Sets /\ keyboard.awaits \in BOOLEAN /\ keyboard.sets \in BOOLEAN
      /\ keyboard \in [id : BOOLEAN, sets : BOOLEAN, scans : BOOLEAN, set : Sets, awaits : BOOLEAN]
  BY DEF IInv, TypeOK
<1>2. PICK kept \in {out, IF out = <<>> THEN <<>> ELSE <<Head(out)>>} : out' = kept \o Answer(byte)
  BY DEF KeyboardTakes
<1>3. Answer(byte) \in Seq(Bytes) /\ Answer(byte) # <<>>
  BY <1>1, AnswersAre
<1>4. keyboard' = Obeyed(byte)
  BY DEF KeyboardTakes
<1>5. /\ keyboard'.scans = IF byte \in {"f4", "f5"} THEN byte = "f4" ELSE keyboard.scans
      /\ keyboard'.set = IF keyboard.awaits /\ byte \in Sets THEN byte ELSE keyboard.set
      /\ keyboard'.awaits = (byte = "f0" /\ keyboard.sets)
  BY <1>1, <1>4 DEF Obeyed
<1> HIDE DEF byte
<1>6. /\ out' \in Seq(Bytes) /\ out' # <<>>
      /\ out = <<>> => out' = Answer(byte)
      /\ out # <<>> => /\ out'[1] = out[1]
                       /\ Tail(out') \in {Answer(byte), Tail(out) \o Answer(byte)}
      /\ NoAck(out) => /\ NoAck(Answer(byte)) => NoAck(out')
                       /\ OneAck(Answer(byte)) => OneAck(out')
                       /\ Answer(byte) = <<"fa">> => AckLast(out')
  BY <1>1, <1>2, <1>3, Kept
<1>7. /\ pc' = pc /\ config' = config /\ old_scanset' = old_scanset
      /\ controller' = controller /\ awaits' = awaits
      /\ original' = original /\ lost' = lost
      /\ inbox # <<>> /\ inbox' = Tail(inbox)
  BY DEF KeyboardTakes, tool
<1> QED BY <1>5, <1>6, <1>7 DEF byte

(* The answers, and what is read first of them.                            *)
LEMMA ShortAcks ==
  /\ NoAck(<<"fe">>) /\ Other(<<"fe">>) /\ Quiet(<<"fe">>)
  /\ OneAck(<<"fa">>) /\ OneAck(<<"fa", "ab", "83">>)
  /\ Quiet(Tail(<<"fa">>)) /\ Quiet(Tail(<<"fa", "ab", "83">>)) /\ NoAck(Tail(<<"fa">>))
  /\ Tail(<<"fa", "ab", "83">>) = <<"ab", "83">>
  /\ Len(<<"fa">>) = 1
<1>1. NoAck(<<"fe">>) /\ Other(<<"fe">>) /\ Quiet(<<"fe">>)
  BY DEF NoAck, Other, Quiet
<1>2. OneAck(<<"fa">>) /\ OneAck(<<"fa", "ab", "83">>)
  BY DEF OneAck
<1>3. Tail(<<"fa">>) = <<>> /\ Tail(<<"fa", "ab", "83">>) = <<"ab", "83">>
  BY Short
<1>4. Quiet(<<>>) /\ Quiet(<<"ab", "83">>) /\ NoAck(<<>>)
  BY NoAcks DEF Quiet, Other
<1> QED BY <1>1, <1>2, <1>3, <1>4

(* The keyboard's steps, by the part of the path that the tool is on.      *)
LEMMA TakesF5 ==
  ASSUME IInv, KeyboardTakes, Stopping
  PROVE  Stopping' /\ keyboard'.set = keyboard.set /\ ~keyboard'.awaits
<1>1. inbox = <<"f5">> /\ Head(inbox) = "f5" /\ inbox' = <<>>
  BY Takes, Short DEF Stopping
<1>2. NoAck(out)
  BY <1>1, Short DEF Stopping, HasAck, NoAck
<1>3. Answer("f5") = <<"fa">>
  BY AnswersAre DEF IInv, TypeOK
<1>4. AckLast(out') /\ ~keyboard'.scans /\ keyboard'.set = keyboard.set /\ ~keyboard'.awaits
  BY <1>1, <1>2, <1>3, Takes DEF Sets
<1> QED BY <1>1, <1>4 DEF Stopping

LEMMA TakesAtStart ==
  ASSUME IInv, KeyboardTakes, pc \in Starting
  PROVE  Path'
<1>1. AtStart /\ inbox # <<>>
  BY Takes DEF IInv, Path
<1>2. pc = "off_ack" /\ Stopping
  BY <1>1 DEF AtStart
<1>3. AtStart'
  BY <1>1, <1>2, Takes, TakesF5 DEF AtStart, Starting
<1> QED BY <1>2, <1>3, Takes, InPart DEF Starting

LEMMA TakesAtId ==
  ASSUME IInv, KeyboardTakes, pc \in Asking
  PROVE  Path'
<1>1. /\ inbox # <<>> /\ inbox \in {<<"probing">>, <<"f2">>, <<"probing", "f2">>}
      /\ NoAck(out) /\ ~awaits /\ config = "original" /\ Probing /\ Still
      /\ pc = "id" => inbox = <<"probing">>
  BY Takes, Short DEF IInv, Path, AtId
<1>2. Head(inbox) \in {"probing", "f2"}
  BY <1>1, Short
<1>3. Still' /\ Probing' /\ ~awaits' /\ config' = "original" /\ pc' = pc
  <2>1. ~keyboard.awaits /\ keyboard.set = original /\ ~keyboard.scans
    BY <1>1 DEF Still
  <2>2. /\ keyboard'.set = keyboard.set /\ ~keyboard'.awaits
        /\ keyboard'.scans = keyboard.scans
    BY <1>2, <2>1, Takes
  <2>3. /\ config' = config /\ original' = original /\ lost' = lost /\ pc' = pc
        /\ controller' = controller /\ awaits' = awaits
    BY Takes
  <2> QED BY <1>1, <2>1, <2>2, <2>3 DEF Still, Probing
<1>4. CASE Head(inbox) = "probing"
  <2>1. inbox' \in {<<>>, <<"f2">>} /\ (pc = "id" => inbox' = <<>>)
    <3>1. /\ Head(<<"f2">>) = "f2" /\ Tail(<<"probing">>) = <<>>
          /\ Tail(<<"probing", "f2">>) = <<"f2">>
      BY Short
    <3> QED BY <1>1, <1>4, <3>1, Takes
  <2>2. Answer("probing") = <<"fe">>
    BY AnswersAre DEF IInv, TypeOK
  <2>3. NoAck(out') /\ OneAck(out')
    BY <1>1, <1>4, <2>2, Takes, ShortAcks, NoAcks
  <2>4. AtId'
    BY <1>3, <2>1, <2>3 DEF AtId
  <2> QED BY <1>3, <2>4, InPart
<1>5. CASE Head(inbox) = "f2"
  <2>1. inbox = <<"f2">> /\ inbox' = <<>> /\ pc # "id"
    <3>1. /\ Head(<<"probing">>) = "probing" /\ Head(<<"probing", "f2">>) = "probing"
          /\ Tail(<<"f2">>) = <<>>
      BY Short
    <3> QED BY <1>1, <1>5, <3>1, Takes
  <2>2. Answer("f2") \in {<<"fa", "ab", "83">>, <<"fa">>}
    BY AnswersAre DEF IInv, TypeOK
  <2>3. OneAck(out')
    BY <1>1, <1>5, <2>2, Takes, ShortAcks
  <2>4. AtId'
    BY <1>3, <2>1, <2>3 DEF AtId
  <2> QED BY <1>3, <2>4, InPart
<1> QED BY <1>2, <1>4, <1>5

LEMMA TakesQuiet ==
  ASSUME IInv, KeyboardTakes
  PROVE  /\ Other(out) => Other(out')
         /\ Quiet(out) => Other(out') \/ (out = <<>> /\ out' = Answer(Head(inbox)))
  BY Takes DEF Other, Quiet

LEMMA TakesF0 ==
  ASSUME IInv, KeyboardTakes, Head(inbox) = "f0"
  PROVE  /\ keyboard'.scans = keyboard.scans /\ keyboard'.set = keyboard.set
         /\ \/ keyboard'.awaits /\ Answer("f0") = <<"fa">>
            \/ ~keyboard'.awaits /\ Answer("f0") = <<"fe">>
         /\ Quiet(out) => Quiet(out') \/ (keyboard'.awaits /\ out' = <<"fa">>)
<1>1. keyboard.sets \in BOOLEAN /\ (Answer("f0") = IF keyboard.sets THEN <<"fa">> ELSE <<"fe">>)
  BY AnswersAre DEF IInv, TypeOK
<1>2. keyboard'.awaits = keyboard.sets
  BY <1>1, Takes
<1>3. keyboard'.scans = keyboard.scans /\ keyboard'.set = keyboard.set
  BY Takes DEF Sets
<1>4. \/ keyboard'.awaits /\ Answer("f0") = <<"fa">>
      \/ ~keyboard'.awaits /\ Answer("f0") = <<"fe">>
  BY <1>1, <1>2
<1>5. Quiet(out) => Quiet(out') \/ (keyboard'.awaits /\ out' = <<"fa">>)
  BY <1>4, TakesQuiet, ShortAcks DEF Quiet
<1> QED BY <1>3, <1>4, <1>5

LEMMA TakesInGet ==
  ASSUME IInv, KeyboardTakes, pc \in Getting
  PROVE  /\ config' = "original" /\ Probing' /\ ~awaits'
         /\ Head(inbox) \in {"probing", "f2", "f0", "00"}
         /\ keyboard'.set = original' /\ ~keyboard'.scans
         /\ Head(inbox) # "f0" => ~keyboard'.awaits
<1>1. inbox # <<>> /\ config = "original" /\ Probing /\ ~awaits /\ keyboard.set = original /\ ~keyboard.scans
  BY Takes DEF IInv, Path, AtGet
<1>2. inbox \in {<<"probing", "f2", "f0">>, <<"f2", "f0">>, <<"probing", "f0">>, <<"probing", "f2">>,
                 <<"f2">>, <<"probing">>, <<"f0">>, <<"f0", "00">>, <<"00">>}
  BY <1>1 DEF IInv, Path, AtGet, Getting
<1>3. Head(inbox) \in {"probing", "f2", "f0", "00"}
  <2>1. /\ Head(<<"probing", "f2", "f0">>) = "probing" /\ Head(<<"f2", "f0">>) = "f2"
        /\ Head(<<"probing", "f0">>) = "probing" /\ Head(<<"probing", "f2">>) = "probing"
        /\ Head(<<"f2">>) = "f2" /\ Head(<<"probing">>) = "probing" /\ Head(<<"f0">>) = "f0"
        /\ Head(<<"f0", "00">>) = "f0" /\ Head(<<"00">>) = "00"
    BY Short
  <2> QED BY <1>2, <2>1
<1>4. Head(inbox) \notin Sets /\ Head(inbox) \notin {"f4", "f5"}
  BY <1>3 DEF Sets
<1>5. keyboard'.set = keyboard.set /\ keyboard'.scans = keyboard.scans
  BY <1>4, Takes
<1>6. Head(inbox) # "f0" => ~keyboard'.awaits
  BY Takes
<1>7. config' = config /\ lost' = lost /\ controller' = controller /\ awaits' = awaits /\ original' = original
  BY Takes
<1> QED BY <1>1, <1>3, <1>5, <1>6, <1>7 DEF Probing

LEMMA TakesGetAck ==
  ASSUME IInv, KeyboardTakes, pc = "get_ack"
  PROVE  AtGet'
<1> DEFINE Late(s) == s \in {<<"probing", "f2", "f0">>, <<"f2", "f0">>, <<"probing", "f0">>,
                             <<"probing", "f2">>, <<"f2">>, <<"probing">>}
           Again(s) == s # <<>> /\ s[1] = "fa" /\ Quiet(Tail(s))
<1>1. \/ Late(inbox) /\ Quiet(out)
      \/ inbox = <<"f0">> /\ (Quiet(out) \/ Again(out))
  BY Takes, Short DEF IInv, Path, AtGet, Getting
<1>2. /\ config' = "original" /\ Probing' /\ ~awaits' /\ pc' = "get_ack"
      /\ keyboard'.set = original' /\ ~keyboard'.scans
  BY TakesInGet, Takes DEF Getting
<1>3. SUFFICES \/ Late(inbox') /\ Quiet(out') /\ ~keyboard'.awaits
               \/ inbox' \in {<<"f0">>, <<>>} /\ ~keyboard'.awaits /\ (Quiet(out') \/ Again(out'))
               \/ /\ inbox' = <<>> /\ keyboard'.awaits
                  /\ \/ Quiet(out') \/ Again(out')
                     \/ out' # <<>> /\ out'[1] = "fa" /\ Tail(out') = <<"fa">>
  BY <1>2, <1>3 DEF AtGet
<1>4. CASE Head(inbox) = "probing" /\ Late(inbox)
  <2>1. Answer("probing") = <<"fe">> /\ Quiet(out)
    BY <1>1, <1>4, Short, AnswersAre DEF IInv, TypeOK
  <2>2. Quiet(out') /\ ~keyboard'.awaits
    BY <1>4, <2>1, TakesInGet, TakesQuiet, ShortAcks DEF Getting, Quiet
  <2>3. inbox' \in {<<"f2", "f0">>, <<"f0">>, <<"f2">>, <<>>}
    <3>1. /\ Tail(<<"probing", "f2", "f0">>) = <<"f2", "f0">> /\ Tail(<<"probing", "f0">>) = <<"f0">>
          /\ Tail(<<"probing", "f2">>) = <<"f2">> /\ Tail(<<"probing">>) = <<>>
          /\ Head(<<"f2", "f0">>) = "f2" /\ Head(<<"f2">>) = "f2"
      BY Short
    <3> QED BY <1>4, <3>1, Takes
  <2> QED BY <2>2, <2>3
<1>5. CASE Head(inbox) = "f2" /\ Late(inbox)
  <2>1. Answer("f2") \in {<<"fa", "ab", "83">>, <<"fa">>} /\ Quiet(out)
    BY <1>1, <1>5, Short, AnswersAre DEF IInv, TypeOK
  <2>2. (Quiet(out') \/ Again(out')) /\ ~keyboard'.awaits
    <3>1. Again(<<"fa">>) /\ Again(<<"fa", "ab", "83">>)
      BY ShortAcks, Short
    <3> HIDE DEF Again
    <3> QED BY <1>5, <2>1, <3>1, TakesInGet, TakesQuiet DEF Getting, Quiet
  <2>3. inbox' \in {<<"f0">>, <<>>}
    <3>1. /\ Tail(<<"f2", "f0">>) = <<"f0">> /\ Tail(<<"f2">>) = <<>>
          /\ Head(<<"probing", "f2", "f0">>) = "probing" /\ Head(<<"probing", "f0">>) = "probing"
          /\ Head(<<"probing", "f2">>) = "probing" /\ Head(<<"probing">>) = "probing"
      BY Short
    <3> QED BY <1>5, <3>1, Takes
  <2> QED BY <2>2, <2>3
<1>6. CASE inbox = <<"f0">>
  <2>1. Head(inbox) = "f0" /\ inbox' = <<>>
    BY <1>6, Takes, Short
  <2>2. (keyboard'.awaits /\ Answer("f0") = <<"fa">>) \/ (~keyboard'.awaits /\ Answer("f0") = <<"fe">>)
    BY <2>1, TakesF0
  <2>3. CASE Quiet(out)
    <3>1. Quiet(out') \/ (keyboard'.awaits /\ out' = <<"fa">>)
      BY <2>1, <2>3, TakesF0
    <3>2. Again(<<"fa">>)
      BY ShortAcks, Short
    <3> HIDE DEF Again
    <3> QED BY <2>1, <3>1, <3>2 DEF Quiet
  <2>4. CASE Again(out)
    <3>1. out' # <<>> /\ out'[1] = "fa" /\ Tail(out') \in {Answer("f0"), Tail(out) \o Answer("f0")}
      BY <2>1, <2>4, Takes
    <3>2. \/ Quiet(Tail(out')) \/ Tail(out') = Answer("f0")
      <4>1. out # <<>> /\ out \in Seq(Bytes) /\ Answer("f0") \in Seq(Bytes) /\ Tail(out) \in Seq(Bytes)
        BY <2>4, Reading, AnswersAre DEF IInv, TypeOK
      <4>2. CASE Tail(out) = <<>>
        <5>1. <<>> \o Answer("f0") = Answer("f0")
          BY <4>1
        <5> QED BY <3>1, <4>2, <5>1
      <4>3. CASE Tail(out) # <<>>
        <5>1. Other(Tail(out))
          BY <2>4, <4>3 DEF Quiet
        <5>2. (Tail(out) \o Answer("f0"))[1] = Tail(out)[1] /\ Tail(out) \o Answer("f0") # <<>>
          BY <4>1, <4>3, AnswersAre, Kept DEF IInv, TypeOK
        <5> QED BY <3>1, <5>1, <5>2 DEF Quiet, Other
      <4> QED BY <4>2, <4>3
    <3> QED BY <2>1, <2>2, <3>1, <3>2, ShortAcks
  <2> QED BY <1>1, <1>6, <2>3, <2>4, Short
<1>7. ~ Late(<<"f0">>)
  BY Short
<1> QED BY <1>1, <1>4, <1>5, <1>6, TakesInGet, Short DEF Getting

LEMMA TakesGetRest ==
  ASSUME IInv, KeyboardTakes, pc \in {"get0", "get0_ack", "get2"}
  PROVE  AtGet'
<1>1. /\ config' = "original" /\ Probing' /\ ~awaits' /\ pc' = pc /\ original' = original
      /\ keyboard'.set = original' /\ ~keyboard'.scans
  BY TakesInGet, Takes DEF Getting
<1>2. inbox # <<>> /\ inbox' = Tail(inbox) /\ keyboard.set = original
  BY Takes DEF IInv, Path, AtGet, Getting
<1>3. /\ Head(<<"f0">>) = "f0" /\ Tail(<<"f0">>) = <<>> /\ Head(<<"f0", "00">>) = "f0"
      /\ Tail(<<"f0", "00">>) = <<"00">> /\ Head(<<"00">>) = "00" /\ Tail(<<"00">>) = <<>>
  BY Short
<1>4. CASE pc = "get0"
  <2>1. inbox = <<"f0">> /\ Quiet(out) /\ Head(inbox) = "f0" /\ inbox' = <<>>
    BY <1>2, <1>3, <1>4 DEF IInv, Path, AtGet, Getting
  <2>2. Quiet(out') \/ (keyboard'.awaits /\ out' = <<"fa">>)
    BY <2>1, TakesF0
  <2> QED BY <1>1, <1>4, <2>1, <2>2 DEF AtGet
<1>5. CASE pc = "get0_ack"
  <2>1. \/ inbox \in {<<"f0", "00">>, <<"f0">>, <<"00">>} /\ ~keyboard.awaits /\ Quiet(out)
        \/ inbox = <<"00">> /\ keyboard.awaits /\ (Quiet(out) \/ out = <<"fa">>)
    BY <1>2, <1>5 DEF IInv, Path, AtGet, Getting
  <2>2. SUFFICES \/ inbox' \in {<<"00">>, <<>>} /\ ~keyboard'.awaits /\ Quiet(out')
                 \/ inbox' \in {<<"00">>, <<>>} /\ keyboard'.awaits /\ (Quiet(out') \/ out' = <<"fa">>)
                 \/ /\ inbox' = <<>> /\ ~keyboard'.awaits
                    /\ out' \in {<<"fa">>, <<"fa", original>>, <<"fa", "fa", original>>}
    BY <1>1, <1>5, <2>2 DEF AtGet
  <2>3. CASE inbox \in {<<"f0", "00">>, <<"f0">>} /\ Quiet(out)
    <3>1. Head(inbox) = "f0" /\ inbox' \in {<<"00">>, <<>>}
      BY <1>2, <1>3, <2>3
    <3>2. Quiet(out') \/ (keyboard'.awaits /\ out' = <<"fa">>)
      BY <2>3, <3>1, TakesF0
    <3> QED BY <3>1, <3>2
  <2>4. CASE inbox = <<"00">> /\ ~keyboard.awaits /\ Quiet(out)
    <3>1. Head(inbox) = "00" /\ inbox' = <<>> /\ Answer("00") = <<"fe">>
      BY <1>2, <1>3, <2>4, AnswersAre DEF IInv, TypeOK
    <3>2. Quiet(out') /\ ~keyboard'.awaits
      BY <2>4, <3>1, TakesQuiet, TakesInGet, ShortAcks DEF Getting, Quiet
    <3> QED BY <3>1, <3>2
  <2>5. CASE inbox = <<"00">> /\ keyboard.awaits /\ (Quiet(out) \/ out = <<"fa">>)
    <3>1. Head(inbox) = "00" /\ inbox' = <<>> /\ Answer("00") = <<"fa", original>>
      BY <1>2, <1>3, <2>5, AnswersAre DEF IInv, TypeOK
    <3>2. ~keyboard'.awaits
      BY <3>1, TakesInGet DEF Getting
    <3>3. CASE Quiet(out)
      BY <3>1, <3>2, <3>3, TakesQuiet DEF Quiet
    <3>4. CASE out = <<"fa">>
      <4>1. PICK kept \in {out, IF out = <<>> THEN <<>> ELSE <<Head(out)>>} :
              out' = kept \o Answer("00")
        BY <3>1 DEF KeyboardTakes
      <4>2. Head(<<"fa">>) = "fa" /\ <<"fa">> # <<>>
        BY Short
      <4>3. kept = <<"fa">>
        BY <3>4, <4>1, <4>2
      <4>4. out' = <<"fa">> \o <<"fa", original>>
        BY <3>1, <4>1, <4>3
      <4>5. <<"fa">> \o <<"fa", original>> = <<"fa", "fa", original>>
        <5> DEFINE S == {"fa", original}
                   s == <<"fa">>
                   a == <<"fa", original>>
                   w == <<"fa", "fa", original>>
        <5>1. s \in Seq(S) /\ a \in Seq(S) /\ w \in Seq(S) /\ Len(s) = 1 /\ Len(a) = 2 /\ Len(w) = 3
          OBVIOUS
        <5>2. s[1] = "fa" /\ a[1] = "fa" /\ a[2] = original /\ w[1] = "fa" /\ w[2] = "fa" /\ w[3] = original
          OBVIOUS
        <5> HIDE DEF S, s, a, w
        <5>3. /\ s \o a \in Seq(S) /\ Len(s \o a) = 3
              /\ \A i \in 1 .. 3 : (s \o a)[i] = IF i <= 1 THEN s[i] ELSE a[i - 1]
          <6>1. /\ s \o a \in Seq(S) /\ Len(s \o a) = Len(s) + Len(a)
                /\ \A i \in 1 .. Len(s) + Len(a) :
                     (s \o a)[i] = IF i <= Len(s) THEN s[i] ELSE a[i - Len(s)]
            BY <5>1, ConcatProperties
          <6>2. Len(s) + Len(a) = 3 /\ Len(s) = 1
            BY <5>1
          <6> QED BY <6>1, <6>2
        <5>4. \A i \in 1 .. 3 : i = 1 \/ i = 2 \/ i = 3
          OBVIOUS
        <5>5. \A i \in 1 .. 3 : (s \o a)[i] = w[i]
          BY <5>2, <5>3, <5>4
        <5>6. s \o a = w
          BY <5>1, <5>3, <5>5, SeqEqual
        <5> QED BY <5>6 DEF s, a, w
      <4> QED BY <3>1, <3>2, <4>4, <4>5
    <3> QED BY <2>5, <3>3, <3>4
  <2> QED BY <2>1, <2>3, <2>4, <2>5
<1>6. CASE pc = "get2"
  <2>1. inbox = <<"00">> /\ keyboard.awaits /\ out = <<>>
    BY <1>2, <1>6 DEF IInv, Path, AtGet, Getting
  <2>2. Head(inbox) = "00" /\ inbox' = <<>> /\ Answer("00") = <<"fa", original>>
    BY <1>2, <1>3, <2>1, AnswersAre DEF IInv, TypeOK
  <2>3. out' = <<"fa", original>> /\ ~keyboard'.awaits
    BY <2>1, <2>2, Takes, TakesInGet DEF Getting
  <2> QED BY <1>1, <1>6, <2>2, <2>3 DEF AtGet
<1> QED BY <1>4, <1>5, <1>6

LEMMA TakesAtGet ==
  ASSUME IInv, KeyboardTakes, pc \in Getting
  PROVE  Path'
<1>1. AtGet'
  BY TakesGetAck, TakesGetRest DEF Getting
<1> QED BY <1>1, Takes, InPart

LEMMA TakesAtSet ==
  ASSUME IInv, KeyboardTakes, pc \in Setting
  PROVE  Path'
<1>1. /\ inbox # <<>> /\ inbox' = Tail(inbox) /\ config = "original" /\ Probing /\ ~awaits
      /\ Remembered /\ ~keyboard.scans
  BY Takes DEF IInv, Path, AtSet
<1>2. \/ pc = "set_ack" /\ inbox = <<"f0">> /\ Quiet(out)
      \/ pc = "set3_ack" /\ inbox = <<"03">> /\ out = <<>> /\ keyboard.awaits
  BY <1>1 DEF IInv, Path, AtSet, Setting
<1>3. /\ config' = "original" /\ Probing' /\ ~awaits' /\ Remembered' /\ pc' = pc
  BY <1>1, Takes DEF Probing, Remembered
<1>4. CASE pc = "set_ack"
  <2>1. Head(inbox) = "f0" /\ inbox' = <<>> /\ Quiet(out)
    BY <1>1, <1>2, <1>4, Short
  <2>2. ~keyboard'.scans /\ (Quiet(out') \/ (keyboard'.awaits /\ out' = <<"fa">>))
    BY <1>1, <2>1, TakesF0
  <2>3. AtSet'
    BY <1>3, <1>4, <2>1, <2>2 DEF AtSet
  <2> QED BY <1>3, <1>4, <2>3, InPart DEF Setting
<1>5. CASE pc = "set3_ack"
  <2>1. Head(inbox) = "03" /\ inbox' = <<>> /\ out = <<>> /\ keyboard.awaits
    BY <1>1, <1>2, <1>5, Short
  <2>2. Answer("03") = <<"fa">> /\ "03" \in Sets
    BY <2>1, AnswersAre DEF IInv, TypeOK, Sets
  <2>3. out' = <<"fa">> /\ keyboard'.set = "03" /\ keyboard'.scans = keyboard.scans
    BY <2>1, <2>2, Takes
  <2>4. AtSet'
    BY <1>1, <1>3, <1>5, <2>1, <2>3 DEF AtSet
  <2> QED BY <1>3, <1>5, <2>4, InPart DEF Setting
<1> QED BY <1>2, <1>4, <1>5

LEMMA TakesAtKeys ==
  ASSUME IInv, KeyboardTakes, pc \in Keying
  PROVE  Path'
<1>1. /\ inbox # <<>> /\ inbox' = Tail(inbox) /\ config = "original" /\ Probing /\ ~awaits
      /\ Remembered /\ keyboard.set = "03"
  BY Takes DEF IInv, Path, AtKeys
<1>2. pc = "on_ack" /\ inbox = <<"f4">> /\ out = <<>>
  BY <1>1 DEF IInv, Path, AtKeys, Keying
<1>3. Head(inbox) = "f4" /\ inbox' = <<>> /\ Answer("f4") = <<"fa">>
  BY <1>1, <1>2, Short, AnswersAre DEF IInv, TypeOK
<1>4. out' = <<"fa">> /\ keyboard'.set = "03"
  BY <1>1, <1>2, <1>3, Takes DEF Sets
<1>5. out' # <<>> /\ NoAck(Tail(out'))
  BY <1>4, ShortAcks, Short
<1>6. config' = "original" /\ Probing' /\ ~awaits' /\ Remembered' /\ pc' = "on_ack"
  BY <1>1, <1>2, Takes DEF Probing, Remembered
<1>7. AtKeys'
  BY <1>3, <1>4, <1>5, <1>6 DEF AtKeys
<1> QED BY <1>6, <1>7, InPart DEF Keying

LEMMA TakesAtRestore ==
  ASSUME IInv, KeyboardTakes, pc \in Restoring
  PROVE  Path'
<1>1. /\ inbox # <<>> /\ inbox' = Tail(inbox) /\ config = "original" /\ Probing /\ ~awaits /\ Remembered
  BY Takes DEF IInv, Path, AtRestore
<1>2. /\ config' = "original" /\ Probing' /\ ~awaits' /\ Remembered' /\ pc' = pc
      /\ original' = original /\ old_scanset' = old_scanset
  BY <1>1, Takes DEF Probing, Remembered
<1>3. CASE pc = "stop_ack"
  <2>1. Stopping
    BY <1>3 DEF IInv, Path, AtRestore, Restoring
  <2>2. AtRestore'
    BY <1>2, <1>3, <2>1, TakesF5 DEF AtRestore
  <2> QED BY <1>2, <1>3, <2>2, InPart DEF Restoring
<1>4. CASE pc = "back_ack"
  <2>1. inbox = <<"f0">> /\ out = <<>> /\ ~keyboard.scans
    BY <1>1, <1>4 DEF IInv, Path, AtRestore, Restoring
  <2>2. Head(inbox) = "f0" /\ inbox' = <<>>
    BY <1>1, <2>1, Short
  <2>3. /\ ~keyboard'.scans
        /\ (keyboard'.awaits /\ out' = <<"fa">>) \/ out' = <<"fe">>
    BY <2>1, <2>2, Takes, TakesF0
  <2>4. AtRestore'
    BY <1>2, <1>4, <2>2, <2>3, ShortAcks DEF AtRestore
  <2> QED BY <1>2, <1>4, <2>4, InPart DEF Restoring
<1>5. CASE pc = "backset_ack"
  <2>1. inbox = <<old_scanset>> /\ out = <<>> /\ keyboard.awaits /\ ~keyboard.scans
    BY <1>1, <1>5 DEF IInv, Path, AtRestore, Restoring
  <2>2. Head(inbox) = old_scanset /\ inbox' = <<>>
    BY <1>1, <2>1, Short
  <2>3. old_scanset \in {original, "fa", "translated"} /\ original \in Sets
    BY <1>1 DEF Remembered, IInv
  <2>4. out' = Answer(old_scanset)
    BY <2>1, <2>2, Takes
  <2>5. ~keyboard'.scans
    BY <2>1, <2>2, <2>3, Takes DEF Sets
  <2>6. CASE old_scanset = original
    <3>1. Answer(original) = <<"fa">>
      BY <2>1, <2>3, AnswersAre DEF IInv, TypeOK
    <3>2. keyboard'.set = original /\ ~keyboard'.awaits
      BY <2>1, <2>2, <2>3, <2>6, Takes DEF Sets
    <3>3. AtRestore'
      BY <1>2, <1>5, <2>2, <2>4, <2>5, <2>6, <3>1, <3>2 DEF AtRestore
    <3> QED BY <1>2, <1>5, <3>3, InPart DEF Restoring
  <2>7. CASE old_scanset \in {"fa", "translated"}
    <3>1. Answer(old_scanset) = <<"fe">>
      BY <2>7, AnswersAre DEF IInv, TypeOK
    <3>2. AtRestore'
      BY <1>2, <1>5, <2>2, <2>4, <2>5, <3>1, ShortAcks DEF AtRestore
    <3> QED BY <1>2, <1>5, <3>2, InPart DEF Restoring
  <2> QED BY <2>3, <2>6, <2>7
<1>6. CASE pc \in {"back", "backset", "unmask"}
  BY <1>1, <1>6 DEF IInv, Path, AtRestore, Restoring
<1> QED BY <1>3, <1>4, <1>5, <1>6 DEF Restoring

LEMMA TakesAtLeave ==
  ASSUME IInv, KeyboardTakes, pc \in Leaving
  PROVE  Path'
<1>1. /\ inbox # <<>> /\ inbox' = Tail(inbox) /\ config = "original"
      /\ keyboard.set = original /\ ~keyboard.awaits
      /\ pc # "again_ack" => ~keyboard.scans
  BY Takes DEF IInv, Path, AtLeave
<1>2. \/ pc = "again" /\ inbox = <<"original">> /\ out = <<>> /\ ~awaits
      \/ pc = "again_ack" /\ inbox \in {<<"original", "f4">>, <<"original">>} /\ out = <<>> /\ ~keyboard.scans
      \/ pc = "again_ack" /\ inbox = <<"f4">> /\ Other(out)
      \/ pc = "again_ack" /\ inbox = <<"f4">> /\ out = <<>> /\ Restored
  BY <1>1 DEF IInv, Path, AtLeave, Leaving
<1>3. /\ config' = "original" /\ pc' = pc /\ original' = original /\ awaits' = awaits
      /\ Restored => Restored'
  BY <1>1, Takes DEF Restored
<1>4. CASE inbox \in {<<"original", "f4">>, <<"original">>}
  <2>1. Head(inbox) = "original"
    BY <1>4, Short
  <2>2. inbox' \in {<<"f4">>, <<>>} /\ (inbox = <<"original">> => inbox' = <<>>)
    <3>1. Tail(<<"original", "f4">>) = <<"f4">> /\ Tail(<<"original">>) = <<>>
      BY Short
    <3> QED BY <1>1, <1>4, <3>1
  <2>3. Answer("original") = <<"fe">> /\ out = <<>>
    <3>1. <<"f4">> # <<"original", "f4">> /\ <<"f4">> # <<"original">>
      BY Short
    <3> QED BY <1>2, <1>4, <3>1, AnswersAre DEF IInv, TypeOK
  <2>4. Other(out')
    BY <2>1, <2>3, Takes, ShortAcks
  <2>5. /\ keyboard'.set = original' /\ ~keyboard'.awaits
        /\ keyboard'.scans = keyboard.scans
    BY <1>1, <1>3, <2>1, Takes
  <2>6. AtLeave'
    <3>1. CASE pc = "again"
      <4>1. inbox = <<"original">> /\ ~awaits
        BY <1>2, <3>1
      <4> QED BY <1>1, <1>3, <2>2, <2>4, <2>5, <3>1, <4>1 DEF AtLeave
    <3>2. CASE pc = "again_ack"
      BY <1>3, <2>2, <2>4, <2>5, <3>2 DEF AtLeave
    <3> QED BY <1>2, <3>1, <3>2
  <2> QED BY <1>3, <2>6, InPart
<1>5. CASE pc = "again_ack" /\ inbox = <<"f4">>
  <2>1. Head(inbox) = "f4" /\ inbox' = <<>> /\ Answer("f4") = <<"fa">>
    BY <1>1, <1>5, Short, AnswersAre DEF IInv, TypeOK
  <2>2. keyboard'.set = original' /\ ~keyboard'.awaits /\ keyboard'.scans
    BY <1>1, <1>3, <2>1, Takes
  <2>3. Other(out) \/ (out = <<>> /\ Restored)
    <3>1. <<"f4">> # <<"original", "f4">> /\ <<"f4">> # <<"original">>
      BY Short
    <3> QED BY <1>2, <1>5, <3>1
  <2>4. CASE Other(out)
    <3>1. Other(out')
      BY <2>4, TakesQuiet
    <3> QED BY <1>3, <1>5, <2>1, <2>2, <3>1, InPart DEF AtLeave, Leaving
  <2>5. CASE out = <<>> /\ Restored
    <3>1. out' # <<>> /\ Restored'
      BY <1>3, <2>5, Takes
    <3> QED BY <1>3, <1>5, <2>1, <2>2, <3>1, InPart DEF AtLeave, Leaving
  <2> QED BY <2>3, <2>4, <2>5
<1> QED BY <1>2, <1>4, <1>5

LEMMA TakesKeeps ==
  ASSUME IInv, KeyboardTakes
  PROVE  Path'
<1>1. pc' = pc /\ inbox # <<>> /\ pc \in Labels
  BY Takes DEF IInv, TypeOK
<1>2. pc \notin Masking /\ pc # "exit0"
  BY <1>1 DEF IInv, Path, AtMask, AtExit
<1>3. \/ pc \in Starting \/ pc \in Asking \/ pc \in Getting \/ pc \in Setting \/ pc \in Keying
      \/ pc \in Restoring \/ pc \in Leaving \/ pc = "exit1"
  BY <1>1, <1>2, LabelsAre DEF Starting, Masking, Asking, Getting, Setting, Keying, Restoring, Leaving
<1>4. pc = "exit1" => Path'
  BY <1>1, InPart
<1> QED BY <1>3, <1>4, TakesAtStart, TakesAtId, TakesAtGet, TakesAtSet, TakesAtKeys,
           TakesAtRestore, TakesAtLeave

-----------------------------------------------------------------------------
(* The keys are pressed while the keyboard scans only, and a stroke is no  *)
(* acknowledgement.                                                        *)
LEMMA Pressed ==
  ASSUME IInv, Press
  PROVE  /\ keyboard.scans /\ out' \in Seq(Bytes) /\ out' # <<>>
         /\ NoAck(out) => NoAck(out')
         /\ Quiet(out) => Other(out')
         /\ AckLast(out) /\ ~HasAck(out) => AckLast(out') /\ ~HasAck(out')
         /\ out # <<>> /\ NoAck(Tail(out)) => NoAck(Tail(out'))
<1>1. out \in Seq(Bytes) /\ keyboard.scans
  BY DEF IInv, TypeOK, Press
<1>2. PICK stroke \in Keystrokes : out' = out \o stroke
  BY DEF Press
<1>3. stroke \in Seq(Bytes) /\ stroke # <<>> /\ NoAck(stroke)
  <2>1. stroke \in {<<"1c">>, <<"key">>, <<"f0", "1c">>}
    BY <1>2 DEF Keystrokes
  <2>2. "1c" \in Bytes /\ "key" \in Bytes /\ "f0" \in Bytes
    BY DEF Bytes
  <2>3. CASE stroke = <<"1c">>
    BY <2>2, <2>3 DEF NoAck
  <2>4. CASE stroke = <<"key">>
    BY <2>2, <2>4 DEF NoAck
  <2>5. CASE stroke = <<"f0", "1c">>
    BY <2>2, <2>5 DEF NoAck
  <2> QED BY <2>1, <2>3, <2>4, <2>5
<1>4. /\ out' \in Seq(Bytes) /\ out' # <<>>
      /\ NoAck(out) => NoAck(out')
      /\ out # <<>> => out'[1] = out[1] /\ Tail(out') \in {stroke, Tail(out) \o stroke}
  BY <1>1, <1>2, <1>3, Kept
<1>5. Quiet(out) => Other(out')
  <2>1. CASE out = <<>>
    <3>1. out' = stroke
      BY <1>1, <1>2, <1>3, <2>1, Kept
    <3> QED BY <1>3, <3>1, NoAcks DEF Quiet
  <2>2. CASE out # <<>>
    BY <1>4, <2>2 DEF Quiet, Other
  <2> QED BY <2>1, <2>2
<1>6. ~HasAck(out) => AckLast(out') /\ ~HasAck(out')
  BY <1>4, NoAcks DEF HasAck, NoAck
<1>7. ASSUME out # <<>>, NoAck(Tail(out)) PROVE NoAck(Tail(out'))
  <2>1. Tail(out) \in Seq(Bytes)
    BY <1>1, <1>7, Reading
  <2>2. NoAck(Tail(out) \o stroke)
    BY <1>3, <1>7, <2>1, Kept
  <2> QED BY <1>3, <1>4, <1>7, <2>2
<1> QED BY <1>1, <1>4, <1>5, <1>6, <1>7

LEMMA PressKeeps ==
  ASSUME IInv, Press
  PROVE  Path'
<1> USE DEF Starting, Masking, Asking, Getting, Setting, Keying, Restoring, Leaving,
            Still, Probing, Restored, Remembered
<1>1. /\ pc' = pc /\ config' = config /\ old_scanset' = old_scanset /\ keyboard' = keyboard
      /\ original' = original /\ lost' = lost
      /\ controller' = controller /\ awaits' = awaits /\ inbox' = inbox
  BY DEF Press, tool, device
<1>2. Path /\ keyboard.scans /\ pc \in Labels
  BY Pressed DEF IInv, TypeOK
<1>3. Stopping => Stopping'
  BY <1>1, <1>2, Pressed DEF Stopping
<1>4. CASE pc \in {"flush", "off", "off_ack"}
  <2>1. AtStart'
    BY <1>1, <1>2, <1>3, <1>4, Pressed DEF Path, AtStart
  <2> QED BY <1>1, <1>4, <2>1, InPart
<1>5. CASE pc \in Keying
  <2>1. AtKeys'
    BY <1>1, <1>2, <1>5, Pressed DEF Path, AtKeys
  <2> QED BY <1>1, <1>5, <2>1, InPart
<1>6. CASE pc = "stop_ack"
  <2>1. AtRestore'
    BY <1>1, <1>2, <1>3, <1>6 DEF Path, AtRestore
  <2> QED BY <1>1, <1>6, <2>1, InPart
<1>7. CASE pc = "again_ack"
  <2>1. \/ inbox \in {<<"f4">>, <<>>} /\ Other(out)
        \/ inbox = <<"f4">> /\ out = <<>> /\ Restored
        \/ inbox = <<>> /\ out # <<>> /\ Restored
    BY <1>2, <1>7 DEF Path, AtLeave
  <2>2. /\ config' = "original" /\ keyboard'.set = original' /\ ~keyboard'.awaits /\ keyboard'.scans
        /\ Restored => Restored'
    BY <1>1, <1>2, <1>7 DEF Path, AtLeave
  <2>3. \/ inbox' \in {<<"f4">>, <<>>} /\ Other(out')
        \/ inbox' = <<>> /\ out' # <<>> /\ Restored'
    BY <1>1, <2>1, <2>2, Pressed DEF Quiet
  <2>4. AtLeave'
    BY <1>1, <1>7, <2>2, <2>3 DEF AtLeave
  <2> QED BY <1>1, <1>7, <2>4, InPart
<1>8. CASE pc = "exit0"
  <2>1. AtExit'
    BY <1>1, <1>2, <1>8 DEF Path, AtExit
  <2> QED BY <1>1, <1>8, <2>1, InPart
<1>9. CASE pc = "exit1"
  BY <1>1, <1>9, InPart
<1>10. pc \notin Masking \cup Asking \cup Getting \cup Setting
  BY <1>2 DEF Path, AtMask, AtId, AtGet, AtSet
<1>11. pc \notin {"back", "back_ack", "backset", "backset_ack", "unmask", "unmasked", "again"}
  BY <1>2 DEF Path, AtRestore, AtLeave
<1> QED BY <1>2, <1>4, <1>5, <1>6, <1>7, <1>8, <1>9, <1>10, <1>11, LabelsAre

(* The interrupt handler takes bytes while the tool prints.                *)
LEMMA BiosKeeps ==
  ASSUME IInv, BiosTakes
  PROVE  Path'
<1> USE DEF Starting, Masking, Asking, Getting, Setting, Keying, Restoring, Leaving,
            Still, Probing, Restored, Remembered
<1>1. /\ pc' = pc /\ config' = config /\ old_scanset' = old_scanset /\ keyboard' = keyboard
      /\ original' = original /\ lost' = lost
      /\ controller' = controller /\ awaits' = awaits /\ inbox' = inbox
      /\ out' = Tail(out) /\ out # <<>>
  BY DEF BiosTakes, tool, device
<1>2. Path /\ out \in Seq(Bytes)
  BY DEF IInv, TypeOK
<1>3. pc \in {"say_conf", "say_id", "say_set", "say_keys", "say_end", "exit0", "exit1"}
  BY SaysAre DEF BiosTakes, Exits
<1>4. (NoAck(out) => NoAck(out')) /\ (OneAck(out) => OneAck(out'))
  BY <1>1, <1>2, Reading
<1>5. CASE pc = "say_conf"
  BY <1>1, <1>2, <1>5 DEF Path, AtMask
<1>6. CASE pc = "say_id"
  <2>1. AtId'
    BY <1>1, <1>2, <1>4, <1>6 DEF Path, AtId
  <2> QED BY <1>1, <1>6, <2>1, InPart
<1>7. CASE pc = "say_set"
  <2>1. out = <<original>>
    BY <1>1, <1>2, <1>7 DEF Path, AtSet
  <2>2. out' = <<>>
    BY <1>1, <2>1, Short
  <2>3. AtSet'
    BY <1>1, <1>2, <1>7, <2>2 DEF Path, AtSet
  <2> QED BY <1>1, <1>7, <2>3, InPart
<1>8. CASE pc \in {"say_keys", "say_end"}
  <2>1. AtKeys'
    BY <1>1, <1>2, <1>4, <1>8 DEF Path, AtKeys
  <2> QED BY <1>1, <1>8, <2>1, InPart
<1>9. CASE pc = "exit0"
  <2>1. AtExit'
    BY <1>1, <1>2, <1>9 DEF Path, AtExit
  <2> QED BY <1>1, <1>9, <2>1, InPart
<1>10. CASE pc = "exit1"
  BY <1>1, <1>10, InPart
<1> QED BY <1>3, <1>5, <1>6, <1>7, <1>8, <1>9, <1>10

(* The labels do not depend on the state.                                  *)
LEMMA LabelsNext ==
  (DOMAIN Sends)' = DOMAIN Sends /\ Labels' = Labels
<1>1. (DOMAIN Sends = {"off", "conf", "mask", "masked", "id", "get", "get0", "set", "set3", "on",
                       "stop", "back", "backset", "unmask", "unmasked", "again"})'
  BY SendsAre, PTL
<1>2. (Labels = {"flush", "conf_in", "id1", "id2", "get2", "key", "keys", "exit0", "exit1"}
             \cup {"off", "conf", "mask", "masked", "id", "get", "get0", "set", "set3", "on",
                     "stop", "back", "backset", "unmask", "unmasked", "again"}
             \cup {"off_ack", "id_ack", "get_ack", "get0_ack", "set_ack", "set3_ack", "on_ack",
                    "stop_ack", "back_ack", "backset_ack", "again_ack"}
             \cup {"say_conf", "say_id", "say_set", "say_keys", "say_end"})'
  BY LabelsAre, PTL
<1> QED BY <1>1, <1>2, SendsAre, LabelsAre

(* The tool's variables, and those that any step may change.               *)
ToolTyped ==
  /\ config \in Bytes \cup {"none"} /\ old_scanset \in Bytes \cup {"none"}
  /\ new_scanset \in Arguments
  /\ data \in Seq(Bytes) /\ Len(data) <= BufferSize
LineTyped ==
  /\ controller \in {"original", "probing", "stray"} /\ awaits \in BOOLEAN
  /\ keyboard \in [id : BOOLEAN, sets : BOOLEAN, scans : BOOLEAN, set : Sets, awaits : BOOLEAN]
  /\ original \in Sets
RestTyped ==
  /\ pc \in Labels /\ out \in Seq(Bytes)
  /\ keys \in 0 .. MaxKeys /\ faults \in 0 .. MaxFaults /\ lost \subseteq DOMAIN Sends

LEMMA TypedParts == ToolTyped /\ LineTyped /\ RestTyped <=> TypeOK /\ original \in Sets
  BY DEF ToolTyped, LineTyped, RestTyped, TypeOK

LEMMA SendTyped ==
  ASSUME ToolTyped, LineTyped, RestTyped, Send
  PROVE  ToolTyped' /\ LineTyped' /\ RestTyped'
<1>1. pc \in DOMAIN Sends /\ pc' = Sends[pc].next /\ Deliver(Sends[pc])
      /\ UNCHANGED <<tool, keyboard, original, keys, faults, lost>>
  BY DEF Send
<1>2. pc' \in Labels
  BY <1>1, SendsAre, LabelsAre DEF Data, Command
<1>3. /\ controller' \in {"original", "probing", "stray"} /\ awaits' \in BOOLEAN
      /\ out' \in Seq(Bytes)
  <2>1. Append(out, controller) \in Seq(Bytes)
    BY AppendProperties DEF LineTyped, RestTyped, Bytes
  <2>2. CASE Sends[pc].port = "command"
    <3>1. awaits' \in BOOLEAN
      BY <1>1, <2>2 DEF Deliver
    <3> QED BY <1>1, <2>1, <2>2, <3>1 DEF Deliver, LineTyped, RestTyped
  <2>3. CASE Sends[pc].port # "command" /\ awaits
    <3>1. awaits' = FALSE
      BY <1>1, <2>3 DEF Deliver
    <3> QED BY <1>1, <2>3, <3>1 DEF Deliver, LineTyped, RestTyped
  <2>4. CASE Sends[pc].port # "command" /\ ~awaits
    BY <1>1, <2>4 DEF Deliver, LineTyped, RestTyped
  <2> QED BY <2>2, <2>3, <2>4
<1>4. ToolTyped' /\ LineTyped'
  BY <1>1, <1>3 DEF tool, ToolTyped, LineTyped
<1>5. RestTyped'
  BY <1>1, <1>2, <1>3, LabelsNext DEF RestTyped
<1> QED BY <1>4, <1>5

LEMMA LossTyped ==
  ASSUME ToolTyped, LineTyped, RestTyped, SendTimesOut
  PROVE  ToolTyped' /\ LineTyped' /\ RestTyped'
<1>1. pc' \in Labels
  <2>1. pc \in DOMAIN Sends /\ pc' = Sends[pc].next
    BY DEF SendTimesOut
  <2> QED BY <2>1, SendsAre, LabelsAre DEF Data, Command
<1>2. out' \in Seq(Bytes)
  <2>1. out' = out \/ out' = <<>>
    BY DEF SendTimesOut
  <2>2. CASE out' = out
    BY <2>2 DEF RestTyped
  <2>3. CASE out' = <<>>
    BY <2>3
  <2> QED BY <2>1, <2>2, <2>3
<1>3. faults' \in 0 .. MaxFaults
  BY KbtestAssumption DEF SendTimesOut, RestTyped
<1>4. lost' \subseteq DOMAIN Sends
  BY DEF SendTimesOut, RestTyped
<1>5. ToolTyped' /\ LineTyped'
  BY DEF SendTimesOut, tool, device, ToolTyped, LineTyped
<1>6. RestTyped'
  BY <1>1, <1>2, <1>3, <1>4, LabelsNext DEF SendTimesOut, RestTyped
<1> QED BY <1>5, <1>6

LEMMA TimedOut ==
  ASSUME RestTyped, ReadTimesOut
  PROVE  out' = out /\ faults' \in 0 .. MaxFaults
<1>1. faults \in 0 .. MaxFaults /\ MaxFaults \in Nat
  BY KbtestAssumption DEF RestTyped
<1>2. faults' = faults \/ (faults < MaxFaults /\ faults' = faults + 1)
  BY DEF ReadTimesOut
<1> QED BY <1>1, <1>2 DEF ReadTimesOut

LEMMA Gave ==
  ASSUME RestTyped, NEW byte \in Bytes, ReadGives(byte)
  PROVE  out' \in Seq(Bytes) /\ faults' \in 0 .. MaxFaults
  BY Reading DEF ReadGives, RestTyped

LEMMA ReadsTyped ==
  ASSUME ToolTyped, LineTyped, RestTyped, ReadAck \/ ReadConfig \/ ReadId \/ ReadScanSet
  PROVE  ToolTyped' /\ LineTyped' /\ RestTyped'
<1>1. out' \in Seq(Bytes) /\ faults' \in 0 .. MaxFaults
  <2>1. ReadTimesOut \/ \E byte \in Bytes : ReadGives(byte)
    BY DEF ReadAck, ReadConfig, ReadId, ReadScanSet
  <2>2. out \in Seq(Bytes)
    BY DEF RestTyped
  <2> QED BY <2>1, <2>2, TimedOut, Gave
<1>2. pc' \in Labels
  <2>1. CASE ReadAck
    BY <2>1, AcksAre, LabelsAre DEF ReadAck, WrongAck
  <2>2. CASE ReadConfig \/ ReadId \/ ReadScanSet
    BY <2>2, LabelsAre DEF ReadConfig, ReadId, ReadScanSet
  <2> QED BY <2>1, <2>2
<1>3. ToolTyped'
  <2>1. CASE ReadAck \/ ReadId
    BY <2>1 DEF ReadAck, ReadId, tool, ToolTyped
  <2>2. CASE ReadConfig
    BY <2>2 DEF ReadConfig, ToolTyped
  <2>3. CASE ReadScanSet
    BY <2>3 DEF ReadScanSet, ToolTyped
  <2> QED BY <2>1, <2>2, <2>3
<1>4. device' = device /\ original' = original /\ keys' = keys /\ lost' = lost
  BY DEF ReadAck, ReadConfig, ReadId, ReadScanSet
<1>5. LineTyped'
  BY <1>4 DEF device, LineTyped
<1>6. RestTyped'
  BY <1>1, <1>2, <1>4, LabelsNext DEF RestTyped
<1> QED BY <1>3, <1>5, <1>6

LEMMA KeysTyped ==
  ASSUME ToolTyped, LineTyped, RestTyped, ReadKeys
  PROVE  ToolTyped' /\ LineTyped' /\ RestTyped'
<1>1. out' \in Seq(Bytes) /\ faults' \in 0 .. MaxFaults
  <2>1. ReadTimesOut \/ (\E byte \in Bytes : ReadGives(byte)) \/ (out' = out /\ faults' = faults)
    BY DEF ReadKeys
  <2>2. out \in Seq(Bytes) /\ faults \in 0 .. MaxFaults
    BY DEF RestTyped
  <2> QED BY <2>1, <2>2, TimedOut, Gave
<1>2. pc' \in Labels
  <2>1. pc' \in {"keys", "say_keys"}
    BY DEF ReadKeys
  <2> QED BY <2>1, LabelsAre
<1>3. data' \in Seq(Bytes) /\ Len(data') <= BufferSize
  <2>1. data \in Seq(Bytes) /\ Len(data) <= BufferSize /\ BufferSize \in Nat \ {0} /\ Len(data) \in Nat
    BY KbtestAssumption DEF ToolTyped
  <2>2. \/ data' = data
        \/ \E byte \in Bytes : data' = <<byte>>
        \/ Len(data) < BufferSize /\ \E byte \in Bytes : data' = Append(data, byte)
    BY DEF ReadKeys
  <2>3. ASSUME NEW byte \in Bytes, data' = <<byte>> PROVE data' \in Seq(Bytes) /\ Len(data') <= BufferSize
    BY <2>1, <2>3
  <2>4. ASSUME NEW byte \in Bytes, Len(data) < BufferSize, data' = Append(data, byte)
        PROVE  data' \in Seq(Bytes) /\ Len(data') <= BufferSize
    BY <2>1, <2>4, AppendProperties
  <2> QED BY <2>1, <2>2, <2>3, <2>4
<1>4. /\ config' = config /\ old_scanset' = old_scanset /\ new_scanset' = new_scanset
      /\ device' = device /\ original' = original /\ keys' = keys /\ lost' = lost
  BY DEF ReadKeys
<1>5. ToolTyped'
  BY <1>3, <1>4 DEF ToolTyped
<1>6. LineTyped'
  BY <1>4 DEF device, LineTyped
<1>7. RestTyped'
  BY <1>1, <1>2, <1>4, LabelsNext DEF RestTyped
<1> QED BY <1>5, <1>6, <1>7

LEMMA FlushSayTyped ==
  ASSUME ToolTyped, LineTyped, RestTyped, Flush \/ Say \/ BiosTakes
  PROVE  ToolTyped' /\ LineTyped' /\ RestTyped'
<1>1. out' = out \/ (out # <<>> /\ out' = Tail(out))
  BY DEF Flush, Say, BiosTakes
<1>2. out' \in Seq(Bytes)
  BY <1>1, Reading DEF RestTyped
<1>3. pc' \in Labels
  BY SaysAre, LabelsAre DEF Flush, Say, BiosTakes, RestTyped
<1>4. /\ device' = device /\ original' = original /\ keys' = keys /\ faults' = faults /\ lost' = lost
      /\ config' = config /\ old_scanset' = old_scanset /\ new_scanset' = new_scanset
      /\ data' = data \/ data' = <<>>
  BY DEF Flush, Say, BiosTakes, tool
<1>5. data' \in Seq(Bytes) /\ Len(data') <= BufferSize
  <2>1. CASE data' = data
    BY <2>1 DEF ToolTyped
  <2>2. CASE data' = <<>>
    <3>1. data' \in Seq(Bytes) /\ Len(data') = 0
      BY <2>2
    <3>2. 0 <= BufferSize
      BY KbtestAssumption
    <3> QED BY <3>1, <3>2
  <2> QED BY <2>1, <2>2, <1>4
<1>6. ToolTyped'
  BY <1>4, <1>5 DEF ToolTyped
<1>7. LineTyped'
  BY <1>4 DEF device, LineTyped
<1>8. RestTyped'
  BY <1>2, <1>3, <1>4, LabelsNext DEF RestTyped
<1> QED BY <1>6, <1>7, <1>8

LEMMA KeyboardTyped ==
  ASSUME ToolTyped, LineTyped, RestTyped, KeyboardTakes \/ Press
  PROVE  ToolTyped' /\ LineTyped' /\ RestTyped'
<1>1. CASE KeyboardTakes
  <2> DEFINE byte == Head(inbox)
  <2>1. PICK kept \in {out, IF out = <<>> THEN <<>> ELSE <<Head(out)>>} : out' = kept \o Answer(byte)
    BY <1>1 DEF KeyboardTakes
  <2>2. keyboard.set \in Sets /\ keyboard.awaits \in BOOLEAN /\ keyboard.sets \in BOOLEAN
    BY DEF LineTyped
  <2>3. Answer(byte) \in Seq(Bytes) /\ Answer(byte) # <<>>
    BY <2>2, AnswersAre
  <2>4. keyboard' = Obeyed(byte)
    BY <1>1 DEF KeyboardTakes
  <2> HIDE DEF byte
  <2>5. out' \in Seq(Bytes)
    BY <2>1, <2>3, Kept DEF RestTyped
  <2>6. keyboard' \in [id : BOOLEAN, sets : BOOLEAN, scans : BOOLEAN, set : Sets, awaits : BOOLEAN]
    <3>1. (byte = "f0" /\ keyboard.sets) \in BOOLEAN /\ (byte = "f4") \in BOOLEAN
      OBVIOUS
    <3> QED BY <2>4, <3>1 DEF Obeyed, LineTyped
  <2>7. pc' = pc /\ tool' = tool /\ controller' = controller /\ awaits' = awaits
        /\ original' = original /\ keys' = keys /\ faults' = faults /\ lost' = lost
    BY <1>1 DEF KeyboardTakes
  <2>8. ToolTyped' /\ LineTyped'
    BY <2>6, <2>7 DEF tool, ToolTyped, LineTyped
  <2>9. RestTyped'
    BY <2>5, <2>7, LabelsNext DEF RestTyped
  <2> QED BY <2>8, <2>9
<1>2. CASE Press
  <2>1. keys' \in 0 .. MaxKeys
    BY <1>2, KbtestAssumption DEF Press, RestTyped
  <2>2. PICK stroke \in Keystrokes : out' = out \o stroke
    BY <1>2 DEF Press
  <2>3. stroke \in Seq(Bytes)
    <3>1. "1c" \in Bytes /\ "key" \in Bytes /\ "f0" \in Bytes
      BY DEF Bytes
    <3>2. /\ <<"1c">> \in Seq(Bytes) /\ <<"key">> \in Seq(Bytes) /\ <<"f0", "1c">> \in Seq(Bytes)
      BY <3>1
    <3> QED BY <2>2, <3>2 DEF Keystrokes
  <2>4. out' \in Seq(Bytes)
    BY <2>2, <2>3, ConcatProperties DEF RestTyped
  <2>5. pc' = pc /\ tool' = tool /\ device' = device
        /\ original' = original /\ faults' = faults /\ lost' = lost
    BY <1>2 DEF Press
  <2>6. ToolTyped' /\ LineTyped'
    BY <2>5 DEF tool, device, ToolTyped, LineTyped
  <2>7. RestTyped'
    BY <2>1, <2>4, <2>5, LabelsNext DEF RestTyped
  <2> QED BY <2>6, <2>7
<1> QED BY <1>1, <1>2

LEMMA StaysTyped ==
  ASSUME TypeOK, original \in Sets, [Next]_vars
  PROVE  TypeOK' /\ original' \in Sets
<1>1. ToolTyped /\ LineTyped /\ RestTyped
  BY TypedParts
<1>2. CASE UNCHANGED vars
  <2>1. ToolTyped' /\ LineTyped'
    BY <1>1, <1>2 DEF vars, tool, device, ToolTyped, LineTyped
  <2>2. RestTyped'
    BY <1>1, <1>2, LabelsNext DEF vars, RestTyped
  <2>3. (ToolTyped /\ LineTyped /\ RestTyped <=> TypeOK /\ original \in Sets)'
    BY TypedParts, PTL
  <2> QED BY <2>1, <2>2, <2>3
<1>3. CASE Next /\ ~UNCHANGED vars
  <2>1. ToolTyped' /\ LineTyped' /\ RestTyped'
    BY <1>1, <1>3, SendTyped, LossTyped, ReadsTyped, KeysTyped, FlushSayTyped, KeyboardTyped
    DEF Next, Step, Ended
  <2>2. (ToolTyped /\ LineTyped /\ RestTyped <=> TypeOK /\ original \in Sets)'
    BY TypedParts, PTL
  <2> QED BY <2>1, <2>2
<1> QED BY <1>2, <1>3

-----------------------------------------------------------------------------
(* The invariant holds from the beginning, and every step keeps it.        *)
LEMMA Starts ==
  ASSUME Init
  PROVE  IInv
<1>1. "key" \in Bytes /\ <<"key">> \in Seq(Bytes) /\ <<"key", "key">> \in Seq(Bytes) /\ <<>> \in Seq(Bytes)
  BY DEF Bytes
<1>2. ToolTyped
  BY <1>1, KbtestAssumption DEF Init, ToolTyped
<1>3. LineTyped
  BY DEF Init, LineTyped
<1>4. RestTyped
  <2>1. pc \in Labels
    BY LabelsAre DEF Init
  <2>2. out \in Seq(Bytes)
    BY <1>1 DEF Init
  <2>3. keys \in 0 .. MaxKeys /\ faults \in 0 .. MaxFaults
    BY KbtestAssumption DEF Init
  <2>4. lost \subseteq DOMAIN Sends
    BY DEF Init
  <2> QED BY <2>1, <2>2, <2>3, <2>4 DEF RestTyped
<1>5. Path
  <2>1. NoAck(out)
    BY DEF Init, NoAck
  <2> QED BY <2>1 DEF Init, Path, AtStart, AtMask, AtId, AtGet, AtSet, AtKeys, AtRestore, AtLeave,
         AtExit, Starting, Masking, Asking, Getting, Setting, Keying, Restoring, Leaving
<1> QED BY <1>2, <1>3, <1>4, <1>5, TypedParts DEF IInv

LEMMA Stays ==
  ASSUME IInv, [Next]_vars
  PROVE  IInv'
<1>1. TypeOK' /\ original' \in Sets
  BY StaysTyped DEF IInv
<1>2. CASE UNCHANGED vars
  <2>1. /\ pc' = pc /\ config' = config /\ old_scanset' = old_scanset /\ out' = out
        /\ controller' = controller /\ awaits' = awaits /\ inbox' = inbox /\ keyboard' = keyboard
        /\ original' = original /\ lost' = lost
    BY <1>2 DEF vars, tool, device
  <2>2. AtStart' /\ AtMask' /\ AtId' /\ AtExit'
    BY <2>1 DEF IInv, Path, AtStart, AtMask, AtId, AtExit, Still, Probing, Restored, Stopping
  <2>3. AtGet'
    BY <2>1 DEF IInv, Path, AtGet, Probing
  <2>4. AtSet' /\ AtKeys'
    BY <2>1 DEF IInv, Path, AtSet, AtKeys, Probing, Remembered
  <2>5. AtRestore'
    BY <2>1 DEF IInv, Path, AtRestore, Probing, Remembered, Still, Stopping
  <2>6. AtLeave'
    BY <2>1 DEF IInv, Path, AtLeave, Restored
  <2> QED BY <1>1, <2>2, <2>3, <2>4, <2>5, <2>6 DEF IInv, Path
<1>3. CASE Next /\ ~UNCHANGED vars
  <2>1. Path'
    BY <1>3, FlushKeeps, SendKeeps, LossKeeps, AckKeeps, ConfigKeeps, IdKeeps, ScanSetKeeps,
       KeysKeep, SayKeeps, TakesKeeps, PressKeeps, BiosKeeps DEF Next, Step, Ended
  <2> QED BY <1>1, <2>1 DEF IInv
<1> QED BY <1>2, <1>3

LEMMA Always == Spec => []IInv
  BY Starts, Stays, PTL DEF Spec

(* Whatever is lost and however late an answer is, every variable has a    *)
(* value of its type, and the codes read in one go fit into data.          *)
THEOREM Typing == Spec => []TypeOK
<1>1. IInv => TypeOK
  BY DEF IInv
<1> QED BY <1>1, Always, PTL

(* A return of 0 means that the keyboard and the controller are as they    *)
(* were found, unless both bytes that write the configuration were lost.   *)
THEOREM FoundAgain == Spec => []LeavesAsFound
<1>1. IInv => LeavesAsFound
  BY DEF IInv, Path, AtExit, Restored, LeavesAsFound
<1> QED BY <1>1, Always, PTL

(* Late answers, keys and lost sends may come in any order: as long as the *)
(* command and the byte of the probing configuration both were sent, the   *)
(* codes that are shown are those of scan code set 3 and the controller    *)
(* does not translate them.  If one of the two was lost, nothing is said:  *)
(* main does not look at what came of them and shows what comes.           *)
THEOREM Set3Shown == Spec => []ShowsSet3
<1>1. IInv => ShowsSet3
  BY DEF IInv, Path, AtKeys, Keying, Probing, ShowsSet3
<1> QED BY <1>1, Always, PTL

=============================================================================
