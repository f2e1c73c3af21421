------------------------------- MODULE Kbtest -------------------------------
(***************************************************************************)
(* KBTEST.EXE: one long conversation with the keyboard through its         *)
(* controller.  The tool turns scanning, the keyboard interrupt and scan   *)
(* code translation off, asks for the keyboard's ID and scan code set,     *)
(* selects scan code set 3, shows the codes of the keys pressed up to 1Ch, *)
(* and puts everything back.  A send that times out is reported and        *)
(* otherwise ignored, an answer that is late is taken for the next one,    *)
(* and an answer that is not the expected one ends the tool at once.       *)
(*                                                                         *)
(* The program counter names what the tool does next: "get" sends the      *)
(* first byte of a dialogue, "get_ack" reads its acknowledgement.  The     *)
(* tool prints, with interrupts on, at the "say" labels.                   *)
(***************************************************************************)
EXTENDS Naturals, Sequences

CONSTANTS
  Arguments,      \* the scan code sets given on the command line
  BufferSize,     \* length of data: 16 in the code
  MaxKeys,        \* bound on the keys pressed while scanning is on
  MaxFaults       \* bound on the sends that time out and answers that are late

ASSUME KbtestAssumption ==
  BufferSize \in Nat \ {0} /\ MaxKeys \in Nat /\ MaxFaults \in Nat

Sets == {"01", "02", "03"}

(* The make code that ends the tool, another key's, and a break code.      *)
Keystrokes == {<<"1c">>, <<"key">>, <<"f0", "1c">>}

VARIABLES
  pc,
  config,         \* what read_data gave for the controller's configuration
  old_scanset,
  new_scanset,
  data,           \* the codes read in one go
  controller,     \* its configuration: "original", "probing" or "stray"
  awaits,         \* the controller takes the next byte for its configuration
  inbox,          \* bytes on their way to the keyboard
  out,            \* bytes on their way back, the first in the output buffer
  keyboard,       \* what it knows and how it is set
  original,       \* history: its scan code set before the tool
  keys, faults,
  lost            \* history: the sends that timed out

tool == <<config, old_scanset, new_scanset, data>>
device == <<controller, awaits, inbox, keyboard>>
vars == <<pc, tool, device, out, original, keys, faults, lost>>

-----------------------------------------------------------------------------
(* The sends: to which port, which byte, and what the tool does next.      *)
Command(byte, next) == [port |-> "command", byte |-> byte, next |-> next]
Data(byte, next) == [port |-> "data", byte |-> byte, next |-> next]

(* config & ~0x43: keyboard interrupt, mouse interrupt, translation.       *)
Masked == IF config = "original" THEN "probing" ELSE "stray"

Opening ==
  [off    |-> Data("f5", "off_ack"),   conf   |-> Command("20", "conf_in"),
   mask   |-> Command("60", "masked"), masked |-> Data(Masked, "id"),
   id     |-> Data("f2", "id_ack")]

ScanSets ==
  [get  |-> Data("f0", "get_ack"), get0 |-> Data("00", "get0_ack"),
   set  |-> Data("f0", "set_ack"), set3 |-> Data("03", "set3_ack"),
   on   |-> Data("f4", "on_ack")]

(* Mutant: the tool's own configuration is put back.                       *)
ClosingProbing ==
  [stop    |-> Data("f5", "stop_ack"),    back     |-> Data("f0", "back_ack"),
   backset |-> Data(old_scanset, "backset_ack"),
   unmask  |-> Command("60", "unmasked"), unmasked |-> Data(Masked, "again"),
   again   |-> Data("f4", "again_ack")]

Closing ==
  [stop    |-> Data("f5", "stop_ack"),    back     |-> Data("f0", "back_ack"),
   backset |-> Data(old_scanset, "backset_ack"),
   unmask  |-> Command("60", "unmasked"), unmasked |-> Data(config, "again"),
   again   |-> Data("f4", "again_ack")]

Sends ==
  [label \in DOMAIN Opening \cup DOMAIN ScanSets \cup DOMAIN Closing |->
     IF label \in DOMAIN Opening THEN Opening[label]
     ELSE IF label \in DOMAIN ScanSets THEN ScanSets[label] ELSE Closing[label]]

(* The acknowledgements, and what follows the right one and a wrong one.   *)
Acks ==
  [off_ack  |-> "conf",  id_ack   |-> "id1",  get_ack     |-> "get0",
   get0_ack |-> "get2",  set_ack  |-> "set3", set3_ack    |-> "on",
   on_ack   |-> "key",   stop_ack |-> "back", back_ack    |-> "backset",
   backset_ack |-> "unmask", again_ack |-> "exit0"]

WrongAck(label) == IF label = "id_ack" THEN "say_id" ELSE "exit1"

(* Mutant: after a key the tool goes on for ever.                          *)
SaysKeysOnly ==
  [say_conf |-> "mask", say_id |-> "get", say_set |-> "set",
   say_keys |-> "keys", say_end |-> "stop"]

(* sti, printf, cli.                                                       *)
Says ==
  [say_conf |-> "mask", say_id |-> "get", say_set |-> "set",
   say_keys |-> IF data # <<>> /\ data[1] = "1c" THEN "say_end" ELSE "key",
   say_end |-> "stop"]

Exits == {"exit0", "exit1"}

-----------------------------------------------------------------------------
(* The tool is started at a prompt: the interrupt handler has taken what   *)
(* was typed, but for the release of the last key or two.                  *)
Init ==
  /\ pc = "flush"
  /\ config = "none" /\ old_scanset = "none" /\ data = <<>>
  /\ new_scanset \in Arguments
  /\ controller = "original" /\ awaits = FALSE
  /\ inbox = <<>>
  /\ out \in {<<>>, <<"key">>, <<"key", "key">>}
  /\ original \in Sets
  /\ keyboard \in [id : BOOLEAN, sets : BOOLEAN, scans : {TRUE},
                   set : {original}, awaits : {FALSE}]
  /\ keys = 0 /\ faults = 0 /\ lost = {}

-----------------------------------------------------------------------------
(* The keyboard's answers (external).  It asks for a byte that it does not *)
(* understand again.                                                       *)
Answer(byte) ==
  CASE byte = "f5" -> <<"fa">>
    [] byte = "f4" -> <<"fa">>
    [] byte = "f2" -> IF keyboard.id THEN <<"fa", "ab", "83">> ELSE <<"fa">>
    [] byte = "f0" -> IF keyboard.sets THEN <<"fa">> ELSE <<"fe">>
    [] keyboard.awaits /\ byte = "00" -> <<"fa", keyboard.set>>
    [] keyboard.awaits /\ byte \in Sets -> <<"fa">>
    [] OTHER -> <<"fe">>

Obeyed(byte) ==
  [keyboard EXCEPT
     !.scans = IF byte \in {"f4", "f5"} THEN byte = "f4" ELSE @,
     !.set = IF keyboard.awaits /\ byte \in Sets THEN byte ELSE @,
     !.awaits = byte = "f0" /\ keyboard.sets]

(* A command makes the keyboard forget what it has not sent yet, which may *)
(* be all but the byte in the controller's output buffer.                  *)
KeyboardTakes ==
  /\ inbox # <<>>
  /\ \E kept \in {out, IF out = <<>> THEN <<>> ELSE <<Head(out)>>} :
       out' = kept \o Answer(Head(inbox))
  /\ keyboard' = Obeyed(Head(inbox))
  /\ inbox' = Tail(inbox)
  /\ UNCHANGED <<pc, tool, controller, awaits, original, keys, faults, lost>>

(* The user presses or releases a key (external).                          *)
Press ==
  /\ keyboard.scans
  /\ keys < MaxKeys
  /\ keys' = keys + 1
  /\ \E stroke \in Keystrokes : out' = out \o stroke
  /\ UNCHANGED <<pc, tool, device, original, faults, lost>>

(* The keyboard interrupt handler of the BIOS takes a byte (external).     *)
BiosTakes ==
  /\ pc \in DOMAIN Says \cup Exits
  /\ controller = "original"
  /\ out # <<>>
  /\ out' = Tail(out)
  /\ UNCHANGED <<pc, tool, device, original, keys, faults, lost>>

(* What the tool reads is what was sent, unless the controller translates  *)
(* it: acknowledgements pass, scan code set numbers do not, and any key    *)
(* may become any other (external).                                        *)
Heard(byte) ==
  CASE controller = "probing" -> {byte}
    [] byte \in Sets -> {"translated"}
    [] byte \in {"1c", "key"} -> {"1c", "key"}
    [] OTHER -> {byte}
-----------------------------------------------------------------------------
(* The controller passes a byte on to the keyboard, unless it has been     *)
(* told to take it; it answers command 20h itself (external).              *)
Deliver(send) ==
  IF send.port = "command"
  THEN /\ awaits' = (send.byte = "60")
       /\ out' = IF send.byte = "20" THEN Append(out, controller) ELSE out
       /\ UNCHANGED <<controller, inbox>>
  ELSE IF awaits
  THEN /\ awaits' = FALSE
       /\ controller' = IF send.byte \in {"original", "probing"} THEN send.byte ELSE "stray"
       /\ UNCHANGED <<inbox, out>>
  ELSE /\ inbox' = Append(inbox, send.byte)
       /\ UNCHANGED <<controller, awaits, out>>

(* send_cmd and send_data when the input buffer is free.                   *)
Send ==
  /\ pc \in DOMAIN Sends
  /\ Deliver(Sends[pc])
  /\ pc' = Sends[pc].next
  /\ UNCHANGED <<tool, keyboard, original, keys, faults, lost>>

(* ... and when it is not: the byte is dropped, a message printed with     *)
(* interrupts on, and the return value ignored.                            *)
SendTimesOut ==
  /\ pc \in DOMAIN Sends
  /\ faults < MaxFaults
  /\ faults' = faults + 1
  /\ lost' = lost \cup {pc}
  /\ pc' = Sends[pc].next
  /\ out' \in {out} \cup (IF controller = "original" THEN {<<>>} ELSE {})
  /\ UNCHANGED <<tool, device, original, keys>>

(* read_data: a byte, or FFFFh because none comes, or none in time.  Under *)
(* a stray configuration the controller may keep the keyboard quiet.       *)
ReadGives(byte) ==
  /\ out # <<>>
  /\ byte \in Heard(Head(out))
  /\ out' = Tail(out)
  /\ UNCHANGED faults

ReadTimesOut ==
  /\ out = <<>> /\ out' = out
  /\ \/ (inbox = <<>> \/ controller = "stray") /\ UNCHANGED faults
     \/ inbox # <<>> /\ faults < MaxFaults /\ faults' = faults + 1

Bytes == Sets \cup {"fa", "fe", "ab", "83", "1c", "key", "f0", "translated",
                    "original", "probing", "stray"}

(* inb(0x60), whatever is there.                                           *)
Flush ==
  /\ pc = "flush"
  /\ out' = IF out = <<>> THEN out ELSE Tail(out)
  /\ pc' = "off"
  /\ UNCHANGED <<tool, device, original, keys, faults, lost>>

(* Mutant: an answer that is late counts as an acknowledgement.            *)
ReadAckPatient ==
  /\ pc \in DOMAIN Acks
  /\ \/ ReadTimesOut /\ pc' = Acks[pc]
     \/ \E byte \in Bytes :
          ReadGives(byte) /\ pc' = IF byte = "fa" THEN Acks[pc] ELSE WrongAck(pc)
  /\ UNCHANGED <<tool, device, original, keys, lost>>

ReadAck ==
  /\ pc \in DOMAIN Acks
  /\ \/ ReadTimesOut /\ pc' = WrongAck(pc)
     \/ \E byte \in Bytes :
          ReadGives(byte) /\ pc' = IF byte = "fa" THEN Acks[pc] ELSE WrongAck(pc)
  /\ UNCHANGED <<tool, device, original, keys, lost>>

ReadConfig ==
  /\ pc = "conf_in"
  /\ \/ ReadTimesOut /\ pc' = "exit1" /\ UNCHANGED config
     \/ \E byte \in Bytes : ReadGives(byte) /\ config' = byte /\ pc' = "say_conf"
  /\ UNCHANGED <<old_scanset, new_scanset, data, device, original, keys, lost>>

(* The loop for the ID's first byte has no bound.                          *)
ReadId ==
  /\ \/ pc = "id1" /\ (\E byte \in Bytes : ReadGives(byte)) /\ pc' = "id2"
     \/ pc = "id2" /\ (ReadTimesOut \/ \E byte \in Bytes : ReadGives(byte)) /\ pc' = "say_id"
  /\ UNCHANGED <<tool, device, original, keys, lost>>

ReadScanSet ==
  /\ pc = "get2"
  /\ \/ ReadTimesOut /\ pc' = "exit1" /\ UNCHANGED old_scanset
     \/ \E byte \in Bytes : ReadGives(byte) /\ old_scanset' = byte /\ pc' = "say_set"
  /\ UNCHANGED <<config, new_scanset, data, device, original, keys, lost>>

(* Mutant: one code more than data holds.                                  *)
ReadKeysFull ==
  /\ \/ /\ pc = "key"
        /\ \E byte \in Bytes : ReadGives(byte) /\ data' = <<byte>>
        /\ pc' = "keys"
     \/ /\ pc = "keys" /\ Len(data) <= BufferSize
        /\ \/ ReadTimesOut /\ pc' = "say_keys" /\ UNCHANGED data
           \/ \E byte \in Bytes : ReadGives(byte) /\ data' = Append(data, byte) /\ UNCHANGED pc
  /\ UNCHANGED <<config, old_scanset, new_scanset, device, original, keys, lost>>

(* Nor has the loop for the first of a group of codes.  A group ends with  *)
(* a time-out or when the buffer is full.                                  *)
ReadKeys ==
  /\ \/ /\ pc = "key"
        /\ \E byte \in Bytes : ReadGives(byte) /\ data' = <<byte>>
        /\ pc' = "keys"
     \/ /\ pc = "keys" /\ Len(data) < BufferSize
        /\ \/ ReadTimesOut /\ pc' = "say_keys" /\ UNCHANGED data
           \/ \E byte \in Bytes : ReadGives(byte) /\ data' = Append(data, byte) /\ UNCHANGED pc
     \/ /\ pc = "keys" /\ Len(data) = BufferSize
        /\ pc' = "say_keys" /\ UNCHANGED <<out, faults, data>>
  /\ UNCHANGED <<config, old_scanset, new_scanset, device, original, keys, lost>>

Say ==
  /\ pc \in DOMAIN Says
  /\ pc' = Says[pc]
  /\ data' = <<>>
  /\ UNCHANGED <<config, old_scanset, new_scanset, device, out, original, keys,
                 faults, lost>>

Ended == pc \in Exits \cup {"id1", "key"} /\ UNCHANGED vars

Step == \/ Flush \/ Send \/ SendTimesOut
        \/ ReadAck \/ ReadConfig \/ ReadId \/ ReadScanSet \/ ReadKeys
        \/ Say

Next == Step \/ KeyboardTakes \/ Press \/ BiosTakes \/ Ended

Spec == Init /\ [][Next]_vars

(* The processor runs the tool, and the keyboard takes what it is sent.    *)
FairSpec == Spec /\ WF_vars(Step) /\ WF_vars(KeyboardTakes)

-----------------------------------------------------------------------------
Labels == {"flush", "conf_in", "id1", "id2", "get2", "key", "keys"}
            \cup DOMAIN Sends \cup DOMAIN Acks \cup DOMAIN Says \cup Exits

(* Every variable has a value of its type, and data is not overrun.        *)
TypeOK ==
  /\ pc \in Labels
  /\ config \in Bytes \cup {"none"} /\ old_scanset \in Bytes \cup {"none"}
  /\ new_scanset \in Arguments
  /\ data \in Seq(Bytes) /\ Len(data) <= BufferSize
  /\ controller \in {"original", "probing", "stray"} /\ awaits \in BOOLEAN
  /\ out \in Seq(Bytes)
  /\ keyboard \in [id : BOOLEAN, sets : BOOLEAN, scans : BOOLEAN, set : Sets,
                   awaits : BOOLEAN]
  /\ keys \in 0 .. MaxKeys /\ faults \in 0 .. MaxFaults
  /\ lost \subseteq DOMAIN Sends

(* A return of 0 means that the keyboard has its scan code set back and    *)
(* scans, and the controller its configuration, however late answers were  *)
(* and whichever byte could not be sent, but for the two bytes that write  *)
(* the configuration both being lost: their sends are not looked at.       *)
LeavesAsFound ==
  pc = "exit0" /\ ~({"unmask", "unmasked"} \subseteq lost) =>
    /\ keyboard.set = original /\ keyboard.scans
    /\ controller = "original"

(* The codes shown are those of scan code set 3 as the keyboard sends      *)
(* them, if no byte of the configuration was lost.                         *)
ShowsSet3 ==
  pc \in {"key", "keys", "say_keys"} /\ lost \cap {"mask", "masked"} = {} =>
    keyboard.set = "03" /\ controller = "probing"

(* The tool ends, but it may wait for the user's next key or for the ID    *)
(* of a keyboard that acknowledges the command and has none.               *)
EndsOrWaits == <>[](pc \in Exits \cup {"key"} \/ (pc = "id1" /\ ~keyboard.id))
=============================================================================
