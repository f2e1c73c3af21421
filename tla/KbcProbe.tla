------------------------------ MODULE KbcProbe ------------------------------
(***************************************************************************)
(* AMIKEY.COM, JETKEY.COM and MULTIKEY.COM: rounds of tests of the         *)
(* keyboard controller.  A test appends its command to the dump, sends it, *)
(* waits for the controller (a bounded number of polls) and appends the    *)
(* error level.  JETKEY also rewrites its file after every test, because   *)
(* some controllers hang or reset the machine; the others write it once,   *)
(* at the end.  Interrupts are off during a round, so that nobody else     *)
(* talks to the controller.                                                *)
(***************************************************************************)
EXTENDS Naturals, Sequences

CONSTANTS
  Tools,          \* the tools that are run
  MaxFaults       \* bound on the commands and file calls that fail

ASSUME KbcProbeAssumption ==
  /\ Tools \subseteq {"AMIKEY", "JETKEY", "MULTIKEY"}
  /\ MaxFaults \in Nat

(* A controller command byte: where it comes from, and its bit 4, which    *)
(* turns the keyboard off.  77h, BBh and DFh all have that bit set.        *)
Byte(base, off) == [base |-> base, off |-> off]
CommandBytes == [base : {"original", "zero", "77", "bb", "df"}, off : BOOLEAN]

(* A command with the buffer it reads into or writes from.                 *)
Do(c) == [cmd |-> c, var |-> "data"]
With(c, v) == [cmd |-> c, var |-> v]

Round1 == <<Do("ad"), Do("a0"), Do("a1"), Do("ae")>>

ReadBack(new) ==
  <<With("20", "saved"), Do("ad"), With("af", new), Do("20"), Do("00"),
    Do("ae"), With("60", "saved")>>

Ports ==
  <<Do("ca"), Do("cb"), Do("c0"), Do("b2"), Do("c0"), Do("c1"), Do("c0"),
    Do("c1"), Do("c0"), Do("c1"), Do("d0"), Do("e1"), Do("d0"), Do("ef"),
    Do("d0"), Do("d1"), Do("cb")>>

Round4 ==
  <<With("20", "saved"), Do("ad"), With("60", "df")>>
    \o Ports \o <<Do("ae"), With("60", "saved")>>

AmiKeyScript == Round1 \o ReadBack("77") \o ReadBack("bb") \o Round4

(* Mutant: one more test, and a dump array of the same size.               *)
MultiKeyScriptLonger ==
  <<Do("ad"), Do("d5"), Do("d6"), Do("d7"), Do("d6"), Do("ae")>>

MultiKeyScript == <<Do("ad"), Do("d5"), Do("d6"), Do("d7"), Do("ae")>>

(* Each tool's tests, the last test of each round, the size of dmp_arr.    *)
ScriptOf(t) == IF t = "MULTIKEY" THEN MultiKeyScript ELSE AmiKeyScript
RoundEndsOf(t) ==
  IF t = "MULTIKEY" THEN <<Len(MultiKeyScript)>>
                    ELSE <<4, 11, 18, Len(AmiKeyScript)>>
DumpSizeOf(t) == IF t = "MULTIKEY" THEN 10 ELSE 80

(* The ways each command fails; the tools give each one an error level.    *)
Answering ==
  {"a0", "a1", "ca", "c0", "b2", "d0", "20", "00", "d5", "d6", "d7"}
Ways(c) ==
  {"stuck"} \cup (IF c \in Answering THEN {"silent"} ELSE {})
            \cup (IF c = "a0" THEN {"long", "empty"} ELSE {})
Error(c, way) == <<c, way>>
Command(c) == <<c, "sent">>
NoError == <<"none", "none">>
FileErrors == {Error("file", w) : w \in {"open", "write", "close"}}
Cmds == UNION {{ScriptOf(t)[k].cmd : k \in DOMAIN ScriptOf(t)} : t \in Tools}
Errors == {NoError} \cup FileErrors \cup UNION {{Error(c, w) : w \in Ways(c)} : c \in Cmds}

DumpBytes == {Command(c) : c \in Cmds} \cup Errors

(* Disable and enable keyboard set the error level only when they fail.    *)
Keeps(c) == c \in {"ad", "ae"}

VARIABLES
  tool,
  pc,
  done,       \* number of tests completed
  printed,    \* number of rounds whose message has been displayed
  erl,
  dump,       \* dmp_arr, up to dmp_sz
  saved,      \* saved_cmd
  file,       \* the dump in the file on the disk
  io,         \* how the last save went: "none", "ok", "bad"
  command,    \* the controller's command byte
  faults,     \* number of failures so far
  failed,     \* history: <<test, error>> pairs
  shown,      \* history: the errors displayed
  spoilt      \* history: has a test failed that CommandByteRestored needs?

vars == <<tool, pc, done, printed, erl, dump, saved, file, io, command,
          faults, failed, shown, spoilt>>

Script == ScriptOf(tool)
RoundEnds == RoundEndsOf(tool)
Test == Script[done + 1]
SaveEach == tool = "JETKEY"

Init ==
  /\ tool \in Tools
  /\ pc = "send"
  /\ done = 0
  /\ printed = 0
  /\ erl = NoError
  /\ dump = <<>>
  /\ saved = Byte("zero", FALSE)
  /\ file = <<>>
  /\ io = "none"
  /\ command = Byte("original", FALSE)
  /\ faults = 0
  /\ failed = {}
  /\ shown = {}
  /\ spoilt = FALSE

-----------------------------------------------------------------------------
(* store_cmd and the first out 64h.                                        *)
Send ==
  /\ pc = "send"
  /\ dump' = Append(dump, Command(Test.cmd))
  /\ pc' = "wait"
  /\ UNCHANGED <<tool, done, printed, erl, saved, file, io, command, faults,
                 failed, shown, spoilt>>

(* What a command makes of the command byte (external).  Not every         *)
(* controller knows AFh, and 20h is the address of the command byte.       *)
Written ==
  CASE Test.cmd = "ad" -> {[command EXCEPT !.off = TRUE]}
    [] Test.cmd = "ae" -> {[command EXCEPT !.off = FALSE]}
    [] Test.cmd = "60" ->
         {IF Test.var = "saved" THEN saved ELSE Byte(Test.var, TRUE)}
    [] Test.cmd = "af" -> {command, Byte(Test.var, TRUE)}
    [] OTHER -> {command}

(* Mutant: the alternate read stores into the saved command byte too.      *)
AnsweredAnyRead ==
  /\ pc = "wait"
  /\ erl' = IF Keeps(Test.cmd) THEN erl ELSE NoError
  /\ command' \in Written
  /\ saved' = IF Test.cmd = "20" THEN command ELSE saved
  /\ pc' = "record"
  /\ UNCHANGED <<tool, done, printed, dump, file, io, faults, failed, shown,
                 spoilt>>

(* The controller takes every byte and, where one is awaited, gives one.   *)
Answered ==
  /\ pc = "wait"
  /\ erl' = IF Keeps(Test.cmd) THEN erl ELSE NoError
  /\ command' \in Written
  /\ saved' = IF Test.cmd = "20" /\ Test.var = "saved" THEN command ELSE saved
  /\ pc' = "record"
  /\ UNCHANGED <<tool, done, printed, dump, file, io, faults, failed, shown,
                 spoilt>>

(* The reads that save the command byte, the writes that restore it, and   *)
(* the first round's enable keyboard, which no restore makes up for.       *)
Essential == Test.var = "saved" \/ (Test.cmd = "ae" /\ printed = 0)

(* Mutant: disable_kbd and enable_kbd lose their own error as well.        *)
TimesOutKeeps(way) ==
  /\ pc = "wait"
  /\ faults < MaxFaults
  /\ faults' = faults + 1
  /\ erl' = IF Keeps(Test.cmd) THEN erl ELSE Error(Test.cmd, way)
  /\ command' \in Written \cup {command}
  /\ failed' = failed \cup {<<done + 1, Error(Test.cmd, way)>>}
  /\ spoilt' = (spoilt \/ Essential)
  /\ pc' = "record"
  /\ UNCHANGED <<tool, done, printed, dump, saved, file, io, shown>>

(* It leaves its input buffer full (stuck) or its output buffer empty, or  *)
(* the copyright string is of no use.  What it was sent may have taken     *)
(* effect or not.                                                          *)
TimesOut(way) ==
  /\ pc = "wait"
  /\ faults < MaxFaults
  /\ faults' = faults + 1
  /\ erl' = Error(Test.cmd, way)
  /\ command' \in Written \cup {command}
  /\ failed' = failed \cup {<<done + 1, Error(Test.cmd, way)>>}
  /\ spoilt' = (spoilt \/ Essential)
  /\ pc' = "record"
  /\ UNCHANGED <<tool, done, printed, dump, saved, file, io, shown>>

(* The machine hangs or restarts under the command (external).             *)
Hang ==
  /\ pc = "wait"
  /\ pc' = "hung"
  /\ UNCHANGED <<tool, done, printed, erl, dump, saved, file, io, command,
                 faults, failed, shown, spoilt>>

(* What follows the n-th test.                                             *)
After(n) == IF RoundEnds[printed + 1] = n THEN "print" ELSE "send"

(* Mutant: the file is saved at the end of a round only.                   *)
StoreErlSavesRound ==
  /\ pc = "record"
  /\ dump' = Append(dump, erl)
  /\ done' = done + 1
  /\ pc' = IF SaveEach /\ After(done') = "print" THEN "open" ELSE After(done')
  /\ UNCHANGED <<tool, printed, erl, saved, file, io, command, faults,
                 failed, shown, spoilt>>

(* store_erl; JETKEY's calls write_everything.                             *)
StoreErl ==
  /\ pc = "record"
  /\ dump' = Append(dump, erl)
  /\ done' = done + 1
  /\ pc' = IF SaveEach THEN "open" ELSE After(done')
  /\ UNCHANGED <<tool, printed, erl, saved, file, io, command, faults,
                 failed, shown, spoilt>>

-----------------------------------------------------------------------------
(* The open, the writes and the close that make up the file.  A           *)
(* call may fail; a full disk shortens a write without an error, which the *)
(* tools do not look at.  Writes after a failed open go nowhere.           *)
FileCall(next) ==
  /\ pc' = next
  /\ UNCHANGED <<tool, done, printed, dump, saved, command, failed, shown,
                 spoilt>>

FileFault(errs) ==
  /\ faults < MaxFaults
  /\ faults' = faults + 1
  /\ io' = "bad"
  /\ erl' \in errs

(* Function 3Ch truncates a file that exists.                              *)
OpenFile ==
  /\ pc = "open"
  /\ \/ io' = "ok" /\ file' = <<>> /\ UNCHANGED <<erl, faults>>
     \/ FileFault({Error("file", "open")}) /\ UNCHANGED file
  /\ FileCall("write")

WriteFile ==
  /\ pc = "write"
  /\ \/ UNCHANGED <<erl, faults, io>>
     \/ FileFault({Error("file", "write"), erl})
  /\ FileCall("close") /\ UNCHANGED file

(* What has been written is in the file once it is closed.  After the last *)
(* print_out that is the end.                                              *)
CloseFile ==
  /\ pc = "close"
  /\ \/ /\ file' = IF io = "ok" THEN dump ELSE file
        /\ UNCHANGED <<erl, faults, io>>
     \/ FileFault({Error("file", "close")}) /\ UNCHANGED file
  /\ FileCall(IF printed = Len(RoundEnds) THEN "exit" ELSE After(done))

(* sti, print_out, and erl cleared for the next round.  The last round     *)
(* leaves it to be the exit code and saves the file.                       *)
PrintOut ==
  /\ pc = "print"
  /\ shown' = shown \cup {erl}
  /\ printed' = printed + 1
  /\ erl' = IF printed' < Len(RoundEnds) THEN NoError ELSE erl
  /\ pc' = IF printed' < Len(RoundEnds) THEN "send" ELSE "open"
  /\ UNCHANGED <<tool, done, dump, saved, file, io, command, faults, failed,
                 spoilt>>

Ended == pc \in {"exit", "hung"} /\ UNCHANGED vars

Outcome ==
  \/ Answered
  \/ Hang
  \/ \E way \in Ways(Test.cmd) : TimesOut(way)

Tool == \/ Send
        \/ pc = "wait" /\ Outcome
        \/ StoreErl
        \/ OpenFile \/ WriteFile \/ CloseFile
        \/ PrintOut

Next == Tool \/ Ended

Spec == Init /\ [][Next]_vars

-----------------------------------------------------------------------------
PCs == {"send", "wait", "record", "open", "write", "close", "print", "exit", "hung"}

(* Every variable has a value of its type, and the dump fits dmp_arr,      *)
(* which it fills to the last byte.                                        *)
TypeOK ==
  /\ tool \in Tools
  /\ pc \in PCs
  /\ done \in 0 .. Len(Script)
  /\ printed \in 0 .. Len(RoundEnds)
  /\ erl \in Errors
  /\ Len(dump) <= DumpSizeOf(tool)
  /\ dump \in Seq(DumpBytes)
  /\ saved \in CommandBytes /\ command \in CommandBytes
  /\ Len(file) <= Len(dump)
  /\ io \in {"none", "ok", "bad"}
  /\ faults \in 0 .. MaxFaults
  /\ failed \subseteq (DOMAIN Script) \X Errors
  /\ shown \subseteq Errors
  /\ spoilt \in BOOLEAN

(* The dump tells what came of every test: a failure is recorded with its  *)
(* own error level beside its command, and another error level than zero   *)
(* beside a command that succeeded is only ever found at disable and       *)
(* enable keyboard.                                                        *)
DumpTellsOutcomes ==
  /\ \A f \in failed : f[1] <= done => dump[2 * f[1]] = f[2]
  /\ \A k \in 1 .. done :
       /\ dump[2 * k - 1] = Command(Script[k].cmd)
       /\ \/ dump[2 * k] = NoError
          \/ Keeps(Script[k].cmd)
          \/ <<k, dump[2 * k]>> \in failed

(* amikey/README.md on JETKEY.COM: it "saves the JETKEY.BIN file after     *)
(* every test".  When a command hangs the machine, and the save before it  *)
(* met no error, the file holds every test completed before.               *)
HangLosesOneTest ==
  pc = "hung" /\ SaveEach /\ done > 0 /\ io = "ok" =>
    file = SubSeq(dump, 1, 2 * done)

(* The tools leave the command byte as they found it, if no read that      *)
(* saves it, no write that restores it and no first enable keyboard fails: *)
(* whatever else fails, the keyboard works again.                          *)
CommandByteRestored ==
  pc = "exit" /\ ~spoilt => command = Byte("original", FALSE)
=============================================================================
