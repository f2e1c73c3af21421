----------------------------- MODULE IsaPnpDump -----------------------------
(***************************************************************************)
(* isapnp.c: dump_resource_data and read_resource_data.  The resource data *)
(* of one card is read byte by byte through a buffer of BufSize bytes that *)
(* is written to the dump file whenever its 8-bit index wraps, and parsed  *)
(* on the way to know where it ends.                                       *)
(*                                                                         *)
(* The card is external: a sequence of answers, each a byte or TimedOut    *)
(* (20 polls without the ready bit); after the last one it never answers.  *)
(***************************************************************************)
EXTENDS Integers, Sequences

CONSTANTS
  Streams,    \* what cards may answer
  BufSize,    \* sizeof(buf), 256 in the code
  Header,     \* length of the header, 9 in the code
  Stale       \* what the buffer may hold from an earlier dump

TimedOut == -1
Byte == 0 .. 255
MaxWord == 65535
Word == 0 .. MaxWord

ASSUME IsaPnpDumpAssumption ==
  /\ Header \in Nat \ {0} /\ BufSize \in Nat /\ Header < BufSize
  /\ Streams \subseteq Seq(Byte \cup {TimedOut})
  /\ Stale \subseteq [0 .. BufSize - 1 -> Byte]

VARIABLES
  stream, pos,    \* the card's answers and the next one
  buf, bufPos,    \* the buffer and its index
  file,           \* bytes written to the dump file
  pc, j, data,    \* control, and the loop counters
  lengthLow,      \* first byte of a large resource's length
  delivered,      \* history: the bytes the card has delivered
  failed          \* history: has a write failed?

vars == <<stream, pos, buf, bufPos, file, pc, j, data, lengthLow, delivered, failed>>

Buffered == [i \in 1 .. bufPos |-> buf[i - 1]]

Init ==
  /\ stream \in Streams /\ pos = 1
  /\ buf \in Stale /\ bufPos = 0
  /\ file = <<>>
  /\ pc = "header" /\ j = 0 /\ data = 0 /\ lengthLow = 0
  /\ delivered = <<>> /\ failed = FALSE

-----------------------------------------------------------------------------
(* read_resource_data: b is the byte it stores in *byte, ok what it        *)
(* returns.  A time-out stores FFh and buffers nothing.                    *)
Answer == IF pos <= Len(stream) THEN stream[pos] ELSE TimedOut

ReadTimesOut(b, ok) ==
  /\ Answer = TimedOut /\ b = 255 /\ ok = FALSE
  /\ UNCHANGED <<buf, bufPos, file, delivered, failed>>

ReadBuffers(b, ok) ==
  /\ Answer # TimedOut /\ b = Answer
  /\ delivered' = Append(delivered, b)
  /\ buf' = [buf EXCEPT ![bufPos] = b]
  /\ bufPos' = (bufPos + 1) % BufSize
  /\ \/ /\ bufPos' # 0 /\ ok = TRUE
        /\ UNCHANGED <<file, failed>>
     \/ /\ bufPos' = 0 /\ ok = TRUE
        /\ file' = file \o [i \in 1 .. BufSize |-> buf'[i - 1]]
        /\ UNCHANGED failed
     \/ /\ bufPos' = 0 /\ ok = FALSE               \* fwrite failed
        /\ failed' = TRUE
        /\ UNCHANGED file

Read(b, ok) ==
  /\ pos' = IF pos <= Len(stream) THEN pos + 1 ELSE pos
  /\ ReadTimesOut(b, ok) \/ ReadBuffers(b, ok)
  /\ UNCHANGED stream

(* The fwrite of what is buffered; one of zero bytes counts as failed.     *)
Flush ==
  \/ /\ bufPos > 0
     /\ file' = file \o Buffered
     /\ UNCHANGED failed
  \/ /\ failed' = (failed \/ bufPos > 0)
     /\ UNCHANGED file

-----------------------------------------------------------------------------
ReadHeader ==
  /\ pc = "header" /\ j < Header
  /\ \E b \in Byte, ok \in BOOLEAN : Read(b, ok)
  /\ j' = j + 1
  /\ UNCHANGED <<pc, data, lengthLow>>

(* The header's flush and the check that follows, on the buffer.           *)
AllSame(v) == \A i \in 0 .. Header - 1 : buf[i] = v

(* Mutant: the header stays in the buffer after it has been written.       *)
CheckHeaderKeepsBuffer ==
  /\ pc = "header" /\ j = Header
  /\ Flush
  /\ pc' = IF AllSame(0) \/ AllSame(255) THEN "done" ELSE "tag"
  /\ UNCHANGED <<stream, pos, buf, bufPos, j, data, lengthLow, delivered>>

CheckHeader ==
  /\ pc = "header" /\ j = Header
  /\ Flush
  /\ bufPos' = 0
  /\ pc' = IF AllSame(0) \/ AllSame(255) THEN "done" ELSE "tag"
  /\ UNCHANGED <<stream, pos, buf, j, data, lengthLow, delivered>>

(* Where a small resource's tag byte leads, and with how many bytes to go. *)
SmallType(b) == (b \div 8) % 16
(* Mutant: an end tag of length 0 is taken to have no checksum.            *)
AfterSmallBareEnd(b) ==
  LET n == b % 8
  IN CASE SmallType(b) = 15 -> <<"end", n>>
       [] SmallType(b) = 2 /\ n >= 4 -> <<"device", n>>
       [] OTHER -> <<"skip", n>>

AfterSmall(b) ==
  LET n == b % 8
  IN CASE SmallType(b) = 15 -> <<"end", IF n = 0 THEN 1 ELSE n>>
       [] SmallType(b) = 2 /\ n >= 4 -> <<"device", n>>
       [] OTHER -> <<"skip", n>>

ReadTag ==
  /\ pc = "tag"
  /\ \E b \in Byte, ok \in BOOLEAN :
       /\ Read(b, ok)
       /\ LET large == <<"low", b % 128>>
              next == IF ~ok \/ b \in {0, 255} THEN <<"flush", data>>
                      ELSE IF b >= 128 THEN large ELSE AfterSmall(b)
          IN pc' = next[1] /\ data' = next[2]
  /\ UNCHANGED <<j, lengthLow>>

(* The two bytes of a large resource's length.  Its type, kept in data     *)
(* until then, only decides whether the bytes are printed.                 *)
ReadLengthLow ==
  /\ pc = "low"
  /\ \E b \in Byte, ok \in BOOLEAN : Read(b, ok) /\ lengthLow' = b
  /\ pc' = "high"
  /\ UNCHANGED <<j, data>>

ReadLengthHigh ==
  /\ pc = "high"
  /\ \E b \in Byte, ok \in BOOLEAN : Read(b, ok) /\ data' = lengthLow + 256 * b
  /\ pc' = IF data = 2 THEN "ansi" ELSE "skip"
  /\ UNCHANGED <<j, lengthLow>>

(* Mutant: the count is tested after the read.                             *)
ReadBodyTestsLate ==
  /\ pc \in {"ansi", "device", "end", "skip"} /\ data >= 0
  /\ \E b \in Byte, ok \in BOOLEAN : Read(b, ok)
  /\ data' = data - 1
  /\ UNCHANGED <<pc, j, lengthLow>>

(* A byte of an ANSI string, of a logical device's ID, of the end tag or   *)
(* of anything else.  What read_resource_data returns is ignored.          *)
ReadBody ==
  /\ pc \in {"ansi", "device", "end", "skip"} /\ data > 0
  /\ \E b \in Byte, ok \in BOOLEAN : Read(b, ok)
  /\ data' = IF pos > Len(stream) THEN 0 ELSE data - 1  \* rest times out too
  /\ UNCHANGED <<pc, j, lengthLow>>

EndBody ==
  /\ pc \in {"ansi", "device", "end", "skip"} /\ data = 0
  /\ pc' = IF pc = "end" THEN "flush" ELSE "tag"
  /\ UNCHANGED <<stream, pos, buf, bufPos, file, j, data, lengthLow, delivered, failed>>

FinalFlush ==
  /\ pc = "flush"
  /\ IF bufPos > 0 THEN Flush ELSE UNCHANGED <<file, failed>>
  /\ pc' = "done"
  /\ UNCHANGED <<stream, pos, buf, bufPos, j, data, lengthLow, delivered>>

Ended == pc = "done" /\ UNCHANGED vars

Step == ReadHeader \/ CheckHeader \/ ReadTag \/ ReadLengthLow \/ ReadLengthHigh
          \/ ReadBody \/ EndBody \/ FinalFlush
Next == Step \/ Ended
Spec == Init /\ [][Next]_vars

-----------------------------------------------------------------------------
TypeOK ==
  /\ stream \in Streams /\ pos \in 1 .. Len(stream) + 1
  /\ buf \in [0 .. BufSize - 1 -> Byte] /\ bufPos \in 0 .. BufSize - 1
  /\ file \in Seq(Byte) /\ delivered \in Seq(Byte)
  /\ pc \in {"header", "tag", "low", "high", "ansi", "device", "end", "skip",
             "flush", "done"}
  /\ j \in 0 .. Header /\ data \in Word /\ lengthLow \in Byte
  /\ failed \in BOOLEAN

(* No byte is lost, duplicated or reordered between the card and the file, *)
(* at the wraps of the index, at the header's own flush, at time-outs and  *)
(* at the end, unless a write fails.                                       *)
FileIsWhatWasRead ==
  ~failed => delivered = IF pc = "done" THEN file ELSE file \o Buffered

(* What cards that answer every read may answer.                           *)
Answered == {s \in Streams : \A i \in 1 .. Len(s) : s[i] # TimedOut}

(* How long the item is whose tag is answer i, its tag included.           *)
IsEnd(s, i) == s[i] \in 120 .. 127
Item(s, i) ==
  CASE s[i] = 120 -> 2
    [] s[i] # 120 /\ s[i] < 128 -> 1 + (s[i] % 8)
    [] s[i] >= 128 /\ i + 2 <= Len(s) -> 3 + s[i + 1] + 256 * s[i + 2]
    [] OTHER -> Len(s)

(* Length of the well-formed resource data that starts at answer i: items  *)
(* up to an end tag and its checksum; 0 if there is no end.                *)
Extent(s) ==
  LET from[i \in Nat \ {0}] ==
        IF i > Len(s) \/ s[i] \in {0, 255} THEN 0
        ELSE IF IsEnd(s, i) THEN (i - 1) + Item(s, i)
        ELSE from[i + Item(s, i)]
  IN from

Complete(s) ==
  /\ s \in Answered /\ Len(s) > Header
  /\ \E i \in 1 .. Header : s[i] # s[1] \/ s[i] \notin {0, 255}
  /\ Extent(s)[Header + 1] \in 1 .. Len(s)

(* The parser stops where the resource data does: on a card that answers   *)
(* every read, exactly the header and all resources up to the end tag's    *)
(* checksum are read, and not a byte more.                                 *)
ReadsWholeResource ==
  pc = "done" /\ ~failed /\ Complete(stream) =>
    delivered = SubSeq(stream, 1, Extent(stream)[Header + 1])
=============================================================================
