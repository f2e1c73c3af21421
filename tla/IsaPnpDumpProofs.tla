-------------------------- MODULE IsaPnpDumpProofs --------------------------
(***************************************************************************)
(* The dump of isapnp, for every card, header and size of the buffer:      *)
(* FileIsWhatWasRead is inductive once the types are known, and the parser *)
(* stops where the resource data does.                                     *)
(***************************************************************************)
EXTENDS IsaPnpDump, SequenceTheorems, WellFoundedInduction, TLAPS

(* What is in the buffer, as a sequence of p bytes.                        *)
FirstOf(b, p) == [i \in 1 .. p |-> b[i - 1]]

LEMMA FirstIsSeq ==
  ASSUME NEW n \in Nat, NEW b \in [0 .. n - 1 -> Byte], NEW p \in 0 .. n
  PROVE  FirstOf(b, p) \in Seq(Byte) /\ Len(FirstOf(b, p)) = p
<1>1. \A i \in 1 .. p : b[i - 1] \in Byte
  OBVIOUS
<1> QED BY <1>1 DEF FirstOf

(* read_resource_data's buf[buf_pos++] = *byte.                            *)
LEMMA FirstGrows ==
  ASSUME NEW n \in Nat, NEW b \in [0 .. n - 1 -> Byte], NEW p \in 0 .. n - 1, NEW x \in Byte
  PROVE  FirstOf([b EXCEPT ![p] = x], p + 1) = Append(FirstOf(b, p), x)
<1> DEFINE c == [b EXCEPT ![p] = x]
           s == FirstOf(c, p + 1)
           t == Append(FirstOf(b, p), x)
<1>1. c \in [0 .. n - 1 -> Byte]
  OBVIOUS
<1>2. c[p] = x /\ \A i \in 0 .. n - 1 : i # p => c[i] = b[i]
  OBVIOUS
<1> HIDE DEF c
<1>3. s \in Seq(Byte) /\ Len(s) = p + 1
  BY <1>1, FirstIsSeq
<1>4. FirstOf(b, p) \in Seq(Byte) /\ Len(FirstOf(b, p)) = p
  BY FirstIsSeq
<1>5. t \in Seq(Byte) /\ Len(t) = p + 1
  BY <1>4
<1>6. t[p + 1] = x /\ \A i \in 1 .. p : t[i] = FirstOf(b, p)[i]
  BY <1>4
<1>7. ASSUME NEW i \in 1 .. p + 1 PROVE s[i] = t[i]
  <2>1. s[i] = c[i - 1]
    BY DEF FirstOf
  <2>2. CASE i = p + 1
    BY <2>1, <2>2, <1>2, <1>6
  <2>3. CASE i \in 1 .. p
    <3>1. FirstOf(b, p)[i] = b[i - 1]
      BY <2>3 DEF FirstOf
    <3>2. c[i - 1] = b[i - 1]
      BY <2>3, <1>2
    <3>3. t[i] = FirstOf(b, p)[i]
      BY <2>3, <1>6
    <3> QED BY <2>1, <3>1, <3>2, <3>3
  <2>4. i = p + 1 \/ i \in 1 .. p
    OBVIOUS
  <2> QED BY <2>2, <2>3, <2>4
<1> HIDE DEF s, t
<1>8. s = t
  BY <1>3, <1>5, <1>7, SeqEqual
<1> QED BY <1>8 DEF c, s, t

(* The index wraps at the end of the buffer.                               *)
LEMMA Wrap ==
  ASSUME NEW n \in Nat \ {0}, NEW p \in 0 .. n - 1
  PROVE  (p + 1) % n = IF p + 1 = n THEN 0 ELSE p + 1
<1>1. CASE p + 1 = n
  BY <1>1
<1>2. CASE p + 1 < n
  BY <1>2
<1> QED BY <1>1, <1>2

-----------------------------------------------------------------------------
(* What read_resource_data does, whoever calls it.                         *)

Types ==
  /\ buf \in [0 .. BufSize - 1 -> Byte] /\ bufPos \in 0 .. BufSize - 1
  /\ file \in Seq(Byte) /\ delivered \in Seq(Byte)

Kept == ~failed => delivered = file \o Buffered

LEMMA BufferedIsFirst == Buffered = FirstOf(buf, bufPos)
  BY DEF Buffered, FirstOf

(* A byte that is read is in the buffer or in the file, after all others.  *)
LEMMA ReadKeeps ==
  ASSUME Types, Kept, NEW b \in Byte, NEW ok \in BOOLEAN, Read(b, ok)
  PROVE  Types' /\ Kept'
<1> USE IsaPnpDumpAssumption
<1>1. CASE ReadTimesOut(b, ok)
  BY <1>1 DEF Read, ReadTimesOut, Types, Kept, Buffered
<1>2. CASE ReadBuffers(b, ok)
  <2>1. Buffered = FirstOf(buf, bufPos) /\ Buffered' = FirstOf(buf', bufPos')
    BY DEF Buffered, FirstOf
  <2>2. /\ delivered' = Append(delivered, b) /\ buf' = [buf EXCEPT ![bufPos] = b]
        /\ bufPos' = (bufPos + 1) % BufSize
    BY <1>2 DEF ReadBuffers
  <2>3. /\ buf' \in [0 .. BufSize - 1 -> Byte] /\ bufPos' \in 0 .. BufSize - 1
        /\ delivered' \in Seq(Byte)
        /\ bufPos' = IF bufPos + 1 = BufSize THEN 0 ELSE bufPos + 1
    <3>1. bufPos' = IF bufPos + 1 = BufSize THEN 0 ELSE bufPos + 1
      <4>1. BufSize \in Nat \ {0} /\ bufPos \in 0 .. BufSize - 1
        BY DEF Types
      <4>2. (bufPos + 1) % BufSize = IF bufPos + 1 = BufSize THEN 0 ELSE bufPos + 1
        BY <4>1, Wrap
      <4> QED BY <2>2, <4>2
    <3>2. bufPos' \in 0 .. BufSize - 1
      BY <3>1 DEF Types
    <3>3. buf' \in [0 .. BufSize - 1 -> Byte] /\ delivered' \in Seq(Byte)
      BY <2>2 DEF Types
    <3> QED BY <3>1, <3>2, <3>3
  <2>4. FirstOf(buf', bufPos + 1) = Append(Buffered, b)
    BY <2>1, <2>2, FirstGrows DEF Types
  <2>5. FirstOf(buf', bufPos + 1) \in Seq(Byte) /\ Buffered \in Seq(Byte)
    <3>1. BufSize \in Nat /\ bufPos + 1 \in 0 .. BufSize /\ bufPos \in 0 .. BufSize
      BY DEF Types
    <3>2. FirstOf(buf', bufPos + 1) \in Seq(Byte)
      BY <2>3, <3>1, FirstIsSeq
    <3>3. FirstOf(buf, bufPos) \in Seq(Byte)
      BY <3>1, FirstIsSeq DEF Types
    <3> QED BY <2>1, <3>2, <3>3
  <2>6. ~failed => delivered' = file \o FirstOf(buf', bufPos + 1)
    <3>1. file \o Append(Buffered, b) = Append(file \o Buffered, b)
      BY <2>5 DEF Types
    <3> QED BY <3>1, <2>2, <2>4 DEF Kept
  <2>7. CASE bufPos' # 0 /\ UNCHANGED <<file, failed>>
    BY <2>7, <2>1, <2>3, <2>6 DEF Types, Kept
  <2>8. CASE bufPos' = 0 /\ file' = file \o [i \in 1 .. BufSize |-> buf'[i - 1]] /\ UNCHANGED failed
    <3>1. bufPos + 1 = BufSize /\ file' = file \o FirstOf(buf', bufPos + 1)
      BY <2>8, <2>3 DEF FirstOf, Types
    <3>2. Buffered' = <<>>
      BY <2>1, <2>8 DEF FirstOf
    <3>3. file' \in Seq(Byte)
      BY <3>1, <2>5 DEF Types
    <3> QED BY <3>1, <3>2, <3>3, <2>3, <2>6, <2>8 DEF Types, Kept
  <2>9. CASE bufPos' = 0 /\ failed' = TRUE /\ UNCHANGED file
    BY <2>9, <2>3 DEF Types, Kept
  <2> QED BY <1>2, <2>7, <2>8, <2>9 DEF ReadBuffers
<1> QED BY <1>1, <1>2 DEF Read

(* After a flush all is in the file, unless it has failed.                 *)
LEMMA FlushKeeps ==
  ASSUME Types, Kept, Flush
  PROVE  file' \in Seq(Byte) /\ (~failed' => delivered = file')
<1>1. Buffered \in Seq(Byte) /\ (bufPos = 0 => Buffered = <<>>)
  BY FirstIsSeq, BufferedIsFirst, IsaPnpDumpAssumption DEF Types, Buffered
<1>2. CASE bufPos > 0 /\ file' = file \o Buffered /\ UNCHANGED failed
  BY <1>1, <1>2 DEF Types, Kept
<1>3. CASE failed' = (failed \/ bufPos > 0) /\ UNCHANGED file
  <2>1. CASE bufPos > 0
    BY <1>3, <2>1 DEF Types
  <2>2. CASE bufPos = 0
    BY <1>1, <1>3, <2>2, ConcatEmptySeq DEF Types, Kept
  <2> QED BY <2>1, <2>2 DEF Types
<1> QED BY <1>2, <1>3 DEF Flush

-----------------------------------------------------------------------------
States == {"header", "tag", "low", "high", "ansi", "device", "end", "skip", "flush", "done"}

LEMMA WordRange ==
  ASSUME NEW x
  PROVE  x \in Word <=> x \in Int /\ 0 <= x /\ x <= 65535
<1>1. MaxWord = 65535
  BY DEF MaxWord
<1>2. MaxWord \in Int
  BY <1>1
<1>3. x \in Word <=> x \in Int /\ 0 <= x /\ x <= MaxWord
  BY <1>2 DEF Word
<1> QED BY <1>1, <1>3

Card == stream \in Streams /\ pos \in 1 .. Len(stream) + 1
Control ==
  /\ pc \in States
  /\ j \in 0 .. Header /\ data \in Word /\ lengthLow \in Byte
  /\ failed \in BOOLEAN

LEMMA ReadControls ==
  ASSUME Card, failed \in BOOLEAN, NEW b \in Byte, NEW ok \in BOOLEAN, Read(b, ok)
  PROVE  Card' /\ failed' \in BOOLEAN
<1>1. stream \in Seq(Byte \cup {TimedOut})
  BY IsaPnpDumpAssumption DEF Card
<1>2. Len(stream) \in Nat
  BY <1>1
<1>3. stream' = stream /\ pos' = IF pos <= Len(stream) THEN pos + 1 ELSE pos
  BY DEF Read
<1>4. pos' \in 1 .. Len(stream) + 1
  BY <1>2, <1>3 DEF Card
<1>5. failed' \in BOOLEAN
  <2>1. CASE ReadTimesOut(b, ok)
    BY <2>1 DEF ReadTimesOut
  <2>2. CASE ReadBuffers(b, ok)
    <3>1. CASE UNCHANGED failed
      BY <3>1
    <3>2. CASE failed' = TRUE
      BY <3>2
    <3> QED BY <2>2, <3>1, <3>2 DEF ReadBuffers
  <2> QED BY <2>1, <2>2 DEF Read
<1> QED BY <1>3, <1>4, <1>5 DEF Card

FInv == IF pc = "done" THEN ~failed => delivered = file ELSE Kept

IInv == Types /\ Card /\ Control /\ FInv

LEMMA InitIInv == Init => IInv
<1> SUFFICES ASSUME Init PROVE IInv
  OBVIOUS
<1> USE IsaPnpDumpAssumption DEF Init
<1>1. Types
  BY DEF Types
<1>2. stream \in Seq(Byte \cup {TimedOut})
  OBVIOUS
<1>3. Card
  <2>1. pos \in 1 .. Len(stream) + 1
    BY <1>2
  <2> QED BY <2>1 DEF Card
<1>4. Control
  <2>1. 0 \in 0 .. Header /\ 0 \in Byte /\ 0 \in Word
    BY WordRange DEF Byte
  <2> QED BY <2>1 DEF Control, States
<1>5. Buffered = <<>>
  BY DEF Buffered
<1> QED BY <1>1, <1>3, <1>4, <1>5 DEF IInv, FInv, Kept

(* A step that reads: what its caller does beside is to the counters.      *)
LEMMA ReadingStep ==
  ASSUME IInv, pc # "done", NEW b \in Byte, NEW ok \in BOOLEAN, Read(b, ok),
         pc' \in States, pc' # "done",
         j' \in 0 .. Header, data' \in Word, lengthLow' \in Byte
  PROVE  IInv'
<1>1. Types /\ Kept /\ Card /\ failed \in BOOLEAN
  BY DEF IInv, FInv, Control
<1>2. Types' /\ Kept'
  BY <1>1, ReadKeeps
<1>3. Card' /\ failed' \in BOOLEAN
  BY <1>1, ReadControls
<1>4. Control'
  BY <1>3 DEF Control
<1>5. FInv'
  BY <1>2 DEF FInv
<1> QED BY <1>2, <1>3, <1>4, <1>5 DEF IInv

(* The counters as a step finds them.                                      *)
LEMMA Counters ==
  ASSUME IInv
  PROVE  /\ pc \in States /\ j \in 0 .. Header /\ data \in Word /\ lengthLow \in Byte
         /\ failed \in BOOLEAN /\ Header \in Nat
  BY IsaPnpDumpAssumption DEF IInv, Control

LEMMA ReadHeaderKeeps == ASSUME IInv, ReadHeader PROVE IInv'
<1>1. PICK b \in Byte, ok \in BOOLEAN : Read(b, ok)
  BY DEF ReadHeader
<1>2. pc = "header" /\ pc' = "header" /\ data' = data /\ lengthLow' = lengthLow
  BY DEF ReadHeader
<1>3. j' \in 0 .. Header
  BY Counters DEF ReadHeader
<1>4. pc' \in States /\ pc' # "done" /\ pc # "done" /\ data' \in Word /\ lengthLow' \in Byte
  BY <1>2, Counters DEF States
<1> QED BY <1>1, <1>3, <1>4, ReadingStep

LEMMA CheckHeaderKeeps == ASSUME IInv, CheckHeader PROVE IInv'
<1>1. Types /\ Kept
  BY DEF IInv, FInv, CheckHeader
<1>2. file' \in Seq(Byte) /\ (~failed' => delivered = file')
  BY <1>1, FlushKeeps DEF CheckHeader
<1>3. Types'
  BY <1>1, <1>2, IsaPnpDumpAssumption DEF CheckHeader, Types
<1>4. Card'
  BY DEF CheckHeader, IInv, Card
<1>5. failed' \in BOOLEAN
  BY Counters DEF CheckHeader, Flush
<1>6. pc' \in {"done", "tag"}
  BY DEF CheckHeader
<1>7. pc' \in States
  BY <1>6 DEF States
<1>8. Control'
  BY <1>5, <1>7, Counters DEF CheckHeader, Control
<1>9. FInv'
  <2>1. Buffered' = <<>>
    BY DEF CheckHeader, Buffered
  <2>2. file' \o <<>> = file'
    BY <1>2, ConcatEmptySeq
  <2>3. delivered' = delivered
    BY DEF CheckHeader
  <2> QED BY <1>2, <2>1, <2>2, <2>3 DEF FInv, Kept
<1> QED BY <1>3, <1>4, <1>8, <1>9 DEF IInv

LEMMA ReadTagKeeps == ASSUME IInv, ReadTag PROVE IInv'
<1>1. PICK b \in Byte, ok \in BOOLEAN :
        /\ Read(b, ok)
        /\ LET large == <<"low", b % 128>>
               next == IF ~ok \/ b \in {0, 255} THEN <<"flush", data>>
                       ELSE IF b >= 128 THEN large ELSE AfterSmall(b)
           IN pc' = next[1] /\ data' = next[2]
  BY DEF ReadTag
<1>2. b % 128 \in Word /\ b % 8 \in Word
  <2>1. b \in Int /\ 0 <= b /\ b <= 255
    BY DEF Byte
  <2>2. b % 128 \in 0 .. 127 /\ b % 8 \in 0 .. 7
    BY <2>1
  <2> QED BY <2>2, WordRange
<1>3. AfterSmall(b)[1] \in {"end", "device", "skip"} /\ AfterSmall(b)[2] \in Word
  <2>1. 1 \in Word
    BY WordRange
  <2> QED BY <1>2, <2>1 DEF AfterSmall
<1>4. pc' \in {"low", "end", "device", "skip", "flush"} /\ data' \in Word
  BY <1>1, <1>2, <1>3, Counters
<1>5. pc = "tag" /\ j' = j /\ lengthLow' = lengthLow
  BY DEF ReadTag
<1>6. pc' \in States /\ pc' # "done" /\ pc # "done"
  BY <1>4, <1>5 DEF States
<1>7. j' \in 0 .. Header /\ lengthLow' \in Byte
  BY <1>5, Counters
<1>8. Read(b, ok) /\ data' \in Word
  BY <1>1, <1>4
<1> QED BY <1>6, <1>7, <1>8, ReadingStep

LEMMA ReadLengthLowKeeps == ASSUME IInv, ReadLengthLow PROVE IInv'
<1>1. PICK b \in Byte, ok \in BOOLEAN : Read(b, ok) /\ lengthLow' = b
  BY DEF ReadLengthLow
<1>2. pc = "low" /\ pc' = "high" /\ j' = j /\ data' = data
  BY DEF ReadLengthLow
<1>3. pc' \in States /\ pc' # "done" /\ pc # "done"
  BY <1>2 DEF States
<1>4. j' \in 0 .. Header /\ data' \in Word /\ lengthLow' \in Byte
  BY <1>1, <1>2, Counters
<1> QED BY <1>1, <1>3, <1>4, ReadingStep

LEMMA ReadLengthHighKeeps == ASSUME IInv, ReadLengthHigh PROVE IInv'
<1>1. PICK b \in Byte, ok \in BOOLEAN : Read(b, ok) /\ data' = lengthLow + 256 * b
  BY DEF ReadLengthHigh
<1>2. pc = "high" /\ pc' \in {"ansi", "skip"} /\ j' = j /\ lengthLow' = lengthLow
  BY DEF ReadLengthHigh
<1>3. pc' \in States /\ pc' # "done" /\ pc # "done"
  BY <1>2 DEF States
<1>4. data' \in Word
  <2>1. b \in Int /\ 0 <= b /\ b <= 255 /\ lengthLow \in Int /\ 0 <= lengthLow /\ lengthLow <= 255
    BY Counters DEF Byte
  <2> QED BY <1>1, <2>1, WordRange
<1>5. j' \in 0 .. Header /\ lengthLow' \in Byte
  BY <1>2, Counters
<1> QED BY <1>1, <1>3, <1>4, <1>5, ReadingStep

LEMMA ReadBodyKeeps == ASSUME IInv, ReadBody PROVE IInv'
<1>1. PICK b \in Byte, ok \in BOOLEAN : Read(b, ok)
  BY DEF ReadBody
<1>2. pc \in {"ansi", "device", "end", "skip"} /\ pc' = pc /\ j' = j /\ lengthLow' = lengthLow
  BY DEF ReadBody
<1>3. pc' \in States /\ pc' # "done" /\ pc # "done"
  BY <1>2 DEF States
<1>4. data' \in Word
  <2>1. data > 0 /\ data' \in {0, data - 1}
    BY DEF ReadBody
  <2>2. data \in Int /\ data <= 65535
    BY Counters, WordRange
  <2> QED BY <2>1, <2>2, WordRange
<1>5. j' \in 0 .. Header /\ lengthLow' \in Byte
  BY <1>2, Counters
<1> QED BY <1>1, <1>3, <1>4, <1>5, ReadingStep

LEMMA EndBodyKeeps == ASSUME IInv, EndBody PROVE IInv'
<1>1. pc \in {"ansi", "device", "end", "skip"} /\ pc' \in {"flush", "tag"}
  BY DEF EndBody
<1>2. pc' \in States /\ pc' # "done" /\ pc # "done"
  BY <1>1 DEF States
<1>3. Types' /\ Card'
  BY DEF EndBody, IInv, Types, Card
<1>4. Control'
  BY <1>2, Counters DEF EndBody, Control
<1>5. FInv'
  BY <1>2 DEF EndBody, IInv, FInv, Kept, Buffered
<1> QED BY <1>3, <1>4, <1>5 DEF IInv

LEMMA FinalFlushKeeps == ASSUME IInv, FinalFlush PROVE IInv'
<1>1. Types /\ Kept /\ pc' = "done"
  BY DEF IInv, FInv, FinalFlush
<1>2. file' \in Seq(Byte) /\ (~failed' => delivered = file') /\ failed' \in BOOLEAN
  <2>1. CASE bufPos > 0
    <3>1. Flush
      BY <2>1 DEF FinalFlush
    <3>2. failed' \in BOOLEAN
      BY <3>1, Counters DEF Flush
    <3> QED BY <1>1, <3>1, <3>2, FlushKeeps
  <2>2. CASE bufPos = 0
    <3>1. UNCHANGED <<file, failed>>
      BY <2>2 DEF FinalFlush
    <3>2. Buffered = <<>>
      BY <2>2 DEF Buffered
    <3>3. file \o <<>> = file
      BY <1>1, ConcatEmptySeq DEF Types
    <3> QED BY <1>1, <3>1, <3>2, <3>3, Counters DEF Kept, Types
  <2> QED BY <1>1, <2>1, <2>2 DEF Types
<1>3. Types'
  BY <1>1, <1>2 DEF FinalFlush, Types
<1>4. Card'
  BY DEF FinalFlush, IInv, Card
<1>5. pc' \in States
  BY <1>1 DEF States
<1>6. Control'
  BY <1>2, <1>5, Counters DEF FinalFlush, Control
<1>7. FInv'
  BY <1>1, <1>2 DEF FinalFlush, FInv
<1> QED BY <1>3, <1>4, <1>6, <1>7 DEF IInv

LEMMA StutterKeeps == ASSUME IInv, UNCHANGED vars PROVE IInv'
<1>1. Types'
  BY DEF vars, IInv, Types
<1>2. Card'
  BY DEF vars, IInv, Card
<1>3. Control'
  BY DEF vars, IInv, Control
<1>4. FInv'
  BY DEF vars, IInv, FInv, Kept, Buffered
<1> QED BY <1>1, <1>2, <1>3, <1>4 DEF IInv

LEMMA NextIInv == IInv /\ [Next]_vars => IInv'
  BY ReadHeaderKeeps, CheckHeaderKeeps, ReadTagKeeps, ReadLengthLowKeeps, ReadLengthHighKeeps,
     ReadBodyKeeps, EndBodyKeeps, FinalFlushKeeps, StutterKeeps DEF Next, Step, Ended

LEMMA Inductive == Spec => []IInv
  BY InitIInv, NextIInv, PTL DEF Spec

(* The index stays in the buffer, counts in 16 bits and the parser in its  *)
(* states, whatever the card answers.                                      *)
THEOREM DumpTypeCorrect == Spec => []TypeOK
<1>1. IInv => TypeOK
  BY DEF IInv, Types, Card, Control, States, TypeOK
<1> QED BY <1>1, Inductive, PTL

(* The file is what the card delivered, in order, however long the buffer, *)
(* the header and the resources are and wherever time-outs come, unless a  *)
(* write fails (read_resource_data, dump_resource_data).                   *)
THEOREM FileFaithful == Spec => []FileIsWhatWasRead
<1>1. IInv => FileIsWhatWasRead
  BY DEF IInv, FInv, Kept, FileIsWhatWasRead
<1> QED BY <1>1, Inductive, PTL

-----------------------------------------------------------------------------
(* What Extent computes.  A recursive definition says nothing before there *)
(* is a function that satisfies it; here it is made from the sets of tags  *)
(* that are on the way to the end.                                         *)
Places == Nat \ {0}

OnTheWay(T, s, n) ==
  \A t \in T :
    /\ t <= Len(s) /\ s[t] \notin {0, 255}
    /\ IF IsEnd(s, t) THEN n = (t - 1) + Item(s, t) ELSE t + Item(s, t) \in T

EndsAt(i, s, n) == \E T \in SUBSET Places : i \in T /\ OnTheWay(T, s, n)

EndOf(i, s) == IF \E n \in Nat : EndsAt(i, s, n) THEN CHOOSE n \in Nat : EndsAt(i, s, n) ELSE 0

LEMMA AnsweredBytes ==
  ASSUME NEW s \in Answered
  PROVE  s \in Seq(Byte)
<1>1. s \in Seq(Byte \cup {TimedOut}) /\ \A i \in 1 .. Len(s) : s[i] # TimedOut
  BY IsaPnpDumpAssumption DEF Answered
<1>2. s \in [1 .. Len(s) -> Byte] /\ Len(s) \in Nat
  BY <1>1
<1> QED BY <1>2

LEMMA ItemGoesOn ==
  ASSUME NEW s \in Answered, NEW i \in Places, i <= Len(s)
  PROVE  Item(s, i) \in Places
<1>1. s \in Seq(Byte)
  BY AnsweredBytes
<1>2. Len(s) \in Nat /\ \A k \in 1 .. Len(s) : s[k] \in Int /\ 0 <= s[k] /\ s[k] <= 255
  <2>1. Len(s) \in Nat /\ \A k \in 1 .. Len(s) : s[k] \in Byte
    BY <1>1
  <2>2. \A x \in Byte : x \in Int /\ 0 <= x /\ x <= 255
    BY DEF Byte
  <2> QED BY <2>1, <2>2
<1>3. i \in 1 .. Len(s)
  BY <1>2 DEF Places
<1>4. s[i] \in Int /\ 0 <= s[i] /\ s[i] <= 255
  BY <1>2, <1>3
<1>5. CASE s[i] = 120
  BY <1>5 DEF Item, Places
<1>6. CASE s[i] # 120 /\ s[i] < 128
  <2>1. s[i] % 8 \in 0 .. 7
    BY <1>4
  <2>2. Item(s, i) = 1 + (s[i] % 8)
    BY <1>4, <1>6 DEF Item
  <2> QED BY <2>1, <2>2 DEF Places
<1>7. CASE s[i] >= 128 /\ i + 2 <= Len(s)
  <2>1. i + 1 \in 1 .. Len(s) /\ i + 2 \in 1 .. Len(s)
    BY <1>2, <1>3, <1>7
  <2>2. Item(s, i) = 3 + s[i + 1] + 256 * s[i + 2]
    BY <1>4, <1>7 DEF Item
  <2>3. s[i + 1] \in Nat /\ s[i + 2] \in Nat
    BY <1>2, <2>1
  <2> QED BY <2>2, <2>3 DEF Places
<1>8. CASE s[i] >= 128 /\ ~(i + 2 <= Len(s))
  <2>1. Item(s, i) = Len(s)
    BY <1>4, <1>8 DEF Item
  <2> QED BY <2>1, <1>2, <1>3 DEF Places
<1> QED BY <1>4, <1>5, <1>6, <1>7, <1>8

(* A bounded set of numbers has a greatest one.                            *)
LEMMA Greatest ==
  ASSUME NEW T \in SUBSET Nat, T # {}, NEW m \in Nat, \A t \in T : t <= m
  PROVE  \E t \in T : \A u \in T : u <= t
<1> DEFINE S == {m - t : t \in T}
           R == OpToRel(<, Nat)
<1>1. S \in SUBSET Nat /\ S # {}
  <2>1. \A t \in T : t \in Nat /\ t <= m
    OBVIOUS
  <2>2. \A t \in T : m - t \in Nat
    BY <2>1
  <2>3. \E t \in T : m - t \in S
    OBVIOUS
  <2> QED BY <2>2, <2>3
<1>2. IsWellFoundedOn(R, Nat)
  BY NatLessThanWellFounded
<1>3. \A x, y \in Nat : <<x, y>> \in R <=> x < y
  BY DEF OpToRel
<1> HIDE DEF R, S
<1>4. PICK b \in S : \A c \in S : ~ (<<c, b>> \in R)
  BY <1>1, <1>2, WFMin
<1>5. PICK t \in T : b = m - t
  BY DEF S
<1>6. ASSUME NEW u \in T PROVE u <= t
  <2>1. m - u \in S
    BY DEF S
  <2>2. ~ (m - u < b)
    BY <2>1, <1>1, <1>3, <1>4
  <2> QED BY <2>2, <1>5
<1> QED BY <1>6

LEMMA OneEnd ==
  ASSUME NEW s \in Answered, NEW i \in Places, NEW m \in Nat, NEW n \in Nat,
         EndsAt(i, s, m), EndsAt(i, s, n)
  PROVE  m = n
<1>1. PICK T \in SUBSET Places : i \in T /\ OnTheWay(T, s, m)
  BY DEF EndsAt
<1>2. PICK U \in SUBSET Places : i \in U /\ OnTheWay(U, s, n)
  BY DEF EndsAt
<1>3. Len(s) \in Nat
  BY AnsweredBytes
<1>4. \A t \in T \cap U : t <= Len(s)
  BY <1>1 DEF OnTheWay
<1>5. T \cap U \in SUBSET Nat /\ T \cap U # {}
  BY <1>1, <1>2 DEF Places
<1>6. PICK t \in T \cap U : \A u \in T \cap U : u <= t
  BY <1>3, <1>4, <1>5, Greatest
<1>7. t \in Places /\ Item(s, t) \in Places
  BY <1>4, ItemGoesOn
<1>8. IsEnd(s, t)
  <2>1. SUFFICES ASSUME ~IsEnd(s, t) PROVE FALSE
    OBVIOUS
  <2>2. t + Item(s, t) \in T \cap U
    BY <2>1, <1>1, <1>2 DEF OnTheWay
  <2>3. t + Item(s, t) <= t
    BY <2>2, <1>6
  <2> QED BY <2>3, <1>7 DEF Places
<1> QED BY <1>1, <1>2, <1>8 DEF OnTheWay

LEMMA EndIsEnd ==
  ASSUME NEW s \in Answered, NEW i \in Places, NEW n \in Nat, EndsAt(i, s, n)
  PROVE  EndOf(i, s) = n
<1>1. EndOf(i, s) \in Nat /\ EndsAt(i, s, EndOf(i, s))
  BY DEF EndOf
<1> QED BY <1>1, OneEnd

LEMMA EndUnfolds ==
  ASSUME NEW s \in Answered, NEW i \in Places
  PROVE  EndOf(i, s) = IF i > Len(s) \/ s[i] \in {0, 255} THEN 0
                       ELSE IF IsEnd(s, i) THEN (i - 1) + Item(s, i)
                       ELSE EndOf(i + Item(s, i), s)
<1>0. Len(s) \in Nat /\ i \in Nat
  BY AnsweredBytes DEF Places
<1>1. CASE i > Len(s) \/ s[i] \in {0, 255}
  <2>1. ASSUME NEW n \in Nat, EndsAt(i, s, n) PROVE FALSE
    BY <2>1, <1>0, <1>1 DEF EndsAt, OnTheWay
  <2> QED BY <2>1, <1>1 DEF EndOf
<1>2. CASE i <= Len(s) /\ s[i] \notin {0, 255} /\ IsEnd(s, i)
  <2>1. Item(s, i) \in Places
    BY <1>2, ItemGoesOn
  <2>2. (i - 1) + Item(s, i) \in Nat
    BY <2>1 DEF Places
  <2>3. OnTheWay({i}, s, (i - 1) + Item(s, i)) /\ {i} \in SUBSET Places
    BY <1>2 DEF OnTheWay
  <2>4. EndsAt(i, s, (i - 1) + Item(s, i))
    BY <2>3 DEF EndsAt
  <2>5. EndOf(i, s) = (i - 1) + Item(s, i)
    BY <2>2, <2>4, EndIsEnd
  <2> QED BY <2>5, <1>0, <1>2
<1>3. CASE i <= Len(s) /\ s[i] \notin {0, 255} /\ ~IsEnd(s, i)
  <2> DEFINE k == i + Item(s, i)
  <2>1. k \in Places
    BY <1>3, ItemGoesOn DEF Places
  <2>2. ASSUME NEW n \in Nat, EndsAt(i, s, n) PROVE EndsAt(k, s, n)
    BY <2>2, <1>3 DEF EndsAt, OnTheWay
  <2>3. ASSUME NEW n \in Nat, EndsAt(k, s, n) PROVE EndsAt(i, s, n)
    <3>1. PICK T \in SUBSET Places : k \in T /\ OnTheWay(T, s, n)
      BY <2>3 DEF EndsAt
    <3>2. OnTheWay(T \cup {i}, s, n)
      BY <3>1, <1>3 DEF OnTheWay
    <3>3. T \cup {i} \in SUBSET Places /\ i \in T \cup {i}
      OBVIOUS
    <3> QED BY <3>2, <3>3 DEF EndsAt
  <2>4. EndOf(i, s) = EndOf(k, s)
    <3>1. CASE \E n \in Nat : EndsAt(i, s, n)
      <4>1. PICK n \in Nat : EndsAt(i, s, n)
        BY <3>1
      <4>2. EndsAt(k, s, n)
        BY <4>1, <2>2
      <4>3. EndOf(i, s) = n /\ EndOf(k, s) = n
        BY <4>1, <4>2, <2>1, EndIsEnd
      <4> QED BY <4>3
    <3>2. CASE ~ \E n \in Nat : EndsAt(i, s, n)
      <4>1. ~ \E n \in Nat : EndsAt(k, s, n)
        BY <3>2, <2>3
      <4> QED BY <3>2, <4>1 DEF EndOf
    <3> QED BY <3>1, <3>2
  <2> QED BY <2>4, <1>0, <1>3
<1> QED BY <1>0, <1>1, <1>2, <1>3

LEMMA ExtentUnfolds ==
  ASSUME NEW s \in Answered, NEW i \in Places
  PROVE  Extent(s)[i] = IF i > Len(s) \/ s[i] \in {0, 255} THEN 0
                        ELSE IF IsEnd(s, i) THEN (i - 1) + Item(s, i)
                        ELSE Extent(s)[i + Item(s, i)]
<1> DEFINE F == [k \in Places |-> EndOf(k, s)]
           Body(f) == [k \in Nat \ {0} |->
                         IF k > Len(s) \/ s[k] \in {0, 255} THEN 0
                         ELSE IF IsEnd(s, k) THEN (k - 1) + Item(s, k)
                         ELSE f[k + Item(s, k)]]
<1>1. F = Body(F)
  <2>1. ASSUME NEW k \in Places PROVE F[k] = Body(F)[k]
    <3>1. Len(s) \in Nat /\ k \in Nat \ {0} /\ F[k] = EndOf(k, s)
      BY AnsweredBytes DEF Places
    <3>2. CASE k > Len(s) \/ s[k] \in {0, 255} \/ IsEnd(s, k)
      <4>1. EndOf(k, s) = IF k > Len(s) \/ s[k] \in {0, 255} THEN 0 ELSE (k - 1) + Item(s, k)
        BY <3>2, EndUnfolds
      <4> HIDE DEF F
      <4> QED BY <3>1, <3>2, <4>1
    <3>3. CASE k <= Len(s) /\ s[k] \notin {0, 255} /\ ~IsEnd(s, k)
      <4>1. k + Item(s, k) \in Places
        BY <3>3, ItemGoesOn DEF Places
      <4>2. F[k + Item(s, k)] = EndOf(k + Item(s, k), s)
        BY <4>1
      <4>3. ~(k > Len(s))
        BY <3>1, <3>3
      <4>4. EndOf(k, s) = EndOf(k + Item(s, k), s)
        BY <3>3, <4>3, EndUnfolds
      <4> HIDE DEF F
      <4>5. Body(F)[k] = F[k + Item(s, k)]
        BY <3>1, <3>3, <4>3
      <4> QED BY <3>1, <4>2, <4>4, <4>5
    <3> QED BY <3>1, <3>2, <3>3
  <2>2. DOMAIN F = Places /\ DOMAIN Body(F) = Places
    BY DEF Places
  <2>3. F = [k \in Places |-> F[k]] /\ Body(F) = [k \in Places |-> Body(F)[k]]
    BY DEF Places
  <2> HIDE DEF F, Body
  <2> QED BY <2>1, <2>3
<1>2. Extent(s) = CHOOSE f : f = Body(f)
  BY DEF Extent
<1>3. Extent(s) = Body(Extent(s))
  <2> HIDE DEF F, Body
  <2> QED BY <1>1, <1>2
<1>4. Extent(s) = [k \in Places |->
                         IF k > Len(s) \/ s[k] \in {0, 255} THEN 0
                         ELSE IF IsEnd(s, k) THEN (k - 1) + Item(s, k)
                         ELSE Extent(s)[k + Item(s, k)]]
  BY <1>3 DEF Places
<1> HIDE DEF F, Body
<1> DEFINE X == Extent(s)
<1>5. X = [k \in Places |->
                         IF k > Len(s) \/ s[k] \in {0, 255} THEN 0
                         ELSE IF IsEnd(s, k) THEN (k - 1) + Item(s, k)
                         ELSE X[k + Item(s, k)]]
  BY <1>4
<1>6. X[i] = IF i > Len(s) \/ s[i] \in {0, 255} THEN 0
             ELSE IF IsEnd(s, i) THEN (i - 1) + Item(s, i)
             ELSE X[i + Item(s, i)]
  <2> HIDE DEF X
  <2> QED BY <1>5
<1> QED BY <1>6
-----------------------------------------------------------------------------
(* Where the parser is in the resource data of a card that answers.        *)
Progressed ==
  /\ Len(delivered) = pos - 1
  /\ \A k \in 1 .. pos - 1 : delivered[k] = stream[k]

End == Extent(stream)[Header + 1]
Leads(i) == i \in Places /\ Extent(stream)[i] = End

LargeAt(t) ==
  /\ t \in Places /\ t + 2 <= Len(stream)
  /\ Leads(t + 3 + stream[t + 1] + 256 * stream[t + 2])

Parses ==
  /\ pc = "header" => /\ pos = j + 1 /\ bufPos = j
                      /\ \A k \in 0 .. j - 1 : buf[k] = stream[k + 1]
  /\ pc = "tag" => Leads(pos)
  /\ pc = "low" => LargeAt(pos - 1)
  /\ pc = "high" => LargeAt(pos - 2) /\ lengthLow = stream[pos - 1]
  /\ pc \in {"ansi", "device", "skip"} => Leads(pos + data)
  /\ pc = "end" => pos - 1 + data = End
  /\ pc \in {"flush", "done"} => pos - 1 = End

RInv == /\ stream \in Answered => Progressed
        /\ Complete(stream) /\ ~failed => Parses

(* A read of a card that answers, as long as it has answers.               *)
LEMMA ReadAnswers ==
  ASSUME IInv, stream \in Answered, pos <= Len(stream), NEW b \in Byte, NEW ok \in BOOLEAN, Read(b, ok)
  PROVE  /\ b = stream[pos] /\ pos' = pos + 1 /\ stream' = stream
         /\ delivered' = Append(delivered, b)
         /\ ~failed' => ok
         /\ bufPos' = (bufPos + 1) % BufSize /\ buf' = [buf EXCEPT ![bufPos] = b]
<1>1. stream \in Seq(Byte) /\ pos \in 1 .. Len(stream) + 1
  BY AnsweredBytes DEF IInv, Card
<1>2. pos \in 1 .. Len(stream) /\ Answer = stream[pos]
  BY <1>1 DEF Answer
<1>3. Answer # TimedOut
  BY <1>2 DEF Answered
<1>4. ReadBuffers(b, ok)
  BY <1>3 DEF Read, ReadTimesOut
<1>5. ~failed' => ok
  BY <1>4 DEF ReadBuffers
<1> QED BY <1>2, <1>4, <1>5 DEF Read, ReadBuffers

LEMMA ReadProgresses ==
  ASSUME IInv, stream \in Answered, Progressed, NEW b \in Byte, NEW ok \in BOOLEAN, Read(b, ok)
  PROVE  Progressed'
<1>1. stream \in Seq(Byte) /\ pos \in 1 .. Len(stream) + 1 /\ delivered \in Seq(Byte)
  BY AnsweredBytes DEF IInv, Card, Types
<1>2. Len(stream) \in Nat /\ Len(delivered) \in Nat
  BY <1>1
<1>3. CASE pos <= Len(stream)
  <2>1. b = stream[pos] /\ pos' = pos + 1 /\ stream' = stream /\ delivered' = Append(delivered, b)
    BY <1>3, ReadAnswers
  <2> DEFINE t == Append(delivered, b)
  <2>2. /\ Len(t) = Len(delivered) + 1 /\ t[Len(delivered) + 1] = b
        /\ \A k \in 1 .. Len(delivered) : t[k] = delivered[k]
    BY <1>1
  <2> HIDE DEF t
  <2>3. Len(t) = pos /\ t[pos] = b /\ \A k \in 1 .. pos - 1 : t[k] = stream[k]
    BY <1>1, <1>2, <2>2 DEF Progressed
  <2>4. \A k \in 1 .. pos : t[k] = stream[k]
    BY <1>1, <1>2, <2>1, <2>3
  <2>5. delivered' = t /\ pos' - 1 = pos
    BY <1>1, <1>2, <2>1 DEF t
  <2> QED BY <2>1, <2>3, <2>4, <2>5 DEF Progressed
<1>4. CASE ~(pos <= Len(stream))
  <2>1. pos' = pos /\ stream' = stream
    BY <1>4 DEF Read
  <2>2. delivered' = delivered
    BY <1>4 DEF Read, ReadTimesOut, ReadBuffers, Answer
  <2> QED BY <2>1, <2>2 DEF Progressed
<1> QED BY <1>3, <1>4

LEMMA FailuresStay == IInv /\ Next /\ ~failed' => ~failed
<1> SUFFICES ASSUME IInv, Next, ~failed' PROVE ~failed
  OBVIOUS
<1>1. failed \in BOOLEAN
  BY DEF IInv, Control
<1>2. ASSUME Flush PROVE ~failed
  BY <1>1, <1>2 DEF Flush
<1>3. ASSUME NEW b \in Byte, NEW ok \in BOOLEAN, Read(b, ok) PROVE ~failed
  BY <1>1, <1>3 DEF Read, ReadTimesOut, ReadBuffers
<1>4. ASSUME ReadTag PROVE ~failed
  BY <1>3, <1>4 DEF ReadTag
<1> QED BY <1>1, <1>2, <1>3, <1>4 DEF Next, Step, Ended, vars, ReadHeader, CheckHeader,
      ReadLengthLow, ReadLengthHigh, ReadBody, EndBody, FinalFlush

LEMMA Progresses ==
  ASSUME IInv, stream \in Answered, Progressed, [Next]_vars
  PROVE  Progressed'
<1>1. ASSUME NEW b \in Byte, NEW ok \in BOOLEAN, Read(b, ok) PROVE Progressed'
  BY <1>1, ReadProgresses
<1>2. ASSUME UNCHANGED <<stream, pos, delivered>> PROVE Progressed'
  BY <1>2 DEF Progressed
<1>3. ASSUME ReadTag PROVE Progressed'
  BY <1>1, <1>3 DEF ReadTag
<1> QED BY <1>1, <1>2, <1>3 DEF Next, Step, Ended, vars, ReadHeader, CheckHeader,
      ReadLengthLow, ReadLengthHigh, ReadBody, EndBody, FinalFlush

-----------------------------------------------------------------------------
(* What is known of the card in a state whose answers are complete.        *)
LEMMA CompleteFacts ==
  ASSUME IInv, Complete(stream)
  PROVE  /\ stream \in Answered /\ stream \in Seq(Byte) /\ Len(stream) \in Nat
         /\ \A k \in 1 .. Len(stream) : stream[k] \in Nat /\ stream[k] <= 255
         /\ pos \in Places /\ j \in 0 .. Header /\ data \in Nat /\ lengthLow \in Nat
         /\ Header \in Places /\ Header < Len(stream)
         /\ End \in 1 .. Len(stream)
<1>1. stream \in Answered /\ stream \in Seq(Byte)
  BY AnsweredBytes DEF Complete
<1>2. Len(stream) \in Nat /\ \A k \in 1 .. Len(stream) : stream[k] \in Byte
  BY <1>1
<1>3. \A x \in Byte : x \in Nat /\ x <= 255
  BY DEF Byte
<1>4. \A k \in 1 .. Len(stream) : stream[k] \in Nat /\ stream[k] <= 255
  BY <1>2, <1>3
<1>5. pos \in 1 .. Len(stream) + 1 /\ j \in 0 .. Header /\ data \in Word /\ lengthLow \in Byte
  BY DEF IInv, Card, Control
<1>6. data \in Nat /\ lengthLow \in Nat /\ pos \in Places
  BY <1>2, <1>3, <1>5, WordRange DEF Places
<1>7. Header \in Places /\ Header < Len(stream) /\ End \in 1 .. Len(stream)
  BY IsaPnpDumpAssumption DEF Complete, End, Places
<1> QED BY <1>1, <1>2, <1>4, <1>5, <1>6, <1>7

(* Whatever leads to the end is a tag.                                     *)
LEMMA LeadsToTag ==
  ASSUME IInv, Complete(stream), NEW t, Leads(t)
  PROVE  /\ t \in 1 .. Len(stream) /\ stream[t] \notin {0, 255}
         /\ IsEnd(stream, t) => End = (t - 1) + Item(stream, t)
         /\ ~IsEnd(stream, t) => Leads(t + Item(stream, t))
<1>1. t \in Places /\ Extent(stream)[t] = End
  BY DEF Leads
<1>2. Len(stream) \in Nat /\ End \in 1 .. Len(stream) /\ stream \in Answered
  BY CompleteFacts
<1>3. End = IF t > Len(stream) \/ stream[t] \in {0, 255} THEN 0
            ELSE IF IsEnd(stream, t) THEN (t - 1) + Item(stream, t)
            ELSE Extent(stream)[t + Item(stream, t)]
  BY <1>1, <1>2, ExtentUnfolds
<1>4. End # 0
  BY <1>2
<1>5. ~(t > Len(stream)) /\ stream[t] \notin {0, 255}
  BY <1>3, <1>4
<1>6. t \in 1 .. Len(stream)
  BY <1>1, <1>2, <1>5 DEF Places
<1>7. ASSUME ~IsEnd(stream, t) PROVE Leads(t + Item(stream, t))
  <2>1. Extent(stream)[t + Item(stream, t)] = End
    BY <1>3, <1>5, <1>7
  <2>2. Item(stream, t) \in Places
    BY <1>1, <1>2, <1>6, ItemGoesOn
  <2>3. t + Item(stream, t) \in Places
    BY <1>1, <2>2 DEF Places
  <2> QED BY <2>1, <2>3 DEF Leads
<1> QED BY <1>3, <1>5, <1>6, <1>7

LEMMA SameLeads ==
  ASSUME stream' = stream
  PROVE  End' = End /\ \A i : Leads(i)' <=> Leads(i)
<1>1. Extent(stream)' = Extent(stream')
  OBVIOUS
<1>2. Extent(stream') = Extent(stream)
  OBVIOUS
<1>3. End' = End
  BY <1>1, <1>2 DEF End
<1> QED BY <1>1, <1>2, <1>3 DEF Leads
(* The header lies at the buffer's start, and is not blank.                *)
LEMMA HeaderParses ==
  ASSUME IInv, Complete(stream), Parses, ReadHeader, ~failed'
  PROVE  Parses'
<1>1. PICK b \in Byte, ok \in BOOLEAN : Read(b, ok)
  BY DEF ReadHeader
<1>2. pc = "header" /\ pc' = "header" /\ j < Header /\ j' = j + 1
  BY DEF ReadHeader
<1>3. pos = j + 1 /\ bufPos = j /\ \A k \in 0 .. j - 1 : buf[k] = stream[k + 1]
  BY <1>2 DEF Parses
<1>4. j \in Nat /\ Header \in Nat /\ j + 1 < BufSize /\ BufSize \in Nat \ {0} /\ pos <= Len(stream)
  BY <1>2, <1>3, CompleteFacts, IsaPnpDumpAssumption
<1>5. /\ b = stream[pos] /\ pos' = pos + 1 /\ stream' = stream
      /\ bufPos' = (bufPos + 1) % BufSize /\ buf' = [buf EXCEPT ![bufPos] = b]
  BY <1>1, <1>4, CompleteFacts, ReadAnswers
<1>6. bufPos' = j + 1
  BY <1>3, <1>4, <1>5
<1>7. buf \in [0 .. BufSize - 1 -> Byte]
  BY DEF IInv, Types
<1>8. ASSUME NEW k \in 0 .. j PROVE buf'[k] = stream'[k + 1]
  BY <1>3, <1>4, <1>5, <1>7
<1>9. pos' = j' + 1 /\ bufPos' = j' /\ \A k \in 0 .. j' - 1 : buf'[k] = stream'[k + 1]
  <2>1. j' - 1 = j
    BY <1>2, <1>4
  <2> QED BY <2>1, <1>2, <1>3, <1>5, <1>6, <1>8
<1> QED BY <1>2, <1>9 DEF Parses

LEMMA CheckParses ==
  ASSUME IInv, Complete(stream), Parses, CheckHeader
  PROVE  Parses'
<1>1. pc = "header" /\ j = Header
  BY DEF CheckHeader
<1>2. pos = Header + 1 /\ \A k \in 0 .. Header - 1 : buf[k] = stream[k + 1]
  BY <1>1 DEF Parses
<1>3. PICK i \in 1 .. Header : stream[i] # stream[1] \/ stream[i] \notin {0, 255}
  BY DEF Complete
<1>4. Header \in Nat \ {0}
  BY IsaPnpDumpAssumption
<1>5. ASSUME NEW v \in {0, 255}, AllSame(v) PROVE FALSE
  <2>1. i - 1 \in 0 .. Header - 1 /\ 0 \in 0 .. Header - 1
    BY <1>4
  <2>2. buf[i - 1] = v /\ buf[0] = v
    BY <1>5, <2>1 DEF AllSame
  <2>3. buf[i - 1] = stream[(i - 1) + 1] /\ buf[0] = stream[0 + 1]
    BY <1>2, <2>1
  <2>4. (i - 1) + 1 = i /\ 0 + 1 = 1
    OBVIOUS
  <2> QED BY <1>3, <2>2, <2>3, <2>4
<1>6. pc' = "tag" /\ stream' = stream /\ pos' = Header + 1
  BY <1>2, <1>5 DEF CheckHeader
<1>7. Leads(Header + 1)
  BY <1>4 DEF Leads, End, Places
<1>8. Leads(pos)'
  BY <1>6, <1>7, SameLeads DEF Leads
<1> QED BY <1>6, <1>8 DEF Parses

(* The parser's arithmetic on a tag is the item's.                         *)
LEMMA SmallItems ==
  ASSUME IInv, Complete(stream), NEW t \in Places, Leads(t), stream[t] < 128
  PROVE  /\ AfterSmall(stream[t])[1] = "end" => End = t + AfterSmall(stream[t])[2]
         /\ AfterSmall(stream[t])[1] # "end" => Leads(t + 1 + AfterSmall(stream[t])[2])
         /\ AfterSmall(stream[t])[1] \in {"end", "device", "skip"}
<1> DEFINE b == stream[t]
           n == b % 8
<1>1. /\ t \in 1 .. Len(stream)
      /\ IsEnd(stream, t) => End = (t - 1) + Item(stream, t)
      /\ ~IsEnd(stream, t) => Leads(t + Item(stream, t))
  BY LeadsToTag
<1>2. b \in Nat /\ b < 128
  BY <1>1, CompleteFacts
<1>3. n \in 0 .. 7
  BY <1>2
<1>4. t \in Nat
  BY DEF Places
<1>5. (SmallType(b) = 15) <=> b \in 120 .. 127
  <2> HIDE DEF b
  <2>1. b \div 8 \in 0 .. 15
    BY <1>2
  <2>2. (b \div 8) % 16 = b \div 8
    BY <2>1
  <2>3. b \div 8 = 15 <=> b \in 120 .. 127
    BY <1>2
  <2> QED BY <2>2, <2>3 DEF SmallType
<1>6. (n = 0 /\ b \in 120 .. 127) <=> b = 120
  <2> HIDE DEF b
  <2> QED BY <1>2
<1>7. CASE b \in 120 .. 127
  <2>1. AfterSmall(b) = <<"end", IF n = 0 THEN 1 ELSE n>>
    BY <1>5, <1>7 DEF AfterSmall
  <2>2. End = (t - 1) + Item(stream, t)
    BY <1>1, <1>7 DEF IsEnd
  <2>3. Item(stream, t) = IF n = 0 THEN 2 ELSE 1 + n
    <3>1. CASE b = 120
      BY <3>1, <1>6 DEF Item
    <3>2. CASE b # 120
      BY <3>2, <1>2, <1>6, <1>7 DEF Item
    <3> QED BY <3>1, <3>2
  <2>4. AfterSmall(b)[1] = "end" /\ AfterSmall(b)[2] = IF n = 0 THEN 1 ELSE n
    BY <2>1
  <2>5. End = t + IF n = 0 THEN 1 ELSE n
    <3> HIDE DEF n
    <3> QED BY <1>3, <1>4, <2>2, <2>3
  <2> QED BY <2>4, <2>5
<1>8. CASE b \notin 120 .. 127
  <2>1. AfterSmall(b)[1] \in {"device", "skip"} /\ AfterSmall(b)[2] = n
    <3>1. SmallType(b) # 15
      BY <1>5, <1>8
    <3>2. CASE SmallType(b) = 2 /\ n >= 4
      BY <3>1, <3>2 DEF AfterSmall
    <3>3. CASE ~(SmallType(b) = 2 /\ n >= 4)
      BY <3>1, <3>3 DEF AfterSmall
    <3> QED BY <3>2, <3>3
  <2>2. Item(stream, t) = 1 + n
    BY <1>2, <1>8 DEF Item
  <2>3. Leads(t + Item(stream, t))
    BY <1>1, <1>8 DEF IsEnd
  <2>4. t + Item(stream, t) = t + 1 + n
    <3> HIDE DEF n
    <3> QED BY <1>3, <1>4, <2>2
  <2> QED BY <2>1, <2>3, <2>4
<1> QED BY <1>7, <1>8

LEMMA TagParses ==
  ASSUME IInv, Complete(stream), Parses, ReadTag, ~failed'
  PROVE  Parses'
<1>1. PICK b \in Byte, ok \in BOOLEAN :
        /\ Read(b, ok)
        /\ LET large == <<"low", b % 128>>
               next == IF ~ok \/ b \in {0, 255} THEN <<"flush", data>>
                       ELSE IF b >= 128 THEN large ELSE AfterSmall(b)
           IN pc' = next[1] /\ data' = next[2]
  BY DEF ReadTag
<1>2. Leads(pos) /\ pos \in Places
  BY CompleteFacts DEF Parses, ReadTag
<1>3. /\ pos \in 1 .. Len(stream) /\ stream[pos] \notin {0, 255}
      /\ IsEnd(stream, pos) => End = (pos - 1) + Item(stream, pos)
      /\ ~IsEnd(stream, pos) => Leads(pos + Item(stream, pos))
  BY <1>2, LeadsToTag
<1>4. Read(b, ok) /\ pos <= Len(stream) /\ stream \in Answered
  BY <1>1, <1>3, CompleteFacts
<1>5. b = stream[pos] /\ pos' = pos + 1 /\ stream' = stream /\ ok
  BY <1>4, ReadAnswers
<1>6. /\ b \in Nat /\ b < 255 /\ pos \in Nat
      /\ Len(stream) \in Nat
      /\ \A k \in 1 .. Len(stream) : stream[k] \in Nat
  BY <1>2, <1>3, <1>5, CompleteFacts DEF Places
<1>7. CASE b >= 128
  <2>1. pc' = "low"
    BY <1>1, <1>3, <1>5, <1>7
  <2>2. ~IsEnd(stream, pos)
    BY <1>5, <1>6, <1>7 DEF IsEnd
  <2>3. pos + 2 <= Len(stream)
    <3>1. SUFFICES ASSUME ~(pos + 2 <= Len(stream)) PROVE FALSE
      OBVIOUS
    <3>2. Item(stream, pos) = Len(stream)
      BY <3>1, <1>5, <1>6, <1>7 DEF Item
    <3>3. Leads(pos + Len(stream))
      BY <1>3, <2>2, <3>2
    <3>4. pos + Len(stream) \in 1 .. Len(stream)
      BY <3>3, LeadsToTag
    <3> QED BY <3>4, <1>3, <1>6
  <2>4. Item(stream, pos) = 3 + stream[pos + 1] + 256 * stream[pos + 2]
    BY <2>3, <1>5, <1>6, <1>7 DEF Item
  <2>5. stream[pos + 1] \in Nat /\ stream[pos + 2] \in Nat
    BY <2>3, <1>3, <1>6
  <2>6. pos + Item(stream, pos) = pos + 3 + stream[pos + 1] + 256 * stream[pos + 2]
    <3> DEFINE low == stream[pos + 1]
               high == stream[pos + 2]
    <3> HIDE DEF low, high
    <3>1. low \in Nat /\ high \in Nat /\ Item(stream, pos) = 3 + low + 256 * high
      BY <2>4, <2>5 DEF low, high
    <3>2. pos + (3 + low + 256 * high) = pos + 3 + low + 256 * high
      BY <3>1, <1>6
    <3> QED BY <3>1, <3>2 DEF low, high
  <2>7. LargeAt(pos)
    BY <1>2, <1>3, <2>2, <2>3, <2>6 DEF LargeAt
  <2>8. LargeAt(pos - 1)'
    <3>1. pos' - 1 = pos
      BY <1>5, <1>6
    <3>2. LargeAt(pos - 1)' <=> LargeAt(pos' - 1)
      BY <1>5, SameLeads DEF LargeAt, Leads
    <3> QED BY <2>7, <3>1, <3>2
  <2> QED BY <2>1, <2>8 DEF Parses
<1>8. CASE b < 128
  <2>1. pc' = AfterSmall(b)[1] /\ data' = AfterSmall(b)[2]
    BY <1>1, <1>3, <1>5, <1>6, <1>8
  <2>2. /\ pc' = "end" => End = pos + data'
        /\ pc' # "end" => Leads(pos + 1 + data')
        /\ pc' \in {"end", "device", "skip"}
    BY <2>1, <1>2, <1>5, <1>8, SmallItems
  <2>3. pc' = "end" => (pos - 1 + data = End)'
    BY <2>2, <1>5, <1>6, SameLeads
  <2>4. pc' # "end" => Leads(pos + data)'
    BY <2>2, <1>5, SameLeads DEF Leads
  <2> QED BY <2>2, <2>3, <2>4 DEF Parses
<1> QED BY <1>6, <1>7, <1>8

LEMMA LowParses ==
  ASSUME IInv, Complete(stream), Parses, ReadLengthLow, ~failed'
  PROVE  Parses'
<1>1. PICK b \in Byte, ok \in BOOLEAN : Read(b, ok) /\ lengthLow' = b
  BY DEF ReadLengthLow
<1>2. pc' = "high" /\ LargeAt(pos - 1)
  BY DEF ReadLengthLow, Parses
<1>3. pos - 1 + 2 <= Len(stream) /\ pos \in Nat /\ Len(stream) \in Nat /\ stream \in Answered
  BY <1>2, CompleteFacts DEF LargeAt, Places
<1>4. b = stream[pos] /\ pos' = pos + 1 /\ stream' = stream
  BY <1>1, <1>3, ReadAnswers
<1>5. pos' - 2 = pos - 1 /\ pos' - 1 = pos
  BY <1>3, <1>4
<1>6. LargeAt(pos - 2)'
  <2>1. LargeAt(pos - 2)' <=> LargeAt(pos' - 2)
    BY <1>4, SameLeads DEF LargeAt, Leads
  <2> QED BY <2>1, <1>2, <1>5
<1>7. (lengthLow = stream[pos - 1])'
  BY <1>1, <1>4, <1>5
<1> QED BY <1>2, <1>6, <1>7 DEF Parses

LEMMA HighParses ==
  ASSUME IInv, Complete(stream), Parses, ReadLengthHigh, ~failed'
  PROVE  Parses'
<1>1. PICK b \in Byte, ok \in BOOLEAN : Read(b, ok) /\ data' = lengthLow + 256 * b
  BY DEF ReadLengthHigh
<1>2. pc' \in {"ansi", "skip"} /\ LargeAt(pos - 2) /\ lengthLow = stream[pos - 1]
  BY DEF ReadLengthHigh, Parses
<1>3. /\ pos - 2 \in Places /\ pos - 2 + 2 <= Len(stream)
      /\ pos \in Nat /\ Len(stream) \in Nat /\ stream \in Answered
  BY <1>2, CompleteFacts DEF LargeAt, Places
<1>4. b = stream[pos] /\ pos' = pos + 1 /\ stream' = stream
  BY <1>1, <1>3, ReadAnswers
<1>5. Leads(pos - 2 + 3 + stream[pos - 2 + 1] + 256 * stream[pos - 2 + 2])
  BY <1>2 DEF LargeAt
<1>6. pos - 2 + 1 = pos - 1 /\ pos - 2 + 2 = pos /\ pos - 2 + 3 = pos'
  BY <1>3, <1>4
<1>7. stream[pos] \in Nat /\ stream[pos - 1] \in Nat
  BY <1>3, CompleteFacts DEF Places
<1>8. pos' + stream[pos - 1] + 256 * stream[pos] = pos' + data'
  BY <1>1, <1>2, <1>3, <1>4, <1>7
<1>9. Leads(pos' + data')
  BY <1>5, <1>6, <1>8
<1>10. Leads(pos + data)'
  BY <1>4, <1>9, SameLeads DEF Leads
<1> QED BY <1>2, <1>10 DEF Parses

LEMMA BodyParses ==
  ASSUME IInv, Complete(stream), Parses, ReadBody, ~failed'
  PROVE  Parses'
<1>1. PICK b \in Byte, ok \in BOOLEAN : Read(b, ok)
  BY DEF ReadBody
<1>2. /\ pc \in {"ansi", "device", "end", "skip"} /\ pc' = pc /\ data > 0
      /\ data' = IF pos > Len(stream) THEN 0 ELSE data - 1
  BY DEF ReadBody
<1>3. pos \in Nat \ {0} /\ data \in Nat /\ Len(stream) \in Nat /\ End \in 1 .. Len(stream) /\ stream \in Answered
  BY CompleteFacts DEF Places
<1>4. pos <= Len(stream)
  <2>1. CASE pc = "end"
    BY <2>1, <1>2, <1>3 DEF Parses
  <2>2. CASE pc \in {"ansi", "device", "skip"}
    <3>1. Leads(pos + data)
      BY <2>2 DEF Parses
    <3>2. pos + data \in 1 .. Len(stream)
      BY <3>1, LeadsToTag
    <3> QED BY <3>2, <1>2, <1>3
  <2> QED BY <1>2, <2>1, <2>2
<1>5. pos' = pos + 1 /\ stream' = stream /\ data' = data - 1
  BY <1>1, <1>2, <1>3, <1>4, ReadAnswers
<1>6. pos' + data' = pos + data /\ pos' - 1 + data' = pos - 1 + data
  BY <1>3, <1>5
<1>7. pc' = "end" => (pos - 1 + data = End)'
  BY <1>2, <1>5, <1>6, SameLeads DEF Parses
<1>8. pc' \in {"ansi", "device", "skip"} => Leads(pos + data)'
  BY <1>2, <1>5, <1>6, SameLeads DEF Parses, Leads
<1> QED BY <1>2, <1>7, <1>8 DEF Parses

LEMMA EndBodyParses ==
  ASSUME IInv, Complete(stream), Parses, EndBody
  PROVE  Parses'
<1>1. /\ pc \in {"ansi", "device", "end", "skip"} /\ data = 0 /\ stream' = stream /\ pos' = pos
      /\ pc' = IF pc = "end" THEN "flush" ELSE "tag"
  BY DEF EndBody
<1>2. pos \in Nat
  BY CompleteFacts DEF Places
<1>3. pos - 1 + data = pos - 1 /\ pos + data = pos
  BY <1>1, <1>2
<1>4. pc = "end" => (pos - 1 = End)'
  BY <1>1, <1>3, SameLeads DEF Parses
<1>5. pc # "end" => Leads(pos)'
  BY <1>1, <1>3, SameLeads DEF Parses, Leads
<1> QED BY <1>1, <1>4, <1>5 DEF Parses

LEMMA NextRInv ==
  ASSUME IInv, RInv, [Next]_vars
  PROVE  RInv'
<1>1. stream' = stream
  BY DEF Next, Step, Ended, vars, ReadHeader, CheckHeader, ReadTag, ReadLengthLow, ReadLengthHigh,
         ReadBody, EndBody, FinalFlush, Read
<1>2. stream' \in Answered => Progressed'
  BY <1>1, Progresses DEF RInv
<1>3. ASSUME Complete(stream), ~failed' PROVE Parses'
  <2>1. CASE UNCHANGED vars
    <3>1. Complete(stream) /\ ~failed
      BY <1>3, <2>1 DEF vars
    <3>2. Parses
      BY <3>1 DEF RInv
    <3> QED BY <3>2, <2>1, SameLeads DEF vars, Parses, LargeAt, Leads
  <2>2. CASE Next
    <3>1. ~failed /\ Parses
      BY <1>3, <2>2, FailuresStay DEF RInv
    <3>2. ASSUME FinalFlush PROVE Parses'
      BY <3>1, <3>2, <1>1, SameLeads DEF FinalFlush, Parses
    <3>3. ASSUME Ended PROVE Parses'
      BY <3>1, <3>3, SameLeads DEF Ended, vars, Parses, LargeAt, Leads
    <3> QED BY <1>3, <2>2, <3>1, <3>2, <3>3, HeaderParses, CheckParses, TagParses, LowParses,
               HighParses, BodyParses, EndBodyParses DEF Next, Step
  <2> QED BY <2>1, <2>2
<1>4. Complete(stream)' <=> Complete(stream)
  BY <1>1
<1> QED BY <1>2, <1>3, <1>4 DEF RInv

LEMMA InitRInv == Init => RInv
<1> SUFFICES ASSUME Init PROVE RInv
  OBVIOUS
<1>1. Progressed
  BY DEF Init, Progressed
<1>2. Parses
  BY DEF Init, Parses
<1> QED BY <1>1, <1>2 DEF RInv

(* On a card that answers, exactly the header and the items up to the end  *)
(* tag are read, whatever items there are (dump_resource_data).            *)
THEOREM ResourceRead == Spec => []ReadsWholeResource
<1>1. IInv /\ RInv => ReadsWholeResource
  <2> SUFFICES ASSUME IInv, RInv, pc = "done", ~failed, Complete(stream)
               PROVE  delivered = SubSeq(stream, 1, End)
    BY DEF ReadsWholeResource, End
  <2>1. Progressed /\ pos - 1 = End
    BY CompleteFacts DEF RInv, Parses
  <2>2. stream \in Seq(Byte) /\ delivered \in Seq(Byte) /\ End \in 1 .. Len(stream) /\ Len(stream) \in Nat
    BY CompleteFacts DEF IInv, Types
  <2> DEFINE t == SubSeq(stream, 1, End)
  <2>3. /\ t \in Seq(Byte) /\ Len(t) = End
        /\ \A k \in 1 .. End : t[k] = stream[k]
    BY <2>2
  <2>4. Len(delivered) = End /\ \A k \in 1 .. End : delivered[k] = stream[k]
    BY <2>1 DEF Progressed
  <2> HIDE DEF t
  <2>5. delivered = t
    BY <2>2, <2>3, <2>4, SeqEqual
  <2> QED BY <2>5 DEF t
<1>2. Spec => []RInv
  <2>1. Spec => [](IInv /\ RInv)
    BY InitIInv, NextIInv, InitRInv, NextRInv, PTL DEF Spec
  <2> QED BY <2>1, PTL
<1> QED BY <1>1, <1>2, Inductive, PTL
=============================================================================
