-------------------------------- MODULE Lh5 --------------------------------
(***************************************************************************)
(* LH5Decode of lh5_extract.c: a packed buffer is a sequence of blocks,    *)
(* each with the code lengths of three prefix codes and a number of tokens *)
(* in these codes: literals, and copies of what is already there.          *)
(* Every width and table size of the code is a constant here; the comment  *)
(* beside a constant has its value in the code.                            *)
(***************************************************************************)
EXTENDS Integers, Sequences, FiniteSets, TLC, FiniteSetsExt, SequencesExt

CONSTANTS
  ByteBits,       \* 8; bitbuf has twice as many bits
  LenBits,        \* 3: width of a short code length
  RunBits,        \* 4: width of a short run of zero lengths
  Literals,       \* 256
  MaxMatch,       \* 256
  Threshold,      \* 3
  DicBits,        \* 13
  PBit, TBit, CBit,          \* 4, 5, 9: widths of numbers of codes
  PtTableBits, CTableBits,   \* 8, 12
  Archives        \* packed buffers, and what is known of them

Width == 2 * ByteBits
Special == 3                               \* where T lengths skip zeros
NP == DicBits + 1
NT == Width + 3
NC == Literals + MaxMatch + 1 - Threshold  \* 255 + MAXMATCH + 2 - THRESHOLD
Nodes == 2 * NC - 1

(* What the arithmetic of the code takes for granted of these numbers: a   *)
(* table has room for its codes, and the trees of the small codes, which   *)
(* share left[] and right[] with the large one's, stay below it.           *)
ASSUME Lh5Assumption ==
  /\ {ByteBits, LenBits, RunBits, Literals, MaxMatch, Threshold, DicBits} \subseteq Nat \ {0}
  /\ 2 * NP <= NC /\ 2 * NT <= 2 * NC - 1
  /\ NT <= 2 ^ PtTableBits /\ NP <= 2 ^ PtTableBits /\ NC <= 2 ^ CTableBits
  /\ NP < 2 ^ PBit /\ NT < 2 ^ TBit /\ NC < 2 ^ CBit
  /\ PtTableBits <= Width /\ CTableBits <= Width

VARIABLES
  archive,     \* the packed buffer (bytes), the size of the output, and its blocks
  bits,        \* CompressedOffset, bitbuf, subbitbuf, bitcount
  blocksize,
  len,         \* c_len and pt_len
  tables,      \* c_table, pt_table, left, right
  reading,     \* n and i of read_pt_len and read_c_len
  out,         \* OutputBuffer
  pc

vars == <<archive, bits, blocksize, len, tables, reading, out, pc>>

-----------------------------------------------------------------------------
(* The bit buffer.                                                         *)

(* fillbuf's loop takes the rest of one byte into bitbuf and reads another *)
(* one; past the end of the buffer there are zeros.                        *)
Refilled(b) ==
  [off   |-> IF b.off < Len(archive.bytes) THEN b.off + 1 ELSE b.off,
   buf   |-> (b.buf * 2 ^ b.count + b.sub \div 2 ^ (ByteBits - b.count)) % 2 ^ Width,
   sub   |-> IF b.off < Len(archive.bytes) THEN archive.bytes[b.off + 1] ELSE 0,
   count |-> ByteBits]

(* Mutant: bits that leave bitbuf are not lost.                            *)
ShiftedWide(b, n) ==
  [off   |-> b.off,
   buf   |-> b.buf * 2 ^ n + b.sub \div 2 ^ (ByteBits - n),
   sub   |-> (b.sub * 2 ^ n) % 2 ^ ByteBits,
   count |-> b.count - n]

Shifted(b, n) ==
  [off   |-> b.off,
   buf   |-> (b.buf * 2 ^ n + b.sub \div 2 ^ (ByteBits - n)) % 2 ^ Width,
   sub   |-> (b.sub * 2 ^ n) % 2 ^ ByteBits,
   count |-> b.count - n]

RECURSIVE fillbuf(_, _)
fillbuf(b, n) ==
  IF n > b.count THEN fillbuf(Refilled(b), n - b.count) ELSE Shifted(b, n)

BitBufInit == [off |-> 0, buf |-> 0, sub |-> 0, count |-> 0]

peekbits(b, n) == b.buf \div 2 ^ (Width - n)
getbits(b, n) == peekbits(b, n)            \* followed by fillbuf(b, n)
BitAt(x, k) == k >= 0 /\ (x \div 2 ^ k) % 2 = 1

-----------------------------------------------------------------------------
(* make_table.  A symbol of length k is the next of the codes that long,   *)
(* which begin after all shorter ones; a code is its first Width bits.     *)

Count(bitlen, k) == Cardinality({j \in DOMAIN bitlen : bitlen[j] = k})

(* start[] after the loop; its last element is the total.                  *)
Starts(bitlen) ==
  LET start[k \in 1 .. Width + 1] ==
        IF k = 1 THEN 0
        ELSE (start[k - 1] + 2 ^ (Width - k + 1) * Count(bitlen, k - 1)) % 2 ^ Width
  IN  start

BadLengths(bitlen) ==
  \/ \E j \in DOMAIN bitlen : bitlen[j] > Width
  \/ Starts(bitlen)[Width + 1] # 0

(* start[k] when its turn comes to symbol j.                               *)
CodeOf(bitlen, j) ==
  Starts(bitlen)[bitlen[j]]
    + 2 ^ (Width - bitlen[j]) * Cardinality({i \in DOMAIN bitlen : i < j /\ bitlen[i] = bitlen[j]})

(* A short code fills all table entries that begin with it.                *)
Entries(bitlen, j, tablebits) ==
  LET unit == 2 ^ (Width - tablebits)
      first == CodeOf(bitlen, j) \div unit
  IN  first .. first + 2 ^ (Width - bitlen[j]) \div unit - 1

ShortCodes(bitlen, tablebits) ==
  {j \in DOMAIN bitlen : bitlen[j] \in 1 .. tablebits}

Filled(table, bitlen, tablebits) ==
  LET long == Starts(bitlen)[tablebits + 1] \div 2 ^ (Width - tablebits)
      holds == [i \in DOMAIN table |->
                  {j \in ShortCodes(bitlen, tablebits) : i \in Entries(bitlen, j, tablebits)}]
  IN  [i \in DOMAIN table |->
         IF holds[i] # {} THEN Max(holds[i])
         ELSE IF long # 0 /\ i >= long THEN 0 ELSE table[i]]

(* Below the table a long code is a path in a tree whose nodes are made as *)
(* they are needed.  A place is an element of the table, left[] or right[].*)
At(t, place) == t[place[1]][place[2]]
Put(t, place, x) == [t EXCEPT ![place[1]][place[2]] = x]

NewNode(t, place) ==
  LET node == t.avail
  IN  [Put(Put(Put(t, <<"right", node>>, 0), <<"left", node>>, 0), place, node)
         EXCEPT !.avail = node + 1]

RECURSIVE Grow(_, _, _, _, _)
Grow(t, place, code, k, j) ==       \* k bits of the code are left
  IF k = 0 THEN Put(t, place, j)
  ELSE LET u == IF At(t, place) = 0 THEN NewNode(t, place) ELSE t
       IN  Grow(u, <<IF BitAt(code, k - 1) THEN "right" ELSE "left", At(u, place)>>,
                code, k - 1, j)

(* Mutant: the nodes of every tree begin where those of the small ones do. *)
FirstNodeShared(bitlen) == NT

FirstNode(bitlen) == Cardinality(DOMAIN bitlen)

make_table(which, bitlen, tablebits) ==
  LET symbols == SelectSeq([k \in 1 .. Cardinality(DOMAIN bitlen) |-> k - 1],
                           LAMBDA j : bitlen[j] > tablebits)
      grow(t, j) ==
        LET code == CodeOf(bitlen, j)
        IN  Grow(t, <<which, code \div 2 ^ (Width - tablebits)>>,
                 code \div 2 ^ (Width - bitlen[j]), bitlen[j] - tablebits, j)
      filled == [tables EXCEPT ![which] = Filled(@, bitlen, tablebits)]
      grown == FoldLeft(grow, filled @@ [avail |-> FirstNode(bitlen)], symbols)
  IN  [name \in {"c", "pt", "left", "right"} |-> grown[name]]

-----------------------------------------------------------------------------
(* Decoding one symbol: a table entry, or a walk down a tree by the bits   *)
(* of bitbuf from bit k on.                                                *)
RECURSIVE Descend(_, _, _, _, _)
Descend(t, j, buf, k, symbols) ==
  LET next == IF BitAt(buf, k) THEN t.right[j] ELSE t.left[j]
  IN  IF next >= symbols /\ (k > 0 \/ next # t.left[next])
      THEN Descend(t, next, buf, k - 1, symbols)
      ELSE next

(* decode_c_st1 and decode_p_st1: the symbol, and the bits after its code. *)
Decoded(b, which, bitlen, tablebits, symbols) ==
  LET j == tables[which][peekbits(b, tablebits)]
      below == fillbuf(b, tablebits)
      leaf == Descend(tables, j, below.buf, Width - 1, symbols)
  IN  IF j < symbols
      THEN [symbol |-> j, bits |-> fillbuf(b, bitlen[j])]
      ELSE [symbol |-> leaf, bits |-> fillbuf(below, bitlen[leaf] - tablebits)]

DecodedC(b) == Decoded(b, "c", len.c, CTableBits, NC)
DecodedP(b) == Decoded(b, "pt", len.pt, PtTableBits, NP)

(* read_c_len walks the tree before it takes the table's bits.             *)
DecodedT(b) ==
  LET j == tables.pt[peekbits(b, PtTableBits)]
      leaf == IF j < NT THEN j ELSE Descend(tables, j, b.buf, Width - 1 - PtTableBits, NT)
  IN  [symbol |-> leaf, bits |-> fillbuf(b, len.pt[leaf])]

(* The distance of a copy: its highest bit is coded, the others follow.    *)
DecodedOffset(b) ==
  LET p == DecodedP(b)
      low == p.symbol - 1
  IN  IF p.symbol = 0
      THEN [offset |-> 1, bits |-> p.bits]
      ELSE [offset |-> 1 + 2 ^ low + getbits(p.bits, low), bits |-> fillbuf(p.bits, low)]

-----------------------------------------------------------------------------
Init ==
  /\ archive \in Archives
  /\ bits = fillbuf(BitBufInit, Width)
  /\ blocksize = 0
  /\ len = [c  |-> [j \in 0 .. NC - 1 |-> 0], pt |-> [j \in 0 .. NT + NP |-> 0]]
  /\ tables = [c     |-> [i \in 0 .. 2 ^ CTableBits - 1 |-> 0],
               pt    |-> [i \in 0 .. 2 ^ PtTableBits - 1 |-> 0],
               left  |-> [i \in 0 .. Nodes - 1 |-> 0],
               right |-> [i \in 0 .. Nodes - 1 |-> 0]]
  /\ reading = [block |-> 0, n |-> 0, i |-> 0]
  /\ out = <<>>
  /\ pc = "loop"

(* A new block: its number of tokens, then the T, C and P lengths.         *)
StartBlock ==
  /\ pc = "loop" /\ Len(out) < archive.size /\ blocksize = 0
  /\ blocksize' = getbits(bits, Width)
  /\ bits' = fillbuf(bits, Width)
  /\ reading' = [reading EXCEPT !.block = @ + 1]
  /\ pc' = "T count"
  /\ UNCHANGED <<archive, len, tables, out>>

PtSymbols == IF pc \in {"T count", "T length"} THEN NT ELSE NP
PtWidth == IF pc \in {"T count", "T length"} THEN TBit ELSE PBit
AfterPt == IF pc \in {"T count", "T length"} THEN "C count" ELSE "read"
Start(n) == reading' = [reading EXCEPT !.n = n, !.i = 0]

(* A count of 0 stands for a code of one symbol, without bits.             *)
ReadPtCount ==
  /\ pc \in {"T count", "P count"}
  /\ LET n == getbits(bits, PtWidth)
         after == fillbuf(bits, PtWidth)
         c == getbits(after, PtWidth)
     IN  IF n # 0
         THEN /\ bits' = after
              /\ Start(n)
              /\ pc' = IF pc = "T count" THEN "T length" ELSE "P length"
              /\ UNCHANGED <<len, tables>>
         ELSE /\ bits' = fillbuf(after, PtWidth)
              /\ len' = [len EXCEPT !.pt = [j \in DOMAIN @ |-> IF j < PtSymbols THEN 0 ELSE @[j]]]
              /\ tables' = [tables EXCEPT !.pt = [i \in DOMAIN @ |-> c]]
              /\ pc' = AfterPt
              /\ UNCHANGED reading
  /\ UNCHANGED <<archive, blocksize, out>>

(* Zeros that follow the i-th length: after the third of T, two bits' worth. *)
Zeros(b, i) == IF pc = "T length" /\ i = Special THEN getbits(b, 2) ELSE 0

(* One length: LenBits bits, or ones and a zero after that many ones.      *)
ReadPtLen ==
  /\ pc \in {"T length", "P length"} /\ reading.i < reading.n
  /\ LET short == peekbits(bits, LenBits)
         long == short = 2 ^ LenBits - 1
         ones == Min({k \in 0 .. Width : ~BitAt(bits.buf, Width - LenBits - 1 - k)})
         i == reading.i + 1
         after == fillbuf(bits, IF long THEN LenBits + ones + 1 ELSE LenBits)
         zeros == Zeros(after, i)
     IN  /\ len' = [len EXCEPT !.pt =
                      [j \in DOMAIN @ |-> IF j = i - 1 THEN IF long THEN short + ones ELSE short
                                          ELSE IF j \in i .. i + zeros - 1 THEN 0 ELSE @[j]]]
         /\ bits' = IF pc = "T length" /\ i = Special THEN fillbuf(after, 2) ELSE after
         /\ reading' = [reading EXCEPT !.i = i + zeros]
  /\ UNCHANGED <<archive, blocksize, tables, out, pc>>

(* Mutant: lengths that were not read are those of the block before.       *)
PaddedNot(bitlen, i, symbols) == [j \in 0 .. symbols - 1 |-> bitlen[j]]

(* The lengths of all symbols: those not read are 0.                       *)
Padded(bitlen, i, symbols) == [j \in 0 .. symbols - 1 |-> IF j < i THEN bitlen[j] ELSE 0]

BuildPt ==
  /\ pc \in {"T length", "P length"} /\ reading.i >= reading.n
  /\ LET bitlen == Padded(len.pt, reading.i, PtSymbols)
     IN  /\ len' = [len EXCEPT !.pt = bitlen @@ @]
         /\ IF BadLengths(bitlen)
            THEN pc' = "bad" /\ UNCHANGED tables
            ELSE /\ tables' = make_table("pt", bitlen, PtTableBits)
                 /\ pc' = AfterPt
  /\ UNCHANGED <<archive, bits, blocksize, reading, out>>

ReadCCount ==
  /\ pc = "C count"
  /\ LET n == getbits(bits, CBit)
         after == fillbuf(bits, CBit)
         c == getbits(after, CBit)
     IN  IF n # 0
         THEN /\ bits' = after
              /\ Start(n)
              /\ pc' = "C length"
              /\ UNCHANGED <<len, tables>>
         ELSE /\ bits' = fillbuf(after, CBit)
              /\ len' = [len EXCEPT !.c = [j \in DOMAIN @ |-> 0]]
              /\ tables' = [tables EXCEPT !.c = [i \in DOMAIN @ |-> c]]
              /\ pc' = "P count"
              /\ UNCHANGED reading
  /\ UNCHANGED <<archive, blocksize, out>>

(* One symbol of the T code: 0, 1 and 2 are runs of zeros, the first of    *)
(* one, the others with a number that follows; the rest are lengths.       *)
ReadCLen ==
  /\ pc = "C length" /\ reading.i < reading.n
  /\ LET c == DecodedT(bits)
         width == CASE c.symbol = 1 -> RunBits [] c.symbol = 2 -> CBit [] OTHER -> 0
         run == getbits(c.bits, width)
                  + (CASE c.symbol = 1 -> 3 [] c.symbol = 2 -> 2 ^ RunBits + 4 [] OTHER -> 1)
     IN  /\ bits' = fillbuf(c.bits, width)
         /\ len' = [len EXCEPT !.c =
                      [j \in DOMAIN @ |-> IF j \in reading.i .. reading.i + run - 1
                                          THEN IF c.symbol <= 2 THEN 0 ELSE c.symbol - 2
                                          ELSE @[j]]]
         /\ reading' = [reading EXCEPT !.i = @ + run]
  /\ UNCHANGED <<archive, blocksize, tables, out, pc>>

BuildC ==
  /\ pc = "C length" /\ reading.i >= reading.n
  /\ LET bitlen == Padded(len.c, reading.i, NC)
     IN  /\ len' = [len EXCEPT !.c = bitlen]
         /\ IF BadLengths(bitlen)
            THEN pc' = "bad" /\ UNCHANGED tables
            ELSE /\ tables' = make_table("c", bitlen, CTableBits)
                 /\ pc' = "P count"
  /\ UNCHANGED <<archive, bits, blocksize, reading, out>>

InBlock == pc = "read" \/ (pc = "loop" /\ Len(out) < archive.size /\ blocksize # 0)

(* A copy may run into what it writes: it then repeats its offset's bytes. *)
Copied(offset, length) ==
  [k \in 1 .. length |-> out[Len(out) - offset + 1 + ((k - 1) % offset)]]

Literal ==
  /\ InBlock
  /\ LET c == DecodedC(bits)
     IN  /\ c.symbol < Literals
         /\ out' = Append(out, c.symbol)
         /\ bits' = c.bits
  /\ blocksize' = (blocksize - 1) % 2 ^ Width
  /\ pc' = "loop"
  /\ UNCHANGED <<archive, len, tables, reading>>

Copy ==
  /\ InBlock
  /\ LET c == DecodedC(bits)
         length == c.symbol - Literals + Threshold
         p == DecodedOffset(c.bits)
     IN  /\ c.symbol >= Literals
         /\ bits' = p.bits
         /\ IF p.offset > Len(out)
            THEN pc' = "bad" /\ UNCHANGED out
            ELSE /\ out' = out \o Copied(p.offset, Min({length, archive.size - Len(out)}))
                 /\ pc' = "loop"
  /\ blocksize' = (blocksize - 1) % 2 ^ Width
  /\ UNCHANGED <<archive, len, tables, reading>>

Finish ==
  /\ pc = "loop" /\ Len(out) >= archive.size
  /\ pc' = "done"
  /\ UNCHANGED <<archive, bits, blocksize, len, tables, reading, out>>

Ended == pc \in {"done", "bad"} /\ UNCHANGED vars

Next ==
  \/ StartBlock \/ ReadPtCount \/ ReadPtLen \/ BuildPt
  \/ ReadCCount \/ ReadCLen \/ BuildC
  \/ Literal \/ Copy \/ Finish \/ Ended

Spec == Init /\ [][Next]_vars

-----------------------------------------------------------------------------
(* The bit buffer's parts fit their C types, lengths and tables point to   *)
(* symbols and nodes, and the output stays in its buffer.                  *)
TypeOK ==
  /\ bits.off \in 0 .. Len(archive.bytes) /\ bits.buf \in 0 .. 2 ^ Width - 1
  /\ bits.sub \in 0 .. 2 ^ ByteBits - 1 /\ bits.count \in 0 .. ByteBits
  /\ blocksize \in 0 .. 2 ^ Width - 1
  /\ \A j \in DOMAIN len.c : len.c[j] \in 0 .. Width
  /\ \A j \in DOMAIN len.pt : len.pt[j] \in 0 .. Width
  /\ \A name \in {"left", "right"} : \A i \in DOMAIN tables[name] : tables[name][i] \in 0 .. Nodes - 1
  /\ \A i \in DOMAIN tables.c : tables.c[i] \in 0 .. Nodes - 1
  /\ \A i \in DOMAIN tables.pt : tables.pt[i] \in 0 .. 2 * NT - 1
  /\ out \in Seq(0 .. Literals - 1) /\ Len(out) <= archive.size

(* When the lengths of a block have been read, every window of bits that   *)
(* may follow decodes to the symbol whose code it begins with, for both    *)
(* codes: their trees share left[] and right[], the small one is built     *)
(* after the large one, and the tables of the block before are still there. *)
TablesDecode ==
  pc = "read" =>
    \A w \in 0 .. 2 ^ Width - 1 :
      LET b == [bits EXCEPT !.buf = w]
          begins(code, j) == /\ j \in DOMAIN code
                             /\ w \div 2 ^ (Width - code[j].length) = code[j].value
          codes == archive.blocks[reading.block]
      IN  /\ begins(codes.c, DecodedC(b).symbol)
          /\ begins(codes.p, DecodedP(b).symbol)

(* What is decoded is what was packed, from its first byte to its last,    *)
(* and a buffer is refused only if code lengths or a distance in it cannot *)
(* have been packed, and then always.                                      *)
DecodesContent ==
  /\ IsPrefix(out, archive.content)
  /\ pc = "done" => out = archive.content /\ ~archive.damaged
  /\ pc = "bad" => archive.damaged
=============================================================================
