------------------------------- MODULE MCLh5 -------------------------------
(***************************************************************************)
(* Packed buffers for Lh5, made as lha makes them: canonical prefix codes, *)
(* their lengths without trailing zeros and with runs of zeros shortened,  *)
(* and the tokens.  The codes are defined here in a way of their own.      *)
(***************************************************************************)
EXTENDS Lh5

Bin(x, n) == [k \in 1 .. n |-> (x \div 2 ^ (n - k)) % 2]

(* Canonical codes: by length, then by symbol, each after the one before.  *)
Codes(lens) ==
  LET used == {j \in DOMAIN lens : lens[j] # 0}
      before(j) == {i \in used : lens[i] < lens[j] \/ (lens[i] = lens[j] /\ i < j)}
      value(j) == MapThenSumSet(LAMBDA i : 2 ^ (Width - lens[i]), before(j))
  IN  [j \in used |-> [length |-> lens[j], value |-> value(j) \div 2 ^ (Width - lens[j])]]

One(j) == [x \in {j} |-> [length |-> 0, value |-> 0]]
Word(code, j) == Bin(code[j].value, code[j].length)

(* Lengths of the symbols of a sequence: 1, 2, 3 ..., the last two equal;  *)
(* or all but some of them equal.                                          *)
Skewed(symbols, n) ==
  [j \in 0 .. n - 1 |->
     LET at == {k \in DOMAIN symbols : symbols[k] = j}
     IN  IF at = {} THEN 0 ELSE Min({Min(at), Len(symbols) - 1})]

Depth(n) == CHOOSE d \in 1 .. Width : 2 ^ d >= n /\ 2 ^ (d - 1) < n
Flat(symbols, n) ==
  LET d == Depth(Len(symbols))
      shorter == 2 ^ d - Len(symbols)
  IN  [j \in 0 .. n - 1 |->
         LET at == {k \in DOMAIN symbols : symbols[k] = j}
         IN  IF at = {} THEN 0 ELSE IF Min(at) <= shorter THEN d - 1 ELSE d]

Lens(shape, symbols, n) ==
  IF shape = "flat" \/ Len(symbols) > Width + 1
  THEN Flat(symbols, n) ELSE Skewed(symbols, n)
CodeFor(shape, symbols, n) == IF Len(symbols) = 1 THEN One(symbols[1]) ELSE Codes(Lens(shape, symbols, n))

LenBitsOf(k) ==
  IF k < 2 ^ LenBits - 1 THEN Bin(k, LenBits)
  ELSE [x \in 1 .. k - (2 ^ LenBits - 1) + LenBits |-> 1] \o <<0>>

LastUsed(lens) == Max({j \in DOMAIN lens : lens[j] # 0})
Spoilt(lens, damage) == IF damage THEN [lens EXCEPT ![LastUsed(lens)] = 0] ELSE lens

(* write_pt_len.                                                           *)
RECURSIVE PtLens(_, _, _)
PtLens(lens, i, special) ==
  IF i > LastUsed(lens) THEN <<>>
  ELSE IF special /\ i = Special
       THEN LET zeros == Min({k \in 0 .. 3 : k = 3 \/ lens[Special + k] # 0})
            IN  Bin(zeros, 2) \o (IF i + zeros > LastUsed(lens) THEN <<>>
                                  ELSE LenBitsOf(lens[i + zeros]) \o PtLens(lens, i + zeros + 1, special))
       ELSE LenBitsOf(lens[i]) \o PtLens(lens, i + 1, special)

PtHeader(shape, symbols, n, width, special, damage) ==
  IF Len(symbols) = 1 THEN Bin(0, width) \o Bin(symbols[1], width)
  ELSE LET lens == Spoilt(Lens(shape, symbols, n), damage)
       IN  Bin(LastUsed(lens) + 1, width) \o PtLens(lens, 0, special)

(* The T symbols of the C lengths, each with the number that follows it.   *)
RECURSIVE TSymbols(_, _)
TSymbols(lens, i) ==
  IF i > LastUsed(lens) THEN <<>>
  ELSE IF lens[i] # 0 THEN <<<<lens[i] + 2, <<>>>>>> \o TSymbols(lens, i + 1)
  ELSE LET run == Min({k \in 1 .. LastUsed(lens) - i : lens[i + k] # 0})
           long == 3 + 2 ^ RunBits
       IN  (IF run <= 2 THEN [k \in 1 .. run |-> <<0, <<>>>>]
            ELSE IF run < long THEN <<<<1, Bin(run - 3, RunBits)>>>>
            ELSE IF run = long THEN <<<<0, <<>>>>, <<1, Bin(run - 4, RunBits)>>>>
            ELSE <<<<2, Bin(run - long - 1, CBit)>>>>) \o TSymbols(lens, i + run)

SymbolSeq(S) == SelectSeq([k \in 1 .. NT |-> k - 1], LAMBDA j : j \in S)

CHeader(tshape, shape, symbols, damage) ==
  LET lens == Spoilt(Lens(shape, symbols, NC), damage)
      ts == TSymbols(lens, 0)
      used == SymbolSeq({ts[k][1] : k \in DOMAIN ts})
      code == CodeFor(tshape, used, NT)
  IN  IF Len(symbols) = 1
      THEN Bin(0, TBit) \o Bin(0, TBit) \o Bin(0, CBit) \o Bin(symbols[1], CBit)
      ELSE PtHeader(tshape, used, NT, TBit, TRUE, FALSE) \o Bin(LastUsed(lens) + 1, CBit)
             \o FlattenSeq([k \in DOMAIN ts |-> Word(code, ts[k][1]) \o ts[k][2]])

(* Offsets 1, 2, 3-4, 5-8, ... have the symbols 0, 1, 2, 3, ...            *)
OffsetSymbol(o) == Min({s \in 0 .. NP - 1 : o <= 2 ^ s})

TokenBits(c, p, token) ==
  LET s == OffsetSymbol(token.offset)
  IN  IF token.offset = 0 THEN Word(c, token.symbol)
      ELSE Word(c, token.symbol) \o Word(p, s)
             \o (IF s = 0 THEN <<>> ELSE Bin(token.offset - 1 - 2 ^ (s - 1), s - 1))

(* A block: the shapes of its codes, their symbols, and its tokens.        *)
BlockBits(b) ==
  LET c == CodeFor(b.shape, b.cs, NC)
      p == CodeFor(b.shape, b.ps, NP)
  IN  Bin(Len(b.tokens), Width) \o CHeader(b.tshape, b.shape, b.cs, b.damage = "c")
        \o PtHeader(b.shape, b.ps, NP, PBit, FALSE, b.damage = "p")
        \o FlattenSeq([k \in DOMAIN b.tokens |-> TokenBits(c, p, b.tokens[k])])

RECURSIVE CopyOf(_, _, _)
CopyOf(o, offset, length) ==
  IF length = 0 THEN o
  ELSE CopyOf(Append(o, IF offset <= Len(o) THEN o[Len(o) - offset + 1] ELSE 0), offset, length - 1)

Expanded(o, token) ==
  IF token.offset = 0 THEN Append(o, token.symbol)
  ELSE CopyOf(o, token.offset, token.symbol - Literals + Threshold)

Bytes(bs) ==
  LET padded == bs \o [k \in 1 .. (0 - Len(bs)) % ByteBits |-> 0]
  IN  [k \in 1 .. Len(padded) \div ByteBits |->
         MapThenSumSet(LAMBDA j : padded[ByteBits * (k - 1) + j] * 2 ^ (ByteBits - j), 1 .. ByteBits)]

Packed(blocks) ==
  LET tokens == FlattenSeq([k \in DOMAIN blocks |-> blocks[k].tokens])
      content == FoldLeft(Expanded, <<>>, tokens)
  IN  [bytes |-> Bytes(FlattenSeq([k \in DOMAIN blocks |-> BlockBits(blocks[k])])),
       size |-> Len(content),
       damaged |-> \E k \in DOMAIN blocks : blocks[k].damage # "none",
       content |-> content,
       blocks |-> [k \in DOMAIN blocks |->
                     [c |-> CodeFor(blocks[k].shape, blocks[k].cs, NC),
                      p |-> CodeFor(blocks[k].shape, blocks[k].ps, NP)]]]

-----------------------------------------------------------------------------
(* The tokens use every symbol of the C code once, literals first, and the *)
(* offset symbols in turn as far as there is something to copy.            *)
RECURSIVE Tokens(_, _, _, _)
Tokens(cs, ps, turn, done) ==
  IF cs = <<>> THEN <<>>
  ELSE LET c == Head(cs)
           reach == SelectSeq(ps, LAMBDA s : 2 ^ s <= done)
           s == reach[1 + (turn % Len(reach))]
       IN  IF c < Literals
           THEN <<[symbol |-> c, offset |-> 0]>> \o Tokens(Tail(cs), ps, turn, done + 1)
           ELSE IF reach = <<>> THEN Tokens(Tail(cs), ps, turn, done)
           ELSE <<[symbol |-> c, offset |-> IF s > 0 /\ turn % 2 = 1 THEN 2 ^ (s - 1) + 1 ELSE 2 ^ s]>>
                  \o Tokens(Tail(cs), ps, turn + 1, done + c - Literals + Threshold)

CSymbols == {<<2>>, <<0, 1>>, <<3, 5>>, <<0, 2, 4>>, <<0, 1, 2, 3, 4>>, <<1, 3, 5, 11>>,
             <<0, 1, 2, 3, 4, 8, 11>>, <<6, 5, 4, 3, 2, 1, 0>>, <<11, 4, 3, 2, 1, 0, 7>>,
             [k \in 1 .. NC |-> k - 1]}
PSymbols == {<<0>>, <<1>>, <<0, 1>>, <<0, 1, 2, 3, 4, 5>>, <<4, 3, 2, 1, 0>>}
Shapes == {"flat", "skewed"}
Block(cs, ps, shape, tshape, done) ==
  [damage |-> "none", cs |-> cs, ps |-> ps, shape |-> shape, tshape |-> tshape,
   tokens |-> Tokens(SortSeq(cs, <), ps, 0, done)]

OneBlock ==
  {<<Block(cs, ps, shape, tshape, 0)>> :
     cs \in {c \in CSymbols : \E k \in DOMAIN c : c[k] < Literals},
     ps \in PSymbols, shape \in Shapes, tshape \in Shapes}

(* Two blocks, of which the second finds the tables of the first.          *)
TwoBlocks ==
  {LET first == Block(cs1, ps1, "skewed", "skewed", 0)
   IN  <<first, Block(cs2, ps2, shape, "flat", Len(FoldLeft(Expanded, <<>>, first.tokens)))>> :
     cs1 \in {<<2>>, <<0, 1, 2, 3, 4>>, <<11, 4, 3, 2, 1, 0, 7>>},
     cs2 \in CSymbols, ps1 \in {<<0>>, <<0, 1, 2, 3, 4, 5>>},
     ps2 \in {<<1>>, <<0, 1>>, <<4, 3, 2, 1, 0>>}, shape \in Shapes}

(* Damage that must be noticed: a length is lost, or a copy begins before  *)
(* the output.                                                             *)
Damaged ==
  LET block == Block(<<0, 1, 2, 3, 4, 8, 11>>, <<0, 1, 2, 3>>, "skewed", "flat", 0)
  IN  {<<[block EXCEPT !.damage = d]>> : d \in {"c", "p"}}
        \cup {<<block, [Block(<<0, 4, 8>>, <<k>>, "flat", "flat", 0) EXCEPT
                         !.damage = "copy", !.tokens = <<[symbol |-> 4, offset |-> 2 ^ k]>>]>> :
                k \in {NP - 1}}

MCArchives == {Packed(blocks) : blocks \in OneBlock \cup TwoBlocks \cup Damaged}
=============================================================================
