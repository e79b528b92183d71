---------------------------- MODULE AlgorithmProofs ----------------------------
(***************************************************************************)
(* The pure algorithms whose correctness is an invariant or arithmetic:    *)
(* the reduction of the digest modulo L, the streaming of SHA-512, the     *)
(* server URL and the base64 and PEM texts of keys and signatures.         *)
(***************************************************************************)
EXTENDS ModL, Sha512, ServerUrl, KeyText, TLAPS, SequenceTheorems, WellFoundedInduction

-----------------------------------------------------------------------------
(***************************************************************************)
(* The reduction of the digest is exact: mod_l() divides by multiplying    *)
(* with a constant, and its quotient is at most one short.                 *)
(***************************************************************************)

\* Integer division, by the bounds that define it.
LEMMA DivisionBounds ==
  ASSUME NEW a \in Nat, NEW b \in Nat \ {0}
  PROVE  /\ a \div b \in Nat /\ b * (a \div b) <= a /\ a < b * (a \div b) + b
         /\ a % b \in 0 .. b - 1 /\ a = b * (a \div b) + (a % b)
  BY SMT

\* A product keeps the order of two factors.
LEMMA TimesKeepsOrder ==
  ASSUME NEW a \in Nat, NEW b \in Nat, NEW c \in Nat, a <= b
  PROVE  a * c <= b * c
  BY SMT

LEMMA OrderOfProducts ==
  ASSUME NEW a \in Int, NEW b \in Int, NEW c \in Nat \ {0}, a * c < b * c
  PROVE  a < b
  BY SMT

\* A number below 2^512 lies between the quotient times L and two more L.
LEMMA QuotientBounds ==
  ASSUME NEW x \in 0 .. Word * Word - 1
  PROVE  /\ Quotient(x) \in Nat
         /\ Quotient(x) * L <= x
         /\ x < Quotient(x) * L + 2 * L
<1> DEFINE W2 == Word * Word
           r == BarrettR
           q == Quotient(x)
<1>1. W2 \in Nat \ {0} /\ L \in Nat \ {0} /\ x \in Nat /\ x < W2
  BY ScalarAssumption, SMT
<1>2. r \in Nat /\ L * r <= W2 /\ W2 < L * r + L
  BY <1>1, DivisionBounds DEF BarrettR
<1>3. x * r \in Nat
  BY <1>1, <1>2, SMT
<1>4. q \in Nat /\ W2 * q <= x * r /\ x * r < W2 * q + W2
  BY <1>1, <1>3, DivisionBounds DEF Quotient
<1> HIDE DEF W2, r, q
<1>5. q * L <= x
  <2>1. (W2 * q) * L <= (x * r) * L
    <3>1. W2 * q \in Nat
      BY <1>1, <1>4, SMT
    <3> QED BY <3>1, <1>1, <1>3, <1>4, TimesKeepsOrder
  <2>2. (L * r) * x <= W2 * x
    <3>1. L * r \in Nat
      BY <1>1, <1>2, SMT
    <3> QED BY <3>1, <1>1, <1>2, TimesKeepsOrder
  <2>3. (W2 * q) * L = (q * L) * W2 /\ (x * r) * L = (L * r) * x /\ W2 * x = x * W2
    BY <1>1, <1>2, <1>4, SMT
  <2>4. (q * L) * W2 <= x * W2
    <3>1. (q * L) * W2 \in Nat /\ (L * r) * x \in Nat /\ x * W2 \in Nat
      BY <1>1, <1>2, <1>4, SMT
    <3> QED BY <2>1, <2>2, <2>3, <3>1, SMT
  <2>5. q * L \in Nat
    BY <1>1, <1>4, SMT
  <2>6. ~(x < q * L)
    <3> SUFFICES ASSUME x + 1 <= q * L PROVE FALSE
      BY <2>5, <1>1, SMT
    <3>1. (x + 1) * W2 <= (q * L) * W2
      BY <2>5, <1>1, TimesKeepsOrder
    <3>2. (x + 1) * W2 = x * W2 + W2
      BY <1>1, SMT
    <3>3. x * W2 \in Nat /\ (q * L) * W2 \in Nat
      BY <2>5, <1>1, SMT
    <3> QED BY <3>1, <3>2, <3>3, <2>4, <1>1, SMT
  <2> QED BY <2>5, <2>6, <1>1, SMT
<1>6. x < q * L + 2 * L
  <2>1. x * W2 <= x * (L * r) + x * L
    <3>1. W2 * x <= (L * r + L) * x
      <4>1. L * r + L \in Nat /\ W2 <= L * r + L
        BY <1>1, <1>2, SMT
      <4> QED BY <4>1, <1>1, TimesKeepsOrder
    <3>2. (L * r + L) * x = x * (L * r) + x * L /\ W2 * x = x * W2
      BY <1>1, <1>2, SMT
    <3> QED BY <3>1, <3>2
  <2>2. (x * r) * L <= (W2 * q + W2) * L
    <3>1. W2 * q + W2 \in Nat /\ x * r <= W2 * q + W2
      BY <1>1, <1>3, <1>4, SMT
    <3> QED BY <3>1, <1>1, <1>3, TimesKeepsOrder
  <2>3. x * L < W2 * L
    BY <1>1, SMT
  <2>4. (x * r) * L = x * (L * r) /\ (W2 * q + W2) * L + W2 * L = (q * L + 2 * L) * W2
    BY <1>1, <1>2, <1>4, SMT
  <2>5. x * W2 < (q * L + 2 * L) * W2
    <3>1. x * W2 \in Nat /\ x * (L * r) \in Nat /\ x * L \in Nat /\ W2 * L \in Nat
          /\ (W2 * q + W2) * L \in Nat
      BY <1>1, <1>2, <1>4, SMT
    <3> QED BY <3>1, <2>1, <2>2, <2>3, <2>4, SMT
  <2>6. q * L + 2 * L \in Nat
    BY <1>1, <1>4, SMT
  <2> QED BY <2>5, <2>6, <1>1, OrderOfProducts
<1> QED BY <1>4, <1>5, <1>6 DEF q

\* What is above L is found by the carry, and taken off once.
LEMMA RemovesOnce ==
  ASSUME NEW x \in 0 .. 2 * L - 1
  PROVE  RemoveL(x) = IF x < L THEN x ELSE x - L
<1>1. L \in Nat \ {0} /\ Word \in Nat /\ 8 * L <= Word
  BY ScalarAssumption
<1>2. CASE x < L
  <2>1. IsAboveL(x) = 0
    BY <1>1, <1>2, SMT DEF IsAboveL
  <2> QED BY <2>1, <1>1, <1>2, SMT DEF RemoveL
<1>3. CASE ~(x < L)
  <2>1. IsAboveL(x) = 1
    BY <1>1, <1>3, SMT DEF IsAboveL
  <2>2. x - L \in Nat /\ x - L < Word
    BY <1>1, <1>3, SMT
  <2> QED BY <2>1, <2>2, <1>1, <1>3, SMT DEF RemoveL
<1> QED BY <1>2, <1>3

\* mod_l() keeps 256 bits of the number and of the product; what they differ by
\* is below 2 * L, so nothing is lost.
LEMMA DifferenceIsSmall ==
  ASSUME NEW x \in 0 .. Word * Word - 1
  PROVE  Difference(x) = x - Quotient(x) * L /\ Difference(x) \in 0 .. 2 * L - 1
<1> DEFINE p == Quotient(x) * L
           u == x % Word
           v == p % Word
<1>1. L \in Nat \ {0} /\ Word \in Nat \ {0} /\ 8 * L <= Word /\ x \in Nat
  BY ScalarAssumption, SMT
<1>2. p \in Nat /\ p <= x /\ x < p + 2 * L
  BY <1>1, QuotientBounds, SMT
<1> HIDE DEF p
<1>3. u \in 0 .. Word - 1 /\ v \in 0 .. Word - 1
  BY <1>1, <1>2, DivisionBounds
<1>4. PICK m \in Nat : x = Word * m + u
  BY <1>1, DivisionBounds
<1>5. PICK n \in Nat : p = Word * n + v
  BY <1>1, <1>2, DivisionBounds
<1> HIDE DEF u, v
<1>6. (1 + u + (Word - 1 - v)) % Word = x - p
  <2>1. x - p = Word * (m - n) + (u - v) /\ m - n \in Int
    BY <1>1, <1>3, <1>4, <1>5, SMT
  <2>2. Word * (m - n) < 2 * Word /\ -Word < Word * (m - n)
    BY <2>1, <1>1, <1>2, <1>3, SMT
  <2>3. m - n = 0 \/ m - n = 1
    <3>1. m - n < 2
      BY <2>1, <2>2, <1>1, OrderOfProducts, SMT
    <3>2. -1 < m - n
      BY <2>1, <2>2, <1>1, OrderOfProducts, SMT
    <3> QED BY <2>1, <3>1, <3>2, SMT
  <2>4. CASE m - n = 0
    <3>1. x - p = u - v
      BY <2>1, <2>4, <1>1, <1>3, SMT
    <3> QED BY <3>1, <1>1, <1>2, <1>3, SMT
  <2>5. CASE m - n = 1
    <3>1. x - p = Word + u - v
      BY <2>1, <2>5, <1>1, <1>3, SMT
    <3> QED BY <3>1, <1>1, <1>2, <1>3, SMT
  <2> QED BY <2>3, <2>4, <2>5
<1> QED BY <1>1, <1>2, <1>6, SMT DEF Difference, p, u, v

\* mod_l(): for every number of 512 bits the result is the remainder modulo L,
\* whatever L and the width of a word are, as long as L has three bits to spare
\* (monocypher.c, "Full reduction modulo L").
THEOREM ReducesModuloL ==
  ASSUME NEW x \in 0 .. Word * Word - 1
  PROVE  ModuloL(x) = x % L
<1> DEFINE q == Quotient(x)
           d == Difference(x)
<1>1. L \in Nat \ {0} /\ x \in Nat
  BY ScalarAssumption, SMT
<1>2. d = x - q * L /\ d \in 0 .. 2 * L - 1 /\ q \in Nat
  BY DifferenceIsSmall, QuotientBounds
<1>3. ModuloL(x) = IF d < L THEN d ELSE d - L
  BY <1>2, RemovesOnce DEF ModuloL
<1> HIDE DEF q, d
<1>4. ModuloL(x) \in 0 .. L - 1
  BY <1>1, <1>2, <1>3, SMT
<1>5. PICK k \in Nat : x = k * L + ModuloL(x)
  <2>1. CASE d < L
    BY <2>1, <1>1, <1>2, <1>3, SMT
  <2>2. CASE ~(d < L)
    <3>1. (q + 1) * L = q * L + L /\ q * L \in Nat
      BY <1>1, <1>2, SMT
    <3>2. x = (q + 1) * L + ModuloL(x)
      BY <3>1, <2>2, <1>1, <1>2, <1>3, SMT
    <3> QED BY <3>2, <1>2
  <2> QED BY <2>1, <2>2
<1> DEFINE m == ModuloL(x)
           n == x \div L
           z == x % L
<1>6. n \in Nat /\ z \in 0 .. L - 1 /\ x = L * n + z
  BY <1>1, DivisionBounds
<1>7. m \in 0 .. L - 1 /\ x = k * L + m
  BY <1>4, <1>5
<1> HIDE DEF m, n, z
<1>8. (k - n) * L = z - m
  BY <1>1, <1>6, <1>7, SMT
<1>9. k - n < 1 /\ -1 < k - n
  <2>1. (k - n) * L < 1 * L /\ (-1) * L < (k - n) * L
    BY <1>1, <1>6, <1>7, <1>8, SMT
  <2> QED BY <2>1, <1>1, <1>6, OrderOfProducts, SMT
<1>10. z = m
  BY <1>1, <1>6, <1>7, <1>8, <1>9, SMT
<1> QED BY <1>10 DEF z, m

-----------------------------------------------------------------------------
(***************************************************************************)
(* Streaming SHA-512.                                                      *)
(***************************************************************************)

\* Where the next byte of the message comes from: bytes consumed so far.
Consumed == IF pc \in {"align", "rest"} THEN message + turn ELSE message

\* What the message holds of a block that begins at byte base.
MessageBlock(base) == [p \in Positions |-> Data(base + p)]

\* A block filled up to byte i.
Partial(base, i) == [p \in Positions |-> IF p < i THEN Data(base + p) ELSE Zero]

\* The pointers: what was given is what was consumed and what is left.
Pointers ==
  /\ {message, aligned, left, turn, given} \subseteq Nat
  /\ pc \in {"ready", "align", "blocks", "rest", "final", "done"}
  /\ pc \in {"ready", "final", "done"} => given = message
  /\ pc = "align" => given = message + left /\ turn <= aligned /\ aligned <= left
  /\ pc = "blocks" => given + turn * Block = message + left /\ turn <= left \div Block
  /\ pc = "rest" => given = message + left /\ turn <= left

\* Whole blocks begin on a block boundary.
Boundary ==
  /\ pc = "align" => aligned = left \/ idx + (aligned - turn) \in {0, Block}
  /\ pc = "blocks" => idx = 0 \/ left = 0

\* A number of two words is n.
Counted(number, n) ==
  /\ number.hi \in Nat /\ number.lo \in 0 .. Word64 - 1
  /\ number.hi * Word64 + number.lo = n

\* The context while bytes come in: whole blocks of the message are compressed
\* and counted, the rest is in the buffer.
Streaming ==
  /\ idx \in Positions
  /\ Consumed = Len(blocks) * Block + idx
  /\ Counted(size, 8 * (Len(blocks) * Block))
  /\ \A b \in 1 .. Len(blocks) : blocks[b] = MessageBlock((b - 1) * Block)
  /\ idx > 0 => input = Partial(Len(blocks) * Block, idx)

\* Block b of a message padded to this many blocks.
PaddedBlock(b, count) ==
  [p \in Positions |-> PaddedCell(given, count * Block, (b - 1) * Block + p)]

\* Between the mark and the length.
Closing ==
  /\ Counted(size, 8 * given)
  /\ Len(blocks) + 1 = BlocksFor(given)
  /\ \A b \in 1 .. Len(blocks) : blocks[b] = PaddedBlock(b, BlocksFor(given))
  /\ DOMAIN input = Positions
  /\ \A p \in 0 .. LengthAt - 1 : input[p] = PaddedBlock(BlocksFor(given), BlocksFor(given))[p]

Cells == {"data", "length", "zero", "pad", "stale"} \X Nat

ShaInv ==
  /\ Pointers /\ Boundary
  /\ blocks \in Seq([Positions -> Cells])
  /\ pc \in {"ready", "align", "blocks", "rest"} => Streaming
  /\ pc = "final" => Closing
  /\ DigestOfMessage

LEMMA Shape ==
  /\ Block \in Nat /\ Block > 3 /\ Word64 \in Nat /\ Word64 > 8 * Block
  /\ Positions = 0 .. Block - 1 /\ LengthAt = Block - 2
BY ShapeAssumption DEF Positions, LengthAt

LEMMA CellTypes ==
  /\ \A n \in Nat : Data(n) \in Cells /\ Length(n) \in Cells
  /\ Zero \in Cells /\ PadMark \in Cells /\ Stale \in Cells
BY DEF Data, Length, Zero, PadMark, Stale, Cells

LEMMA NextMultiple == \A n \in Nat : n * Block \in Nat /\ (n + 1) * Block = n * Block + Block
BY Shape, SMT

LEMMA Turns ==
  ASSUME NEW n \in Nat
  PROVE  n \div Block \in Nat /\ n % Block \in Nat /\ n = Block * (n \div Block) + (n % Block)
<1>1. Block \in Nat \ {0}
  BY Shape, SMT
<1>2. n \div Block \in Nat /\ n % Block \in 0 .. Block - 1
      /\ n = Block * (n \div Block) + (n % Block)
  BY <1>1, DivisionBounds
<1>3. n % Block \in Nat
  BY <1>1, <1>2, SMT
<1> QED BY <1>2, <1>3

\* The blocks before another end where it begins, or earlier.
LEMMA BlocksBefore ==
  ASSUME NEW n \in Nat, NEW b \in 1 .. n
  PROVE  (b - 1) * Block \in Nat /\ (b - 1) * Block + Block <= n * Block
<1>1. b - 1 \in Nat /\ b <= n /\ b \in Nat
  BY SMT
<1>2. b * Block <= n * Block
  BY <1>1, Shape, TimesKeepsOrder
<1>3. (b - 1) * Block \in Nat /\ b * Block = (b - 1) * Block + Block
  BY <1>1, Shape, SMT
<1> QED BY <1>2, <1>3

\* sha512_incr(): a sum that passes a word carries, and one that does not, does not.
LEMMA Carries ==
  ASSUME NEW hi \in Nat, NEW lo \in 0 .. Word64 - 1, NEW bits \in Nat, bits < Word64
  PROVE  LET sum == Incr([hi |-> hi, lo |-> lo], bits)
         IN  /\ sum.hi \in Nat /\ sum.lo \in 0 .. Word64 - 1
             /\ sum.hi * Word64 + sum.lo = hi * Word64 + lo + bits
<1> DEFINE low == (lo + bits) % Word64
<1>1. Word64 \in Nat /\ lo \in Nat /\ lo < Word64
  BY Shape, SMT
<1>2. (hi + 1) * Word64 = hi * Word64 + Word64 /\ hi * Word64 \in Nat
  BY <1>1, SMT
<1>3. CASE lo + bits < Word64
  <2>1. low = lo + bits
    BY <1>1, <1>3, SMT
  <2>2. ~(low < bits)
    BY <2>1, <1>1, SMT
  <2> HIDE DEF low
  <2>3. Incr([hi |-> hi, lo |-> lo], bits) = [hi |-> hi, lo |-> low]
    BY <2>2 DEF Incr, low
  <2> QED BY <2>1, <2>3, <1>1, <1>2, <1>3
<1>4. CASE ~(lo + bits < Word64)
  <2>1. low = lo + bits - Word64
    BY <1>1, <1>4, SMT
  <2>2. low < bits
    BY <2>1, <1>1, SMT
  <2> HIDE DEF low
  <2>3. Incr([hi |-> hi, lo |-> lo], bits) = [hi |-> hi + 1, lo |-> low]
    BY <2>2 DEF Incr, low
  <2> QED BY <2>1, <2>3, <1>1, <1>2, <1>4
<1> QED BY <1>3, <1>4

LEMMA Counts ==
  ASSUME NEW n \in Nat, Counted(size, n), NEW bits \in Nat, bits < Word64,
         size' = Incr(size, bits)
  PROVE  Counted(size', n + bits)
<1>1. size.hi \in Nat /\ size.lo \in 0 .. Word64 - 1 /\ size.hi * Word64 + size.lo = n
  BY DEF Counted
<1>2. Incr(size, bits) = Incr([hi |-> size.hi, lo |-> size.lo], bits)
  BY DEF Incr
<1>3. /\ size'.hi \in Nat /\ size'.lo \in 0 .. Word64 - 1
      /\ size'.hi * Word64 + size'.lo = size.hi * Word64 + size.lo + bits
  BY <1>1, <1>2, Carries
<1> QED BY <1>1, <1>3 DEF Counted

\* sha512_set_input(): the byte joins what the buffer holds.
LEMMA Joins ==
  ASSUME idx \in Positions, NEW base \in Nat, idx > 0 => input = Partial(base, idx), NEW c
  PROVE  SetInput(input, idx, c) =
           [p \in Positions |-> IF p < idx THEN Data(base + p) ELSE IF p = idx THEN c ELSE Zero]
<1> DEFINE fresh == IF idx = 0 THEN Filled(Zero) ELSE input
<1>1. fresh = Partial(base, idx)
  <2>1. CASE idx = 0
    <3>1. \A p \in Positions : ~(p < 0)
      BY Shape, SMT
    <3> QED BY <2>1, <3>1 DEF Filled, Partial
  <2>2. CASE idx # 0
    BY <2>2, Shape, SMT
  <2> QED BY <2>1, <2>2
<1>2. fresh[idx] = Zero
  BY <1>1, Shape, SMT DEF Partial
<1>3. SetInput(input, idx, c) = [fresh EXCEPT ![idx] = c]
  BY <1>2 DEF SetInput
<1> HIDE DEF fresh
<1>4. \A p \in Positions : p = idx => ~(p < idx)
  BY Shape, SMT
<1> QED BY <1>1, <1>3, <1>4 DEF Partial

-----------------------------------------------------------------------------
\* A block that fills up is compressed and counted.
LEMMA Fills ==
  ASSUME blocks \in Seq([Positions -> Cells]),
         Counted(size, 8 * (Len(blocks) * Block)),
         \A b \in 1 .. Len(blocks) : blocks[b] = MessageBlock((b - 1) * Block),
         NEW at \in 1 .. Block,
         EndBlock(Partial(Len(blocks) * Block, at), at)
  PROVE  /\ blocks' \in Seq([Positions -> Cells])
         /\ idx' \in Positions
         /\ Len(blocks') * Block + idx' = Len(blocks) * Block + at
         /\ Counted(size', 8 * (Len(blocks') * Block))
         /\ \A b \in 1 .. Len(blocks') : blocks'[b] = MessageBlock((b - 1) * Block)
         /\ idx' > 0 => input' = Partial(Len(blocks') * Block, idx')
         /\ idx' = (IF at = Block THEN 0 ELSE at)
<1> DEFINE n == Len(blocks)
<1>1. n \in Nat /\ n * Block \in Nat /\ (n + 1) * Block = n * Block + Block
  BY NextMultiple
<1>2. CASE at = Block
  <2>1. /\ size' = Incr(size, 8 * Block) /\ blocks' = Append(blocks, Partial(n * Block, at))
        /\ idx' = 0
    BY <1>2 DEF EndBlock
  <2>2. Partial(n * Block, at) = MessageBlock(n * Block)
    <3>1. \A p \in Positions : p < at
      BY <1>2, Shape, SMT
    <3> QED BY <3>1 DEF Partial, MessageBlock
  <2>3. MessageBlock(n * Block) \in [Positions -> Cells]
    <3>1. \A p \in Positions : n * Block + p \in Nat
      BY <1>1, Shape, SMT
    <3> QED BY <3>1, CellTypes DEF MessageBlock
  <2>4. /\ blocks' \in Seq([Positions -> Cells]) /\ Len(blocks') = n + 1
        /\ \A b \in 1 .. n : blocks'[b] = blocks[b]
        /\ blocks'[n + 1] = MessageBlock(n * Block)
    BY <2>1, <2>2, <2>3
  <2>5. Counted(size', 8 * (Len(blocks') * Block))
    <3>1. 8 * Block \in Nat /\ 8 * Block < Word64 /\ 8 * (n * Block) \in Nat
      BY <1>1, Shape, SMT
    <3>2. 8 * (n * Block) + 8 * Block = 8 * ((n + 1) * Block)
      BY <1>1, Shape, SMT
    <3>3. Counted(size', 8 * (n * Block) + 8 * Block)
      BY <2>1, <3>1, Counts
    <3> QED BY <2>4, <3>2, <3>3 DEF Counted
  <2>6. \A b \in 1 .. Len(blocks') : blocks'[b] = MessageBlock((b - 1) * Block)
    <3> SUFFICES ASSUME NEW b \in 1 .. n + 1 PROVE blocks'[b] = MessageBlock((b - 1) * Block)
      BY <2>4
    <3>1. b \in 1 .. n \/ (b = n + 1 /\ b - 1 = n)
      BY <1>1, SMT
    <3> QED BY <3>1, <2>4
  <2>7. idx' \in Positions
    BY <2>1, Shape, SMT
  <2>8. Len(blocks') * Block + idx' = n * Block + at
    BY <1>1, <1>2, <2>1, <2>4, Shape, SMT
  <2>9. ~(idx' > 0)
    BY <2>1, SMT
  <2> QED BY <1>2, <2>1, <2>4, <2>5, <2>6, <2>7, <2>8, <2>9
<1>3. CASE at # Block
  <2>1. input' = Partial(n * Block, at) /\ idx' = at /\ UNCHANGED <<size, blocks>>
    BY <1>3 DEF EndBlock
  <2>2. idx' \in Positions
    BY <1>3, <2>1, Shape, SMT
  <2>3. Counted(size', 8 * (Len(blocks') * Block))
    BY <2>1 DEF Counted
  <2> QED BY <1>3, <2>1, <2>2, <2>3
<1> QED BY <1>2, <1>3

-----------------------------------------------------------------------------
\* A step of crypto_sha512_update().

LEMMA ShaTypes ==
  ASSUME ShaInv
  PROVE  /\ message \in Nat /\ aligned \in Nat /\ left \in Nat /\ turn \in Nat /\ given \in Nat
         /\ blocks \in Seq([Positions -> Cells]) /\ Len(blocks) \in Nat
         /\ Len(blocks) * Block \in Nat
BY NextMultiple DEF ShaInv, Pointers

LEMMA UpdateStep == ASSUME ShaInv, NEW n \in 1 .. MaxBytes, Update(n) PROVE ShaInv'
<1>1. /\ pc = "ready" /\ pc' = "align" /\ given' = given + n /\ left' = n
      /\ aligned' = Least(ToBoundary(idx), n) /\ turn' = 0
      /\ UNCHANGED <<input, idx, size, blocks, message>>
  BY DEF Update, ctx
<1>2. given = message /\ Streaming /\ idx \in Positions
  BY <1>1 DEF ShaInv, Pointers, Streaming
<1>3. n \in Nat
  BY ShapeAssumption, SMT
<1>4. ToBoundary(idx) \in Nat /\ idx + ToBoundary(idx) \in {0, Block}
  <2>1. CASE idx = 0
    <3>1. ToBoundary(idx) = Block % Block
      BY <2>1, Shape, SMT DEF ToBoundary
    <3>2. Block % Block = 0
      BY Shape, SMT
    <3> QED BY <2>1, <3>1, <3>2
  <2>2. CASE idx # 0
    <3>1. idx \in 1 .. Block - 1
      BY <1>2, <2>2, Shape, SMT
    <3>2. idx % Block = idx
      BY <3>1, Shape, SMT
    <3>3. (Block - idx) % Block = Block - idx
      BY <3>1, Shape, SMT
    <3>4. ToBoundary(idx) = Block - idx
      BY <3>2, <3>3 DEF ToBoundary
    <3> QED BY <3>1, <3>4, Shape, SMT
  <2> QED BY <2>1, <2>2
<1>5. aligned' \in Nat /\ aligned' <= n /\ (aligned' = n \/ idx + (aligned' - 0) \in {0, Block})
  BY <1>1, <1>2, <1>3, <1>4, Shape, SMT DEF Least
<1>6. Pointers'
  BY <1>1, <1>2, <1>3, <1>5, ShaTypes, SMT DEF Pointers
<1>7. Boundary'
  BY <1>1, <1>5 DEF Boundary
<1>8. Streaming'
  <2>1. Consumed' = Consumed
    BY <1>1, ShaTypes, SMT DEF Consumed
  <2> QED BY <1>1, <1>2, <2>1 DEF Streaming
<1> QED BY <1>1, <1>6, <1>7, <1>8 DEF ShaInv, DigestOfMessage

LEMMA ByteStep == ASSUME ShaInv, Byte PROVE ShaInv'
<1> DEFINE base == Len(blocks) * Block
<1>1. /\ EndBlock(SetInput(input, idx, Data(message + turn)), idx + 1)
      /\ turn' = turn + 1 /\ UNCHANGED <<pc, message, aligned, left, given>>
      /\ (pc = "align" /\ turn < aligned) \/ (pc = "rest" /\ turn < left)
  BY DEF Byte
<1>2. /\ Streaming /\ Pointers /\ Boundary /\ blocks \in Seq([Positions -> Cells])
      /\ idx \in Positions /\ base \in Nat /\ message + turn = base + idx
  BY <1>1, ShaTypes DEF ShaInv, Streaming, Consumed
<1>3. SetInput(input, idx, Data(message + turn)) = Partial(base, idx + 1)
  <2>1. SetInput(input, idx, Data(message + turn)) =
          [p \in Positions |-> IF p < idx THEN Data(base + p)
                               ELSE IF p = idx THEN Data(message + turn) ELSE Zero]
    BY <1>2, Joins DEF Streaming
  <2>2. \A p \in Positions : p < idx + 1 <=> p < idx \/ p = idx
    BY <1>2, Shape, SMT
  <2> QED BY <1>2, <2>1, <2>2 DEF Partial
<1>4. idx + 1 \in 1 .. Block
  BY <1>2, Shape, SMT
<1>5. /\ Counted(size, 8 * base)
      /\ \A b \in 1 .. Len(blocks) : blocks[b] = MessageBlock((b - 1) * Block)
  BY <1>2 DEF Streaming
<1>6. /\ blocks' \in Seq([Positions -> Cells])
      /\ idx' \in Positions
      /\ Len(blocks') * Block + idx' = base + (idx + 1)
      /\ Counted(size', 8 * (Len(blocks') * Block))
      /\ \A b \in 1 .. Len(blocks') : blocks'[b] = MessageBlock((b - 1) * Block)
      /\ idx' > 0 => input' = Partial(Len(blocks') * Block, idx')
      /\ idx' = (IF idx + 1 = Block THEN 0 ELSE idx + 1)
  BY <1>1, <1>2, <1>3, <1>4, <1>5, Fills
<1> HIDE DEF base
<1>7. Consumed' = Len(blocks') * Block + idx'
  <2> DEFINE sum == Len(blocks') * Block + idx'
  <2>1. Consumed' = message + (turn + 1)
    BY <1>1 DEF Consumed
  <2>2. sum = base + (idx + 1)
    BY <1>6
  <2>3. message \in Nat /\ turn \in Nat /\ base \in Nat /\ idx \in Nat
    BY <1>2, ShaTypes, Shape
  <2>4. message + turn = base + idx
    BY <1>2
  <2> HIDE DEF sum
  <2>5. message + (turn + 1) = sum
    BY <2>2, <2>3, <2>4, SMT
  <2> QED BY <2>1, <2>5 DEF sum
<1>8. Streaming'
  BY <1>6, <1>7 DEF Streaming
<1>9. Pointers'
  BY <1>1, <1>2, ShaTypes, SMT DEF Pointers
<1>10. Boundary'
  <2>1. ASSUME pc = "align", aligned # left PROVE idx' + (aligned - (turn + 1)) \in {0, Block}
    <3>1. turn < aligned /\ idx + (aligned - turn) \in {0, Block}
      BY <1>1, <1>2, <2>1 DEF Boundary
    <3>2. idx \in Nat /\ idx < Block /\ aligned \in Nat /\ turn \in Nat /\ Block \in Nat
      BY <1>2, ShaTypes, Shape, SMT
    <3>3. idx + (aligned - turn) = Block
      BY <3>1, <3>2, SMT
    <3>4. CASE idx + 1 = Block
      <4>1. idx' = 0 /\ 0 + (aligned - (turn + 1)) = 0
        BY <1>6, <3>2, <3>3, <3>4, SMT
      <4> QED BY <4>1
    <3>5. CASE idx + 1 # Block
      <4>1. idx' = idx + 1 /\ (idx + 1) + (aligned - (turn + 1)) = Block
        BY <1>6, <3>2, <3>3, <3>5, SMT
      <4> QED BY <4>1
    <3> QED BY <3>4, <3>5
  <2> QED BY <1>1, <2>1 DEF Boundary
<1> QED BY <1>1, <1>6, <1>8, <1>9, <1>10 DEF ShaInv, DigestOfMessage

LEMMA AlignedStep == ASSUME ShaInv, Aligned PROVE ShaInv'
<1>1. /\ pc = "align" /\ turn = aligned /\ message' = message + aligned
      /\ left' = left - aligned /\ pc' = "blocks" /\ turn' = 0
      /\ UNCHANGED <<input, idx, size, blocks, aligned, given>>
  BY DEF Aligned, ctx
<1>2. Streaming /\ Pointers /\ Boundary /\ idx \in Positions
  BY <1>1 DEF ShaInv, Streaming
<1>3. given = message + left /\ aligned <= left
  BY <1>1, <1>2 DEF Pointers
<1>4. left' \in Nat /\ message' \in Nat /\ given + 0 * Block = message' + left'
  BY <1>1, <1>3, ShaTypes, Shape, SMT
<1>5. 0 <= left' \div Block
  BY <1>4, Turns, SMT
<1>6. Pointers'
  BY <1>1, <1>4, <1>5, ShaTypes, SMT DEF Pointers
<1>7. idx = 0 \/ left' = 0
  <2>1. aligned = left \/ idx + (aligned - aligned) \in {0, Block}
    BY <1>1, <1>2 DEF Boundary
  <2> QED BY <1>1, <1>2, <2>1, ShaTypes, Shape, SMT
<1>8. Boundary'
  BY <1>1, <1>7 DEF Boundary
<1>9. Streaming'
  <2>1. Consumed' = Consumed
    BY <1>1 DEF Consumed
  <2> QED BY <1>1, <1>2, <2>1 DEF Streaming
<1> QED BY <1>1, <1>6, <1>8, <1>9 DEF ShaInv, DigestOfMessage

LEMMA WholeBlockStep == ASSUME ShaInv, WholeBlock PROVE ShaInv'
<1> DEFINE base == Len(blocks) * Block
<1>1. /\ pc = "blocks" /\ turn < left \div Block
      /\ EndBlock([p \in Positions |-> Data(message + p)], idx + Block)
      /\ message' = message + Block /\ turn' = turn + 1
      /\ UNCHANGED <<pc, aligned, left, given>>
  BY DEF WholeBlock
<1>2. /\ Streaming /\ Pointers /\ Boundary /\ blocks \in Seq([Positions -> Cells])
      /\ base \in Nat /\ message = base + idx /\ idx \in Positions
  BY <1>1, ShaTypes DEF ShaInv, Streaming, Consumed
<1>3. idx = 0
  <2>1. left # 0
    <3>1. 0 \div Block = 0
      BY Shape, SMT
    <3> QED BY <1>1, <3>1, ShaTypes, SMT
  <2> QED BY <1>1, <1>2, <2>1 DEF Boundary
<1>4. message = base /\ idx + Block = Block /\ Block \in 1 .. Block
  BY <1>2, <1>3, ShaTypes, Shape, SMT
<1>5. [p \in Positions |-> Data(message + p)] = Partial(base, Block)
  <2>1. \A p \in Positions : p < Block
    BY Shape, SMT
  <2> QED BY <1>4, <2>1 DEF Partial
<1>6. /\ Counted(size, 8 * base)
      /\ \A b \in 1 .. Len(blocks) : blocks[b] = MessageBlock((b - 1) * Block)
  BY <1>2 DEF Streaming
<1>7. EndBlock(Partial(base, Block), Block)
  BY <1>1, <1>4, <1>5
<1>8. /\ blocks' \in Seq([Positions -> Cells])
      /\ idx' \in Positions
      /\ Len(blocks') * Block + idx' = base + Block
      /\ Counted(size', 8 * (Len(blocks') * Block))
      /\ \A b \in 1 .. Len(blocks') : blocks'[b] = MessageBlock((b - 1) * Block)
      /\ idx' > 0 => input' = Partial(Len(blocks') * Block, idx')
      /\ idx' = 0
  BY <1>2, <1>4, <1>6, <1>7, Fills
<1> HIDE DEF base
<1>9. Streaming'
  <2>1. Consumed' = message + Block
    BY <1>1 DEF Consumed
  <2> QED BY <2>1, <1>4, <1>8 DEF Streaming
<1>10. Pointers'
  <2>1. given + turn * Block = message + left
    BY <1>1, <1>2 DEF Pointers
  <2>2. (turn + 1) * Block = turn * Block + Block /\ turn * Block \in Nat
    BY NextMultiple, ShaTypes
  <2>3. given + (turn + 1) * Block = (message + Block) + left
    <3>1. given \in Nat /\ message \in Nat /\ left \in Nat /\ Block \in Nat
      BY ShaTypes, Shape
    <3> QED BY <2>1, <2>2, <3>1, SMT
  <2>4. left \div Block \in Nat
    BY ShaTypes, Turns
  <2>5. turn + 1 \in Nat /\ turn + 1 <= left \div Block /\ message + Block \in Nat
    BY <1>1, <2>4, ShaTypes, Shape, SMTT(30)
  <2> QED BY <1>1, <2>3, <2>5, ShaTypes DEF Pointers
<1>11. Boundary'
  BY <1>1, <1>8 DEF Boundary
<1> QED BY <1>1, <1>8, <1>9, <1>10, <1>11 DEF ShaInv, DigestOfMessage

\* What is given is what was consumed, the whole blocks and the rest.
LEMMA SumOfParts ==
  ASSUME NEW all \in Nat, NEW done \in Nat, NEW rest \in Nat, NEW whole \in Nat,
         NEW total \in Nat, all + whole = done + total, total = whole + rest
  PROVE  all = done + rest
BY SMT

LEMMA TimesCommutes ==
  ASSUME NEW m \in Nat, NEW n \in Nat
  PROVE  m * n = n * m /\ m * n \in Nat
BY SMT

LEMMA BlocksDoneStep == ASSUME ShaInv, BlocksDone PROVE ShaInv'
<1>1. /\ pc = "blocks" /\ turn = left \div Block /\ left' = left % Block
      /\ pc' = "rest" /\ turn' = 0
      /\ UNCHANGED <<input, idx, size, blocks, message, aligned, given>>
  BY DEF BlocksDone, ctx
<1>2. Streaming /\ given + turn * Block = message + left
  BY <1>1 DEF ShaInv, Pointers
<1>3. left' \in Nat /\ left = Block * turn + left'
  <2>1. left % Block \in Nat /\ left = Block * (left \div Block) + (left % Block)
    BY ShaTypes, Turns
  <2> QED BY <1>1, <2>1
<1>4. given = message + left'
  <2> DEFINE whole == turn * Block  rest == left'
  <2>1. whole = Block * turn /\ whole \in Nat
    BY ShaTypes, Shape, TimesCommutes
  <2>2. given + whole = message + left /\ left = whole + rest /\ rest \in Nat
    BY <1>2, <1>3, <2>1
  <2>3. given \in Nat /\ message \in Nat /\ left \in Nat
    BY ShaTypes
  <2> HIDE DEF whole, rest
  <2>4. given = message + rest
    BY <2>1, <2>2, <2>3, SumOfParts
  <2> QED BY <2>4 DEF rest
<1>5. Pointers'
  <2>1. 0 \in Nat /\ 0 <= left'
    BY <1>3, SMT
  <2> QED BY <1>1, <1>3, <1>4, <2>1, ShaTypes DEF Pointers
<1>6. Streaming'
  <2>1. Consumed' = Consumed
    BY <1>1, ShaTypes, SMT DEF Consumed
  <2> QED BY <1>1, <1>2, <2>1 DEF Streaming
<1> QED BY <1>1, <1>5, <1>6 DEF ShaInv, Boundary, DigestOfMessage

LEMMA UpdatedStep == ASSUME ShaInv, Updated PROVE ShaInv'
<1>1. /\ pc = "rest" /\ turn = left /\ message' = message + left /\ pc' = "ready"
      /\ UNCHANGED <<input, idx, size, blocks, aligned, left, turn, given>>
  BY DEF Updated, ctx
<1>2. Streaming /\ given = message + left
  BY <1>1 DEF ShaInv, Pointers
<1>3. Pointers'
  BY <1>1, <1>2, ShaTypes, SMT DEF Pointers
<1>4. Streaming'
  <2>1. Consumed' = Consumed
    BY <1>1 DEF Consumed
  <2> QED BY <1>1, <1>2, <2>1 DEF Streaming
<1> QED BY <1>1, <1>3, <1>4 DEF ShaInv, Boundary, DigestOfMessage

-----------------------------------------------------------------------------
\* crypto_sha512_final().

LEMMA QuotientIs ==
  ASSUME NEW b \in Nat \ {0}, NEW a \in Nat, NEW z \in 0 .. b - 1
  PROVE  (a * b + z) \div b = a /\ (a * b + z) % b = z
<1> DEFINE x == a * b + z
           q == x \div b
           y == x % b
<1>1. b \in Nat /\ z \in Nat /\ z < b /\ a * b \in Nat /\ x \in Nat
  BY SMT
<1>2. q \in Nat /\ y \in 0 .. b - 1 /\ x = b * q + y
  BY <1>1, DivisionBounds
<1> HIDE DEF q, y
<1>3. (a - q) * b = y - z
  <2>1. (a - q) * b = a * b - b * q
    BY <1>1, <1>2, SMT
  <2> QED BY <2>1, <1>1, <1>2, SMT
<1>4. y \in Nat /\ y < b
  BY <1>1, <1>2, SMT
<1>5. (a - q) * b < 1 * b /\ (-1) * b < (a - q) * b
  BY <1>1, <1>3, <1>4, SMT
<1>6. a - q < 1 /\ -1 < a - q
  BY <1>2, <1>5, OrderOfProducts, SMT
<1>7. a = q
  BY <1>2, <1>6, SMT
<1>8. y = z
  BY <1>1, <1>2, <1>3, <1>4, <1>7, SMT
<1> QED BY <1>7, <1>8 DEF q, y

\* How many blocks a message of so many bytes is padded to.
LEMMA Rounds ==
  ASSUME NEW q \in Nat, NEW i \in Positions
  PROVE  BlocksFor(q * Block + i) = IF i >= LengthAt THEN q + 2 ELSE q + 1
<1> DEFINE base == q * Block
<1>1. Block \in Nat \ {0} /\ i \in Nat /\ i < Block /\ Block > 3 /\ LengthAt = Block - 2
  BY Shape, SMT
<1>2. base \in Nat /\ (q + 1) * Block = base + Block /\ (q + 2) * Block = base + Block + Block
  BY <1>1, SMT
<1> HIDE DEF base
<1>3. CASE i >= LengthAt
  <2>1. base + i + 3 + Block - 1 = (q + 2) * Block + (i - (Block - 2))
    BY <1>1, <1>2, <1>3, SMT
  <2>2. i - (Block - 2) \in 0 .. Block - 1 /\ q + 2 \in Nat
    BY <1>1, <1>3, SMT
  <2>3. ((q + 2) * Block + (i - (Block - 2))) \div Block = q + 2
    BY <1>1, <2>2, QuotientIs
  <2> QED BY <1>3, <2>1, <2>3 DEF BlocksFor, base
<1>4. CASE ~(i >= LengthAt)
  <2>1. base + i + 3 + Block - 1 = (q + 1) * Block + (i + 2)
    BY <1>1, <1>2, SMT
  <2>2. i + 2 \in 0 .. Block - 1 /\ q + 1 \in Nat
    BY <1>1, <1>4, SMT
  <2>3. ((q + 1) * Block + (i + 2)) \div Block = q + 1
    BY <1>1, <2>2, QuotientIs
  <2> QED BY <1>4, <2>1, <2>3 DEF BlocksFor, base
<1> QED BY <1>3, <1>4

\* What a padded message holds, by the place of the byte.
LEMMA Padding ==
  ASSUME NEW n \in Nat, NEW total \in Nat, NEW at \in Nat
  PROVE  /\ at < n => PaddedCell(n, total, at) = Data(at)
         /\ at = n => PaddedCell(n, total, at) = PadMark
         /\ n < at /\ at < total - 2 => PaddedCell(n, total, at) = Zero
         /\ n < at /\ at = total - 2 => PaddedCell(n, total, at) = Length((8 * n) \div Word64)
         /\ n < at /\ at = total - 1 => PaddedCell(n, total, at) = Length((8 * n) % Word64)
BY SMT DEF PaddedCell

\* A block of the message is that block of the padded one.
LEMMA Whole ==
  ASSUME given \in Nat, NEW q \in Nat, q * Block <= given, NEW count \in Nat, NEW b \in 1 .. q
  PROVE  MessageBlock((b - 1) * Block) = PaddedBlock(b, count)
<1> DEFINE base == (b - 1) * Block
<1>1. base \in Nat /\ base + Block <= q * Block /\ q * Block \in Nat /\ count * Block \in Nat
  BY BlocksBefore, NextMultiple
<1> HIDE DEF base
<1>2. ASSUME NEW p \in Positions
      PROVE  PaddedCell(given, count * Block, base + p) = Data(base + p)
  <2>1. base + p \in Nat /\ base + p < given
    BY <1>1, Shape, SMT
  <2> QED BY <1>1, <2>1, Padding
<1> QED BY <1>2 DEF MessageBlock, PaddedBlock, base

\* The block with the mark, as far as the length is not in it.
LEMMA Marked ==
  ASSUME given \in Nat, NEW q \in Nat, NEW i \in Positions, given = q * Block + i,
         NEW count \in Nat, NEW p \in Positions,
         q * Block + p < count * Block - 2
  PROVE  PaddedBlock(q + 1, count)[p] =
           IF p < i THEN Data(q * Block + p) ELSE IF p = i THEN PadMark ELSE Zero
<1> DEFINE base == q * Block
           total == count * Block
<1>1. base \in Nat /\ total \in Nat /\ i \in Nat /\ p \in Nat
  BY NextMultiple, Shape, SMT
<1>2. PaddedBlock(q + 1, count)[p] = PaddedCell(given, total, base + p)
  <2>1. (q + 1) - 1 = q
    BY SMT
  <2> QED BY <2>1 DEF PaddedBlock
<1> HIDE DEF base, total
<1>3. given = base + i /\ base + p < total - 2
  BY DEF base, total
<1>4. /\ base + p \in Nat
      /\ p < i => base + p < given
      /\ p = i => base + p = given
      /\ ~(p < i) /\ p # i => given < base + p
  BY <1>1, <1>3, SMT
<1>5. PaddedCell(given, total, base + p) =
        IF p < i THEN Data(base + p) ELSE IF p = i THEN PadMark ELSE Zero
  BY <1>1, <1>3, <1>4, Padding
<1> QED BY <1>2, <1>5 DEF base

\* What Final finds: the buffer with the mark, the bits counted.
LEMMA Marks ==
  ASSUME ShaInv, Final
  PROVE  /\ given = Len(blocks) * Block + idx /\ idx \in Positions /\ given' = given
         /\ SetInput(input, idx, PadMark) =
              [p \in Positions |-> IF p < idx THEN Data(Len(blocks) * Block + p)
                                   ELSE IF p = idx THEN PadMark ELSE Zero]
         /\ SetInput(input, idx, PadMark) \in [Positions -> Cells]
         /\ Counted(size', 8 * given)
<1> DEFINE base == Len(blocks) * Block
<1>1. pc = "ready" /\ size' = Incr(size, idx * 8) /\ UNCHANGED given
  BY DEF Final
<1>2. Streaming /\ given = message /\ base \in Nat
  BY <1>1, ShaTypes DEF ShaInv, Pointers
<1>3. given = base + idx /\ idx \in Positions /\ Counted(size, 8 * base)
  BY <1>1, <1>2 DEF Streaming, Consumed
<1>4. SetInput(input, idx, PadMark) =
        [p \in Positions |-> IF p < idx THEN Data(base + p) ELSE IF p = idx THEN PadMark ELSE Zero]
  BY <1>2, <1>3, Joins DEF Streaming
<1>5. SetInput(input, idx, PadMark) \in [Positions -> Cells]
  <2>1. \A p \in Positions : base + p \in Nat
    BY <1>2, Shape, SMT
  <2> QED BY <1>4, <2>1, CellTypes
<1> HIDE DEF base
<1>6. 8 * base \in Nat /\ idx * 8 \in Nat /\ idx * 8 < Word64 /\ 8 * base + idx * 8 = 8 * given
  BY <1>2, <1>3, Shape, SMT
<1>7. Counted(size', 8 * base + idx * 8)
  BY <1>1, <1>3, <1>6, Counts
<1> QED BY <1>1, <1>3, <1>4, <1>5, <1>6, <1>7 DEF base

LEMMA FinalStep == ASSUME ShaInv, Final PROVE ShaInv'
<1> DEFINE q == Len(blocks)
           padded == SetInput(input, idx, PadMark)
           count == BlocksFor(given)
<1>1. /\ pc' = "final" /\ UNCHANGED <<idx, message, aligned, left, turn, given>>
      /\ IF Penultimate THEN blocks' = Append(blocks, padded) /\ input' = ZeroedHead(Filled(Stale))
                        ELSE input' = padded /\ UNCHANGED blocks
  BY DEF Final
<1>2. /\ pc = "ready" /\ q \in Nat /\ q * Block \in Nat /\ given \in Nat
      /\ blocks \in Seq([Positions -> Cells])
      /\ \A b \in 1 .. q : blocks[b] = MessageBlock((b - 1) * Block)
  BY ShaTypes DEF Final, ShaInv, Streaming
<1>3. /\ given = q * Block + idx /\ idx \in Positions /\ Counted(size', 8 * given)
      /\ padded = [p \in Positions |-> IF p < idx THEN Data(q * Block + p)
                                       ELSE IF p = idx THEN PadMark ELSE Zero]
      /\ padded \in [Positions -> Cells]
  BY Marks
<1>4. count = (IF idx >= LengthAt THEN q + 2 ELSE q + 1)
  BY <1>2, <1>3, Rounds
<1>5. /\ count \in Nat /\ idx \in Nat /\ idx < Block /\ Block \in Nat /\ Block > 3
      /\ LengthAt = Block - 2
  BY <1>2, <1>3, <1>4, Shape, SMT
<1>6. \A b \in 1 .. q : blocks[b] = PaddedBlock(b, count)
  <2>1. q * Block <= given
    BY <1>2, <1>3, <1>5, SMT
  <2> QED BY <1>2, <1>5, <2>1, Whole
<1>7. /\ (q + 1) * Block = q * Block + Block
      /\ (q + 2) * Block = q * Block + Block + Block
  BY <1>2, <1>5, SMT
<1>8. Pointers' /\ Boundary' /\ DigestOfMessage'
  BY <1>1, <1>2 DEF ShaInv, Pointers, Boundary, DigestOfMessage
<1> HIDE DEF q, padded, count
<1>9. CASE idx >= LengthAt
  <2>1. /\ count = q + 2 /\ blocks' = Append(blocks, padded)
        /\ input' = ZeroedHead(Filled(Stale))
    BY <1>1, <1>4, <1>9 DEF Penultimate
  <2>2. /\ Len(blocks') = q + 1 /\ blocks' \in Seq([Positions -> Cells])
        /\ \A b \in 1 .. q : blocks'[b] = blocks[b]
        /\ blocks'[q + 1] = padded
    BY <1>2, <1>3, <2>1 DEF q
  <2>3. padded = PaddedBlock(q + 1, count)
    <3>1. ASSUME NEW p \in Positions
          PROVE  PaddedBlock(q + 1, count)[p] =
                   IF p < idx THEN Data(q * Block + p) ELSE IF p = idx THEN PadMark ELSE Zero
      <4>1. q * Block + p < count * Block - 2
        BY <1>2, <1>5, <1>7, <2>1, Shape, SMT
      <4> QED BY <1>2, <1>3, <1>5, <4>1, Marked
    <3>2. PaddedBlock(q + 1, count) = [p \in Positions |-> PaddedBlock(q + 1, count)[p]]
      BY DEF PaddedBlock
    <3> QED BY <1>3, <3>1, <3>2
  <2>4. \A b \in 1 .. q + 1 : blocks'[b] = PaddedBlock(b, count)
    <3> SUFFICES ASSUME NEW b \in 1 .. q + 1 PROVE blocks'[b] = PaddedBlock(b, count)
      OBVIOUS
    <3>1. b \in 1 .. q \/ b = q + 1
      BY <1>2, SMT
    <3> QED BY <1>6, <2>2, <2>3, <3>1
  <2>5. ASSUME NEW p \in 0 .. LengthAt - 1
        PROVE  input'[p] = PaddedBlock(count, count)[p]
    <3>1. p \in Positions /\ p < LengthAt /\ p \in Nat
      BY <1>5, Shape, SMT
    <3>2. input'[p] = Zero
      BY <2>1, <3>1 DEF ZeroedHead
    <3>3. PaddedBlock(count, count)[p] = PaddedCell(given, count * Block, (q + 1) * Block + p)
      <4>1. count - 1 = q + 1
        BY <1>2, <2>1, SMT
      <4> QED BY <3>1, <4>1 DEF PaddedBlock
    <3>4. /\ (q + 1) * Block + p \in Nat /\ count * Block \in Nat
          /\ given < (q + 1) * Block + p /\ (q + 1) * Block + p < count * Block - 2
      BY <1>2, <1>3, <1>5, <1>7, <2>1, <3>1, SMT
    <3> QED BY <1>2, <3>2, <3>3, <3>4, Padding
  <2>6. Closing'
    <3>1. Len(blocks') + 1 = count /\ count' = count
      BY <1>1, <1>2, <2>1, <2>2, SMT DEF count
    <3>2. \A b \in 1 .. Len(blocks') : blocks'[b] = PaddedBlock(b, count)'
      BY <1>1, <2>2, <2>4, <3>1 DEF PaddedBlock
    <3>3. DOMAIN input' = Positions
      BY <2>1 DEF ZeroedHead
    <3>4. \A p \in 0 .. LengthAt - 1 : input'[p] = PaddedBlock(count, count)'[p]
      BY <1>1, <2>5, <3>1 DEF PaddedBlock
    <3> QED BY <1>1, <1>3, <3>1, <3>2, <3>3, <3>4 DEF Closing, count
  <2> QED BY <1>1, <1>8, <2>2, <2>6 DEF ShaInv
<1>10. CASE ~(idx >= LengthAt)
  <2>1. count = q + 1 /\ blocks' = blocks /\ input' = padded
    BY <1>1, <1>4, <1>10 DEF Penultimate
  <2>2. ASSUME NEW p \in 0 .. LengthAt - 1
        PROVE  input'[p] = PaddedBlock(count, count)[p]
    <3>1. p \in Positions /\ p < LengthAt /\ p \in Nat
      BY <1>5, Shape, SMT
    <3>2. q * Block + p < count * Block - 2
      BY <1>2, <1>5, <1>7, <2>1, <3>1, SMT
    <3>3. PaddedBlock(count, count)[p] =
            IF p < idx THEN Data(q * Block + p) ELSE IF p = idx THEN PadMark ELSE Zero
      BY <1>2, <1>3, <1>5, <2>1, <3>1, <3>2, Marked
    <3> QED BY <1>3, <2>1, <3>1, <3>3
  <2>3. Closing'
    <3>1. Len(blocks') + 1 = count /\ count' = count /\ Len(blocks') = q
      BY <1>1, <2>1 DEF count, q
    <3>2. \A b \in 1 .. Len(blocks') : blocks'[b] = PaddedBlock(b, count)'
      BY <1>1, <1>6, <2>1, <3>1 DEF PaddedBlock
    <3>3. DOMAIN input' = Positions
      BY <1>3, <2>1
    <3>4. \A p \in 0 .. LengthAt - 1 : input'[p] = PaddedBlock(count, count)'[p]
      BY <1>1, <2>2, <3>1 DEF PaddedBlock
    <3> QED BY <1>1, <1>3, <3>1, <3>2, <3>3, <3>4 DEF Closing, count
  <2> QED BY <1>1, <1>2, <1>8, <2>1, <2>3 DEF ShaInv
<1> QED BY <1>9, <1>10

\* The padded message has room for the mark and the length.
LEMMA RoomForLength ==
  ASSUME NEW n \in Nat
  PROVE  /\ BlocksFor(n) \in Nat \ {0} /\ BlocksFor(n) * Block \in Nat
         /\ n < BlocksFor(n) * Block - 2
<1> DEFINE x == n + 3 + Block - 1
           count == x \div Block
<1>1. Block \in Nat \ {0} /\ x \in Nat /\ x = n + Block + 2
  BY Shape, SMT
<1>2. count \in Nat /\ Block * count <= x /\ x < Block * count + Block
  BY <1>1, DivisionBounds
<1> HIDE DEF x, count
<1>3. count * Block = Block * count /\ count * Block \in Nat
  BY <1>1, <1>2, SMT
<1>4. n + 2 < count * Block
  BY <1>1, <1>2, <1>3, SMT
<1>5. count # 0
  <2>1. 0 * Block = 0
    BY <1>1, SMT
  <2> QED BY <2>1, <1>4, SMT
<1>6. n < count * Block - 2
  BY <1>3, <1>4, SMT
<1> QED BY <1>2, <1>3, <1>5, <1>6 DEF count, x, BlocksFor

LEMMA PaddedTypes ==
  ASSUME given \in Nat, NEW b \in Nat \ {0}, NEW count \in Nat
  PROVE  PaddedBlock(b, count) \in [Positions -> Cells]
<1>1. Word64 \in Nat \ {0}
  BY Shape, SMT
<1>2. (8 * given) \div Word64 \in Nat /\ (8 * given) % Word64 \in Nat
  <2>1. 8 * given \in Nat
    BY SMT
  <2>2. (8 * given) \div Word64 \in Nat /\ (8 * given) % Word64 \in 0 .. Word64 - 1
    BY <1>1, <2>1, DivisionBounds
  <2> QED BY <1>1, <2>2, SMT
<1>3. ASSUME NEW p \in Positions
      PROVE  PaddedCell(given, count * Block, (b - 1) * Block + p) \in Cells
  <2>1. (b - 1) * Block + p \in Nat
    <3>1. b - 1 \in Nat /\ p \in Nat
      BY Shape, SMT
    <3> QED BY <3>1, NextMultiple, SMT
  <2> QED BY <1>2, <2>1, CellTypes DEF PaddedCell
<1> QED BY <1>3 DEF PaddedBlock

LEMMA LastStep == ASSUME ShaInv, LastBlock PROVE ShaInv'
<1> DEFINE count == BlocksFor(given)
           last == [input EXCEPT ![LengthAt] = Length(size.hi), ![LengthAt + 1] = Length(size.lo)]
<1>1. /\ pc = "final" /\ pc' = "done" /\ blocks' = Append(blocks, last)
      /\ UNCHANGED <<message, aligned, left, turn, given>>
  BY DEF LastBlock
<1>2. /\ Closing /\ given = message /\ given \in Nat
      /\ blocks \in Seq([Positions -> Cells]) /\ Len(blocks) \in Nat
  BY <1>1, ShaTypes DEF ShaInv, Pointers
<1>3. count \in Nat \ {0} /\ count * Block \in Nat /\ given < count * Block - 2
  BY <1>2, RoomForLength
<1>4. (8 * given) \div Word64 = size.hi /\ (8 * given) % Word64 = size.lo
  <2>1. /\ size.hi \in Nat /\ size.lo \in 0 .. Word64 - 1 /\ size.hi * Word64 + size.lo = 8 * given
        /\ Word64 \in Nat \ {0}
    BY <1>2, Shape, SMT DEF Closing, Counted
  <2>2. /\ (size.hi * Word64 + size.lo) \div Word64 = size.hi
        /\ (size.hi * Word64 + size.lo) % Word64 = size.lo
    BY <2>1, QuotientIs
  <2> QED BY <2>1, <2>2
<1>5. /\ Len(blocks) + 1 = count /\ DOMAIN input = Positions
      /\ \A b \in 1 .. Len(blocks) : blocks[b] = PaddedBlock(b, count)
      /\ \A p \in 0 .. LengthAt - 1 : input[p] = PaddedBlock(count, count)[p]
  BY <1>2 DEF Closing
<1>6. /\ LengthAt \in Positions /\ LengthAt + 1 \in Positions /\ LengthAt \in Nat
      /\ \A p \in Positions : p \in 0 .. LengthAt - 1 \/ p = LengthAt \/ p = LengthAt + 1
      /\ \A p \in 0 .. LengthAt - 1 : p # LengthAt /\ p # LengthAt + 1
      /\ LengthAt # LengthAt + 1
  BY Shape, SMT
<1> HIDE DEF count
<1>7. /\ (count - 1) * Block + LengthAt \in Nat
      /\ (count - 1) * Block + LengthAt = count * Block - 2
      /\ (count - 1) * Block + (LengthAt + 1) = count * Block - 1
  <2>1. (count - 1) * Block \in Nat /\ ((count - 1) + 1) * Block = (count - 1) * Block + Block
    <3>1. count - 1 \in Nat
      BY <1>3, SMT
    <3> QED BY <3>1, NextMultiple
  <2>2. (count - 1) + 1 = count
    BY <1>3, SMT
  <2> QED BY <2>1, <2>2, Shape, SMT
<1>8. /\ PaddedBlock(count, count)[LengthAt] = Length(size.hi)
      /\ PaddedBlock(count, count)[LengthAt + 1] = Length(size.lo)
  <2>1. /\ PaddedBlock(count, count)[LengthAt] =
             PaddedCell(given, count * Block, count * Block - 2)
        /\ PaddedBlock(count, count)[LengthAt + 1] =
             PaddedCell(given, count * Block, count * Block - 1)
    BY <1>6, <1>7 DEF PaddedBlock
  <2>2. /\ count * Block - 2 \in Nat /\ count * Block - 1 \in Nat
        /\ given < count * Block - 1
    BY <1>2, <1>3, SMT
  <2> QED BY <1>2, <1>3, <1>4, <2>1, <2>2, Padding
<1>9. last = PaddedBlock(count, count)
  <2>1. \A p \in Positions : last[p] = PaddedBlock(count, count)[p]
    <3>1. ASSUME NEW p \in 0 .. LengthAt - 1 PROVE last[p] = PaddedBlock(count, count)[p]
      <4>1. p \in Positions /\ p # LengthAt /\ p # LengthAt + 1
        BY <1>6, Shape, SMT
      <4> QED BY <1>5, <4>1
    <3>2. last[LengthAt] = Length(size.hi) /\ last[LengthAt + 1] = Length(size.lo)
      BY <1>5, <1>6
    <3> QED BY <1>6, <1>8, <3>1, <3>2
  <2>2. last = [p \in Positions |-> last[p]]
    BY <1>5
  <2>3. PaddedBlock(count, count) = [p \in Positions |-> PaddedBlock(count, count)[p]]
    BY DEF PaddedBlock
  <2> QED BY <2>1, <2>2, <2>3
<1>10. PaddedBlock(count, count) \in [Positions -> Cells]
  BY <1>2, <1>3, PaddedTypes
<1> HIDE DEF last
<1>11. /\ blocks' \in Seq([Positions -> Cells]) /\ Len(blocks') = count
       /\ \A b \in 1 .. Len(blocks) : blocks'[b] = blocks[b]
       /\ blocks'[count] = PaddedBlock(count, count)
  BY <1>1, <1>2, <1>5, <1>9, <1>10
<1>12. \A b \in 1 .. Len(blocks') : blocks'[b] = PaddedBlock(b, count)
  <2> SUFFICES ASSUME NEW b \in 1 .. count PROVE blocks'[b] = PaddedBlock(b, count)
    BY <1>11
  <2>1. b \in 1 .. Len(blocks) \/ b = count
    BY <1>2, <1>5, SMT
  <2> QED BY <1>5, <1>11, <2>1
<1>13. DigestOfMessage'
  <2>1. ASSUME NEW b \in 1 .. Len(blocks'), NEW p \in Positions
        PROVE  blocks'[b][p] = PaddedCell(given, count * Block, (b - 1) * Block + p)
    BY <1>12, <2>1 DEF PaddedBlock
  <2> QED BY <1>1, <1>11, <2>1 DEF DigestOfMessage, count
<1>14. Pointers' /\ Boundary'
  BY <1>1, <1>2 DEF ShaInv, Pointers, Boundary
<1> QED BY <1>1, <1>11, <1>13, <1>14 DEF ShaInv

LEMMA ShaInit == Init => ShaInv
<1> SUFFICES ASSUME Init PROVE ShaInv
  OBVIOUS
<1>1. Len(blocks) = 0 /\ blocks \in Seq([Positions -> Cells]) /\ 0 * Block = 0 /\ 0 \in Positions
  BY Shape, SMT DEF Init
<1>2. Counted(size, 8 * (Len(blocks) * Block))
  <2>1. 8 * 0 = 0 /\ 0 * Word64 + 0 = 0 /\ 0 \in Nat /\ 0 \in 0 .. Word64 - 1
    BY Shape, SMT
  <2> QED BY <1>1, <2>1 DEF Init, Counted
<1>3. Streaming
  <2>1. Consumed = Len(blocks) * Block + idx
    BY <1>1, SMT DEF Init, Consumed
  <2>2. ~(0 > 0) /\ 1 .. 0 = {}
    BY SMT
  <2> QED BY <1>1, <1>2, <2>1, <2>2 DEF Init, Streaming
<1>4. Pointers /\ Boundary /\ DigestOfMessage
  BY DEF Init, Pointers, Boundary, DigestOfMessage
<1> QED BY <1>1, <1>3, <1>4 DEF Init, ShaInv

LEMMA ShaStep == ShaInv /\ [Next]_vars => ShaInv'
<1> SUFFICES ASSUME ShaInv, [Next]_vars PROVE ShaInv'
  OBVIOUS
<1>1. CASE UNCHANGED vars
  <2>1. UNCHANGED <<input, idx, size, blocks, pc, message, aligned, left, turn, given>>
    BY <1>1 DEF vars, ctx, call
  <2> QED BY <2>1
          DEF ShaInv, Pointers, Boundary, Streaming, Closing, Consumed, Counted, PaddedBlock,
              DigestOfMessage
<1> QED BY <1>1, UpdateStep, ByteStep, AlignedStep, WholeBlockStep, BlocksDoneStep,
          UpdatedStep, FinalStep, LastStep DEF Next, Reuse

\* However the message is cut up, for any size of block and word: the blocks
\* that reach the compression function are those of the padded message.
THEOREM DigestsTheMessage == Spec => []DigestOfMessage
<1>1. ShaInv => DigestOfMessage
  BY DEF ShaInv
<1> QED BY ShaInit, ShaStep, <1>1, PTL DEF Spec

-----------------------------------------------------------------------------
(***************************************************************************)
(* The server URL: what is set was validated, and what was validated still *)
(* has a host, and room for a path, when its trailing slashes are gone.    *)
(***************************************************************************)

\* A set of numbers up to n that is not empty has a largest one.
LEMMA HasLargest ==
  ASSUME NEW n \in Nat, NEW T, T \subseteq 1 .. n, T # {}
  PROVE  \E x \in T : \A y \in T : y <= x
<1> DEFINE D == {n - k : k \in T}
           R == OpToRel(<, Nat)
<1>1. D \subseteq Nat /\ D # {}
  <2>1. \A k \in T : n - k \in Nat
    BY SMT
  <2> QED BY <2>1
<1>2. IsWellFoundedOn(R, Nat)
  BY NatLessThanWellFounded
<1>3. PICK d \in D : \A e \in D : <<e, d>> \notin R
  <2> HIDE DEF D, R
  <2> QED BY <1>1, <1>2, WFMin
<1>4. PICK x \in T : d = n - x
  OBVIOUS
<1>5. \A y \in T : ~(n - y < n - x)
  <2> SUFFICES ASSUME NEW y \in T, n - y < n - x PROVE FALSE
    OBVIOUS
  <2>1. n - y \in D /\ n - y \in Nat /\ n - x \in Nat
    BY <1>1
  <2>2. <<n - y, n - x>> \in R
    BY <2>1 DEF OpToRel
  <2> QED BY <1>3, <1>4, <2>1, <2>2
<1>6. \A y \in T : y <= x
  BY <1>5, SMT
<1> QED BY <1>6

\* What sotaBuildApiUrl() strips from a URL that was accepted.
LEMMA StripsSlashes ==
  ASSUME NEW url \in Seq(Pieces), ValidateServerUrl(url) = "ok"
  PROVE  \E n \in 2 .. Len(url) :
           /\ Stripped(url) = SubSeq(url, 1, n)
           /\ url[n] # "/"
<1> DEFINE Kept == {k \in DOMAIN url : k = 1 \/ url[k] # "/"}
<1>1. Len(url) > 1 /\ url[2] # "/" /\ Len(url) \in Nat
  BY SMT DEF ValidateServerUrl, HasHost
<1>2. DOMAIN url = 1 .. Len(url)
  OBVIOUS
<1>3. 2 \in Kept
  BY <1>1, <1>2, SMT
<1>4. \E x \in Kept : \A y \in Kept : y <= x
  <2>1. Kept \subseteq 1 .. Len(url)
    BY <1>2
  <2> HIDE DEF Kept
  <2> QED BY <1>1, <1>3, <2>1, HasLargest
<1> DEFINE n == CHOOSE x \in Kept : \A y \in Kept : y <= x
<1>5. n \in Kept /\ 2 <= n
  <2>1. n \in Kept /\ \A y \in Kept : y <= n
    <3> HIDE DEF Kept
    <3> QED BY <1>4
  <2> QED BY <1>3, <2>1
<1>6. Stripped(url) = SubSeq(url, 1, n)
  BY DEF Stripped
<1> HIDE DEF n
<1>7. n \in 2 .. Len(url) /\ url[n] # "/"
  BY <1>1, <1>2, <1>5, SMT
<1> QED BY <1>6, <1>7

\* A path of two pieces after a base.
LEMMA PathAppended ==
  ASSUME NEW S, NEW base \in Seq(S), NEW path \in Seq(S), Len(path) = 2
  PROVE  /\ base \o path \in Seq(S) /\ Len(base \o path) = Len(base) + 2
         /\ \A k \in 1 .. Len(base) : (base \o path)[k] = base[k]
         /\ (base \o path)[Len(base) + 1] = path[1]
         /\ (base \o path)[Len(base) + 2] = path[2]
<1>1. Len(base) \in Nat
  OBVIOUS
<1>2. /\ base \o path \in Seq(S) /\ Len(base \o path) = Len(base) + Len(path)
      /\ \A i \in 1 .. Len(base) + Len(path) :
           (base \o path)[i] = IF i <= Len(base) THEN base[i] ELSE path[i - Len(base)]
  BY ConcatProperties
<1>3. \A k \in 1 .. Len(base) : (base \o path)[k] = base[k]
  BY <1>1, <1>2
<1>4. /\ Len(base) + 1 \in 1 .. Len(base) + Len(path) /\ ~(Len(base) + 1 <= Len(base))
      /\ Len(base) + 2 \in 1 .. Len(base) + Len(path) /\ ~(Len(base) + 2 <= Len(base))
      /\ Len(base) + 1 - Len(base) = 1 /\ Len(base) + 2 - Len(base) = 2
  BY <1>1
<1> QED BY <1>2, <1>3, <1>4

UrlInv ==
  /\ candidate \in Seq(Pieces) /\ serverUrl \in Seq(Pieces)
  /\ ValidateServerUrl(serverUrl) = "ok"

\* The URL of a request, for every base that was accepted.
LEMMA ValidReachesHost == UrlInv => RequestsReachHost
<1> SUFFICES ASSUME UrlInv PROVE RequestsReachHost
  OBVIOUS
<1> DEFINE path == <<"/", "a">>
           outLen == UrlMax + PathRoom
           base == Stripped(serverUrl)
           url == BuildApiUrl(serverUrl, path, outLen)
<1>1. serverUrl \in Seq(Pieces) /\ ValidateServerUrl(serverUrl) = "ok"
  BY DEF UrlInv
<1>2. PICK n \in 2 .. Len(serverUrl) :
        base = SubSeq(serverUrl, 1, n) /\ serverUrl[n] # "/"
  BY <1>1, StripsSlashes
<1>3. /\ UrlLen(serverUrl) <= UrlMax /\ serverUrl # <<>>
      /\ \A k \in DOMAIN serverUrl : serverUrl[k] # "blank"
      /\ serverUrl[1] \in Https /\ Len(serverUrl) > 1 /\ serverUrl[2] # "/"
  <2>1. serverUrl # <<>> /\ ~(UrlLen(serverUrl) > UrlMax)
    BY <1>1 DEF ValidateServerUrl
  <2>2. \A k \in DOMAIN serverUrl : serverUrl[k] # "blank"
    BY <1>1, <2>1 DEF ValidateServerUrl
  <2>3. serverUrl[1] \in Https /\ HasHost(serverUrl)
    BY <1>1, <2>1, <2>2 DEF ValidateServerUrl
  <2>4. UrlLen(serverUrl) \in Nat
    BY <1>1, <2>1, SMT DEF UrlLen, PieceLen
  <2>5. UrlLen(serverUrl) <= UrlMax
    BY <2>1, <2>4, UrlAssumption, SMT
  <2> QED BY <2>1, <2>2, <2>3, <2>5 DEF HasHost
<1>4. /\ base \in Seq(Pieces) /\ Len(base) = n
      /\ \A k \in 1 .. n : base[k] = serverUrl[k]
  BY <1>1, <1>2, SMT
<1>5. UrlLen(base) \in Nat /\ UrlLen(base) <= UrlMax
  <2>1. UrlLen(serverUrl) = 8 + Len(serverUrl) - 1
    BY <1>3 DEF UrlLen, PieceLen
  <2>2. base # <<>> /\ base[1] = serverUrl[1]
    BY <1>2, <1>4, SMT
  <2>3. UrlLen(base) = 8 + n - 1
    BY <1>3, <1>4, <2>2 DEF UrlLen, PieceLen
  <2> QED BY <1>1, <1>2, <1>3, <2>1, <2>3, UrlAssumption, SMT
<1>6. path \in Seq(Pieces) /\ Len(path) = 2 /\ path[1] = "/" /\ path[2] = "a"
  BY DEF Pieces
<1> HIDE DEF base, path
<1>7. url = base \o path
  <2>1. ~(UrlLen(base) >= outLen \/ Len(path) > outLen - 1 - UrlLen(base))
    BY <1>5, <1>6, UrlAssumption, SMT
  <2>2. url = IF UrlLen(base) >= outLen \/ Len(path) > outLen - 1 - UrlLen(base)
              THEN NoUrl ELSE base \o path
    BY DEF BuildApiUrl, base
  <2> QED BY <2>1, <2>2
<1> HIDE DEF url
<1>8. /\ url \in Seq(Pieces) /\ Len(url) = n + 2
      /\ \A k \in 1 .. n : url[k] = serverUrl[k]
      /\ url[n + 1] = "/" /\ url[n + 2] = "a"
  <2>1. /\ url \in Seq(Pieces) /\ Len(url) = Len(base) + 2
        /\ \A k \in 1 .. Len(base) : url[k] = base[k]
        /\ url[Len(base) + 1] = path[1] /\ url[Len(base) + 2] = path[2]
    BY <1>4, <1>6, <1>7, PathAppended
  <2> QED BY <1>4, <1>6, <2>1
<1>9. Len(url) - Len(path) = n
  BY <1>2, <1>6, <1>8, SMT
<1>10. url # NoUrl /\ url[1] \in Https /\ n > 1 /\ url[2] # "/" /\ url[n] # "/"
  BY <1>2, <1>3, <1>8, SMT DEF NoUrl
<1>11. SubSeq(url, 1, n) = SubSeq(serverUrl, 1, n)
  BY <1>1, <1>2, <1>8, SMT
<1>12. \A k \in DOMAIN url : url[k] # "blank"
  <2> SUFFICES ASSUME NEW k \in DOMAIN url PROVE url[k] # "blank"
    OBVIOUS
  <2>1. k \in 1 .. n \/ k = n + 1 \/ k = n + 2
    BY <1>2, <1>8, SMT
  <2>2. k \in 1 .. n => k \in DOMAIN serverUrl
    BY <1>1, <1>2, SMT
  <2> QED BY <1>3, <1>8, <2>1, <2>2
<1> QED BY <1>9, <1>10, <1>11, <1>12 DEF RequestsReachHost, path, url

LEMMA UrlStarts == UrlInit => UrlInv
<1> SUFFICES ASSUME UrlInit PROVE UrlInv
  OBVIOUS
<1>1. /\ DefaultUrl \in Seq({"https://", "a"}) /\ Len(DefaultUrl) \in 2 .. UrlMax - 7
      /\ \A k \in DOMAIN DefaultUrl : DefaultUrl[k] = "https://" <=> k = 1
      /\ UrlMax \in Nat
  BY UrlAssumption
<1>2. /\ DefaultUrl \in Seq(Pieces) /\ DOMAIN DefaultUrl = 1 .. Len(DefaultUrl)
      /\ DefaultUrl # <<>> /\ Len(DefaultUrl) > 1
  BY <1>1, SMT DEF Pieces
<1>3. DefaultUrl[1] = "https://" /\ DefaultUrl[2] = "a"
  <2>1. 1 \in DOMAIN DefaultUrl /\ 2 \in DOMAIN DefaultUrl /\ 2 # 1
    BY <1>1, <1>2, SMT
  <2>2. DefaultUrl[2] \in {"https://", "a"}
    BY <1>1, <1>2, <2>1, SMT
  <2> QED BY <1>1, <2>1, <2>2
<1>4. \A k \in DOMAIN DefaultUrl : DefaultUrl[k] # "blank"
  <2>1. \A k \in DOMAIN DefaultUrl : DefaultUrl[k] \in {"https://", "a"}
    BY <1>1, <1>2, SMT
  <2> QED BY <2>1
<1>5. ~(UrlLen(DefaultUrl) > UrlMax)
  <2>1. UrlLen(DefaultUrl) = 8 + Len(DefaultUrl) - 1
    BY <1>2, <1>3 DEF UrlLen, PieceLen, Https
  <2> QED BY <1>1, <2>1, SMT
<1>6. ValidateServerUrl(DefaultUrl) = "ok"
  BY <1>2, <1>3, <1>4, <1>5 DEF ValidateServerUrl, HasHost, Https
<1>7. <<>> \in Seq(Pieces)
  OBVIOUS
<1> QED BY <1>2, <1>6, <1>7 DEF UrlInit, UrlInv

LEMMA UrlStep == UrlInv /\ [UrlNext]_urlVars => UrlInv'
<1> SUFFICES ASSUME UrlInv, [UrlNext]_urlVars PROVE UrlInv'
  OBVIOUS
<1>1. ASSUME NEW piece \in Pieces, Extend(piece) PROVE UrlInv'
  <2>1. candidate' \in Seq(Pieces) /\ serverUrl' = serverUrl
    BY <1>1, SMT DEF Extend, UrlInv
  <2> QED BY <2>1 DEF UrlInv, ValidateServerUrl, UrlLen, HasHost
<1>2. CASE SetServerUrl
  <2>1. candidate' = <<>> /\ <<>> \in Seq(Pieces)
    BY <1>2 DEF SetServerUrl
  <2>2. serverUrl' \in Seq(Pieces) /\ ValidateServerUrl(serverUrl') = "ok"
    BY <1>2 DEF SetServerUrl, SelectServerUrl, UrlInv
  <2> QED BY <2>1, <2>2 DEF UrlInv, ValidateServerUrl, UrlLen, HasHost
<1>3. CASE UNCHANGED urlVars
  BY <1>3 DEF urlVars, UrlInv, ValidateServerUrl, UrlLen, HasHost
<1> QED BY <1>1, <1>2, <1>3 DEF UrlNext

\* Whatever strings the sketch sets, however long: every request goes over TLS
\* to the host that was set or the default one, and postJson()'s buffer holds
\* its URL.
THEOREM UrlReachesHost == UrlInit /\ [][UrlNext]_urlVars => []RequestsReachHost
<1> QED BY UrlStarts, UrlStep, ValidReachesHost, PTL

-----------------------------------------------------------------------------
(***************************************************************************)
(* What the signing code reads is what the text spells.  The decoder's     *)
(* state after each piece is the solution of a recursion (RecursionSolved) *)
(* and stands in the relation Faithful to the digits so far, by induction  *)
(* along the text (AlongText).                                             *)
(***************************************************************************)

\* Induction along a text: what holds of no piece, and of one more whenever it
\* holds of the pieces before, holds of every prefix.
LEMMA AlongText ==
  ASSUME NEW n \in Nat, NEW K, 0 \in K,
         \A k \in 1 .. n : k - 1 \in K => k \in K
  PROVE  \A k \in 0 .. n : k \in K
<1> DEFINE T == {k \in 0 .. n : k \notin K}
           R == OpToRel(<, Nat)
<1>1. SUFFICES ASSUME T # {} PROVE FALSE
  OBVIOUS
<1>2. T \subseteq Nat
  BY SMT
<1>3. PICK x \in T : \A y \in T : <<y, x>> \notin R
  <2>1. IsWellFoundedOn(R, Nat)
    BY NatLessThanWellFounded
  <2> HIDE DEF T, R
  <2> QED BY <1>1, <1>2, <2>1, WFMin
<1>4. x \in 1 .. n
  BY SMT
<1>5. x - 1 \in 0 .. n /\ x - 1 \in Nat /\ x \in Nat /\ x - 1 < x
  BY <1>4, SMT
<1>6. <<x - 1, x>> \in R
  BY <1>5 DEF OpToRel
<1>7. x - 1 \in K
  BY <1>3, <1>5, <1>6
<1> QED BY <1>4, <1>7

\* A recursion along the first n numbers has a solution.
Steps(n, S) == [S -> [1 .. n -> S]]
Follows(f, n, start, step) ==
  f[0] = start /\ \A k \in 1 .. n : f[k] = step[f[k - 1]][k]
LEMMA RecursionSolved ==
  ASSUME NEW n \in Nat, NEW S, NEW start \in S, NEW step \in Steps(n, S)
  PROVE  \E f \in [0 .. n -> S] : Follows(f, n, start, step)
<1>0. step \in [S -> [1 .. n -> S]]
  BY DEF Steps
<1> DEFINE Upto(f, m) == f[0] = start /\ \A k \in 1 .. m : f[k] = step[f[k - 1]][k]
           K == {m \in 0 .. n : \E f \in [0 .. m -> S] : Upto(f, m)}
<1>1. 0 \in K
  <2>1. 0 \in 0 .. n /\ 0 .. 0 = {0} /\ 1 .. 0 = {}
    BY SMT
  <2>2. [k \in 0 .. 0 |-> start] \in [0 .. 0 -> S] /\ [k \in 0 .. 0 |-> start][0] = start
    BY <2>1
  <2>3. Upto([k \in 0 .. 0 |-> start], 0)
    BY <2>1, <2>2
  <2> QED BY <2>1, <2>2, <2>3
<1>2. ASSUME NEW m \in 1 .. n, m - 1 \in K PROVE m \in K
  <2>1. PICK f \in [0 .. m - 1 -> S] : Upto(f, m - 1)
    BY <1>2
  <2> DEFINE g == [k \in 0 .. m |-> IF k = m THEN step[f[m - 1]][m] ELSE f[k]]
  <2>2. /\ m \in 0 .. n /\ m - 1 \in 0 .. m - 1 /\ m \in 0 .. m /\ m # 0 /\ 0 \in 0 .. m
        /\ \A k \in 0 .. m : k = m \/ k \in 0 .. m - 1
        /\ \A k \in 1 .. m : k - 1 \in 0 .. m /\ k \in 0 .. m /\ k - 1 # m
        /\ \A k \in 1 .. m : k = m \/ k \in 1 .. m - 1
    BY SMT
  <2>3. f[m - 1] \in S /\ step[f[m - 1]][m] \in S
    BY <1>0, <2>2
  <2>4. g \in [0 .. m -> S]
    BY <2>2, <2>3
  <2>5. ASSUME NEW k \in 1 .. m PROVE g[k] = step[g[k - 1]][k]
    <3>1. CASE k = m
      <4>1. g[m - 1] = f[m - 1]
        BY <2>2
      <4> QED BY <2>2, <3>1, <4>1
    <3>2. CASE k # m
      <4>1. k \in 1 .. m - 1 /\ g[k] = f[k] /\ g[k - 1] = f[k - 1]
        BY <2>2, <3>2
      <4> QED BY <2>1, <4>1
    <3> QED BY <3>1, <3>2
  <2>6. g[0] = start
    BY <2>1, <2>2
  <2> QED BY <2>2, <2>4, <2>5, <2>6
<1>3. n \in K
  <2>1. \A k \in 0 .. n : k \in K
    <3> HIDE DEF K
    <3> QED BY <1>1, <1>2, AlongText
  <2> QED BY <2>1, SMT
<1> QED BY <1>3 DEF Follows

\* The digits of a text, and the types of the decoder's fields.
DigitPieces == {piece \in TextPieces : IsDigit(piece)}
Decoders ==
  [acc : Nat, bits : {0, 2, 4, 6}, out : Seq(0 .. 255), padded : BOOLEAN, ok : BOOLEAN]

\* A piece is a digit or one of the five marks.
LEMMA PieceKinds ==
  ASSUME NEW piece \in TextPieces
  PROVE  /\ IsDigit(piece) => piece[2] \in 0 .. 63
         /\ \/ IsDigit(piece)
            \/ \E m \in {"pad", "space", "begin", "end", "other"} : piece = Mark(m)
         /\ \A m \in {"pad", "space", "begin", "end", "other"} :
              piece[1] = m <=> piece = Mark(m)
         /\ IsDigit(piece) =>
              \A m \in {"pad", "space", "begin", "end", "other"} : piece # Mark(m)
<1>1. DigitsUsed \subseteq 0 .. 63
  BY KeyTextAssumption
<1>2. CASE \E d \in DigitsUsed : piece = Digit(d)
  <2>1. PICK d \in DigitsUsed : piece = <<"digit", d>>
    BY <1>2 DEF Digit
  <2>2. piece[1] = "digit" /\ piece[2] = d
    BY <2>1
  <2> QED BY <1>1, <2>1, <2>2 DEF IsDigit, Mark
<1>3. CASE \E m \in {"pad", "space", "begin", "end", "other"} : piece = Mark(m)
  BY <1>3 DEF IsDigit, Mark
<1> QED BY <1>2, <1>3 DEF TextPieces

\* The powers of two below 2^7.
LEMMA Powers ==
  /\ TwoTo(0) = 1 /\ TwoTo(1) = 2 /\ TwoTo(2) = 4 /\ TwoTo(3) = 8
  /\ TwoTo(4) = 16 /\ TwoTo(5) = 32 /\ TwoTo(6) = 64
BY DEF TwoTo

\* The accumulator after one digit more, and the byte it yields.
AccWith(s, d) == (s.acc * 64 + d) % AccMod
ByteWith(s, d) == (AccWith(s, d) \div TwoTo(s.bits - 2)) % 256

\* They are a number and a byte.
LEMMA AccTypes ==
  ASSUME NEW s \in Decoders, NEW d \in 0 .. 63
  PROVE  /\ AccWith(s, d) \in Nat
         /\ s.bits # 0 => ByteWith(s, d) \in 0 .. 255
<1>1. s.acc \in Nat /\ s.bits \in {0, 2, 4, 6}
  BY DEF Decoders
<1>2. AccWith(s, d) \in Nat
  <2>1. PICK x \in Nat : x = s.acc * 64 + d
    BY <1>1, SMT
  <2>2. AccMod \in Nat \ {0}
    BY KeyTextAssumption
  <2>3. x % AccMod \in 0 .. AccMod - 1
    BY <2>2, DivisionBounds
  <2>4. x % AccMod \in Nat
    BY <2>2, <2>3, SMT
  <2> QED BY <2>1, <2>4 DEF AccWith
<1>3. ASSUME s.bits # 0 PROVE ByteWith(s, d) \in 0 .. 255
  <2>1. s.bits = 2 \/ s.bits = 4 \/ s.bits = 6
    BY <1>1, <1>3
  <2>2. TwoTo(s.bits - 2) \in {1, 4, 16}
    BY <2>1, Powers
  <2>3. AccWith(s, d) \div TwoTo(s.bits - 2) \in Nat
    BY <1>2, <2>2, SMT
  <2> QED BY <2>3, SMT DEF ByteWith
<1> QED BY <1>2, <1>3

\* One digit more.
LEMMA Shifted ==
  ASSUME NEW s \in Decoders, NEW d \in 0 .. 63, NEW room \in Nat
  PROVE  LET r == Shift(s, d, room)
         IN  /\ r \in Decoders /\ r.padded = s.padded
             /\ s.bits = 0 =>
                  r.acc = AccWith(s, d) /\ r.bits = 6 /\ r.out = s.out /\ r.ok = s.ok
             /\ s.bits # 0 /\ Len(s.out) >= room => ~r.ok
             /\ s.bits # 0 /\ ~(Len(s.out) >= room) =>
                  /\ r.acc = AccWith(s, d) /\ r.bits = s.bits - 2 /\ r.ok = s.ok
                  /\ r.out = Append(s.out, ByteWith(s, d))
<1> DEFINE bits == s.bits + 6
           r == Shift(s, d, room)
<1>1. /\ s.bits \in {0, 2, 4, 6} /\ s.out \in Seq(0 .. 255) /\ Len(s.out) \in Nat
      /\ s.padded \in BOOLEAN /\ s.ok \in BOOLEAN
      /\ s = [acc |-> s.acc, bits |-> s.bits, out |-> s.out, padded |-> s.padded, ok |-> s.ok]
  BY DEF Decoders
<1>2. r = IF bits < 8 THEN [s EXCEPT !.acc = AccWith(s, d), !.bits = bits]
          ELSE IF Len(s.out) >= room THEN [s EXCEPT !.ok = FALSE]
          ELSE [s EXCEPT !.acc = AccWith(s, d), !.bits = bits - 8,
                         !.out = Append(s.out, (AccWith(s, d) \div TwoTo(bits - 8)) % 256)]
  BY DEF Shift, AccWith
<1>3. AccWith(s, d) \in Nat /\ (s.bits # 0 => ByteWith(s, d) \in 0 .. 255)
  BY AccTypes
<1> HIDE DEF r
<1>4. CASE s.bits = 0
  <2>1. bits = 6 /\ bits < 8
    BY <1>4
  <2>2. r = [s EXCEPT !.acc = AccWith(s, d), !.bits = 6]
    BY <1>2, <2>1
  <2>3. r \in Decoders
    BY <1>3, <2>2 DEF Decoders
  <2>4. r.padded = s.padded /\ r.acc = AccWith(s, d) /\ r.bits = 6 /\ r.out = s.out
        /\ r.ok = s.ok
    BY <1>1, <2>2
  <2> QED BY <1>4, <2>3, <2>4 DEF r
<1>5. CASE s.bits # 0 /\ Len(s.out) >= room
  <2>1. ~(bits < 8)
    BY <1>1, <1>5
  <2>2. r = [s EXCEPT !.ok = FALSE]
    BY <1>2, <1>5, <2>1
  <2>3. r \in Decoders
    BY <2>2 DEF Decoders
  <2>4. r.padded = s.padded /\ ~r.ok
    BY <1>1, <2>2
  <2> QED BY <1>5, <2>3, <2>4 DEF r
<1>6. CASE s.bits # 0 /\ ~(Len(s.out) >= room)
  <2>1. ~(bits < 8) /\ bits - 8 = s.bits - 2
    BY <1>1, <1>6
  <2>2. r = [s EXCEPT !.acc = AccWith(s, d), !.bits = s.bits - 2,
                      !.out = Append(s.out, ByteWith(s, d))]
    BY <1>2, <1>6, <2>1 DEF ByteWith
  <2>3. s.bits - 2 \in {0, 2, 4, 6}
    BY <1>1, <1>6
  <2>4. Append(s.out, ByteWith(s, d)) \in Seq(0 .. 255)
    <3>1. ByteWith(s, d) \in 0 .. 255
      BY <1>3, <1>6
    <3> QED BY <1>1, <3>1, AppendProperties
  <2>5. r \in Decoders
    BY <1>3, <2>2, <2>3, <2>4 DEF Decoders
  <2>6. r.padded = s.padded /\ r.acc = AccWith(s, d) /\ r.bits = s.bits - 2 /\ r.ok = s.ok
        /\ r.out = Append(s.out, ByteWith(s, d))
    BY <1>1, <2>2
  <2> QED BY <1>6, <2>5, <2>6 DEF r
<1> QED BY <1>4, <1>5, <1>6

\* What one piece does to the decoder.
LEMMA OnePiece ==
  ASSUME NEW s \in Decoders, NEW piece \in TextPieces, NEW room \in Nat
  PROVE  DecodeStep(s, piece, room) \in Decoders
<1>0. [s EXCEPT !.padded = TRUE] \in Decoders /\ [s EXCEPT !.ok = FALSE] \in Decoders
  BY DEF Decoders
<1>1. CASE IsDigit(piece)
  <2>1. PICK d \in 0 .. 63 : d = piece[2]
    BY <1>1, PieceKinds
  <2>2. Shift(s, d, room) \in Decoders
    BY Shifted
  <2>3. \/ DecodeStep(s, piece, room) = s
        \/ DecodeStep(s, piece, room) = [s EXCEPT !.padded = TRUE]
        \/ DecodeStep(s, piece, room) = [s EXCEPT !.ok = FALSE]
        \/ DecodeStep(s, piece, room) = Shift(s, d, room)
    BY <2>1 DEF DecodeStep
  <2> QED BY <1>0, <2>2, <2>3, Zenon
<1>2. CASE ~IsDigit(piece)
  <2>1. \/ DecodeStep(s, piece, room) = s
        \/ DecodeStep(s, piece, room) = [s EXCEPT !.padded = TRUE]
        \/ DecodeStep(s, piece, room) = [s EXCEPT !.ok = FALSE]
    BY <1>2 DEF DecodeStep
  <2> QED BY <1>0, <2>1, Zenon
<1> QED BY <1>1, <1>2

\* The decoder, one piece more at a time.
LEMMA DecodingUnfolds ==
  ASSUME NEW t \in Seq(TextPieces), NEW room \in Nat
  PROVE  LET s == Decoding(t, room)
         IN  /\ s \in [0 .. Len(t) -> Decoders] /\ s[0] = Start
             /\ \A k \in 1 .. Len(t) : s[k] = DecodeStep(s[k - 1], t[k], room)
<1> DEFINE n == Len(t)
           Solves(f) ==
             f = [k \in 0 .. Len(t) |-> IF k = 0 THEN Start ELSE DecodeStep(f[k - 1], t[k], room)]
           step == [d \in Decoders |-> [k \in 1 .. n |-> DecodeStep(d, t[k], room)]]
           s == Decoding(t, room)
<1>1. n \in Nat /\ \A k \in 1 .. n : t[k] \in TextPieces
  OBVIOUS
<1>2. Start \in Decoders
  BY DEF Start, Decoders
<1>3. step \in Steps(n, Decoders)
  BY <1>1, OnePiece DEF Steps
<1>4. PICK f \in [0 .. n -> Decoders] :
        f[0] = Start /\ \A k \in 1 .. n : f[k] = step[f[k - 1]][k]
  <2>1. \E f \in [0 .. n -> Decoders] : Follows(f, n, Start, step)
    <3> HIDE DEF step, n
    <3> QED BY <1>1, <1>2, <1>3, RecursionSolved
  <2> HIDE DEF step, n
  <2> QED BY <2>1 DEF Follows
<1>5. \A k \in 0 .. n : k = 0 \/ (k \in 1 .. n /\ k - 1 \in 0 .. n)
  BY <1>1, SMT
<1>6. Solves(f)
  <2>1. \A k \in 0 .. n : f[k] = IF k = 0 THEN Start ELSE DecodeStep(f[k - 1], t[k], room)
    <3>1. \A k \in 1 .. n : f[k - 1] \in Decoders /\ k # 0
      BY <1>4, <1>5
    <3>2. \A k \in 1 .. n : f[k] = DecodeStep(f[k - 1], t[k], room)
      BY <1>4, <3>1
    <3> QED BY <1>4, <1>5, <3>1, <3>2
  <2> HIDE DEF step
  <2> QED BY <1>4, <2>1
<1>7. Solves(CHOOSE g : Solves(g))
  <2> HIDE DEF Solves
  <2> QED BY <1>6
<1>8. s = CHOOSE g : Solves(g)
  BY Zenon DEF Decoding
<1>9. Solves(s)
  BY <1>7, <1>8
<1>10. /\ s[0] = Start /\ DOMAIN s = 0 .. n
       /\ \A k \in 1 .. n : s[k] = DecodeStep(s[k - 1], t[k], room)
  <2> HIDE DEF s
  <2>1. \A k \in 0 .. n : s[k] = IF k = 0 THEN Start ELSE DecodeStep(s[k - 1], t[k], room)
    BY <1>9
  <2>2. 0 \in 0 .. n /\ \A k \in 1 .. n : k \in 0 .. n /\ k # 0
    BY <1>1, SMT
  <2> QED BY <1>9, <2>1, <2>2
<1>11. \A k \in 0 .. n : s[k] \in Decoders
  <2> DEFINE K == {k \in 0 .. n : s[k] \in Decoders}
  <2>1. 0 \in K
    BY <1>1, <1>2, <1>10, SMT
  <2>2. ASSUME NEW k \in 1 .. n, k - 1 \in K PROVE k \in K
    <3>1. k \in 0 .. n
      BY <1>1, SMT
    <3> HIDE DEF s
    <3> QED BY <1>1, <1>10, <2>2, <3>1, OnePiece
  <2>3. \A k \in 0 .. n : k \in K
    <3> HIDE DEF K, n
    <3> QED BY <1>1, <2>1, <2>2, AlongText
  <2> QED BY <2>3
<1>12. s \in [0 .. n -> Decoders]
  <2> HIDE DEF s
  <2>1. s = [k \in 0 .. n |-> s[k]]
    BY <1>9
  <2> QED BY <1>11, <2>1
<1> QED BY <1>10, <1>12

\* The digits of a text, one piece more at a time.
LEMMA DigitsUnfold ==
  ASSUME NEW t \in Seq(TextPieces)
  PROVE  LET d == DigitsOf(t)
         IN  /\ d \in [0 .. Len(t) -> Seq(DigitPieces)] /\ d[0] = <<>>
             /\ \A k \in 1 .. Len(t) :
                  d[k] = IF IsDigit(t[k]) THEN Append(d[k - 1], t[k]) ELSE d[k - 1]
<1> DEFINE n == Len(t)
           S == Seq(DigitPieces)
           With(d, piece) == IF IsDigit(piece) THEN Append(d, piece) ELSE d
           Solves(f) ==
             f = [k \in 0 .. Len(t) |->
                    IF k = 0 THEN <<>>
                    ELSE IF IsDigit(t[k]) THEN Append(f[k - 1], t[k]) ELSE f[k - 1]]
           step == [d \in S |-> [k \in 1 .. n |-> With(d, t[k])]]
           s == DigitsOf(t)
<1>1. n \in Nat /\ \A k \in 1 .. n : t[k] \in TextPieces
  OBVIOUS
<1>2. <<>> \in S
  OBVIOUS
<1>3. \A d \in S, piece \in TextPieces : With(d, piece) \in S
  BY AppendProperties DEF DigitPieces
<1>4. step \in Steps(n, S)
  <2> HIDE DEF S, With
  <2> QED BY <1>1, <1>3 DEF Steps
<1>5. PICK f \in [0 .. n -> S] :
        f[0] = <<>> /\ \A k \in 1 .. n : f[k] = step[f[k - 1]][k]
  <2>1. \E f \in [0 .. n -> S] : Follows(f, n, <<>>, step)
    <3> HIDE DEF step, n, S
    <3> QED BY <1>1, <1>2, <1>4, RecursionSolved
  <2> HIDE DEF step, n, S
  <2> QED BY <2>1 DEF Follows
<1>6. \A k \in 0 .. n : k = 0 \/ (k \in 1 .. n /\ k - 1 \in 0 .. n)
  BY <1>1, SMT
<1>7. Solves(f)
  <2>1. \A k \in 0 .. n : f[k] = IF k = 0 THEN <<>> ELSE With(f[k - 1], t[k])
    <3>1. \A k \in 1 .. n : f[k - 1] \in S /\ k # 0
      BY <1>5, <1>6
    <3>2. \A k \in 1 .. n : f[k] = With(f[k - 1], t[k])
      <4> HIDE DEF With, S
      <4> QED BY <1>5, <3>1
    <3> HIDE DEF With
    <3> QED BY <1>5, <1>6, <3>1, <3>2
  <2> HIDE DEF step
  <2> QED BY <1>5, <2>1
<1>8. Solves(CHOOSE g : Solves(g))
  <2> HIDE DEF Solves
  <2> QED BY <1>7
<1>9. s = CHOOSE g : Solves(g)
  BY Zenon DEF DigitsOf
<1>10. Solves(s)
  BY <1>8, <1>9
<1>11. /\ s[0] = <<>> /\ DOMAIN s = 0 .. n
       /\ \A k \in 1 .. n : s[k] = With(s[k - 1], t[k])
  <2> HIDE DEF s
  <2>1. \A k \in 0 .. n : s[k] = IF k = 0 THEN <<>> ELSE With(s[k - 1], t[k])
    BY <1>10
  <2>2. 0 \in 0 .. n /\ \A k \in 1 .. n : k \in 0 .. n /\ k # 0
    BY <1>1, SMT
  <2> HIDE DEF With
  <2> QED BY <1>10, <2>1, <2>2
<1>12. \A k \in 0 .. n : s[k] \in S
  <2> DEFINE K == {k \in 0 .. n : s[k] \in S}
  <2>1. 0 \in K
    <3>1. 0 \in 0 .. n
      BY <1>1, SMT
    <3> HIDE DEF s, S
    <3> QED BY <1>2, <1>11, <3>1
  <2>2. ASSUME NEW k \in 1 .. n, k - 1 \in K PROVE k \in K
    <3>1. k \in 0 .. n
      BY <1>1, SMT
    <3> HIDE DEF s, With, S
    <3> QED BY <1>1, <1>3, <1>11, <2>2, <3>1
  <2>3. \A k \in 0 .. n : k \in K
    <3> HIDE DEF K, n
    <3> QED BY <1>1, <2>1, <2>2, AlongText
  <2> QED BY <2>3
<1>13. s \in [0 .. n -> S]
  <2> HIDE DEF s
  <2>1. s = [k \in 0 .. n |-> s[k]]
    BY <1>10
  <2> QED BY <1>12, <2>1
<1> QED BY <1>11, <1>13

\* What the accumulator says of the last two digits, whatever it lost above.
LastDigits(acc, e, d) == \E u \in Nat : acc = 4096 * u + 64 * e + d
LEMMA AccLow ==
  ASSUME NEW s \in Decoders, NEW d \in 0 .. 63
  PROVE  LastDigits(AccWith(s, d), s.acc % 64, d)
<1>1. s.acc \in Nat /\ AccMod \in Nat \ {0} /\ AccMod % 4096 = 0
  BY KeyTextAssumption DEF Decoders
<1>2. PICK z \in Nat : s.acc = 64 * z + (s.acc % 64)
  <2>1. s.acc \div 64 \in Nat /\ s.acc = 64 * (s.acc \div 64) + (s.acc % 64)
    BY <1>1, SMT
  <2> QED BY <2>1
<1>3. PICK q \in Nat : AccMod = 4096 * q
  <2>1. AccMod \div 4096 \in Nat /\ AccMod = 4096 * (AccMod \div 4096)
    BY <1>1, SMT
  <2> QED BY <2>1
<1>4. PICK x \in Nat : x = s.acc * 64 + d
  BY <1>1, SMT
<1>5. PICK a \in Nat, r \in Nat : x = AccMod * a + r /\ r = x % AccMod
  <2>0. AccMod \in Nat \ {0}
    BY <1>1
  <2>1. x \div AccMod \in Nat /\ x % AccMod \in 0 .. AccMod - 1
        /\ x = AccMod * (x \div AccMod) + (x % AccMod)
    BY ONLY <2>0, DivisionBounds, x \in Nat
  <2>2. x % AccMod \in Nat
    BY <1>1, <2>1, SMT
  <2> QED BY <2>1, <2>2
<1>6. PICK y \in Nat : y = q * a /\ AccMod * a = 4096 * y
  <2>1. q * a \in Nat /\ (4096 * q) * a = 4096 * (q * a)
    BY SMT
  <2> QED BY <1>3, <2>1
<1>7. s.acc % 64 \in 0 .. 63
  BY <1>1, SMT
<1>8. x = 4096 * z + 64 * (s.acc % 64) + d
  BY <1>1, <1>2, <1>4, <1>7, SMT
<1>9. x = 4096 * y + r
  BY <1>5, <1>6
<1>10. z - y \in Nat /\ r = 4096 * (z - y) + 64 * (s.acc % 64) + d
  BY <1>7, <1>8, <1>9, SMT
<1> QED BY <1>4, <1>5, <1>10 DEF AccWith, LastDigits

\* The bits of the digit j + 1, the highest first.
BitAt(x, i) == (x \div TwoTo(5 - i)) % 2
LEMMA BitOfDigit ==
  ASSUME NEW D, NEW j \in Nat
  PROVE  \A i \in 0 .. 5 : Bit(D, 6 * j + i) = BitAt(D[j + 1][2], i)
<1> SUFFICES ASSUME NEW i \in 0 .. 5 PROVE Bit(D, 6 * j + i) = BitAt(D[j + 1][2], i)
  OBVIOUS
<1>1. (6 * j + i) \div 6 = j /\ (6 * j + i) % 6 = i
  BY SMT
<1> QED BY <1>1 DEF Bit, BitAt

\* The bits of a digit make the digit, and each part of them a part of it.
LEMMA DigitBits ==
  ASSUME NEW x \in 0 .. 63
  PROVE  /\ BitAt(x, 0) \in Nat /\ BitAt(x, 1) \in Nat /\ BitAt(x, 2) \in Nat
         /\ BitAt(x, 3) \in Nat /\ BitAt(x, 4) \in Nat /\ BitAt(x, 5) \in Nat
         /\ 128 * BitAt(x, 0) + 64 * BitAt(x, 1) + 32 * BitAt(x, 2)
              + 16 * BitAt(x, 3) + 8 * BitAt(x, 4) + 4 * BitAt(x, 5) = 4 * x
         /\ 2 * BitAt(x, 0) + BitAt(x, 1) = x \div 16
         /\ 128 * BitAt(x, 2) + 64 * BitAt(x, 3) + 32 * BitAt(x, 4)
              + 16 * BitAt(x, 5) = 16 * (x % 16)
         /\ 8 * BitAt(x, 0) + 4 * BitAt(x, 1) + 2 * BitAt(x, 2)
              + BitAt(x, 3) = x \div 4
         /\ 128 * BitAt(x, 4) + 64 * BitAt(x, 5) = 64 * (x % 4)
         /\ 32 * BitAt(x, 0) + 16 * BitAt(x, 1) + 8 * BitAt(x, 2)
              + 4 * BitAt(x, 3) + 2 * BitAt(x, 4) + BitAt(x, 5) = x
<1>1. x \div 1 = x /\ (x \div 32) % 2 = x \div 32 /\ x \div 32 \in Nat
  BY SMT
<1>2. x = 2 * (x \div 2) + (x % 2) /\ x \div 2 \in Nat
  BY SMT
<1>3. x \div 2 = 2 * (x \div 4) + ((x \div 2) % 2) /\ x \div 4 \in Nat
  BY SMT
<1>4. x \div 4 = 2 * (x \div 8) + ((x \div 4) % 2) /\ x \div 8 \in Nat
  BY SMT
<1>5. x \div 8 = 2 * (x \div 16) + ((x \div 8) % 2) /\ x \div 16 \in Nat
  BY SMT
<1>6. x \div 16 = 2 * (x \div 32) + ((x \div 16) % 2)
  BY SMT
<1>7. x % 16 = x - 16 * (x \div 16) /\ x % 4 = x - 4 * (x \div 4)
  BY SMT
<1>8. PICK a \in Nat, b \in Nat, c \in Nat, d \in Nat, e \in Nat, f \in Nat :
        /\ a = (x \div 32) % 2 /\ b = (x \div 16) % 2 /\ c = (x \div 8) % 2
        /\ d = (x \div 4) % 2 /\ e = (x \div 2) % 2 /\ f = x % 2
        /\ BitAt(x, 0) = a /\ BitAt(x, 1) = b /\ BitAt(x, 2) = c
        /\ BitAt(x, 3) = d /\ BitAt(x, 4) = e /\ BitAt(x, 5) = f
  <2>1. /\ BitAt(x, 0) = (x \div 32) % 2 /\ BitAt(x, 1) = (x \div 16) % 2
        /\ BitAt(x, 2) = (x \div 8) % 2 /\ BitAt(x, 3) = (x \div 4) % 2
        /\ BitAt(x, 4) = (x \div 2) % 2 /\ BitAt(x, 5) = x % 2
    <3>1. 5 - 0 = 5 /\ 5 - 1 = 4 /\ 5 - 2 = 3 /\ 5 - 3 = 2 /\ 5 - 4 = 1 /\ 5 - 5 = 0
      BY SMT
    <3>2. /\ TwoTo(5 - 0) = 32 /\ TwoTo(5 - 1) = 16 /\ TwoTo(5 - 2) = 8
          /\ TwoTo(5 - 3) = 4 /\ TwoTo(5 - 4) = 2 /\ TwoTo(5 - 5) = 1
      BY <3>1, Powers
    <3>3. /\ BitAt(x, 0) = (x \div TwoTo(5 - 0)) % 2 /\ BitAt(x, 1) = (x \div TwoTo(5 - 1)) % 2
          /\ BitAt(x, 2) = (x \div TwoTo(5 - 2)) % 2 /\ BitAt(x, 3) = (x \div TwoTo(5 - 3)) % 2
          /\ BitAt(x, 4) = (x \div TwoTo(5 - 4)) % 2 /\ BitAt(x, 5) = (x \div TwoTo(5 - 5)) % 2
      BY Zenon DEF BitAt
    <3> QED BY <1>1, <3>2, <3>3
  <2>2. /\ (x \div 32) % 2 \in Nat /\ (x \div 16) % 2 \in Nat /\ (x \div 8) % 2 \in Nat
        /\ (x \div 4) % 2 \in Nat /\ (x \div 2) % 2 \in Nat /\ x % 2 \in Nat
    BY SMT
  <2> QED BY <2>1, <2>2
<1>10. /\ x \div 32 = a /\ x \div 16 = 2 * a + b /\ x \div 8 = 4 * a + 2 * b + c
       /\ x \div 4 = 8 * a + 4 * b + 2 * c + d
       /\ x = 32 * a + 16 * b + 8 * c + 4 * d + 2 * e + f
  BY <1>1, <1>2, <1>3, <1>4, <1>5, <1>6, <1>8
<1>11. x % 16 = 8 * c + 4 * d + 2 * e + f /\ x % 4 = 2 * e + f
  BY <1>7, <1>10
<1>12. /\ 128 * a + 64 * b + 32 * c + 16 * d + 8 * e + 4 * f = 4 * x
       /\ 2 * a + b = x \div 16
       /\ 128 * c + 64 * d + 32 * e + 16 * f = 16 * (x % 16)
       /\ 8 * a + 4 * b + 2 * c + d = x \div 4
       /\ 128 * e + 64 * f = 64 * (x % 4)
       /\ 32 * a + 16 * b + 8 * c + 4 * d + 2 * e + f = x
  BY <1>10, <1>11
<1>13. /\ BitAt(x, 0) = a /\ BitAt(x, 1) = b /\ BitAt(x, 2) = c
       /\ BitAt(x, 3) = d /\ BitAt(x, 4) = e /\ BitAt(x, 5) = f
  BY <1>8
<1> QED BY <1>12, <1>13, ZenonT(60)

\* A digit is worth 0 to 63.
LEMMA DigitValues ==
  ASSUME NEW D \in Seq(DigitPieces), NEW i \in 1 .. Len(D)
  PROVE  D[i] \in DigitPieces /\ D[i][2] \in 0 .. 63
<1>1. D[i] \in DigitPieces
  OBVIOUS
<1> QED BY <1>1, PieceKinds DEF DigitPieces

\* Four digits make three bytes.
LEMMA OctetParts ==
  ASSUME NEW D \in Seq(DigitPieces), NEW m \in Nat
  PROVE  /\ 4 * m + 2 <= Len(D) =>
              Octet(D, 3 * m + 1) = 4 * D[4 * m + 1][2] + D[4 * m + 2][2] \div 16
         /\ 4 * m + 3 <= Len(D) =>
              Octet(D, 3 * m + 2) = 16 * (D[4 * m + 2][2] % 16) + D[4 * m + 3][2] \div 4
         /\ 4 * m + 4 <= Len(D) =>
              Octet(D, 3 * m + 3) = 64 * (D[4 * m + 3][2] % 4) + D[4 * m + 4][2]
<1>1. PICK x, y, z, w : /\ x = D[4 * m + 1][2] /\ y = D[4 * m + 2][2]
                        /\ z = D[4 * m + 3][2] /\ w = D[4 * m + 4][2]
  OBVIOUS
<1>2. Len(D) \in Nat
  OBVIOUS
<1> DEFINE B(k) == Bit(D, 24 * m + k)
<1>4. /\ B(0) = BitAt(x, 0) /\ B(1) = BitAt(x, 1) /\ B(2) = BitAt(x, 2)
      /\ B(3) = BitAt(x, 3) /\ B(4) = BitAt(x, 4) /\ B(5) = BitAt(x, 5)
  <2>1. PICK j \in Nat : j = 4 * m /\ j + 1 = 4 * m + 1
    BY SMT
  <2>2. /\ 24 * m + 0 = 6 * j /\ 24 * m + 1 = 6 * j + 1 /\ 24 * m + 2 = 6 * j + 2
        /\ 24 * m + 3 = 6 * j + 3 /\ 24 * m + 4 = 6 * j + 4 /\ 24 * m + 5 = 6 * j + 5
    BY <2>1, SMT
  <2>3. x = D[j + 1][2]
    BY <1>1, <2>1
  <2>5. {0, 1, 2, 3, 4, 5} \subseteq 0 .. 5 /\ 6 * j + 0 = 6 * j
    BY SMT
  <2>4. /\ Bit(D, 6 * j) = BitAt(x, 0)
        /\ Bit(D, 6 * j + 1) = BitAt(x, 1)
        /\ Bit(D, 6 * j + 2) = BitAt(x, 2)
        /\ Bit(D, 6 * j + 3) = BitAt(x, 3)
        /\ Bit(D, 6 * j + 4) = BitAt(x, 4)
        /\ Bit(D, 6 * j + 5) = BitAt(x, 5)
    BY <2>3, <2>5, BitOfDigit
  <2> QED BY <2>2, <2>4
<1>5. /\ B(6) = BitAt(y, 0) /\ B(7) = BitAt(y, 1) /\ B(8) = BitAt(y, 2)
      /\ B(9) = BitAt(y, 3) /\ B(10) = BitAt(y, 4) /\ B(11) = BitAt(y, 5)
  <2>1. PICK j \in Nat : j = 4 * m + 1 /\ j + 1 = 4 * m + 2
    BY SMT
  <2>2. /\ 24 * m + 6 = 6 * j /\ 24 * m + 7 = 6 * j + 1 /\ 24 * m + 8 = 6 * j + 2
        /\ 24 * m + 9 = 6 * j + 3 /\ 24 * m + 10 = 6 * j + 4 /\ 24 * m + 11 = 6 * j + 5
    BY <2>1, SMT
  <2>3. y = D[j + 1][2]
    BY <1>1, <2>1
  <2>5. {0, 1, 2, 3, 4, 5} \subseteq 0 .. 5 /\ 6 * j + 0 = 6 * j
    BY SMT
  <2>4. /\ Bit(D, 6 * j) = BitAt(y, 0)
        /\ Bit(D, 6 * j + 1) = BitAt(y, 1)
        /\ Bit(D, 6 * j + 2) = BitAt(y, 2)
        /\ Bit(D, 6 * j + 3) = BitAt(y, 3)
        /\ Bit(D, 6 * j + 4) = BitAt(y, 4)
        /\ Bit(D, 6 * j + 5) = BitAt(y, 5)
    BY <2>3, <2>5, BitOfDigit
  <2> QED BY <2>2, <2>4
<1>6. /\ B(12) = BitAt(z, 0) /\ B(13) = BitAt(z, 1) /\ B(14) = BitAt(z, 2)
      /\ B(15) = BitAt(z, 3) /\ B(16) = BitAt(z, 4) /\ B(17) = BitAt(z, 5)
  <2>1. PICK j \in Nat : j = 4 * m + 2 /\ j + 1 = 4 * m + 3
    BY SMT
  <2>2. /\ 24 * m + 12 = 6 * j /\ 24 * m + 13 = 6 * j + 1 /\ 24 * m + 14 = 6 * j + 2
        /\ 24 * m + 15 = 6 * j + 3 /\ 24 * m + 16 = 6 * j + 4 /\ 24 * m + 17 = 6 * j + 5
    BY <2>1, SMT
  <2>3. z = D[j + 1][2]
    BY <1>1, <2>1
  <2>5. {0, 1, 2, 3, 4, 5} \subseteq 0 .. 5 /\ 6 * j + 0 = 6 * j
    BY SMT
  <2>4. /\ Bit(D, 6 * j) = BitAt(z, 0)
        /\ Bit(D, 6 * j + 1) = BitAt(z, 1)
        /\ Bit(D, 6 * j + 2) = BitAt(z, 2)
        /\ Bit(D, 6 * j + 3) = BitAt(z, 3)
        /\ Bit(D, 6 * j + 4) = BitAt(z, 4)
        /\ Bit(D, 6 * j + 5) = BitAt(z, 5)
    BY <2>3, <2>5, BitOfDigit
  <2> QED BY <2>2, <2>4
<1>7. /\ B(18) = BitAt(w, 0) /\ B(19) = BitAt(w, 1) /\ B(20) = BitAt(w, 2)
      /\ B(21) = BitAt(w, 3) /\ B(22) = BitAt(w, 4) /\ B(23) = BitAt(w, 5)
  <2>1. PICK j \in Nat : j = 4 * m + 3 /\ j + 1 = 4 * m + 4
    BY SMT
  <2>2. /\ 24 * m + 18 = 6 * j /\ 24 * m + 19 = 6 * j + 1 /\ 24 * m + 20 = 6 * j + 2
        /\ 24 * m + 21 = 6 * j + 3 /\ 24 * m + 22 = 6 * j + 4 /\ 24 * m + 23 = 6 * j + 5
    BY <2>1, SMT
  <2>3. w = D[j + 1][2]
    BY <1>1, <2>1
  <2>5. {0, 1, 2, 3, 4, 5} \subseteq 0 .. 5 /\ 6 * j + 0 = 6 * j
    BY SMT
  <2>4. /\ Bit(D, 6 * j) = BitAt(w, 0)
        /\ Bit(D, 6 * j + 1) = BitAt(w, 1)
        /\ Bit(D, 6 * j + 2) = BitAt(w, 2)
        /\ Bit(D, 6 * j + 3) = BitAt(w, 3)
        /\ Bit(D, 6 * j + 4) = BitAt(w, 4)
        /\ Bit(D, 6 * j + 5) = BitAt(w, 5)
    BY <2>3, <2>5, BitOfDigit
  <2> QED BY <2>2, <2>4
<1>8. Octet(D, 3 * m + 1) =
        128 * B(0) + 64 * B(1) + 32 * B(2) + 16 * B(3) + 8 * B(4) + 4 * B(5) + 2 * B(6) + B(7)
  <2>1. /\ 8 * (3 * m + 1) - 8 + 0 = 24 * m + 0
        /\ 8 * (3 * m + 1) - 8 + 1 = 24 * m + 1
        /\ 8 * (3 * m + 1) - 8 + 2 = 24 * m + 2
        /\ 8 * (3 * m + 1) - 8 + 3 = 24 * m + 3
        /\ 8 * (3 * m + 1) - 8 + 4 = 24 * m + 4
        /\ 8 * (3 * m + 1) - 8 + 5 = 24 * m + 5
        /\ 8 * (3 * m + 1) - 8 + 6 = 24 * m + 6
        /\ 8 * (3 * m + 1) - 8 + 7 = 24 * m + 7
    BY SMT
  <2>2. Octet(D, 3 * m + 1) =
          128 * Bit(D, 8 * (3 * m + 1) - 8 + 0)
            + 64 * Bit(D, 8 * (3 * m + 1) - 8 + 1)
            + 32 * Bit(D, 8 * (3 * m + 1) - 8 + 2)
            + 16 * Bit(D, 8 * (3 * m + 1) - 8 + 3)
            + 8 * Bit(D, 8 * (3 * m + 1) - 8 + 4)
            + 4 * Bit(D, 8 * (3 * m + 1) - 8 + 5)
            + 2 * Bit(D, 8 * (3 * m + 1) - 8 + 6)
            + Bit(D, 8 * (3 * m + 1) - 8 + 7)
    BY DEF Octet
  <2> QED BY <2>1, <2>2 DEF B
<1>9. Octet(D, 3 * m + 2) =
        128 * B(8) + 64 * B(9) + 32 * B(10) + 16 * B(11) + 8 * B(12) + 4 * B(13)
          + 2 * B(14) + B(15)
  <2>1. /\ 8 * (3 * m + 2) - 8 + 0 = 24 * m + 8
        /\ 8 * (3 * m + 2) - 8 + 1 = 24 * m + 9
        /\ 8 * (3 * m + 2) - 8 + 2 = 24 * m + 10
        /\ 8 * (3 * m + 2) - 8 + 3 = 24 * m + 11
        /\ 8 * (3 * m + 2) - 8 + 4 = 24 * m + 12
        /\ 8 * (3 * m + 2) - 8 + 5 = 24 * m + 13
        /\ 8 * (3 * m + 2) - 8 + 6 = 24 * m + 14
        /\ 8 * (3 * m + 2) - 8 + 7 = 24 * m + 15
    BY SMT
  <2>2. Octet(D, 3 * m + 2) =
          128 * Bit(D, 8 * (3 * m + 2) - 8 + 0)
            + 64 * Bit(D, 8 * (3 * m + 2) - 8 + 1)
            + 32 * Bit(D, 8 * (3 * m + 2) - 8 + 2)
            + 16 * Bit(D, 8 * (3 * m + 2) - 8 + 3)
            + 8 * Bit(D, 8 * (3 * m + 2) - 8 + 4)
            + 4 * Bit(D, 8 * (3 * m + 2) - 8 + 5)
            + 2 * Bit(D, 8 * (3 * m + 2) - 8 + 6)
            + Bit(D, 8 * (3 * m + 2) - 8 + 7)
    BY DEF Octet
  <2> QED BY <2>1, <2>2 DEF B
<1>10. Octet(D, 3 * m + 3) =
        128 * B(16) + 64 * B(17) + 32 * B(18) + 16 * B(19) + 8 * B(20) + 4 * B(21)
          + 2 * B(22) + B(23)
  <2>1. /\ 8 * (3 * m + 3) - 8 + 0 = 24 * m + 16
        /\ 8 * (3 * m + 3) - 8 + 1 = 24 * m + 17
        /\ 8 * (3 * m + 3) - 8 + 2 = 24 * m + 18
        /\ 8 * (3 * m + 3) - 8 + 3 = 24 * m + 19
        /\ 8 * (3 * m + 3) - 8 + 4 = 24 * m + 20
        /\ 8 * (3 * m + 3) - 8 + 5 = 24 * m + 21
        /\ 8 * (3 * m + 3) - 8 + 6 = 24 * m + 22
        /\ 8 * (3 * m + 3) - 8 + 7 = 24 * m + 23
    BY SMT
  <2>2. Octet(D, 3 * m + 3) =
          128 * Bit(D, 8 * (3 * m + 3) - 8 + 0)
            + 64 * Bit(D, 8 * (3 * m + 3) - 8 + 1)
            + 32 * Bit(D, 8 * (3 * m + 3) - 8 + 2)
            + 16 * Bit(D, 8 * (3 * m + 3) - 8 + 3)
            + 8 * Bit(D, 8 * (3 * m + 3) - 8 + 4)
            + 4 * Bit(D, 8 * (3 * m + 3) - 8 + 5)
            + 2 * Bit(D, 8 * (3 * m + 3) - 8 + 6)
            + Bit(D, 8 * (3 * m + 3) - 8 + 7)
    BY DEF Octet
  <2> QED BY <2>1, <2>2 DEF B
<1> HIDE DEF B
<1>11. ASSUME 4 * m + 2 <= Len(D) PROVE Octet(D, 3 * m + 1) = 4 * x + y \div 16
  <2>1. x \in 0 .. 63 /\ y \in 0 .. 63
    <3>1. 4 * m + 1 \in 1 .. Len(D) /\ 4 * m + 2 \in 1 .. Len(D)
      BY <1>2, <1>11, SMT
    <3> QED BY <1>1, <3>1, DigitValues
  <2>2. /\ 128 * BitAt(x, 0) + 64 * BitAt(x, 1) + 32 * BitAt(x, 2) + 16 * BitAt(x, 3) + 8 * BitAt(x, 4)
            + 4 * BitAt(x, 5) = 4 * x
        /\ 2 * BitAt(y, 0) + BitAt(y, 1) = y \div 16
        /\ BitAt(x, 0) \in Nat /\ BitAt(x, 1) \in Nat /\ BitAt(x, 2) \in Nat
        /\ BitAt(x, 3) \in Nat /\ BitAt(x, 4) \in Nat /\ BitAt(x, 5) \in Nat
        /\ BitAt(y, 0) \in Nat /\ BitAt(y, 1) \in Nat /\ BitAt(y, 2) \in Nat
        /\ BitAt(y, 3) \in Nat /\ BitAt(y, 4) \in Nat /\ BitAt(y, 5) \in Nat
    BY <2>1, DigitBits, ZenonT(60)
  <2>3. PICK a \in Nat, b \in Nat, c \in Nat, d \in Nat,
             e \in Nat, f \in Nat, g \in Nat, h \in Nat :
          /\ BitAt(x, 0) = a /\ BitAt(x, 1) = b /\ BitAt(x, 2) = c /\ BitAt(x, 3) = d
          /\ BitAt(x, 4) = e /\ BitAt(x, 5) = f /\ BitAt(y, 0) = g /\ BitAt(y, 1) = h
    BY <2>2
  <2>4. /\ 128 * a + 64 * b + 32 * c + 16 * d + 8 * e + 4 * f = 4 * x
        /\ 2 * g + h = y \div 16
    BY <2>2, <2>3, Zenon
  <2>5. 128 * a + 64 * b + 32 * c + 16 * d + 8 * e + 4 * f + 2 * g + h = 4 * x + y \div 16
    BY <2>1, <2>4, SMT
  <2>6. Octet(D, 3 * m + 1) = 128 * a + 64 * b + 32 * c + 16 * d + 8 * e + 4 * f + 2 * g + h
    <3>1. /\ B(0) = a /\ B(1) = b /\ B(2) = c /\ B(3) = d
          /\ B(4) = e /\ B(5) = f /\ B(6) = g /\ B(7) = h
      BY <1>4, <1>5, <2>3, Zenon
    <3> QED BY <1>8, <3>1, Zenon
  <2> QED BY <2>5, <2>6, Zenon
<1>12. ASSUME 4 * m + 3 <= Len(D) PROVE Octet(D, 3 * m + 2) = 16 * (y % 16) + z \div 4
  <2>1. y \in 0 .. 63 /\ z \in 0 .. 63
    <3>1. 4 * m + 2 \in 1 .. Len(D) /\ 4 * m + 3 \in 1 .. Len(D)
      BY <1>2, <1>12, SMT
    <3> QED BY <1>1, <3>1, DigitValues
  <2>2. /\ 128 * BitAt(y, 2) + 64 * BitAt(y, 3) + 32 * BitAt(y, 4) + 16 * BitAt(y, 5) = 16 * (y % 16)
        /\ 8 * BitAt(z, 0) + 4 * BitAt(z, 1) + 2 * BitAt(z, 2) + BitAt(z, 3) = z \div 4
        /\ BitAt(y, 0) \in Nat /\ BitAt(y, 1) \in Nat /\ BitAt(y, 2) \in Nat
        /\ BitAt(y, 3) \in Nat /\ BitAt(y, 4) \in Nat /\ BitAt(y, 5) \in Nat
        /\ BitAt(z, 0) \in Nat /\ BitAt(z, 1) \in Nat /\ BitAt(z, 2) \in Nat
        /\ BitAt(z, 3) \in Nat /\ BitAt(z, 4) \in Nat /\ BitAt(z, 5) \in Nat
    BY <2>1, DigitBits, ZenonT(60)
  <2>3. PICK a \in Nat, b \in Nat, c \in Nat, d \in Nat,
             e \in Nat, f \in Nat, g \in Nat, h \in Nat :
          /\ BitAt(y, 2) = a /\ BitAt(y, 3) = b /\ BitAt(y, 4) = c /\ BitAt(y, 5) = d
          /\ BitAt(z, 0) = e /\ BitAt(z, 1) = f /\ BitAt(z, 2) = g /\ BitAt(z, 3) = h
    BY <2>2
  <2>4. /\ 128 * a + 64 * b + 32 * c + 16 * d = 16 * (y % 16)
        /\ 8 * e + 4 * f + 2 * g + h = z \div 4
    BY <2>2, <2>3, Zenon
  <2>5. 128 * a + 64 * b + 32 * c + 16 * d + 8 * e + 4 * f + 2 * g + h = 16 * (y % 16) + z \div 4
    BY <2>1, <2>4, SMT
  <2>6. Octet(D, 3 * m + 2) = 128 * a + 64 * b + 32 * c + 16 * d + 8 * e + 4 * f + 2 * g + h
    <3>1. /\ B(8) = a /\ B(9) = b /\ B(10) = c /\ B(11) = d
          /\ B(12) = e /\ B(13) = f /\ B(14) = g /\ B(15) = h
      BY <1>5, <1>6, <2>3, Zenon
    <3> QED BY <1>9, <3>1, Zenon
  <2> QED BY <2>5, <2>6, Zenon
<1>13. ASSUME 4 * m + 4 <= Len(D) PROVE Octet(D, 3 * m + 3) = 64 * (z % 4) + w
  <2>1. z \in 0 .. 63 /\ w \in 0 .. 63
    <3>1. 4 * m + 3 \in 1 .. Len(D) /\ 4 * m + 4 \in 1 .. Len(D)
      BY <1>2, <1>13, SMT
    <3> QED BY <1>1, <3>1, DigitValues
  <2>2. /\ 128 * BitAt(z, 4) + 64 * BitAt(z, 5) = 64 * (z % 4)
        /\ 32 * BitAt(w, 0) + 16 * BitAt(w, 1) + 8 * BitAt(w, 2) + 4 * BitAt(w, 3) + 2 * BitAt(w, 4)
            + BitAt(w, 5) = w
        /\ BitAt(z, 0) \in Nat /\ BitAt(z, 1) \in Nat /\ BitAt(z, 2) \in Nat
        /\ BitAt(z, 3) \in Nat /\ BitAt(z, 4) \in Nat /\ BitAt(z, 5) \in Nat
        /\ BitAt(w, 0) \in Nat /\ BitAt(w, 1) \in Nat /\ BitAt(w, 2) \in Nat
        /\ BitAt(w, 3) \in Nat /\ BitAt(w, 4) \in Nat /\ BitAt(w, 5) \in Nat
    BY <2>1, DigitBits, ZenonT(60)
  <2>3. PICK a \in Nat, b \in Nat, c \in Nat, d \in Nat,
             e \in Nat, f \in Nat, g \in Nat, h \in Nat :
          /\ BitAt(z, 4) = a /\ BitAt(z, 5) = b /\ BitAt(w, 0) = c /\ BitAt(w, 1) = d
          /\ BitAt(w, 2) = e /\ BitAt(w, 3) = f /\ BitAt(w, 4) = g /\ BitAt(w, 5) = h
    BY <2>2
  <2>4. /\ 128 * a + 64 * b = 64 * (z % 4)
        /\ 32 * c + 16 * d + 8 * e + 4 * f + 2 * g + h = w
    BY <2>2, <2>3, Zenon
  <2>5. 128 * a + 64 * b + 32 * c + 16 * d + 8 * e + 4 * f + 2 * g + h = 64 * (z % 4) + w
    BY <2>1, <2>4, SMT
  <2>6. Octet(D, 3 * m + 3) = 128 * a + 64 * b + 32 * c + 16 * d + 8 * e + 4 * f + 2 * g + h
    <3>1. /\ B(16) = a /\ B(17) = b /\ B(18) = c /\ B(19) = d
          /\ B(20) = e /\ B(21) = f /\ B(22) = g /\ B(23) = h
      BY <1>6, <1>7, <2>3, Zenon
    <3> QED BY <1>10, <3>1, Zenon
  <2> QED BY <2>5, <2>6, Zenon
<1> QED BY <1>1, <1>11, <1>12, <1>13

\* A digit more leaves the bytes that are complete.
LEMMA OctetKept ==
  ASSUME NEW D \in Seq(DigitPieces), NEW piece \in DigitPieces,
         NEW i \in Nat \ {0}, 8 * i <= 6 * Len(D)
  PROVE  Octet(Append(D, piece), i) = Octet(D, i)
<1> DEFINE E == Append(D, piece)
<1>1. Len(D) \in Nat /\ \A j \in 1 .. Len(D) : E[j] = D[j]
  BY AppendProperties
<1>2. ASSUME NEW b \in Nat, b < 6 * Len(D) PROVE Bit(E, b) = Bit(D, b)
  <2>1. b \div 6 + 1 \in 1 .. Len(D)
    BY <1>1, <1>2, SMT
  <2>2. E[b \div 6 + 1] = D[b \div 6 + 1]
    BY <1>1, <2>1
  <2> HIDE DEF E
  <2> QED BY <2>2 DEF Bit
<1>3. \A k \in 0 .. 7 : Bit(E, 8 * i - 8 + k) = Bit(D, 8 * i - 8 + k)
  <2> SUFFICES ASSUME NEW k \in 0 .. 7
               PROVE  Bit(E, 8 * i - 8 + k) = Bit(D, 8 * i - 8 + k)
    OBVIOUS
  <2>1. 8 * i - 8 + k \in Nat /\ 8 * i - 8 + k < 6 * Len(D)
    BY <1>1, SMT
  <2> QED BY <1>2, <2>1
<1>4. {0, 1, 2, 3, 4, 5, 6, 7} \subseteq 0 .. 7
  BY SMT
<1> HIDE DEF E
<1>5. /\ Bit(E, 8 * i - 8 + 0) = Bit(D, 8 * i - 8 + 0)
      /\ Bit(E, 8 * i - 8 + 1) = Bit(D, 8 * i - 8 + 1)
      /\ Bit(E, 8 * i - 8 + 2) = Bit(D, 8 * i - 8 + 2)
      /\ Bit(E, 8 * i - 8 + 3) = Bit(D, 8 * i - 8 + 3)
      /\ Bit(E, 8 * i - 8 + 4) = Bit(D, 8 * i - 8 + 4)
      /\ Bit(E, 8 * i - 8 + 5) = Bit(D, 8 * i - 8 + 5)
      /\ Bit(E, 8 * i - 8 + 6) = Bit(D, 8 * i - 8 + 6)
      /\ Bit(E, 8 * i - 8 + 7) = Bit(D, 8 * i - 8 + 7)
  BY <1>3, <1>4
<1>6. Octet(E, i) = Octet(D, i)
  BY <1>5, Zenon DEF Octet
<1> QED BY <1>6 DEF E

\* The decoder holds the bytes of the digits it read and, in its accumulator,
\* the bits of the last one that are not in a byte yet.
Holds(s, D) ==
  /\ 6 * Len(D) = 8 * Len(s.out) + s.bits
  /\ Len(D) # 0 => s.acc % 64 = D[Len(D)][2]
  /\ \A i \in 1 .. Len(s.out) : s.out[i] = Octet(D, i)

\* The byte a digit completes is that of the digits.
LEMMA ByteRead ==
  ASSUME NEW s \in Decoders, NEW D \in Seq(DigitPieces), NEW piece \in DigitPieces,
         Holds(s, D), s.bits # 0
  PROVE  ByteWith(s, piece[2]) = Octet(Append(D, piece), Len(s.out) + 1)
<1>1. PICK d \in 0 .. 63 : d = piece[2]
  BY PieceKinds DEF DigitPieces
<1>2. PICK E \in Seq(DigitPieces) : E = Append(D, piece)
  BY AppendProperties
<1>3. PICK n \in Nat, w \in Nat, bits \in {2, 4, 6} :
        n = Len(D) /\ w = Len(s.out) /\ bits = s.bits /\ 6 * n = 8 * w + bits
  BY DEF Holds, Decoders
<1>4. n # 0
  BY <1>3, SMT
<1>5. Len(E) = n + 1 /\ E[n + 1] = piece /\ E[n] = D[n]
  <2>1. n \in 1 .. Len(D)
    BY <1>3, <1>4, SMT
  <2> QED BY <1>2, <1>3, <2>1, AppendProperties
<1>6. PICK e \in 0 .. 63 : e = D[n][2] /\ s.acc % 64 = e
  <2>1. n \in 1 .. Len(D)
    BY <1>3, <1>4, SMT
  <2> QED BY <1>3, <1>4, <2>1, DigitValues DEF Holds
<1>7. PICK A \in Nat : A = AccWith(s, d)
  BY AccTypes
<1>12. PICK u \in Nat : A = 4096 * u + 64 * e + d
  <2>1. LastDigits(AccWith(s, d), s.acc % 64, d)
    BY AccLow
  <2>2. LastDigits(A, e, d)
    BY <1>6, <1>7, <2>1
  <2> QED BY <2>2 DEF LastDigits
<1>8. ByteWith(s, d) = (A \div TwoTo(bits - 2)) % 256
  BY <1>3, <1>7 DEF ByteWith
<1>9. CASE bits = 6
  <2>1. PICK m \in Nat : w = 3 * m /\ n = 4 * m + 1
    <3>1. 6 * n = 8 * w + 6
      BY <1>3, <1>9
    <3>2. n - w - 1 \in Nat /\ w = 3 * (n - w - 1) /\ n = 4 * (n - w - 1) + 1
      BY <3>1, SMT
    <3> QED BY <3>2
  <2>2. TwoTo(bits - 2) = 16
    BY <1>9, Powers
  <2>3. (A \div 16) % 256 = 4 * e + d \div 16
    <3>1. A \div 16 = 256 * u + 4 * e + (d \div 16)
      BY <1>12, SMT
    <3>2. PICK f \in 0 .. 3 : f = d \div 16
      BY SMT
    <3>3. (256 * u + 4 * e + f) % 256 = 4 * e + f
      BY SMT
    <3> QED BY <3>1, <3>2, <3>3
  <2>4. Octet(E, 3 * m + 1) = 4 * E[4 * m + 1][2] + E[4 * m + 2][2] \div 16
    <3>1. 4 * m + 2 <= Len(E)
      BY <1>5, <2>1, SMT
    <3> QED BY <3>1, OctetParts
  <2>5. E[4 * m + 1][2] = e /\ E[4 * m + 2][2] = d
    <3>1. 4 * m + 2 = n + 1
      BY <2>1, SMT
    <3> QED BY <1>1, <1>5, <1>6, <2>1, <3>1
  <2> QED BY <1>1, <1>2, <1>3, <1>8, <2>1, <2>2, <2>3, <2>4, <2>5
<1>10. CASE bits = 4
  <2>1. PICK m \in Nat : w = 3 * m + 1 /\ n = 4 * m + 2
    <3>1. 6 * n = 8 * w + 4
      BY <1>3, <1>10
    <3>2. n - w - 1 \in Nat /\ w = 3 * (n - w - 1) + 1 /\ n = 4 * (n - w - 1) + 2
      BY <3>1, SMT
    <3> QED BY <3>2
  <2>2. TwoTo(bits - 2) = 4
    BY <1>10, Powers
  <2>3. (A \div 4) % 256 = 16 * (e % 16) + d \div 4
    BY <1>12, SMT
  <2>4. Octet(E, 3 * m + 2) = 16 * (E[4 * m + 2][2] % 16) + E[4 * m + 3][2] \div 4
    <3>1. 4 * m + 3 <= Len(E)
      BY <1>5, <2>1, SMT
    <3> QED BY <3>1, OctetParts
  <2>5. E[4 * m + 2][2] = e /\ E[4 * m + 3][2] = d
    <3>1. 4 * m + 3 = n + 1
      BY <2>1, SMT
    <3> QED BY <1>1, <1>5, <1>6, <2>1, <3>1
  <2>6. w + 1 = 3 * m + 2
    BY <2>1, SMT
  <2> QED BY <1>1, <1>2, <1>3, <1>8, <2>2, <2>3, <2>4, <2>5, <2>6
<1>11. CASE bits = 2
  <2>1. PICK m \in Nat : w = 3 * m + 2 /\ n = 4 * m + 3
    <3>1. 6 * n = 8 * w + 2
      BY <1>3, <1>11
    <3>2. n - w - 1 \in Nat /\ w = 3 * (n - w - 1) + 2 /\ n = 4 * (n - w - 1) + 3
      BY <3>1, SMT
    <3> QED BY <3>2
  <2>2. TwoTo(bits - 2) = 1
    BY <1>11, Powers
  <2>3. (A \div 1) % 256 = 64 * (e % 4) + d
    BY <1>12, SMT
  <2>4. Octet(E, 3 * m + 3) = 64 * (E[4 * m + 3][2] % 4) + E[4 * m + 4][2]
    <3>1. 4 * m + 4 <= Len(E)
      BY <1>5, <2>1, SMT
    <3> QED BY <3>1, OctetParts
  <2>5. E[4 * m + 3][2] = e /\ E[4 * m + 4][2] = d
    <3>1. 4 * m + 4 = n + 1
      BY <2>1, SMT
    <3> QED BY <1>1, <1>5, <1>6, <2>1, <3>1
  <2>6. w + 1 = 3 * m + 3
    BY <2>1, SMT
  <2> QED BY <1>1, <1>2, <1>3, <1>8, <2>2, <2>3, <2>4, <2>5, <2>6
<1> QED BY <1>9, <1>10, <1>11

\* A digit keeps that, or does not fit.
LEMMA DigitRead ==
  ASSUME NEW s \in Decoders, NEW D \in Seq(DigitPieces), NEW piece \in DigitPieces,
         NEW room \in Nat, s.ok, Holds(s, D)
  PROVE  LET r == Shift(s, piece[2], room)
         IN  /\ r.ok => Holds(r, Append(D, piece))
             /\ ~r.ok => 6 * Len(Append(D, piece)) >= 8 * room + 8
<1>1. PICK d \in 0 .. 63 : d = piece[2]
  BY PieceKinds DEF DigitPieces
<1>2. PICK E \in Seq(DigitPieces) : E = Append(D, piece)
  BY AppendProperties
<1>3. PICK r \in Decoders :
        /\ r = Shift(s, d, room)
        /\ s.bits = 0 =>
             r.acc = AccWith(s, d) /\ r.bits = 6 /\ r.out = s.out /\ r.ok = s.ok
        /\ s.bits # 0 /\ Len(s.out) >= room => ~r.ok
        /\ s.bits # 0 /\ ~(Len(s.out) >= room) =>
             /\ r.acc = AccWith(s, d) /\ r.bits = s.bits - 2 /\ r.ok = s.ok
             /\ r.out = Append(s.out, ByteWith(s, d))
  BY Shifted
<1>4. PICK n \in Nat, w \in Nat, bits \in {0, 2, 4, 6} :
        n = Len(D) /\ w = Len(s.out) /\ bits = s.bits /\ 6 * n = 8 * w + bits
  BY SMTT(30) DEF Holds, Decoders
<1>5. Len(E) = n + 1 /\ E[n + 1] = piece
  BY <1>2, <1>4, AppendProperties
<1>6. s.out \in Seq(0 .. 255) /\ \A i \in 1 .. w : s.out[i] = Octet(D, i)
  BY <1>4 DEF Holds, Decoders
<1>7. \A i \in 1 .. w : Octet(E, i) = Octet(D, i)
  <2> SUFFICES ASSUME NEW i \in 1 .. w PROVE Octet(E, i) = Octet(D, i)
    OBVIOUS
  <2>1. i \in Nat \ {0} /\ 8 * i <= 6 * n
    BY <1>4, SMTT(30)
  <2>2. 8 * i <= 6 * Len(D)
    BY <1>4, <2>1
  <2> QED BY <1>2, <2>1, <2>2, OctetKept
<1>8. ASSUME r.acc = AccWith(s, d) PROVE r.acc % 64 = E[Len(E)][2]
  <2>1. PICK A \in Nat : A = AccWith(s, d)
    BY AccTypes
  <2>2. PICK e \in 0 .. 63 : e = s.acc % 64
    <3>1. PICK x \in Nat : x = s.acc
      BY DEF Decoders
    <3>2. 64 \in Nat \ {0} /\ 64 - 1 = 63
      BY SMT
    <3>3. x % 64 \in 0 .. 64 - 1
      BY <3>2, DivisionBounds
    <3> QED BY <3>1, <3>2, <3>3
  <2>3. LastDigits(AccWith(s, d), s.acc % 64, d)
    BY AccLow
  <2>4. LastDigits(A, e, d)
    BY <2>1, <2>2, <2>3
  <2>5. PICK u \in Nat : A = 4096 * u + 64 * e + d
    BY <2>4 DEF LastDigits
  <2>6. A % 64 = d
    BY <2>5, SMT
  <2> QED BY <1>1, <1>5, <1>8, <2>1, <2>6
<1>9. CASE s.bits = 0
  <2>1. r.acc = AccWith(s, d) /\ r.bits = 6 /\ r.out = s.out /\ r.ok
    BY <1>3, <1>9
  <2>2. 6 * Len(E) = 8 * Len(r.out) + r.bits
    <3>1. 6 * (n + 1) = 8 * w + 6
      BY <1>4, <1>9
    <3>2. Len(E) = n + 1 /\ Len(r.out) = w /\ r.bits = 6
      BY <1>4, <1>5, <2>1
    <3> QED BY <3>1, <3>2, Zenon
  <2>3. Holds(r, E)
    BY <1>4, <1>6, <1>7, <1>8, <2>1, <2>2 DEF Holds
  <2> QED BY <1>1, <1>2, <1>3, <2>1, <2>3
<1>10. CASE s.bits # 0 /\ Len(s.out) >= room
  <2>1. ~r.ok
    BY <1>3, <1>10
  <2>2. 6 * (n + 1) >= 8 * room + 8
    <3>1. w >= room /\ bits \in {2, 4, 6}
      BY <1>4, <1>10
    <3> QED BY <1>4, <3>1, SMTT(30)
  <2>3. 6 * Len(E) >= 8 * room + 8
    BY <1>5, <2>2, Zenon
  <2> QED BY <1>1, <1>2, <1>3, <2>1, <2>3
<1>11. CASE s.bits # 0 /\ ~(Len(s.out) >= room)
  <2>1. /\ r.acc = AccWith(s, d) /\ r.bits = s.bits - 2 /\ r.ok
        /\ r.out = Append(s.out, ByteWith(s, d))
    BY <1>3, <1>11
  <2>2. ByteWith(s, d) = Octet(E, w + 1) /\ ByteWith(s, d) \in 0 .. 255
    BY <1>1, <1>2, <1>4, <1>11, ByteRead, AccTypes
  <2>3. /\ Len(r.out) = w + 1 /\ r.out[w + 1] = Octet(E, w + 1)
        /\ \A i \in 1 .. w : r.out[i] = s.out[i]
    BY <1>4, <1>6, <2>1, <2>2, AppendProperties
  <2>4. 6 * Len(E) = 8 * Len(r.out) + r.bits
    <3>1. 6 * (n + 1) = 8 * (w + 1) + (bits - 2)
      BY <1>4, SMTT(30)
    <3>2. Len(E) = n + 1 /\ Len(r.out) = w + 1 /\ r.bits = bits - 2
      BY <1>4, <1>5, <2>1, <2>3
    <3> QED BY <3>1, <3>2, Zenon
  <2>5. \A i \in 1 .. Len(r.out) : r.out[i] = Octet(E, i)
    <3>1. \A i \in 1 .. w + 1 : i \in 1 .. w \/ i = w + 1
      BY SMT
    <3> QED BY <1>6, <1>7, <2>3, <3>1
  <2>6. Holds(r, E)
    BY <1>8, <2>1, <2>4, <2>5 DEF Holds
  <2> QED BY <1>1, <1>2, <1>3, <2>1, <2>6
<1> QED BY <1>9, <1>10, <1>11

\* What no text that spells something holds.
Malformed(t, k) ==
  \/ \E j \in 1 .. k : t[j] \in {Mark("begin"), Mark("end"), Mark("other")}
  \/ \E i, j \in 1 .. k : t[j] = Mark("pad") /\ IsDigit(t[i]) /\ j <= i

\* The decoder after k pieces of a text: it stopped where the text is malformed
\* or too long, or holds the digits so far.
Faithful(t, k, s, D, room) ==
  /\ ~s.ok => Malformed(t, k) \/ 6 * Len(D) >= 8 * room + 8
  /\ s.ok => /\ ~Malformed(t, k) /\ Holds(s, D)
             /\ s.padded <=> \E j \in 1 .. k : t[j] = Mark("pad")

\* It does before the first piece.
LEMMA StartsFaithful ==
  ASSUME NEW t, NEW room \in Nat
  PROVE  Faithful(t, 0, Start, <<>>, room)
<1>1. 1 .. 0 = {}
  BY SMT
<1>2. /\ Start.ok /\ ~Start.padded /\ Start.out = <<>> /\ Start.bits = 0
      /\ Len(<<>>) = 0
  BY DEF Start
<1>3. Holds(Start, <<>>)
  BY <1>1, <1>2 DEF Holds
<1> QED BY <1>1, <1>2, <1>3 DEF Faithful, Malformed

\* It does after one piece more, whatever the piece.
LEMMA StaysFaithful ==
  ASSUME NEW t \in Seq(TextPieces), NEW k \in 1 .. Len(t), NEW room \in Nat,
         NEW s \in Decoders, NEW D \in Seq(DigitPieces),
         Faithful(t, k - 1, s, D, room)
  PROVE  Faithful(t, k, DecodeStep(s, t[k], room),
                  IF IsDigit(t[k]) THEN Append(D, t[k]) ELSE D, room)
<1> DEFINE r == DecodeStep(s, t[k], room)
           E == IF IsDigit(t[k]) THEN Append(D, t[k]) ELSE D
<1>1. /\ k \in Nat /\ k - 1 \in Nat /\ k \in 1 .. k
      /\ \A j \in 1 .. k - 1 : j \in 1 .. k /\ j <= k /\ ~(k <= j)
      /\ \A j \in 1 .. k : j \in 1 .. k - 1 \/ j = k
  BY SMT
<1>2. t[k] \in TextPieces
  OBVIOUS
<1>3. Malformed(t, k - 1) => Malformed(t, k)
  BY <1>1 DEF Malformed
<1>4. E \in Seq(DigitPieces) /\ Len(E) \in Nat /\ Len(D) \in Nat /\ Len(D) <= Len(E)
  <2>1. CASE IsDigit(t[k])
    <3>1. t[k] \in DigitPieces
      BY <1>2, <2>1 DEF DigitPieces
    <3>2. Append(D, t[k]) \in Seq(DigitPieces) /\ Len(Append(D, t[k])) = Len(D) + 1
      BY <3>1, AppendProperties
    <3> QED BY <2>1, <3>2
  <2>2. CASE ~IsDigit(t[k])
    BY <2>2
  <2> QED BY <2>1, <2>2
<1>5. CASE ~s.ok
  <2>1. r = s
    BY <1>5 DEF DecodeStep
  <2>2. 6 * Len(D) >= 8 * room + 8 => 6 * Len(E) >= 8 * room + 8
    <3> HIDE DEF E
    <3> QED BY <1>4, SMT
  <2> HIDE DEF E, r
  <2> QED BY <1>3, <1>5, <2>1, <2>2 DEF Faithful, r, E
<1>6. CASE s.ok /\ t[k] = Mark("space")
  <2>1. t[k][1] = "space" /\ ~IsDigit(t[k]) /\ t[k] # Mark("pad")
        /\ t[k] \notin {Mark("begin"), Mark("end"), Mark("other")}
    BY <1>6 DEF Mark, IsDigit
  <2>2. r = s /\ E = D
    BY <2>1 DEF DecodeStep
  <2>3. Malformed(t, k) => Malformed(t, k - 1)
    BY <1>1, <2>1 DEF Malformed
  <2> HIDE DEF E, r
  <2> QED BY <1>1, <1>6, <2>1, <2>2, <2>3 DEF Faithful, r, E
<1>7. CASE s.ok /\ t[k] = Mark("pad")
  <2>1. t[k][1] = "pad" /\ ~IsDigit(t[k])
        /\ t[k] \notin {Mark("begin"), Mark("end"), Mark("other")}
    BY <1>7 DEF Mark, IsDigit
  <2>2. r = [s EXCEPT !.padded = TRUE] /\ E = D
    BY <1>7, <2>1 DEF DecodeStep
  <2>3. r.ok /\ r.padded /\ r.acc = s.acc /\ r.bits = s.bits /\ r.out = s.out
    BY <1>7, <2>2, SMTT(30) DEF Decoders
  <2>4. Malformed(t, k) => Malformed(t, k - 1)
    BY <1>1, <2>1 DEF Malformed
  <2>5. Holds(r, E)
    BY <1>7, <2>2, <2>3 DEF Faithful, Holds
  <2> HIDE DEF E, r
  <2> QED BY <1>1, <1>7, <2>3, <2>4, <2>5 DEF Faithful, r, E
<1>8. CASE s.ok /\ t[k] \in {Mark("begin"), Mark("end"), Mark("other")}
  <2>1. t[k][1] # "space" /\ t[k][1] # "pad" /\ ~IsDigit(t[k])
    BY <1>8 DEF Mark, IsDigit
  <2>2. r = [s EXCEPT !.ok = FALSE]
    BY <1>8, <2>1 DEF DecodeStep
  <2>3. ~r.ok
    BY <2>2 DEF Decoders
  <2>4. Malformed(t, k)
    BY <1>1, <1>8 DEF Malformed
  <2> HIDE DEF E, r
  <2> QED BY <2>3, <2>4 DEF Faithful, r, E
<1>9. CASE s.ok /\ IsDigit(t[k]) /\ s.padded
  <2>1. t[k][1] # "space" /\ t[k][1] # "pad"
    BY <1>9 DEF IsDigit
  <2>2. r = [s EXCEPT !.ok = FALSE]
    BY <1>9, <2>1 DEF DecodeStep
  <2>3. ~r.ok
    BY <2>2 DEF Decoders
  <2>4. Malformed(t, k)
    <3>1. PICK j \in 1 .. k - 1 : t[j] = Mark("pad")
      BY <1>9 DEF Faithful
    <3> QED BY <1>1, <1>9, <3>1 DEF Malformed
  <2> HIDE DEF E, r
  <2> QED BY <2>3, <2>4 DEF Faithful, r, E
<1>10. CASE s.ok /\ IsDigit(t[k]) /\ ~s.padded
  <2>1. t[k][1] # "space" /\ t[k][1] # "pad" /\ t[k] \in DigitPieces
    BY <1>2, <1>10 DEF IsDigit, DigitPieces
  <2>2. r = Shift(s, t[k][2], room) /\ E = Append(D, t[k])
    BY <1>10, <2>1 DEF DecodeStep
  <2>3. /\ r.ok => Holds(r, E)
        /\ ~r.ok => 6 * Len(E) >= 8 * room + 8
    BY <1>10, <2>1, <2>2, DigitRead DEF Faithful
  <2>4. r.padded = s.padded
    <3>1. PICK d \in 0 .. 63 : d = t[k][2]
      BY <2>1, PieceKinds, SMTT(30) DEF DigitPieces
    <3>2. Shift(s, d, room).padded = s.padded
      BY Shifted
    <3> HIDE DEF r
    <3> QED BY <2>2, <3>1, <3>2
  <2>5. t[k] # Mark("pad") /\ t[k] \notin {Mark("begin"), Mark("end"), Mark("other")}
    BY <1>10 DEF IsDigit, Mark
  <2>6. \A j \in 1 .. k : t[j] # Mark("pad")
    BY <1>1, <1>10, <2>5 DEF Faithful
  <2>7. ~Malformed(t, k)
    <3>1. ~Malformed(t, k - 1)
      BY <1>10 DEF Faithful
    <3> QED BY <1>1, <2>5, <2>6, <3>1 DEF Malformed
  <2> HIDE DEF E, r
  <2> QED BY <1>10, <2>3, <2>4, <2>6, <2>7 DEF Faithful, r, E
<1> QED
  <2>1. \/ IsDigit(t[k])
        \/ \E m \in {"pad", "space", "begin", "end", "other"} : t[k] = Mark(m)
    BY <1>2, PieceKinds
  <2>2. s.padded \in BOOLEAN /\ s.ok \in BOOLEAN
    BY DEF Decoders
  <2> HIDE DEF E, r
  <2> QED BY <1>5, <1>6, <1>7, <1>8, <1>9, <1>10, <2>1, <2>2 DEF E, r

\* It does at the end of every text.
LEMMA FaithfulAlong ==
  ASSUME NEW t \in Seq(TextPieces), NEW room \in Nat
  PROVE  LET s == Decoding(t, room)[Len(t)]
             D == DigitsOf(t)[Len(t)]
         IN  s \in Decoders /\ D \in Seq(DigitPieces) /\ Faithful(t, Len(t), s, D, room)
<1> DEFINE n == Len(t)
           s == Decoding(t, room)
           D == DigitsOf(t)
           K == {k \in 0 .. n : Faithful(t, k, s[k], D[k], room)}
<1>1. n \in Nat /\ 0 \in 0 .. n /\ n \in 0 .. n
      /\ \A k \in 1 .. n : k - 1 \in 0 .. n /\ k \in 0 .. n
  BY SMT
<1>2. /\ s \in [0 .. n -> Decoders] /\ s[0] = Start
      /\ \A k \in 1 .. n : s[k] = DecodeStep(s[k - 1], t[k], room)
  BY DecodingUnfolds, Zenon
<1>3. /\ D \in [0 .. n -> Seq(DigitPieces)] /\ D[0] = <<>>
      /\ \A k \in 1 .. n :
           D[k] = IF IsDigit(t[k]) THEN Append(D[k - 1], t[k]) ELSE D[k - 1]
  BY DigitsUnfold, Zenon
<1> HIDE DEF s, D
<1>4. 0 \in K
  BY <1>1, <1>2, <1>3, StartsFaithful
<1>5. ASSUME NEW k \in 1 .. n, k - 1 \in K PROVE k \in K
  <2>1. Faithful(t, k - 1, s[k - 1], D[k - 1], room)
    BY <1>5
  <2>2. s[k - 1] \in Decoders /\ D[k - 1] \in Seq(DigitPieces)
    BY <1>1, <1>2, <1>3
  <2>3. Faithful(t, k, DecodeStep(s[k - 1], t[k], room),
                 IF IsDigit(t[k]) THEN Append(D[k - 1], t[k]) ELSE D[k - 1], room)
    BY <2>1, <2>2, StaysFaithful
  <2>4. Faithful(t, k, s[k], D[k], room)
    BY <1>2, <1>3, <2>3, Zenon
  <2> QED BY <1>1, <2>4
<1>6. \A k \in 0 .. n : k \in K
  <2> HIDE DEF K, n
  <2> QED BY <1>1, <1>4, <1>5, AlongText
<1>7. Faithful(t, n, s[n], D[n], room)
  BY <1>1, <1>6
<1>8. s[n] \in Decoders /\ D[n] \in Seq(DigitPieces)
  BY <1>1, <1>2, <1>3
<1> QED BY <1>7, <1>8, Zenon DEF s, D

\* A remainder by a part of 64 is that of the last digit.
LEMMA LowBits ==
  ASSUME NEW x \in Nat
  PROVE  x % 4 = (x % 64) % 4 /\ x % 16 = (x % 64) % 16
<1>1. PICK u \in Nat, e \in 0 .. 63 : x = 64 * u + e /\ e = x % 64
  <2>1. x \div 64 \in Nat /\ x % 64 \in 0 .. 63 /\ x = 64 * (x \div 64) + (x % 64)
    BY SMT
  <2> QED BY <2>1
<1>2. (64 * u + e) % 4 = e % 4 /\ (64 * u + e) % 16 = e % 16
  BY SMT
<1> QED BY <1>1, <1>2

\* The left-over bits of the accumulator are the bits after the last byte.
LEMMA LeftOver ==
  ASSUME NEW s \in Decoders, NEW D \in Seq(DigitPieces), Holds(s, D), s.bits # 6
  PROVE  s.acc % TwoTo(s.bits) = 0
           <=> \A b \in 8 * Len(s.out) .. 6 * Len(D) - 1 : Bit(D, b) = 0
<1>1. PICK n \in Nat, w \in Nat, bits \in {0, 2, 4}, A \in Nat :
        n = Len(D) /\ w = Len(s.out) /\ bits = s.bits /\ A = s.acc /\ 6 * n = 8 * w + bits
  BY DEF Holds, Decoders
<1>2. CASE bits = 0
  <2>1. TwoTo(bits) = 1 /\ A % 1 = 0
    BY <1>2, Powers, SMT
  <2>2. 8 * w .. 6 * n - 1 = {}
    BY <1>1, <1>2, SMT
  <2>3. 8 * Len(s.out) .. 6 * Len(D) - 1 = {}
    BY <1>1, <2>2, Zenon
  <2> QED BY <1>1, <2>1, <2>3, Zenon
<1>3. CASE bits # 0
  <2>1. n # 0 /\ n \in 1 .. n /\ n - 1 \in Nat /\ n - 1 + 1 = n
    BY <1>1, <1>3, SMT
  <2>2. PICK e \in 0 .. 63 : e = D[n][2] /\ A % 64 = e
    BY <1>1, <2>1, DigitValues DEF Holds
  <2>3. A % 4 = e % 4 /\ A % 16 = e % 16
    BY <2>2, LowBits
  <2>4. PICK j \in Nat, y \in Nat : j + 1 = n /\ n = j + 1 /\ y = 6 * j
    BY <2>1, SMT
  <2>9. \A i \in 0 .. 5 : Bit(D, y + i) = BitAt(e, i)
    <3>1. \A i \in 0 .. 5 : Bit(D, 6 * j + i) = BitAt(D[j + 1][2], i)
      BY BitOfDigit
    <3> QED BY <2>2, <2>4, <3>1
  <2>5. PICK a \in Nat, b \in Nat, c \in Nat, d \in Nat :
          /\ BitAt(e, 2) = a /\ BitAt(e, 3) = b /\ BitAt(e, 4) = c /\ BitAt(e, 5) = d
          /\ 128 * a + 64 * b + 32 * c + 16 * d = 16 * (e % 16)
          /\ 128 * c + 64 * d = 64 * (e % 4)
    <3>1. /\ BitAt(e, 2) \in Nat /\ BitAt(e, 3) \in Nat /\ BitAt(e, 4) \in Nat
          /\ BitAt(e, 5) \in Nat
          /\ 128 * BitAt(e, 2) + 64 * BitAt(e, 3) + 32 * BitAt(e, 4) + 16 * BitAt(e, 5)
               = 16 * (e % 16)
          /\ 128 * BitAt(e, 4) + 64 * BitAt(e, 5) = 64 * (e % 4)
      BY DigitBits
    <3>2. PICK a \in Nat, b \in Nat, c \in Nat, d \in Nat :
            BitAt(e, 2) = a /\ BitAt(e, 3) = b /\ BitAt(e, 4) = c /\ BitAt(e, 5) = d
      BY <3>1
    <3>3. /\ 128 * a + 64 * b + 32 * c + 16 * d = 16 * (e % 16)
          /\ 128 * c + 64 * d = 64 * (e % 4)
      BY <3>1, <3>2, Zenon
    <3> QED BY <3>2, <3>3
  <2>6. /\ Bit(D, y + 2) = a /\ Bit(D, y + 3) = b
        /\ Bit(D, y + 4) = c /\ Bit(D, y + 5) = d
    <3>1. {2, 3, 4, 5} \subseteq 0 .. 5
      BY SMT
    <3> QED BY <2>5, <2>9, <3>1
  <2>7. CASE bits = 2
    <3>1. TwoTo(bits) = 4
      BY <2>7, Powers
    <3>2. e % 4 = 0 <=> c = 0 /\ d = 0
      BY <2>5, SMT
    <3>3. 8 * w .. 6 * n - 1 = {y + 4, y + 5}
      <4>1. 8 * w = y + 4 /\ 6 * n - 1 = y + 5
        BY <1>1, <2>4, <2>7, SMT
      <4>2. y + 4 .. y + 5 = {y + 4, y + 5}
        BY SMT
      <4> QED BY <4>1, <4>2, Zenon
    <3>4. 8 * Len(s.out) .. 6 * Len(D) - 1 = {y + 4, y + 5}
      BY <1>1, <3>3, Zenon
    <3>5. (\A i \in 8 * Len(s.out) .. 6 * Len(D) - 1 : Bit(D, i) = 0) <=> c = 0 /\ d = 0
      BY <2>6, <3>4, Zenon
    <3>6. s.acc % TwoTo(s.bits) = e % 4
      BY <1>1, <2>3, <3>1, Zenon
    <3> QED BY <3>2, <3>5, <3>6, Zenon
  <2>8. CASE bits = 4
    <3>1. TwoTo(bits) = 16
      BY <2>8, Powers
    <3>2. e % 16 = 0 <=> a = 0 /\ b = 0 /\ c = 0 /\ d = 0
      BY <2>5, SMT
    <3>3. 8 * w .. 6 * n - 1 =
            {y + 2, y + 3, y + 4, y + 5}
      <4>1. 8 * w = y + 2 /\ 6 * n - 1 = y + 5
        BY <1>1, <2>4, <2>8, SMT
      <4>2. y + 2 .. y + 5 = {y + 2, y + 3, y + 4, y + 5}
        BY SMT
      <4> QED BY <4>1, <4>2, Zenon
    <3>4. 8 * Len(s.out) .. 6 * Len(D) - 1 =
            {y + 2, y + 3, y + 4, y + 5}
      BY <1>1, <3>3, Zenon
    <3>5. (\A i \in 8 * Len(s.out) .. 6 * Len(D) - 1 : Bit(D, i) = 0)
            <=> a = 0 /\ b = 0 /\ c = 0 /\ d = 0
      BY <2>6, <3>4, Zenon
    <3>6. s.acc % TwoTo(s.bits) = e % 16
      BY <1>1, <2>3, <3>1, Zenon
    <3> QED BY <3>2, <3>5, <3>6, Zenon
  <2> QED BY <1>1, <1>3, <2>7, <2>8
<1> QED BY <1>2, <1>3

\* What SpelledBy() asks of the marks of a text.
LEMMA MarksOf ==
  ASSUME NEW t \in Seq(TextPieces)
  PROVE  ~Malformed(t, Len(t)) <=>
           /\ Range(t) \cap {Mark("begin"), Mark("end"), Mark("other")} = {}
           /\ \A j, k \in DOMAIN t : t[j] = Mark("pad") /\ IsDigit(t[k]) => k < j
<1>1. DOMAIN t = 1 .. Len(t)
  OBVIOUS
<1>2. Range(t) = {t[j] : j \in 1 .. Len(t)}
  BY <1>1 DEF Range
<1>3. \A j, k \in 1 .. Len(t) : j <= k <=> ~(k < j)
  BY SMT
<1> QED BY <1>1, <1>2, <1>3, Zenon DEF Malformed

\* Of the bytes a text decodes to, those of the wanted length are what it spells.
LEMMA DecodesSpelled ==
  ASSUME NEW t \in Seq(TextPieces), NEW count \in Nat, count % 3 # 0,
         NEW room \in Nat, count <= room
  PROVE  /\ {d \in Decoded(t, room) : Len(d) = count} = SpelledBy(t, count)
         /\ \A d \in SpelledBy(t, count) : d \in Seq(0 .. 255) /\ Len(d) = count
<1> DEFINE Bytes(D) == [i \in 1 .. count |-> Octet(D, i)]
           Spells(D) ==
             /\ Len(D) = (8 * count + 5) \div 6
             /\ \A b \in 8 * count .. 6 * Len(D) - 1 : Bit(D, b) = 0
<1>1. PICK s \in Decoders, D \in Seq(DigitPieces) :
        /\ s = Decoding(t, room)[Len(t)] /\ D = DigitsOf(t)[Len(t)]
        /\ Faithful(t, Len(t), s, D, room)
  <2>1. /\ Decoding(t, room)[Len(t)] \in Decoders /\ DigitsOf(t)[Len(t)] \in Seq(DigitPieces)
        /\ Faithful(t, Len(t), Decoding(t, room)[Len(t)], DigitsOf(t)[Len(t)], room)
    BY FaithfulAlong, Zenon
  <2> QED BY <2>1
<1>2. Decoded(t, room) = IF Complete(s) THEN {s.out} ELSE {}
  BY <1>1 DEF Decoded
<1>3. SpelledBy(t, count) =
        IF Spells(D) /\ ~Malformed(t, Len(t)) THEN {Bytes(D)} ELSE {}
  <2>1. SpelledBy(t, count) =
          IF /\ Len(D) = (8 * count + 5) \div 6
             /\ \A b \in 8 * count .. 6 * Len(D) - 1 : Bit(D, b) = 0
             /\ Range(t) \cap {Mark("begin"), Mark("end"), Mark("other")} = {}
             /\ \A j, k \in DOMAIN t : t[j] = Mark("pad") /\ IsDigit(t[k]) => k < j
          THEN {Bytes(D)} ELSE {}
    BY <1>1, Zenon DEF SpelledBy
  <2> HIDE DEF Bytes
  <2> QED BY <2>1, MarksOf, Zenon
<1>4. PICK n \in Nat, w \in Nat, bits \in {0, 2, 4, 6} :
        n = Len(D) /\ w = Len(s.out) /\ bits = s.bits /\ s.out \in Seq(0 .. 255)
  BY DEF Decoders
<1>5. s.ok \in BOOLEAN
  BY DEF Decoders
<1>6. ASSUME Complete(s), w = count
      PROVE  Spells(D) /\ ~Malformed(t, Len(t)) /\ s.out = Bytes(D)
  <2>1. s.ok /\ s.acc % TwoTo(s.bits) = 0
    BY <1>6 DEF Complete
  <2>2. ~Malformed(t, Len(t)) /\ Holds(s, D)
    BY <1>1, <2>1 DEF Faithful
  <2>3. 6 * n = 8 * count + bits
    BY <1>4, <1>6, <2>2 DEF Holds
  <2>4. bits # 6
    BY <2>3, SMT
  <2>5. n = (8 * count + 5) \div 6
    BY <2>3, <2>4, SMT
  <2>6. \A b \in 8 * count .. 6 * Len(D) - 1 : Bit(D, b) = 0
    <3>1. s.bits # 6
      BY <1>4, <2>4
    <3>2. \A b \in 8 * Len(s.out) .. 6 * Len(D) - 1 : Bit(D, b) = 0
      BY <2>1, <2>2, <3>1, LeftOver
    <3> QED BY <1>4, <1>6, <3>2, Zenon
  <2>7. s.out = Bytes(D)
    <3>1. \A i \in 1 .. count : s.out[i] = Octet(D, i)
      BY <1>4, <1>6, <2>2, Zenon DEF Holds
    <3>2. s.out = [i \in 1 .. Len(s.out) |-> s.out[i]]
      BY <1>4
    <3>3. Len(s.out) = count
      BY <1>4, <1>6
    <3>4. s.out = [i \in 1 .. count |-> s.out[i]]
      BY <3>2, <3>3, Zenon
    <3> QED BY <3>1, <3>4
  <2> QED BY <1>4, <2>2, <2>5, <2>6, <2>7
<1>7. ASSUME Spells(D), ~Malformed(t, Len(t)) PROVE Complete(s) /\ w = count
  <2>1. n = (8 * count + 5) \div 6
    BY <1>4, <1>7
  <2>2. 8 * count <= 6 * n /\ 6 * n <= 8 * count + 5 /\ ~(6 * n >= 8 * room + 8)
    BY <2>1, SMT
  <2>3. ~(6 * Len(D) >= 8 * room + 8)
    BY <1>4, <2>2, Zenon
  <2>4. s.ok
    BY <1>1, <1>7, <2>3 DEF Faithful
  <2>5. Holds(s, D)
    BY <1>1, <2>4 DEF Faithful
  <2>6. 6 * n = 8 * w + bits
    BY <1>4, <2>5 DEF Holds
  <2>7. w = count /\ bits # 6
    BY <2>2, <2>6, SMT
  <2>8. \A b \in 8 * Len(s.out) .. 6 * Len(D) - 1 : Bit(D, b) = 0
    BY <1>4, <1>7, <2>7, Zenon
  <2>9. s.bits # 6
    BY <1>4, <2>7
  <2>10. s.acc % TwoTo(s.bits) = 0
    BY <2>5, <2>8, <2>9, LeftOver
  <2> QED BY <2>4, <2>7, <2>10 DEF Complete
<1> HIDE DEF Bytes, Spells
<1>8. {d \in Decoded(t, room) : Len(d) = count} = SpelledBy(t, count)
  <2>1. CASE Complete(s) /\ w = count
    <3>1. {d \in Decoded(t, room) : Len(d) = count} = {s.out}
      BY <1>2, <1>4, <2>1
    <3> QED BY <1>3, <1>6, <2>1, <3>1, Zenon
  <2>2. CASE ~(Complete(s) /\ w = count)
    <3>1. {d \in Decoded(t, room) : Len(d) = count} = {}
      BY <1>2, <1>4, <2>2
    <3> QED BY <1>3, <1>7, <2>2, <3>1, Zenon
  <2> QED BY <2>1, <2>2
<1>9. \A d \in SpelledBy(t, count) : d \in Seq(0 .. 255) /\ Len(d) = count
  BY <1>2, <1>4, <1>8
<1> QED BY <1>8, <1>9

\* The first of some positions.
LEMMA NearestIsFirst ==
  ASSUME NEW S \in SUBSET Nat, S # {}
  PROVE  Nearest(S) \in S /\ \A j \in S : Nearest(S) <= j
<1> DEFINE R == OpToRel(<, Nat)
<1>1. PICK x \in S : \A y \in S : <<y, x>> \notin R
  <2>1. IsWellFoundedOn(R, Nat)
    BY NatLessThanWellFounded
  <2> HIDE DEF R
  <2> QED BY <2>1, WFMin
<1>2. \A y \in S : ~(y < x)
  BY <1>1 DEF OpToRel
<1>3. \A y \in S : x <= y
  <2> SUFFICES ASSUME NEW y \in S PROVE x <= y
    OBVIOUS
  <2>1. ~(y < x) /\ x \in Nat /\ y \in Nat
    BY <1>2
  <2> QED BY <2>1, SMT
<1> QED BY <1>3 DEF Nearest

\* The text between the first BEGIN line and the END line after it.
BeginsOf(t) == {k \in DOMAIN t : t[k] = Mark("begin")}
EndsOf(t) == {k \in DOMAIN t : t[k] = Mark("end") /\ k > Nearest(BeginsOf(t))}
LEMMA BetweenTheLines ==
  ASSUME NEW t \in Seq(TextPieces)
  PROVE  Enclosed(t) =
           IF BeginsOf(t) = {} \/ EndsOf(t) = {} THEN {}
           ELSE {SubSeq(t, Nearest(BeginsOf(t)) + 1, Nearest(EndsOf(t)) - 1)}
<1> DEFINE B == BeginsOf(t)
           E == EndsOf(t)
           Q == {q \in (DOMAIN t) \X (DOMAIN t) :
                  /\ t[q[1]] = Mark("begin") /\ t[q[2]] = Mark("end") /\ q[1] < q[2]
                  /\ \A k \in 1 .. q[1] - 1 : t[k] # Mark("begin")
                  /\ \A k \in q[1] .. q[2] - 1 : t[k] # Mark("end")}
<1>1. DOMAIN t = 1 .. Len(t) /\ Len(t) \in Nat /\ DOMAIN t \subseteq Nat
  BY SMT
<1>2. B \in SUBSET Nat /\ E \in SUBSET Nat
  BY <1>1 DEF BeginsOf, EndsOf
<1>3. ASSUME NEW b \in DOMAIN t, NEW e \in DOMAIN t, <<b, e>> \in Q
      PROVE  B # {} /\ E # {} /\ b = Nearest(B) /\ e = Nearest(E)
  <2>1. /\ t[b] = Mark("begin") /\ t[e] = Mark("end") /\ b < e
        /\ \A k \in 1 .. b - 1 : t[k] # Mark("begin")
        /\ \A k \in b .. e - 1 : t[k] # Mark("end")
    BY <1>3
  <2>2. b \in B
    BY <2>1 DEF BeginsOf
  <2>3. PICK f \in Nat : f = Nearest(B) /\ f \in B /\ f <= b /\ f \in DOMAIN t
    BY <1>2, <2>2, NearestIsFirst DEF BeginsOf
  <2>4. t[f] = Mark("begin")
    BY <2>3 DEF BeginsOf
  <2>5. b = f
    <3>1. f \in 1 .. b - 1 \/ f = b
      BY <1>1, <2>3, SMT
    <3> QED BY <2>1, <2>4, <3>1
  <2>6. e \in E
    <3>1. b \in Nat /\ e \in Nat /\ e > b
      BY <1>1, <2>1, SMT
    <3> QED BY <2>1, <2>3, <2>5, <3>1 DEF EndsOf
  <2>7. PICK g \in Nat : g = Nearest(E) /\ g \in E /\ g <= e
    BY <1>2, <2>6, NearestIsFirst
  <2>8. t[g] = Mark("end") /\ g > b
    BY <2>3, <2>5, <2>7 DEF EndsOf
  <2>9. g \in b .. e - 1 \/ g = e
    BY <1>1, <2>7, <2>8, SMT
  <2> QED BY <2>1, <2>2, <2>3, <2>5, <2>6, <2>7, <2>8, <2>9
<1>4. ASSUME B # {}, E # {} PROVE <<Nearest(B), Nearest(E)>> \in Q
  <2>1. PICK b \in Nat : b = Nearest(B) /\ b \in B /\ \A j \in B : b <= j
    BY <1>2, <1>4, NearestIsFirst
  <2>2. PICK e \in Nat : e = Nearest(E) /\ e \in E /\ \A j \in E : e <= j
    BY <1>2, <1>4, NearestIsFirst
  <2>3. b \in DOMAIN t /\ t[b] = Mark("begin")
    BY <2>1 DEF BeginsOf
  <2>4. e \in DOMAIN t /\ t[e] = Mark("end") /\ e > b
    BY <2>1, <2>2 DEF EndsOf
  <2>5. \A k \in 1 .. b - 1 : t[k] # Mark("begin")
    <3> SUFFICES ASSUME NEW k \in 1 .. b - 1, t[k] = Mark("begin") PROVE FALSE
      OBVIOUS
    <3>1. k \in DOMAIN t /\ ~(b <= k)
      BY <1>1, <2>3, SMT
    <3> QED BY <2>1, <3>1 DEF BeginsOf
  <2>6. \A k \in b .. e - 1 : t[k] # Mark("end")
    <3> SUFFICES ASSUME NEW k \in b .. e - 1, t[k] = Mark("end") PROVE FALSE
      OBVIOUS
    <3>1. k \in DOMAIN t /\ ~(e <= k) /\ (k > b \/ k = b)
      BY <1>1, <2>3, <2>4, SMT
    <3>2. k # b
      BY <2>3 DEF Mark
    <3>3. k \in E
      BY <2>1, <3>1, <3>2 DEF EndsOf
    <3> QED BY <2>2, <3>1, <3>3
  <2>7. b < e
    BY <2>4, SMT
  <2> HIDE DEF B, E
  <2> QED BY <2>1, <2>2, <2>3, <2>4, <2>5, <2>6, <2>7
<1>5. Enclosed(t) = {SubSeq(t, p[1] + 1, p[2] - 1) : p \in Q}
  BY Zenon DEF Enclosed
<1>6. \A p \in Q : \E b, e \in DOMAIN t : p = <<b, e>>
  BY SMT
<1> HIDE DEF Q, B, E
<1>7. CASE B = {} \/ E = {}
  <2>1. Q = {}
    BY <1>3, <1>6, <1>7
  <2> QED BY <1>5, <1>7, <2>1 DEF B, E
<1>8. CASE B # {} /\ E # {}
  <2>1. Q = {<<Nearest(B), Nearest(E)>>}
    BY <1>3, <1>4, <1>6, <1>8
  <2>2. Enclosed(t) = {SubSeq(t, Nearest(B) + 1, Nearest(E) - 1)}
    BY <1>5, <2>1
  <2> QED BY <1>8, <2>2, Zenon DEF B, E
<1> QED BY <1>7, <1>8

\* A DER begins with the header if each of its first bytes is that of the header.
LEMMA HeaderOf ==
  ASSUME NEW d \in Seq(0 .. 255), Len(d) = Len(KeyHeader) + KeyBytes
  PROVE  OfEd25519(d) <=> \A k \in 1 .. Len(KeyHeader) : d[k] = KeyHeader[k]
<1>1. PICK n \in Nat : n = Len(KeyHeader) /\ n <= Len(d) /\ KeyHeader \in Seq(0 .. 255)
  <2>1. KeyHeader \in Seq(0 .. 255) /\ KeyBytes \in Nat
    BY KeyTextAssumption
  <2>2. PICK n \in Nat, m \in Nat : n = Len(KeyHeader) /\ m = KeyBytes
    BY <2>1
  <2>3. n <= n + m /\ Len(d) = n + m
    BY <2>2, SMT
  <2> QED BY <2>1, <2>2, <2>3
<1>2. PICK h : h = SubSeq(d, 1, n)
  OBVIOUS
<1>3. Len(h) = n /\ h \in Seq(0 .. 255) /\ \A k \in 1 .. n : h[k] = d[k]
  BY <1>1, <1>2, SMT
<1>4. h = KeyHeader <=> \A k \in 1 .. n : h[k] = KeyHeader[k]
  BY <1>1, <1>3
<1> QED BY <1>1, <1>2, <1>3, <1>4 DEF OfEd25519

\* sotaDecodeSignatureB64() on every text.
LEMMA SignatureSpelled ==
  ASSUME NEW t \in Seq(TextPieces)
  PROVE  ParseSignature(t) = SpelledBy(t, SignatureBytes)
<1>1. /\ SignatureBytes \in Nat /\ SignatureBytes % 3 # 0
      /\ SignatureBytes + 16 \in Nat /\ SignatureBytes <= SignatureBytes + 16
  BY KeyTextAssumption, SMT
<1> QED BY <1>1, DecodesSpelled DEF ParseSignature

\* sotaParseEd25519PublicKeyPem() on every text.
LEMMA KeySpelled ==
  ASSUME NEW t \in Seq(TextPieces)
  PROVE  ParsePem(t) = KeyIn(t)
<1> DEFINE count == Len(KeyHeader) + KeyBytes
           body == SubSeq(t, Nearest(BeginsOf(t)) + 1, Nearest(EndsOf(t)) - 1)
           KeyOf(d) == SubSeq(d, Len(KeyHeader) + 1, Len(d))
           none == BeginsOf(t) = {} \/ EndsOf(t) = {}
           Starts(d) == \A k \in 1 .. Len(KeyHeader) : d[k] = KeyHeader[k]
           ders == UNION {SpelledBy(e, count) : e \in {x \in Enclosed(t) : Len(x) < BodyRoom}}
<1>1. count \in Nat /\ count % 3 # 0 /\ DerRoom \in Nat /\ count <= DerRoom /\ BodyRoom \in Nat
  BY KeyTextAssumption
<1>2. Enclosed(t) = IF none THEN {} ELSE {body}
  BY BetweenTheLines, Zenon
<1>3. ParsePem(t) =
        IF none \/ Len(body) >= BodyRoom THEN {}
        ELSE {KeyOf(d) : d \in {x \in Decoded(body, DerRoom) :
                                  Len(x) = count /\ OfEd25519(x)}}
  BY Zenon DEF ParsePem, BeginsOf, EndsOf
<1>4. KeyIn(t) = {KeyOf(d) : d \in {x \in ders : Starts(x)}}
  BY Zenon DEF KeyIn
<1> HIDE DEF KeyOf, Starts
<1>5. CASE none
  <2>1. Enclosed(t) = {}
    BY <1>2, <1>5, Zenon
  <2>2. ders = {}
    BY <2>1
  <2>3. KeyIn(t) = {}
    BY <1>4, <2>2
  <2> QED BY <1>3, <1>5, <2>3, Zenon
<1>6. CASE ~none
  <2>1. body \in Seq(TextPieces) /\ Len(body) \in Nat
    <3>1. BeginsOf(t) \in SUBSET Nat /\ EndsOf(t) \in SUBSET Nat
          /\ BeginsOf(t) \subseteq DOMAIN t /\ EndsOf(t) \subseteq DOMAIN t
      BY DEF BeginsOf, EndsOf
    <3>2. PICK b \in DOMAIN t, e \in DOMAIN t :
            b = Nearest(BeginsOf(t)) /\ e = Nearest(EndsOf(t))
      BY <1>6, <3>1, NearestIsFirst
    <3>3. SubSeq(t, b + 1, e - 1) \in Seq(TextPieces) /\ Len(SubSeq(t, b + 1, e - 1)) \in Nat
      BY SubSeqProperties
    <3> QED BY <3>2, <3>3, Zenon
  <2> HIDE DEF body, count
  <2>2. CASE Len(body) >= BodyRoom
    <3>1. ~(Len(body) < BodyRoom)
      BY <1>1, <2>1, <2>2, SMT
    <3>2. {x \in Enclosed(t) : Len(x) < BodyRoom} = {}
      BY <1>2, <1>6, <3>1
    <3>3. KeyIn(t) = {}
      BY <1>4, <3>2
    <3> QED BY <1>3, <2>2, <3>3, Zenon
  <2>3. CASE ~(Len(body) >= BodyRoom)
    <3>1. Len(body) < BodyRoom
      BY <1>1, <2>1, <2>3, SMT
    <3>2. {x \in Enclosed(t) : Len(x) < BodyRoom} = {body}
      BY <1>2, <1>6, <3>1
    <3>3. ders = SpelledBy(body, count)
      BY <3>2
    <3>4. /\ {x \in Decoded(body, DerRoom) : Len(x) = count} = SpelledBy(body, count)
          /\ \A x \in SpelledBy(body, count) : x \in Seq(0 .. 255) /\ Len(x) = count
      BY <1>1, <2>1, DecodesSpelled
    <3>5. \A x \in SpelledBy(body, count) : OfEd25519(x) <=> Starts(x)
      BY <3>4, HeaderOf, Zenon DEF count, Starts
    <3>6. {x \in Decoded(body, DerRoom) : Len(x) = count /\ OfEd25519(x)}
            = {x \in ders : Starts(x)}
      <4> HIDE DEF ders
      <4> QED BY <3>3, <3>4, <3>5
    <3> HIDE DEF ders
    <3> QED BY <1>3, <1>4, <1>6, <2>3, <3>6, Zenon
  <2> QED BY <2>2, <2>3
<1> QED BY <1>5, <1>6

\* Every text is made of pieces.
IsText == text \in Seq(TextPieces)

\* ParsePem() and ParseSignature() yield what the text spells, whatever the
\* text: sotaParseEd25519PublicKeyPem() and sotaDecodeSignatureB64() take
\* nothing malformed for a key or a signature and refuse nothing well-formed.
THEOREM KeysDecoded == TextInit /\ [][TypePiece]_text => []KeysAreSpelled
<1>1. TextInit => IsText
  BY DEF TextInit, IsText
<1>2. IsText /\ [TypePiece]_text => IsText'
  <2> SUFFICES ASSUME IsText, [TypePiece]_text PROVE IsText'
    OBVIOUS
  <2>1. CASE TypePiece
    <3>1. PICK piece \in TextPieces : text' = Append(text, piece)
      BY <2>1 DEF TypePiece
    <3> QED BY <3>1, AppendProperties DEF IsText
  <2>2. CASE UNCHANGED text
    BY <2>2 DEF IsText
  <2> QED BY <2>1, <2>2
<1>3. IsText => KeysAreSpelled
  BY SignatureSpelled, KeySpelled DEF IsText, KeysAreSpelled
<1> QED BY <1>1, <1>2, <1>3, PTL
=============================================================================
