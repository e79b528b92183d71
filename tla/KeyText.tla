------------------------------ MODULE KeyText ------------------------------
(***************************************************************************)
(* What the signing code reads: base64, the PEM of a public key, the       *)
(* base64 of a signature.  A text is a sequence of pieces: base64 digits   *)
(* are <<"digit", 0..63>>, the rest marks: "pad" is '=', "space" any white *)
(* space, "begin" and "end" the armor lines of a PEM, "other" any          *)
(* character that is none of these.  Bytes are numbers.  Room for text     *)
(* (BodyRoom) is counted in pieces, an armor line as one.                  *)
(***************************************************************************)
EXTENDS Naturals, Sequences, Functions

CONSTANTS
  DigitsUsed,   \* base64 digits of the texts explored
  AccMod,       \* 2^32, the width of the accumulator
  KeyHeader,    \* kEd25519SpkiHeader
  KeyBytes,     \* 32
  SignatureBytes, \* 64
  DerRoom,      \* size of der[], 64
  BodyRoom,     \* size of body[], 128
  TextMax       \* bound on the length of a text

ASSUME KeyTextAssumption ==
  /\ DigitsUsed \subseteq 0 .. 63
  /\ AccMod \in Nat \ {0} /\ AccMod % 4096 = 0          \* two digits fit
  /\ KeyHeader \in Seq(0 .. 255) /\ KeyBytes \in Nat \ {0}
  /\ SignatureBytes \in Nat \ {0} /\ DerRoom \in Nat
  /\ Len(KeyHeader) + KeyBytes <= DerRoom /\ BodyRoom \in Nat /\ TextMax \in Nat
  \* 44 and 64 bytes end inside a group of four digits; after a whole group
  \* b64Decode() would take a zero digit for padding
  /\ (Len(KeyHeader) + KeyBytes) % 3 # 0 /\ SignatureBytes % 3 # 0

VARIABLE text

Digit(d) == <<"digit", d>>
Mark(m)  == <<m, 0>>
TextPieces ==
  {Digit(d) : d \in DigitsUsed}
  \cup {Mark(m) : m \in {"pad", "space", "begin", "end", "other"}}
IsDigit(piece) == piece[1] = "digit"

\* 2^n, for the bits of a digit.
TwoTo(n) == <<1, 2, 4, 8, 16, 32, 64>>[n + 1]

-----------------------------------------------------------------------------
\* b64Decode(): one turn of its loop.
Start == [acc |-> 0, bits |-> 0, out |-> <<>>, padded |-> FALSE, ok |-> TRUE]

Shift(s, d, room) ==
  LET acc  == (s.acc * 64 + d) % AccMod
      bits == s.bits + 6
  IN  IF bits < 8 THEN [s EXCEPT !.acc = acc, !.bits = bits]
      ELSE IF Len(s.out) >= room THEN [s EXCEPT !.ok = FALSE]
      ELSE [s EXCEPT !.acc = acc, !.bits = bits - 8,
                     !.out = Append(@, (acc \div TwoTo(bits - 8)) % 256)]

DecodeStep(s, piece, room) ==
  IF ~s.ok \/ piece[1] = "space" THEN s
  ELSE IF piece[1] = "pad" THEN [s EXCEPT !.padded = TRUE]
  ELSE IF s.padded \/ ~IsDigit(piece) THEN [s EXCEPT !.ok = FALSE]
  ELSE Shift(s, piece[2], room)

\* Left-over bits must be zero.
LeavesBits(s) == s.ok                                       \* mutant
Complete(s) == s.ok /\ s.acc % TwoTo(s.bits) = 0

\* The decoder after each piece.
Decoding(t, room) ==
  LET run[k \in 0 .. Len(t)] ==
        IF k = 0 THEN Start ELSE DecodeStep(run[k - 1], t[k], room)
  IN  run

\* The bytes of a text, as a set: empty when it is malformed.
Decoded(t, room) ==
  LET last == Decoding(t, room)[Len(t)]
  IN  IF Complete(last) THEN {last.out} ELSE {}

\* sotaParseEd25519PublicKeyPem(): the text between the first BEGIN line and
\* the first END line after it.
Nearest(S) == CHOOSE k \in S : \A j \in S : k <= j
OfEd25519(der) == SubSeq(der, 1, Len(KeyHeader)) = KeyHeader
ParsePem(t) ==
  LET begins == {k \in DOMAIN t : t[k] = Mark("begin")}
      ends == {k \in DOMAIN t : t[k] = Mark("end") /\ k > Nearest(begins)}
      body == SubSeq(t, Nearest(begins) + 1, Nearest(ends) - 1)
  IN  IF begins = {} \/ ends = {} \/ Len(body) >= BodyRoom THEN {}
      ELSE {SubSeq(der, Len(KeyHeader) + 1, Len(der)) :
              der \in {d \in Decoded(body, DerRoom) :
                         Len(d) = Len(KeyHeader) + KeyBytes /\ OfEd25519(d)}}

\* sotaDecodeSignatureB64(); its buffer has room to spare.
ParseSignature(t) ==
  {d \in Decoded(t, SignatureBytes + 16) : Len(d) = SignatureBytes}

-----------------------------------------------------------------------------
TextInit == text = <<>>
TypePiece == Len(text) < TextMax /\ \E piece \in TextPieces : text' = Append(text, piece)

-----------------------------------------------------------------------------
\* RFC 4648, read bit by bit: white space anywhere, '=' only after the digits,
\* no digit more than the bytes need, zero bits at the end.
Bit(digits, b) == (digits[b \div 6 + 1][2] \div TwoTo(5 - (b % 6))) % 2
Octet(digits, n) ==
  LET b(k) == Bit(digits, 8 * n - 8 + k)
  IN  128 * b(0) + 64 * b(1) + 32 * b(2) + 16 * b(3) + 8 * b(4) + 4 * b(5) + 2 * b(6) + b(7)

\* The digits among the first pieces of a text.
DigitsOf(t) ==
  LET digits[k \in 0 .. Len(t)] ==
        IF k = 0 THEN <<>>
        ELSE IF IsDigit(t[k]) THEN Append(digits[k - 1], t[k]) ELSE digits[k - 1]
  IN  digits

SpelledBy(t, count) ==
  LET digits == DigitsOf(t)[Len(t)]
  IN  IF /\ Len(digits) = (8 * count + 5) \div 6
         /\ \A b \in 8 * count .. 6 * Len(digits) - 1 : Bit(digits, b) = 0
         /\ Range(t) \cap {Mark("begin"), Mark("end"), Mark("other")} = {}
         /\ \A j, k \in DOMAIN t : t[j] = Mark("pad") /\ IsDigit(t[k]) => k < j
      THEN {[n \in 1 .. count |-> Octet(digits, n)]} ELSE {}

\* The key a text holds: the first BEGIN line and the next END line enclose
\* what spells the Ed25519 header and the key.
Enclosed(t) ==
  {SubSeq(t, p[1] + 1, p[2] - 1) :
     p \in {q \in (DOMAIN t) \X (DOMAIN t) :
             /\ t[q[1]] = Mark("begin") /\ t[q[2]] = Mark("end") /\ q[1] < q[2]
             /\ \A k \in 1 .. q[1] - 1 : t[k] # Mark("begin")
             /\ \A k \in q[1] .. q[2] - 1 : t[k] # Mark("end")}}
KeyIn(t) ==
  LET n == Len(KeyHeader)
      ders == UNION {SpelledBy(body, n + KeyBytes) :
                       body \in {e \in Enclosed(t) : Len(e) < BodyRoom}}
  IN  {SubSeq(der, n + 1, Len(der)) :
         der \in {d \in ders : \A k \in 1 .. n : d[k] = KeyHeader[k]}}

\* A text yields the key or the signature it spells and no other: nothing
\* malformed is taken for one, nothing well-formed refused, however the lines
\* are broken.
KeysAreSpelled ==
  /\ ParseSignature(text) = SpelledBy(text, SignatureBytes)
  /\ ParsePem(text) = KeyIn(text)
=============================================================================
