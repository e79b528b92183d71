--------------------------- MODULE CheckSignature ---------------------------
(***************************************************************************)
(* The check of one Ed25519 signature under up to two candidate keys:      *)
(* SotaSignatureVerifier and, under it, the incremental check of           *)
(* monocypher.c, down to the curve.  The field is a small one with the     *)
(* shape of 2^255 - 19 (Prime % 8 = 5); its limbs are not opened up: an    *)
(* element is its value.  The digest is a function of the bytes hashed.    *)
(*                                                                         *)
(* One step is one call, or one turn of the ladder.                        *)
(***************************************************************************)
EXTENDS ModL, Sequences, SequencesExt

CONSTANTS
  Prime,          \* of the field
  CurveD, SqrtM1, \* d and a root of -1
  Base,           \* the base point, [x, y]
  TopBit,         \* the highest bit of L: 252
  MaxKeys,        \* SotaSignatureVerifier::kMaxKeys
  Digest(_),      \* SHA-512 of what a context was fed, 512 bits
  KeyLists,       \* keys offered to begin()
  RValues, SValues, Chunks, MaxChunks

ASSUME CurveAssumption ==
  /\ Prime % 8 = 5 /\ (SqrtM1 * SqrtM1) % Prime = Prime - 1
  /\ 2^TopBit <= L /\ L < 2^(TopBit + 1)

VARIABLES
  contexts,   \* _ctx[0 .. _numKeys - 1]: the key and the bytes fed
  sig,        \* the signature, [R, s]
  offered,    \* history: the keys of begin()
  image,      \* history: the bytes of update()
  phase,      \* "idle", "updating", "final", "ladder", "verdict"
  slot,       \* index of the context final() is at
  ladder,     \* locals of ge_double_scalarmult_vartime()
  accepted    \* ok of final()

checkVars == <<contexts, sig, offered, image, phase, slot, ladder, accepted>>

-----------------------------------------------------------------------------
\* invsqrt(), fe_invert()

Power(x, n) == FoldLeft(LAMBDA a, k : (a * x) % Prime, 1, [k \in 1 .. n |-> k])

InvSqrt(x) ==
  LET t0 == Power(x, (Prime - 5) \div 8)
      quartic == (((t0 * t0) % Prime) * x) % Prime
  IN  [isr |-> IF quartic \in {Prime - 1, Prime - SqrtM1}
                 THEN (t0 * SqrtM1) % Prime ELSE t0,
       square |-> quartic \in {1, Prime - 1} \/ x = 0]

Invert(x) ==
  LET isr == InvSqrt((x * x) % Prime).isr IN (((isr * isr) % Prime) * x) % Prime

\* A point in extended coordinates: x = X/Z, y = Y/Z, T = XY/Z.
Point(X, Y, Z, T) == [X |-> X % Prime, Y |-> Y % Prime, Z |-> Z % Prime, T |-> T % Prime]
GeZero == Point(0, 1, 1, 0)

Encoded(x, y) == [y |-> y, sign |-> x % 2]
ToBytes(h) ==
  LET recip == Invert(h.Z) IN Encoded((h.X * recip) % Prime, (h.Y * recip) % Prime)

\* ge_frombytes_neg_vartime(): minus the point, or nothing.
Flips(x, s) == x % 2 = s.sign
FromBytesNeg(s) ==
  LET y == s.y % Prime
      num == (y * y - 1) % Prime
      den == (((CurveD * y) % Prime) * y + 1) % Prime
      root == InvSqrt((num * den) % Prime)
      x == (num * root.isr) % Prime
      X == IF Flips(x, s) THEN (Prime - x) % Prime ELSE x
  IN  IF root.square THEN {Point(X, y, 1, X * y)} ELSE {}

-----------------------------------------------------------------------------
\* The group: ge_cache(), ge_add(), ge_sub(), ge_madd(), ge_msub(), ge_double()

GeCache(p) ==
  [Yp |-> (p.Y + p.X) % Prime, Ym |-> (p.Y - p.X) % Prime, Z |-> p.Z,
   T2 |-> (p.T * ((2 * CurveD) % Prime)) % Prime]

Minus(q) == [q EXCEPT !.Yp = q.Ym, !.Ym = q.Yp, !.T2 = (Prime - @) % Prime]

GeSum(p, q, zz) ==
  LET a == ((p.Y + p.X) * q.Yp) % Prime
      b == ((p.Y - p.X) * q.Ym) % Prime
      Y == (a + b) % Prime
      X == (a - b) % Prime
      z == zz % Prime
      t == (p.T * q.T2) % Prime
  IN  Point(X * (z - t), Y * (z + t), ((z + t) % Prime) * ((z - t) % Prime), X * Y)

GeAdd(p, q) == GeSum(p, q, 2 * p.Z * q.Z)
GeSub(p, q) == GeAdd(p, Minus(q))

\* A precomputed point has Z = 1.
GeMadd(p, q) == GeSum(p, q, 2 * p.Z)
GeMsub(p, q) == GeMadd(p, Minus(q))

GeDouble(p) ==
  LET xx == (p.X * p.X) % Prime
      yy == (p.Y * p.Y) % Prime
      zz == (2 * p.Z * p.Z) % Prime
      t == (yy + xx) % Prime
      y == (yy - xx) % Prime
      x == ((p.X + p.Y) * (p.X + p.Y) - t) % Prime
      z == (zz - y) % Prime
  IN  Point(x * z, t * y, y * z, x * t)

-----------------------------------------------------------------------------
\* Signed sliding windows, from the left: slide_init(), slide_step()

ScalarBit(n, i) == IF i < 0 THEN 0 ELSE (n \div 2^i) % 2

SlideInit(n) ==
  LET ones == {i \in 1 .. TopBit : ScalarBit(n, i) = 1} \cup {0}
  IN  [next_check |-> (CHOOSE i \in ones : \A j \in ones : j <= i) + 1,
       next_index |-> -1, next_digit |-> -1]

Window(width, i) == IF width <= i + 1 THEN width ELSE i + 1

\* The digit of the window below bit i, before its trailing zeros go.
NoCarryIn(n, i, w) ==                                            \* mutant
  ((n \div 2^(i - w + 1)) % 2^(w - 1)) - ScalarBit(n, i) * 2^(w - 1)
WindowValue(n, i, w) ==
  ((n \div 2^(i - w + 1)) % 2^(w - 1)) - ScalarBit(n, i) * 2^(w - 1)
    + ScalarBit(n, i - w)

\* ctx->next_check is 8 bits wide.
SlideStep(ctx, width, i, n) ==
  IF i # ctx.next_check THEN ctx
  ELSE IF ScalarBit(n, i) = ScalarBit(n, i - 1)
    THEN [ctx EXCEPT !.next_check = (@ - 1) % 256]
    ELSE LET w == Window(width, i)
             v == WindowValue(n, i, w)
             s == CHOOSE k \in 0 .. 7 : v % 2^k = 0 /\ v % 2^(k + 1) # 0
         IN  [next_check |-> (ctx.next_check - w) % 256,
              next_index |-> i - (w - 1) + s, next_digit |-> v \div 2^s]

SlideDigit(ctx, i) == IF i = ctx.next_index THEN ctx.next_digit ELSE 0

PWidth == 3
BWidth == 5

\* The odd multiple a digit names, added or subtracted.
Named(table, digit) == table[(IF digit < 0 THEN -digit ELSE digit) \div 2 + 1]
AddKeyDigit(sum, window, digit) ==
  IF digit > 0 THEN GeAdd(sum, Named(window, digit))
  ELSE IF digit < 0 THEN GeSub(sum, Named(window, digit)) ELSE sum
AddBaseDigit(sum, window, digit) ==
  IF digit > 0 THEN GeMadd(sum, Named(window, digit))
  ELSE IF digit < 0 THEN GeMsub(sum, Named(window, digit)) ELSE sum

\* b_window: the odd multiples of the base point, 1 to 15, with Z = 1.
Affine(x, y) == Point(x, y, 1, x * y)
Normal(p) ==
  LET recip == Invert(p.Z) IN Affine((p.X * recip) % Prime, (p.Y * recip) % Prime)
BWindow ==
  LET point == Affine(Base.x, Base.y)
      twice == GeCache(GeDouble(point))
      odd == FoldLeft(LAMBDA t, k : Append(t, GeAdd(t[k], twice)), <<point>>,
                      [k \in 1 .. 7 |-> k])
  IN  FoldLeft(LAMBDA t, p : Append(t, GeCache(Normal(p))), <<>>, odd)

-----------------------------------------------------------------------------
CheckIdle ==
  /\ contexts = <<>> /\ sig = [R |-> Encoded(0, 1), s |-> 0]
  /\ offered = <<>> /\ image = <<>>
  /\ phase = "idle" /\ slot = 1 /\ ladder = <<>> /\ accepted = FALSE

\* begin(): extra keys are ignored.
Candidates(keys) == SubSeq(keys, 1, IF Len(keys) > MaxKeys THEN MaxKeys ELSE Len(keys))

\* crypto_check_init(): R and the key are hashed first.
Context(pk, R) == [pk |-> pk, fed |-> <<R, pk>>]

Begin(keys, R, s) ==
  /\ phase = "idle" /\ phase' = "updating"
  /\ offered' = keys /\ sig' = [R |-> R, s |-> s]
  /\ contexts' = [k \in DOMAIN Candidates(keys) |-> Context(keys[k], R)]
  /\ UNCHANGED <<image, slot, ladder, accepted>>

\* update(): every context is fed.
Feed(chunk) ==
  contexts' = [k \in DOMAIN contexts |-> [contexts[k] EXCEPT !.fed = @ \o chunk]]
VerifierUpdate(chunk) ==
  /\ phase = "updating" /\ Len(image) < MaxChunks
  /\ Feed(chunk) /\ image' = image \o chunk
  /\ UNCHANGED <<sig, offered, phase, slot, ladder, accepted>>

VerifierFinal ==
  /\ phase = "updating" /\ phase' = "final"
  /\ UNCHANGED <<contexts, sig, offered, image, slot, ladder, accepted>>

\* crypto_check_final(), up to the ladder.  P is minus the key.
StartLadder(P, h) ==
  LET p == SlideInit(h)
      b == SlideInit(sig.s)
  IN  [i |-> IF p.next_check > b.next_check THEN p.next_check ELSE b.next_check,
       p |-> p, b |-> b, h |-> h, sum |-> GeZero,
       window |-> <<GeCache(P), GeCache(GeAdd(GeDouble(P), GeCache(P)))>>]

Refused(pk) == FromBytesNeg(pk) = {} \/ IsAboveL(sig.s) = 1

RefuseKey ==
  /\ phase = "final" /\ slot <= Len(contexts) /\ Refused(contexts[slot].pk)
  /\ slot' = slot + 1
  /\ UNCHANGED <<contexts, sig, offered, image, phase, ladder, accepted>>

EnterLadder ==
  /\ phase = "final" /\ slot <= Len(contexts) /\ ~Refused(contexts[slot].pk)
  /\ \E P \in FromBytesNeg(contexts[slot].pk) :
       ladder' = StartLadder(P, ModuloL(Digest(contexts[slot].fed)))
  /\ phase' = "ladder"
  /\ UNCHANGED <<contexts, sig, offered, image, slot, accepted>>

\* A turn of the double and add ladder, both scalars at once.
Turn ==
  /\ phase = "ladder" /\ ladder.i >= 0
  /\ LET p == SlideStep(ladder.p, PWidth, ladder.i, ladder.h)
         b == SlideStep(ladder.b, BWidth, ladder.i, sig.s)
         withKey == AddKeyDigit(GeDouble(ladder.sum), ladder.window, SlideDigit(p, ladder.i))
         withBase == AddBaseDigit(withKey, BWindow, SlideDigit(b, ladder.i))
     IN  ladder' = [ladder EXCEPT !.i = @ - 1, !.p = p, !.b = b, !.sum = withBase]
  /\ UNCHANGED <<contexts, sig, offered, image, phase, slot, accepted>>

\* R_check against R; a key that fails does not take back another's success.
Accept(same) == accepted' = (accepted \/ same)
Compare ==
  /\ phase = "ladder" /\ ladder.i < 0
  /\ Accept(ToBytes(ladder.sum) = sig.R)
  /\ phase' = "final" /\ slot' = slot + 1 /\ ladder' = <<>>
  /\ UNCHANGED <<contexts, sig, offered, image>>

\* _numKeys is 0 again.
Verdict ==
  /\ phase = "final" /\ slot > Len(contexts)
  /\ phase' = "verdict" /\ contexts' = <<>>
  /\ UNCHANGED <<sig, offered, image, slot, ladder, accepted>>

CheckNext ==
  \/ \E keys \in KeyLists, R \in RValues, s \in SValues : Begin(keys, R, s)
  \/ \E chunk \in Chunks : VerifierUpdate(chunk)
  \/ VerifierFinal \/ RefuseKey \/ EnterLadder \/ Turn \/ Compare \/ Verdict

-----------------------------------------------------------------------------
\* The equation of RFC 8032, on points of the curve as such: [s]B = R + [h]A.
\* h is reduced mod L first, as the code does, which tells points with a part
\* of small order apart.

Inverses ==
  FoldLeft(LAMBDA t, n : Append(t, CHOOSE m \in 1 .. Prime - 1 : (n * m) % Prime = 1),
           <<>>, [n \in 1 .. Prime - 1 |-> n])

Divided(n, m) == ((n % Prime) * Inverses[m % Prime]) % Prime
Plus(p, q) ==
  LET t == (((CurveD * p.x * q.x) % Prime) * ((p.y * q.y) % Prime)) % Prime
  IN  [x |-> Divided(p.x * q.y + p.y * q.x, 1 + t),
       y |-> Divided(p.y * q.y + p.x * q.x, 1 - t)]

Times(n, p) == FoldLeft(LAMBDA sum, k : Plus(sum, p), [x |-> 0, y |-> 1], [k \in 1 .. n |-> k])

OnCurve(p) ==
  LET xx == (p.x * p.x) % Prime
      yy == (p.y * p.y) % Prime
  IN  (yy - xx - 1 - ((CurveD * xx) % Prime) * yy) % Prime = 0

\* The points an encoding stands for: one or none.  y may be Prime or above, and
\* the sign of x = 0 is not looked at.
Spelled(s) ==
  {p \in [x : 0 .. Prime - 1, y : {s.y % Prime}] :
     OnCurve(p) /\ (p.x % 2 = s.sign \/ p.x = 0)}

SatisfiesEquation(pk) ==
  LET h == Digest(<<sig.R, pk>> \o image) % L
  IN  \E A \in Spelled(pk) : \E R \in Spelled(sig.R) :
        /\ Encoded(R.x, R.y) = sig.R
        /\ Plus(R, Times(h, A)) = Times(sig.s, Base)

\* The image is accepted exactly when s is below L and the signature satisfies
\* the equation under one of the first two keys, however the image was cut up:
\* sliding windows, the reduction of the digest and the group formulas together
\* compute [s]B - [h]A, and every context has hashed R, its key and the image.
SignatureDecides ==
  phase = "verdict" =>
    (accepted <=> /\ sig.s < L
                  /\ \E k \in 1 .. Len(offered) : k <= MaxKeys /\ SatisfiesEquation(offered[k]))
=============================================================================
