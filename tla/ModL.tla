-------------------------------- MODULE ModL --------------------------------
(***************************************************************************)
(* Arithmetic modulo L, the order of the base point, as monocypher.c does  *)
(* it: numbers of 256 and 512 bits, no division.  A chain of 32-bit limbs  *)
(* with its carry is one number here.                                      *)
(***************************************************************************)
EXTENDS Integers

CONSTANTS
  L,      \* order of the base point
  Word    \* 2^256

\* L is below 2^253.
ASSUME ScalarAssumption == L \in Nat \ {0} /\ Word \in Nat /\ 8 * L <= Word

\* is_above_l(): the carry out of x + ~L + 1.
IsAboveL(x) == (x + (Word - 1 - L) + 1) \div Word

\* remove_l(): adds the two's complement of L, masked by the carry.
RemoveL(x) ==
  (x + IsAboveL(x) + (IF IsAboveL(x) = 1 THEN Word - 1 - L ELSE 0)) % Word

\* The table r of mod_l(): 2^512 divided by L.
BarrettR == (Word * Word) \div L

\* mod_l(): the quotient, its product with L and the difference, of which only
\* 256 bits are kept.
Quotient(x) == (x * BarrettR) \div (Word * Word)
Difference(x) == (1 + (x % Word) + (Word - 1 - ((Quotient(x) * L) % Word))) % Word
ModuloL(x) == RemoveL(Difference(x))
=============================================================================
