------------------------------- MODULE Sha512 -------------------------------
(***************************************************************************)
(* The streaming SHA-512 of the signature check: what reaches the          *)
(* compression function when a message arrives in pieces of any size.  The *)
(* function itself is not opened up: the digest is decided by the blocks   *)
(* compressed, in their order.                                             *)
(*                                                                         *)
(* One step is one turn of a loop of crypto_sha512_update().  A byte of    *)
(* the message is named by its position; the input words are written out   *)
(* as the bytes they hold, big end first.                                  *)
(***************************************************************************)
EXTENDS Naturals, Sequences

CONSTANTS
  Block,     \* bytes in a block, 128
  Word64,    \* 2^64
  MaxBytes   \* bound on the length of the message

ASSUME ShapeAssumption ==
  /\ Block \in Nat /\ Block > 3 /\ Word64 \in Nat /\ Word64 > 8 * Block
  /\ MaxBytes \in Nat

VARIABLES
  input,     \* ctx->input
  idx,       \* ctx->input_idx
  size,      \* ctx->input_size: hi and lo word of a number of bits
  blocks,    \* blocks compressed so far: stands for ctx->hash
  pc,        \* "ready", "align", "blocks", "rest", "final", "done"
  message,   \* the pointer into the message
  aligned,   \* bytes of the align loop
  left,      \* message_size
  turn,      \* loop index
  given      \* history: bytes handed in so far

ctx  == <<input, idx, size, blocks>>
call == <<pc, message, aligned, left, turn>>
vars == <<ctx, call, given>>

\* What a byte of a block holds.  A length takes two words at the end of the
\* last block; a word is one cell here.
Data(n)   == <<"data", n>>
Length(n) == <<"length", n>>
Zero      == <<"zero", 0>>
PadMark   == <<"pad", 0>>
Stale     == <<"stale", 0>>   \* what the compression leaves behind

Positions == 0 .. Block - 1
Filled(c) == [p \in Positions |-> c]
LengthAt  == Block - 2        \* byte 112, where the length begins

Init ==
  /\ input = Filled(Stale) /\ idx = 0
  /\ size = [hi |-> 0, lo |-> 0] /\ blocks = <<>>
  /\ pc = "ready" /\ message = 0 /\ aligned = 0 /\ left = 0 /\ turn = 0
  /\ given = 0

-----------------------------------------------------------------------------
\* sha512_set_input(): a byte is or-ed into a word that must still be zero.
SetInput(buffer, at, c) ==
  LET fresh == IF at = 0 THEN Filled(Zero) ELSE buffer
  IN  [fresh EXCEPT ![at] = IF @ = Zero THEN c ELSE Stale]

\* sha512_incr()
Incr(n, bits) ==
  LET lo == (n.lo + bits) % Word64
  IN  [hi |-> IF lo < bits THEN n.hi + 1 ELSE n.hi, lo |-> lo]

\* sha512_end_block()
EndBlock(buffer, at) ==
  IF at = Block
    THEN /\ size' = Incr(size, 8 * Block)
         /\ blocks' = Append(blocks, buffer)
         /\ input' = Filled(Stale) /\ idx' = 0
    ELSE input' = buffer /\ idx' = at /\ UNCHANGED <<size, blocks>>

-----------------------------------------------------------------------------
\* crypto_sha512_update()

Least(a, b) == IF a <= b THEN a ELSE b

\* align(): bytes up to the next block boundary.
ToBoundary(x) == (Block - (x % Block)) % Block

SkipsAlign(n) ==                                            \* mutant
  /\ pc = "ready" /\ n > 0 /\ given + n <= MaxBytes
  /\ given' = given + n
  /\ left' = n /\ aligned' = 0 /\ turn' = 0
  /\ pc' = "align"
  /\ UNCHANGED <<ctx, message>>
Update(n) ==
  /\ pc = "ready" /\ n > 0 /\ given + n <= MaxBytes
  /\ given' = given + n
  /\ left' = n /\ aligned' = Least(ToBoundary(idx), n) /\ turn' = 0
  /\ pc' = "align"
  /\ UNCHANGED <<ctx, message>>

\* A turn of sha512_update(): one byte.
Byte ==
  /\ (pc = "align" /\ turn < aligned) \/ (pc = "rest" /\ turn < left)
  /\ EndBlock(SetInput(input, idx, Data(message + turn)), idx + 1)
  /\ turn' = turn + 1
  /\ UNCHANGED <<pc, message, aligned, left, given>>

Aligned ==
  /\ pc = "align" /\ turn = aligned
  /\ message' = message + aligned /\ left' = left - aligned
  /\ pc' = "blocks" /\ turn' = 0
  /\ UNCHANGED <<ctx, aligned, given>>

WholeBlock ==
  /\ pc = "blocks" /\ turn < left \div Block
  /\ EndBlock([p \in Positions |-> Data(message + p)], idx + Block)
  /\ message' = message + Block /\ turn' = turn + 1
  /\ UNCHANGED <<pc, aligned, left, given>>

BlocksDone ==
  /\ pc = "blocks" /\ turn = left \div Block
  /\ left' = left % Block
  /\ pc' = "rest" /\ turn' = 0
  /\ UNCHANGED <<ctx, message, aligned, given>>

Updated ==
  /\ pc = "rest" /\ turn = left
  /\ message' = message + left   \* the next call brings a pointer of its own
  /\ pc' = "ready"
  /\ UNCHANGED <<ctx, aligned, left, turn, given>>

-----------------------------------------------------------------------------
\* crypto_sha512_final(): the penultimate block, if any, then the last.
Penultimate == idx >= LengthAt

ZeroedHead(buffer) ==
  [p \in Positions |-> IF p < LengthAt THEN Zero ELSE buffer[p]]

Final ==
  /\ pc = "ready" /\ pc' = "final"
  /\ size' = Incr(size, idx * 8)
  /\ LET padded == SetInput(input, idx, PadMark)
     IN  IF Penultimate
           THEN /\ blocks' = Append(blocks, padded)
                /\ input' = ZeroedHead(Filled(Stale))
           ELSE input' = padded /\ UNCHANGED blocks
  /\ UNCHANGED <<idx, message, aligned, left, turn, given>>

LastBlock ==
  /\ pc = "final" /\ pc' = "done"
  /\ blocks' = Append(blocks, [input EXCEPT ![LengthAt] = Length(size.hi),
                                            ![LengthAt + 1] = Length(size.lo)])
  /\ UNCHANGED <<input, idx, size, message, aligned, left, turn, given>>

\* The context is wiped; the next check starts one of its own.
Reuse == pc = "done" /\ UNCHANGED vars

Next ==
  \/ \E n \in 1 .. MaxBytes : Update(n)
  \/ Byte \/ Aligned \/ WholeBlock \/ BlocksDone \/ Updated
  \/ Final \/ LastBlock \/ Reuse

Spec == Init /\ [][Next]_vars

-----------------------------------------------------------------------------
\* FIPS 180-4, 5.1.2: the message, one mark, as few zeros as make it whole
\* blocks, the length in bits as a number of two words.
PaddedCell(n, total, at) ==
  IF at < n THEN Data(at)
  ELSE IF at = n THEN PadMark
  ELSE IF at = total - 2 THEN Length((8 * n) \div Word64)
  ELSE IF at = total - 1 THEN Length((8 * n) % Word64)
  ELSE Zero
BlocksFor(n) == (n + 3 + Block - 1) \div Block

\* However the message was cut up, the digest is that of the whole message:
\* the blocks compressed are those of the padded message.
DigestOfMessage ==
  pc = "done" =>
    /\ Len(blocks) = BlocksFor(given)
    /\ \A b \in 1 .. Len(blocks) : \A p \in Positions :
         blocks[b][p] = PaddedCell(given, Len(blocks) * Block, (b - 1) * Block + p)
=============================================================================
