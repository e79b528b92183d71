---------------------------- MODULE MCAlgorithms ----------------------------
(***************************************************************************)
(* The pure algorithms, each explored on its own: a behaviour is one of    *)
(* Sha512, CheckSignature, ServerUrl, KeyText or Json, the others standing *)
(* still.                                                                  *)
(***************************************************************************)
EXTENDS Sha512, CheckSignature, ServerUrl, KeyText, Json

VARIABLE algorithm

MCDefaultUrl == <<"https://", "a">>
MCKeyHeader == <<1>>

\* A curve over 269 elements with 8 * 37 points.  The digest mixes R, the key
\* and the bytes of the image; it takes values far above L.
MCDigest(fed) ==
  FoldLeft(LAMBDA h, byte : (37 * h + byte) % (Word * Word),
           1000 * fed[1].y + 500 * fed[1].sign + fed[2].y + fed[2].sign,
           SubSeq(fed, 3, Len(fed)))
MCBase == [x |-> 2, y |-> 28]
Spelling(y, sign) == [y |-> y, sign |-> sign]
MCPlain == Spelling(120, 1)   \* 11 times the base point
MCAbove == Spelling(279, 0)   \* 29 times, with a y above Prime
MCMixed == Spelling(45, 1)    \* 5 times, and a part of order 8
MCOff   == Spelling(2, 0)     \* not on the curve
MCKeyLists ==
  {<<>>, <<MCPlain>>, <<MCOff, MCAbove>>, <<MCAbove, MCPlain>>, <<MCMixed>>,
   <<MCOff, MCMixed, MCPlain>>}
MCRValues ==
  {Spelling(28, 0), Spelling(28, 1), Spelling(10, 0), Spelling(279, 0), Spelling(184, 1)}
MCSValues == (0 .. 38) \cup {74, 511}
MCChunks == {<<1>>, <<2, 3>>}

AlgorithmsInit ==
  /\ algorithm \in {"sha512", "check", "url", "key", "json"}
  /\ Init /\ CheckIdle /\ UrlInit /\ TextInit /\ JsonInit

AlgorithmsNext ==
  /\ UNCHANGED algorithm
  /\ \/ algorithm = "sha512" /\ Next /\ UNCHANGED <<checkVars, urlVars, text, members>>
     \/ algorithm = "check" /\ CheckNext /\ UNCHANGED <<vars, urlVars, text, members>>
     \/ algorithm = "url" /\ UrlNext /\ UNCHANGED <<vars, checkVars, text, members>>
     \/ algorithm = "key" /\ TypePiece /\ UNCHANGED <<vars, checkVars, urlVars, members>>
     \/ algorithm = "json" /\ JsonNext /\ UNCHANGED <<vars, checkVars, urlVars, text>>

AlgorithmsSpec ==
  AlgorithmsInit /\ [][AlgorithmsNext]_<<vars, checkVars, urlVars, text, members, algorithm>>
=============================================================================
