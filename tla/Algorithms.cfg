\* A text, a URL and an object stop growing at their bounds.
CHECK_DEADLOCK FALSE
SPECIFICATION AlgorithmsSpec
CONSTANTS
 Block = 6
 Word64 = 64
 MaxBytes = 20
 UrlMax = 12
 PathRoom = 3
 MaxPieces = 6
 DefaultUrl <- MCDefaultUrl
 DigitsUsed = {0, 16, 63}
 AccMod = 65536
 KeyHeader <- MCKeyHeader
 KeyBytes = 1
 SignatureBytes = 1
 DerRoom = 3
 BodyRoom = 5
 TextMax = 6
 NumberMod = 16
 MaxMembers = 2
 MaxChars = 6
 L = 37
 Word = 512
 Prime = 269
 CurveD = 12
 SqrtM1 = 82
 Base <- MCBase
 TopBit = 5
 MaxKeys = 2
 Digest <- MCDigest
 KeyLists <- MCKeyLists
 RValues <- MCRValues
 SValues <- MCSValues
 Chunks <- MCChunks
 MaxChunks = 2

INVARIANT DigestOfMessage
INVARIANT SignatureDecides
INVARIANT RequestsReachHost
INVARIANT KeysAreSpelled
INVARIANT ReadsBack
