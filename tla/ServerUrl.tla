----------------------------- MODULE ServerUrl -----------------------------
(***************************************************************************)
(* The server URL the sketch sets and the URL of an API request.  A URL is *)
(* a sequence of pieces: a scheme, a slash, an ordinary character, or one  *)
(* that no URL may hold.  A scheme piece stands at the front only.  The    *)
(* code looks for none of '?', '#', '@' and ':', so they are ordinary      *)
(* characters too: where in an authority the host is, is not a question    *)
(* this module can ask.                                                    *)
(***************************************************************************)
EXTENDS Naturals, Sequences

CONSTANTS
  UrlMax,      \* kSotaServerUrlMaxLen
  PathRoom,    \* what postJson() allows on top of it for the path and the end
  DefaultUrl,  \* kSotaDefaultServerUrl
  MaxPieces    \* bound on the pieces of a string the sketch sets

Pieces  == {"https://", "HTTPS://", "http://", "/", "a", "blank"}
Https   == {"https://", "HTTPS://"}
Schemes == Https \cup {"http://"}

ASSUME UrlAssumption ==
  /\ UrlMax \in Nat /\ PathRoom \in Nat /\ MaxPieces \in Nat
  /\ PathRoom > 2                                  \* a path and the end fit
  /\ DefaultUrl \in Seq({"https://", "a"}) /\ Len(DefaultUrl) \in 2 .. UrlMax - 7
  /\ \A k \in DOMAIN DefaultUrl : DefaultUrl[k] = "https://" <=> k = 1

VARIABLES serverUrl, candidate

urlVars == <<serverUrl, candidate>>

PieceLen(piece) == IF piece \in Https THEN 8 ELSE IF piece = "http://" THEN 7 ELSE 1

\* A scheme stands at the front only, so the length is plain arithmetic.
UrlLen(url) ==
  IF url = <<>> THEN 0 ELSE PieceLen(url[1]) + Len(url) - 1

\* sotaValidateServerUrl()
LaxHost(url) == Len(url) >= 1                               \* mutant
HasHost(url) == Len(url) > 1 /\ url[2] # "/"
ValidateServerUrl(url) ==
  IF url = <<>> \/ UrlLen(url) > UrlMax THEN "malformed"
  ELSE IF \E k \in DOMAIN url : url[k] = "blank" THEN "malformed"
  ELSE IF url[1] = "http://" THEN "not_https"
  ELSE IF url[1] \in Https /\ HasHost(url) THEN "ok" ELSE "malformed"

\* sotaSelectServerUrl()
SelectServerUrl(current, url) ==
  IF ValidateServerUrl(url) = "ok" THEN url ELSE current

\* The base without its trailing slashes, never into the scheme.
Stripped(base) ==
  LET kept == {k \in DOMAIN base : k = 1 \/ base[k] # "/"}
      last == CHOOSE k \in kept : \A j \in kept : j <= k
  IN  SubSeq(base, 1, last)

\* sotaBuildApiUrl() into a buffer of outLen bytes, the last one for the end.
NoUrl == <<>>
BuildApiUrl(base, path, outLen) ==
  IF UrlLen(Stripped(base)) >= outLen
     \/ Len(path) > outLen - 1 - UrlLen(Stripped(base))
  THEN NoUrl ELSE Stripped(base) \o path

-----------------------------------------------------------------------------
\* The sketch builds a string and sets it.
UrlInit == serverUrl = DefaultUrl /\ candidate = <<>>

Extend(piece) ==
  /\ Len(candidate) < MaxPieces
  /\ piece \in Schemes => candidate = <<>>
  /\ candidate' = Append(candidate, piece)
  /\ UNCHANGED serverUrl

SetServerUrl ==
  /\ serverUrl' = SelectServerUrl(serverUrl, candidate)
  /\ candidate' = <<>>

UrlNext == (\E piece \in Pieces : Extend(piece)) \/ SetServerUrl

-----------------------------------------------------------------------------
\* Whatever the sketch sets, a request goes over TLS, to the host that was set
\* or the default one, with its path after exactly one slash: the buffer holds
\* every URL that was accepted.
RequestsReachHost ==
  LET path == <<"/", "a">>
      url == BuildApiUrl(serverUrl, path, UrlMax + PathRoom)
      body == Len(url) - Len(path)
  IN  /\ url # NoUrl /\ url[1] \in Https
      /\ body > 1 /\ url[2] # "/" /\ url[body] # "/"
      /\ SubSeq(url, 1, body) = SubSeq(serverUrl, 1, body)
      /\ \A k \in DOMAIN url : url[k] # "blank"
=============================================================================
