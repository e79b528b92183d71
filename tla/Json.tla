-------------------------------- MODULE Json --------------------------------
(***************************************************************************)
(* The JSON helpers: what a request carries and what check() finds in the  *)
(* answer.  A text is a sequence of characters, each a string of its own;  *)
(* "true" and "false" are one piece.  An object is a sequence of members   *)
(* whose value is a string, a number or a Boolean.                         *)
(***************************************************************************)
EXTENDS Naturals, Sequences, Functions, SequencesExt

CONSTANTS
  NumberMod,   \* 2^32
  MaxMembers,  \* bound on the members of an object
  MaxChars     \* bound on the characters of its values, a member counting as two

VARIABLE members

DigitOf == [c \in {"0", "1", "9"} |-> IF c = "0" THEN 0 ELSE IF c = "1" THEN 1 ELSE 9]
Digits  == DOMAIN DigitOf
Letters == {"k", "n"}
Spaces  == {"space"}
StringChars == Letters \cup {"quote", "backslash", "newline", "control", ":", "space"}

Keyword == <<"k">>
Names   == {<<"k">>, <<"n">>, <<"k", "n">>, <<"n", "k">>}

-----------------------------------------------------------------------------
\* appendJsonString(): control characters other than \n, \r, \t are dropped.
EscapesNothing(c) == <<c>>                                  \* mutant
EscapedChar(c) ==
  IF c \in {"quote", "backslash"} THEN <<"backslash", c>>
  ELSE IF c = "newline" THEN <<"backslash", "n">>
  ELSE IF c = "control" THEN <<>> ELSE <<c>>
JsonString(s) == <<"quote">> \o FlattenSeq([k \in DOMAIN s |-> EscapedChar(s[k])]) \o <<"quote">>

\* Past white space, from p.
PastSpaces(s, p) ==
  LET next == {q \in p .. Len(s) : s[q] \notin Spaces}
  IN  IF next = {} THEN Len(s) + 1 ELSE CHOOSE q \in next : \A r \in next : q <= r

\* Past the closing quote of the string whose text begins at p.
PastString(s, p) ==
  LET past[q \in p .. Len(s) + 2] ==
        IF q > Len(s) THEN Len(s) + 1
        ELSE IF s[q] = "quote" THEN q + 1
        ELSE past[IF s[q] = "backslash" THEN q + 2 ELSE q + 1]
  IN  past[p]

\* The string at p is the key, and a colon follows.
IsKeyAt(s, p, key) ==
  /\ p + Len(key) + 1 <= Len(s)
  /\ SubSeq(s, p + 1, p + Len(key) + 1) = Append(key, "quote")
  /\ LET colon == PastSpaces(s, p + Len(key) + 2)
     IN  colon <= Len(s) /\ s[colon] = ":"

\* jsonFindValue(): where the value begins, 0 when the key is not found.
FindValue(s, key) ==
  LET find[p \in 1 .. Len(s) + 1] ==
        IF p > Len(s) THEN 0
        ELSE IF s[p] # "quote" THEN find[p + 1]
        ELSE IF IsKeyAt(s, p, key)
          THEN PastSpaces(s, PastSpaces(s, p + Len(key) + 2) + 1)
        ELSE find[PastString(s, p + 1)]
  IN  find[1]

\* jsonGetString(), jsonGetUint(), jsonGetBool(): what is found, as a set.
Unescaped(c) == IF c = "n" THEN "newline" ELSE c
StringAt(s, p) ==
  LET read[q \in p .. Len(s) + 2] ==
        IF q > Len(s) THEN <<>>
        ELSE IF s[q] = "quote" THEN <<>>
        ELSE IF s[q] = "backslash" /\ q < Len(s) THEN <<Unescaped(s[q + 1])>> \o read[q + 2]
        ELSE <<s[q]>> \o read[q + 1]
  IN  read[p]
GetString(s, key) ==
  LET p == FindValue(s, key)
  IN  IF p \in DOMAIN s /\ s[p] = "quote" THEN {StringAt(s, p + 1)} ELSE {}

NumberAt(s, p) ==
  LET read[q \in p - 1 .. Len(s)] ==
        IF q < p THEN 0 ELSE (read[q - 1] * 10 + DigitOf[s[q]]) % NumberMod
      last == CHOOSE q \in p .. Len(s) :
                /\ \A r \in p .. q : s[r] \in Digits
                /\ q = Len(s) \/ s[q + 1] \notin Digits
  IN  read[last]
GetUint(s, key) ==
  LET p == FindValue(s, key)
  IN  IF p \in DOMAIN s /\ s[p] \in Digits THEN {NumberAt(s, p)} ELSE {}

GetBool(s, key) ==
  LET p == FindValue(s, key)
  IN  IF p \in DOMAIN s /\ s[p] \in {"true", "false"} THEN {s[p] = "true"} ELSE {}

-----------------------------------------------------------------------------
\* An object grows by a member, or its last member by a character.
Member(name, kind, value) == [name |-> name, kind |-> kind, value |-> value]
Written == FoldFunction(LAMBDA m, n : Len(m.value) + 2 + n, 0, members)

JsonInit == members = <<>>

AddMember(name) ==
  /\ Len(members) < MaxMembers /\ Written + 2 <= MaxChars
  /\ \/ members' = Append(members, Member(name, "string", <<>>))
     \/ \E d \in Digits : members' = Append(members, Member(name, "number", <<d>>))
     \/ \E b \in {"true", "false"} : members' = Append(members, Member(name, "Boolean", <<b>>))

TypeChar ==
  /\ members # <<>> /\ Written < MaxChars
  /\ LET last == Len(members)
     IN \/ /\ members[last].kind = "string"
           /\ \E c \in StringChars : members' = [members EXCEPT ![last].value = Append(@, c)]
        \/ /\ members[last].kind = "number"
           /\ \E d \in Digits : members' = [members EXCEPT ![last].value = Append(@, d)]

JsonNext == TypeChar \/ \E name \in Names : AddMember(name)

ValueText(m) == IF m.kind = "string" THEN JsonString(m.value) ELSE m.value
MemberText(m) == JsonString(m.name) \o <<":", "space">> \o ValueText(m)
ObjectText == <<"{">> \o FlattenSeq([k \in DOMAIN members |->
                MemberText(members[k]) \o (IF k = Len(members) THEN <<"}">> ELSE <<",">>)])

-----------------------------------------------------------------------------
RECURSIVE ValueOf(_)
ValueOf(digits) ==
  IF digits = <<>> THEN 0 ELSE 10 * ValueOf(Front(digits)) + DigitOf[Last(digits)]

\* What an object holds comes back from its text, for every key and type: the
\* first member of that name, never a prefix or suffix of a longer one, nor
\* anything inside a value that looks like a member.  Control characters are
\* lost, and a number comes back modulo 2^32.
ReadsBack ==
  \A key \in Names :
    LET named == {k \in DOMAIN members : members[k].name = key}
        m == members[CHOOSE k \in named : \A j \in named : k <= j]
        is(kind) == named # {} /\ m.kind = kind
    IN  /\ GetString(ObjectText, key) =
             IF is("string") THEN {SelectSeq(m.value, LAMBDA c : c # "control")} ELSE {}
        /\ GetUint(ObjectText, key) =
             IF is("number") THEN {ValueOf(m.value) % NumberMod} ELSE {}
        /\ GetBool(ObjectText, key) =
             IF is("Boolean") THEN {m.value = <<"true">>} ELSE {}
=============================================================================
