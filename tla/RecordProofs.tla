---------------------------- MODULE RecordProofs ----------------------------
(***************************************************************************)
(* What the record in NVS is for: the device always knows which image it   *)
(* is, and reports every update truthfully and once.                       *)
(*                                                                         *)
(* The properties speak of the moments between library calls; a reset may  *)
(* strike between any two writes of a call.  So the invariant has two      *)
(* halves: what NVS says at every instant (a cut may leave it so), and     *)
(* what the pending writes will have said once they are made.              *)
(***************************************************************************)
EXTENDS TrialInstallProofs, FiniteSetTheorems

-----------------------------------------------------------------------------
(***************************************************************************)
(* The identity in NVS.                                                    *)
(***************************************************************************)

IdKeys   == {"build", "hash", "ver"}
DropKeys == {"trial", "staged", "prevPart", "prevBuild", "prevHash", "prevVer",
             "failDep", "failBuild", "confPend", "rbReason"}

\* NVS has the identity of image b, whole; the snapshot; the report context.
HasId(b)    == nvs.build = b /\ nvs.hash = b /\ nvs.ver = Label(b)
HasPrev(b)  == nvs.prevBuild = b /\ nvs.prevHash = b /\ nvs.prevVer = Label(b)
Accounts(b) == nvs.failDep = b /\ nvs.failBuild = b /\ nvs.confPend = 1

\* Key k has value v once the pending writes are made.
Gives(k, v) ==
  /\ nvs[k] = v \/ Put(k, v) \in Range(todo)
  /\ \A w \in Range(todo) : w.key = k => w.val = v
GivesId(b) == Gives("build", b) /\ Gives("hash", b) /\ Gives("ver", Label(b))
IdPending  == \E w \in Range(todo) : w.key \in IdKeys

\* Whose record goes in first; without a record, whose identity is not whole.
StagingNow  == call = "switch" /\ RollbackEnabled
Unrecording == call = "applied" /\ ~RollbackEnabled /\ todo # <<>>

\* At every instant: without a trial and without a snapshot the identity is
\* the boot slot's; a snapshot is whole; a trial has the snapshot of the image
\* to go back to, and the identity of the one on trial; a rollback marked as
\* done is done.
Identified ==
  /\ nvs.trial = 0 /\ nvs.staged # 2 => HasId(slot[boot]) \/ Unrecording
  /\ nvs.trial = 2 => HasId(slot[boot])
Snapshot == nvs.staged = 2 /\ nvs.trial # 1 => HasPrev(slot[boot])
Recorded ==
  nvs.trial = 1 =>
    /\ nvs.prevPart \in Parts /\ nvs.staged # 1
    /\ HasPrev(slot[nvs.prevPart])
    /\ nvs.failBuild \in Builds /\ Accounts(nvs.failBuild)
    /\ nvs.failBuild # slot[nvs.prevPart]
    /\ boot # nvs.prevPart => HasId(slot[boot]) /\ nvs.failBuild = slot[boot]
Returned ==
  nvs.trial = 2 => /\ nvs.failBuild \in Builds /\ Accounts(nvs.failBuild)
                   /\ nvs.failBuild # slot[boot]
InFlash == Identified /\ Snapshot /\ Recorded /\ Returned

\* The order of the writes of every call but staging: identity and report,
\* then the mark, then the rest of the record; that a report is due comes last.
Rank(w) ==
  IF w.key \in IdKeys \cup {"outbox"} THEN 0
  ELSE IF w.key = "rbReason" /\ w.val # 0 THEN 0
  ELSE IF w.key = "trial" THEN 1
  ELSE IF w.key = "staged" THEN 2
  ELSE IF w.key = "confPend" /\ w.val # 0 THEN 4 ELSE 3
Ranked(s) == \A i, j \in 1..Len(s) : i < j => Rank(s[i]) <= Rank(s[j])

\* What is pending, call by call.
Planned ==
  /\ ~StagingNow => Ranked(todo)
  /\ ~StagingNow => \A w \in Range(todo) : w.key = "staged" => w.val = 0
  /\ call = "restart" =>
       \A w \in Range(todo) :
         w.key \in IdKeys \cup {"rbReason", "trial"} /\ (w.key = "trial" => w.val = 2)
  /\ call = "applied" =>
       \A w \in Range(todo) :
         IF RollbackEnabled THEN w.key = "staged"
         ELSE w.key \in IdKeys \cup {"failDep", "failBuild", "confPend"}
  /\ waiting /\ call = "none" => todo = <<>>

\* The writes of stageTrialRecord() on an image that knows itself.
StagingWrites ==
  << Put("staged", 1), Put("prevPart", running), Put("prevBuild", slot[running]),
     Put("prevHash", slot[running]), Put("prevVer", Label(slot[running])),
     Put("staged", 2),
     Put("build", offer), Put("hash", offer), Put("ver", Label(offer)),
     Put("failDep", offer), Put("failBuild", offer), Put("confPend", 1),
     Put("trial", 1) >>

\* n of them are made.
StagedTo(n) ==
  /\ n \in 0..13 /\ Len(todo) = 13 - n
  /\ \A i \in 1..(13 - n) : todo[i] = StagingWrites[n + i]
  /\ \A i \in 2..13 : i <= n => nvs[StagingWrites[i].key] = StagingWrites[i].val
  /\ nvs.staged = IF n = 0 THEN 0 ELSE IF n < 6 THEN 1 ELSE 2
  /\ n < 7 => HasId(slot[running])
StagingProgress == StagingNow => \E n \in 0..13 : StagedTo(n)

\* Once the pending writes are made the identity is the boot slot's.
Identifying == phase = "run" /\ ~StagingNow => GivesId(slot[boot])

\* The snapshot outlives neither a call nor the start of a trial.
Unstaging ==
  /\ phase = "run" /\ ~StagingNow /\ ~waiting /\ call # "restart" => Gives("staged", 0)
  /\ phase = "run" /\ call = "none" /\ ~waiting /\ nvs.trial = 1 /\ boot # nvs.prevPart
       => nvs.staged = 0
  /\ call = "applied" /\ ~RollbackEnabled => nvs.trial = 0 /\ nvs.staged = 0

\* An identity is put back while the record still has it.
Restoring ==
  /\ call = "none" /\ IdPending => \/ nvs.trial = 1 /\ boot = nvs.prevPart
                                   \/ nvs.trial = 0 /\ nvs.staged = 2
  /\ call = "restart" /\ todo # <<>> => \/ nvs.trial = 1 /\ boot = nvs.prevPart
                                        \/ nvs.trial = 2 /\ ~IdPending

\* An offer that apply() may take is not the image that runs.
Offering == offer # 0 => phase = "run" /\ (waiting \/ call = "restart" \/ offer # slot[running])

\* What is tried is not what it would go back to.
Trying ==
  call = "start_trial" \/ (inTrial /\ call # "restart") => running # nvs.prevPart

InProgress ==
  /\ Planned /\ StagingProgress /\ Identifying /\ Unstaging /\ Restoring
  /\ Offering /\ Trying
Identity == InFlash /\ InProgress
RInv == IInv /\ Identity

\* An update of an image that disables rollback is recorded whole: it has a
\* label that fits, and no reset strikes before its identity is written.
Recordable ==
  NoRollback = {} \/ (Builds \subseteq Labelled /\ "unrecorded_cut" \notin Faults)

-----------------------------------------------------------------------------
(***************************************************************************)
(* Sequences of writes.                                                    *)
(***************************************************************************)

\* Without its first write an ordered sequence is ordered, and what is left
\* does not come before it.
LEMMA RankedPop ==
  ASSUME NEW s \in Seq(Writes), s # <<>>, Ranked(s)
  PROVE  Ranked(Tail(s)) /\ \A w \in Range(Tail(s)) : Rank(Head(s)) <= Rank(w)
<1> DEFINE t == Tail(s)
<1>1. /\ t \in Seq(Writes) /\ Len(s) \in Nat \ {0} /\ Len(t) = Len(s) - 1 /\ Head(s) = s[1]
      /\ \A i \in 1..(Len(s) - 1) : t[i] = s[i + 1]
  BY PopHead
<1> HIDE DEF t
<1>2. Ranked(t)
  <2> SUFFICES ASSUME NEW i \in 1..Len(t), NEW j \in 1..Len(t), i < j
               PROVE  Rank(t[i]) <= Rank(t[j])
    BY DEF Ranked
  <2>1. i + 1 \in 1..Len(s) /\ j + 1 \in 1..Len(s) /\ i + 1 < j + 1
    BY <1>1
  <2> QED BY <1>1, <2>1 DEF Ranked
<1>3. ASSUME NEW w \in Range(t)
      PROVE  Rank(Head(s)) <= Rank(w)
  <2>1. PICK i \in 1..Len(t) : w = t[i]
    BY <1>1, RangeEquality
  <2>2. i + 1 \in 1..Len(s) /\ 1 \in 1..Len(s) /\ 1 < i + 1 /\ w = s[i + 1]
    BY <1>1, <2>1
  <2> QED BY <1>1, <2>2 DEF Ranked
<1> QED BY <1>2, <1>3 DEF t

\* Writes that come first may be put before any ordered sequence.
LEMMA RankedConcat ==
  ASSUME NEW s \in Seq(Writes), NEW t \in Seq(Writes), Ranked(t),
         \A w \in Range(s) : Rank(w) = 0
  PROVE  Ranked(s \o t)
<1> DEFINE m == Len(s)  n == Len(t)  st == s \o t
<1>1. /\ m \in Nat /\ n \in Nat /\ Len(st) = m + n
      /\ \A i \in 1..(m + n) : st[i] = IF i <= m THEN s[i] ELSE t[i - m]
  BY ConcatProperties, LenProperties
<1>2. \A i \in 1..m : s[i] \in Range(s)
  BY RangeEquality
<1>3. \A w : Rank(w) \in 0..4
  BY DEF Rank
<1> HIDE DEF m, n, st
<1> SUFFICES ASSUME NEW i \in 1..Len(st), NEW j \in 1..Len(st), i < j
             PROVE  Rank(st[i]) <= Rank(st[j])
  BY DEF Ranked, st
<1>4. CASE i <= m
  <2>1. Rank(st[i]) = 0
    BY <1>1, <1>2, <1>4
  <2> QED BY <1>3, <2>1
<1>5. CASE i > m
  <2>1. i - m \in 1..n /\ j - m \in 1..n /\ i - m < j - m
        /\ st[i] = t[i - m] /\ st[j] = t[j - m]
    BY <1>1, <1>5
  <2> QED BY <2>1 DEF Ranked, n
<1> QED BY <1>1, <1>4, <1>5

LEMMA RankedShort ==
  /\ Ranked(<<>>)
  /\ \A w : Ranked(<<w>>)
BY DEF Ranked

\* Writes that end a record: perhaps a report, then every key of it removed,
\* in the order that Rank gives.
Ends(s) ==
  /\ s \in Seq(Writes) /\ s # <<>> /\ Ranked(s)
  /\ Remove("staged") \in Range(s) /\ Remove("confPend") \in Range(s)
  /\ \A w \in Range(s) : w.key = "outbox" \/ (w.key \in DropKeys /\ w.val = 0)

LEMMA DropEnds == Ends(DropWrites)
<1>1. DropWrites \in Seq(Writes)
  BY DropPuts
<1>2. Range(DropWrites) = {Remove(k) : k \in DropKeys}
  BY DEF DropWrites, Range, DropKeys
<1>3. Len(DropWrites) = 10
  BY DEF DropWrites
<1>4. /\ Rank(DropWrites[1]) = 1 /\ Rank(DropWrites[2]) = 2
      /\ \A i \in 3..10 : Rank(DropWrites[i]) = 3
  BY DEF DropWrites, Rank, Remove, Put, IdKeys
<1>5. Ranked(DropWrites)
  <2> SUFFICES ASSUME NEW i \in 1..10, NEW j \in 1..10, i < j
               PROVE  Rank(DropWrites[i]) <= Rank(DropWrites[j])
    BY <1>3 DEF Ranked
  <2>1. CASE i = 1
    <3>1. j = 2 \/ j \in 3..10
      BY <2>1
    <3> QED BY <1>4, <2>1, <3>1
  <2>2. CASE i = 2
    <3>1. j \in 3..10
      BY <2>2
    <3> QED BY <1>4, <2>2, <3>1
  <2>3. CASE i > 2
    <3>1. i \in 3..10 /\ j \in 3..10
      BY <2>3
    <3> QED BY <1>4, <3>1
  <2> QED BY <2>1, <2>2, <2>3
<1>6. DropWrites # <<>>
  BY <1>3, NoWrites
<1>7. "staged" \in DropKeys /\ "confPend" \in DropKeys
  BY DEF DropKeys
<1> QED BY <1>1, <1>2, <1>5, <1>6, <1>7 DEF Ends, Remove, Put

\* What queueReport() queues says whom it is about.
LEMMA QueueRange ==
  ASSUME TypeOK, NEW event \in {"confirmed", "rolled_back"}, NEW reason \in Reasons,
         NEW w \in Range(QueueWrites(event, reason))
  PROVE  /\ w.key = "outbox" /\ w.val.event = event /\ w.val.build = nvs.failBuild
         /\ nvs.failDep # 0 /\ nvs.failBuild # 0
<1> DEFINE r == [event |-> event, reason |-> reason,
                 deployment |-> nvs.failDep, build |-> nvs.failBuild]
<1>1. CASE Usable(r)
  <2>1. Range(<< Put("outbox", r) >>) = {Put("outbox", r)}
    BY DEF Range
  <2>2. w = Put("outbox", r)
    BY <1>1, <2>1 DEF QueueWrites
  <2> QED BY <1>1, <2>2 DEF Put, Usable
<1>2. CASE ~Usable(r)
  BY <1>2, NoWrites DEF QueueWrites
<1> QED BY <1>1, <1>2

LEMMA QueueEnds ==
  ASSUME TypeOK, NEW event \in {"confirmed", "rolled_back"}, NEW reason \in Reasons
  PROVE  LET s == QueueWrites(event, reason) \o DropWrites
         IN  Ends(s) /\ Range(s) = Range(QueueWrites(event, reason)) \cup Range(DropWrites)
<1> DEFINE q == QueueWrites(event, reason)  s == q \o DropWrites
<1>1. q \in Seq(Writes)
  BY QueuePuts
<1>2. Ends(DropWrites)
  BY DropEnds
<1>3. \A w \in Range(q) : w.key = "outbox"
  BY QueueRange
<1> HIDE DEF q
<1>4. Range(s) = Range(q) \cup Range(DropWrites)
  BY <1>1, <1>2, RangeConcatenation DEF Ends
<1>5. s \in Seq(Writes)
  BY <1>1, <1>2, ConcatProperties DEF Ends
<1>6. Ranked(s)
  <2>1. \A w \in Range(q) : Rank(w) = 0
    BY <1>3 DEF Rank
  <2> QED BY <1>1, <1>2, <2>1, RankedConcat DEF Ends
<1>7. s # <<>>
  BY <1>2, <1>4, NoWrites DEF Ends
<1>8. Ends(s)
  BY <1>2, <1>3, <1>4, <1>5, <1>6, <1>7 DEF Ends
<1> QED BY <1>4, <1>8 DEF q

\* Every call that ends a record.
LEMMA VerdictEnds ==
  ASSUME TypeOK, NEW reason \in Reasons
  PROVE  Ends(ConfirmedWrites) /\ Ends(RolledBackWrites(reason))
<1>1. 0 \in Reasons
  BY DEF Reasons
<1> QED BY <1>1, QueueEnds DEF ConfirmedWrites, RolledBackWrites

\* restorePreviousIdentity() puts the snapshot back.
Restores == {Put("build", nvs.prevBuild), Put("hash", nvs.prevHash), Put("ver", nvs.prevVer)}

LEMMA RestoreRange == Range(RestoreWrites) = Restores
BY DEF RestoreWrites, Restores, Range

LEMMA RestoreFirst ==
  ASSUME TypeOK, NEW s \in Seq(Writes), Ranked(s)
  PROVE  LET t == RestoreWrites \o s
         IN  /\ t \in Seq(Writes) /\ Ranked(t) /\ Range(t) = Restores \cup Range(s)
             /\ t # <<>>
<1>1. RestoreWrites \in Seq(Writes)
  BY RestorePuts
<1>2. \A w \in Range(RestoreWrites) : Rank(w) = 0
  BY RestoreRange DEF Restores, Put, Rank, IdKeys
<1> DEFINE t == RestoreWrites \o s
<1>3. Range(t) = Restores \cup Range(s)
  BY <1>1, RestoreRange, RangeConcatenation
<1>4. t \in Seq(Writes) /\ Ranked(t)
  BY <1>1, <1>2, RankedConcat, ConcatProperties
<1>5. t # <<>>
  BY <1>3, NoWrites DEF Restores
<1> QED BY <1>3, <1>4, <1>5

\* performRollback()'s writes.
LEMMA RollbackRange ==
  ASSUME TypeOK, NEW reason \in Reasons, reason # 0
  PROVE  LET t == RestoreWrites \o << Put("rbReason", reason), Put("trial", 2) >>
         IN  /\ t \in Seq(Writes) /\ Ranked(t)
             /\ Range(t) = Restores \cup {Put("rbReason", reason), Put("trial", 2)}
<1> DEFINE s == << Put("rbReason", reason), Put("trial", 2) >>
<1>1. Put("rbReason", reason) \in Writes /\ Put("trial", 2) \in Writes
  BY PutTyped, KeyTypes DEF Keys
<1>2. s \in Seq(Writes) /\ Len(s) = 2
  BY <1>1
<1>3. Range(s) = {Put("rbReason", reason), Put("trial", 2)}
  BY DEF Range
<1>4. Rank(s[1]) = 0 /\ Rank(s[2]) = 1
  BY DEF Rank, Put, IdKeys
<1>5. Ranked(s)
  <2> SUFFICES ASSUME NEW i \in 1..2, NEW j \in 1..2, i < j
               PROVE  Rank(s[i]) <= Rank(s[j])
    BY <1>2 DEF Ranked
  <2>1. i = 1 /\ j = 2
    OBVIOUS
  <2> QED BY <1>4, <2>1
<1> HIDE DEF s
<1> QED BY <1>2, <1>3, <1>5, RestoreFirst DEF s

-----------------------------------------------------------------------------
(***************************************************************************)
(* One write of a call.                                                    *)
(***************************************************************************)

\* What the pending writes give does not change as the first is made.
LEMMA GivesPop ==
  ASSUME TypeOK, todo # <<>>, todo' = Tail(todo), NEW k \in Keys, NEW v, Gives(k, v),
         IF Head(todo).key = "outbox" THEN nvs' = nvs
         ELSE nvs' = [nvs EXCEPT ![Head(todo).key] = Head(todo).val]
  PROVE  /\ nvs'[k] = v \/ Put(k, v) \in Range(todo')
         /\ \A w \in Range(todo') : w.key = k => w.val = v
<1> DEFINE h == Head(todo)
<1>1. /\ h \in Range(todo) /\ Range(todo') \subseteq Range(todo)
      /\ \A w \in Range(todo) : w = h \/ w \in Range(todo')
  BY PopHead DEF TypeOK
<1>2. h.key = k => h.val = v /\ h.key # "outbox"
  BY <1>1 DEF Gives, Keys
<1>3. nvs'[k] = IF h.key = k THEN v ELSE nvs[k]
  BY <1>2 DEF TypeOK
<1> HIDE DEF h
<1>4. Put(k, v).key = k
  BY DEF Put
<1> QED BY <1>1, <1>3, <1>4 DEF Gives

LEMMA GivesIdPop ==
  ASSUME TypeOK, todo # <<>>, todo' = Tail(todo), UNCHANGED <<slot, boot>>,
         IF Head(todo).key = "outbox" THEN nvs' = nvs
         ELSE nvs' = [nvs EXCEPT ![Head(todo).key] = Head(todo).val],
         GivesId(slot[boot])
  PROVE  GivesId(slot[boot])'
<1>1. ASSUME NEW k \in Keys, NEW v, Gives(k, v)
      PROVE  /\ nvs'[k] = v \/ Put(k, v) \in Range(todo')
             /\ \A w \in Range(todo') : w.key = k => w.val = v
  BY <1>1, GivesPop
<1>2. /\ Gives("build", slot[boot]) /\ Gives("hash", slot[boot])
      /\ Gives("ver", Label(slot[boot]))
  BY DEF GivesId
<1>3. /\ nvs'["build"] = slot[boot] \/ Put("build", slot[boot]) \in Range(todo')
      /\ \A w \in Range(todo') : w.key = "build" => w.val = slot[boot]
  BY <1>1, <1>2 DEF Keys
<1>4. /\ nvs'["hash"] = slot[boot] \/ Put("hash", slot[boot]) \in Range(todo')
      /\ \A w \in Range(todo') : w.key = "hash" => w.val = slot[boot]
  BY <1>1, <1>2 DEF Keys
<1>5. /\ nvs'["ver"] = Label(slot[boot]) \/ Put("ver", Label(slot[boot])) \in Range(todo')
      /\ \A w \in Range(todo') : w.key = "ver" => w.val = Label(slot[boot])
  BY <1>1, <1>2 DEF Keys
<1> QED BY <1>3, <1>4, <1>5 DEF GivesId, Gives, Label

\* With no write of a key pending, what the pending writes give is there.
LEMMA GivenId ==
  GivesId(slot[boot]) /\ ~IdPending => HasId(slot[boot])
<1>1. Put("build", slot[boot]).key \in IdKeys /\ Put("hash", slot[boot]).key \in IdKeys
      /\ Put("ver", Label(slot[boot])).key \in IdKeys
  BY DEF Put, IdKeys
<1> QED BY <1>1 DEF GivesId, Gives, IdPending, HasId

LEMMA GivenStaged ==
  Gives("staged", 0) /\ (\A w \in Range(todo) : w.key # "staged") => nvs.staged = 0
BY DEF Gives, Put

\* While a call other than staging writes, ...
LEMMA Writing ==
  ASSUME TypeOK, Supervision, Identity, todo # <<>>, ~StagingNow
  PROVE  /\ phase = "run" /\ GivesId(slot[boot])
         /\ \/ call = "none" /\ ~waiting /\ ~inTrial
            \/ call = "restart"
            \/ call = "start_trial" /\ \A w \in Range(todo) : w.key = "staged"
            \/ call = "applied" /\ RollbackEnabled /\ \A w \in Range(todo) : w.key = "staged"
            \/ call = "applied" /\ ~RollbackEnabled
<1>1. phase = "run"
  BY DEF Supervision, Booting, TypeOK
<1>2. call = "restart" \/ ~inTrial
  BY DEF Supervision, InTrial
<1>3. call # "download" /\ call # "switch"
  BY DEF Supervision, Applying, Staging, StagingNow
<1> QED BY <1>1, <1>2, <1>3 DEF TypeOK, Supervision, Starting, Identity, InProgress, Planned,
           Identifying

\* ... each write leaves in flash what the next boot needs.
LEMMA PutKeyFlash ==
  ASSUME TypeOK, Supervision, Identity, PutKey, ~StagingNow
  PROVE  InFlash'
<1> DEFINE w == Head(todo)  k == w.key
<1>1. /\ todo # <<>> /\ k # "outbox" /\ todo' = Tail(todo)
      /\ nvs' = [nvs EXCEPT ![k] = w.val]
      /\ UNCHANGED <<slot, boot, phase, running, waiting, inTrial, offer, call>>
  BY DEF PutKey, flash, ghost
<1>2. /\ w \in Writes /\ todo' \in Seq(Writes) /\ w \in Range(todo)
      /\ Range(todo') \subseteq Range(todo)
  BY <1>1, PopHead DEF TypeOK
<1>3. k \in Keys /\ w.val \in KeyType(k)
  BY <1>1, <1>2, WriteTyped
<1>4. \A j \in Keys : nvs'[j] = IF j = k THEN w.val ELSE nvs[j]
  BY <1>1, <1>3 DEF TypeOK
<1>5. \A v \in Range(todo') : Rank(w) <= Rank(v)
  BY <1>1, RankedPop DEF TypeOK, Identity, InProgress, Planned
<1>6. GivesId(slot[boot])'
  BY <1>1, Writing, GivesIdPop
<1>7. Unrecording => Unrecording' \/ HasId(slot[boot])'
  <2>1. CASE todo' = <<>>
    <3>1. ~IdPending'
      BY <2>1, NoWrites DEF IdPending
    <3> QED BY <1>6, <3>1, GivenId, PTL
  <2>2. CASE todo' # <<>>
    BY <1>1, <2>2 DEF Unrecording, RollbackEnabled
  <2> QED BY <2>1, <2>2
<1> HIDE DEF w, k
\* Past the identity's own writes the identity is whole.
<1>8. Rank(w) # 0 => HasId(slot[boot])'
  <2> SUFFICES ASSUME Rank(w) # 0
               PROVE  HasId(slot[boot])'
    OBVIOUS
  <2>1. ~IdPending'
    BY <1>5 DEF IdPending, Rank
  <2> QED BY <1>6, <2>1, GivenId, PTL
<1>9. k \in {"trial", "staged"} \cup DropKeys => Rank(w) # 0 \/ (k = "rbReason" /\ w.val # 0)
  BY DEF Rank, DropKeys, IdKeys, k
<1>10. CASE k \in IdKeys
  <2>1. /\ call = "applied" => Unrecording
        /\ call # "applied" => nvs.trial # 2 /\ (nvs.trial = 0 => nvs.staged = 2)
                               /\ (nvs.trial = 1 => boot = nvs.prevPart)
        /\ Unrecording => nvs.trial = 0 /\ nvs.staged = 0
    <3>1. IdPending
      BY <1>2, <1>10 DEF IdPending, k
    <3> QED BY <1>1, <1>2, <1>10, <3>1, Writing
            DEF Identity, InProgress, Restoring, Unstaging, Unrecording, IdKeys, k
  <2>2. \A j \in Keys \ IdKeys : nvs'[j] = nvs[j]
    BY <1>4, <1>10
  <2> QED BY <1>1, <1>7, <2>1, <2>2
          DEF Identity, InFlash, Identified, Snapshot, Recorded, Returned, HasPrev, Accounts,
              Keys, IdKeys, Label
<1>11. CASE k = "rbReason"
  <2>1. \A j \in Keys \ {"rbReason"} : nvs'[j] = nvs[j]
    BY <1>4, <1>11
  <2>2. HasId(slot[boot]) => HasId(slot[boot])'
    BY <1>1, <2>1 DEF HasId, Label, Keys
  <2> QED BY <1>1, <1>7, <2>1, <2>2
          DEF Identity, InFlash, Identified, Snapshot, Recorded, Returned, HasPrev, Accounts,
              Keys, Label
\* The mark changes once the identity is whole: a record that goes had put
\* its snapshot back, or its snapshot is that of the boot slot.
<1>12. CASE k = "trial"
  <2>1. HasId(slot[boot])' /\ \A j \in Keys \ {"trial"} : nvs'[j] = nvs[j]
    BY <1>4, <1>8, <1>9, <1>12
  <2>2. nvs'.trial = w.val /\ w.val \in {0, 2}
        /\ (call # "restart" => w.val = 0) /\ (call = "restart" => w.val = 2)
        /\ (call = "none" \/ call = "restart")
    <3>1. call = "none" \/ call = "restart"
      BY <1>1, <1>2, <1>12, Writing DEF Identity, InProgress, Planned, IdKeys, k
    <3> QED BY <1>2, <1>3, <1>4, <1>12, <3>1 DEF Supervision, PendingMarks, Identity,
            InProgress, Planned, k
  <2>3. nvs.staged = 2 => HasPrev(slot[boot])
    BY <1>1, <2>2, Writing, KeyTypes
       DEF Identity, InProgress, Unstaging, InFlash, Snapshot, Recorded, Restoring
  <2>4. call = "restart" => nvs.failBuild \in Builds /\ Accounts(nvs.failBuild)
                            /\ nvs.failBuild # slot[boot]
    BY <1>1 DEF Identity, InProgress, Restoring, InFlash, Recorded, Returned
  <2>5. HasPrev(slot[boot]) => HasPrev(slot[boot])'
    BY <1>1, <2>1 DEF HasPrev, Label, Keys
  <2>6. Accounts(nvs.failBuild) => Accounts(nvs.failBuild)'
    BY <2>1 DEF Accounts, Keys
  <2>7. Identified'
    BY <2>1 DEF Identified
  <2>8. Snapshot'
    BY <2>1, <2>3, <2>5 DEF Snapshot, Keys
  <2>9. Recorded'
    BY <2>2 DEF Recorded
  <2>10. Returned'
    BY <1>1, <2>1, <2>2, <2>4, <2>6 DEF Returned, Keys
  <2> QED BY <2>7, <2>8, <2>9, <2>10 DEF InFlash
<1>13. CASE k = "staged"
  <2>1. HasId(slot[boot])' /\ \A j \in Keys \ {"staged"} : nvs'[j] = nvs[j]
    BY <1>4, <1>8, <1>9, <1>13
  <2>2. nvs'.staged = 0
    BY <1>2, <1>4, <1>13 DEF Identity, InProgress, Planned, k, Keys
  <2> QED BY <1>1, <2>1, <2>2
          DEF Identity, InFlash, Identified, Snapshot, Recorded, Returned, HasPrev, HasId,
              Accounts, Keys, Label
\* The rest of the record goes when its mark is gone.
<1>14. CASE Rank(w) \in {3, 4} /\ k # "rbReason"
  <2>1. \A v \in Range(todo) : v.key \notin {"trial", "staged"}
    <3>1. \A v \in Range(todo) : v = w \/ v \in Range(todo')
      BY <1>1, PopHead DEF TypeOK, w
    <3> QED BY <1>5, <1>14, <3>1 DEF Rank, IdKeys
  <2>2. k \notin IdKeys /\ k \notin {"trial", "staged"}
    BY <1>14 DEF Rank, k
  <2>3. nvs.trial = 0 /\ nvs.staged = 0
    <3>1. CASE call = "none"
      <4>1. nvs.trial = 0
        BY <1>1, <2>1, <3>1, Writing DEF Supervision, Settled, Remove, Put
      <4>2. Gives("staged", 0)
        BY <1>1, <3>1, Writing DEF Identity, InProgress, Unstaging
      <4> QED BY <2>1, <4>1, <4>2, GivenStaged
    <3>2. CASE call = "applied" /\ ~RollbackEnabled
      BY <3>2 DEF Identity, InProgress, Unstaging
    <3>3. CASE call = "restart"
      BY <1>2, <1>14, <2>2, <3>3 DEF Identity, InProgress, Planned, k
    <3> QED BY <1>1, <1>2, <2>2, <3>1, <3>2, <3>3, Writing DEF k
  <2>4. nvs'.trial = 0 /\ nvs'.staged = 0
    BY <1>4, <2>2, <2>3 DEF Keys
  <2>5. HasId(slot[boot])'
    BY <1>8, <1>14
  <2> QED BY <2>4, <2>5 DEF InFlash, Identified, Snapshot, Recorded, Returned
<1> QED BY <1>1, <1>10, <1>11, <1>12, <1>13, <1>14 DEF Rank, IdKeys, k

\* What a call, other than staging, has still to write.
LEMMA PopProgress ==
  ASSUME TypeOK, Supervision, Identity, PutKey \/ QueueReport, ~StagingNow
  PROVE  InProgress'
<1> DEFINE w == Head(todo)  k == w.key
<1>1. /\ todo # <<>> /\ todo' = Tail(todo)
      /\ IF k = "outbox" THEN nvs' = nvs ELSE nvs' = [nvs EXCEPT ![k] = w.val]
      /\ UNCHANGED <<slot, boot, phase, running, waiting, inTrial, offer, call>>
  BY DEF PutKey, QueueReport, flash, ghost
<1>2. /\ w \in Writes /\ todo' \in Seq(Writes) /\ w \in Range(todo)
      /\ Range(todo') \subseteq Range(todo)
      /\ \A v \in Range(todo) : v = w \/ v \in Range(todo')
  BY <1>1, PopHead DEF TypeOK
<1>3. \A j \in Keys : nvs'[j] = IF j = k THEN w.val ELSE nvs[j]
  BY <1>1 DEF TypeOK, Keys
<1>4. Ranked(todo') /\ \A v \in Range(todo') : Rank(w) <= Rank(v)
  BY <1>1, RankedPop DEF TypeOK, Identity, InProgress, Planned
<1>5. StagingNow' = StagingNow /\ RollbackEnabled' = RollbackEnabled
  BY <1>1 DEF StagingNow, RollbackEnabled
<1>6. Planned'
  BY <1>1, <1>2, <1>4, <1>5, NoWrites DEF Identity, InProgress, Planned
<1>7. StagingProgress'
  BY <1>5 DEF StagingProgress
<1>8. Identifying'
  <2>1. GivesId(slot[boot])'
    BY <1>1, Writing, GivesIdPop
  <2> QED BY <2>1 DEF Identifying
<1>9. /\ IdPending' => IdPending /\ k \notin {"trial", "staged", "prevPart"}
      /\ k = "prevPart" => Rank(w) = 3
  <2>1. IdPending' => IdPending /\ Rank(w) <= 0
    BY <1>2, <1>4 DEF IdPending, Rank
  <2>2. k \in {"trial", "staged", "prevPart"} => ~(Rank(w) <= 0)
    BY DEF Rank, IdKeys
  <2>3. k = "prevPart" => Rank(w) = 3
    BY DEF Rank, IdKeys
  <2> QED BY <2>1, <2>2, <2>3
<1>10. call = "none" => w.key # "trial" \/ w.val = 0
  BY <1>2 DEF Supervision, PendingMarks
<1>11. w.key = "staged" => w.val = 0
  BY <1>2 DEF Identity, InProgress, Planned
<1>12. call = "restart" =>
         /\ k \in IdKeys \cup {"rbReason", "trial"} /\ (k = "trial" => w.val = 2)
  BY <1>2 DEF Identity, InProgress, Planned
<1>13. call = "applied" => k \notin {"trial", "prevPart"}
  BY <1>2 DEF Identity, InProgress, Planned, IdKeys
<1> HIDE DEF w, k
<1>14. Unstaging'
  <2>1. phase = "run" /\ ~StagingNow /\ ~waiting /\ call # "restart" => Gives("staged", 0)'
    <3> SUFFICES ASSUME phase = "run", ~StagingNow, ~waiting, call # "restart"
                 PROVE  Gives("staged", 0)'
      OBVIOUS
    <3>1. Gives("staged", 0)
      BY DEF Identity, InProgress, Unstaging
    <3>2. nvs'["staged"] = 0 \/ Put("staged", 0) \in Range(todo')
      BY <1>1, <3>1, GivesPop DEF Keys, w, k
    <3>3. \A u \in Range(todo') : u.key = "staged" => u.val = 0
      BY <1>2 DEF Identity, InProgress, Planned
    <3> QED BY <3>2, <3>3 DEF Gives
  <2>2. ASSUME phase = "run", call = "none", ~waiting, nvs'.trial = 1, boot # nvs'.prevPart
        PROVE  nvs'.staged = 0
    <3>1. k # "trial" /\ nvs.trial = 1
      BY <1>3, <1>10, <2>2 DEF k, Keys
    <3>2. k # "prevPart"
      <4> SUFFICES ASSUME k = "prevPart" PROVE FALSE
        OBVIOUS
      <4>1. Remove("trial") \notin Range(todo)
        <5>1. Rank(Remove("trial")) = 1 /\ Remove("trial") # w
          BY <3>1 DEF Rank, Remove, Put, IdKeys, k
        <5> QED BY <1>2, <1>4, <1>9, <5>1
      <4> QED BY <1>1, <2>2, <3>1, <4>1, Writing DEF Supervision, Settled
    <3> QED BY <1>3, <1>11, <2>2, <3>1, <3>2
            DEF Identity, InProgress, Unstaging, Keys, k
  <2>3. call = "applied" /\ ~RollbackEnabled => nvs'.trial = 0 /\ nvs'.staged = 0
    BY <1>3, <1>11, <1>13 DEF Identity, InProgress, Unstaging, Keys, k
  <2> QED BY <1>1, <1>5, <2>1, <2>2, <2>3 DEF Unstaging
<1>15. Restoring'
  <2>1. IdPending' => /\ IdPending
                      /\ nvs'.trial = nvs.trial /\ nvs'.prevPart = nvs.prevPart
                      /\ nvs'.staged = nvs.staged
    BY <1>3, <1>9 DEF Keys
  <2>2. call = "restart" =>
          /\ nvs'.prevPart = nvs.prevPart
          /\ nvs'.trial = nvs.trial \/ (nvs'.trial = 2 /\ ~IdPending')
    <3>1. k = "trial" => nvs'.trial = w.val /\ ~IdPending'
      BY <1>3, <1>9 DEF Keys
    <3>2. k # "trial" => nvs'.trial = nvs.trial
      BY <1>3 DEF Keys
    <3>3. k # "prevPart" => nvs'.prevPart = nvs.prevPart
      BY <1>3 DEF Keys
    <3> QED BY <1>12, <3>1, <3>2, <3>3 DEF IdKeys
  <2> QED BY <1>1, <2>1, <2>2 DEF Identity, InProgress, Restoring
<1>16. Offering'
  BY <1>1 DEF Identity, InProgress, Offering
\* A trial starts with nothing but sota_staged to remove.
<1>17. Trying'
  <2>1. call = "start_trial" => nvs'.prevPart = nvs.prevPart
    BY <1>2, <1>3 DEF Supervision, Starting, Keys, k
  <2>2. ~(inTrial /\ call # "restart")
    BY <1>1 DEF Supervision, InTrial
  <2> QED BY <1>1, <2>1, <2>2 DEF Identity, InProgress, Trying
<1> QED BY <1>6, <1>7, <1>8, <1>14, <1>15, <1>16, <1>17 DEF InProgress

-----------------------------------------------------------------------------
(***************************************************************************)
(* Staging.                                                                *)
(***************************************************************************)

\* Where stageTrialRecord() last writes a key.
Position(k) ==
  CASE k = "prevPart" -> 2 [] k = "prevBuild" -> 3 [] k = "prevHash" -> 4
    [] k = "prevVer" -> 5 [] k = "staged" -> 6 [] k = "build" -> 7
    [] k = "hash" -> 8 [] k = "ver" -> 9 [] k = "failDep" -> 10
    [] k = "failBuild" -> 11 [] k = "confPend" -> 12 [] OTHER -> 13

LEMMA StagingKeys ==
  /\ StagingWrites[1] = Put("staged", 1) /\ StagingWrites[6] = Put("staged", 2)
  /\ \A i \in 2..13 : Position(StagingWrites[i].key) = i
  /\ \A i \in 1..13 : StagingWrites[i].key \in Keys
<1>1. StagingWrites[1] = Put("staged", 1) /\ StagingWrites[6] = Put("staged", 2)
  BY DEF StagingWrites
<1>2. /\ StagingWrites[1].key = "staged" /\ StagingWrites[2].key = "prevPart"
      /\ StagingWrites[3].key = "prevBuild" /\ StagingWrites[4].key = "prevHash"
      /\ StagingWrites[5].key = "prevVer" /\ StagingWrites[6].key = "staged"
      /\ StagingWrites[7].key = "build" /\ StagingWrites[8].key = "hash"
      /\ StagingWrites[9].key = "ver" /\ StagingWrites[10].key = "failDep"
      /\ StagingWrites[11].key = "failBuild" /\ StagingWrites[12].key = "confPend"
      /\ StagingWrites[13].key = "trial"
  BY DEF StagingWrites, Put
<1> HIDE DEF StagingWrites
<1>3. ASSUME NEW i \in 2..13
      PROVE  Position(StagingWrites[i].key) = i /\ StagingWrites[i].key \in Keys
  <2>1. i \in {2, 3, 4, 5, 6, 7, 8, 9, 10, 11, 12, 13}
    OBVIOUS
  <2> QED BY <1>2, <2>1 DEF Position, Keys
<1>4. StagingWrites[1].key \in Keys
  BY <1>2 DEF Keys
<1>5. \A i \in 1..13 : i = 1 \/ i \in 2..13
  OBVIOUS
<1> QED BY <1>1, <1>3, <1>4, <1>5

\* With n of the writes made: the snapshot is whole before sota_staged says
\* so, the new identity and its report before sota_trial does.
LEMMA StagedFlash ==
  TypeOK /\ Supervision /\ Offering /\ StagingProgress /\ StagingNow => InFlash
<1> SUFFICES ASSUME TypeOK, Supervision, Offering, StagingProgress, StagingNow
             PROVE  InFlash
  OBVIOUS
<1>1. PICK n \in 0..13 : StagedTo(n)
  BY DEF StagingProgress
<1>2. running = boot /\ offer \in Builds /\ offer # slot[running] /\ running \in Parts
  BY BuildsAssumption DEF Supervision, Applying, Offering, StagingNow, TypeOK
<1>3. IF n = 13 THEN nvs.trial = 1 /\ nvs.prevPart = running ELSE nvs.trial = 0
  <2>1. todo = <<>> <=> n = 13
    BY <1>1, EmptySeq DEF StagedTo, TypeOK
  <2> QED BY <2>1 DEF Supervision, Staging, StagingNow
<1>4. n >= 6 => nvs.staged = 2 /\ HasPrev(slot[running])
  <2>1. n >= 6 => \A i \in {3, 4, 5} :
                    nvs[StagingWrites[i].key] = StagingWrites[i].val
    BY <1>1 DEF StagedTo
  <2>2. /\ StagingWrites[3] = Put("prevBuild", slot[running])
        /\ StagingWrites[4] = Put("prevHash", slot[running])
        /\ StagingWrites[5] = Put("prevVer", Label(slot[running]))
    BY DEF StagingWrites
  <2>3. n >= 6 => nvs.staged = 2
    BY <1>1 DEF StagedTo
  <2> QED BY <2>1, <2>2, <2>3 DEF HasPrev, Put
<1>5. n < 6 => nvs.staged # 2 /\ HasId(slot[running])
  BY <1>1 DEF StagedTo
<1>6. n = 13 => HasId(offer) /\ Accounts(offer)
  <2>1. n = 13 => \A i \in {7, 8, 9, 10, 11, 12} :
                    nvs[StagingWrites[i].key] = StagingWrites[i].val
    BY <1>1 DEF StagedTo
  <2>2. /\ StagingWrites[7] = Put("build", offer)
        /\ StagingWrites[8] = Put("hash", offer)
        /\ StagingWrites[9] = Put("ver", Label(offer))
        /\ StagingWrites[10] = Put("failDep", offer)
        /\ StagingWrites[11] = Put("failBuild", offer)
        /\ StagingWrites[12] = Put("confPend", 1)
    BY DEF StagingWrites
  <2> QED BY <2>1, <2>2 DEF HasId, Accounts, Put
<1>7. Identified /\ Snapshot /\ Returned
  BY <1>2, <1>3, <1>4, <1>5 DEF Identified, Snapshot, Returned
<1>8. Recorded
  BY <1>2, <1>3, <1>4, <1>6 DEF Recorded, Accounts
<1> QED BY <1>7, <1>8 DEF InFlash

LEMMA StagingStep ==
  ASSUME TypeOK, Supervision, Identity, PutKey, StagingNow
  PROVE  StagingProgress'
<1> DEFINE w == Head(todo)
<1>1. /\ todo # <<>> /\ todo' = Tail(todo)
      /\ nvs' = [nvs EXCEPT ![w.key] = w.val]
      /\ UNCHANGED <<slot, boot, phase, running, waiting, inTrial, offer, call>>
  BY DEF PutKey, flash, ghost
<1>2. /\ todo' \in Seq(Writes) /\ Len(todo) \in Nat \ {0} /\ Len(todo') = Len(todo) - 1
      /\ w = todo[1] /\ \A i \in 1..(Len(todo) - 1) : todo'[i] = todo[i + 1]
  BY <1>1, PopHead DEF TypeOK
<1>3. PICK n \in 0..13 : StagedTo(n)
  BY DEF Identity, InProgress, StagingProgress
<1>4. n \in 0..12 /\ Len(todo') = 13 - (n + 1) /\ w = StagingWrites[n + 1]
      /\ \A i \in 1..(12 - n) : todo'[i] = StagingWrites[n + 1 + i]
  <2>1. Len(todo) = 13 - n /\ \A i \in 1..(13 - n) : todo[i] = StagingWrites[n + i]
    BY <1>3 DEF StagedTo
  <2>2. n \in 0..12
    BY <1>2, <2>1
  <2>3. \A i \in 1..(12 - n) : i + 1 \in 1..(13 - n) /\ n + (i + 1) = n + 1 + i
    BY <2>2
  <2>4. \A i \in 1..(12 - n) : todo'[i] = todo[i + 1]
    BY <1>2, <2>1, <2>2
  <2> HIDE DEF w
  <2>5. w = StagingWrites[n + 1]
    BY <1>2, <2>1, <2>2
  <2> QED BY <1>2, <2>1, <2>2, <2>3, <2>4, <2>5
<1>5. StagingWrites' = StagingWrites
  BY <1>1 DEF StagingWrites, Label
<1> HIDE DEF w
<1>6. w.key \in Keys
  <2>1. n + 1 \in 1..13
    BY <1>4
  <2> QED BY <1>4, <2>1, StagingKeys
<1>7. \A k \in Keys : nvs'[k] = IF k = w.key THEN w.val ELSE nvs[k]
  BY <1>1, <1>6 DEF TypeOK
<1>8. ASSUME NEW i \in 2..13, i <= n + 1
      PROVE  nvs'[StagingWrites[i].key] = StagingWrites[i].val
  <2>1. CASE i = n + 1
    BY <1>4, <1>6, <1>7, <2>1
  <2>2. CASE i <= n
    <3>1. n + 1 \in 2..13 /\ i # n + 1
      BY <1>4, <2>2
    <3>2. StagingWrites[i].key # w.key
      BY <1>4, <3>1, StagingKeys
    <3>3. nvs[StagingWrites[i].key] = StagingWrites[i].val
      BY <1>3, <2>2 DEF StagedTo
    <3> QED BY <1>7, <3>2, <3>3, StagingKeys
  <2>3. n \in Nat
    BY <1>4
  <2>4. i = n + 1 \/ i <= n
    BY <1>8, <2>3
  <2> QED BY <2>1, <2>2, <2>4
<1>9. nvs'.staged = IF n + 1 < 6 THEN 1 ELSE 2
  <2>1. CASE n = 0
    BY <1>4, <1>7, <2>1, StagingKeys DEF Put, Keys
  <2>2. CASE n = 5
    BY <1>4, <1>7, <2>2, StagingKeys DEF Put, Keys
  <2>3. CASE n \notin {0, 5}
    <3>1. n + 1 \in 2..13 /\ n + 1 # 6
      BY <1>4, <2>3
    <3>2. w.key # "staged"
      BY <1>4, <3>1, StagingKeys DEF Position
    <3>3. nvs'.staged = nvs.staged
      BY <1>7, <3>2 DEF Keys
    <3> QED BY <1>3, <1>4, <2>3, <3>3 DEF StagedTo
  <2> QED BY <2>1, <2>2, <2>3
<1>10. n + 1 < 7 => HasId(slot[running])'
  <2> SUFFICES ASSUME n + 1 < 7
               PROVE  HasId(slot[running])'
    OBVIOUS
  <2>1. HasId(slot[running])
    BY <1>3 DEF StagedTo
  <2>2. w.key \notin IdKeys
    <3>1. CASE n = 0
      BY <1>4, <3>1, StagingKeys DEF Put, IdKeys
    <3>2. CASE n # 0
      <4>1. n + 1 \in 2..13 /\ n + 1 < 7
        BY <1>4, <3>2
      <4>2. Position(w.key) < 7
        BY <1>4, <4>1, StagingKeys
      <4> QED BY <4>2 DEF Position, IdKeys
    <3> QED BY <3>1, <3>2
  <2> QED BY <1>1, <1>7, <2>1, <2>2 DEF HasId, Label, IdKeys, Keys
<1>11. StagedTo(n + 1)'
  BY <1>4, <1>5, <1>8, <1>9, <1>10 DEF StagedTo
<1> QED BY <1>4, <1>11 DEF StagingProgress

\* A write of any call.
LEMMA WriteIdentity == IInv /\ IInv' /\ Identity /\ Write => Identity'
<1> SUFFICES ASSUME IInv, IInv', Identity, Write
             PROVE  Identity'
  OBVIOUS
<1>1. TypeOK /\ Supervision /\ TypeOK' /\ Supervision'
  BY DEF IInv
<1>2. CASE PutKey /\ ~StagingNow
  BY <1>1, <1>2, PutKeyFlash, PopProgress DEF Identity
<1>3. CASE PutKey /\ StagingNow
  <2>1. StagingProgress'
    BY <1>1, <1>3, StagingStep
  <2>2. UNCHANGED <<slot, boot, phase, running, waiting, inTrial, offer, call>>
    BY <1>3 DEF PutKey, flash, ghost
  <2>3. StagingNow' /\ call' = "switch" /\ Offering'
    BY <1>3, <2>2 DEF StagingNow, RollbackEnabled, Identity, InProgress, Offering
  <2>4. InFlash'
    BY <1>1, <2>1, <2>3, StagedFlash, PTL
  <2>5. Planned' /\ Identifying' /\ Unstaging' /\ Restoring'
    BY <2>3 DEF Planned, Identifying, Unstaging, Restoring
  <2>6. Trying'
    BY <1>1, <2>3 DEF Trying, Supervision, Applying
  <2> QED BY <2>1, <2>3, <2>4, <2>5, <2>6 DEF Identity, InProgress
<1>4. CASE QueueReport
  <2>1. /\ todo # <<>> /\ Head(todo).key = "outbox" /\ todo' = Tail(todo) /\ nvs' = nvs
        /\ UNCHANGED <<slot, boot, running, call>>
    BY <1>4 DEF QueueReport, flash
  <2>2. Head(todo) \in Range(todo)
    BY <1>1, <2>1, PopHead DEF TypeOK
  <2>3. ~StagingNow
    <3> SUFFICES ASSUME StagingNow PROVE FALSE
      OBVIOUS
    <3>1. PICK n \in 0..13 : StagedTo(n)
      BY DEF Identity, InProgress, StagingProgress
    <3>2. n \in 0..12 /\ todo[1] = StagingWrites[n + 1]
      BY <1>1, <2>1, <3>1, EmptySeq DEF StagedTo, TypeOK
    <3>3. Head(todo).key \in Keys
      BY <2>1, <3>2, StagingKeys
    <3> QED BY <2>1, <3>3 DEF Keys
  <2>4. ~Unrecording
    BY <2>1, <2>2 DEF Unrecording, Identity, InProgress, Planned, IdKeys
  <2>5. InFlash'
    BY <2>1, <2>4 DEF Identity, InFlash, Identified, Snapshot, Recorded, Returned,
       HasId, HasPrev, Accounts, Label
  <2> QED BY <1>1, <1>4, <2>3, <2>5, PopProgress DEF Identity
<1> QED BY <1>2, <1>3, <1>4 DEF Write

-----------------------------------------------------------------------------
(***************************************************************************)
(* What a call plans.                                                      *)
(***************************************************************************)

\* Nothing in flash moves.
LEMMA KeepFlash ==
  ASSUME InFlash, UNCHANGED <<slot, boot, nvs>>, Unrecording => HasId(slot[boot])
  PROVE  InFlash'
BY DEF InFlash, Identified, Snapshot, Recorded, Returned, HasId, HasPrev, Accounts, Label

\* A call that has nothing to write, or ends a record, on a device that has
\* its identity.
LEMMA EndProgress ==
  ASSUME TypeOK, HasId(slot[boot]), UNCHANGED <<slot, boot, nvs>>,
         call' = "none", ~waiting', Ends(todo') \/ (todo' = <<>> /\ nvs.staged = 0),
         nvs.trial = 1 /\ boot # nvs.prevPart => nvs.staged = 0
  PROVE  Planned' /\ StagingProgress' /\ Identifying' /\ Unstaging' /\ Restoring'
<1>1. /\ Ranked(todo')
      /\ \A w \in Range(todo') : /\ w.key \notin IdKeys
                                 /\ w.key = "staged" => w.val = 0
      /\ nvs.staged = 0 \/ Put("staged", 0) \in Range(todo')
  <2>1. CASE Ends(todo')
    BY <2>1 DEF Ends, DropKeys, IdKeys, Remove
  <2>2. CASE todo' = <<>>
    BY <2>2, NoWrites, RankedShort DEF Ends
  <2> QED BY <2>1, <2>2
<1>2. ~StagingNow'
  BY DEF StagingNow
<1>3. GivesId(slot[boot])'
  BY <1>1 DEF HasId, GivesId, Gives, IdKeys, Label
<1>4. Planned' /\ StagingProgress' /\ Identifying'
  BY <1>1, <1>2, <1>3 DEF Planned, StagingProgress, Identifying
<1>5. Unstaging'
  BY <1>1 DEF Unstaging, Gives
<1>6. Restoring'
  BY <1>1 DEF Restoring, IdPending
<1> QED BY <1>4, <1>5, <1>6

\* A call that puts the identity of the boot slot back, then ends the record.
LEMMA RestoreProgress ==
  ASSUME TypeOK, HasPrev(slot[boot]), UNCHANGED <<slot, boot, nvs>>,
         call' = "none", ~waiting', NEW s, Ends(s), todo' = RestoreWrites \o s,
         (nvs.trial = 1 /\ boot = nvs.prevPart) \/ (nvs.trial = 0 /\ nvs.staged = 2)
  PROVE  Planned' /\ StagingProgress' /\ Identifying' /\ Unstaging' /\ Restoring'
<1>1. Ranked(todo') /\ Range(todo') = Restores \cup Range(s)
  BY RestoreFirst DEF Ends
<1>2. Restores = {Put("build", slot[boot]), Put("hash", slot[boot]), Put("ver", Label(slot[boot]))}
  BY DEF Restores, HasPrev
<1>3. /\ Remove("staged") \in Range(s)
      /\ \A w \in Range(s) : /\ w.key \notin IdKeys
                             /\ w.key = "staged" => w.val = 0
  BY DEF Ends, DropKeys, IdKeys
<1>4. ~StagingNow'
  BY DEF StagingNow
<1>5. GivesId(slot[boot])'
  BY <1>1, <1>2, <1>3 DEF GivesId, Gives, IdKeys, Label, Put
<1>6. \A w \in Range(todo') : w.key = "staged" => w.val = 0
  BY <1>1, <1>2, <1>3 DEF Put
<1>7. Planned' /\ StagingProgress' /\ Identifying'
  BY <1>1, <1>4, <1>5, <1>6 DEF Planned, StagingProgress, Identifying
<1>8. Put("staged", 0) \in Range(todo')
  BY <1>1, <1>3 DEF Remove
<1>9. Unstaging'
  BY <1>6, <1>8 DEF Unstaging, Gives
<1>10. Restoring'
  BY DEF Restoring
<1> QED BY <1>7, <1>9, <1>10

\* performRollback() from a trial: the boot slot goes back to the image whose
\* identity the record has.
LEMMA RollbackIdentity ==
  ASSUME Supervisable, TypeOK, Supervision, Identity, NEW reason \in Reasons, reason # 0,
         PerformRollback(reason), phase' = "run", nvs.trial = 1
  PROVE  Identity'
<1>1. /\ todo' = RestoreWrites \o << Put("rbReason", reason), Put("trial", 2) >>
      /\ call' = "restart" /\ UNCHANGED <<slot, nvs, running, waiting, offer>>
  BY DEF PerformRollback
<1>2. Recorded
  BY DEF Identity, InFlash
<1>3. boot' = nvs.prevPart
  BY <1>2 DEF PerformRollback, SwitchBack, Supervisable, Recorded
<1>4. HasPrev(slot[boot'])
  BY <1>2, <1>3 DEF Recorded
<1>5. /\ Ranked(todo')
      /\ Range(todo') = {Put("build", slot[boot']), Put("hash", slot[boot']),
                         Put("ver", Label(slot[boot'])), Put("rbReason", reason),
                         Put("trial", 2)}
  BY <1>1, <1>4, RollbackRange DEF Restores, HasPrev
<1>6. InFlash'
  BY <1>1, <1>2, <1>3 DEF InFlash, Identified, Snapshot, Recorded, Returned, HasPrev,
     Accounts, Label
<1>7. ~StagingNow'
  BY <1>1 DEF StagingNow
<1>8. /\ slot' = slot /\ nvs' = nvs /\ call' = "restart"
      /\ \A w \in Range(todo') : /\ w.key \in IdKeys \cup {"rbReason", "trial"}
                                 /\ w.key \in {"build", "hash"} => w.val = slot[boot']
                                 /\ w.key = "ver" => w.val = Label(slot[boot'])
                                 /\ w.key = "trial" => w.val = 2
  <2>1. slot' = slot /\ nvs' = nvs /\ call' = "restart"
    BY <1>1
  <2> QED BY <1>5, <2>1 DEF IdKeys, Put
<1>9. GivesId(slot[boot])' /\ Planned'
  <2>1. GivesId(slot[boot])'
    BY <1>5, <1>8 DEF GivesId, Gives, Label
  <2>2. \A w \in Range(todo') : w.key # "staged"
    BY <1>8 DEF IdKeys
  <2> QED BY <1>5, <1>7, <1>8, <2>1, <2>2 DEF Planned
<1>10. StagingProgress' /\ Identifying' /\ Unstaging' /\ Restoring'
  BY <1>1, <1>3, <1>7, <1>9 DEF StagingProgress, Identifying, Unstaging, Restoring
<1>11. Offering' /\ Trying'
  BY <1>1 DEF Offering, Trying
<1> QED BY <1>6, <1>9, <1>10, <1>11 DEF Identity, InProgress

-----------------------------------------------------------------------------
(***************************************************************************)
(* The identity, step by step.                                             *)
(***************************************************************************)

LEMMA IdentityInit == Init => Identity
<1> SUFFICES ASSUME Init PROVE Identity
  OBVIOUS
<1>1. slot[boot] = 0 /\ HasId(slot[boot])
  BY ImageAssumption, BuildsAssumption DEF Init, HasId, Label, Keys, Parts, Factory
<1>2. InFlash
  BY <1>1 DEF Init, InFlash, Identified, Snapshot, Recorded, Returned, Keys
<1>3. Planned
  BY NoWrites, RankedShort DEF Init, Planned
<1>4. StagingProgress /\ Identifying /\ Unstaging /\ Restoring /\ Offering /\ Trying
  BY NoWrites DEF Init, IdPending, StagingProgress, StagingNow, Identifying, Unstaging, Restoring, Offering, Trying
<1> QED BY <1>2, <1>3, <1>4 DEF Identity, InProgress

\* No library call is in progress: the bootloader and the core, and a reset.
Idle ==
  call = "none" /\ todo = <<>> /\ ~inTrial /\ ~waiting /\ phase # "run" /\ offer = 0

LEMMA IdleProgress == Idle => InProgress
<1> SUFFICES ASSUME Idle PROVE InProgress
  OBVIOUS
<1> USE DEF Idle
<1>1. ~StagingNow
  BY DEF StagingNow
<1>2. Planned
  BY NoWrites, RankedShort DEF Planned
<1>3. ~IdPending
  BY NoWrites DEF IdPending
<1> QED BY <1>1, <1>2, <1>3 DEF InProgress, StagingProgress, Identifying, Unstaging,
           Restoring, Offering, Trying

LEMMA BootIdentity == IInv /\ IInv' /\ Identity /\ Boot => Identity'
<1> SUFFICES ASSUME IInv, IInv', Identity, Boot
             PROVE  Identity'
  OBVIOUS
<1>1. /\ call' = call /\ todo' = todo /\ offer' = offer /\ slot' = slot /\ nvs' = nvs
      /\ phase # "run" /\ phase' # "run"
  BY DEF Boot, Bootloader, Resume, CoreInit, flash
<1>2. ~Unrecording /\ call' = "none" /\ todo' = <<>> /\ ~waiting' /\ ~inTrial'
  BY <1>1 DEF IInv, Supervision, Booting, Unrecording
<1>3. InProgress'
  <2>1. offer' = 0
    BY <1>1 DEF Identity, InProgress, Offering
  <2>2. Idle'
    BY <1>1, <1>2, <2>1 DEF Idle
  <2> QED BY <2>2, IdleProgress, PTL
<1>4. InFlash'
  <2>1. CASE boot' = boot
    BY <1>1, <1>2, <2>1, KeepFlash DEF Identity
\* The bootloader leaves the boot slot only to give up a trial.
  <2>2. CASE boot' # boot
    <3>1. Bootloader
      BY <2>2 DEF Boot, Resume, CoreInit, flash
    <3>2. boot \notin trusted
      BY <2>2, <3>1 DEF Bootloader, IInv, TypeOK, Supervision, Probation
    <3>3. nvs.trial = 1 /\ nvs.prevPart = Other(boot)
      BY <3>2 DEF IInv, Supervision, OnTrial
    <3>4. boot' = Other(boot)
      BY <2>2, <3>1 DEF IInv, TypeOK, Parts, Other
    <3> QED BY <1>1, <3>3, <3>4
            DEF Identity, InFlash, Identified, Snapshot, Recorded, Returned, HasPrev,
                Accounts, Label
  <2> QED BY <2>1, <2>2
<1> QED BY <1>3, <1>4 DEF Identity

\* What the outcomes say of the snapshot.
LEMMA ClassifiedStaged ==
  ASSUME TypeOK
  PROVE  LET outcome == ClassifyBoot(Facts) IN
         /\ outcome = "none" => nvs.trial = 0 /\ nvs.staged = 0
         /\ outcome = "report_pending" => nvs.trial = 2
         /\ outcome = "rolled_back" =>
              nvs.trial = 1 /\ running = nvs.prevPart /\ nvs.staged = 0
         /\ outcome = "abandoned" =>
              /\ nvs.staged # 0
              /\ nvs.trial = 0 \/ (nvs.trial = 1 /\ running = nvs.prevPart)
         /\ outcome = "incomplete" => nvs.trial = 1 /\ nvs.prevPart = 0
<1>1. /\ Facts.trial = nvs.trial /\ Facts.prevPart = nvs.prevPart
      /\ Facts.runningPart = running /\ Facts.staged = nvs.staged
  BY DEF Facts
<1>2. nvs.trial \in 0..2 /\ running # 0
  BY KeyTypes DEF TypeOK, Keys, Parts
<1> HIDE DEF Facts
<1> DEFINE outcome == ClassifyBoot(Facts)
<1>3. CASE nvs.trial = 0
  <2>1. outcome = IF nvs.staged # 0 THEN "abandoned" ELSE "none"
    BY <1>1, <1>3 DEF ClassifyBoot, OutcomeWithoutTrial
  <2> QED BY <1>3, <2>1
<1>4. CASE nvs.trial = 2
  <2>1. outcome = "report_pending"
    BY <1>1, <1>4 DEF ClassifyBoot
  <2> QED BY <1>4, <2>1
<1>5. CASE nvs.trial = 1 /\ nvs.prevPart = 0
  <2>1. outcome = "incomplete"
    BY <1>1, <1>5 DEF ClassifyBoot
  <2> QED BY <1>5, <2>1
<1>6. CASE nvs.trial = 1 /\ nvs.prevPart # 0 /\ running # nvs.prevPart
  <2>1. outcome \in {"slept_in_trial", "trial"}
    BY <1>1, <1>2, <1>6 DEF ClassifyBoot, OutcomeOnNew
  <2> QED BY <2>1
<1>7. CASE nvs.trial = 1 /\ nvs.prevPart # 0 /\ running = nvs.prevPart
  <2>1. /\ outcome \in {"waiting", "abandoned", "rolled_back"}
        /\ outcome = "abandoned" => nvs.staged # 0
        /\ outcome = "rolled_back" => nvs.staged = 0
    BY <1>1, <1>2, <1>7 DEF ClassifyBoot, OutcomeOnPrevious
  <2> QED BY <1>7, <2>1
<1> QED BY <1>2, <1>3, <1>4, <1>5, <1>6, <1>7

\* Without a trial under way the identity is that of the boot slot.
LEMMA ValidationIdentity == IInv /\ Identity /\ BootValidation => Identity'
<1> SUFFICES ASSUME TypeOK, Supervision, Identity, BootValidation
             PROVE  Identity'
  BY DEF IInv
<1> DEFINE outcome == ClassifyBoot(Facts)
<1>1. /\ phase = "setup" /\ phase' = "run" /\ outcome \notin {"trial", "slept_in_trial"}
      /\ todo' = ValidationWrites(outcome) /\ waiting' = (outcome = "waiting")
      /\ UNCHANGED <<slot, boot, nvs, running, inTrial, offer, call>>
  BY DEF BootValidation, flash
<1>2. call = "none" /\ ~inTrial /\ ~Unrecording /\ ~StagingNow
  BY <1>1 DEF Supervision, Booting, Unrecording, StagingNow
<1>3. InFlash
  BY DEF Identity
<1>4. InFlash'
  BY <1>1, <1>2, <1>3, KeepFlash
<1>5. Offering' /\ Trying'
  BY <1>1, <1>2 DEF Identity, InProgress, Offering, Trying
<1>6. outcome \in Outcomes /\ outcome # "incomplete"
  BY <1>3, Classified, ClassifiedStaged DEF InFlash, Recorded, Parts
<1>7. nvs.trial = 1 /\ running = nvs.prevPart /\ outcome # "waiting" => boot = nvs.prevPart
  BY <1>1, Classified DEF Supervision, Booting, OnTrial
<1>8. ASSUME outcome # "waiting", HasId(slot[boot]), nvs.trial # 1,
             Ends(todo') \/ (todo' = <<>> /\ nvs.staged = 0)
      PROVE  InProgress'
  BY <1>1, <1>2, <1>5, <1>8, EndProgress DEF InProgress
<1>9. ASSUME outcome # "waiting", HasPrev(slot[boot]), NEW s, Ends(s),
             todo' = RestoreWrites \o s,
             (nvs.trial = 1 /\ boot = nvs.prevPart) \/ (nvs.trial = 0 /\ nvs.staged = 2)
      PROVE  InProgress'
  BY <1>1, <1>2, <1>5, <1>9, RestoreProgress DEF InProgress
<1> HIDE DEF outcome
<1>10. CASE outcome = "none"
  <2>1. nvs.trial = 0 /\ nvs.staged = 0
    BY <1>10, ClassifiedStaged DEF outcome
  <2>2. Ends(todo') \/ todo' = <<>>
    BY <1>1, <1>10, VerdictEnds DEF ValidationWrites, Reasons
  <2>3. HasId(slot[boot])
    BY <1>2, <1>3, <2>1 DEF InFlash, Identified
  <2> QED BY <1>4, <1>8, <1>10, <2>1, <2>2, <2>3 DEF Identity
<1>11. CASE outcome = "report_pending"
  <2>1. nvs.trial = 2
    BY <1>11, ClassifiedStaged DEF outcome
  <2>2. HasId(slot[boot])
    BY <1>3, <2>1 DEF InFlash, Identified
  <2>3. Ends(todo')
    <3>1. ConfirmTimedOut \in Reasons /\ nvs.rbReason \in Reasons
      BY KeyTypes DEF TypeOK, Keys, Reasons
    <3> QED BY <1>1, <1>11, <3>1, VerdictEnds DEF ValidationWrites
  <2> QED BY <1>4, <1>8, <1>11, <2>1, <2>2, <2>3 DEF Identity
<1>12. CASE outcome = "rolled_back"
  <2>1. nvs.trial = 1 /\ running = nvs.prevPart /\ boot = nvs.prevPart
    BY <1>7, <1>12, ClassifiedStaged DEF outcome
  <2>2. HasPrev(slot[boot])
    BY <1>3, <2>1 DEF InFlash, Recorded
  <2> DEFINE verdict == RolledBackWrites(RollbackReason(cause))
  <2>3. todo' = RestoreWrites \o verdict /\ Ends(verdict)
    BY <1>1, <1>12, VerdictEnds, ReasonTyped DEF ValidationWrites
  <2> HIDE DEF verdict
  <2> QED BY <1>4, <1>9, <1>12, <2>1, <2>2, <2>3 DEF Identity
<1>13. CASE outcome = "abandoned"
  <2>1. nvs.staged # 0 /\ (nvs.trial = 0 \/ (nvs.trial = 1 /\ boot = nvs.prevPart))
    BY <1>7, <1>13, ClassifiedStaged DEF outcome
  <2>2. nvs.staged \in {1, 2}
    BY <2>1, KeyTypes DEF TypeOK, Keys
  <2>3. CASE nvs.staged = 2
    <3>1. HasPrev(slot[boot])
      BY <1>3, <2>1, <2>3 DEF InFlash, Snapshot, Recorded
    <3>2. todo' = RestoreWrites \o DropWrites
      BY <1>1, <1>13, <2>3 DEF ValidationWrites, AbandonRestoresIdentity, StagedSnapshot
    <3> QED BY <1>4, <1>9, <1>13, <2>1, <2>3, <3>1, <3>2, DropEnds DEF Identity
  <2>4. CASE nvs.staged = 1
    <3>1. nvs.trial = 0 /\ HasId(slot[boot])
      BY <1>2, <1>3, <2>1, <2>4 DEF InFlash, Identified, Recorded
    <3>2. todo' = DropWrites
      BY <1>1, <1>13, <2>4 DEF ValidationWrites, AbandonRestoresIdentity, StagedSnapshot
    <3> QED BY <1>4, <1>8, <1>13, <3>1, <3>2, DropEnds DEF Identity
  <2> QED BY <2>2, <2>3, <2>4
\* The old image runs, the new one is in the boot slot: the identity on
\* record is the new one's already.
<1>14. CASE outcome = "waiting"
  <2>1. nvs.trial = 1 /\ running = nvs.prevPart /\ boot # running
    BY <1>14, Classified DEF outcome
  <2>2. HasId(slot[boot])
    BY <1>3, <2>1 DEF InFlash, Recorded
  <2>3. todo' = <<>> /\ waiting'
    BY <1>1, <1>14 DEF ValidationWrites
  <2>4. GivesId(slot[boot])' /\ ~IdPending' /\ ~StagingNow' /\ Planned'
    BY <1>1, <1>2, <2>2, <2>3, NoWrites, RankedShort
       DEF HasId, GivesId, Gives, IdPending, StagingNow, Planned, Label
  <2> QED BY <1>1, <1>2, <1>4, <1>5, <2>3, <2>4
          DEF Identity, InProgress, StagingProgress, Identifying, Unstaging, Restoring
<1> QED BY <1>1, <1>6, <1>10, <1>11, <1>12, <1>13, <1>14 DEF Outcomes

\* A trial begins: the new image knows itself.
LEMMA TrialIdentity ==
  Supervisable /\ IInv /\ Identity /\ (SleptInTrial \/ EnterTrial \/ StartTrial) => Identity'
<1> SUFFICES ASSUME Supervisable, TypeOK, Supervision, Identity,
                    SleptInTrial \/ EnterTrial \/ StartTrial
             PROVE  Identity'
  BY DEF IInv
<1>1. CASE SleptInTrial
  <2>1. phase' = "run" /\ PerformRollback(RstDeepSleep) /\ nvs.trial = 1
    BY <1>1, Classified DEF SleptInTrial
  <2> QED BY <2>1, RollbackIdentity DEF Reasons, NamedResets, RstDeepSleep
<1>2. CASE EnterTrial
  <2>1. /\ phase = "setup" /\ phase' = "run" /\ call' = "start_trial"
        /\ todo' = IF nvs.staged # 0 THEN << Remove("staged") >> ELSE <<>>
        /\ UNCHANGED <<slot, boot, nvs, running, waiting, inTrial, offer>>
    BY <1>2 DEF EnterTrial, flash
  <2>2. call = "none" /\ ~waiting /\ ~inTrial /\ ~Unrecording /\ offer = 0
    BY <2>1 DEF Supervision, Booting, Unrecording, Identity, InProgress, Offering
  <2>3. nvs.trial = 1 /\ running # nvs.prevPart
    BY <1>2, Classified DEF EnterTrial, Supervised
  <2>4. boot # nvs.prevPart
    BY <2>1, <2>3 DEF Supervision, Booting, OnTrial, TypeOK, Parts, Other
  <2>5. HasId(slot[boot])
    BY <2>3, <2>4 DEF Identity, InFlash, Recorded
  <2>6. InFlash'
    BY <2>1, <2>2, KeepFlash DEF Identity
  <2>7. /\ Ranked(todo') /\ \A w \in Range(todo') : w.key = "staged" /\ w.val = 0
        /\ nvs.staged = 0 \/ Put("staged", 0) \in Range(todo')
    <3>1. Range(<< Remove("staged") >>) = {Remove("staged")}
      BY DEF Range
    <3> QED BY <2>1, <3>1, NoWrites, RankedShort DEF Remove, Put
  <2>8. ~StagingNow' /\ ~IdPending'
    BY <2>1, <2>7 DEF StagingNow, IdPending, IdKeys
  <2>9. GivesId(slot[boot])' /\ Gives("staged", 0)'
    BY <2>1, <2>5, <2>7 DEF HasId, GivesId, Gives, Label
  <2> QED BY <2>1, <2>2, <2>3, <2>6, <2>7, <2>8, <2>9
          DEF Identity, InProgress, Planned, StagingProgress, Identifying, Unstaging,
              Restoring, Offering, Trying
<1>3. CASE StartTrial
  <2>1. /\ call = "start_trial" /\ call' = "none" /\ todo = <<>> /\ todo' = <<>> /\ inTrial'
        /\ UNCHANGED <<slot, boot, nvs, phase, running, waiting, offer>>
    BY <1>3 DEF StartTrial, flash
  <2>2. phase = "run" /\ ~waiting /\ ~IdPending /\ ~StagingNow /\ ~Unrecording
    BY <2>1, NoWrites DEF Supervision, Booting, Starting, IdPending, StagingNow,
       Unrecording, TypeOK
  <2>3. HasId(slot[boot]) /\ nvs.staged = 0
    BY <2>1, <2>2, GivenId, GivenStaged, NoWrites
       DEF Identity, InProgress, Identifying, Unstaging
  <2>4. InFlash'
    BY <2>1, <2>2, KeepFlash DEF Identity
  <2>5. Planned' /\ StagingProgress' /\ Identifying' /\ Unstaging' /\ Restoring'
    BY <2>1, <2>2, <2>3, EndProgress
  <2>6. Offering' /\ Trying'
    BY <2>1, <2>2 DEF Identity, InProgress, Offering, Trying
  <2> QED BY <2>4, <2>5, <2>6 DEF Identity, InProgress
<1> QED BY <1>1, <1>2, <1>3

\* The end of a trial, accepted or given up.
LEMMA TrialEndIdentity ==
  /\ Supervisable /\ IInv /\ Identity
  /\ StartTrialFails \/ ConfirmTimeout \/ AcceptUnsupervised \/ ConfirmRunning
  => Identity'
<1> SUFFICES ASSUME Supervisable, TypeOK, Supervision, Identity,
                    StartTrialFails \/ ConfirmTimeout \/ AcceptUnsupervised \/ ConfirmRunning
             PROVE  Identity'
  BY DEF IInv
<1>1. phase = "run" /\ phase' = phase /\ ~waiting /\ todo = <<>> /\ nvs.trial = 1
      /\ ~IdPending /\ ~StagingNow /\ ~Unrecording
  <2>1. phase' = phase /\ todo = <<>>
    BY DEF StartTrialFails, ConfirmTimeout, AcceptUnsupervised, ConfirmRunning, Ready
  <2>2. call = "start_trial" \/ (call = "none" /\ inTrial)
    BY DEF StartTrialFails, ConfirmTimeout, AcceptUnsupervised, ConfirmRunning, Ready
  <2> QED BY <2>1, <2>2, NoWrites DEF Supervision, Booting, Starting, InTrial, IdPending,
             StagingNow, Unrecording, TypeOK
<1>2. CASE StartTrialFails \/ ConfirmTimeout
  <2>1. PerformRollback(ConfirmTimedOut)
    BY <1>2 DEF StartTrialFails, ConfirmTimeout
  <2> QED BY <1>1, <2>1, RollbackIdentity DEF Reasons, ConfirmTimedOut
<1>3. CASE AcceptUnsupervised \/ ConfirmRunning
  <2>1. /\ call' = "none" /\ todo' = ConfirmedWrites
        /\ UNCHANGED <<slot, boot, nvs, running, waiting, offer>>
    BY <1>3 DEF AcceptUnsupervised, ConfirmRunning, Ready
  <2>2. ~inTrial'
    BY <1>1, <1>3 DEF AcceptUnsupervised, ConfirmRunning, Supervision, Starting
  <2>3. HasId(slot[boot]) /\ nvs.staged = 0
    <3>1. HasId(slot[boot])
      BY <1>1, GivenId DEF Identity, InProgress, Identifying
    <3>2. Gives("staged", 0)
      BY <1>1, <1>3 DEF Identity, InProgress, Unstaging, AcceptUnsupervised, ConfirmRunning,
         Ready
    <3> QED BY <1>1, <3>1, <3>2, GivenStaged, NoWrites
  <2>4. InFlash'
    BY <1>1, <2>1, KeepFlash DEF Identity
  <2>5. Planned' /\ StagingProgress' /\ Identifying' /\ Unstaging' /\ Restoring'
    BY <1>1, <2>1, <2>3, VerdictEnds, EndProgress DEF Reasons
  <2>6. Offering' /\ Trying'
    BY <1>1, <1>3, <2>1, <2>2 DEF Identity, InProgress, Offering, Trying, AcceptUnsupervised,
       ConfirmRunning, Ready
  <2> QED BY <2>4, <2>5, <2>6 DEF Identity, InProgress
<1> QED BY <1>2, <1>3

\* check() offers another image than the one that runs; a restart and the end
\* of apply() change nothing on record.
LEMMA QuietIdentity ==
  IInv /\ Identity /\ (Check \/ RebootForUpdate \/ Applied) => Identity'
<1> SUFFICES ASSUME TypeOK, Supervision, Identity, Check \/ RebootForUpdate \/ Applied
             PROVE  Identity'
  BY DEF IInv
<1>1. /\ todo = <<>> /\ todo' = <<>> /\ call \in {"none", "applied"}
      /\ call' \in {"none", "restart"} /\ (call = "applied" \/ waiting => waiting')
      /\ UNCHANGED <<slot, boot, nvs, phase, running, waiting, inTrial>>
  BY DEF Check, RebootForUpdate, Applied, Ready, Supervision, Waiting, flash
<1>2. phase = "run" /\ ~IdPending /\ ~IdPending' /\ ~StagingNow /\ ~StagingNow' /\ ~Unrecording
      /\ Range(todo') = {}
  BY <1>1, NoWrites DEF Check, RebootForUpdate, Applied, Ready, Supervision, Booting,
     IdPending, StagingNow, Unrecording
<1>3. HasId(slot[boot])
  BY <1>1, <1>2, GivenId DEF Identity, InProgress, Identifying
<1>4. InFlash'
  BY <1>1, <1>2, KeepFlash DEF Identity
<1>5. Planned'
  BY <1>1, <1>2, RankedShort DEF Planned
<1>6. StagingProgress' /\ Identifying'
  BY <1>1, <1>2, <1>3 DEF StagingProgress, Identifying, GivesId, Gives, HasId, Label
<1>7. Unstaging' /\ Restoring'
  <2>1. call = "none" \/ waiting
    BY <1>1 DEF Supervision, Waiting
  <2> QED BY <1>1, <1>2, <2>1 DEF Identity, InProgress, Unstaging, Restoring, Gives
<1>8. Offering'
  <2>1. CASE Check
    <3>1. call = "none" /\ offer' \in {0} \cup (Builds \ {nvs.build})
      BY <2>1 DEF Check, Ready
    <3>2. running = boot \/ waiting
      BY <1>1, <1>2, <3>1 DEF Supervision, Settled, InTrial
    <3> QED BY <1>1, <1>2, <1>3, <3>1, <3>2 DEF Offering, HasId
  <2>2. CASE RebootForUpdate
    BY <1>1, <1>2, <2>2 DEF RebootForUpdate, Offering
  <2>3. CASE Applied
    BY <2>3 DEF Applied, Offering
  <2> QED BY <2>1, <2>2, <2>3
<1>9. Trying'
  <2>1. call = "applied" => ~inTrial
    BY DEF Supervision, InTrial
  <2> QED BY <1>1, <2>1 DEF Identity, InProgress, Trying
<1> QED BY <1>4, <1>5, <1>6, <1>7, <1>8, <1>9 DEF Identity, InProgress

\* apply() until it switches the boot slot.
LEMMA DownloadIdentity ==
  IInv /\ Identity /\ (ApplyDownload \/ DownloadFails \/ DownloadOk) => Identity'
<1> SUFFICES ASSUME TypeOK, Supervision, Identity, ApplyDownload \/ DownloadFails \/ DownloadOk
             PROVE  Identity'
  BY DEF IInv
<1>1. /\ phase = "run" /\ todo = <<>> /\ call \in {"none", "download"} /\ ~waiting /\ ~inTrial
      /\ running = boot /\ boot \in Parts /\ nvs.trial = 0 /\ offer # 0
      /\ UNCHANGED <<boot, nvs, phase, running, waiting, inTrial>>
  <2>1. CASE ApplyDownload
    BY <2>1, NoWrites DEF ApplyDownload, Ready, Supervision, Settled, TypeOK
  <2>2. CASE DownloadFails \/ DownloadOk
    BY <2>2, BuildsAssumption
       DEF DownloadFails, DownloadOk, Supervision, Applying, Booting, TypeOK, flash
  <2> QED BY <2>1, <2>2
<1>2. ~StagingNow /\ ~IdPending /\ ~Unrecording
  BY <1>1, NoWrites DEF StagingNow, IdPending, Unrecording
<1>3. HasId(slot[boot]) /\ nvs.staged = 0
  BY <1>1, <1>2, GivenId, GivenStaged, NoWrites
     DEF Identity, InProgress, Identifying, Unstaging
<1>4. CASE ApplyDownload
  <2>1. /\ slot' = [slot EXCEPT ![Other(running)] = NoImage] /\ todo' = <<>>
        /\ call' = "download" /\ offer' = offer
    BY <1>1, <1>4 DEF ApplyDownload
  <2>2. slot'[boot] = slot[boot]
    BY <1>1, <2>1 DEF TypeOK, Parts, Other
  <2>3. InFlash'
    BY <1>1, <1>3, <2>2 DEF InFlash, Identified, Snapshot, Recorded, Returned, HasId, Label
  <2>4. ~StagingNow' /\ Range(todo') = {}
    BY <2>1, NoWrites DEF StagingNow
  <2>5. Planned' /\ StagingProgress' /\ Restoring'
    BY <2>1, <2>4, RankedShort DEF Planned, StagingProgress, Restoring
  <2>6. Identifying' /\ Unstaging'
    BY <1>1, <1>3, <2>1, <2>2, <2>4 DEF Identifying, Unstaging, GivesId, Gives, HasId, Label
  <2>7. Offering' /\ Trying'
    BY <1>1, <1>4, <2>1, <2>2 DEF Identity, InProgress, Offering, Trying, ApplyDownload, Ready
  <2> QED BY <2>3, <2>5, <2>6, <2>7 DEF Identity, InProgress
<1>5. CASE DownloadFails
  <2>1. slot' = slot /\ todo' = <<>> /\ call' = "none" /\ offer' = 0
    BY <1>1, <1>5 DEF DownloadFails, flash
  <2>2. InFlash'
    BY <1>1, <1>2, <2>1, KeepFlash DEF Identity
  <2>3. Planned' /\ StagingProgress' /\ Identifying' /\ Unstaging' /\ Restoring'
    BY <1>1, <1>3, <2>1, EndProgress
  <2>4. Offering' /\ Trying'
    BY <1>1, <2>1 DEF Offering, Trying
  <2> QED BY <2>2, <2>3, <2>4 DEF Identity, InProgress
<1>6. CASE DownloadOk
  <2>1. /\ slot' = slot /\ call' = "switch" /\ offer' = offer
        /\ todo' = IF RollbackEnabled THEN SnapshotWrites \o NewIdentityWrites ELSE <<>>
    BY <1>6 DEF DownloadOk, flash
  <2>2. InFlash'
    BY <1>1, <1>2, <2>1, KeepFlash DEF Identity
  <2>3. Planned'
    BY <1>1, <2>1, RankedShort, NoWrites DEF Planned, StagingNow, RollbackEnabled
  <2>4. Offering' /\ Trying' /\ Restoring'
    BY <1>1, <2>1 DEF Identity, InProgress, Offering, Trying, Restoring
  <2>5. CASE RollbackEnabled
\* The snapshot it will take is the identity it has.
    <3>1. Len(todo') = 13 /\ \A i \in 1..13 : todo'[i] = StagingWrites[i]
      <4> DEFINE s == SnapshotWrites \o NewIdentityWrites
      <4>1. Len(s) = 13 /\ \A i \in 1..13 : s[i] = IF i <= 6 THEN SnapshotWrites[i]
                                                  ELSE NewIdentityWrites[i - 6]
        BY StagedPuts
      <4>2. \A i \in 1..6 : SnapshotWrites[i] = StagingWrites[i]
        BY <1>1, <1>3 DEF SnapshotWrites, StagingWrites, HasId, StagedStarted, StagedSnapshot
      <4>3. \A i \in 7..13 : NewIdentityWrites[i - 6] = StagingWrites[i]
        BY DEF NewIdentityWrites, StagingWrites
      <4> HIDE DEF s, StagingWrites
      <4>4. \A i \in 1..13 : i \in 1..6 \/ i \in 7..13
        OBVIOUS
      <4>5. todo' = s
        BY <2>1, <2>5 DEF s
      <4> QED BY <4>1, <4>2, <4>3, <4>4, <4>5
    <3>2. StagingWrites' = StagingWrites
      BY <1>1, <2>1 DEF StagingWrites, Label
    <3>3. HasId(slot[running])'
      BY <1>1, <1>3, <2>1 DEF HasId, Label
    <3> HIDE DEF StagingWrites
    <3>4. StagedTo(0)'
      <4>1. \A i \in 1..(13 - 0) : 0 + i = i /\ i \in 1..13
        OBVIOUS
      <4>2. nvs'.staged = 0
        BY <1>1, <1>3
      <4> QED BY <3>1, <3>2, <3>3, <4>1, <4>2 DEF StagedTo
    <3>5. StagingProgress' /\ StagingNow'
      BY <1>1, <2>1, <2>5, <3>4 DEF StagingProgress, StagingNow, RollbackEnabled
    <3> QED BY <2>1, <2>2, <2>3, <2>4, <3>5 DEF Identity, InProgress, Identifying, Unstaging
  <2>6. CASE ~RollbackEnabled
    <3>1. ~StagingNow' /\ todo' = <<>> /\ Range(todo') = {}
      BY <1>1, <2>1, <2>6, NoWrites DEF StagingNow, RollbackEnabled
    <3>2. StagingProgress' /\ Identifying' /\ Unstaging'
      BY <1>1, <1>3, <2>1, <3>1
         DEF StagingProgress, Identifying, Unstaging, GivesId, Gives, HasId, Label
    <3> QED BY <2>2, <2>3, <2>4, <3>2 DEF Identity, InProgress
  <2> QED BY <2>5, <2>6
<1> QED BY <1>4, <1>5, <1>6

\* A record that cannot be finished, or whose image cannot be: the snapshot
\* is put back once it is whole, and not before.
LEMMA FailIdentity ==
  IInv /\ Identity /\ (StageFails \/ UpdateEndFails) => Identity'
<1> SUFFICES ASSUME TypeOK, Supervision, Identity, StageFails \/ UpdateEndFails
             PROVE  Identity'
  BY DEF IInv
<1>1. /\ call = "switch" /\ call' = "none" /\ offer' = 0
      /\ UNCHANGED <<slot, boot, nvs, phase, running, waiting, inTrial>>
  BY DEF StageFails, UpdateEndFails, flash
<1>2. running = boot /\ ~waiting /\ ~inTrial /\ ~Unrecording
  BY <1>1 DEF Supervision, Applying, Unrecording
<1>3. InFlash' /\ Offering' /\ Trying'
  BY <1>1, <1>2, KeepFlash DEF Identity, Offering, Trying
<1>4. SUFFICES Planned' /\ StagingProgress' /\ Identifying' /\ Unstaging' /\ Restoring'
  BY <1>3 DEF Identity, InProgress
<1>5. CASE ~RollbackEnabled
  <2>1. todo = <<>> /\ todo' = <<>> /\ nvs.trial = 0
    BY <1>1, <1>5 DEF StageFails, UpdateEndFails, Supervision, Staging
  <2>2. phase = "run" /\ ~StagingNow /\ ~IdPending
    BY <1>1, <1>5, <2>1, NoWrites DEF Supervision, Booting, StagingNow, IdPending
  <2>3. HasId(slot[boot]) /\ nvs.staged = 0
    BY <1>1, <1>2, <2>1, <2>2, GivenId, GivenStaged, NoWrites
       DEF Identity, InProgress, Identifying, Unstaging
  <2> QED BY <1>1, <1>2, <2>1, <2>3, EndProgress
<1>6. CASE RollbackEnabled
  <2>1. PICK n \in 0..13 : StagedTo(n)
    BY <1>1, <1>6 DEF Identity, InProgress, StagingProgress, StagingNow
  <2>2. Len(todo) = 13 - n
    BY <2>1 DEF StagedTo
  <2>3. (todo = <<>> <=> n = 13) /\ (Len(todo) <= 7 <=> n >= 6)
    BY <2>2, EmptySeq DEF TypeOK
  <2>4. Len(NewIdentityWrites) = 7
    BY DEF NewIdentityWrites
  <2>5. nvs.staged = (IF n = 0 THEN 0 ELSE IF n < 6 THEN 1 ELSE 2) /\ (n < 7 => HasId(slot[boot]))
    BY <1>2, <2>1 DEF StagedTo
  <2>6. IF n = 13 THEN nvs.trial = 1 /\ nvs.prevPart = boot ELSE nvs.trial = 0
    BY <1>1, <1>2, <1>6, <2>3 DEF Supervision, Staging
  <2>7. CASE n >= 6
    <3>1. todo' = RestoreWrites \o DropWrites
      BY <1>6, <2>3, <2>4, <2>7 DEF StageFails, UpdateEndFails
    <3>2. HasPrev(slot[boot])
      BY <2>5, <2>6, <2>7 DEF Identity, InFlash, Snapshot, Recorded
    <3>3. (nvs.trial = 1 /\ boot = nvs.prevPart) \/ (nvs.trial = 0 /\ nvs.staged = 2)
      BY <2>5, <2>6, <2>7
    <3> QED BY <1>1, <1>2, <3>1, <3>2, <3>3, DropEnds, RestoreProgress
  <2>8. CASE n < 6
    <3>1. todo' = DropWrites
      BY <1>6, <2>3, <2>4, <2>8 DEF StageFails, UpdateEndFails
    <3> QED BY <1>1, <1>2, <2>5, <2>6, <2>8, <3>1, DropEnds, EndProgress
  <2> QED BY <2>7, <2>8
<1> QED BY <1>5, <1>6

\* The writes of a switch without rollback.
LEMMA UnsupervisedRange ==
  ASSUME TypeOK, offer \in Labelled
  PROVE  /\ Range(UnsupervisedWrites) =
              {Put("build", offer), Put("hash", offer), Put("ver", offer),
               Put("failDep", offer), Put("failBuild", offer), Put("confPend", 1)}
         /\ Ranked(UnsupervisedWrites) /\ UnsupervisedWrites # <<>>
<1> DEFINE a == << Put("build", offer), Put("hash", offer) >>
           b == << Put("ver", offer) >>
           c == << Put("failDep", offer), Put("failBuild", offer), Put("confPend", 1) >>
<1>1. \A k \in {"build", "hash", "ver", "failDep", "failBuild"} : Put(k, offer) \in Writes
  BY PutTyped, KeyTypes DEF Keys, Images, Factory, TypeOK
<1>2. Put("confPend", 1) \in Writes
  BY PutTyped, KeyTypes DEF Keys
<1>3. a \in Seq(Writes) /\ b \in Seq(Writes) /\ c \in Seq(Writes)
  BY <1>1, <1>2
<1>4. /\ Range(a) = {Put("build", offer), Put("hash", offer)}
      /\ Range(b) = {Put("ver", offer)}
      /\ Range(c) = {Put("failDep", offer), Put("failBuild", offer), Put("confPend", 1)}
  BY DEF Range
<1>5. Len(c) = 3 /\ Rank(c[1]) = 3 /\ Rank(c[2]) = 3 /\ Rank(c[3]) = 4
  BY DEF Rank, IdKeys, Put
<1>6. UnsupervisedWrites = (a \o b) \o c
  BY DEF UnsupervisedWrites
<1> HIDE DEF a, b, c
<1>7. Ranked(c)
  <2>1. \A i \in 1..3 : i \in {1, 2, 3}
    OBVIOUS
  <2> QED BY <1>5, <2>1 DEF Ranked
<1> DEFINE d == a \o b
<1>8. d \in Seq(Writes) /\ Range(d) = {Put("build", offer), Put("hash", offer), Put("ver", offer)}
  <2>1. Range(d) = Range(a) \cup Range(b)
    BY <1>3, RangeConcatenation
  <2> QED BY <1>3, <1>4, <2>1, ConcatProperties
<1> HIDE DEF d
<1>9. \A w \in Range(d) : Rank(w) = 0
  BY <1>8 DEF Rank, IdKeys, Put
<1>10. Ranked(d \o c)
  BY <1>3, <1>7, <1>8, <1>9, RankedConcat
<1>11. Range(d \o c) = Range(d) \cup Range(c)
  BY <1>3, <1>8, RangeConcatenation
<1>12. d \o c # <<>>
  <2>1. Put("build", offer) \in Range(d \o c)
    BY <1>8, <1>11
  <2>2. Put("build", offer) \notin Range(<<>>)
    BY NoWrites
  <2> QED BY <2>1, <2>2
<1> QED BY <1>4, <1>6, <1>8, <1>10, <1>11, <1>12 DEF d

\* Update.end() switches the boot slot to the image on record, or to one
\* whose identity comes next.
LEMMA SwitchIdentity ==
  Recordable /\ IInv /\ Identity /\ UpdateEnd => Identity'
<1> SUFFICES ASSUME Recordable, TypeOK, Supervision, Identity, UpdateEnd
             PROVE  Identity'
  BY DEF IInv
<1>1. /\ call = "switch" /\ call' = "applied" /\ todo = <<>> /\ waiting'
      /\ slot' = [slot EXCEPT ![Other(running)] = offer] /\ boot' = Other(running)
      /\ todo' = IF RollbackEnabled THEN << Remove("staged") >> ELSE UnsupervisedWrites
      /\ UNCHANGED <<nvs, phase, running, inTrial, offer>>
  BY DEF UpdateEnd
<1>2. /\ running = boot /\ ~waiting /\ ~inTrial /\ phase = "run"
      /\ offer \in Builds /\ offer # 0 /\ running \in Parts
  BY <1>1, BuildsAssumption DEF Supervision, Applying, Booting, TypeOK
<1>3. offer # slot[running]
  BY <1>1, <1>2 DEF Identity, InProgress, Offering
<1>4. slot'[boot'] = offer /\ slot'[running] = slot[running] /\ boot' # running
  BY <1>1, <1>2 DEF TypeOK, Parts, Other
<1>5. RollbackEnabled' = RollbackEnabled /\ ~StagingNow'
  BY <1>1, <1>4 DEF RollbackEnabled, StagingNow
<1>6. StagingProgress' /\ Restoring' /\ Offering' /\ Trying'
  BY <1>1, <1>2, <1>5 DEF StagingProgress, Restoring, Offering, Trying
<1>7. CASE RollbackEnabled
  <2>1. Range(<< Remove("staged") >>) = {Remove("staged")}
    BY DEF Range
  <2>2. StagedTo(13)
    <3>1. PICK n \in 0..13 : StagedTo(n)
      BY <1>1, <1>7 DEF Identity, InProgress, StagingProgress, StagingNow
    <3>2. n = 13
      BY <1>1, <3>1, EmptySeq DEF StagedTo
    <3> QED BY <3>1, <3>2
  <2>3. nvs.trial = 1 /\ nvs.prevPart = running
    BY <1>1, <1>7 DEF Supervision, Staging
  <2>4. /\ nvs.staged = 2 /\ HasPrev(slot[running]) /\ HasId(offer) /\ Accounts(offer)
    <3>1. /\ nvs.staged = 2
          /\ \A i \in {3, 4, 5, 7, 8, 9, 10, 11, 12} :
               nvs[StagingWrites[i].key] = StagingWrites[i].val
      BY <2>2 DEF StagedTo
    <3>2. /\ StagingWrites[3] = Put("prevBuild", slot[running])
          /\ StagingWrites[4] = Put("prevHash", slot[running])
          /\ StagingWrites[5] = Put("prevVer", Label(slot[running]))
          /\ StagingWrites[7] = Put("build", offer)
          /\ StagingWrites[8] = Put("hash", offer)
          /\ StagingWrites[9] = Put("ver", Label(offer))
          /\ StagingWrites[10] = Put("failDep", offer)
          /\ StagingWrites[11] = Put("failBuild", offer)
          /\ StagingWrites[12] = Put("confPend", 1)
      BY DEF StagingWrites
    <3> QED BY <3>1, <3>2 DEF HasPrev, HasId, Accounts, Put
  <2>5. InFlash'
    BY <1>1, <1>2, <1>3, <1>4, <2>3, <2>4
       DEF InFlash, Identified, Snapshot, Recorded, Returned, HasPrev, HasId, Accounts, Label
  <2>6. \A w \in Range(todo') : w.key = "staged" /\ w.val = 0
    BY <1>1, <1>7, <2>1 DEF Remove, Put
  <2>7. Ranked(todo')
    BY <1>1, <1>7, RankedShort
  <2>8. Planned' /\ Unstaging'
    BY <1>1, <1>5, <1>7, <2>6, <2>7 DEF Planned, Unstaging
  <2>9. Identifying'
    BY <1>1, <1>4, <2>4, <2>6 DEF Identifying, GivesId, Gives, HasId, Label
  <2> QED BY <1>6, <2>5, <2>8, <2>9 DEF Identity, InProgress
<1>8. CASE ~RollbackEnabled
  <2>1. offer \in Labelled
    BY <1>2, <1>8 DEF Recordable, RollbackEnabled
  <2>2. /\ Ranked(todo') /\ todo' # <<>>
        /\ Range(todo') =
              {Put("build", offer), Put("hash", offer), Put("ver", offer),
               Put("failDep", offer), Put("failBuild", offer), Put("confPend", 1)}
    BY <1>1, <1>8, <2>1, UnsupervisedRange
  <2>3. nvs.trial = 0 /\ nvs.staged = 0
    <3>1. nvs.trial = 0
      BY <1>1, <1>8 DEF Supervision, Staging
    <3>2. Gives("staged", 0)
      BY <1>1, <1>2, <1>8 DEF Identity, InProgress, Unstaging, StagingNow
    <3> QED BY <1>1, <3>1, <3>2, GivenStaged, NoWrites
  <2>4. nvs'.trial = 0 /\ nvs'.staged = 0 /\ Unrecording'
    BY <1>1, <1>5, <1>8, <2>2, <2>3 DEF Unrecording
  <2>5. InFlash'
    BY <2>4 DEF InFlash, Identified, Snapshot, Recorded, Returned
  <2>6. \A w \in Range(todo') :
          /\ w.key \in IdKeys \cup {"failDep", "failBuild", "confPend"}
          /\ w.key \in IdKeys => w.val = offer
    BY <2>2 DEF Put, IdKeys
  <2>7. GivesId(slot[boot])'
    <3>1. Label(offer) = offer /\ Label(slot[boot])' = offer
      BY <1>4, <2>1 DEF Label
    <3>2. Put("build", offer) \in Range(todo') /\ Put("hash", offer) \in Range(todo')
          /\ Put("ver", offer) \in Range(todo')
      BY <2>2
    <3> QED BY <1>4, <2>6, <3>1, <3>2 DEF GivesId, Gives, IdKeys
  <2>8. Planned'
    BY <1>1, <1>5, <1>8, <2>2, <2>6 DEF Planned, IdKeys
  <2>9. Identifying' /\ Unstaging'
    BY <1>1, <2>4, <2>7 DEF Identifying, Unstaging
  <2> QED BY <1>6, <2>5, <2>8, <2>9 DEF Identity, InProgress
<1> QED BY <1>7, <1>8

\* A reset.
LEMMA ResetIdentity ==
  Recordable /\ IInv /\ Identity /\ (Restart \/ \E c \in Causes : Reset(c)) => Identity'
<1> SUFFICES ASSUME Recordable, TypeOK, Supervision, Identity,
                    Restart \/ \E c \in Causes : Reset(c)
             PROVE  Identity'
  BY DEF IInv
<1>1. \E c : PowerLoss(c)
  BY DEF Restart, Reset
<1>2. UNCHANGED <<slot, boot, nvs>> /\ Idle'
  BY <1>1 DEF PowerLoss, Idle, flash
<1>3. ~Unrecording
  <2> SUFFICES ASSUME Unrecording PROVE FALSE
    OBVIOUS
  <2>1. nvs.trial = 0 /\ boot \in trusted
    BY DEF Unrecording, Identity, InProgress, Unstaging, Supervision, OnTrial
  <2>2. NoRollback # {} /\ call # "restart" /\ Unrecorded
    BY <2>1 DEF Unrecording, RollbackEnabled, Unrecorded
  <2> QED BY <2>2 DEF Restart, Reset, Recordable
<1>4. InFlash'
  BY <1>2, <1>3, KeepFlash DEF Identity
<1>5. InProgress'
  BY <1>2, IdleProgress, PTL
<1> QED BY <1>4, <1>5 DEF Identity

\* All steps.
LEMMA IdentityStep ==
  Supervisable /\ Recordable /\ RInv /\ [Next]_vars => RInv'
<1> SUFFICES ASSUME Supervisable, Recordable, IInv, Identity, [Next]_vars
             PROVE  RInv'
  BY DEF RInv
<1>1. IInv'
  BY TypeStep, SupervisionStep DEF IInv
<1> SUFFICES Identity'
  BY <1>1 DEF RInv
<1>2. CASE Write
  BY <1>1, <1>2, WriteIdentity
<1>3. CASE Boot
  BY <1>1, <1>3, BootIdentity
<1>4. CASE Validate
  BY <1>4, ValidationIdentity, TrialIdentity, TrialEndIdentity DEF Validate
<1>5. CASE ConfirmRunning \/ ConfirmTimeout
  BY <1>5, TrialEndIdentity
<1>6. CASE Check \/ RebootForUpdate \/ Applied
  BY <1>6, QuietIdentity
<1>7. CASE Apply
  BY <1>6, <1>7, DownloadIdentity, FailIdentity, SwitchIdentity DEF Apply
<1>8. CASE Restart \/ \E c \in Causes : Reset(c)
  BY <1>8, ResetIdentity
<1>9. CASE UNCHANGED vars
  BY <1>9 DEF vars, flash, ram, ghost, Identity, InFlash, Identified, Snapshot, Recorded,
     Returned, InProgress, Planned, StagingProgress, StagedTo, StagingWrites, Identifying,
     Unstaging, Restoring, Offering, Trying, HasId, HasPrev, Accounts, GivesId, Gives,
     IdPending, StagingNow, Unrecording, RollbackEnabled, Label
<1> QED BY <1>2, <1>3, <1>4, <1>5, <1>6, <1>7, <1>8, <1>9 DEF Next

LEMMA RecordInductive == ASSUME Supervisable, Recordable PROVE Spec => []RInv
<1>1. Init => RInv
  BY TypeInit, SupervisionInit, IdentityInit DEF IInv, RInv
<1>2. RInv /\ [Next]_vars => RInv'
  BY IdentityStep
<1> QED BY <1>1, <1>2, PTL DEF Spec

\* Between library calls the device knows which image it is: build number,
\* hash and version label are all those of the boot slot.
THEOREM KnowsItself == ASSUME Supervisable, Recordable PROVE Spec => []IdentityHonest
<1>1. RInv => IdentityHonest
  <2> SUFFICES ASSUME RInv, Ready PROVE HasId(slot[boot])
    BY DEF IdentityHonest, HasId
  <2>1. ~IdPending /\ ~StagingNow /\ phase = "run"
    BY NoWrites DEF Ready, IdPending, StagingNow
  <2> QED BY <2>1, GivenId DEF RInv, Identity, InProgress, Identifying
<1> QED BY <1>1, RecordInductive, PTL

-----------------------------------------------------------------------------
(***************************************************************************)
(* Reports.  A report is queued by the call that ends its trial, or by the *)
(* validation of a boot that finds the trial ended.                        *)
(***************************************************************************)

LEMMA DropRange == \A w \in Range(DropWrites) : w.key \in DropKeys /\ w.val = 0
BY DEF DropWrites, Range, DropKeys, Remove, Put

\* The reports among the writes that end a record.
LEMMA VerdictReports ==
  ASSUME TypeOK, NEW event \in {"confirmed", "rolled_back"}, NEW reason \in Reasons,
         NEW w \in Range(QueueWrites(event, reason) \o DropWrites), w.key = "outbox"
  PROVE  /\ w.val.event = event /\ w.val.build = nvs.failBuild
         /\ nvs.failDep # 0 /\ nvs.failBuild # 0
<1>1. w \in Range(QueueWrites(event, reason)) \cup Range(DropWrites)
  BY QueueEnds
<1>2. w \notin Range(DropWrites)
  BY DropRange DEF DropKeys
<1> QED BY <1>1, <1>2, QueueRange

\* The calls that put a report among the pending writes.
Confirming ==
  \/ AcceptUnsupervised \/ ConfirmRunning
  \/ BootValidation /\ ClassifyBoot(Facts) = "none" /\ nvs.confPend # 0
Reporting == BootValidation /\ ClassifyBoot(Facts) \in {"report_pending", "rolled_back"}

\* A pending report was pending before, or is about the context in NVS.
LEMMA ValidationReports ==
  ASSUME TypeOK, NEW o \in Outcomes, NEW w \in Range(ValidationWrites(o)),
         w.key = "outbox"
  PROVE  /\ w.val.build = nvs.failBuild /\ nvs.failDep # 0 /\ nvs.failBuild # 0
         /\ \/ o = "none" /\ nvs.confPend # 0 /\ w.val.event = "confirmed"
            \/ o \in {"report_pending", "rolled_back"} /\ w.val.event = "rolled_back"
<1>1. 0 \in Reasons /\ ConfirmTimedOut \in Reasons /\ nvs.rbReason \in Reasons
      /\ RollbackReason(cause) \in Reasons
  BY ReasonTyped DEF Reasons
<1>2. w \notin Range(DropWrites) /\ w \notin Range(<<>>) /\ w \notin Restores
  BY DropRange, NoWrites DEF DropKeys, Restores, Put
<1>3. CASE o = "none"
  <2>1. nvs.confPend # 0 /\ w \in Range(ConfirmedWrites)
    BY <1>2, <1>3 DEF ValidationWrites
  <2> QED BY <1>1, <1>3, <2>1, VerdictReports DEF ConfirmedWrites
<1>4. CASE o = "report_pending"
  <2> DEFINE r == IF nvs.rbReason = 0 THEN ConfirmTimedOut ELSE nvs.rbReason
  <2>1. r \in Reasons /\ w \in Range(RolledBackWrites(r))
    BY <1>1, <1>4 DEF ValidationWrites
  <2> QED BY <1>4, <2>1, VerdictReports DEF RolledBackWrites
<1>5. CASE o = "rolled_back"
  <2> DEFINE r == RollbackReason(cause)
  <2>1. w \in Range(RestoreWrites \o RolledBackWrites(r))
    BY <1>5 DEF ValidationWrites
  <2>2. Ends(RolledBackWrites(r))
    BY <1>1, VerdictEnds
  <2> HIDE DEF r
  <2>3. w \in Range(RolledBackWrites(r))
    BY <1>2, <2>1, <2>2, RestoreFirst DEF Ends
  <2> QED BY <1>1, <1>5, <2>3, VerdictReports DEF RolledBackWrites, r
<1>6. CASE o = "abandoned"
  <2>1. w \in Range(RestoreWrites \o DropWrites) \/ w \in Range(DropWrites)
    BY <1>6 DEF ValidationWrites
  <2>2. Ends(DropWrites)
    BY DropEnds
  <2>3. w \in Restores \cup Range(DropWrites)
    BY <2>1, <2>2, RestoreFirst DEF Ends
  <2> QED BY <1>2, <2>3
<1>7. CASE o \notin {"none", "report_pending", "rolled_back", "abandoned"}
  <2>1. w \in Range(DropWrites) \/ w \in Range(<<>>)
    BY <1>7 DEF ValidationWrites
  <2> QED BY <1>2, <2>1
<1> QED BY <1>3, <1>4, <1>5, <1>6, <1>7

LEMMA Queues ==
  ASSUME TypeOK, Supervision, [Next]_vars, Planned', NEW w \in Range(todo'),
         w.key = "outbox"
  PROVE  \/ w \in Range(todo) /\ (Write \/ UNCHANGED vars)
         \/ /\ w.val.build = nvs.failBuild /\ nvs.failDep # 0 /\ nvs.failBuild # 0
            /\ \/ w.val.event = "confirmed" /\ Confirming
               \/ w.val.event = "rolled_back" /\ Reporting
<1>1. w \notin Range(<<>>) /\ w \notin Restores
  BY NoWrites DEF Restores, Put
<1>2. w \notin Range(DropWrites) /\ w \notin Range(RestoreWrites \o DropWrites)
  <2>1. w \notin Range(DropWrites)
    BY DropRange DEF DropKeys
  <2>2. Ends(DropWrites)
    BY DropEnds
  <2> QED BY <1>1, <2>1, <2>2, RestoreFirst DEF Ends
<1>3. CASE Write
  <2>1. todo # <<>> /\ todo' = Tail(todo)
    BY <1>3 DEF Write, PutKey, QueueReport
  <2> QED BY <1>3, <2>1, PopHead DEF TypeOK
<1>4. CASE Boot \/ Check \/ RebootForUpdate \/ Applied \/ ApplyDownload \/ DownloadFails
           \/ StartTrial \/ Restart \/ \E c \in Causes : Reset(c)
  <2>1. todo' = <<>>
    <3>1. CASE Boot
      BY <3>1 DEF Boot, Bootloader, Resume, CoreInit, Supervision, Booting
    <3>2. CASE Check \/ RebootForUpdate \/ Applied \/ ApplyDownload \/ DownloadFails \/ StartTrial
      BY <3>2 DEF Check, RebootForUpdate, Applied, ApplyDownload, DownloadFails, StartTrial,
         Ready, Supervision, Applying
    <3>3. CASE Restart \/ \E c \in Causes : Reset(c)
      BY <3>3 DEF Restart, Reset, PowerLoss
    <3> QED BY <1>4, <3>1, <3>2, <3>3
  <2> QED BY <1>1, <2>1
<1>5. CASE BootValidation
  <2>1. w \in Range(ValidationWrites(ClassifyBoot(Facts))) /\ ClassifyBoot(Facts) \in Outcomes
    BY <1>5, Classified DEF BootValidation
  <2> QED BY <1>5, <2>1, ValidationReports DEF Confirming, Reporting
<1>6. CASE SleptInTrial \/ StartTrialFails \/ ConfirmTimeout
  <2>1. PICK reason \in {RstDeepSleep, ConfirmTimedOut} :
          todo' = RestoreWrites \o << Put("rbReason", reason), Put("trial", 2) >>
    BY <1>6 DEF SleptInTrial, StartTrialFails, ConfirmTimeout, PerformRollback
  <2>2. reason \in Reasons /\ reason # 0
    BY DEF Reasons, NamedResets, RstDeepSleep, ConfirmTimedOut
  <2>3. Range(todo') = Restores \cup {Put("rbReason", reason), Put("trial", 2)}
    BY <2>1, <2>2, RollbackRange
  <2> QED BY <1>1, <2>3 DEF Put
<1>7. CASE EnterTrial
  <2>1. Range(<< Remove("staged") >>) = {Remove("staged")}
    BY DEF Range
  <2>2. w = Remove("staged")
    BY <1>1, <1>7, <2>1 DEF EnterTrial
  <2> QED BY <2>2 DEF Remove, Put
<1>8. CASE AcceptUnsupervised \/ ConfirmRunning
  <2>1. w \in Range(ConfirmedWrites) /\ 0 \in Reasons
    BY <1>8 DEF AcceptUnsupervised, ConfirmRunning, Reasons
  <2> QED BY <1>8, <2>1, VerdictReports DEF ConfirmedWrites, Confirming
<1>9. CASE DownloadOk
  <2>1. \A i \in 1..6 : SnapshotWrites[i].key # "outbox"
    BY DEF SnapshotWrites, Put
  <2>2. \A i \in 1..7 : NewIdentityWrites[i].key # "outbox"
    BY DEF NewIdentityWrites, Put
  <2> DEFINE s == SnapshotWrites \o NewIdentityWrites
  <2>3. Len(s) = 13 /\ \A i \in 1..13 : s[i] = IF i <= 6 THEN SnapshotWrites[i]
                                              ELSE NewIdentityWrites[i - 6]
    BY <1>9, StagedPuts DEF DownloadOk, Supervision, Applying
  <2> HIDE DEF s
  <2>4. \A i \in 1..13 : i \in 1..6 \/ i - 6 \in 1..7
    OBVIOUS
  <2>5. \A i \in 1..Len(s) : s[i].key # "outbox"
    BY <2>1, <2>2, <2>3, <2>4
  <2>6. s \in Seq(Writes)
    BY <1>9, StagedPuts DEF DownloadOk, Supervision, Applying, s
  <2>7. w \notin Range(s)
    BY <2>5, <2>6, RangeEquality
  <2>8. todo' = s \/ todo' = <<>>
    BY <1>9 DEF DownloadOk, s
  <2> QED BY <1>1, <2>7, <2>8
<1>10. CASE StageFails \/ UpdateEndFails
  <2>1. todo' \in {<<>>, DropWrites, RestoreWrites \o DropWrites}
    BY <1>10 DEF StageFails, UpdateEndFails
  <2> QED BY <1>1, <1>2, <2>1
<1>11. CASE UpdateEnd
  BY <1>11 DEF UpdateEnd, Planned, IdKeys
<1>12. CASE UNCHANGED vars
  BY <1>12 DEF vars, ram
<1> QED BY <1>3, <1>4, <1>5, <1>6, <1>7, <1>8, <1>9, <1>10, <1>11, <1>12
        DEF Next, Validate, Apply

\* A pending "rolled_back" is about an image that does not run.
Gone ==
  \A w \in Range(todo) :
    w.key = "outbox" /\ w.val.event = "rolled_back" => w.val.build # slot[running]

LEMMA GoneStep == RInv /\ RInv' /\ Gone /\ [Next]_vars => Gone'
<1> SUFFICES ASSUME RInv, RInv', Gone, [Next]_vars, NEW w \in Range(todo'),
                    w.key = "outbox", w.val.event = "rolled_back"
             PROVE  w.val.build # slot'[running']
  BY DEF Gone
<1> USE DEF RInv, IInv, Identity, InFlash, InProgress
<1>1. \/ w \in Range(todo) /\ (Write \/ UNCHANGED vars)
      \/ w.val.build = nvs.failBuild /\ Reporting
  BY Queues
<1>2. CASE w \in Range(todo) /\ (Write \/ UNCHANGED vars)
  BY <1>2 DEF Gone, Write, PutKey, QueueReport, vars, flash, ram
<1>3. CASE w.val.build = nvs.failBuild /\ Reporting
  <2>1. phase = "setup" /\ slot' = slot /\ running' = running
    BY <1>3 DEF Reporting, BootValidation, flash
  <2>2. CASE nvs.trial = 2
    BY <1>3, <2>1, <2>2 DEF Supervision, Booting, OnTrial, Returned
  <2>3. CASE nvs.trial = 1 /\ running = nvs.prevPart
    BY <1>3, <2>1, <2>3 DEF Recorded
  <2> QED BY <1>3, <2>2, <2>3, ClassifiedStaged DEF Reporting
<1> QED BY <1>1, <1>2, <1>3

\* "rolled_back" is queued by the image the device returned to, never by the
\* one the report says was left, whatever resets and failures came between.
THEOREM ReportsWhatWasLeft ==
  ASSUME Supervisable, Recordable PROVE Spec => []RolledBackIsGone
<1>1. Init => Gone
  BY NoWrites DEF Init, Gone
<1>2. Gone => RolledBackIsGone
  BY DEF Gone, RolledBackIsGone, Queuing
<1> QED BY <1>1, <1>2, GoneStep, RecordInductive, PTL DEF Spec

-----------------------------------------------------------------------------
(***************************************************************************)
(* "confirmed".  It is queued when the image is accepted, or when a boot   *)
(* without a record finds that it is due: after a switch without rollback, *)
(* or after a cut of the call that accepted it.                            *)
(***************************************************************************)

\* The record says that "confirmed" is due, and for what.
Due == nvs.confPend # 0 /\ nvs.failDep # 0 /\ nvs.failBuild # 0

\* Without a trial and without a snapshot it is due for the boot slot only,
\* unless the record is being dropped.
DueForBoot ==
  nvs.trial = 0 /\ nvs.staged = 0 /\ Due =>
    nvs.failBuild = slot[boot] \/ (todo # <<>> /\ call = "none")

\* Between library calls, outside a trial and with no update waiting, nothing is due.
NothingDue ==
  phase = "run" /\ ~StagingNow /\ ~waiting /\ ~inTrial /\ call \notin {"start_trial", "restart"}
    => Gives("confPend", 0)

\* A switch without rollback says last that a report is due; one with
\* rollback has its record.
DueLast ==
  call = "applied" =>
    IF RollbackEnabled THEN nvs.trial = 1
    ELSE /\ Gives("failBuild", slot[boot])
         /\ nvs.confPend = 0 \/ \A w \in Range(todo) : w.key = "confPend"

\* A pending "confirmed" is about the image that runs, which is accepted.
Running ==
  \A w \in Range(todo) :
    w.key = "outbox" /\ w.val.event = "confirmed" =>
      w.val.build = slot[running] /\ running \in trusted

Confirms == DueForBoot /\ NothingDue /\ DueLast /\ Running

\* No reset strikes a drop whose trial is off the record and whose report is not.
Undivided == "drop_cut" \notin Faults

LEMMA EndGives ==
  ASSUME NEW s, Ends(s)
  PROVE  /\ Put("confPend", 0) \in Range(s)
         /\ \A w \in Range(s) : w.key = "confPend" => w.val = 0
BY DEF Ends, Remove

LEMMA RestoreGives ==
  ASSUME TypeOK, NEW s, Ends(s)
  PROVE  /\ Put("confPend", 0) \in Range(RestoreWrites \o s)
         /\ \A w \in Range(RestoreWrites \o s) : w.key = "confPend" => w.val = 0
<1>1. Range(RestoreWrites \o s) = Restores \cup Range(s)
  BY RestoreFirst DEF Ends
<1>2. \A w \in Restores : w.key # "confPend"
  BY DEF Restores, Put
<1> QED BY <1>1, <1>2, EndGives

\* One write of a call.
LEMMA ConfirmsWrite ==
  RInv /\ RInv' /\ Confirms /\ Write => DueForBoot' /\ NothingDue' /\ DueLast'
<1> SUFFICES ASSUME TypeOK, Supervision, Identity, RInv', Confirms, Write
             PROVE  DueForBoot' /\ NothingDue' /\ DueLast'
  BY DEF RInv, IInv
<1> DEFINE w == Head(todo)  k == w.key
<1>1. /\ todo # <<>> /\ todo' = Tail(todo)
      /\ IF k = "outbox" THEN nvs' = nvs ELSE nvs' = [nvs EXCEPT ![k] = w.val]
      /\ UNCHANGED <<slot, boot, phase, running, waiting, inTrial, offer, call>>
  BY DEF Write, PutKey, QueueReport, flash, ghost
<1>2. /\ w \in Range(todo) /\ Range(todo') \subseteq Range(todo)
      /\ Len(todo) \in Nat /\ Len(todo') = Len(todo) - 1
  BY <1>1, PopHead DEF TypeOK
<1>3. \A j \in Keys : nvs'[j] = IF j = k THEN w.val ELSE nvs[j]
  BY <1>1 DEF TypeOK, Keys
<1>4. StagingNow' = StagingNow /\ RollbackEnabled' = RollbackEnabled
  BY <1>1 DEF StagingNow, RollbackEnabled
<1>5. ASSUME NEW j \in Keys, NEW v, Gives(j, v)
      PROVE  /\ nvs'[j] = v \/ Put(j, v) \in Range(todo')
             /\ \A u \in Range(todo') : u.key = j => u.val = v
  BY <1>1, <1>5, GivesPop
<1> HIDE DEF w
\* Staging: the snapshot is marked from its first write on.
<1>6. CASE StagingNow
  <2>1. PICK n \in 0..13 : StagedTo(n)'
    BY <1>4, <1>6 DEF RInv, Identity, InProgress, StagingProgress
  <2>2. PICK m \in 0..13 : StagedTo(m)
    BY <1>6 DEF Identity, InProgress, StagingProgress
  <2>3. Len(todo) = 13 - m /\ Len(todo') = 13 - n
    BY <2>1, <2>2 DEF StagedTo
  <2>4. n # 0
    BY <1>2, <2>3
  <2>5. nvs'.staged = IF n = 0 THEN 0 ELSE IF n < 6 THEN 1 ELSE 2
    BY <2>1 DEF StagedTo
  <2>6. nvs'.staged # 0
    BY <2>4, <2>5
  <2> QED BY <1>1, <1>4, <1>6, <2>6 DEF DueForBoot, NothingDue, DueLast, StagingNow
<1>7. CASE ~StagingNow
  <2>1. NothingDue'
    <3>1. ASSUME Gives("confPend", 0)
          PROVE  Gives("confPend", 0)'
      <4>1. /\ nvs'["confPend"] = 0 \/ Put("confPend", 0) \in Range(todo')
            /\ \A u \in Range(todo') : u.key = "confPend" => u.val = 0
        BY <1>5, <3>1 DEF Keys
      <4> QED BY <4>1 DEF Gives
    <3> QED BY <1>1, <1>4, <3>1 DEF Confirms, NothingDue
  <2>2. call = "applied" /\ RollbackEnabled => nvs'.trial = 1
    <3>1. call = "applied" /\ RollbackEnabled => nvs.trial = 1 /\ k = "staged"
      BY <1>2 DEF Confirms, DueLast, Identity, InProgress, Planned
    <3> QED BY <1>3, <3>1 DEF Keys
  <2>3. call = "applied" /\ ~RollbackEnabled =>
          /\ Gives("failBuild", slot[boot])'
          /\ nvs'.confPend = 0 \/ \A u \in Range(todo') : u.key = "confPend"
    <3> SUFFICES ASSUME call = "applied", ~RollbackEnabled
                 PROVE  /\ Gives("failBuild", slot[boot])'
                        /\ nvs'.confPend = 0 \/ \A u \in Range(todo') : u.key = "confPend"
      OBVIOUS
    <3>1. /\ Gives("failBuild", slot[boot])
          /\ nvs.confPend = 0 \/ \A u \in Range(todo) : u.key = "confPend"
      BY DEF Confirms, DueLast
    <3>2. Gives("failBuild", slot[boot])'
      <4>1. /\ nvs'["failBuild"] = slot[boot] \/ Put("failBuild", slot[boot]) \in Range(todo')
            /\ \A u \in Range(todo') : u.key = "failBuild" => u.val = slot[boot]
        BY <1>5, <3>1 DEF Keys
      <4> QED BY <1>1, <4>1 DEF Gives
    <3>3. CASE k = "confPend" /\ w.val # 0
      <4>1. \A u \in Range(todo') : Rank(w) <= Rank(u)
        BY <1>1, <1>7, RankedPop DEF TypeOK, Identity, InProgress, Planned, w
      <4>2. Rank(w) = 4
        BY <3>3 DEF Rank, IdKeys
      <4>3. \A u : Rank(u) >= 4 => u.key = "confPend"
        BY DEF Rank
      <4>4. \A u : Rank(u) \in 0..4
        BY DEF Rank
      <4> QED BY <3>2, <4>1, <4>2, <4>3, <4>4
    <3>4. CASE ~(k = "confPend" /\ w.val # 0)
      BY <1>2, <1>3, <3>1, <3>2, <3>4 DEF Keys
    <3> QED BY <3>3, <3>4
  <2>4. DueLast'
    BY <1>1, <1>4, <2>2, <2>3 DEF DueLast
  <2>5. DueForBoot'
    <3> SUFFICES ASSUME nvs'.trial = 0, nvs'.staged = 0, Due'
                 PROVE  nvs'.failBuild = slot'[boot'] \/ (todo' # <<>> /\ call' = "none")
      BY DEF DueForBoot
    <3>1. /\ phase = "run"
          /\ \/ call = "none" /\ ~waiting /\ ~inTrial
             \/ call = "restart"
             \/ call = "start_trial" /\ \A u \in Range(todo) : u.key = "staged"
             \/ call = "applied"
      BY <1>1, <1>7, Writing
    <3>2. CASE call = "none" /\ ~waiting /\ ~inTrial
      <4>1. Gives("confPend", 0)'
        BY <1>1, <1>4, <1>7, <2>1, <3>1, <3>2 DEF NothingDue
      <4>2. todo' = <<>> => nvs'.confPend = 0
        BY <4>1, NoWrites DEF Gives
      <4> QED BY <1>1, <3>2, <4>2 DEF Due
    <3>3. CASE call = "restart"
      <4>1. k = "trial" => w.val = 2
        BY <1>2, <3>3 DEF Identity, InProgress, Planned
      <4>2. nvs.trial # 0
        BY <1>1, <3>3 DEF Identity, InProgress, Restoring
      <4> QED BY <1>3, <4>1, <4>2 DEF Keys
    <3>4. CASE call = "start_trial" /\ \A u \in Range(todo) : u.key = "staged"
      <4>1. k = "staged" /\ nvs.trial = 1
        BY <1>2, <3>4 DEF Supervision, Starting
      <4> QED BY <1>3, <4>1 DEF Keys
    <3>5. CASE call = "applied"
      <4>1. ~RollbackEnabled
        BY <2>2, <3>5
      <4>2. Put("failBuild", slot[boot]) \notin Range(todo')
        BY <2>3, <3>5, <4>1 DEF Due, Put
      <4>3. nvs'.failBuild = slot'[boot']
        BY <2>3, <3>5, <4>1, <4>2, <1>1 DEF Gives
      <4> QED BY <4>3
    <3> QED BY <3>1, <3>2, <3>3, <3>4, <3>5
  <2> QED BY <2>1, <2>4, <2>5
<1> QED BY <1>6, <1>7

LEMMA RunningStep == RInv /\ RInv' /\ Confirms /\ [Next]_vars => Running'
<1> SUFFICES ASSUME RInv, RInv', Confirms, [Next]_vars, NEW w \in Range(todo'),
                    w.key = "outbox", w.val.event = "confirmed"
             PROVE  w.val.build = slot'[running'] /\ running' \in trusted'
  BY DEF Running
<1> USE DEF RInv, IInv, Identity, InFlash, InProgress
<1>1. \/ w \in Range(todo) /\ (Write \/ UNCHANGED vars)
      \/ /\ w.val.build = nvs.failBuild /\ nvs.failDep # 0 /\ nvs.failBuild # 0
         /\ Confirming
  BY Queues
<1>2. CASE w \in Range(todo) /\ (Write \/ UNCHANGED vars)
  BY <1>2 DEF Confirms, Running, Write, PutKey, QueueReport, vars, flash, ram, ghost
<1>3. CASE w.val.build = nvs.failBuild /\ (AcceptUnsupervised \/ ConfirmRunning)
  <2>1. /\ slot' = slot /\ running' = running /\ running \in trusted'
        /\ call = "start_trial" \/ (inTrial /\ call # "restart")
    BY <1>3 DEF AcceptUnsupervised, ConfirmRunning, Ready
  <2>2. nvs.trial = 1 /\ running = boot /\ running # nvs.prevPart
    BY <2>1 DEF Supervision, Starting, InTrial, Trying
  <2> QED BY <1>3, <2>1, <2>2 DEF Recorded
<1>4. CASE /\ w.val.build = nvs.failBuild /\ nvs.failDep # 0 /\ nvs.failBuild # 0
           /\ BootValidation /\ ClassifyBoot(Facts) = "none" /\ nvs.confPend # 0
  <2>1. phase = "setup" /\ UNCHANGED <<slot, running, trusted>> /\ nvs.trial = 0 /\ nvs.staged = 0
    BY <1>4, ClassifiedStaged DEF BootValidation, flash, ghost
  <2>2. boot \in trusted /\ running = boot /\ todo = <<>>
    BY <2>1 DEF Supervision, OnTrial, Booting
  <2>3. nvs.failBuild = slot[boot]
    BY <1>4, <2>1, <2>2 DEF Confirms, DueForBoot, Due
  <2> QED BY <1>4, <2>1, <2>2, <2>3
<1> QED BY <1>1, <1>2, <1>3, <1>4 DEF Confirming

\* The bootloader, the core and a reset.
LEMMA ConfirmsReset ==
  /\ Undivided /\ RInv /\ RInv' /\ Confirms
  /\ Boot \/ Restart \/ \E c \in Causes : Reset(c)
  => DueForBoot' /\ NothingDue' /\ DueLast'
<1> SUFFICES ASSUME Undivided, TypeOK, Supervision, Identity, RInv', Confirms,
                    Boot \/ Restart \/ \E c \in Causes : Reset(c)
             PROVE  DueForBoot' /\ NothingDue' /\ DueLast'
  BY DEF RInv, IInv
<1>1. phase' # "run" /\ slot' = slot /\ nvs' = nvs
  <2>1. CASE Boot
    BY <2>1 DEF Boot, Bootloader, Resume, CoreInit, flash
  <2>2. CASE Restart \/ \E c \in Causes : Reset(c)
    BY <2>2 DEF Restart, Reset, PowerLoss, flash
  <2> QED BY <2>1, <2>2
<1>2. call' = "none"
  BY <1>1 DEF RInv, IInv, Supervision, Booting
<1>3. NothingDue' /\ DueLast'
  BY <1>1, <1>2 DEF NothingDue, DueLast
<1>4. SUFFICES ASSUME nvs.trial = 0, nvs.staged = 0, Due PROVE nvs.failBuild = slot[boot']
  BY <1>1, <1>3 DEF DueForBoot, Due
<1>5. boot \in trusted
  BY <1>4 DEF Supervision, OnTrial
<1>6. boot' = boot
  <2>1. CASE Bootloader
    BY <1>5, <2>1 DEF Bootloader, TypeOK, Supervision, Probation
  <2>2. CASE ~Bootloader
    BY <2>2 DEF Boot, Resume, CoreInit, Restart, Reset, PowerLoss, flash
  <2> QED BY <2>1, <2>2
<1>7. CASE todo # <<>> /\ call = "none"
  <2>1. phase = "run" /\ ~waiting /\ ~inTrial
    BY <1>7, Writing DEF StagingNow
  <2>2. running = boot
    BY <1>7, <2>1 DEF Supervision, Settled
  <2>3. ~HalfDropped
    <3>1. ~Boot /\ ~Restart
      BY <1>7, <2>1 DEF Boot, Bootloader, Resume, CoreInit, Restart
    <3> QED BY <3>1 DEF Reset, Undivided
  <2>4. nvs.confPend = 1
    BY <1>4, KeyTypes DEF TypeOK, Keys, Due
  <2> QED BY <1>4, <1>6, <1>7, <2>2, <2>3, <2>4 DEF HalfDropped, Due
<1>8. CASE ~(todo # <<>> /\ call = "none")
  BY <1>4, <1>6, <1>8 DEF Confirms, DueForBoot
<1> QED BY <1>7, <1>8

\* Calls that leave flash alone.
LEMMA ConfirmsCall ==
  /\ RInv /\ RInv' /\ Confirms
  /\ Validate \/ ConfirmRunning \/ ConfirmTimeout
  => DueForBoot' /\ NothingDue' /\ DueLast'
<1> SUFFICES ASSUME TypeOK, Supervision, Identity, RInv', Confirms,
                    Validate \/ ConfirmRunning \/ ConfirmTimeout
             PROVE  DueForBoot' /\ NothingDue' /\ DueLast'
  BY DEF RInv, IInv
<1>1. CASE SleptInTrial \/ EnterTrial \/ StartTrial \/ StartTrialFails
           \/ AcceptUnsupervised \/ ConfirmRunning \/ ConfirmTimeout
  <2>1. nvs.trial = 1 /\ nvs' = nvs
    <3>1. CASE SleptInTrial \/ EnterTrial
      BY <3>1, Classified DEF SleptInTrial, EnterTrial, Supervised, PerformRollback
    <3>2. CASE StartTrial \/ StartTrialFails \/ AcceptUnsupervised \/ ConfirmRunning
               \/ ConfirmTimeout
      BY <3>2 DEF StartTrial, StartTrialFails, AcceptUnsupervised, ConfirmRunning,
         ConfirmTimeout, PerformRollback, Ready, Supervision, InTrial, Starting
    <3> QED BY <1>1, <3>1, <3>2
  <2>2. DueForBoot'
    BY <2>1 DEF DueForBoot
  <2>3. CASE SleptInTrial \/ EnterTrial \/ StartTrial \/ StartTrialFails \/ ConfirmTimeout
    <3>1. call' \in {"start_trial", "restart"} \/ (call' = "none" /\ inTrial')
      BY <2>3 DEF SleptInTrial, EnterTrial, StartTrial, StartTrialFails, ConfirmTimeout,
         PerformRollback
    <3> QED BY <2>2, <3>1 DEF NothingDue, DueLast
  <2>4. CASE AcceptUnsupervised \/ ConfirmRunning
    <3>1. todo' = ConfirmedWrites /\ Ends(ConfirmedWrites) /\ call' = "none"
      BY <2>4, VerdictEnds DEF AcceptUnsupervised, ConfirmRunning, Ready, Reasons
    <3>2. Gives("confPend", 0)'
      BY <3>1, EndGives DEF Gives
    <3> QED BY <2>2, <3>1, <3>2 DEF NothingDue, DueLast
  <2> QED BY <1>1, <2>3, <2>4
<1>2. CASE BootValidation
  <2> DEFINE outcome == ClassifyBoot(Facts)
  <2>1. /\ phase = "setup" /\ todo' = ValidationWrites(outcome)
        /\ waiting' = (outcome = "waiting") /\ outcome \in Outcomes \ {"trial", "slept_in_trial"}
        /\ UNCHANGED <<slot, boot, nvs, call>>
    BY <1>2, Classified DEF BootValidation, flash
  <2>2. todo = <<>> /\ call' = "none"
    BY <2>1 DEF Supervision, Booting
  <2>3. DueForBoot'
    BY <2>1, <2>2 DEF Confirms, DueForBoot, Due
  <2> HIDE DEF outcome
  <2>4. CASE outcome = "waiting"
    BY <2>1, <2>2, <2>3, <2>4 DEF NothingDue, DueLast
  <2>5. CASE outcome = "none" /\ nvs.confPend = 0
    <3>1. todo' = <<>> /\ nvs'.confPend = 0
      BY <2>1, <2>5 DEF ValidationWrites
    <3>2. Gives("confPend", 0)'
      BY <3>1, NoWrites DEF Gives
    <3> QED BY <2>2, <2>3, <3>2 DEF NothingDue, DueLast
  <2>6. CASE outcome \notin {"waiting", "none"} \/ (outcome = "none" /\ nvs.confPend # 0)
    <3>1. 0 \in Reasons /\ ConfirmTimedOut \in Reasons /\ nvs.rbReason \in Reasons
          /\ RollbackReason(cause) \in Reasons
      BY ReasonTyped DEF Reasons
    <3>2. \E s : Ends(s) /\ (todo' = s \/ todo' = RestoreWrites \o s)
      BY <2>1, <2>6, <3>1, VerdictEnds, DropEnds DEF ValidationWrites, Outcomes
    <3>3. Gives("confPend", 0)'
      BY <3>2, EndGives, RestoreGives DEF Gives
    <3> QED BY <2>2, <2>3, <3>3 DEF NothingDue, DueLast
  <2> QED BY <2>4, <2>5, <2>6
<1> QED BY <1>1, <1>2 DEF Validate

\* check() and apply().
LEMMA ConfirmsApply ==
  /\ Recordable /\ RInv /\ RInv' /\ Confirms
  /\ Check \/ Apply \/ RebootForUpdate
  => DueForBoot' /\ NothingDue' /\ DueLast'
<1> SUFFICES ASSUME Recordable, TypeOK, Supervision, Identity, RInv', Confirms,
                    Check \/ Apply \/ RebootForUpdate
             PROVE  DueForBoot' /\ NothingDue' /\ DueLast'
  BY DEF RInv, IInv
<1>1. CASE Check \/ RebootForUpdate \/ Applied
  <2>1. UNCHANGED <<slot, boot, nvs, phase, running, waiting, inTrial>> /\ todo = <<>> /\ todo' = <<>>
        /\ call' \in {"none", "restart"} /\ (call' = "none" => call = "none" \/ waiting)
    BY <1>1 DEF Check, RebootForUpdate, Applied, Ready, flash, Supervision, Waiting
  <2>2. DueForBoot'
    BY <2>1 DEF Confirms, DueForBoot, Due
  <2>3. NothingDue'
    BY <2>1 DEF Confirms, NothingDue, Gives, StagingNow
  <2> QED BY <2>1, <2>2, <2>3 DEF DueLast
<1>2. CASE ApplyDownload \/ DownloadFails \/ DownloadOk
  <2>1. /\ UNCHANGED <<boot, nvs, phase, running, waiting, inTrial>> /\ todo = <<>>
        /\ slot'[boot] = slot[boot] /\ slot'[running] = slot[running]
        /\ call \in {"none", "download"} /\ ~inTrial
    <3>1. CASE ApplyDownload
      BY <3>1 DEF ApplyDownload, Ready, Supervision, Settled, TypeOK, Parts, Other
    <3>2. CASE DownloadFails \/ DownloadOk
      BY <3>2 DEF DownloadFails, DownloadOk, Supervision, Applying, flash
    <3> QED BY <1>2, <3>1, <3>2
  <2>2. call' # "applied" /\ (~StagingNow' => todo' = <<>>)
    BY <1>2, <2>1 DEF ApplyDownload, DownloadFails, DownloadOk, StagingNow, RollbackEnabled
  <2>3. DueForBoot'
    BY <2>1 DEF Confirms, DueForBoot, Due
  <2>4. NothingDue'
    BY <2>1, <2>2 DEF Confirms, NothingDue, Gives, StagingNow
  <2> QED BY <2>2, <2>3, <2>4 DEF DueLast
<1>3. CASE StageFails \/ UpdateEndFails
  <2>1. /\ UNCHANGED <<slot, boot, nvs, phase, running, waiting, inTrial>>
        /\ call = "switch" /\ call' = "none"
    BY <1>3 DEF StageFails, UpdateEndFails, flash
  <2>2. DueForBoot'
    BY <2>1 DEF Confirms, DueForBoot, Due
  <2>3. CASE RollbackEnabled
    <3>1. todo' = DropWrites \/ todo' = RestoreWrites \o DropWrites
      BY <1>3, <2>3 DEF StageFails, UpdateEndFails
    <3>2. Ends(DropWrites)
      BY DropEnds
    <3>3. Gives("confPend", 0)'
      BY <3>1, <3>2, EndGives, RestoreGives DEF Gives
    <3> QED BY <2>1, <2>2, <3>3 DEF NothingDue, DueLast
  <2>4. CASE ~RollbackEnabled
    <3>1. todo = <<>> /\ todo' = <<>>
      BY <1>3, <2>1, <2>4 DEF StageFails, UpdateEndFails, Supervision, Staging
    <3> QED BY <2>1, <2>2, <2>4, <3>1 DEF Confirms, NothingDue, DueLast, Gives, StagingNow
  <2> QED BY <2>3, <2>4
<1>4. CASE UpdateEnd
  <2>1. /\ call = "switch" /\ call' = "applied" /\ todo = <<>> /\ waiting' /\ nvs' = nvs
        /\ slot' = [slot EXCEPT ![Other(running)] = offer] /\ boot' = Other(running)
        /\ todo' = IF RollbackEnabled THEN << Remove("staged") >> ELSE UnsupervisedWrites
        /\ running' = running
    BY <1>4 DEF UpdateEnd
  <2>2. running = boot /\ ~waiting /\ ~inTrial /\ phase = "run" /\ offer \in Builds
        /\ running \in Parts
    BY <2>1 DEF Supervision, Applying, Booting, TypeOK
  <2>3. slot'[boot'] = offer /\ slot'[running] = slot[running]
    BY <2>1, <2>2 DEF TypeOK, Parts, Other
  <2>4. RollbackEnabled' = RollbackEnabled /\ NothingDue'
    BY <2>1, <2>3 DEF RollbackEnabled, NothingDue
  <2>5. CASE RollbackEnabled
    <3>1. nvs.trial = 1
      BY <2>1, <2>5 DEF Supervision, Staging
    <3> QED BY <2>1, <2>4, <2>5, <3>1 DEF DueForBoot, DueLast
  <2>6. CASE ~RollbackEnabled
    <3>1. nvs.confPend = 0
      BY <2>1, <2>2, <2>6, NoWrites DEF Confirms, NothingDue, StagingNow, Gives
    <3>2. offer \in Labelled
      BY <2>2, <2>6 DEF Recordable, RollbackEnabled
    <3>3. Range(todo') = {Put("build", offer), Put("hash", offer), Put("ver", offer),
                          Put("failDep", offer), Put("failBuild", offer), Put("confPend", 1)}
      BY <2>1, <2>6, <3>2, UnsupervisedRange
    <3>4. Gives("failBuild", slot[boot])'
      BY <2>3, <3>3 DEF Gives, Put
    <3> QED BY <2>1, <2>4, <2>6, <3>1, <3>4 DEF DueForBoot, DueLast, Due
  <2> QED BY <2>5, <2>6
<1> QED BY <1>1, <1>2, <1>3, <1>4 DEF Apply

LEMMA ConfirmsStep ==
  Undivided /\ Recordable /\ RInv /\ RInv' /\ Confirms /\ [Next]_vars => Confirms'
<1> SUFFICES ASSUME Undivided, Recordable, RInv, RInv', Confirms, [Next]_vars
             PROVE  Confirms'
  OBVIOUS
<1>1. Running'
  BY RunningStep
<1>2. DueForBoot' /\ NothingDue' /\ DueLast'
  <2>1. CASE UNCHANGED vars
    BY <2>1 DEF vars, flash, ram, Confirms, DueForBoot, Due, NothingDue, DueLast, Gives,
       StagingNow, RollbackEnabled
  <2> QED BY <2>1, ConfirmsWrite, ConfirmsReset, ConfirmsCall, ConfirmsApply DEF Next
<1> QED BY <1>1, <1>2 DEF Confirms

\* "confirmed" is queued by the updated image itself, once it is accepted.
THEOREM ConfirmsItself ==
  ASSUME Supervisable, Recordable, Undivided PROVE Spec => []ConfirmedIsRunning
<1>1. Init => Confirms
  BY NoWrites DEF Init, Confirms, DueForBoot, Due, NothingDue, DueLast, Running, Keys
<1>2. Confirms => ConfirmedIsRunning
  BY DEF Confirms, Running, ConfirmedIsRunning, Queuing
<1> QED BY <1>1, <1>2, ConfirmsStep, RecordInductive, PTL DEF Spec

-----------------------------------------------------------------------------
(***************************************************************************)
(* One verdict.  A report queued for the latest update leaves the record   *)
(* so that the other one cannot be: after "confirmed" the mark is on its   *)
(* way out, after "rolled_back" the boot slot is the one returned to.      *)
(***************************************************************************)

\* A report of the latest update is queued, or about to be.
Queued(event) ==
  \/ event \in attempt.verdicts
  \/ \E w \in Range(todo) : w.key = "outbox" /\ w.val.event = event

\* While an update is made there is none.
Unjudged ==
  call \in {"download", "switch", "applied"} => \A event \in {"confirmed", "rolled_back"} : ~Queued(event)

AfterConfirmed ==
  Queued("confirmed") => nvs.trial # 2 /\ (nvs.trial = 1 => Dropping)

AfterRolledBack ==
  Queued("rolled_back") =>
    /\ boot \in trusted
    /\ nvs.trial = 1 => boot = nvs.prevPart
    /\ nvs.failBuild # 0 => nvs.failBuild # slot[boot]

NotBoth == ~(Queued("confirmed") /\ Queued("rolled_back"))

\* The report context goes with the record.
ContextDrops == call = "none" => \A w \in Range(todo) : w.key = "failBuild" => w.val = 0

Judged == Unjudged /\ AfterConfirmed /\ AfterRolledBack /\ NotBoth /\ ContextDrops

\* Only staging marks a trial, and a record loses its mark first.
LEMMA TrialKept ==
  ASSUME TypeOK, Supervision, Identity, PutKey, ~StagingNow, nvs'.trial = 1
  PROVE  nvs.trial = 1 /\ nvs'.prevPart = nvs.prevPart
<1> DEFINE w == Head(todo)  k == w.key
<1>1. todo # <<>> /\ k # "outbox" /\ nvs' = [nvs EXCEPT ![k] = w.val]
  BY DEF PutKey
<1>2. /\ w \in Range(todo)
      /\ \A v \in Range(todo) : v = w \/ v \in Range(Tail(todo))
      /\ \A v \in Range(Tail(todo)) : Rank(w) <= Rank(v)
  BY <1>1, PopHead, RankedPop DEF TypeOK, Identity, InProgress, Planned
<1>3. \A j \in Keys : nvs'[j] = IF j = k THEN w.val ELSE nvs[j]
  BY <1>1 DEF TypeOK
<1>4. /\ \/ call = "none" /\ ~waiting /\ ~inTrial
         \/ call = "restart"
         \/ call = "start_trial" /\ \A v \in Range(todo) : v.key = "staged"
         \/ call = "applied" /\ RollbackEnabled /\ \A v \in Range(todo) : v.key = "staged"
         \/ call = "applied" /\ ~RollbackEnabled
      /\ phase = "run"
  BY <1>1, Writing
<1> HIDE DEF w
<1>5. k # "trial" /\ nvs.trial = 1
  <2>1. k = "trial" => w.val # 1
    BY <1>2, <1>4 DEF Supervision, PendingMarks
  <2> QED BY <1>3, <2>1 DEF Keys
<1>6. k # "prevPart"
  <2> SUFFICES ASSUME k = "prevPart" PROVE FALSE
    OBVIOUS
  <2>1. call = "none" /\ ~waiting /\ ~inTrial
    BY <1>2, <1>4, <1>5 DEF Identity, InProgress, Planned, Unstaging, IdKeys
  <2>2. Remove("trial") \in Range(todo)
    BY <1>4, <1>5, <2>1 DEF Supervision, Settled
  <2>3. Rank(Remove("trial")) = 1 /\ Rank(w) = 3 /\ Remove("trial") # w
    BY <1>5 DEF Rank, IdKeys, Remove, Put
  <2> QED BY <1>2, <2>2, <2>3
<1> QED BY <1>3, <1>5, <1>6 DEF Keys

\* A call that returns with writes pending is ending a record.
LEMMA CallEnds ==
  ASSUME TypeOK, Supervision, [Next]_vars, call' = "none"
  PROVE  \/ todo' = <<>> \/ Write \/ UNCHANGED vars
         \/ \E s : Ends(s) /\ (todo' = s \/ todo' = RestoreWrites \o s)
<1>1. 0 \in Reasons /\ ConfirmTimedOut \in Reasons /\ nvs.rbReason \in Reasons
      /\ RollbackReason(cause) \in Reasons
  BY ReasonTyped DEF Reasons
<1>2. CASE Boot \/ Check \/ RebootForUpdate \/ Applied \/ ApplyDownload \/ DownloadFails
           \/ StartTrial
  <2>1. CASE Boot
    BY <2>1 DEF Boot, Bootloader, Resume, CoreInit, Supervision, Booting
  <2>2. CASE ~Boot
    BY <1>2, <2>2 DEF Check, RebootForUpdate, Applied, ApplyDownload, DownloadFails,
       StartTrial, Ready, Supervision, Applying
  <2> QED BY <2>1, <2>2
<1>3. CASE Restart \/ \E c \in Causes : Reset(c)
  BY <1>3 DEF Restart, Reset, PowerLoss
<1>4. CASE BootValidation
  BY <1>1, <1>4, VerdictEnds, DropEnds DEF BootValidation, ValidationWrites
<1>5. CASE AcceptUnsupervised \/ ConfirmRunning
  BY <1>1, <1>5, VerdictEnds DEF AcceptUnsupervised, ConfirmRunning
<1>6. CASE StageFails \/ UpdateEndFails
  BY <1>6, DropEnds DEF StageFails, UpdateEndFails
<1>7. CASE SleptInTrial \/ StartTrialFails \/ ConfirmTimeout \/ EnterTrial \/ DownloadOk
           \/ UpdateEnd
  BY <1>7 DEF SleptInTrial, StartTrialFails, ConfirmTimeout, PerformRollback, EnterTrial,
     DownloadOk, UpdateEnd
<1> QED BY <1>2, <1>3, <1>4, <1>5, <1>6, <1>7 DEF Next, Validate, Apply

LEMMA ContextStep == RInv /\ ContextDrops /\ [Next]_vars => ContextDrops'
<1> SUFFICES ASSUME TypeOK, Supervision, ContextDrops, [Next]_vars, call' = "none",
                    NEW w \in Range(todo'), w.key = "failBuild"
             PROVE  w.val = 0
  BY DEF RInv, IInv, ContextDrops
<1>1. CASE todo' = <<>>
  BY <1>1, NoWrites
<1>2. CASE Write
  <2>1. call' = call /\ todo # <<>> /\ todo' = Tail(todo)
    BY <1>2 DEF Write, PutKey, QueueReport
  <2> QED BY <2>1, PopHead DEF ContextDrops, TypeOK
<1>3. CASE UNCHANGED vars
  BY <1>3 DEF vars, ram, ContextDrops
<1>4. ASSUME NEW s, Ends(s), todo' = s \/ todo' = RestoreWrites \o s
      PROVE  w.val = 0
  <2>1. \A u \in Range(s) \cup Restores : u.key = "failBuild" => u.val = 0
    BY <1>4 DEF Ends, Restores, Put
  <2>2. Range(RestoreWrites \o s) = Restores \cup Range(s)
    BY <1>4, RestoreFirst DEF Ends
  <2> QED BY <1>4, <2>1, <2>2
<1> QED BY <1>1, <1>2, <1>3, <1>4, CallEnds

\* A verdict is there already, or one of the calls that judge queues it.
LEMMA Judges ==
  ASSUME TypeOK, Supervision, [Next]_vars, Planned',
         NEW event \in {"confirmed", "rolled_back"}, Queued(event)'
  PROVE  \/ Queued(event) /\ ~ApplyDownload
         \/ /\ nvs.failDep # 0 /\ nvs.failBuild # 0
            /\ \/ event = "confirmed" /\ Confirming
               \/ event = "rolled_back" /\ Reporting
<1>1. CASE event \in attempt'.verdicts
  <2>1. CASE QueueReport
    <3>1. event \in attempt.verdicts \/ event = Head(todo).val.event
      BY <1>1, <2>1 DEF QueueReport, TypeOK
    <3>2. Head(todo) \in Range(todo) /\ Head(todo).key = "outbox"
      BY <2>1, PopHead DEF QueueReport, TypeOK
    <3>3. ~ApplyDownload
      BY <2>1 DEF QueueReport, ApplyDownload, Ready
    <3> QED BY <3>1, <3>2, <3>3 DEF Queued
  <2>2. CASE ApplyDownload
    BY <1>1, <2>2 DEF ApplyDownload
  <2>3. CASE ~QueueReport /\ ~ApplyDownload
    <3>1. attempt'.verdicts = attempt.verdicts
      <4>1. CASE Bootloader
        BY <4>1 DEF Bootloader, TypeOK
      <4>2. CASE ~Bootloader
        BY <2>3, <4>2
           DEF Next, vars, flash, ram, ghost, Write, PutKey, Boot, Resume, CoreInit, Validate,
               BootValidation, SleptInTrial, EnterTrial, StartTrial, StartTrialFails,
               AcceptUnsupervised, PerformRollback, ConfirmRunning, ConfirmTimeout, Check,
               Apply, DownloadFails, DownloadOk, StageFails, UpdateEnd, UpdateEndFails,
               Applied, RebootForUpdate, Restart, Reset, PowerLoss
      <4> QED BY <4>1, <4>2
    <3> QED BY <1>1, <2>3, <3>1 DEF Queued
  <2> QED BY <2>1, <2>2, <2>3
<1>2. CASE event \notin attempt'.verdicts
  <2>1. PICK w \in Range(todo') : w.key = "outbox" /\ w.val.event = event
    BY <1>2 DEF Queued
  <2>2. CASE ApplyDownload
    BY <2>1, <2>2, NoWrites DEF ApplyDownload, Ready
  <2> QED BY <2>1, <2>2, Queues DEF Queued
<1> QED BY <1>1, <1>2

LEMMA UnjudgedStep == RInv /\ RInv' /\ Unjudged /\ [Next]_vars => Unjudged'
<1> SUFFICES ASSUME TypeOK, Supervision, Planned', Unjudged, [Next]_vars,
                    call' \in {"download", "switch", "applied"},
                    NEW event \in {"confirmed", "rolled_back"}, Queued(event)'
             PROVE  FALSE
  BY DEF RInv, IInv, Identity, InProgress, Unjudged
<1>1. call \in {"download", "switch", "applied"} \/ ApplyDownload
  BY DEF Next, vars, flash, ram, ghost, Write, PutKey, QueueReport, Boot, Bootloader, Resume,
     CoreInit, Validate, BootValidation, SleptInTrial, EnterTrial, StartTrial, StartTrialFails,
     AcceptUnsupervised, PerformRollback, ConfirmRunning, ConfirmTimeout, Check, Apply,
     DownloadFails, DownloadOk, StageFails, UpdateEnd, UpdateEndFails, Applied,
     RebootForUpdate, Restart, Reset, PowerLoss
<1>2. Confirming \/ Reporting => call' \notin {"download", "switch", "applied"}
  BY DEF Confirming, Reporting, AcceptUnsupervised, ConfirmRunning, BootValidation, Ready,
     Supervision, Booting
<1> QED BY <1>1, <1>2, Judges DEF Unjudged

\* Who accepts the running image tries it.
LEMMA Accepting ==
  RInv /\ (AcceptUnsupervised \/ ConfirmRunning) =>
    nvs.trial = 1 /\ running = boot /\ running # nvs.prevPart /\ phase = "run" /\ ~waiting
    /\ ~Dropping
<1> SUFFICES ASSUME RInv, AcceptUnsupervised \/ ConfirmRunning
             PROVE  nvs.trial = 1 /\ running = boot /\ running # nvs.prevPart /\ phase = "run"
                    /\ ~waiting /\ ~Dropping
  OBVIOUS
<1>1. call = "start_trial" \/ (inTrial /\ call = "none")
  BY DEF AcceptUnsupervised, ConfirmRunning, Ready
<1>2. nvs.trial = 1 /\ running = boot /\ ~waiting
  BY <1>1 DEF RInv, IInv, Supervision, Starting, InTrial
<1>3. running # nvs.prevPart
  BY <1>1 DEF RInv, Identity, InProgress, Trying
<1>4. phase = "run"
  BY <1>1 DEF RInv, IInv, TypeOK, Supervision, Booting
<1> QED BY <1>1, <1>2, <1>3, <1>4 DEF Dropping

LEMMA AfterConfirmedStep ==
  Dropped /\ RInv /\ RInv' /\ Judged /\ [Next]_vars => AfterConfirmed'
<1> SUFFICES ASSUME Dropped, RInv, RInv', Judged, [Next]_vars, Queued("confirmed")'
             PROVE  nvs'.trial # 2 /\ (nvs'.trial = 1 => Dropping')
  BY DEF AfterConfirmed
<1> USE DEF flash, ghost, ram
<1>1. (Queued("confirmed") /\ ~ApplyDownload) \/ Confirming
  BY Judges DEF RInv, IInv, Identity, InProgress
<1>2. CASE AcceptUnsupervised \/ ConfirmRunning
  <2>1. /\ nvs' = nvs /\ call' = "none" /\ running \in trusted'
        /\ UNCHANGED <<phase, waiting, running>>
    BY <1>2 DEF AcceptUnsupervised, ConfirmRunning, Ready
  <2>2. ~inTrial'
    BY <1>2 DEF AcceptUnsupervised, ConfirmRunning, RInv, IInv, Supervision, Starting
  <2> QED BY <1>2, <2>1, <2>2, Accepting DEF Dropping
<1>3. CASE BootValidation /\ ClassifyBoot(Facts) = "none"
  <2>1. nvs' = nvs /\ nvs.trial = 0
    BY <1>3, ClassifiedStaged DEF BootValidation, RInv, IInv
  <2> QED BY <2>1
<1>4. CASE Queued("confirmed") /\ ~ApplyDownload
  <2>1. /\ nvs.trial # 2 /\ (nvs.trial = 1 => Dropping)
        /\ call \notin {"download", "switch", "applied"}
    BY <1>4 DEF Judged, AfterConfirmed, Unjudged
  <2>2. nvs.trial = 1 => todo # <<>>
    BY <2>1, DroppingWrites DEF RInv
  <2>3. CASE PutKey
    <3>1. ~StagingNow
      BY <2>1 DEF StagingNow
    <3>2. UNCHANGED <<phase, call, waiting, inTrial, running, trusted>>
      BY <2>3 DEF PutKey
    <3>3. nvs'.trial # 2
      <4> DEFINE w == Head(todo)
      <4>1. todo # <<>> /\ w.key # "outbox" /\ nvs' = [nvs EXCEPT ![w.key] = w.val]
            /\ w \in Range(todo)
        BY <2>3, PopHead DEF PutKey, RInv, IInv, TypeOK
      <4> HIDE DEF w
      <4>2. nvs'.trial = IF w.key = "trial" THEN w.val ELSE nvs.trial
        BY <4>1 DEF RInv, IInv, TypeOK, Keys
      <4>3. w.key = "trial" /\ w.val = 2 => call = "restart"
        BY <4>1 DEF RInv, IInv, Supervision, PendingMarks
      <4>4. call = "restart" => nvs.trial # 0 /\ ~Dropping
        BY <4>1 DEF RInv, Identity, InProgress, Restoring, Dropping
      <4>5. nvs.trial \in 0..2
        BY KeyTypes DEF RInv, IInv, TypeOK, Keys
      <4> QED BY <2>1, <4>2, <4>3, <4>4, <4>5
    <3>4. nvs'.trial = 1 => Dropping'
      BY <2>1, <2>3, <3>1, <3>2, TrialKept DEF RInv, IInv, Dropping
    <3> QED BY <3>3, <3>4
  <2>4. CASE QueueReport \/ Check \/ UNCHANGED vars
    BY <2>1, <2>4 DEF QueueReport, Check, vars, Dropping
  <2>5. CASE Boot \/ BootValidation
    BY <2>1, <2>5 DEF Boot, Bootloader, Resume, CoreInit, BootValidation, Dropping
  <2>6. CASE SleptInTrial \/ EnterTrial
    BY <2>1, <2>6, Classified DEF SleptInTrial, EnterTrial, Supervised, Dropping, RInv, IInv
  <2>7. CASE StartTrial \/ StartTrialFails \/ AcceptUnsupervised \/ ConfirmRunning
             \/ ConfirmTimeout
    BY <2>1, <2>7 DEF StartTrial, StartTrialFails, AcceptUnsupervised, ConfirmRunning,
       ConfirmTimeout, Ready, RInv, IInv, Supervision, Starting, InTrial, Dropping
  <2>8. CASE Apply
    BY <1>4, <2>1, <2>8 DEF Apply, DownloadFails, DownloadOk, StageFails, UpdateEnd,
       UpdateEndFails, Applied
  <2>9. CASE RebootForUpdate
    BY <2>1, <2>2, <2>9 DEF RebootForUpdate, Ready
  <2>10. CASE Restart
    BY <2>1, <2>10 DEF Restart, PowerLoss, Dropping
  <2>11. ASSUME NEW c \in Causes, Reset(c) PROVE nvs'.trial # 2 /\ nvs'.trial # 1
    BY <2>1, <2>2, <2>11 DEF Reset, PowerLoss, AcceptedOnRecord, Dropped, Dropping
  <2> QED BY <2>3, <2>4, <2>5, <2>6, <2>7, <2>8, <2>9, <2>10, <2>11 DEF Next, Write, Validate
<1> QED BY <1>1, <1>2, <1>3, <1>4 DEF Confirming

LEMMA AfterRolledBackStep ==
  RInv /\ RInv' /\ Judged /\ [Next]_vars => AfterRolledBack'
<1> SUFFICES ASSUME RInv, RInv', Judged, [Next]_vars, Queued("rolled_back")'
             PROVE  /\ boot' \in trusted'
                    /\ nvs'.trial = 1 => boot' = nvs'.prevPart
                    /\ nvs'.failBuild # 0 => nvs'.failBuild # slot'[boot']
  BY DEF AfterRolledBack
<1> USE DEF flash, ghost, ram
<1>1. (Queued("rolled_back") /\ ~ApplyDownload) \/ Reporting
  BY Judges DEF RInv, IInv, Identity, InProgress
<1>2. CASE Reporting
  <2>1. phase = "setup" /\ UNCHANGED <<slot, boot, nvs, trusted>>
    BY <1>2 DEF Reporting, BootValidation
  <2>2. CASE ClassifyBoot(Facts) = "report_pending"
    <3>1. nvs.trial = 2
      BY <2>2, ClassifiedStaged DEF RInv, IInv
    <3> QED BY <2>1, <3>1 DEF RInv, IInv, Supervision, OnTrial, Identity, InFlash, Returned
  <2>3. CASE ClassifyBoot(Facts) = "rolled_back"
    <3>1. nvs.trial = 1 /\ running = nvs.prevPart
          /\ ~(cause = RstDeepSleep /\ boot # running)
      BY <2>3, Classified, ClassifiedStaged DEF RInv, IInv
    <3>2. running = boot
      BY <2>1, <3>1 DEF RInv, IInv, Supervision, Booting
    <3>3. boot \in trusted
      BY <3>1, <3>2 DEF RInv, IInv, TypeOK, Supervision, OnTrial, Other, Parts
    <3> QED BY <2>1, <3>1, <3>2, <3>3 DEF RInv, Identity, InFlash, Recorded
  <2> QED BY <1>2, <2>2, <2>3 DEF Reporting
<1>3. CASE Queued("rolled_back") /\ ~ApplyDownload
  <2>1. /\ boot \in trusted
        /\ nvs.trial = 1 => boot = nvs.prevPart
        /\ nvs.failBuild # 0 => nvs.failBuild # slot[boot]
        /\ call \notin {"download", "switch", "applied"}
    BY <1>3 DEF Judged, AfterRolledBack, Unjudged
  <2>2. CASE PutKey
    <3>1. ~StagingNow
      BY <2>1 DEF StagingNow
    <3>2. UNCHANGED <<slot, boot, trusted>>
      BY <2>2 DEF PutKey
    <3>3. nvs'.trial = 1 => nvs.trial = 1 /\ nvs'.prevPart = nvs.prevPart
      BY <2>2, <3>1, TrialKept DEF RInv, IInv
    <3>4. nvs'.failBuild = 0 \/ nvs'.failBuild = nvs.failBuild
      <4> DEFINE w == Head(todo)
      <4>1. todo # <<>> /\ w.key # "outbox" /\ nvs' = [nvs EXCEPT ![w.key] = w.val]
            /\ w \in Range(todo)
        BY <2>2, PopHead DEF PutKey, RInv, IInv, TypeOK
      <4> HIDE DEF w
      <4>2. nvs'.failBuild = IF w.key = "failBuild" THEN w.val ELSE nvs.failBuild
        BY <4>1 DEF RInv, IInv, TypeOK, Keys
      <4>3. \/ call = "none"
            \/ call = "restart"
            \/ call = "start_trial" /\ w.key = "staged"
        BY <2>1, <3>1, <4>1, Writing DEF RInv, IInv
      <4>4. w.key = "failBuild" => w.val = 0
        BY <4>1, <4>3 DEF Judged, ContextDrops, RInv, Identity, InProgress, Planned, IdKeys
      <4> QED BY <4>2, <4>4
    <3> QED BY <2>1, <3>2, <3>3, <3>4
  <2>3. CASE QueueReport \/ Check \/ UNCHANGED vars \/ Resume \/ CoreInit \/ BootValidation
             \/ EnterTrial \/ StartTrial \/ AcceptUnsupervised \/ ConfirmRunning
             \/ RebootForUpdate \/ Restart \/ \E c \in Causes : Reset(c)
    <3>1. slot' = slot /\ boot' = boot /\ nvs' = nvs /\ trusted \subseteq trusted'
      BY <2>3 DEF QueueReport, Check, vars, Resume, CoreInit, BootValidation, EnterTrial,
         StartTrial, AcceptUnsupervised, ConfirmRunning, RebootForUpdate, Restart, Reset,
         PowerLoss
    <3> QED BY <2>1, <3>1
  <2>4. CASE Bootloader
    <3>1. boot' = boot /\ UNCHANGED <<slot, nvs, trusted>>
      BY <2>1, <2>4 DEF Bootloader, RInv, IInv, TypeOK, Supervision, Probation
    <3> QED BY <2>1, <3>1
\* No image is given up that is not on trial.
  <2>5. CASE SleptInTrial
    <3>1. nvs.trial = 1 /\ running # nvs.prevPart /\ phase = "setup"
      BY <2>5, Classified DEF SleptInTrial, RInv, IInv
    <3> QED BY <2>1, <3>1 DEF RInv, IInv, Supervision, Booting
  <2>6. CASE StartTrialFails \/ ConfirmTimeout
    <3>1. call = "start_trial" \/ (inTrial /\ call = "none")
      BY <2>6 DEF StartTrialFails, ConfirmTimeout, Ready
    <3>2. nvs.trial = 1 /\ running = boot /\ running # nvs.prevPart
      BY <3>1 DEF RInv, IInv, Supervision, Starting, InTrial, Identity, InProgress, Trying
    <3> QED BY <2>1, <3>2
  <2>7. CASE Apply
    BY <1>3, <2>1, <2>7 DEF Apply, DownloadFails, DownloadOk, StageFails, UpdateEnd,
       UpdateEndFails, Applied
  <2> QED BY <2>2, <2>3, <2>4, <2>5, <2>6, <2>7 DEF Next, Write, Boot, Validate
<1> QED BY <1>1, <1>2, <1>3

LEMMA NotBothStep ==
  RInv /\ RInv' /\ Confirms /\ Judged /\ [Next]_vars => NotBoth'
<1> SUFFICES ASSUME RInv, RInv', Confirms, Judged, [Next]_vars,
                    Queued("confirmed")', Queued("rolled_back")'
             PROVE  FALSE
  BY DEF NotBoth
<1>1. \/ Queued("confirmed")
      \/ Confirming /\ nvs.failDep # 0 /\ nvs.failBuild # 0
  BY Judges DEF RInv, IInv, Identity, InProgress
<1>2. Queued("rolled_back") \/ Reporting
  BY Judges DEF RInv, IInv, Identity, InProgress
<1>3. CASE Queued("confirmed") /\ Queued("rolled_back")
  BY <1>3 DEF Judged, NotBoth
<1>4. CASE Queued("confirmed") /\ Reporting
  <2>1. phase = "setup" /\ nvs.trial \in {1, 2}
    BY <1>4, ClassifiedStaged DEF Reporting, BootValidation, RInv, IInv
  <2> QED BY <1>4, <2>1 DEF Judged, AfterConfirmed, Dropping
<1>5. CASE Confirming /\ Queued("rolled_back") /\ nvs.failDep # 0 /\ nvs.failBuild # 0
  <2>1. nvs.trial = 1 => boot = nvs.prevPart
    BY <1>5 DEF Judged, AfterRolledBack
  <2>2. nvs.failBuild # slot[boot]
    BY <1>5 DEF Judged, AfterRolledBack
  <2>3. ~(AcceptUnsupervised \/ ConfirmRunning)
    BY <2>1, Accepting
  <2>4. /\ phase = "setup" /\ nvs.trial = 0 /\ nvs.staged = 0 /\ nvs.confPend # 0
    BY <1>5, <2>3, ClassifiedStaged DEF Confirming, BootValidation, RInv, IInv
  <2>5. todo = <<>>
    BY <2>4 DEF RInv, IInv, Supervision, Booting
  <2> QED BY <1>5, <2>2, <2>4, <2>5 DEF Confirms, DueForBoot, Due
<1>6. CASE Confirming /\ Reporting
  <2>1. phase = "setup"
    BY <1>6 DEF Reporting, BootValidation
  <2>2. ~(AcceptUnsupervised \/ ConfirmRunning)
    BY <2>1, Accepting
  <2> QED BY <1>6, <2>2 DEF Confirming, Reporting
<1> QED BY <1>1, <1>2, <1>3, <1>4, <1>5, <1>6

LEMMA JudgedStep ==
  Dropped /\ RInv /\ RInv' /\ Confirms /\ Judged /\ [Next]_vars => Judged'
BY UnjudgedStep, AfterConfirmedStep, AfterRolledBackStep, NotBothStep, ContextStep DEF Judged

\* No update is reported both confirmed and rolled back.
THEOREM JudgesOnce ==
  ASSUME Supervisable, Recordable, Undivided, Dropped PROVE Spec => []OneVerdict
<1>1. Init => Confirms
  BY NoWrites DEF Init, Confirms, DueForBoot, Due, NothingDue, DueLast, Running, Keys
<1>2. Init => Judged
  BY NoWrites DEF Init, Judged, Unjudged, AfterConfirmed, AfterRolledBack, NotBoth,
     ContextDrops, Queued
<1>3. RInv /\ Judged => OneVerdict
  <2> SUFFICES ASSUME RInv, Judged PROVE OneVerdict
    OBVIOUS
  <2>1. attempt.verdicts \in SUBSET {"confirmed", "rolled_back"}
    BY DEF RInv, IInv, TypeOK
  <2>2. ~("confirmed" \in attempt.verdicts /\ "rolled_back" \in attempt.verdicts)
    BY DEF Judged, NotBoth, Queued
  <2>3. attempt.verdicts = {} \/ \E event : attempt.verdicts = {event}
    BY <2>1, <2>2
  <2> QED BY <2>3, FS_EmptySet, FS_Singleton DEF OneVerdict
<1> QED BY <1>1, <1>2, <1>3, ConfirmsStep, JudgedStep, RecordInductive, PTL DEF Spec

-----------------------------------------------------------------------------
(***************************************************************************)
(* A record that boot validation drops without a report is of an update    *)
(* that never ran: sota_staged is cleared before an image is tried.        *)
(***************************************************************************)

\* An update being made has not run.
NotYetRun == call \in {"download", "switch", "applied"} => ~attempt.ran

\* One that ran runs with its snapshot still there only where no reset can
\* strike: while boot validation is about to clear it.
RanUnstaged ==
  attempt.ran /\ nvs.staged # 0 =>
    phase # "off" /\ running \notin trusted /\ call # "restart"

\* No deep sleep comes before the snapshot is cleared.
NoSleepStaged ==
  phase # "run" /\ boot \notin trusted /\ nvs.staged # 0 => cause # RstDeepSleep
SnapshotGoes == phase = "run" /\ ~StagingNow /\ call # "restart" => Gives("staged", 0)

Unran == NotYetRun /\ RanUnstaged /\ NoSleepStaged /\ SnapshotGoes

\* No reset strikes a new image before it clears the sota_staged that a power cut left.
Cleared == "unstage_cut" \notin Faults

\* With no write pending the snapshot is gone.
LEMMA NoSnapshot ==
  RInv /\ SnapshotGoes /\ phase = "run" /\ todo = <<>> /\ call \notin {"restart", "switch"}
    => nvs.staged = 0
BY NoWrites DEF SnapshotGoes, StagingNow, Gives

LEMMA NotYetRunStep == RInv /\ NotYetRun /\ [Next]_vars => NotYetRun'
<1> SUFFICES ASSUME RInv, NotYetRun, [Next]_vars, call' \in {"download", "switch", "applied"}
             PROVE  ~attempt'.ran
  BY DEF NotYetRun
<1>1. CASE ApplyDownload
  BY <1>1 DEF ApplyDownload
<1>2. CASE QueueReport
  BY <1>2 DEF QueueReport, NotYetRun, RInv, IInv, TypeOK
<1>3. CASE ~ApplyDownload /\ ~QueueReport
  BY <1>3 DEF NotYetRun, RInv, IInv, Supervision, Booting, Next, vars, flash, ram, ghost,
     Write, PutKey, Boot, Bootloader, Resume, CoreInit, Validate, BootValidation, SleptInTrial,
     EnterTrial, StartTrial, StartTrialFails, AcceptUnsupervised, PerformRollback,
     ConfirmRunning, ConfirmTimeout, Check, Apply, DownloadFails, DownloadOk, StageFails,
     UpdateEnd, UpdateEndFails, Applied, RebootForUpdate, Restart, Reset, PowerLoss
<1> QED BY <1>1, <1>2, <1>3

LEMMA SnapshotGoesStep ==
  RInv /\ RInv' /\ Unran /\ [Next]_vars => SnapshotGoes'
<1> SUFFICES ASSUME RInv, RInv', Unran, [Next]_vars, phase' = "run", ~StagingNow',
                    call' # "restart"
             PROVE  Gives("staged", 0)'
  BY DEF SnapshotGoes
<1>1. CASE ~waiting'
  BY <1>1 DEF RInv, Identity, InProgress, Unstaging
<1>2. CASE waiting' /\ BootValidation
\* The update waits through the boot of a deep sleep.
  <2>1. /\ phase = "setup" /\ nvs.trial = 1 /\ running = nvs.prevPart /\ boot # running
        /\ cause = RstDeepSleep /\ todo' = <<>> /\ nvs' = nvs
    BY <1>2, Classified DEF BootValidation, ValidationWrites, RInv, IInv
  <2>2. nvs.staged = 0
    BY <2>1 DEF RInv, IInv, Supervision, Booting, Unran, NoSleepStaged
  <2> QED BY <2>1, <2>2, NoWrites DEF Gives
<1>3. CASE waiting' /\ UpdateEnd
  <2>1. todo' = << Remove("staged") >> \/ (call' = "applied" /\ ~RollbackEnabled')
    BY <1>3 DEF UpdateEnd, RollbackEnabled, RInv, IInv, TypeOK, Supervision, Applying, Parts,
       Other
  <2>2. CASE todo' = << Remove("staged") >>
    <3>1. Range(<< Remove("staged") >>) = {Put("staged", 0)}
      BY DEF Range, Remove
    <3> QED BY <2>2, <3>1 DEF Gives, Put
  <2>3. CASE call' = "applied" /\ ~RollbackEnabled'
    <3>1. nvs'.staged = 0 /\ \A w \in Range(todo') : w.key # "staged"
      BY <2>3 DEF RInv, Identity, InProgress, Unstaging, Planned, IdKeys
    <3> QED BY <3>1 DEF Gives
  <2> QED BY <2>1, <2>2, <2>3
<1>4. CASE waiting' /\ ~BootValidation /\ ~UpdateEnd
  <2>1. waiting /\ phase = "run"
    BY <1>4 DEF RInv, IInv, Supervision, Booting, Next, vars, flash, ram, ghost,
     Write, PutKey, QueueReport, Boot, Bootloader, Resume, CoreInit, Validate, SleptInTrial,
     EnterTrial, StartTrial, StartTrialFails, AcceptUnsupervised, PerformRollback,
     ConfirmRunning, ConfirmTimeout, Check, Apply, ApplyDownload, DownloadFails, DownloadOk,
     StageFails, UpdateEndFails, Applied, RebootForUpdate, Restart, Reset, PowerLoss
  <2>2. call \in {"none", "applied", "restart"} /\ ~(inTrial /\ call # "restart")
    BY <2>1 DEF RInv, IInv, TypeOK, Supervision, Applying, Starting, InTrial
  <2>3. CASE Write
    <3>1. /\ todo # <<>> /\ todo' = Tail(todo) /\ call' = call
          /\ IF Head(todo).key = "outbox" THEN nvs' = nvs
             ELSE nvs' = [nvs EXCEPT ![Head(todo).key] = Head(todo).val]
      BY <2>3 DEF Write, PutKey, QueueReport
    <3>2. Gives("staged", 0)
      BY <2>1, <2>2, <3>1 DEF Unran, SnapshotGoes, StagingNow
    <3>3. /\ nvs'["staged"] = 0 \/ Put("staged", 0) \in Range(todo')
          /\ \A w \in Range(todo') : w.key = "staged" => w.val = 0
      BY <3>1, <3>2, GivesPop DEF RInv, IInv, Keys
    <3> QED BY <3>3 DEF Gives
  <2>4. CASE Check \/ Applied \/ UNCHANGED vars
    <3>1. nvs' = nvs /\ todo' = todo /\ call \in {"none", "applied"}
      BY <2>2, <2>4 DEF Check, Applied, Ready, vars, flash, ram
    <3>2. Gives("staged", 0)
      BY <2>1, <3>1 DEF Unran, SnapshotGoes, StagingNow
    <3> QED BY <3>1, <3>2 DEF Gives
  <2>5. CASE ~Write /\ ~Check /\ ~Applied /\ ~UNCHANGED vars
    BY <1>4, <2>1, <2>2, <2>5
       DEF Next, Boot, Bootloader, Resume, CoreInit, Validate, SleptInTrial, EnterTrial,
           StartTrial, StartTrialFails, AcceptUnsupervised, ConfirmRunning, ConfirmTimeout,
           Apply, ApplyDownload, DownloadFails, DownloadOk, StageFails, UpdateEndFails,
           RebootForUpdate, Restart, Reset, PowerLoss, Ready
  <2> QED BY <2>3, <2>4, <2>5
<1> QED BY <1>1, <1>2, <1>3, <1>4

LEMMA RanUnstagedStep ==
  Cleared /\ RInv /\ Unran /\ [Next]_vars => RanUnstaged'
<1> SUFFICES ASSUME Cleared, RInv, Unran, [Next]_vars, attempt'.ran, nvs'.staged # 0
             PROVE  phase' # "off" /\ running' \notin trusted' /\ call' # "restart"
  BY DEF RanUnstaged
<1> USE DEF flash, ghost, ram
<1>1. CASE PutKey
  <2> DEFINE w == Head(todo)
  <2>1. /\ todo # <<>> /\ w.key # "outbox" /\ nvs' = [nvs EXCEPT ![w.key] = w.val]
        /\ w \in Range(todo) /\ UNCHANGED <<phase, running, trusted, call, attempt>>
    BY <1>1, PopHead DEF PutKey, RInv, IInv, TypeOK
  <2> HIDE DEF w
  <2>2. nvs'.staged = IF w.key = "staged" THEN w.val ELSE nvs.staged
    BY <2>1 DEF RInv, IInv, TypeOK, Keys
  <2>3. ~StagingNow
    BY <2>1 DEF Unran, NotYetRun, StagingNow
  <2>4. nvs.staged # 0
    BY <2>1, <2>2, <2>3 DEF RInv, Identity, InProgress, Planned
  <2> QED BY <2>1, <2>4 DEF Unran, RanUnstaged
<1>2. CASE QueueReport
  <2>1. attempt'.ran = attempt.ran
    BY <1>2 DEF QueueReport, RInv, IInv, TypeOK
  <2> QED BY <1>2, <2>1 DEF QueueReport, Unran, RanUnstaged
<1>3. CASE Check \/ UNCHANGED vars \/ CoreInit \/ BootValidation \/ EnterTrial
  <2>1. /\ UNCHANGED <<nvs, running, trusted, attempt>>
        /\ phase # "off" => phase' # "off"
        /\ call' = call \/ call' = "start_trial"
    BY <1>3 DEF Check, vars, CoreInit, BootValidation, EnterTrial
  <2> QED BY <2>1 DEF Unran, RanUnstaged
<1>4. CASE Bootloader
  <2>1. phase = "off" /\ phase' = "boot" /\ call' = call /\ nvs' = nvs /\ trusted' = trusted
        /\ attempt' = [attempt EXCEPT !.ran = @ \/ running' \notin trusted]
    BY <1>4 DEF Bootloader
  <2>2. ~attempt.ran /\ call = "none"
    BY <2>1 DEF Unran, RanUnstaged, RInv, IInv, Supervision, Booting
  <2>3. attempt'.ran = (attempt.ran \/ running' \notin trusted)
    BY <2>1 DEF RInv, IInv, TypeOK
  <2> QED BY <2>1, <2>2, <2>3
<1>5. CASE Resume
  BY <1>5 DEF Resume, Unran, RanUnstaged
<1>6. CASE SleptInTrial
  <2>1. phase = "setup" /\ cause = RstDeepSleep /\ UNCHANGED <<nvs, attempt>>
    BY <1>6, Classified DEF SleptInTrial, PerformRollback, RInv, IInv
  <2>2. running \notin trusted
    BY <2>1 DEF Unran, RanUnstaged
  <2>3. boot \notin trusted
    BY <2>1, <2>2 DEF RInv, IInv, Supervision, Booting
  <2> QED BY <2>1, <2>3 DEF Unran, NoSleepStaged
<1>7. CASE StartTrial \/ StartTrialFails \/ AcceptUnsupervised \/ ConfirmRunning
           \/ ConfirmTimeout \/ RebootForUpdate
  <2>1. todo = <<>> /\ nvs' = nvs /\ call \in {"start_trial", "none"}
    BY <1>7 DEF StartTrial, StartTrialFails, AcceptUnsupervised, ConfirmRunning,
       ConfirmTimeout, RebootForUpdate, PerformRollback, Ready
  <2>2. phase = "run"
    BY <1>7, <2>1 DEF ConfirmRunning, ConfirmTimeout, RebootForUpdate, Ready, StartTrial,
       StartTrialFails, AcceptUnsupervised, RInv, IInv, TypeOK, Supervision, Booting
  <2> QED BY <2>1, <2>2, NoSnapshot DEF Unran
<1>8. CASE Apply
  BY <1>8 DEF Apply, ApplyDownload, DownloadFails, DownloadOk, StageFails, UpdateEnd,
     UpdateEndFails, Applied, Unran, NotYetRun
<1>9. CASE Restart
  BY <1>9 DEF Restart, PowerLoss, Unran, RanUnstaged
<1>10. ASSUME NEW c \in Causes, Reset(c) PROVE FALSE
  BY <1>10 DEF Reset, PowerLoss, LeftStaged, Cleared, Unran, RanUnstaged
<1> QED BY <1>1, <1>2, <1>3, <1>4, <1>5, <1>6, <1>7, <1>8, <1>9, <1>10
        DEF Next, Write, Boot, Validate

LEMMA NoSleepStagedStep ==
  Cleared /\ RInv /\ Unran /\ [Next]_vars => NoSleepStaged'
<1> SUFFICES ASSUME Cleared, RInv, Unran, [Next]_vars, phase' # "run", boot' \notin trusted',
                    nvs'.staged # 0, cause' = RstDeepSleep
             PROVE  FALSE
  BY DEF NoSleepStaged
<1> USE DEF flash, ghost, ram
<1>1. CASE Boot \/ UNCHANGED vars
  <2>1. phase # "run" /\ UNCHANGED <<nvs, cause, trusted>>
    BY <1>1 DEF Boot, Bootloader, Resume, CoreInit, vars
  <2>2. boot \notin trusted
    <3>1. CASE Bootloader
      BY <2>1, <3>1 DEF Bootloader, RInv, IInv, TypeOK, Supervision, Probation
    <3>2. CASE ~Bootloader
      BY <1>1, <2>1, <3>2 DEF Boot, Resume, CoreInit, vars
    <3> QED BY <3>1, <3>2
  <2> QED BY <2>1, <2>2 DEF Unran, NoSleepStaged
<1>2. CASE Restart
  BY <1>2 DEF Restart, PowerLoss, RstSw, RstDeepSleep
<1>3. ASSUME NEW c \in Causes, Reset(c) PROVE FALSE
  <2>1. /\ UNCHANGED <<nvs, boot, trusted>> /\ ~(running \notin trusted /\ nvs.staged # 0)
        /\ phase = "setup" \/ Ready
    BY <1>3 DEF Reset, PowerLoss, LeftStaged, Cleared
  <2>2. CASE Ready
    BY <2>1, <2>2, NoSnapshot DEF Ready, Unran
  <2>3. CASE phase = "setup"
    BY <2>1, <2>3 DEF RInv, IInv, Supervision, Booting, Unran, NoSleepStaged
  <2> QED BY <2>1, <2>2, <2>3
<1>4. CASE ~Boot /\ ~Restart /\ ~UNCHANGED vars /\ ~\E c \in Causes : Reset(c)
  <2>1. phase = "run" \/ phase' = "run"
    <3>1. todo # <<>> \/ call # "none" => phase = "run"
      BY DEF RInv, IInv, TypeOK, Supervision, Booting
    <3> QED BY <1>4, <3>1
            DEF Next, Write, PutKey, QueueReport, Validate, BootValidation, SleptInTrial,
                EnterTrial, StartTrial, StartTrialFails, AcceptUnsupervised, ConfirmRunning,
                ConfirmTimeout, Check, Apply, ApplyDownload, DownloadFails, DownloadOk,
                StageFails, UpdateEnd, UpdateEndFails, Applied, RebootForUpdate, Ready
  <2> QED BY <1>4, <2>1
          DEF Next, Write, PutKey, QueueReport, Validate, BootValidation, SleptInTrial,
              EnterTrial, StartTrial, StartTrialFails, AcceptUnsupervised, ConfirmRunning,
              ConfirmTimeout, Check, Apply, ApplyDownload, DownloadFails, DownloadOk,
              StageFails, UpdateEnd, UpdateEndFails, Applied, RebootForUpdate, PerformRollback
<1> QED BY <1>1, <1>2, <1>3, <1>4

\* A record dropped without a report is of an update that never ran.
THEOREM DropsOnlyUnran ==
  ASSUME Supervisable, Recordable, Cleared PROVE Spec => []AbandonedNeverRan
<1>1. Init => Unran
  BY NoWrites DEF Init, Unran, NotYetRun, RanUnstaged, NoSleepStaged, SnapshotGoes, Keys
<1>2. RInv /\ RInv' /\ Unran /\ [Next]_vars => Unran'
  BY NotYetRunStep, SnapshotGoesStep, RanUnstagedStep, NoSleepStagedStep DEF Unran
<1>3. RInv /\ Unran => AbandonedNeverRan
  <2> SUFFICES ASSUME RInv, Unran, phase = "setup", ClassifyBoot(Facts) = "abandoned",
                      attempt.ran
               PROVE  FALSE
    BY DEF AbandonedNeverRan
  <2>1. nvs.staged # 0 /\ (nvs.trial = 0 \/ (nvs.trial = 1 /\ running = nvs.prevPart))
    BY ClassifiedStaged DEF RInv, IInv
  <2>2. running \notin trusted
    BY <2>1 DEF Unran, RanUnstaged
  <2>3. boot \notin trusted
    BY <2>2 DEF RInv, IInv, Supervision, Booting
  <2> QED BY <2>1, <2>2, <2>3 DEF RInv, IInv, Supervision, OnTrial
<1> QED BY <1>1, <1>2, <1>3, RecordInductive, PTL DEF Spec
=============================================================================
