------------------------- MODULE TrialInstallProofs -------------------------
(***************************************************************************)
(* Proofs about TrialInstall, for any builds, causes and faults.           *)
(***************************************************************************)
EXTENDS TrialInstall, SequenceTheorems, TLAPS

-----------------------------------------------------------------------------
(***************************************************************************)
(* The inductive invariant.  TypeOK is one part of it; the others say, for *)
(* each point of a boot, what the record, the slots and the pending writes *)
(* have to do with each other.                                             *)
(***************************************************************************)

\* An image nobody accepted can only be booted as a trial, and nothing
\* pending touches its record.
OnTrial ==
  boot \notin trusted =>
    /\ nvs.trial = 1 /\ nvs.prevPart = Other(boot) /\ Other(boot) \in trusted
    /\ \A w \in Range(todo) : w.key \notin {"trial", "prevPart"}

Complete == \A p \in trusted \cup {boot} : slot[p] \in Images

\* A live record leads back to an accepted image.
WayBack == nvs.trial = 1 /\ nvs.prevPart \in Parts => nvs.prevPart \in trusted

\* Only staging marks a trial, only a rollback marks its report.
PendingMarks ==
  \A w \in Range(todo) :
    /\ w.key = "trial" /\ w.val # 0 =>
         \/ call = "switch" /\ w.val = 1
         \/ call = "restart" /\ w.val = 2
    /\ w.key = "prevPart" /\ w.val # 0 => call = "switch"

\* apply() runs on an accepted image and fills the other slot.
Applying ==
  call \in {"download", "switch"} =>
    /\ running = boot /\ boot \in trusted /\ Other(boot) \notin trusted
    /\ ~waiting /\ ~inTrial /\ offer \in Builds
    /\ call = "download" => nvs.trial = 0 /\ todo = <<>>

\* The record being staged: sota_trial is the last put.
Staging ==
  call = "switch" =>
    IF ~RollbackEnabled THEN todo = <<>> /\ nvs.trial = 0
    ELSE IF todo = <<>> THEN nvs.trial = 1 /\ nvs.prevPart = running
    ELSE /\ nvs.trial = 0
         /\ todo[Len(todo)] = Put("trial", 1)
         /\ \A i \in 1..Len(todo) : todo[i].key = "trial" => i = Len(todo)
         /\ nvs.prevPart = running
            \/ \E i \in 1..Len(todo) : todo[i].key = "prevPart"
         /\ \A i \in 1..Len(todo) : todo[i].key = "prevPart" => todo[i].val = running

\* Between calls, outside a trial and with no update waiting, the running
\* image is the accepted one and its record is gone or going.
Settled ==
  phase = "run" /\ call = "none" /\ ~waiting /\ ~inTrial =>
    /\ running = boot /\ boot \in trusted
    /\ nvs.trial = 0 \/ Remove("trial") \in Range(todo)

InTrial ==
  inTrial /\ call # "restart" =>
    call = "none" /\ running = boot /\ ~waiting /\ todo = <<>> /\ nvs.trial = 1

Starting ==
  call = "start_trial" =>
    /\ running = boot /\ ~waiting /\ ~inTrial /\ nvs.trial = 1
    /\ \A w \in Range(todo) : w.key = "staged"

Waiting ==
  /\ waiting => running \in trusted /\ (ResumeOnWake => boot \notin trusted)
  /\ call = "applied" => waiting

\* Before boot validation the boot slot runs, or an update waits over a
\* deep sleep.
Booting ==
  /\ phase \in {"boot", "setup"} =>
       running = boot \/ (boot \notin trusted /\ cause = RstDeepSleep)
  /\ phase = "off" /\ cause = RstDeepSleep /\ ResumeOnWake =>
       running = boot \/ boot \notin trusted
  /\ phase # "run" => call = "none" /\ todo = <<>> /\ ~waiting /\ ~inTrial

\* The bootloader gives up no accepted image.
Probation ==
  \A p \in trusted :
    \/ img[p] \in {"new", "valid"}
    \/ phase = "boot" /\ p = running /\ img[p] = "pending"

\* An accepted image on probation is not held as a trial.
NotHeld ==
  nvs.trial = 1 =>
    \A p \in trusted : img[p] \in {"new", "pending"} => nvs.prevPart \in {0, p}

\* Without SOTA_BOOTLOADER_ROLLBACK the core has accepted what runs.
CoreAccepts ==
  ~BootloaderRollback /\ running \notin trusted =>
    /\ phase = "boot" => img[running] \in {"pending", "valid"}
    /\ \/ phase \in {"setup", "run"}
       \/ phase = "off" /\ cause = RstDeepSleep /\ ResumeOnWake
       => img[running] = "valid"

Supervision ==
  /\ OnTrial /\ Complete /\ WayBack /\ PendingMarks
  /\ Applying /\ Staging /\ Settled /\ InTrial /\ Starting /\ Waiting
  /\ Booting /\ Probation /\ NotHeld /\ CoreAccepts

IInv == TypeOK /\ Supervision

-----------------------------------------------------------------------------
(***************************************************************************)
(* The writes.                                                             *)
(***************************************************************************)

\* The values of each key.
LEMMA KeyTypes ==
  /\ KeyType("trial") = 0..2 /\ KeyType("staged") = 0..2
  /\ KeyType("prevPart") = {0} \cup Parts /\ KeyType("confPend") = 0..1
  /\ KeyType("rbReason") = Reasons
  /\ \A k \in {"prevBuild", "prevHash", "prevVer", "build", "hash", "ver",
               "failDep", "failBuild"} : KeyType(k) = Images
BY DEF KeyType

\* Every key may be missing, and holds a number otherwise.
LEMMA KeyValues == \A k \in Keys : 0 \in KeyType(k) /\ KeyType(k) \subseteq Nat
<1> SUFFICES ASSUME NEW k \in Keys
             PROVE  0 \in KeyType(k) /\ KeyType(k) \subseteq Nat
  OBVIOUS
<1>1. Images \subseteq Nat /\ 0 \in Images
  BY BuildsAssumption DEF Images, Factory
<1>2. Reasons \subseteq Nat /\ 0 \in Reasons
  BY DEF Reasons, RstSw, ConfirmTimedOut, NamedResets
<1>3. CASE k \in {"trial", "staged", "confPend", "prevPart"}
  BY <1>3, KeyTypes DEF Parts
<1>4. CASE k = "rbReason"
  BY <1>2, <1>4, KeyTypes
<1>5. CASE k \in {"prevBuild", "prevHash", "prevVer", "build", "hash", "ver",
                 "failDep", "failBuild"}
  BY <1>1, <1>5, KeyTypes
<1> QED BY <1>3, <1>4, <1>5 DEF Keys

\* A put of a value the key can hold is a proper write, ...
LEMMA PutTyped ==
  ASSUME NEW k \in Keys, NEW v \in KeyType(k)
  PROVE  Put(k, v) \in Writes
<1>1. v \in Nat
  BY KeyValues
<1> QED BY <1>1 DEF Writes, Put

\* ... and a proper write puts nothing else.
LEMMA WriteTyped ==
  ASSUME NEW w \in Writes
  PROVE  /\ w.key \in Keys => w.val \in KeyType(w.key)
         /\ w.key \notin Keys => w.key = "outbox" /\ w.val \in Report
<1>1. CASE w \in [key : {"outbox"}, val : Report]
  BY <1>1 DEF Keys
<1>2. CASE w \notin [key : {"outbox"}, val : Report]
  BY <1>2 DEF Writes
<1> QED BY <1>1, <1>2

\* Making the first pending write.
LEMMA PopHead ==
  ASSUME NEW S, NEW s \in Seq(S), s # <<>>
  PROVE  /\ Head(s) \in S /\ Tail(s) \in Seq(S)
         /\ Len(s) \in Nat \ {0} /\ Len(Tail(s)) = Len(s) - 1
         /\ Head(s) = s[1]
         /\ \A i \in 1..(Len(s) - 1) : Tail(s)[i] = s[i + 1]
         /\ Head(s) \in Range(s) /\ Range(Tail(s)) \subseteq Range(s)
         /\ \A w \in Range(s) : w = Head(s) \/ w \in Range(Tail(s))
<1>1. Head(s) \in S /\ Tail(s) \in Seq(S) /\ Len(Tail(s)) = Len(s) - 1
  BY HeadTailProperties
<1>2. Len(s) \in Nat \ {0}
  BY EmptySeq
<1>3. \A i \in 1..(Len(s) - 1) : Tail(s)[i] = s[i + 1]
  <2> DEFINE n == Len(s) - 1
  <2>1. \A i \in 1..Len(Tail(s)) : Tail(s)[i] = s[i + 1]
    BY HeadTailProperties
  <2>2. Len(Tail(s)) = n
    BY <1>1
  <2>3. \A i \in 1..n : Tail(s)[i] = s[i + 1]
    BY <2>1, <2>2
  <2> QED BY <2>3
<1>4. Head(s) = s[1]
  OBVIOUS
<1>5. Range(s) = {s[i] : i \in 1..Len(s)}
  BY RangeEquality
<1>6. Range(Tail(s)) = {Tail(s)[i] : i \in 1..Len(Tail(s))}
  BY <1>1, RangeEquality
<1>7. Head(s) \in Range(s)
  BY <1>2, <1>4, <1>5
<1>8. Range(Tail(s)) \subseteq Range(s)
  <2> SUFFICES ASSUME NEW i \in 1..(Len(s) - 1)
               PROVE  Tail(s)[i] \in Range(s)
    BY <1>1, <1>6
  <2>1. i + 1 \in 1..Len(s)
    BY <1>2
  <2> QED BY <2>1, <1>3, <1>5
<1>9. ASSUME NEW i \in 1..Len(s)
      PROVE  s[i] = Head(s) \/ s[i] \in Range(Tail(s))
  <2>1. CASE i = 1
    BY <2>1, <1>4
  <2>2. CASE i # 1
    <3>1. i - 1 \in 1..(Len(s) - 1) /\ (i - 1) + 1 = i
      BY <2>2, <1>2
    <3>2. Tail(s)[i - 1] = s[i]
      BY <3>1, <1>3
    <3> QED BY <3>1, <3>2, <1>1, <1>6
  <2> QED BY <2>1, <2>2
<1> QED BY <1>1, <1>2, <1>3, <1>4, <1>5, <1>7, <1>8, <1>9

\* Pending writes that leave the record's mark and its way back alone, and
\* pending writes that remove it.
Harmless(s) == \A w \in Range(s) : w.key \notin {"trial", "prevPart"}
Clears(s) ==
  /\ Remove("trial") \in Range(s)
  /\ \A w \in Range(s) : w.key \in {"trial", "prevPart"} => w.val = 0

\* dropTrialRecord() after restoring an identity or queueing a report.
LEMMA HarmlessThenClears ==
  ASSUME NEW s \in Seq(Writes), NEW t \in Seq(Writes), Harmless(s), Clears(t)
  PROVE  s \o t \in Seq(Writes) /\ Clears(s \o t)
<1>1. Range(s \o t) = Range(s) \cup Range(t)
  BY RangeConcatenation
<1>2. s \o t \in Seq(Writes)
  BY ConcatProperties
<1> QED BY <1>1, <1>2 DEF Harmless, Clears

\* A call that writes nothing.
LEMMA NoWrites == <<>> \in Seq(Writes) /\ Range(<<>>) = {}
BY EmptySeq DEF Range

\* restorePreviousIdentity() touches neither the mark nor the way back.
LEMMA RestorePuts ==
  ASSUME TypeOK
  PROVE  RestoreWrites \in Seq(Writes) /\ Harmless(RestoreWrites)
<1> DEFINE a == Put("build", nvs.prevBuild)  b == Put("hash", nvs.prevHash)
           c == Put("ver", nvs.prevVer)
<1>1. nvs.prevBuild \in Images /\ nvs.prevHash \in Images /\ nvs.prevVer \in Images
  BY KeyTypes DEF TypeOK, Keys
<1>2. a \in Writes /\ b \in Writes /\ c \in Writes
  BY <1>1, PutTyped, KeyTypes DEF Keys
<1>3. RestoreWrites = <<a, b, c>>
  BY DEF RestoreWrites
<1>4. {a, b, c} = Range(RestoreWrites)
  BY <1>3 DEF Range
<1> QED BY <1>2, <1>3, <1>4 DEF Harmless, Put

\* dropTrialRecord() removes both.
LEMMA DropPuts == DropWrites \in Seq(Writes) /\ Clears(DropWrites)
<1>1. \A k \in Keys : Remove(k) \in Writes
  BY PutTyped, KeyValues DEF Remove
<1>2. DropWrites \in Seq(Writes)
  BY <1>1 DEF DropWrites, Keys
<1>3. Range(DropWrites) = {Remove(k) : k \in {"trial", "staged", "prevPart",
        "prevBuild", "prevHash", "prevVer", "failDep", "failBuild", "confPend",
        "rbReason"}}
  BY DEF DropWrites, Range
<1> QED BY <1>2, <1>3 DEF Clears, Remove, Put

\* unstageTrialRecord().
LEMMA UnstagePuts ==
  /\ << Remove("staged") >> \in Seq(Writes)
  /\ \A w \in Range(<< Remove("staged") >>) : w.key = "staged"
<1>1. Remove("staged") \in Writes
  BY PutTyped, KeyValues DEF Remove, Keys
<1>2. Range(<< Remove("staged") >>) = {Remove("staged")}
  BY DEF Range
<1> QED BY <1>1, <1>2 DEF Remove, Put

\* queueReport() queues a proper report or nothing.
LEMMA QueuePuts ==
  ASSUME TypeOK, NEW event \in {"confirmed", "rolled_back"}, NEW reason \in Reasons
  PROVE  QueueWrites(event, reason) \in Seq(Writes) /\ Harmless(QueueWrites(event, reason))
<1> DEFINE r == [event |-> event, reason |-> reason,
                 deployment |-> nvs.failDep, build |-> nvs.failBuild]
<1>1. CASE Usable(r)
  <2>1. nvs.failDep \in Builds /\ nvs.failBuild \in Builds
    <3>1. nvs.failDep \in Images /\ nvs.failBuild \in Images
      BY KeyTypes DEF TypeOK, Keys
    <3> QED BY <1>1, <3>1 DEF Usable, Images, Factory
  <2>2. r \in Report
    BY <2>1 DEF Report
  <2>3. Put("outbox", r) \in Writes
    BY <2>2 DEF Writes, Put
  <2>4. QueueWrites(event, reason) = << Put("outbox", r) >>
    BY <1>1 DEF QueueWrites
  <2>5. Range(<< Put("outbox", r) >>) = {Put("outbox", r)}
    BY DEF Range
  <2> QED BY <2>3, <2>4, <2>5 DEF Harmless, Put
<1>2. CASE ~Usable(r)
  <2>1. QueueWrites(event, reason) = <<>>
    BY <1>2 DEF QueueWrites
  <2> QED BY <2>1, NoWrites DEF Harmless
<1> QED BY <1>1, <1>2

\* A report, then the end of the record.
LEMMA VerdictPuts ==
  ASSUME TypeOK, NEW reason \in Reasons
  PROVE  /\ ConfirmedWrites \in Seq(Writes) /\ Clears(ConfirmedWrites)
         /\ RolledBackWrites(reason) \in Seq(Writes) /\ Clears(RolledBackWrites(reason))
<1>1. 0 \in Reasons
  BY DEF Reasons
<1>2. ConfirmedWrites \in Seq(Writes) /\ Clears(ConfirmedWrites)
  <2>1. QueueWrites("confirmed", 0) \in Seq(Writes) /\ Harmless(QueueWrites("confirmed", 0))
    BY <1>1, QueuePuts
  <2> QED BY <2>1, DropPuts, HarmlessThenClears DEF ConfirmedWrites
<1>3. RolledBackWrites(reason) \in Seq(Writes) /\ Clears(RolledBackWrites(reason))
  <2>1. /\ QueueWrites("rolled_back", reason) \in Seq(Writes)
        /\ Harmless(QueueWrites("rolled_back", reason))
    BY QueuePuts
  <2> QED BY <2>1, DropPuts, HarmlessThenClears DEF RolledBackWrites
<1> QED BY <1>2, <1>3

\* abandonTrialRecord().
LEMMA RestoreDropPuts ==
  ASSUME TypeOK
  PROVE  RestoreWrites \o DropWrites \in Seq(Writes) /\ Clears(RestoreWrites \o DropWrites)
BY RestorePuts, DropPuts, HarmlessThenClears

\* A rollback by the bootloader found at boot.
LEMMA RestoreVerdictPuts ==
  ASSUME TypeOK, NEW reason \in Reasons
  PROVE  /\ RestoreWrites \o RolledBackWrites(reason) \in Seq(Writes)
         /\ Clears(RestoreWrites \o RolledBackWrites(reason))
<1>1. RolledBackWrites(reason) \in Seq(Writes) /\ Clears(RolledBackWrites(reason))
  BY VerdictPuts
<1> QED BY <1>1, RestorePuts, HarmlessThenClears

\* What the writes of performRollback() do to the mark.
LEMMA RollbackPuts ==
  ASSUME TypeOK, NEW reason \in Reasons
  PROVE  LET s == RestoreWrites \o << Put("rbReason", reason), Put("trial", 2) >>
         IN /\ s \in Seq(Writes)
            /\ \A w \in Range(s) : /\ w.key = "trial" => w.val = 2
                                   /\ w.key # "prevPart"
<1> DEFINE t == << Put("rbReason", reason), Put("trial", 2) >>
<1>1. Put("rbReason", reason) \in Writes /\ Put("trial", 2) \in Writes
  BY PutTyped, KeyTypes DEF Keys
<1>2. t \in Seq(Writes)
  BY <1>1
<1>3. Range(t) = {Put("rbReason", reason), Put("trial", 2)}
  BY DEF Range
<1>4. RestoreWrites \o t \in Seq(Writes)
  BY <1>2, RestorePuts, ConcatProperties
<1>5. Range(RestoreWrites \o t) = Range(RestoreWrites) \cup Range(t)
  BY <1>2, RestorePuts, RangeConcatenation
<1> QED BY <1>3, <1>4, <1>5, RestorePuts DEF Harmless, Put

\* The identity and saveConfirmContext() leave the record alone.
LEMMA UnsupervisedPuts ==
  ASSUME TypeOK
  PROVE  UnsupervisedWrites \in Seq(Writes) /\ Harmless(UnsupervisedWrites)
<1> DEFINE a == << Put("build", offer), Put("hash", offer) >>
           b == IF offer \in Labelled THEN << Put("ver", offer) >> ELSE <<>>
           c == << Put("failDep", offer), Put("failBuild", offer), Put("confPend", 1) >>
<1>1. \A k \in {"build", "hash", "ver", "failDep", "failBuild"} : Put(k, offer) \in Writes
  BY PutTyped, KeyTypes DEF Keys, Images, Factory, TypeOK
<1>2. Put("confPend", 1) \in Writes
  BY PutTyped, KeyTypes DEF Keys
<1>3. a \in Seq(Writes) /\ Harmless(a)
  <2>1. Range(a) = {Put("build", offer), Put("hash", offer)}
    BY DEF Range
  <2> QED BY <1>1, <2>1 DEF Harmless, Put
<1>4. b \in Seq(Writes) /\ Harmless(b)
  <2>1. Range(<< Put("ver", offer) >>) = {Put("ver", offer)}
    BY DEF Range
  <2>2. << Put("ver", offer) >> \in Seq(Writes) /\ Harmless(<< Put("ver", offer) >>)
    BY <1>1, <2>1 DEF Harmless, Put
  <2> QED BY <2>2, NoWrites DEF Harmless
<1>5. c \in Seq(Writes) /\ Harmless(c)
  <2>1. Range(c) = {Put("failDep", offer), Put("failBuild", offer), Put("confPend", 1)}
    BY DEF Range
  <2> QED BY <1>1, <1>2, <2>1 DEF Harmless, Put
<1>6. ASSUME NEW s \in Seq(Writes), NEW t \in Seq(Writes), Harmless(s), Harmless(t)
      PROVE  s \o t \in Seq(Writes) /\ Harmless(s \o t)
  BY <1>6, RangeConcatenation, ConcatProperties DEF Harmless
<1>7. b \o c \in Seq(Writes) /\ Harmless(b \o c) /\ a \o b \in Seq(Writes) /\ Harmless(a \o b)
  BY <1>3, <1>4, <1>5, <1>6
<1>8. (a \o b) \o c \in Seq(Writes) /\ Harmless((a \o b) \o c)
  BY <1>5, <1>6, <1>7
<1> QED BY <1>8 DEF UnsupervisedWrites

\* The puts of stageTrialRecord(), in order.
LEMMA StagedPuts ==
  ASSUME TypeOK
  PROVE  LET s == SnapshotWrites \o NewIdentityWrites
         IN /\ s \in Seq(Writes) /\ Len(s) = 13
            /\ s[13] = Put("trial", 1) /\ s[2] = Put("prevPart", running)
            /\ \A i \in 1..13 : s[i] = IF i <= 6 THEN SnapshotWrites[i]
                                       ELSE NewIdentityWrites[i - 6]
            /\ \A i \in 1..13 : /\ s[i].key = "trial" => i = 13
                                /\ s[i].key = "prevPart" => s[i].val = running
<1>1. \A k \in {"build", "hash", "failDep", "failBuild"} : Put(k, offer) \in Writes
  BY PutTyped, KeyTypes DEF Keys, Images, Factory, TypeOK
<1>2. Put("ver", Label(offer)) \in Writes
  BY PutTyped, KeyTypes, ImageAssumption DEF Keys, Images, Factory, Label, TypeOK
<1>3. Put("confPend", 1) \in Writes /\ Put("trial", 1) \in Writes
  BY PutTyped, KeyTypes DEF Keys
<1>4. NewIdentityWrites \in Seq(Writes)
  BY <1>1, <1>2, <1>3 DEF NewIdentityWrites
<1>5. nvs.build \in Images /\ nvs.hash \in Images /\ nvs.ver \in Images
  BY KeyTypes DEF TypeOK, Keys
<1>6. /\ Put("prevBuild", nvs.build) \in Writes /\ Put("prevHash", nvs.hash) \in Writes
      /\ Put("prevVer", nvs.ver) \in Writes
  BY <1>5, PutTyped, KeyTypes DEF Keys
<1>7. /\ Put("staged", StagedStarted) \in Writes /\ Put("staged", StagedSnapshot) \in Writes
  BY PutTyped, KeyTypes DEF Keys, StagedStarted, StagedSnapshot
<1>8. Put("prevPart", running) \in Writes
  BY PutTyped, KeyTypes DEF Keys, TypeOK
<1>9. SnapshotWrites \in Seq(Writes)
  BY <1>6, <1>7, <1>8 DEF SnapshotWrites
<1> DEFINE s == SnapshotWrites \o NewIdentityWrites
<1>10. Len(SnapshotWrites) = 6 /\ Len(NewIdentityWrites) = 7
  BY DEF SnapshotWrites, NewIdentityWrites
<1>11. /\ s \in Seq(Writes) /\ Len(s) = 13
       /\ \A i \in 1..13 : s[i] = IF i <= 6 THEN SnapshotWrites[i]
                                  ELSE NewIdentityWrites[i - 6]
  <2>1. s \in Seq(Writes) /\ Len(s) = Len(SnapshotWrites) + Len(NewIdentityWrites)
    BY <1>4, <1>9, ConcatProperties
  <2>2. \A i \in 1..(Len(SnapshotWrites) + Len(NewIdentityWrites)) :
          s[i] = IF i <= Len(SnapshotWrites) THEN SnapshotWrites[i]
                 ELSE NewIdentityWrites[i - Len(SnapshotWrites)]
    BY <1>4, <1>9, ConcatProperties
  <2> HIDE DEF s
  <2> QED BY <2>1, <2>2, <1>10
<1>12. s[13] = Put("trial", 1) /\ s[2] = Put("prevPart", running)
  BY <1>11 DEF SnapshotWrites, NewIdentityWrites
<1> HIDE DEF s
<1>13. \A i \in 1..6 : SnapshotWrites[i].key # "trial"
                       /\ (SnapshotWrites[i].key = "prevPart" => SnapshotWrites[i].val = running)
  BY DEF SnapshotWrites, Put
<1>14. \A i \in 1..7 : NewIdentityWrites[i].key # "prevPart"
                       /\ (NewIdentityWrites[i].key = "trial" => i = 7)
  BY DEF NewIdentityWrites, Put
<1>15. \A i \in 1..13 : /\ s[i].key = "trial" => i = 13
                        /\ s[i].key = "prevPart" => s[i].val = running
  <2> TAKE i \in 1..13
  <2>1. CASE i <= 6
    BY <2>1, <1>11, <1>13
  <2>2. CASE i > 6
    <3>1. i - 6 \in 1..7 /\ s[i] = NewIdentityWrites[i - 6]
      BY <2>2, <1>11
    <3> QED BY <3>1, <1>14
  <2> QED BY <2>1, <2>2
<1> QED BY <1>11, <1>12, <1>15 DEF s

-----------------------------------------------------------------------------
(***************************************************************************)
(* Boot validation.                                                        *)
(***************************************************************************)

\* What the outcomes of sotaClassifyBoot() say of the record.
LEMMA Classified ==
  ASSUME TypeOK
  PROVE  LET outcome == ClassifyBoot(Facts) IN
         /\ outcome \in Outcomes
         /\ outcome \in {"trial", "slept_in_trial"}
              <=> nvs.trial = 1 /\ nvs.prevPart # 0 /\ running # nvs.prevPart
         /\ outcome = "slept_in_trial" => cause = RstDeepSleep
         /\ outcome = "waiting"
              <=> /\ nvs.trial = 1 /\ running = nvs.prevPart
                  /\ cause = RstDeepSleep /\ boot # running
         /\ outcome = "none" => nvs.trial = 0
<1>1. /\ Facts.trial = nvs.trial /\ Facts.prevPart = nvs.prevPart
      /\ Facts.runningPart = running /\ Facts.bootPart = boot
      /\ Facts.deepSleepWake = (cause = RstDeepSleep)
  BY DEF Facts
<1>2. nvs.trial \in 0..2 /\ boot # 0 /\ running # 0
  BY KeyTypes DEF TypeOK, Keys, Parts
<1>3. Facts.deepSleepWake \in BOOLEAN
  BY <1>1
<1>4. Facts.deepSleepWake <=> cause = RstDeepSleep
  BY <1>1
<1> HIDE DEF Facts
<1> DEFINE outcome == ClassifyBoot(Facts)
<1>5. CASE nvs.trial = 0
  <2>1. outcome \in {"abandoned", "none"}
    BY <1>1, <1>5 DEF ClassifyBoot, OutcomeWithoutTrial
  <2> QED BY <1>5, <2>1 DEF Outcomes
<1>6. CASE nvs.trial = 2
  <2>1. outcome = "report_pending"
    BY <1>1, <1>6 DEF ClassifyBoot
  <2> QED BY <1>6, <2>1 DEF Outcomes
<1>7. CASE nvs.trial = 1 /\ nvs.prevPart = 0
  <2>1. outcome = "incomplete"
    BY <1>1, <1>2, <1>7 DEF ClassifyBoot
  <2> QED BY <1>2, <1>7, <2>1 DEF Outcomes
<1>8. CASE nvs.trial = 1 /\ nvs.prevPart # 0 /\ running # nvs.prevPart
  <2>1. outcome = IF Facts.deepSleepWake THEN "slept_in_trial" ELSE "trial"
    BY <1>1, <1>2, <1>8 DEF ClassifyBoot, OutcomeOnNew
  <2> QED BY <1>4, <1>8, <2>1 DEF Outcomes
<1>9. CASE nvs.trial = 1 /\ nvs.prevPart # 0 /\ running = nvs.prevPart
  <2>1. outcome = OutcomeOnPrevious(Facts)
    BY <1>1, <1>2, <1>9 DEF ClassifyBoot
  <2>2. Switched(Facts) <=> boot # running
    BY <1>1, <1>2 DEF Switched
  <2>3. outcome \in {"waiting", "abandoned", "rolled_back"}
        /\ (outcome = "waiting" <=> cause = RstDeepSleep /\ boot # running)
    BY <1>4, <2>1, <2>2 DEF OutcomeOnPrevious
  <2> QED BY <1>9, <2>3 DEF Outcomes
<1> QED BY <1>2, <1>5, <1>6, <1>7, <1>8, <1>9

\* The reasons a rollback can give.
LEMMA ReasonTyped == TypeOK => /\ RollbackReason(cause) \in Reasons
                               /\ nvs.rbReason \in Reasons
                               /\ ConfirmTimedOut \in Reasons /\ RstDeepSleep \in Reasons
<1>1. TypeOK => nvs.rbReason \in Reasons
  BY KeyTypes DEF TypeOK, Keys
<1> QED BY <1>1 DEF RollbackReason, Reasons, NamedResets, RstSw, RstDeepSleep

\* Every outcome that writes clears the record.
LEMMA ValidationPuts ==
  ASSUME TypeOK, NEW o \in Outcomes \ {"trial", "slept_in_trial"}
  PROVE  /\ ValidationWrites(o) \in Seq(Writes)
         /\ o = "waiting" => ValidationWrites(o) = <<>>
         /\ o = "none" => ValidationWrites(o) = <<>> \/ Clears(ValidationWrites(o))
         /\ o \notin {"none", "waiting"} => Clears(ValidationWrites(o))
<1>1. CASE o = "none"
  <2>1. ValidationWrites(o) = IF nvs.confPend # 0 THEN ConfirmedWrites ELSE <<>>
    BY <1>1 DEF ValidationWrites
  <2>2. ConfirmedWrites \in Seq(Writes) /\ Clears(ConfirmedWrites)
    BY VerdictPuts, ReasonTyped
  <2> QED BY <1>1, <2>1, <2>2, NoWrites
<1>2. CASE o = "report_pending"
  <2> DEFINE r == IF nvs.rbReason = 0 THEN ConfirmTimedOut ELSE nvs.rbReason
  <2>1. ValidationWrites(o) = RolledBackWrites(r)
    BY <1>2 DEF ValidationWrites
  <2>2. r \in Reasons
    BY ReasonTyped
  <2> QED BY <1>2, <2>1, <2>2, VerdictPuts
<1>3. CASE o = "rolled_back"
  <2>1. ValidationWrites(o) = RestoreWrites \o RolledBackWrites(RollbackReason(cause))
    BY <1>3 DEF ValidationWrites
  <2>2. RollbackReason(cause) \in Reasons
    BY ReasonTyped
  <2> QED BY <1>3, <2>1, <2>2, RestoreVerdictPuts
<1>4. CASE o = "abandoned"
  <2>1. ValidationWrites(o) \in {RestoreWrites \o DropWrites, DropWrites}
    BY <1>4 DEF ValidationWrites
  <2> QED BY <1>4, <2>1, RestoreDropPuts, DropPuts
<1>5. CASE o = "incomplete"
  <2>1. ValidationWrites(o) = DropWrites
    BY <1>5 DEF ValidationWrites
  <2> QED BY <1>5, <2>1, DropPuts
<1>6. CASE o = "waiting"
  <2>1. ValidationWrites(o) = <<>>
    BY <1>6 DEF ValidationWrites
  <2> QED BY <1>6, <2>1, NoWrites
<1> QED BY <1>1, <1>2, <1>3, <1>4, <1>5, <1>6 DEF Outcomes

-----------------------------------------------------------------------------
(***************************************************************************)
(* Type correctness.                                                       *)
(***************************************************************************)

\* The initial state is well typed, ...
LEMMA TypeInit == Init => TypeOK
<1> SUFFICES ASSUME Init PROVE TypeOK
  OBVIOUS
<1>1. slot \in [Parts -> Images \cup {NoImage}]
  BY DEF Init, Images
<1>2. nvs \in [Keys -> Nat] /\ \A k \in Keys : nvs[k] \in KeyType(k)
  BY KeyValues DEF Init
<1>3. outbox \in Seq(Report) /\ Len(outbox) <= Slots
  BY EmptySeq DEF Init, Slots
<1>4. todo \in Seq(Writes)
  BY NoWrites DEF Init
<1> QED BY <1>1, <1>2, <1>3, <1>4 DEF TypeOK, Init, Parts

\* performRollback() from any of its callers.
LEMMA RollbackTyped ==
  ASSUME TypeOK, NEW reason \in Reasons, PerformRollback(reason)
  PROVE  /\ boot' \in Parts /\ img' \in [Parts -> {"new", "pending", "valid", "aborted"}]
         /\ todo' \in Seq(Writes) /\ call' = "restart"
         /\ UNCHANGED <<slot, nvs, outbox, running, cause, waiting, offer, trusted, attempt>>
<1>1. boot' \in Parts /\ img' \in [Parts -> {"new", "pending", "valid", "aborted"}]
  BY DEF PerformRollback, SwitchBack, TypeOK
<1>2. todo' \in Seq(Writes)
  BY RollbackPuts DEF PerformRollback
<1> QED BY <1>1, <1>2 DEF PerformRollback, ghost

\* ... and every step keeps it so.
LEMMA TypeStep == TypeOK /\ [Next]_vars => TypeOK'
<1> SUFFICES ASSUME TypeOK, [Next]_vars
             PROVE  TypeOK'
  OBVIOUS
<1>1. CASE PutKey
  <2> DEFINE w == Head(todo)
  <2>1. w \in Writes /\ Tail(todo) \in Seq(Writes)
    BY <1>1, PopHead DEF PutKey, TypeOK
  <2>2. w.key \in Keys /\ w.val \in KeyType(w.key)
    BY <1>1, <2>1, WriteTyped DEF PutKey
  <2>3. nvs' \in [Keys -> Nat] /\ \A k \in Keys : nvs'[k] \in KeyType(k)
    BY <1>1, <2>2, KeyValues DEF PutKey, TypeOK
  <2>4. todo' \in Seq(Writes)
    BY <1>1, <2>1 DEF PutKey
  <2> QED BY <1>1, <2>3, <2>4 DEF PutKey, TypeOK, flash, ghost
<1>2. CASE QueueReport
  <2> DEFINE w == Head(todo)
  <2>1. w \in Writes /\ Tail(todo) \in Seq(Writes)
    BY <1>2, PopHead DEF QueueReport, TypeOK
  <2>2. w.val \in Report
    BY <1>2, <2>1, WriteTyped DEF QueueReport, Keys
  <2>3. outbox' \in Seq(Report) /\ Len(outbox') <= Slots
    <3>1. outbox' = Push(outbox, w.val)
      BY <1>2 DEF QueueReport
    <3>2. outbox \in Seq(Report)
      BY DEF TypeOK
    <3>3. Len(outbox) \in 0..2
      <4> DEFINE n == Len(outbox)
      <4>1. n \in Nat
        BY <3>2, LenProperties
      <4>2. n <= 2
        BY DEF TypeOK, Slots
      <4> HIDE DEF n
      <4>3. n \in 0..2
        BY <4>1, <4>2
      <4> QED BY <4>3 DEF n
    <3>4. CASE Len(outbox) = 2
      <4>1. outbox # <<>>
        BY <3>4, EmptySeq
      <4>2. Tail(outbox) \in Seq(Report) /\ Len(Tail(outbox)) = 1
        BY <3>2, <3>4, <4>1, HeadTailProperties
      <4>3. outbox' = Append(Tail(outbox), w.val)
        BY <3>1, <3>4 DEF Push, Slots
      <4>4. outbox' \in Seq(Report) /\ Len(outbox') = 1 + 1
        BY <2>2, <4>2, <4>3, AppendProperties
      <4> QED BY <4>4 DEF Slots
    <3>5. CASE Len(outbox) # 2
      <4>1. outbox' = Append(outbox, w.val)
        BY <3>1, <3>5 DEF Push, Slots
      <4>2. outbox' \in Seq(Report) /\ Len(outbox') = Len(outbox) + 1
        BY <2>2, <3>2, <4>1, AppendProperties
      <4>3. Len(outbox) + 1 <= 2
        BY <3>3, <3>5
      <4> QED BY <4>2, <4>3 DEF Slots
    <3> QED BY <3>4, <3>5
  <2>4. attempt' \in [ran : BOOLEAN, verdicts : SUBSET {"confirmed", "rolled_back"}]
    BY <1>2, <2>2 DEF QueueReport, TypeOK, Report
  <2>5. todo' \in Seq(Writes)
    BY <1>2, <2>1 DEF QueueReport
  <2> QED BY <1>2, <2>3, <2>4, <2>5 DEF QueueReport, TypeOK, flash
<1>3. CASE Bootloader
  <2> DEFINE aborted == [p \in Parts |-> IF img[p] = "pending" THEN "aborted" ELSE img[p]]
             pick == IF aborted[boot] # "aborted" THEN boot
                     ELSE IF aborted[Other(boot)] # "aborted" THEN Other(boot) ELSE 1
  <2>1. aborted \in [Parts -> {"new", "pending", "valid", "aborted"}]
    BY DEF TypeOK
  <2>2. pick \in Parts
    BY DEF TypeOK, Parts, Other
  <2>3. /\ img' = [aborted EXCEPT ![pick] = IF @ = "new" THEN "pending" ELSE @]
        /\ boot' = pick
        /\ running' = IF slot[pick] # NoImage THEN pick ELSE Other(pick)
        /\ attempt' = [attempt EXCEPT !.ran = @ \/ running' \notin trusted]
        /\ phase' = "boot"
        /\ UNCHANGED <<slot, nvs, outbox, cause, waiting, inTrial, offer, call, todo,
                       trusted>>
    BY <1>3 DEF Bootloader
  <2> HIDE DEF aborted, pick
  <2>4. img' \in [Parts -> {"new", "pending", "valid", "aborted"}]
    BY <2>1, <2>2, <2>3
  <2>5. boot' \in Parts /\ running' \in Parts
    BY <2>2, <2>3 DEF Parts, Other
  <2>6. attempt' \in [ran : BOOLEAN, verdicts : SUBSET {"confirmed", "rolled_back"}]
    BY <2>3 DEF TypeOK
  <2> QED BY <2>3, <2>4, <2>5, <2>6 DEF TypeOK
<1>4. CASE Resume
  BY <1>4 DEF Resume, TypeOK, flash, ghost
<1>5. CASE CoreInit
  BY <1>5 DEF CoreInit, TypeOK, ghost
<1>6. CASE BootValidation
  <2>1. todo' \in Seq(Writes)
    BY <1>6, Classified, ValidationPuts DEF BootValidation
  <2> QED BY <1>6, <2>1 DEF BootValidation, TypeOK, flash, ghost
<1>7. CASE SleptInTrial
  <2>1. PerformRollback(RstDeepSleep) /\ phase' = "run" /\ inTrial' = inTrial
    BY <1>7 DEF SleptInTrial
  <2> QED BY <2>1, RollbackTyped, ReasonTyped DEF TypeOK
<1>8. CASE EnterTrial
  <2>1. todo' \in Seq(Writes)
    BY <1>8, UnstagePuts, NoWrites DEF EnterTrial
  <2> QED BY <1>8, <2>1 DEF EnterTrial, TypeOK, flash, ghost
<1>9. CASE StartTrial
  BY <1>9 DEF StartTrial, TypeOK, flash, ghost
<1>10. CASE StartTrialFails
  <2>1. PerformRollback(ConfirmTimedOut) /\ inTrial' = TRUE /\ phase' = phase
    BY <1>10 DEF StartTrialFails
  <2> QED BY <2>1, RollbackTyped, ReasonTyped DEF TypeOK
<1>11. CASE AcceptUnsupervised
  <2>1. todo' \in Seq(Writes)
    BY <1>11, VerdictPuts, ReasonTyped DEF AcceptUnsupervised
  <2>2. img' \in [Parts -> {"new", "pending", "valid", "aborted"}]
    BY <1>11 DEF AcceptUnsupervised, MarkedValid, TypeOK
  <2> QED BY <1>11, <2>1, <2>2 DEF AcceptUnsupervised, TypeOK
<1>12. CASE ConfirmRunning
  <2>1. todo' \in Seq(Writes)
    BY <1>12, VerdictPuts, ReasonTyped DEF ConfirmRunning
  <2>2. img' \in [Parts -> {"new", "pending", "valid", "aborted"}]
    BY <1>12 DEF ConfirmRunning, MarkedValid, TypeOK
  <2> QED BY <1>12, <2>1, <2>2 DEF ConfirmRunning, TypeOK
<1>13. CASE ConfirmTimeout
  <2>1. PerformRollback(ConfirmTimedOut) /\ phase' = phase /\ inTrial' = inTrial
    BY <1>13 DEF ConfirmTimeout
  <2> QED BY <2>1, RollbackTyped, ReasonTyped DEF TypeOK
<1>14. CASE Check
  <2>1. PICK n \in 0..Len(outbox) : outbox' = SubSeq(outbox, n + 1, Len(outbox))
    BY <1>14 DEF Check
  <2>2. outbox \in Seq(Report) /\ Len(outbox) \in Nat /\ Len(outbox) <= Slots
        /\ \A i \in 1..Len(outbox) : outbox[i] \in Report
    BY LenProperties DEF TypeOK
  <2>3. outbox' \in Seq(Report)
        /\ Len(outbox') = IF n + 1 <= Len(outbox) THEN Len(outbox) - (n + 1) + 1 ELSE 0
    <3>1. n + 1 \in Int /\ Len(outbox) \in Int
          /\ \A i \in (n + 1)..Len(outbox) : outbox[i] \in Report
      BY <2>2
    <3> QED BY <2>1, <3>1, SubSeqProperties
  <2>4. Len(outbox') <= Slots
    BY <2>2, <2>3 DEF Slots
  <2> QED BY <1>14, <2>3, <2>4 DEF Check, TypeOK, flash, ghost
<1>15. CASE ApplyDownload
  BY <1>15 DEF ApplyDownload, TypeOK, Parts, Other
<1>16. CASE DownloadFails
  BY <1>16 DEF DownloadFails, TypeOK, flash, ghost
<1>17. CASE DownloadOk
  <2>1. todo' \in Seq(Writes)
    BY <1>17, StagedPuts, NoWrites DEF DownloadOk
  <2> QED BY <1>17, <2>1 DEF DownloadOk, TypeOK, flash, ghost
<1>18. CASE StageFails
  <2>1. todo' \in Seq(Writes)
    BY <1>18, RestoreDropPuts, DropPuts DEF StageFails
  <2> QED BY <1>18, <2>1 DEF StageFails, TypeOK, flash, ghost
<1>19. CASE UpdateEnd
  <2>1. todo' \in Seq(Writes)
    BY <1>19, UnstagePuts, UnsupervisedPuts DEF UpdateEnd
  <2> QED BY <1>19, <2>1 DEF UpdateEnd, TypeOK, Parts, Other, Images, Factory
<1>20. CASE UpdateEndFails
  <2>1. todo' \in Seq(Writes)
    BY <1>20, RestoreDropPuts, NoWrites DEF UpdateEndFails
  <2> QED BY <1>20, <2>1 DEF UpdateEndFails, TypeOK, flash, ghost
<1>21. CASE Applied
  BY <1>21 DEF Applied, TypeOK, flash, ghost
<1>22. ASSUME NEW c \in Causes \cup {RstSw}, PowerLoss(c)
       PROVE  TypeOK'
  BY <1>22, NoWrites DEF PowerLoss, TypeOK, flash, ghost
<1>23. CASE Restart
  BY <1>22, <1>23 DEF Restart
<1>24. CASE \E c \in Causes : Reset(c)
  BY <1>22, <1>24 DEF Reset
<1>25. CASE RebootForUpdate
  BY <1>25 DEF RebootForUpdate, TypeOK, flash, ghost
<1>26. CASE UNCHANGED vars
  BY <1>26 DEF vars, flash, ram, ghost, TypeOK
<1> QED BY <1>1, <1>2, <1>3, <1>4, <1>5, <1>6, <1>7, <1>8, <1>9, <1>10, <1>11,
           <1>12, <1>13, <1>14, <1>15, <1>16, <1>17, <1>18, <1>19, <1>20, <1>21,
           <1>23, <1>24, <1>25, <1>26
        DEF Next, Write, Boot, Validate, Apply

-----------------------------------------------------------------------------
(***************************************************************************)
(* Supervision, step by step.                                              *)
(***************************************************************************)

\* Where the boot slot can be switched back, the image put back is not reset
\* before the core accepts it, and no flashed update is forgotten over a deep
\* sleep, as one without a record is.
Supervisable ==
  /\ Faults \cap {"set_boot", "mark_valid", "restored_cut"} = {}
  /\ NoRollback = {} \/ ~ResumeOnWake

\* The device leaves the bench supervised.
LEMMA SupervisionInit == Init => Supervision
<1> SUFFICES ASSUME Init PROVE Supervision
  OBVIOUS
<1>1. Range(todo) = {}
  BY NoWrites DEF Init
<1>2. OnTrial /\ Complete /\ WayBack /\ PendingMarks
  BY <1>1 DEF Init, OnTrial, Complete, WayBack, PendingMarks, Images, Factory, Keys, Parts
<1>3. Applying /\ Staging /\ Settled /\ InTrial /\ Starting /\ Waiting
  BY DEF Init, Applying, Staging, Settled, InTrial, Starting, Waiting
<1>4. Booting /\ Probation /\ NotHeld /\ CoreAccepts
  BY DEF Init, Booting, Probation, NotHeld, CoreAccepts, Keys, Parts, RstPowerOn, RstDeepSleep
<1> QED BY <1>2, <1>3, <1>4 DEF Supervision

\* The writes of stageTrialRecord() stay in order as the first is made.
LEMMA StagingPops ==
  ASSUME TypeOK, Staging, call = "switch", todo # <<>>
  PROVE  LET w == Head(todo)  t == Tail(todo) IN
         /\ RollbackEnabled /\ nvs.trial = 0
         /\ t = <<>> => w = Put("trial", 1) /\ nvs.prevPart = running
         /\ t # <<>> =>
              /\ w.key # "trial" /\ t[Len(t)] = Put("trial", 1)
              /\ \A i \in 1..Len(t) : t[i].key = "trial" => i = Len(t)
              /\ \A i \in 1..Len(t) : t[i].key = "prevPart" => t[i].val = running
              /\ w.key = "prevPart" => w.val = running
              /\ w.key # "prevPart" =>
                   nvs.prevPart = running \/ \E i \in 1..Len(t) : t[i].key = "prevPart"
<1> DEFINE w == Head(todo)  t == Tail(todo)  n == Len(todo)
<1>1. /\ RollbackEnabled /\ nvs.trial = 0
      /\ todo[n] = Put("trial", 1)
      /\ \A i \in 1..n : todo[i].key = "trial" => i = n
      /\ nvs.prevPart = running \/ \E i \in 1..n : todo[i].key = "prevPart"
      /\ \A i \in 1..n : todo[i].key = "prevPart" => todo[i].val = running
  BY DEF Staging
<1>2. todo \in Seq(Writes)
  BY DEF TypeOK
<1>3. t \in Seq(Writes) /\ n \in Nat \ {0} /\ Len(t) = n - 1 /\ w = todo[1]
      /\ \A i \in 1..(n - 1) : t[i] = todo[i + 1]
  BY <1>2, PopHead
<1>4. t = <<>> <=> n = 1
  <2>1. t = <<>> => Len(t) = 0
    BY EmptySeq
  <2>2. t # <<>> => Len(t) \in Nat \ {0}
    BY <1>3, EmptySeq
  <2> QED BY <1>3, <2>1, <2>2
<1> HIDE DEF w, t, n
<1>5. CASE n = 1
  <2>1. w = Put("trial", 1)
    BY <1>1, <1>3, <1>5
  <2>2. nvs.prevPart = running
    BY <1>1, <1>3, <1>5, <2>1 DEF Put
  <2> QED BY <1>1, <1>4, <1>5, <2>1, <2>2 DEF w, t
<1>6. CASE n # 1
  <2>1. n - 1 \in Nat \ {0} /\ (n - 1) + 1 = n /\ 1 \in 1..n
    BY <1>3, <1>6
  <2>2. w.key # "trial"
    BY <1>1, <1>3, <1>6, <2>1
  <2>3. t[n - 1] = Put("trial", 1)
    BY <1>1, <1>3, <2>1
  <2>4. \A i \in 1..(n - 1) : i + 1 \in 1..n /\ t[i] = todo[i + 1]
    BY <1>3
  <2>5. \A i \in 1..(n - 1) : t[i].key = "trial" => i = n - 1
    <3> SUFFICES ASSUME NEW i \in 1..(n - 1), t[i].key = "trial"
                 PROVE  i = n - 1
      OBVIOUS
    <3>1. i + 1 = n
      BY <1>1, <2>4
    <3> QED BY <1>3, <3>1
  <2>6. \A i \in 1..(n - 1) : t[i].key = "prevPart" => t[i].val = running
    BY <1>1, <2>4
  <2>7. w.key = "prevPart" => w.val = running
    BY <1>1, <1>3, <2>1
  <2>8. ASSUME w.key # "prevPart", nvs.prevPart # running
        PROVE  \E i \in 1..(n - 1) : t[i].key = "prevPart"
    <3>1. PICK i \in 1..n : todo[i].key = "prevPart"
      BY <1>1, <2>8
    <3>2. i - 1 \in 1..(n - 1) /\ (i - 1) + 1 = i
      BY <1>3, <2>8, <3>1
    <3>3. t[i - 1].key = "prevPart"
      BY <2>4, <3>1, <3>2
    <3> QED BY <3>2, <3>3
  <2> QED BY <1>1, <1>3, <1>4, <1>6, <2>2, <2>3, <2>5, <2>6, <2>7, <2>8 DEF w, t
<1> QED BY <1>5, <1>6

\* A write or a report leaves what is being staged in order.
LEMMA StagingKept == TypeOK /\ Staging /\ Write => Staging'
<1> SUFFICES ASSUME TypeOK, Staging, Write, call = "switch"
             PROVE  Staging'
  BY DEF Write, PutKey, QueueReport, Staging
<1> DEFINE w == Head(todo)
<1>1. /\ todo # <<>> /\ todo' = Tail(todo)
      /\ nvs' = IF w.key = "outbox" THEN nvs ELSE [nvs EXCEPT ![w.key] = w.val]
      /\ UNCHANGED <<slot, running, call>>
  BY DEF Write, PutKey, QueueReport, flash
<1>2. w \in Writes
  BY <1>1, PopHead DEF TypeOK
<1>3. w.key \in Keys \/ w.key = "outbox"
  BY <1>2, WriteTyped
<1>4. /\ nvs'.trial = IF w.key = "trial" THEN w.val ELSE nvs.trial
      /\ nvs'.prevPart = IF w.key = "prevPart" THEN w.val ELSE nvs.prevPart
  <2>1. CASE w.key = "outbox"
    BY <1>1, <2>1
  <2>2. CASE w.key # "outbox"
    BY <1>1, <1>3, <2>2 DEF TypeOK, Keys
  <2> QED BY <2>1, <2>2
<1>5. RollbackEnabled /\ RollbackEnabled'
  BY <1>1, StagingPops DEF RollbackEnabled
<1> HIDE DEF w
<1>6. CASE todo' = <<>>
  <2>1. w = Put("trial", 1) /\ nvs.prevPart = running
    BY <1>1, <1>6, StagingPops DEF w
  <2>2. nvs'.trial = 1 /\ nvs'.prevPart = running'
    BY <1>1, <1>4, <2>1 DEF Put
  <2> QED BY <1>5, <1>6, <2>2 DEF Staging
<1>7. CASE todo' # <<>>
  <2>1. /\ nvs.trial = 0 /\ w.key # "trial" /\ todo'[Len(todo')] = Put("trial", 1)
        /\ \A i \in 1..Len(todo') : todo'[i].key = "trial" => i = Len(todo')
        /\ \A i \in 1..Len(todo') : todo'[i].key = "prevPart" => todo'[i].val = running
        /\ w.key = "prevPart" => w.val = running
        /\ w.key # "prevPart" => nvs.prevPart = running
                                 \/ \E i \in 1..Len(todo') : todo'[i].key = "prevPart"
    BY <1>1, <1>7, StagingPops DEF w
  <2>2. nvs'.trial = 0
    BY <1>4, <2>1
  <2>3. nvs'.prevPart = running' \/ \E i \in 1..Len(todo') : todo'[i].key = "prevPart"
    BY <1>1, <1>4, <2>1
  <2> QED BY <1>1, <1>5, <1>7, <2>1, <2>2, <2>3 DEF Staging, Put
<1> QED BY <1>6, <1>7

\* Staging starts with no trial on record.
LEMMA StagingStarts ==
  ASSUME TypeOK, DownloadOk, nvs.trial = 0
  PROVE  Staging' /\ PendingMarks'
<1>1. /\ call = "download" /\ call' = "switch"
      /\ todo' = IF RollbackEnabled THEN SnapshotWrites \o NewIdentityWrites ELSE <<>>
      /\ UNCHANGED <<slot, nvs, running>>
  BY DEF DownloadOk, flash
<1>2. RollbackEnabled' = RollbackEnabled
  BY <1>1 DEF RollbackEnabled
<1>3. CASE RollbackEnabled
  <2>1. /\ todo' \in Seq(Writes) /\ Len(todo') = 13
        /\ todo'[13] = Put("trial", 1) /\ todo'[2] = Put("prevPart", running)
        /\ \A i \in 1..13 : /\ todo'[i].key = "trial" => i = 13
                            /\ todo'[i].key = "prevPart" => todo'[i].val = running
    BY <1>1, <1>3, StagedPuts
  <2>2. todo' # <<>>
    <3>1. Len(<<>>) = 0
      OBVIOUS
    <3>2. Len(todo') # 0
      BY <2>1
    <3> QED BY <3>1, <3>2
  <2>3. todo'[2].key = "prevPart"
    BY <2>1 DEF Put
  <2>4. Staging'
    <3>1. \E i \in 1..13 : todo'[i].key = "prevPart"
      BY <2>3
    <3>2. nvs' = nvs /\ running' = running /\ RollbackEnabled'
      BY <1>1, <1>2, <1>3
    <3>3. (Put("trial", 1))' = Put("trial", 1)
      BY DEF Put
    <3> HIDE DEF Put
    <3> QED BY <2>1, <2>2, <3>1, <3>2, <3>3 DEF Staging
  <2>5. Range(todo') = {todo'[i] : i \in 1..Len(todo')}
    BY <2>1, RangeEquality
  <2>6. \A i \in 1..13 : todo'[i].key = "trial" => todo'[i].val = 1
    BY <2>1 DEF Put
  <2>7. \A v \in Range(todo') : v.key = "trial" => v.val = 1
    BY <2>1, <2>5, <2>6
  <2>8. PendingMarks'
    BY <1>1, <2>7 DEF PendingMarks
  <2> QED BY <2>4, <2>8
<1>4. CASE ~RollbackEnabled
  BY <1>1, <1>2, <1>4, NoWrites DEF Staging, PendingMarks
<1> QED BY <1>3, <1>4

\* One NVS write of any call.
LEMMA PutKeyStep == TypeOK /\ Supervision /\ PutKey => Supervision'
<1> SUFFICES ASSUME TypeOK, Supervision, PutKey
             PROVE  Supervision'
  OBVIOUS
<1> DEFINE w == Head(todo)
<1>1. /\ todo # <<>> /\ w.key # "outbox" /\ todo' = Tail(todo)
      /\ nvs' = [nvs EXCEPT ![w.key] = w.val]
      /\ UNCHANGED <<slot, boot, img, outbox, phase, running, cause, waiting, inTrial,
                     offer, call, trusted, attempt>>
  BY DEF PutKey, flash, ghost
<1>2. /\ w \in Writes /\ todo' \in Seq(Writes) /\ w \in Range(todo)
      /\ Range(todo') \subseteq Range(todo)
      /\ \A v \in Range(todo) : v = w \/ v \in Range(todo')
  BY <1>1, PopHead DEF TypeOK
<1>3. w.key \in Keys /\ w.val \in KeyType(w.key)
  BY <1>1, <1>2, WriteTyped
<1>4. /\ nvs'.trial = IF w.key = "trial" THEN w.val ELSE nvs.trial
      /\ nvs'.prevPart = IF w.key = "prevPart" THEN w.val ELSE nvs.prevPart
  BY <1>1, <1>3 DEF TypeOK, Keys
<1>5. w.key = "trial" => w.val \in 0..2
  BY <1>3, KeyTypes
<1>6. call = "switch" => RollbackEnabled /\ nvs.trial = 0
                         /\ (w.key = "trial" => nvs.prevPart = running)
                         /\ (w.key = "prevPart" => w.val = running)
  <2> SUFFICES ASSUME call = "switch"
               PROVE  RollbackEnabled /\ nvs.trial = 0
                      /\ (w.key = "trial" => nvs.prevPart = running)
                      /\ (w.key = "prevPart" => w.val = running)
    OBVIOUS
  <2> Staging
    BY DEF Supervision
  <2>1. CASE todo' = <<>>
    BY <1>1, <2>1, StagingPops DEF Put
  <2>2. CASE todo' # <<>>
    BY <1>1, <2>2, StagingPops
  <2> QED BY <2>1, <2>2
<1> HIDE DEF w
\* A trial is marked only by staging, which saved the way back first.
<1>7. w.key = "trial" /\ w.val # 0 => w.val = 2 \/ (call = "switch" /\ nvs.prevPart = running)
  BY <1>2, <1>6 DEF Supervision, PendingMarks
<1>8. w.key = "prevPart" /\ w.val # 0 => call = "switch" /\ nvs.trial = 0
  BY <1>2, <1>6 DEF Supervision, PendingMarks
<1>9. OnTrial'
  BY <1>1, <1>2, <1>4 DEF Supervision, OnTrial, Other
<1>10. WayBack'
  <2>1. CASE w.key = "trial"
    BY <1>1, <1>4, <1>7, <2>1 DEF Supervision, WayBack, Applying
  <2>2. CASE w.key = "prevPart"
    BY <1>1, <1>4, <1>8, <2>2 DEF WayBack, Parts
  <2>3. CASE w.key \notin {"trial", "prevPart"}
    BY <1>1, <1>4, <2>3 DEF Supervision, WayBack
  <2> QED BY <2>1, <2>2, <2>3
<1>11. PendingMarks'
  BY <1>1, <1>2 DEF Supervision, PendingMarks
<1>12. Applying'
  BY <1>1 DEF Supervision, Applying, Other
<1>13. Staging'
  BY StagingKept DEF Supervision, Write
<1>14. Settled'
  <2>1. CASE w.key = "trial"
    <3>1. call = "none" => w.val = 0
      BY <1>2, <2>1 DEF Supervision, PendingMarks
    <3> QED BY <1>1, <1>4, <2>1, <3>1 DEF Supervision, Settled
  <2>2. CASE w.key # "trial"
    <3>1. w # Remove("trial")
      BY <2>2 DEF Remove, Put
    <3> QED BY <1>1, <1>2, <1>4, <2>2, <3>1 DEF Supervision, Settled
  <2> QED BY <2>1, <2>2
<1>15. InTrial' /\ Waiting' /\ Booting'
  BY <1>1 DEF Supervision, InTrial, Waiting, Booting
<1>16. Starting'
  BY <1>1, <1>2, <1>4 DEF Supervision, Starting
<1>17. Complete' /\ Probation' /\ CoreAccepts'
  BY <1>1 DEF Supervision, Complete, Probation, CoreAccepts
<1>18. NotHeld'
  <2>1. CASE w.key = "trial"
    <3>1. call = "switch" => \A p \in trusted : p = running
      BY DEF Supervision, Applying, TypeOK, Parts, Other
    <3> QED BY <1>1, <1>4, <1>7, <2>1, <3>1 DEF NotHeld
  <2>2. CASE w.key = "prevPart"
    BY <1>1, <1>4, <1>8, <2>2 DEF NotHeld
  <2>3. CASE w.key \notin {"trial", "prevPart"}
    BY <1>1, <1>4, <2>3 DEF Supervision, NotHeld
  <2> QED BY <2>1, <2>2, <2>3
<1> QED BY <1>9, <1>10, <1>11, <1>12, <1>13, <1>14, <1>15, <1>16, <1>17, <1>18
        DEF Supervision

\* One report queued.
LEMMA QueueReportStep == TypeOK /\ Supervision /\ QueueReport => Supervision'
<1> SUFFICES ASSUME TypeOK, Supervision, QueueReport
             PROVE  Supervision'
  OBVIOUS
<1> DEFINE w == Head(todo)
<1>1. /\ todo # <<>> /\ w.key = "outbox" /\ todo' = Tail(todo)
      /\ UNCHANGED <<slot, boot, img, nvs, phase, running, cause, waiting, inTrial,
                     offer, call, trusted>>
  BY DEF QueueReport, flash
<1>2. /\ Range(todo') \subseteq Range(todo)
      /\ \A v \in Range(todo) : v = w \/ v \in Range(todo')
  BY <1>1, PopHead DEF TypeOK
<1>4. Staging'
  BY StagingKept DEF Supervision, Write
<1>5. Settled'
  BY <1>1, <1>2 DEF Supervision, Settled, Remove, Put
<1>6. OnTrial' /\ PendingMarks' /\ Starting'
  BY <1>1, <1>2 DEF Supervision, OnTrial, PendingMarks, Starting, Other
<1>7. Applying' /\ InTrial' /\ Waiting' /\ Booting'
  BY <1>1 DEF Supervision, Applying, InTrial, Waiting, Booting, Other
<1>8. Complete' /\ WayBack' /\ Probation' /\ NotHeld' /\ CoreAccepts'
  BY <1>1 DEF Supervision, Complete, WayBack, Probation, NotHeld, CoreAccepts
<1> QED BY <1>4, <1>5, <1>6, <1>7, <1>8 DEF Supervision

\* An erased or half written slot holds no image.
LEMMA NoImageIncomplete == NoImage \notin Images
<1>1. Images \subseteq Nat
  BY BuildsAssumption DEF Images, Factory
<1> QED BY <1>1, ImageAssumption

\* The bootloader stays on the boot slot or returns to the accepted image.
LEMMA BootloaderStep == TypeOK /\ Supervision /\ Bootloader => Supervision'
<1> SUFFICES ASSUME TypeOK, Supervision, Bootloader
             PROVE  Supervision'
  OBVIOUS
<1> DEFINE aborted == [p \in Parts |-> IF img[p] = "pending" THEN "aborted" ELSE img[p]]
           pick == IF aborted[boot] # "aborted" THEN boot
                   ELSE IF aborted[Other(boot)] # "aborted" THEN Other(boot) ELSE 1
<1>1. /\ phase = "off" /\ phase' = "boot" /\ boot' = pick
      /\ img' = [aborted EXCEPT ![pick] = IF @ = "new" THEN "pending" ELSE @]
      /\ running' = IF slot[pick] # NoImage THEN pick ELSE Other(pick)
      /\ UNCHANGED <<slot, nvs, cause, waiting, inTrial, offer, call, todo, trusted>>
  BY DEF Bootloader
<1>2. todo = <<>> /\ call = "none" /\ ~waiting /\ ~inTrial /\ Range(todo) = {}
  BY <1>1, NoWrites DEF Supervision, Booting
<1>3. boot \in Parts /\ Other(boot) \in Parts /\ trusted \subseteq Parts
      /\ img \in [Parts -> {"new", "pending", "valid", "aborted"}]
  BY DEF TypeOK, Parts, Other
<1>4. \A p \in trusted : img[p] \in {"new", "valid"} /\ aborted[p] = img[p]
  BY <1>1, <1>3 DEF Supervision, Probation
<1>5. \A p \in Parts : aborted[p] = IF img[p] = "pending" THEN "aborted" ELSE img[p]
  OBVIOUS
<1> HIDE DEF aborted
<1>6. pick = boot \/ (boot \notin trusted /\ pick = Other(boot) /\ Other(boot) \in trusted)
  BY <1>4 DEF Supervision, OnTrial
<1>7. aborted[pick] # "aborted"
  <2>1. CASE boot \in trusted
    BY <1>4, <1>6, <2>1
  <2>2. CASE boot \notin trusted
    <3>1. aborted[Other(boot)] # "aborted"
      BY <1>4, <2>2 DEF Supervision, OnTrial
    <3> QED BY <3>1
  <2> QED BY <2>1, <2>2
<1> HIDE DEF pick
<1>8. pick \in Parts /\ slot[pick] \in Images
  BY <1>3, <1>6 DEF Supervision, Complete
<1>9. running' = boot'
  BY <1>1, <1>8, NoImageIncomplete
<1>10. \A p \in Parts : img'[p] = IF p = pick /\ aborted[p] = "new" THEN "pending"
                                  ELSE aborted[p]
  BY <1>1, <1>5, <1>8 DEF aborted
<1>11. OnTrial' /\ Complete' /\ WayBack' /\ PendingMarks'
  BY <1>1, <1>2, <1>6 DEF Supervision, OnTrial, Complete, WayBack, PendingMarks
<1>12. Applying' /\ Staging' /\ Settled' /\ InTrial' /\ Starting' /\ Waiting'
  BY <1>1, <1>2 DEF Applying, Staging, Settled, InTrial, Starting, Waiting
<1>13. Booting'
  BY <1>1, <1>2, <1>9 DEF Booting
<1>14. Probation'
  BY <1>1, <1>3, <1>4, <1>9, <1>10 DEF Probation
<1>15. NotHeld'
  BY <1>1, <1>3, <1>4, <1>10 DEF Supervision, NotHeld
<1>16. CoreAccepts'
  <2>1. img'[pick] \in {"pending", "valid"}
    BY <1>3, <1>5, <1>7, <1>8, <1>10
  <2> QED BY <1>1, <1>9, <2>1 DEF CoreAccepts
<1> QED BY <1>11, <1>12, <1>13, <1>14, <1>15, <1>16 DEF Supervision

\* A deep-sleep wake without the bootloader's choice.
LEMMA ResumeStep == TypeOK /\ Supervision /\ Resume => Supervision'
<1> SUFFICES ASSUME TypeOK, Supervision, Resume
             PROVE  Supervision'
  OBVIOUS
<1>1. /\ phase = "off" /\ cause = RstDeepSleep /\ ResumeOnWake /\ phase' = "boot"
      /\ UNCHANGED <<slot, boot, img, nvs, running, cause, waiting, inTrial, offer,
                     call, todo, trusted>>
  BY DEF Resume, flash, ghost
<1>2. todo = <<>> /\ call = "none" /\ ~waiting /\ ~inTrial
  BY <1>1 DEF Supervision, Booting
<1>3. OnTrial' /\ Complete' /\ WayBack' /\ PendingMarks'
  BY <1>1 DEF Supervision, OnTrial, Complete, WayBack, PendingMarks, Other
<1>4. Applying' /\ Staging' /\ Settled' /\ InTrial' /\ Starting' /\ Waiting'
  BY <1>1, <1>2 DEF Applying, Staging, Settled, InTrial, Starting, Waiting
<1>5. Booting'
  BY <1>1, <1>2 DEF Supervision, Booting
<1>6. Probation' /\ NotHeld'
  BY <1>1 DEF Supervision, Probation, NotHeld
<1>7. CoreAccepts'
  BY <1>1 DEF Supervision, CoreAccepts
<1> QED BY <1>3, <1>4, <1>5, <1>6, <1>7 DEF Supervision

\* The core accepts what is pending, except a trial.
LEMMA CoreInitStep == TypeOK /\ Supervision /\ CoreInit => Supervision'
<1> SUFFICES ASSUME TypeOK, Supervision, CoreInit
             PROVE  Supervision'
  OBVIOUS
<1>1. /\ phase = "boot" /\ phase' = "setup"
      /\ UNCHANGED <<slot, boot, nvs, running, cause, waiting, inTrial, offer,
                     call, todo, trusted>>
  BY DEF CoreInit, ghost
<1>2. todo = <<>> /\ call = "none" /\ ~waiting /\ ~inTrial
  BY <1>1 DEF Supervision, Booting
<1>3. PICK readable \in BOOLEAN :
        img' = IF img[running] = "pending"
                  /\ ~(/\ BootloaderRollback /\ readable
                       /\ HoldPendingImage(img[running] = "pending", ClassifyBoot(Facts)))
               THEN [img EXCEPT ![running] = "valid"] ELSE img
  BY DEF CoreInit
<1>4. running \in Parts /\ trusted \subseteq Parts
      /\ img \in [Parts -> {"new", "pending", "valid", "aborted"}]
  BY DEF TypeOK
\* Held only as a trial, so never when it is the accepted image.
<1>5. /\ running \in trusted => img'[running] \in {"new", "valid"}
      /\ ~BootloaderRollback /\ running \notin trusted => img'[running] = "valid"
  <2>1. CASE running \notin trusted
    BY <1>1, <1>3, <1>4, <2>1 DEF Supervision, CoreAccepts
  <2>2. CASE running \in trusted /\ img[running] = "pending"
    <3>1. nvs.trial = 1 => nvs.prevPart \in {0, running}
      BY <2>2 DEF Supervision, NotHeld
    <3>2. ClassifyBoot(Facts) \notin {"trial", "slept_in_trial"}
      BY <3>1, Classified
    <3>3. ~HoldPendingImage(img[running] = "pending", ClassifyBoot(Facts))
      BY <3>2 DEF HoldPendingImage
    <3> QED BY <1>3, <1>4, <2>2, <3>3
  <2>3. CASE running \in trusted /\ img[running] # "pending"
    BY <1>3, <1>4, <2>3 DEF Supervision, Probation
  <2> QED BY <2>1, <2>2, <2>3
<1>6. \A p \in Parts : img'[p] = img[p]
                       \/ (p = running /\ img[p] = "pending" /\ img'[p] = "valid")
  BY <1>3, <1>4
<1>7. OnTrial' /\ Complete' /\ WayBack' /\ PendingMarks'
  BY <1>1 DEF Supervision, OnTrial, Complete, WayBack, PendingMarks, Other
<1>8. Applying' /\ Staging' /\ Settled' /\ InTrial' /\ Starting' /\ Waiting'
  BY <1>1, <1>2 DEF Applying, Staging, Settled, InTrial, Starting, Waiting
<1>9. Booting'
  BY <1>1, <1>2 DEF Supervision, Booting
<1>10. Probation'
  BY <1>1, <1>4, <1>5, <1>6 DEF Supervision, Probation
<1>11. NotHeld'
  BY <1>1, <1>4, <1>6 DEF Supervision, NotHeld
<1>12. CoreAccepts'
  BY <1>1, <1>4, <1>5, <1>6 DEF Supervision, CoreAccepts
<1> QED BY <1>7, <1>8, <1>9, <1>10, <1>11, <1>12 DEF Supervision

\* performRollback() from any of its callers selects an accepted image.
LEMMA RollbackStep ==
  ASSUME Supervisable, TypeOK, Supervision, NEW reason \in Reasons,
         PerformRollback(reason), phase \in {"setup", "run"}, phase' = "run",
         nvs.trial = 1, ~waiting
  PROVE  Supervision'
<1>1. /\ todo' = RestoreWrites \o << Put("rbReason", reason), Put("trial", 2) >>
      /\ call' = "restart"
      /\ UNCHANGED <<slot, nvs, running, cause, waiting, offer, trusted>>
  BY DEF PerformRollback, ghost
<1>2. \/ /\ nvs.prevPart \in Parts /\ boot' = nvs.prevPart
         /\ img' = [img EXCEPT ![nvs.prevPart] = "new"]
      \/ /\ nvs.prevPart \notin Parts /\ UNCHANGED <<boot, img>>
  BY DEF PerformRollback, SwitchBack, Supervisable
<1>3. boot' \in trusted
  BY <1>2 DEF Supervision, WayBack, OnTrial, TypeOK, Parts, Other
<1>4. /\ running \in Parts /\ trusted \subseteq Parts
      /\ img \in [Parts -> {"new", "pending", "valid", "aborted"}]
  BY DEF TypeOK
<1>5. nvs.prevPart \in Parts => nvs.prevPart \in trusted
  BY DEF Supervision, WayBack
<1>6. \A p \in Parts : img'[p] = img[p] \/ (p = nvs.prevPart /\ img'[p] = "new")
  BY <1>2, <1>4
<1>7. OnTrial' /\ Complete' /\ WayBack'
  BY <1>1, <1>3 DEF Supervision, OnTrial, Complete, WayBack
<1>8. PendingMarks'
  BY <1>1, RollbackPuts DEF PendingMarks
<1>9. Applying' /\ Staging' /\ Settled' /\ InTrial' /\ Starting' /\ Waiting' /\ Booting'
  BY <1>1 DEF Applying, Staging, Settled, InTrial, Starting, Waiting, Booting
<1>10. Probation'
  BY <1>1, <1>4, <1>6 DEF Supervision, Probation
<1>11. NotHeld'
  BY <1>1, <1>4, <1>6 DEF Supervision, NotHeld
<1>12. CoreAccepts'
  BY <1>1, <1>2, <1>4, <1>5, <1>6 DEF Supervision, CoreAccepts
<1> QED BY <1>7, <1>8, <1>9, <1>10, <1>11, <1>12 DEF Supervision

\* A trial that slept.
LEMMA SleptStep == Supervisable /\ TypeOK /\ Supervision /\ SleptInTrial => Supervision'
<1> SUFFICES ASSUME Supervisable, TypeOK, Supervision, SleptInTrial
             PROVE  Supervision'
  OBVIOUS
<1>1. phase = "setup" /\ phase' = "run" /\ PerformRollback(RstDeepSleep)
  BY DEF SleptInTrial
<1>2. nvs.trial = 1
  BY Classified DEF SleptInTrial
<1>3. ~waiting
  BY <1>1 DEF Supervision, Booting
<1> QED BY <1>1, <1>2, <1>3, RollbackStep, ReasonTyped

\* A trial that times out or cannot arm its timer.
LEMMA TrialEndStep ==
  Supervisable /\ TypeOK /\ Supervision /\ (StartTrialFails \/ ConfirmTimeout) => Supervision'
<1> SUFFICES ASSUME Supervisable, TypeOK, Supervision, StartTrialFails \/ ConfirmTimeout
             PROVE  Supervision'
  OBVIOUS
<1>1. phase = "run" /\ nvs.trial = 1 /\ ~waiting
  <2>1. CASE StartTrialFails
    BY <2>1 DEF StartTrialFails, Supervision, Starting, Booting
  <2>2. CASE ConfirmTimeout
    BY <2>2 DEF ConfirmTimeout, Ready, Supervision, InTrial
  <2> QED BY <2>1, <2>2
<1>2. phase' = phase /\ PerformRollback(ConfirmTimedOut)
  BY DEF StartTrialFails, ConfirmTimeout
<1> QED BY <1>1, <1>2, RollbackStep, ReasonTyped

\* Accepting the running image, by confirmRunning() or without a trial.
LEMMA AcceptStep ==
  ASSUME TypeOK, Supervision, phase = "run", running = boot, ~waiting, ~inTrial',
         img' = MarkedValid, trusted' = trusted \cup {running},
         todo' = ConfirmedWrites, call' = "none",
         UNCHANGED <<slot, boot, nvs, phase, running, cause, waiting, offer>>
  PROVE  Supervision'
<1>1. todo' \in Seq(Writes) /\ Clears(todo')
  BY VerdictPuts, ReasonTyped
<1>2. /\ running \in Parts /\ trusted \subseteq Parts
      /\ img \in [Parts -> {"new", "pending", "valid", "aborted"}]
  BY DEF TypeOK
<1>3. \A p \in Parts : img'[p] = img[p] \/ (p = running /\ img'[p] = "valid")
  BY <1>2 DEF MarkedValid
<1>4. running \notin trusted => img'[running] = "valid"
  BY <1>2 DEF MarkedValid, Supervision, CoreAccepts
<1>5. OnTrial' /\ Complete' /\ WayBack'
  BY DEF Supervision, OnTrial, Complete, WayBack
<1>6. PendingMarks'
  BY <1>1 DEF PendingMarks, Clears
<1>7. Settled'
  BY <1>1 DEF Settled, Clears, Remove, Put
<1>8. Applying' /\ Staging' /\ InTrial' /\ Starting' /\ Waiting' /\ Booting'
  BY DEF Applying, Staging, InTrial, Starting, Waiting, Booting
<1>9. Probation'
  BY <1>2, <1>3, <1>4 DEF Supervision, Probation
<1>10. NotHeld'
  BY <1>2, <1>3, <1>4 DEF Supervision, NotHeld
<1>11. CoreAccepts'
  BY DEF CoreAccepts
<1> QED BY <1>5, <1>6, <1>7, <1>8, <1>9, <1>10, <1>11 DEF Supervision

\* startTrial() with rollback disabled.
LEMMA AcceptUnsupervisedStep ==
  Supervisable /\ TypeOK /\ Supervision /\ AcceptUnsupervised => Supervision'
<1> SUFFICES ASSUME Supervisable, TypeOK, Supervision, AcceptUnsupervised
             PROVE  Supervision'
  OBVIOUS
<1>1. phase = "run" /\ running = boot /\ ~waiting /\ ~inTrial
  BY DEF AcceptUnsupervised, Supervision, Starting, Booting
<1>2. /\ img' = MarkedValid /\ trusted' = trusted \cup {running}
      /\ todo' = ConfirmedWrites /\ call' = "none"
      /\ UNCHANGED <<slot, boot, nvs, phase, running, cause, waiting, inTrial, offer>>
  BY DEF AcceptUnsupervised, Supervisable
<1> QED BY <1>1, <1>2, AcceptStep

\* confirmRunning().
LEMMA ConfirmStep == TypeOK /\ Supervision /\ ConfirmRunning => Supervision'
<1> SUFFICES ASSUME TypeOK, Supervision, ConfirmRunning
             PROVE  Supervision'
  OBVIOUS
<1>1. phase = "run" /\ call = "none" /\ running = boot /\ ~waiting
  BY DEF ConfirmRunning, Ready, Supervision, InTrial
<1>2. /\ img' = MarkedValid /\ trusted' = trusted \cup {running} /\ inTrial' = FALSE
      /\ todo' = ConfirmedWrites
      /\ UNCHANGED <<slot, boot, nvs, phase, running, cause, waiting, call, offer>>
  BY DEF ConfirmRunning
<1> QED BY <1>1, <1>2, AcceptStep

\* Boot validation without a trial.
LEMMA BootValidationStep == TypeOK /\ Supervision /\ BootValidation => Supervision'
<1> SUFFICES ASSUME TypeOK, Supervision, BootValidation
             PROVE  Supervision'
  OBVIOUS
<1> DEFINE outcome == ClassifyBoot(Facts)
<1>1. /\ phase = "setup" /\ phase' = "run" /\ outcome \notin {"trial", "slept_in_trial"}
      /\ todo' = ValidationWrites(outcome) /\ waiting' = (outcome = "waiting")
      /\ UNCHANGED <<slot, boot, img, nvs, running, cause, inTrial, offer, call, trusted>>
  BY DEF BootValidation, flash, ghost
<1>2. call = "none" /\ ~inTrial
  BY <1>1 DEF Supervision, Booting
<1>3. outcome \in Outcomes \ {"trial", "slept_in_trial"}
  BY <1>1, Classified
<1>4. /\ ~(nvs.trial = 1 /\ nvs.prevPart # 0 /\ running # nvs.prevPart)
      /\ outcome = "waiting" <=> /\ nvs.trial = 1 /\ running = nvs.prevPart
                                 /\ cause = RstDeepSleep /\ boot # running
      /\ outcome = "none" => nvs.trial = 0
  BY <1>1, Classified
<1>5. /\ outcome = "waiting" => todo' = <<>>
      /\ outcome = "none" => todo' = <<>> \/ Clears(todo')
      /\ outcome \notin {"none", "waiting"} => Clears(todo')
  BY <1>1, <1>3, ValidationPuts
<1> HIDE DEF outcome
\* On the accepted image the record is gone or going; otherwise the flashed
\* update waits for its reboot.
<1>6. CASE boot \in trusted
  <2>1. running = boot /\ outcome # "waiting" /\ ~waiting'
    BY <1>1, <1>4, <1>6 DEF Supervision, Booting
  <2>2. (todo' = <<>> /\ nvs.trial = 0) \/ Clears(todo')
    BY <1>4, <1>5, <2>1
  <2>3. Settled'
    BY <1>1, <1>6, <2>1, <2>2 DEF Settled, Clears
  <2>4. PendingMarks'
    BY <2>2, NoWrites DEF PendingMarks, Clears
  <2>5. OnTrial' /\ Waiting'
    BY <1>1, <1>2, <1>6, <2>1 DEF OnTrial, Waiting
  <2> QED
    BY <1>1, <1>2, <2>3, <2>4, <2>5
       DEF Supervision, Complete, WayBack, Applying, Staging, InTrial, Starting,
           Booting, Probation, NotHeld, CoreAccepts
<1>7. CASE boot \notin trusted
  <2>1. /\ nvs.trial = 1 /\ nvs.prevPart = Other(boot) /\ Other(boot) \in trusted
        /\ Other(boot) # boot /\ Other(boot) # 0
    BY <1>7 DEF Supervision, OnTrial, TypeOK, Parts, Other
  <2>2. running = Other(boot) /\ cause = RstDeepSleep
    BY <1>1, <1>4, <1>7, <2>1 DEF Supervision, Booting
  <2>3. outcome = "waiting" /\ waiting' = TRUE /\ todo' = <<>>
    BY <1>1, <1>4, <1>5, <2>1, <2>2
  <2>4. OnTrial' /\ PendingMarks' /\ Waiting'
    BY <1>1, <1>2, <1>7, <2>1, <2>2, <2>3, NoWrites DEF OnTrial, PendingMarks, Waiting, Other
  <2> QED
    BY <1>1, <1>2, <2>3, <2>4
       DEF Supervision, Complete, WayBack, Applying, Staging, Settled, InTrial, Starting,
           Booting, Probation, NotHeld, CoreAccepts
<1> QED BY <1>6, <1>7

\* Boot validation finds a trial.
LEMMA EnterTrialStep == TypeOK /\ Supervision /\ EnterTrial => Supervision'
<1> SUFFICES ASSUME TypeOK, Supervision, EnterTrial
             PROVE  Supervision'
  OBVIOUS
<1>1. /\ phase = "setup" /\ phase' = "run" /\ call' = "start_trial"
      /\ todo' \in {<< Remove("staged") >>, <<>>}
      /\ UNCHANGED <<slot, boot, img, nvs, running, cause, waiting, inTrial, offer, trusted>>
  BY DEF EnterTrial, flash, ghost
<1>2. ~waiting /\ ~inTrial
  BY <1>1 DEF Supervision, Booting
<1>3. nvs.trial = 1 /\ nvs.prevPart # 0 /\ running # nvs.prevPart
  BY Classified DEF EnterTrial, Supervised
<1>4. running = boot
  BY <1>1, <1>3 DEF Supervision, Booting, OnTrial, TypeOK, Parts, Other
<1>5. \A w \in Range(todo') : w.key = "staged"
  BY <1>1, UnstagePuts, NoWrites
<1>6. OnTrial' /\ PendingMarks' /\ Starting'
  BY <1>1, <1>2, <1>3, <1>4, <1>5 DEF Supervision, OnTrial, PendingMarks, Starting, Other
<1> QED
  BY <1>1, <1>2, <1>6
     DEF Supervision, Complete, WayBack, Applying, Staging, Settled, InTrial, Waiting,
         Booting, Probation, NotHeld, CoreAccepts

\* Steps that change neither flash nor the record nor what is pending.
LEMMA QuietStep ==
  ASSUME TypeOK, Supervision, StartTrial \/ Check \/ DownloadFails \/ Applied \/ RebootForUpdate
  PROVE  Supervision'
<1>1. /\ phase = "run"
      /\ UNCHANGED <<slot, boot, img, nvs, phase, running, cause, waiting, todo, trusted>>
  BY DEF StartTrial, Check, DownloadFails, Applied, RebootForUpdate, Ready, Supervision,
         Booting, flash, ghost
<1>2. OnTrial' /\ Complete' /\ WayBack' /\ Probation' /\ NotHeld' /\ CoreAccepts'
  BY <1>1 DEF Supervision, OnTrial, Complete, WayBack, Probation, NotHeld, CoreAccepts, Other
<1>3. CASE StartTrial
  <2>1. call = "start_trial" /\ call' = "none" /\ todo = <<>> /\ inTrial'
    BY <1>3 DEF StartTrial
  <2>2. PendingMarks'
    BY <1>1, <2>1, NoWrites DEF PendingMarks
  <2> QED BY <1>1, <1>2, <2>1, <2>2
          DEF Supervision, Applying, Staging, Settled, InTrial, Starting, Waiting, Booting
<1>4. CASE Check
  <2>1. call = "none" /\ UNCHANGED <<call, inTrial>>
    BY <1>4 DEF Check, Ready
  <2> QED BY <1>1, <1>2, <2>1
          DEF Supervision, PendingMarks, Applying, Staging, Settled, InTrial, Starting,
              Waiting, Booting
<1>5. CASE DownloadFails
  <2>1. call = "download" /\ call' = "none" /\ UNCHANGED inTrial
    BY <1>5 DEF DownloadFails
  <2>2. PendingMarks'
    BY <1>1, <2>1, NoWrites DEF Supervision, PendingMarks, Applying
  <2> QED BY <1>1, <1>2, <2>1, <2>2
          DEF Supervision, Applying, Staging, Settled, InTrial, Starting, Waiting, Booting
<1>6. CASE Applied
  <2>1. call = "applied" /\ call' \in {"none", "restart"} /\ todo = <<>> /\ UNCHANGED inTrial
    BY <1>6 DEF Applied
  <2>2. PendingMarks'
    BY <1>1, <2>1, NoWrites DEF PendingMarks
  <2> QED BY <1>1, <1>2, <2>1, <2>2
          DEF Supervision, Applying, Staging, Settled, InTrial, Starting, Waiting, Booting
<1>7. CASE RebootForUpdate
  <2>1. call = "none" /\ call' = "restart" /\ todo = <<>> /\ UNCHANGED inTrial
    BY <1>7 DEF RebootForUpdate, Ready
  <2>2. PendingMarks'
    BY <1>1, <2>1, NoWrites DEF PendingMarks
  <2> QED BY <1>1, <1>2, <2>1, <2>2
          DEF Supervision, Applying, Staging, Settled, InTrial, Starting, Waiting, Booting
<1> QED BY <1>3, <1>4, <1>5, <1>6, <1>7

\* apply() up to the record.
LEMMA DownloadStep ==
  TypeOK /\ Supervision /\ (ApplyDownload \/ DownloadOk) => Supervision'
<1> SUFFICES ASSUME TypeOK, Supervision, ApplyDownload \/ DownloadOk
             PROVE  Supervision'
  OBVIOUS
<1>1. boot \in Parts /\ Other(boot) \in Parts /\ Other(boot) # boot /\ trusted \subseteq Parts
      /\ slot \in [Parts -> Images \cup {NoImage}]
  BY DEF TypeOK, Parts, Other
<1>2. CASE ApplyDownload
  <2>1. /\ phase = "run" /\ call = "none" /\ todo = <<>> /\ ~waiting /\ ~inTrial
        /\ offer # 0 /\ call' = "download"
        /\ slot' = [slot EXCEPT ![Other(running)] = NoImage]
        /\ trusted' = trusted \ {Other(running)}
        /\ UNCHANGED <<boot, img, nvs, phase, running, cause, waiting, inTrial, offer, todo>>
    BY <1>2 DEF ApplyDownload, Ready
  <2>2. running = boot /\ boot \in trusted /\ nvs.trial = 0 /\ Range(todo) = {}
    BY <2>1, NoWrites DEF Supervision, Settled
  <2>3. offer \in Builds
    BY <2>1 DEF TypeOK
  <2>4. Complete'
    BY <1>1, <2>1, <2>2 DEF Supervision, Complete
  <2>5. Applying'
    BY <1>1, <2>1, <2>2, <2>3 DEF Applying, Other
  <2>6. boot \in trusted' /\ running \in trusted' /\ trusted' \subseteq trusted
    BY <1>1, <2>1, <2>2
  <2>7. OnTrial' /\ WayBack' /\ PendingMarks' /\ NotHeld'
    BY <2>1, <2>2, <2>6 DEF OnTrial, WayBack, PendingMarks, NotHeld
  <2>8. Staging' /\ Settled' /\ InTrial' /\ Starting' /\ Waiting' /\ Booting'
    BY <2>1 DEF Staging, Settled, InTrial, Starting, Waiting, Booting
  <2>9. Probation' /\ CoreAccepts'
    BY <2>1, <2>6 DEF Supervision, Probation, CoreAccepts
  <2> QED BY <2>4, <2>5, <2>7, <2>8, <2>9 DEF Supervision
<1>3. CASE DownloadOk
  <2>1. /\ call = "download" /\ call' = "switch"
        /\ todo' = IF RollbackEnabled THEN SnapshotWrites \o NewIdentityWrites ELSE <<>>
        /\ UNCHANGED <<slot, boot, img, nvs, phase, running, cause, waiting, inTrial,
                       offer, trusted>>
    BY <1>3 DEF DownloadOk, flash, ghost
  <2>2. /\ running = boot /\ boot \in trusted /\ Other(boot) \notin trusted
        /\ ~waiting /\ ~inTrial /\ offer \in Builds /\ nvs.trial = 0 /\ phase = "run"
    BY <2>1 DEF Supervision, Applying, Booting
  <2>3. OnTrial' /\ Complete' /\ WayBack' /\ Probation' /\ NotHeld' /\ CoreAccepts'
    BY <2>1, <2>2 DEF Supervision, OnTrial, Complete, WayBack, Probation, NotHeld, CoreAccepts
  <2>4. Applying' /\ Settled' /\ InTrial' /\ Starting' /\ Waiting' /\ Booting'
    BY <2>1, <2>2 DEF Applying, Settled, InTrial, Starting, Waiting, Booting, Other
  <2>5. Staging' /\ PendingMarks'
    BY <1>3, <2>2, StagingStarts
  <2> QED BY <2>3, <2>4, <2>5 DEF Supervision
<1> QED BY <1>2, <1>3

\* apply() gives up before the slot switch.
LEMMA FailStep ==
  TypeOK /\ Supervision /\ (StageFails \/ UpdateEndFails) => Supervision'
<1> SUFFICES ASSUME TypeOK, Supervision, StageFails \/ UpdateEndFails
             PROVE  Supervision'
  OBVIOUS
<1>1. /\ call = "switch" /\ call' = "none"
      /\ UNCHANGED <<slot, boot, img, nvs, phase, running, cause, waiting, inTrial, trusted>>
  BY DEF StageFails, UpdateEndFails, flash, ghost
<1>2. running = boot /\ boot \in trusted /\ ~waiting /\ ~inTrial /\ phase = "run"
  BY <1>1 DEF Supervision, Applying, Booting
<1>3. Clears(todo') \/ (todo' = <<>> /\ nvs.trial = 0)
  <2>1. CASE StageFails
    BY <2>1, RestoreDropPuts, DropPuts DEF StageFails
  <2>2. CASE UpdateEndFails
    BY <1>1, <2>2, RestoreDropPuts DEF UpdateEndFails, Supervision, Staging
  <2> QED BY <2>1, <2>2
<1>4. PendingMarks'
  BY <1>3, NoWrites DEF PendingMarks, Clears
<1>5. Settled'
  BY <1>1, <1>2, <1>3 DEF Settled, Clears
<1> QED
  BY <1>1, <1>2, <1>4, <1>5
     DEF Supervision, OnTrial, Complete, WayBack, Applying, Staging, InTrial, Starting,
         Waiting, Booting, Probation, NotHeld, CoreAccepts

\* The slot switch: the record is complete when it happens.
LEMMA UpdateEndStep == Supervisable /\ TypeOK /\ Supervision /\ UpdateEnd => Supervision'
<1> SUFFICES ASSUME Supervisable, TypeOK, Supervision, UpdateEnd
             PROVE  Supervision'
  OBVIOUS
<1>1. /\ call = "switch" /\ todo = <<>> /\ call' = "applied" /\ waiting' = TRUE
      /\ slot' = [slot EXCEPT ![Other(running)] = offer]
      /\ boot' = Other(running)
      /\ img' = [img EXCEPT ![Other(running)] = "new"]
      /\ trusted' = IF RollbackEnabled THEN trusted ELSE trusted \cup {Other(running)}
      /\ todo' = IF RollbackEnabled THEN << Remove("staged") >> ELSE UnsupervisedWrites
      /\ UNCHANGED <<nvs, phase, running, cause, inTrial, offer>>
  BY DEF UpdateEnd
<1>2. /\ running = boot /\ running \in trusted /\ Other(running) \notin trusted
      /\ ~inTrial /\ offer \in Builds /\ phase = "run"
  BY <1>1 DEF Supervision, Applying, Booting
<1>3. /\ running \in Parts /\ Other(running) \in Parts /\ Other(running) # running
      /\ Other(Other(running)) = running /\ trusted \subseteq Parts
      /\ \A p \in Parts : p = running \/ p = Other(running)
      /\ img \in [Parts -> {"new", "pending", "valid", "aborted"}]
      /\ slot \in [Parts -> Images \cup {NoImage}]
  BY DEF TypeOK, Parts, Other
<1>4. Harmless(todo')
  BY <1>1, UnstagePuts, UnsupervisedPuts DEF Harmless
<1>5. IF RollbackEnabled THEN nvs.trial = 1 /\ nvs.prevPart = running ELSE nvs.trial = 0
  BY <1>1 DEF Supervision, Staging
<1>6. ~RollbackEnabled => ~ResumeOnWake
  BY DEF Supervisable, RollbackEnabled
<1>7. slot'[running] = slot[running] /\ slot'[Other(running)] \in Images
  BY <1>1, <1>2, <1>3 DEF Images
<1>8. img'[running] = img[running] /\ img'[Other(running)] = "new"
  BY <1>1, <1>3
<1>9. OnTrial'
  BY <1>1, <1>2, <1>3, <1>4, <1>5 DEF OnTrial, Harmless
<1>10. Complete'
  BY <1>1, <1>2, <1>3, <1>7 DEF Supervision, Complete
<1>11. WayBack'
  BY <1>1, <1>2, <1>5 DEF WayBack
<1>12. PendingMarks'
  BY <1>4 DEF PendingMarks, Harmless
<1>13. Waiting'
  BY <1>1, <1>2, <1>6 DEF Waiting
<1>14. Applying' /\ Staging' /\ Settled' /\ InTrial' /\ Starting' /\ Booting'
  BY <1>1, <1>2 DEF Applying, Staging, Settled, InTrial, Starting, Booting
<1>15. Probation'
  BY <1>1, <1>2, <1>3, <1>8 DEF Supervision, Probation
<1>16. NotHeld'
  BY <1>1, <1>2, <1>3, <1>5 DEF NotHeld
<1>17. CoreAccepts'
  BY <1>1, <1>2 DEF CoreAccepts
<1> QED BY <1>9, <1>10, <1>11, <1>12, <1>13, <1>14, <1>15, <1>16, <1>17 DEF Supervision

\* Every reset, and the restart at the end of a call.
LEMMA ResetStep ==
  Supervisable /\ TypeOK /\ Supervision /\ (Restart \/ \E c \in Causes : Reset(c)) => Supervision'
<1> SUFFICES ASSUME Supervisable, TypeOK, Supervision, Restart \/ \E c \in Causes : Reset(c)
             PROVE  Supervision'
  OBVIOUS
<1>1. PICK c : /\ PowerLoss(c)
               /\ c = RstDeepSleep => phase = "setup" \/ Ready
               /\ ~RestoredOnProbation
  <2>1. CASE Restart
    <3>1. PowerLoss(RstSw) /\ RstSw # RstDeepSleep /\ call = "restart"
      BY <2>1 DEF Restart, RstSw, RstDeepSleep
    <3>2. ~RestoredOnProbation
      BY <3>1 DEF RestoredOnProbation, Supervision, Booting
    <3> QED BY <3>1, <3>2
  <2>2. CASE \E c \in Causes : Reset(c)
    BY <2>2 DEF Reset, Supervisable
  <2> QED BY <2>1, <2>2
<1>2. /\ phase' = "off" /\ cause' = c /\ ~waiting' /\ ~inTrial' /\ call' = "none"
      /\ todo' = <<>> /\ Range(todo') = {}
      /\ UNCHANGED <<slot, boot, img, nvs, running, trusted>>
  BY <1>1, NoWrites DEF PowerLoss, flash, ghost
<1>3. OnTrial' /\ Complete' /\ WayBack' /\ PendingMarks'
  BY <1>2 DEF Supervision, OnTrial, Complete, WayBack, PendingMarks, Other
<1>4. Applying' /\ Staging' /\ Settled' /\ InTrial' /\ Starting' /\ Waiting'
  BY <1>2 DEF Applying, Staging, Settled, InTrial, Starting, Waiting
\* A device goes to sleep on the boot slot, or with a flashed update waiting.
<1>5. Booting'
  <2>1. c = RstDeepSleep /\ ResumeOnWake => running = boot \/ boot \notin trusted
    BY <1>1 DEF Ready, Supervision, Booting, Waiting, InTrial, Settled
  <2> QED BY <1>2, <2>1 DEF Booting
<1>6. Probation'
  BY <1>1, <1>2 DEF Supervision, Probation, RestoredOnProbation
<1>7. NotHeld'
  BY <1>2 DEF Supervision, NotHeld
<1>8. CoreAccepts'
  BY <1>1, <1>2 DEF Supervision, CoreAccepts, Ready
<1> QED BY <1>3, <1>4, <1>5, <1>6, <1>7, <1>8 DEF Supervision

\* All steps.
LEMMA SupervisionStep == Supervisable /\ IInv /\ [Next]_vars => Supervision'
<1> SUFFICES ASSUME Supervisable, TypeOK, Supervision, [Next]_vars
             PROVE  Supervision'
  BY DEF IInv
<1>1. CASE Write
  BY <1>1, PutKeyStep, QueueReportStep DEF Write
<1>2. CASE Boot
  BY <1>2, BootloaderStep, ResumeStep, CoreInitStep DEF Boot
<1>3. CASE Validate
  BY <1>3, BootValidationStep, SleptStep, EnterTrialStep, QuietStep,
     TrialEndStep, AcceptUnsupervisedStep DEF Validate
<1>4. CASE ConfirmRunning \/ ConfirmTimeout
  BY <1>4, ConfirmStep, TrialEndStep
<1>5. CASE Check \/ RebootForUpdate
  BY <1>5, QuietStep
<1>6. CASE Apply
  BY <1>6, DownloadStep, QuietStep, FailStep, UpdateEndStep DEF Apply
<1>7. CASE Restart \/ \E c \in Causes : Reset(c)
  BY <1>7, ResetStep
<1>8. CASE UNCHANGED vars
  BY <1>8 DEF vars, flash, ram, ghost, Supervision, OnTrial, Complete, WayBack, PendingMarks,
              Applying, Staging, Settled, InTrial, Starting, Waiting, Booting, Probation,
              NotHeld, CoreAccepts, RollbackEnabled, Other
<1> QED BY <1>1, <1>2, <1>3, <1>4, <1>5, <1>6, <1>7, <1>8 DEF Next

-----------------------------------------------------------------------------
(***************************************************************************)
(* The theorems.                                                           *)
(***************************************************************************)

\* Every variable keeps its type, whatever fails and whenever the device is
\* reset: the outbox never exceeds its slots and every write pending at a
\* cut puts a value its key can hold.
THEOREM TypeCorrect == Spec => []TypeOK
<1>1. Init => TypeOK
  BY TypeInit
<1>2. TypeOK /\ [Next]_vars => TypeOK'
  BY TypeStep
<1> QED BY <1>1, <1>2, PTL DEF Spec

\* IInv is inductive.
LEMMA Inductive == ASSUME Supervisable PROVE Spec => []IInv
<1>1. Init => IInv
  BY TypeInit, SupervisionInit DEF IInv
<1>2. IInv /\ [Next]_vars => IInv'
  BY TypeStep, SupervisionStep DEF IInv
<1> QED BY <1>1, <1>2, PTL DEF Spec

\* A power cut at any point leaves the accepted image as the next to boot, or
\* a new one on record as a trial with the accepted one beside it.
THEOREM AlwaysSupervised == ASSUME Supervisable PROVE Spec => []NeverUnsupervised
<1>1. IInv => NeverUnsupervised
  BY DEF IInv, Supervision, OnTrial, Complete, NeverUnsupervised
<1> QED BY <1>1, Inductive, PTL

\* Between library calls an image nobody accepted is in its trial.
THEOREM RunsOnTrial == ASSUME Supervisable PROVE Spec => []RunsSupervised
<1>1. IInv => RunsSupervised
  BY DEF IInv, Supervision, Settled, Waiting, Ready, RunsSupervised
<1> QED BY <1>1, Inductive, PTL

\* The slot the next boot selects holds a complete image: apply() never
\* downloads over it.
THEOREM Bootable == ASSUME Supervisable PROVE Spec => []BootSlotComplete
<1>1. IInv => BootSlotComplete
  BY DEF IInv, Supervision, Complete, BootSlotComplete
<1> QED BY <1>1, Inductive, PTL

-----------------------------------------------------------------------------
(***************************************************************************)
(* TrialInstall implements Install, for any builds and reset causes.       *)
(*                                                                         *)
(* IInv leaves one way out: an accepted image whose trial is still on      *)
(* record could be tried again and rolled back, and then the accepted      *)
(* image would change without a candidate.  OnePrevious says that a live   *)
(* record leaves no accepted image but the previous one, or is on its way  *)
(* out.                                                                    *)
(***************************************************************************)

\* The image was accepted in this boot, its record is being dropped.
Dropping ==
  /\ phase = "run" /\ call = "none" /\ ~waiting /\ ~inTrial
  /\ running \in trusted /\ running # nvs.prevPart

OnePrevious ==
  nvs.trial = 1 => nvs.prevPart = 0 \/ trusted \subseteq {nvs.prevPart} \/ Dropping

\* No reset while an accepted image is still on record.
Dropped == "confirm_cut" \notin Faults

-----------------------------------------------------------------------------
\* The images of the abstract specification.
Accepted  == IF boot \in trusted THEN slot[boot] ELSE slot[Other(boot)]
Candidate == IF boot \in trusted THEN NoImage ELSE slot[boot]

\* Its steps, and steps that change neither.
Same      == UNCHANGED <<Accepted, Candidate>>
Installs  == /\ Candidate = NoImage /\ Candidate' \in Builds /\ Accepted' = Accepted
Replaces  == /\ Candidate = NoImage /\ Accepted \in NoRollback
             /\ Accepted' \in Builds /\ Candidate' = NoImage
Accepts   == /\ Candidate # NoImage /\ Accepted' = Candidate /\ Candidate' = NoImage
Rejects   == /\ Candidate # NoImage /\ Candidate' = NoImage /\ Accepted' = Accepted
Implements == Same \/ Installs \/ Replaces \/ Accepts \/ Rejects

LEMMA AbstractNext ==
  Implements => [Abstract!Next]_<<IF boot \in trusted THEN slot[boot] ELSE slot[Other(boot)],
                                  IF boot \in trusted THEN NoImage ELSE slot[boot]>>
BY DEF Implements, Same, Installs, Replaces, Accepts, Rejects, Accepted, Candidate,
       Abstract!Next, Abstract!Install, Abstract!Replace, Abstract!Accept,
       Abstract!Reject

LEMMA AbstractInit == Init => Abstract!Init
BY DEF Init, Abstract!Init, Images, Factory, Parts

\* Steps that leave the slots, the boot slot and who is trusted alone.
LEMMA Stutters == UNCHANGED <<slot, boot, trusted>> => Same
BY DEF Same, Accepted, Candidate

-----------------------------------------------------------------------------
\* OnePrevious is kept.

LEMMA PreviousInit == Init => OnePrevious
BY DEF Init, OnePrevious, Keys

\* A drop under way is not finished: the mark is still to be removed.
LEMMA DroppingWrites ==
  ASSUME IInv, nvs.trial = 1, Dropping PROVE todo # <<>>
<1>1. Remove("trial") \in Range(todo)
  BY DEF IInv, Supervision, Settled, Dropping
<1>2. QED
  BY <1>1, NoWrites

LEMMA PutKeyPrevious == IInv /\ IInv' /\ OnePrevious /\ PutKey => OnePrevious'
<1> SUFFICES ASSUME IInv, IInv', OnePrevious, PutKey, nvs'.trial = 1
             PROVE  OnePrevious'
  BY DEF OnePrevious
<1> DEFINE w == Head(todo)
<1>1. /\ todo # <<>> /\ w.key # "outbox"
      /\ nvs' = [nvs EXCEPT ![w.key] = w.val]
      /\ UNCHANGED <<phase, running, waiting, inTrial, call, trusted>>
  BY DEF PutKey, ghost
<1>2. w \in Range(todo) /\ w \in Writes
  BY <1>1, PopHead DEF IInv, TypeOK
<1>3. w.key \in Keys
  BY <1>1, <1>2, WriteTyped
<1>4. nvs \in [Keys -> Nat]
  BY DEF IInv, TypeOK
<1> HIDE DEF w
<1>5. CASE w.key = "trial"
  <2>1. nvs'.prevPart = nvs.prevPart /\ w.val = 1
    BY <1>1, <1>4, <1>5 DEF Keys
  <2>2. call = "switch"
    BY <1>2, <1>5, <2>1 DEF IInv, Supervision, PendingMarks
  <2>3. nvs'.prevPart = running
    BY <1>1, <2>2 DEF IInv, Supervision, Staging
  <2>4. trusted \subseteq {running}
    BY <2>2 DEF IInv, TypeOK, Supervision, Applying, Other, Parts
  <2>5. QED
    BY <1>1, <2>3, <2>4 DEF OnePrevious
<1>6. CASE w.key = "prevPart"
  <2>1. nvs.trial = 1 /\ nvs'.prevPart = w.val
    BY <1>1, <1>4, <1>6 DEF Keys
  <2>2. call # "switch"
    BY <1>1, <2>1 DEF IInv, Supervision, Staging
  <2>3. w.val = 0
    BY <1>2, <1>6, <2>2 DEF IInv, Supervision, PendingMarks
  <2>4. QED
    BY <2>1, <2>3 DEF OnePrevious
<1>7. CASE w.key \notin {"trial", "prevPart"}
  <2>1. nvs'.trial = nvs.trial /\ nvs'.prevPart = nvs.prevPart
    BY <1>1, <1>4, <1>7 DEF Keys
  <2>2. QED
    BY <1>1, <2>1 DEF OnePrevious, Dropping
<1>8. QED
  BY <1>5, <1>6, <1>7

LEMMA PreviousStep ==
  ASSUME Dropped, IInv, IInv', OnePrevious, [Next]_vars
  PROVE  OnePrevious'
<1> USE DEF OnePrevious, Dropping, flash, ghost, ram, vars
<1>1. CASE PutKey
  BY <1>1, PutKeyPrevious
<1>2. CASE QueueReport \/ Check \/ UNCHANGED vars
  BY <1>2 DEF QueueReport, Check
\* Before the first library call nothing is being dropped.
<1>3. CASE Bootloader \/ Resume \/ CoreInit \/ BootValidation \/ EnterTrial
  BY <1>3 DEF Bootloader, Resume, CoreInit, BootValidation, EnterTrial
<1>4. CASE SleptInTrial \/ StartTrialFails \/ ConfirmTimeout
  BY <1>4 DEF SleptInTrial, StartTrialFails, ConfirmTimeout, PerformRollback
<1>5. CASE StartTrial \/ DownloadFails \/ DownloadOk \/ StageFails \/ UpdateEndFails
           \/ Applied \/ Restart
  BY <1>5 DEF StartTrial, DownloadFails, DownloadOk, StageFails, UpdateEndFails, Applied,
     Restart, PowerLoss
\* The image is accepted: its record starts to go.
<1>6. CASE AcceptUnsupervised
  BY <1>6 DEF AcceptUnsupervised, IInv, TypeOK, Supervision, Starting, OnTrial, Booting,
     Other, Parts
<1>7. CASE ConfirmRunning
  BY <1>7 DEF ConfirmRunning, Ready, IInv, TypeOK, Supervision, InTrial, OnTrial, Other,
     Parts
\* apply() starts without a record.
<1>8. CASE ApplyDownload
  BY <1>8, NoWrites DEF ApplyDownload, Ready, IInv, Supervision, Settled
<1>9. CASE UpdateEnd
  BY <1>9 DEF UpdateEnd, IInv, Supervision, Staging
<1>10. CASE RebootForUpdate
  BY <1>10, DroppingWrites DEF RebootForUpdate, Ready
<1>11. ASSUME NEW c \in Causes, Reset(c) PROVE OnePrevious'
  BY <1>11, DroppingWrites DEF Reset, PowerLoss, AcceptedOnRecord, Dropped
<1>12. QED
  BY <1>1, <1>2, <1>3, <1>4, <1>5, <1>6, <1>7, <1>8, <1>9, <1>10, <1>11
  DEF Next, Write, Boot, Validate, Apply

-----------------------------------------------------------------------------
\* Every step is one of Install or changes nothing of it.

\* performRollback() rejects the candidate, or there is none and the slot it
\* selects is the boot slot.
LEMMA RollbackImplements ==
  ASSUME IInv, OnePrevious, ~Dropping, nvs.trial = 1, SwitchBack, UNCHANGED <<slot, trusted>>
  PROVE  Implements
<1>1. boot \in Parts /\ trusted \subseteq Parts
  BY DEF IInv, TypeOK
<1>2. CASE nvs.prevPart \in Parts /\ boot' = nvs.prevPart
  <2>1. CASE boot \in trusted
    <3>1. boot' = boot
      BY <1>2, <2>1 DEF OnePrevious, Parts
    <3>2. QED
      BY <3>1, Stutters DEF Implements
  <2>2. CASE boot \notin trusted
    <3>1. boot' = Other(boot) /\ boot' \in trusted /\ slot[boot] \in Images
      BY <1>2, <2>2 DEF IInv, Supervision, OnTrial, Complete
    <3>2. QED
      BY <2>2, <3>1, NoImageIncomplete DEF Implements, Rejects, Accepted, Candidate
  <2>3. QED
    BY <2>1, <2>2
<1>3. CASE UNCHANGED boot
  BY <1>3, Stutters DEF Implements
<1>4. QED
  BY <1>2, <1>3 DEF SwitchBack

\* An image that is accepted is the candidate, or was accepted before.
LEMMA AcceptImplements ==
  ASSUME IInv, running = boot, trusted' = trusted \cup {running}, UNCHANGED <<slot, boot>>
  PROVE  Implements
<1>1. CASE boot \in trusted
  BY <1>1, Stutters DEF Implements
<1>2. CASE boot \notin trusted
  <2>1. slot[boot] \in Images
    BY DEF IInv, Supervision, Complete
  <2>2. QED
    BY <1>2, <2>1, NoImageIncomplete DEF Implements, Accepts, Accepted, Candidate
<1>3. QED
  BY <1>1, <1>2

LEMMA BootloaderImplements == IInv /\ Bootloader => Implements
<1> SUFFICES ASSUME IInv, Bootloader PROVE Implements
  OBVIOUS
<1> DEFINE aborted == [p \in Parts |-> IF img[p] = "pending" THEN "aborted" ELSE img[p]]
           pick == IF aborted[boot] # "aborted" THEN boot
                   ELSE IF aborted[Other(boot)] # "aborted" THEN Other(boot) ELSE 1
<1>1. phase = "off" /\ boot' = pick /\ UNCHANGED <<slot, trusted>>
  BY DEF Bootloader
<1>2. boot \in Parts /\ Other(boot) \in Parts /\ trusted \subseteq Parts
  BY DEF IInv, TypeOK, Parts, Other
<1>3. \A p \in trusted : aborted[p] # "aborted"
  BY <1>1, <1>2 DEF IInv, Supervision, Probation
<1> HIDE DEF aborted
<1>4. CASE pick = boot
  BY <1>1, <1>4, Stutters DEF Implements
<1>5. CASE pick # boot
  <2>1. boot \notin trusted /\ pick = Other(boot) /\ Other(boot) \in trusted
        /\ slot[boot] \in Images
    BY <1>3, <1>5 DEF IInv, Supervision, OnTrial, Complete
  <2> HIDE DEF pick
  <2>2. QED
    BY <1>1, <2>1, NoImageIncomplete DEF Implements, Rejects, Accepted, Candidate
<1>6. QED
  BY <1>4, <1>5

LEMMA ApplyImplements == IInv /\ ApplyDownload => Implements
<1> SUFFICES ASSUME IInv, ApplyDownload PROVE Implements
  OBVIOUS
<1>1. boot = running /\ boot \in trusted
  BY DEF ApplyDownload, Ready, IInv, Supervision, Settled
<1>2. boot \in Parts /\ Other(boot) # boot /\ slot \in [Parts -> Images \cup {NoImage}]
  BY DEF IInv, TypeOK, Parts, Other
<1>3. boot' = boot /\ boot \in trusted' /\ slot'[boot] = slot[boot]
  BY <1>1, <1>2 DEF ApplyDownload
<1>4. QED
  BY <1>1, <1>3 DEF Implements, Same, Accepted, Candidate

LEMMA UpdateEndImplements == IInv /\ UpdateEnd => Implements
<1> SUFFICES ASSUME IInv, UpdateEnd PROVE Implements
  OBVIOUS
<1>1. boot = running /\ boot \in trusted /\ Other(boot) \notin trusted /\ offer \in Builds
  BY DEF UpdateEnd, IInv, Supervision, Applying
<1>2. /\ boot \in Parts /\ Other(boot) \in Parts /\ Other(boot) # boot
      /\ Other(Other(boot)) = boot
      /\ slot \in [Parts -> Images \cup {NoImage}]
  BY DEF IInv, TypeOK, Parts, Other
<1>3. boot' = Other(boot) /\ slot'[boot'] = offer /\ slot'[Other(boot')] = slot[boot]
  BY <1>1, <1>2 DEF UpdateEnd
<1>4. CASE RollbackEnabled
  <2>1. trusted' = trusted
    BY <1>4 DEF UpdateEnd
  <2>2. QED
    BY <1>1, <1>3, <2>1 DEF Implements, Installs, Accepted, Candidate
<1>5. CASE ~RollbackEnabled
  <2>1. boot' \in trusted' /\ slot[boot] \in NoRollback
    BY <1>1, <1>3, <1>5 DEF UpdateEnd, RollbackEnabled
  <2>2. QED
    BY <1>1, <1>3, <2>1 DEF Implements, Replaces, Accepted, Candidate
<1>6. QED
  BY <1>4, <1>5

LEMMA NextImplements == IInv /\ OnePrevious /\ [Next]_vars => Implements
<1> SUFFICES ASSUME IInv, OnePrevious, [Next]_vars PROVE Implements
  OBVIOUS
<1> USE DEF flash, ghost, ram, vars
<1>1. CASE \/ Write \/ Resume \/ CoreInit \/ BootValidation \/ EnterTrial \/ StartTrial
           \/ Check \/ DownloadFails \/ DownloadOk \/ StageFails \/ UpdateEndFails
           \/ Applied \/ RebootForUpdate \/ Restart \/ (\E c \in Causes : Reset(c))
           \/ UNCHANGED vars
  <2>1. UNCHANGED <<slot, boot, trusted>>
    BY <1>1 DEF Write, PutKey, QueueReport, Resume, CoreInit, BootValidation, EnterTrial,
       StartTrial, Check, DownloadFails, DownloadOk, StageFails, UpdateEndFails, Applied,
       RebootForUpdate, Restart, Reset, PowerLoss
  <2>2. QED
    BY <2>1, Stutters DEF Implements
<1>2. CASE SleptInTrial
  <2>1. nvs.trial = 1 /\ ~Dropping
    BY <1>2, Classified DEF SleptInTrial, Dropping, IInv
  <2>2. QED
    BY <1>2, <2>1, RollbackImplements DEF SleptInTrial, PerformRollback
<1>3. CASE StartTrialFails
  <2>1. nvs.trial = 1 /\ ~Dropping
    BY <1>3 DEF StartTrialFails, Dropping, IInv, Supervision, Starting
  <2>2. QED
    BY <1>3, <2>1, RollbackImplements DEF StartTrialFails, PerformRollback
<1>4. CASE ConfirmTimeout
  <2>1. nvs.trial = 1 /\ ~Dropping
    BY <1>4 DEF ConfirmTimeout, Ready, Dropping, IInv, Supervision, InTrial
  <2>2. QED
    BY <1>4, <2>1, RollbackImplements DEF ConfirmTimeout, PerformRollback
<1>5. CASE AcceptUnsupervised
  BY <1>5, AcceptImplements DEF AcceptUnsupervised, IInv, Supervision, Starting
<1>6. CASE ConfirmRunning
  BY <1>6, AcceptImplements DEF ConfirmRunning, Ready, IInv, Supervision, InTrial
<1>7. CASE Bootloader
  BY <1>7, BootloaderImplements
<1>8. CASE ApplyDownload
  BY <1>8, ApplyImplements
<1>9. CASE UpdateEnd
  BY <1>9, UpdateEndImplements
<1>10. QED
  BY <1>1, <1>2, <1>3, <1>4, <1>5, <1>6, <1>7, <1>8, <1>9
  DEF Next, Boot, Validate, Apply

\* The device always has an accepted image to be on, an update is a candidate
\* beside it, and the accepted image changes only when a candidate is accepted
\* or an image that opted out of trials replaces itself.
THEOREM InstallsAsPromised == ASSUME Supervisable, Dropped PROVE Spec => AbstractSpec
<1>1. IInv /\ IInv' /\ OnePrevious /\ [Next]_vars => OnePrevious'
  BY PreviousStep
<1>2. IInv /\ OnePrevious /\ [Next]_vars
        => [Abstract!Next]_<<IF boot \in trusted THEN slot[boot] ELSE slot[Other(boot)],
                             IF boot \in trusted THEN NoImage ELSE slot[boot]>>
  BY NextImplements, AbstractNext
<1>3. QED
  BY <1>1, <1>2, Inductive, PreviousInit, AbstractInit, PTL
  DEF Spec, AbstractSpec, Abstract!Spec

-----------------------------------------------------------------------------
(***************************************************************************)
(* Supervision when esp_ota_set_boot_partition() and marking the image     *)
(* valid may fail, with sketches of both kinds.  The boot slot then says   *)
(* little: a rollback may leave the new image selected, and the record is  *)
(* marked as finished all the same.  What keeps the promise is the state   *)
(* otadata holds for the image, so the invariant is about img.  An image   *)
(* nobody accepted is new and waiting for its first boot, pending and on   *)
(* record while it runs, or aborted and left for good; an accepted one     *)
(* whose sketch has rollback enabled is never aborted.                     *)
(***************************************************************************)

\* The bootloader supervises trials, NVS can be read before setup(), and the
\* image put back is not reset before the core accepts it.
BootloaderHolds ==
  BootloaderRollback /\ Faults \cap {"nvs_init", "restored_cut"} = {}

\* Image q is on record as a trial, and nothing pending touches the record.
OnRecord(q) ==
  /\ nvs.trial = 1 /\ nvs.prevPart = Other(q)
  /\ Harmless(todo)

\* apply() runs on an accepted image and fills the other slot.
Filling ==
  call \in {"download", "switch"} =>
    /\ running \in trusted /\ Other(running) \notin trusted
    /\ slot[Other(running)] = NoImage
    /\ ~waiting /\ ~inTrial /\ offer \in Builds
    /\ call = "download" => nvs.trial = 0 /\ todo = <<>>

\* What runs is complete, and so is every accepted image, of which one is left.
Whole ==
  /\ slot[running] \in Images /\ trusted # {}
  /\ \A p \in trusted : slot[p] \in Images

\* An accepted image with rollback enabled is not given up by the bootloader, ...
Kept ==
  \A p \in trusted : slot[p] \notin NoRollback =>
    \/ img[p] \in {"new", "valid"}
    \/ phase = "boot" /\ running = p /\ img[p] = "pending"

\* ... nor held as a trial after it was put back.
PutBack ==
  nvs.trial = 1 =>
    \A p \in trusted :
      slot[p] \notin NoRollback /\ img[p] \in {"new", "pending"} => nvs.prevPart \in {0, p}

\* A slot is new until the boot after it was selected.
Fresh == \A p \in Parts : img[p] = "new" => boot = p /\ running = Other(p)

\* A new image that has not run yet waits for its reboot, over a sleep too.
Unbooted(q) ==
  img[q] = "new" =>
    /\ OnRecord(q)
    /\ phase \in {"boot", "setup"} => cause = RstDeepSleep
    /\ phase = "run" => waiting

\* One that runs is on record until its trial ends in a restart.
Tried(q) ==
  img[q] = "pending" =>
    /\ running = q /\ call \in {"none", "start_trial", "restart"}
    /\ \/ phase \in {"boot", "setup"}
       \/ phase = "run" /\ call \in {"start_trial", "none"}
       \/ phase = "off" /\ cause = RstDeepSleep /\ ResumeOnWake
       => OnRecord(q)
    /\ phase = "run" /\ call = "none" => inTrial /\ todo = <<>>

\* One that failed is left for the other slot.
Failed(q) == img[q] = "aborted" => boot = Other(q) /\ running = Other(q)

\* An image nobody accepted is in one of these states, beside an accepted one
\* with rollback enabled.
Unaccepted ==
  \A q \in Parts \ trusted : slot[q] \in Images =>
    /\ Other(q) \in trusted /\ slot[Other(q)] \notin NoRollback
    /\ img[q] # "valid"
    /\ Unbooted(q) /\ Tried(q) /\ Failed(q)

\* Between calls, outside a trial and with no update waiting.
AtRest ==
  phase = "run" /\ call = "none" /\ ~waiting /\ ~inTrial =>
    /\ running \in trusted
    /\ nvs.trial = 0 \/ Remove("trial") \in Range(todo)

Flashed ==
  /\ waiting => running \in trusted /\ call \in {"none", "applied", "restart"} /\ ~inTrial
  /\ call = "applied" => waiting /\ Harmless(todo)

Timed ==
  inTrial /\ call # "restart" =>
    call = "none" /\ todo = <<>> /\ nvs.trial = 1 /\ nvs.prevPart = Other(running)

Entering ==
  call = "start_trial" =>
    /\ nvs.trial = 1 /\ nvs.prevPart = Other(running) /\ ~waiting /\ ~inTrial
    /\ \A w \in Range(todo) : w.key = "staged"

Stopped == phase # "run" => call = "none" /\ todo = <<>> /\ ~waiting /\ ~inTrial

Held ==
  /\ PendingMarks /\ Staging /\ WayBack /\ Filling /\ Whole /\ Kept /\ PutBack
  /\ Fresh /\ Unaccepted /\ AtRest /\ Flashed /\ Timed /\ Entering /\ Stopped

\* The two slots.
LEMMA TwoSlots ==
  ASSUME TypeOK
  PROVE  /\ running \in Parts /\ boot \in Parts /\ trusted \subseteq Parts
         /\ \A p \in Parts : /\ Other(p) \in Parts /\ Other(p) # p /\ Other(Other(p)) = p
                             /\ Other(p) # 0 /\ p # 0
         /\ \A p, q \in Parts : q = p \/ q = Other(p)
         /\ img \in [Parts -> {"new", "pending", "valid", "aborted"}]
         /\ slot \in [Parts -> Images \cup {NoImage}]
BY DEF TypeOK, Parts, Other

\* The device leaves the bench so.
LEMMA HeldInit == Init => Held
<1> SUFFICES ASSUME Init PROVE Held
  OBVIOUS
<1>1. Range(todo) = {}
  BY NoWrites DEF Init
<1>2. PendingMarks /\ Staging /\ WayBack /\ Filling /\ PutBack
  BY <1>1 DEF Init, PendingMarks, Staging, WayBack, Filling, PutBack, Keys
<1>3. Whole /\ Kept /\ Fresh
  BY DEF Init, Whole, Kept, Fresh, Images, Parts
<1>4. Unaccepted
  BY NoImageIncomplete DEF Init, Unaccepted, Parts
<1>5. AtRest /\ Flashed /\ Timed /\ Entering /\ Stopped
  BY DEF Init, AtRest, Flashed, Timed, Entering, Stopped
<1> QED BY <1>2, <1>3, <1>4, <1>5 DEF Held

\* What runs without having been accepted is pending, and on record until its
\* trial ends.
LEMMA RunsPending ==
  ASSUME TypeOK, Held, running \notin trusted
  PROVE  /\ img[running] = "pending" /\ Tried(running) /\ ~waiting
         /\ Other(running) \in trusted /\ slot[Other(running)] \notin NoRollback
<1>1. /\ img[running] # "valid" /\ Unbooted(running) /\ Tried(running) /\ Failed(running)
      /\ Other(running) \in trusted /\ slot[Other(running)] \notin NoRollback
  BY TwoSlots DEF Held, Whole, Unaccepted
<1>2. img[running] # "new" /\ img[running] # "aborted" /\ img[running] # "valid"
  BY <1>1, TwoSlots DEF Held, Fresh, Failed
<1>3. img[running] \in {"new", "pending", "valid", "aborted"}
  BY TwoSlots
<1>4. ~waiting
  BY DEF Held, Flashed
<1> QED BY <1>1, <1>2, <1>3, <1>4

\* Steps that leave flash, the reset cause and the history alone keep what is
\* said of flash alone.
LEMMA SameFlash ==
  ASSUME Held, UNCHANGED <<slot, boot, img, running, trusted>>
  PROVE  Whole' /\ Fresh'
BY DEF Held, Whole, Fresh, Other

\* One NVS write, or one report queued, of any call.
LEMMA HeldWrite == TypeOK /\ Held /\ Write => Held'
<1> SUFFICES ASSUME TypeOK, Held, Write
             PROVE  Held'
  OBVIOUS
<1> DEFINE w == Head(todo)
<1>1. /\ todo # <<>> /\ todo' = Tail(todo)
      /\ nvs' = IF w.key = "outbox" THEN nvs ELSE [nvs EXCEPT ![w.key] = w.val]
      /\ UNCHANGED <<slot, boot, img, phase, running, cause, waiting, inTrial, offer,
                     call, trusted>>
  BY DEF Write, PutKey, QueueReport, flash, ghost
<1>2. /\ w \in Writes /\ w \in Range(todo) /\ Range(todo') \subseteq Range(todo)
      /\ \A v \in Range(todo) : v = w \/ v \in Range(todo')
  BY <1>1, PopHead DEF TypeOK
<1>3. w.key \in Keys \/ w.key = "outbox"
  BY <1>2, WriteTyped
<1>4. /\ nvs'.trial = IF w.key = "trial" THEN w.val ELSE nvs.trial
      /\ nvs'.prevPart = IF w.key = "prevPart" THEN w.val ELSE nvs.prevPart
  <2>1. CASE w.key = "outbox"
    BY <1>1, <2>1
  <2>2. CASE w.key # "outbox"
    BY <1>1, <1>3, <2>2 DEF TypeOK, Keys
  <2> QED BY <2>1, <2>2
<1>5. Staging' /\ (call = "switch" => nvs.trial = 0
                     /\ (w.key = "trial" => nvs.prevPart = running))
  <2>1. Staging
    BY DEF Held
  <2>2. call = "switch" => nvs.trial = 0 /\ (w.key = "trial" => nvs.prevPart = running)
    <3>1. CASE todo' = <<>>
      BY <1>1, <2>1, <3>1, StagingPops DEF Put
    <3>2. CASE todo' # <<>>
      BY <1>1, <2>1, <3>2, StagingPops
    <3> QED BY <3>1, <3>2
  <2> QED BY <2>1, <2>2, StagingKept
<1> HIDE DEF w
\* A trial is marked only by staging, which saved the way back first.
<1>6. /\ w.key = "trial" /\ w.val # 0 => w.val = 2 \/ (call = "switch" /\ nvs.prevPart = running)
      /\ w.key = "prevPart" /\ w.val # 0 => call = "switch" /\ nvs.trial = 0
  BY <1>2, <1>5 DEF Held, PendingMarks
<1>7. call = "switch" => running \in trusted /\ \A p \in trusted : p = running
  BY TwoSlots DEF Held, Filling
<1>8. ASSUME NEW q, OnRecord(q)
      PROVE  OnRecord(q)'
  BY <1>1, <1>2, <1>4, <1>8 DEF OnRecord, Harmless, Other
<1>9. Whole' /\ Fresh' /\ Kept'
  BY <1>1, SameFlash DEF Held, Kept
<1>10. WayBack' /\ PutBack'
  <2>1. CASE w.key = "trial"
    BY <1>1, <1>4, <1>6, <1>7, <2>1 DEF WayBack, PutBack
  <2>2. CASE w.key = "prevPart"
    BY <1>1, <1>4, <1>6, <2>2 DEF WayBack, PutBack, Parts
  <2>3. CASE w.key \notin {"trial", "prevPart"}
    BY <1>1, <1>4, <2>3 DEF Held, WayBack, PutBack
  <2> QED BY <2>1, <2>2, <2>3
<1>11. PendingMarks' /\ Filling' /\ Flashed' /\ Timed' /\ Stopped'
  BY <1>1, <1>2 DEF Held, PendingMarks, Filling, Flashed, Timed, Stopped, Harmless, Other
<1>12. Unaccepted'
  <2> SUFFICES ASSUME NEW q \in Parts \ trusted, slot[q] \in Images
               PROVE  Unbooted(q)' /\ Tried(q)' /\ Failed(q)'
    BY <1>1 DEF Held, Unaccepted, Other
  <2>1. Unbooted(q) /\ Tried(q) /\ Failed(q)
    BY DEF Held, Unaccepted
  <2>2. Unbooted(q)'
    BY <1>1, <1>8, <2>1 DEF Unbooted
  <2>3. Tried(q)'
    BY <1>1, <1>8, <2>1 DEF Tried
  <2>4. Failed(q)'
    BY <1>1, <2>1 DEF Failed, Other
  <2> QED BY <2>2, <2>3, <2>4
<1>13. AtRest'
  <2>1. CASE w.key = "trial"
    <3>1. call = "none" => w.val = 0
      BY <1>2, <2>1 DEF Held, PendingMarks
    <3> QED BY <1>1, <1>4, <2>1, <3>1 DEF Held, AtRest
  <2>2. CASE w.key # "trial"
    <3>1. w # Remove("trial")
      BY <2>2 DEF Remove, Put
    <3> QED BY <1>1, <1>2, <1>4, <2>2, <3>1 DEF Held, AtRest
  <2> QED BY <2>1, <2>2
<1>14. Entering'
  BY <1>1, <1>2, <1>4 DEF Held, Entering, Other
<1> QED BY <1>5, <1>9, <1>10, <1>11, <1>12, <1>13, <1>14 DEF Held

\* What is said of a device that is not running, or of a call that is not on.
LEMMA HeldNoCall ==
  ASSUME call' \in {"none", "start_trial", "restart"}
  PROVE  Filling' /\ Staging' /\ (call' # "start_trial" => Entering')
BY DEF Filling, Staging, Entering

\* The bootloader: an image that was pending is given up, for an accepted one.
LEMMA HeldBootloader == TypeOK /\ Held /\ Bootloader => Held'
<1> SUFFICES ASSUME TypeOK, Held, Bootloader
             PROVE  Held'
  OBVIOUS
<1> DEFINE aborted == [p \in Parts |-> IF img[p] = "pending" THEN "aborted" ELSE img[p]]
           pick == IF aborted[boot] # "aborted" THEN boot
                   ELSE IF aborted[Other(boot)] # "aborted" THEN Other(boot) ELSE 1
<1>1. /\ phase = "off" /\ phase' = "boot"
      /\ img' = [aborted EXCEPT ![pick] = IF @ = "new" THEN "pending" ELSE @]
      /\ boot' = pick
      /\ running' = IF slot[pick] # NoImage THEN pick ELSE Other(pick)
      /\ UNCHANGED <<slot, nvs, cause, waiting, inTrial, call, todo, trusted>>
  BY DEF Bootloader
<1>2. call = "none" /\ todo = <<>> /\ ~waiting /\ ~inTrial
  BY <1>1 DEF Held, Stopped
<1>3. pick \in Parts
  BY TwoSlots DEF Parts
<1>4. \A p \in Parts : aborted[p] = IF img[p] = "pending" THEN "aborted" ELSE img[p]
  OBVIOUS
<1>5. aborted[boot] # "aborted" => pick = boot
  OBVIOUS
<1>6. aborted[boot] = "aborted" /\ aborted[Other(boot)] # "aborted" => pick = Other(boot)
  OBVIOUS
<1>7. \A p \in Parts : img'[p] = IF p = pick /\ aborted[p] = "new" THEN "pending" ELSE aborted[p]
  BY <1>1, <1>3
<1> HIDE DEF aborted, pick
<1>8. \A p \in trusted : slot[p] \notin NoRollback => aborted[p] = img[p] /\ img[p] \in {"new", "valid"}
  BY <1>1, <1>4, TwoSlots DEF Held, Kept
<1>9. \A p \in Parts : img[p] = "new" => p = pick /\ running' = IF slot[p] # NoImage THEN p ELSE Other(p)
  BY <1>1, <1>4, <1>5 DEF Held, Fresh
<1>10. Whole'
  <2>1. slot[running'] \in Images
    <3>1. CASE slot[pick] # NoImage
      BY <1>1, <1>3, <3>1, TwoSlots
    <3>2. CASE slot[pick] = NoImage
      <4>1. pick \notin trusted
        BY <3>2, NoImageIncomplete DEF Held, Whole
      <4>2. Other(pick) \in trusted
        BY <1>3, <4>1, TwoSlots DEF Held, Whole
      <4> QED BY <1>1, <3>2, <4>2 DEF Held, Whole
    <3> QED BY <3>1, <3>2
  <2> QED BY <1>1, <2>1 DEF Held, Whole
<1>11. Fresh'
  BY <1>1, <1>4, <1>7, <1>9 DEF Fresh
<1>12. \A p \in trusted : slot[p] # NoImage
  BY NoImageIncomplete DEF Held, Whole
<1>13. Kept' /\ PutBack'
  <2>1. \A p \in trusted : slot[p] \notin NoRollback =>
          img'[p] = "valid" \/ (img'[p] = "pending" /\ img[p] = "new" /\ running' = p)
    BY <1>7, <1>8, <1>9, <1>12, TwoSlots
  <2> QED BY <1>1, <2>1 DEF Held, Kept, PutBack
<1>14. Unaccepted'
  <2> SUFFICES ASSUME NEW q \in Parts \ trusted, slot[q] \in Images
               PROVE  img'[q] # "valid" /\ Unbooted(q)' /\ Tried(q)' /\ Failed(q)'
    BY <1>1 DEF Held, Unaccepted, Other
  <2>1. /\ Other(q) \in trusted /\ slot[Other(q)] \notin NoRollback /\ img[q] # "valid"
        /\ Unbooted(q) /\ Tried(q) /\ Failed(q)
    BY DEF Held, Unaccepted
  <2>2. slot[q] # NoImage
    BY NoImageIncomplete
  <2>3. aborted[Other(q)] # "aborted"
    BY <1>8, <2>1
  <2>4. CASE img[q] = "new"
    <3>1. pick = q /\ running' = q /\ img'[q] = "pending"
      BY <1>4, <1>7, <1>9, <2>2, <2>4
    <3>2. OnRecord(q)'
      BY <1>1, <2>1, <2>4 DEF Unbooted, OnRecord, Other
    <3> QED BY <1>1, <1>2, <3>1, <3>2 DEF Unbooted, Tried, Failed
  <2>5. CASE img[q] \in {"pending", "aborted"}
    <3>1. aborted[q] = "aborted"
      BY <1>4, <2>5
    <3>2. pick = Other(q)
      BY <1>5, <1>6, <2>3, <3>1, TwoSlots
    <3>3. running' = Other(q)
      BY <1>1, <1>12, <2>1, <3>2
    <3>4. img'[q] = "aborted"
      BY <1>7, <3>1
    <3> QED BY <1>1, <3>2, <3>3, <3>4 DEF Unbooted, Tried, Failed, Other
  <2> QED BY <2>1, <2>4, <2>5, TwoSlots
<1>15. WayBack' /\ PendingMarks' /\ AtRest' /\ Flashed' /\ Timed' /\ Stopped'
  BY <1>1, <1>2 DEF Held, WayBack, PendingMarks, AtRest, Flashed, Timed, Stopped
<1> QED BY <1>1, <1>2, <1>10, <1>11, <1>13, <1>14, <1>15, HeldNoCall DEF Held

\* A wake-up that resumes what ran.
LEMMA HeldResume == TypeOK /\ Held /\ Resume => Held'
<1> SUFFICES ASSUME TypeOK, Held, Resume
             PROVE  Held'
  OBVIOUS
<1>1. /\ phase = "off" /\ phase' = "boot" /\ cause = RstDeepSleep /\ ResumeOnWake
      /\ UNCHANGED <<slot, boot, img, nvs, running, cause, waiting, inTrial, offer,
                     call, todo, trusted>>
  BY DEF Resume, flash, ghost
<1>2. Whole' /\ Fresh' /\ PutBack' /\ Kept'
  BY <1>1, SameFlash DEF Held, PutBack, Kept
<1>3. \A q : OnRecord(q) => OnRecord(q)'
  BY <1>1 DEF OnRecord, Harmless, Other
<1>4. \A q : Unbooted(q) /\ Tried(q) /\ Failed(q) => Unbooted(q)' /\ Tried(q)' /\ Failed(q)'
  BY <1>1, <1>3 DEF Unbooted, Tried, Failed, Other
<1>5. Unaccepted'
  BY <1>1, <1>4 DEF Held, Unaccepted, Other
<1>6. WayBack' /\ PendingMarks' /\ AtRest' /\ Flashed' /\ Timed' /\ Stopped'
  BY <1>1 DEF Held, WayBack, PendingMarks, AtRest, Flashed, Timed, Stopped, Harmless
<1> QED BY <1>1, <1>2, <1>5, <1>6, HeldNoCall DEF Held, Stopped

\* The core keeps a trial on probation and accepts the image put back.
LEMMA HeldCoreInit == BootloaderHolds /\ TypeOK /\ Held /\ CoreInit => Held'
<1> SUFFICES ASSUME BootloaderHolds, TypeOK, Held, CoreInit
             PROVE  Held'
  OBVIOUS
<1> DEFINE hold == HoldPendingImage(img[running] = "pending", ClassifyBoot(Facts))
<1>1. /\ phase = "boot" /\ phase' = "setup"
      /\ img' = IF img[running] = "pending" /\ ~hold
                THEN [img EXCEPT ![running] = "valid"] ELSE img
      /\ UNCHANGED <<slot, boot, nvs, running, cause, waiting, inTrial, offer, call,
                     todo, trusted>>
  BY DEF CoreInit, BootloaderHolds, ghost
<1>2. call = "none" /\ todo = <<>> /\ ~waiting /\ ~inTrial
  BY <1>1 DEF Held, Stopped
<1>3. img[running] = "pending" =>
        (hold <=> nvs.trial = 1 /\ nvs.prevPart # 0 /\ running # nvs.prevPart)
  BY Classified DEF HoldPendingImage
<1> HIDE DEF hold
<1>4. \A p \in Parts : img'[p] = img[p] \/ (p = running /\ img[p] = "pending" /\ img'[p] = "valid")
  BY <1>1, TwoSlots
\* An accepted image is not held.
<1>5. running \in trusted /\ slot[running] \notin NoRollback => img'[running] # "pending"
  <2> SUFFICES ASSUME running \in trusted, slot[running] \notin NoRollback,
                      img[running] = "pending"
               PROVE  img'[running] = "valid"
    BY <1>1, TwoSlots
  <2>1. ~hold
    BY <1>3 DEF Held, PutBack
  <2> QED BY <1>1, <2>1, TwoSlots
\* One nobody accepted is.
<1>6. ASSUME running \notin trusted
      PROVE  img' = img
  <2>1. OnRecord(running)
    BY <1>1, <1>6, RunsPending DEF Tried
  <2>2. hold
    BY <1>1, <1>3, <1>6, <2>1, RunsPending, TwoSlots DEF OnRecord
  <2> QED BY <1>1, <2>2
<1>7. Whole' /\ Fresh'
  BY <1>1, <1>4 DEF Held, Whole, Fresh, Other
<1>8. Kept' /\ PutBack'
  BY <1>1, <1>4, <1>5, TwoSlots DEF Held, Kept, PutBack
<1>9. Unaccepted'
  <2> SUFFICES ASSUME NEW q \in Parts \ trusted, slot[q] \in Images
               PROVE  img'[q] # "valid" /\ Unbooted(q)' /\ Tried(q)' /\ Failed(q)'
    BY <1>1 DEF Held, Unaccepted, Other
  <2>1. img[q] # "valid" /\ Unbooted(q) /\ Tried(q) /\ Failed(q)
    BY DEF Held, Unaccepted
  <2>2. img'[q] = img[q]
    BY <1>4, <1>6
  <2>3. OnRecord(q) => OnRecord(q)'
    BY <1>1 DEF OnRecord, Harmless, Other
  <2> QED BY <1>1, <1>2, <2>1, <2>2, <2>3 DEF Unbooted, Tried, Failed, Other
<1>10. WayBack' /\ PendingMarks' /\ AtRest' /\ Flashed' /\ Timed' /\ Stopped'
  BY <1>1, <1>2 DEF Held, WayBack, PendingMarks, AtRest, Flashed, Timed, Stopped
<1> QED BY <1>1, <1>2, <1>7, <1>8, <1>9, <1>10, HeldNoCall DEF Held

\* Boot validation without a trial: what runs is accepted, and its record goes
\* unless an update waits.
LEMMA HeldBootValidation == TypeOK /\ Held /\ BootValidation => Held'
<1> SUFFICES ASSUME TypeOK, Held, BootValidation
             PROVE  Held'
  OBVIOUS
<1> DEFINE outcome == ClassifyBoot(Facts)
<1>1. /\ phase = "setup" /\ phase' = "run" /\ outcome \notin {"trial", "slept_in_trial"}
      /\ todo' = ValidationWrites(outcome) /\ waiting' = (outcome = "waiting")
      /\ UNCHANGED <<slot, boot, img, nvs, running, cause, inTrial, offer, call, trusted>>
  BY DEF BootValidation, flash, ghost
<1>2. call = "none" /\ todo = <<>> /\ ~inTrial
  BY <1>1 DEF Held, Stopped
<1>3. outcome \in Outcomes \ {"trial", "slept_in_trial"}
  BY <1>1, Classified
<1>4. /\ ~(nvs.trial = 1 /\ nvs.prevPart # 0 /\ running # nvs.prevPart)
      /\ outcome = "waiting" <=> /\ nvs.trial = 1 /\ running = nvs.prevPart
                                 /\ cause = RstDeepSleep /\ boot # running
      /\ outcome = "none" => nvs.trial = 0
  BY <1>1, Classified
<1>5. /\ outcome = "waiting" => todo' = <<>>
      /\ outcome = "none" => todo' = <<>> \/ Clears(todo')
      /\ outcome \notin {"none", "waiting"} => Clears(todo')
  BY <1>1, <1>3, ValidationPuts
<1> HIDE DEF outcome
<1>6. running \in trusted
  <2> SUFFICES ASSUME running \notin trusted PROVE FALSE
    OBVIOUS
  <2>1. OnRecord(running)
    BY <1>1, RunsPending DEF Tried
  <2> QED BY <1>4, <2>1, TwoSlots DEF OnRecord
<1>7. waiting' \/ (todo' = <<>> /\ nvs.trial = 0) \/ Clears(todo')
  BY <1>1, <1>4, <1>5
<1>8. PendingMarks'
  BY <1>1, <1>5, <1>7, NoWrites DEF PendingMarks, Clears
<1>9. AtRest' /\ Flashed' /\ Timed' /\ Stopped'
  BY <1>1, <1>2, <1>6, <1>7 DEF AtRest, Flashed, Timed, Stopped, Clears
<1>10. Unaccepted'
  <2> SUFFICES ASSUME NEW q \in Parts \ trusted, slot[q] \in Images
               PROVE  Unbooted(q)' /\ Tried(q)' /\ Failed(q)'
    BY <1>1 DEF Held, Unaccepted, Other
  <2>1. Unbooted(q) /\ Tried(q) /\ Failed(q)
    BY DEF Held, Unaccepted
  <2>2. CASE img[q] = "new"
    <3>1. OnRecord(q) /\ cause = RstDeepSleep
      BY <1>1, <2>1, <2>2 DEF Unbooted
    <3>2. boot = q /\ running = Other(q)
      BY <2>2 DEF Held, Fresh
    <3>3. outcome = "waiting"
      BY <1>4, <3>1, <3>2, TwoSlots DEF OnRecord
    <3>4. OnRecord(q)'
      BY <1>1, <1>5, <3>1, <3>3, NoWrites DEF OnRecord, Harmless, Other
    <3> QED BY <1>1, <2>2, <3>3, <3>4 DEF Unbooted, Tried, Failed
  <2>3. CASE img[q] # "new"
    <3>1. img[q] # "pending"
      BY <1>6, <2>1 DEF Tried
    <3> QED BY <1>1, <2>1, <2>3, <3>1 DEF Unbooted, Tried, Failed, Other
  <2> QED BY <2>2, <2>3
<1>11. Whole' /\ Fresh' /\ WayBack' /\ Kept' /\ PutBack'
  BY <1>1, SameFlash DEF Held, WayBack, Kept, PutBack
<1> QED BY <1>1, <1>2, <1>8, <1>9, <1>10, <1>11, HeldNoCall DEF Held

\* performRollback(), whether or not the boot slot can be switched back.
LEMMA HeldRollback ==
  ASSUME TypeOK, Held, NEW reason \in Reasons, PerformRollback(reason),
         phase \in {"setup", "run"}, phase' = "run", ~waiting,
         call \in {"none", "start_trial"},
         nvs.trial = 1, nvs.prevPart = Other(running)
  PROVE  Held'
<1>1. /\ todo' = RestoreWrites \o << Put("rbReason", reason), Put("trial", 2) >>
      /\ call' = "restart"
      /\ UNCHANGED <<slot, nvs, running, cause, waiting, offer, trusted>>
  BY DEF PerformRollback, ghost
<1>2. nvs.prevPart \in Parts /\ nvs.prevPart \in trusted
  BY TwoSlots DEF Held, WayBack
<1>3. \/ boot' = nvs.prevPart /\ img' = [img EXCEPT ![nvs.prevPart] = "new"]
      \/ UNCHANGED <<boot, img>>
  BY <1>2 DEF PerformRollback, SwitchBack
<1>4. \A p \in Parts : img'[p] = img[p] \/ (p = nvs.prevPart /\ img'[p] = "new")
  BY <1>3, TwoSlots
<1>5. Fresh'
  <2>1. CASE UNCHANGED <<boot, img>>
    BY <1>1, <2>1, SameFlash
  <2>2. CASE boot' = nvs.prevPart /\ img' = [img EXCEPT ![nvs.prevPart] = "new"]
    <3>1. img[running] # "new"
      BY TwoSlots DEF Held, Fresh
    <3>2. img'[running] # "new"
      BY <1>4, <3>1, TwoSlots
    <3>3. \A p \in Parts : img'[p] = "new" => p = Other(running)
      BY <3>2, TwoSlots
    <3> QED BY <1>1, <2>2, <3>3, TwoSlots DEF Fresh, Other
  <2> QED BY <1>3, <2>1, <2>2
<1>6. Whole' /\ WayBack'
  BY <1>1 DEF Held, Whole, WayBack
<1>7. PendingMarks'
  BY <1>1, RollbackPuts DEF PendingMarks
<1>8. Kept'
  BY <1>1, <1>4, TwoSlots DEF Held, Kept
<1>9. PutBack'
  BY <1>1, <1>4, TwoSlots DEF Held, PutBack
<1>10. Unaccepted'
  <2> SUFFICES ASSUME NEW q \in Parts \ trusted, slot[q] \in Images
               PROVE  img'[q] # "valid" /\ Unbooted(q)' /\ Tried(q)' /\ Failed(q)'
    BY <1>1 DEF Held, Unaccepted, Other
  <2>1. q = running
    BY <1>2, TwoSlots
  <2>2. img'[q] = "pending"
    BY <1>2, <1>4, <2>1, RunsPending, TwoSlots
  <2> QED BY <1>1, <2>1, <2>2 DEF Unbooted, Tried, Failed
<1>11. AtRest' /\ Flashed' /\ Timed' /\ Stopped'
  BY <1>1 DEF AtRest, Flashed, Timed, Stopped
<1> QED BY <1>1, <1>5, <1>6, <1>7, <1>8, <1>9, <1>10, <1>11, HeldNoCall DEF Held

\* The trials that end so: one that slept, one that times out, and one whose
\* timer cannot be armed.
LEMMA HeldTrialEnd ==
  TypeOK /\ Held /\ (SleptInTrial \/ StartTrialFails \/ ConfirmTimeout) => Held'
<1> SUFFICES ASSUME TypeOK, Held, SleptInTrial \/ StartTrialFails \/ ConfirmTimeout
             PROVE  Held'
  OBVIOUS
<1>1. CASE SleptInTrial
  <2>1. phase = "setup" /\ phase' = "run" /\ PerformRollback(RstDeepSleep)
    BY <1>1 DEF SleptInTrial
  <2>2. nvs.trial = 1 /\ nvs.prevPart # 0 /\ running # nvs.prevPart
    BY <1>1, Classified DEF SleptInTrial
  <2>3. nvs.prevPart = Other(running)
    BY <2>2, KeyTypes, TwoSlots DEF TypeOK, Keys
  <2>4. ~waiting /\ call = "none"
    BY <2>1 DEF Held, Stopped
  <2> QED BY <2>1, <2>2, <2>3, <2>4, HeldRollback, ReasonTyped
<1>2. CASE StartTrialFails
  <2>1. /\ call = "start_trial" /\ phase' = phase /\ PerformRollback(ConfirmTimedOut)
    BY <1>2 DEF StartTrialFails
  <2>2. phase = "run" /\ ~waiting /\ nvs.trial = 1 /\ nvs.prevPart = Other(running)
    BY <2>1 DEF Held, Stopped, Entering
  <2> QED BY <2>1, <2>2, HeldRollback, ReasonTyped
<1>3. CASE ConfirmTimeout
  <2>1. /\ phase = "run" /\ call = "none" /\ inTrial /\ phase' = phase
        /\ PerformRollback(ConfirmTimedOut)
    BY <1>3 DEF ConfirmTimeout, Ready
  <2>2. ~waiting /\ nvs.trial = 1 /\ nvs.prevPart = Other(running)
    BY <2>1 DEF Held, Flashed, Timed
  <2> QED BY <2>1, <2>2, HeldRollback, ReasonTyped
<1> QED BY <1>1, <1>2, <1>3

\* Boot validation finds a trial.
LEMMA HeldEnterTrial == TypeOK /\ Held /\ EnterTrial => Held'
<1> SUFFICES ASSUME TypeOK, Held, EnterTrial
             PROVE  Held'
  OBVIOUS
<1>1. /\ phase = "setup" /\ phase' = "run" /\ call' = "start_trial"
      /\ todo' \in {<< Remove("staged") >>, <<>>}
      /\ UNCHANGED <<slot, boot, img, nvs, running, cause, waiting, inTrial, offer, trusted>>
  BY DEF EnterTrial, flash, ghost
<1>2. ~waiting /\ ~inTrial /\ todo = <<>>
  BY <1>1 DEF Held, Stopped
<1>3. nvs.trial = 1 /\ nvs.prevPart # 0 /\ running # nvs.prevPart
  BY Classified DEF EnterTrial, Supervised
<1>4. nvs.prevPart = Other(running)
  BY <1>3, KeyTypes, TwoSlots DEF TypeOK, Keys
<1>5. \A w \in Range(todo') : w.key = "staged"
  BY <1>1, UnstagePuts, NoWrites
<1>6. Unaccepted'
  <2> SUFFICES ASSUME NEW q \in Parts \ trusted, slot[q] \in Images
               PROVE  Unbooted(q)' /\ Tried(q)' /\ Failed(q)'
    BY <1>1 DEF Held, Unaccepted, Other
  <2>1. Unbooted(q) /\ Tried(q) /\ Failed(q)
    BY DEF Held, Unaccepted
  <2>2. q = running
    BY <1>3, <1>4, TwoSlots DEF Held, WayBack
  <2>3. img[q] = "pending"
    BY <1>1, <2>2, RunsPending
  <2>4. OnRecord(q)'
    BY <1>1, <1>3, <1>4, <1>5, <2>2 DEF OnRecord, Harmless, Other
  <2> QED BY <1>1, <2>2, <2>3, <2>4 DEF Unbooted, Tried, Failed
<1>7. PendingMarks' /\ Entering'
  BY <1>1, <1>2, <1>3, <1>4, <1>5 DEF PendingMarks, Entering, Other
<1>8. Whole' /\ Fresh' /\ WayBack' /\ Kept' /\ PutBack'
  BY <1>1, SameFlash DEF Held, WayBack, Kept, PutBack
<1>9. AtRest' /\ Flashed' /\ Timed' /\ Stopped'
  BY <1>1, <1>2 DEF AtRest, Flashed, Timed, Stopped
<1> QED BY <1>1, <1>6, <1>7, <1>8, <1>9, HeldNoCall DEF Held

\* Accepting what runs, by confirmRunning() or without a trial; marking it
\* valid may fail where the image disables rollback.
LEMMA HeldAccept ==
  BootloaderHolds /\ TypeOK /\ Held /\ (ConfirmRunning \/ AcceptUnsupervised) => Held'
<1> SUFFICES ASSUME BootloaderHolds, TypeOK, Held, ConfirmRunning \/ AcceptUnsupervised
             PROVE  Held'
  OBVIOUS
<1>1. /\ trusted' = trusted \cup {running} /\ todo' = ConfirmedWrites
      /\ call' = "none" /\ inTrial' = FALSE
      /\ nvs.trial = 1 /\ nvs.prevPart = Other(running) /\ ~waiting /\ phase = "run"
      /\ UNCHANGED <<slot, boot, nvs, phase, running, cause, waiting, offer>>
  <2>1. CASE ConfirmRunning
    <3>1. /\ Ready /\ inTrial /\ inTrial' = FALSE /\ todo' = ConfirmedWrites
          /\ trusted' = trusted \cup {running}
          /\ UNCHANGED <<slot, boot, nvs, phase, running, cause, waiting, offer, call>>
      BY <2>1 DEF ConfirmRunning
    <3> QED BY <3>1 DEF Ready, Held, Timed, Flashed
  <2>2. CASE AcceptUnsupervised
    <3>1. /\ call = "start_trial" /\ call' = "none" /\ todo' = ConfirmedWrites
          /\ trusted' = trusted \cup {running}
          /\ UNCHANGED <<slot, boot, nvs, phase, running, cause, waiting, inTrial, offer>>
      BY <2>2 DEF AcceptUnsupervised
    <3>2. ~inTrial /\ ~waiting /\ nvs.trial = 1 /\ nvs.prevPart = Other(running)
      BY <3>1 DEF Held, Entering
    <3>3. phase = "run"
      BY <3>1 DEF Held, Stopped
    <3>4. inTrial' = FALSE
      BY <3>1, <3>2 DEF TypeOK
    <3> QED BY <3>1, <3>2, <3>3, <3>4
  <2> QED BY <2>1, <2>2
<1>2. /\ \A p \in Parts : p # running => img'[p] = img[p]
      /\ img'[running] = "valid" \/ (img' = img /\ ~RollbackEnabled)
  BY TwoSlots DEF BootloaderHolds, ConfirmRunning, AcceptUnsupervised, MarkedValid
<1>3. Other(running) \in trusted /\ trusted' = Parts
  BY <1>1, TwoSlots DEF Held, WayBack
<1>4. Clears(todo')
  BY <1>1, VerdictPuts, ReasonTyped
<1>5. img[running] # "new"
  BY TwoSlots DEF Held, Fresh
<1>6. Fresh' /\ Whole'
  <2>1. \A p \in Parts : img'[p] = "new" => img[p] = "new"
    BY <1>2, TwoSlots
  <2> QED BY <1>1, <2>1, TwoSlots DEF Held, Fresh, Whole, Other
<1>7. \A p \in Parts : slot[p] \notin NoRollback =>
        img'[p] = "valid" \/ (p # running /\ img'[p] = img[p])
  BY <1>2 DEF RollbackEnabled
<1>8. Kept' /\ PutBack'
  BY <1>1, <1>3, <1>7, TwoSlots DEF Held, Kept, PutBack
<1>9. Unaccepted'
  BY <1>3 DEF Unaccepted
<1>10. WayBack' /\ PendingMarks'
  BY <1>3, <1>4 DEF WayBack, PendingMarks, Clears
<1>11. AtRest' /\ Flashed' /\ Timed' /\ Stopped'
  BY <1>1, <1>4 DEF AtRest, Flashed, Timed, Stopped, Clears
<1> QED BY <1>1, <1>6, <1>8, <1>9, <1>10, <1>11, HeldNoCall DEF Held

\* Steps that change neither flash nor the record nor what is pending.
LEMMA HeldQuiet ==
  ASSUME TypeOK, Held, StartTrial \/ Check \/ DownloadFails \/ Applied \/ RebootForUpdate
  PROVE  Held'
<1>1. /\ UNCHANGED <<slot, boot, img, nvs, phase, running, cause, waiting, todo, trusted>>
      /\ call' \in {"none", "restart"} /\ todo = <<>>
  BY DEF StartTrial, Check, DownloadFails, Applied, RebootForUpdate, Ready, Held, Filling,
         flash, ghost
<1>2. Whole' /\ Fresh' /\ WayBack' /\ Kept' /\ PutBack'
  BY <1>1, SameFlash DEF Held, WayBack, Kept, PutBack
<1>3. PendingMarks'
  BY <1>1, NoWrites DEF PendingMarks
<1>4. phase = "run" /\ phase' = "run"
  BY <1>1 DEF StartTrial, Check, DownloadFails, Applied, RebootForUpdate, Ready, Held, Stopped
<1>5. ~waiting /\ call' = "none" =>
        inTrial' \/ (running \in trusted /\ nvs.trial = 0)
  <2>1. CASE StartTrial
    BY <2>1 DEF StartTrial
  <2>2. CASE Check
    BY <1>1, <2>2, NoWrites DEF Check, Ready, Held, AtRest
  <2>3. CASE DownloadFails
    BY <2>3 DEF DownloadFails, Held, Filling
  <2>4. CASE Applied
    BY <2>4 DEF Applied, Held, Flashed
  <2>5. CASE RebootForUpdate
    BY <2>5 DEF RebootForUpdate
  <2> QED BY <2>1, <2>2, <2>3, <2>4, <2>5
<1>6. AtRest' /\ Stopped'
  BY <1>1, <1>4, <1>5 DEF AtRest, Stopped
<1>7. inTrial' => call' = "restart"
        \/ (~waiting /\ call' = "none" /\ nvs.trial = 1 /\ nvs.prevPart = Other(running))
  <2>1. CASE StartTrial
    BY <2>1 DEF StartTrial, Held, Entering
  <2>2. CASE Check
    BY <2>2 DEF Check, Ready, Held, Timed, Flashed
  <2>3. CASE DownloadFails
    BY <2>3 DEF DownloadFails, Held, Filling
  <2>4. CASE Applied
    BY <2>4 DEF Applied, Held, Flashed
  <2>5. CASE RebootForUpdate
    BY <2>5 DEF RebootForUpdate
  <2> QED BY <2>1, <2>2, <2>3, <2>4, <2>5
<1>8. waiting => ~inTrial'
  BY DEF StartTrial, Check, DownloadFails, Applied, RebootForUpdate, Held, Flashed
<1>9. Flashed' /\ Timed'
  BY <1>1, <1>7, <1>8 DEF Held, Flashed, Timed, Other
<1>10. Unaccepted'
  <2> SUFFICES ASSUME NEW q \in Parts \ trusted, slot[q] \in Images
               PROVE  Unbooted(q)' /\ Tried(q)' /\ Failed(q)'
    BY <1>1 DEF Held, Unaccepted, Other
  <2>1. Unbooted(q) /\ Tried(q) /\ Failed(q)
    BY DEF Held, Unaccepted
  <2>2. OnRecord(q) => OnRecord(q)'
    BY <1>1 DEF OnRecord, Harmless, Other
  <2>3. CASE img[q] = "pending"
    <3>1. call \in {"none", "start_trial"} => OnRecord(q)
      BY <1>4, <2>1, <2>3 DEF Tried
    <3>2. running = q /\ call \in {"none", "start_trial", "restart"}
      BY <2>1, <2>3 DEF Tried
    <3>3. call \in {"none", "start_trial"}
      BY <3>2 DEF StartTrial, Check, DownloadFails, Applied, RebootForUpdate, Ready
    <3>4. OnRecord(q)'
      BY <2>2, <3>1, <3>3
    <3>5. ~waiting
      BY <3>2 DEF Held, Flashed
    <3>6. call' = "none" => inTrial'
      BY <1>5, <3>2, <3>5
    <3> QED BY <1>1, <2>3, <3>2, <3>4, <3>6 DEF Unbooted, Tried, Failed
  <2>4. CASE img[q] # "pending"
    BY <1>1, <2>1, <2>2, <2>4 DEF Unbooted, Tried, Failed, Other
  <2> QED BY <2>3, <2>4
<1> QED BY <1>1, <1>2, <1>3, <1>6, <1>9, <1>10, HeldNoCall DEF Held

\* apply() up to the record.
LEMMA HeldDownload == TypeOK /\ Held /\ (ApplyDownload \/ DownloadOk) => Held'
<1> SUFFICES ASSUME TypeOK, Held, ApplyDownload \/ DownloadOk
             PROVE  Held'
  OBVIOUS
<1>1. CASE ApplyDownload
  <2>1. /\ phase = "run" /\ call = "none" /\ todo = <<>> /\ ~waiting /\ ~inTrial
        /\ offer # 0 /\ call' = "download"
        /\ slot' = [slot EXCEPT ![Other(running)] = NoImage]
        /\ trusted' = trusted \ {Other(running)}
        /\ UNCHANGED <<boot, img, nvs, phase, running, cause, waiting, inTrial, offer, todo>>
    BY <1>1 DEF ApplyDownload, Ready
  <2>2. running \in trusted /\ nvs.trial = 0
    BY <2>1, NoWrites DEF Held, AtRest
  <2>3. running \in trusted' /\ trusted' \subseteq trusted /\ trusted' = {running}
    BY <2>1, <2>2, TwoSlots
  <2>4. slot'[running] = slot[running] /\ slot'[Other(running)] = NoImage
    BY <2>1, TwoSlots
  <2>5. offer \in Builds
    BY <2>1 DEF TypeOK
  <2>6. Filling'
    BY <2>1, <2>2, <2>3, <2>4, <2>5, TwoSlots DEF Filling, Other
  <2>7. Whole' /\ Fresh'
    BY <2>1, <2>2, <2>3, <2>4 DEF Held, Whole, Fresh, Other
  <2>8. Kept' /\ PutBack' /\ WayBack'
    BY <2>1, <2>2, <2>3, <2>4 DEF Held, Kept, PutBack, WayBack
  <2>9. Unaccepted'
    BY <2>3, <2>4, NoImageIncomplete, TwoSlots DEF Unaccepted
  <2>10. PendingMarks' /\ Staging' /\ Entering'
    BY <2>1, NoWrites DEF PendingMarks, Staging, Entering
  <2>11. AtRest' /\ Flashed' /\ Timed' /\ Stopped'
    BY <2>1 DEF AtRest, Flashed, Timed, Stopped
  <2> QED BY <2>6, <2>7, <2>8, <2>9, <2>10, <2>11 DEF Held
<1>2. CASE DownloadOk
  <2>1. /\ call = "download" /\ call' = "switch"
        /\ UNCHANGED <<slot, boot, img, nvs, phase, running, cause, waiting, inTrial,
                       offer, trusted>>
    BY <1>2 DEF DownloadOk, flash, ghost
  <2>2. /\ running \in trusted /\ Other(running) \notin trusted
        /\ slot[Other(running)] = NoImage
        /\ ~waiting /\ ~inTrial /\ offer \in Builds /\ nvs.trial = 0 /\ phase = "run"
    BY <2>1 DEF Held, Filling, Stopped
  <2>3. Staging' /\ PendingMarks'
    BY <1>2, <2>2, StagingStarts
  <2>4. Filling'
    BY <2>1, <2>2 DEF Filling, Other
  <2>5. Whole' /\ Fresh' /\ WayBack' /\ Kept' /\ PutBack'
    BY <2>1, SameFlash DEF Held, WayBack, Kept, PutBack
  <2>6. Unaccepted'
    <3>1. \A q \in Parts \ trusted : q = Other(running)
      BY <2>2, TwoSlots
    <3> QED BY <2>1, <2>2, <3>1, NoImageIncomplete DEF Unaccepted
  <2>7. AtRest' /\ Flashed' /\ Timed' /\ Stopped' /\ Entering'
    BY <2>1, <2>2 DEF AtRest, Flashed, Timed, Stopped, Entering
  <2> QED BY <2>3, <2>4, <2>5, <2>6, <2>7 DEF Held
<1> QED BY <1>1, <1>2

\* apply() gives up before the slot switch.
LEMMA HeldFails == TypeOK /\ Held /\ (StageFails \/ UpdateEndFails) => Held'
<1> SUFFICES ASSUME TypeOK, Held, StageFails \/ UpdateEndFails
             PROVE  Held'
  OBVIOUS
<1>1. /\ call = "switch" /\ call' = "none"
      /\ UNCHANGED <<slot, boot, img, nvs, phase, running, cause, waiting, inTrial, trusted>>
  BY DEF StageFails, UpdateEndFails, flash, ghost
<1>2. /\ running \in trusted /\ Other(running) \notin trusted
      /\ slot[Other(running)] = NoImage /\ ~waiting /\ ~inTrial /\ phase = "run"
  BY <1>1 DEF Held, Filling, Stopped
<1>3. Clears(todo') \/ (todo' = <<>> /\ nvs.trial = 0)
  <2>1. CASE StageFails
    BY <2>1, RestoreDropPuts, DropPuts DEF StageFails
  <2>2. CASE UpdateEndFails
    BY <1>1, <2>2, RestoreDropPuts DEF UpdateEndFails, Held, Staging
  <2> QED BY <2>1, <2>2
<1>4. PendingMarks'
  BY <1>3, NoWrites DEF PendingMarks, Clears
<1>5. AtRest' /\ Flashed' /\ Timed' /\ Stopped'
  BY <1>1, <1>2, <1>3 DEF AtRest, Flashed, Timed, Stopped, Clears
<1>6. Whole' /\ Fresh' /\ WayBack' /\ Kept' /\ PutBack'
  BY <1>1, SameFlash DEF Held, WayBack, Kept, PutBack
<1>7. Unaccepted'
  <2>1. \A q \in Parts \ trusted : q = Other(running)
    BY <1>2, TwoSlots
  <2> QED BY <1>1, <1>2, <2>1, NoImageIncomplete DEF Unaccepted
<1> QED BY <1>1, <1>4, <1>5, <1>6, <1>7, HeldNoCall DEF Held

\* The slot switch: the record is complete when it happens, and an image that
\* disables rollback keeps none.
LEMMA HeldUpdateEnd == TypeOK /\ Held /\ UpdateEnd => Held'
<1> SUFFICES ASSUME TypeOK, Held, UpdateEnd
             PROVE  Held'
  OBVIOUS
<1>1. /\ call = "switch" /\ todo = <<>> /\ call' = "applied" /\ waiting' = TRUE
      /\ slot' = [slot EXCEPT ![Other(running)] = offer]
      /\ boot' = Other(running)
      /\ img' = [img EXCEPT ![Other(running)] = "new"]
      /\ trusted' = IF RollbackEnabled THEN trusted ELSE trusted \cup {Other(running)}
      /\ todo' = IF RollbackEnabled THEN << Remove("staged") >> ELSE UnsupervisedWrites
      /\ UNCHANGED <<nvs, phase, running, cause, inTrial, offer>>
  BY DEF UpdateEnd
<1>2. /\ running \in trusted /\ Other(running) \notin trusted
      /\ ~inTrial /\ offer \in Builds /\ phase = "run"
  BY <1>1 DEF Held, Filling, Stopped
<1>3. Harmless(todo')
  BY <1>1, UnstagePuts, UnsupervisedPuts DEF Harmless
<1>4. IF RollbackEnabled THEN nvs.trial = 1 /\ nvs.prevPart = running ELSE nvs.trial = 0
  BY <1>1 DEF Held, Staging
<1>5. slot'[running] = slot[running] /\ slot'[Other(running)] \in Images
  BY <1>1, <1>2, TwoSlots DEF Images
<1>6. img'[running] = img[running] /\ img'[Other(running)] = "new" /\ img[running] # "new"
  BY <1>1, TwoSlots DEF Held, Fresh
<1>7. Whole'
  BY <1>1, <1>2, <1>5 DEF Held, Whole
<1>8. Fresh'
  BY <1>1, <1>6, TwoSlots DEF Fresh
<1>9. \A p \in trusted : p = running
  BY <1>2, TwoSlots
<1>10. Kept'
  <2>1. slot[running] \notin NoRollback => img[running] = "valid"
    BY <1>2, <1>6 DEF Held, Kept
  <2> QED BY <1>1, <1>5, <1>6, <1>9, <2>1 DEF Kept
<1>11. PutBack' /\ WayBack'
  BY <1>1, <1>2, <1>4, <1>9 DEF PutBack, WayBack
<1>12. Unaccepted'
  <2> SUFFICES ASSUME NEW q \in Parts \ trusted'
               PROVE  /\ Other(q) \in trusted' /\ slot'[Other(q)] \notin NoRollback
                      /\ img'[q] # "valid"
                      /\ Unbooted(q)' /\ Tried(q)' /\ Failed(q)'
    BY DEF Unaccepted, Other
  <2>1. q = Other(running) /\ RollbackEnabled /\ Other(q) = running
    BY <1>1, <1>2, TwoSlots
  <2>2. OnRecord(q)'
    BY <1>1, <1>3, <1>4, <2>1 DEF OnRecord, Harmless, Other
  <2>3. slot'[running] \notin NoRollback
    BY <1>5, <2>1 DEF RollbackEnabled
  <2> QED BY <1>1, <1>2, <1>6, <2>1, <2>2, <2>3 DEF Unbooted, Tried, Failed
<1>13. PendingMarks' /\ Flashed'
  BY <1>1, <1>2, <1>3 DEF PendingMarks, Flashed, Harmless
<1>14. Filling' /\ Staging' /\ AtRest' /\ Timed' /\ Entering' /\ Stopped'
  BY <1>1, <1>2 DEF Filling, Staging, AtRest, Timed, Entering, Stopped
<1> QED BY <1>7, <1>8, <1>10, <1>11, <1>12, <1>13, <1>14 DEF Held

\* Every reset, and the restart at the end of a call.
LEMMA HeldReset ==
  BootloaderHolds /\ TypeOK /\ Held /\ (Restart \/ \E c \in Causes : Reset(c)) => Held'
<1> SUFFICES ASSUME BootloaderHolds, TypeOK, Held, Restart \/ \E c \in Causes : Reset(c)
             PROVE  Held'
  OBVIOUS
<1>1. PICK c : /\ PowerLoss(c)
               /\ c = RstDeepSleep => phase = "setup" \/ Ready
               /\ ~RestoredOnProbation /\ phase # "off"
  <2>1. CASE Restart
    <3>1. PowerLoss(RstSw) /\ RstSw # RstDeepSleep /\ call = "restart"
      BY <2>1 DEF Restart, RstSw, RstDeepSleep
    <3>2. phase = "run"
      BY <3>1 DEF Held, Stopped
    <3> QED BY <3>1, <3>2 DEF RestoredOnProbation
  <2>2. CASE \E c \in Causes : Reset(c)
    BY <2>2 DEF Reset, BootloaderHolds
  <2> QED BY <2>1, <2>2
<1>2. /\ phase' = "off" /\ cause' = c /\ waiting' = FALSE /\ inTrial' = FALSE
      /\ call' = "none" /\ todo' = <<>> /\ Range(todo') = {}
      /\ UNCHANGED <<slot, boot, img, nvs, running, trusted>>
  BY <1>1, NoWrites DEF PowerLoss, flash, ghost
<1>3. Whole' /\ Fresh' /\ WayBack' /\ PutBack'
  BY <1>2, SameFlash DEF Held, WayBack, PutBack
<1>4. Kept'
  BY <1>1, <1>2 DEF Held, Kept, RestoredOnProbation
<1>5. Unaccepted'
  <2> SUFFICES ASSUME NEW q \in Parts \ trusted, slot[q] \in Images
               PROVE  Unbooted(q)' /\ Tried(q)' /\ Failed(q)'
    BY <1>2 DEF Held, Unaccepted, Other
  <2>1. Unbooted(q) /\ Tried(q) /\ Failed(q)
    BY DEF Held, Unaccepted
  <2>2. OnRecord(q) => OnRecord(q)'
    BY <1>2 DEF OnRecord, Harmless, Other
  <2>3. img[q] = "pending" /\ c = RstDeepSleep => OnRecord(q)
    BY <1>1, <2>1 DEF Tried, Ready
  <2> QED BY <1>2, <2>1, <2>2, <2>3 DEF Unbooted, Tried, Failed, Other
<1>6. PendingMarks' /\ AtRest' /\ Flashed' /\ Timed' /\ Stopped'
  BY <1>2 DEF PendingMarks, AtRest, Flashed, Timed, Stopped
<1> QED BY <1>2, <1>3, <1>4, <1>5, <1>6, HeldNoCall DEF Held

\* All steps.
LEMMA HeldStep == BootloaderHolds /\ TypeOK /\ Held /\ [Next]_vars => Held'
<1> SUFFICES ASSUME BootloaderHolds, TypeOK, Held, [Next]_vars
             PROVE  Held'
  OBVIOUS
<1>1. CASE Write
  BY <1>1, HeldWrite
<1>2. CASE Boot
  BY <1>2, HeldBootloader, HeldResume, HeldCoreInit DEF Boot
<1>3. CASE Validate
  BY <1>3, HeldBootValidation, HeldTrialEnd, HeldEnterTrial, HeldQuiet, HeldAccept DEF Validate
<1>4. CASE ConfirmRunning \/ ConfirmTimeout
  BY <1>4, HeldAccept, HeldTrialEnd
<1>5. CASE Check \/ RebootForUpdate
  BY <1>5, HeldQuiet
<1>6. CASE Apply
  BY <1>6, HeldDownload, HeldQuiet, HeldFails, HeldUpdateEnd DEF Apply
<1>7. CASE Restart \/ \E c \in Causes : Reset(c)
  BY <1>7, HeldReset
<1>8. CASE UNCHANGED vars
  <2>1. UNCHANGED <<slot, boot, img, nvs, phase, running, cause, waiting, inTrial,
                    offer, call, todo, trusted>>
    BY <1>8 DEF vars, flash, ram, ghost
  <2>2. Unaccepted'
    BY <2>1 DEF Held, Unaccepted, Unbooted, Tried, Failed, OnRecord, Harmless, Other
  <2> QED BY <2>1, <2>2 DEF Held, PendingMarks, Staging, WayBack, Filling, Whole, Kept,
            PutBack, Fresh, AtRest, Flashed, Timed, Entering, Stopped, Harmless,
            RollbackEnabled, Other
<1> QED BY <1>1, <1>2, <1>3, <1>4, <1>5, <1>6, <1>7, <1>8 DEF Next

\* Between library calls an image nobody accepted is in its trial, whatever
\* esp_ota_set_boot_partition() and marking the image valid return, whichever
\* images disable rollback, and wherever else the device is reset.
THEOREM RunsHeld == ASSUME BootloaderHolds PROVE Spec => []RunsSupervised
<1>1. Init => TypeOK /\ Held
  BY TypeInit, HeldInit
<1>2. TypeOK /\ Held /\ [Next]_vars => (TypeOK /\ Held)'
  BY TypeStep, HeldStep
<1>3. TypeOK /\ Held => RunsSupervised
  <2> SUFFICES ASSUME TypeOK, Held, Ready, running \notin trusted
               PROVE  inTrial
    BY DEF RunsSupervised
  <2> QED BY DEF Ready, Held, Flashed, AtRest
<1> QED BY <1>1, <1>2, <1>3, PTL DEF Spec

\* An image nobody accepted that was reset is not started again: the
\* bootloader returns to an accepted one, complete and with rollback enabled.
THEOREM GivenUp == ASSUME BootloaderHolds PROVE Spec => ReturnsAfterReset
<1>1. Init => TypeOK /\ Held
  BY TypeInit, HeldInit
<1>2. TypeOK /\ Held /\ [Next]_vars => (TypeOK /\ Held)'
  BY TypeStep, HeldStep
<1>3. TypeOK /\ Held => [Bootloader /\ running \notin trusted => running' \in trusted]_vars
  <2> SUFFICES ASSUME TypeOK, Held, Bootloader, running \notin trusted
               PROVE  running' \in trusted
    OBVIOUS
  <2> DEFINE aborted == [p \in Parts |-> IF img[p] = "pending" THEN "aborted" ELSE img[p]]
             pick == IF aborted[boot] # "aborted" THEN boot
                     ELSE IF aborted[Other(boot)] # "aborted" THEN Other(boot) ELSE 1
  <2>1. running' = IF slot[pick] # NoImage THEN pick ELSE Other(pick)
    BY DEF Bootloader
  <2>2. /\ img[running] = "pending" /\ Other(running) \in trusted
        /\ slot[Other(running)] \notin NoRollback
    BY RunsPending
  <2>3. aborted[running] = "aborted"
    BY <2>2, TwoSlots
  <2>4. aborted[Other(running)] # "aborted"
    BY <2>2, TwoSlots DEF Held, Kept, Bootloader
  <2>5. pick = Other(running)
    BY <2>3, <2>4, TwoSlots
  <2>6. slot[Other(running)] # NoImage
    BY <2>2, NoImageIncomplete DEF Held, Whole
  <2> QED BY <2>1, <2>2, <2>5, <2>6
<1> QED BY <1>1, <1>2, <1>3, PTL DEF Spec, ReturnsAfterReset
=============================================================================
