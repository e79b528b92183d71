-------------------------- MODULE OutboxSendProofs --------------------------
(***************************************************************************)
(* No report is lost, and the oldest goes first, for any number of tasks.  *)
(*                                                                         *)
(* NoReportLost speaks of the blob in NVS; the next save overwrites it     *)
(* with the outbox in RAM, so Kept says the same of RAM, and that only an  *)
(* answered report is popped.  Ordered says that reports leave in the      *)
(* order of their numbers.                                                 *)
(***************************************************************************)
EXTENDS OutboxSend, SequenceTheorems, TLAPS

Popping == {"p_lock", "p_pop"}

Kept ==
  /\ saved \subseteq Range(outbox) \cup answered \cup dropped
  /\ NoReportLost
  /\ \A t \in Tasks : place[t] \in Popping => hand[t] \in answered

Ascending(box) == \A i, j \in 1..Len(box) : i < j => box[i] < box[j]
UpTo(box, n)   == \A i \in 1..Len(box) : box[i] <= n

Ordered ==
  /\ Ascending(outbox) /\ UpTo(outbox, queued)
  /\ Ascending(Loaded(stored)) /\ UpTo(Loaded(stored), queued)
  /\ \A t \in Tasks : hand[t] <= queued
  /\ OldestFirst

-----------------------------------------------------------------------------
\* sotaOutboxPush(): the outbox stays a sequence of at most Slots reports.
LEMMA PushType ==
  ASSUME NEW box \in Seq(Nat), Len(box) <= Slots, NEW r \in Nat
  PROVE  Push(box, r) \in Seq(Nat) /\ Len(Push(box, r)) <= Slots
<1>1. CASE Len(box) = Slots
  <2> DEFINE tail == Tail(box)
             new  == Append(tail, r)
  <2>1. Len(box) = 2 /\ box # <<>>
    BY <1>1 DEF Slots
  <2>2. tail \in Seq(Nat) /\ Len(tail) = Len(box) - 1
    BY <2>1, HeadTailProperties
  <2>3. Push(box, r) = new
    BY <1>1 DEF Push
  <2> HIDE DEF tail
  <2>4. new \in Seq(Nat) /\ Len(new) = Len(tail) + 1
    BY <2>2, AppendProperties
  <2> HIDE DEF new
  <2>5. QED
    BY <2>1, <2>2, <2>3, <2>4 DEF Slots
<1>2. CASE Len(box) # Slots
  <2> DEFINE new == Append(box, r)
  <2>1. Push(box, r) = new
    BY <1>2 DEF Push
  <2>2. new \in Seq(Nat) /\ Len(new) = Len(box) + 1 /\ Len(box) \in Nat
    BY AppendProperties, LenProperties
  <2> HIDE DEF new
  <2>3. Len(box) < Slots
    <3>1. Slots \in Nat
      BY DEF Slots
    <3>2. QED
      BY <1>2, <2>2, <3>1
  <2>4. Len(new) <= Slots
    BY <2>2, <2>3 DEF Slots
  <2>5. QED
    BY <2>1, <2>2, <2>4
<1>3. QED
  BY <1>1, <1>2

\* A newer report goes to the back.
LEMMA PushOrder ==
  ASSUME NEW box \in Seq(Nat), Len(box) <= Slots, NEW n \in Nat,
         Ascending(box), UpTo(box, n)
  PROVE  Ascending(Push(box, n + 1)) /\ UpTo(Push(box, n + 1), n + 1)
<1>1. CASE Len(box) = Slots
  <2> DEFINE tail == Tail(box)
             new  == Append(tail, n + 1)
  <2>1. Len(box) = 2 /\ box # <<>>
    BY <1>1 DEF Slots
  <2>2. /\ tail \in Seq(Nat) /\ Len(tail) = Len(box) - 1
        /\ \A i \in 1..Len(tail) : tail[i] = box[i + 1]
    BY <2>1, HeadTailProperties
  <2>3. Push(box, n + 1) = new
    BY <1>1 DEF Push
  <2> HIDE DEF tail
  <2>4. /\ Len(new) = Len(tail) + 1 /\ new[Len(tail) + 1] = n + 1
        /\ \A i \in 1..Len(tail) : new[i] = tail[i]
    BY <2>2, AppendProperties, n + 1 \in Nat
  <2> HIDE DEF new
  <2>5. Len(new) = 2 /\ new[1] = box[2] /\ new[2] = n + 1
    BY <2>1, <2>2, <2>4
  <2>6. box[2] \in Nat /\ box[2] <= n
    <3>1. 2 \in 1..Len(box)
      BY <2>1
    <3>2. QED
      BY <3>1, ElementOfSeq DEF UpTo
  <2>7. \A i \in 1..Len(new) : i = 1 \/ i = 2
    BY <2>5
  <2>8. Ascending(new) /\ UpTo(new, n + 1)
    BY <2>5, <2>6, <2>7 DEF Ascending, UpTo
  <2>9. QED
    BY <2>3, <2>8
<1>2. CASE Len(box) # Slots
  <2>1. Push(box, n + 1) = Append(box, n + 1)
    BY <1>2 DEF Push
  <2> DEFINE new == Append(box, n + 1)
  <2>2. /\ Len(new) = Len(box) + 1 /\ Len(box) \in Nat
        /\ new[Len(box) + 1] = n + 1
        /\ \A i \in 1..Len(box) : new[i] = box[i] /\ box[i] \in Nat
    BY AppendProperties, LenProperties
  <2> HIDE DEF new
  <2>3. \A i \in 1..Len(new) : i \in 1..Len(box) \/ i = Len(box) + 1
    BY <2>2
  <2>4. UpTo(new, n + 1)
    BY <2>2, <2>3 DEF UpTo
  <2>5. ASSUME NEW i \in 1..Len(new), NEW j \in 1..Len(new), i < j
        PROVE  new[i] < new[j]
    <3>1. i \in 1..Len(box)
      BY <2>2, <2>5
    <3>2. CASE j \in 1..Len(box)
      BY <2>2, <2>5, <3>1, <3>2 DEF Ascending
    <3>3. CASE j = Len(box) + 1
      BY <2>2, <3>1, <3>3 DEF UpTo
    <3>4. QED
      BY <2>3, <3>2, <3>3
  <2>6. QED
    BY <2>1, <2>4, <2>5 DEF new, Ascending
<1>3. QED
  BY <1>1, <1>2

\* Every report is the new one or was there.
LEMMA PushKeeps ==
  ASSUME NEW box \in Seq(Nat), Len(box) <= Slots, NEW r \in Nat
  PROVE  \A i \in DOMAIN Push(box, r) :
           Push(box, r)[i] = r \/ \E j \in DOMAIN box : Push(box, r)[i] = box[j]
<1> DEFINE rest == IF Len(box) = Slots THEN Tail(box) ELSE box
           new  == Append(rest, r)
<1>1. Push(box, r) = new
  BY DEF Push
<1>2. DOMAIN box = 1..Len(box) /\ Len(box) \in Nat
  BY LenProperties
<1>3. rest \in Seq(Nat) /\ \A i \in 1..Len(rest) : \E j \in DOMAIN box : rest[i] = box[j]
  <2>1. CASE Len(box) = Slots
    <3>1. box # <<>>
      BY <2>1 DEF Slots
    <3>2. /\ Tail(box) \in Seq(Nat) /\ Len(Tail(box)) = Len(box) - 1
          /\ \A i \in 1..Len(Tail(box)) : Tail(box)[i] = box[i + 1]
      BY <3>1, HeadTailProperties
    <3>3. QED
      BY <1>2, <2>1, <3>2
  <2>2. CASE Len(box) # Slots
    BY <1>2, <2>2
  <2>3. QED
    BY <2>1, <2>2
<1> HIDE DEF rest
<1>4. /\ new \in Seq(Nat) /\ Len(new) = Len(rest) + 1 /\ new[Len(rest) + 1] = r
      /\ \A i \in 1..Len(rest) : new[i] = rest[i]
  BY <1>3, AppendProperties
<1>5. DOMAIN new = 1..Len(new) /\ Len(rest) \in Nat
  BY <1>3, <1>4, LenProperties
<1> HIDE DEF new
<1>6. \A i \in DOMAIN new : i \in 1..Len(rest) \/ i = Len(rest) + 1
  BY <1>4, <1>5
<1>7. \A i \in DOMAIN new : new[i] = r \/ \E j \in DOMAIN box : new[i] = box[j]
  BY <1>3, <1>4, <1>6
<1>8. QED
  BY <1>1, <1>7

\* sotaOutboxPop(): every report but the first stays, in its order.
LEMMA PopKeeps ==
  ASSUME NEW box \in Seq(Nat), box # <<>>, NEW n \in Nat
  PROVE  /\ Pop(box) \in Seq(Nat) /\ Len(Pop(box)) <= Len(box)
         /\ Range(box) \subseteq Range(Pop(box)) \cup {box[1]}
         /\ \A m \in Nat : UpTo(box, m) => UpTo(Pop(box), m)
         /\ Ascending(box) => Ascending(Pop(box))
         /\ \A i \in 1..Len(Pop(box)) : \E j \in 1..Len(box) : Pop(box)[i] = box[j]
<1>1. /\ Tail(box) \in Seq(Nat) /\ Len(Tail(box)) = Len(box) - 1
      /\ Len(box) \in Nat /\ Len(box) > 0
      /\ \A i \in 1..(Len(box) - 1) : Tail(box)[i] = box[i + 1]
  BY HeadTailProperties, LenProperties
<1>2. Range(box) \subseteq Range(Tail(box)) \cup {box[1]}
  <2>1. DOMAIN box = 1..Len(box) /\ DOMAIN Tail(box) = 1..Len(Tail(box))
    BY <1>1, LenProperties
  <2>2. ASSUME NEW i \in 1..Len(box), i # 1
        PROVE  \E j \in 1..Len(Tail(box)) : box[i] = Tail(box)[j]
    <3>1. i - 1 \in 1..Len(Tail(box)) /\ Tail(box)[i - 1] = box[i]
      BY <1>1, <2>2
    <3>2. QED
      BY <3>1
  <2>3. ASSUME NEW i \in 1..Len(box) PROVE box[i] \in Range(Tail(box)) \cup {box[1]}
    BY <2>1, <2>2 DEF Range
  <2>4. QED
    BY <2>1, <2>3 DEF Range
<1>3. \A i \in 1..Len(Tail(box)) : i + 1 \in 1..Len(box) /\ Tail(box)[i] = box[i + 1]
  BY <1>1
<1>4. Ascending(box) => Ascending(Tail(box))
  BY <1>1, <1>3 DEF Ascending
<1>5. QED
  BY <1>1, <1>2, <1>3, <1>4 DEF Pop, UpTo

\* The reports of earlier boots.
LEMMA IsNumbering ==
  ASSUME NEW n \in Nat
  PROVE  [i \in 1..n |-> i] \in Seq(Nat) /\ Len([i \in 1..n |-> i]) = n
OBVIOUS

LEMMA LoadedType ==
  ASSUME stored \in Seq(Nat) \cup {Unreadable}, Len(Loaded(stored)) <= Slots
  PROVE  Loaded(stored) \in Seq(Nat)
BY DEF Loaded

-----------------------------------------------------------------------------
Typed == TypeOK /\ Len(Loaded(stored)) <= Slots

LEMMA TypeInit == Init => Typed
<1> SUFFICES ASSUME Init PROVE Typed
  OBVIOUS
<1>1. PICK n \in 0..Slots :
        /\ stored \in {[i \in 1..n |-> i]} \cup (IF n = 0 THEN {Unreadable} ELSE {})
        /\ queued = n /\ saved = 1..n
  BY DEF Init
<1>2. [i \in 1..n |-> i] \in Seq(Nat) /\ Len([i \in 1..n |-> i]) = n
  BY IsNumbering DEF Slots
<1>3. Loaded(stored) \in Seq(Nat) /\ Len(Loaded(stored)) <= Slots
  <2>1. <<>> \in Seq(Nat) /\ Len(<<>>) = 0
    OBVIOUS
  <2>2. QED
    BY <1>1, <1>2, <2>1 DEF Loaded, Slots
<1>4. QED
  BY <1>1, <1>2, <1>3 DEF Init, Typed, TypeOK, Places, Slots

LEMMA TypeStep == Typed /\ [Next]_vars => Typed'
<1> SUFFICES ASSUME Typed, [Next]_vars PROVE Typed'
  OBVIOUS
<1> USE DEF Typed, TypeOK, Places, Locking, Holding, Posting, Goto, Leave, history
<1>1. ASSUME NEW t \in Tasks, QueueReport(t) \/ SendPendingReports(t) PROVE Typed'
  BY <1>1 DEF QueueReport, SendPendingReports, Loaded
<1>2. ASSUME NEW t \in Tasks, Take(t) PROVE Typed'
  BY <1>2 DEF Take, Loaded
<1>3. ASSUME NEW t \in Tasks, PushReport(t) PROVE Typed'
  <2>1. outbox' \in Seq(Nat) /\ Len(outbox') <= Slots
    BY <1>3, PushType DEF PushReport
  <2>2. Range(outbox) \subseteq Nat
    BY LenProperties DEF Range
  <2>3. dropped' \subseteq Nat
    BY <1>3, <2>2 DEF PushReport
  <2>4. QED
    BY <1>3, <2>1, <2>3 DEF PushReport, Loaded
<1>4. ASSUME NEW t \in Tasks, SaveOutbox(t) PROVE Typed'
  <2>1. Range(outbox) \subseteq Nat
    BY LenProperties DEF Range
  <2>2. Len(Loaded(stored')) <= Slots
    BY <1>4 DEF SaveOutbox, Loaded, Slots
  <2>3. QED
    BY <1>4, <2>1, <2>2 DEF SaveOutbox, Loaded
<1>5. ASSUME NEW t \in Tasks, Copy(t) PROVE Typed'
  <2>1. outbox # <<>> => outbox[1] \in Nat
    OBVIOUS
  <2>2. QED
    BY <1>5, <2>1 DEF Copy, Loaded
<1>6. ASSUME NEW t \in Tasks, Post(t) PROVE Typed'
  <2>1. CASE PostAnswered(t)
    BY <2>1 DEF PostAnswered, Loaded
  <2>2. CASE PostLost(t)
    BY <2>2 DEF PostLost, Loaded
  <2>3. QED
    BY <1>6, <2>1, <2>2 DEF Post
<1>7. ASSUME NEW t \in Tasks, PopReport(t) PROVE Typed'
  <2>1. outbox # <<>> => Pop(outbox) \in Seq(Nat) /\ Len(Pop(outbox)) <= Len(outbox)
    BY PopKeeps
  <2>2. Len(outbox) \in Nat /\ (outbox # <<>> => Len(Pop(outbox)) \in Nat)
    BY <2>1
  <2>3. outbox' \in Seq(Nat) /\ Len(outbox') <= Slots
    BY <1>7, <2>1, <2>2 DEF PopReport, Slots
  <2>4. QED
    BY <1>7, <2>3 DEF PopReport, Loaded
<1>8. ASSUME NEW t \in Tasks, Delete(t) PROVE Typed'
  BY <1>8 DEF Delete, Loaded
<1>9. CASE Reset
  BY <1>9, LoadedType DEF Reset, Loaded
<1>10. CASE UNCHANGED vars
  BY <1>10 DEF vars, Loaded
<1>11. QED
  BY <1>1, <1>2, <1>3, <1>4, <1>5, <1>6, <1>7, <1>8, <1>9, <1>10 DEF Next, Running

-----------------------------------------------------------------------------
LEMMA KeptInit ==
  ASSUME ConstantsOK
  PROVE  Init => Kept
<1> SUFFICES ASSUME Init PROVE Kept
  OBVIOUS
<1>1. PICK n \in 0..Slots :
        /\ stored \in {[i \in 1..n |-> i]} \cup (IF n = 0 THEN {Unreadable} ELSE {})
        /\ saved = 1..n
  BY DEF Init
<1>2. n # 0 => stored = [i \in 1..n |-> i]
  BY <1>1
<1>3. n = 0 => saved = {}
  BY <1>1
<1>4. Loaded(stored) = outbox
  BY DEF Init
<1>5. saved \subseteq Range(Loaded(stored))
  <2>1. CASE n = 0
    BY <1>3, <2>1
  <2>2. CASE n # 0
    <3>1. stored = [i \in 1..n |-> i]
      BY <1>2, <2>2
    <3>2. Range(stored) = 1..n
      BY <3>1 DEF Range
    <3>3. stored # Unreadable
      <4>1. stored \in Seq(Nat)
        BY <3>1, IsNumbering DEF Slots
      <4>2. QED
        BY <4>1 DEF ConstantsOK
    <3>4. QED
      BY <1>1, <3>2, <3>3 DEF Loaded
  <2>3. QED
    BY <2>1, <2>2
<1>6. QED
  BY <1>4, <1>5 DEF Init, Kept, NoReportLost, Popping

LEMMA KeptStep ==
  ASSUME ConstantsOK
  PROVE  Typed /\ Kept /\ [Next]_vars => Kept'
<1> SUFFICES ASSUME Typed, Kept, [Next]_vars PROVE Kept'
  OBVIOUS
<1> USE DEF Kept, NoReportLost, Popping, Typed, TypeOK, Places, Locking, Holding,
            Posting, Goto, Leave, history
<1>1. ASSUME NEW t \in Tasks, QueueReport(t) \/ SendPendingReports(t) PROVE Kept'
  BY <1>1 DEF QueueReport, SendPendingReports
<1>2. ASSUME NEW t \in Tasks, Take(t) PROVE Kept'
  BY <1>2 DEF Take
<1>3. ASSUME NEW t \in Tasks, PushReport(t) PROVE Kept'
  BY <1>3 DEF PushReport
<1>4. ASSUME NEW t \in Tasks, SaveOutbox(t) PROVE Kept'
  <2>1. Loaded(outbox) = outbox
    BY DEF ConstantsOK, Loaded
  <2>2. CASE stored' = outbox /\ saved' = saved \cup Range(outbox)
    <3>1. Loaded(stored)' = outbox
      BY <2>1, <2>2 DEF Loaded
    <3>2. QED
      BY <1>4, <2>2, <3>1 DEF SaveOutbox
  <2>3. CASE UNCHANGED <<stored, saved>>
    BY <1>4, <2>3 DEF SaveOutbox, Loaded
  <2>4. QED
    BY <1>4, <2>2, <2>3 DEF SaveOutbox
<1>5. ASSUME NEW t \in Tasks, Copy(t) PROVE Kept'
  BY <1>5 DEF Copy
<1>6. ASSUME NEW t \in Tasks, Post(t) PROVE Kept'
  BY <1>6 DEF Post, PostAnswered, PostLost
<1>7. ASSUME NEW t \in Tasks, PopReport(t) PROVE Kept'
  <2>1. outbox # <<>> => Range(outbox) \subseteq Range(Pop(outbox)) \cup {outbox[1]}
    BY PopKeeps
  <2>2. QED
    BY <1>7, <2>1 DEF PopReport
<1>8. ASSUME NEW t \in Tasks, Delete(t) PROVE Kept'
  BY <1>8 DEF Delete
<1>9. CASE Reset
  BY <1>9 DEF Reset
<1>10. CASE UNCHANGED vars
  BY <1>10 DEF vars
<1>11. QED
  BY <1>1, <1>2, <1>3, <1>4, <1>5, <1>6, <1>7, <1>8, <1>9, <1>10 DEF Next, Running

-----------------------------------------------------------------------------
LEMMA OrderedInit == Init => Ordered
<1> SUFFICES ASSUME Init PROVE Ordered
  OBVIOUS
<1>1. PICK n \in 0..Slots :
        /\ stored \in {[i \in 1..n |-> i]} \cup (IF n = 0 THEN {Unreadable} ELSE {})
        /\ queued = n
  BY DEF Init
<1>2. Loaded(stored) = outbox
  BY DEF Init
<1>3. Ascending(outbox) /\ UpTo(outbox, queued)
  <2>1. CASE outbox = <<>>
    BY <1>1, <2>1, EmptySeq DEF Ascending, UpTo
  <2>2. CASE outbox = [i \in 1..n |-> i]
    <3>1. n \in Nat
      BY DEF Slots
    <3>2. Len(outbox) = n
      BY <2>2, <3>1, IsNumbering
    <3>3. \A i \in 1..Len(outbox) : outbox[i] = i
      BY <2>2, <3>2
    <3>4. QED
      BY <1>1, <3>1, <3>2, <3>3 DEF Ascending, UpTo
  <2>3. QED
    BY <1>1, <1>2, <2>1, <2>2 DEF Loaded
<1>4. QED
  BY <1>1, <1>2, <1>3 DEF Init, Ordered, OldestFirst, Posting, Slots

LEMMA OrderedStep ==
  ASSUME ConstantsOK
  PROVE  Typed /\ Ordered /\ [Next]_vars => Ordered'
<1> SUFFICES ASSUME Typed, Ordered, [Next]_vars PROVE Ordered'
  OBVIOUS
<1> USE DEF Ordered, OldestFirst, Typed, TypeOK, Places, Locking, Holding,
            Posting, Goto, Leave, history
<1>a. DOMAIN outbox = 1..Len(outbox) /\ Len(outbox) \in Nat
  BY LenProperties
<1>b. ASSUME UNCHANGED <<outbox, stored, queued>>,
             \A s \in Tasks : place'[s] \in Posting =>
                               place[s] \in Posting /\ hand'[s] = hand[s],
             \A s \in Tasks : hand'[s] <= queued
      PROVE  Ordered'
  BY <1>b
<1>1. ASSUME NEW t \in Tasks, QueueReport(t) \/ SendPendingReports(t) PROVE Ordered'
  BY <1>1 DEF QueueReport, SendPendingReports
<1>2. ASSUME NEW t \in Tasks, Take(t) PROVE Ordered'
  BY <1>2, <1>b DEF Take
<1>3. ASSUME NEW t \in Tasks, PushReport(t) PROVE Ordered'
  <2>1. Ascending(outbox') /\ UpTo(outbox', queued')
    BY <1>3, PushOrder DEF PushReport
  <2>2. UpTo(Loaded(stored), queued)' /\ Ascending(Loaded(stored))'
    <3>1. Loaded(stored) \in Seq(Nat)
      BY LoadedType
    <3>2. \A i \in 1..Len(Loaded(stored)) : Loaded(stored)[i] \in Nat
      BY <3>1, ElementOfSeq
    <3>3. Loaded(stored)' = Loaded(stored)
      BY <1>3 DEF PushReport, Loaded
    <3>4. QED
      BY <1>3, <3>2, <3>3 DEF PushReport, UpTo
  <2>3. \A i \in DOMAIN outbox' : outbox'[i] = queued + 1 \/ \E j \in DOMAIN outbox : outbox'[i] = outbox[j]
    <3>1. outbox' = Push(outbox, queued + 1)
      BY <1>3 DEF PushReport
    <3>2. QED
      BY <3>1, PushKeeps
  <2>4. \A s \in Tasks : hand'[s] <= queued'
    BY <1>3 DEF PushReport
  <2>5. OldestFirst'
    BY <1>3, <2>3 DEF PushReport
  <2>6. QED
    BY <2>1, <2>2, <2>4, <2>5
<1>4. ASSUME NEW t \in Tasks, SaveOutbox(t) PROVE Ordered'
  <2>1. Loaded(outbox) = outbox
    BY DEF ConstantsOK, Loaded
  <2>2. Loaded(stored)' \in {outbox, Loaded(stored)}
    BY <1>4, <2>1 DEF SaveOutbox, Loaded
  <2>3. QED
    BY <1>4, <2>2 DEF SaveOutbox
<1>5. ASSUME NEW t \in Tasks, Copy(t) PROVE Ordered'
  <2>1. outbox # <<>> => /\ 1 \in 1..Len(outbox)
                         /\ \A i \in 1..Len(outbox) : outbox[i] \in Nat /\ outbox[1] <= outbox[i]
    BY EmptySeq, ElementOfSeq DEF Ascending
  <2>2. outbox # <<>> => outbox[1] <= queued
    BY <2>1 DEF UpTo
  <2>3. QED
    BY <1>5, <1>a, <2>1, <2>2 DEF Copy
<1>6. ASSUME NEW t \in Tasks, Post(t) PROVE Ordered'
  <2>1. CASE PostAnswered(t)
    BY <2>1, <1>b DEF PostAnswered
  <2>2. CASE PostLost(t)
    <3>1. /\ UNCHANGED <<outbox, stored, queued>>
          /\ \A s \in Tasks : hand'[s] \in {hand[s], 0}
          /\ \A s \in Tasks : place'[s] \in Posting =>
                               place[s] \in Posting /\ hand'[s] = hand[s]
      BY <2>2 DEF PostLost
    <3>2. \A s \in Tasks : hand[s] <= queued /\ 0 <= queued
      OBVIOUS
    <3>3. \A s \in Tasks : hand'[s] <= queued
      BY <3>1, <3>2
    <3>4. QED
      BY <1>b, <3>1, <3>3
  <2>3. QED
    BY <1>6, <2>1, <2>2 DEF Post
<1>7. ASSUME NEW t \in Tasks, PopReport(t) PROVE Ordered'
  <2>1. /\ \/ outbox' = Pop(outbox) /\ outbox # <<>>
           \/ UNCHANGED outbox
        /\ UNCHANGED <<stored, queued>>
    BY <1>7 DEF PopReport
  <2>2. /\ \A s \in Tasks : hand'[s] \in {hand[s], 0}
        /\ \A s \in Tasks : place'[s] \in Posting => place[s] \in Posting
        /\ \A s \in Tasks : place'[s] \in Posting => hand'[s] = hand[s]
    BY <1>7 DEF PopReport
  <2>3. Ascending(outbox') /\ UpTo(outbox', queued)
    BY <2>1, PopKeeps
  <2>4. \A i \in DOMAIN outbox' : \E j \in DOMAIN outbox : outbox'[i] = outbox[j]
    <3>1. CASE outbox' = Pop(outbox) /\ outbox # <<>>
      <4>1. /\ Pop(outbox) \in Seq(Nat)
            /\ \A i \in 1..Len(Pop(outbox)) :
                 \E j \in 1..Len(outbox) : Pop(outbox)[i] = outbox[j]
        BY <3>1, PopKeeps
      <4>2. DOMAIN Pop(outbox) = 1..Len(Pop(outbox))
        BY <4>1, LenProperties
      <4>3. QED
        BY <1>a, <3>1, <4>1, <4>2
    <3>2. CASE UNCHANGED outbox
      BY <3>2
    <3>3. QED
      BY <2>1, <3>1, <3>2
  <2>5. \A s \in Tasks : hand'[s] <= queued'
    <3>1. \A s \in Tasks : hand[s] <= queued /\ 0 <= queued
      OBVIOUS
    <3>2. QED
      BY <2>1, <2>2, <3>1
  <2>6. OldestFirst'
    BY <2>2, <2>4
  <2>7. Ascending(Loaded(stored))' /\ UpTo(Loaded(stored), queued)'
    BY <2>1 DEF Loaded
  <2>8. QED
    BY <2>1, <2>3, <2>5, <2>6, <2>7
<1>8. ASSUME NEW t \in Tasks, Delete(t) PROVE Ordered'
  BY <1>8 DEF Delete
<1>9. CASE Reset
  BY <1>9 DEF Reset
<1>10. CASE UNCHANGED vars
  BY <1>10 DEF vars
<1>11. QED
  BY <1>1, <1>2, <1>3, <1>4, <1>5, <1>6, <1>7, <1>8, <1>9, <1>10 DEF Next, Running

-----------------------------------------------------------------------------
\* SimpleOTAOutbox.h: a report that reached NVS stays there until a response to
\* it came back or newer reports pushed it out, for any number of tasks that
\* queue and send, are deleted or cut off by a reset at any step.
THEOREM ReportsAreKept ==
  ASSUME ConstantsOK
  PROVE  Spec => []NoReportLost
<1>1. Init => Typed /\ Kept
  BY TypeInit, KeptInit
<1>2. (Typed /\ Kept) /\ [Next]_vars => (Typed /\ Kept)'
  BY TypeStep, KeptStep
<1>3. Typed /\ Kept => NoReportLost
  BY DEF Kept
<1>4. QED
  BY <1>1, <1>2, <1>3, PTL DEF Spec

\* README.md: queued reports are sent oldest first, for any number of tasks
\* that send and queue at the same time.
THEOREM ReportsInOrder ==
  ASSUME ConstantsOK
  PROVE  Spec => []OldestFirst
<1>1. Init => Typed /\ Ordered
  BY TypeInit, OrderedInit
<1>2. (Typed /\ Ordered) /\ [Next]_vars => (Typed /\ Ordered)'
  BY TypeStep, OrderedStep
<1>3. Typed /\ Ordered => OldestFirst
  BY DEF Ordered
<1>4. QED
  BY <1>1, <1>2, <1>3, PTL DEF Spec
=============================================================================
