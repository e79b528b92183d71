----------------------------- MODULE OutboxSend -----------------------------
(***************************************************************************)
(* Queueing and sending status reports from several tasks of one client.   *)
(*                                                                         *)
(* _outboxLock guards the outbox in RAM and the blob it is saved to.  It   *)
(* is not held while a report is posted.  Reports are numbered in the      *)
(* order they are queued.                                                  *)
(***************************************************************************)
EXTENDS Outbox, Functions, FiniteSets

CONSTANTS
  Tasks,       \* tasks that queue and send
  NoTask,      \* nobody holds the lock
  Unreadable,  \* a stored blob that sotaOutboxValid() refuses
  SaveFails,   \* a put of the outbox can fail
  MaxReports   \* bound on the reports queued

ConstantsOK == NoTask \notin Tasks /\ Unreadable \notin Seq(Nat) /\ MaxReports \in Nat

VARIABLES
  lock,      \* holder of _outboxLock
  outbox,    \* _outbox
  stored,    \* NVS key sota_outbox, <<>> when missing
  place,     \* place[t]: where task t is in queueReport(), sendPendingReports()
  hand,      \* hand[t]: the report task t copied out, 0 for none
  \* history
  queued,    \* number of reports queued
  saved,     \* reports that reached NVS
  dropped,   \* reports pushed out of a full outbox, and not found in NVS since
  answered   \* reports an HTTP response came back for

history == <<queued, saved, dropped, answered>>
vars == <<lock, outbox, stored, place, hand, history>>

Locking == {"q_lock", "s_lock", "p_lock"}
Holding == {"q_push", "q_save", "s_copy", "p_pop", "p_save"}
Posting == {"s_post", "s_retry"}
Places  == {"out"} \cup Locking \cup Holding \cup Posting

Goto(t, p) == place' = [place EXCEPT ![t] = p]
\* The copy in hand goes out of scope.
Leave(t, p) == Goto(t, p) /\ hand' = [hand EXCEPT ![t] = 0]

-----------------------------------------------------------------------------
\* loadOutbox(): a blob that is missing or not valid is an empty outbox.
Loaded(blob) == IF blob = Unreadable THEN <<>> ELSE blob

\* A boot finds what earlier boots saved.
Init ==
  /\ \E n \in 0..Slots :
       /\ n <= MaxReports
       /\ stored \in {[i \in 1..n |-> i]} \cup (IF n = 0 THEN {Unreadable} ELSE {})
       /\ queued = n /\ saved = 1..n
  /\ outbox = Loaded(stored)
  /\ lock = NoTask
  /\ place = [t \in Tasks |-> "out"] /\ hand = [t \in Tasks |-> 0]
  /\ dropped = {} /\ answered = {}

\* queueReport() and sendPendingReports() are called.
QueueReport(t) ==
  /\ place[t] = "out" /\ queued < MaxReports
  /\ Goto(t, "q_lock")
  /\ UNCHANGED <<lock, outbox, stored, hand, history>>

SendPendingReports(t) ==
  /\ place[t] = "out"
  /\ Goto(t, "s_lock")
  /\ UNCHANGED <<lock, outbox, stored, hand, history>>

\* LockGuard: xSemaphoreTake() with no timeout.
Take(t) ==
  /\ place[t] \in Locking /\ lock = NoTask
  /\ lock' = t
  /\ Goto(t, CASE place[t] = "q_lock" -> "q_push"
               [] place[t] = "s_lock" -> "s_copy"
               [] place[t] = "p_lock" -> "p_pop")
  /\ UNCHANGED <<outbox, stored, hand, history>>

\* sotaOutboxPush(): with no room the oldest report goes.
PushReport(t) ==
  /\ place[t] = "q_push"
  /\ outbox' = Push(outbox, queued + 1)
  /\ queued' = queued + 1
  /\ dropped' = dropped \cup (Range(outbox) \ Range(outbox'))
  /\ Goto(t, "q_save")
  /\ UNCHANGED <<lock, stored, hand, saved, answered>>

\* saveOutbox(), then the guard gives the lock back.  A put that fails is not
\* noticed.  Sending goes round again.
SaveOutbox(t) ==
  /\ place[t] \in {"q_save", "p_save"}
  /\ \/ stored' = outbox /\ saved' = saved \cup Range(outbox)
     \/ SaveFails /\ UNCHANGED <<stored, saved>>
  /\ lock' = NoTask
  /\ Leave(t, IF place[t] = "q_save" THEN "out" ELSE "s_lock")
  /\ UNCHANGED <<outbox, queued, dropped, answered>>

\* The first report is copied out; with none left the call is done.
CopyNewest(t) ==                                            \* mutant
  /\ place[t] = "s_copy"
  /\ IF outbox = <<>> THEN Goto(t, "out") /\ UNCHANGED hand
     ELSE Goto(t, "s_post") /\ hand' = [hand EXCEPT ![t] = outbox[Len(outbox)]]
  /\ lock' = NoTask
  /\ UNCHANGED <<outbox, stored, history>>
Copy(t) ==
  /\ place[t] = "s_copy"
  /\ IF outbox = <<>> THEN Goto(t, "out") /\ UNCHANGED hand
     ELSE Goto(t, "s_post") /\ hand' = [hand EXCEPT ![t] = outbox[1]]
  /\ lock' = NoTask
  /\ UNCHANGED <<outbox, stored, history>>

\* One attempt of postJson(): an answer ends it.
PostAnswered(t) ==
  /\ place[t] \in Posting
  /\ answered' = answered \cup {hand[t]}
  /\ Goto(t, "p_lock")
  /\ UNCHANGED <<lock, outbox, stored, hand, queued, saved, dropped>>

\* The request or its answer is lost (the server may have the report all the
\* same): retry once, then leave it queued.
PostLost(t) ==
  /\ place[t] \in Posting
  /\ IF place[t] = "s_post" THEN Goto(t, "s_retry") /\ UNCHANGED hand
     ELSE Leave(t, "out")
  /\ UNCHANGED <<lock, outbox, stored, history>>

\* Popped only if a report queued meanwhile has not pushed it out already.
PopUnchecked(t) ==                                          \* mutant
  /\ place[t] = "p_pop"
  /\ IF outbox # <<>>
       THEN outbox' = Pop(outbox) /\ Goto(t, "p_save") /\ UNCHANGED <<lock, hand>>
       ELSE lock' = NoTask /\ Leave(t, "s_lock") /\ UNCHANGED outbox
  /\ UNCHANGED <<stored, history>>
PopReport(t) ==
  /\ place[t] = "p_pop"
  /\ IF outbox # <<>> /\ outbox[1] = hand[t]
       THEN outbox' = Pop(outbox) /\ Goto(t, "p_save") /\ UNCHANGED <<lock, hand>>
       ELSE lock' = NoTask /\ Leave(t, "s_lock") /\ UNCHANGED outbox
  /\ UNCHANGED <<stored, history>>

\* end() deletes the task wherever it is; a lock it holds is never given back.
Delete(t) ==
  /\ Leave(t, "out")
  /\ UNCHANGED <<lock, outbox, stored, history>>

\* A reset, and the loadOutbox() of the next boot.  A report pushed out whose
\* removal was not saved is back.
Reset ==
  /\ outbox' = Loaded(stored)
  /\ lock' = NoTask
  /\ place' = [t \in Tasks |-> "out"] /\ hand' = [t \in Tasks |-> 0]
  /\ dropped' = dropped \ Range(Loaded(stored))
  /\ UNCHANGED <<stored, queued, saved, answered>>

-----------------------------------------------------------------------------
Post(t) == PostAnswered(t) \/ PostLost(t)

Running(t) ==
  Take(t) \/ PushReport(t) \/ SaveOutbox(t) \/ Copy(t) \/ Post(t) \/ PopReport(t)

Next ==
  \/ \E t \in Tasks : QueueReport(t) \/ SendPendingReports(t) \/ Running(t) \/ Delete(t)
  \/ Reset

Spec == Init /\ [][Next]_vars
-----------------------------------------------------------------------------
\* Properties.

\* Every variable has its type.
TypeOK ==
  /\ lock \in Tasks \cup {NoTask}
  /\ outbox \in Seq(Nat) /\ Len(outbox) <= Slots
  /\ stored \in Seq(Nat) \cup {Unreadable}
  /\ place \in [Tasks -> Places]
  /\ hand \in [Tasks -> Nat]
  /\ queued \in Nat
  /\ saved \subseteq Nat /\ dropped \subseteq Nat
  /\ answered \subseteq Nat

\* SimpleOTAOutbox.h: a report "is delivered once the server returns any HTTP
\* response.  Without a response it stays here."  Whatever tasks queue and
\* post at the same time, and wherever a reset strikes, a report that reached
\* NVS stays there until an answer to it came back, or newer reports filled
\* the outbox.
NoReportLost ==
  saved \subseteq Range(Loaded(stored)) \cup answered \cup dropped

\* README.md, Server interaction: queued reports are sent oldest first.  No
\* report is posted while an older one is still queued.
OldestFirst ==
  \A t \in Tasks : place[t] \in Posting =>
    \A i \in DOMAIN outbox : hand[t] <= outbox[i]
=============================================================================
