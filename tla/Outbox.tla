------------------------------- MODULE Outbox -------------------------------
(***************************************************************************)
(* The report outbox of SimpleOTAOutbox.h: at most Slots reports, oldest   *)
(* first.  A report is a record [event, reason, deployment, build];        *)
(* deployment 0 and build 0 stand for the empty string and for no build.   *)
(***************************************************************************)
EXTENDS Naturals, Sequences

Slots == 2

\* Only a report with a deployment and a build is ever added.
Usable(r) == r.deployment # 0 /\ r.build # 0

\* sotaOutboxPush(): add at the back, dropping the oldest when full.
PushKeepsAll(box, r) == Append(box, r)                      \* mutant
Push(box, r) ==
  IF Len(box) = Slots THEN Append(Tail(box), r) ELSE Append(box, r)

\* sotaOutboxPop(): remove the report at the front.
Pop(box) == Tail(box)
=============================================================================
