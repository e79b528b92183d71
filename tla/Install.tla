------------------------------ MODULE Install -------------------------------
(***************************************************************************)
(* What installing updates with a trial promises: the device always has an *)
(* accepted image to be on, an update is a candidate beside it, and the    *)
(* accepted image changes only when a candidate is accepted.               *)
(***************************************************************************)
CONSTANTS Images, Builds, None, Unsupervised

VARIABLES accepted, candidate

Init == accepted \in Images /\ candidate = None

\* An update is installed beside the accepted image.
Install == /\ candidate = None
           /\ candidate' \in Builds
           /\ accepted' = accepted

\* An image that opted out of trials replaces itself outright.
Replace == /\ candidate = None /\ accepted \in Unsupervised
           /\ accepted' \in Builds
           /\ candidate' = None

Accept == /\ candidate # None
          /\ accepted' = candidate
          /\ candidate' = None

Reject == /\ candidate # None
          /\ candidate' = None
          /\ accepted' = accepted

Next == Install \/ Replace \/ Accept \/ Reject

Spec == Init /\ [][Next]_<<accepted, candidate>>
=============================================================================
