----------------------------- MODULE MCEnrolment -----------------------------
(* The instance of Enrolment for TLC: the first Advisor leaves the node loose, *)
(* the second tightens one dial and says nothing of the other.                 *)
EXTENDS Enrolment

SaysThis == <<[level |-> 3, consent |-> 2], [level |-> 2, consent |-> Unsaid]>>
=============================================================================
