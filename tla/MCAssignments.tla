----------------------------- MODULE MCAssignments -----------------------------
(* Small instances of Assignments for TLC.                                 *)
EXTENDS Assignments

CONSTANTS review, delegated

(* The one is delegated by the other.                                      *)
Parents == [a \in {review, delegated} |-> IF a = review THEN NoReviewId ELSE review]
Resumes == [a \in {review, delegated} |-> TRUE]
=============================================================================
