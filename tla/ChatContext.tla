------------------------------- MODULE ChatContext -------------------------------
(***************************************************************************)
(* What a conversation and its reviews rely on beyond one request: the     *)
(* rolling task, saved facts and skills, the project and its assignments.  *)
(* The five keep their state in tables of their own; here is what they     *)
(* promise together.                                                       *)
(***************************************************************************)
EXTENDS Projects, Assignments, ChatContinuity, SavedFacts, ChatSkills

(* What a project refers to belongs to it, and a review lists every        *)
(* document it has written.                                                *)
ProjectsAreWhole == ReferencesAreMembers /\ NoOrphanFindings

(* What somebody decided stays: a correction of the rolling task through   *)
(* every rebuild, a stop of a review through every write of its worker.    *)
DecisionsStay == CorrectionsSurvive /\ ControlIsKept

(* What a turn is given is current, and stays what it was: the notes of    *)
(* the rolling task, the saved facts, and the skills it has activated.     *)
ContextIsCurrent ==
    /\ ShownNotesAreCurrent
    /\ ForgottenStaysForgotten /\ OnlyAcceptedIsRecalled
    /\ LaterActivationIsPinned
=============================================================================
