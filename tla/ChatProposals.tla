---------------------------- MODULE ChatProposals ----------------------------
(***************************************************************************)
(* Edits a chat proposes (chat_proposals.py).  Applying one reserves it    *)
(* for a key, a wording and a reviewer, writes the document under that     *)
(* key, and marks the proposal, each in a transaction of its own; what was *)
(* committed is looked up afterwards, never assumed.                       *)
(***************************************************************************)
EXTENDS Naturals, Sequences

CONSTANTS
    Proposals, Reviewers, Wordings,
    Unset,              \* a NULL column
    MaxDocumentEdits            \* bound on the revisions of the document

ASSUME ProposalAssumption ==
    Proposals # {} /\ Unset \notin Proposals \cup Reviewers /\ MaxDocumentEdits \in Nat

VARIABLES
    proposal,           \* rows of chat_proposals
    applying,           \* _applying: proposals somebody is applying
    review,             \* what each reviewer's request is doing
    history             \* revisions of the document and the keys they used

proposalVars == <<proposal, applying, review, history>>

(* A request's key is its reviewer's: keys belong to an actor.  base is    *)
(* the expected revision, applied the resulting one.                       *)
NoProposal == [status |-> "none", base |-> 0, actor |-> Unset,
               wording |-> Unset, applied |-> 0, appliedWording |-> Unset]

NoReview(q) == [at |-> "idle", proposal |-> q, wording |-> Unset,
                recovering |-> FALSE, revision |-> 0]

ProposalInit ==
    /\ proposal = [q \in Proposals |-> NoProposal]
    /\ applying = {}
    /\ review = [r \in Reviewers |-> NoReview(CHOOSE q \in Proposals : TRUE)]
    /\ history = <<>>

Revision(q, actor, wording) == [of |-> q, by |-> actor, content |-> wording]
HeadRevision == Len(history)

About(r) == review[r].proposal
ReviewAt(r, place) == review[r].at = place
ReviewGoes(r, place) == review' = [review EXCEPT ![r].at = place]

(* The finally block.                                                      *)
ReviewEnds(r) ==
    /\ applying' = applying \ {About(r)}
    /\ review' = [review EXCEPT ![r] = NoReview(About(r))]

(* create(): drafted against the revision that was current.                *)
Draft(q) ==
    /\ proposal[q].status = "none"
    /\ proposal' = [proposal EXCEPT ![q].status = "pending", ![q].base = HeadRevision]
    /\ UNCHANGED <<applying, review, history>>

-----------------------------------------------------------------------------
(* apply()                                                                 *)

Apply(r, q, wording) ==
    /\ ReviewAt(r, "idle") /\ q \notin applying
    /\ proposal[q].status # "none"
    /\ applying' = applying \cup {q}
    /\ review' = [review EXCEPT ![r] = [NoReview(q) EXCEPT !.at = "reserving",
                                                          !.wording = wording]]
    /\ UNCHANGED <<proposal, history>>

Reserved(q) == proposal[q].actor # Unset

ReservableByAnyone(r) == proposal[About(r)].status \in {"pending", "applied"}

(* A retry must come from the same reviewer with the exact wording.        *)
Reservable(r) ==
    LET row == proposal[About(r)] IN
    /\ row.status \in {"pending", "applied"}
    /\ Reserved(About(r)) => row.actor = r /\ row.wording = review[r].wording

Reserve(r) ==
    /\ ReviewAt(r, "reserving") /\ Reservable(r)
    /\ proposal' = [proposal EXCEPT ![About(r)].actor = r,
                                    ![About(r)].wording = review[r].wording]
    /\ review' = [review EXCEPT ![r].at = "checking",
                                ![r].recovering = Reserved(About(r))]
    /\ UNCHANGED <<applying, history>>

RefuseReservation(r) ==
    /\ ReviewAt(r, "reserving") /\ ~Reservable(r)
    /\ ReviewEnds(r)
    /\ UNCHANGED <<proposal, history>>

BaseIsCurrent(r) == proposal[About(r)].base = HeadRevision

(* validate_proposed_update(), which a recovering request leaves out: its  *)
(* own first attempt may have moved the document.                          *)
Check(r) ==
    /\ ReviewAt(r, "checking")
    /\ ReviewGoes(r, IF review[r].recovering \/ BaseIsCurrent(r) THEN "writing" ELSE "conflict")
    /\ UNCHANGED <<proposal, applying, history>>

(* committed_revision(): the revision this request's key has written.      *)
CommittedRevisions(r) ==
    {n \in 1 .. HeadRevision :
        history[n] = Revision(About(r), r, review[r].wording)
        /\ n = proposal[About(r)].base + 1}

(* write_document() appends to the base or replays what the key has done.  *)
Write(r) ==
    /\ ReviewAt(r, "writing") /\ (CommittedRevisions(r) = {} => BaseIsCurrent(r))
    /\ IF CommittedRevisions(r) = {}
       THEN history' = Append(history, Revision(About(r), r, review[r].wording))
       ELSE UNCHANGED history
    /\ ReviewGoes(r, "confirming")
    /\ UNCHANGED <<proposal, applying>>

MeetConflict(r) ==
    /\ ReviewAt(r, "writing") /\ CommittedRevisions(r) = {} /\ ~BaseIsCurrent(r)
    /\ ReviewGoes(r, "conflict")
    /\ UNCHANGED <<proposal, applying, history>>

(* The right was withdrawn, the document deleted, the key used otherwise.  *)
MeetRefusal(r) ==
    /\ ReviewAt(r, "checking") \/ ReviewAt(r, "writing")
    /\ ReviewGoes(r, "refused")
    /\ UNCHANGED <<proposal, applying, history>>

(* Any other error, perhaps after the commit: the reservation stays.       *)
LoseAnswerOfWrite(r) ==
    /\ ReviewAt(r, "writing") \/ ReviewAt(r, "confirming")
    /\ ReviewEnds(r)
    /\ UNCHANGED <<proposal, history>>

Confirm(r) ==
    /\ ReviewAt(r, "confirming") /\ CommittedRevisions(r) # {}
    /\ review' = [review EXCEPT ![r].at = "marking",
                                ![r].revision = CHOOSE n \in CommittedRevisions(r) : TRUE]
    /\ UNCHANGED <<proposal, applying, history>>

(* mark_applied() leaves a proposal alone that is no longer pending.       *)
MarkApplied(r) ==
    /\ ReviewAt(r, "marking")
    /\ IF proposal[About(r)].status = "pending"
       THEN proposal' = [proposal EXCEPT
                           ![About(r)].status = "applied",
                           ![About(r)].applied = review[r].revision,
                           ![About(r)].appliedWording = proposal[About(r)].wording]
       ELSE UNCHANGED proposal
    /\ ReviewEnds(r)
    /\ UNCHANGED history

(* release_apply_reservation() of a pending proposal reserved for r.       *)
Release(r) ==
    proposal' = [proposal EXCEPT ![About(r)] =
                   IF @.status = "pending" /\ @.actor = r
                   THEN [@ EXCEPT !.actor = Unset, !.wording = Unset] ELSE @]

AfterRefusal(r) ==
    /\ ReviewAt(r, "refused")
    /\ IF CommittedRevisions(r) = {} THEN Release(r) ELSE UNCHANGED proposal
    /\ ReviewEnds(r)
    /\ UNCHANGED history

AfterConflict(r) ==
    /\ ReviewAt(r, "conflict")
    /\ IF CommittedRevisions(r) = {}
       THEN Release(r) /\ ReviewGoes(r, "stale") /\ UNCHANGED applying
       ELSE ReviewEnds(r) /\ UNCHANGED proposal
    /\ UNCHANGED history

MarkStale(r) ==
    /\ ReviewAt(r, "stale")
    /\ proposal' = [proposal EXCEPT ![About(r)].status =
                      IF @ = "pending" THEN "stale" ELSE @]
    /\ ReviewEnds(r)
    /\ UNCHANGED history

-----------------------------------------------------------------------------
(* dismiss() keeps its hands off an apply that is under way; the           *)
(* cancel_pending() of a stopped run does not.                             *)
Dismiss(q) ==
    /\ proposal[q].status \in {"pending", "stale"}
    /\ proposal[q].status = "pending" => ~Reserved(q)
    /\ proposal' = [proposal EXCEPT ![q].status = "dismissed"]
    /\ UNCHANGED <<applying, review, history>>

CancelPendingProposal(q) ==
    /\ proposal[q].status = "pending"
    /\ proposal' = [proposal EXCEPT ![q].status = "dismissed"]
    /\ UNCHANGED <<applying, review, history>>

(* Somebody else edits the document.                                       *)
EditDocument ==
    /\ HeadRevision < MaxDocumentEdits
    /\ history' = Append(history, Revision(Unset, Unset, Unset))
    /\ UNCHANGED <<proposal, applying, review>>

CrashReviews ==
    /\ applying # {}
    /\ applying' = {}
    /\ review' = [r \in Reviewers |-> NoReview(About(r))]
    /\ UNCHANGED <<proposal, history>>

ProposalNext ==
    \/ \E q \in Proposals : Draft(q) \/ Dismiss(q) \/ CancelPendingProposal(q)
    \/ \E r \in Reviewers :
         \/ \E q \in Proposals, wording \in Wordings : Apply(r, q, wording)
         \/ Reserve(r) \/ RefuseReservation(r) \/ Check(r)
         \/ Write(r) \/ MeetConflict(r) \/ MeetRefusal(r) \/ LoseAnswerOfWrite(r)
         \/ Confirm(r) \/ MarkApplied(r)
         \/ AfterRefusal(r) \/ AfterConflict(r) \/ MarkStale(r)
    \/ EditDocument
    \/ CrashReviews

ProposalSpec == ProposalInit /\ [][ProposalNext]_proposalVars

-----------------------------------------------------------------------------
(* Properties.                                                             *)

ProposalTypeOK ==
    /\ \A q \in Proposals :
         /\ proposal[q].status \in {"none", "pending", "applied", "stale", "dismissed"}
         /\ proposal[q].actor \in Reviewers \cup {Unset}
         /\ proposal[q].wording \in Wordings \cup {Unset}
    /\ applying \subseteq Proposals

(* An applied proposal names the revision that has exactly the wording the *)
(* reviewer saw, made on the revision they reviewed it against; a stale    *)
(* one was never written, although a lost answer leaves that in doubt; and *)
(* no proposal is written twice.                                           *)
ProposalTellsTheTruth ==
    \A q \in Proposals :
        LET written == {n \in 1 .. HeadRevision : history[n].of = q} IN
        /\ \A m, n \in written : m = n
        /\ proposal[q].status = "applied" =>
             /\ written = {proposal[q].applied}
             /\ proposal[q].applied = proposal[q].base + 1
             /\ history[proposal[q].applied].content = proposal[q].appliedWording
        /\ proposal[q].status = "stale" => written = {}

(* "Only a pending proposal with a live reservation is still mid-apply and *)
(* must not be dismissed out from under the in-flight document update."    *)
(* No run checks it: cancel_pending() does not look at the reservation.    *)
DismissedIsNotWritten ==
    \A q \in Proposals :
        proposal[q].status = "dismissed" => \A n \in 1 .. HeadRevision : history[n].of # q
=============================================================================
