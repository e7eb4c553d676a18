----------------------------- MODULE ChatEffects -----------------------------
(***************************************************************************)
(* Durable effects of chat_effects.py: what a model asks to have done is   *)
(* stored, decided on by a person (or by YOLO mode) and then executed      *)
(* through the workspace under the effect's own operation key.  Deciding   *)
(* reads the row, and acts on what it read in transactions of its own, so  *)
(* two deciders, a stopped run and a crash may come between any two steps. *)
(***************************************************************************)
EXTENDS Naturals

CONSTANTS
    Effects,
    Deciders,           \* requests that decide, or propose in YOLO mode
    YoloAllowed         \* may autonomy_mode be "workspace"?

VARIABLES
    effect,             \* rows of chat_effects
    deciding,           \* what each decider has read and where it is
    world               \* what the effects act upon, and the clock

effectVars == <<effect, deciding, world>>

Undecided == {"pending_approval", "approved", "executing"}
RefusedStatuses == {"denied", "expired", "cancelled"}
Statuses == {"none", "completed", "failed"} \cup Undecided \cup RefusedStatuses

(* verdicts: the decisions recorded for the effect.                        *)
NoEffect == [status |-> "none", retrySafe |-> FALSE, acknowledged |-> FALSE,
             verdicts |-> {}]

NotDeciding(e) == [at |-> "idle", effect |-> e, verdict |-> "approve",
                   seen |-> "none", seenRetrySafe |-> FALSE, recorded |-> FALSE,
                   retrySafe |-> FALSE]

(* performed: how often the mutation was carried out; changed: what it     *)
(* names is no longer as it was when approved; late: past expires_at.      *)
EffectInit ==
    /\ effect = [e \in Effects |-> NoEffect]
    /\ deciding = [d \in Deciders |-> NotDeciding(CHOOSE e \in Effects : TRUE)]
    /\ world = [e \in Effects |-> [performed |-> 0, changed |-> FALSE, late |-> FALSE]]

Of(d) == deciding[d].effect
EffectAt(d, place) == deciding[d].at = place
EffectGoes(d, place) == deciding' = [deciding EXCEPT ![d].at = place]
EffectEnds(d) == deciding' = [deciding EXCEPT ![d] = NotDeciding(Of(d))]

(* _decide() up to its first write: what the row says, and the clock.      *)
Looking(d, e, verdict) ==
    [NotDeciding(e) EXCEPT !.at = IF world[e].late THEN "expiring" ELSE "deciding",
                           !.verdict = verdict, !.seen = effect[e].status,
                           !.seenRetrySafe = effect[e].retrySafe]

-----------------------------------------------------------------------------
(* propose(): nothing is stored that its preflight refuses.                *)
Propose(d, e) ==
    /\ EffectAt(d, "idle") /\ effect[e].status = "none" /\ ~world[e].changed
    /\ effect' = [effect EXCEPT ![e].status = "pending_approval"]
    /\ \/ UNCHANGED deciding
       \/ /\ YoloAllowed
          /\ deciding' = [deciding EXCEPT
                            ![d] = [Looking(d, e, "approve") EXCEPT !.seen = "pending_approval"]]
    /\ UNCHANGED world

(* decide(), also on an effect that is executing or has failed.  An effect *)
(* that is completed or refused is answered at once.                       *)
Decide(d, e, verdict) ==
    /\ EffectAt(d, "idle")
    /\ effect[e].status \in Undecided \cup {"failed"}
    /\ deciding' = [deciding EXCEPT ![d] = Looking(d, e, verdict)]
    /\ UNCHANGED <<effect, world>>

Expire(d) ==
    /\ EffectAt(d, "expiring")
    /\ effect' = [effect EXCEPT ![Of(d)].status = "expired"]
    /\ EffectEnds(d)
    /\ UNCHANGED world

Verdicts(d) ==
    IF deciding[d].seen \in {"executing", "failed"} THEN effect[Of(d)].verdicts
    ELSE effect[Of(d)].verdicts \cup {deciding[d].verdict}

Deny(d) ==
    /\ EffectAt(d, "deciding") /\ deciding[d].verdict = "deny"
    /\ deciding[d].seen = "pending_approval"
    /\ effect' = [effect EXCEPT ![Of(d)].status = "denied",
                                ![Of(d)].verdicts = Verdicts(d)]
    /\ EffectEnds(d)
    /\ UNCHANGED world

Approvable(d) == deciding[d].seen = "failed" => deciding[d].seenRetrySafe

Approve(d) ==
    /\ EffectAt(d, "deciding") /\ deciding[d].verdict = "approve"
    /\ Approvable(d)
    /\ effect' = [effect EXCEPT
                    ![Of(d)].status = IF @ = "executing" THEN @ ELSE "approved",
                    ![Of(d)].acknowledged = FALSE,
                    ![Of(d)].verdicts = Verdicts(d)]
    /\ EffectGoes(d, "approved")
    /\ UNCHANGED world

(* A decision that comes too late for what was read is rolled back.        *)
RefuseDecision(d) ==
    /\ EffectAt(d, "deciding")
    /\ IF deciding[d].verdict = "deny" THEN deciding[d].seen # "pending_approval"
                                       ELSE ~Approvable(d)
    /\ EffectEnds(d)
    /\ UNCHANGED <<effect, world>>

-----------------------------------------------------------------------------
(* _execute()                                                              *)

BeginExecution(d) ==
    /\ EffectAt(d, "approved")
    /\ IF effect[Of(d)].status \in {"approved", "executing", "failed"}
       THEN /\ effect' = [effect EXCEPT ![Of(d)].status = "executing",
                                        ![Of(d)].retrySafe = FALSE,
                                        ![Of(d)].acknowledged = FALSE]
            /\ EffectGoes(d, "executing")
       ELSE UNCHANGED effect /\ EffectEnds(d)
    /\ UNCHANGED world

(* committed(): has an earlier attempt used the operation key?             *)
LookUpKey(d) ==
    /\ EffectAt(d, "executing")
    /\ deciding' = [deciding EXCEPT ![d].at = "performing",
                                    ![d].recorded = world[Of(d)].performed > 0]
    /\ UNCHANGED <<effect, world>>

PerformUnderNewEffectKey(d) ==
    /\ EffectAt(d, "performing")
    /\ deciding[d].recorded \/ ~world[Of(d)].changed
    /\ world' = [world EXCEPT ![Of(d)].performed = @ + 1]
    /\ EffectGoes(d, "performed")
    /\ UNCHANGED effect

(* The workspace replays a key it knows instead of acting again.           *)
Perform(d) ==
    /\ EffectAt(d, "performing")
    /\ deciding[d].recorded \/ ~world[Of(d)].changed
    /\ world' = [world EXCEPT ![Of(d)].performed = IF @ > 0 THEN @ ELSE 1]
    /\ EffectGoes(d, "performed")
    /\ UNCHANGED effect

(* The requester has lost the right, the document has changed since, the   *)
(* provider does not answer.                                               *)
FailToPerform(d) ==
    /\ EffectAt(d, "performing")
    /\ \E retrySafe \in BOOLEAN :
         deciding' = [deciding EXCEPT ![d].at = "failed", ![d].retrySafe = retrySafe]
    /\ UNCHANGED <<effect, world>>

StoreFailure(d) ==
    /\ EffectAt(d, "failed")
    /\ effect' = [effect EXCEPT ![Of(d)].status = "failed",
                                ![Of(d)].retrySafe = deciding[d].retrySafe]
    /\ EffectEnds(d)
    /\ UNCHANGED world

Complete(d) ==
    /\ EffectAt(d, "performed")
    /\ effect' = [effect EXCEPT ![Of(d)].status = "completed"]
    /\ EffectEnds(d)
    /\ UNCHANGED world

-----------------------------------------------------------------------------
(* cancel_pending() of a stopped run.                                      *)
CancelPendingEffect(e) ==
    /\ effect[e].status \in {"pending_approval", "approved"}
    /\ effect' = [effect EXCEPT ![e].status = "cancelled"]
    /\ UNCHANGED <<deciding, world>>

Acknowledge(e) ==
    /\ effect[e].status \notin Undecided \cup {"none"}
    /\ ~effect[e].acknowledged
    /\ effect' = [effect EXCEPT ![e].acknowledged = TRUE]
    /\ UNCHANGED <<deciding, world>>

(* Somebody edits what the effect names, and time goes on.                 *)
TimePasses(e) ==
    /\ \/ ~world[e].changed /\ world' = [world EXCEPT ![e].changed = TRUE]
       \/ ~world[e].late /\ world' = [world EXCEPT ![e].late = TRUE]
    /\ UNCHANGED <<effect, deciding>>

(* Only the rows survive the process.                                      *)
CrashDeciders ==
    /\ \E d \in Deciders : ~EffectAt(d, "idle")
    /\ deciding' = [d \in Deciders |-> NotDeciding(Of(d))]
    /\ UNCHANGED <<effect, world>>

EffectNext ==
    \/ \E d \in Deciders :
         \/ \E e \in Effects :
              \/ Propose(d, e)
              \/ \E verdict \in {"approve", "deny"} : Decide(d, e, verdict)
         \/ Expire(d) \/ Deny(d) \/ Approve(d) \/ RefuseDecision(d)
         \/ BeginExecution(d) \/ LookUpKey(d) \/ Perform(d) \/ FailToPerform(d)
         \/ StoreFailure(d) \/ Complete(d)
    \/ \E e \in Effects : CancelPendingEffect(e) \/ Acknowledge(e) \/ TimePasses(e)
    \/ CrashDeciders

EffectSpec == EffectInit /\ [][EffectNext]_effectVars

-----------------------------------------------------------------------------
(* Properties.                                                             *)

EffectTypeOK ==
    /\ \A e \in Effects :
         /\ effect[e].status \in Statuses
         /\ effect[e].verdicts \subseteq {"approve", "deny"}
         /\ world[e].performed \in Nat
    /\ \A d \in Deciders :
         /\ Of(d) \in Effects
         /\ deciding[d].at \in {"idle", "expiring", "deciding", "approved", "executing",
                                "performing", "performed", "failed"}

(* Two approvals at once, a retry, and a resumption after a crash between  *)
(* the mutation and the completion write converge on one mutation: "a      *)
(* retry uses the same operation key and converges on the same resource".  *)
EffectRunsOnce == \A e \in Effects : world[e].performed <= 1

(* What is reported as completed has happened, nothing happens without a   *)
(* recorded approval, and an effect that still needs somebody's attention  *)
(* is not hidden as acknowledged, whoever overtook whom.                   *)
EffectTellsTheTruth ==
    \A e \in Effects :
        /\ effect[e].status = "completed" => world[e].performed = 1
        /\ world[e].performed > 0 => "approve" \in effect[e].verdicts
        /\ effect[e].status \in Undecided => ~effect[e].acknowledged

(* "A denied, expired, cancelled ... effect is final": it is not executed  *)
(* any more.  No run checks it: an approval that has read the row before   *)
(* the refusal makes it approved after it.                                 *)
RefusalIsFinal ==
    [][\A e \in Effects : effect[e].status \in RefusedStatuses
         => effect'[e].status \in RefusedStatuses]_effectVars

(* An effect is performed once and the row says what became of it.         *)
EffectsAreHonest == EffectRunsOnce /\ EffectTellsTheTruth
=============================================================================
