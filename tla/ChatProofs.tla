----------------------------- MODULE ChatProofs -----------------------------
(***************************************************************************)
(* Proofs about what a chat does beside its answer: effects somebody       *)
(* approves (ChatEffects), edits somebody applies (ChatProposals), the     *)
(* two-stage pool the blocking work runs in (ChatPool), the rows that say  *)
(* how a turn went (ChatRuns), and what its context is put together from   *)
(* (ChatContext): projects, assignments, the rolling task, saved facts and *)
(* skills.                                                                 *)
(***************************************************************************)
EXTENDS ChatEffects, ChatProposals, ChatPool, ChatRuns, ChatContext, SequenceTheorems,
        FiniteSetTheorems, TLAPS

-----------------------------------------------------------------------------
(* Effects                                                                 *)

EffectRow == [status : Statuses, retrySafe : BOOLEAN, acknowledged : BOOLEAN,
              verdicts : SUBSET {"approve", "deny"}]
DecidingPlaces == {"idle", "expiring", "deciding", "approved", "executing", "performing",
                   "performed", "failed"}
Acting == {"approved", "executing", "performing", "performed", "failed"}
AnyEffect == CHOOSE e \in Effects : TRUE
Decision == [at : DecidingPlaces, effect : Effects \cup {AnyEffect},
             verdict : {"approve", "deny"}, seen : Statuses, seenRetrySafe : BOOLEAN,
             recorded : BOOLEAN, retrySafe : BOOLEAN]
Deed == [performed : 0 .. 1, changed : BOOLEAN, late : BOOLEAN]

(* A row and what has been done in its name.                               *)
EffectRowSound(row, deed) ==
    /\ row.status = "completed" => deed.performed = 1
    /\ deed.performed = 1 => "approve" \in row.verdicts
    /\ row.status \in {"executing", "failed"} => "approve" \in row.verdicts
    /\ row.status \in Undecided \cup {"none"} => ~row.acknowledged

(* A decider that acts, or that has read of an attempt, has an approval    *)
(* behind it, which no later decision takes back.                          *)
DecisionSound(decision, rows, deeds) ==
    decision.at # "idle" =>
        /\ decision.effect \in Effects
        /\ decision.at \in Acting \/ decision.seen \in {"executing", "failed"} =>
             "approve" \in rows[decision.effect].verdicts
        /\ decision.at = "performed" => deeds[decision.effect].performed = 1

EffectInv ==
    /\ effect \in [Effects -> EffectRow]
    /\ world \in [Effects -> Deed]
    /\ deciding \in [Deciders -> Decision]
    /\ \A e \in Effects : EffectRowSound(effect[e], world[e])
    /\ \A d \in Deciders : DecisionSound(deciding[d], effect, world)

(* A decider that does nothing.                                            *)
LEMMA NotDecidingSound ==
    ASSUME NEW e \in Effects \cup {AnyEffect}
    PROVE  /\ NotDeciding(e) \in Decision
           /\ NotDeciding(e).at = "idle" /\ NotDeciding(e).effect = e
           /\ NotDeciding(e).verdict = "approve" /\ NotDeciding(e).seen = "none"
<1>1. "none" \in Statuses /\ "idle" \in DecidingPlaces
  BY DEF Statuses, DecidingPlaces
<1> QED
  BY <1>1 DEF NotDeciding, Decision

LEMMA EffectInitInv == EffectInit => EffectInv
<1> SUFFICES ASSUME EffectInit PROVE EffectInv
  OBVIOUS
<1>1. "none" \in Statuses /\ "none" \notin Undecided
  BY DEF Statuses, Undecided
<1>2. NoEffect \in EffectRow /\ NoEffect.status = "none" /\ ~NoEffect.acknowledged
  BY <1>1 DEF NoEffect, EffectRow
<1>3. effect \in [Effects -> EffectRow] /\ \A e \in Effects : effect[e] = NoEffect
  BY <1>2 DEF EffectInit
<1>4. world \in [Effects -> Deed] /\ \A e \in Effects : world[e].performed = 0
  <2> DEFINE none == [performed |-> 0, changed |-> FALSE, late |-> FALSE]
  <2>1. 0 \in 0 .. 1
    OBVIOUS
  <2>2. none \in Deed /\ none.performed = 0
    BY <2>1 DEF Deed
  <2>3. world = [e \in Effects |-> none]
    BY DEF EffectInit
  <2> HIDE DEF none
  <2> QED
    BY <2>2, <2>3
<1>5. \A d \in Deciders : deciding[d] \in Decision /\ deciding[d].at = "idle"
  BY NotDecidingSound DEF EffectInit, AnyEffect
<1>6. deciding \in [Deciders -> Decision]
  BY NotDecidingSound DEF EffectInit, AnyEffect
<1> QED
  BY <1>2, <1>3, <1>4, <1>5, <1>6 DEF EffectInv, EffectRowSound, DecisionSound

-----------------------------------------------------------------------------
(* What a step does to the rows, to the deeds and to the deciders, one at  *)
(* a time                                                                  *)

(* A step that changes one row, one deed or one decider keeps the          *)
(* invariant when what it leaves is sound.                                 *)
LEMMA RowChanges ==
    ASSUME EffectInv, NEW e \in Effects, NEW row \in EffectRow,
           effect' = [effect EXCEPT ![e] = row],
           effect[e].verdicts \subseteq row.verdicts, EffectRowSound(row, world[e])
    PROVE  /\ effect' \in [Effects -> EffectRow] /\ effect'[e] = row
           /\ \A f \in Effects : EffectRowSound(effect'[f], world[f])
           /\ \A d \in Deciders : DecisionSound(deciding[d], effect', world)
<1>1. /\ effect' \in [Effects -> EffectRow]
      /\ \A f \in Effects : effect'[f] = IF f = e THEN row ELSE effect[f]
  BY DEF EffectInv
<1>2. \A f \in Effects : effect[f].verdicts \subseteq effect'[f].verdicts
  BY <1>1
<1>3. \A f \in Effects : EffectRowSound(effect'[f], world[f])
  BY <1>1 DEF EffectInv
<1>4. \A d \in Deciders : DecisionSound(deciding[d], effect', world)
  BY <1>2 DEF EffectInv, DecisionSound
<1> QED
  BY <1>1, <1>3, <1>4

LEMMA DecisionChanges ==
    ASSUME EffectInv, NEW d \in Deciders, NEW decision \in Decision,
           deciding' = [deciding EXCEPT ![d] = decision],
           UNCHANGED world, effect' \in [Effects -> EffectRow],
           \A e \in Effects : EffectRowSound(effect'[e], world[e]),
           \A c \in Deciders : DecisionSound(deciding[c], effect', world),
           DecisionSound(decision, effect', world)
    PROVE  EffectInv'
<1>1. /\ deciding' \in [Deciders -> Decision]
      /\ \A c \in Deciders : deciding'[c] = IF c = d THEN decision ELSE deciding[c]
  BY DEF EffectInv
<1>2. \A c \in Deciders : DecisionSound(deciding'[c], effect', world')
  BY <1>1
<1> QED
  BY <1>1, <1>2 DEF EffectInv

(* A decider that goes on: its row may have changed.                       *)
LEMMA DeciderGoes ==
    ASSUME EffectInv, NEW d \in Deciders, NEW place \in DecidingPlaces \ {"performed"},
           ~EffectAt(d, "idle"),
           EffectGoes(d, place), UNCHANGED world, effect' \in [Effects -> EffectRow],
           \A e \in Effects : EffectRowSound(effect'[e], world[e]),
           \A c \in Deciders : DecisionSound(deciding[c], effect', world),
           place \in Acting => "approve" \in effect'[Of(d)].verdicts
    PROVE  EffectInv'
<1> DEFINE decision == [deciding[d] EXCEPT !.at = place]
<1>1. deciding[d] \in Decision /\ DecisionSound(deciding[d], effect', world)
  BY DEF EffectInv
<1>2. /\ decision \in Decision /\ decision.at = place
      /\ decision.effect = deciding[d].effect /\ decision.seen = deciding[d].seen
  BY <1>1 DEF Decision
<1>3. deciding' = [deciding EXCEPT ![d] = decision]
  BY DEF EffectGoes
<1> HIDE DEF decision
<1>4. DecisionSound(decision, effect', world)
  BY <1>1, <1>2 DEF DecisionSound, EffectAt, Of
<1> QED
  BY <1>2, <1>3, <1>4, DecisionChanges

LEMMA DeciderEnds ==
    ASSUME EffectInv, NEW d \in Deciders,
           EffectEnds(d), UNCHANGED world, effect' \in [Effects -> EffectRow],
           \A e \in Effects : EffectRowSound(effect'[e], world[e]),
           \A c \in Deciders : DecisionSound(deciding[c], effect', world)
    PROVE  EffectInv'
<1>1. Of(d) \in Effects \cup {AnyEffect}
  BY DEF EffectInv, Decision, Of
<1>2. NotDeciding(Of(d)) \in Decision /\ NotDeciding(Of(d)).at = "idle"
  BY <1>1, NotDecidingSound
<1>3. DecisionSound(NotDeciding(Of(d)), effect', world)
  BY <1>2 DEF DecisionSound
<1> QED
  BY <1>2, <1>3, DecisionChanges DEF EffectEnds

(* The status of the row is all that is written.                           *)
LEMMA StatusIsSet ==
    ASSUME EffectInv, NEW e \in Effects, NEW status \in Statuses
    PROVE  LET row == [effect[e] EXCEPT !.status = status] IN
           /\ row \in EffectRow /\ row.status = status
           /\ row.verdicts = effect[e].verdicts
           /\ row.acknowledged = effect[e].acknowledged
<1>1. effect[e] \in EffectRow
  BY DEF EffectInv
<1> QED
  BY <1>1 DEF EffectRow

LEMMA BusyHasEffect ==
    ASSUME EffectInv, NEW d \in Deciders, ~EffectAt(d, "idle")
    PROVE  Of(d) \in Effects /\ effect[Of(d)] \in EffectRow /\ world[Of(d)] \in Deed
BY DEF EffectInv, DecisionSound, EffectAt, Of

LEMMA ActingHasApproval ==
    ASSUME EffectInv, NEW d \in Deciders, deciding[d].at \in Acting
    PROVE  Of(d) \in Effects /\ "approve" \in effect[Of(d)].verdicts
BY DEF EffectInv, DecisionSound, Of, Acting

-----------------------------------------------------------------------------
(* The steps                                                               *)

(* A decider that has read a row has read of an approval, or decides on it *)
(* itself.                                                                 *)
LEMMA LookingSound ==
    ASSUME EffectInv, NEW d \in Deciders, NEW e \in Effects,
           NEW verdict \in {"approve", "deny"}, NEW seen \in Statuses,
           seen \in {"executing", "failed"} => "approve" \in effect[e].verdicts
    PROVE  LET decision == [Looking(d, e, verdict) EXCEPT !.seen = seen] IN
           /\ decision \in Decision
           /\ DecisionSound(decision, effect, world)
<1> DEFINE place == IF world[e].late THEN "expiring" ELSE "deciding"
           idle == NotDeciding(e)
           placed == [idle EXCEPT !.at = place, !.verdict = verdict]
           read == [placed EXCEPT !.seen = effect[e].status]
           known == [read EXCEPT !.seenRetrySafe = effect[e].retrySafe]
           decision == [known EXCEPT !.seen = seen]
<1>1. place \in DecidingPlaces /\ place \notin Acting /\ place # "performed"
  BY DEF DecidingPlaces, Acting
<1>2. effect[e] \in EffectRow
  BY DEF EffectInv
<1>3. effect[e].status \in Statuses /\ effect[e].retrySafe \in BOOLEAN
  BY <1>2 DEF EffectRow
<1>4. idle \in Decision /\ idle.effect = e
  BY NotDecidingSound
<1>5. Looking(d, e, verdict) = known
  BY <1>3, <1>4 DEF Looking, Decision
<1> HIDE DEF place, idle
<1>6. placed \in Decision /\ placed.at = place /\ placed.effect = e
  BY <1>1, <1>4 DEF Decision
<1> HIDE DEF placed
<1>7. read \in Decision /\ read.at = place /\ read.effect = e
  BY <1>3, <1>6 DEF Decision
<1> HIDE DEF read
<1>8. known \in Decision /\ known.at = place /\ known.effect = e
  BY <1>3, <1>7 DEF Decision
<1> HIDE DEF known
<1>9. decision \in Decision /\ decision.at = place /\ decision.effect = e /\ decision.seen = seen
  BY <1>8 DEF Decision
<1>10. DecisionSound(decision, effect, world)
  BY <1>1, <1>9 DEF DecisionSound
<1> QED
  BY <1>5, <1>9, <1>10

(* The steps of a decision.                                                *)
LEMMA DecideKeepsInv ==
    ASSUME EffectInv, NEW d \in Deciders, NEW e \in Effects,
           NEW verdict \in {"approve", "deny"}, Decide(d, e, verdict)
    PROVE  EffectInv'
<1> DEFINE seen == effect[e].status
           decision == [Looking(d, e, verdict) EXCEPT !.seen = seen]
<1>1. seen \in Statuses /\ (seen \in {"executing", "failed"} => "approve" \in effect[e].verdicts)
  BY DEF EffectInv, EffectRow, EffectRowSound
<1>2. decision \in Decision /\ DecisionSound(decision, effect, world)
  BY <1>1, LookingSound
<1>3. Looking(d, e, verdict) = decision
  BY NotDecidingSound DEF Looking, Decision
<1>4. deciding' = [deciding EXCEPT ![d] = decision] /\ UNCHANGED <<effect, world>>
  BY <1>3 DEF Decide
<1> HIDE DEF decision
<1> QED
  BY <1>2, <1>4, DecisionChanges DEF EffectInv

LEMMA ProposeKeepsInv ==
    ASSUME EffectInv, NEW d \in Deciders, NEW e \in Effects, Propose(d, e)
    PROVE  EffectInv'
<1> DEFINE row == [effect[e] EXCEPT !.status = "pending_approval"]
           decision == [Looking(d, e, "approve") EXCEPT !.seen = "pending_approval"]
<1>1. "pending_approval" \in Statuses
  BY DEF Statuses, Undecided
<1>2. /\ row \in EffectRow /\ row.status = "pending_approval"
      /\ row.verdicts = effect[e].verdicts /\ row.acknowledged = effect[e].acknowledged
  BY <1>1, StatusIsSet
<1>3. EffectRowSound(row, world[e])
  BY <1>2 DEF EffectInv, EffectRowSound, Propose
<1>4. effect' = [effect EXCEPT ![e] = row] /\ UNCHANGED world
  BY DEF Propose
<1>5. decision \in Decision /\ DecisionSound(decision, effect, world)
  BY <1>1, LookingSound
<1> HIDE DEF row, decision
<1>6. /\ effect' \in [Effects -> EffectRow]
      /\ \A f \in Effects : EffectRowSound(effect'[f], world[f])
      /\ \A c \in Deciders : DecisionSound(deciding[c], effect', world)
  BY <1>2, <1>3, <1>4, RowChanges
<1>7. \A f \in Effects : effect'[f].verdicts = effect[f].verdicts
  BY <1>2, <1>4 DEF EffectInv
<1>8. DecisionSound(decision, effect', world)
  BY <1>5, <1>7 DEF DecisionSound
<1>9. CASE UNCHANGED deciding
  BY <1>4, <1>6, <1>9 DEF EffectInv
<1>10. CASE deciding' = [deciding EXCEPT ![d] = decision]
  BY <1>4, <1>5, <1>6, <1>8, <1>10, DecisionChanges
<1> QED
  BY <1>9, <1>10 DEF Propose, decision

(* Whatever ends a decision by setting a status that promises nothing.     *)
LEMMA ExpireKeepsInv ==
    ASSUME EffectInv, NEW d \in Deciders, Expire(d)
    PROVE  EffectInv'
<1> DEFINE e == Of(d)
           row == [effect[e] EXCEPT !.status = "expired"]
<1>1. e \in Effects /\ "expired" \in Statuses /\ "expired" \notin Undecided \cup {"none"}
  BY BusyHasEffect DEF Statuses, RefusedStatuses, Undecided, Expire, EffectAt
<1>2. /\ row \in EffectRow /\ row.status = "expired"
      /\ row.verdicts = effect[e].verdicts
  BY <1>1, StatusIsSet
<1>3. EffectRowSound(row, world[e])
  BY <1>1, <1>2 DEF EffectInv, EffectRowSound
<1>4. effect' = [effect EXCEPT ![e] = row] /\ EffectEnds(d) /\ UNCHANGED world
  BY DEF Expire
<1> HIDE DEF row, e
<1> QED
  BY <1>1, <1>2, <1>3, <1>4, RowChanges, DeciderEnds

LEMMA DenyKeepsInv ==
    ASSUME EffectInv, NEW d \in Deciders, Deny(d)
    PROVE  EffectInv'
<1> DEFINE e == Of(d)
           denied == [effect[e] EXCEPT !.status = "denied"]
           row == [denied EXCEPT !.verdicts = Verdicts(d)]
<1>1. /\ e \in Effects /\ effect[e] \in EffectRow
      /\ "denied" \in Statuses /\ "denied" \notin Undecided \cup {"none"}
  BY BusyHasEffect DEF Statuses, RefusedStatuses, Undecided, Deny, EffectAt
<1>2. /\ Verdicts(d) \in SUBSET {"approve", "deny"}
      /\ effect[e].verdicts \subseteq Verdicts(d)
  BY <1>1 DEF EffectInv, EffectRow, Verdicts, Deny
<1>3. denied \in EffectRow /\ denied.status = "denied"
  BY <1>1, StatusIsSet
<1>4. effect' = [effect EXCEPT ![e] = row] /\ EffectEnds(d) /\ UNCHANGED world
  BY <1>1 DEF Deny, EffectInv
<1> HIDE DEF denied
<1>5. /\ row \in EffectRow /\ row.status = "denied" /\ row.verdicts = Verdicts(d)
  BY <1>2, <1>3 DEF EffectRow
<1> HIDE DEF row
<1>6. EffectRowSound(row, world[e])
  BY <1>1, <1>2, <1>5 DEF EffectInv, EffectRowSound
<1> HIDE DEF e
<1> QED
  BY <1>1, <1>2, <1>4, <1>5, <1>6, RowChanges, DeciderEnds

LEMMA ApproveKeepsInv ==
    ASSUME EffectInv, NEW d \in Deciders, Approve(d)
    PROVE  EffectInv'
<1> DEFINE e == Of(d)
           status == IF effect[e].status = "executing" THEN "executing" ELSE "approved"
           approved == [effect[e] EXCEPT !.status = status]
           shown == [approved EXCEPT !.acknowledged = FALSE]
           row == [shown EXCEPT !.verdicts = Verdicts(d)]
<1>1. e \in Effects /\ effect[e] \in EffectRow /\ status \in Statuses
  BY BusyHasEffect DEF Statuses, Undecided, Approve, EffectAt
<1>2. /\ Verdicts(d) \in SUBSET {"approve", "deny"}
      /\ effect[e].verdicts \subseteq Verdicts(d)
      /\ "approve" \in Verdicts(d)
  BY <1>1 DEF EffectInv, EffectRow, DecisionSound, Verdicts, Approve, EffectAt, Of
<1>3. effect' = [effect EXCEPT ![e] = row] /\ EffectGoes(d, "approved") /\ UNCHANGED world
  BY <1>1 DEF Approve, EffectInv
<1>4. status # "completed"
  OBVIOUS
<1> HIDE DEF status
<1>5. approved \in EffectRow /\ approved.status = status
  BY <1>1 DEF EffectRow
<1> HIDE DEF approved
<1>6. shown \in EffectRow /\ shown.status = status /\ shown.acknowledged = FALSE
  BY <1>5 DEF EffectRow
<1> HIDE DEF shown
<1>7. /\ row \in EffectRow /\ row.status = status /\ row.acknowledged = FALSE
      /\ row.verdicts = Verdicts(d)
  BY <1>2, <1>6 DEF EffectRow
<1> HIDE DEF row
<1>8. EffectRowSound(row, world[e])
  BY <1>2, <1>4, <1>7 DEF EffectRowSound
<1> HIDE DEF e
<1>9. /\ effect' \in [Effects -> EffectRow] /\ effect'[e] = row
      /\ \A f \in Effects : EffectRowSound(effect'[f], world[f])
      /\ \A c \in Deciders : DecisionSound(deciding[c], effect', world)
  BY <1>1, <1>2, <1>3, <1>7, <1>8, RowChanges
<1>10. "approved" \in DecidingPlaces \ {"performed"} /\ ~EffectAt(d, "idle")
  BY DEF DecidingPlaces, Approve, EffectAt
<1> QED
  BY <1>2, <1>3, <1>7, <1>9, <1>10, DeciderGoes DEF e

LEMMA BeginExecutionKeepsInv ==
    ASSUME EffectInv, NEW d \in Deciders, BeginExecution(d)
    PROVE  EffectInv'
<1> DEFINE e == Of(d)
           executing == [effect[e] EXCEPT !.status = "executing"]
           final == [executing EXCEPT !.retrySafe = FALSE]
           row == [final EXCEPT !.acknowledged = FALSE]
<1>1. /\ e \in Effects /\ effect[e] \in EffectRow
      /\ "executing" \in Statuses /\ "approve" \in effect[e].verdicts
      /\ ~EffectAt(d, "idle")
  BY BusyHasEffect, ActingHasApproval
  DEF Statuses, Undecided, Acting, BeginExecution, EffectAt
<1>2. CASE UNCHANGED effect /\ EffectEnds(d)
  BY <1>2, DeciderEnds DEF EffectInv, BeginExecution
<1>3. CASE /\ effect[e].status \in {"approved", "executing", "failed"}
           /\ EffectGoes(d, "executing")
  <2>1. effect' = [effect EXCEPT ![e] = row] /\ UNCHANGED world
    BY <1>1, <1>3 DEF BeginExecution, EffectInv
  <2>2. /\ executing \in EffectRow
        /\ executing.status = "executing"
        /\ executing.verdicts = effect[e].verdicts
    BY <1>1, StatusIsSet
  <2> HIDE DEF executing
  <2>3. final \in EffectRow /\ final.status = "executing" /\ final.verdicts = effect[e].verdicts
    BY <2>2 DEF EffectRow
  <2> HIDE DEF final
  <2>4. /\ row \in EffectRow /\ row.status = "executing" /\ row.acknowledged = FALSE
        /\ row.verdicts = effect[e].verdicts
    BY <2>3 DEF EffectRow
  <2> HIDE DEF row
  <2>5. EffectRowSound(row, world[e])
    BY <1>1, <2>4 DEF EffectRowSound
  <2> HIDE DEF e
  <2>6. /\ effect' \in [Effects -> EffectRow] /\ effect'[e] = row
        /\ \A f \in Effects : EffectRowSound(effect'[f], world[f])
        /\ \A c \in Deciders : DecisionSound(deciding[c], effect', world)
    BY <1>1, <2>1, <2>4, <2>5, RowChanges
  <2>7. "executing" \in DecidingPlaces \ {"performed"}
    BY DEF DecidingPlaces
  <2> QED
    BY <1>1, <1>3, <2>1, <2>4, <2>6, <2>7, DeciderGoes DEF e
<1> QED
  BY <1>2, <1>3 DEF BeginExecution

LEMMA LookUpKeyKeepsInv ==
    ASSUME EffectInv, NEW d \in Deciders, LookUpKey(d)
    PROVE  EffectInv'
<1> DEFINE known == world[Of(d)].performed > 0
           placed == [deciding[d] EXCEPT !.at = "performing"]
           decision == [placed EXCEPT !.recorded = known]
<1>1. deciding[d] \in Decision /\ "performing" \in DecidingPlaces /\ known \in BOOLEAN
  BY DEF EffectInv, DecidingPlaces
<1>2. Of(d) \in Effects /\ "approve" \in effect[Of(d)].verdicts
  BY ActingHasApproval DEF LookUpKey, EffectAt, Acting
<1>3. deciding' = [deciding EXCEPT ![d] = decision] /\ UNCHANGED <<effect, world>>
  BY <1>1 DEF LookUpKey, EffectInv
<1> HIDE DEF known
<1>4. placed \in Decision /\ placed.at = "performing" /\ placed.effect = Of(d)
  BY <1>1 DEF Decision, Of
<1> HIDE DEF placed
<1>5. decision \in Decision /\ decision.at = "performing" /\ decision.effect = Of(d)
  BY <1>1, <1>4 DEF Decision
<1> HIDE DEF decision
<1>6. DecisionSound(decision, effect, world)
  BY <1>2, <1>5 DEF DecisionSound
<1> QED
  BY <1>3, <1>5, <1>6, DecisionChanges DEF EffectInv

LEMMA PerformKeepsInv ==
    ASSUME EffectInv, NEW d \in Deciders, Perform(d)
    PROVE  EffectInv'
<1> DEFINE e == Of(d)
           deed == [world[e] EXCEPT !.performed = 1]
           decision == [deciding[d] EXCEPT !.at = "performed"]
<1>1. /\ e \in Effects /\ world[e] \in Deed /\ deciding[d] \in Decision
      /\ "approve" \in effect[e].verdicts /\ "performed" \in DecidingPlaces
  BY ActingHasApproval DEF EffectInv, Perform, EffectAt, Acting, DecidingPlaces
<1>2. (IF world[e].performed > 0 THEN world[e].performed ELSE 1) = 1
  BY <1>1 DEF Deed
<1>3. world' = [world EXCEPT ![e] = deed] /\ UNCHANGED effect
  BY <1>2 DEF Perform
<1>4. deed \in Deed /\ deed.performed = 1
  <2>1. 1 \in 0 .. 1
    OBVIOUS
  <2> QED
    BY <1>1, <2>1 DEF Deed
<1>5. deciding' = [deciding EXCEPT ![d] = decision]
  BY DEF Perform, EffectGoes
<1>6. decision \in Decision /\ decision.at = "performed" /\ decision.effect = e
  BY <1>1 DEF Decision, Of
<1> HIDE DEF deed, decision, e
<1>7. /\ world' \in [Effects -> Deed]
      /\ \A f \in Effects : world'[f] = IF f = e THEN deed ELSE world[f]
  BY <1>3, <1>4 DEF EffectInv
<1>8. /\ deciding' \in [Deciders -> Decision]
      /\ \A c \in Deciders : deciding'[c] = IF c = d THEN decision ELSE deciding[c]
  BY <1>5, <1>6 DEF EffectInv
<1>9. \A f \in Effects : EffectRowSound(effect'[f], world'[f])
  BY <1>1, <1>3, <1>4, <1>7 DEF EffectInv, EffectRowSound
<1>10. \A c \in Deciders : DecisionSound(deciding'[c], effect', world')
  BY <1>1, <1>3, <1>4, <1>6, <1>7, <1>8 DEF EffectInv, DecisionSound
<1> QED
  BY <1>3, <1>7, <1>8, <1>9, <1>10 DEF EffectInv

LEMMA FailToPerformKeepsInv ==
    ASSUME EffectInv, NEW d \in Deciders, FailToPerform(d)
    PROVE  EffectInv'
<1> PICK again \in BOOLEAN :
         deciding' = [deciding EXCEPT ![d].at = "failed", ![d].retrySafe = again]
  BY DEF FailToPerform
<1> DEFINE placed == [deciding[d] EXCEPT !.at = "failed"]
           decision == [placed EXCEPT !.retrySafe = again]
<1>1. deciding[d] \in Decision /\ "failed" \in DecidingPlaces /\ again \in BOOLEAN
  BY DEF EffectInv, DecidingPlaces
<1>2. Of(d) \in Effects /\ "approve" \in effect[Of(d)].verdicts
  BY ActingHasApproval DEF FailToPerform, EffectAt, Acting
<1>3. deciding' = [deciding EXCEPT ![d] = decision] /\ UNCHANGED <<effect, world>>
  BY <1>1 DEF FailToPerform, EffectInv
<1>4. placed \in Decision /\ placed.at = "failed" /\ placed.effect = Of(d)
  BY <1>1 DEF Decision, Of
<1> HIDE DEF placed
<1>5. decision \in Decision /\ decision.at = "failed" /\ decision.effect = Of(d)
  BY <1>1, <1>4 DEF Decision
<1> HIDE DEF decision
<1>6. DecisionSound(decision, effect, world)
  BY <1>2, <1>5 DEF DecisionSound
<1> QED
  BY <1>3, <1>5, <1>6, DecisionChanges DEF EffectInv

LEMMA StoreFailureKeepsInv ==
    ASSUME EffectInv, NEW d \in Deciders, StoreFailure(d)
    PROVE  EffectInv'
<1> DEFINE e == Of(d)
           again == deciding[d].retrySafe
           failed == [effect[e] EXCEPT !.status = "failed"]
           row == [failed EXCEPT !.retrySafe = again]
<1>1. /\ e \in Effects /\ effect[e] \in EffectRow /\ again \in BOOLEAN
      /\ "approve" \in effect[e].verdicts
      /\ "failed" \in Statuses /\ "failed" \notin Undecided \cup {"none"}
  BY ActingHasApproval
  DEF EffectInv, Decision, Statuses, Undecided, Acting, StoreFailure, EffectAt
<1>2. effect' = [effect EXCEPT ![e] = row] /\ EffectEnds(d) /\ UNCHANGED world
  BY <1>1 DEF StoreFailure, EffectInv
<1>3. failed \in EffectRow /\ failed.status = "failed" /\ failed.verdicts = effect[e].verdicts
  BY <1>1, StatusIsSet
<1> HIDE DEF failed, again
<1>4. row \in EffectRow /\ row.status = "failed" /\ row.verdicts = effect[e].verdicts
  BY <1>1, <1>3 DEF EffectRow
<1> HIDE DEF row
<1>5. EffectRowSound(row, world[e])
  BY <1>1, <1>4 DEF EffectRowSound
<1> HIDE DEF e
<1> QED
  BY <1>1, <1>2, <1>4, <1>5, RowChanges, DeciderEnds

LEMMA CompleteKeepsInv ==
    ASSUME EffectInv, NEW d \in Deciders, Complete(d)
    PROVE  EffectInv'
<1> DEFINE e == Of(d)
           row == [effect[e] EXCEPT !.status = "completed"]
<1>1. /\ e \in Effects /\ "completed" \in Statuses
      /\ "completed" \notin Undecided \cup {"none"}
      /\ "approve" \in effect[e].verdicts
      /\ world[e].performed = 1
  BY ActingHasApproval
  DEF EffectInv, DecisionSound, Statuses, Undecided, Acting, Complete, EffectAt, Of
<1>2. row \in EffectRow /\ row.status = "completed" /\ row.verdicts = effect[e].verdicts
  BY <1>1, StatusIsSet
<1>3. EffectRowSound(row, world[e])
  BY <1>1, <1>2 DEF EffectRowSound
<1>4. effect' = [effect EXCEPT ![e] = row] /\ EffectEnds(d) /\ UNCHANGED world
  BY DEF Complete
<1> HIDE DEF row, e
<1> QED
  BY <1>1, <1>2, <1>3, <1>4, RowChanges, DeciderEnds

(* A row that changes under the deciders.                                  *)
LEMMA RowAloneChanges ==
    ASSUME EffectInv, NEW e \in Effects, NEW row \in EffectRow,
           effect' = [effect EXCEPT ![e] = row], UNCHANGED <<deciding, world>>,
           row.verdicts = effect[e].verdicts, EffectRowSound(row, world[e])
    PROVE  EffectInv'
BY RowChanges DEF EffectInv

(* The steps of others, and a crash.                                       *)
LEMMA CancelPendingEffectKeepsInv ==
    ASSUME EffectInv, NEW e \in Effects, CancelPendingEffect(e)
    PROVE  EffectInv'
<1> DEFINE row == [effect[e] EXCEPT !.status = "cancelled"]
<1>1. "cancelled" \in Statuses /\ "cancelled" \notin Undecided \cup {"none"}
  BY DEF Statuses, RefusedStatuses, Undecided
<1>2. row \in EffectRow /\ row.status = "cancelled" /\ row.verdicts = effect[e].verdicts
  BY <1>1, StatusIsSet
<1>3. EffectRowSound(row, world[e])
  BY <1>1, <1>2 DEF EffectInv, EffectRowSound
<1>4. effect' = [effect EXCEPT ![e] = row] /\ UNCHANGED <<deciding, world>>
  BY DEF CancelPendingEffect
<1> HIDE DEF row
<1> QED
  BY <1>2, <1>3, <1>4, RowAloneChanges

LEMMA AcknowledgeKeepsInv ==
    ASSUME EffectInv, NEW e \in Effects, Acknowledge(e)
    PROVE  EffectInv'
<1> DEFINE row == [effect[e] EXCEPT !.acknowledged = TRUE]
<1>1. effect[e] \in EffectRow /\ effect[e].status \notin Undecided \cup {"none"}
  BY DEF EffectInv, Acknowledge
<1>2. row \in EffectRow /\ row.status = effect[e].status /\ row.verdicts = effect[e].verdicts
  BY <1>1 DEF EffectRow
<1>3. EffectRowSound(row, world[e])
  BY <1>1, <1>2 DEF EffectInv, EffectRowSound
<1>4. effect' = [effect EXCEPT ![e] = row] /\ UNCHANGED <<deciding, world>>
  BY DEF Acknowledge
<1> HIDE DEF row
<1> QED
  BY <1>2, <1>3, <1>4, RowAloneChanges

LEMMA TimePassesKeepsInv ==
    ASSUME EffectInv, NEW e \in Effects, TimePasses(e)
    PROVE  EffectInv'
<1>1. /\ world' \in [Effects -> Deed]
      /\ \A f \in Effects : world'[f].performed = world[f].performed
  <2>1. world[e] \in Deed /\ world \in [Effects -> Deed]
    BY DEF EffectInv
  <2> DEFINE changed == [world[e] EXCEPT !.changed = TRUE]
             late == [world[e] EXCEPT !.late = TRUE]
  <2>2. /\ changed \in Deed /\ changed.performed = world[e].performed
        /\ late \in Deed /\ late.performed = world[e].performed
    BY <2>1 DEF Deed
  <2>3. world' = [world EXCEPT ![e] = changed] \/ world' = [world EXCEPT ![e] = late]
    BY DEF TimePasses
  <2> HIDE DEF changed, late
  <2> QED
    BY <2>1, <2>2, <2>3
<1>2. UNCHANGED <<effect, deciding>>
  BY DEF TimePasses
<1> QED
  BY <1>1, <1>2 DEF EffectInv, EffectRowSound, DecisionSound

LEMMA CrashDecidersKeepsInv ==
    ASSUME EffectInv, CrashDeciders
    PROVE  EffectInv'
<1>1. \A d \in Deciders : NotDeciding(Of(d)) \in Decision /\ NotDeciding(Of(d)).at = "idle"
  BY NotDecidingSound DEF EffectInv, Decision, Of
<1>2. deciding' = [d \in Deciders |-> NotDeciding(Of(d))] /\ UNCHANGED <<effect, world>>
  BY DEF CrashDeciders
<1>3. /\ deciding' \in [Deciders -> Decision]
      /\ \A d \in Deciders : deciding'[d].at = "idle"
  BY <1>1, <1>2
<1> QED
  BY <1>2, <1>3 DEF EffectInv, DecisionSound

(* Every step keeps the invariant.                                         *)
LEMMA EffectNextKeepsInv == EffectInv /\ [EffectNext]_effectVars => EffectInv'
<1> SUFFICES ASSUME EffectInv, [EffectNext]_effectVars PROVE EffectInv'
  OBVIOUS
<1>1. ASSUME NEW d \in Deciders, NEW e \in Effects, Propose(d, e) PROVE EffectInv'
  BY <1>1, ProposeKeepsInv
<1>2. ASSUME NEW d \in Deciders, NEW e \in Effects,
             NEW verdict \in {"approve", "deny"}, Decide(d, e, verdict)
      PROVE  EffectInv'
  BY <1>2, DecideKeepsInv
<1>3. ASSUME NEW d \in Deciders, Expire(d) PROVE EffectInv'
  BY <1>3, ExpireKeepsInv
<1>4. ASSUME NEW d \in Deciders, Deny(d) PROVE EffectInv'
  BY <1>4, DenyKeepsInv
<1>5. ASSUME NEW d \in Deciders, Approve(d) PROVE EffectInv'
  BY <1>5, ApproveKeepsInv
<1>6. ASSUME NEW d \in Deciders, RefuseDecision(d) PROVE EffectInv'
  BY <1>6, DeciderEnds DEF RefuseDecision, EffectInv
<1>7. ASSUME NEW d \in Deciders, BeginExecution(d) PROVE EffectInv'
  BY <1>7, BeginExecutionKeepsInv
<1>8. ASSUME NEW d \in Deciders, LookUpKey(d) PROVE EffectInv'
  BY <1>8, LookUpKeyKeepsInv
<1>9. ASSUME NEW d \in Deciders, Perform(d) PROVE EffectInv'
  BY <1>9, PerformKeepsInv
<1>10. ASSUME NEW d \in Deciders, FailToPerform(d) PROVE EffectInv'
  BY <1>10, FailToPerformKeepsInv
<1>11. ASSUME NEW d \in Deciders, StoreFailure(d) PROVE EffectInv'
  BY <1>11, StoreFailureKeepsInv
<1>12. ASSUME NEW d \in Deciders, Complete(d) PROVE EffectInv'
  BY <1>12, CompleteKeepsInv
<1>13. ASSUME NEW e \in Effects, CancelPendingEffect(e) PROVE EffectInv'
  BY <1>13, CancelPendingEffectKeepsInv
<1>14. ASSUME NEW e \in Effects, Acknowledge(e) PROVE EffectInv'
  BY <1>14, AcknowledgeKeepsInv
<1>15. ASSUME NEW e \in Effects, TimePasses(e) PROVE EffectInv'
  BY <1>15, TimePassesKeepsInv
<1>16. CASE CrashDeciders
  BY <1>16, CrashDecidersKeepsInv
<1>17. CASE UNCHANGED effectVars
  BY <1>17 DEF effectVars, EffectInv
<1> QED
  BY <1>1, <1>2, <1>3, <1>4, <1>5, <1>6, <1>7, <1>8, <1>9, <1>10, <1>11, <1>12, <1>13,
     <1>14, <1>15, <1>16, <1>17 DEF EffectNext

LEMMA EffectInvShows == EffectInv => EffectsAreHonest
<1> SUFFICES ASSUME EffectInv PROVE EffectsAreHonest
  OBVIOUS
<1>1. ASSUME NEW e \in Effects
      PROVE  /\ world[e].performed <= 1
             /\ world[e].performed > 0 => world[e].performed = 1
  <2>1. world[e].performed \in 0 .. 1
    BY DEF EffectInv, Deed
  <2> QED
    BY <2>1
<1>2. EffectRunsOnce
  BY <1>1 DEF EffectRunsOnce
<1>3. EffectTellsTheTruth
  BY <1>1 DEF EffectTellsTheTruth, EffectInv, EffectRowSound
<1> QED
  BY <1>2, <1>3 DEF EffectsAreHonest

(* Whoever decides, retries, stops a run or crashes between any two steps: *)
(* an effect is carried out once, with an approval on record, it is called *)
(* completed only then, and none that awaits somebody is hidden.           *)
THEOREM EffectsStayHonest == EffectSpec => []EffectsAreHonest
BY EffectInitInv, EffectNextKeepsInv, EffectInvShows, PTL DEF EffectSpec

-----------------------------------------------------------------------------
(* Proposals                                                               *)

ProposalRow == [status : {"none", "pending", "applied", "stale", "dismissed"}, base : Nat,
                actor : Reviewers \cup {Unset}, wording : Wordings \cup {Unset},
                applied : Nat, appliedWording : Wordings \cup {Unset}]
ReviewPlaces == {"idle", "reserving", "checking", "writing", "confirming", "marking",
                 "conflict", "refused", "stale"}
ReviewRow == [at : ReviewPlaces, proposal : Proposals, wording : Wordings \cup {Unset},
              recovering : BOOLEAN, revision : Nat]
HistoryRow == [of : Proposals \cup {Unset}, by : Reviewers \cup {Unset},
               content : Wordings \cup {Unset}]

ProposalShape ==
    /\ proposal \in [Proposals -> ProposalRow]
    /\ applying \subseteq Proposals
    /\ review \in [Reviewers -> ReviewRow]
    /\ history \in Seq(HistoryRow)

Reviewing(r) == ~ReviewAt(r, "idle")
HasReserved(r) == ReviewAt(r, "checking") \/ ReviewAt(r, "writing") \/ ReviewAt(r, "confirming")
                  \/ ReviewAt(r, "marking") \/ ReviewAt(r, "conflict") \/ ReviewAt(r, "refused")

(* The revisions a proposal has: only on top of the one it was drafted     *)
(* against, and with what its reservation says as long as it is pending.   *)
WrittenSound(q, n) ==
    /\ n = proposal[q].base + 1
    /\ history[n].by \in Reviewers
    /\ proposal[q].status \in {"pending", "applied", "dismissed"}
    /\ proposal[q].status = "pending" =>
         history[n].by = proposal[q].actor /\ history[n].content = proposal[q].wording

ProposalSound(q) ==
    /\ proposal[q].base <= HeadRevision \/ proposal[q].status = "none"
    /\ \A n \in 1 .. HeadRevision : history[n].of = q => WrittenSound(q, n)
    /\ proposal[q].status = "applied" =>
         /\ proposal[q].applied = proposal[q].base + 1
         /\ proposal[q].applied <= HeadRevision
         /\ history[proposal[q].applied].of = q
         /\ history[proposal[q].applied].content = proposal[q].appliedWording

(* A review holds its proposal for itself, and has it reserved from its    *)
(* reservation on.                                                         *)
ReviewSound(r) ==
    Reviewing(r) =>
        LET q == About(r)
            row == proposal[q]
        IN
        /\ q \in applying /\ row.status # "none"
        /\ HasReserved(r) =>
             /\ row.status # "stale"
             /\ row.actor = r /\ row.wording = review[r].wording
        /\ ReviewAt(r, "marking") =>
             /\ review[r].revision = row.base + 1 /\ review[r].revision <= HeadRevision
             /\ history[review[r].revision] = Revision(q, r, review[r].wording)
        /\ ReviewAt(r, "stale") /\ row.status = "pending" =>
             \A n \in 1 .. HeadRevision : history[n].of # q

Alone ==
    \A r, s \in Reviewers : Reviewing(r) /\ Reviewing(s) /\ About(r) = About(s) => r = s

ProposalInv ==
    /\ ProposalShape
    /\ \A q \in Proposals : ProposalSound(q)
    /\ \A r \in Reviewers : ReviewSound(r)
    /\ Alone

-----------------------------------------------------------------------------

(* A reviewer whose request is over.                                       *)
LEMMA NoReviewIsAReview ==
    ASSUME NEW q \in Proposals
    PROVE  NoReview(q) \in ReviewRow /\ NoReview(q).at = "idle" /\ NoReview(q).proposal = q
BY DEF NoReview, ReviewRow, ReviewPlaces

(* A step of the review of one proposal by one reviewer concerns neither   *)
(* the other proposals nor the other reviews.                              *)
LEMMA ReviewStep ==
    ASSUME ProposalInv, NEW r \in Reviewers, NEW q \in Proposals, ProposalShape',
           \A s \in Reviewers \ {r} : review'[s] = review[s],
           \A p \in Proposals \ {q} : proposal'[p] = proposal[p],
           applying \ {q} \subseteq applying',
           Len(history) <= Len(history'),
           \A n \in 1 .. Len(history) : history'[n] = history[n],
           \A n \in 1 .. Len(history') : n > Len(history) => history'[n].of \in {q, Unset},
           \A s \in Reviewers \ {r} : Reviewing(s) => About(s) # q,
           Reviewing(r)' => About(r)' = q,
           ProposalSound(q)', ReviewSound(r)'
    PROVE  ProposalInv'
<1>0. /\ Len(history) \in Nat /\ Len(history') \in Nat
      /\ \A p \in Proposals : ProposalSound(p) /\ proposal[p] \in ProposalRow /\ p # Unset
      /\ \A s \in Reviewers : ReviewSound(s) /\ review[s] \in ReviewRow
  BY ProposalAssumption DEF ProposalInv, ProposalShape
<1>1. ASSUME NEW p \in Proposals PROVE ProposalSound(p)'
  <2>1. CASE p = q BY <2>1
  <2>2. CASE p # q
    <3>1. proposal'[p] = proposal[p] BY <2>2
    <3>2. ASSUME NEW n \in 1 .. Len(history'), history'[n].of = p
          PROVE  n \in 1 .. Len(history) /\ history'[n] = history[n]
      BY <3>2, <2>2, <1>0
    <3>3. proposal[p].base \in Nat /\ proposal[p].applied \in Nat BY <1>0 DEF ProposalRow
    <3>4. \A n \in 1 .. Len(history') : history'[n].of = p => WrittenSound(p, n)'
      BY <3>1, <3>2, <1>0 DEF ProposalSound, WrittenSound, HeadRevision
    <3>5. /\ proposal'[p].base <= Len(history') \/ proposal'[p].status = "none"
          /\ proposal'[p].status = "applied" =>
               /\ proposal'[p].applied = proposal'[p].base + 1
               /\ proposal'[p].applied <= Len(history')
               /\ history'[proposal'[p].applied] = history[proposal[p].applied]
               /\ history[proposal[p].applied].of = p
               /\ history[proposal[p].applied].content = proposal'[p].appliedWording
      BY <3>1, <3>3, <1>0 DEF ProposalSound, HeadRevision
    <3> QED BY <3>4, <3>5 DEF ProposalSound, HeadRevision
  <2> QED BY <2>1, <2>2
<1>2. ASSUME NEW s \in Reviewers PROVE ReviewSound(s)'
  <2>1. CASE s = r BY <2>1
  <2>2. CASE s # r /\ ~Reviewing(s)'
    BY <2>2 DEF ReviewSound
  <2>3. CASE s # r /\ Reviewing(s)'
    <3>1. review'[s] = review[s] BY <2>3
    <3>2. Reviewing(s) /\ About(s) \in Proposals /\ About(s)' = About(s) /\ About(s) # q
      BY <2>3, <3>1, <1>0 DEF Reviewing, ReviewAt, About, ReviewRow
    <3> DEFINE p == About(s)
    <3>3. proposal'[p] = proposal[p] /\ p \in Proposals /\ p # Unset BY <3>2, <1>0
    <3>4. p \in applying => p \in applying' BY <3>2
    <3>5. /\ p \in applying /\ proposal[p].status # "none"
          /\ HasReserved(s) =>
               /\ proposal[p].status # "stale"
               /\ proposal[p].actor = s /\ proposal[p].wording = review[s].wording
          /\ ReviewAt(s, "marking") =>
               /\ review[s].revision = proposal[p].base + 1 /\ review[s].revision <= Len(history)
               /\ history[review[s].revision] = Revision(p, s, review[s].wording)
          /\ ReviewAt(s, "stale") /\ proposal[p].status = "pending" =>
               \A n \in 1 .. Len(history) : history[n].of # p
      BY <3>2, <1>0 DEF ReviewSound, HeadRevision
    <3>6. (HasReserved(s)' <=> HasReserved(s)) /\ \A x \in ReviewPlaces : ReviewAt(s, x)' <=> ReviewAt(s, x)
      BY <3>1 DEF HasReserved, ReviewAt
    <3>7. "marking" \in ReviewPlaces /\ "stale" \in ReviewPlaces BY DEF ReviewPlaces
    <3>8. proposal[p].base \in Nat BY <3>3, <1>0 DEF ProposalRow
    <3>9. p = About(s)' BY <3>2
    <3> HIDE DEF p
    <3>10. ReviewAt(s, "marking")' =>
             /\ review'[s].revision = proposal'[p].base + 1 /\ review'[s].revision <= Len(history')
             /\ history'[review'[s].revision] = Revision(p, s, review'[s].wording)
      BY <3>1, <3>3, <3>5, <3>6, <3>7, <3>8, <1>0
    <3>11. ReviewAt(s, "stale")' /\ proposal'[p].status = "pending" =>
             \A n \in 1 .. Len(history') : history'[n].of # p
      BY <3>2, <3>3, <3>5, <3>6, <3>7, <1>0 DEF p
    <3> QED
      BY <3>1, <3>3, <3>4, <3>5, <3>6, <3>9, <3>10, <3>11
      DEF ReviewSound, HeadRevision, Revision
  <2> QED BY <2>1, <2>2, <2>3
<1>3. Alone'
  <2>1. ASSUME NEW s \in Reviewers, NEW u \in Reviewers, Reviewing(s)', Reviewing(u)',
               About(s)' = About(u)'
        PROVE  s = u
    <3>1. \A x \in Reviewers \ {r} : Reviewing(x)' => Reviewing(x) /\ About(x)' = About(x)
      BY DEF Reviewing, ReviewAt, About
    <3>2. CASE s # r /\ u # r BY <2>1, <3>1, <3>2 DEF ProposalInv, Alone
    <3>3. CASE s = r /\ u # r BY <2>1, <3>1, <3>3
    <3>4. CASE s # r /\ u = r BY <2>1, <3>1, <3>4
    <3> QED BY <3>2, <3>3, <3>4
  <2> QED BY <2>1 DEF Alone
<1> QED BY <1>1, <1>2, <1>3 DEF ProposalInv

(* The proposal of a review is nobody else's.                              *)
LEMMA MyProposal ==
    ASSUME ProposalInv, NEW r \in Reviewers, Reviewing(r)
    PROVE  /\ About(r) \in Proposals /\ review[r] \in ReviewRow /\ ReviewSound(r)
           /\ ProposalSound(About(r)) /\ proposal[About(r)] \in ProposalRow
           /\ review \in [Reviewers -> ReviewRow]
           /\ \A s \in Reviewers \ {r} : Reviewing(s) => About(s) # About(r)
<1>1. review[r] \in ReviewRow /\ About(r) \in Proposals
  BY DEF ProposalInv, ProposalShape, About, ReviewRow
<1> QED BY <1>1 DEF ProposalInv, ProposalShape, Alone

(* What was committed for a pending proposal was committed by the review   *)
(* that has it reserved.                                                   *)
LEMMA WrittenIsCommitted ==
    ASSUME ProposalInv, NEW r \in Reviewers, HasReserved(r), Reviewing(r),
           proposal[About(r)].status = "pending", CommittedRevisions(r) = {},
           NEW n \in 1 .. HeadRevision
    PROVE  history[n].of # About(r)
<1>1. SUFFICES ASSUME history[n].of = About(r) PROVE FALSE OBVIOUS
<1>2. /\ n = proposal[About(r)].base + 1 /\ history[n].by = r
      /\ history[n].content = review[r].wording
  BY <1>1, MyProposal DEF ProposalSound, WrittenSound, ReviewSound
<1>3. history[n] \in HistoryRow BY DEF ProposalInv, ProposalShape, HeadRevision
<1>4. history[n] = [of |-> history[n].of, by |-> history[n].by, content |-> history[n].content]
  BY <1>3 DEF HistoryRow
<1>5. history[n] = Revision(About(r), r, review[r].wording)
  BY <1>1, <1>2, <1>4 DEF Revision
<1> QED BY <1>2, <1>5 DEF CommittedRevisions

(* A step that changes nothing but where one review stands.                *)
LEMMA ReviewMoves ==
    ASSUME ProposalInv, NEW r \in Reviewers, NEW row \in ReviewRow, row.at # "idle",
           row.proposal \in Proposals, row.proposal \in applying',
           applying \subseteq applying', applying' \subseteq Proposals,
           review' = [review EXCEPT ![r] = row],
           UNCHANGED <<proposal, history>>,
           \A s \in Reviewers \ {r} : Reviewing(s) => About(s) # row.proposal,
           ReviewSound(r)'
    PROVE  ProposalInv'
<1>1. /\ review \in [Reviewers -> ReviewRow] /\ proposal \in [Proposals -> ProposalRow]
      /\ history \in Seq(HistoryRow) /\ Len(history) \in Nat
  BY DEF ProposalInv, ProposalShape
<1>2. /\ review' \in [Reviewers -> ReviewRow] /\ review'[r] = row
      /\ \A s \in Reviewers \ {r} : review'[s] = review[s]
  BY <1>1
<1>3. ProposalShape' BY <1>1, <1>2 DEF ProposalShape
<1>4. ProposalSound(row.proposal)'
  <2>1. ProposalSound(row.proposal) BY DEF ProposalInv
  <2> QED BY <2>1 DEF ProposalSound, WrittenSound, HeadRevision
<1>5. About(r)' = row.proposal BY <1>2 DEF About
<1> QED BY <1>1, <1>2, <1>3, <1>4, <1>5, ReviewStep

(* The end of a review, whatever it has done to its proposal.              *)
LEMMA ReviewEnding ==
    ASSUME ProposalInv, NEW r \in Reviewers, Reviewing(r), ReviewEnds(r), UNCHANGED history,
           proposal' \in [Proposals -> ProposalRow],
           \A p \in Proposals \ {About(r)} : proposal'[p] = proposal[p],
           NEW q, q = About(r), ProposalSound(q)' \/ UNCHANGED proposal
    PROVE  ProposalInv'
<1>1. /\ review \in [Reviewers -> ReviewRow] /\ q \in Proposals /\ applying \subseteq Proposals
      /\ history \in Seq(HistoryRow) /\ Len(history) \in Nat /\ ProposalSound(q)
      /\ \A s \in Reviewers \ {r} : Reviewing(s) => About(s) # q
  BY MyProposal DEF ProposalInv, ProposalShape
<1>2. /\ applying' = applying \ {q} /\ review' = [review EXCEPT ![r] = NoReview(q)]
  BY DEF ReviewEnds
<1>3. /\ review' \in [Reviewers -> ReviewRow] /\ review'[r].at = "idle"
      /\ \A s \in Reviewers \ {r} : review'[s] = review[s]
  BY <1>1, <1>2, NoReviewIsAReview
<1>4. ProposalShape' BY <1>1, <1>2, <1>3 DEF ProposalShape
<1>5. ProposalSound(q)'
  <2>1. CASE UNCHANGED proposal BY <2>1, <1>1 DEF ProposalSound, WrittenSound, HeadRevision
  <2> QED BY <2>1
<1>6. ~Reviewing(r)' /\ ReviewSound(r)' BY <1>3 DEF Reviewing, ReviewAt, ReviewSound
<1> QED BY <1>1, <1>2, <1>3, <1>4, <1>5, <1>6, ReviewStep

-----------------------------------------------------------------------------

(* The steps of a review.                                                  *)
LEMMA ApplyKeepsProposals ==
    ASSUME ProposalInv, NEW r \in Reviewers, NEW q \in Proposals, NEW w \in Wordings, Apply(r, q, w)
    PROVE  ProposalInv'
<1>r. PICK row : row = [NoReview(q) EXCEPT !.at = "reserving", !.wording = w] OBVIOUS
<1>1. /\ row \in ReviewRow /\ row.at = "reserving" /\ row.proposal = q
  <2>1. NoReview(q) \in ReviewRow /\ NoReview(q).proposal = q BY NoReviewIsAReview
  <2>2. "reserving" \in ReviewPlaces /\ w \in Wordings \cup {Unset} BY DEF ReviewPlaces
  <2> QED BY <1>r, <2>1, <2>2 DEF ReviewRow
<1>2. /\ review' = [review EXCEPT ![r] = row] /\ applying' = applying \cup {q}
      /\ proposal[q].status # "none" /\ q \notin applying
      /\ UNCHANGED <<proposal, history>>
  BY <1>r DEF Apply
<1>3. /\ review \in [Reviewers -> ReviewRow] /\ applying \subseteq Proposals
      /\ \A s \in Reviewers : ReviewSound(s)
  BY DEF ProposalInv, ProposalShape
<1>4. \A s \in Reviewers : Reviewing(s) => About(s) # q BY <1>2, <1>3 DEF ReviewSound
<1>5. review'[r] = row BY <1>2, <1>3
<1>6. ReviewSound(r)'
  BY <1>1, <1>2, <1>5 DEF ReviewSound, About, HasReserved, ReviewAt
<1> QED BY <1>1, <1>2, <1>3, <1>4, <1>6, ReviewMoves

LEMMA ReserveKeepsProposals ==
    ASSUME ProposalInv, NEW r \in Reviewers, Reserve(r) PROVE ProposalInv'
<1>q0. PICK q : q = About(r) OBVIOUS
<1>p. PICK row : row = [proposal[q] EXCEPT !.actor = r, !.wording = review[r].wording] OBVIOUS
<1>r. PICK rev : rev = [review[r] EXCEPT !.at = "checking", !.recovering = Reserved(q)] OBVIOUS
<1>0. /\ q \in Proposals /\ Reviewing(r) /\ ReviewAt(r, "reserving")
      /\ review \in [Reviewers -> ReviewRow] /\ proposal \in [Proposals -> ProposalRow]
      /\ applying \subseteq Proposals /\ history \in Seq(HistoryRow) /\ Len(history) \in Nat
      /\ ReviewSound(r) /\ ProposalSound(q)
      /\ \A s \in Reviewers \ {r} : Reviewing(s) => About(s) # q
  <2>1. ReviewAt(r, "reserving") /\ Reviewing(r) BY DEF Reserve, Reviewing, ReviewAt
  <2> QED BY <2>1, <1>q0, MyProposal DEF ProposalInv, ProposalShape
<1>1. /\ proposal[q].status \in {"pending", "applied"}
      /\ proposal[q].actor # Unset => proposal[q].actor = r /\ proposal[q].wording = review[r].wording
  BY <1>q0 DEF Reserve, Reservable, Reserved
<1>2. /\ UNCHANGED <<applying, history>>
      /\ review' = [review EXCEPT ![r] = rev] /\ proposal' = [proposal EXCEPT ![q] = row]
  BY <1>q0, <1>p, <1>r, <1>0 DEF Reserve
<1>3. /\ review[r] \in ReviewRow /\ proposal[q] \in ProposalRow /\ Reserved(q) \in BOOLEAN
      /\ review[r].wording \in Wordings \cup {Unset}
  BY <1>0 DEF Reserved, ReviewRow
<1>4. /\ row \in ProposalRow /\ row.status = proposal[q].status /\ row.base = proposal[q].base
      /\ row.actor = r /\ row.wording = review[r].wording /\ row.applied = proposal[q].applied
      /\ row.appliedWording = proposal[q].appliedWording
  BY <1>p, <1>3 DEF ProposalRow
<1>5. /\ rev \in ReviewRow /\ rev.at = "checking" /\ rev.proposal = review[r].proposal
      /\ rev.wording = review[r].wording
  BY <1>r, <1>3 DEF ReviewRow, ReviewPlaces
<1>6. /\ proposal' \in [Proposals -> ProposalRow] /\ proposal'[q] = row
      /\ \A p \in Proposals \ {q} : proposal'[p] = proposal[p]
  BY <1>0, <1>2, <1>4
<1>7. /\ review' \in [Reviewers -> ReviewRow] /\ review'[r] = rev
      /\ \A s \in Reviewers \ {r} : review'[s] = review[s]
  BY <1>0, <1>2, <1>5
<1>8. ProposalShape' BY <1>0, <1>2, <1>6, <1>7 DEF ProposalShape
<1>9. ProposalSound(q)'
  <2>1. ASSUME NEW n \in 1 .. HeadRevision, history[n].of = q PROVE WrittenSound(q, n)'
    <3>1. WrittenSound(q, n) BY <2>1, <1>0 DEF ProposalSound
    <3>2. r # Unset BY ProposalAssumption
    <3>3. \A x \in Reviewers : x # Unset BY ProposalAssumption
    <3> QED BY <3>1, <3>3, <1>1, <1>2, <1>4, <1>6 DEF WrittenSound
  <2> QED BY <2>1, <1>0, <1>2, <1>4, <1>6 DEF ProposalSound, HeadRevision
<1>10. About(r)' = q BY <1>q0, <1>5, <1>7 DEF About
<1>11. ReviewSound(r)'
  <2>1. q \in applying' BY <1>0, <1>q0, <1>2 DEF ReviewSound
  <2>2. proposal'[q].status # "none" /\ proposal'[q].status # "stale" BY <1>1, <1>4, <1>6
  <2>3. proposal'[q].actor = r /\ proposal'[q].wording = review'[r].wording
    BY <1>4, <1>5, <1>6, <1>7
  <2>4. ~ReviewAt(r, "marking")' /\ ~ReviewAt(r, "stale")' BY <1>5, <1>7 DEF ReviewAt
  <2> QED BY <2>1, <2>2, <2>3, <2>4, <1>10 DEF ReviewSound
<1> QED BY <1>0, <1>2, <1>6, <1>7, <1>8, <1>9, <1>10, <1>11, ReviewStep

(* A review that goes on, with its proposal reserved.                      *)
LEMMA ReservedGoesOn ==
    ASSUME ProposalInv, NEW r \in Reviewers, HasReserved(r),
           NEW place \in {"writing", "confirming", "conflict", "refused"},
           ReviewGoes(r, place), UNCHANGED <<proposal, applying, history>>
    PROVE  ProposalInv'
<1>r. PICK row : row = [review[r] EXCEPT !.at = place] OBVIOUS
<1>0. Reviewing(r) BY DEF HasReserved, Reviewing, ReviewAt
<1>1. /\ review \in [Reviewers -> ReviewRow] /\ About(r) \in Proposals /\ review[r] \in ReviewRow
      /\ ReviewSound(r) /\ applying \subseteq Proposals
      /\ \A s \in Reviewers \ {r} : Reviewing(s) => About(s) # About(r)
  BY <1>0, MyProposal DEF ProposalInv, ProposalShape
<1>2. review' = [review EXCEPT ![r] = row] BY <1>r DEF ReviewGoes
<1>3. place \in ReviewPlaces /\ place # "idle" /\ place # "marking" /\ place # "stale"
  BY DEF ReviewPlaces
<1>4. /\ row \in ReviewRow /\ row.at = place /\ row.proposal = About(r)
      /\ row.wording = review[r].wording
  BY <1>r, <1>1, <1>3 DEF ReviewRow, About
<1>5. review'[r] = row BY <1>1, <1>2
<1>6. About(r)' = About(r) BY <1>4, <1>5 DEF About
<1>7. ReviewSound(r)'
  <2>1. /\ About(r) \in applying /\ proposal[About(r)].status # "none"
        /\ proposal[About(r)].status # "stale"
        /\ proposal[About(r)].actor = r /\ proposal[About(r)].wording = review[r].wording
    BY <1>0, <1>1 DEF ReviewSound
  <2>2. ~ReviewAt(r, "marking")' /\ ~ReviewAt(r, "stale")' BY <1>3, <1>4, <1>5 DEF ReviewAt
  <2> QED BY <2>1, <2>2, <1>4, <1>5, <1>6 DEF ReviewSound
<1>8. About(r) \in applying BY <1>0, <1>1 DEF ReviewSound
<1> QED BY <1>1, <1>2, <1>3, <1>4, <1>7, <1>8, ReviewMoves

(* The write: the key has written nothing and the base is current, or it   *)
(* is a replay.                                                            *)
LEMMA WriteKeepsProposals ==
    ASSUME ProposalInv, NEW r \in Reviewers, Write(r) PROVE ProposalInv'
<1>0. HasReserved(r) /\ Reviewing(r) BY DEF Write, HasReserved, Reviewing, ReviewAt
<1>1. CASE CommittedRevisions(r) # {}
  BY <1>0, <1>1, ReservedGoesOn DEF Write
<1>2. CASE CommittedRevisions(r) = {}
  <2>q. PICK q : q = About(r) OBVIOUS
  <2>r. PICK row : row = [review[r] EXCEPT !.at = "confirming"] OBVIOUS
  <2>e. PICK entry : entry = Revision(q, r, review[r].wording) OBVIOUS
  <2>0. /\ q \in Proposals /\ review[r] \in ReviewRow /\ proposal[q] \in ProposalRow
        /\ review \in [Reviewers -> ReviewRow] /\ proposal \in [Proposals -> ProposalRow]
        /\ applying \subseteq Proposals /\ history \in Seq(HistoryRow) /\ Len(history) \in Nat
        /\ ReviewSound(r) /\ ProposalSound(q)
        /\ \A s \in Reviewers \ {r} : Reviewing(s) => About(s) # q
    BY <2>q, <1>0, MyProposal DEF ProposalInv, ProposalShape
  <2>1. /\ proposal[q].base = Len(history)
        /\ UNCHANGED <<proposal, applying>>
        /\ history' = Append(history, entry)
        /\ review' = [review EXCEPT ![r] = row]
    BY <2>q, <2>r, <2>e, <1>2 DEF Write, BaseIsCurrent, HeadRevision, ReviewGoes
  <2>2. /\ row \in ReviewRow /\ row.at = "confirming" /\ row.proposal = q
        /\ row.wording = review[r].wording
    BY <2>r, <2>q, <2>0 DEF ReviewRow, ReviewPlaces, About
  <2>3. /\ entry \in HistoryRow /\ entry.of = q /\ entry.by = r
        /\ entry.content = review[r].wording
    <3>1. review[r].wording \in Wordings \cup {Unset} BY <2>0 DEF ReviewRow
    <3> QED BY <3>1, <2>e, <2>0 DEF Revision, HistoryRow
  <2>4. /\ history' \in Seq(HistoryRow) /\ Len(history') = Len(history) + 1
        /\ history'[Len(history) + 1] = entry
        /\ \A n \in 1 .. Len(history) : history'[n] = history[n]
    BY <2>0, <2>1, <2>3
  <2>5. /\ review' \in [Reviewers -> ReviewRow] /\ review'[r] = row
        /\ \A s \in Reviewers \ {r} : review'[s] = review[s]
    BY <2>0, <2>1, <2>2
  <2>6. ProposalShape' BY <2>0, <2>1, <2>4, <2>5 DEF ProposalShape
  <2>7. /\ q \in applying /\ proposal[q].status # "none" /\ proposal[q].status # "stale"
        /\ proposal[q].actor = r /\ proposal[q].wording = review[r].wording
    BY <2>q, <2>0, <1>0 DEF ReviewSound
  <2>8. proposal[q].status \in {"pending", "applied", "dismissed"} BY <2>7, <2>0 DEF ProposalRow
  <2>9. ProposalSound(q)'
    <3>1. ASSUME NEW n \in 1 .. Len(history'), history'[n].of = q PROVE WrittenSound(q, n)'
      <4>1. CASE n = Len(history) + 1
        BY <4>1, <2>1, <2>3, <2>4, <2>7, <2>8 DEF WrittenSound
      <4>2. CASE n # Len(history) + 1
        <5>1. n \in 1 .. Len(history) /\ history'[n] = history[n] BY <4>2, <2>0, <2>4
        <5>2. WrittenSound(q, n) BY <5>1, <3>1, <2>0 DEF ProposalSound, HeadRevision
        <5> QED BY <5>1, <5>2, <2>1 DEF WrittenSound
      <4> QED BY <4>1, <4>2
    <3>2. proposal'[q].base <= Len(history') BY <2>0, <2>1, <2>4
    <3>3. proposal[q].status # "applied"
      BY <2>0, <2>1 DEF ProposalSound, HeadRevision
    <3> QED BY <3>1, <3>2, <3>3, <2>1 DEF ProposalSound, HeadRevision
  <2>10. About(r)' = q BY <2>2, <2>5 DEF About
  <2>11. ~ReviewAt(r, "marking")' /\ ~ReviewAt(r, "stale")' BY <2>2, <2>5 DEF ReviewAt
  <2>12. ReviewSound(r)' BY <2>1, <2>2, <2>5, <2>7, <2>10, <2>11 DEF ReviewSound
  <2>13. \A n \in 1 .. Len(history') : n > Len(history) => history'[n].of \in {q, Unset}
    BY <2>0, <2>3, <2>4
  <2>14. Len(history) <= Len(history') BY <2>0, <2>4
  <2>15. /\ \A p \in Proposals \ {q} : proposal'[p] = proposal[p]
         /\ applying \ {q} \subseteq applying'
    BY <2>1
  <2>q1. QED BY <2>0, <2>4, <2>5, <2>6, <2>9, <2>10, <2>12, <2>13, <2>14, <2>15, ReviewStep
<1> QED BY <1>1, <1>2

LEMMA ConfirmKeepsProposals ==
    ASSUME ProposalInv, NEW r \in Reviewers, Confirm(r) PROVE ProposalInv'
<1>n. PICK n : n = CHOOSE m \in CommittedRevisions(r) : TRUE OBVIOUS
<1>0. HasReserved(r) /\ Reviewing(r) BY DEF Confirm, HasReserved, Reviewing, ReviewAt
<1>1. n \in CommittedRevisions(r) BY <1>n DEF Confirm
<1>2. /\ n \in 1 .. HeadRevision /\ n = proposal[About(r)].base + 1
      /\ history[n] = Revision(About(r), r, review[r].wording)
  BY <1>1 DEF CommittedRevisions
<1>r. PICK row : row = [review[r] EXCEPT !.at = "marking", !.revision = n] OBVIOUS
<1>3. /\ review \in [Reviewers -> ReviewRow] /\ About(r) \in Proposals /\ review[r] \in ReviewRow
      /\ ReviewSound(r) /\ applying \subseteq Proposals /\ Len(history) \in Nat
      /\ \A s \in Reviewers \ {r} : Reviewing(s) => About(s) # About(r)
  BY <1>0, MyProposal DEF ProposalInv, ProposalShape
<1>4. review' = [review EXCEPT ![r] = row] /\ UNCHANGED <<proposal, applying, history>>
  BY <1>r, <1>n, <1>3 DEF Confirm
<1>5. n \in Nat /\ n <= HeadRevision BY <1>2, <1>3 DEF HeadRevision
<1>6. /\ row \in ReviewRow /\ row.at = "marking" /\ row.proposal = About(r)
      /\ row.wording = review[r].wording /\ row.revision = n
  BY <1>r, <1>3, <1>5 DEF ReviewRow, ReviewPlaces, About
<1>7. review'[r] = row BY <1>3, <1>4
<1>8. About(r)' = About(r) BY <1>6, <1>7 DEF About
<1>9. /\ About(r) \in applying /\ proposal[About(r)].status # "none"
      /\ proposal[About(r)].status # "stale"
      /\ proposal[About(r)].actor = r /\ proposal[About(r)].wording = review[r].wording
  BY <1>0, <1>3 DEF ReviewSound
<1>10. ReviewSound(r)'
  <2>1. ~ReviewAt(r, "stale")' BY <1>6, <1>7 DEF ReviewAt
  <2> QED BY <2>1, <1>2, <1>4, <1>5, <1>6, <1>7, <1>8, <1>9 DEF ReviewSound, HeadRevision, Revision
<1> QED BY <1>3, <1>4, <1>6, <1>9, <1>10, ReviewMoves

LEMMA MarkAppliedKeepsProposals ==
    ASSUME ProposalInv, NEW r \in Reviewers, MarkApplied(r) PROVE ProposalInv'
<1>0. HasReserved(r) /\ Reviewing(r) /\ ReviewAt(r, "marking")
  BY DEF MarkApplied, HasReserved, Reviewing, ReviewAt
<1>q0. PICK q : q = About(r) OBVIOUS
<1>1. /\ q \in Proposals /\ review[r] \in ReviewRow /\ proposal[q] \in ProposalRow
      /\ proposal \in [Proposals -> ProposalRow] /\ Len(history) \in Nat
      /\ ReviewSound(r) /\ ProposalSound(q) /\ ReviewEnds(r) /\ UNCHANGED history
  BY <1>q0, <1>0, MyProposal DEF ProposalInv, ProposalShape, MarkApplied
<1>2. CASE proposal[q].status # "pending"
  BY <1>q0, <1>0, <1>1, <1>2, ReviewEnding DEF MarkApplied
<1>3. CASE proposal[q].status = "pending"
  <2>r. PICK row : row = [proposal[q] EXCEPT !.status = "applied", !.applied = review[r].revision,
                                             !.appliedWording = proposal[q].wording]
    OBVIOUS
  <2>1. proposal' = [proposal EXCEPT ![q] = row] BY <2>r, <1>q0, <1>1, <1>3 DEF MarkApplied
  <2>2. /\ row.status = "applied" /\ row.base = proposal[q].base
        /\ row.applied = review[r].revision /\ row.appliedWording = proposal[q].wording
    BY <2>r, <1>1 DEF ProposalRow
  <2>3. row \in ProposalRow
    <3>1. review[r].revision \in Nat BY <1>1 DEF ReviewRow
    <3>2. proposal[q].wording \in Wordings \cup {Unset} BY <1>1 DEF ProposalRow
    <3> QED BY <3>1, <3>2, <2>r, <1>1 DEF ProposalRow
  <2>4. /\ proposal' \in [Proposals -> ProposalRow] /\ proposal'[q] = row
        /\ \A p \in Proposals \ {q} : proposal'[p] = proposal[p]
    BY <1>1, <2>1, <2>3
  <2>5. /\ review[r].revision = proposal[q].base + 1 /\ review[r].revision <= Len(history)
        /\ history[review[r].revision] = Revision(q, r, review[r].wording)
        /\ proposal[q].wording = review[r].wording
    BY <1>q0, <1>0, <1>1 DEF ReviewSound, HeadRevision
  <2>6. /\ history[review[r].revision].of = q
        /\ history[review[r].revision].content = proposal[q].wording
    BY <2>5 DEF Revision
  <2>7. ProposalSound(q)'
    <3>1. ASSUME NEW n \in 1 .. Len(history), history[n].of = q PROVE WrittenSound(q, n)'
      <4>1. WrittenSound(q, n) BY <3>1, <1>1 DEF ProposalSound, HeadRevision
      <4> QED BY <4>1, <1>1, <2>2, <2>4 DEF WrittenSound
    <3> QED BY <3>1, <1>1, <1>3, <2>2, <2>4, <2>5, <2>6 DEF ProposalSound, HeadRevision
  <2> QED BY <1>q0, <1>0, <1>1, <2>4, <2>7, ReviewEnding
<1> QED BY <1>2, <1>3

-----------------------------------------------------------------------------

(* A released proposal has no revision.                                    *)
LEMMA ReleaseIsSound ==
    ASSUME ProposalInv, NEW r \in Reviewers, HasReserved(r), Reviewing(r), Release(r),
           CommittedRevisions(r) = {}, UNCHANGED history, NEW q, q = About(r)
    PROVE  /\ proposal' \in [Proposals -> ProposalRow]
           /\ \A p \in Proposals \ {q} : proposal'[p] = proposal[p]
           /\ proposal'[q].status = proposal[q].status
           /\ ProposalSound(q)'
<1>1. /\ q \in Proposals /\ proposal[q] \in ProposalRow /\ ProposalSound(q)
      /\ proposal \in [Proposals -> ProposalRow] /\ Len(history) \in Nat
  BY MyProposal DEF ProposalInv, ProposalShape
<1>2. CASE ~(proposal[q].status = "pending" /\ proposal[q].actor = r)
  <2>1. proposal' = [proposal EXCEPT ![q] = proposal[q]] BY <1>2 DEF Release
  <2>2. proposal' = proposal BY <2>1, <1>1
  <2> QED BY <2>2, <1>1 DEF ProposalSound, WrittenSound, HeadRevision
<1>3. CASE proposal[q].status = "pending" /\ proposal[q].actor = r
  <2>r. PICK row : row = [proposal[q] EXCEPT !.actor = Unset, !.wording = Unset] OBVIOUS
  <2>1. proposal' = [proposal EXCEPT ![q] = row] BY <2>r, <1>3 DEF Release
  <2>2. row \in ProposalRow /\ row.status = "pending" /\ row.base = proposal[q].base
    BY <2>r, <1>1, <1>3 DEF ProposalRow
  <2>3. /\ proposal' \in [Proposals -> ProposalRow] /\ proposal'[q] = row
        /\ \A p \in Proposals \ {q} : proposal'[p] = proposal[p]
    BY <1>1, <2>1, <2>2
  <2>4. \A n \in 1 .. HeadRevision : history[n].of # q BY <1>3, WrittenIsCommitted
  <2>5. ProposalSound(q)' BY <1>1, <1>3, <2>2, <2>3, <2>4 DEF ProposalSound, HeadRevision
  <2> QED BY <1>3, <2>2, <2>3, <2>5
<1> QED BY <1>2, <1>3

LEMMA AfterRefusalKeepsProposals ==
    ASSUME ProposalInv, NEW r \in Reviewers, AfterRefusal(r) PROVE ProposalInv'
<1>0. HasReserved(r) /\ Reviewing(r) BY DEF AfterRefusal, HasReserved, Reviewing, ReviewAt
<1>1. ReviewEnds(r) /\ UNCHANGED history BY DEF AfterRefusal
<1>q0. PICK q : q = About(r) OBVIOUS
<1>2. CASE CommittedRevisions(r) = {}
  <2>1. Release(r) BY <1>2 DEF AfterRefusal
  <2>2. /\ proposal' \in [Proposals -> ProposalRow]
        /\ \A p \in Proposals \ {q} : proposal'[p] = proposal[p]
        /\ ProposalSound(q)'
    BY <1>0, <1>1, <1>2, <1>q0, <2>1, ReleaseIsSound
  <2> QED BY <1>0, <1>1, <1>q0, <2>2, ReviewEnding
<1>3. CASE CommittedRevisions(r) # {}
  <2>1. UNCHANGED proposal BY <1>3 DEF AfterRefusal
  <2>2. proposal' \in [Proposals -> ProposalRow] BY <2>1 DEF ProposalInv, ProposalShape
  <2> QED BY <1>0, <1>1, <1>q0, <2>1, <2>2, ReviewEnding
<1> QED BY <1>2, <1>3

LEMMA AfterConflictKeepsProposals ==
    ASSUME ProposalInv, NEW r \in Reviewers, AfterConflict(r) PROVE ProposalInv'
<1>0. HasReserved(r) /\ Reviewing(r) BY DEF AfterConflict, HasReserved, Reviewing, ReviewAt
<1>1. UNCHANGED history BY DEF AfterConflict
<1>q0. PICK q : q = About(r) OBVIOUS
<1>2. CASE CommittedRevisions(r) = {}
  <2>1. Release(r) /\ ReviewGoes(r, "stale") /\ UNCHANGED applying BY <1>2 DEF AfterConflict
  <2>2. /\ proposal' \in [Proposals -> ProposalRow]
        /\ \A p \in Proposals \ {q} : proposal'[p] = proposal[p]
        /\ proposal'[q].status = proposal[q].status
        /\ ProposalSound(q)'
    BY <1>0, <1>1, <1>2, <1>q0, <2>1, ReleaseIsSound
  <2>r. PICK row : row = [review[r] EXCEPT !.at = "stale"] OBVIOUS
  <2>3. /\ review \in [Reviewers -> ReviewRow] /\ q \in Proposals /\ review[r] \in ReviewRow
        /\ ReviewSound(r) /\ applying \subseteq Proposals /\ history \in Seq(HistoryRow)
        /\ Len(history) \in Nat
        /\ \A s \in Reviewers \ {r} : Reviewing(s) => About(s) # q
    BY <1>0, <1>q0, MyProposal DEF ProposalInv, ProposalShape
  <2>4. review' = [review EXCEPT ![r] = row] BY <2>r, <2>1 DEF ReviewGoes
  <2>5. row \in ReviewRow /\ row.at = "stale" /\ row.proposal = q
    BY <2>r, <2>3, <1>q0 DEF ReviewRow, ReviewPlaces, About
  <2>6. /\ review' \in [Reviewers -> ReviewRow] /\ review'[r] = row
        /\ \A s \in Reviewers \ {r} : review'[s] = review[s]
    BY <2>3, <2>4, <2>5
  <2>7. ProposalShape' BY <1>1, <2>1, <2>2, <2>3, <2>6 DEF ProposalShape
  <2>8. About(r)' = q BY <2>5, <2>6 DEF About
  <2>9. proposal[q].status = "pending" => \A n \in 1 .. HeadRevision : history[n].of # q
    BY <1>0, <1>2, <1>q0, WrittenIsCommitted
  <2>10. ReviewSound(r)'
    <3>1. q \in applying /\ proposal[q].status # "none" BY <1>0, <1>q0, <2>3 DEF ReviewSound
    <3>2. ~HasReserved(r)' /\ ~ReviewAt(r, "marking")' BY <2>5, <2>6 DEF HasReserved, ReviewAt
    <3> QED BY <3>1, <3>2, <1>1, <2>1, <2>2, <2>8, <2>9 DEF ReviewSound, HeadRevision
  <2> QED BY <1>1, <2>1, <2>2, <2>3, <2>6, <2>7, <2>8, <2>10, ReviewStep
<1>3. CASE CommittedRevisions(r) # {}
  <2>1. UNCHANGED proposal /\ ReviewEnds(r) BY <1>3 DEF AfterConflict
  <2>2. proposal' \in [Proposals -> ProposalRow] BY <2>1 DEF ProposalInv, ProposalShape
  <2> QED BY <1>0, <1>1, <1>q0, <2>1, <2>2, ReviewEnding
<1> QED BY <1>2, <1>3

(* A step of a row that leaves its revisions in place.                     *)
LEMMA StatusChange ==
    ASSUME ProposalInv, NEW q \in Proposals, NEW status \in {"stale", "dismissed"},
           proposal' = [proposal EXCEPT ![q].status = status]
    PROVE  /\ proposal' \in [Proposals -> ProposalRow]
           /\ \A p \in Proposals \ {q} : proposal'[p] = proposal[p]
           /\ proposal'[q].status = status /\ proposal'[q].base = proposal[q].base
           /\ proposal'[q].actor = proposal[q].actor /\ proposal'[q].wording = proposal[q].wording
<1>1. proposal \in [Proposals -> ProposalRow] /\ proposal[q] \in ProposalRow
  BY DEF ProposalInv, ProposalShape
<1>r. PICK row : row = [proposal[q] EXCEPT !.status = status] OBVIOUS
<1>2. proposal' = [proposal EXCEPT ![q] = row] BY <1>r
<1>3. /\ row \in ProposalRow /\ row.status = status /\ row.base = proposal[q].base
      /\ row.actor = proposal[q].actor /\ row.wording = proposal[q].wording
  BY <1>r, <1>1 DEF ProposalRow
<1> QED BY <1>1, <1>2, <1>3

(* A proposal is marked stale only without a revision of its own.          *)
LEMMA MarkStaleKeepsProposals ==
    ASSUME ProposalInv, NEW r \in Reviewers, MarkStale(r) PROVE ProposalInv'
<1>0. ReviewAt(r, "stale") /\ Reviewing(r) BY DEF MarkStale, Reviewing, ReviewAt
<1>q0. PICK q : q = About(r) OBVIOUS
<1>1. /\ q \in Proposals /\ proposal[q] \in ProposalRow /\ Len(history) \in Nat
      /\ proposal \in [Proposals -> ProposalRow]
      /\ ReviewSound(r) /\ ProposalSound(q) /\ ReviewEnds(r) /\ UNCHANGED history
  BY <1>q0, <1>0, MyProposal DEF ProposalInv, ProposalShape, MarkStale
<1>2. CASE proposal[q].status # "pending"
  <2>1. proposal' = [proposal EXCEPT ![q].status = proposal[q].status]
    BY <1>q0, <1>2 DEF MarkStale
  <2>2. [proposal[q] EXCEPT !.status = proposal[q].status] = proposal[q] BY <1>1 DEF ProposalRow
  <2>3. UNCHANGED proposal BY <2>1, <2>2, <1>1
  <2> QED BY <1>q0, <1>0, <1>1, <2>3, ReviewEnding
<1>3. CASE proposal[q].status = "pending"
  <2>1. proposal' = [proposal EXCEPT ![q].status = "stale"] BY <1>q0, <1>3 DEF MarkStale
  <2>2. /\ proposal' \in [Proposals -> ProposalRow]
        /\ \A p \in Proposals \ {q} : proposal'[p] = proposal[p]
        /\ proposal'[q].status = "stale" /\ proposal'[q].base = proposal[q].base
    BY <2>1, <1>1, StatusChange
  <2>3. \A n \in 1 .. HeadRevision : history[n].of # q
    BY <1>q0, <1>0, <1>1, <1>3 DEF ReviewSound
  <2>4. ProposalSound(q)' BY <1>1, <1>3, <2>2, <2>3 DEF ProposalSound, HeadRevision
  <2> QED BY <1>q0, <1>0, <1>1, <2>2, <2>4, ReviewEnding
<1> QED BY <1>2, <1>3

LEMMA CheckKeepsProposals ==
    ASSUME ProposalInv, NEW r \in Reviewers, Check(r) PROVE ProposalInv'
<1>1. HasReserved(r) /\ UNCHANGED <<proposal, applying, history>>
  BY DEF Check, HasReserved
<1>2. ReviewGoes(r, "writing") \/ ReviewGoes(r, "conflict")
  BY DEF Check
<1> QED BY <1>1, <1>2, ReservedGoesOn

LEMMA MeetsKeepProposals ==
    ASSUME ProposalInv, NEW r \in Reviewers, MeetConflict(r) \/ MeetRefusal(r) PROVE ProposalInv'
<1>1. HasReserved(r) /\ UNCHANGED <<proposal, applying, history>>
  BY DEF MeetConflict, MeetRefusal, HasReserved
<1>2. ReviewGoes(r, "conflict") \/ ReviewGoes(r, "refused")
  BY DEF MeetConflict, MeetRefusal
<1> QED BY <1>1, <1>2, ReservedGoesOn

LEMMA EndsKeepProposals ==
    ASSUME ProposalInv, NEW r \in Reviewers, RefuseReservation(r) \/ LoseAnswerOfWrite(r)
    PROVE  ProposalInv'
<1>1. Reviewing(r) /\ ReviewEnds(r) /\ UNCHANGED <<proposal, history>>
  BY DEF RefuseReservation, LoseAnswerOfWrite, Reviewing, ReviewAt
<1>2. proposal' \in [Proposals -> ProposalRow] BY <1>1 DEF ProposalInv, ProposalShape
<1>q0. PICK q : q = About(r) OBVIOUS
<1> QED BY <1>1, <1>2, <1>q0, ReviewEnding

-----------------------------------------------------------------------------

(* The steps of others: they touch no revision a proposal has.             *)
LEMMA DismissKeepsProposals ==
    ASSUME ProposalInv, NEW q \in Proposals, Dismiss(q) \/ CancelPendingProposal(q)
    PROVE  ProposalInv'
<1>1. /\ proposal' = [proposal EXCEPT ![q].status = "dismissed"]
      /\ proposal[q].status \in {"pending", "stale"}
      /\ UNCHANGED <<applying, review, history>>
  BY DEF Dismiss, CancelPendingProposal
<1>2. /\ proposal' \in [Proposals -> ProposalRow]
      /\ \A p \in Proposals \ {q} : proposal'[p] = proposal[p]
      /\ proposal'[q].status = "dismissed" /\ proposal'[q].base = proposal[q].base
      /\ proposal'[q].actor = proposal[q].actor /\ proposal'[q].wording = proposal[q].wording
  BY <1>1, StatusChange
<1>3. ProposalShape' BY <1>1, <1>2 DEF ProposalInv, ProposalShape
<1>4. ASSUME NEW p \in Proposals PROVE ProposalSound(p)'
  <2>1. ProposalSound(p) BY DEF ProposalInv
  <2>2. CASE p = q
    <3>1. ASSUME NEW n \in 1 .. HeadRevision, history[n].of = q PROVE WrittenSound(q, n)'
      <4>1. WrittenSound(q, n) BY <2>1, <2>2, <3>1 DEF ProposalSound
      <4> QED BY <4>1, <1>1, <1>2 DEF WrittenSound
    <3>2. proposal[q].status # "none" BY <1>1
    <3> QED BY <2>1, <2>2, <3>1, <3>2, <1>1, <1>2 DEF ProposalSound, HeadRevision
  <2>3. CASE p # q
    <3>1. proposal'[p] = proposal[p] BY <2>3, <1>2
    <3> QED BY <2>1, <3>1, <1>1 DEF ProposalSound, WrittenSound, HeadRevision
  <2> QED BY <2>2, <2>3
<1>5. ASSUME NEW s \in Reviewers PROVE ReviewSound(s)'
  <2>1. CASE ~Reviewing(s) BY <2>1, <1>1 DEF ReviewSound, Reviewing, ReviewAt
  <2>2. CASE Reviewing(s)
    <3> DEFINE p == About(s)
    <3>1. p \in Proposals /\ ReviewSound(s) BY <2>2, MyProposal
    <3>2. /\ proposal'[p].base = proposal[p].base
          /\ proposal'[p].actor = proposal[p].actor /\ proposal'[p].wording = proposal[p].wording
          /\ proposal'[p].status = proposal[p].status \/ proposal'[p].status = "dismissed"
      <4>1. CASE p = q BY <4>1, <1>2
      <4>2. CASE p # q BY <3>1, <4>2, <1>2
      <4> QED BY <4>1, <4>2
    <3>3. p' = p /\ review'[s] = review[s] BY <1>1 DEF About
    <3>4. (HasReserved(s)' <=> HasReserved(s)) /\ (ReviewAt(s, "marking")' <=> ReviewAt(s, "marking"))
          /\ (ReviewAt(s, "stale")' <=> ReviewAt(s, "stale"))
      BY <1>1 DEF HasReserved, ReviewAt
    <3>5. /\ p \in applying /\ proposal[p].status # "none"
          /\ HasReserved(s) =>
               /\ proposal[p].status # "stale"
               /\ proposal[p].actor = s /\ proposal[p].wording = review[s].wording
          /\ ReviewAt(s, "marking") =>
               /\ review[s].revision = proposal[p].base + 1 /\ review[s].revision <= Len(history)
               /\ history[review[s].revision] = Revision(p, s, review[s].wording)
          /\ ReviewAt(s, "stale") /\ proposal[p].status = "pending" =>
               \A n \in 1 .. Len(history) : history[n].of # p
      BY <2>2, <3>1 DEF ReviewSound, HeadRevision
    <3>6. p = About(s)' BY <3>3
    <3> HIDE DEF p
    <3> QED BY <1>1, <3>2, <3>3, <3>4, <3>5, <3>6 DEF ReviewSound, HeadRevision, Revision
  <2> QED BY <2>1, <2>2
<1>6. Alone' BY <1>1 DEF ProposalInv, Alone, Reviewing, ReviewAt, About
<1> QED BY <1>3, <1>4, <1>5, <1>6 DEF ProposalInv

LEMMA DraftKeepsProposals ==
    ASSUME ProposalInv, NEW q \in Proposals, Draft(q) PROVE ProposalInv'
<1>1. /\ proposal \in [Proposals -> ProposalRow] /\ proposal[q] \in ProposalRow
      /\ Len(history) \in Nat /\ ProposalSound(q)
      /\ UNCHANGED <<applying, review, history>> /\ proposal[q].status = "none"
  BY DEF ProposalInv, ProposalShape, Draft
<1>r. PICK row : row = [proposal[q] EXCEPT !.status = "pending", !.base = Len(history)] OBVIOUS
<1>2. proposal' = [proposal EXCEPT ![q] = row] BY <1>r DEF Draft, HeadRevision
<1>3. row \in ProposalRow /\ row.status = "pending" /\ row.base = Len(history)
  BY <1>r, <1>1 DEF ProposalRow
<1>4. /\ proposal' \in [Proposals -> ProposalRow] /\ proposal'[q] = row
      /\ \A p \in Proposals \ {q} : proposal'[p] = proposal[p]
  BY <1>1, <1>2, <1>3
<1>5. ProposalShape' BY <1>1, <1>4 DEF ProposalInv, ProposalShape
<1>6. \A n \in 1 .. HeadRevision : history[n].of # q BY <1>1 DEF ProposalSound, WrittenSound
<1>7. ProposalSound(q)' BY <1>1, <1>3, <1>4, <1>6 DEF ProposalSound, HeadRevision
<1>8. \A s \in Reviewers : Reviewing(s) => About(s) # q
  BY <1>1 DEF ProposalInv, ReviewSound
<1>9. ASSUME NEW p \in Proposals PROVE ProposalSound(p)'
  <2>1. CASE p = q BY <2>1, <1>7
  <2>2. CASE p # q
    <3>1. proposal'[p] = proposal[p] /\ ProposalSound(p) BY <2>2, <1>4 DEF ProposalInv
    <3> QED BY <3>1, <1>1 DEF ProposalSound, WrittenSound, HeadRevision
  <2> QED BY <2>1, <2>2
<1>10. ASSUME NEW s \in Reviewers PROVE ReviewSound(s)'
  <2>1. CASE ~Reviewing(s) BY <2>1, <1>1 DEF ReviewSound, Reviewing, ReviewAt
  <2>2. CASE Reviewing(s)
    <3>1. About(s) \in Proposals /\ ReviewSound(s) BY <2>2, MyProposal
    <3>2. proposal'[About(s)] = proposal[About(s)] BY <2>2, <3>1, <1>4, <1>8
    <3> QED
      BY <3>1, <3>2, <1>1
      DEF ReviewSound, Reviewing, HasReserved, ReviewAt, About, HeadRevision, Revision
  <2> QED BY <2>1, <2>2
<1>11. Alone' BY <1>1 DEF ProposalInv, Alone, Reviewing, ReviewAt, About
<1> QED BY <1>5, <1>9, <1>10, <1>11 DEF ProposalInv

LEMMA EditKeepsProposals ==
    ASSUME ProposalInv, EditDocument PROVE ProposalInv'
<1>e. PICK entry : entry = Revision(Unset, Unset, Unset) OBVIOUS
<1>1. /\ history' = Append(history, entry) /\ UNCHANGED <<proposal, applying, review>>
      /\ history \in Seq(HistoryRow) /\ Len(history) \in Nat /\ review \in [Reviewers -> ReviewRow]
  BY <1>e DEF EditDocument, ProposalInv, ProposalShape
<1>2. entry \in HistoryRow /\ entry.of = Unset BY <1>e DEF Revision, HistoryRow
<1>3. /\ history' \in Seq(HistoryRow) /\ Len(history') = Len(history) + 1
      /\ history'[Len(history) + 1] = entry
      /\ \A n \in 1 .. Len(history) : history'[n] = history[n]
  BY <1>1, <1>2
<1>4. ProposalShape' BY <1>1, <1>3 DEF ProposalInv, ProposalShape
<1>5. \A p \in Proposals : p # Unset BY ProposalAssumption
<1>6. ASSUME NEW n \in 1 .. Len(history'), NEW p \in Proposals, history'[n].of = p
      PROVE  n \in 1 .. Len(history) /\ history'[n] = history[n]
  BY <1>1, <1>2, <1>3, <1>5, <1>6
<1>7. ASSUME NEW p \in Proposals PROVE ProposalSound(p)'
  <2>1. ProposalSound(p) /\ proposal[p] \in ProposalRow BY DEF ProposalInv, ProposalShape
  <2>2. proposal[p].base \in Nat /\ proposal[p].applied \in Nat BY <2>1 DEF ProposalRow
  <2>3. ASSUME NEW n \in 1 .. Len(history'), history'[n].of = p PROVE WrittenSound(p, n)'
    <3>1. n \in 1 .. Len(history) /\ history'[n] = history[n] BY <2>3, <1>6
    <3>2. WrittenSound(p, n) BY <2>1, <2>3, <3>1 DEF ProposalSound, HeadRevision
    <3> QED BY <3>1, <3>2, <1>1 DEF WrittenSound
  <2>4. proposal[p].status = "applied" => history'[proposal[p].applied] = history[proposal[p].applied]
    BY <2>1, <2>2, <1>1, <1>3 DEF ProposalSound, HeadRevision
  <2> QED BY <2>1, <2>2, <2>3, <2>4, <1>1, <1>3 DEF ProposalSound, HeadRevision
<1>8. ASSUME NEW s \in Reviewers PROVE ReviewSound(s)'
  <2>1. CASE ~Reviewing(s) BY <2>1, <1>1 DEF ReviewSound, Reviewing, ReviewAt
  <2>2. CASE Reviewing(s)
    <3>1. About(s) \in Proposals /\ ReviewSound(s) /\ proposal[About(s)] \in ProposalRow
      BY <2>2, MyProposal
    <3>2. proposal[About(s)].base \in Nat BY <3>1 DEF ProposalRow
    <3>3. ReviewAt(s, "marking") => /\ review[s].revision <= Len(history')
                                    /\ history'[review[s].revision] = history[review[s].revision]
      BY <2>2, <3>1, <3>2, <1>1, <1>3 DEF ReviewSound, HeadRevision
    <3>4. ReviewAt(s, "stale") /\ proposal[About(s)].status = "pending" =>
            \A n \in 1 .. Len(history') : history'[n].of # About(s)
      BY <2>2, <3>1, <1>6 DEF ReviewSound, HeadRevision
    <3> QED
      BY <2>2, <3>1, <3>3, <3>4, <1>1
      DEF ReviewSound, Reviewing, HasReserved, ReviewAt, About, HeadRevision, Revision
  <2> QED BY <2>1, <2>2
<1>9. Alone' BY <1>1 DEF ProposalInv, Alone, Reviewing, ReviewAt, About
<1> QED BY <1>4, <1>7, <1>8, <1>9 DEF ProposalInv

(* After a crash nobody reviews.                                           *)
LEMMA CrashKeepsProposals ==
    ASSUME ProposalInv, CrashReviews PROVE ProposalInv'
<1>1. /\ review \in [Reviewers -> ReviewRow] /\ applying' = {} /\ UNCHANGED <<proposal, history>>
      /\ review' = [r \in Reviewers |-> NoReview(About(r))]
  BY DEF CrashReviews, ProposalInv, ProposalShape
<1>2. ASSUME NEW r \in Reviewers PROVE review'[r] \in ReviewRow /\ review'[r].at = "idle"
  <2>1. About(r) \in Proposals BY <1>1 DEF About, ReviewRow
  <2> QED BY <1>1, <2>1, NoReviewIsAReview
<1>3. ProposalShape' BY <1>1, <1>2 DEF ProposalInv, ProposalShape
<1>4. \A r \in Reviewers : ~Reviewing(r)' BY <1>2 DEF Reviewing, ReviewAt
<1>5. \A p \in Proposals : ProposalSound(p)'
  BY <1>1 DEF ProposalInv, ProposalSound, WrittenSound, HeadRevision
<1> QED BY <1>3, <1>4, <1>5 DEF ProposalInv, ReviewSound, Alone

-----------------------------------------------------------------------------

(* All of them together.                                                   *)
LEMMA ProposalInvInitially == ProposalInit => ProposalInv
<1> SUFFICES ASSUME ProposalInit PROVE ProposalInv OBVIOUS
<1>1. NoProposal \in ProposalRow /\ NoProposal.status = "none" BY DEF NoProposal, ProposalRow
<1>2. \E q \in Proposals : review = [r \in Reviewers |-> NoReview(q)]
  BY ProposalAssumption DEF ProposalInit
<1>3. PICK q \in Proposals : review = [r \in Reviewers |-> NoReview(q)] BY <1>2
<1>4. NoReview(q) \in ReviewRow /\ NoReview(q).at = "idle" BY NoReviewIsAReview
<1>5. proposal = [p \in Proposals |-> NoProposal] BY DEF ProposalInit
<1>6. applying = {} /\ history = <<>> BY DEF ProposalInit
<1>7. proposal \in [Proposals -> ProposalRow] BY <1>1, <1>5
<1>8. review \in [Reviewers -> ReviewRow] BY <1>3, <1>4
<1>9. ProposalShape BY <1>6, <1>7, <1>8 DEF ProposalShape
<1>10. Len(history) = 0 BY <1>6
<1>11. ASSUME NEW p \in Proposals PROVE ProposalSound(p)
  <2>1. proposal[p].status = "none" BY <1>1, <1>5
  <2>2. \A n \in 1 .. HeadRevision : FALSE BY <1>10 DEF HeadRevision
  <2> QED BY <2>1, <2>2 DEF ProposalSound
<1>12. \A r \in Reviewers : ~Reviewing(r) BY <1>3, <1>4 DEF Reviewing, ReviewAt
<1> QED BY <1>9, <1>11, <1>12 DEF ProposalInv, ReviewSound, Alone

LEMMA ProposalInvInductive == ProposalInv /\ [ProposalNext]_proposalVars => ProposalInv'
<1> SUFFICES ASSUME ProposalInv, [ProposalNext]_proposalVars PROVE ProposalInv' OBVIOUS
<1>1. ASSUME NEW q \in Proposals, Draft(q) PROVE ProposalInv' BY <1>1, DraftKeepsProposals
<1>2. ASSUME NEW q \in Proposals, Dismiss(q) \/ CancelPendingProposal(q) PROVE ProposalInv'
  BY <1>2, DismissKeepsProposals
<1>3. ASSUME NEW r \in Reviewers, NEW q \in Proposals, NEW wording \in Wordings,
             Apply(r, q, wording)
      PROVE  ProposalInv'
  BY <1>3, ApplyKeepsProposals
<1>4. ASSUME NEW r \in Reviewers, Reserve(r) PROVE ProposalInv' BY <1>4, ReserveKeepsProposals
<1>5. ASSUME NEW r \in Reviewers, RefuseReservation(r) \/ LoseAnswerOfWrite(r) PROVE ProposalInv'
  BY <1>5, EndsKeepProposals
<1>6. ASSUME NEW r \in Reviewers, Check(r) PROVE ProposalInv' BY <1>6, CheckKeepsProposals
<1>7. ASSUME NEW r \in Reviewers, Write(r) PROVE ProposalInv' BY <1>7, WriteKeepsProposals
<1>8. ASSUME NEW r \in Reviewers, MeetConflict(r) \/ MeetRefusal(r) PROVE ProposalInv'
  BY <1>8, MeetsKeepProposals
<1>9. ASSUME NEW r \in Reviewers, Confirm(r) PROVE ProposalInv' BY <1>9, ConfirmKeepsProposals
<1>10. ASSUME NEW r \in Reviewers, MarkApplied(r) PROVE ProposalInv'
  BY <1>10, MarkAppliedKeepsProposals
<1>11. ASSUME NEW r \in Reviewers, AfterRefusal(r) PROVE ProposalInv'
  BY <1>11, AfterRefusalKeepsProposals
<1>12. ASSUME NEW r \in Reviewers, AfterConflict(r) PROVE ProposalInv'
  BY <1>12, AfterConflictKeepsProposals
<1>13. ASSUME NEW r \in Reviewers, MarkStale(r) PROVE ProposalInv'
  BY <1>13, MarkStaleKeepsProposals
<1>14. ASSUME EditDocument PROVE ProposalInv' BY <1>14, EditKeepsProposals
<1>15. ASSUME CrashReviews PROVE ProposalInv' BY <1>15, CrashKeepsProposals
<1>16. ASSUME UNCHANGED proposalVars PROVE ProposalInv'
  <2>1. ProposalShape' BY <1>16 DEF proposalVars, ProposalInv, ProposalShape
  <2>2. \A p \in Proposals : ProposalSound(p)'
    BY <1>16 DEF proposalVars, ProposalInv, ProposalSound, WrittenSound, HeadRevision
  <2>3. \A s \in Reviewers : ReviewSound(s)'
    BY <1>16 DEF proposalVars, ProposalInv, ReviewSound, Reviewing, HasReserved, ReviewAt, About,
                 HeadRevision, Revision
  <2>4. Alone' BY <1>16 DEF proposalVars, ProposalInv, Alone, Reviewing, ReviewAt, About
  <2> QED BY <2>1, <2>2, <2>3, <2>4 DEF ProposalInv
<1> QED
  BY <1>1, <1>2, <1>3, <1>4, <1>5, <1>6, <1>7, <1>8, <1>9, <1>10, <1>11, <1>12, <1>13, <1>14,
     <1>15, <1>16 DEF ProposalNext

(* The invariant says what the property says.                              *)
LEMMA ProposalInvTells == ProposalInv => ProposalTellsTheTruth
<1> SUFFICES ASSUME ProposalInv, NEW q \in Proposals
             PROVE  LET written == {n \in 1 .. HeadRevision : history[n].of = q} IN
                    /\ \A m, n \in written : m = n
                    /\ proposal[q].status = "applied" =>
                         /\ written = {proposal[q].applied}
                         /\ proposal[q].applied = proposal[q].base + 1
                         /\ history[proposal[q].applied].content = proposal[q].appliedWording
                    /\ proposal[q].status = "stale" => written = {}
  BY DEF ProposalTellsTheTruth
<1> DEFINE written == {n \in 1 .. HeadRevision : history[n].of = q}
<1>1. ProposalSound(q) /\ proposal[q] \in ProposalRow /\ Len(history) \in Nat
  BY DEF ProposalInv, ProposalShape
<1>2. \A n \in written : n = proposal[q].base + 1 /\ proposal[q].status # "stale"
  BY <1>1 DEF ProposalSound, WrittenSound
<1>3. proposal[q].base \in Nat BY <1>1 DEF ProposalRow
<1>4. proposal[q].status = "applied" =>
        /\ proposal[q].applied \in written
        /\ proposal[q].applied = proposal[q].base + 1
        /\ history[proposal[q].applied].content = proposal[q].appliedWording
  BY <1>1, <1>3 DEF ProposalSound, HeadRevision
<1>5. proposal[q].status = "applied" => written = {proposal[q].applied} BY <1>2, <1>4
<1>6. proposal[q].status = "stale" => written = {} BY <1>2
<1>7. \A m, n \in written : m = n BY <1>2
<1> QED BY <1>4, <1>5, <1>6, <1>7

(* Whoever applies, retries, cancels or edits meanwhile, and wherever a    *)
(* request is cut off: a proposal is written at most once, an applied one  *)
(* names the revision that has its wording on top of its base, and a stale *)
(* one was never written.                                                  *)
THEOREM ProposalsTellTheTruth == ProposalSpec => []ProposalTellsTheTruth
<1>1. ProposalSpec => []ProposalInv
  BY ProposalInvInitially, ProposalInvInductive, PTL DEF ProposalSpec
<1> QED BY <1>1, ProposalInvTells, PTL

-----------------------------------------------------------------------------
(* The pool                                                                *)

RequestRow == [at : {"outside", "waiting", "in"},
               call : {"none", "queued", "counted", "running", "abandoned"},
               cancels : Nat, shielded : BOOLEAN]

PoolShape ==
    /\ slots \in [active : Nat, admitted : Nat, closing : BOOLEAN]
    /\ workers \in [active : Nat, waiting : Nat, closing : BOOLEAN]
    /\ request \in [Requests -> RequestRow]
    /\ cleaning \in Nat /\ stuck \in Nat

(* The thread of a call of run_sync() that goes on without its caller was  *)
(* given up by the second cancellation.                                    *)
AbandonedTwice ==
    \A r \in Requests :
        RequestCalls(r, "abandoned") /\ request[r].shielded => request[r].cancels >= 2

PoolInv == PoolShape /\ AbandonedTwice /\ PoolIsCounted

(* A set that changes by one element at most.                              *)
LEMMA OneMoves ==
    ASSUME NEW S, NEW T, NEW r, IsFiniteSet(S), S \ {r} = T \ {r}
    PROVE  /\ Cardinality(S) \in Nat /\ Cardinality(T) \in Nat
           /\ r \in S => Cardinality(S) >= 1
           /\ Cardinality(T) = (Cardinality(S) - IF r \in S THEN 1 ELSE 0)
                               + IF r \in T THEN 1 ELSE 0
<1>1. Cardinality(S) \in Nat BY FS_CardinalityType
<1>2. CASE r \in S /\ r \in T
  <2>1. S = T BY <1>2
  <2>2. S # {} BY <1>2
  <2>3. Cardinality(S) # 0 BY <2>2, FS_EmptySet
  <2> QED BY <1>1, <2>1, <2>3, <1>2
<1>3. CASE r \in S /\ r \notin T
  <2>1. T = S \ {r} BY <1>3
  <2>2. Cardinality(T) = Cardinality(S) - 1 BY <1>3, <2>1, FS_RemoveElement
  <2>3. IsFiniteSet(T) BY <2>1, FS_RemoveElement
  <2>4. Cardinality(T) \in Nat BY <2>3, FS_CardinalityType
  <2> QED BY <1>1, <1>3, <2>2, <2>4
<1>4. CASE r \notin S /\ r \in T
  <2>1. T = S \cup {r} BY <1>4
  <2>2. Cardinality(T) = Cardinality(S) + 1 BY <1>4, <2>1, FS_AddElement
  <2> QED BY <1>1, <1>4, <2>2
<1>5. CASE r \notin S /\ r \notin T
  <2>1. S = T BY <1>5
  <2> QED BY <1>1, <2>1, <1>5
<1> QED BY <1>2, <1>3, <1>4, <1>5

Slotted == Those({"in"}, "at")
Admitted == Those({"in", "waiting"}, "at")
Queued == Those({"queued"}, "call")
Busy == Those({"counted", "running", "abandoned"}, "call")

(* Only request r changes: a count changes by what r held before and       *)
(* holds after.                                                            *)
OnlyOf(r) == \A s \in Requests \ {r} : request'[s] = request[s]

(* So each of the four counts moves by what one request does.              *)
LEMMA SlottedMoves ==
    ASSUME NEW r \in Requests, OnlyOf(r)
    PROVE  /\ Slotted \in Nat
           /\ request[r].at \in {"in"} => Slotted >= 1
           /\ Slotted' = (Slotted - IF request[r].at \in {"in"} THEN 1 ELSE 0)
                + IF request'[r].at \in {"in"} THEN 1 ELSE 0
<1> DEFINE S == {s \in Requests : request[s].at \in {"in"}}
<1>1. IsFiniteSet(S) BY PoolAssumption, FS_Subset
<1>2. S \ {r} = S' \ {r} BY DEF OnlyOf
<1>3. Slotted = Cardinality(S) /\ Slotted' = Cardinality(S') BY DEF Slotted, Those
<1>4. /\ r \in S <=> request[r].at \in {"in"}
      /\ r \in S' <=> request'[r].at \in {"in"}
  OBVIOUS
<1> HIDE DEF S
<1> QED BY <1>1, <1>2, <1>3, <1>4, OneMoves

LEMMA AdmittedMoves ==
    ASSUME NEW r \in Requests, OnlyOf(r)
    PROVE  /\ Admitted \in Nat
           /\ request[r].at \in {"in", "waiting"} => Admitted >= 1
           /\ Admitted' = (Admitted - IF request[r].at \in {"in", "waiting"} THEN 1 ELSE 0)
                + IF request'[r].at \in {"in", "waiting"} THEN 1 ELSE 0
<1> DEFINE S == {s \in Requests : request[s].at \in {"in", "waiting"}}
<1>1. IsFiniteSet(S) BY PoolAssumption, FS_Subset
<1>2. S \ {r} = S' \ {r} BY DEF OnlyOf
<1>3. Admitted = Cardinality(S) /\ Admitted' = Cardinality(S') BY DEF Admitted, Those
<1>4. /\ r \in S <=> request[r].at \in {"in", "waiting"}
      /\ r \in S' <=> request'[r].at \in {"in", "waiting"}
  OBVIOUS
<1> HIDE DEF S
<1> QED BY <1>1, <1>2, <1>3, <1>4, OneMoves

LEMMA QueuedMoves ==
    ASSUME NEW r \in Requests, OnlyOf(r)
    PROVE  /\ Queued \in Nat
           /\ request[r].call \in {"queued"} => Queued >= 1
           /\ Queued' = (Queued - IF request[r].call \in {"queued"} THEN 1 ELSE 0)
                + IF request'[r].call \in {"queued"} THEN 1 ELSE 0
<1> DEFINE S == {s \in Requests : request[s].call \in {"queued"}}
<1>1. IsFiniteSet(S) BY PoolAssumption, FS_Subset
<1>2. S \ {r} = S' \ {r} BY DEF OnlyOf
<1>3. Queued = Cardinality(S) /\ Queued' = Cardinality(S') BY DEF Queued, Those
<1>4. /\ r \in S <=> request[r].call \in {"queued"}
      /\ r \in S' <=> request'[r].call \in {"queued"}
  OBVIOUS
<1> HIDE DEF S
<1> QED BY <1>1, <1>2, <1>3, <1>4, OneMoves

LEMMA BusyMoves ==
    ASSUME NEW r \in Requests, OnlyOf(r)
    PROVE  /\ Busy \in Nat
           /\ request[r].call \in {"counted", "running", "abandoned"} => Busy >= 1
           /\ Busy' = (Busy - IF request[r].call \in {"counted", "running", "abandoned"} THEN 1 ELSE 0)
                + IF request'[r].call \in {"counted", "running", "abandoned"} THEN 1 ELSE 0
<1> DEFINE S == {s \in Requests : request[s].call \in {"counted", "running", "abandoned"}}
<1>1. IsFiniteSet(S) BY PoolAssumption, FS_Subset
<1>2. S \ {r} = S' \ {r} BY DEF OnlyOf
<1>3. Busy = Cardinality(S) /\ Busy' = Cardinality(S') BY DEF Busy, Those
<1>4. /\ r \in S <=> request[r].call \in {"counted", "running", "abandoned"}
      /\ r \in S' <=> request'[r].call \in {"counted", "running", "abandoned"}
  OBVIOUS
<1> HIDE DEF S
<1> QED BY <1>1, <1>2, <1>3, <1>4, OneMoves

-----------------------------------------------------------------------------

(* A step of one request, which leaves it with this row, keeps the         *)
(* invariant when the counters change by what it held before and holds     *)
(* after.                                                                  *)
Moves(count, before, after) ==
    count' = (count - IF before THEN 1 ELSE 0) + IF after THEN 1 ELSE 0

CallSound(row) ==
    /\ row.call = "abandoned" /\ row.shielded => row.cancels >= 2
    /\ row.call # "none" /\ row.shielded /\ row.cancels < 2 => row.at = "in"

Working == {"counted", "running", "abandoned"}

RowMoves(r, row) == request' = [request EXCEPT ![r] = row]

CountersMove(r, row) ==
    /\ slots' \in [active : Int, admitted : Int, closing : BOOLEAN]
    /\ workers' \in [active : Int, waiting : Int, closing : BOOLEAN]
    /\ cleaning' \in Nat /\ stuck' \in Nat
    /\ Moves(slots.active, request[r].at = "in", row.at = "in")
    /\ Moves(slots.admitted, request[r].at # "outside", row.at # "outside")
    /\ Moves(workers.waiting, request[r].call = "queued", row.call = "queued")
    /\ workers'.active - stuck' - cleaning' =
         (workers.active - stuck - cleaning - IF request[r].call \in Working THEN 1 ELSE 0)
         + IF row.call \in Working THEN 1 ELSE 0

LEMMA PoolFacts ==
    ASSUME PoolInv
    PROVE  /\ slots \in [active : Nat, admitted : Nat, closing : BOOLEAN]
           /\ workers \in [active : Nat, waiting : Nat, closing : BOOLEAN]
           /\ cleaning \in Nat /\ stuck \in Nat
           /\ request \in [Requests -> RequestRow]
           /\ slots.active = Slotted /\ slots.admitted = Admitted
           /\ workers.waiting = Queued /\ workers.active = stuck + cleaning + Busy
           /\ \A r \in Requests : request[r] \in RequestRow /\ CallSound(request[r])
BY DEF PoolInv, PoolShape, PoolIsCounted, CountersMatchHolders, SlotCoversWork, AbandonedTwice,
       RequestAt, RequestCalls, Slotted, Admitted, Queued, Busy, CallSound

LEMMA RowFacts ==
    ASSUME PoolInv, NEW r \in Requests
    PROVE  /\ request[r] \in RequestRow /\ CallSound(request[r])
           /\ request[r].at \in {"outside", "waiting", "in"} /\ request[r].cancels \in Nat
           /\ request[r].call \in {"none", "queued", "counted", "running", "abandoned"}
           /\ request[r].shielded \in BOOLEAN
BY PoolFacts DEF RequestRow

LEMMA SumOfNats ==
    ASSUME NEW a \in Nat, NEW b \in Nat, NEW c \in Nat PROVE a + b + c \in Nat
OBVIOUS

LEMMA OneRequestSteps ==
    ASSUME PoolInv, NEW r \in Requests, NEW row \in RequestRow, CallSound(row),
           RowMoves(r, row), CountersMove(r, row)
    PROVE  PoolInv'
<1>f. /\ slots \in [active : Nat, admitted : Nat, closing : BOOLEAN]
      /\ workers \in [active : Nat, waiting : Nat, closing : BOOLEAN]
      /\ cleaning \in Nat /\ stuck \in Nat
      /\ request \in [Requests -> RequestRow]
      /\ slots.active = Slotted /\ slots.admitted = Admitted
      /\ workers.waiting = Queued /\ workers.active = stuck + cleaning + Busy
      /\ \A s \in Requests : request[s] \in RequestRow /\ CallSound(request[s])
  BY PoolFacts
<1>1. request' \in [Requests -> RequestRow] /\ OnlyOf(r) /\ request'[r] = row
  BY <1>f DEF OnlyOf, RowMoves
<1>2. request[r].at \in {"outside", "waiting", "in"} /\ row.at \in {"outside", "waiting", "in"}
  BY <1>f DEF RequestRow
<1>3. Slotted' = slots'.active /\ slots'.active \in Nat
  BY <1>1, <1>2, <1>f, SlottedMoves DEF CountersMove, Moves
<1>4. Admitted' = slots'.admitted /\ slots'.admitted \in Nat
  BY <1>1, <1>2, <1>f, AdmittedMoves DEF CountersMove, Moves
<1>5. Queued' = workers'.waiting /\ workers'.waiting \in Nat
  BY <1>1, <1>2, <1>f, QueuedMoves DEF CountersMove, Moves
<1>6. workers'.active = stuck' + cleaning' + Busy' /\ workers'.active \in Nat
  <2> DEFINE before == IF request[r].call \in Working THEN 1 ELSE 0
             after == IF row.call \in Working THEN 1 ELSE 0
  <2>1. Busy \in Nat /\ Busy >= before /\ Busy' = (Busy - before) + after
    BY <1>1, BusyMoves DEF Working
  <2>2. before \in 0 .. 1 /\ after \in 0 .. 1 OBVIOUS
  <2>3. /\ workers'.active \in Int /\ workers.active \in Nat /\ cleaning' \in Nat /\ stuck' \in Nat
        /\ workers'.active - stuck' - cleaning' =
             (workers.active - stuck - cleaning - before) + after
    BY <1>f DEF CountersMove
  <2> HIDE DEF before, after
  <2>4. workers.active = stuck + cleaning + Busy /\ stuck \in Nat /\ cleaning \in Nat BY <1>f
  <2>5. Busy' \in Nat BY <2>1, <2>2
  <2>6. workers'.active = stuck' + cleaning' + Busy' BY <2>1, <2>2, <2>3, <2>4, <2>5
  <2>9. stuck' \in Nat /\ cleaning' \in Nat BY <2>3
  <2>7. stuck' + cleaning' + Busy' \in Nat BY <2>9, <2>5, SumOfNats
  <2>8. workers'.active \in Nat BY <2>6, <2>7
  <2> QED BY <2>6, <2>8
<1>7. \A s \in Requests : CallSound(request'[s])
  BY <1>1, <1>f DEF OnlyOf
<1>8. AbandonedTwice' /\ SlotCoversWork'
  BY <1>7 DEF CallSound, AbandonedTwice, SlotCoversWork, RequestAt, RequestCalls
<1>9. /\ slots' \in [active : Nat, admitted : Nat, closing : BOOLEAN]
      /\ workers' \in [active : Nat, waiting : Nat, closing : BOOLEAN]
  BY <1>3, <1>4, <1>5, <1>6 DEF CountersMove
<1>10. cleaning' \in Nat /\ stuck' \in Nat BY DEF CountersMove
<1> QED
  BY <1>1, <1>3, <1>4, <1>5, <1>6, <1>8, <1>9, <1>10
  DEF PoolInv, PoolShape, PoolIsCounted, CountersMatchHolders, Slotted, Admitted, Queued, Busy

(* The steps of the slots.                                                 *)
LEMMA AcquireKeepsPool ==
    ASSUME PoolInv, NEW r \in Requests, Acquire(r) PROVE PoolInv'
<1>1. CASE slots.active < MaxActive
  <2>r. PICK row : row = [request[r] EXCEPT !.at = "in"] OBVIOUS
  <2>0. RowMoves(r, row)
    BY <1>1, <2>r, PoolFacts, RowFacts DEF RowMoves, Acquire, RequestGoes, RequestAt, RequestCalls
  <2>1. /\ slots' = [slots EXCEPT !.admitted = slots.admitted + 1, !.active = slots.active + 1] /\ workers' = workers
        /\ cleaning' = cleaning /\ stuck' = stuck
        /\ request[r].at = "outside" /\ request[r].call = "none"
    BY <1>1, <2>r, PoolFacts, RowFacts DEF Acquire, RequestGoes, RequestAt, RequestCalls
  <2>2. row.at = "in" /\ row.call = request[r].call
    BY <1>1, <2>r, PoolFacts, RowFacts DEF RequestRow
  <2>3. row \in RequestRow /\ CallSound(row)
    BY <1>1, <2>r, PoolFacts, RowFacts, <2>1 DEF RequestRow, CallSound
  <2>5. slots'.admitted = slots.admitted + 1 /\ slots'.active = slots.active + 1
    BY <2>1, PoolFacts
  <2>7. slots'.admitted \in Int /\ slots'.active \in Int BY <2>5, PoolFacts
  <2>6. slots' \in [active : Int, admitted : Int, closing : BOOLEAN]
    BY <2>1, <2>5, <2>7, PoolFacts
  <2>4. CountersMove(r, row)
    BY <2>1, <2>2, <2>5, <2>6, PoolFacts DEF CountersMove, Moves, Working
  <2> QED BY <2>0, <2>3, <2>4, OneRequestSteps
<1>2. CASE ~(slots.active < MaxActive)
  <2>r. PICK row : row = [request[r] EXCEPT !.at = "waiting"] OBVIOUS
  <2>0. RowMoves(r, row)
    BY <1>2, <2>r, PoolFacts, RowFacts DEF RowMoves, Acquire, RequestGoes, RequestAt, RequestCalls
  <2>1. /\ slots' = [slots EXCEPT !.admitted = slots.admitted + 1] /\ workers' = workers
        /\ cleaning' = cleaning /\ stuck' = stuck
        /\ request[r].at = "outside" /\ request[r].call = "none"
    BY <1>2, <2>r, PoolFacts, RowFacts DEF Acquire, RequestGoes, RequestAt, RequestCalls
  <2>2. row.at = "waiting" /\ row.call = request[r].call
    BY <1>2, <2>r, PoolFacts, RowFacts DEF RequestRow
  <2>3. row \in RequestRow /\ CallSound(row)
    BY <1>2, <2>r, PoolFacts, RowFacts, <2>1 DEF RequestRow, CallSound
  <2>5. slots'.admitted = slots.admitted + 1
    BY <2>1, PoolFacts
  <2>6. slots' \in [active : Int, admitted : Int, closing : BOOLEAN]
    BY <2>1, <2>5, PoolFacts
  <2>4. CountersMove(r, row)
    BY <2>1, <2>2, <2>5, <2>6, PoolFacts DEF CountersMove, Moves, Working
  <2> QED BY <2>0, <2>3, <2>4, OneRequestSteps
<1> QED BY <1>1, <1>2

LEMMA TakeSlotKeepsPool ==
    ASSUME PoolInv, NEW r \in Requests, TakeSlot(r) PROVE PoolInv'
<1>r. PICK row : row = [request[r] EXCEPT !.at = "in"] OBVIOUS
<1>0. RowMoves(r, row)
  BY <1>r, PoolFacts, RowFacts DEF RowMoves, TakeSlot, RequestGoes, RequestAt
<1>1. /\ slots' = [slots EXCEPT !.active = slots.active + 1] /\ workers' = workers
      /\ cleaning' = cleaning /\ stuck' = stuck
      /\ request[r].at = "waiting"
  BY <1>r, PoolFacts, RowFacts DEF TakeSlot, RequestGoes, RequestAt
<1>2. row.at = "in" /\ row.call = request[r].call
  BY <1>r, PoolFacts, RowFacts DEF RequestRow
<1>3. row \in RequestRow /\ CallSound(row)
  BY <1>r, PoolFacts, RowFacts, <1>1 DEF RequestRow, CallSound
<1>5. slots'.active = slots.active + 1
  BY <1>1, PoolFacts
<1>6. slots' \in [active : Int, admitted : Int, closing : BOOLEAN]
  BY <1>1, <1>5, PoolFacts
<1>4. CountersMove(r, row)
  BY <1>1, <1>2, <1>5, <1>6, PoolFacts DEF CountersMove, Moves, Working
<1> QED BY <1>0, <1>3, <1>4, OneRequestSteps

LEMMA LeaveQueueKeepsPool ==
    ASSUME PoolInv, NEW r \in Requests, LeaveQueue(r) PROVE PoolInv'
<1>r. PICK row : row = [request[r] EXCEPT !.at = "outside"] OBVIOUS
<1>0. RowMoves(r, row)
  BY <1>r, PoolFacts, RowFacts DEF RowMoves, LeaveQueue, RequestGoes, RequestAt
<1>1. /\ slots' = [slots EXCEPT !.admitted = slots.admitted - 1] /\ workers' = workers
      /\ cleaning' = cleaning /\ stuck' = stuck
      /\ request[r].at = "waiting"
  BY <1>r, PoolFacts, RowFacts DEF LeaveQueue, RequestGoes, RequestAt
<1>2. row.at = "outside" /\ row.call = request[r].call
  BY <1>r, PoolFacts, RowFacts DEF RequestRow
<1>3. row \in RequestRow /\ CallSound(row)
  BY <1>r, PoolFacts, RowFacts, <1>1 DEF RequestRow, CallSound
<1>5. slots'.admitted = slots.admitted - 1
  BY <1>1, PoolFacts
<1>6. slots' \in [active : Int, admitted : Int, closing : BOOLEAN]
  BY <1>1, <1>5, PoolFacts
<1>4. CountersMove(r, row)
  BY <1>1, <1>2, <1>5, <1>6, PoolFacts DEF CountersMove, Moves, Working
<1> QED BY <1>0, <1>3, <1>4, OneRequestSteps

LEMMA ReleaseSlotKeepsPool ==
    ASSUME PoolInv, NEW r \in Requests, ReleaseSlot(r) PROVE PoolInv'
<1>r. PICK row : row = [request[r] EXCEPT !.at = "outside"] OBVIOUS
<1>0. RowMoves(r, row)
  BY <1>r, PoolFacts, RowFacts DEF RowMoves, ReleaseSlot, RequestGoes, RequestAt
<1>1. /\ slots' = [slots EXCEPT !.active = slots.active - 1, !.admitted = slots.admitted - 1] /\ workers' = workers
      /\ cleaning' = cleaning /\ stuck' = stuck
      /\ request[r].at = "in" /\ request[r].call \in {"none", "abandoned"}
  BY <1>r, PoolFacts, RowFacts DEF ReleaseSlot, RequestGoes, RequestAt
<1>2. row.at = "outside" /\ row.call = request[r].call
  BY <1>r, PoolFacts, RowFacts DEF RequestRow
<1>3. row \in RequestRow /\ CallSound(row)
  BY <1>r, PoolFacts, RowFacts, <1>1 DEF RequestRow, CallSound
<1>5. slots'.active = slots.active - 1 /\ slots'.admitted = slots.admitted - 1
  BY <1>1, PoolFacts
<1>7. slots'.active \in Int /\ slots'.admitted \in Int BY <1>5, PoolFacts
<1>6. slots' \in [active : Int, admitted : Int, closing : BOOLEAN]
  BY <1>1, <1>5, <1>7, PoolFacts
<1>4. CountersMove(r, row)
  BY <1>1, <1>2, <1>5, <1>6, PoolFacts DEF CountersMove, Moves, Working
<1> QED BY <1>0, <1>3, <1>4, OneRequestSteps

(* The steps of run_sync().                                                *)
LEMMA RunKeepsPool ==
    ASSUME PoolInv, NEW r \in Requests, NEW shielded \in BOOLEAN, Run(r, shielded) PROVE PoolInv'
<1>1. CASE workers.active < MaxActive
  <2>r. PICK row : row = [request[r] EXCEPT !.call = "counted", !.shielded = shielded] OBVIOUS
  <2>0. RowMoves(r, row)
    BY <1>1, <2>r, PoolFacts, RowFacts DEF RowMoves, Run, RequestAt, RequestCalls
  <2>1. /\ slots' = slots /\ workers' = [workers EXCEPT !.active = workers.active + 1]
        /\ cleaning' = cleaning /\ stuck' = stuck
        /\ request[r].at = "in" /\ request[r].call = "none"
    BY <1>1, <2>r, PoolFacts, RowFacts DEF Run, RequestAt, RequestCalls
  <2>2. row.at = request[r].at /\ row.call = "counted"
    BY <1>1, <2>r, PoolFacts, RowFacts DEF RequestRow
  <2>3. row \in RequestRow /\ CallSound(row)
    BY <1>1, <2>r, PoolFacts, RowFacts, <2>1 DEF RequestRow, CallSound
  <2>5. workers'.active = workers.active + 1
    BY <2>1, PoolFacts
  <2>6. workers' \in [active : Int, waiting : Int, closing : BOOLEAN]
    BY <2>1, <2>5, PoolFacts
  <2>4. CountersMove(r, row)
    BY <2>1, <2>2, <2>5, <2>6, PoolFacts DEF CountersMove, Moves, Working
  <2> QED BY <2>0, <2>3, <2>4, OneRequestSteps
<1>2. CASE ~(workers.active < MaxActive)
  <2>r. PICK row : row = [request[r] EXCEPT !.call = "queued", !.shielded = shielded] OBVIOUS
  <2>0. RowMoves(r, row)
    BY <1>2, <2>r, PoolFacts, RowFacts DEF RowMoves, Run, RequestAt, RequestCalls
  <2>1. /\ slots' = slots /\ workers' = [workers EXCEPT !.waiting = workers.waiting + 1]
        /\ cleaning' = cleaning /\ stuck' = stuck
        /\ request[r].at = "in" /\ request[r].call = "none"
    BY <1>2, <2>r, PoolFacts, RowFacts DEF Run, RequestAt, RequestCalls
  <2>2. row.at = request[r].at /\ row.call = "queued"
    BY <1>2, <2>r, PoolFacts, RowFacts DEF RequestRow
  <2>3. row \in RequestRow /\ CallSound(row)
    BY <1>2, <2>r, PoolFacts, RowFacts, <2>1 DEF RequestRow, CallSound
  <2>5. workers'.waiting = workers.waiting + 1
    BY <2>1, PoolFacts
  <2>6. workers' \in [active : Int, waiting : Int, closing : BOOLEAN]
    BY <2>1, <2>5, PoolFacts
  <2>4. CountersMove(r, row)
    BY <2>1, <2>2, <2>5, <2>6, PoolFacts DEF CountersMove, Moves, Working
  <2> QED BY <2>0, <2>3, <2>4, OneRequestSteps
<1> QED BY <1>1, <1>2

LEMMA TakeWorkerKeepsPool ==
    ASSUME PoolInv, NEW r \in Requests, TakeWorker(r) PROVE PoolInv'
<1>r. PICK row : row = [request[r] EXCEPT !.call = "counted"] OBVIOUS
<1>0. RowMoves(r, row)
  BY <1>r, PoolFacts, RowFacts DEF RowMoves, TakeWorker, CallIs, RequestCalls
<1>1. /\ slots' = slots /\ workers' = [workers EXCEPT !.active = workers.active + 1, !.waiting = workers.waiting - 1]
      /\ cleaning' = cleaning /\ stuck' = stuck
      /\ request[r].call = "queued"
  BY <1>r, PoolFacts, RowFacts DEF TakeWorker, CallIs, RequestCalls
<1>2. row.at = request[r].at /\ row.call = "counted"
  BY <1>r, PoolFacts, RowFacts DEF RequestRow
<1>3. row \in RequestRow /\ CallSound(row)
  BY <1>r, PoolFacts, RowFacts, <1>1 DEF RequestRow, CallSound
<1>5. workers'.active = workers.active + 1 /\ workers'.waiting = workers.waiting - 1
  BY <1>1, PoolFacts
<1>7. workers'.active \in Int /\ workers'.waiting \in Int BY <1>5, PoolFacts
<1>6. workers' \in [active : Int, waiting : Int, closing : BOOLEAN]
  BY <1>1, <1>5, <1>7, PoolFacts
<1>4. CountersMove(r, row)
  BY <1>1, <1>2, <1>5, <1>6, PoolFacts DEF CountersMove, Moves, Working
<1> QED BY <1>0, <1>3, <1>4, OneRequestSteps

LEMMA RefuseQueuedKeepsPool ==
    ASSUME PoolInv, NEW r \in Requests, RefuseQueued(r) PROVE PoolInv'
<1>r. PICK row : row = [request[r] EXCEPT !.call = "none", !.cancels = 0] OBVIOUS
<1>0. RowMoves(r, row)
  BY <1>r, PoolFacts, RowFacts DEF RowMoves, RefuseQueued, CallEnds, RequestCalls
<1>1. /\ slots' = slots /\ workers' = [workers EXCEPT !.waiting = workers.waiting - 1]
      /\ cleaning' = cleaning /\ stuck' = stuck
      /\ request[r].call = "queued"
  BY <1>r, PoolFacts, RowFacts DEF RefuseQueued, CallEnds, RequestCalls
<1>2. row.at = request[r].at /\ row.call = "none"
  BY <1>r, PoolFacts, RowFacts DEF RequestRow
<1>3. row \in RequestRow /\ CallSound(row)
  BY <1>r, PoolFacts, RowFacts, <1>1 DEF RequestRow, CallSound
<1>5. workers'.waiting = workers.waiting - 1
  BY <1>1, PoolFacts
<1>6. workers' \in [active : Int, waiting : Int, closing : BOOLEAN]
  BY <1>1, <1>5, PoolFacts
<1>4. CountersMove(r, row)
  BY <1>1, <1>2, <1>5, <1>6, PoolFacts DEF CountersMove, Moves, Working
<1> QED BY <1>0, <1>3, <1>4, OneRequestSteps

LEMMA SubmitKeepsPool ==
    ASSUME PoolInv, NEW r \in Requests, Submit(r) PROVE PoolInv'
<1>r. PICK row : row = [request[r] EXCEPT !.call = "running"] OBVIOUS
<1>0. RowMoves(r, row)
  BY <1>r, PoolFacts, RowFacts DEF RowMoves, Submit, CallIs, RequestCalls
<1>1. /\ slots' = slots /\ workers' = workers
      /\ cleaning' = cleaning /\ stuck' = stuck
      /\ request[r].call = "counted"
  BY <1>r, PoolFacts, RowFacts DEF Submit, CallIs, RequestCalls
<1>2. row.at = request[r].at /\ row.call = "running"
  BY <1>r, PoolFacts, RowFacts DEF RequestRow
<1>3. row \in RequestRow /\ CallSound(row)
  BY <1>r, PoolFacts, RowFacts, <1>1 DEF RequestRow, CallSound
<1>4. CountersMove(r, row)
  BY <1>1, <1>2, PoolFacts DEF CountersMove, Moves, Working
<1> QED BY <1>0, <1>3, <1>4, OneRequestSteps

LEMMA FailToSubmitKeepsPool ==
    ASSUME PoolInv, NEW r \in Requests, FailToSubmit(r) PROVE PoolInv'
<1>r. PICK row : row = [request[r] EXCEPT !.call = "none", !.cancels = 0] OBVIOUS
<1>0. RowMoves(r, row)
  BY <1>r, PoolFacts, RowFacts DEF RowMoves, FailToSubmit, CallEnds, RequestCalls
<1>1. /\ slots' = slots /\ workers' = [workers EXCEPT !.active = workers.active - 1]
      /\ cleaning' = cleaning /\ stuck' = stuck
      /\ request[r].call = "counted"
  BY <1>r, PoolFacts, RowFacts DEF FailToSubmit, CallEnds, RequestCalls
<1>2. row.at = request[r].at /\ row.call = "none"
  BY <1>r, PoolFacts, RowFacts DEF RequestRow
<1>3. row \in RequestRow /\ CallSound(row)
  BY <1>r, PoolFacts, RowFacts, <1>1 DEF RequestRow, CallSound
<1>5. workers'.active = workers.active - 1
  BY <1>1, PoolFacts
<1>6. workers' \in [active : Int, waiting : Int, closing : BOOLEAN]
  BY <1>1, <1>5, PoolFacts
<1>4. CountersMove(r, row)
  BY <1>1, <1>2, <1>5, <1>6, PoolFacts DEF CountersMove, Moves, Working
<1> QED BY <1>0, <1>3, <1>4, OneRequestSteps

LEMMA FinishWorkKeepsPool ==
    ASSUME PoolInv, NEW r \in Requests, FinishWork(r) PROVE PoolInv'
<1>r. PICK row : row = [request[r] EXCEPT !.call = "none", !.cancels = 0] OBVIOUS
<1>0. RowMoves(r, row)
  BY <1>r, PoolFacts, RowFacts DEF RowMoves, FinishWork, CallEnds, RequestCalls
<1>1. /\ slots' = slots /\ workers' = workers
      /\ cleaning' = cleaning + 1 /\ stuck' = stuck
      /\ request[r].call \in {"running", "abandoned"}
  BY <1>r, PoolFacts, RowFacts DEF FinishWork, CallEnds, RequestCalls
<1>2. row.at = request[r].at /\ row.call = "none"
  BY <1>r, PoolFacts, RowFacts DEF RequestRow
<1>3. row \in RequestRow /\ CallSound(row)
  BY <1>r, PoolFacts, RowFacts, <1>1 DEF RequestRow, CallSound
<1>4. CountersMove(r, row)
  BY <1>1, <1>2, PoolFacts DEF CountersMove, Moves, Working
<1> QED BY <1>0, <1>3, <1>4, OneRequestSteps

(* A cancellation reaches a request at each of its places.                 *)
LEMMA CancelShieldedKeepsPool ==
    ASSUME PoolInv, NEW r \in Requests, CancelShielded(r) PROVE PoolInv'
<1>r. PICK row : row = [request[r] EXCEPT !.cancels = request[r].cancels + 1] OBVIOUS
<1>0. RowMoves(r, row)
  BY <1>r, PoolFacts, RowFacts DEF RowMoves, CancelShielded, Cancelled, Shielded, RequestAt
<1>1. /\ slots' = slots /\ workers' = workers
      /\ cleaning' = cleaning /\ stuck' = stuck
      /\ request[r].call \in {"queued", "counted", "running"} /\ request[r].at = "in"
  BY <1>r, PoolFacts, RowFacts DEF CancelShielded, Cancelled, Shielded, RequestAt
<1>2. /\ row.at = request[r].at /\ row.call = request[r].call
      /\ row.cancels = request[r].cancels + 1 /\ row.shielded = request[r].shielded
  BY <1>r, PoolFacts, RowFacts DEF RequestRow
<1>3. row \in RequestRow /\ CallSound(row)
  <2>3. request[r].cancels + 1 \in Nat BY RowFacts
  <2>1. row \in RequestRow BY <1>r, <1>2, <2>3, RowFacts DEF RequestRow
  <2>2. CallSound(row) BY <1>1, <1>2, RowFacts DEF CallSound
  <2> QED BY <2>1, <2>2
<1>4. CountersMove(r, row)
  BY <1>1, <1>2, PoolFacts DEF CountersMove, Moves, Working
<1> QED BY <1>0, <1>3, <1>4, OneRequestSteps

LEMMA CancelQueuedKeepsPool ==
    ASSUME PoolInv, NEW r \in Requests, CancelQueued(r) PROVE PoolInv'
<1>r. PICK row : row = [request[r] EXCEPT !.call = "none", !.cancels = 0] OBVIOUS
<1>0. RowMoves(r, row)
  BY <1>r, PoolFacts, RowFacts DEF RowMoves, CancelQueued, CallEnds, Shielded, RequestAt, RequestCalls
<1>1. /\ slots' = slots /\ workers' = [workers EXCEPT !.waiting = workers.waiting - 1]
      /\ cleaning' = cleaning /\ stuck' = stuck
      /\ request[r].call = "queued"
  BY <1>r, PoolFacts, RowFacts DEF CancelQueued, CallEnds, Shielded, RequestAt, RequestCalls
<1>2. row.at = request[r].at /\ row.call = "none"
  BY <1>r, PoolFacts, RowFacts DEF RequestRow
<1>3. row \in RequestRow /\ CallSound(row)
  BY <1>r, PoolFacts, RowFacts, <1>1 DEF RequestRow, CallSound
<1>5. workers'.waiting = workers.waiting - 1
  BY <1>1, PoolFacts
<1>6. workers' \in [active : Int, waiting : Int, closing : BOOLEAN]
  BY <1>1, <1>5, PoolFacts
<1>4. CountersMove(r, row)
  BY <1>1, <1>2, <1>5, <1>6, PoolFacts DEF CountersMove, Moves, Working
<1> QED BY <1>0, <1>3, <1>4, OneRequestSteps

LEMMA CancelCountedKeepsPool ==
    ASSUME PoolInv, NEW r \in Requests, CancelCounted(r) PROVE PoolInv'
<1>r. PICK row : row = [request[r] EXCEPT !.call = "none", !.cancels = 0] OBVIOUS
<1>0. RowMoves(r, row)
  BY <1>r, PoolFacts, RowFacts DEF RowMoves, CancelCounted, CallEnds, Shielded, RequestAt, RequestCalls
<1>1. /\ slots' = slots /\ workers' = workers
      /\ cleaning' = cleaning /\ stuck' = stuck + 1
      /\ request[r].call = "counted"
  BY <1>r, PoolFacts, RowFacts DEF CancelCounted, CallEnds, Shielded, RequestAt, RequestCalls
<1>2. row.at = request[r].at /\ row.call = "none"
  BY <1>r, PoolFacts, RowFacts DEF RequestRow
<1>3. row \in RequestRow /\ CallSound(row)
  BY <1>r, PoolFacts, RowFacts, <1>1 DEF RequestRow, CallSound
<1>4. CountersMove(r, row)
  BY <1>1, <1>2, PoolFacts DEF CountersMove, Moves, Working
<1> QED BY <1>0, <1>3, <1>4, OneRequestSteps

LEMMA CancelRunningKeepsPool ==
    ASSUME PoolInv, NEW r \in Requests, CancelRunning(r) PROVE PoolInv'
<1>r. PICK row : row = [request[r] EXCEPT !.cancels = request[r].cancels + 1, !.call = "abandoned"] OBVIOUS
<1>0. RowMoves(r, row)
  BY <1>r, PoolFacts, RowFacts DEF RowMoves, CancelRunning, Cancelled, Shielded, RequestAt, RequestCalls
<1>1. /\ slots' = slots /\ workers' = workers
      /\ cleaning' = cleaning /\ stuck' = stuck
      /\ request[r].call = "running" /\ (request[r].shielded => request[r].cancels # 0)
  BY <1>r, PoolFacts, RowFacts DEF CancelRunning, Cancelled, Shielded, RequestAt, RequestCalls
<1>2. /\ row.at = request[r].at /\ row.call = "abandoned"
      /\ row.cancels = request[r].cancels + 1 /\ row.shielded = request[r].shielded
  BY <1>r, PoolFacts, RowFacts DEF RequestRow
<1>3. row \in RequestRow /\ CallSound(row)
  <2>3. request[r].cancels + 1 \in Nat BY RowFacts
  <2>1. row \in RequestRow BY <1>r, <1>2, <2>3, RowFacts DEF RequestRow
  <2>2. CallSound(row) BY <1>1, <1>2, RowFacts DEF CallSound
  <2> QED BY <2>1, <2>2
<1>4. CountersMove(r, row)
  BY <1>1, <1>2, PoolFacts DEF CountersMove, Moves, Working
<1> QED BY <1>0, <1>3, <1>4, OneRequestSteps

LEMMA PoolInvInitially == PoolInit => PoolInv
<1> SUFFICES ASSUME PoolInit PROVE PoolInv OBVIOUS
<1>1. /\ \A r \in Requests : request[r] = Outside
      /\ slots = [active |-> 0, admitted |-> 0, closing |-> FALSE]
      /\ workers = [active |-> 0, waiting |-> 0, closing |-> FALSE]
      /\ cleaning = 0 /\ stuck = 0
  BY DEF PoolInit
<1>2. PoolShape
  <2>1. Outside \in RequestRow BY DEF Outside, RequestRow
  <2> QED BY <2>1, <1>1 DEF PoolInit, PoolShape
<1>3. AbandonedTwice /\ SlotCoversWork
  BY <1>1 DEF AbandonedTwice, SlotCoversWork, RequestCalls, Outside
<1>4. Slotted = 0 /\ Admitted = 0 /\ Queued = 0 /\ Busy = 0
  <2>1. /\ {r \in Requests : request[r].at \in {"in"}} = {}
        /\ {r \in Requests : request[r].at \in {"in", "waiting"}} = {}
        /\ {r \in Requests : request[r].call \in {"queued"}} = {}
        /\ {r \in Requests : request[r].call \in {"counted", "running", "abandoned"}} = {}
    BY <1>1 DEF Outside
  <2> QED BY <2>1, FS_EmptySet DEF Slotted, Admitted, Queued, Busy, Those
<1> QED
  BY <1>1, <1>2, <1>3, <1>4
  DEF PoolInv, PoolIsCounted, CountersMatchHolders, Slotted, Admitted, Queued, Busy

(* Every step, the cleanup and the end included, keeps the invariant.      *)
LEMMA PoolInvInductive == PoolInv /\ [PoolNext]_poolVars => PoolInv'
<1> SUFFICES ASSUME PoolInv, [PoolNext]_poolVars PROVE PoolInv' OBVIOUS
<1>1. ASSUME NEW r \in Requests, Acquire(r) PROVE PoolInv'
  BY <1>1, AcquireKeepsPool
<1>2. ASSUME NEW r \in Requests, TakeSlot(r) PROVE PoolInv'
  BY <1>2, TakeSlotKeepsPool
<1>3. ASSUME NEW r \in Requests, LeaveQueue(r) PROVE PoolInv'
  BY <1>3, LeaveQueueKeepsPool
<1>4. ASSUME NEW r \in Requests, ReleaseSlot(r) PROVE PoolInv'
  BY <1>4, ReleaseSlotKeepsPool
<1>5. ASSUME NEW r \in Requests, NEW shielded \in BOOLEAN, Run(r, shielded) PROVE PoolInv'
  BY <1>5, RunKeepsPool
<1>6. ASSUME NEW r \in Requests, TakeWorker(r) PROVE PoolInv'
  BY <1>6, TakeWorkerKeepsPool
<1>7. ASSUME NEW r \in Requests, RefuseQueued(r) PROVE PoolInv'
  BY <1>7, RefuseQueuedKeepsPool
<1>8. ASSUME NEW r \in Requests, Submit(r) PROVE PoolInv'
  BY <1>8, SubmitKeepsPool
<1>9. ASSUME NEW r \in Requests, FailToSubmit(r) PROVE PoolInv'
  BY <1>9, FailToSubmitKeepsPool
<1>10. ASSUME NEW r \in Requests, FinishWork(r) PROVE PoolInv'
  BY <1>10, FinishWorkKeepsPool
<1>11. ASSUME NEW r \in Requests, CancelShielded(r) PROVE PoolInv'
  BY <1>11, CancelShieldedKeepsPool
<1>12. ASSUME NEW r \in Requests, CancelQueued(r) PROVE PoolInv'
  BY <1>12, CancelQueuedKeepsPool
<1>13. ASSUME NEW r \in Requests, CancelCounted(r) PROVE PoolInv'
  BY <1>13, CancelCountedKeepsPool
<1>14. ASSUME NEW r \in Requests, CancelRunning(r) PROVE PoolInv'
  BY <1>14, CancelRunningKeepsPool
<1>a. ASSUME UNCHANGED request, slots' \in [active : Nat, admitted : Nat, closing : BOOLEAN],
             workers' \in [active : Nat, waiting : Nat, closing : BOOLEAN],
             cleaning' \in Nat, UNCHANGED <<stuck, slots.active, slots.admitted, workers.waiting>>,
             workers'.active - workers.active = cleaning' - cleaning
      PROVE  PoolInv'
  <2>1. /\ Slotted' = Slotted /\ Admitted' = Admitted /\ Queued' = Queued /\ Busy' = Busy
        /\ AbandonedTwice' /\ SlotCoversWork'
    BY <1>a DEF Slotted, Admitted, Queued, Busy, Those, PoolInv, PoolIsCounted, AbandonedTwice,
                SlotCoversWork, RequestAt, RequestCalls
  <2>2. Busy \in Nat
    <3>1. IsFiniteSet({r \in Requests : request[r].call \in {"counted", "running", "abandoned"}})
      BY PoolAssumption, FS_Subset
    <3> QED BY <3>1, FS_CardinalityType DEF Busy, Those
  <2>3. workers'.active = stuck' + cleaning' + Busy' BY <1>a, <2>1, <2>2, PoolFacts
  <2> QED
    BY <1>a, <2>1, <2>3, PoolFacts
    DEF PoolInv, PoolShape, PoolIsCounted, CountersMatchHolders, Slotted, Admitted, Queued, Busy
<1>b. ASSUME CleanUp PROVE PoolInv'
  <2>1. /\ workers' = [workers EXCEPT !.active = workers.active - 1] /\ cleaning' = cleaning - 1
        /\ cleaning > 0 /\ UNCHANGED <<slots, request, stuck>>
    BY <1>b DEF CleanUp
  <2>2. workers.active >= 1
    <3>1. IsFiniteSet({r \in Requests : request[r].call \in {"counted", "running", "abandoned"}})
      BY PoolAssumption, FS_Subset
    <3>2. Busy \in Nat BY <3>1, FS_CardinalityType DEF Busy, Those
    <3> QED BY <2>1, <3>2, PoolFacts
  <2> QED BY <2>1, <2>2, PoolFacts, <1>a
<1>c. ASSUME CloseAdmission PROVE PoolInv'
  <2>1. slots' = [slots EXCEPT !.closing = TRUE] /\ UNCHANGED <<workers, request, cleaning, stuck>>
    BY <1>c DEF CloseAdmission
  <2>2. /\ slots'.active = slots.active /\ slots'.admitted = slots.admitted
        /\ slots' \in [active : Nat, admitted : Nat, closing : BOOLEAN]
    BY <2>1, PoolFacts
  <2>3. workers.active - workers.active = cleaning - cleaning BY PoolFacts
  <2> QED BY <2>1, <2>2, <2>3, PoolFacts, <1>a
<1>d. ASSUME CloseRunner PROVE PoolInv'
  <2>1. workers' = [workers EXCEPT !.closing = TRUE] /\ UNCHANGED <<slots, request, cleaning, stuck>>
    BY <1>d DEF CloseRunner
  <2>2. /\ workers'.active = workers.active /\ workers'.waiting = workers.waiting
        /\ workers' \in [active : Nat, waiting : Nat, closing : BOOLEAN]
    BY <2>1, PoolFacts
  <2>3. workers'.active - workers.active = cleaning - cleaning BY <2>2, PoolFacts
  <2> QED BY <2>1, <2>2, <2>3, PoolFacts, <1>a
<1>e. ASSUME UNCHANGED poolVars PROVE PoolInv' BY <1>e, PoolFacts, <1>a DEF poolVars
<1> QED
  BY <1>1, <1>2, <1>3, <1>4, <1>5, <1>6, <1>7, <1>8, <1>9, <1>10, <1>11, <1>12, <1>13, <1>14, <1>b, <1>c, <1>d, <1>e DEF PoolNext

(* However requests, answers, cancellations and the shutdown interleave:   *)
(* the counters of both stages are the requests that hold their places,    *)
(* and a slot goes only with its thread.                                   *)
THEOREM PoolStaysCounted == PoolSpec => []PoolIsCounted
<1>1. PoolSpec => []PoolInv BY PoolInvInitially, PoolInvInductive, PTL DEF PoolSpec
<1>2. PoolInv => PoolIsCounted BY DEF PoolInv
<1> QED BY <1>1, <1>2, PTL

-----------------------------------------------------------------------------
(* Runs                                                                    *)

(* Where the stream is open, and where it was cut.                         *)
OpenPlaces == {"idle", "new context", "ready", "beginning", "streaming"}
CutPlaces == {"beginning, cancelled", "beginning, abandoned", "draining", "cancelling"}
Places == OpenPlaces \cup CutPlaces
          \cup {"answered", "answered with an error", "failing", "returned", "over"}
Streams == {"open", "whole", "broken", "cut"}
RunStatuses == {"none", "running", "completed", "failed", "cancelled"}

TurnRows == [at : Places, calls : Nat, pinned : Turns \cup {NoContext}, inTool : BOOLEAN,
             left : BOOLEAN, stream : Streams, late : RunStatuses]
RunRows == [status : RunStatuses, stopped : BOOLEAN, truncated : BOOLEAN]
SourceRows == [recorded : SUBSET Documents, read : SUBSET Documents]

RunTypes ==
    /\ turn \in [Turns -> TurnRows]
    /\ run \in [Turns -> RunRows]
    /\ context \in [Items -> SUBSET Turns]
    /\ sources \in [Turns -> SourceRows]

(* A message has no context or one, and who is pinned is pinned to it.     *)
ContextSound ==
    /\ \A i \in Items : context[i] = {} \/ \E c \in Turns : context[i] = {c}
    /\ \A t \in Turns : turn[t].pinned # NoContext => turn[t].pinned \in context[ItemOf[t]]

(* What became of the stream, wherever respond() is, and what its row and  *)
(* a call it has left behind may say of it.                                *)
TurnSound(row, status) ==
    /\ row.at \in OpenPlaces => row.stream = "open"
    /\ row.at \in CutPlaces => row.stream = "cut"
    /\ row.at = "answered" => row.stream = "whole"
    /\ row.at \in {"answered with an error", "failing"} => row.stream = "broken"
    /\ Tells(status, row.stream) /\ Tells(row.late, row.stream)
    /\ row.late # "none" => row.at = "over"
    /\ row.at = "returned" => status \in {"completed", "failed"}

SourcesSound ==
    \A t \in Turns :
        /\ IsFiniteSet(sources[t].recorded)
        /\ Cardinality(sources[t].recorded) <= MaxSources
        /\ ~run[t].truncated => sources[t].recorded = sources[t].read

TurnsSound == \A t \in Turns : TurnSound(turn[t], run[t].status)

RunInv == RunTypes /\ ContextSound /\ TurnsSound /\ SourcesSound

LEMMA RunInitially == RunInit => RunInv
<1> SUFFICES ASSUME RunInit PROVE RunInv
  OBVIOUS
<1>1. RunTypes
  <2>1. NoTurn \in TurnRows
    BY DEF NoTurn, TurnRows, Places, OpenPlaces, Streams, RunStatuses
  <2>2. NoRun \in RunRows
    BY DEF RunRows, NoRun, RunStatuses
  <2>3. [recorded |-> {}, read |-> {}] \in SourceRows
    BY DEF SourceRows
  <2> QED
    BY <2>1, <2>2, <2>3 DEF RunInit, RunTypes
<1>2. ContextSound
  BY RunAssumption DEF RunInit, ContextSound, NoTurn
<1>3. TurnsSound
  <2>1. TurnSound(NoTurn, "none")
    BY DEF TurnSound, NoTurn, Tells, OpenPlaces, CutPlaces
  <2> QED
    BY <2>1 DEF RunInit, TurnsSound, NoRun
<1>4. SourcesSound
  <2>1. IsFiniteSet({}) /\ Cardinality({}) = 0
    BY FS_EmptySet
  <2>2. \A t \in Turns : sources[t].recorded = {} /\ sources[t].read = {}
    BY DEF RunInit
  <2>3. 0 <= MaxSources
    BY RunAssumption
  <2> SUFFICES ASSUME NEW t \in Turns
               PROVE  /\ IsFiniteSet(sources[t].recorded)
                      /\ Cardinality(sources[t].recorded) <= MaxSources
                      /\ ~run[t].truncated => sources[t].recorded = sources[t].read
    BY DEF SourcesSound
  <2>4. sources[t].recorded = {} /\ sources[t].read = {}
    BY <2>2
  <2> QED
    BY <2>1, <2>3, <2>4
<1> QED
  BY <1>1, <1>2, <1>3, <1>4 DEF RunInv

(* A step of one turn and its row that leaves its context and evidence.    *)
LEMMA RowStep ==
    ASSUME RunInv, NEW t \in Turns, NEW row \in TurnRows, NEW mark \in RunRows,
           turn' = [turn EXCEPT ![t] = row], run' = [run EXCEPT ![t] = mark],
           row.pinned = turn[t].pinned, mark.truncated = run[t].truncated,
           TurnSound(row, mark.status), UNCHANGED <<context, sources>>
    PROVE  RunInv'
<1>1. RunTypes'
  BY DEF RunInv, RunTypes
<1>2. \A o \in Turns : /\ turn'[o] = IF o = t THEN row ELSE turn[o]
                       /\ run'[o] = IF o = t THEN mark ELSE run[o]
  BY DEF RunInv, RunTypes
<1>3. \A o \in Turns : /\ turn'[o].pinned = turn[o].pinned
                       /\ run'[o].truncated = run[o].truncated
  BY <1>2
<1>4. ContextSound'
  BY <1>3 DEF RunInv, ContextSound
<1>5. TurnsSound'
  BY <1>2 DEF RunInv, TurnsSound
<1>6. SourcesSound'
  BY <1>3 DEF RunInv, SourcesSound
<1> QED
  BY <1>1, <1>4, <1>5, <1>6 DEF RunInv

(* A step of a turn that leaves every row as it is.                        *)
LEMMA TurnStep ==
    ASSUME RunInv, NEW t \in Turns, NEW row \in TurnRows,
           turn' = [turn EXCEPT ![t] = row], row.pinned = turn[t].pinned,
           TurnSound(row, run[t].status), UNCHANGED <<run, context, sources>>
    PROVE  RunInv'
<1>1. run[t] \in RunRows /\ run' = [run EXCEPT ![t] = run[t]]
  BY DEF RunInv, RunTypes
<1>2. PICK mark \in RunRows : mark = run[t]
  BY <1>1
<1> QED
  BY <1>1, <1>2, RowStep

(* A row that has moved, that is over, or that is pinned.                  *)
MovedRow(row, place, how) == [row EXCEPT !.at = place, !.stream = how]
EndedRow(row, place, late) ==
    [row EXCEPT !.at = place, !.calls = 0, !.left = FALSE, !.late = late]
PinnedRow(row, pin) == [row EXCEPT !.at = "ready", !.pinned = pin]

LEMMA PlaceMoves ==
    ASSUME NEW row \in TurnRows, NEW place \in Places, NEW how \in Streams
    PROVE  /\ MovedRow(row, place, how) \in TurnRows
           /\ MovedRow(row, place, how).at = place
           /\ MovedRow(row, place, how).stream = how
           /\ MovedRow(row, place, how).late = row.late
           /\ MovedRow(row, place, how).pinned = row.pinned
BY DEF MovedRow, TurnRows

LEMMA PlaceStays ==
    ASSUME NEW row \in TurnRows, NEW place \in Places
    PROVE  MovedRow(row, place, row.stream) = [row EXCEPT !.at = place]
BY DEF MovedRow, TurnRows

LEMMA RowEnds ==
    ASSUME NEW row \in TurnRows, NEW place \in Places, NEW late \in RunStatuses
    PROVE  /\ EndedRow(row, place, late) \in TurnRows
           /\ EndedRow(row, place, late).at = place
           /\ EndedRow(row, place, late).stream = row.stream
           /\ EndedRow(row, place, late).late = late
           /\ EndedRow(row, place, late).pinned = row.pinned
BY DEF EndedRow, TurnRows

LEMMA RowIsPinned ==
    ASSUME NEW row \in TurnRows, NEW pin \in Turns
    PROVE  /\ PinnedRow(row, pin) \in TurnRows
           /\ PinnedRow(row, pin).at = "ready" /\ PinnedRow(row, pin).pinned = pin
           /\ PinnedRow(row, pin).stream = row.stream
           /\ PinnedRow(row, pin).late = row.late
<1>0. PICK Pins : Pins = Turns \cup {NoContext}
  OBVIOUS
<1>1. PICK place \in Places : place = "ready"
  BY DEF Places, OpenPlaces
<1>2. /\ TurnRows = [at : Places, calls : Nat, pinned : Pins, inTool : BOOLEAN, left : BOOLEAN,
                    stream : Streams, late : RunStatuses]
      /\ pin \in Pins
  BY <1>0 DEF TurnRows
<1>3. PinnedRow(row, pin) = [row EXCEPT !.at = place, !.pinned = pin]
  BY <1>1 DEF PinnedRow
<1> QED
  BY <1>1, <1>2, <1>3

(* An end that only respond() itself tells of.                             *)
LEMMA RaiseStep ==
    ASSUME RunInv, NEW t \in Turns, Raises(t), UNCHANGED <<run, context, sources>>
    PROVE  RunInv'
<1>1. turn[t] \in TurnRows /\ TurnSound(turn[t], run[t].status)
  BY DEF RunInv, RunTypes, TurnsSound
<1>2. "over" \in Places /\ "none" \in RunStatuses
  BY DEF Places, RunStatuses
<1>3. PICK row \in TurnRows :
         /\ row = EndedRow(turn[t], "over", "none")
         /\ row.at = "over" /\ row.stream = turn[t].stream /\ row.late = "none"
         /\ row.pinned = turn[t].pinned
  BY <1>1, <1>2, RowEnds
<1>4. turn' = [turn EXCEPT ![t] = row]
  BY <1>3 DEF Raises, Ends, EndedRow
<1>5. TurnSound(row, run[t].status)
  BY <1>1, <1>3 DEF TurnSound, Tells, OpenPlaces, CutPlaces
<1> QED
  BY <1>3, <1>4, <1>5, TurnStep

(* A step that only moves one turn, or also says what its stream came to.  *)
LEMMA MoveStep ==
    ASSUME RunInv, NEW t \in Turns, NEW place \in Places, NEW how \in Streams,
           \/ turn' = [turn EXCEPT ![t].at = place, ![t].stream = how]
           \/ turn' = [turn EXCEPT ![t].at = place] /\ how = turn[t].stream,
           how = turn[t].stream \/ turn[t].stream = "open",
           turn[t].late = "none", place # "returned",
           place \in OpenPlaces => how = "open",
           place \in CutPlaces => how = "cut",
           place = "answered" => how = "whole",
           place \in {"answered with an error", "failing"} => how = "broken",
           UNCHANGED <<run, context, sources>>
    PROVE  RunInv'
<1>1. turn[t] \in TurnRows /\ TurnSound(turn[t], run[t].status)
  BY DEF RunInv, RunTypes, TurnsSound
<1>2. PICK row \in TurnRows :
         /\ row = MovedRow(turn[t], place, how)
         /\ row.at = place /\ row.stream = how /\ row.late = turn[t].late
         /\ row.pinned = turn[t].pinned
  BY ONLY <1>1, place \in Places, how \in Streams, PlaceMoves
<1>3. turn' = [turn EXCEPT ![t] = row]
  <2>1. CASE turn' = [turn EXCEPT ![t].at = place, ![t].stream = how]
    BY <1>2, <2>1 DEF MovedRow
  <2>2. CASE turn' = [turn EXCEPT ![t].at = place] /\ how = turn[t].stream
    BY <1>1, <1>2, <2>2, PlaceStays
  <2> QED
    BY <2>1, <2>2
<1>4. TurnSound(row, run[t].status)
  BY <1>1, <1>2 DEF TurnSound, Tells
<1> QED
  BY <1>2, <1>3, <1>4, TurnStep

(* A turn is pinned to the context its message has.                        *)
LEMMA TurnPins ==
    ASSUME RunInv, NEW t \in Turns, NEW pin \in Turns, NEW row \in TurnRows,
           row.at = "ready", row.pinned = pin,
           row.stream = turn[t].stream, row.late = turn[t].late,
           turn' = [turn EXCEPT ![t] = row],
           turn[t].at \in {"idle", "new context"},
           context' \in [Items -> SUBSET Turns],
           \A i \in Items : context'[i] = {} \/ \E c \in Turns : context'[i] = {c},
           \A i \in Items : context[i] \subseteq context'[i],
           pin \in context'[ItemOf[t]],
           UNCHANGED <<run, sources>>
    PROVE  RunInv'
<1>1. RunTypes'
  BY DEF RunInv, RunTypes
<1>2. \A o \in Turns : turn'[o] = IF o = t THEN row ELSE turn[o]
  BY DEF RunInv, RunTypes
<1>3. \A o \in Turns : /\ turn'[o].pinned = IF o = t THEN pin ELSE turn[o].pinned
                       /\ turn'[o].at = IF o = t THEN "ready" ELSE turn[o].at
  <2> SUFFICES ASSUME NEW o \in Turns
               PROVE  /\ turn'[o].pinned = IF o = t THEN pin ELSE turn[o].pinned
                      /\ turn'[o].at = IF o = t THEN "ready" ELSE turn[o].at
    OBVIOUS
  <2>1. CASE o = t
    BY ONLY <1>2, <2>1, o \in Turns, row.pinned = pin, row.at = "ready"
  <2>2. CASE o # t
    BY ONLY <1>2, <2>2, o \in Turns
  <2> QED
    BY <2>1, <2>2
<1>4. ContextSound'
  <2> SUFFICES ASSUME NEW o \in Turns, turn'[o].pinned # NoContext
               PROVE  turn'[o].pinned \in context'[ItemOf[o]]
    BY DEF ContextSound
  <2>1. ItemOf[o] \in Items
    BY RunAssumption
  <2>2. o # t => turn[o].pinned \in context[ItemOf[o]]
    BY <1>3 DEF RunInv, ContextSound
  <2> QED
    BY <1>3, <2>1, <2>2
<1>5. TurnsSound'
  <2>1. TurnSound(turn[t], run[t].status)
    BY DEF RunInv, TurnsSound
  <2>2. TurnSound(row, run[t].status)
    BY <2>1 DEF TurnSound, OpenPlaces, CutPlaces
  <2> QED
    BY <1>2, <2>2 DEF RunInv, TurnsSound
<1>6. SourcesSound'
  BY DEF RunInv, SourcesSound
<1> QED
  BY <1>1, <1>4, <1>5, <1>6 DEF RunInv

LEMMA ContextSteps ==
    ASSUME RunInv, NEW t \in Turns, FindContext(t) \/ Attach(t) \/ FindAttached(t)
    PROVE  RunInv'
<1>1. /\ turn[t].at \in {"idle", "new context"}
      /\ ItemOf[t] \in Items
      /\ context \in [Items -> SUBSET Turns]
      /\ \A i \in Items : context[i] = {} \/ \E c \in Turns : context[i] = {c}
      /\ UNCHANGED <<run, sources>>
  BY RunAssumption DEF FindContext, Attach, FindAttached, TurnAt, RunInv, RunTypes, ContextSound
<1>2. /\ turn[t] \in TurnRows /\ turn[t].stream = "open" /\ turn[t].late = "none"
  BY <1>1 DEF RunInv, RunTypes, TurnsSound, TurnSound, OpenPlaces
<1>3. CASE context[ItemOf[t]] # {} /\ ~Attach(t)
  <2>1. PICK pin \in Turns : pin = CHOOSE c \in context[ItemOf[t]] : TRUE
    BY <1>1, <1>3
  <2>2. pin \in context[ItemOf[t]]
    BY <1>3, <2>1
  <2>3. turn' = [turn EXCEPT ![t].at = "ready", ![t].pinned = pin] /\ UNCHANGED context
    BY <1>3, <2>1 DEF FindContext, FindAttached
  <2>4. turn[t] \in TurnRows
    BY DEF RunInv, RunTypes
  <2>5. PICK row \in TurnRows : /\ row = PinnedRow(turn[t], pin)
                               /\ row.at = "ready" /\ row.pinned = pin
                               /\ row.stream = turn[t].stream /\ row.late = turn[t].late
    BY <2>4, RowIsPinned
  <2>6. turn' = [turn EXCEPT ![t] = row]
    BY <2>3, <2>5 DEF PinnedRow
  <2>7. /\ context' \in [Items -> SUBSET Turns]
        /\ \A i \in Items : context'[i] = {} \/ \E c \in Turns : context'[i] = {c}
        /\ \A i \in Items : context[i] \subseteq context'[i]
        /\ pin \in context'[ItemOf[t]]
    BY <1>1, <2>2, <2>3
  <2> QED
    BY <1>1, <2>5, <2>6, <2>7, TurnPins
<1>4. CASE context[ItemOf[t]] = {} /\ ~Attach(t)
  <2>1. turn' = [turn EXCEPT ![t].at = "new context", ![t].pinned = @] /\ UNCHANGED context
    BY <1>4 DEF FindContext, FindAttached
  <2>2. turn' = [turn EXCEPT ![t].at = "new context"]
    BY <2>1 DEF RunInv, RunTypes, TurnRows
  <2>3. /\ "new context" \in Places /\ "open" \in Streams
        /\ "new context" \notin CutPlaces
    BY DEF Places, OpenPlaces, CutPlaces, Streams
  <2> QED
    BY <1>1, <1>2, <2>1, <2>2, <2>3, MoveStep
<1>5. CASE Attach(t) /\ context[ItemOf[t]] = {}
  <2>1. /\ context' = [context EXCEPT ![ItemOf[t]] = {t}]
        /\ turn' = [turn EXCEPT ![t].at = "ready", ![t].pinned = t]
    BY <1>1, <1>5 DEF Attach, Attached
  <2>2. /\ context' \in [Items -> SUBSET Turns]
        /\ \A i \in Items : context'[i] = {} \/ \E c \in Turns : context'[i] = {c}
        /\ \A i \in Items : context[i] \subseteq context'[i]
        /\ t \in context'[ItemOf[t]]
    BY <1>1, <1>5, <2>1
  <2>3. turn[t] \in TurnRows
    BY DEF RunInv, RunTypes
  <2>4. PICK row \in TurnRows : /\ row = PinnedRow(turn[t], t)
                               /\ row.at = "ready" /\ row.pinned = t
                               /\ row.stream = turn[t].stream /\ row.late = turn[t].late
    BY <2>3, RowIsPinned
  <2>5. turn' = [turn EXCEPT ![t] = row]
    BY <2>1, <2>4 DEF PinnedRow
  <2> QED
    BY <1>1, <2>2, <2>4, <2>5, TurnPins
<1>6. CASE Attach(t) /\ context[ItemOf[t]] # {}
  <2>1. UNCHANGED context /\ Raises(t)
    BY <1>6 DEF Attach
  <2> QED
    BY <1>1, <2>1, RaiseStep
<1> QED
  BY <1>3, <1>4, <1>5, <1>6

(* What a place says of the stream and of a call left behind.              *)
LEMMA PlaceSays ==
    ASSUME RunInv, NEW t \in Turns
    PROVE  /\ turn[t] \in TurnRows /\ run[t] \in RunRows
           /\ TurnSound(turn[t], run[t].status)
           /\ turn[t].at \notin {"over"} => turn[t].late = "none"
           /\ turn[t].at \in OpenPlaces => turn[t].stream = "open"
           /\ turn[t].at \in CutPlaces => turn[t].stream = "cut"
           /\ turn[t].at = "answered" => turn[t].stream = "whole"
           /\ turn[t].at \in {"answered with an error", "failing"} => turn[t].stream = "broken"
BY DEF RunInv, RunTypes, TurnsSound, TurnSound

LEMMA MovingSteps ==
    ASSUME RunInv, NEW t \in Turns, AskToBegin(t) \/ EndStream(t) \/ EndDrain(t)
    PROVE  RunInv'
<1>1. UNCHANGED <<run, context, sources>>
  BY DEF AskToBegin, EndStream, StreamEnds, EndDrain
<1>2. CASE AskToBegin(t)
  <2>1. turn[t].at = "ready" /\ turn' = [turn EXCEPT ![t].at = "beginning"]
    BY <1>2 DEF AskToBegin, TurnAt, TurnGoes
  <2>2. turn[t].stream = "open" /\ turn[t].late = "none"
    BY <2>1, PlaceSays DEF OpenPlaces
  <2>3. "beginning" \in Places /\ "open" \in Streams /\ "beginning" \notin CutPlaces
    BY DEF Places, OpenPlaces, CutPlaces, Streams
  <2> QED
    BY <1>1, <2>1, <2>2, <2>3, MoveStep
<1>3. CASE EndDrain(t)
  <2>1. turn[t].at = "draining" /\ turn' = [turn EXCEPT ![t].at = "cancelling"]
    BY <1>3 DEF EndDrain, TurnAt, TurnGoes
  <2>2. turn[t].stream = "cut" /\ turn[t].late = "none"
    BY <2>1, PlaceSays DEF CutPlaces
  <2>3. "cancelling" \in Places /\ "cut" \in Streams /\ "cancelling" \notin OpenPlaces
    BY DEF Places, OpenPlaces, CutPlaces, Streams
  <2> QED
    BY <1>1, <2>1, <2>2, <2>3, MoveStep
<1>4. CASE EndStream(t)
  <2>1. turn[t].at = "streaming"
    BY <1>4 DEF EndStream, StreamEnds, TurnAt
  <2>2. turn[t].stream = "open" /\ turn[t].late = "none"
    BY <2>1, PlaceSays DEF OpenPlaces
  <2>3. \E place \in {"answered", "answered with an error", "failing"} :
           turn' = [turn EXCEPT ![t].at = place,
                                ![t].stream = IF place = "answered" THEN "whole" ELSE "broken"]
    BY <1>4 DEF EndStream, StreamEnds
  <2>4. PICK place \in {"answered", "answered with an error", "failing"} :
           turn' = [turn EXCEPT ![t].at = place,
                                ![t].stream = IF place = "answered" THEN "whole" ELSE "broken"]
    BY <2>3
  <2>5. PICK how \in Streams : how = IF place = "answered" THEN "whole" ELSE "broken"
    BY DEF Streams
  <2>6. place \in Places /\ place \notin OpenPlaces /\ place \notin CutPlaces
    BY DEF Places, OpenPlaces, CutPlaces
  <2>7. turn' = [turn EXCEPT ![t].at = place, ![t].stream = how]
    BY <2>4, <2>5
  <2> QED
    BY <1>1, <2>2, <2>5, <2>6, <2>7, MoveStep
<1> QED
  BY <1>2, <1>3, <1>4

LEMMA FailingSteps ==
    ASSUME RunInv, NEW t \in Turns, FailToBegin(t) \/ FailToComplete(t)
    PROVE  RunInv'
BY RaiseStep DEF FailToBegin, FailToComplete

(* What complete_run() writes is what the stream came to.                  *)
LEMMA OutcomeTells ==
    ASSUME RunInv, NEW t \in Turns, turn[t].at \in Recording
    PROVE  /\ RunOutcome(t) \in RunStatuses
           /\ Tells(RunOutcome(t), turn[t].stream)
           /\ turn[t].at # "cancelling" => RunOutcome(t) \in {"completed", "failed"}
<1>1. CASE turn[t].at = "answered"
  <2>1. RunOutcome(t) = "completed" /\ turn[t].stream = "whole"
    BY <1>1, PlaceSays DEF RunOutcome, TurnAt
  <2> QED
    BY <2>1 DEF RunStatuses, Tells
<1>2. CASE turn[t].at \in {"answered with an error", "failing"}
  <2>1. RunOutcome(t) = "failed" /\ turn[t].stream = "broken"
    BY <1>2, PlaceSays DEF RunOutcome, TurnAt
  <2> QED
    BY <2>1 DEF RunStatuses, Tells
<1>3. CASE turn[t].at = "cancelling"
  <2>1. RunOutcome(t) = "cancelled" /\ turn[t].stream = "cut"
    BY <1>3, PlaceSays DEF RunOutcome, TurnAt, CutPlaces
  <2> QED
    BY <1>3, <2>1 DEF RunStatuses, Tells
<1> QED
  BY <1>1, <1>2, <1>3 DEF Recording

(* The client leaves, and leaves again.                                    *)
LEMMA LeavingSteps ==
    ASSUME RunInv, NEW t \in Turns, Disconnect(t) \/ CancelAgain(t)
    PROVE  RunInv'
<1>1. UNCHANGED <<run, context, sources>>
  BY DEF Disconnect, CancelAgain
<1>2. /\ turn[t] \in TurnRows /\ TurnSound(turn[t], run[t].status)
  BY PlaceSays
<1>3. CASE Raises(t)
  BY <1>1, <1>3, RaiseStep
<1>4. CASE Disconnect(t) /\ ~Raises(t)
  <2>1. /\ turn[t].at \in {"beginning", "streaming"} \cup Recording
        /\ turn' = [turn EXCEPT ![t].left = TRUE, ![t].at = AfterLeaving(@),
                                ![t].stream = IF @ = "open" THEN "cut" ELSE @]
    BY <1>4 DEF Disconnect
  <2>2. PICK place : place = AfterLeaving(turn[t].at)
    OBVIOUS
  <2>3. PICK how : how = IF turn[t].stream = "open" THEN "cut" ELSE turn[t].stream
    OBVIOUS
  <2>4. /\ turn[t].at = "beginning" => place = "beginning, cancelled"
        /\ turn[t].at = "streaming" => place = "draining"
        /\ turn[t].at \in Recording => place = turn[t].at
    BY <2>2 DEF AfterLeaving, Recording
  <2>5. place \in Places /\ how \in Streams /\ place \notin OpenPlaces /\ place # "returned"
    BY <1>2, <2>1, <2>3, <2>4 DEF Recording, Places, CutPlaces, OpenPlaces, Streams, TurnRows
  <2>6. PICK row : row = [turn[t] EXCEPT !.left = TRUE, !.at = place, !.stream = how]
    OBVIOUS
  <2>7. /\ row \in TurnRows /\ row.at = place /\ row.stream = how
        /\ row.late = turn[t].late /\ row.pinned = turn[t].pinned
    BY <1>2, <2>5, <2>6 DEF TurnRows
  <2>8. turn' = [turn EXCEPT ![t] = row]
    <3>1. turn' = [turn EXCEPT ![t].left = TRUE, ![t].at = place, ![t].stream = how]
      BY <1>2, <2>1, <2>2, <2>3 DEF RunInv, RunTypes, TurnRows
    <3> QED
      BY <2>6, <3>1
  <2>9. TurnSound(row, run[t].status)
    <3>1. turn[t].late = "none"
      BY <2>1, PlaceSays DEF Recording
    <3>2. /\ place \in CutPlaces => how = "cut"
          /\ place = "answered" => how = "whole"
          /\ place \in {"answered with an error", "failing"} => how = "broken"
      BY <2>1, <2>3, <2>4, PlaceSays DEF Recording, OpenPlaces, CutPlaces
    <3>3. Tells(run[t].status, how)
      BY <1>2, <2>3 DEF TurnSound, Tells
    <3> QED
      BY <2>5, <2>7, <3>1, <3>2, <3>3 DEF TurnSound, Tells
  <2> QED
    BY <1>1, <2>7, <2>8, <2>9, TurnStep
<1>5. CASE CancelAgain(t) /\ turn[t].at = "beginning, cancelled" /\ ~Raises(t)
  <2>1. turn' = [turn EXCEPT ![t].at = "beginning, abandoned"]
    BY <1>5 DEF CancelAgain, TurnAt, TurnGoes, Recording
  <2>2. turn[t].stream = "cut" /\ turn[t].late = "none"
    BY <1>5, PlaceSays DEF CutPlaces
  <2>3. /\ "beginning, abandoned" \in Places /\ "cut" \in Streams
        /\ "beginning, abandoned" \notin OpenPlaces
    BY DEF Places, OpenPlaces, CutPlaces, Streams
  <2> QED
    BY <1>1, <2>1, <2>2, <2>3, MoveStep
<1>6. CASE CancelAgain(t) /\ turn[t].at \in Recording
  <2>1. PICK late : late = RunOutcome(t)
    OBVIOUS
  <2>2. Ends(t, "over", late)
    BY <1>6, <2>1 DEF CancelAgain, TurnAt, Recording
  <2>3. late \in RunStatuses /\ Tells(late, turn[t].stream)
    BY <1>6, <2>1, OutcomeTells
  <2>4. "over" \in Places
    BY DEF Places
  <2>5. PICK row \in TurnRows :
           /\ row = EndedRow(turn[t], "over", late)
           /\ row.at = "over" /\ row.stream = turn[t].stream /\ row.late = late
           /\ row.pinned = turn[t].pinned
    BY <1>2, <2>3, <2>4, RowEnds
  <2>6. turn' = [turn EXCEPT ![t] = row]
    BY <2>2, <2>5 DEF Ends, EndedRow
  <2>7. TurnSound(row, run[t].status)
    BY <1>2, <2>3, <2>5 DEF TurnSound, OpenPlaces, CutPlaces
  <2> QED
    BY <1>1, <2>5, <2>6, <2>7, TurnStep
<1> QED
  BY <1>3, <1>4, <1>5, <1>6 DEF CancelAgain, TurnAt

(* A tool is called, ends, or asks for an effect, which ends the turn of   *)
(* the model if its stream is still open.                                  *)
LEMMA ToolSteps ==
    ASSUME RunInv, NEW t \in Turns, CallTool(t) \/ EndTool(t) \/ RequestEffect(t)
    PROVE  RunInv'
<1>1. UNCHANGED <<run, context, sources>>
  BY DEF CallTool, EndTool, RequestEffect
<1>2. turn[t] \in TurnRows /\ TurnSound(turn[t], run[t].status)
  BY PlaceSays
<1>3. CASE CallTool(t)
  <2>a. PICK n \in Nat : n = turn[t].calls + 1
    BY <1>2 DEF TurnRows
  <2>b. PICK asked \in BOOLEAN : asked = ~run[t].stopped
    OBVIOUS
  <2>2. PICK row : row = [turn[t] EXCEPT !.inTool = asked, !.calls = n]
    OBVIOUS
  <2>3. /\ row \in TurnRows /\ row.at = turn[t].at /\ row.stream = turn[t].stream
        /\ row.late = turn[t].late /\ row.pinned = turn[t].pinned
    BY <1>2, <2>2 DEF TurnRows
  <2>4. turn' = [turn EXCEPT ![t] = row]
    BY <1>3, <2>a, <2>b, <2>2 DEF CallTool
  <2>5. TurnSound(row, run[t].status)
    BY <1>2, <2>3 DEF TurnSound
  <2> QED
    BY <1>1, <2>3, <2>4, <2>5, TurnStep
<1>4. CASE EndTool(t)
  <2>1. PICK row : row = [turn[t] EXCEPT !.inTool = FALSE]
    OBVIOUS
  <2>2. /\ row \in TurnRows /\ row.at = turn[t].at /\ row.stream = turn[t].stream
        /\ row.late = turn[t].late /\ row.pinned = turn[t].pinned
    BY <1>2, <2>1 DEF TurnRows
  <2>3. turn' = [turn EXCEPT ![t] = row]
    BY <1>4, <2>1 DEF EndTool
  <2>4. TurnSound(row, run[t].status)
    BY <1>2, <2>2 DEF TurnSound
  <2> QED
    BY <1>1, <2>2, <2>3, <2>4, TurnStep
<1>5. CASE RequestEffect(t)
  <2>1. PICK place : place = IF turn[t].at = "streaming" THEN "answered" ELSE turn[t].at
    OBVIOUS
  <2>2. PICK how : how = IF turn[t].at = "streaming" THEN "whole" ELSE turn[t].stream
    OBVIOUS
  <2>3. place \in Places /\ how \in Streams
    BY <1>2, <2>1, <2>2 DEF Places, Streams, TurnRows
  <2>4. PICK row : row = [turn[t] EXCEPT !.inTool = FALSE, !.at = place, !.stream = how]
    OBVIOUS
  <2>5. /\ row \in TurnRows /\ row.at = place /\ row.stream = how
        /\ row.late = turn[t].late /\ row.pinned = turn[t].pinned
    BY <1>2, <2>3, <2>4 DEF TurnRows
  <2>6. turn' = [turn EXCEPT ![t] = row]
    <3>1. turn' = [turn EXCEPT ![t].inTool = FALSE, ![t].at = place, ![t].stream = how]
      BY <1>2, <1>5, <2>1, <2>2 DEF RequestEffect, TurnAt, RunInv, RunTypes, TurnRows
    <3> QED
      BY <2>4, <3>1
  <2>7. TurnSound(row, run[t].status)
    <3>1. CASE turn[t].at = "streaming"
      <4>1. turn[t].stream = "open" /\ turn[t].late = "none"
        BY <3>1, PlaceSays DEF OpenPlaces
      <4>2. place = "answered" /\ how = "whole"
        BY <2>1, <2>2, <3>1
      <4> QED
        BY <1>2, <2>5, <4>1, <4>2 DEF TurnSound, Tells, OpenPlaces, CutPlaces
    <3>2. CASE turn[t].at # "streaming"
      BY <1>2, <2>1, <2>2, <2>5, <3>2 DEF TurnSound
    <3> QED
      BY <3>1, <3>2
  <2> QED
    BY <1>1, <2>5, <2>6, <2>7, TurnStep
<1> QED
  BY <1>3, <1>4, <1>5

(* The row of a run begins and ends.                                       *)
LEMMA RowSteps ==
    ASSUME RunInv, NEW t \in Turns, BeginRun(t) \/ CompleteRun(t) \/ CompleteLate(t)
    PROVE  RunInv'
<1>1. UNCHANGED <<context, sources>>
  BY DEF BeginRun, CompleteRun, CompleteLate
<1>2. /\ turn[t] \in TurnRows /\ run[t] \in RunRows /\ TurnSound(turn[t], run[t].status)
  BY PlaceSays
<1>3. ASSUME NEW status \in RunStatuses, run' = [run EXCEPT ![t].status = status]
      PROVE  \E mark \in RunRows : /\ run' = [run EXCEPT ![t] = mark]
                                   /\ mark.status = status
                                   /\ mark.truncated = run[t].truncated
  <2>1. PICK mark : mark = [run[t] EXCEPT !.status = status]
    OBVIOUS
  <2>2. mark \in RunRows /\ mark.status = status /\ mark.truncated = run[t].truncated
    BY <1>2, <2>1 DEF RunRows
  <2> QED
    BY <1>3, <2>1, <2>2
<1>4. ASSUME NEW row \in TurnRows, NEW status \in RunStatuses,
             turn' = [turn EXCEPT ![t] = row], run' = [run EXCEPT ![t].status = status],
             row.pinned = turn[t].pinned, TurnSound(row, status)
      PROVE  RunInv'
  <2>1. PICK mark \in RunRows : /\ run' = [run EXCEPT ![t] = mark]
                                /\ mark.status = status
                                /\ mark.truncated = run[t].truncated
    BY <1>3, <1>4
  <2> QED
    BY <1>1, <1>4, <2>1, RowStep
<1>5. "running" \in RunStatuses /\ "none" \in RunStatuses
  BY DEF RunStatuses
<1>6. CASE BeginRun(t)
  <2>1. run' = [run EXCEPT ![t].status = "running"]
    BY <1>6 DEF BeginRun, RunInserted
  <2>2. ASSUME NEW place \in Places, turn' = [turn EXCEPT ![t].at = place],
               turn[t].late = "none", place # "returned",
               place \in OpenPlaces => turn[t].stream = "open",
               place \in CutPlaces => turn[t].stream = "cut",
               place \notin {"answered", "answered with an error", "failing"}
        PROVE  RunInv'
    <3>1. turn[t].stream \in Streams
      BY <1>2 DEF TurnRows
    <3>2. PICK row \in TurnRows :
             /\ row = MovedRow(turn[t], place, turn[t].stream)
             /\ row.at = place /\ row.stream = turn[t].stream /\ row.late = turn[t].late
             /\ row.pinned = turn[t].pinned
      BY <1>2, <3>1, PlaceMoves
    <3>3. TurnSound(row, "running")
      BY <2>2, <3>2 DEF TurnSound, Tells
    <3>4. turn' = [turn EXCEPT ![t] = row]
      BY <1>2, <2>2, <3>2, PlaceStays
    <3> QED
      BY <1>4, <1>5, <2>1, <3>2, <3>3, <3>4
  <2>3. CASE turn[t].at = "beginning" /\ turn' = [turn EXCEPT ![t].at = "streaming"]
    <3>1. turn[t].stream = "open" /\ turn[t].late = "none"
      BY <2>3, PlaceSays DEF OpenPlaces
    <3>2. "streaming" \in Places /\ "streaming" \notin CutPlaces
      BY DEF Places, OpenPlaces, CutPlaces
    <3> QED
      BY <2>2, <2>3, <3>1, <3>2
  <2>4. CASE turn[t].at = "beginning, cancelled" /\ turn' = [turn EXCEPT ![t].at = "cancelling"]
    <3>1. turn[t].stream = "cut" /\ turn[t].late = "none"
      BY <2>4, PlaceSays DEF CutPlaces
    <3>2. "cancelling" \in Places /\ "cancelling" \notin OpenPlaces
      BY DEF Places, OpenPlaces, CutPlaces
    <3> QED
      BY <2>2, <2>4, <3>1, <3>2
  <2>5. CASE Raises(t)
    <3>1. "over" \in Places
      BY DEF Places
    <3>2. PICK row \in TurnRows :
             /\ row = EndedRow(turn[t], "over", "none")
             /\ row.at = "over" /\ row.stream = turn[t].stream /\ row.late = "none"
             /\ row.pinned = turn[t].pinned
      BY <1>2, <1>5, <3>1, RowEnds
    <3>3. turn' = [turn EXCEPT ![t] = row]
      BY <2>5, <3>2 DEF Raises, Ends, EndedRow
    <3>4. TurnSound(row, "running")
      BY <3>2 DEF TurnSound, Tells, OpenPlaces, CutPlaces
    <3> QED
      BY <1>4, <1>5, <2>1, <3>2, <3>3, <3>4
  <2> QED
    BY <1>6, <2>3, <2>4, <2>5 DEF BeginRun, TurnAt, TurnGoes
<1>7. CASE CompleteRun(t)
  <2>1. PICK status : status = RunOutcome(t)
    OBVIOUS
  <2>2. /\ status \in RunStatuses /\ Tells(status, turn[t].stream)
        /\ turn[t].at # "cancelling" => status \in {"completed", "failed"}
    BY <1>7, <2>1, OutcomeTells DEF CompleteRun
  <2>3. run' = [run EXCEPT ![t].status = status]
    BY <1>7, <2>1 DEF CompleteRun
  <2>4. PICK place \in {"over", "returned"} :
           /\ Ends(t, place, "none")
           /\ place = "returned" => turn[t].at # "cancelling"
    BY <1>7 DEF CompleteRun, Raises
  <2>5. place = "returned" => status \in {"completed", "failed"}
    BY <2>2, <2>4
  <2>6. place \in Places
    BY DEF Places
  <2>7. PICK row \in TurnRows :
           /\ row = EndedRow(turn[t], place, "none")
           /\ row.at = place /\ row.stream = turn[t].stream /\ row.late = "none"
           /\ row.pinned = turn[t].pinned
    BY <1>2, <1>5, <2>6, RowEnds
  <2>8. turn' = [turn EXCEPT ![t] = row]
    BY <2>4, <2>7 DEF Ends, EndedRow
  <2>9. TurnSound(row, status)
    BY <2>2, <2>5, <2>7 DEF TurnSound, Tells, OpenPlaces, CutPlaces
  <2> QED
    BY <1>4, <2>2, <2>3, <2>7, <2>8, <2>9
<1>8. CASE CompleteLate(t)
  <2>1. PICK status \in RunStatuses : status = turn[t].late
    BY <1>2 DEF TurnRows
  <2>2. /\ turn[t].at = "over" /\ Tells(status, turn[t].stream)
        /\ run' = [run EXCEPT ![t].status = status]
    BY <1>2, <1>8, <2>1 DEF CompleteLate, TurnSound
  <2>3. PICK row : row = [turn[t] EXCEPT !.late = "none"]
    OBVIOUS
  <2>4. /\ row \in TurnRows /\ row.at = turn[t].at /\ row.stream = turn[t].stream
        /\ row.late = "none" /\ row.pinned = turn[t].pinned
    BY <1>2, <1>5, <2>3 DEF TurnRows
  <2>5. turn' = [turn EXCEPT ![t] = row]
    BY <1>8, <2>3 DEF CompleteLate
  <2>6. TurnSound(row, status)
    BY <2>2, <2>4 DEF TurnSound, Tells, OpenPlaces, CutPlaces
  <2> QED
    BY <1>4, <2>2, <2>4, <2>5, <2>6
<1> QED
  BY <1>6, <1>7, <1>8

(* The process stops.                                                      *)
LEMMA ProcessStops ==
    ASSUME RunInv, NEW t \in Turns, Stop(t)
    PROVE  RunInv'
<1>1. turn[t] \in TurnRows /\ TurnSound(turn[t], run[t].status)
  BY PlaceSays
<1>2. PICK place \in Places : place = IF TurnAt(t, "returned") THEN "returned" ELSE "over"
  BY DEF Places
<1>3. PICK row : row = [NoTurn EXCEPT !.at = place, !.pinned = turn[t].pinned,
                                     !.stream = turn[t].stream]
  OBVIOUS
<1>4. /\ row \in TurnRows /\ row.at = place /\ row.stream = turn[t].stream
      /\ row.late = "none" /\ row.pinned = turn[t].pinned
  BY <1>1, <1>3 DEF NoTurn, TurnRows, RunStatuses
<1>5. turn' = [turn EXCEPT ![t] = row] /\ UNCHANGED <<run, context, sources>>
  BY <1>2, <1>3 DEF Stop
<1>6. TurnSound(row, run[t].status)
  BY <1>1, <1>2, <1>4 DEF TurnSound, Tells, TurnAt, OpenPlaces, CutPlaces
<1> QED
  BY <1>4, <1>5, <1>6, TurnStep

LEMMA StopSteps ==
    ASSUME RunInv, NEW t \in Turns, CancelRun(t)
    PROVE  RunInv'
<1>1. run' = [run EXCEPT ![t].stopped = TRUE] /\ UNCHANGED <<turn, context, sources>>
  BY DEF CancelRun
<1>2. RunTypes'
  <2>1. PICK row \in RunRows : row = [run[t] EXCEPT !.stopped = TRUE]
    BY DEF RunInv, RunTypes, RunRows
  <2>2. run' = [run EXCEPT ![t] = row]
    BY <1>1, <2>1
  <2> QED
    BY <1>1, <2>2 DEF RunInv, RunTypes
<1>3. \A o \in Turns : /\ run'[o].status = run[o].status
                       /\ run'[o].truncated = run[o].truncated
  BY <1>1 DEF RunInv, RunTypes, RunRows
<1>4. ContextSound' /\ TurnsSound' /\ SourcesSound'
  BY <1>1, <1>3 DEF RunInv, ContextSound, TurnsSound, SourcesSound
<1> QED
  BY <1>2, <1>4 DEF RunInv

(* What is recorded grows only below the bound, and what is dropped leaves *)
(* the mark.                                                               *)
LEMMA SourceSteps ==
    ASSUME RunInv, NEW t \in Turns, NEW d \in Documents, RecordSource(t, d)
    PROVE  RunInv'
<1> DEFINE old == sources[t].recorded
           full == Cardinality(old) >= MaxSources
<1>1. UNCHANGED <<turn, context>>
  BY DEF RecordSource
<1>2. PICK marked \in BOOLEAN :
         marked = (run[t].truncated \/ (full /\ d \notin old))
  OBVIOUS
<1>3. PICK now \in SUBSET Documents : now = IF full THEN old ELSE old \cup {d}
  BY DEF RunInv, RunTypes, SourceRows
<1>4. run' = [run EXCEPT ![t].truncated = marked]
  BY <1>2 DEF RecordSource
<1>5. sources' = [sources EXCEPT ![t].read = sources[t].read \cup {d}, ![t].recorded = now]
  BY <1>3 DEF RecordSource, Reads
<1>6. RunTypes'
  <2>1. PICK read \in SUBSET Documents : read = sources[t].read \cup {d}
    BY DEF RunInv, RunTypes, SourceRows
  <2>2. PICK row \in SourceRows : row = [sources[t] EXCEPT !.read = read, !.recorded = now]
    BY DEF RunInv, RunTypes, SourceRows
  <2>3. sources' = [sources EXCEPT ![t] = row]
    BY <1>5, <2>1, <2>2
  <2>4. PICK marks \in RunRows : marks = [run[t] EXCEPT !.truncated = marked]
    BY DEF RunInv, RunTypes, RunRows
  <2>5. run' = [run EXCEPT ![t] = marks]
    BY <1>4, <2>4
  <2> QED
    BY <1>1, <2>3, <2>5 DEF RunInv, RunTypes
<1>7. \A o \in Turns :
         /\ run'[o].status = run[o].status
         /\ run'[o].truncated = IF o = t THEN marked ELSE run[o].truncated
  BY <1>4 DEF RunInv, RunTypes, RunRows
<1>8. /\ sources'[t].recorded = now /\ sources'[t].read = sources[t].read \cup {d}
      /\ \A o \in Turns : o # t => sources'[o] = sources[o]
  BY <1>5 DEF RunInv, RunTypes, SourceRows
<1>9. ContextSound'
  BY <1>1 DEF RunInv, ContextSound
<1>10. TurnsSound'
  BY <1>1, <1>7 DEF RunInv, TurnsSound
<1>11. /\ IsFiniteSet(now) /\ Cardinality(now) <= MaxSources
       /\ ~marked => now = sources[t].read \cup {d}
  <2>1. /\ IsFiniteSet(old) /\ Cardinality(old) <= MaxSources
        /\ ~run[t].truncated => old = sources[t].read
    BY DEF RunInv, SourcesSound
  <2>2. Cardinality(old) \in Nat /\ MaxSources \in Nat
    BY <2>1, FS_CardinalityType, RunAssumption
  <2>3. CASE full
    <3>1. now = old
      BY <1>3, <2>3
    <3>2. ~marked => ~run[t].truncated /\ d \in old
      BY <1>2, <2>3
    <3> HIDE DEF old, full
    <3> QED
      BY <2>1, <3>1, <3>2
  <2>4. CASE ~full
    <3>1. IsFiniteSet(old \cup {d}) /\ Cardinality(old \cup {d}) <= Cardinality(old) + 1
      <4>1. Cardinality(old \cup {d}) = IF d \in old THEN Cardinality(old)
                                        ELSE Cardinality(old) + 1
        BY <2>1, FS_AddElement
      <4> QED
        BY <2>1, <2>2, <4>1, FS_AddElement
    <3>2. Cardinality(old) < MaxSources
      BY <2>2, <2>4
    <3>3. Cardinality(old \cup {d}) \in Nat
      BY <3>1, FS_CardinalityType
    <3>4. now = old \cup {d} /\ (marked => run[t].truncated) /\ (run[t].truncated => marked)
      BY <1>2, <1>3, <2>4
    <3>5. Cardinality(now) <= MaxSources
      <4> HIDE DEF old
      <4> QED
        BY <2>2, <3>1, <3>2, <3>3, <3>4
    <3>6. ~marked => now = sources[t].read \cup {d}
      BY <2>1, <3>4
    <3> QED
      BY <3>1, <3>4, <3>5, <3>6
  <2> QED
    BY <2>3, <2>4
<1>12. SourcesSound'
  BY <1>7, <1>8, <1>11 DEF RunInv, SourcesSound
<1> QED
  BY <1>6, <1>9, <1>10, <1>12 DEF RunInv

(* For any turns, messages and bounds, whatever is refused, fails or is    *)
(* cancelled on the way: the turns of a message share one context; a row   *)
(* that says how its run ended says what became of the stream, also when   *)
(* it is written after respond() is over, and respond() returns without an *)
(* error only when it was written; and a run without the mark has recorded *)
(* every source it read.                                                   *)
THEOREM RunsStayHonest == RunSpec => []RunsAreHonest
<1>1. RunInv => RunsAreHonest
  <2> SUFFICES ASSUME RunInv PROVE RunsAreHonest
    OBVIOUS
  <2>1. \A i \in Items : Cardinality(context[i]) <= 1
    <3> SUFFICES ASSUME NEW i \in Items PROVE Cardinality(context[i]) <= 1
      OBVIOUS
    <3>1. context[i] = {} \/ \E c \in Turns : context[i] = {c}
      BY DEF RunInv, ContextSound
    <3>2. CASE context[i] = {}
      BY <3>2, FS_EmptySet
    <3>3. ASSUME NEW c, context[i] = {c} PROVE Cardinality(context[i]) <= 1
      <4>1. Cardinality({c}) = 1
        BY FS_Singleton
      <4> QED
        BY <3>3, <4>1
    <3> QED
      BY <3>1, <3>2, <3>3
  <2>2. OneContextPerItem
    BY <2>1 DEF OneContextPerItem, RunInv, ContextSound
  <2>3. RowTellsTheStream
    BY DEF RowTellsTheStream, TurnAt, RunInv, TurnsSound, TurnSound
  <2>4. EvidenceIsHonest
    BY DEF EvidenceIsHonest, RunInv, SourcesSound
  <2> QED
    BY <2>2, <2>3, <2>4 DEF RunsAreHonest
<1>2. RunInit => RunInv
  BY RunInitially
<1>3. RunInv /\ [RunNext]_runVars => RunInv'
  <2> SUFFICES ASSUME RunInv, [RunNext]_runVars PROVE RunInv'
    OBVIOUS
  <2>1. CASE UNCHANGED runVars
    BY <2>1 DEF runVars, RunInv, RunTypes, ContextSound, TurnsSound, SourcesSound
  <2>2. CASE RunNext
    BY <2>2, ContextSteps, MovingSteps, FailingSteps, LeavingSteps, ToolSteps, RowSteps,
       ProcessStops, StopSteps, SourceSteps DEF RunNext
  <2> QED
    BY <2>1, <2>2
<1> QED
  BY <1>1, <1>2, <1>3, PTL DEF RunSpec

-----------------------------------------------------------------------------
(* Projects                                                                *)

DocumentRefs == ProjectDocuments \cup {Null}
LayoutRows == [saved : BOOLEAN, tabs : SUBSET ProjectDocuments, selected : DocumentRefs]
ProjectRows == [version : Nat, brief : DocumentRefs, active : DocumentRefs,
                thread : Threads \cup {Null}, layout : LayoutRows]
MemberRoles == Roles \cup {"note", Null}

ProjectTypes ==
    /\ project \in ProjectRows
    /\ role \in [ProjectDocuments -> MemberRoles]
    /\ attached \subseteq Threads
    /\ threads \subseteq Threads

(* The passages went with their project.                                   *)
ProjectInv ==
    /\ ProjectTypes /\ ReferencesAreMembers
    /\ ~ProjectExists => collected = {}

(* What a row refers to, given the members and what is attached.           *)
RowSound(row, members, talks) ==
    /\ row.brief \in members \cup {Null}
    /\ row.active \in members \cup {Null}
    /\ row.active # Null => row.active # row.brief
    /\ row.thread \in talks \cup {Null}

LEMMA ReferencesAreSound ==
    ReferencesAreMembers <=> RowSound(project, Members, attached) /\ collected \subseteq Members
BY DEF ReferencesAreMembers, RowSound

LEMMA TouchedRow ==
    ASSUME project \in ProjectRows
    PROVE  /\ Touched \in ProjectRows /\ Touched.version > 0
           /\ Touched.brief = project.brief /\ Touched.active = project.active
           /\ Touched.thread = project.thread
BY DEF Touched, ProjectRows

LEMMA RowWithActive ==
    ASSUME NEW row \in ProjectRows, NEW ref \in DocumentRefs
    PROVE  /\ [row EXCEPT !.active = ref] \in ProjectRows
           /\ [row EXCEPT !.active = ref].active = ref
           /\ [row EXCEPT !.active = ref].version = row.version
           /\ [row EXCEPT !.active = ref].brief = row.brief
           /\ [row EXCEPT !.active = ref].thread = row.thread
BY DEF ProjectRows

LEMMA RowWithBrief ==
    ASSUME NEW row \in ProjectRows, NEW ref \in DocumentRefs
    PROVE  /\ [row EXCEPT !.brief = ref] \in ProjectRows
           /\ [row EXCEPT !.brief = ref].active = row.active
           /\ [row EXCEPT !.brief = ref].version = row.version
           /\ [row EXCEPT !.brief = ref].brief = ref
           /\ [row EXCEPT !.brief = ref].thread = row.thread
BY DEF ProjectRows

LEMMA RowWithThread ==
    ASSUME NEW row \in ProjectRows, NEW ref \in Threads \cup {Null}
    PROVE  /\ [row EXCEPT !.thread = ref] \in ProjectRows
           /\ [row EXCEPT !.thread = ref].active = row.active
           /\ [row EXCEPT !.thread = ref].version = row.version
           /\ [row EXCEPT !.thread = ref].brief = row.brief
           /\ [row EXCEPT !.thread = ref].thread = ref
BY DEF ProjectRows

(* A step keeps the invariant when the row it leaves is sound.             *)
LEMMA SoundStep ==
    ASSUME project' \in ProjectRows, role' \in [ProjectDocuments -> MemberRoles],
           attached' \subseteq Threads, threads' \subseteq Threads,
           RowSound(project', Members', attached'), collected' \subseteq Members',
           project'.version > 0 \/ collected' = {}
    PROVE  ProjectInv'
BY DEF ProjectInv, ProjectExists, ProjectTypes, ReferencesAreMembers, RowSound

LEMMA ProjectInitially == ProjectInit => ProjectInv
<1> SUFFICES ASSUME ProjectInit PROVE ProjectInv
  OBVIOUS
<1>1. NoLayout \in LayoutRows
  BY DEF NoLayout, LayoutRows, DocumentRefs
<1>2. NoProject \in ProjectRows
  BY <1>1 DEF NoProject, ProjectRows, DocumentRefs
<1>3. /\ NoProject.brief = Null
      /\ NoProject.active = Null
      /\ NoProject.thread = Null
  BY DEF NoProject
<1>4. ProjectTypes
  BY <1>2 DEF ProjectInit, ProjectTypes, MemberRoles
<1>5. ReferencesAreMembers
  BY <1>3 DEF ProjectInit, ReferencesAreMembers
<1> QED
  BY <1>4, <1>5 DEF ProjectInit, ProjectInv

LEMMA CreateKeepsProject ==
    ASSUME ProjectInv, NEW brief \in DocumentRefs, CreateProject(brief)
    PROVE  ProjectInv'
<1>1. NoLayout \in LayoutRows
  BY DEF NoLayout, LayoutRows, DocumentRefs
<1>2. /\ project' \in ProjectRows
      /\ project'.brief = brief /\ project'.active = Null /\ project'.thread = Null
  BY <1>1 DEF CreateProject, NoProject, ProjectRows, DocumentRefs
<1>3. role' \in [ProjectDocuments -> MemberRoles]
  BY DEF CreateProject, MemberRoles
<1>4. brief # Null => brief \in Members'
  BY ProjectAssumption DEF CreateProject, Members, DocumentRefs
<1>5. collected' = {}
  BY DEF CreateProject, ProjectInv
<1> QED
  BY <1>2, <1>3, <1>4, <1>5, SoundStep DEF RowSound, CreateProject, ProjectInv, ProjectTypes

LEMMA DeleteKeepsProject ==
    ASSUME ProjectInv, DeleteProject
    PROVE  ProjectInv'
<1>1. NoLayout \in LayoutRows
  BY DEF NoLayout, LayoutRows, DocumentRefs
<1>2. /\ project' \in ProjectRows
      /\ project'.brief = Null /\ project'.active = Null /\ project'.thread = Null
  BY <1>1 DEF DeleteProject, NoProject, ProjectRows, DocumentRefs
<1>3. /\ role' \in [ProjectDocuments -> MemberRoles]
      /\ attached' = {} /\ collected' = {} /\ threads' \subseteq Threads
  BY DEF DeleteProject, MemberRoles, ProjectInv, ProjectTypes
<1> QED
  BY <1>2, <1>3, SoundStep DEF RowSound

(* An update: the brief it names becomes a member, the draft it leaves is  *)
(* one, and the conversation is attached.                                  *)
LEMMA UpdateKeepsProject ==
    ASSUME ProjectInv, NEW brief \in DocumentRefs \cup {Keep},
           NEW active \in DocumentRefs \cup {Keep},
           NEW thread \in Threads \cup {Null, Keep},
           NEW layout \in AskedLayouts \cup {Keep, NoLayout},
           UpdateProject(brief, active, thread, layout)
    PROVE  ProjectInv'
<1>1. PICK chosen : chosen = NextActive(brief, active)
  OBVIOUS
<1>2. /\ project \in ProjectRows /\ project.brief \in DocumentRefs
      /\ project.active \in DocumentRefs /\ project.thread \in Threads \cup {Null}
      /\ project.layout \in LayoutRows /\ project.version \in Nat
      /\ role \in [ProjectDocuments -> MemberRoles]
  BY DEF ProjectInv, ProjectTypes, ProjectRows
<1>3. /\ role' \in [ProjectDocuments -> MemberRoles]
      /\ Members \subseteq Members'
      /\ role' = RolesWith(brief)
  BY <1>2 DEF UpdateProject, RolesWith, Members, MemberRoles
<1>4. PICK named \in DocumentRefs : named = Asked(brief, project.brief)
  BY <1>2 DEF Asked
<1>5. named # Null => named \in Members'
  <2>1. CASE brief = Keep
    BY <1>3, <1>4, <2>1 DEF Asked, ProjectInv, ReferencesAreMembers
  <2>2. CASE brief # Keep
    <3>1. named = brief
      BY <1>4, <2>2 DEF Asked
    <3>2. ASSUME brief \in ProjectDocuments PROVE role'[brief] # Null
      BY <1>3, <3>2, ProjectAssumption DEF RolesWith
    <3> QED
      BY <3>1, <3>2 DEF Members, DocumentRefs
  <2> QED
    BY <2>1, <2>2
<1>6. /\ chosen # Null => chosen \in Members' /\ chosen # named
      /\ chosen \in DocumentRefs
  BY <1>1, <1>3, <1>4, ProjectAssumption
  DEF UpdateProject, MayBeActive, LiveDraft, LiveDocuments, Members, DocumentRefs
<1>7. PICK talk \in Threads \cup {Null} : talk = Asked(thread, project.thread)
  BY <1>2 DEF Asked
<1>8. talk \in attached \cup {Null}
  BY <1>7 DEF Asked, UpdateProject, ProjectInv, ReferencesAreMembers
<1>9. PICK tabs \in LayoutRows : tabs = NextLayout(active, layout, chosen)
  <2>1. CASE layout # Keep
    <3>1. NoLayout \in LayoutRows
      BY DEF NoLayout, LayoutRows, DocumentRefs
    <3>2. ASSUME layout \in AskedLayouts PROVE layout \in LayoutRows
      <4>1. PICK open \in SUBSET ProjectDocuments, selected \in DocumentRefs :
               layout = [saved |-> TRUE, tabs |-> open, selected |-> selected]
        BY <3>2 DEF AskedLayouts, Layouts, DocumentRefs
      <4> QED
        BY <4>1 DEF LayoutRows
    <3> QED
      BY <2>1, <3>1, <3>2 DEF NextLayout
  <2>2. CASE layout = Keep /\ active # Keep /\ chosen # Null /\ project.layout.saved
    <3>1. PICK open \in SUBSET ProjectDocuments : open = project.layout.tabs \cup {chosen}
      BY <1>2, <1>6, <2>2 DEF LayoutRows, DocumentRefs
    <3>2. [project.layout EXCEPT !.tabs = open, !.selected = chosen] \in LayoutRows
      BY <1>2, <1>6 DEF LayoutRows
    <3> QED
      BY <2>2, <3>1, <3>2 DEF NextLayout
  <2> QED
    BY <1>2, <2>1, <2>2 DEF NextLayout
<1>10. project' = [version |-> project.version + 1, brief |-> named, active |-> chosen,
                   thread |-> talk, layout |-> tabs]
  BY <1>1, <1>4, <1>7, <1>9 DEF UpdateProject
<1>11. /\ project' \in ProjectRows /\ project'.version > 0
       /\ project'.brief = named /\ project'.active = chosen /\ project'.thread = talk
  BY <1>2, <1>6, <1>10 DEF ProjectRows
<1>12. /\ attached' = attached /\ collected' = collected /\ threads' = threads
       /\ attached \subseteq Threads /\ threads \subseteq Threads
       /\ collected \subseteq Members
  BY DEF UpdateProject, ProjectInv, ProjectTypes, ReferencesAreMembers
<1> QED
  BY <1>3, <1>5, <1>6, <1>8, <1>11, <1>12, SoundStep DEF RowSound

(* The steps on members.                                                   *)
LEMMA MemberSteps ==
    ASSUME ProjectInv, NEW d \in ProjectDocuments,
           RemoveDocument(d) \/ \E r \in Roles : AddDocument(d, r) \/ ChangeRole(d, r)
    PROVE  ProjectInv'
<1>1. /\ project \in ProjectRows /\ project.active \in DocumentRefs
      /\ project.brief \in DocumentRefs
      /\ role \in [ProjectDocuments -> MemberRoles]
      /\ RowSound(project, Members, attached) /\ collected \subseteq Members
  BY ReferencesAreSound DEF ProjectInv, ProjectTypes, ProjectRows
<1>2. PICK touched \in ProjectRows :
         /\ touched = Touched /\ touched.version > 0
         /\ touched.brief = project.brief /\ touched.active = project.active
         /\ touched.thread = project.thread
  BY <1>1, TouchedRow
<1>3. /\ attached' = attached /\ threads' = threads
      /\ attached \subseteq Threads /\ threads \subseteq Threads
  BY DEF AddDocument, ChangeRole, RemoveDocument, ProjectInv, ProjectTypes
<1>4. /\ d \in DocumentRefs /\ Null \in DocumentRefs /\ d # Null
      /\ \A r \in Roles : r # Null
  BY ProjectAssumption DEF DocumentRefs
<1>5. role' \in [ProjectDocuments -> MemberRoles]
  BY <1>1 DEF AddDocument, ChangeRole, RemoveDocument, MemberRoles
<1>6. ASSUME NEW r \in Roles, AddDocument(d, r) PROVE ProjectInv'
  <2>1. Members' = Members \cup {d}
    BY <1>1, <1>4, <1>6 DEF AddDocument, Members
  <2>2. PICK ref \in DocumentRefs :
           /\ ref = IF r = "draft" /\ project.active = Null /\ d # project.brief THEN d
                   ELSE project.active
    BY <1>1, <1>4
  <2>3. /\ project' \in ProjectRows /\ project'.version > 0
        /\ project'.brief = project.brief /\ project'.active = ref
        /\ project'.thread = project.thread
    <3>1. CASE r = "draft" /\ project.active = Null /\ d # project.brief
      BY <1>2, <1>4, <1>6, <2>2, <3>1, RowWithActive DEF AddDocument
    <3>2. CASE ~(r = "draft" /\ project.active = Null /\ d # project.brief)
      BY <1>2, <1>6, <2>2, <3>2 DEF AddDocument
    <3> QED
      BY <3>1, <3>2
  <2>4. RowSound(project', Members', attached')
    BY <1>1, <1>3, <2>1, <2>2, <2>3 DEF RowSound
  <2>5. collected' \subseteq Members'
    BY <1>1, <1>6, <2>1 DEF AddDocument
  <2> QED
    BY <1>3, <1>5, <2>3, <2>4, <2>5, SoundStep
<1>7. ASSUME NEW r \in Roles, ChangeRole(d, r) PROVE ProjectInv'
  <2>1. Members' = Members
    BY <1>1, <1>4, <1>7 DEF ChangeRole, Members, ShownDocuments
  <2>2. PICK ref \in DocumentRefs :
           ref = IF r # "draft" /\ project.active = d THEN Null ELSE project.active
    BY <1>1, <1>4
  <2>3. /\ project' \in ProjectRows /\ project'.version > 0
        /\ project'.brief = project.brief /\ project'.active = ref
        /\ project'.thread = project.thread
    <3>1. CASE r # "draft" /\ project.active = d
      BY <1>2, <1>4, <1>7, <2>2, <3>1, RowWithActive DEF ChangeRole
    <3>2. CASE ~(r # "draft" /\ project.active = d)
      BY <1>2, <1>7, <2>2, <3>2 DEF ChangeRole
    <3> QED
      BY <3>1, <3>2
  <2>4. RowSound(project', Members', attached')
    BY <1>1, <1>3, <2>1, <2>2, <2>3 DEF RowSound
  <2>5. collected' \subseteq Members'
    BY <1>1, <1>7, <2>1 DEF ChangeRole
  <2> QED
    BY <1>3, <1>5, <2>3, <2>4, <2>5, SoundStep
<1>8. CASE RemoveDocument(d)
  <2>1. Members' = Members \ {d}
    BY <1>1, <1>4, <1>8 DEF RemoveDocument, Members
  <2>2. PICK named \in DocumentRefs : named = Without(d, project.brief)
    BY <1>1, <1>4 DEF Without
  <2>3. PICK ref \in DocumentRefs : ref = Without(d, project.active)
    BY <1>1, <1>4 DEF Without
  <2>4. PICK briefed : briefed = [touched EXCEPT !.brief = named]
    OBVIOUS
  <2>5. /\ briefed \in ProjectRows
        /\ briefed.version > 0 /\ briefed.brief = named
        /\ briefed.active = project.active /\ briefed.thread = project.thread
    BY <1>2, <2>4, RowWithBrief
  <2>6. project' = [briefed EXCEPT !.active = ref]
    BY <1>2, <1>8, <2>2, <2>3, <2>4 DEF RemoveDocument
  <2>7. /\ project' \in ProjectRows /\ project'.version > 0
        /\ project'.brief = named /\ project'.active = ref
        /\ project'.thread = project.thread
    BY <2>6, <2>5, RowWithActive
  <2>8. RowSound(project', Members', attached')
    BY <1>1, <1>3, <1>4, <2>1, <2>2, <2>3, <2>7 DEF RowSound, Without
  <2>9. collected' \subseteq Members'
    BY <1>1, <1>8, <2>1 DEF RemoveDocument
  <2> QED
    BY <1>3, <1>5, <2>7, <2>8, <2>9, SoundStep
<1> QED
  BY <1>6, <1>7, <1>8

LEMMA PassageSteps ==
    ASSUME ProjectInv, NEW d \in ProjectDocuments,
           AddPassage(d) \/ RemovePassage(d) \/ TrashOrRestore(d)
    PROVE  ProjectInv'
<1>1. /\ project \in ProjectRows
      /\ role \in [ProjectDocuments -> MemberRoles]
      /\ attached \subseteq Threads /\ threads \subseteq Threads
      /\ RowSound(project, Members, attached) /\ collected \subseteq Members
  BY ReferencesAreSound DEF ProjectInv, ProjectTypes
<1>2. Members' = Members /\ role' = role /\ attached' = attached /\ threads' = threads
  BY DEF AddPassage, RemovePassage, TrashOrRestore, Members
<1>3. CASE TrashOrRestore(d)
  <2>1. project' = project /\ collected' = collected
    BY <1>3 DEF TrashOrRestore
  <2>2. project.version > 0 \/ collected = {}
    BY DEF ProjectInv, ProjectExists
  <2> QED
    BY <1>1, <1>2, <2>1, <2>2, SoundStep
<1>4. CASE AddPassage(d) \/ RemovePassage(d)
  <2>1. project' = Touched /\ collected' \subseteq Members
    BY <1>1, <1>4 DEF AddPassage, RemovePassage
  <2>2. /\ project' \in ProjectRows /\ project'.version > 0
        /\ project'.brief = project.brief /\ project'.active = project.active
        /\ project'.thread = project.thread
    BY <1>1, <2>1, TouchedRow
  <2>3. RowSound(project', Members', attached')
    BY <1>1, <1>2, <2>2 DEF RowSound
  <2> QED
    BY <1>1, <1>2, <2>1, <2>2, <2>3, SoundStep
<1> QED
  BY <1>3, <1>4

(* Conversations: who leaves is not resumed.                               *)
LEMMA ThreadSteps ==
    ASSUME ProjectInv, NEW t \in Threads, AddThread(t) \/ RemoveThread(t) \/ DeleteThread(t)
    PROVE  ProjectInv'
<1>1. /\ project \in ProjectRows /\ project.thread \in Threads \cup {Null}
      /\ role \in [ProjectDocuments -> MemberRoles]
      /\ attached \subseteq Threads /\ threads \subseteq Threads
      /\ RowSound(project, Members, attached) /\ collected \subseteq Members
      /\ project.version > 0 \/ collected = {}
  BY ReferencesAreSound DEF ProjectInv, ProjectTypes, ProjectRows, ProjectExists
<1>2. Members' = Members /\ role' = role /\ collected' = collected
  BY DEF AddThread, RemoveThread, DeleteThread, Members
<1>3. attached' \subseteq Threads /\ threads' \subseteq Threads
  BY <1>1 DEF AddThread, RemoveThread, DeleteThread
<1>4. ASSUME NEW row \in ProjectRows, NEW talk \in Threads \cup {Null},
             project' = [row EXCEPT !.thread = talk],
             row.version > 0 \/ collected = {},
             row.brief = project.brief, row.active = project.active,
             talk \in attached' \cup {Null}
      PROVE  ProjectInv'
  <2>1. /\ project' \in ProjectRows
        /\ project'.version = row.version
        /\ project'.brief = project.brief /\ project'.active = project.active
        /\ project'.thread = talk
    BY <1>4, RowWithThread
  <2>2. RowSound(project', Members', attached')
    BY <1>1, <1>2, <1>4, <2>1 DEF RowSound
  <2> QED
    BY <1>1, <1>2, <1>3, <1>4, <2>1, <2>2, SoundStep
<1>5. PICK touched \in ProjectRows :
         /\ touched = Touched /\ touched.version > 0
         /\ touched.brief = project.brief /\ touched.active = project.active
         /\ touched.thread = project.thread
  BY <1>1, TouchedRow
<1>6. CASE AddThread(t)
  <2>1. PICK talk \in Threads \cup {Null} :
           talk = IF project.thread = Null THEN t ELSE project.thread
    BY <1>1
  <2>2. project' = [touched EXCEPT !.thread = talk]
    BY <1>5, <1>6, <2>1 DEF AddThread
  <2>3. talk \in attached' \cup {Null}
    BY <1>1, <1>6, <2>1 DEF AddThread, RowSound
  <2> QED
    BY <1>4, <1>5, <2>2, <2>3
<1>7. PICK talk \in Threads \cup {Null} : talk = Without(t, project.thread)
  BY <1>1 DEF Without
<1>8. CASE RemoveThread(t)
  <2>1. project' = [touched EXCEPT !.thread = talk]
    BY <1>5, <1>7, <1>8 DEF RemoveThread
  <2>2. talk \in attached' \cup {Null}
    BY <1>1, <1>7, <1>8 DEF RemoveThread, RowSound, Without
  <2> QED
    BY <1>4, <1>5, <2>1, <2>2
<1>9. CASE DeleteThread(t)
  <2>1. project' = [project EXCEPT !.thread = talk]
    BY <1>7, <1>9 DEF DeleteThread
  <2>2. talk \in attached' \cup {Null}
    BY <1>1, <1>7, <1>9 DEF DeleteThread, RowSound, Without
  <2> QED
    BY <1>1, <1>4, <2>1, <2>2
<1> QED
  BY <1>6, <1>8, <1>9

(* What a project refers to (its brief, draft, conversation and layout) is *)
(* a member of it after any removal, trashing or deletion elsewhere, for   *)
(* any documents, conversations, roles and bounds.                         *)
THEOREM ReferencesStayMembers == ProjectSpec => []ReferencesAreMembers
<1>1. ProjectInv => ReferencesAreMembers
  BY DEF ProjectInv
<1>2. ProjectInit => ProjectInv
  BY ProjectInitially
<1>3. ProjectInv /\ [ProjectNext]_projectVars => ProjectInv'
  <2> SUFFICES ASSUME ProjectInv, [ProjectNext]_projectVars PROVE ProjectInv'
    OBVIOUS
  <2>1. CASE UNCHANGED projectVars
    BY <2>1 DEF projectVars, ProjectInv, ProjectTypes, ReferencesAreMembers, Members, ProjectExists
  <2>2. CASE ProjectNext
    BY <2>2, CreateKeepsProject, DeleteKeepsProject, UpdateKeepsProject, MemberSteps,
       PassageSteps, ThreadSteps DEF ProjectNext, DocumentRefs
  <2> QED
    BY <2>1, <2>2
<1> QED
  BY <1>1, <1>2, <1>3, PTL DEF ProjectSpec

-----------------------------------------------------------------------------
(* Assignments: the worker and its copy of the row                         *)

ReviewStatuses == {"none", "queued", "running", "paused", "completed", "failed", "stopped", "exhausted"}
ReviewRows == [status : ReviewStatuses, steps : Nat, result : Nat, consumed : Nat,
               attempt : BOOLEAN, children : SUBSET Reviews, artifacts : SUBSET Nat]
RunnerPlaces == {"idle", "claimed", "starting", "inferring", "committing", "writing", "saving",
                 "failed", "timed out"}

AssignmentTypes ==
    /\ assignment \in [Reviews -> ReviewRows]
    /\ steers \in [Reviews -> Nat]
    /\ findings \in [Reviews -> SUBSET (Nat \ {0})]
    /\ runner = [at |-> runner.at, of |-> runner.of, copy |-> runner.copy]
    /\ runner.at \in RunnerPlaces
    /\ runner.at # "idle" => runner.of \in Reviews /\ runner.copy \in ReviewRows

(* What is written is listed, but for the result that is stored; steering  *)
(* may discard that, but a steered review does not complete.               *)
RolledReviewSound(row, steered, written) ==
    /\ row.artifacts \subseteq written
    /\ row.result # 0 => row.result = row.steps
    /\ steered = 0 => written \subseteq row.artifacts \cup {row.result}
    /\ row.status = "none" => written = {}
    /\ row.status = "completed" =>
         /\ steered = 0
         /\ written = row.artifacts
         /\ row.result \in written

(* What the worker's copy and the row have in common, wherever it is.      *)
WorkerSound(row, steered, written) ==
    /\ row.status \in {"queued", "running", "paused", "stopped"}
    /\ runner.copy.result = row.result
    /\ runner.copy.artifacts = row.artifacts
    /\ ~RunnerAt("starting") => runner.copy.steps = row.steps
    /\ runner.at \in {"starting", "inferring"} => row.result = 0
    /\ ControlLocked => row.status = "running" /\ row.result # 0 /\ steered = 0
    /\ RunnerAt("saving") => row.steps \in written

AssignmentInv ==
    /\ AssignmentTypes
    /\ \A a \in Reviews : RolledReviewSound(assignment[a], steers[a], findings[a])
    /\ ~RunnerAt("idle") =>
         WorkerSound(assignment[runner.of], steers[runner.of], findings[runner.of])

(* What a step may do to who was stopped, and when findings are written.   *)
ControlHolds ==
    \A a \in Reviews :
      /\ assignment[a].status \in Terminal => assignment'[a].status \in Terminal
      /\ findings'[a] # findings[a] => assignment[a].status = "running"

-----------------------------------------------------------------------------

LEMMA NoAssignmentIsARow ==
    /\ NoAssignment \in ReviewRows
    /\ NoAssignment.status = "none" /\ NoAssignment.result = 0 /\ NoAssignment.artifacts = {}
BY DEF NoAssignment, ReviewRows, ReviewStatuses

LEMMA IdleRunnerIsIdle ==
    ASSUME NEW a
    PROVE  /\ IdleRunner(a).at = "idle"
           /\ IdleRunner(a) = [at |-> IdleRunner(a).at, of |-> IdleRunner(a).of,
                               copy |-> IdleRunner(a).copy]
BY DEF IdleRunner

LEMMA AssignmentInitially == AssignmentInit => AssignmentInv
<1> SUFFICES ASSUME AssignmentInit PROVE AssignmentInv
  OBVIOUS
<1>1. /\ runner.at = "idle"
      /\ runner = [at |-> runner.at, of |-> runner.of, copy |-> runner.copy]
  BY IdleRunnerIsIdle DEF AssignmentInit
<1>2. AssignmentTypes
  BY <1>1, NoAssignmentIsARow DEF AssignmentInit, AssignmentTypes, RunnerPlaces
<1>3. \A a \in Reviews : RolledReviewSound(assignment[a], steers[a], findings[a])
  BY NoAssignmentIsARow DEF AssignmentInit, RolledReviewSound
<1> QED
  BY <1>1, <1>2, <1>3 DEF AssignmentInv, RunnerAt

(* Steps of people: rows change, the worker and its findings stay.         *)
LEMMA PeopleKeepReviews ==
    ASSUME AssignmentInv,
           NEW rows \in [Reviews -> ReviewRows], NEW counts \in [Reviews -> Nat],
           \A a \in Reviews : RolledReviewSound(rows[a], counts[a], findings[a]),
           \A a \in Reviews : ~RunnerAt("idle") /\ a = runner.of =>
             WorkerSound(rows[a], counts[a], findings[a]),
           assignment' = rows, steers' = counts,
           UNCHANGED <<runner, findings>>
    PROVE  AssignmentInv'
<1>1. AssignmentTypes'
  BY DEF AssignmentInv, AssignmentTypes
<1>2. \A a \in Reviews : RolledReviewSound(assignment[a], steers[a], findings[a])'
  BY DEF RolledReviewSound
<1>3. ~RunnerAt("idle") => runner.of \in Reviews
  BY DEF AssignmentInv, AssignmentTypes, RunnerAt
<1>4. ~RunnerAt("idle") =>
         WorkerSound(assignment[runner.of], steers[runner.of], findings[runner.of])'
  BY <1>3 DEF WorkerSound, ControlLocked, RunnerAt
<1> QED
  BY <1>1, <1>2, <1>4 DEF AssignmentInv, RunnerAt

(* One row of another status, the rest of it as it was.                    *)
LEMMA StatusKeepsSound ==
    ASSUME NEW row \in ReviewRows, NEW now \in ReviewRows, NEW steered, NEW written,
           RolledReviewSound(row, steered, written), row.status # "none",
           now.status \notin {"none", "completed"},
           now.steps = row.steps, now.result = row.result, now.artifacts = row.artifacts
    PROVE  RolledReviewSound(now, steered, written)
BY DEF RolledReviewSound

LEMMA CreateKeepsReviews ==
    ASSUME AssignmentInv, NEW a \in Reviews, CreateReview(a)
    PROVE  AssignmentInv' /\ ControlHolds
<1>1. /\ assignment \in [Reviews -> ReviewRows] /\ steers \in [Reviews -> Nat]
      /\ assignment[a].status = "none"
      /\ UNCHANGED <<steers, runner, findings>>
  BY DEF AssignmentInv, AssignmentTypes, CreateReview
<1>2. PICK row : row = [NoAssignment EXCEPT !.status = "queued"]
  OBVIOUS
<1>3. /\ row \in ReviewRows
      /\ row.status = "queued" /\ row.result = 0 /\ row.artifacts = {}
  BY <1>2, NoAssignmentIsARow DEF ReviewRows, ReviewStatuses, NoAssignment
<1>4. PICK added : added = [assignment EXCEPT ![a] = row]
  OBVIOUS
<1>5. added \in [Reviews -> ReviewRows]
      /\ \A b \in Reviews : added[b] = IF b = a THEN row ELSE assignment[b]
  BY <1>1, <1>3, <1>4
<1>6. PICK parent : parent = ParentOf[a]
  OBVIOUS
<1>7. \/ assignment' = added
      \/ /\ assignment[parent].status \in Active
         /\ assignment' = [added EXCEPT ![parent].children = @ \cup {a}]
  BY <1>2, <1>4, <1>6 DEF CreateReview
<1>8. /\ assignment' \in [Reviews -> ReviewRows]
      /\ \A b \in Reviews : /\ assignment'[b].status = added[b].status
                            /\ assignment'[b].steps = added[b].steps
                            /\ assignment'[b].result = added[b].result
                            /\ assignment'[b].artifacts = added[b].artifacts
  <2>1. CASE assignment' = added
    BY <1>5, <2>1
  <2>2. CASE assignment' = [added EXCEPT ![parent].children = @ \cup {a}] /\ parent \in Reviews
    <3>1. PICK told : told = [added[parent] EXCEPT !.children = @ \cup {a}]
      OBVIOUS
    <3>2. added[parent] \in ReviewRows
      BY <1>5, <2>2
    <3>3. /\ told \in ReviewRows
          /\ told.status = added[parent].status /\ told.steps = added[parent].steps
          /\ told.result = added[parent].result /\ told.artifacts = added[parent].artifacts
      BY <3>1, <3>2 DEF ReviewRows
    <3>4. assignment' = [added EXCEPT ![parent] = told]
      BY <2>2, <3>1
    <3> QED
      BY <1>5, <3>3, <3>4
  <2>3. CASE assignment' = [added EXCEPT ![parent].children = @ \cup {a}] /\ parent \notin Reviews
    <3>1. assignment' = added
      BY <1>5, <2>3
    <3> QED
      BY <1>5, <3>1
  <2> QED
    BY <1>7, <2>1, <2>2, <2>3
<1>9. findings[a] = {}
  BY <1>1 DEF AssignmentInv, RolledReviewSound
<1>10. PICK rows \in [Reviews -> ReviewRows] : assignment' = rows
  BY <1>8
<1>11. \A b \in Reviews : RolledReviewSound(rows[b], steers[b], findings[b])
  <2> SUFFICES ASSUME NEW b \in Reviews PROVE RolledReviewSound(rows[b], steers[b], findings[b])
    OBVIOUS
  <2>1. CASE b = a
    BY <1>3, <1>5, <1>8, <1>9, <1>10, <2>1 DEF RolledReviewSound
  <2>2. CASE b # a
    BY <1>5, <1>8, <1>10, <2>2 DEF AssignmentInv, RolledReviewSound
  <2> QED
    BY <2>1, <2>2
<1>12. \A b \in Reviews : ~RunnerAt("idle") /\ b = runner.of =>
          WorkerSound(rows[b], steers[b], findings[b])
  <2> SUFFICES ASSUME NEW b \in Reviews, ~RunnerAt("idle"), b = runner.of
               PROVE  WorkerSound(rows[b], steers[b], findings[b])
    OBVIOUS
  <2>1. WorkerSound(assignment[b], steers[b], findings[b])
    BY DEF AssignmentInv
  <2>2. b # a
    BY <1>1, <2>1 DEF WorkerSound
  <2> QED
    BY <1>5, <1>8, <1>10, <2>1, <2>2 DEF WorkerSound
<1>13. AssignmentInv'
  BY <1>1, <1>10, <1>11, <1>12, PeopleKeepReviews
<1>14. ControlHolds
  BY <1>1, <1>5, <1>8 DEF ControlHolds, Terminal
<1> QED
  BY <1>13, <1>14

LEMMA ControlKeepsReviews ==
    ASSUME AssignmentInv, NEW a \in Reviews,
           PauseReview(a) \/ ResumeReview(a) \/ StopReview(a)
    PROVE  AssignmentInv' /\ ControlHolds
<1>1. /\ assignment \in [Reviews -> ReviewRows] /\ steers \in [Reviews -> Nat]
      /\ ~ControlLocked
      /\ UNCHANGED <<steers, runner, findings>>
  BY DEF AssignmentInv, AssignmentTypes, PauseReview, ResumeReview, StopReview, Controlled
<1>2. PICK status \in {"paused", "queued", "stopped"}, childStatus \in {"paused", "stopped"} :
         /\ Controlled(a, status, childStatus)
         /\ assignment[a].status \notin Terminal \cup {"none"} /\ assignment[a].status \in ReviewStatuses
         /\ status = "queued" => assignment[a].status \in {"paused", "failed"}
         /\ status = "paused" => assignment[a].status \in Active
  <2>1. assignment[a].status \in ReviewStatuses
    BY <1>1 DEF ReviewRows
  <2>2. CASE PauseReview(a)
    BY <2>1, <2>2 DEF PauseReview, Active, Terminal
  <2>3. CASE ResumeReview(a)
    BY <2>1, <2>3 DEF ResumeReview, Terminal
  <2>4. CASE StopReview(a)
    BY <2>1, <2>4 DEF StopReview
  <2> QED
    BY <2>2, <2>3, <2>4
<1>3. PICK rows : rows =
         [b \in Reviews |->
            IF b = a THEN [assignment[a] EXCEPT !.status = status]
            ELSE IF b \in assignment[a].children /\ assignment[b].status \in Active
                 THEN [assignment[b] EXCEPT !.status = childStatus]
                 ELSE assignment[b]]
  OBVIOUS
<1>4. assignment' = rows
  BY <1>2, <1>3 DEF Controlled
<1>5. ASSUME NEW b \in Reviews
      PROVE  \/ rows[b] = assignment[b]
             \/ /\ rows[b] \in ReviewRows
                /\ rows[b].steps = assignment[b].steps
                /\ rows[b].result = assignment[b].result
                /\ rows[b].artifacts = assignment[b].artifacts
                /\ \/ b = a /\ rows[b].status = status
                   \/ assignment[b].status \in Active /\ rows[b].status = childStatus
  <2>1. assignment[b] \in ReviewRows
    BY <1>1
  <2>2. CASE b = a
    <3>1. PICK row : row = [assignment[b] EXCEPT !.status = status]
      OBVIOUS
    <3>2. /\ row \in ReviewRows /\ row.status = status /\ row.steps = assignment[b].steps
          /\ row.result = assignment[b].result /\ row.artifacts = assignment[b].artifacts
      BY <2>1, <3>1 DEF ReviewRows, ReviewStatuses
    <3>3. rows[b] = row
      BY <1>3, <2>2, <3>1
    <3> QED
      BY <2>2, <3>2, <3>3
  <2>3. CASE b # a /\ b \in assignment[a].children /\ assignment[b].status \in Active
    <3>1. PICK row : row = [assignment[b] EXCEPT !.status = childStatus]
      OBVIOUS
    <3>2. /\ row \in ReviewRows /\ row.status = childStatus /\ row.steps = assignment[b].steps
          /\ row.result = assignment[b].result /\ row.artifacts = assignment[b].artifacts
      BY <2>1, <3>1 DEF ReviewRows, ReviewStatuses
    <3>3. rows[b] = row
      BY <1>3, <2>3, <3>1
    <3> QED
      BY <2>3, <3>2, <3>3
  <2>4. CASE b # a /\ ~(b \in assignment[a].children /\ assignment[b].status \in Active)
    BY <1>3, <2>4
  <2> QED
    BY <2>2, <2>3, <2>4
<1>6. rows \in [Reviews -> ReviewRows]
  BY <1>1, <1>3, <1>5
<1>7. \A b \in Reviews : RolledReviewSound(rows[b], steers[b], findings[b])
  <2> SUFFICES ASSUME NEW b \in Reviews PROVE RolledReviewSound(rows[b], steers[b], findings[b])
    OBVIOUS
  <2>1. RolledReviewSound(assignment[b], steers[b], findings[b]) /\ assignment[b] \in ReviewRows
    BY <1>1 DEF AssignmentInv
  <2>2. CASE rows[b] = assignment[b]
    BY <2>1, <2>2
  <2>3. CASE rows[b] # assignment[b]
    <3>1. assignment[b].status # "none" /\ rows[b].status \notin {"none", "completed"}
      BY <1>2, <1>5, <2>3 DEF Active
    <3> QED
      BY <1>5, <2>1, <2>3, <3>1, StatusKeepsSound
  <2> QED
    BY <2>2, <2>3
<1>8. \A b \in Reviews : ~RunnerAt("idle") /\ b = runner.of =>
         WorkerSound(rows[b], steers[b], findings[b])
  <2> SUFFICES ASSUME NEW b \in Reviews, ~RunnerAt("idle"), b = runner.of
               PROVE  WorkerSound(rows[b], steers[b], findings[b])
    OBVIOUS
  <2>1. WorkerSound(assignment[b], steers[b], findings[b])
    BY DEF AssignmentInv
  <2>2. ~RunnerAt("saving")
    BY <1>1 DEF ControlLocked, RunnerAt
  <2> QED
    BY <1>1, <1>5, <2>1, <2>2 DEF WorkerSound
<1>9. AssignmentInv'
  BY <1>1, <1>4, <1>6, <1>7, <1>8, PeopleKeepReviews
<1>10. ControlHolds
  <2>1. ASSUME NEW b \in Reviews, assignment[b].status \in Terminal
        PROVE  rows[b].status \in Terminal
    BY <1>2, <1>5, <2>1 DEF Terminal, Active
  <2> QED
    BY <1>1, <1>4, <2>1 DEF ControlHolds
<1> QED
  BY <1>9, <1>10

LEMMA SteerKeepsReviews ==
    ASSUME AssignmentInv, NEW a \in Reviews, SteerReview(a)
    PROVE  AssignmentInv' /\ ControlHolds
<1>1. /\ assignment \in [Reviews -> ReviewRows] /\ steers \in [Reviews -> Nat]
      /\ assignment[a] \in ReviewRows /\ steers[a] \in Nat
      /\ ~ControlLocked /\ assignment[a].status \notin Terminal \cup {"none"}
      /\ UNCHANGED <<runner, findings>>
  BY DEF AssignmentInv, AssignmentTypes, SteerReview
<1>2. PICK count \in Nat : count = steers[a] + 1
  BY <1>1
<1>3. PICK again : again = [assignment[a] EXCEPT !.status = "queued", !.result = 0]
  OBVIOUS
<1>4. /\ again \in ReviewRows /\ again.status = "queued" /\ again.result = 0
      /\ again.steps = assignment[a].steps /\ again.artifacts = assignment[a].artifacts
  BY <1>1, <1>3 DEF ReviewRows, ReviewStatuses
<1>5. PICK row : row = IF assignment[a].status \in {"completed", "failed"}
                       THEN again ELSE assignment[a]
  OBVIOUS
<1>6. PICK rows : rows = [assignment EXCEPT ![a] = row]
  OBVIOUS
<1>7. PICK counts : counts = [steers EXCEPT ![a] = count]
  OBVIOUS
<1>8. assignment' = rows /\ steers' = counts
  BY <1>1, <1>2, <1>3, <1>5, <1>6, <1>7 DEF SteerReview
<1>9. /\ rows \in [Reviews -> ReviewRows] /\ counts \in [Reviews -> Nat]
      /\ \A b \in Reviews : rows[b] = IF b = a THEN row ELSE assignment[b]
      /\ \A b \in Reviews : counts[b] = IF b = a THEN count ELSE steers[b]
  BY <1>1, <1>4, <1>5, <1>6, <1>7
<1>10. count # 0
  BY <1>1, <1>2
<1>11. RolledReviewSound(row, count, findings[a])
  <2>1. RolledReviewSound(assignment[a], steers[a], findings[a])
    BY DEF AssignmentInv
  <2> QED
    BY <1>1, <1>4, <1>5, <1>10, <2>1 DEF RolledReviewSound
<1>12. \A b \in Reviews : RolledReviewSound(rows[b], counts[b], findings[b])
  BY <1>9, <1>11 DEF AssignmentInv
<1>13. \A b \in Reviews : ~RunnerAt("idle") /\ b = runner.of =>
          WorkerSound(rows[b], counts[b], findings[b])
  <2> SUFFICES ASSUME NEW b \in Reviews, ~RunnerAt("idle"), b = runner.of
               PROVE  WorkerSound(rows[b], counts[b], findings[b])
    OBVIOUS
  <2>1. WorkerSound(assignment[b], steers[b], findings[b])
    BY DEF AssignmentInv
  <2>2. rows[b] = assignment[b]
    BY <1>5, <1>9, <2>1 DEF WorkerSound
  <2> QED
    BY <1>1, <2>1, <2>2 DEF WorkerSound
<1>14. AssignmentInv'
  BY <1>1, <1>8, <1>9, <1>12, <1>13, PeopleKeepReviews
<1>15. ControlHolds
  BY <1>1, <1>8, <1>9 DEF ControlHolds
<1> QED
  BY <1>14, <1>15

-----------------------------------------------------------------------------

(* Where the worker goes, with which copy.                                 *)
WorkerGoes(place, a, copy) == runner' = [at |-> place, of |-> a, copy |-> copy]

(* Steps of the worker that write its row, or nothing.                     *)
LEMMA WorkerWrites ==
    ASSUME AssignmentInv, NEW a \in Reviews, NEW row \in ReviewRows,
           assignment' = [assignment EXCEPT ![a] = row],
           assignment[a].status \in Terminal => row.status \in Terminal,
           RolledReviewSound(row, steers[a], findings[a]),
           UNCHANGED <<steers, findings>>,
           \/ runner' = IdleRunner(a)
           \/ \E place \in RunnerPlaces \ {"idle"}, copy \in ReviewRows :
                /\ WorkerGoes(place, a, copy)
                /\ row.status \in {"queued", "running", "paused", "stopped"}
                /\ copy.result = row.result /\ copy.artifacts = row.artifacts
                /\ place # "starting" => copy.steps = row.steps
                /\ place \in {"starting", "inferring"} => row.result = 0
                /\ place \in {"writing", "saving"} =>
                     row.status = "running" /\ row.result # 0 /\ steers[a] = 0
                /\ place = "saving" => row.steps \in findings[a]
    PROVE  AssignmentInv' /\ ControlHolds
<1>1. /\ \A b \in Reviews : assignment'[b] = IF b = a THEN row ELSE assignment[b]
      /\ assignment' \in [Reviews -> ReviewRows]
  BY DEF AssignmentInv, AssignmentTypes
<1>2. ASSUME NEW b \in Reviews
      PROVE  RolledReviewSound(assignment'[b], steers[b], findings[b])
  BY <1>1 DEF AssignmentInv
<1>3. \A b \in Reviews : RolledReviewSound(assignment[b], steers[b], findings[b])'
  BY <1>2 DEF RolledReviewSound
<1>4. ControlHolds
  BY <1>1 DEF ControlHolds
<1>5. CASE runner' = IdleRunner(a)
  <2>1. /\ runner'.at = "idle"
        /\ runner' = [at |-> runner'.at, of |-> runner'.of, copy |-> runner'.copy]
    BY <1>5, IdleRunnerIsIdle
  <2>2. AssignmentTypes'
    BY <1>1, <2>1 DEF AssignmentInv, AssignmentTypes, RunnerPlaces
  <2> QED
    BY <1>3, <1>4, <2>1, <2>2 DEF AssignmentInv, RunnerAt
<1>6. CASE runner' # IdleRunner(a)
  <2>1. PICK place \in RunnerPlaces \ {"idle"}, copy \in ReviewRows :
          /\ WorkerGoes(place, a, copy)
          /\ row.status \in {"queued", "running", "paused", "stopped"}
          /\ copy.result = row.result /\ copy.artifacts = row.artifacts
          /\ place # "starting" => copy.steps = row.steps
          /\ place \in {"starting", "inferring"} => row.result = 0
          /\ place \in {"writing", "saving"} =>
               row.status = "running" /\ row.result # 0 /\ steers[a] = 0
          /\ place = "saving" => row.steps \in findings[a]
    BY <1>6
  <2>2. runner'.at = place /\ runner'.of = a /\ runner'.copy = copy
    BY <2>1 DEF WorkerGoes
  <2>3. runner' = [at |-> runner'.at, of |-> runner'.of, copy |-> runner'.copy]
    BY <2>1, <2>2 DEF WorkerGoes
  <2>4. AssignmentTypes'
    BY <1>1, <2>2, <2>3 DEF AssignmentInv, AssignmentTypes
  <2>5. assignment'[a] = row
    BY <1>1
  <2>6. WorkerSound(assignment[runner.of], steers[runner.of], findings[runner.of])'
    BY <2>1, <2>2, <2>5 DEF WorkerSound, RunnerAt, ControlLocked
  <2> QED
    BY <1>3, <1>4, <2>4, <2>6 DEF AssignmentInv
<1> QED
  BY <1>5, <1>6

(* The facts about a worker that is not idle.                              *)
LEMMA WorkerIsSound ==
    ASSUME AssignmentInv, runner.at # "idle"
    PROVE  /\ Mine \in Reviews /\ runner.copy \in ReviewRows /\ Row \in ReviewRows
           /\ steers[Mine] \in Nat
           /\ WorkerSound(Row, steers[Mine], findings[Mine])
           /\ RolledReviewSound(Row, steers[Mine], findings[Mine])
           /\ assignment = [assignment EXCEPT ![Mine] = Row]
           /\ runner = [at |-> runner.at, of |-> runner.of, copy |-> runner.copy]
           /\ \A place : RunnerGoes(place) => WorkerGoes(place, Mine, runner.copy)
BY DEF AssignmentInv, AssignmentTypes, Mine, Row, RunnerAt, RunnerGoes, WorkerGoes

LEMMA WorkerThinks ==
    ASSUME AssignmentInv,
           \/ ReuseResult \/ BeginAttempt \/ LacksContext \/ BeginCommit \/ SkipCommit \/ TimeOut
           \/ \E place \in {"claimed", "inferring", "writing", "saving"} : FailAttempt(place)
    PROVE  AssignmentInv' /\ ControlHolds
<1>1. /\ UNCHANGED <<assignment, steers, findings>>
      /\ runner.at # "idle"
      /\ runner.at # "starting"
  BY DEF ReuseResult, BeginAttempt, LacksContext, BeginCommit, SkipCommit, TimeOut, FailAttempt,
         RunnerAt
<1>2. /\ Mine \in Reviews /\ runner.copy \in ReviewRows /\ Row \in ReviewRows
      /\ steers[Mine] \in Nat
      /\ WorkerSound(Row, steers[Mine], findings[Mine])
      /\ RolledReviewSound(Row, steers[Mine], findings[Mine])
      /\ assignment = [assignment EXCEPT ![Mine] = Row]
      /\ \A place : RunnerGoes(place) => WorkerGoes(place, Mine, runner.copy)
  BY <1>1, WorkerIsSound
<1>3. PICK a \in Reviews : a = runner.of
  BY <1>2 DEF Mine
<1>4. PICK row \in ReviewRows : row = Row
  BY <1>2
<1>5. /\ assignment' = [assignment EXCEPT ![a] = row]
      /\ assignment[a].status \in Terminal => row.status \in Terminal
      /\ RolledReviewSound(row, steers[a], findings[a])
      /\ UNCHANGED <<steers, findings>>
  BY <1>1, <1>2, <1>3, <1>4 DEF Row, Mine
<1>6. /\ row.status \in {"queued", "running", "paused", "stopped"}
      /\ runner.copy.result = row.result
      /\ runner.copy.artifacts = row.artifacts
      /\ runner.copy.steps = row.steps
      /\ runner.at = "inferring" => row.result = 0
      /\ runner.at = "writing" => row.status = "running" /\ row.result # 0 /\ steers[a] = 0
  BY <1>1, <1>2, <1>3, <1>4 DEF WorkerSound, RunnerAt, ControlLocked, Mine
<1>7. CASE SkipCommit
  BY <1>3, <1>5, <1>7, WorkerWrites DEF SkipCommit, Rests, Mine
<1>8. ASSUME NEW place \in {"committing", "failed", "timed out"}, RunnerGoes(place)
      PROVE  AssignmentInv' /\ ControlHolds
  <2>1. WorkerGoes(place, a, runner.copy) /\ place \in RunnerPlaces \ {"idle"}
    BY <1>2, <1>3, <1>8 DEF RunnerPlaces, Mine
  <2> QED
    BY <1>2, <1>3, <1>5, <1>6, <1>8, <2>1, WorkerWrites
<1>9. CASE BeginAttempt
  <2>1. PICK steps \in Nat, consumed \in Nat :
          steps = runner.copy.steps + 1 /\ consumed = steers[Mine]
    BY <1>2 DEF ReviewRows
  <2>2. PICK copy : copy = [runner.copy EXCEPT !.steps = steps, !.consumed = consumed,
                                               !.attempt = TRUE]
    OBVIOUS
  <2>3. /\ copy \in ReviewRows
        /\ copy.result = runner.copy.result /\ copy.artifacts = runner.copy.artifacts
    BY <1>2, <2>2 DEF ReviewRows
  <2>4. WorkerGoes("starting", a, copy)
    <3>1. runner = [at |-> runner.at, of |-> runner.of, copy |-> runner.copy]
      BY <1>1, WorkerIsSound
    <3>2. PICK old \in ReviewRows : old = runner.copy
      BY <1>2
    <3>3. copy = [old EXCEPT !.steps = @ + 1, !.consumed = steers[Mine], !.attempt = TRUE]
      BY <2>1, <2>2, <3>2
    <3> QED
      BY <1>3, <1>9, <3>1, <3>2, <3>3 DEF BeginAttempt, WorkerGoes, ReviewRows
  <2>5. row.result = 0 /\ "starting" \in RunnerPlaces \ {"idle"}
    BY <1>6, <1>9 DEF BeginAttempt, RunnerPlaces
  <2> QED
    BY <1>3, <1>5, <1>6, <2>3, <2>4, <2>5, WorkerWrites
<1>10. CASE BeginCommit
  <2>1. WorkerGoes("writing", a, row)
    <3>1. runner = [at |-> runner.at, of |-> runner.of, copy |-> runner.copy]
      BY <1>1, WorkerIsSound
    <3> QED
      BY <1>3, <1>4, <1>10, <3>1 DEF BeginCommit, WorkerGoes
  <2>2. row.status = "running" /\ row.result # 0 /\ steers[a] = 0
    BY <1>3, <1>4, <1>10 DEF BeginCommit, Finalizable, HasContext, Mine
  <2>3. "writing" \in RunnerPlaces \ {"idle"}
    BY DEF RunnerPlaces
  <2> QED
    BY <1>3, <1>5, <2>1, <2>2, <2>3, WorkerWrites
<1>11. CASE ReuseResult
  BY <1>8, <1>11 DEF ReuseResult
<1>12. CASE LacksContext
  BY <1>8, <1>12 DEF LacksContext
<1>13. CASE TimeOut
  BY <1>8, <1>13 DEF TimeOut
<1>14. CASE \E place \in {"claimed", "inferring", "writing", "saving"} : FailAttempt(place)
  BY <1>8, <1>14 DEF FailAttempt
<1> QED
  BY <1>7, <1>9, <1>10, <1>11, <1>12, <1>13, <1>14

LEMMA ClaimKeepsReviews ==
    ASSUME AssignmentInv, NEW a \in Reviews, ClaimReview(a)
    PROVE  AssignmentInv' /\ ControlHolds
<1>1. /\ assignment \in [Reviews -> ReviewRows] /\ assignment[a] \in ReviewRows
      /\ assignment[a].status = "queued" /\ runner.at = "idle"
      /\ RolledReviewSound(assignment[a], steers[a], findings[a])
      /\ UNCHANGED <<steers, findings>>
  BY DEF AssignmentInv, AssignmentTypes, ClaimReview, RunnerAt
<1>2. PICK row : row = [assignment[a] EXCEPT !.status = "running"]
  OBVIOUS
<1>3. /\ row \in ReviewRows /\ row.status = "running" /\ row.steps = assignment[a].steps
      /\ row.result = assignment[a].result /\ row.artifacts = assignment[a].artifacts
  BY <1>1, <1>2 DEF ReviewRows, ReviewStatuses
<1>4. assignment' = [assignment EXCEPT ![a] = row]
  BY <1>2 DEF ClaimReview
<1>5. WorkerGoes("claimed", a, row)
  BY <1>1, <1>4 DEF ClaimReview, WorkerGoes
<1>6. RolledReviewSound(row, steers[a], findings[a])
  BY <1>1, <1>3, StatusKeepsSound
<1>7. "claimed" \in RunnerPlaces \ {"idle"}
  BY DEF RunnerPlaces
<1>8. assignment[a].status \notin Terminal
  BY <1>1 DEF Terminal
<1> QED
  BY <1>1, <1>3, <1>4, <1>5, <1>6, <1>7, <1>8, WorkerWrites

LEMMA WorkerSaves ==
    ASSUME AssignmentInv,
           \/ Exhaust \/ CheckpointProgress \/ StoreResult \/ CompleteReview
           \/ StoreReviewFailure("failed", "failed") \/ StoreReviewFailure("timed out", "exhausted")
    PROVE  AssignmentInv' /\ ControlHolds
<1>1. /\ UNCHANGED <<steers, findings>>
      /\ runner.at # "idle"
      /\ runner.at # "writing"
  BY DEF Exhaust, CheckpointProgress, StoreResult, CompleteReview, StoreReviewFailure, RunnerAt
<1>2. /\ Mine \in Reviews /\ runner.copy \in ReviewRows /\ Row \in ReviewRows
      /\ steers[Mine] \in Nat
      /\ WorkerSound(Row, steers[Mine], findings[Mine])
      /\ RolledReviewSound(Row, steers[Mine], findings[Mine])
      /\ runner = [at |-> runner.at, of |-> runner.of, copy |-> runner.copy]
  BY <1>1, WorkerIsSound
<1>3. PICK a \in Reviews : a = runner.of
  BY <1>2 DEF Mine
<1>4. PICK old \in ReviewRows : old = assignment[a]
  BY <1>2, <1>3 DEF Row, Mine
<1>5. PICK mine \in ReviewRows : mine = runner.copy
  BY <1>2
<1>6. Mine = a /\ Row = old
  BY <1>3, <1>4 DEF Mine, Row
<1>7. /\ old.status \in {"queued", "running", "paused", "stopped"}
      /\ mine.result = old.result
      /\ mine.artifacts = old.artifacts
      /\ runner.at # "starting" => mine.steps = old.steps
      /\ runner.at \in {"starting", "inferring"} => old.result = 0
      /\ runner.at = "saving" => /\ old.status = "running" /\ old.result # 0
                                 /\ steers[a] = 0 /\ old.steps \in findings[a]
  BY <1>2, <1>5, <1>6 DEF WorkerSound, RunnerAt, ControlLocked
<1>8. RolledReviewSound(old, steers[a], findings[a])
  BY <1>2, <1>6
<1>9. findings[a] \subseteq Nat \ {0}
  BY DEF AssignmentInv, AssignmentTypes
<1>10. CASE Exhaust
  <2>1. PICK row : row = [mine EXCEPT !.status = "exhausted"]
    OBVIOUS
  <2>2. /\ row \in ReviewRows /\ row.status = "exhausted"
        /\ row.steps = mine.steps /\ row.result = mine.result /\ row.artifacts = mine.artifacts
    BY <2>1 DEF ReviewRows, ReviewStatuses
  <2>3. /\ assignment' = [assignment EXCEPT ![a] = row]
        /\ runner' = IdleRunner(a) /\ runner.at = "claimed"
    BY <1>5, <1>6, <1>10, <2>1 DEF Exhaust, SaveRow, Rests, RunnerAt
  <2>4. RolledReviewSound(row, steers[a], findings[a])
    BY <1>7, <1>8, <2>2, <2>3, StatusKeepsSound
  <2>5. row.status \in Terminal
    BY <2>2 DEF Terminal
  <2> QED
    BY <1>1, <2>2, <2>3, <2>4, <2>5, WorkerWrites
<1>11. CASE CheckpointProgress
  <2>1. PICK row : row = [mine EXCEPT !.status = old.status]
    OBVIOUS
  <2>2. /\ row \in ReviewRows /\ row.status = old.status
        /\ row.steps = mine.steps /\ row.result = mine.result /\ row.artifacts = mine.artifacts
    BY <2>1 DEF ReviewRows
  <2>3. /\ runner.at = "starting"
        /\ assignment' = [assignment EXCEPT ![a] = row]
        /\ \/ runner' = IdleRunner(a)
           \/ runner' = [runner EXCEPT !.at = "inferring", !.copy = row]
    BY <1>5, <1>6, <1>11, <2>1 DEF CheckpointProgress, SaveRow, Rests, RunnerAt
  <2>4. runner' = IdleRunner(a) \/ WorkerGoes("inferring", a, row)
    BY <1>2, <1>3, <2>3 DEF WorkerGoes
  <2>5. RolledReviewSound(row, steers[a], findings[a])
    BY <1>7, <1>8, <2>2, <2>3 DEF RolledReviewSound
  <2>6. "inferring" \in RunnerPlaces \ {"idle"} /\ row.result = 0
    BY <1>7, <2>2, <2>3 DEF RunnerPlaces
  <2> QED
    BY <1>1, <1>4, <1>7, <2>2, <2>3, <2>4, <2>5, <2>6, WorkerWrites
<1>12. CASE StoreResult
  <2>1. PICK row : row = [mine EXCEPT !.status = old.status, !.attempt = FALSE,
                                      !.result = mine.steps]
    OBVIOUS
  <2>2. /\ row \in ReviewRows /\ row.status = old.status
        /\ row.steps = mine.steps /\ row.result = mine.steps /\ row.artifacts = mine.artifacts
    BY <2>1 DEF ReviewRows
  <2>3. /\ runner.at = "inferring"
        /\ assignment' = [assignment EXCEPT ![a] = row]
        /\ runner' = [runner EXCEPT !.at = "committing", !.copy = row]
    BY <1>5, <1>6, <1>12, <2>1 DEF StoreResult, SaveRow, RunnerAt
  <2>4. WorkerGoes("committing", a, row)
    BY <1>2, <1>3, <2>3 DEF WorkerGoes
  <2>5. RolledReviewSound(row, steers[a], findings[a])
    BY <1>7, <1>8, <1>9, <2>2, <2>3 DEF RolledReviewSound
  <2>6. "committing" \in RunnerPlaces \ {"idle"}
    BY DEF RunnerPlaces
  <2> QED
    BY <1>1, <1>4, <1>7, <2>2, <2>3, <2>4, <2>5, <2>6, WorkerWrites
<1>13. CASE CompleteReview
  <2>1. PICK row : row = [mine EXCEPT !.status = "completed",
                                      !.artifacts = @ \cup {mine.steps}]
    OBVIOUS
  <2>2. /\ row \in ReviewRows /\ row.status = "completed" /\ row.steps = mine.steps
        /\ row.result = mine.result /\ row.artifacts = mine.artifacts \cup {mine.steps}
    BY <2>1 DEF ReviewRows, ReviewStatuses
  <2>3. /\ assignment' = [assignment EXCEPT ![a] = row]
        /\ runner' = IdleRunner(a) /\ runner.at = "saving"
    BY <1>5, <1>6, <1>13, <2>1 DEF CompleteReview, SaveRow, Rests, RunnerAt
  <2>4. RolledReviewSound(row, steers[a], findings[a])
    BY <1>7, <1>8, <2>2, <2>3 DEF RolledReviewSound
  <2>5. assignment[a].status \notin Terminal
    BY <1>4, <1>7, <2>3 DEF Terminal
  <2> QED
    BY <1>1, <2>2, <2>3, <2>4, <2>5, WorkerWrites
<1>14. ASSUME NEW place \in {"failed", "timed out"}, NEW status \in {"failed", "exhausted"},
              StoreReviewFailure(place, status)
       PROVE  AssignmentInv' /\ ControlHolds
  <2>1. PICK now \in {"failed", "exhausted", "queued", "paused", "stopped"} :
          now = IF old.status = "running" THEN status ELSE old.status
    BY <1>7
  <2>2. PICK steps \in Nat : /\ steps = IF mine.steps > old.steps THEN mine.steps ELSE old.steps
                             /\ steps = old.steps
    BY <1>7, <1>14 DEF StoreReviewFailure, RunnerAt, ReviewRows
  <2>3. PICK row : row = [old EXCEPT !.status = now, !.attempt = FALSE, !.steps = steps]
    OBVIOUS
  <2>4. /\ row \in ReviewRows /\ row.status = now
        /\ row.steps = old.steps /\ row.result = old.result /\ row.artifacts = old.artifacts
    BY <2>2, <2>3 DEF ReviewRows, ReviewStatuses
  <2>5. assignment' = [assignment EXCEPT ![a] = row]
    <3>1. assignment' = [assignment EXCEPT
             ![a].status = IF @ = "running" THEN status ELSE @,
             ![a].attempt = FALSE,
             ![a].steps = IF mine.steps > @ THEN mine.steps ELSE @]
      BY <1>5, <1>6, <1>14 DEF StoreReviewFailure
    <3>2. assignment \in [Reviews -> ReviewRows]
      BY DEF AssignmentInv, AssignmentTypes
    <3> QED
      BY <1>4, <2>1, <2>2, <2>3, <3>1, <3>2 DEF ReviewRows
  <2>6. runner' = IdleRunner(a)
    BY <1>6, <1>14 DEF StoreReviewFailure, Rests
  <2>7. RolledReviewSound(row, steers[a], findings[a])
    BY <1>7, <1>8, <2>1, <2>4, StatusKeepsSound
  <2>8. assignment[a].status \in Terminal => row.status \in Terminal
    BY <1>4, <1>7, <2>1, <2>4 DEF Terminal
  <2> QED
    BY <1>1, <2>4, <2>5, <2>6, <2>7, <2>8, WorkerWrites
<1> QED
  BY <1>10, <1>11, <1>12, <1>13, <1>14

(* The document of a stored result.                                        *)
LEMMA WriteKeepsReviews ==
    ASSUME AssignmentInv, WriteFindings
    PROVE  AssignmentInv' /\ ControlHolds
<1>1. runner.at = "writing" /\ UNCHANGED <<assignment, steers>>
  BY DEF WriteFindings, RunnerAt
<1>2. /\ Mine \in Reviews /\ runner.copy \in ReviewRows /\ Row \in ReviewRows
      /\ WorkerSound(Row, steers[Mine], findings[Mine])
      /\ RolledReviewSound(Row, steers[Mine], findings[Mine])
      /\ \A place : RunnerGoes(place) => WorkerGoes(place, Mine, runner.copy)
  BY <1>1, WorkerIsSound
<1>3. PICK a \in Reviews : a = runner.of
  BY <1>2 DEF Mine
<1>4. PICK step \in Nat : step = runner.copy.steps
  BY <1>2 DEF ReviewRows
<1>5. PICK row \in ReviewRows : row = assignment[a]
  BY <1>2, <1>3 DEF Row, Mine
<1>6. /\ row.status = "running" /\ row.result = step /\ row.steps = step /\ step # 0
      /\ runner.copy.result = row.result /\ runner.copy.artifacts = row.artifacts
      /\ steers[a] = 0
  BY <1>1, <1>2, <1>3, <1>4, <1>5 DEF WorkerSound, RolledReviewSound, RunnerAt, ControlLocked, Row, Mine
<1>7. PICK written : written = findings[a] \cup {step}
  OBVIOUS
<1>8. findings' = [findings EXCEPT ![a] = written]
  BY <1>3, <1>4, <1>7 DEF WriteFindings, Mine
<1>9. /\ written \in SUBSET (Nat \ {0})
      /\ \A b \in Reviews : findings'[b] = IF b = a THEN written ELSE findings[b]
      /\ findings' \in [Reviews -> SUBSET (Nat \ {0})]
  BY <1>4, <1>6, <1>7, <1>8 DEF AssignmentInv, AssignmentTypes
<1>10. runner' = [at |-> "saving", of |-> a, copy |-> runner.copy]
  BY <1>2, <1>3 DEF WriteFindings, WorkerGoes, Mine
<1>11. /\ runner'.at = "saving" /\ runner'.of = a /\ runner'.copy = runner.copy
       /\ runner' = [at |-> runner'.at, of |-> runner'.of, copy |-> runner'.copy]
  BY <1>10
<1>12. AssignmentTypes'
  BY <1>1, <1>2, <1>9, <1>11 DEF AssignmentInv, AssignmentTypes, RunnerPlaces
<1>13. RolledReviewSound(row, steers[a], written)
  BY <1>2, <1>3, <1>5, <1>6, <1>7 DEF RolledReviewSound, Row, Mine
<1>14. \A b \in Reviews : RolledReviewSound(assignment[b], steers[b], findings'[b])
  BY <1>5, <1>9, <1>13 DEF AssignmentInv
<1>15. \A b \in Reviews : RolledReviewSound(assignment[b], steers[b], findings[b])'
  BY <1>1, <1>14 DEF RolledReviewSound
<1>16. WorkerSound(assignment[runner.of], steers[runner.of], findings[runner.of])'
  BY <1>1, <1>4, <1>5, <1>6, <1>7, <1>9, <1>11 DEF WorkerSound, RunnerAt, ControlLocked
<1>17. ControlHolds
  BY <1>1, <1>5, <1>6, <1>9 DEF ControlHolds
<1> QED
  BY <1>12, <1>15, <1>16, <1>17 DEF AssignmentInv

LEMMA RestartKeepsReviews ==
    ASSUME AssignmentInv, RestartReviews
    PROVE  AssignmentInv' /\ ControlHolds
<1>1. /\ UNCHANGED <<steers, findings>> /\ runner' = IdleRunner(Mine)
      /\ assignment \in [Reviews -> ReviewRows]
  BY DEF AssignmentInv, AssignmentTypes, RestartReviews, Rests
<1>2. PICK late \in SUBSET Reviews :
         assignment' = [a \in Reviews |-> Recovered(a, a \in late)]
  BY DEF RestartReviews
<1>3. ASSUME NEW a \in Reviews
      PROVE  /\ assignment'[a] \in ReviewRows
             /\ assignment'[a].steps = assignment[a].steps
             /\ assignment'[a].result = assignment[a].result
             /\ assignment'[a].artifacts = assignment[a].artifacts
             /\ \/ assignment'[a].status = assignment[a].status
                \/ /\ assignment[a].status \in Active
                   /\ assignment'[a].status \in {"exhausted", "queued", "paused"}
  <2>1. PICK old \in ReviewRows : old = assignment[a]
    BY <1>1
  <2>2. assignment'[a] = Recovered(a, a \in late)
    BY <1>2
  <2>3. CASE old.status \in Active
    <3>1. PICK status \in {"exhausted", "queued", "paused"} :
            status = IF a \in late /\ old.steps > 0 THEN "exhausted"
                     ELSE IF ResumePolicy[a] THEN "queued" ELSE "paused"
      OBVIOUS
    <3>2. PICK row : row = [old EXCEPT !.attempt = FALSE, !.status = status]
      OBVIOUS
    <3>3. assignment'[a] = row
      BY <2>1, <2>2, <2>3, <3>1, <3>2 DEF Recovered
    <3>4. /\ row \in ReviewRows /\ row.status = status /\ row.steps = old.steps
          /\ row.result = old.result /\ row.artifacts = old.artifacts
      BY <3>2 DEF ReviewRows, ReviewStatuses
    <3> QED
      BY <2>1, <2>3, <3>3, <3>4
  <2>4. CASE old.status \notin Active
    <3>1. PICK row : row = [old EXCEPT !.attempt = FALSE]
      OBVIOUS
    <3>2. assignment'[a] = row
      BY <2>1, <2>2, <2>4, <3>1 DEF Recovered
    <3>3. /\ row \in ReviewRows /\ row.status = old.status /\ row.steps = old.steps
          /\ row.result = old.result /\ row.artifacts = old.artifacts
      BY <3>1 DEF ReviewRows
    <3> QED
      BY <2>1, <3>2, <3>3
  <2> QED
    BY <2>3, <2>4
<1>4. runner'.at = "idle"
      /\ runner' = [at |-> runner'.at, of |-> runner'.of, copy |-> runner'.copy]
  BY <1>1, IdleRunnerIsIdle
<1>5. assignment' \in [Reviews -> ReviewRows]
  BY <1>2, <1>3
<1>6. AssignmentTypes'
  BY <1>1, <1>4, <1>5 DEF AssignmentInv, AssignmentTypes, RunnerPlaces
<1>7. ASSUME NEW a \in Reviews PROVE RolledReviewSound(assignment'[a], steers[a], findings[a])
  <2>1. RolledReviewSound(assignment[a], steers[a], findings[a])
    BY DEF AssignmentInv
  <2> QED
    BY <1>3, <2>1 DEF RolledReviewSound, Active
<1>8. \A a \in Reviews : RolledReviewSound(assignment[a], steers[a], findings[a])'
  BY <1>1, <1>7 DEF RolledReviewSound
<1>9. ControlHolds
  BY <1>1, <1>3 DEF ControlHolds, Terminal, Active
<1> QED
  BY <1>4, <1>6, <1>8, <1>9 DEF AssignmentInv, RunnerAt

LEMMA AssignmentStep ==
    ASSUME AssignmentInv, [AssignmentNext]_assignmentVars
    PROVE  AssignmentInv' /\ ControlHolds
<1>1. CASE UNCHANGED assignmentVars
  <2>1. UNCHANGED assignment /\ UNCHANGED steers /\ UNCHANGED runner /\ UNCHANGED findings
    BY <1>1 DEF assignmentVars
  <2>2. AssignmentInv'
    BY <2>1 DEF AssignmentInv, AssignmentTypes, RolledReviewSound, WorkerSound, RunnerAt, ControlLocked
  <2> QED
    BY <2>1, <2>2 DEF ControlHolds
<1>2. ASSUME NEW a \in Reviews,
             \/ CreateReview(a) \/ PauseReview(a) \/ ResumeReview(a) \/ StopReview(a)
             \/ SteerReview(a) \/ ClaimReview(a)
      PROVE  AssignmentInv' /\ ControlHolds
  BY <1>2, CreateKeepsReviews, ControlKeepsReviews, SteerKeepsReviews, ClaimKeepsReviews
<1>3. CASE \/ ReuseResult \/ BeginAttempt \/ LacksContext \/ BeginCommit \/ SkipCommit \/ TimeOut
           \/ \E place \in {"claimed", "inferring", "writing", "saving"} : FailAttempt(place)
  BY <1>3, WorkerThinks
<1>4. CASE \/ Exhaust \/ CheckpointProgress \/ StoreResult \/ CompleteReview
           \/ StoreReviewFailure("failed", "failed") \/ StoreReviewFailure("timed out", "exhausted")
  BY <1>4, WorkerSaves
<1>5. CASE WriteFindings
  BY <1>5, WriteKeepsReviews
<1>6. CASE RestartReviews
  BY <1>6, RestartKeepsReviews
<1> QED
  BY <1>1, <1>2, <1>3, <1>4, <1>5, <1>6 DEF AssignmentNext

(* A completed review lists what was written for it, for any reviews,      *)
(* delegations, bounds and policies.                                       *)
THEOREM FindingsStayListed == AssignmentSpec => []NoOrphanFindings
<1>1. AssignmentInv => NoOrphanFindings
  BY DEF AssignmentInv, RolledReviewSound, NoOrphanFindings
<1>2. AssignmentInv /\ [AssignmentNext]_assignmentVars => AssignmentInv'
  BY AssignmentStep
<1> QED
  BY <1>1, <1>2, AssignmentInitially, PTL DEF AssignmentSpec

(* Who was stopped stays stopped through every write the worker makes of   *)
(* its copy, and findings are written only of what runs, for any reviews.  *)
THEOREM ControlStaysKept == AssignmentSpec => ControlIsKept
<1>1. AssignmentInv /\ [AssignmentNext]_assignmentVars => [ControlHolds]_assignmentVars
  BY AssignmentStep
<1>2. AssignmentInv /\ [AssignmentNext]_assignmentVars => AssignmentInv'
  BY AssignmentStep
<1>3. AssignmentSpec => [][ControlHolds]_assignmentVars
  BY <1>1, <1>2, AssignmentInitially, PTL DEF AssignmentSpec
<1> QED
  BY <1>3 DEF ControlHolds, ControlIsKept

-----------------------------------------------------------------------------
(* ChatContinuity: the rolling task                                        *)

Cites == [of : Messages, text : Nat \ {0}]
NoteRows == [field : Fields, of : Messages, text : Nat \ {0}, corrected : BOOLEAN]
TaskRows == [version : Nat, generation : Nat, notes : SUBSET NoteRows, hashes : SUBSET Cites,
             dismissed : SUBSET Fields]
SummarizerRows == [at : {"idle", "state", "summarizing"}, version : Nat, generation : Nat,
                   texts : SUBSET Cites, kept : SUBSET NoteRows]

TaskTypes ==
    /\ message \in [Messages -> Nat]
    /\ generation \in Nat
    /\ task \in TaskRows
    /\ summarizer \in [Summarizers -> SummarizerRows]

(* Every note has a hash of the text it was written from, a field has one  *)
(* note, and a dismissed field has none.                                   *)
NotesSound(notes, hashes, dismissed) ==
    /\ \A n \in notes : \E h \in hashes : h.of = n.of
    /\ \A n \in notes : \A h \in hashes : h.of = n.of => h.text = n.text
    /\ \A n, o \in notes : n.field = o.field => n = o
    /\ \A n \in notes : n.field \notin dismissed

(* What a summarizer has read is as it was read while the generation is.   *)
SummarizerSound(row) ==
    /\ row.generation <= generation
    /\ row.generation = generation =>
         /\ \A n \in row.kept : message[n.of] = n.text
         /\ \A c \in row.texts : message[c.of] = c.text

TaskInv ==
    /\ TaskTypes
    /\ NotesSound(task.notes, task.hashes, task.dismissed)
    /\ \A s \in Summarizers : SummarizerSound(summarizer[s])

(* A note is shown only of the text its message has.                       *)
LEMMA ShownIsCurrent ==
    ASSUME TaskInv, NEW n \in Shown
    PROVE  n \in task.notes /\ n \in NoteRows /\ message[n.of] = n.text
<1>1. n \in task.notes /\ ~Invalid(n.of)
  BY DEF Shown
<1>2. PICK h \in task.hashes : h.of = n.of
  BY <1>1 DEF TaskInv, NotesSound
<1>3. h.text = n.text
  BY <1>1, <1>2 DEF TaskInv, NotesSound
<1>4. message[n.of] = h.text
  BY <1>1, <1>2 DEF Invalid
<1>5. n \in NoteRows
  BY <1>1 DEF TaskInv, TaskTypes, TaskRows
<1> QED
  BY <1>1, <1>3, <1>4, <1>5

LEMMA TaskInitially == TaskInit => TaskInv
<1> SUFFICES ASSUME TaskInit PROVE TaskInv
  OBVIOUS
<1>1. NoTask \in TaskRows /\ NoTask.notes = {}
  BY DEF NoTask, TaskRows
<1>2. /\ Resting \in SummarizerRows
      /\ Resting.generation = 0 /\ Resting.kept = {} /\ Resting.texts = {}
  BY DEF Resting, SummarizerRows
<1>3. TaskTypes
  BY <1>1, <1>2 DEF TaskInit, TaskTypes
<1>4. NotesSound(task.notes, task.hashes, task.dismissed)
  BY <1>1 DEF TaskInit, NotesSound
<1>5. \A s \in Summarizers : SummarizerSound(summarizer[s])
  BY <1>2 DEF TaskInit, SummarizerSound
<1> QED
  BY <1>3, <1>4, <1>5 DEF TaskInv

(* Steps of one summarizer that leave the task as it is.                   *)
LEMMA SummarizerStep ==
    ASSUME TaskInv, NEW s \in Summarizers, NEW row \in SummarizerRows, SummarizerSound(row),
           summarizer' = [summarizer EXCEPT ![s] = row],
           UNCHANGED <<message, generation, task>>
    PROVE  TaskInv'
<1>1. \A o \in Summarizers : summarizer'[o] = IF o = s THEN row ELSE summarizer[o]
  BY DEF TaskInv, TaskTypes
<1>2. TaskTypes'
  BY DEF TaskInv, TaskTypes
<1>3. \A o \in Summarizers : SummarizerSound(summarizer[o])'
  BY <1>1 DEF TaskInv, SummarizerSound
<1> QED
  BY <1>2, <1>3 DEF TaskInv

LEMMA RestingIsSound ==
    ASSUME TaskInv
    PROVE  Resting \in SummarizerRows /\ SummarizerSound(Resting)
<1>1. /\ Resting \in SummarizerRows
      /\ Resting.generation = 0 /\ Resting.kept = {} /\ Resting.texts = {}
  BY DEF Resting, SummarizerRows
<1> QED
  BY <1>1 DEF TaskInv, TaskTypes, SummarizerSound

LEMMA ReadsKeepTask ==
    ASSUME TaskInv, NEW s \in Summarizers, ReadState(s) \/ ReadSources(s) \/ RefuseSave(s)
    PROVE  TaskInv'
<1>1. /\ summarizer[s] \in SummarizerRows /\ SummarizerSound(summarizer[s])
      /\ message \in [Messages -> Nat] /\ generation \in Nat /\ task \in TaskRows
      /\ UNCHANGED <<message, generation, task>>
  BY DEF TaskInv, TaskTypes, ReadState, ReadSources, RefuseSave
<1>2. CASE ReadState(s)
  <2>1. PICK shown : shown = Shown
    OBVIOUS
  <2>2. shown \in SUBSET NoteRows /\ \A n \in shown : message[n.of] = n.text
    BY <2>1, ShownIsCurrent
  <2>3. PICK version \in Nat : version = task.version
    BY <1>1 DEF TaskRows
  <2>4. PICK row : row = [Resting EXCEPT !.at = "state", !.version = version,
                                         !.generation = generation, !.kept = shown]
    OBVIOUS
  <2>5. /\ row \in SummarizerRows
        /\ row.generation = generation /\ row.kept = shown /\ row.texts = {}
    BY <1>1, <2>2, <2>3, <2>4 DEF Resting, SummarizerRows
  <2>6. SummarizerSound(row)
    BY <1>1, <2>2, <2>5 DEF SummarizerSound
  <2>7. summarizer' = [summarizer EXCEPT ![s] = row]
    BY <1>2, <2>1, <2>3, <2>4 DEF ReadState
  <2> QED
    BY <1>1, <2>5, <2>6, <2>7, SummarizerStep
<1>3. CASE ReadSources(s)
  <2>1. PICK texts : texts = {Cite(m) : m \in Present}
    OBVIOUS
  <2>2. texts \in SUBSET Cites /\ \A c \in texts : message[c.of] = c.text
    BY <1>1, <2>1 DEF Cite, Cites, Present
  <2>3. PICK place \in {"idle", "summarizing"} :
           place = IF Present = {} THEN "idle" ELSE "summarizing"
    OBVIOUS
  <2>4. PICK row : row = [summarizer[s] EXCEPT !.at = place, !.texts = texts]
    OBVIOUS
  <2>5. /\ row \in SummarizerRows
        /\ row.generation = summarizer[s].generation /\ row.kept = summarizer[s].kept
        /\ row.texts = texts
    BY <1>1, <2>2, <2>3, <2>4 DEF SummarizerRows
  <2>6. SummarizerSound(row)
    BY <1>1, <2>2, <2>5 DEF SummarizerSound
  <2>7. summarizer' = [summarizer EXCEPT ![s] = row]
    BY <1>3, <2>1, <2>3, <2>4 DEF ReadSources
  <2> QED
    BY <1>1, <2>5, <2>6, <2>7, SummarizerStep
<1>4. CASE RefuseSave(s)
  BY <1>1, <1>4, RestingIsSound, SummarizerStep DEF RefuseSave, SummarizerEnds
<1> QED
  BY <1>2, <1>3, <1>4

-----------------------------------------------------------------------------

(* A draft has a note per field at most, each of a text that was read.     *)
LEMMA DraftIsRead ==
    ASSUME TaskInv, NEW s \in Summarizers, NEW draft \in Drafts(s),
           summarizer[s].generation = generation
    PROVE  /\ draft \subseteq NoteRows
           /\ \A n \in draft : message[n.of] = n.text
           /\ \A n, o \in draft : n.field = o.field => n = o
<1>1. summarizer[s] \in SummarizerRows /\ SummarizerSound(summarizer[s])
  BY DEF TaskInv, TaskTypes
<1>2. PICK cites : cites = summarizer[s].texts \cup
                             {[of |-> n.of, text |-> n.text] : n \in summarizer[s].kept}
  OBVIOUS
<1>3. cites \subseteq Cites /\ \A c \in cites : message[c.of] = c.text
  BY <1>1, <1>2 DEF SummarizerRows, SummarizerSound, Cites, NoteRows
<1>4. PICK fields \in SUBSET Fields :
         \E choice \in [fields -> cites] : draft = {Note(f, choice[f]) : f \in fields}
  BY <1>2 DEF Drafts
<1>6. PICK choice \in [fields -> cites] : draft = {Note(f, choice[f]) : f \in fields}
  BY <1>4
<1>5. ASSUME NEW n \in draft
      PROVE  \E f \in fields : /\ n = Note(f, choice[f])
                               /\ n.field = f
                               /\ n \in NoteRows
                               /\ message[n.of] = n.text
  <2>1. PICK f \in fields : n = Note(f, choice[f])
    BY <1>6
  <2>2. PICK c \in cites : c = choice[f]
    OBVIOUS
  <2>3. n = [field |-> f, of |-> c.of, text |-> c.text, corrected |-> FALSE]
    BY <2>1, <2>2 DEF Note
  <2>4. c.of \in Messages /\ c.text \in Nat \ {0} /\ message[c.of] = c.text
    BY <1>3 DEF Cites
  <2>5. n.field = f /\ n.of = c.of /\ n.text = c.text
    BY <2>3
  <2>6. n \in NoteRows
    BY <2>3, <2>4 DEF NoteRows
  <2> QED
    BY <2>1, <2>4, <2>5, <2>6
<1> QED
  BY <1>5

(* What is saved: notes of the texts as they are, one per field, none of a *)
(* dismissed field; and a shown correction is kept, or gives way to a note *)
(* of another message.                                                     *)
LEMMA SavedNotesSound ==
    ASSUME TaskInv, NEW draft \in SUBSET NoteRows,
           \A n \in draft : message[n.of] = n.text,
           \A n, o \in draft : n.field = o.field => n = o,
           Citable(WithCorrections(draft))
    PROVE  /\ WithCorrections(draft) \subseteq NoteRows
           /\ HashesOf(WithCorrections(draft)) \subseteq Cites
           /\ NotesSound(WithCorrections(draft), HashesOf(WithCorrections(draft)), task.dismissed)
           /\ \A n \in Shown : n.corrected =>
                n \in WithCorrections(draft) \/ GivesWay(n, WithCorrections(draft))
<1>1. PICK corrected : corrected = {n \in Shown : n.corrected}
  OBVIOUS
<1>2. PICK drafted : drafted = AsDrafted(draft)
  OBVIOUS
<1>3. PICK staying : staying = {c \in corrected : ~GivesWay(c, drafted)}
  OBVIOUS
<1>4. PICK notes : notes = {n \in drafted : \A c \in staying : c.field # n.field} \cup staying
  OBVIOUS
<1>5. WithCorrections(draft) = notes
  BY <1>1, <1>2, <1>3, <1>4 DEF WithCorrections
<1>6. drafted = {n \in draft : n.field \notin task.dismissed}
  BY <1>2 DEF AsDrafted
<1>7. \A c \in staying : /\ c \in Shown /\ c \in task.notes /\ c \in NoteRows
                         /\ message[c.of] = c.text
  BY <1>1, <1>3, ShownIsCurrent
<1>8. notes \subseteq NoteRows /\ \A n \in notes : message[n.of] = n.text
  BY <1>4, <1>6, <1>7
<1>9. \A n \in notes : n.of \in Messages /\ message[n.of] \in Nat \ {0}
  BY <1>8 DEF NoteRows
<1>10. PICK hashes : hashes = {Cite(n.of) : n \in notes}
  OBVIOUS
<1>11. HashesOf(notes) = hashes
  BY <1>10 DEF HashesOf
<1>12. hashes \subseteq Cites
  BY <1>9, <1>10 DEF Cite, Cites
<1>13. \A n, o \in notes : n.field = o.field => n = o
  <2>1. \A n, o \in staying : n.field = o.field => n = o
    BY <1>7 DEF TaskInv, NotesSound
  <2>2. \A n, o \in drafted : n.field = o.field => n = o
    BY <1>6
  <2> QED
    BY <1>4, <2>1, <2>2
<1>14. \A n \in notes : n.field \notin task.dismissed
  BY <1>4, <1>6, <1>7 DEF TaskInv, NotesSound
<1>15. ASSUME NEW n \in notes PROVE \E h \in hashes : h.of = n.of
  <2>1. PICK h : h = [of |-> n.of, text |-> message[n.of]]
    OBVIOUS
  <2>2. h \in hashes /\ h.of = n.of
    BY <1>10, <2>1 DEF Cite
  <2> QED
    BY <2>2
<1>16. \A n \in notes : \A h \in hashes : h.of = n.of => h.text = n.text
  BY <1>8, <1>10 DEF Cite
<1>17. NotesSound(notes, hashes, task.dismissed)
  BY <1>13, <1>14, <1>15, <1>16 DEF NotesSound
<1>18. ASSUME NEW n \in Shown, n.corrected, n \notin notes PROVE GivesWay(n, notes)
  <2>1. PICK m \in drafted : m.field = n.field /\ m.of # n.of
    BY <1>1, <1>3, <1>4, <1>18 DEF GivesWay
  <2>2. CASE m \in notes
    BY <2>1, <2>2 DEF GivesWay
  <2>3. CASE m \notin notes
    <3>1. PICK c \in staying : c.field = m.field
      BY <1>4, <2>3
    <3>2. c.of = m.of
      BY <1>3, <3>1 DEF GivesWay
    <3>3. c \in notes
      BY <1>4
    <3> QED
      BY <2>1, <3>1, <3>2, <3>3 DEF GivesWay
  <2> QED
    BY <2>2, <2>3
<1> QED
  BY <1>5, <1>8, <1>11, <1>12, <1>17, <1>18

(* A version that is written, and what becomes of who wrote it.            *)
LEMMA WrittenKeepsTask ==
    ASSUME TaskInv, NEW notes \in SUBSET NoteRows, NEW hashes \in SUBSET Cites,
           NEW dismissed \in SUBSET Fields, NEW seen \in Nat,
           Written(notes, hashes, seen, dismissed),
           NotesSound(notes, hashes, dismissed),
           \/ summarizer' = summarizer
           \/ \E s \in Summarizers : summarizer' = [summarizer EXCEPT ![s] = Resting],
           UNCHANGED <<message, generation>>
    PROVE  TaskInv'
<1>1. PICK version \in Nat : version = task.version + 1
  BY DEF TaskInv, TaskTypes, TaskRows
<1>2. task' = [version |-> version, generation |-> seen,
               notes |-> notes, hashes |-> hashes, dismissed |-> dismissed]
  BY <1>1 DEF Written
<1>3. /\ task' \in TaskRows
      /\ task'.notes = notes /\ task'.hashes = hashes /\ task'.dismissed = dismissed
  BY <1>2 DEF TaskRows
<1>4. Resting \in SummarizerRows /\ SummarizerSound(Resting)
  BY RestingIsSound
<1>5. summarizer' \in [Summarizers -> SummarizerRows]
  BY <1>4 DEF TaskInv, TaskTypes
<1>6. \A o \in Summarizers : SummarizerSound(summarizer'[o])
  BY <1>4 DEF TaskInv, TaskTypes
<1>7. \A o \in Summarizers : SummarizerSound(summarizer[o])'
  BY <1>6 DEF SummarizerSound
<1>8. TaskTypes'
  BY <1>3, <1>5 DEF TaskInv, TaskTypes
<1>9. NotesSound(task.notes, task.hashes, task.dismissed)'
  BY <1>3 DEF NotesSound
<1> QED
  BY <1>7, <1>8, <1>9 DEF TaskInv

LEMMA SaveKeepsTask ==
    ASSUME TaskInv, NEW s \in Summarizers, NEW draft \in Drafts(s), SaveGenerated(s, draft)
    PROVE  /\ TaskInv'
           /\ \A n \in Shown : n.corrected => n \in task'.notes \/ GivesWay(n, task'.notes)
           /\ \A n \in task'.notes : n.field \notin task.dismissed
<1>1. /\ summarizer[s].generation = generation
      /\ Citable(WithCorrections(draft))
      /\ Written(WithCorrections(draft), HashesOf(WithCorrections(draft)),
                 summarizer[s].generation, task.dismissed)
      /\ summarizer' = [summarizer EXCEPT ![s] = Resting]
      /\ UNCHANGED <<message, generation>>
  BY DEF SaveGenerated, MayWrite, SummarizerEnds
<1>2. /\ draft \in SUBSET NoteRows
      /\ \A n \in draft : message[n.of] = n.text
      /\ \A n, o \in draft : n.field = o.field => n = o
  BY <1>1, DraftIsRead
<1>3. PICK notes, hashes : /\ notes = WithCorrections(draft)
                           /\ hashes = HashesOf(WithCorrections(draft))
  OBVIOUS
<1>4. /\ notes \in SUBSET NoteRows /\ hashes \in SUBSET Cites
      /\ NotesSound(notes, hashes, task.dismissed)
      /\ \A n \in Shown : n.corrected => n \in notes \/ GivesWay(n, notes)
  BY <1>1, <1>2, <1>3, SavedNotesSound
<1>5. task.dismissed \in SUBSET Fields /\ generation \in Nat
  BY DEF TaskInv, TaskTypes, TaskRows
<1>6. Written(notes, hashes, generation, task.dismissed)
  BY <1>1, <1>3
<1>7. TaskInv'
  BY <1>1, <1>4, <1>5, <1>6, WrittenKeepsTask
<1>8. task'.notes = notes
  BY <1>6 DEF Written
<1> QED
  BY <1>4, <1>7, <1>8 DEF NotesSound

LEMMA CorrectKeepsTask ==
    ASSUME TaskInv, NEW n \in task.notes, NEW dismisses \in BOOLEAN, Correct(n, dismisses)
    PROVE  /\ TaskInv'
           /\ \A o \in Shown : o.corrected => o \in task'.notes \/ o.field \in task'.dismissed
           /\ \A o \in task'.notes : o.field \notin task.dismissed
<1>1. /\ n \in Shown /\ n \in NoteRows
      /\ Shown \subseteq task.notes /\ Shown \subseteq NoteRows
      /\ NotesSound(task.notes, task.hashes, task.dismissed)
      /\ task.hashes \in SUBSET Cites /\ task.dismissed \in SUBSET Fields /\ generation \in Nat
      /\ UNCHANGED <<message, generation, summarizer>>
  BY ShownIsCurrent DEF Correct, TaskInv, TaskTypes, TaskRows
<1>2. PICK kept : kept = [n EXCEPT !.corrected = TRUE]
  OBVIOUS
<1>3. /\ kept \in NoteRows /\ kept.field = n.field /\ kept.of = n.of /\ kept.text = n.text
      /\ n.corrected => kept = n
  BY <1>1, <1>2 DEF NoteRows
<1>4. PICK notes, dismissed :
         /\ notes = (Shown \ {n}) \cup (IF dismisses THEN {} ELSE {kept})
         /\ dismissed = task.dismissed \cup (IF dismisses THEN {n.field} ELSE {})
  OBVIOUS
<1>5. Written(notes, task.hashes, generation, dismissed)
  BY <1>2, <1>4 DEF Correct
<1>6. n.field \in Fields
  BY <1>1 DEF NoteRows
<1>7. notes \in SUBSET NoteRows /\ dismissed \in SUBSET Fields
  BY <1>1, <1>3, <1>4, <1>6
<1>8. \A o \in notes : \E was \in task.notes : /\ o.field = was.field /\ o.of = was.of
                                               /\ o.text = was.text
                                               /\ was = n => ~dismisses
                                               /\ o = was \/ (was = n /\ o = kept)
  BY <1>1, <1>3, <1>4
<1>9. NotesSound(notes, task.hashes, dismissed)
  <2>1. /\ \A o \in notes : \E h \in task.hashes : h.of = o.of
        /\ \A o \in notes : \A h \in task.hashes : h.of = o.of => h.text = o.text
    BY <1>1, <1>8 DEF NotesSound
  <2>2. \A o, p \in notes : o.field = p.field => o = p
    BY <1>1, <1>3, <1>4 DEF NotesSound
  <2>3. \A o \in notes : o.field \notin dismissed
    BY <1>1, <1>4, <1>8 DEF NotesSound
  <2> QED
    BY <2>1, <2>2, <2>3 DEF NotesSound
<1>10. TaskInv'
  BY <1>1, <1>5, <1>7, <1>9, WrittenKeepsTask
<1>11. task'.notes = notes /\ task'.dismissed = dismissed
  BY <1>5 DEF Written
<1>12. \A o \in Shown : o.corrected => o \in notes \/ o.field \in dismissed
  BY <1>3, <1>4
<1>13. \A o \in notes : o.field \notin task.dismissed
  BY <1>1, <1>8 DEF NotesSound
<1> QED
  BY <1>10, <1>11, <1>12, <1>13

-----------------------------------------------------------------------------

(* Messages: whoever has read of one that is edited has read in an older   *)
(* generation.                                                             *)
LEMMA MessagesKeepTask ==
    ASSUME TaskInv, NEW m \in Messages, AddMessage(m) \/ EditMessage(m) \/ DeleteMessage(m)
    PROVE  TaskInv'
<1>1. /\ message \in [Messages -> Nat] /\ generation \in Nat
      /\ UNCHANGED <<task, summarizer>>
      /\ summarizer \in [Summarizers -> SummarizerRows]
  BY DEF TaskInv, TaskTypes, AddMessage, EditMessage, DeleteMessage
<1>2. message' \in [Messages -> Nat] /\ generation' \in Nat
  <2>1. CASE AddMessage(m)
    BY <1>1, <2>1 DEF AddMessage
  <2>2. CASE EditMessage(m)
    <3>1. PICK text \in Nat : text = message[m] + 1
      BY <1>1
    <3>2. message' = [message EXCEPT ![m] = text] /\ generation' = generation + 1
      BY <2>2, <3>1 DEF EditMessage
    <3> QED
      BY <1>1, <3>2
  <2>3. CASE DeleteMessage(m)
    <3>1. PICK gone \in Nat : gone = Deleted
      BY TaskAssumption DEF Deleted
    <3>2. message' = [message EXCEPT ![m] = gone] /\ generation' = generation + 1
      BY <2>3, <3>1 DEF DeleteMessage
    <3> QED
      BY <1>1, <3>2
  <2> QED
    BY <2>1, <2>2, <2>3
<1>3. TaskTypes'
  BY <1>1, <1>2 DEF TaskInv, TaskTypes
<1>4. ASSUME NEW s \in Summarizers PROVE SummarizerSound(summarizer[s])'
  <2>1. /\ summarizer[s] \in SummarizerRows /\ SummarizerSound(summarizer[s])
        /\ summarizer'[s] = summarizer[s]
        /\ summarizer[s].generation \in Nat
    BY <1>1 DEF TaskInv, SummarizerRows
  <2>2. CASE AddMessage(m)
    <3>1. /\ message[m] = 0 /\ generation' = generation
          /\ \A o \in Messages : o # m => message'[o] = message[o]
      BY <1>1, <2>2 DEF AddMessage
    <3>2. /\ \A n \in summarizer[s].kept : n.of \in Messages /\ n.text # 0
          /\ \A c \in summarizer[s].texts : c.of \in Messages /\ c.text # 0
      BY <2>1 DEF SummarizerRows, NoteRows, Cites
    <3> QED
      BY <2>1, <3>1, <3>2 DEF SummarizerSound
  <2>3. CASE EditMessage(m) \/ DeleteMessage(m)
    <3>1. generation' = generation + 1
      BY <2>3 DEF EditMessage, DeleteMessage
    <3>2. summarizer[s].generation <= generation' /\ summarizer[s].generation # generation'
      BY <1>1, <2>1, <3>1 DEF SummarizerSound
    <3> QED
      BY <2>1, <3>2 DEF SummarizerSound
  <2> QED
    BY <2>2, <2>3
<1> QED
  BY <1>1, <1>3, <1>4 DEF TaskInv

LEMMA TaskStep ==
    ASSUME TaskInv, [TaskNext]_taskVars
    PROVE  /\ TaskInv'
           /\ \A n \in Shown : n.corrected =>
                \/ n \in task'.notes
                \/ n.field \in task'.dismissed
                \/ GivesWay(n, task'.notes)
           /\ \A n \in task'.notes : n.field \notin task.dismissed
<1>1. \A n \in task.notes : n.field \notin task.dismissed
  BY DEF TaskInv, NotesSound
<1>2. CASE UNCHANGED taskVars
  <2>1. UNCHANGED message /\ UNCHANGED generation /\ UNCHANGED task /\ UNCHANGED summarizer
    BY <1>2 DEF taskVars
  <2>2. TaskInv'
    BY <2>1 DEF TaskInv, TaskTypes, NotesSound, SummarizerSound
  <2> QED
    BY <1>1, <2>1, <2>2 DEF Shown
<1>3. ASSUME NEW s \in Summarizers, ReadState(s) \/ ReadSources(s) \/ RefuseSave(s)
      PROVE  TaskInv' /\ task' = task
  BY <1>3, ReadsKeepTask DEF ReadState, ReadSources, RefuseSave
<1>4. ASSUME NEW m \in Messages, AddMessage(m) \/ EditMessage(m) \/ DeleteMessage(m)
      PROVE  TaskInv' /\ task' = task
  BY <1>4, MessagesKeepTask DEF AddMessage, EditMessage, DeleteMessage
<1>5. CASE TaskInv' /\ task' = task
  BY <1>1, <1>5 DEF Shown
<1>6. CASE \E s \in Summarizers : \E draft \in Drafts(s) : SaveGenerated(s, draft)
  BY <1>6, SaveKeepsTask
<1>7. CASE \E n \in task.notes, dismisses \in BOOLEAN : Correct(n, dismisses)
  BY <1>7, CorrectKeepsTask
<1> QED
  BY <1>2, <1>3, <1>4, <1>5, <1>6, <1>7 DEF TaskNext

(* What of the rolling task is shown is of the texts as they are, for any  *)
(* messages, fields, summarizers and bounds.                               *)
THEOREM ShownNotesStayCurrent == TaskSpec => []ShownNotesAreCurrent
<1>1. TaskInv => ShownNotesAreCurrent
  BY ShownIsCurrent DEF ShownNotesAreCurrent
<1>2. TaskInv /\ [TaskNext]_taskVars => TaskInv'
  BY TaskStep
<1> QED
  BY <1>1, <1>2, TaskInitially, PTL DEF TaskSpec

(* The reader's corrections and dismissals stand through every rebuild,    *)
(* for any messages, fields, summarizers and bounds.                       *)
THEOREM CorrectionsAlwaysSurvive == TaskSpec => CorrectionsSurvive
<1> DEFINE Survives ==
             /\ \A n \in Shown : n.corrected =>
                  \/ n \in task'.notes
                  \/ n.field \in task'.dismissed
                  \/ GivesWay(n, task'.notes)
             /\ \A n \in task'.notes : n.field \notin task.dismissed
<1>1. TaskInv /\ [TaskNext]_taskVars => TaskInv' /\ Survives
  BY TaskStep
<1>2. TaskInv /\ [TaskNext]_taskVars => [Survives]_taskVars
  BY <1>1
<1>3. TaskInv /\ [TaskNext]_taskVars => TaskInv'
  BY <1>1
<1> HIDE DEF Survives
<1>4. TaskSpec => [][Survives]_taskVars
  BY <1>2, <1>3, TaskInitially, PTL DEF TaskSpec
<1> QED
  BY <1>4 DEF Survives, CorrectionsSurvive

-----------------------------------------------------------------------------
(* SavedFacts                                                              *)

Actions == {"save", "suggest", "accept", "forget"}
FactStates == {"absent", "active", "suggested", "forgotten"}
Sources == FactMessages \cup {NoMessage}
FactRows == [state : FactStates, version : Nat, source : Sources, sourceKey : Sources]
AskedRows == [at : {"unsent", "sent", "refused"}, of : Facts \cup {Unsent.of},
              action : Actions, expected : Nat, source : Sources]
ChangeRows == [key : FactKeys, of : Facts, action : Actions, version : Nat,
               source : Sources, had : Sources]

FactTypes ==
    /\ fact \in [Facts -> FactRows]
    /\ changes \in Seq(ChangeRows)
    /\ change \in [FactKeys -> AskedRows]
    /\ \A k \in FactKeys : change[k].at # "unsent" => change[k].of \in Facts
    /\ recalled \in [Facts -> Nat]

(* Where in a sequence of changes those of a fact are.                     *)
PlacesOf(seq, f) == {i \in DOMAIN seq : seq[i].of = f}

(* The rows are what the changes have made of them.                        *)
ChangesSound ==
    /\ \A i \in DOMAIN changes : changes[i].action = "forget" =>
         fact[changes[i].of].state = "forgotten"
    /\ \A i \in DOMAIN changes : changes[i].version <= fact[changes[i].of].version
    /\ \A f \in Facts : IsFiniteSet(PlacesOf(changes, f))
    /\ \A f \in Facts : fact[f].version = Cardinality(PlacesOf(changes, f))

(* What is active, or was recalled, was saved or accepted.                 *)
SavedAs(seq, f, version) ==
    \E i \in DOMAIN seq : /\ seq[i].of = f
                          /\ seq[i].version = version
                          /\ seq[i].action \in {"save", "accept"}

RecallSound ==
    /\ \A f \in ActiveFacts : SavedAs(changes, f, fact[f].version)
    /\ \A f \in Facts : recalled[f] > 0 => SavedAs(changes, f, recalled[f])

KeysSound ==
    /\ \A i, j \in DOMAIN changes : changes[i].key = changes[j].key => i = j
    /\ \A k \in FactKeys : change[k].at = "refused" => ~Recorded(k)

(* Nothing is done after a fact is forgotten that it forbids.              *)
ForgetSound ==
    \A i, j \in DOMAIN changes :
      i < j /\ changes[i].action = "forget" =>
        /\ changes[j].of # changes[i].of
        /\ changes[j].source \notin {fact[changes[i].of].sourceKey} \ {NoMessage}

FactInv == FactTypes /\ ChangesSound /\ RecallSound /\ KeysSound /\ ForgetSound

-----------------------------------------------------------------------------

LEMMA ChangesAppended ==
    ASSUME NEW rows, NEW seq \in Seq(rows), NEW row \in rows
    PROVE  LET longer == Append(seq, row) IN
           /\ longer \in Seq(rows)
           /\ Len(seq) + 1 \notin DOMAIN seq
           /\ DOMAIN longer = DOMAIN seq \cup {Len(seq) + 1}
           /\ \A i \in DOMAIN seq : i < Len(seq) + 1
           /\ \A i \in DOMAIN seq : i \in Nat
           /\ \A i \in DOMAIN seq : longer[i] = seq[i]
           /\ longer[Len(seq) + 1] = row
OBVIOUS

LEMMA FactInitially == FactInit => FactInv
<1> SUFFICES ASSUME FactInit PROVE FactInv
  OBVIOUS
<1>1. NoFact \in FactRows /\ NoFact.version = 0 /\ NoFact.state = "absent"
  BY DEF NoFact, FactRows, FactStates, Sources
<1>2. Unsent \in AskedRows /\ Unsent.at = "unsent"
  BY DEF Unsent, AskedRows, Actions, Sources
<1>3. changes = <<>> /\ changes \in Seq(ChangeRows) /\ DOMAIN changes = {}
  BY DEF FactInit
<1>4. FactTypes
  BY <1>1, <1>2, <1>3 DEF FactInit, FactTypes
<1>5. \A f \in Facts : PlacesOf(changes, f) = {}
  BY <1>3 DEF PlacesOf
<1>6. ChangesSound
  BY <1>1, <1>3, <1>5, FS_EmptySet DEF FactInit, ChangesSound
<1>7. RecallSound
  BY <1>1 DEF FactInit, RecallSound, ActiveFacts
<1>8. KeysSound /\ ForgetSound
  BY <1>2, <1>3 DEF FactInit, KeysSound, ForgetSound
<1> QED
  BY <1>4, <1>6, <1>7, <1>8 DEF FactInv

(* Steps that change one request, and nothing that is saved.               *)
LEMMA RequestKeepsFacts ==
    ASSUME FactInv, NEW k \in FactKeys, NEW asked \in AskedRows,
           asked.at # "unsent" => asked.of \in Facts,
           asked.at = "refused" => ~Recorded(k),
           change' = [change EXCEPT ![k] = asked],
           UNCHANGED <<fact, changes, recalled>>
    PROVE  FactInv'
<1>1. \A o \in FactKeys : change'[o] = IF o = k THEN asked ELSE change[o]
  BY DEF FactInv, FactTypes
<1>2. FactTypes'
  BY <1>1 DEF FactInv, FactTypes
<1>3. \A o \in FactKeys : Recorded(o)' <=> Recorded(o)
  BY DEF Recorded
<1>4. KeysSound'
  BY <1>1, <1>3 DEF FactInv, KeysSound
<1>5. ChangesSound' /\ RecallSound' /\ ForgetSound'
  BY DEF FactInv, ChangesSound, RecallSound, ForgetSound, PlacesOf, SavedAs, ActiveFacts
<1> QED
  BY <1>2, <1>4, <1>5 DEF FactInv

LEMMA AskKeepsFacts ==
    ASSUME FactInv, NEW k \in FactKeys, NEW f \in Facts, NEW action \in Actions,
           NEW source \in Sources, AskChange(k, f, action, source)
    PROVE  FactInv'
<1>1. PICK version \in Nat : version = fact[f].version
  BY DEF FactInv, FactTypes, FactRows
<1>2. PICK asked : asked = [at |-> "sent", of |-> f, action |-> action,
                            expected |-> version, source |-> source]
  OBVIOUS
<1>3. asked \in AskedRows /\ asked.at = "sent" /\ asked.of = f
  BY <1>2 DEF AskedRows
<1>4. /\ change' = [change EXCEPT ![k] = asked]
      /\ UNCHANGED <<fact, changes, recalled>>
  BY <1>1, <1>2 DEF AskChange
<1> QED
  BY <1>3, <1>4, RequestKeepsFacts

LEMMA GoesKeepsFacts ==
    ASSUME FactInv, NEW k \in FactKeys, NEW place \in {"sent", "refused"},
           change[k].at # "unsent",
           place = "refused" => ~Recorded(k),
           ChangeGoes(k, place),
           UNCHANGED <<fact, changes, recalled>>
    PROVE  FactInv'
<1>1. change[k] \in AskedRows /\ change[k].of \in Facts
  BY DEF FactInv, FactTypes
<1>2. PICK asked : asked = [change[k] EXCEPT !.at = place]
  OBVIOUS
<1>3. asked \in AskedRows /\ asked.at = place /\ asked.of = change[k].of
  BY <1>1, <1>2 DEF AskedRows
<1>4. change' = [change EXCEPT ![k] = asked]
  BY <1>2 DEF ChangeGoes
<1> QED
  BY <1>1, <1>3, <1>4, RequestKeepsFacts

LEMMA CommitKeepsFacts ==
    ASSUME FactInv, NEW k \in FactKeys, change[k].at = "sent", ~Recorded(k),
           Preflight(change[k]), CommitChange(k), UNCHANGED <<change, recalled>>
    PROVE  FactInv'
<1>1. PICK f \in Facts : f = change[k].of
  BY DEF FactInv, FactTypes
<1>2. PICK action \in Actions : action = change[k].action
  BY DEF FactInv, FactTypes, AskedRows
<1>3. PICK source \in Sources : source = change[k].source
  BY DEF FactInv, FactTypes, AskedRows
<1>4. PICK old \in FactRows : old = fact[f]
  BY DEF FactInv, FactTypes
<1>5. PICK version \in Nat : version = old.version + 1
  BY DEF FactRows
<1>6. /\ old.version = change[k].expected
      /\ old.state # "forgotten"
      /\ source # NoMessage => ~ForgottenSource(source)
  BY <1>1, <1>3, <1>4 DEF Preflight
<1>7. PICK now : now = After(old, change[k])
  OBVIOUS
<1>8. /\ now \in FactRows /\ now.version = version
      /\ now.state = StateAfter(action)
  <2>1. now = [state |-> StateAfter(action), version |-> version,
               source |-> IF action = "forget" THEN NoMessage
                          ELSE IF source # NoMessage THEN source ELSE old.source,
               sourceKey |-> IF old.sourceKey # NoMessage THEN old.sourceKey ELSE source]
    BY <1>2, <1>3, <1>5, <1>6, <1>7 DEF After
  <2>2. StateAfter(action) \in FactStates
    BY DEF StateAfter, FactStates
  <2>3. old.source \in Sources /\ old.sourceKey \in Sources /\ NoMessage \in Sources
    BY DEF FactRows, Sources
  <2>4. PICK from \in Sources :
           from = IF action = "forget" THEN NoMessage
                  ELSE IF source # NoMessage THEN source ELSE old.source
    BY <2>3
  <2>5. PICK key \in Sources :
           key = IF old.sourceKey # NoMessage THEN old.sourceKey ELSE source
    BY <2>3
  <2>6. now = [state |-> StateAfter(action), version |-> version,
               source |-> from, sourceKey |-> key]
    BY <2>1, <2>4, <2>5
  <2> QED
    BY <2>2, <2>6 DEF FactRows
<1>9. fact' = [fact EXCEPT ![f] = now]
  BY <1>1, <1>4, <1>7 DEF CommitChange
<1>10. PICK row : row = [key |-> k, of |-> f, action |-> action, version |-> version,
                         source |-> source, had |-> old.source]
  OBVIOUS
<1>11. /\ row \in ChangeRows
       /\ row.key = k /\ row.of = f /\ row.action = action
       /\ row.version = version /\ row.source = source
  BY <1>10 DEF ChangeRows, FactRows
<1>12. changes' = Append(changes, row)
  BY <1>1, <1>2, <1>3, <1>4, <1>5, <1>6, <1>10 DEF CommitChange
<1>13. changes \in Seq(ChangeRows)
  BY DEF FactInv, FactTypes
<1>14. PICK n : n = Len(changes) + 1
  OBVIOUS
<1>15. /\ changes' \in Seq(ChangeRows)
       /\ n \notin DOMAIN changes
       /\ DOMAIN changes' = DOMAIN changes \cup {n}
       /\ \A i \in DOMAIN changes : i < n
       /\ \A i \in DOMAIN changes : i \in Nat
       /\ \A i \in DOMAIN changes : changes'[i] = changes[i]
       /\ changes'[n] = row
  BY <1>11, <1>12, <1>13, <1>14, ChangesAppended
<1>16. \A g \in Facts : fact'[g] = IF g = f THEN now ELSE fact[g]
  BY <1>9 DEF FactInv, FactTypes
<1>17. \A i \in DOMAIN changes : changes[i] \in ChangeRows /\ changes[i].of \in Facts
  <2>1. \A i \in DOMAIN changes : changes[i] \in ChangeRows
    BY <1>13
  <2>2. \A r \in ChangeRows : r.of \in Facts
    BY DEF ChangeRows
  <2> QED
    BY <2>1, <2>2
<1>18. FactTypes'
  BY <1>8, <1>9, <1>15 DEF FactInv, FactTypes
<1>19. \A i \in DOMAIN changes : changes[i].action = "forget" =>
          changes[i].of # f /\ fact[changes[i].of].state = "forgotten"
  BY <1>4, <1>6 DEF FactInv, ChangesSound
<1>20. ChangesSound'
  <2>1. \A i \in DOMAIN changes' : changes'[i].action = "forget" =>
          fact'[changes'[i].of].state = "forgotten"
    <3>1. action = "forget" => now.state = "forgotten"
      BY <1>8 DEF StateAfter
    <3> QED
      BY <1>11, <1>15, <1>16, <1>17, <1>19, <3>1
  <2>2. \A i \in DOMAIN changes' : changes'[i].version <= fact'[changes'[i].of].version
    <3>1. \A i \in DOMAIN changes : changes[i].version \in Nat
                                 /\ changes[i].version <= fact[changes[i].of].version
      BY <1>17 DEF FactInv, ChangesSound, ChangeRows
    <3>2. ASSUME NEW i \in DOMAIN changes
          PROVE  changes[i].version <= fact'[changes[i].of].version
      BY <1>4, <1>5, <1>8, <1>16, <1>17, <3>1 DEF FactRows
    <3> QED
      BY <1>8, <1>11, <1>15, <1>16, <3>2
  <2>3. ASSUME NEW g \in Facts
        PROVE  /\ IsFiniteSet(PlacesOf(changes', g))
               /\ fact'[g].version = Cardinality(PlacesOf(changes', g))
    <3>1. /\ IsFiniteSet(PlacesOf(changes, g))
          /\ fact[g].version = Cardinality(PlacesOf(changes, g))
      BY DEF FactInv, ChangesSound
    <3>2. CASE g = f
      <4>1. PlacesOf(changes', g) = PlacesOf(changes, g) \cup {n}
        BY <1>11, <1>15, <3>2 DEF PlacesOf
      <4>2. n \notin PlacesOf(changes, g)
        BY <1>15 DEF PlacesOf
      <4>3. /\ IsFiniteSet(PlacesOf(changes, g) \cup {n})
            /\ Cardinality(PlacesOf(changes, g) \cup {n})
                 = Cardinality(PlacesOf(changes, g)) + 1
        BY <3>1, <4>2, FS_AddElement
      <4> QED
        BY <1>4, <1>5, <1>8, <1>16, <3>1, <3>2, <4>1, <4>3
    <3>3. CASE g # f
      <4>1. PlacesOf(changes', g) = PlacesOf(changes, g)
        BY <1>11, <1>15, <3>3 DEF PlacesOf
      <4> QED
        BY <1>16, <3>1, <3>3, <4>1
    <3> QED
      BY <3>2, <3>3
  <2> QED
    BY <2>1, <2>2, <2>3 DEF ChangesSound
<1>21. RecallSound'
  <2>1. ASSUME NEW g \in Facts, NEW v, SavedAs(changes, g, v) PROVE SavedAs(changes', g, v)
    BY <1>15, <2>1 DEF SavedAs
  <2>2. ASSUME NEW g \in Facts, fact'[g].state = "active"
        PROVE  SavedAs(changes', g, fact'[g].version)
    <3>1. CASE g = f
      <4>1. now.state = "active" /\ fact'[g].version = version
        BY <1>8, <1>16, <2>2, <3>1
      <4>2. action \in {"save", "accept"}
        BY <1>8, <4>1 DEF StateAfter, Actions
      <4> QED
        BY <1>11, <1>15, <3>1, <4>1, <4>2 DEF SavedAs
    <3>2. CASE g # f
      <4>1. fact'[g] = fact[g] /\ SavedAs(changes, g, fact[g].version)
        BY <1>16, <2>2, <3>2 DEF FactInv, RecallSound, ActiveFacts
      <4> QED
        BY <2>1, <4>1
    <3> QED
      BY <3>1, <3>2
  <2>3. \A g \in Facts : recalled[g] > 0 => SavedAs(changes', g, recalled[g])
    BY <2>1 DEF FactInv, RecallSound
  <2> QED
    BY <2>2, <2>3 DEF RecallSound, ActiveFacts
<1>22. KeysSound'
  <2>1. \A i \in DOMAIN changes : changes[i].key # k
    BY DEF Recorded
  <2>2. \A i, j \in DOMAIN changes : changes[i].key = changes[j].key => i = j
    BY DEF FactInv, KeysSound
  <2>3. \A i, j \in DOMAIN changes' : changes'[i].key = changes'[j].key => i = j
    BY <1>11, <1>15, <2>1, <2>2
  <2>4. ASSUME NEW o \in FactKeys, change[o].at = "refused"
        PROVE  ~ \E i \in DOMAIN changes' : changes'[i].key = o
    <3>1. o # k /\ ~ \E i \in DOMAIN changes : changes[i].key = o
      BY <2>4 DEF FactInv, KeysSound, Recorded
    <3> QED
      BY <1>11, <1>15, <3>1
  <2> QED
    BY <2>3, <2>4 DEF KeysSound, Recorded
<1>23. ForgetSound'
  <2>1. ASSUME NEW i \in DOMAIN changes, changes[i].action = "forget"
        PROVE  /\ f # changes[i].of
               /\ source \notin {fact[changes[i].of].sourceKey} \ {NoMessage}
               /\ fact'[changes[i].of] = fact[changes[i].of]
    BY <1>6, <1>16, <1>17, <1>19, <2>1 DEF ForgottenSource
  <2>2. ASSUME NEW i \in DOMAIN changes', NEW j \in DOMAIN changes', i < j,
               changes'[i].action = "forget"
        PROVE  /\ changes'[j].of # changes'[i].of
               /\ changes'[j].source \notin {fact'[changes'[i].of].sourceKey} \ {NoMessage}
    <3>1. i \in DOMAIN changes /\ changes'[i] = changes[i]
      BY <1>13, <1>14, <1>15, <2>2
    <3>2. CASE j \in DOMAIN changes
      BY <1>15, <2>1, <2>2, <3>1, <3>2 DEF FactInv, ForgetSound
    <3>3. CASE j = n
      BY <1>11, <1>15, <2>1, <2>2, <3>1, <3>3
    <3> QED
      BY <1>15, <3>2, <3>3
  <2> QED
    BY <2>2 DEF ForgetSound
<1> QED
  BY <1>18, <1>20, <1>21, <1>22, <1>23 DEF FactInv

LEMMA RecallKeepsFacts ==
    ASSUME FactInv, NEW found \in SUBSET Facts, Recall(found)
    PROVE  FactInv'
<1>1. \A f \in Facts : recalled'[f] = IF f \in found THEN fact[f].version ELSE recalled[f]
  BY DEF Recall
<1>2. recalled' \in [Facts -> Nat]
  BY DEF Recall, FactInv, FactTypes, FactRows
<1>3. UNCHANGED fact /\ UNCHANGED changes /\ UNCHANGED change
  BY DEF Recall
<1>4. \A f \in found : SavedAs(changes, f, fact[f].version)
  BY DEF Recall, FactInv, RecallSound
<1>5. \A f \in Facts : recalled'[f] > 0 => SavedAs(changes, f, recalled'[f])
  BY <1>1, <1>4 DEF FactInv, RecallSound
<1>6. RecallSound'
  BY <1>3, <1>5 DEF FactInv, RecallSound, SavedAs, ActiveFacts
<1>7. FactTypes' /\ ChangesSound' /\ KeysSound' /\ ForgetSound'
  BY <1>2, <1>3 DEF FactInv, FactTypes, ChangesSound, KeysSound, ForgetSound, PlacesOf, Recorded
<1> QED
  BY <1>6, <1>7 DEF FactInv

LEMMA FactStep ==
    ASSUME FactInv, [FactNext]_factVars
    PROVE  FactInv'
<1>1. CASE UNCHANGED factVars
  <2>1. UNCHANGED fact /\ UNCHANGED changes /\ UNCHANGED change /\ UNCHANGED recalled
    BY <1>1 DEF factVars
  <2>2. FactTypes' /\ ChangesSound' /\ RecallSound' /\ KeysSound' /\ ForgetSound'
    BY <2>1 DEF FactInv, FactTypes, ChangesSound, KeysSound, ForgetSound, RecallSound,
                PlacesOf, Recorded, SavedAs, ActiveFacts
  <2> QED
    BY <2>2 DEF FactInv
<1>2. ASSUME NEW k \in FactKeys, NEW f \in Facts,
             NEW action \in {"save", "suggest", "accept", "forget"},
             NEW source \in FactMessages \cup {NoMessage}, AskChange(k, f, action, source)
      PROVE  FactInv'
  BY <1>2, AskKeepsFacts DEF Actions, Sources
<1>3. ASSUME NEW k \in FactKeys, ReplayChange(k) PROVE UNCHANGED factVars
  BY <1>3 DEF ReplayChange
<1>4. ASSUME NEW k \in FactKeys, ChangeFact(k) PROVE FactInv'
  <2>1. CASE Preflight(change[k])
    BY <1>4, <2>1, CommitKeepsFacts DEF ChangeFact
  <2>2. CASE ~Preflight(change[k])
    BY <1>4, <2>2, GoesKeepsFacts DEF ChangeFact, RefuseChange
  <2> QED
    BY <2>1, <2>2
<1>5. ASSUME NEW k \in FactKeys, SendAgain(k) PROVE FactInv'
  BY <1>5, GoesKeepsFacts DEF SendAgain
<1>6. ASSUME NEW found \in SUBSET Facts, Recall(found) PROVE FactInv'
  BY <1>6, RecallKeepsFacts
<1> QED
  BY <1>1, <1>2, <1>3, <1>4, <1>5, <1>6 DEF FactNext

(* Nothing brings a forgotten fact back, and a turn uses what was accepted *)
(* and is current, for any facts, messages and requests.                   *)
THEOREM ForgottenFactsStayForgotten ==
    FactSpec => [](ForgottenStaysForgotten /\ OnlyAcceptedIsRecalled)
<1>1. FactInv => ForgottenStaysForgotten
  BY DEF FactInv, ForgottenStaysForgotten, ChangesSound, KeysSound, ForgetSound, PlacesOf
<1>2. FactInv => OnlyAcceptedIsRecalled
  <2> SUFFICES ASSUME FactInv PROVE OnlyAcceptedIsRecalled
    OBVIOUS
  <2>1. \A f \in Facts : recalled[f] > 0 => SavedAs(changes, f, recalled[f])
    BY DEF FactInv, RecallSound
  <2>2. \A i \in DOMAIN changes : changes[i].version <= fact[changes[i].of].version
    BY DEF FactInv, ChangesSound
  <2> QED
    BY <2>1, <2>2 DEF OnlyAcceptedIsRecalled, SavedAs, Used
<1>3. FactInv /\ [FactNext]_factVars => FactInv'
  BY FactStep
<1> QED
  BY <1>1, <1>2, <1>3, FactInitially, PTL DEF FactSpec

-----------------------------------------------------------------------------
(* ChatSkills                                                              *)

SkillRevisions == [of : SkillDocuments \cup Resources \cup {NoDocument}, number : Nat]
ActivationRows ==
    [at : {"waiting", "found", "load", "pin", "loaded", "answered"}, thing : Things,
     document : SkillDocuments \cup {NoDocument}, after : SUBSET Activations,
     seen : [Things -> SkillRevisions], loads : [Things -> SkillRevisions]]

SkillTypes ==
    /\ head \in [SkillDocuments \cup Resources -> Nat \ {0}]
    /\ registered \in SkillDocuments \cup {NoDocument}
    /\ pinned \in [Things -> SkillRevisions]
    /\ activation \in [Activations -> ActivationRows]

IsSet(revisions, t) == revisions[t] # NoRevision
UnderWay(row) == row.at \in {"load", "pin", "loaded"}

(* What a call has read and loaded, given the pins: a pin it has seen is   *)
(* the pin, and what it has loaded is pinned once it is past its pin.      *)
PinsSound(row, pins) ==
    /\ UnderWay(row) => \A t \in Things : IsSet(row.seen, t) => row.seen[t] = pins[t]
    /\ \A t \in Things : IsSet(row.loads, t) =>
         IsSet(pins, t) \/ (row.at = "pin" /\ row.thing = t)
    /\ row.at = "pin" => IsSet(row.loads, row.thing) /\ ~IsSet(row.seen, row.thing)

(* It loads the skill first, and then what that revision refers to.        *)
OrderSound(row) ==
    /\ row.at # "waiting" => row.document \in SkillDocuments
    /\ row.at \in {"waiting", "found"} => row.thing = "skill" /\ ~IsSet(row.loads, "skill")
    /\ row.at = "load" => ~IsSet(row.loads, row.thing)
    /\ row.at \in {"pin", "loaded", "answered"} \/ row.thing # "skill" => IsSet(row.loads, "skill")
    /\ IsSet(row.loads, "skill") => row.loads["skill"].of = row.document

ReferencesSound(row) ==
    /\ \A t \in Things \ {"skill"} : IsSet(row.loads, t) \/ row.thing = t =>
         IsSet(row.loads, "skill")
    /\ \A t \in Things \ {"skill"} : IsSet(row.loads, t) \/ (row.at = "load" /\ row.thing = t) =>
         <<row.loads["skill"], t>> \in References
    /\ row.at = "answered" =>
         \A r \in Resources : <<row.loads["skill"], r>> \in References => IsSet(row.loads, r)

(* Whatever a call that answered before had loaded was pinned when this    *)
(* one read the pins, so this one has seen the pin and loads it.           *)
AfterSound(row, rows, pins) ==
    \A first \in row.after :
      /\ rows[first].at = "answered"
      /\ \A t \in Things : IsSet(rows[first].loads, t) =>
           /\ UnderWay(row) => IsSet(row.seen, t)
           /\ IsSet(row.loads, t) => row.loads[t] = pins[t]

ActivationSound(row, rows, pins) ==
    PinsSound(row, pins) /\ OrderSound(row) /\ ReferencesSound(row) /\ AfterSound(row, rows, pins)

SkillInv ==
    SkillTypes /\ \A c \in Activations : ActivationSound(activation[c], activation, pinned)

LEMMA SkillIsThing == "skill" \in Things /\ \A t \in Things : t = "skill" \/ t \in Resources
BY DEF Things

LEMMA NothingIsRead ==
    NothingRead \in [Things -> SkillRevisions] /\ \A t \in Things : NothingRead[t] = NoRevision
BY DEF NothingRead, NoRevision, SkillRevisions

(* A call that has loaded nothing and waits for no pin.                    *)
LEMMA BeginningIsSound ==
    ASSUME NEW row, NEW pins, row.at \in {"waiting", "found"}, row.thing = "skill",
           row.at = "found" => row.document \in SkillDocuments, row.loads = NothingRead,
           \A first \in row.after : activation[first].at = "answered"
    PROVE  ActivationSound(row, activation, pins)
<1>1. \A t \in Things : ~IsSet(row.loads, t)
  BY NothingIsRead DEF IsSet
<1>2. PinsSound(row, pins) /\ OrderSound(row)
  BY <1>1, SkillIsThing DEF PinsSound, OrderSound, UnderWay
<1>3. ReferencesSound(row)
  BY <1>1 DEF ReferencesSound
<1>4. AfterSound(row, activation, pins)
  BY <1>1 DEF AfterSound, UnderWay
<1> QED
  BY <1>2, <1>3, <1>4 DEF ActivationSound

LEMMA WaitingIsSound ==
    ASSUME NEW pins
    PROVE  WaitingActivation \in ActivationRows
           /\ ActivationSound(WaitingActivation, activation, pins)
<1>1. /\ WaitingActivation.at = "waiting" /\ WaitingActivation.thing = "skill"
      /\ WaitingActivation.loads = NothingRead /\ WaitingActivation.after = {}
  BY DEF WaitingActivation
<1>2. WaitingActivation \in ActivationRows
  BY NothingIsRead, SkillIsThing DEF WaitingActivation, ActivationRows
<1> QED
  BY <1>1, <1>2, BeginningIsSound

LEMMA SkillInitially == SkillInit => SkillInv
<1> SUFFICES ASSUME SkillInit PROVE SkillInv
  OBVIOUS
<1>1. SkillTypes
  BY NothingIsRead, WaitingIsSound DEF SkillInit, SkillTypes
<1>2. ASSUME NEW c \in Activations PROVE ActivationSound(activation[c], activation, pinned)
  BY WaitingIsSound DEF SkillInit
<1> QED
  BY <1>1, <1>2 DEF SkillInv

(* A step of one call: pins only appear, and no call that has answered     *)
(* takes a step, so the others stay sound.                                 *)
LEMMA CallStep ==
    ASSUME SkillInv, NEW c \in Activations, activation[c].at # "answered",
           NEW row \in ActivationRows, ActivationSound(row, activation, pinned'),
           activation' = [activation EXCEPT ![c] = row],
           pinned' \in [Things -> SkillRevisions],
           \A t \in Things : IsSet(pinned, t) => pinned'[t] = pinned[t],
           UNCHANGED <<head, registered>>
    PROVE  SkillInv'
<1>1. SkillTypes'
  BY DEF SkillInv, SkillTypes
<1>2. \A o \in Activations : activation'[o] = IF o = c THEN row ELSE activation[o]
  BY DEF SkillInv, SkillTypes
<1>3. ASSUME NEW o \in Activations PROVE ActivationSound(activation'[o], activation, pinned')
  <2>1. CASE o = c
    BY <1>2, <2>1
  <2>2. CASE o # c
    <3>1. activation'[o] = activation[o] /\ activation[o] \in ActivationRows
          /\ ActivationSound(activation[o], activation, pinned)
      BY <1>2, <2>2 DEF SkillInv, SkillTypes
    <3>2. PinsSound(activation[o], pinned')
      BY <3>1 DEF ActivationSound, PinsSound, IsSet
    <3>3. AfterSound(activation[o], activation, pinned')
      <4> SUFFICES ASSUME NEW first \in activation[o].after, NEW t \in Things,
                          IsSet(activation[first].loads, t), IsSet(activation[o].loads, t)
                   PROVE  activation[o].loads[t] = pinned'[t]
        BY <3>1 DEF ActivationSound, AfterSound
      <4>1. activation[o].loads[t] = pinned[t]
        BY <3>1 DEF ActivationSound, AfterSound
      <4> QED
        BY <4>1 DEF IsSet
    <3> QED
      BY <3>1, <3>2, <3>3 DEF ActivationSound
  <2> QED
    BY <2>1, <2>2
<1>4. ASSUME NEW o \in Activations PROVE AfterSound(activation'[o], activation', pinned')
  <2>1. AfterSound(activation'[o], activation, pinned')
    BY <1>3 DEF ActivationSound
  <2>2. activation'[o] \in ActivationRows
    BY <1>1 DEF SkillTypes
  <2>3. ASSUME NEW first \in activation'[o].after PROVE activation'[first] = activation[first]
    <3>1. first \in Activations /\ activation[first].at = "answered"
      BY <2>1, <2>2 DEF AfterSound, ActivationRows
    <3> QED
      BY <1>2, <3>1
  <2> QED
    BY <2>1, <2>3 DEF AfterSound
<1>5. \A o \in Activations : ActivationSound(activation'[o], activation', pinned')
  BY <1>3, <1>4 DEF ActivationSound
<1> QED
  BY <1>1, <1>5 DEF SkillInv

LEMMA RegistrationSteps ==
    ASSUME SkillInv, (\E d \in SkillDocuments : Register(d)) \/ Unregister
                     \/ \E d \in DOMAIN head : EditSkillDocument(d)
    PROVE  SkillInv'
<1>1. SkillTypes'
  <2>1. CASE (\E d \in SkillDocuments : Register(d)) \/ Unregister
    BY <2>1 DEF Register, Unregister, SkillInv, SkillTypes
  <2>2. ASSUME NEW d \in DOMAIN head, EditSkillDocument(d) PROVE SkillTypes'
    <3>1. d \in SkillDocuments \cup Resources
      BY DEF SkillInv, SkillTypes
    <3>2. PICK n \in Nat \ {0} : n = head[d] + 1
      BY <3>1 DEF SkillInv, SkillTypes
    <3>3. head' = [head EXCEPT ![d] = n]
      BY <2>2, <3>2 DEF EditSkillDocument
    <3> QED
      BY <2>2, <3>3 DEF EditSkillDocument, SkillInv, SkillTypes
  <2> QED
    BY <2>1, <2>2
<1>2. UNCHANGED <<pinned, activation>>
  BY DEF Register, Unregister, EditSkillDocument
<1> QED
  BY <1>1, <1>2 DEF SkillInv

(* What the steps of a call have in common.                                *)
LEMMA CallIsSound ==
    ASSUME SkillInv, NEW c \in Activations
    PROVE  /\ activation \in [Activations -> ActivationRows]
           /\ activation[c] \in ActivationRows
           /\ activation[c].thing \in Things
           /\ activation[c].seen \in [Things -> SkillRevisions]
           /\ activation[c].loads \in [Things -> SkillRevisions]
           /\ pinned \in [Things -> SkillRevisions]
           /\ PinsSound(activation[c], pinned) /\ OrderSound(activation[c])
           /\ ReferencesSound(activation[c]) /\ AfterSound(activation[c], activation, pinned)
BY DEF SkillInv, SkillTypes, ActivationSound, ActivationRows

LEMMA FailStep ==
    ASSUME SkillInv, NEW c \in Activations, activation[c].at # "answered",
           ActivationFails(c), UNCHANGED <<head, registered, pinned>>
    PROVE  SkillInv'
BY CallIsSound, WaitingIsSound, CallStep DEF ActivationFails

LEMMA FindStep ==
    ASSUME SkillInv, NEW c \in Activations, FindSkill(c)
    PROVE  SkillInv'
<1>1. /\ activation[c].at = "waiting" /\ registered \in SkillDocuments
      /\ UNCHANGED <<head, registered, pinned>>
  BY DEF FindSkill, ActivationAt, SkillInv, SkillTypes
<1>2. PICK before : before = {other \in Activations : ActivationAt(other, "answered")}
  OBVIOUS
<1>3. PICK row : row = [WaitingActivation EXCEPT !.at = "found", !.document = registered,
                                                 !.after = before]
  OBVIOUS
<1>4. /\ row \in ActivationRows /\ row.at = "found" /\ row.thing = "skill"
      /\ row.document = registered /\ row.after = before /\ row.loads = NothingRead
  BY <1>1, <1>2, <1>3, NothingIsRead, SkillIsThing DEF WaitingActivation, ActivationRows
<1>5. activation' = [activation EXCEPT ![c] = row]
  BY <1>2, <1>3 DEF FindSkill
<1>6. \A first \in row.after : activation[first].at = "answered"
  BY <1>2, <1>4 DEF ActivationAt
<1>7. ActivationSound(row, activation, pinned')
  BY <1>1, <1>4, <1>6, BeginningIsSound
<1> QED
  BY <1>1, <1>4, <1>5, <1>7, CallIsSound, CallStep

(* What a call loaded that has answered is pinned when the pins are read.  *)
LEMMA ReadStep ==
    ASSUME SkillInv, NEW c \in Activations, ReadPins(c)
    PROVE  SkillInv'
<1>1. activation[c].at = "found" /\ UNCHANGED <<head, registered, pinned>>
  BY DEF ReadPins, ActivationAt
<1>2. PICK row : row = [activation[c] EXCEPT !.at = "load", !.seen = pinned]
  OBVIOUS
<1>3. /\ row \in ActivationRows /\ row.at = "load" /\ row.thing = activation[c].thing
      /\ row.document = activation[c].document /\ row.after = activation[c].after
      /\ row.seen = pinned /\ row.loads = activation[c].loads
  <2>1. activation[c] \in ActivationRows /\ pinned \in [Things -> SkillRevisions]
    BY CallIsSound
  <2> QED
    BY ONLY <1>2, <2>1 DEF ActivationRows
<1>4. activation' = [activation EXCEPT ![c] = row]
  BY <1>2 DEF ReadPins
<1>5. PinsSound(row, pinned) /\ OrderSound(row)
  BY <1>1, <1>3, CallIsSound DEF PinsSound, OrderSound
<1>6. ReferencesSound(row)
  BY <1>1, <1>3, CallIsSound DEF ReferencesSound, OrderSound
<1>7. AfterSound(row, activation, pinned)
  <2> SUFFICES ASSUME NEW first \in activation[c].after, NEW t \in Things,
                      IsSet(activation[first].loads, t)
               PROVE  IsSet(pinned, t)
    BY <1>3, CallIsSound DEF AfterSound
  <2>1. first \in Activations /\ activation[first].at = "answered"
    BY CallIsSound DEF AfterSound, ActivationRows
  <2> QED
    BY <2>1, CallIsSound DEF PinsSound
<1>8. ActivationSound(row, activation, pinned')
  BY <1>1, <1>5, <1>6, <1>7 DEF ActivationSound
<1> QED
  BY <1>1, <1>3, <1>4, <1>8, CallIsSound, CallStep

(* What is loaded is of the document the call names, or of the resource in *)
(* hand; a pin that is seen is loaded, and else the head, to be pinned.    *)
LEMMA LoadIsSound ==
    ASSUME SkillInv, NEW c \in Activations, NEW row, NEW place, NEW revision,
           NEW loads \in [Things -> SkillRevisions], NEW thing \in Things,
           activation[c].at = "load", thing = activation[c].thing,
           loads[thing] = revision, \A t \in Things \ {thing} : loads[t] = activation[c].loads[t],
           row.at = place, row.thing = thing, row.document = activation[c].document,
           row.after = activation[c].after, row.seen = activation[c].seen, row.loads = loads,
           revision # NoRevision, revision.of = DocumentOf(c),
           \/ place = "loaded" /\ revision = activation[c].seen[thing]
           \/ place = "pin" /\ activation[c].seen[thing] = NoRevision
    PROVE  ActivationSound(row, activation, pinned)
<1> USE CallIsSound
<1>1. PinsSound(row, pinned)
  BY DEF PinsSound, UnderWay, IsSet
<1>2. OrderSound(row)
  <2>1. CASE thing = "skill"
    BY <2>1 DEF OrderSound, IsSet, DocumentOf, InHand
  <2>2. CASE thing # "skill"
    <3>1. loads["skill"] = activation[c].loads["skill"]
      BY <2>2, SkillIsThing
    <3> QED
      BY <2>2, <3>1 DEF OrderSound, IsSet
  <2> QED
    BY <2>1, <2>2
<1>3. ReferencesSound(row)
  <2>1. CASE thing = "skill"
    <3>1. ~IsSet(activation[c].loads, "skill")
      BY <2>1 DEF OrderSound
    <3>2. \A t \in Things \ {"skill"} : ~IsSet(row.loads, t) /\ row.thing # t
      BY <2>1, <3>1 DEF ReferencesSound, IsSet
    <3> QED
      BY <3>2 DEF ReferencesSound
  <2>2. CASE thing # "skill"
    <3>1. loads["skill"] = activation[c].loads["skill"]
      BY <2>2, SkillIsThing
    <3>2. IsSet(loads, "skill") /\ <<loads["skill"], thing>> \in References
      BY <2>2, <3>1 DEF OrderSound, ReferencesSound, IsSet
    <3> QED
      BY <2>2, <3>1, <3>2 DEF ReferencesSound, IsSet
  <2> QED
    BY <2>1, <2>2
<1>4. AfterSound(row, activation, pinned)
  <2> SUFFICES ASSUME NEW first \in activation[c].after, NEW t \in Things,
                      IsSet(activation[first].loads, t)
               PROVE  /\ IsSet(activation[c].seen, t)
                      /\ IsSet(loads, t) => loads[t] = pinned[t]
    BY DEF AfterSound
  <2>1. IsSet(activation[c].seen, t)
    BY DEF AfterSound, UnderWay
  <2>2. CASE t = thing
    BY <2>1, <2>2 DEF PinsSound, UnderWay, IsSet
  <2>3. CASE t # thing
    BY <2>1, <2>3 DEF AfterSound, IsSet
  <2> QED
    BY <2>1, <2>2, <2>3
<1> QED
  BY <1>1, <1>2, <1>3, <1>4 DEF ActivationSound

LEMMA LoadSteps ==
    ASSUME SkillInv, NEW c \in Activations, LoadPinned(c) \/ LoadCurrent(c)
    PROVE  SkillInv'
<1>1. activation[c].at = "load" /\ UNCHANGED <<head, registered, pinned>>
  BY DEF LoadPinned, LoadCurrent, ActivationAt
<1>2. PICK thing \in Things : thing = activation[c].thing
  BY CallIsSound
<1>3. ASSUME NEW place \in {"loaded", "pin"}, NEW revision \in SkillRevisions,
             revision # NoRevision, revision.of = DocumentOf(c),
             \/ place = "loaded" /\ revision = activation[c].seen[thing]
             \/ place = "pin" /\ activation[c].seen[thing] = NoRevision,
             activation' = [activation EXCEPT ![c].at = place, ![c].loads[thing] = revision]
      PROVE  SkillInv'
  <2>1. PICK loads : loads = [activation[c].loads EXCEPT ![thing] = revision]
    OBVIOUS
  <2>2. /\ loads \in [Things -> SkillRevisions] /\ loads[thing] = revision
        /\ \A t \in Things \ {thing} : loads[t] = activation[c].loads[t]
    BY <2>1, CallIsSound
  <2>3. PICK row : row = [activation[c] EXCEPT !.at = place, !.loads = loads]
    OBVIOUS
  <2>4. /\ row \in ActivationRows
        /\ row.at = place /\ row.thing = thing /\ row.document = activation[c].document
        /\ row.after = activation[c].after /\ row.seen = activation[c].seen /\ row.loads = loads
    <3>1. activation[c] \in ActivationRows
      BY CallIsSound
    <3> QED
      BY ONLY <1>2, <2>2, <2>3, <3>1, place \in {"loaded", "pin"} DEF ActivationRows
  <2>5. activation' = [activation EXCEPT ![c] = row]
    BY <1>3, <2>1, <2>3
  <2>6. ActivationSound(row, activation, pinned)
    BY <1>1, <1>2, <1>3, <2>2, <2>4, LoadIsSound
  <2> QED
    BY <1>1, <2>4, <2>5, <2>6, CallIsSound, CallStep
<1>4. CASE LoadPinned(c)
  <2>1. PICK pin \in SkillRevisions : pin = activation[c].seen[thing]
    BY CallIsSound
  <2>2. CASE pin.of = DocumentOf(c)
    BY <1>2, <1>3, <1>4, <2>1, <2>2 DEF LoadPinned, InHand
  <2>3. CASE pin.of # DocumentOf(c)
    BY <1>1, <1>2, <1>4, <2>1, <2>3, FailStep DEF LoadPinned, InHand
  <2> QED
    BY <2>2, <2>3
<1>5. CASE LoadCurrent(c)
  <2>1. PICK current : current = HeadOf(DocumentOf(c))
    OBVIOUS
  <2>2. DocumentOf(c) \in SkillDocuments \cup Resources
    BY <1>1, CallIsSound, SkillIsThing DEF DocumentOf, InHand, OrderSound
  <2>3. current \in SkillRevisions /\ current # NoRevision /\ current.of = DocumentOf(c)
    <3>1. head[DocumentOf(c)] \in Nat \ {0}
      BY <2>2 DEF SkillInv, SkillTypes
    <3> QED
      BY <2>1, <2>2, <3>1 DEF HeadOf, SkillRevisions, NoRevision
  <2> QED
    BY <1>2, <1>3, <1>5, <2>1, <2>3 DEF LoadCurrent, InHand
<1> QED
  BY <1>4, <1>5

(* A pin is set once, and its call goes on.                                *)
LEMMA PinStep ==
    ASSUME SkillInv, NEW c \in Activations, PinLoaded(c)
    PROVE  SkillInv'
<1>1. activation[c].at = "pin" /\ UNCHANGED <<head, registered>>
  BY DEF PinLoaded, ActivationAt
<1>2. PICK thing \in Things : thing = activation[c].thing
  BY CallIsSound
<1>3. activation[c].loads[thing] \in SkillRevisions /\ activation[c].loads[thing] # NoRevision
  BY <1>1, <1>2, CallIsSound DEF PinsSound, IsSet
<1>4. PICK revision \in SkillRevisions :
         revision = IF pinned[thing] = NoRevision THEN activation[c].loads[thing] ELSE pinned[thing]
  BY <1>3, CallIsSound
<1>5. pinned' = [pinned EXCEPT ![thing] = revision]
  BY <1>2, <1>4 DEF PinLoaded, InHand
<1>6. /\ pinned' \in [Things -> SkillRevisions] /\ IsSet(pinned', thing)
      /\ \A t \in Things : IsSet(pinned, t) => pinned'[t] = pinned[t]
  BY <1>3, <1>4, <1>5, CallIsSound DEF IsSet
<1>7. PICK row : row = [activation[c] EXCEPT !.at = "loaded"]
  OBVIOUS
<1>8. /\ row \in ActivationRows
      /\ row.at = "loaded" /\ row.thing = thing /\ row.document = activation[c].document
      /\ row.after = activation[c].after /\ row.seen = activation[c].seen
      /\ row.loads = activation[c].loads
  <2>1. activation[c] \in ActivationRows
    BY CallIsSound
  <2> QED
    BY ONLY <1>2, <1>7, <2>1 DEF ActivationRows
<1>9. activation' = [activation EXCEPT ![c] = row]
  BY <1>7 DEF PinLoaded
<1>10. PinsSound(row, pinned')
  BY <1>1, <1>2, <1>6, <1>8, CallIsSound DEF PinsSound, UnderWay, IsSet
<1>11. OrderSound(row)
  BY <1>1, <1>8, CallIsSound DEF OrderSound
<1>12. ReferencesSound(row)
  BY <1>1, <1>2, <1>8, CallIsSound DEF ReferencesSound
<1>13. AfterSound(row, activation, pinned')
  <2> SUFFICES ASSUME NEW first \in activation[c].after, NEW t \in Things,
                      IsSet(activation[first].loads, t)
               PROVE  /\ IsSet(activation[c].seen, t)
                      /\ IsSet(activation[c].loads, t) => activation[c].loads[t] = pinned'[t]
    BY <1>8, CallIsSound DEF AfterSound
  <2>1. IsSet(activation[c].seen, t)
    BY <1>1, CallIsSound DEF AfterSound, UnderWay
  <2>2. activation[c].seen[t] = pinned[t]
    BY <1>1, <2>1, CallIsSound DEF PinsSound, UnderWay
  <2>3. IsSet(activation[c].loads, t) => activation[c].loads[t] = pinned[t]
    BY CallIsSound DEF AfterSound
  <2> QED
    BY <1>6, <2>1, <2>2, <2>3 DEF IsSet
<1>14. ActivationSound(row, activation, pinned')
  BY <1>10, <1>11, <1>12, <1>13 DEF ActivationSound
<1> QED
  BY <1>1, <1>6, <1>8, <1>9, <1>14, CallStep

LEMMA ReferenceStep ==
    ASSUME SkillInv, NEW c \in Activations, NEW resource \in Resources,
           NextReference(c, resource)
    PROVE  SkillInv'
<1>1. /\ activation[c].at = "loaded" /\ UNCHANGED <<head, registered, pinned>>
      /\ <<activation[c].loads["skill"], resource>> \in References
      /\ ~IsSet(activation[c].loads, resource)
  BY DEF NextReference, ActivationAt, RefersTo, Loaded, IsSet
<1>2. PICK row : row = [activation[c] EXCEPT !.at = "load", !.thing = resource]
  OBVIOUS
<1>3. /\ row \in ActivationRows
      /\ row.at = "load" /\ row.thing = resource /\ row.document = activation[c].document
      /\ row.after = activation[c].after /\ row.seen = activation[c].seen
      /\ row.loads = activation[c].loads
  <2>1. activation[c] \in ActivationRows /\ resource \in Things
    BY CallIsSound DEF Things
  <2> QED
    BY ONLY <1>2, <2>1 DEF ActivationRows
<1>4. activation' = [activation EXCEPT ![c] = row]
  BY <1>2 DEF NextReference
<1>5. PinsSound(row, pinned)
  BY <1>1, <1>3, CallIsSound DEF PinsSound, UnderWay
<1>6. OrderSound(row) /\ IsSet(row.loads, "skill")
  BY <1>1, <1>3, CallIsSound DEF OrderSound
<1>7. ReferencesSound(row)
  BY <1>1, <1>3, <1>6, CallIsSound DEF ReferencesSound
<1>8. AfterSound(row, activation, pinned)
  BY <1>1, <1>3, CallIsSound DEF AfterSound, UnderWay
<1>9. ActivationSound(row, activation, pinned')
  BY <1>1, <1>5, <1>6, <1>7, <1>8 DEF ActivationSound
<1> QED
  BY <1>1, <1>3, <1>4, <1>9, CallIsSound, CallStep

LEMMA AnswerStep ==
    ASSUME SkillInv, NEW c \in Activations, AnswerActivation(c)
    PROVE  SkillInv'
<1>1. /\ activation[c].at = "loaded" /\ UNCHANGED <<head, registered, pinned>>
      /\ \A r \in Resources : <<activation[c].loads["skill"], r>> \in References
                                => IsSet(activation[c].loads, r)
  BY DEF AnswerActivation, ActivationAt, RefersTo, Loaded, IsSet
<1>2. PICK row : row = [activation[c] EXCEPT !.at = "answered", !.thing = "skill",
                                             !.seen = NothingRead]
  OBVIOUS
<1>3. /\ row \in ActivationRows
      /\ row.at = "answered" /\ row.thing = "skill" /\ row.document = activation[c].document
      /\ row.after = activation[c].after /\ row.loads = activation[c].loads
  <2>1. /\ activation[c] \in ActivationRows
        /\ NothingRead \in [Things -> SkillRevisions] /\ "skill" \in Things
    BY CallIsSound, NothingIsRead, SkillIsThing
  <2> QED
    BY ONLY <1>2, <2>1 DEF ActivationRows
<1>4. activation' = [activation EXCEPT ![c] = row]
  BY <1>2 DEF AnswerActivation
<1>5. PinsSound(row, pinned)
  BY <1>1, <1>3, CallIsSound DEF PinsSound, UnderWay
<1>6. OrderSound(row)
  BY <1>1, <1>3, CallIsSound DEF OrderSound
<1>7. ReferencesSound(row)
  BY <1>1, <1>3, CallIsSound DEF ReferencesSound
<1>8. AfterSound(row, activation, pinned)
  BY <1>3, CallIsSound DEF AfterSound, UnderWay
<1>9. ActivationSound(row, activation, pinned')
  BY <1>1, <1>5, <1>6, <1>7, <1>8 DEF ActivationSound
<1> QED
  BY <1>1, <1>3, <1>4, <1>9, CallIsSound, CallStep

(* What an activation that answered before this one began had loaded, this *)
(* one loads as it is pinned, and answers the same when that one lost no   *)
(* pin: for any skills, references, calls and edits meanwhile.             *)
THEOREM LaterActivationsStayPinned == SkillSpec => []LaterActivationIsPinned
<1>1. SkillInv => LaterActivationIsPinned
  <2> SUFFICES ASSUME SkillInv, NEW c \in Activations, ActivationAt(c, "answered")
               PROVE  /\ activation[c].loads["skill"].of = activation[c].document
                      /\ \A first \in activation[c].after :
                           /\ \A t \in Things : Loaded(first, t) /\ Loaded(c, t) => SameAsPinned(c, t)
                           /\ (\A t \in Things : Loaded(first, t) => SameAsPinned(first, t))
                                => activation[c].loads = activation[first].loads
    BY DEF LaterActivationIsPinned
  <2>1. activation[c].at = "answered"
    BY DEF ActivationAt
  <2>2. activation[c].loads["skill"].of = activation[c].document
    BY <2>1, CallIsSound DEF OrderSound
  <2>3. ASSUME NEW first \in activation[c].after
        PROVE  /\ \A t \in Things : Loaded(first, t) /\ Loaded(c, t) => SameAsPinned(c, t)
               /\ (\A t \in Things : Loaded(first, t) => SameAsPinned(first, t))
                    => activation[c].loads = activation[first].loads
    <3>1. first \in Activations /\ activation[first].at = "answered"
      BY CallIsSound DEF AfterSound, ActivationRows
    <3>2. \A t \in Things : Loaded(first, t) /\ Loaded(c, t) => SameAsPinned(c, t)
      BY CallIsSound DEF AfterSound, Loaded, SameAsPinned, IsSet
    <3>3. ASSUME \A t \in Things : Loaded(first, t) => SameAsPinned(first, t)
          PROVE  activation[c].loads = activation[first].loads
      <4>1. Loaded(c, "skill") /\ Loaded(first, "skill")
        BY <2>1, <3>1, CallIsSound DEF OrderSound, Loaded, IsSet
      <4>2. activation[c].loads["skill"] = activation[first].loads["skill"]
        BY <3>2, <3>3, <4>1, SkillIsThing DEF SameAsPinned
      <4>3. ASSUME NEW t \in Things \ {"skill"}
            PROVE  activation[c].loads[t] = activation[first].loads[t]
        <5>1. t \in Resources
          BY <4>3, SkillIsThing
        <5>2. Loaded(c, t) <=> <<activation[c].loads["skill"], t>> \in References
          BY <2>1, <4>3, <5>1, CallIsSound DEF ReferencesSound, Loaded, IsSet
        <5>3. Loaded(first, t) <=> <<activation[first].loads["skill"], t>> \in References
          BY <3>1, <4>3, <5>1, CallIsSound DEF ReferencesSound, Loaded, IsSet
        <5> QED
          BY <3>2, <3>3, <4>2, <5>2, <5>3 DEF SameAsPinned, Loaded
      <4>4. \A t \in Things : activation[c].loads[t] = activation[first].loads[t]
        BY <4>2, <4>3
      <4>5. activation[c].loads \in [Things -> SkillRevisions]
            /\ activation[first].loads \in [Things -> SkillRevisions]
        BY <3>1, CallIsSound
      <4> QED
        BY <4>4, <4>5
    <3> QED
      BY <3>2, <3>3
  <2> QED
    BY <2>2, <2>3
<1>2. SkillInv /\ [SkillNext]_skillVars => SkillInv'
  <2> SUFFICES ASSUME SkillInv, [SkillNext]_skillVars PROVE SkillInv'
    OBVIOUS
  <2>1. CASE UNCHANGED skillVars
    BY <2>1 DEF skillVars, SkillInv, SkillTypes
  <2>2. ASSUME NEW c \in Activations, FailActivation(c) PROVE SkillInv'
    BY <2>2, FailStep DEF FailActivation
  <2> QED
    BY <2>1, <2>2, RegistrationSteps, FindStep, ReadStep, LoadSteps, PinStep, ReferenceStep,
       AnswerStep DEF SkillNext
<1> QED
  BY <1>1, <1>2, SkillInitially, PTL DEF SkillSpec

-----------------------------------------------------------------------------
(* Together                                                                *)

(* For any project and any assignments: what the project refers to belongs *)
(* to it, and a completed review lists every document it has written.      *)
THEOREM ProjectsStayWhole == ProjectSpec /\ AssignmentSpec => []ProjectsAreWhole
BY ReferencesStayMembers, FindingsStayListed, PTL DEF ProjectsAreWhole

(* For any task and any assignments: a correction stays through every      *)
(* rebuild, a stop through every write of the worker.                      *)
THEOREM DecisionsAlwaysStay == TaskSpec /\ AssignmentSpec => DecisionsStay
BY CorrectionsAlwaysSurvive, ControlStaysKept DEF DecisionsStay

(* For any task, facts and skills: what a turn is given of them is current *)
(* and stays what it was.                                                  *)
THEOREM ContextStaysCurrent == TaskSpec /\ FactSpec /\ SkillSpec => []ContextIsCurrent
BY ShownNotesStayCurrent, ForgottenFactsStayForgotten, LaterActivationsStayPinned, PTL
   DEF ContextIsCurrent
=============================================================================
