----------------------------- MODULE MCLockOrders -----------------------------
(* The orders the callers' pipelines keep, and do not keep, on the small   *)
(* instances: the hypotheses of the theorems about documents held at the   *)
(* barrier and about wait cycles.                                          *)
EXTENDS MCMutationCoordinator

(* Documents before paths before creations, each kind in sort order; a     *)
(* document a pipeline has just created comes last.                        *)
Descent ==
    <<D(1), D(2), D(3), P(1), P(2), P(3), C(1), D(4)>>

Depth == [k \in MCKeys |-> Len(Descent) - (CHOOSE i \in 1..8 : Descent[i] = k)]

ASSUME OrdersAreKept ==
    \A pipelines \in {HttpPipelines, BarrierPipelines} :
        /\ DocumentsAreLockedInside(pipelines)
        /\ LeadDown(pipelines, Depth)

(* No depth makes the orders lead down that repair and creation take: the  *)
(* wait cycles of CoordinatorRepair and CoordinatorCreate.                 *)
ASSUME OrdersAreBroken ==
    \A depth \in [{D(1), D(2), P(1), C(1)} -> 0..3] :
        /\ ~LeadDown(RepairPipelines, depth)
        /\ ~LeadDown(CreatePipelines, depth)

(* The pipelines of the runs are among those the theorems about all        *)
(* callers speak of; what repair and creation add comes path first.        *)
ASSUME CallersAreCovered ==
    LET known == {D(1), D(2), D(3)}
        created == {D(4)}
        paths == {P(1), P(2), P(3)}
        creations == {C(1)}
    IN
    /\ HttpPipelines \cup BarrierPipelines
         \subseteq L!DocumentFirst(known, created, paths, creations)
    /\ RepairPipelines \cup CreatePipelines
         \subseteq L!DocumentFirst(known, created \cup {D(2)}, paths, creations)
                      \cup L!PathFirst(known, created \cup {D(2)}, paths, creations)
    /\ MCDocumentKeys = known \cup created
    /\ paths \cup creations \subseteq MCKeys
=============================================================================
