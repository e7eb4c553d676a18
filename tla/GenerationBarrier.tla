-------------------------- MODULE GenerationBarrier --------------------------
(***************************************************************************)
(* What MutationCoordinator.mutation() and exclusive() promise: a          *)
(* generation is shared by any number of mutations, or owned by one        *)
(* structural operation, never both.                                       *)
(***************************************************************************)
CONSTANT Threads

VARIABLES mutators, holders

vars == <<mutators, holders>>

Init == mutators = {} /\ holders = {}

Mutate(t) ==
    /\ holders = {}
    /\ t \notin mutators
    /\ mutators' = mutators \cup {t}
    /\ UNCHANGED holders

EndMutation(t) ==
    /\ t \in mutators
    /\ mutators' = mutators \ {t}
    /\ UNCHANGED holders

Own(t) ==
    /\ mutators = {} /\ holders = {}
    /\ holders' = {t}
    /\ UNCHANGED mutators

Disown(t) ==
    /\ holders = {t}
    /\ holders' = {}
    /\ UNCHANGED mutators

Next == \E t \in Threads : Mutate(t) \/ EndMutation(t) \/ Own(t) \/ Disown(t)

Spec == Init /\ [][Next]_vars
=============================================================================
