------------------------ MODULE MCMutationCoordinator ------------------------
(* Small instances of MutationCoordinator for TLC.                         *)
EXTENDS MutationCoordinator, TLC

CONSTANTS t1, t2, t3

L == INSTANCE LockOrders

D(n) == L!DocumentKey(n)
P(n) == L!PathKey(n)
C(n) == L!CreationKey(n)

MCDocumentKeys == {D(1), D(2), D(3), D(4)}
MCKeys == MCDocumentKeys \cup {P(1), P(2), P(3), C(1)}
MCObjects == 1..8

(* A move of document 1, a duplicate of document 3 between the same paths, *)
(* replays of two duplicates, each other's source and result, and a        *)
(* backup.                                                                 *)
HttpPipelines ==
    {L!WriteDocument(D(1), {P(1), P(2)}),
     L!DuplicateDocument(D(3), {P(1), P(2)}, C(1), P(2), D(4)),
     L!ReplayDuplicate(D(1), D(3), P(2)), L!ReplayDuplicate(D(3), D(1), P(1)),
     L!Backup}

ThreadSymmetry == Permutations({t1, t2, t3})

(* Mutations with and without a document, assets, structural operations.   *)
BarrierPipelines ==
    {L!WriteDocument(D(1), {P(1)}), L!CreateFolder(P(3)), L!Backup,
     L!RenameFolder}

(* An HTTP write and a reconciliation repair of the same document.         *)
RepairPipelines ==
    {L!WriteDocument(D(1), {P(1)}), L!RematerializeDocument(D(1), P(1))}

(* A create aimed at a path whose document is being written, and a backup. *)
CreatePipelines ==
    {L!WriteDocument(D(1), {P(1)}), L!CreateDocument(C(1), P(1), D(2)),
     L!Backup}
=============================================================================
