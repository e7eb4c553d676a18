-------------------------- MODULE MCAuditedOperation --------------------------
(* Small instances of AuditedOperation for TLC.                            *)
EXTENDS AuditedOperation, TLC

Load(asked, needed, actual) ==
    [asked |-> asked, needed |-> needed, actual |-> actual]

(* Growing a little, growing beyond everything, too large from the start.  *)
LoadSet == {Load(1, 2, 1), Load(1, 4, 4), Load(4, 4, 4)}

ProducerSymmetry == Permutations(Producers)
=============================================================================
