-------------------------- MODULE MCReconciliation --------------------------
(* Small instances of Reconciliation for TLC.                              *)
EXTENDS Reconciliation, TLC

CONSTANTS d1, p1, p2, x, y

Wish(op, doc, content, path) ==
    [op |-> op, doc |-> doc, content |-> content, path |-> path]

ScanWrites ==
    {Wish("create", Nothing, x, p1), Wish("delete", d1, Nothing, Nothing)}

KeySymmetry == Permutations(Keys)
=============================================================================
