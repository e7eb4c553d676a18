--------------------------- MODULE MCDocumentStore ---------------------------
(* Small instances of DocumentStore for TLC.                               *)
EXTENDS DocumentStore, TLC

CONSTANTS d1, d2, p1, p2, x, y

Ask(op, doc, content, path) ==
    [op |-> op, doc |-> doc, content |-> content, path |-> path]

(* Two documents that take turns at two paths.                             *)
PathWrites ==
    {Ask("create", Nothing, x, p1), Ask("create", Nothing, y, p2),
     Ask("move", d1, Nothing, p2), Ask("delete", d1, Nothing, Nothing),
     Ask("restore", d1, Nothing, Nothing)}

(* One document under concurrent edits of content, path and tags.          *)
EditWrites ==
    {Ask("create", Nothing, x, p1), Ask("update", d1, y, Nothing),
     Ask("move", d1, Nothing, p2), Ask("tag", d1, Nothing, Nothing),
     Ask("delete", d1, Nothing, Nothing)}

(* A move, and the request that created the document.                      *)
MoveWrites ==
    {Ask("create", Nothing, x, p1), Ask("move", d1, Nothing, p2)}

StoreSymmetry == Permutations(Clients) \cup Permutations(Keys)
=============================================================================
