---------------------------- MODULE DocumentStore ----------------------------
(***************************************************************************)
(* The write pipeline of text documents: DocumentService._commit and the   *)
(* operations of sangam/service.py that go through it, IdempotencyStore,   *)
(* and the workspace directory they materialize into.                      *)
(*                                                                         *)
(* SQLite is canonical: one transaction appends the revision, moves the    *)
(* head, and binds the idempotency key.  The file follows in steps of its  *)
(* own: it is written, the row is marked clean, the file of the old path   *)
(* is removed.  Between any two steps other requests run, an editor may    *)
(* change a file, a write may fail, and the process may die.  A retry is   *)
(* the same request submitted again under the same key.                    *)
(*                                                                         *)
(* A job takes its path locks and its document lock in one step: their     *)
(* order, and whether it deadlocks, is the subject of MutationCoordinator. *)
(***************************************************************************)
EXTENDS Naturals, Sequences, FiniteSets

CONSTANTS
    Docs, Paths, Contents, Keys, Clients,
    Writes,         \* the [op, doc, content, path] that clients ask for
    Nothing,        \* no path, no content, no file, no document
    MaxRevisions,   \* bound on the length of the history
    MaxVersion,     \* bound on a document's metadata version
    MaxEdits,       \* bound on edits by programs other than Sangam
    Failing,        \* which of "write", "mark", "remove" may raise
    ProcessDies     \* may the process die?

Ops == {"create", "update", "move", "delete", "restore", "tag"}

ASSUME StoreAssumption ==
    /\ Nothing \notin Docs \cup Paths \cup Contents \cup Keys
    /\ Writes \subseteq [op : Ops, doc : Docs \cup {Nothing},
                         content : Contents \cup {Nothing},
                         path : Paths \cup {Nothing}]
    /\ \A w \in Writes : /\ w.doc = Nothing <=> w.op = "create"
                         /\ w.op \in {"create", "update"} => w.content \in Contents
                         /\ w.op = "move" => w.path \in Paths
                         /\ w.op \notin {"create", "move"} => w.path = Nothing
    /\ MaxRevisions \in Nat /\ MaxVersion \in Nat /\ MaxEdits \in Nat
    /\ Failing \subseteq {"write", "mark", "remove"}
    /\ ProcessDies \in BOOLEAN

VARIABLES
    row,        \* table documents: head, path, materialization_state, ...
    revisions,  \* table revisions, in the order they were committed
    keys,       \* table idempotency_keys
    disk,       \* the workspace directory
    edited,     \* paths last changed by someone else than Sangam
    edits,      \* how many changes of that kind there were
    job         \* what each client's request is doing

vars == <<row, revisions, keys, disk, edited, edits, job>>

Unborn == [head |-> 0, path |-> Nothing, state |-> "none", deleted |-> FALSE,
           version |-> 1]

Unbound == [request |-> Nothing, revision |-> 0]

Idle == [stage |-> "idle", key |-> Nothing, request |-> Nothing,
         doc |-> Nothing, paths |-> {}, target |-> Nothing, revision |-> 0,
         stale |-> Nothing]

Init ==
    /\ row = [d \in Docs |-> Unborn]
    /\ revisions = <<>>
    /\ keys = [k \in Keys |-> Unbound]
    /\ disk = [p \in Paths |-> Nothing]
    /\ edited = {}
    /\ edits = 0
    /\ job = [c \in Clients |-> Idle]

-----------------------------------------------------------------------------
HeadContent(d) == revisions[row[d].head].content

Live(d) == row[d].head # 0 /\ ~row[d].deleted

RevisionsOf(d) == {r \in 1..Len(revisions) : revisions[r].doc = d}

(* A job owns its document and its paths from Acquire to its end, and the  *)
(* path it materializes until the row is marked clean.                     *)
Owning(c) == job[c].stage \in {"locked", "committed", "written", "marked"}

OwnedPaths(c) == IF Owning(c) THEN (job[c].paths \cup {job[c].target}) \ {Nothing}
                              ELSE {}

DocumentFree(c, d) == \A o \in Clients \ {c} : Owning(o) => job[o].doc # d
PathsFree(c, ps) == \A o \in Clients \ {c} : OwnedPaths(o) \cap ps = {}

End(c) == job' = [job EXCEPT ![c] = Idle]

-----------------------------------------------------------------------------
(* A client sends a request.  What it expects it has read at some earlier  *)
(* time; the paths to lock are read now, before any lock is taken.         *)

Found(w) ==
    CASE w.op = "create" -> TRUE
      [] w.op = "move"   -> Live(w.doc) /\ row[w.doc].path # Nothing
      [] w.op = "delete" -> Live(w.doc)
      [] OTHER           -> row[w.doc].head # 0

Expectations(w) ==
    CASE w.op = "create" -> {0}
      [] w.op = "tag"    -> 1..row[w.doc].version
      [] OTHER           -> RevisionsOf(w.doc)

(* A restore carries the content of some revision of its document.         *)
Bodies(w) ==
    IF w.op = "restore" THEN {revisions[r].content : r \in RevisionsOf(w.doc)}
                        ELSE {w.content}

(* Mutant: a move locks the path it goes to, not the one it leaves.        *)
PathsToLockAhead(w) ==
    CASE w.op \in {"create", "move"} -> {w.path} \ {Nothing}
      [] w.op = "tag" -> {}
      [] OTHER -> {row[w.doc].path} \ {Nothing}

PathsToLock(w) ==
    CASE w.op = "create" -> {w.path} \ {Nothing}
      [] w.op = "tag"    -> {}
      [] OTHER           -> {row[w.doc].path, w.path} \ {Nothing}

(* The bounds: room is left for every write that is under way.             *)
Room(w, k) ==
    LET underway == {o \in Clients : job[o].stage # "idle"}
        creating == {o \in underway : job[o].request.op = "create"}
        unborn   == {d \in Docs : row[d].head = 0}
    IN \/ keys[k] # Unbound
       \/ w.op = "tag" /\ row[w.doc].version + Cardinality(underway) < MaxVersion
       \/ /\ w.op # "tag"
          /\ Len(revisions) + Cardinality(underway) < MaxRevisions
          /\ w.op = "create" => Cardinality(creating) < Cardinality(unborn)

Submit(c, w, k) ==
    /\ job[c].stage = "idle"
    /\ Found(w)
    /\ Room(w, k)
    /\ \E e \in Expectations(w), b \in Bodies(w) :
          job' = [job EXCEPT
                    ![c] = [Idle EXCEPT
                              !.stage = "waiting", !.key = k, !.doc = w.doc,
                              !.paths = PathsToLock(w),
                              !.request = [op |-> w.op, doc |-> w.doc,
                                           content |-> b, path |-> w.path,
                                           expected |-> e]]]
    /\ UNCHANGED <<row, revisions, keys, disk, edited, edits>>

(* The key was bound before, to this very request.                         *)
Replayed(c) == /\ keys[job[c].key] # Unbound
               /\ keys[job[c].key].request = job[c].request

(* Take the locks.  A create owns its key first; it then reads the key, to *)
(* lock the document of an earlier commit or else a new one.               *)
Acquire(c) ==
    /\ job[c].stage = "waiting"
    /\ PathsFree(c, job[c].paths)
    /\ \/ /\ job[c].request.op # "create"
          /\ DocumentFree(c, job[c].doc)
          /\ job' = [job EXCEPT ![c].stage = "locked"]
       \/ /\ job[c].request.op = "create"
          /\ \A o \in Clients \ {c} :
                ~(Owning(o) /\ job[o].request.op = "create" /\ job[o].key = job[c].key)
          /\ \/ /\ Replayed(c)
                /\ LET d == revisions[keys[job[c].key].revision].doc IN
                   /\ DocumentFree(c, d)
                   /\ job' = [job EXCEPT ![c].stage = "locked", ![c].doc = d]
             \/ /\ keys[job[c].key] = Unbound
                /\ \E d \in Docs :
                      /\ row[d].head = 0 /\ DocumentFree(c, d)
                      /\ job' = [job EXCEPT ![c].stage = "locked", ![c].doc = d]
             \/ /\ keys[job[c].key] # Unbound
                /\ ~Replayed(c)
                /\ End(c)
    /\ UNCHANGED <<row, revisions, keys, disk, edited, edits>>

-----------------------------------------------------------------------------
(* The committing transaction.                                             *)

NextPath(c) ==
    IF job[c].request.path = Nothing THEN row[job[c].doc].path
                                     ELSE job[c].request.path

(* Mutant: the transaction trusts what was read before it.                 *)
ExpectedUnchecked(c) == TRUE

Expected(c) ==
    IF job[c].request.op = "tag"
       THEN job[c].request.expected = row[job[c].doc].version
       ELSE job[c].request.expected = row[job[c].doc].head

(* documents.path is unique, also against deleted documents.               *)
PathUnique(c) ==
    NextPath(c) # Nothing => \A e \in Docs \ {job[c].doc} : row[e].path # NextPath(c)

(* Mutant: a key bound to another request does not refuse this one.        *)
WritableUnderAnyKey(c) ==
    /\ Expected(c)
    /\ row[job[c].doc].deleted => job[c].request.op = "restore"
    /\ PathUnique(c)

Writable(c) ==
    /\ keys[job[c].key] = Unbound
    /\ Expected(c)
    /\ row[job[c].doc].deleted => job[c].request.op = "restore"
    /\ PathUnique(c)

(* Mutant: a revision stores the content the request carries, if any.      *)
NextContentAsSent(c) == job[c].request.content

NextContent(c) ==
    IF job[c].request.content = Nothing THEN HeadContent(job[c].doc)
                                        ELSE job[c].request.content

NextDeleted(c) == job[c].request.op = "delete"

(* Mutant: a document that stays where it is stays clean.                  *)
NextStateKept(c) ==
    CASE NextDeleted(c) \/ NextPath(c) = Nothing -> "none"
      [] NextPath(c) = row[job[c].doc].path -> row[job[c].doc].state
      [] OTHER -> "pending"

NextState(c) ==
    IF NextDeleted(c) \/ NextPath(c) = Nothing THEN "none" ELSE "pending"

(* Append one revision: _create_document_locked and _append_revision.      *)
AppendRevision(c) ==
    LET d == job[c].doc
        r == Len(revisions) + 1
    IN /\ job[c].request.op # "tag"
       /\ revisions' = Append(revisions, [doc |-> d, parent |-> row[d].head,
                                          content |-> NextContent(c)])
       /\ row' = [row EXCEPT
                    ![d].head = r, ![d].path = NextPath(c),
                    ![d].state = NextState(c), ![d].deleted = NextDeleted(c)]
       /\ keys' = [keys EXCEPT ![job[c].key] = [request |-> job[c].request,
                                                revision |-> r]]
       /\ job' = [job EXCEPT
                    ![c].stage = "committed", ![c].revision = r,
                    ![c].stale = IF row[d].path # NextPath(c) THEN row[d].path
                                                              ELSE Nothing]

(* Tags and category: the key binds to the unchanged head.                 *)
UpdateMetadata(c) ==
    LET d == job[c].doc IN
    /\ job[c].request.op = "tag"
    /\ row' = [row EXCEPT ![d].version = @ + 1]
    /\ keys' = [keys EXCEPT ![job[c].key] = [request |-> job[c].request,
                                             revision |-> row[d].head]]
    /\ job' = [job EXCEPT ![c].stage = "committed", ![c].revision = row[d].head]
    /\ UNCHANGED revisions

Commit(c) ==
    /\ job[c].stage = "locked"
    /\ Writable(c)
    /\ AppendRevision(c) \/ UpdateMetadata(c)
    /\ UNCHANGED <<disk, edited, edits>>

(* Mutant: a replay is answered without looking at the file.               *)
ReplayUnrepaired(c) ==
    /\ job[c].stage = "locked"
    /\ Replayed(c)
    /\ job' = [job EXCEPT ![c].stage = "marked",
                          ![c].revision = keys[job[c].key].revision]
    /\ UNCHANGED <<row, revisions, keys, disk, edited, edits>>

Replay(c) ==
    /\ job[c].stage = "locked"
    /\ Replayed(c)
    /\ job' = [job EXCEPT ![c].stage = "committed",
                          ![c].revision = keys[job[c].key].revision]
    /\ UNCHANGED <<row, revisions, keys, disk, edited, edits>>

(* Conflict, unknown document, path in use, or a key of another request.   *)
Refuse(c) ==
    /\ job[c].stage = "locked"
    /\ ~Writable(c) /\ ~Replayed(c)
    /\ End(c)
    /\ UNCHANGED <<row, revisions, keys, disk, edited, edits>>

-----------------------------------------------------------------------------
(* After the commit: _finish_if_current, _finish_materialization, and the  *)
(* files that are no longer wanted.                                        *)

Unfinished(c) ==
    LET d == job[c].doc IN
    /\ row[d].head = job[c].revision
    /\ row[d].state = "pending" /\ row[d].path # Nothing /\ ~row[d].deleted

(* write_atomic replaces the file, whatever it was.                        *)
WriteFile(c) ==
    LET p == row[job[c].doc].path IN
    /\ job[c].stage = "committed"
    /\ Unfinished(c)
    /\ PathsFree(c, {p})
    /\ disk' = [disk EXCEPT ![p] = HeadContent(job[c].doc)]
    /\ edited' = edited \ {p}
    /\ job' = [job EXCEPT ![c].stage = "written", ![c].target = p]
    /\ UNCHANGED <<row, revisions, keys, edits>>

(* Mutant: the file of a deleted document is kept.                         *)
StaleFilesOfMoves(c) == {job[c].stale} \ {Nothing}

(* The file of the path a document left, and of a deleted document.        *)
StaleFiles(c) ==
    LET d == job[c].doc
    IN ({job[c].stale} \cup (IF row[d].deleted THEN {row[d].path} ELSE {})) \ {Nothing}

(* The write raises, before or after the file was replaced, or the row     *)
(* cannot be marked, or the stale file cannot be removed: the request ends *)
(* with an error although its revision is committed.                       *)
FailFile(c) ==
    LET p == row[job[c].doc].path IN
    /\ \/ /\ "write" \in Failing
          /\ job[c].stage = "committed"
          /\ Unfinished(c)
          /\ PathsFree(c, {p})
       \/ "mark" \in Failing /\ job[c].stage = "written"
       \/ /\ "remove" \in Failing
          /\ job[c].stage = "marked" /\ StaleFiles(c) # {}
    /\ End(c)
    /\ UNCHANGED <<row, revisions, keys, disk, edited, edits>>

MarkClean(c) ==
    LET d == job[c].doc IN
    /\ job[c].stage = "written"
    /\ row' = [row EXCEPT ![d].state = IF row[d].head = job[c].revision
                                          THEN "clean" ELSE @]
    /\ job' = [job EXCEPT ![c].stage = "marked", ![c].target = Nothing]
    /\ UNCHANGED <<revisions, keys, disk, edited, edits>>

NothingToFinish(c) ==
    /\ job[c].stage = "committed"
    /\ ~Unfinished(c)
    /\ job' = [job EXCEPT ![c].stage = "marked"]
    /\ UNCHANGED <<row, revisions, keys, disk, edited, edits>>

(* The request is answered once no stale file is left.                     *)
Answer(c) ==
    /\ job[c].stage = "marked"
    /\ disk' = [p \in Paths |-> IF p \in StaleFiles(c) THEN Nothing ELSE disk[p]]
    /\ edited' = edited \ StaleFiles(c)
    /\ End(c)
    /\ UNCHANGED <<row, revisions, keys, edits>>

-----------------------------------------------------------------------------
(* The environment.                                                        *)

EditFile(p, x) ==
    /\ edits < MaxEdits
    /\ x # disk[p]
    /\ disk' = [disk EXCEPT ![p] = x]
    /\ edited' = edited \cup {p}
    /\ edits' = edits + 1
    /\ UNCHANGED <<row, revisions, keys, job>>

Crash ==
    /\ ProcessDies
    /\ \E c \in Clients : job[c] # Idle
    /\ job' = [c \in Clients |-> Idle]
    /\ UNCHANGED <<row, revisions, keys, disk, edited, edits>>

Step(c) ==
    \/ Acquire(c) \/ Commit(c) \/ Replay(c) \/ Refuse(c)
    \/ WriteFile(c) \/ FailFile(c) \/ MarkClean(c) \/ NothingToFinish(c)
    \/ Answer(c)

Next ==
    \/ \E c \in Clients : \/ \E w \in Writes, k \in Keys : Submit(c, w, k)
                          \/ Step(c)
    \/ \E p \in Paths, x \in Contents \cup {Nothing} : EditFile(p, x)
    \/ Crash

Spec == Init /\ [][Next]_vars

-----------------------------------------------------------------------------
Requests == [op : Ops, doc : Docs \cup {Nothing}, content : Contents \cup {Nothing},
             path : Paths \cup {Nothing}, expected : Nat]

Rows == [head : Nat, path : Paths \cup {Nothing}, state : {"none", "pending", "clean"},
         deleted : BOOLEAN, version : Nat]

Revisions == [doc : Docs, parent : Nat, content : Contents]

Bindings == [request : Requests \cup {Nothing}, revision : Nat]

Jobs == [stage : {"idle", "waiting", "locked", "committed", "written", "marked"},
         key : Keys \cup {Nothing}, request : Requests \cup {Nothing},
         doc : Docs \cup {Nothing}, paths : SUBSET Paths,
         target : Paths \cup {Nothing}, revision : Nat,
         stale : Paths \cup {Nothing}]

TypeOK ==
    /\ row \in [Docs -> Rows]
    /\ revisions \in Seq(Revisions)
    /\ keys \in [Keys -> Bindings]
    /\ disk \in [Paths -> Contents \cup {Nothing}]
    /\ edited \in SUBSET Paths
    /\ edits \in Nat
    /\ job \in [Clients -> Jobs]

(* What the rows and keys say of the history.                              *)
Bound(b) == [base |-> CASE b = Unbound -> 0
                        [] b.request.op = "tag" -> b.revision
                        [] OTHER -> b.request.expected,
             revision |-> b.revision]

Log == INSTANCE RevisionLog
          WITH log   <- revisions,
               head  <- [d \in Docs |-> row[d].head],
               bound <- [k \in Keys |-> Bound(keys[k])]

(* The pipeline implements the revision log: "checks the actor, replays a  *)
(* reused idempotency key, re-checks the expected revision, writes the     *)
(* revision, binds the key" (docs/architecture.md, step 3).                *)
LogSpec == Log!Spec

(* No client's update overwrites one it had not read, and a retry, even    *)
(* one that overlaps the first attempt, never writes a second revision.    *)
NoLostUpdate == Log!HistoryIsLinear /\ Log!WritesFollowTheirBase

(* "The file tree is always generation-consistent with the database": the  *)
(* file of a document marked clean holds its head, unless somebody else    *)
(* changed it, while moves vacate paths that creates are waiting for.      *)
CleanMeansCurrent ==
    \A d \in Docs : Live(d) /\ row[d].state = "clean" /\ row[d].path \notin edited
                       => disk[row[d].path] = HeadContent(d)

(* A request about to be answered has its revision in the workspace,       *)
(* whether it wrote that revision, replayed it, or only touched metadata.  *)
AnswersAreMaterialized ==
    \A c \in Clients : LET d == job[c].doc IN
        job[c].stage = "marked" /\ row[d].head = job[c].revision
           /\ row[d].path # Nothing /\ ~row[d].deleted
              => row[d].state = "clean"

(* Without failures, a file belongs to a live document or is about to be   *)
(* removed by the request that made it stale.                              *)
NoStrayFile ==
    Failing = {} /\ ~ProcessDies =>
        \A p \in Paths \ edited : disk[p] # Nothing =>
            \/ \E d \in Docs : Live(d) /\ row[d].path = p
            \/ \E c \in Clients : /\ job[c].stage \in {"committed", "written", "marked"}
                                  /\ p \in StaleFiles(c)

(* "After the commit it materializes text, removes stale files"            *)
(* (docs/architecture.md, step 3): when every request has ended and every  *)
(* document with a path is clean again, no file of Sangam's own is left at *)
(* a path no document has.                                                 *)
SettledTreeIsTidy ==
    (/\ \A c \in Clients : job[c].stage = "idle"
     /\ \A d \in Docs : row[d].state # "pending")
       => \A p \in Paths \ edited :
             disk[p] # Nothing => \E d \in Docs : Live(d) /\ row[d].path = p
=============================================================================
