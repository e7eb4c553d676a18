---------------------------- MODULE Reconciliation ----------------------------
(***************************************************************************)
(* ReconciliationService and ReconciliationPlanner of                      *)
(* sangam/reconciliation.py, over the write pipeline of DocumentStore.     *)
(*                                                                         *)
(* A scan takes no lock of its own.  It repairs pending documents, lists   *)
(* the documents, reads the directory, forgets ignored files, plans,       *)
(* repairs missing files, and stores the planned conflicts, while requests *)
(* and editors go on between any two of these steps.  An administrator     *)
(* then resolves a conflict with a write of the pipeline, with a repair,   *)
(* or by ignoring the file.                                                *)
(***************************************************************************)
EXTENDS Naturals, Sequences, FiniteSets

CONSTANTS
    Docs, Paths, Contents, Keys, Clients, Writes, Nothing,
    MaxRevisions, MaxVersion, MaxEdits, Failing, ProcessDies,
    Scanner         \* the client that scans

ASSUME ScannerAssumption == Scanner \in Clients

VARIABLES
    row, revisions, keys, disk, edited, edits, job,
    conflicts,  \* the open rows of reconciliation_conflicts
    ignored,    \* table ignored_workspace_files
    scan,       \* what the scan has read and planned
    settling,   \* the conflicts a client's request is to resolve
    due         \* clients whose request has succeeded, conflict unresolved

Store == INSTANCE DocumentStore

StoreRequest == [op : Store!Ops \cup {"repair"}, doc : Docs \cup {Nothing},
                 content : Contents \cup {Nothing}, path : Paths \cup {Nothing},
                 expected : Nat]

(* The requests are those of the pipeline and repairs, and NULL is none.   *)
ASSUME PipelineAssumption == Store!StoreAssumption /\ Nothing \notin StoreRequest

storeVars == <<row, revisions, keys, disk, edited, edits, job>>
vars == <<storeVars, conflicts, ignored, scan, settling, due>>

NoScan == [stage |-> "idle", todo |-> {}, listed |-> {}, files |-> <<>>,
           planned |-> {}, quiet |-> TRUE]

(* Somebody else than the scan has done a step.                            *)
Disturbed == IF scan.stage \in {"idle", "done"} THEN NoScan
                                                ELSE [scan EXCEPT !.quiet = FALSE]

Init ==
    /\ Store!Init
    /\ conflicts = {}
    /\ ignored = [p \in Paths |-> Nothing]
    /\ scan = NoScan
    /\ settling = [c \in Clients |-> {}]
    /\ due = {}

-----------------------------------------------------------------------------
(* The planner: from the documents listed and the files read, the          *)
(* documents to write again and the conflicts to show.                     *)

Unknown(listed, files) ==
    {p \in Paths : files[p] # Nothing} \ {m.path : m \in listed}

Missing(listed, files) == {m \in listed : files[m.path] = Nothing}

Matches(m, listed, files) ==
    {p \in Unknown(listed, files) : files[p] = m.content}

ToRematerialize(listed, files) ==
    {m.doc : m \in {n \in Missing(listed, files) : Matches(n, listed, files) = {}}}

(* A move is recognised only when nothing else can have moved there.       *)
Candidate(m, listed, files) ==
    IF /\ Cardinality(Matches(m, listed, files)) = 1
       /\ \A n \in Missing(listed, files) : n.content = m.content => n = m
    THEN CHOOSE p \in Matches(m, listed, files) : TRUE
    ELSE Nothing

PlannedConflicts(listed, files) ==
    LET moved == {m \in Missing(listed, files) : Matches(m, listed, files) # {}}
        matched == UNION {Matches(m, listed, files) : m \in moved}
    IN {[type |-> "possible_move", doc |-> m.doc, path |-> m.path,
         candidate |-> Candidate(m, listed, files), actual |-> m.content] : m \in moved}
       \cup
       {[type |-> "unexpected_hash", doc |-> m.doc, path |-> m.path,
         candidate |-> Nothing, actual |-> files[m.path]] :
            m \in {n \in listed \ Missing(listed, files) : files[n.path] # n.content}}
       \cup
       {[type |-> "unknown_file", doc |-> Nothing, path |-> p,
         candidate |-> Nothing, actual |-> files[p]] :
            p \in Unknown(listed, files) \ matched}

(* A conflict is identified by all but the hashes.                         *)
KeyOf(f) == <<f.type, f.doc, f.path, f.candidate>>

-----------------------------------------------------------------------------
(* rematerialize_document: read the document, take its locks, and write    *)
(* the file unless the document has changed since.                         *)

StartRepair(c, d) ==
    /\ job[c] = Store!Idle
    /\ Store!Live(d) /\ row[d].path # Nothing
    /\ job' = [job EXCEPT
                 ![c] = [Store!Idle EXCEPT
                           !.stage = "waiting", !.doc = d, !.paths = {row[d].path},
                           !.revision = row[d].head,
                           !.request = [op |-> "repair", doc |-> d, content |-> Nothing,
                                        path |-> row[d].path, expected |-> row[d].head]]]

Repairing(c) == job[c].request # Nothing /\ job[c].request.op = "repair"

StillCurrent(c) ==
    LET d == job[c].doc IN
    /\ Store!Live(d)
    /\ row[d].path = job[c].request.path /\ row[d].head = job[c].revision

WriteRepair(c) ==
    /\ Repairing(c) /\ job[c].stage = "locked" /\ StillCurrent(c)
    /\ disk' = [disk EXCEPT ![job[c].request.path] = Store!HeadContent(job[c].doc)]
    /\ edited' = edited \ {job[c].request.path}
    /\ job' = [job EXCEPT ![c].stage = "written"]
    /\ UNCHANGED <<row, revisions, keys, edits>>

EndRepair(c) ==
    /\ Repairing(c)
    /\ \/ job[c].stage = "marked"
       \/ job[c].stage = "locked" /\ ~StillCurrent(c)
    /\ Store!End(c)
    /\ UNCHANGED <<row, revisions, keys, disk, edited, edits>>

RepairStep(c) ==
    \/ Repairing(c) /\ Store!Acquire(c)
    \/ WriteRepair(c)
    \/ Repairing(c) /\ Store!MarkClean(c)

(* The file cannot be written or the row cannot be marked: it raises.      *)
FailRepair(c) ==
    /\ Repairing(c)
    /\ \/ "write" \in Failing /\ job[c].stage = "locked" /\ StillCurrent(c)
       \/ "mark" \in Failing /\ job[c].stage = "written"
    /\ Store!End(c)
    /\ UNCHANGED <<row, revisions, keys, disk, edited, edits>>

-----------------------------------------------------------------------------
(* A scan, step by step.                                                   *)

HasPath(d) == Store!Live(d) /\ row[d].path # Nothing

StartScan ==
    /\ scan.stage \in {"idle", "done"}
    /\ scan' = [NoScan EXCEPT !.stage = "recover",
                              !.todo = {d \in Docs : HasPath(d) /\ row[d].state = "pending"}]
    /\ UNCHANGED <<storeVars, conflicts, ignored, settling, due>>

(* The documents still to be written, one after the other.                 *)
RepairNext ==
    /\ scan.stage \in {"recover", "repair"}
    /\ \E d \in scan.todo :
          /\ StartRepair(Scanner, d)
          /\ scan' = [scan EXCEPT !.todo = @ \ {d}]
    /\ UNCHANGED <<row, revisions, keys, disk, edited, edits, conflicts, ignored,
                   settling, due>>

(* One of them was deleted since it was listed, or a repair has failed.    *)
AbortScan ==
    /\ scan.stage \in {"recover", "repair"}
    /\ \/ /\ job[Scanner] = Store!Idle
          /\ \E d \in scan.todo : ~HasPath(d)
          /\ UNCHANGED storeVars
       \/ FailRepair(Scanner)
    /\ scan' = NoScan
    /\ UNCHANGED <<conflicts, ignored, settling, due>>

ListDocuments ==
    /\ scan.stage = "recover" /\ scan.todo = {} /\ job[Scanner] = Store!Idle
    /\ scan' = [scan EXCEPT
                  !.stage = "listed",
                  !.listed = {[doc |-> d, path |-> row[d].path,
                               content |-> Store!HeadContent(d)] :
                                 d \in {e \in Docs : HasPath(e)}}]
    /\ UNCHANGED <<storeVars, conflicts, ignored, settling, due>>

ReadDirectory ==
    /\ scan.stage = "listed"
    /\ scan' = [scan EXCEPT !.stage = "read", !.files = disk]
    /\ UNCHANGED <<storeVars, conflicts, ignored, settling, due>>

(* Mutant: a file once ignored stays ignored, whatever it holds now.       *)
IgnoredFilesByPath(files) == {p \in Paths : files[p] # Nothing /\ ignored[p] # Nothing}

(* A file is ignored while it holds what it held then.                     *)
IgnoredFiles(files) == {p \in Paths : files[p] # Nothing /\ ignored[p] = files[p]}

(* _remove_ignored_files, then the planner: other paths stop being         *)
(* ignored, and the plan does not see the ignored files.                   *)
Plan ==
    LET hidden == IgnoredFiles(scan.files)
        seen == [p \in Paths |-> IF p \in hidden THEN Nothing ELSE scan.files[p]]
    IN /\ scan.stage = "read"
       /\ ignored' = [p \in Paths |-> IF p \in hidden THEN ignored[p] ELSE Nothing]
       /\ scan' = [scan EXCEPT !.stage = "repair", !.files = seen,
                               !.todo = ToRematerialize(scan.listed, seen),
                               !.planned = PlannedConflicts(scan.listed, seen)]
       /\ UNCHANGED <<storeVars, conflicts, settling, due>>

(* _synchronize_conflicts: the plan becomes the open conflicts.  Documents *)
(* it names are marked; those that were or are named and match the         *)
(* directory as it was read are clean again.                               *)
Synchronize ==
    LET named == {f.doc : f \in scan.planned} \ {Nothing}
        freed == {d \in {f.doc : f \in conflicts} \ ({Nothing} \cup named) :
                     HasPath(d) /\ scan.files[row[d].path] = Store!HeadContent(d)}
        kept == {KeyOf(f) : f \in scan.planned}
    IN /\ scan.stage = "repair" /\ scan.todo = {} /\ job[Scanner] = Store!Idle
       /\ conflicts' = scan.planned
       /\ row' = [d \in Docs |-> IF d \in named THEN [row[d] EXCEPT !.state = "conflict"]
                                 ELSE IF d \in freed THEN [row[d] EXCEPT !.state = "clean"]
                                 ELSE row[d]]
       /\ settling' = [c \in Clients |->
                          {k \in settling[c] : k \in kept \/ k[1] = "unknown_file"}]
       /\ scan' = [NoScan EXCEPT !.stage = "done", !.quiet = scan.quiet]
       /\ UNCHANGED <<revisions, keys, disk, edited, edits, job, ignored, due>>

-----------------------------------------------------------------------------
(* Resolutions.  Each reads the conflict, the document and the file, then  *)
(* goes through the pipeline; the conflict is resolved in a transaction    *)
(* after that.                                                             *)

Free(c) == c # Scanner /\ job[c] = Store!Idle /\ c \notin due

(* The key is a function of the conflict and the content: the same         *)
(* resolution asked for again replays.                                     *)
Settle(c, f, w, k) ==
    /\ Free(c)
    /\ Store!Submit(c, w, k)
    /\ w.op # "create" => job'[c].request.expected = row[w.doc].head
    /\ keys[k] = Store!Unbound \/ keys[k].request = job'[c].request
    /\ settling' = [settling EXCEPT ![c] = {KeyOf(f)}]
    /\ UNCHANGED <<conflicts, ignored, due>>

Drop(f) == conflicts' = {g \in conflicts : KeyOf(g) # KeyOf(f)}

AcceptDisk(c, f, k) ==
    /\ f.type = "unexpected_hash"
    /\ Store!Live(f.doc)
    /\ disk[f.path] # Nothing
    /\ \/ /\ Free(c)
          /\ disk[f.path] = Store!HeadContent(f.doc)
          /\ Drop(f)
          /\ UNCHANGED <<storeVars, ignored, settling, due>>
       \/ /\ disk[f.path] # Store!HeadContent(f.doc)
          /\ Settle(c, f, [op |-> "update", doc |-> f.doc, content |-> disk[f.path],
                           path |-> Nothing], k)

RestoreDatabase(c, f) ==
    /\ f.type = "unexpected_hash"
    /\ Free(c)
    /\ StartRepair(c, f.doc)
    /\ settling' = [settling EXCEPT ![c] = {KeyOf(f)}]
    /\ UNCHANGED <<row, revisions, keys, disk, edited, edits, conflicts, ignored, due>>

RecognizeMove(c, f, k) ==
    /\ f.type = "possible_move" /\ f.candidate # Nothing
    /\ Store!Live(f.doc)
    /\ \/ /\ Free(c)
          /\ row[f.doc].path = f.candidate
          /\ Drop(f)
          /\ UNCHANGED <<storeVars, ignored, settling, due>>
       \/ /\ row[f.doc].path # f.candidate
          /\ Settle(c, f, [op |-> "move", doc |-> f.doc, content |-> Nothing,
                           path |-> f.candidate], k)

(* reindex_path takes a path; it resolves the unknown file found there.    *)
Reindex(c, p, k) ==
    /\ disk[p] # Nothing
    /\ Settle(c, [type |-> "unknown_file", doc |-> Nothing, path |-> p,
                  candidate |-> Nothing],
              [op |-> "create", doc |-> Nothing, content |-> disk[p], path |-> p], k)

Ignore(c, f) ==
    /\ f.type = "unknown_file"
    /\ Free(c)
    /\ ignored' = [ignored EXCEPT ![f.path] = f.actual]
    /\ Drop(f)
    /\ UNCHANGED <<storeVars, settling, due>>

Resolved(c) ==
    /\ c \in due
    /\ conflicts' = {f \in conflicts : KeyOf(f) \notin settling[c]}
    /\ due' = due \ {c}
    /\ settling' = [settling EXCEPT ![c] = {}]
    /\ UNCHANGED <<storeVars, ignored>>

-----------------------------------------------------------------------------
(* A request of the pipeline, plain or for a resolution, moves on.  It is  *)
(* due when it has succeeded, and forgets the conflict when it has failed. *)

Plain(c) == job[c] # Store!Idle /\ ~Repairing(c)

Ask(c) ==
    /\ Free(c)
    /\ \E w \in Writes, k \in Keys : Store!Submit(c, w, k)
    /\ UNCHANGED <<settling, due>>

MovesOn(c) ==
    /\ \/ Plain(c) /\ Store!Acquire(c) /\ job'[c] # Store!Idle
       \/ Plain(c) /\ Store!Commit(c)
       \/ Plain(c) /\ Store!Replay(c)
       \/ Plain(c) /\ Store!WriteFile(c)
       \/ Plain(c) /\ Store!MarkClean(c)
       \/ Plain(c) /\ Store!NothingToFinish(c)
       \/ RepairStep(c)
    /\ UNCHANGED <<settling, due>>

Succeeds(c) ==
    /\ \/ Plain(c) /\ Store!Answer(c)
       \/ EndRepair(c)
    /\ due' = IF settling[c] # {} THEN due \cup {c} ELSE due
    /\ UNCHANGED settling

(* Mutant: a resolution that failed is taken for one that succeeded.       *)
FailsUnnoticed(c) ==
    /\ \/ Plain(c) /\ (Store!Refuse(c) \/ Store!FailFile(c))
       \/ FailRepair(c)
    /\ UNCHANGED <<settling, due>>

Fails(c) ==
    /\ \/ Plain(c) /\ Store!Refuse(c)
       \/ Plain(c) /\ Store!FailFile(c)
       \/ FailRepair(c)
       \/ Plain(c) /\ Store!Acquire(c) /\ job'[c] = Store!Idle
    /\ settling' = [settling EXCEPT ![c] = {}]
    /\ UNCHANGED due

Edit ==
    /\ \E p \in Paths, x \in Contents \cup {Nothing} : Store!EditFile(p, x)
    /\ UNCHANGED <<settling, due>>

Crash ==
    /\ ProcessDies
    /\ scan.stage \notin {"idle", "done"} \/ due # {} \/ \E c \in Clients : job[c] # Store!Idle
    /\ job' = [c \in Clients |-> Store!Idle]
    /\ settling' = [c \in Clients |-> {}]
    /\ due' = {}
    /\ scan' = NoScan
    /\ UNCHANGED <<row, revisions, keys, disk, edited, edits, conflicts, ignored>>

-----------------------------------------------------------------------------
ScanStep ==
    \/ StartScan \/ RepairNext \/ AbortScan \/ ListDocuments
    \/ ReadDirectory \/ Plan \/ Synchronize
    \/ /\ RepairStep(Scanner) \/ EndRepair(Scanner)
       /\ UNCHANGED <<conflicts, ignored, scan, settling, due>>

Resolution(c) ==
    \/ \E f \in conflicts, k \in Keys : AcceptDisk(c, f, k) \/ RecognizeMove(c, f, k)
    \/ \E f \in conflicts : RestoreDatabase(c, f) \/ Ignore(c, f)
    \/ \E p \in Paths, k \in Keys : Reindex(c, p, k)
    \/ Resolved(c)

OtherStep ==
    \/ \E c \in Clients \ {Scanner} :
          \/ Resolution(c)
          \/ (Ask(c) \/ MovesOn(c) \/ Succeeds(c) \/ Fails(c)) /\ UNCHANGED <<conflicts, ignored>>
    \/ Edit /\ UNCHANGED <<conflicts, ignored>>

Next ==
    \/ ScanStep
    \/ OtherStep /\ scan' = Disturbed
    \/ Crash

Spec == Init /\ [][Next]_vars

-----------------------------------------------------------------------------
Conflicts == [type : {"possible_move", "unexpected_hash", "unknown_file"},
              doc : Docs \cup {Nothing}, path : Paths,
              candidate : Paths \cup {Nothing}, actual : Contents]

ConflictKeys == {KeyOf(f) : f \in Conflicts}

(* A client has a conflict in hand exactly while the request that is to    *)
(* settle it is under way or has just succeeded; the scanner never has.    *)
TypeOK ==
    /\ \A d \in Docs : row[d].state \in {"none", "pending", "clean", "conflict"}
    /\ conflicts \subseteq Conflicts
    /\ ignored \in [Paths -> Contents \cup {Nothing}]
    /\ scan.stage \in {"idle", "recover", "listed", "read", "repair", "done"}
    /\ scan.todo \subseteq Docs
    /\ settling \in [Clients -> SUBSET ConflictKeys]
    /\ due \subseteq Clients \ {Scanner}
    /\ \A c \in Clients :
          /\ settling[c] # {} => c # Scanner /\ (c \in due \/ job[c] # Store!Idle)
          /\ c \in due => job[c] = Store!Idle

(* A file the scan has seen is accounted for: it holds the head of its     *)
(* document, or a conflict shows it, or somebody chose to ignore what it   *)
(* holds now.  And no document is left without its file or a conflict.     *)
ScanAccountsForTree ==
    scan.stage = "done" /\ scan.quiet =>
        /\ \A d \in Docs : HasPath(d) /\ disk[row[d].path] # Store!HeadContent(d) =>
              \E f \in conflicts : f.doc = d /\ f.path = row[d].path
        /\ \A p \in Paths : disk[p] # Nothing =>
              \/ \E d \in Docs : HasPath(d) /\ row[d].path = p
              \/ ignored[p] = disk[p]
              \/ \E f \in conflicts : /\ f.type # "unexpected_hash"
                                      /\ f.type = "unknown_file" => f.path = p
                                      /\ f.actual = disk[p]

(* "Conflicts are surfaced in the UI and resolved explicitly, never        *)
(* auto-overwritten" (docs/architecture.md): the scan is never about to    *)
(* replace what somebody else has written.                                 *)
ScanOverwritesNoEdit ==
    Repairing(Scanner) /\ job[Scanner].stage = "locked" /\ StillCurrent(Scanner) =>
        LET p == job[Scanner].request.path
        IN p \in edited => disk[p] \in {Nothing, Store!HeadContent(job[Scanner].doc)}
=============================================================================
