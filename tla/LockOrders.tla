------------------------------ MODULE LockOrders ------------------------------
(***************************************************************************)
(* The order in which the callers of MutationCoordinator open its blocks.  *)
(* Each operator is the way in of one pipeline: the blocks of             *)
(* mutations.py it enters, outermost first, down to the last one.  Keys    *)
(* carry the number that stands for their place in Python's sort order.    *)
(***************************************************************************)
EXTENDS LockSteps, Naturals, Sequences, FiniteSets

DocumentKey(n) == <<"document", n>>
PathKey(n)     == <<"path", n>>
CreationKey(n) == <<"creation", n>>

Sorted(keys) ==
    CHOOSE s \in [1 .. Cardinality(keys) -> keys] :
        \A i, j \in 1 .. Cardinality(keys) : i < j => s[i][2] < s[j][2]

Each(Op(_), keys) == [i \in 1..Len(keys) |-> Op(keys[i])]

-----------------------------------------------------------------------------
(* mutations.py: document(), documents(), path(), paths(), creation()      *)

Document(d) == <<Retain(d), Enter, Lock(d)>>

(* Mutant: the document locks are taken before the generation is entered.  *)
DocumentsThenGeneration(ds) ==
    Each(Retain, Sorted(ds)) \o Each(Lock, Sorted(ds)) \o <<Enter>>

Documents(ds) ==
    Each(Retain, Sorted(ds)) \o <<Enter>> \o Each(Lock, Sorted(ds))

Path(p) == <<Retain(p), Lock(p)>>

PathsOf(ps) == Each(Retain, Sorted(ps)) \o Each(Lock, Sorted(ps))

Creation(c) == <<Retain(c), Lock(c)>>

-----------------------------------------------------------------------------
(* service.py                                                              *)

FinishMaterialization(d, p) == Path(p) \o Document(d)

AppendRevision(d, ps) == PathsOf(ps) \o Document(d)

CreateDocument(c, p, d) ==
    Creation(c) \o PathsOf({p}) \o Document(d) \o FinishMaterialization(d, p)

RematerializeDocument(d, p) ==
    PathsOf({p}) \o Document(d) \o FinishMaterialization(d, p)

(* The storage calls of access.py run inside write_document's block.       *)
WriteDocument(d, ps) == Documents({d}) \o AppendRevision(d, ps)

DuplicateDocument(d, ps, c, p, new) ==
    Documents({d}) \o PathsOf(ps) \o Creation(c) \o PathsOf({p})
        \o Document(new)

(* A replayed duplicate re-enters with the source and the result.          *)
(* Mutant: the replay takes the source's lock, then the result's.          *)
ReplayDuplicateInOrder(d, new, p) ==
    Documents({d}) \o Documents({new}) \o Document(new)
        \o FinishMaterialization(new, p)

ReplayDuplicate(d, new, p) ==
    Documents({d, new}) \o Document(new) \o FinishMaterialization(new, p)

-----------------------------------------------------------------------------
(* organization.py, backup.py                                              *)

CreateFolder(f) == <<Enter>> \o Path(f)

RenameFolder == <<Exclusive>>

Backup == <<Exclusive>>

-----------------------------------------------------------------------------
(* All pipelines over given documents, paths and creation keys.            *)

Writes(documents, paths) ==
    {WriteDocument(d, ps) : d \in documents, ps \in SUBSET paths}

Duplicates(documents, created, paths, creations) ==
    UNION {{DuplicateDocument(d, ps, c, p, new) :
              d \in documents, c \in creations, p \in ps, new \in created} :
           ps \in SUBSET paths}

Replays(documents, paths) ==
    {ReplayDuplicate(d, new, p) : d, new \in documents, p \in paths}

(* Those that lock a document they know before its paths.  A document they *)
(* have just created comes last.                                           *)
DocumentFirst(documents, created, paths, creations) ==
    UNION {Writes(documents, paths),
           Duplicates(documents, created, paths, creations),
           Replays(documents, paths),
           {CreateFolder(f) : f \in paths}, {RenameFolder, Backup}}

(* Those that lock a path before the document.                             *)
PathFirst(documents, created, paths, creations) ==
    {CreateDocument(c, p, d) : c \in creations, p \in paths, d \in created}
      \cup {RematerializeDocument(d, p) : d \in documents, p \in paths}
=============================================================================
