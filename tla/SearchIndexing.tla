----------------------------- MODULE SearchIndexing ------------------------------
(***************************************************************************)
(* The full-text index (search.py): every commit that changes something    *)
(* searchable marks the document in search_dirty_documents by a trigger;   *)
(* the writer indexes it in a transaction of its own, or does not get to   *)
(* it; a start repairs what is marked.  What there is to search in a       *)
(* document is the number of its changes, 0 when nothing is shown.         *)
(***************************************************************************)
EXTENDS Naturals, FiniteSets

CONSTANTS
    SearchDocuments, Writers,
    MaxSearchChanges,         \* commits to a document
    RepairBatch         \* the LIMIT of repair_pending()

VARIABLES
    source,     \* per document its changes, and whether it is deleted
    indexed,    \* document_search
    marked,     \* search_dirty_documents
    writer,     \* the document each writer has yet to index, as it read it
    serving     \* whether the start is over

searchVars == <<source, indexed, marked, writer, serving>>

NoWork == [of |-> {}, seen |-> 0]

SearchInit ==
    /\ source = [d \in SearchDocuments |-> [changes |-> 0, deleted |-> FALSE]]
    /\ indexed = [d \in SearchDocuments |-> 0]
    /\ marked = {}
    /\ writer = [w \in Writers |-> NoWork]
    /\ serving = TRUE

Searchable(d) == IF source[d].deleted THEN 0 ELSE source[d].changes

(* The triggers of 026_search_dirty_documents.sql.                         *)
ChangeSearchable(d, deletes) ==
    /\ source[d].changes < MaxSearchChanges
    /\ source' = [source EXCEPT ![d] = [changes |-> @.changes + 1, deleted |-> deletes]]
    /\ marked' = marked \cup {d}

(* replace(): the committed state, and the mark with it.                   *)
Reindexed(documents, state) ==
    /\ indexed' = [d \in SearchDocuments |-> IF d \in documents THEN state[d] ELSE indexed[d]]
    /\ marked' = marked \ documents

Committed == [d \in SearchDocuments |-> Searchable(d)]

-----------------------------------------------------------------------------
(* Writers                                                                 *)

(* A commit of DocumentService or PdfResearchService.                      *)
CommitSearchable(w, d, deletes) ==
    /\ serving /\ writer[w].of = {}
    /\ ChangeSearchable(d, deletes)
    /\ writer' = [writer EXCEPT ![w] = [of |-> {d}, seen |-> 0]]
    /\ UNCHANGED <<indexed, serving>>

(* get_document() after the commit.                                        *)
ReadBack(w) ==
    /\ \E d \in writer[w].of : writer' = [writer EXCEPT ![w].seen = Searchable(d)]
    /\ UNCHANGED <<source, indexed, marked, serving>>

SyncSnapshot(w) ==
    /\ writer[w].of # {}
    /\ Reindexed(writer[w].of, [d \in SearchDocuments |-> writer[w].seen])
    /\ writer' = [writer EXCEPT ![w] = NoWork]
    /\ UNCHANGED <<source, serving>>

(* sync() reads the document again under the writer lock.                  *)
Sync(w) ==
    /\ writer[w].of # {}
    /\ Reindexed(writer[w].of, Committed)
    /\ writer' = [writer EXCEPT ![w] = NoWork]
    /\ UNCHANGED <<source, serving>>

(* The file could not be written: the call ends before its sync().         *)
FailBeforeSync(w) ==
    /\ writer[w].of # {}
    /\ writer' = [writer EXCEPT ![w] = NoWork]
    /\ UNCHANGED <<source, indexed, marked, serving>>

(* A folder that is renamed indexes its documents in its own transaction.  *)
CommitIndexing(documents) ==
    /\ serving
    /\ documents # {} /\ \A d \in documents : source[d].changes < MaxSearchChanges
    /\ source' = [d \in SearchDocuments |->
         IF d \in documents THEN [source[d] EXCEPT !.changes = @ + 1] ELSE source[d]]
    /\ Reindexed(documents, [d \in SearchDocuments |->
         IF source[d].deleted THEN 0 ELSE source[d].changes + 1])
    /\ UNCHANGED <<writer, serving>>

(* The name of an actor or a tag, which nobody indexes while it serves.    *)
CommitElsewhere(d) ==
    /\ serving
    /\ ChangeSearchable(d, source[d].deleted)
    /\ UNCHANGED <<indexed, writer, serving>>

(* rebuild(): one transaction, in which the documents are read as well.    *)
Rebuild ==
    /\ serving
    /\ Reindexed(SearchDocuments, Committed)
    /\ UNCHANGED <<source, writer, serving>>

-----------------------------------------------------------------------------
(* The process stops, and repair_pending() before it serves again          *)

StopServing ==
    /\ serving' = FALSE
    /\ writer' = [w \in Writers |-> NoWork]
    /\ UNCHANGED <<source, indexed, marked>>

RepairSome(documents) ==
    /\ ~serving
    /\ documents \subseteq marked /\ documents # {} /\ Cardinality(documents) <= RepairBatch
    /\ Reindexed(documents, Committed)
    /\ UNCHANGED <<source, writer, serving>>

Serve ==
    /\ ~serving /\ marked = {}
    /\ serving' = TRUE
    /\ UNCHANGED <<source, indexed, marked, writer>>

SearchNext ==
    \/ \E w \in Writers :
         \/ \E d \in SearchDocuments, deletes \in BOOLEAN : CommitSearchable(w, d, deletes)
         \/ ReadBack(w) \/ Sync(w) \/ FailBeforeSync(w)
    \/ \E documents \in SUBSET SearchDocuments : CommitIndexing(documents) \/ RepairSome(documents)
    \/ \E d \in SearchDocuments : CommitElsewhere(d)
    \/ Rebuild \/ StopServing \/ Serve

SearchSpec == SearchInit /\ [][SearchNext]_searchVars

-----------------------------------------------------------------------------
(* Properties.                                                             *)

SearchTypeOK ==
    /\ \A d \in SearchDocuments :
         source[d].changes \in 0 .. MaxSearchChanges /\ indexed[d] \in 0 .. MaxSearchChanges
    /\ marked \subseteq SearchDocuments

(* "Index synchronization reads the canonical state and removes that       *)
(* marker in one transaction": whatever writers, folder moves, a rebuild   *)
(* and a stop do to one document at once, the index either shows what is   *)
(* committed or the document is marked for the next start.                 *)
IndexedOrMarked == \A d \in SearchDocuments : d \notin marked => indexed[d] = Searchable(d)
=============================================================================
