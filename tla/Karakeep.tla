-------------------------------- MODULE Karakeep ---------------------------------
(***************************************************************************)
(* The import of one Karakeep bookmark (karakeep.py) and its row           *)
(* (karakeep_repository.py): the first import creates a document, a        *)
(* refresh fetches the source again and asks for a review, and the review  *)
(* is applied to the document.  Each call of the repository and of the     *)
(* document service is a transaction of its own; between two the process   *)
(* may stop.  A snapshot is known by its content.                          *)
(***************************************************************************)
EXTENDS Naturals, Sequences, FiniteSets

CONSTANTS
    Importers,          \* threads that serve import_bookmark() and refresh_import()
    Contents, Nothing,  \* what the bookmark may hold, and a NULL
    MaxFetches          \* answers of Karakeep

(* NULL is not a content of a bookmark.                                    *)
ASSUME ImportAssumption == Nothing \notin Contents /\ MaxFetches \in Nat

VARIABLES
    import,     \* the row of karakeep_imports
    snapshots,  \* karakeep_snapshots in the order they were stored
    born,       \* the content the bookmark's document was created with
    importer,   \* what each importer is doing
    apply,      \* where the reviewer's apply_refresh() is
    offered,    \* the contents that have been pending, for the properties
    fetches

importVars == <<import, snapshots, born, importer, apply, offered, fetches>>

IdleImporter == [at |-> "idle", linked |-> FALSE, snapshot |-> Nothing, unchanged |-> FALSE]

ImportInit ==
    /\ import = [status |-> "absent", linked |-> FALSE, accepted |-> Nothing, pending |-> Nothing]
    /\ snapshots = <<>>
    /\ born = Nothing
    /\ importer = [w \in Importers |-> IdleImporter]
    /\ apply = "idle"
    /\ offered = {}
    /\ fetches = 0

ImporterAt(w, place) == importer[w].at = place
ImporterGoes(w, place) == importer' = [importer EXCEPT ![w].at = place]
ImporterEnds(w) == importer' = [importer EXCEPT ![w] = IdleImporter]
Importing(w) == importer[w].at \notin {"idle", "found"}
Stored == {snapshots[i] : i \in DOMAIN snapshots}
Claimed == import' = [import EXCEPT !.status = "importing"]

-----------------------------------------------------------------------------
(* import_bookmark()                                                       *)

(* find_by_bookmark(): an import that is done or awaits a review is        *)
(* answered as it is.                                                      *)
FindImport(w) ==
    /\ ImporterAt(w, "idle")
    /\ ~(import.linked /\ import.status \in {"current", "review_required"})
    /\ ImporterGoes(w, "found")
    /\ UNCHANGED <<import, snapshots, born, apply, fetches, offered>>

ReserveImport(w) ==
    /\ ImporterAt(w, "found")
    /\ import.status # "importing"
    /\ Claimed
    /\ ImporterGoes(w, "reserved")
    /\ UNCHANGED <<snapshots, born, apply, fetches, offered>>

RefuseImport(w) ==
    /\ ImporterAt(w, "found") /\ import.status = "importing"
    /\ ImporterEnds(w)
    /\ UNCHANGED <<import, snapshots, born, apply, fetches, offered>>

(* recover_document_link(): the create key of the bookmark tells of a      *)
(* document that was committed and never linked; the first snapshot is     *)
(* what it was made from.                                                  *)
RecoverLink(w) ==
    /\ ImporterAt(w, "reserved")
    /\ LET found == import.linked \/ born # Nothing IN
       /\ import' = IF import.linked \/ ~found THEN import
                    ELSE [import EXCEPT !.linked = TRUE,
                            !.accepted = IF snapshots = <<>> THEN @ ELSE snapshots[1]]
       /\ importer' = [importer EXCEPT ![w].at = "link known", ![w].linked = found]
    /\ UNCHANGED <<snapshots, born, apply, fetches, offered>>

InitialSnapshot ==
    IF import.accepted # Nothing THEN import.accepted
    ELSE IF snapshots # <<>> THEN snapshots[1] ELSE Nothing

Fetches(w, content, next) ==
    /\ fetches < MaxFetches
    /\ fetches' = fetches + 1
    /\ snapshots' = IF content \in Stored THEN snapshots ELSE Append(snapshots, content)
    /\ importer' = [importer EXCEPT ![w].at = next, ![w].snapshot = content]
    /\ UNCHANGED <<import, born, apply, offered>>

(* initial_snapshot(), or bookmark(), extract() and store_snapshot().      *)
UseSnapshot(w) ==
    /\ ImporterAt(w, "link known") /\ InitialSnapshot # Nothing
    /\ importer' = [importer EXCEPT ![w].at = "snapshot", ![w].snapshot = InitialSnapshot]
    /\ UNCHANGED <<import, snapshots, born, apply, fetches, offered>>

FetchSnapshot(w, content) ==
    /\ ImporterAt(w, "link known") /\ InitialSnapshot = Nothing
    /\ Fetches(w, content, "snapshot")

(* create_document() under the create key: a replay answers with the       *)
(* document only for the content of the first call.                        *)
CreateImported(w) ==
    /\ ImporterAt(w, "snapshot") /\ ~importer[w].linked
    /\ born \in {Nothing, importer[w].snapshot}
    /\ born' = importer[w].snapshot
    /\ ImporterGoes(w, "created")
    /\ UNCHANGED <<import, snapshots, apply, fetches, offered>>

LinkDocument(w) ==
    /\ ImporterAt(w, "created")
    /\ import' = [import EXCEPT !.linked = TRUE, !.accepted = importer[w].snapshot]
    /\ ImporterGoes(w, "linked")
    /\ UNCHANGED <<snapshots, born, apply, fetches, offered>>

(* The tags are merged on the way here; they are left out.                 *)
CompleteImport(w) ==
    /\ ImporterAt(w, "linked") \/ (ImporterAt(w, "snapshot") /\ importer[w].linked)
    /\ import' = [import EXCEPT !.status = "current", !.accepted = importer[w].snapshot,
                                !.pending = Nothing]
    /\ ImporterEnds(w)
    /\ UNCHANGED <<snapshots, born, apply, fetches, offered>>

-----------------------------------------------------------------------------
(* refresh_import() of an import that has its document                     *)

ClaimImport(w) ==
    /\ ImporterAt(w, "idle") /\ import.linked
    /\ import.status # "importing"
    /\ Claimed
    /\ ImporterGoes(w, "claimed")
    /\ UNCHANGED <<snapshots, born, apply, fetches, offered>>

FetchRefresh(w, content) ==
    /\ ImporterAt(w, "claimed")
    /\ Fetches(w, content, "fetched")

(* accepted_content_hash()                                                 *)
CompareFetched(w) ==
    /\ ImporterAt(w, "fetched")
    /\ importer' = [importer EXCEPT ![w].at = "compared",
                                    ![w].unchanged = import.accepted = importer[w].snapshot]
    /\ UNCHANGED <<import, snapshots, born, apply, fetches, offered>>

CompleteRefresh(w) ==
    /\ ImporterAt(w, "compared")
    /\ import' = IF importer[w].unchanged
                 THEN [import EXCEPT !.status = "current", !.pending = Nothing]
                 ELSE [import EXCEPT !.status = "review_required",
                                     !.pending = importer[w].snapshot]
    /\ offered' = offered \cup IF importer[w].unchanged THEN {} ELSE {importer[w].snapshot}
    /\ ImporterEnds(w)
    /\ UNCHANGED <<snapshots, born, apply, fetches>>

(* mark_failed(): Karakeep, the extraction or a transaction has failed.    *)
FailImport(w) ==
    /\ Importing(w)
    /\ import' = [import EXCEPT !.status = "failed"]
    /\ ImporterEnds(w)
    /\ UNCHANGED <<snapshots, born, apply, fetches, offered>>

-----------------------------------------------------------------------------
(* apply_refresh(), of the pending content as it was shown                 *)

ReadPending ==
    /\ apply = "idle" /\ import.linked
    /\ import.status = "review_required" /\ import.pending # Nothing
    /\ apply' = "read"
    /\ UNCHANGED <<import, snapshots, born, importer, fetches, offered>>

(* update_document(), which may also refuse a stale revision.              *)
UpdateDocument ==
    /\ apply = "read"
    /\ apply' \in {"updated", "idle"}
    /\ UNCHANGED <<import, snapshots, born, importer, fetches, offered>>

AcceptPending ==
    [import EXCEPT !.status = "current", !.accepted = import.pending, !.pending = Nothing]

CompleteApplyUnguarded ==
    /\ apply = "updated"
    /\ import' = AcceptPending
    /\ apply' = "idle"
    /\ UNCHANGED <<snapshots, born, importer, fetches, offered>>

(* complete_apply(): only while a review is required.                      *)
CompleteApply ==
    /\ apply = "updated"
    /\ import' = IF import.status = "review_required" THEN AcceptPending ELSE import
    /\ apply' = "idle"
    /\ UNCHANGED <<snapshots, born, importer, fetches, offered>>

-----------------------------------------------------------------------------
(* The process stops and recover_interrupted_imports() runs as it starts.  *)

RestartImports ==
    /\ import' = IF import.status = "importing" THEN [import EXCEPT !.status = "failed"] ELSE import
    /\ importer' = [w \in Importers |-> IdleImporter]
    /\ apply' = "idle"
    /\ UNCHANGED <<snapshots, born, fetches, offered>>

ImportNext ==
    \/ \E w \in Importers :
         \/ FindImport(w) \/ ReserveImport(w) \/ RefuseImport(w) \/ RecoverLink(w)
         \/ UseSnapshot(w) \/ CreateImported(w) \/ LinkDocument(w) \/ CompleteImport(w)
         \/ ClaimImport(w) \/ CompareFetched(w) \/ CompleteRefresh(w) \/ FailImport(w)
         \/ \E content \in Contents : FetchSnapshot(w, content) \/ FetchRefresh(w, content)
    \/ ReadPending \/ UpdateDocument \/ CompleteApply \/ RestartImports

ImportSpec == ImportInit /\ [][ImportNext]_importVars

-----------------------------------------------------------------------------
(* Properties.                                                             *)

ImportTypeOK ==
    /\ import.status \in {"absent", "importing", "failed", "current", "review_required"}
    /\ {import.accepted, import.pending, born} \subseteq Stored \cup {Nothing}
    /\ apply \in {"idle", "read", "updated"}
    /\ fetches \in 0 .. MaxFetches

(* "refreshes surface diffs for review instead of silently overwriting     *)
(* edits": what is accepted as the source of the document is what the      *)
(* document was created from or was offered for a review, however often an *)
(* import or a refresh fails, is stopped and tried again meanwhile.        *)
AcceptedWasOffered == import.accepted \in {Nothing, born} \cup offered

(* A review that is required has something to show that differs from what  *)
(* was accepted, and an import that is current has nothing left to show,   *)
(* also when a refresh begins while a review is being applied.             *)
ReviewHasSomethingToShow ==
    /\ import.status = "review_required" => import.pending \notin {Nothing, import.accepted}
    /\ import.status = "current" => import.linked /\ import.pending = Nothing

(* An import is marked as running exactly while one importer works on it.  *)
RunningHasOneImporter ==
    Cardinality({w \in Importers : Importing(w)}) =
        IF import.status = "importing" THEN 1 ELSE 0

(* An import and its reviews are in step with the source.                  *)
ImportsKeepFaith ==
    AcceptedWasOffered /\ ReviewHasSomethingToShow /\ RunningHasOneImporter
=============================================================================
