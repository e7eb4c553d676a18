-------------------------------- MODULE Access --------------------------------
(***************************************************************************)
(* The workspace boundary of access.py and its deny-by-default policy      *)
(* (authorization.py, security.py).  A request carries the grants its      *)
(* principal was authenticated with; the path they are held against is the *)
(* document's, which moves.  Document writes read the path under the lock  *)
(* they write under; the other operations read it before they authorize.   *)
(***************************************************************************)
EXTENDS Naturals, Sequences, FiniteSets

CONSTANTS
    Prefixes,           \* scope prefixes, sequences of names; <<>> is "everywhere"
    Paths,              \* paths a document may have
    NoPath,             \* path None: a document that is not materialized
    GrantChoices        \* the grants a principal may have

ASSUME AccessAssumption ==
    /\ Prefixes \subseteq Seq(STRING) /\ Paths \subseteq Seq(STRING)
    /\ NoPath \notin Prefixes \cup Paths
    /\ \A scopes \in GrantChoices : \A grant \in scopes : grant.prefix \in Prefixes

VARIABLES
    documentPath,       \* the path of the document
    grants,             \* the scopes of the principal, [capability, prefix]
    access              \* the request: operation, where it is, what it has seen

accessVars == <<documentPath, grants, access>>

-----------------------------------------------------------------------------
(* The policy                                                              *)

(* path_matches()                                                          *)
PathMatches(prefix, path) ==
    \/ prefix = <<>>
    \/ /\ path # NoPath
       /\ Len(prefix) <= Len(path)
       /\ \A i \in 1 .. Len(prefix) : path[i] = prefix[i]

Granted(scopes, capability) == {g.prefix : g \in {h \in scopes : h.capability = capability}}

Allows(scopes, capability, path) ==
    \E prefix \in Granted(scopes, capability) : PathMatches(prefix, path)

(* _intersect_prefixes() over all pairs: the narrower of two nested ones.  *)
NarrowedPrefixes(left, right) ==
    {r \in right : \E l \in left : PathMatches(l, r)}
      \cup {l \in left : \E r \in right : PathMatches(r, l)}

MinimalPrefixes(prefixes) ==
    {p \in prefixes : \A q \in prefixes \ {p} : ~PathMatches(q, p)}

(* allowed_prefixes() of READ and SEARCH: what a search is filtered by.    *)
AllowedPrefixes(scopes) ==
    MinimalPrefixes(NarrowedPrefixes(Granted(scopes, "read"), Granted(scopes, "search")))

Finds(scopes, path) == \E prefix \in AllowedPrefixes(scopes) : PathMatches(prefix, path)

-----------------------------------------------------------------------------
(* What each operation asks for                                            *)

Asks(names, capability) == [operation : names, capability : {capability}]

(* _DOCUMENT_WRITE_CAPABILITY, on the current path                         *)
DocumentWrites ==
    UNION {Asks({"update"}, "update"), Asks({"duplicate"}, "read"), Asks({"tag"}, "tag"),
           Asks({"materialize", "move"}, "move"), Asks({"delete"}, "delete"),
           Asks({"restore"}, "restore")}

DestinationCapability(operation) == IF operation = "duplicate" THEN "create" ELSE "move"

HasDestination == {"move", "materialize", "duplicate"}

PdfOperations == Asks({"read_pdf", "read_pdf_text"}, "read")

AnnotationOperations ==
    Asks({"list_annotations", "annotation_history"}, "read") \cup Asks({"annotate"}, "update")

CommentOperations ==
    Asks({"list_comments", "get_comment"}, "read")
      \cup Asks({"comment", "resolve_comment"}, "update")

AssetOperations == Asks({"attach_asset"}, "update") \cup Asks({"read_asset"}, "read")

PublicationOperations ==
    Asks({"publish", "read_publication"}, "publish") \cup Asks({"issue_trusted_preview"}, "read")

PublicationChanges ==
    Asks({"update_publication", "unpublish", "expose_revision", "rotate_token"}, "publish")

HistoryOperations == Asks({"history", "revision_page", "read_revision", "diff"}, "read")

DocumentOperations ==
    UNION {PdfOperations, AnnotationOperations, CommentOperations, AssetOperations,
           PublicationOperations, PublicationChanges, HistoryOperations}

-----------------------------------------------------------------------------
Quiet == [at |-> "idle", asks |-> [operation |-> "none", capability |-> "none"],
          seen |-> NoPath, destination |-> NoPath, performedAt |-> NoPath]

Init ==
    /\ documentPath \in Paths \cup {NoPath}
    /\ grants \in GrantChoices
    /\ access = Quiet

AccessAt(place) == access.at = place

(* The other operations read the document, and with it the path, first.    *)
BeginOperation(asked) ==
    /\ AccessAt("idle")
    /\ access' = [Quiet EXCEPT !.at = "read", !.asks = asked, !.seen = documentPath]
    /\ UNCHANGED <<documentPath, grants>>

(* _document_operation(): require() against the path that was read.        *)
AuthorizeOperation ==
    /\ AccessAt("read")
    /\ access' = IF Allows(grants, access.asks.capability, access.seen)
                 THEN [access EXCEPT !.at = "authorized"] ELSE Quiet
    /\ UNCHANGED <<documentPath, grants>>

(* write_document(): the path is read, and the write authorized, under the *)
(* lock; so is the destination.                                            *)
BeginWrite(asked, destination) ==
    /\ AccessAt("idle")
    /\ asked.operation \notin HasDestination => destination = NoPath
    /\ asked.operation \in {"move", "materialize"} =>
         destination \in Paths /\ (asked.operation = "move") = (documentPath # NoPath)
    /\ Allows(grants, asked.capability, documentPath)
    /\ asked.operation \in HasDestination =>
         Allows(grants, DestinationCapability(asked.operation), destination)
    /\ access' = [Quiet EXCEPT !.at = "locked", !.asks = asked,
                               !.destination = destination, !.seen = documentPath]
    /\ UNCHANGED <<documentPath, grants>>

PerformWrite ==
    /\ AccessAt("locked")
    /\ access' = [access EXCEPT !.at = "written", !.performedAt = documentPath]
    /\ documentPath' = IF access.asks.operation \in {"move", "materialize"}
                       THEN access.destination ELSE documentPath
    /\ UNCHANGED grants

PerformOperation ==
    /\ AccessAt("authorized")
    /\ access' = [access EXCEPT !.at = "performed", !.performedAt = documentPath]
    /\ UNCHANGED <<documentPath, grants>>

Answer ==
    /\ access.at \in {"written", "performed"}
    /\ access' = Quiet
    /\ UNCHANGED <<documentPath, grants>>

MoveDocumentIgnoringLock(path) ==
    /\ documentPath # path
    /\ documentPath' = path
    /\ UNCHANGED <<grants, access>>

(* Somebody else moves the document, or the folder it is in: under its     *)
(* lock, or under the barrier that no write is inside of.                  *)
MoveDocument(path) ==
    /\ ~AccessAt("locked")
    /\ documentPath # path
    /\ documentPath' = path
    /\ UNCHANGED <<grants, access>>

Next ==
    \/ \E asked \in DocumentOperations : BeginOperation(asked)
    \/ AuthorizeOperation \/ PerformOperation
    \/ \E asked \in DocumentWrites, destination \in Paths \cup {NoPath} :
         BeginWrite(asked, destination)
    \/ PerformWrite \/ Answer
    \/ \E path \in Paths : MoveDocument(path)

Spec == Init /\ [][Next]_accessVars

-----------------------------------------------------------------------------
(* Properties.                                                             *)

TypeOK ==
    /\ documentPath \in Paths \cup {NoPath}
    /\ access.at \in {"idle", "read", "authorized", "locked", "written", "performed"}
    /\ access.seen \in Paths \cup {NoPath}

(* "Authorizes the document's fresh path (and the destination of a move,   *)
(* materialization, or duplicate)": when a document write is performed,    *)
(* its principal is granted it where the document is then, and where it    *)
(* goes, however it has been moved meanwhile.                              *)
WritesStayInScope ==
    AccessAt("written") =>
        /\ Allows(grants, access.asks.capability, access.performedAt)
        /\ access.asks.operation \in HasDestination =>
             Allows(grants, DestinationCapability(access.asks.operation), access.destination)

(* "Return the path union allowed by every requested capability": a search *)
(* finds the documents that its principal may both read and search.        *)
SearchFindsWhatIsGranted ==
    \A path \in Paths \cup {NoPath} :
        Finds(grants, path) <=> Allows(grants, "read", path) /\ Allows(grants, "search", path)

(* A scoped principal reaches exactly its scope: it writes nothing outside *)
(* of it, and a search finds what its grants say.                          *)
AccessStaysInScope == WritesStayInScope /\ SearchFindsWhatIsGranted
=============================================================================
