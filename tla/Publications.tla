------------------------------ MODULE Publications ------------------------------
(***************************************************************************)
(* The publication of one document and its link tokens (publication.py).   *)
(* documents is UNIQUE in publications, so there is at most one row.  An   *)
(* update and an unpublish name the version they were made from; a         *)
(* rotation reads the row before its transaction and names no version.     *)
(* The document is not deleted: nobody is answered while it is.            *)
(***************************************************************************)
EXTENDS Naturals, FiniteSets

CONSTANTS
    Publishers,         \* requests that may be under way
    Revisions,          \* revisions of the document
    Links,              \* tokens, each issued once
    MaxVersion          \* bound on the version

VARIABLES
    publication,        \* the row of publications
    exposed,            \* publication_revision_exposures
    link,               \* rows of publication_tokens: none, live or revoked
    publisher           \* what a request does and the version it has read

publicationVars == <<publication, exposed, link, publisher>>

Policies == {"private", "public", "unlisted"}
LiveLinks == {l \in Links : link[l] = "live"}
Unused(l) == link[l] = "none"

PublicationInit ==
    /\ publication = [exists |-> FALSE, active |-> FALSE, policy |-> "private",
                      version |-> 0, revision |-> CHOOSE r \in Revisions : TRUE]
    /\ exposed = {}
    /\ link = [l \in Links |-> "none"]
    /\ publisher = [c \in Publishers |-> [does |-> "nothing", version |-> 0]]

Does(c, what) == publisher[c].does = what
Leaves(c) == publisher' = [publisher EXCEPT ![c] = [does |-> "nothing", version |-> 0]]

(* _revoke_tokens(): COALESCE leaves those revoked before alone.           *)
Revoked == [l \in Links |-> IF link[l] = "live" THEN "revoked" ELSE link[l]]

ReplacedKeepingOld(l) == [link EXCEPT ![l] = "live"]

(* _replace_unlisted_token()                                               *)
Replaced(l) == [Revoked EXCEPT ![l] = "live"]

(* The tokens an update leaves: none unless the publication is unlisted,   *)
(* and the one it has if it has one.                                       *)
TokensAfter(policy, l) ==
    CASE policy # "unlisted" -> Revoked
      [] policy = "unlisted" /\ LiveLinks # {} -> link
      [] OTHER -> Replaced(l)

-----------------------------------------------------------------------------
(* create()                                                                *)
Publish(policy, r, l) ==
    /\ ~publication.exists /\ Unused(l)
    /\ publication' = [exists |-> TRUE, active |-> TRUE, policy |-> policy,
                       version |-> 0, revision |-> r]
    /\ link' = IF policy = "unlisted" THEN Replaced(l) ELSE link
    /\ UNCHANGED <<exposed, publisher>>

(* A request reads the publication: the version an update or an unpublish  *)
(* names, the policy and activity a rotation asks for.                     *)
Load(c, what) ==
    /\ Does(c, "nothing") /\ publication.exists
    /\ what = "rotate" => publication.active /\ publication.policy = "unlisted"
    /\ publisher' = [publisher EXCEPT ![c] =
                       [does |-> what, version |-> publication.version]]
    /\ UNCHANGED <<publication, exposed, link>>

NextVersion == publication.version < MaxVersion
IsCurrent(c) == publisher[c].version = publication.version

Update(c, policy, r, l) ==
    /\ Does(c, "update") /\ IsCurrent(c) /\ NextVersion /\ Unused(l)
    /\ publication' = [publication EXCEPT !.active = TRUE, !.policy = policy,
                                          !.version = @ + 1, !.revision = r]
    /\ link' = TokensAfter(policy, l)
    /\ Leaves(c)
    /\ UNCHANGED exposed

Unpublish(c) ==
    /\ Does(c, "unpublish") /\ IsCurrent(c) /\ NextVersion
    /\ publication' = [publication EXCEPT !.active = FALSE, !.version = @ + 1]
    /\ link' = Revoked
    /\ Leaves(c)
    /\ UNCHANGED exposed

RefuseStale(c) ==
    /\ publisher[c].does \in {"update", "unpublish"} /\ ~IsCurrent(c)
    /\ Leaves(c)
    /\ UNCHANGED <<publication, exposed, link>>

(* rotate_token(): its transaction does not look at the row again.         *)
RotateToken(c, l) ==
    /\ Does(c, "rotate") /\ NextVersion /\ Unused(l)
    /\ publication' = [publication EXCEPT !.version = @ + 1]
    /\ link' = Replaced(l)
    /\ Leaves(c)
    /\ UNCHANGED exposed

(* expose_revision() takes any publication of the document.                *)
ExposeRevision(r) ==
    /\ publication.exists /\ r \notin exposed
    /\ exposed' = exposed \cup {r}
    /\ UNCHANGED <<publication, link, publisher>>

PublicationNext ==
    \/ \E policy \in Policies, r \in Revisions, l \in Links :
         Publish(policy, r, l) \/ \E c \in Publishers : Update(c, policy, r, l)
    \/ \E c \in Publishers :
         \/ \E what \in {"update", "unpublish", "rotate"} : Load(c, what)
         \/ \E l \in Links : RotateToken(c, l)
         \/ Unpublish(c) \/ RefuseStale(c)
    \/ \E r \in Revisions : ExposeRevision(r)

PublicationSpec == PublicationInit /\ [][PublicationNext]_publicationVars

-----------------------------------------------------------------------------
(* get_content(): who is answered, and with which revisions.               *)

MayRead(l, administrator) ==
    /\ publication.exists /\ publication.active
    /\ publication.policy = "private" => administrator
    /\ publication.policy = "unlisted" => l \in LiveLinks

-----------------------------------------------------------------------------
(* Properties.                                                             *)

PublicationTypeOK ==
    /\ publication.policy \in Policies /\ publication.version \in 0 .. MaxVersion
    /\ publication.revision \in Revisions /\ exposed \subseteq Revisions
    /\ link \in [Links -> {"none", "live", "revoked"}]

(* However updates, unpublishes and rotations interleave, an unlisted      *)
(* publication that is served has one link that opens it: the owner is     *)
(* never locked out, and no link from before a rotation works again.       *)
OneLinkOpens ==
    /\ Cardinality(LiveLinks) <= 1
    /\ publication.active /\ publication.policy = "unlisted" =>
         \E l \in Links : MayRead(l, FALSE)

(* "Only an active unlisted publication has an access token" (the refusal  *)
(* of rotate_token()).  Violated: a rotation that read the publication     *)
(* before an unpublish leaves a live token on what is no longer served.  No *)
(* run checks it.                                                          *)
OnlyServedHasToken ==
    LiveLinks # {} => publication.active /\ publication.policy = "unlisted"
=============================================================================
