--------------------------- MODULE ServiceProofs ----------------------------
(***************************************************************************)
(* Proofs about the rows requests share: who may reach a document          *)
(* (Access), which token says so (Tokens), which link opens it to others   *)
(* (Publications), the notes on it (Annotations), the bookmark it came     *)
(* from (Karakeep), the index that finds it (SearchIndexing) and the       *)
(* passages that are shown of it (SearchPassages).  A request reads,       *)
(* leaves the transaction and comes back; each invariant says what it may  *)
(* still rely on then.                                                     *)
(***************************************************************************)
EXTENDS Access, Annotations, Publications, Tokens, Karakeep, SearchPassages,
        OrderLemmas, SequenceTheorems, FiniteSetTheorems, TLAPS

-----------------------------------------------------------------------------
(* Access                                                                  *)

(* Prefixes                                                                *)

(* A prefix of a prefix is a prefix.                                       *)
LEMMA MatchesTransitively ==
    ASSUME NEW p, NEW q \in Seq(STRING), NEW r \in Seq(STRING),
           PathMatches(r, q), PathMatches(q, p)
    PROVE  PathMatches(r, p)
<1>1. CASE r = <<>>
  BY <1>1 DEF PathMatches
<1>2. CASE r # <<>>
  <2>1. q # <<>> /\ Len(r) <= Len(q) /\ \A i \in 1 .. Len(r) : q[i] = r[i]
    BY <1>2 DEF PathMatches
  <2>2. p # NoPath /\ Len(q) <= Len(p) /\ \A i \in 1 .. Len(q) : p[i] = q[i]
    BY <2>1 DEF PathMatches
  <2>3. Len(r) \in Nat /\ Len(q) \in Nat
    OBVIOUS
  <2> QED
    BY <2>1, <2>2, <2>3 DEF PathMatches
<1> QED
  BY <1>1, <1>2

(* Of two prefixes of one path, one is a prefix of the other.              *)
LEMMA MatchingPrefixesNest ==
    ASSUME NEW p, NEW q \in Seq(STRING), NEW r \in Seq(STRING),
           q # NoPath, r # NoPath, PathMatches(q, p), PathMatches(r, p)
    PROVE  PathMatches(r, q) \/ PathMatches(q, r)
<1>1. CASE r = <<>> \/ q = <<>>
  BY <1>1 DEF PathMatches
<1>2. CASE r # <<>> /\ q # <<>>
  BY <1>2 DEF PathMatches
<1> QED
  BY <1>1, <1>2

(* Two sequences that are prefixes of each other are one.                  *)
LEMMA MatchesAntisymmetric ==
    ASSUME NEW q \in Seq(STRING), NEW r \in Seq(STRING),
           PathMatches(r, q), Len(q) <= Len(r)
    PROVE  q = r
<1>1. CASE r = <<>>
  BY <1>1
<1>2. CASE r # <<>>
  <2>1. Len(q) = Len(r) /\ \A i \in 1 .. Len(r) : q[i] = r[i]
    BY <1>2 DEF PathMatches
  <2> QED
    BY <2>1, SeqEqual
<1> QED
  BY <1>1, <1>2

LEMMA ShortestExists ==
    ASSUME NEW T \in SUBSET Seq(STRING), T # {}
    PROVE  \E x \in T : \A y \in T : Len(x) <= Len(y)
<1> DEFINE lengths == {Len(x) : x \in T}
<1>1. lengths \in SUBSET Nat /\ lengths # {}
  <2>1. \A x \in T : Len(x) \in Nat
    BY LenProperties
  <2> QED
    BY <2>1
<1>2. \E m \in lengths : \A n \in lengths : m <= n
  <2> HIDE DEF lengths
  <2> QED
    BY <1>1, LeastOf
<1>3. PICK m \in lengths : \A n \in lengths : m <= n
  BY <1>2
<1>4. PICK x \in T : m = Len(x)
  OBVIOUS
<1> QED
  BY <1>3, <1>4

(* Every prefix of a set has a minimal one of the set before it.           *)
LEMMA MinimalPrefixExists ==
    ASSUME NEW T \in SUBSET Seq(STRING), NoPath \notin T, NEW q \in T
    PROVE  \E p \in MinimalPrefixes(T) : PathMatches(p, q)
<1> DEFINE before == {p \in T : PathMatches(p, q)}
<1>1. PathMatches(q, q)
  BY DEF PathMatches
<1>2. before \in SUBSET Seq(STRING) /\ before # {}
  BY <1>1
<1>3. PICK x \in before : \A y \in before : Len(x) <= Len(y)
  <2> HIDE DEF before
  <2> QED
    BY <1>2, ShortestExists
<1>4. ASSUME NEW y \in T \ {x}, PathMatches(y, x)
      PROVE  FALSE
  <2>1. y \in Seq(STRING) /\ x \in Seq(STRING) /\ q \in Seq(STRING)
    OBVIOUS
  <2>2. PathMatches(y, q)
    BY <1>4, <2>1, MatchesTransitively
  <2>3. Len(x) <= Len(y)
    BY <1>3, <2>2
  <2>4. x = y
    BY <1>4, <2>1, <2>3, MatchesAntisymmetric
  <2> QED
    BY <2>4
<1>5. x \in MinimalPrefixes(T) /\ PathMatches(x, q)
  BY <1>4 DEF MinimalPrefixes
<1> QED
  BY <1>5

-----------------------------------------------------------------------------
(* Searches                                                                *)

LEMMA GrantedArePrefixes ==
    ASSUME NEW scopes \in GrantChoices, NEW capability
    PROVE  /\ Granted(scopes, capability) \in SUBSET Seq(STRING)
           /\ NoPath \notin Granted(scopes, capability)
BY AccessAssumption DEF Granted

LEMMA NarrowedArePrefixes ==
    ASSUME NEW left \in SUBSET Seq(STRING), NEW right \in SUBSET Seq(STRING),
           NoPath \notin left, NoPath \notin right
    PROVE  /\ NarrowedPrefixes(left, right) \in SUBSET Seq(STRING)
           /\ NoPath \notin NarrowedPrefixes(left, right)
BY DEF NarrowedPrefixes

(* A path found is below a prefix of both sides.                           *)
LEMMA FoundIsGranted ==
    ASSUME NEW scopes \in GrantChoices, NEW path, Finds(scopes, path)
    PROVE  Allows(scopes, "read", path) /\ Allows(scopes, "search", path)
<1> DEFINE left == Granted(scopes, "read")
           right == Granted(scopes, "search")
<1>1. /\ left \in SUBSET Seq(STRING) /\ NoPath \notin left
      /\ right \in SUBSET Seq(STRING) /\ NoPath \notin right
  BY GrantedArePrefixes
<1>2. PICK p \in NarrowedPrefixes(left, right) : PathMatches(p, path)
  BY DEF Finds, AllowedPrefixes, MinimalPrefixes
<1>3. CASE p \in right /\ \E l \in left : PathMatches(l, p)
  <2>1. PICK l \in left : PathMatches(l, p)
    BY <1>3
  <2>2. PathMatches(l, path)
    BY <1>1, <1>2, <1>3, <2>1, MatchesTransitively
  <2> QED
    BY <1>2, <1>3, <2>2 DEF Allows
<1>4. CASE p \in left /\ \E r \in right : PathMatches(r, p)
  <2>1. PICK r \in right : PathMatches(r, p)
    BY <1>4
  <2>2. PathMatches(r, path)
    BY <1>1, <1>2, <1>4, <2>1, MatchesTransitively
  <2> QED
    BY <1>2, <1>4, <2>2 DEF Allows
<1> QED
  BY <1>2, <1>3, <1>4 DEF NarrowedPrefixes

(* A path below a prefix of either side is below the narrower of the two,  *)
(* which a minimal one stands for.                                         *)
LEMMA GrantedIsFound ==
    ASSUME NEW scopes \in GrantChoices, NEW path,
           Allows(scopes, "read", path), Allows(scopes, "search", path)
    PROVE  Finds(scopes, path)
<1> DEFINE left == Granted(scopes, "read")
           right == Granted(scopes, "search")
           narrowed == NarrowedPrefixes(left, right)
<1>1. /\ left \in SUBSET Seq(STRING) /\ NoPath \notin left
      /\ right \in SUBSET Seq(STRING) /\ NoPath \notin right
  BY GrantedArePrefixes
<1>2. PICK l \in left : PathMatches(l, path)
  BY DEF Allows
<1>3. PICK r \in right : PathMatches(r, path)
  BY DEF Allows
<1>4. PathMatches(l, r) \/ PathMatches(r, l)
  <2>1. l \in Seq(STRING) /\ r \in Seq(STRING) /\ l # NoPath /\ r # NoPath
    BY <1>1
  <2> QED
    BY <2>1, <1>2, <1>3, MatchingPrefixesNest
<1>5. \E q \in narrowed : PathMatches(q, path)
  BY <1>2, <1>3, <1>4 DEF NarrowedPrefixes
<1>6. PICK q \in narrowed : PathMatches(q, path)
  BY <1>5
<1>7. narrowed \in SUBSET Seq(STRING) /\ NoPath \notin narrowed
  BY <1>1, NarrowedArePrefixes
<1> HIDE DEF narrowed
<1>8. PICK p \in MinimalPrefixes(narrowed) : PathMatches(p, q)
  BY <1>7, MinimalPrefixExists
<1>9. p \in Seq(STRING) /\ q \in Seq(STRING)
  BY <1>7, <1>8 DEF MinimalPrefixes
<1>10. PathMatches(p, path)
  BY <1>6, <1>8, <1>9, MatchesTransitively
<1> QED
  BY <1>8, <1>10 DEF Finds, AllowedPrefixes, narrowed

LEMMA SearchIsExact == grants \in GrantChoices => SearchFindsWhatIsGranted
BY FoundIsGranted, GrantedIsFound DEF SearchFindsWhatIsGranted

-----------------------------------------------------------------------------
(* Writes                                                                  *)

WritePlaces == {"idle", "read", "authorized", "locked", "written", "performed"}

(* The document cannot move between the check of a write and the write: it *)
(* is still granted where it is.                                           *)
LockedIsGranted ==
    AccessAt("locked") =>
        /\ Allows(grants, access.asks.capability, documentPath)
        /\ access.asks.operation \in HasDestination =>
             Allows(grants, DestinationCapability(access.asks.operation), access.destination)

AccessInv ==
    /\ grants \in GrantChoices
    /\ access = [at |-> access.at, asks |-> access.asks, seen |-> access.seen,
                 destination |-> access.destination, performedAt |-> access.performedAt]
    /\ LockedIsGranted
    /\ WritesStayInScope

LEMMA AccessInitInv == Init => AccessInv
BY DEF Init, AccessInv, Quiet, LockedIsGranted, WritesStayInScope, AccessAt

LEMMA BeginOperationKeepsInv ==
    ASSUME AccessInv, NEW asked, BeginOperation(asked)
    PROVE  AccessInv'
BY DEF AccessInv, BeginOperation, Quiet, LockedIsGranted, WritesStayInScope, AccessAt

LEMMA AuthorizeOperationKeepsInv ==
    ASSUME AccessInv, AuthorizeOperation
    PROVE  AccessInv'
<1> USE DEF AccessInv, LockedIsGranted, WritesStayInScope, AccessAt
<1>1. CASE access' = Quiet
  BY <1>1 DEF AuthorizeOperation, Quiet
<1>2. CASE access' = [access EXCEPT !.at = "authorized"]
  BY <1>2 DEF AuthorizeOperation
<1> QED
  BY <1>1, <1>2 DEF AuthorizeOperation

LEMMA BeginWriteKeepsInv ==
    ASSUME AccessInv, NEW asked, NEW destination, BeginWrite(asked, destination)
    PROVE  AccessInv'
<1>1. access' = [at |-> "locked", asks |-> asked, seen |-> documentPath,
                 destination |-> destination, performedAt |-> NoPath]
  BY DEF BeginWrite, Quiet
<1>2. grants' = grants /\ documentPath' = documentPath
  BY DEF BeginWrite
<1>3. LockedIsGranted'
  BY <1>1, <1>2 DEF BeginWrite, LockedIsGranted, Allows, AccessAt
<1>4. WritesStayInScope'
  BY <1>1 DEF WritesStayInScope, AccessAt
<1> QED
  BY <1>1, <1>2, <1>3, <1>4 DEF AccessInv

LEMMA PerformWriteKeepsInv ==
    ASSUME AccessInv, PerformWrite
    PROVE  AccessInv'
<1>1. access' = [at |-> "written", asks |-> access.asks, seen |-> access.seen,
                 destination |-> access.destination, performedAt |-> documentPath]
  BY DEF AccessInv, PerformWrite
<1>2. grants' = grants /\ AccessAt("locked")
  BY DEF PerformWrite
<1>3. WritesStayInScope'
  BY <1>1, <1>2 DEF AccessInv, LockedIsGranted, WritesStayInScope, AccessAt, Allows
<1>4. LockedIsGranted'
  BY <1>1 DEF LockedIsGranted, AccessAt
<1> QED
  BY <1>1, <1>2, <1>3, <1>4 DEF AccessInv

LEMMA PerformOperationKeepsInv ==
    ASSUME AccessInv, PerformOperation
    PROVE  AccessInv'
<1>1. access' = [at |-> "performed", asks |-> access.asks, seen |-> access.seen,
                 destination |-> access.destination, performedAt |-> documentPath]
  BY DEF AccessInv, PerformOperation
<1> QED
  BY <1>1 DEF AccessInv, PerformOperation, LockedIsGranted, WritesStayInScope, AccessAt

LEMMA AnswerKeepsInv ==
    ASSUME AccessInv, Answer
    PROVE  AccessInv'
BY DEF AccessInv, Answer, Quiet, LockedIsGranted, WritesStayInScope, AccessAt

(* Only a request that has not been checked, or that is done with the      *)
(* path, sees the document move.                                           *)
LEMMA MoveDocumentKeepsInv ==
    ASSUME AccessInv, NEW path, MoveDocument(path)
    PROVE  AccessInv'
BY DEF AccessInv, MoveDocument, LockedIsGranted, WritesStayInScope, AccessAt, Allows

LEMMA AccessStutterKeepsInv ==
    ASSUME AccessInv, UNCHANGED accessVars
    PROVE  AccessInv'
BY DEF AccessInv, accessVars, LockedIsGranted, WritesStayInScope, AccessAt, Allows

LEMMA AccessNextKeepsInv == AccessInv /\ [Next]_accessVars => AccessInv'
BY BeginOperationKeepsInv, AuthorizeOperationKeepsInv, BeginWriteKeepsInv,
   PerformWriteKeepsInv, PerformOperationKeepsInv, AnswerKeepsInv, MoveDocumentKeepsInv,
   AccessStutterKeepsInv
   DEF Next

(* A scoped principal reaches exactly its scope: no document write of      *)
(* write_document() (access.py) is performed where its principal is not    *)
(* granted it, and allowed_prefixes() lets a search find exactly what both *)
(* capabilities allow, for every set of grants and paths.                  *)
THEOREM AccessIsScoped == Spec => []AccessStaysInScope
<1>1. AccessInv => AccessStaysInScope
  BY SearchIsExact DEF AccessInv, AccessStaysInScope
<1> QED
  BY <1>1, AccessInitInv, AccessNextKeepsInv, PTL DEF Spec

-----------------------------------------------------------------------------
(* Tokens                                                                  *)

AllScopes == Scopes \cup {AnyScopes}
TokenRow == [issued : BOOLEAN, scopes : AllScopes, expires : Nat, revoked : BOOLEAN,
             version : Nat, from : Tokens \cup {NoToken}]
TokenEvent == [version : Nat, loaded : Nat, before : AllScopes, after : AllScopes]
TokenCall == [does : {"nothing", "rotate", "edit", "act"}, of : Tokens \cup {NoToken},
              scopes : AllScopes, expires : Nat, version : Nat]

TokenShape ==
    /\ token \in [Tokens -> TokenRow]
    /\ tokenEvents \in [Tokens -> Seq(TokenEvent)]
    /\ caller \in [Callers -> TokenCall]
    /\ clock \in Nat

(* A token that is not issued yet is blank; one that was replaced is       *)
(* revoked, and was replaced once.                                         *)
LineageSound ==
    /\ \A t \in Tokens :
         ~token[t].issued => ~token[t].revoked /\ token[t].version = 1
    /\ \A t \in Tokens :
         token[t].issued /\ token[t].from # NoToken => token[token[t].from].revoked
    /\ \A t, u \in Tokens :
         /\ token[t].issued /\ token[u].issued
         /\ token[t].from # NoToken /\ token[t].from = token[u].from
         => t = u

EventsSound(row, edits) ==
    /\ Len(edits) = row.version - 1
    /\ \A i \in 1 .. Len(edits) :
         /\ edits[i].version = i + 1 /\ edits[i].loaded = i
         /\ edits[i].after = IF i = Len(edits) THEN row.scopes ELSE edits[i + 1].before

CallsSound ==
    \A c \in Callers :
        caller[c].does # "nothing" =>
            caller[c].of \in Tokens /\ token[caller[c].of].issued

TokenInv ==
    /\ TokenShape /\ LineageSound /\ CallsSound
    /\ \A t \in Tokens : EventsSound(token[t], tokenEvents[t])

LEMMA NoTokenRowIs ==
    /\ NoTokenRow \in TokenRow /\ ~NoTokenRow.issued /\ ~NoTokenRow.revoked
    /\ NoTokenRow.version = 1
BY TokenAssumption DEF NoTokenRow, TokenRow, AllScopes, Never, NoToken

LEMMA GoneIs == Gone \in TokenCall /\ Gone.does = "nothing"
BY TokenAssumption DEF Gone, TokenCall, AllScopes, Never, NoToken

LEMMA InsertedIs ==
    ASSUME NEW scopes \in AllScopes, NEW expires \in Nat, NEW from \in Tokens \cup {NoToken}
    PROVE  /\ Inserted(scopes, expires, from) \in TokenRow
           /\ Inserted(scopes, expires, from).issued
           /\ ~Inserted(scopes, expires, from).revoked
           /\ Inserted(scopes, expires, from).version = 1
           /\ Inserted(scopes, expires, from).scopes = scopes
           /\ Inserted(scopes, expires, from).from = from
<1> DEFINE issued == [NoTokenRow EXCEPT !.issued = TRUE]
           granted == [issued EXCEPT !.scopes = scopes]
           timed == [granted EXCEPT !.expires = expires]
           row == [timed EXCEPT !.from = from]
<1>1. Inserted(scopes, expires, from) = row
  BY NoTokenRowIs DEF Inserted, TokenRow
<1>2. /\ issued \in TokenRow /\ issued.issued /\ ~issued.revoked /\ issued.version = 1
  BY NoTokenRowIs DEF TokenRow
<1> HIDE DEF issued
<1>3. /\ granted \in TokenRow /\ granted.issued /\ ~granted.revoked /\ granted.version = 1
      /\ granted.scopes = scopes
  BY <1>2 DEF TokenRow
<1> HIDE DEF granted
<1>4. /\ timed \in TokenRow /\ timed.issued /\ ~timed.revoked /\ timed.version = 1
      /\ timed.scopes = scopes
  BY <1>3 DEF TokenRow
<1> HIDE DEF timed
<1>5. /\ row \in TokenRow /\ row.issued /\ ~row.revoked /\ row.version = 1
      /\ row.scopes = scopes /\ row.from = from
  BY <1>4 DEF TokenRow
<1> HIDE DEF row
<1> QED
  BY <1>1, <1>5

LEMMA TokenInitInv == TokenInit => TokenInv
<1> SUFFICES ASSUME TokenInit PROVE TokenInv
  OBVIOUS
<1>1. <<>> \in Seq(TokenEvent) /\ Len(<<>>) = 0
  OBVIOUS
<1>2. TokenShape
  BY <1>1, NoTokenRowIs, GoneIs DEF TokenInit, TokenShape
<1>3. \A t \in Tokens : token[t] = NoTokenRow /\ tokenEvents[t] = <<>>
  BY DEF TokenInit
<1>4. \A c \in Callers : caller[c].does = "nothing"
  BY GoneIs DEF TokenInit
<1>5. EventsSound(NoTokenRow, <<>>)
  BY <1>1, NoTokenRowIs DEF EventsSound
<1> QED
  BY <1>2, <1>3, <1>4, <1>5, NoTokenRowIs DEF TokenInv, LineageSound, CallsSound

(* Only what a call keeps changes.                                         *)
LEMMA CallChanges ==
    ASSUME TokenInv, NEW c \in Callers, NEW row \in TokenCall,
           caller' = [caller EXCEPT ![c] = row],
           row.does # "nothing" => row.of \in Tokens /\ token[row.of].issued,
           UNCHANGED <<token, tokenEvents, clock>>
    PROVE  TokenInv'
<1>1. /\ caller' \in [Callers -> TokenCall]
      /\ \A d \in Callers : caller'[d] = IF d = c THEN row ELSE caller[d]
  BY DEF TokenInv, TokenShape
<1> QED
  BY <1>1 DEF TokenInv, TokenShape, LineageSound, CallsSound

LEMMA CallerLeavesKeepsInv ==
    ASSUME TokenInv, NEW c \in Callers, CallerLeaves(c), UNCHANGED <<token, tokenEvents, clock>>
    PROVE  TokenInv'
BY GoneIs, CallChanges DEF CallerLeaves

(* A call that begins to work on a token, before it takes anything from    *)
(* its row.                                                                *)
LEMMA CallBegins ==
    ASSUME NEW does \in {"rotate", "edit", "act"}, NEW t \in Tokens
    PROVE  LET row == [[Gone EXCEPT !.does = does] EXCEPT !.of = t] IN
           row \in TokenCall /\ row.of = t
<1> DEFINE named == [Gone EXCEPT !.does = does]
           row == [named EXCEPT !.of = t]
<1>1. named \in TokenCall
  BY GoneIs DEF TokenCall
<1> HIDE DEF named
<1>2. row \in TokenCall /\ row.of = t
  BY <1>1 DEF TokenCall
<1> QED
  BY <1>2 DEF named

(* A token that is not issued has replaced none, and a new one can take    *)
(* its row.                                                                *)
LEMMA BlankHasNoSuccessor ==
    ASSUME TokenInv, NEW t \in Tokens, ~token[t].revoked, NEW u \in Tokens, token[u].issued
    PROVE  token[u].from # t
<1>1. t # NoToken
  BY DEF Tokens, NoToken
<1> QED
  BY <1>1 DEF TokenInv, LineageSound

LEMMA FreshIsBlank ==
    ASSUME TokenInv, NEW t \in Tokens, Fresh(t)
    PROVE  ~token[t].issued /\ ~token[t].revoked /\ token[t].version = 1
<1>1. t \in Nat
  BY TokenAssumption DEF Tokens
<1>2. ~token[t].issued
  BY <1>1 DEF Fresh
<1> QED
  BY <1>2 DEF TokenInv, LineageSound

LEMMA IssueTokenKeepsInv ==
    ASSUME TokenInv, NEW t \in Tokens, NEW scopes \in Scopes, NEW expires \in 1 .. Never,
           IssueToken(t, scopes, expires)
    PROVE  TokenInv'
<1> DEFINE row == Inserted(scopes, expires, NoToken)
<1>1. /\ row \in TokenRow /\ row.issued /\ ~row.revoked /\ row.version = 1
      /\ row.scopes = scopes /\ row.from = NoToken
  BY TokenAssumption, InsertedIs DEF AllScopes, Never
<1>2. token' = [token EXCEPT ![t] = row] /\ UNCHANGED <<tokenEvents, caller, clock>>
  BY DEF IssueToken
<1>3. ~token[t].issued /\ ~token[t].revoked /\ token[t].version = 1
  BY FreshIsBlank DEF IssueToken
<1> HIDE DEF row
<1>4. /\ token' \in [Tokens -> TokenRow]
      /\ \A u \in Tokens : token'[u] = IF u = t THEN row ELSE token[u]
  BY <1>1, <1>2 DEF TokenInv, TokenShape
<1>5. LineageSound'
  <2>1. ASSUME NEW u \in Tokens, token'[u].issued, token'[u].from # NoToken
        PROVE  token'[token'[u].from].revoked /\ token'[u] = token[u]
    <3>1. u # t /\ token'[u] = token[u]
      BY <1>1, <1>4, <2>1
    <3>2. token[u].from # t /\ token[u].from \in Tokens
      BY <1>3, <2>1, <3>1, BlankHasNoSuccessor DEF TokenInv, TokenShape, TokenRow
    <3> QED
      BY <1>4, <2>1, <3>1, <3>2 DEF TokenInv, LineageSound
  <2>2. \A u \in Tokens : ~token'[u].issued => ~token'[u].revoked /\ token'[u].version = 1
    BY <1>1, <1>4 DEF TokenInv, LineageSound
  <2> QED
    BY <2>1, <2>2 DEF TokenInv, LineageSound
<1>6. CallsSound'
  BY <1>1, <1>2, <1>4 DEF TokenInv, CallsSound
<1>7. ASSUME NEW u \in Tokens PROVE EventsSound(token[u], tokenEvents[u])'
  <2>1. EventsSound(token[u], tokenEvents[u])
    BY DEF TokenInv
  <2>2. CASE u = t
    <3>1. Len(tokenEvents[t]) = 0
      BY <1>3, <2>1, <2>2 DEF EventsSound
    <3> QED
      BY <1>1, <1>2, <1>4, <2>2, <3>1 DEF EventsSound
  <2>3. CASE u # t
    BY <1>2, <1>4, <2>1, <2>3
  <2> QED
    BY <2>2, <2>3
<1> QED
  BY <1>2, <1>4, <1>5, <1>6, <1>7 DEF TokenInv, TokenShape

(* The rotation: the read row is still the valid one when its successor is *)
(* inserted, or nothing happens.                                           *)
LEMMA ReplaceRotatedKeepsInv ==
    ASSUME TokenInv, NEW c \in Callers, NEW t \in Tokens, ReplaceRotated(c, t)
    PROVE  TokenInv'
<1> DEFINE old == caller[c].of
           row == Inserted(caller[c].scopes, caller[c].expires, old)
           retired == [token[old] EXCEPT !.revoked = TRUE]
<1>1. /\ old \in Tokens /\ token[old].issued /\ ~token[old].revoked
      /\ caller[c] \in TokenCall /\ token[old] \in TokenRow
  BY DEF TokenInv, TokenShape, CallsSound, ReplaceRotated, CallerDoes
<1>2. /\ row \in TokenRow /\ row.issued /\ ~row.revoked /\ row.version = 1
      /\ row.from = old
  <2>1. caller[c].scopes \in AllScopes /\ caller[c].expires \in Nat
    BY <1>1 DEF TokenCall
  <2> HIDE DEF old
  <2> QED
    BY <1>1, <2>1, InsertedIs
<1>3. /\ retired \in TokenRow /\ retired.issued /\ retired.revoked
      /\ retired.version = token[old].version /\ retired.scopes = token[old].scopes
      /\ retired.from = token[old].from
  BY <1>1 DEF TokenRow
<1>4. /\ token' = [[token EXCEPT ![old] = retired] EXCEPT ![t] = row]
      /\ CallerLeaves(c) /\ UNCHANGED <<tokenEvents, clock>>
  BY <1>1 DEF ReplaceRotated, Rotated, TokenInv, TokenShape
<1>5. ~token[t].issued /\ ~token[t].revoked /\ token[t].version = 1
  BY FreshIsBlank DEF ReplaceRotated
<1> HIDE DEF row, retired, old
<1>6. /\ token' \in [Tokens -> TokenRow]
      /\ token'[t] = row /\ token'[old] = retired /\ old # t
      /\ \A u \in Tokens \ {t, old} : token'[u] = token[u]
  BY <1>1, <1>2, <1>3, <1>4, <1>5 DEF TokenInv, TokenShape
<1>7. \A u \in Tokens : token[u].issued => token[u].from # old /\ token[u].from # t
  BY <1>1, <1>5, BlankHasNoSuccessor
<1>8. \A u \in Tokens \ {t} : (token'[u].issued <=> token[u].issued) /\ token'[u].from = token[u].from
  BY <1>1, <1>3, <1>6
<1>9. LineageSound'
  <2>1. \A u \in Tokens : ~token'[u].issued => ~token'[u].revoked /\ token'[u].version = 1
    BY <1>2, <1>3, <1>6 DEF TokenInv, LineageSound
  <2>2. ASSUME NEW u \in Tokens, token'[u].issued, token'[u].from # NoToken
        PROVE  token'[token'[u].from].revoked
    <3>1. CASE u = t
      BY <1>2, <1>3, <1>6, <3>1
    <3>2. CASE u # t
      <4>1. token[u].issued /\ token'[u].from = token[u].from /\ token[u].from \in Tokens
        BY <1>8, <2>2, <3>2 DEF TokenInv, TokenShape, TokenRow
      <4>2. token[token[u].from].revoked
        BY <2>2, <4>1 DEF TokenInv, LineageSound
      <4> QED
        BY <1>6, <1>7, <4>1, <4>2
    <3> QED
      BY <3>1, <3>2
  <2>3. ASSUME NEW u \in Tokens, NEW v \in Tokens, token'[u].issued, token'[v].issued,
               token'[u].from # NoToken, token'[u].from = token'[v].from
        PROVE  u = v
    <3>1. CASE u # t /\ v # t
      BY <1>8, <2>3, <3>1 DEF TokenInv, LineageSound
    <3>2. CASE u = t /\ v # t
      BY <1>2, <1>6, <1>7, <1>8, <2>3, <3>2
    <3>3. CASE u # t /\ v = t
      BY <1>2, <1>6, <1>7, <1>8, <2>3, <3>3
    <3> QED
      BY <3>1, <3>2, <3>3
  <2> QED
    BY <2>1, <2>2, <2>3 DEF LineageSound
<1>10. /\ caller' \in [Callers -> TokenCall]
       /\ \A d \in Callers : caller'[d] = IF d = c THEN Gone ELSE caller[d]
  BY <1>4, GoneIs DEF CallerLeaves, TokenInv, TokenShape
<1>11. CallsSound'
  <2>1. ASSUME NEW u \in Tokens, token[u].issued PROVE token'[u].issued
    BY <1>2, <1>8, <1>6, <2>1
  <2> QED
    BY <1>10, <2>1, GoneIs DEF TokenInv, CallsSound
<1>12. ASSUME NEW u \in Tokens PROVE EventsSound(token[u], tokenEvents[u])'
  <2>1. EventsSound(token[u], tokenEvents[u])
    BY DEF TokenInv
  <2>2. CASE u = t
    <3>1. Len(tokenEvents[t]) = 0
      BY <1>5, <2>1, <2>2 DEF EventsSound
    <3> QED
      BY <1>2, <1>4, <1>6, <2>2, <3>1 DEF EventsSound
  <2>3. CASE u = old
    BY <1>3, <1>4, <1>6, <2>1, <2>3 DEF EventsSound
  <2>4. CASE u # t /\ u # old
    BY <1>4, <1>6, <2>1, <2>4
  <2> QED
    BY <2>2, <2>3, <2>4
<1> QED
  BY <1>4, <1>6, <1>9, <1>10, <1>11, <1>12 DEF TokenInv, TokenShape

(* An edit from the version it replaces continues the history.             *)
LEMMA EventIsAppended ==
    ASSUME NEW edits \in Seq(TokenEvent), NEW before, NEW after, EventsSound(before, edits),
           before \in TokenRow, after \in TokenRow, after.version = before.version + 1,
           NEW event \in TokenEvent, event.version = before.version + 1,
           event.loaded = before.version,
           event.before = before.scopes, event.after = after.scopes
    PROVE  EventsSound(after, Append(edits, event))
<1>1. Len(edits) = before.version - 1 /\ before.version \in Nat /\ Len(edits) \in Nat
  BY DEF EventsSound, TokenRow
<1>2. Len(Append(edits, event)) = after.version - 1
  BY <1>1
<1>3. ASSUME NEW i \in 1 .. Len(Append(edits, event))
      PROVE  /\ Append(edits, event)[i].version = i + 1
             /\ Append(edits, event)[i].loaded = i
             /\ Append(edits, event)[i].after =
                  IF i = Len(Append(edits, event)) THEN after.scopes
                  ELSE Append(edits, event)[i + 1].before
  <2>1. CASE i = Len(edits) + 1
    BY <1>1, <2>1
  <2>2. CASE i <= Len(edits)
    <3>1. /\ Append(edits, event)[i] = edits[i]
          /\ i \in 1 .. Len(edits)
      BY <1>1, <2>2
    <3>2. /\ edits[i].version = i + 1 /\ edits[i].loaded = i
          /\ edits[i].after = IF i = Len(edits) THEN before.scopes ELSE edits[i + 1].before
      BY <3>1 DEF EventsSound
    <3>3. CASE i = Len(edits)
      BY <1>1, <3>1, <3>2, <3>3
    <3>4. CASE i < Len(edits)
      <4>1. Append(edits, event)[i + 1] = edits[i + 1]
        BY <1>1, <3>4
      <4> QED
        BY <1>1, <3>1, <3>2, <3>4, <4>1
    <3> QED
      BY <1>1, <2>2, <3>3, <3>4
  <2> QED
    BY <1>1, <2>1, <2>2
<1> QED
  BY <1>2, <1>3 DEF EventsSound

(* An edit: its event continues the chain, because the version it was read *)
(* at is checked in the transaction that counts it up.                     *)
LEMMA UpdateTokenKeepsInv ==
    ASSUME TokenInv, NEW c \in Callers, NEW scopes \in Scopes, NEW expires \in 1 .. Never,
           UpdateToken(c, scopes, expires)
    PROVE  TokenInv'
<1> DEFINE t == caller[c].of
           version == token[t].version + 1
           granted == [token[t] EXCEPT !.scopes = scopes]
           timed == [granted EXCEPT !.expires = expires]
           row == [timed EXCEPT !.version = version]
           event == [version |-> version, loaded |-> caller[c].version,
                     before |-> token[t].scopes, after |-> scopes]
<1>1. /\ t \in Tokens /\ token[t].issued /\ ~token[t].revoked
      /\ token[t].version = caller[c].version
      /\ token[t] \in TokenRow /\ tokenEvents[t] \in Seq(TokenEvent)
  BY DEF TokenInv, TokenShape, CallsSound, UpdateToken, CallerDoes, Live
<1>2. token[t].version \in Nat /\ token[t].scopes \in AllScopes
  BY <1>1 DEF TokenRow
<1>3. version \in Nat /\ scopes \in AllScopes /\ expires \in Nat
  BY <1>2, TokenAssumption DEF AllScopes, Never
<1>4. /\ token' = [token EXCEPT ![t] = row]
      /\ tokenEvents' = [tokenEvents EXCEPT ![t] = Append(tokenEvents[t], event)]
      /\ CallerLeaves(c) /\ UNCHANGED clock
  BY <1>1 DEF UpdateToken, Edited, TokenInv, TokenShape
<1>5. /\ event \in TokenEvent /\ event.version = version /\ event.loaded = token[t].version
      /\ event.before = token[t].scopes /\ event.after = scopes
  BY <1>1, <1>2, <1>3 DEF TokenEvent
<1>6. version = token[t].version + 1
  OBVIOUS
<1> HIDE DEF event, version, t
<1>7. /\ granted \in TokenRow /\ granted.scopes = scopes /\ granted.issued
      /\ (granted.revoked <=> token[t].revoked) /\ granted.from = token[t].from
  BY <1>1, <1>3 DEF TokenRow
<1> HIDE DEF granted
<1>8. /\ timed \in TokenRow /\ timed.scopes = scopes /\ timed.issued
      /\ (timed.revoked <=> token[t].revoked) /\ timed.from = token[t].from
  BY <1>3, <1>7 DEF TokenRow
<1> HIDE DEF timed
<1>9. /\ row \in TokenRow /\ row.scopes = scopes /\ row.issued
      /\ (row.revoked <=> token[t].revoked) /\ row.from = token[t].from /\ row.version = version
  BY <1>3, <1>8 DEF TokenRow
<1> HIDE DEF row
<1>10. /\ token' \in [Tokens -> TokenRow]
       /\ \A u \in Tokens : token'[u] = IF u = t THEN row ELSE token[u]
  BY <1>4, <1>9 DEF TokenInv, TokenShape
<1>11. /\ tokenEvents' \in [Tokens -> Seq(TokenEvent)]
       /\ \A u \in Tokens :
            tokenEvents'[u] = IF u = t THEN Append(tokenEvents[t], event) ELSE tokenEvents[u]
  BY <1>1, <1>4, <1>5 DEF TokenInv, TokenShape
<1>12. \A u \in Tokens : /\ (token'[u].issued <=> token[u].issued)
                         /\ (token'[u].revoked <=> token[u].revoked)
                         /\ token'[u].from = token[u].from
  BY <1>1, <1>9, <1>10
<1>13. LineageSound'
  <2>1. \A u \in Tokens : ~token'[u].issued => ~token'[u].revoked /\ token'[u].version = 1
    BY <1>9, <1>10 DEF TokenInv, LineageSound
  <2>2. ASSUME NEW u \in Tokens, token'[u].issued, token'[u].from # NoToken
        PROVE  token'[token'[u].from].revoked
    <3>1. token[u].from \in Tokens
      BY <1>12, <2>2 DEF TokenInv, TokenShape, TokenRow
    <3> QED
      BY <1>12, <2>2, <3>1 DEF TokenInv, LineageSound
  <2> QED
    BY <1>12, <2>1, <2>2 DEF TokenInv, LineageSound
<1>14. /\ caller' \in [Callers -> TokenCall]
       /\ \A d \in Callers : caller'[d] = IF d = c THEN Gone ELSE caller[d]
  BY <1>4, GoneIs DEF CallerLeaves, TokenInv, TokenShape
<1>15. CallsSound'
  BY <1>12, <1>14, GoneIs DEF TokenInv, CallsSound
<1>16. ASSUME NEW u \in Tokens PROVE EventsSound(token[u], tokenEvents[u])'
  <2>1. EventsSound(token[u], tokenEvents[u])
    BY DEF TokenInv
  <2>2. CASE u = t
    <3>1. EventsSound(row, Append(tokenEvents[t], event))
      BY <1>1, <1>5, <1>6, <1>9, <2>1, <2>2, EventIsAppended
    <3> QED
      BY <1>10, <1>11, <2>2, <3>1
  <2>3. CASE u # t
    BY <1>10, <1>11, <2>1, <2>3
  <2> QED
    BY <2>2, <2>3
<1> QED
  BY <1>4, <1>10, <1>11, <1>13, <1>14, <1>15, <1>16 DEF TokenInv, TokenShape

LEMMA RevokeTokenKeepsInv ==
    ASSUME TokenInv, NEW t \in Tokens, RevokeToken(t)
    PROVE  TokenInv'
<1> DEFINE row == [token[t] EXCEPT !.revoked = TRUE]
<1>1. token[t] \in TokenRow /\ token[t].issued
  BY DEF TokenInv, TokenShape, RevokeToken, Live
<1>2. /\ row \in TokenRow /\ row.issued /\ row.revoked /\ row.from = token[t].from
      /\ row.version = token[t].version /\ row.scopes = token[t].scopes
  BY <1>1 DEF TokenRow
<1>3. token' = [token EXCEPT ![t] = row] /\ UNCHANGED <<tokenEvents, caller, clock>>
  BY DEF RevokeToken
<1> HIDE DEF row
<1>4. /\ token' \in [Tokens -> TokenRow]
      /\ \A u \in Tokens : token'[u] = IF u = t THEN row ELSE token[u]
  BY <1>2, <1>3 DEF TokenInv, TokenShape
<1>5. \A u \in Tokens : /\ (token'[u].issued <=> token[u].issued)
                        /\ token[u].revoked => token'[u].revoked
                        /\ token'[u].from = token[u].from
                        /\ token'[u].version = token[u].version
                        /\ token'[u].scopes = token[u].scopes
  BY <1>1, <1>2, <1>4
<1>6. LineageSound'
  <2>1. \A u \in Tokens : ~token'[u].issued => ~token'[u].revoked /\ token'[u].version = 1
    BY <1>2, <1>4 DEF TokenInv, LineageSound
  <2>2. ASSUME NEW u \in Tokens, token'[u].issued, token'[u].from # NoToken
        PROVE  token'[token'[u].from].revoked
    <3>1. token[u].from \in Tokens
      BY <1>5, <2>2 DEF TokenInv, TokenShape, TokenRow
    <3> QED
      BY <1>5, <2>2, <3>1 DEF TokenInv, LineageSound
  <2> QED
    BY <1>5, <2>1, <2>2 DEF TokenInv, LineageSound
<1>7. CallsSound'
  BY <1>3, <1>5 DEF TokenInv, CallsSound
<1>8. \A u \in Tokens : EventsSound(token[u], tokenEvents[u])'
  BY <1>3, <1>5 DEF TokenInv, EventsSound
<1> QED
  BY <1>3, <1>4, <1>6, <1>7, <1>8 DEF TokenInv, TokenShape

LEMMA ReadRotatedKeepsInv ==
    ASSUME TokenInv, NEW c \in Callers, NEW t \in Tokens, ReadRotated(c, t)
    PROVE  TokenInv'
<1> PICK expires \in IF Expired(token[t]) THEN clock + 1 .. Never ELSE {token[t].expires} :
         caller' = [caller EXCEPT ![c] =
           [Gone EXCEPT !.does = "rotate", !.of = t, !.scopes = token[t].scopes,
                        !.expires = expires]]
  BY DEF ReadRotated
<1> DEFINE begun == [[Gone EXCEPT !.does = "rotate"] EXCEPT !.of = t]
           granted == [begun EXCEPT !.scopes = token[t].scopes]
           row == [granted EXCEPT !.expires = expires]
<1>1. token[t].scopes \in AllScopes /\ expires \in Nat
  BY TokenAssumption DEF TokenInv, TokenShape, TokenRow, Never
<1>2. caller' = [caller EXCEPT ![c] = row] /\ UNCHANGED <<token, tokenEvents, clock>>
  BY GoneIs DEF ReadRotated, TokenCall
<1>3. begun \in TokenCall /\ begun.of = t
  BY CallBegins
<1> HIDE DEF begun
<1>4. granted \in TokenCall /\ granted.of = t
  BY <1>1, <1>3 DEF TokenCall
<1> HIDE DEF granted
<1>5. row \in TokenCall /\ row.of = t
  BY <1>1, <1>4 DEF TokenCall
<1> HIDE DEF row
<1> QED
  BY <1>2, <1>5, CallChanges DEF ReadRotated

LEMMA LoadTokenKeepsInv ==
    ASSUME TokenInv, NEW c \in Callers, NEW t \in Tokens, LoadToken(c, t)
    PROVE  TokenInv'
<1> DEFINE begun == [[Gone EXCEPT !.does = "edit"] EXCEPT !.of = t]
           row == [begun EXCEPT !.version = token[t].version]
<1>1. token[t].version \in Nat
  BY DEF TokenInv, TokenShape, TokenRow
<1>2. caller' = [caller EXCEPT ![c] = row] /\ UNCHANGED <<token, tokenEvents, clock>>
  BY GoneIs DEF LoadToken, TokenCall
<1>3. begun \in TokenCall /\ begun.of = t
  BY CallBegins
<1> HIDE DEF begun
<1>4. row \in TokenCall /\ row.of = t
  BY <1>1, <1>3 DEF TokenCall
<1> HIDE DEF row
<1> QED
  BY <1>2, <1>4, CallChanges DEF LoadToken

LEMMA AuthenticateKeepsInv ==
    ASSUME TokenInv, NEW c \in Callers, NEW t \in Tokens, Authenticate(c, t)
    PROVE  TokenInv'
<1> DEFINE begun == [[Gone EXCEPT !.does = "act"] EXCEPT !.of = t]
           row == [begun EXCEPT !.scopes = token[t].scopes]
<1>1. token[t].scopes \in AllScopes
  BY DEF TokenInv, TokenShape, TokenRow
<1>2. caller' = [caller EXCEPT ![c] = row] /\ UNCHANGED <<token, tokenEvents, clock>>
  BY GoneIs DEF Authenticate, TokenCall
<1>3. begun \in TokenCall /\ begun.of = t
  BY CallBegins
<1> HIDE DEF begun
<1>4. row \in TokenCall /\ row.of = t
  BY <1>1, <1>3 DEF TokenCall
<1> HIDE DEF row
<1> QED
  BY <1>2, <1>4, CallChanges DEF Authenticate, Live

LEMMA ReauthorizeKeepsInv ==
    ASSUME TokenInv, NEW c \in Callers, Reauthorize(c)
    PROVE  TokenInv'
<1> DEFINE t == caller[c].of
           row == [caller[c] EXCEPT !.scopes = token[t].scopes]
<1>1. caller[c] \in TokenCall /\ t \in Tokens /\ token[t].issued
  BY DEF TokenInv, TokenShape, CallsSound, Reauthorize, CallerDoes
<1>2. token[t].scopes \in AllScopes
  BY <1>1 DEF TokenInv, TokenShape, TokenRow
<1>3. row \in TokenCall /\ row.of = t
  BY <1>1, <1>2 DEF TokenCall
<1>4. CASE CallerLeaves(c)
  BY <1>4, CallerLeavesKeepsInv DEF Reauthorize
<1>5. CASE caller' = [caller EXCEPT ![c].scopes = token[t].scopes]
  <2>1. caller' = [caller EXCEPT ![c] = row] /\ UNCHANGED <<token, tokenEvents, clock>>
    BY <1>5 DEF Reauthorize
  <2> HIDE DEF row, t
  <2> QED
    BY <1>1, <1>3, <2>1, CallChanges
<1> QED
  BY <1>4, <1>5 DEF Reauthorize

(* Every step of every caller keeps the invariant.                         *)
LEMMA TokenNextKeepsInv == TokenInv /\ [TokenNext]_tokenVars => TokenInv'
<1> SUFFICES ASSUME TokenInv, [TokenNext]_tokenVars PROVE TokenInv'
  OBVIOUS
<1>1. ASSUME NEW t \in Tokens, NEW scopes \in Scopes, NEW expires \in 1 .. Never,
             IssueToken(t, scopes, expires)
      PROVE  TokenInv'
  BY <1>1, IssueTokenKeepsInv
<1>2. ASSUME NEW t \in Tokens, RevokeToken(t) PROVE TokenInv'
  BY <1>2, RevokeTokenKeepsInv
<1>3. ASSUME NEW c \in Callers, NEW t \in Tokens,
             ReadRotated(c, t) \/ LoadToken(c, t) \/ Authenticate(c, t)
      PROVE  TokenInv'
  BY <1>3, ReadRotatedKeepsInv, LoadTokenKeepsInv, AuthenticateKeepsInv
<1>4. ASSUME NEW c \in Callers, NEW t \in Tokens, ReplaceRotated(c, t) PROVE TokenInv'
  BY <1>4, ReplaceRotatedKeepsInv
<1>5. ASSUME NEW c \in Callers, NEW scopes \in Scopes, NEW expires \in 1 .. Never,
             UpdateToken(c, scopes, expires)
      PROVE  TokenInv'
  BY <1>5, UpdateTokenKeepsInv
<1>6. ASSUME NEW c \in Callers, RefuseRotation(c) \/ RefuseUpdate(c) PROVE TokenInv'
  BY <1>6, CallerLeavesKeepsInv DEF RefuseRotation, RefuseUpdate
<1>7. ASSUME NEW c \in Callers, Reauthorize(c) PROVE TokenInv'
  BY <1>7, ReauthorizeKeepsInv
<1>8. CASE Tick
  BY <1>8 DEF Tick, TokenInv, TokenShape, LineageSound, CallsSound
<1>9. CASE UNCHANGED tokenVars
  BY <1>9 DEF tokenVars, TokenInv, TokenShape, LineageSound, CallsSound
<1> QED
  BY <1>1, <1>2, <1>3, <1>4, <1>5, <1>6, <1>7, <1>8, <1>9 DEF TokenNext

LEMMA TokenInvShows == TokenInv => TokensKeepFaith
<1> SUFFICES ASSUME TokenInv PROVE TokensKeepFaith
  OBVIOUS
<1>1. ASSUME NEW t \in Tokens
      PROVE  Cardinality(Issued(t)) <= 1 /\ (Issued(t) # {} => token[t].revoked)
  <2>1. t # NoToken
    BY DEF Tokens, NoToken
  <2>2. \A u, v \in Issued(t) : u = v
    BY <2>1 DEF Issued, TokenInv, LineageSound
  <2>3. Issued(t) # {} => token[t].revoked
    BY <2>1 DEF Issued, TokenInv, LineageSound
  <2>4. CASE Issued(t) = {}
    BY <2>4, FS_EmptySet
  <2>5. CASE Issued(t) # {}
    <3> PICK u \in Issued(t) : TRUE
      BY <2>5
    <3>1. Issued(t) = {u}
      BY <2>2
    <3> QED
      BY <2>3, <3>1, FS_Singleton
  <2> QED
    BY <2>3, <2>4, <2>5
<1>2. OneSuccessor
  BY <1>1 DEF OneSuccessor
<1>3. EditsAreSerial
  BY DEF TokenInv, EventsSound, EditsAreSerial
<1> QED
  BY <1>2, <1>3 DEF TokensKeepFaith

(* However rotations, edits and revocations of the same tokens overlap, a  *)
(* token is replaced once and revoked with it, and every edit was made     *)
(* from the version it replaced.                                           *)
THEOREM TokensAlwaysKeepFaith == TokenSpec => []TokensKeepFaith
BY TokenInitInv, TokenNextKeepsInv, TokenInvShows, PTL DEF TokenSpec

-----------------------------------------------------------------------------
(* Publications                                                            *)

(* What a property of the links alone leaves out: a request under way has  *)
(* a row to work on, and the row tells whether it is served.               *)
RowInv ==
    /\ publication = [exists |-> publication.exists, active |-> publication.active,
                      policy |-> publication.policy, version |-> publication.version,
                      revision |-> publication.revision]
    /\ publication.active => publication.exists
    /\ DOMAIN publisher = Publishers
    /\ \A c \in Publishers : publisher[c].does # "nothing" => publication.exists

LinkInv ==
    /\ link \in [Links -> {"none", "live", "revoked"}]
    /\ \A l1, l2 \in Links : link[l1] = "live" /\ link[l2] = "live" => l1 = l2
    /\ publication.active /\ publication.policy = "unlisted" =>
         \E l \in Links : link[l] = "live"

-----------------------------------------------------------------------------
(* The tokens                                                              *)

LinksAreSound(links) ==
    /\ links \in [Links -> {"none", "live", "revoked"}]
    /\ \A l1, l2 \in Links : links[l1] = "live" /\ links[l2] = "live" => l1 = l2

LEMMA RevokedIsSound ==
    ASSUME LinksAreSound(link)
    PROVE  /\ Revoked \in [Links -> {"none", "live", "revoked"}]
           /\ \A l \in Links : Revoked[l] # "live"
BY DEF LinksAreSound, Revoked

LEMMA ReplacedIsSound ==
    ASSUME LinksAreSound(link), NEW l \in Links
    PROVE  LinksAreSound(Replaced(l)) /\ Replaced(l)[l] = "live"
<1>1. /\ Revoked \in [Links -> {"none", "live", "revoked"}]
      /\ \A m \in Links : Revoked[m] # "live"
  BY RevokedIsSound
<1> QED
  BY <1>1 DEF LinksAreSound, Replaced

LEMMA TokensAfterAreSound ==
    ASSUME LinksAreSound(link), NEW policy \in Policies, NEW l \in Links
    PROVE  /\ LinksAreSound(TokensAfter(policy, l))
           /\ policy = "unlisted" => \E m \in Links : TokensAfter(policy, l)[m] = "live"
<1>1. CASE policy # "unlisted"
  BY <1>1, RevokedIsSound DEF TokensAfter, LinksAreSound
<1>2. CASE policy = "unlisted" /\ LiveLinks # {}
  BY <1>2 DEF TokensAfter, LiveLinks
<1>3. CASE policy = "unlisted" /\ LiveLinks = {}
  BY <1>3, ReplacedIsSound DEF TokensAfter
<1> QED
  BY <1>1, <1>2, <1>3

-----------------------------------------------------------------------------
(* The invariant                                                           *)

PublicationInv == RowInv /\ LinkInv

LEMMA PublicationInitInv == PublicationInit => PublicationInv
BY DEF PublicationInit, PublicationInv, RowInv, LinkInv

LEMMA PublishKeepsLinks ==
    ASSUME PublicationInv, NEW policy \in Policies, NEW r, NEW l \in Links,
           Publish(policy, r, l)
    PROVE  PublicationInv'
<1>1. publication' = [exists |-> TRUE, active |-> TRUE, policy |-> policy,
                      version |-> 0, revision |-> r] /\ publisher' = publisher
  BY DEF Publish
<1>2. RowInv'
  BY <1>1 DEF PublicationInv, RowInv
<1>3. CASE policy = "unlisted"
  <2>1. link' = Replaced(l)
    BY <1>3 DEF Publish
  <2>2. LinksAreSound(link') /\ link'[l] = "live"
    BY <2>1, ReplacedIsSound DEF PublicationInv, LinkInv, LinksAreSound
  <2> QED
    BY <1>2, <2>2 DEF PublicationInv, LinkInv, LinksAreSound
<1>4. CASE policy # "unlisted"
  BY <1>1, <1>2, <1>4 DEF Publish, PublicationInv, LinkInv
<1> QED
  BY <1>3, <1>4

LEMMA LoadKeepsInv ==
    ASSUME PublicationInv, NEW c \in Publishers, NEW what, Load(c, what)
    PROVE  PublicationInv'
BY DEF Load, PublicationInv, RowInv, LinkInv

LEMMA LeavingKeepsRequests ==
    ASSUME RowInv, NEW c \in Publishers, Leaves(c)
    PROVE  /\ DOMAIN publisher' = Publishers
           /\ \A d \in Publishers : publisher'[d].does # "nothing" =>
                publisher[d].does # "nothing"
BY DEF RowInv, Leaves

LEMMA UpdateKeepsInv ==
    ASSUME PublicationInv, NEW c \in Publishers, NEW policy \in Policies, NEW r,
           NEW l \in Links, Update(c, policy, r, l)
    PROVE  PublicationInv'
<1>1. publication.exists
  BY DEF Update, Does, PublicationInv, RowInv
<1>2. publication' = [exists |-> publication.exists, active |-> TRUE, policy |-> policy,
                      version |-> publication.version + 1, revision |-> r]
  BY DEF Update, PublicationInv, RowInv
<1>3. RowInv'
  BY <1>1, <1>2, LeavingKeepsRequests DEF Update, PublicationInv, RowInv
<1>4. /\ LinksAreSound(link')
      /\ policy = "unlisted" => \E m \in Links : link'[m] = "live"
  BY TokensAfterAreSound DEF Update, PublicationInv, LinkInv, LinksAreSound
<1>5. LinkInv'
  BY <1>2, <1>4 DEF LinkInv, LinksAreSound
<1> QED
  BY <1>3, <1>5 DEF PublicationInv

LEMMA UnpublishKeepsInv ==
    ASSUME PublicationInv, NEW c \in Publishers, Unpublish(c)
    PROVE  PublicationInv'
<1>1. publication.exists
  BY DEF Unpublish, Does, PublicationInv, RowInv
<1>2. publication' = [exists |-> publication.exists, active |-> FALSE,
                      policy |-> publication.policy, version |-> publication.version + 1,
                      revision |-> publication.revision]
  BY DEF Unpublish, PublicationInv, RowInv
<1>3. RowInv'
  BY <1>1, <1>2, LeavingKeepsRequests DEF Unpublish, PublicationInv, RowInv
<1>4. LinkInv'
  BY <1>2, RevokedIsSound DEF Unpublish, PublicationInv, LinkInv, LinksAreSound
<1> QED
  BY <1>3, <1>4 DEF PublicationInv

LEMMA RefuseStaleKeepsInv ==
    ASSUME PublicationInv, NEW c \in Publishers, RefuseStale(c)
    PROVE  PublicationInv'
<1>1. RowInv'
  BY LeavingKeepsRequests DEF RefuseStale, PublicationInv, RowInv
<1> QED
  BY <1>1 DEF RefuseStale, PublicationInv, LinkInv

(* It does not look at the row again, and need not: it leaves one token.   *)
LEMMA RotateTokenKeepsInv ==
    ASSUME PublicationInv, NEW c \in Publishers, NEW l \in Links, RotateToken(c, l)
    PROVE  PublicationInv'
<1>1. publication' = [exists |-> publication.exists, active |-> publication.active,
                      policy |-> publication.policy, version |-> publication.version + 1,
                      revision |-> publication.revision]
  BY DEF RotateToken, PublicationInv, RowInv
<1>2. RowInv'
  BY <1>1, LeavingKeepsRequests DEF RotateToken, PublicationInv, RowInv
<1>3. LinksAreSound(link') /\ link'[l] = "live"
  BY ReplacedIsSound DEF RotateToken, PublicationInv, LinkInv, LinksAreSound
<1> QED
  BY <1>2, <1>3 DEF PublicationInv, LinkInv, LinksAreSound

LEMMA ExposeRevisionKeepsInv ==
    ASSUME PublicationInv, NEW r, ExposeRevision(r)
    PROVE  PublicationInv'
BY DEF ExposeRevision, PublicationInv, RowInv, LinkInv

LEMMA PublicationStutterKeepsInv ==
    ASSUME PublicationInv, UNCHANGED publicationVars
    PROVE  PublicationInv'
BY DEF publicationVars, PublicationInv, RowInv, LinkInv

LEMMA PublicationNextKeepsInv == PublicationInv /\ [PublicationNext]_publicationVars => PublicationInv'
BY PublishKeepsLinks, LoadKeepsInv, UpdateKeepsInv, UnpublishKeepsInv, RefuseStaleKeepsInv,
   RotateTokenKeepsInv, ExposeRevisionKeepsInv, PublicationStutterKeepsInv
   DEF PublicationNext

-----------------------------------------------------------------------------
LEMMA PublicationInvOpens == PublicationInv => OneLinkOpens
<1> SUFFICES ASSUME PublicationInv PROVE OneLinkOpens
  OBVIOUS
<1>1. Cardinality(LiveLinks) <= 1
  <2>1. CASE LiveLinks = {}
    BY <2>1, FS_EmptySet
  <2>2. CASE LiveLinks # {}
    <3>1. PICK l \in LiveLinks : TRUE
      BY <2>2
    <3>2. LiveLinks = {l}
      BY <3>1 DEF LiveLinks, PublicationInv, LinkInv
    <3> QED
      BY <3>2, FS_Singleton
  <2> QED
    BY <2>1, <2>2
<1>2. ASSUME publication.active, publication.policy = "unlisted"
      PROVE  \E l \in Links : MayRead(l, FALSE)
  <2>1. PICK l \in Links : link[l] = "live"
    BY <1>2 DEF PublicationInv, LinkInv
  <2>2. MayRead(l, FALSE)
    BY <1>2, <2>1 DEF MayRead, LiveLinks, PublicationInv, RowInv
  <2> QED
    BY <2>2
<1> QED
  BY <1>1, <1>2 DEF OneLinkOpens

(* For any number of requests and tokens: however update, unpublish and    *)
(* rotate_token() (publication.py) interleave, no two links work, and an   *)
(* unlisted publication that is served has one that does.                  *)
THEOREM OneLinkAlways == PublicationSpec => []OneLinkOpens
BY PublicationInitInv, PublicationNextKeepsInv, PublicationInvOpens, PTL DEF PublicationSpec

-----------------------------------------------------------------------------
(* Annotations                                                             *)

EventRow == [version : Nat, deleted : BOOLEAN, key : Editors]
EditorStages == {"reading", "ready", "sent", "answered", "not found", "conflict"}
EditorRow == [at : EditorStages, version : Nat, deletes : BOOLEAN, sends : Nat]

AnnotationShape ==
    /\ annotation \in [version : Nat, deleted : BOOLEAN]
    /\ events \in Seq(EventRow)
    /\ editor \in [Editors -> EditorRow]

AnnotationInv == AnnotationShape /\ HistoryIsWhole

(* A step of one editor that leaves the rows alone, and does not tell it   *)
(* of a conflict with itself.                                              *)
LEMMA OnlyRequestChanges ==
    ASSUME AnnotationInv, NEW e \in Editors, NEW request \in EditorRow,
           UNCHANGED <<annotation, events>>, editor' = [editor EXCEPT ![e] = request],
           request.at = "conflict" => ~Keyed(e)
    PROVE  AnnotationInv'
<1>1. AnnotationShape'
  BY DEF AnnotationInv, AnnotationShape
<1>2. \A f \in Editors : Keyed(f)' <=> Keyed(f)
  BY DEF Keyed
<1>3. \A f \in Editors : At(f, "conflict")' => ~Keyed(f)
  <2> TAKE f \in Editors
  <2>1. CASE f = e
    BY <2>1 DEF AnnotationInv, AnnotationShape, At
  <2>2. CASE f # e
    BY <2>2 DEF AnnotationInv, AnnotationShape, HistoryIsWhole, At
  <2> QED
    BY <2>1, <2>2
<1> QED
  BY <1>1, <1>2, <1>3 DEF AnnotationInv, HistoryIsWhole

LEMMA RequestGoes ==
    ASSUME AnnotationInv, NEW e \in Editors, NEW place \in EditorStages,
           UNCHANGED <<annotation, events>>, Goes(e, place),
           place = "conflict" => ~Keyed(e)
    PROVE  AnnotationInv'
<1> DEFINE request == [editor[e] EXCEPT !.at = place]
<1>1. editor[e] \in EditorRow
  BY DEF AnnotationInv, AnnotationShape
<1>2. request \in EditorRow /\ request.at = place
  BY <1>1 DEF EditorRow
<1>3. editor' = [editor EXCEPT ![e] = request]
  BY DEF Goes
<1> QED
  BY <1>2, <1>3, OnlyRequestChanges

(* The change of an editor that has none in the history yet becomes its    *)
(* last event.                                                             *)
LEMMA AppliedExtendsHistory ==
    ASSUME AnnotationInv, NEW e \in Editors, Applied(e), ~Keyed(e)
    PROVE  AnnotationInv'
<1>1. /\ annotation' = [version |-> annotation.version + 1, deleted |-> editor[e].deletes]
      /\ events' = Append(events, Event(e))
      /\ editor' = [editor EXCEPT ![e].at = "answered"]
  BY DEF Applied, Goes
<1>2. Event(e) \in EventRow /\ Event(e).key = e /\ Event(e).version = annotation.version + 1
      /\ Event(e).deleted = editor[e].deletes
  BY DEF AnnotationInv, AnnotationShape, Event, EventRow, EditorRow
<1>3. /\ Len(events') = Len(events) + 1 /\ Len(events) \in Nat
      /\ events' \in Seq(EventRow)
      /\ \A i \in 1 .. Len(events) : events'[i] = events[i]
      /\ events'[Len(events) + 1] = Event(e)
  BY <1>1, <1>2 DEF AnnotationInv, AnnotationShape
<1>4. AnnotationShape'
  <2>1. annotation' \in [version : Nat, deleted : BOOLEAN]
    BY <1>1 DEF AnnotationInv, AnnotationShape, EditorRow
  <2>2. editor' \in [Editors -> EditorRow]
    BY <1>1 DEF AnnotationInv, AnnotationShape, EditorRow, EditorStages
  <2> QED
    BY <1>3, <2>1, <2>2 DEF AnnotationShape
<1>5. Len(events') = annotation'.version
  BY <1>1, <1>3 DEF AnnotationInv, HistoryIsWhole
<1>6. DOMAIN events' = 1 .. (Len(events) + 1) /\ DOMAIN events = 1 .. Len(events)
  BY <1>3 DEF AnnotationInv, AnnotationShape
<1>7. \A i \in DOMAIN events' : events'[i].version = i
  <2> TAKE i \in DOMAIN events'
  <2>1. CASE i \in 1 .. Len(events)
    BY <1>3, <1>6, <2>1 DEF AnnotationInv, HistoryIsWhole
  <2>2. CASE i = Len(events) + 1
    BY <1>2, <1>3, <2>2 DEF AnnotationInv, HistoryIsWhole
  <2> QED
    BY <1>3, <1>6, <2>1, <2>2
<1>8. \A i, j \in DOMAIN events' : events'[i].key = events'[j].key => i = j
  <2>1. \A i \in 1 .. Len(events) : events[i].key # e
    BY <1>6 DEF Keyed
  <2> TAKE i, j \in DOMAIN events'
  <2>2. CASE i \in 1 .. Len(events) /\ j \in 1 .. Len(events)
    BY <1>3, <1>6, <2>2 DEF AnnotationInv, HistoryIsWhole
  <2>3. CASE i = Len(events) + 1 \/ j = Len(events) + 1
    BY <1>2, <1>3, <1>6, <2>1, <2>3
  <2> QED
    BY <1>3, <1>6, <2>2, <2>3
<1>9. events'[Len(events')].deleted = annotation'.deleted
  BY <1>1, <1>2, <1>3
<1>10. \A f \in Editors : At(f, "conflict")' => ~Keyed(f)'
  <2> SUFFICES ASSUME NEW f \in Editors, At(f, "conflict")'
               PROVE  ~Keyed(f)'
    OBVIOUS
  <2>1. f # e /\ At(f, "conflict")
    BY <1>1 DEF AnnotationInv, AnnotationShape, EditorRow, At
  <2>2. \A i \in 1 .. Len(events) : events[i].key # f
    BY <1>6, <2>1 DEF AnnotationInv, HistoryIsWhole, Keyed
  <2> QED
    BY <1>2, <1>3, <1>6, <2>1, <2>2 DEF Keyed
<1> QED
  BY <1>4, <1>5, <1>7, <1>8, <1>9, <1>10 DEF AnnotationInv, HistoryIsWhole

LEMMA AnnotationInitInv == AnnotationInit => AnnotationInv
<1> SUFFICES ASSUME AnnotationInit
             PROVE  AnnotationInv
  OBVIOUS
<1>1. AnnotationShape
  BY DEF AnnotationInit, AnnotationShape, EventRow, EditorRow, EditorStages, Reading
<1>2. HistoryIsWhole
  BY DEF AnnotationInit, HistoryIsWhole, At, Reading
<1> QED
  BY <1>1, <1>2 DEF AnnotationInv

LEMMA AnnotationNextKeepsInv == AnnotationInv /\ [AnnotationNext]_annotationVars => AnnotationInv'
<1> SUFFICES ASSUME AnnotationInv, [AnnotationNext]_annotationVars
             PROVE  AnnotationInv'
  OBVIOUS
<1>1. ASSUME NEW e \in Editors, NEW deletes \in BOOLEAN, ReadVersion(e, deletes)
      PROVE  AnnotationInv'
  <2> DEFINE request == [at |-> "ready", version |-> annotation.version,
                         deletes |-> deletes, sends |-> 0]
  <2>1. request \in EditorRow /\ request.at # "conflict"
    BY DEF AnnotationInv, AnnotationShape, EditorRow, EditorStages
  <2>2. editor' = [editor EXCEPT ![e] = request] /\ UNCHANGED <<annotation, events>>
    BY <1>1 DEF ReadVersion
  <2> QED
    BY <2>1, <2>2, OnlyRequestChanges
<1>2. ASSUME NEW e \in Editors, Send(e)
      PROVE  AnnotationInv'
  <2> DEFINE place == IF editor[e].version = 0 \/ Exists THEN "sent" ELSE "not found"
             request == [at |-> place, version |-> editor[e].version,
                         deletes |-> editor[e].deletes, sends |-> editor[e].sends + 1]
  <2>1. editor[e] \in EditorRow
    BY DEF AnnotationInv, AnnotationShape
  <2>2. place \in {"sent", "not found"}
    OBVIOUS
  <2>3. editor' = [editor EXCEPT ![e] = request] /\ UNCHANGED <<annotation, events>>
    BY <1>2 DEF Send
  <2> HIDE DEF place
  <2>4. editor[e].version \in Nat /\ editor[e].deletes \in BOOLEAN /\ editor[e].sends + 1 \in Nat
    BY <2>1 DEF EditorRow
  <2>5. request \in EditorRow /\ request.at # "conflict"
    BY <2>2, <2>4 DEF EditorRow, EditorStages
  <2> QED
    BY <2>3, <2>5, OnlyRequestChanges
<1>3. ASSUME NEW e \in Editors, Change(e)
      PROVE  AnnotationInv'
  <2>1. CASE Applied(e) /\ ~Keyed(e)
    BY <2>1, AppliedExtendsHistory
  <2>2. ASSUME NEW place \in {"answered", "not found", "conflict"}, Refused(e, place),
               place = "conflict" => ~Keyed(e)
        PROVE  AnnotationInv'
    BY <2>2, RequestGoes DEF Refused, EditorStages
  <2> QED
    BY <1>3, <2>1, <2>2 DEF Change
<1>4. ASSUME NEW e \in Editors, LoseAnswer(e)
      PROVE  AnnotationInv'
  BY <1>4, RequestGoes DEF LoseAnswer, EditorStages
<1>5. CASE UNCHANGED annotationVars
  BY <1>5 DEF annotationVars, AnnotationInv, AnnotationShape, HistoryIsWhole, Keyed, At
<1> QED
  BY <1>1, <1>2, <1>3, <1>4, <1>5 DEF AnnotationNext

(* For any number of editors, versions and retries: one event per version, *)
(* one per request, the last one as the annotation is, and no editor is    *)
(* refused a change that is in the history.                                *)
THEOREM HistoryStaysWhole == AnnotationSpec => []HistoryIsWhole
<1>1. AnnotationInv => HistoryIsWhole
  BY DEF AnnotationInv
<1> QED
  BY AnnotationInitInv, AnnotationNextKeepsInv, <1>1, PTL DEF AnnotationSpec

-----------------------------------------------------------------------------
(* Imports                                                                 *)

NullableContents == Contents \cup {Nothing}

ImportTypes ==
    /\ import \in [status : {"absent", "importing", "failed", "current", "review_required"},
                   linked : BOOLEAN, accepted : NullableContents, pending : NullableContents]
    /\ snapshots \in Seq(Contents)
    /\ born \in NullableContents
    /\ importer \in [Importers ->
          [at : {"idle", "found", "reserved", "link known", "snapshot", "created", "linked",
                 "claimed", "fetched", "compared"},
           linked : BOOLEAN, snapshot : NullableContents, unchanged : BOOLEAN]]
    /\ offered \subseteq Contents

(* What the row says of the document and of what was offered.              *)
RowSound ==
    /\ IF import.linked THEN born # Nothing /\ import.accepted # Nothing
       ELSE import.accepted = Nothing
    /\ born # Nothing => snapshots # <<>> /\ snapshots[1] = born
    /\ AcceptedWasOffered
    /\ import.pending \in {Nothing} \cup offered
    /\ import.status = "review_required" => import.linked
    /\ ReviewHasSomethingToShow

(* What an importer has read is still so while the row is its own.         *)
ReadSound(w) ==
    /\ importer[w].at \in {"link known", "snapshot"} =>
         /\ importer[w].linked <=> import.linked
         /\ ~importer[w].linked => born = Nothing
    /\ ImporterAt(w, "snapshot") =>
         /\ importer[w].linked => importer[w].snapshot \in {born} \cup offered
         /\ ~importer[w].linked => snapshots # <<>> /\ importer[w].snapshot = snapshots[1]
    /\ importer[w].at \in {"created", "linked"} =>
         importer[w].snapshot = born /\ born # Nothing
    /\ importer[w].at \in {"linked", "claimed", "fetched", "compared"} => import.linked
    /\ importer[w].at \in {"fetched", "compared"} => importer[w].snapshot \in Contents
    /\ ImporterAt(w, "compared") =>
         (importer[w].unchanged <=> import.accepted = importer[w].snapshot)

OneImports ==
    /\ \A w \in Importers : Importing(w) => import.status = "importing"
    /\ \A v, w \in Importers : Importing(v) /\ Importing(w) => v = w
    /\ import.status = "importing" => \E w \in Importers : Importing(w)

ImportInv ==
    /\ ImportTypes /\ RowSound /\ OneImports
    /\ \A w \in Importers : ReadSound(w)

LEMMA FirstStored ==
    ASSUME NEW stored \in Seq(Contents), stored # <<>>
    PROVE  stored[1] \in Contents
<1>1. Len(stored) \in Nat /\ (Len(stored) = 0 => stored = <<>>)
  OBVIOUS
<1> QED
  BY <1>1

LEMMA ImportInitially == ImportInit => ImportInv
<1> SUFFICES ASSUME ImportInit PROVE ImportInv
  OBVIOUS
<1>1. ImportTypes
  <2>1. <<>> \in Seq(Contents)
    OBVIOUS
  <2> QED
    BY <2>1 DEF ImportInit, ImportTypes, IdleImporter, NullableContents
<1>2. RowSound
  BY DEF ImportInit, RowSound, AcceptedWasOffered, ReviewHasSomethingToShow
<1>3. \A w \in Importers : importer[w].at = "idle"
  BY DEF ImportInit, IdleImporter
<1>4. OneImports
  BY <1>3 DEF ImportInit, OneImports, Importing
<1>5. \A w \in Importers : ReadSound(w)
  BY <1>3 DEF ReadSound, ImporterAt
<1> QED
  BY <1>1, <1>2, <1>4, <1>5 DEF ImportInv

(* A step of the one who has the row concerns nobody else's readings.      *)
LEMMA OwnerMoves ==
    ASSUME ImportInv, NEW w \in Importers, Importing(w),
           \A v \in Importers : v # w => importer'[v] = importer[v],
           ImportTypes', RowSound', ReadSound(w)',
           IF Importing(w)' THEN import'.status = "importing" ELSE import'.status # "importing"
    PROVE  ImportInv'
<1>1. \A v \in Importers : v # w => importer[v].at \in {"idle", "found"}
  BY DEF ImportInv, OneImports, Importing
<1>2. \A v \in Importers : v # w => importer'[v].at \in {"idle", "found"}
  BY <1>1
<1>3. \A v \in Importers : v # w => ReadSound(v)' /\ ~Importing(v)'
  BY <1>2 DEF ReadSound, ImporterAt, Importing
<1>4. OneImports'
  BY <1>3 DEF OneImports
<1> QED
  BY <1>3, <1>4 DEF ImportInv

(* Nobody has the row, and one takes it or nobody does.                    *)
LEMMA NobodyMoves ==
    ASSUME ImportInv, import.status # "importing",
           ImportTypes', RowSound', NEW w \in Importers,
           \A v \in Importers : v # w => importer'[v] = importer[v],
           importer'[w].at \in {"idle", "found", "reserved", "claimed"},
           importer'[w].at = "claimed" => import'.linked,
           Importing(w)' <=> import'.status = "importing"
    PROVE  ImportInv'
<1>1. \A v \in Importers : v # w => importer'[v].at \in {"idle", "found"}
  BY DEF ImportInv, OneImports, Importing
<1>2. \A v \in Importers : v # w => ReadSound(v)' /\ ~Importing(v)'
  BY <1>1 DEF ReadSound, ImporterAt, Importing
<1>3. ReadSound(w)'
  BY DEF ReadSound, ImporterAt
<1>4. OneImports'
  BY <1>2 DEF OneImports
<1> QED
  BY <1>2, <1>3, <1>4 DEF ImportInv

LEMMA ImportFinds ==
    ASSUME ImportInv, NEW w \in Importers, FindImport(w) \/ RefuseImport(w)
    PROVE  ImportInv'
<1>1. /\ UNCHANGED <<import, snapshots, born, offered>>
      /\ importer' = [importer EXCEPT ![w] = importer'[w]]
      /\ importer'[w].at \in {"idle", "found"}
      /\ importer[w].at \in {"idle", "found"}
      /\ ImportTypes'
  <2>1. CASE FindImport(w)
    BY <2>1 DEF FindImport, ImporterAt, ImporterGoes, ImportInv, ImportTypes, NullableContents
  <2>2. CASE RefuseImport(w)
    BY <2>2 DEF RefuseImport, ImporterAt, ImporterEnds, IdleImporter, ImportInv, ImportTypes,
                NullableContents
  <2> QED
    BY <2>1, <2>2
<1>2. \A v \in Importers : v # w => importer'[v] = importer[v]
  BY <1>1 DEF ImportInv, ImportTypes
<1>3. RowSound'
  BY <1>1 DEF ImportInv, RowSound, AcceptedWasOffered, ReviewHasSomethingToShow
<1>4. \A v \in Importers : Importing(v)' <=> Importing(v)
  BY <1>1, <1>2 DEF Importing
<1>5. \A v \in Importers : v # w => ReadSound(v)'
  BY <1>1, <1>2 DEF ImportInv, ReadSound, ImporterAt
<1>6. ReadSound(w)'
  BY <1>1 DEF ReadSound, ImporterAt
<1>7. OneImports'
  BY <1>1, <1>4 DEF ImportInv, OneImports
<1> QED
  BY <1>1, <1>3, <1>5, <1>6, <1>7 DEF ImportInv

LEMMA ImportTakes ==
    ASSUME ImportInv, NEW w \in Importers, ReserveImport(w) \/ ClaimImport(w)
    PROVE  ImportInv'
<1>1. /\ import.status # "importing"
      /\ import' = [import EXCEPT !.status = "importing"]
      /\ UNCHANGED <<snapshots, born, offered>>
      /\ importer'[w].at \in {"reserved", "claimed"}
      /\ importer'[w].at = "claimed" => import.linked
      /\ \A v \in Importers : v # w => importer'[v] = importer[v]
      /\ ImportTypes'
  <2>1. CASE ReserveImport(w)
    BY <2>1 DEF ReserveImport, ImporterAt, ImporterGoes, Claimed, ImportInv, ImportTypes,
                NullableContents
  <2>2. CASE ClaimImport(w)
    BY <2>2 DEF ClaimImport, ImporterAt, ImporterGoes, Claimed, ImportInv, ImportTypes,
                NullableContents
  <2> QED
    BY <2>1, <2>2
<1>2. /\ import'.linked = import.linked /\ import'.accepted = import.accepted
      /\ import'.pending = import.pending /\ import'.status = "importing"
  BY <1>1 DEF ImportInv, ImportTypes
<1>3. RowSound'
  BY <1>1, <1>2 DEF ImportInv, RowSound, AcceptedWasOffered, ReviewHasSomethingToShow
<1> QED
  BY <1>1, <1>2, <1>3, NobodyMoves DEF Importing

LEMMA ImportRecovers ==
    ASSUME ImportInv, NEW w \in Importers, RecoverLink(w)
    PROVE  ImportInv'
<1>1. Importing(w) /\ import.status = "importing"
  BY DEF RecoverLink, ImporterAt, Importing, ImportInv, OneImports
<1>2. PICK found \in BOOLEAN : found = (import.linked \/ born # Nothing)
  OBVIOUS
<1>3. /\ importer' = [importer EXCEPT ![w].at = "link known", ![w].linked = found]
      /\ UNCHANGED <<snapshots, born, offered>>
  BY <1>2 DEF RecoverLink
<1>4. /\ \A v \in Importers : v # w => importer'[v] = importer[v]
      /\ importer'[w].at = "link known"
      /\ importer'[w].linked <=> import.linked \/ born # Nothing
  BY <1>2, <1>3 DEF ImportInv, ImportTypes
<1>5. import' \in [status : {"absent", "importing", "failed", "current", "review_required"},
                   linked : BOOLEAN, accepted : NullableContents, pending : NullableContents]
         => ImportTypes'
  BY <1>3 DEF ImportInv, ImportTypes
<1>6. CASE import.linked \/ born = Nothing
  <2>1. import' = import
    BY <1>6 DEF RecoverLink
  <2>2. RowSound'
    BY <1>3, <2>1 DEF ImportInv, RowSound, AcceptedWasOffered, ReviewHasSomethingToShow
  <2>3. ReadSound(w)'
    BY <1>3, <1>4, <1>6, <2>1 DEF ReadSound, ImporterAt, ImportInv, RowSound
  <2>4. ImportTypes'
    BY <1>5, <2>1 DEF ImportInv, ImportTypes
  <2> QED
    BY <1>1, <1>4, <2>1, <2>2, <2>3, <2>4, OwnerMoves DEF Importing
<1>7. CASE ~import.linked /\ born # Nothing
  <2>1. snapshots # <<>> /\ snapshots[1] = born
    BY <1>7 DEF ImportInv, RowSound
  <2>2. import' = [import EXCEPT !.linked = TRUE, !.accepted = born]
    BY <1>7, <2>1 DEF RecoverLink
  <2>3. /\ import'.linked /\ import'.accepted = born /\ import'.pending = import.pending
        /\ import'.status = "importing"
        /\ ImportTypes'
    BY <1>1, <1>5, <2>2 DEF ImportInv, ImportTypes
  <2>4. RowSound'
    BY <1>3, <1>7, <2>1, <2>3
    DEF ImportInv, RowSound, AcceptedWasOffered, ReviewHasSomethingToShow
  <2>5. ReadSound(w)'
    BY <1>3, <1>4, <1>7, <2>3 DEF ReadSound, ImporterAt
  <2> QED
    BY <1>1, <1>4, <2>3, <2>4, <2>5, OwnerMoves DEF Importing
<1> QED
  BY <1>6, <1>7

(* An answer of Karakeep is stored behind what was stored before.          *)
LEMMA FetchStores ==
    ASSUME ImportTypes, NEW w \in Importers, NEW content \in Contents,
           NEW next \in {"snapshot", "fetched"}, Fetches(w, content, next)
    PROVE  /\ ImportTypes'
           /\ UNCHANGED <<import, born, offered>>
           /\ \A v \in Importers : v # w => importer'[v] = importer[v]
           /\ importer'[w].at = next /\ importer'[w].snapshot = content
           /\ importer'[w].linked = importer[w].linked
           /\ snapshots' # <<>>
           /\ snapshots'[1] = IF snapshots = <<>> THEN content ELSE snapshots[1]
<1>1. /\ snapshots' \in Seq(Contents) /\ snapshots' # <<>>
      /\ snapshots'[1] = IF snapshots = <<>> THEN content ELSE snapshots[1]
  <2>1. CASE content \in Stored
    <3>1. snapshots' = snapshots /\ snapshots \in Seq(Contents)
      BY <2>1 DEF Fetches, ImportTypes
    <3>2. PICK i \in DOMAIN snapshots : TRUE
      BY <2>1 DEF Stored
    <3>3. snapshots # <<>>
      <4>1. i \in 1 .. Len(snapshots) /\ Len(snapshots) \in Nat
        BY <3>1, <3>2
      <4>2. Len(<<>>) = 0
        OBVIOUS
      <4> QED
        BY <4>1, <4>2
    <3> QED
      BY <3>1, <3>3
  <2>2. CASE content \notin Stored
    <3>1. snapshots' = Append(snapshots, content) /\ snapshots \in Seq(Contents)
      BY <2>2 DEF Fetches, ImportTypes
    <3>2. Len(snapshots) \in Nat /\ (Len(snapshots) = 0 <=> snapshots = <<>>)
      BY <3>1
    <3>3. /\ snapshots' \in Seq(Contents) /\ Len(snapshots') = Len(snapshots) + 1
          /\ snapshots'[Len(snapshots) + 1] = content
          /\ \A i \in 1 .. Len(snapshots) : snapshots'[i] = snapshots[i]
      BY <3>1
    <3>4. snapshots' # <<>>
      <4>1. Len(<<>>) = 0
        OBVIOUS
      <4> QED
        BY <3>2, <3>3, <4>1
    <3>5. CASE snapshots = <<>>
      BY <3>2, <3>3, <3>4, <3>5
    <3>6. CASE snapshots # <<>>
      <4>1. 1 \in 1 .. Len(snapshots)
        BY <3>2, <3>6
      <4> QED
        BY <3>3, <3>4, <3>6, <4>1
    <3> QED
      BY <3>5, <3>6
  <2> QED
    BY <2>1, <2>2
<1>2. importer' = [importer EXCEPT ![w].at = next, ![w].snapshot = content]
      /\ UNCHANGED <<import, born, offered>>
  BY DEF Fetches
<1> QED
  BY <1>1, <1>2 DEF ImportTypes, NullableContents

LEMMA ImportSnapshots ==
    ASSUME ImportInv, NEW w \in Importers,
           UseSnapshot(w) \/ \E content \in Contents : FetchSnapshot(w, content)
    PROVE  ImportInv'
<1>1. ImporterAt(w, "link known") /\ Importing(w) /\ import.status = "importing"
  BY DEF UseSnapshot, FetchSnapshot, ImporterAt, Importing, ImportInv, OneImports
<1>2. /\ importer[w].linked <=> import.linked
      /\ ~importer[w].linked => born = Nothing
  BY <1>1 DEF ImportInv, ReadSound, ImporterAt
<1>3. CASE UseSnapshot(w)
  <2>1. InitialSnapshot \in Contents
    <3>1. snapshots # <<>> => snapshots[1] \in Contents
      BY FirstStored DEF ImportInv, ImportTypes
    <3> QED
      BY <1>3, <3>1 DEF UseSnapshot, InitialSnapshot, ImportInv, ImportTypes, NullableContents
  <2>2. /\ importer' = [importer EXCEPT ![w].at = "snapshot", ![w].snapshot = InitialSnapshot]
        /\ UNCHANGED <<import, snapshots, born, offered>>
    BY <1>3 DEF UseSnapshot
  <2>3. /\ ImportTypes'
        /\ \A v \in Importers : v # w => importer'[v] = importer[v]
        /\ importer'[w].at = "snapshot" /\ importer'[w].snapshot = InitialSnapshot
        /\ importer'[w].linked = importer[w].linked
    <3>1. PICK first \in NullableContents : first = InitialSnapshot
      BY <2>1 DEF NullableContents
    <3>2. ImportTypes
      BY DEF ImportInv
    <3>3. importer' = [importer EXCEPT ![w].at = "snapshot", ![w].snapshot = first]
      BY <2>2, <3>1
    <3>4. /\ \A v \in Importers : v # w => importer'[v] = importer[v]
          /\ importer'[w].at = "snapshot" /\ importer'[w].snapshot = first
          /\ importer'[w].linked = importer[w].linked
      BY <3>2, <3>3 DEF ImportTypes
    <3>5. ImportTypes'
      <4>1. PICK row : row = importer'[w]
        OBVIOUS
      <4>2. importer' = [importer EXCEPT ![w] = row]
        BY <3>2, <3>3, <4>1 DEF ImportTypes
      <4>3. row = [importer[w] EXCEPT !.at = "snapshot", !.snapshot = first]
        BY <3>2, <3>3, <4>1 DEF ImportTypes
      <4>4. row \in [at : {"idle", "found", "reserved", "link known", "snapshot", "created",
                           "linked", "claimed", "fetched", "compared"},
                     linked : BOOLEAN, snapshot : NullableContents, unchanged : BOOLEAN]
        BY <3>2, <4>3 DEF ImportTypes
      <4> QED
        BY <2>2, <3>2, <4>2, <4>4 DEF ImportTypes
    <3> QED
      BY <3>1, <3>4, <3>5
  <2>4. RowSound'
    BY <2>2 DEF ImportInv, RowSound, AcceptedWasOffered, ReviewHasSomethingToShow
  <2>5. import.linked => InitialSnapshot \in {born} \cup offered
    BY DEF InitialSnapshot, ImportInv, RowSound, AcceptedWasOffered
  <2>6. ~import.linked => snapshots # <<>> /\ InitialSnapshot = snapshots[1]
    BY <1>3 DEF UseSnapshot, InitialSnapshot, ImportInv, RowSound
  <2>7. ReadSound(w)'
    BY <1>2, <2>2, <2>3, <2>5, <2>6 DEF ReadSound, ImporterAt
  <2> QED
    BY <1>1, <2>2, <2>3, <2>4, <2>7, OwnerMoves DEF Importing
<1>4. ASSUME NEW content \in Contents, FetchSnapshot(w, content) PROVE ImportInv'
  <2>1. Fetches(w, content, "snapshot") /\ import.accepted = Nothing /\ snapshots = <<>>
    <3>1. snapshots # <<>> => snapshots[1] \in Contents
      BY FirstStored DEF ImportInv, ImportTypes
    <3> QED
      BY <1>4, <3>1, ImportAssumption DEF FetchSnapshot, InitialSnapshot
  <2>2. ~import.linked /\ born = Nothing
    BY <2>1 DEF ImportInv, RowSound
  <2>3. /\ ImportTypes'
        /\ UNCHANGED <<import, born, offered>>
        /\ \A v \in Importers : v # w => importer'[v] = importer[v]
        /\ importer'[w].at = "snapshot" /\ importer'[w].snapshot = content
        /\ importer'[w].linked = importer[w].linked
        /\ snapshots' # <<>> /\ snapshots'[1] = content
    BY <2>1, FetchStores DEF ImportInv
  <2>4. RowSound'
    BY <2>2, <2>3 DEF ImportInv, RowSound, AcceptedWasOffered, ReviewHasSomethingToShow
  <2>5. ReadSound(w)'
    BY <1>2, <2>2, <2>3 DEF ReadSound, ImporterAt
  <2> QED
    BY <1>1, <2>3, <2>4, <2>5, OwnerMoves DEF Importing
<1> QED
  BY <1>3, <1>4

LEMMA ImportCreates ==
    ASSUME ImportInv, NEW w \in Importers, CreateImported(w)
    PROVE  ImportInv'
<1>1. ImporterAt(w, "snapshot") /\ Importing(w) /\ import.status = "importing"
  BY DEF CreateImported, ImporterAt, Importing, ImportInv, OneImports
<1>2. /\ ~import.linked /\ born = Nothing /\ snapshots # <<>>
      /\ importer[w].snapshot = snapshots[1] /\ snapshots[1] \in Contents
  <2>1. /\ ~import.linked /\ born = Nothing /\ snapshots # <<>>
        /\ importer[w].snapshot = snapshots[1]
    BY <1>1 DEF CreateImported, ImportInv, ReadSound, ImporterAt
  <2> QED
    BY <2>1, FirstStored DEF ImportInv, ImportTypes
<1>3. /\ born' = importer[w].snapshot
      /\ importer' = [importer EXCEPT ![w].at = "created"]
      /\ UNCHANGED <<import, snapshots, offered>>
  BY DEF CreateImported, ImporterGoes
<1>4. /\ ImportTypes'
      /\ \A v \in Importers : v # w => importer'[v] = importer[v]
      /\ importer'[w].at = "created" /\ importer'[w].snapshot = importer[w].snapshot
  BY <1>3 DEF ImportInv, ImportTypes
<1>5. born' # Nothing
  BY <1>2, <1>3, ImportAssumption
<1>6. RowSound'
  BY <1>2, <1>3 DEF ImportInv, RowSound, AcceptedWasOffered, ReviewHasSomethingToShow
<1>7. ReadSound(w)'
  BY <1>3, <1>4, <1>5 DEF ReadSound, ImporterAt
<1> QED
  BY <1>1, <1>3, <1>4, <1>6, <1>7, OwnerMoves DEF Importing

LEMMA ImportLinks ==
    ASSUME ImportInv, NEW w \in Importers, LinkDocument(w)
    PROVE  ImportInv'
<1>1. ImporterAt(w, "created") /\ Importing(w) /\ import.status = "importing"
  BY DEF LinkDocument, ImporterAt, Importing, ImportInv, OneImports
<1>2. importer[w].snapshot = born /\ born # Nothing
  BY <1>1 DEF ImportInv, ReadSound, ImporterAt
<1>3. /\ import' = [import EXCEPT !.linked = TRUE, !.accepted = born]
      /\ importer' = [importer EXCEPT ![w].at = "linked"]
      /\ UNCHANGED <<snapshots, born, offered>>
  BY <1>2 DEF LinkDocument, ImporterGoes
<1>4. /\ ImportTypes'
      /\ \A v \in Importers : v # w => importer'[v] = importer[v]
      /\ importer'[w].at = "linked" /\ importer'[w].snapshot = born
      /\ import'.linked /\ import'.accepted = born /\ import'.pending = import.pending
      /\ import'.status = "importing"
  BY <1>1, <1>2, <1>3 DEF ImportInv, ImportTypes
<1>5. RowSound'
  BY <1>2, <1>3, <1>4 DEF ImportInv, RowSound, AcceptedWasOffered, ReviewHasSomethingToShow
<1>6. ReadSound(w)'
  BY <1>2, <1>3, <1>4 DEF ReadSound, ImporterAt
<1> QED
  BY <1>1, <1>4, <1>5, <1>6, OwnerMoves DEF Importing

LEMMA ImportCompletes ==
    ASSUME ImportInv, NEW w \in Importers, CompleteImport(w)
    PROVE  ImportInv'
<1>1. Importing(w)
  BY DEF CompleteImport, ImporterAt, Importing
<1>2. import.linked /\ importer[w].snapshot \in {born} \cup offered /\ born # Nothing
  BY DEF CompleteImport, ImportInv, ReadSound, ImporterAt, RowSound
<1>3. /\ import' = [import EXCEPT !.status = "current", !.accepted = importer[w].snapshot,
                                  !.pending = Nothing]
      /\ importer' = [importer EXCEPT ![w] = IdleImporter]
      /\ UNCHANGED <<snapshots, born, offered>>
  BY DEF CompleteImport, ImporterEnds
<1>4. /\ ImportTypes'
      /\ \A v \in Importers : v # w => importer'[v] = importer[v]
      /\ importer'[w].at = "idle"
      /\ import'.linked /\ import'.accepted = importer[w].snapshot
      /\ import'.pending = Nothing /\ import'.status = "current"
  BY <1>2, <1>3 DEF ImportInv, ImportTypes, IdleImporter, NullableContents
<1>5. importer[w].snapshot # Nothing
  BY <1>2, ImportAssumption DEF ImportInv, ImportTypes
<1>6. RowSound'
  BY <1>2, <1>3, <1>4, <1>5
  DEF ImportInv, RowSound, AcceptedWasOffered, ReviewHasSomethingToShow
<1>7. ReadSound(w)'
  BY <1>4 DEF ReadSound, ImporterAt
<1> QED
  BY <1>1, <1>4, <1>6, <1>7, OwnerMoves DEF Importing

LEMMA ImportRefreshes ==
    ASSUME ImportInv, NEW w \in Importers,
           CompareFetched(w) \/ \E content \in Contents : FetchRefresh(w, content)
    PROVE  ImportInv'
<1>1. Importing(w) /\ import.status = "importing" /\ import.linked
  BY DEF CompareFetched, FetchRefresh, ImporterAt, Importing, ImportInv, OneImports, ReadSound
<1>2. CASE CompareFetched(w)
  <2>1. importer[w].snapshot \in Contents
    BY <1>2 DEF CompareFetched, ImporterAt, ImportInv, ReadSound
  <2>2. /\ importer' = [importer EXCEPT ![w].at = "compared",
                           ![w].unchanged = import.accepted = importer[w].snapshot]
        /\ UNCHANGED <<import, snapshots, born, offered>>
    BY <1>2 DEF CompareFetched
  <2>3. /\ \A v \in Importers : v # w => importer'[v] = importer[v]
        /\ importer'[w].at = "compared" /\ importer'[w].snapshot = importer[w].snapshot
        /\ importer'[w].unchanged <=> import.accepted = importer[w].snapshot
    BY <2>2 DEF ImportInv, ImportTypes
  <2>4. ImportTypes'
    <3>1. PICK same \in BOOLEAN : same = (import.accepted = importer[w].snapshot)
      OBVIOUS
    <3>2. importer' = [importer EXCEPT ![w].at = "compared", ![w].unchanged = same]
      BY <2>2, <3>1
    <3>3. importer \in [Importers ->
             [at : {"idle", "found", "reserved", "link known", "snapshot", "created", "linked",
                    "claimed", "fetched", "compared"},
              linked : BOOLEAN, snapshot : NullableContents, unchanged : BOOLEAN]]
      BY DEF ImportInv, ImportTypes
    <3>4. importer' \in [Importers ->
             [at : {"idle", "found", "reserved", "link known", "snapshot", "created", "linked",
                    "claimed", "fetched", "compared"},
              linked : BOOLEAN, snapshot : NullableContents, unchanged : BOOLEAN]]
      BY <3>2, <3>3
    <3> QED
      BY <2>2, <3>4 DEF ImportInv, ImportTypes
  <2>5. RowSound'
    BY <2>2 DEF ImportInv, RowSound, AcceptedWasOffered, ReviewHasSomethingToShow
  <2>6. ReadSound(w)'
    BY <1>1, <2>1, <2>2, <2>3 DEF ReadSound, ImporterAt
  <2> QED
    BY <1>1, <2>2, <2>3, <2>4, <2>5, <2>6, OwnerMoves DEF Importing
<1>3. ASSUME NEW content \in Contents, FetchRefresh(w, content) PROVE ImportInv'
  <2>1. snapshots # <<>> /\ snapshots[1] = born
    BY <1>1 DEF ImportInv, RowSound
  <2>2. /\ ImportTypes'
        /\ UNCHANGED <<import, born, offered>>
        /\ \A v \in Importers : v # w => importer'[v] = importer[v]
        /\ importer'[w].at = "fetched" /\ importer'[w].snapshot = content
        /\ snapshots' # <<>> /\ snapshots'[1] = born
    BY <1>3, <2>1, FetchStores DEF FetchRefresh, ImportInv
  <2>3. RowSound'
    BY <2>2 DEF ImportInv, RowSound, AcceptedWasOffered, ReviewHasSomethingToShow
  <2>4. ReadSound(w)'
    BY <1>1, <2>2 DEF ReadSound, ImporterAt
  <2> QED
    BY <1>1, <2>2, <2>3, <2>4, OwnerMoves DEF Importing
<1> QED
  BY <1>2, <1>3

LEMMA ImportOffers ==
    ASSUME ImportInv, NEW w \in Importers, CompleteRefresh(w)
    PROVE  ImportInv'
<1>1. Importing(w) /\ ImporterAt(w, "compared") /\ import.linked
  BY DEF CompleteRefresh, ImporterAt, Importing, ImportInv, ReadSound
<1>2. /\ importer[w].snapshot \in Contents
      /\ importer[w].unchanged <=> import.accepted = importer[w].snapshot
  BY <1>1 DEF ImportInv, ReadSound, ImporterAt
<1>3. /\ importer' = [importer EXCEPT ![w] = IdleImporter]
      /\ UNCHANGED <<snapshots, born>>
  BY DEF CompleteRefresh, ImporterEnds
<1>4. /\ \A v \in Importers : v # w => importer'[v] = importer[v]
      /\ importer'[w].at = "idle"
  BY <1>3 DEF ImportInv, ImportTypes, IdleImporter
<1>5. ReadSound(w)'
  BY <1>4 DEF ReadSound, ImporterAt
<1>6. CASE importer[w].unchanged
  <2>1. /\ import' = [import EXCEPT !.status = "current", !.pending = Nothing]
        /\ offered' = offered
    BY <1>6 DEF CompleteRefresh
  <2>2. /\ import'.linked /\ import'.accepted = import.accepted
        /\ import'.pending = Nothing /\ import'.status = "current"
    BY <1>1, <2>1 DEF ImportInv, ImportTypes
  <2>3. ImportTypes'
    BY <1>3, <2>1 DEF ImportInv, ImportTypes, IdleImporter, NullableContents
  <2>4. RowSound'
    BY <1>1, <1>3, <2>1, <2>2
    DEF ImportInv, RowSound, AcceptedWasOffered, ReviewHasSomethingToShow
  <2> QED
    BY <1>1, <1>4, <1>5, <2>2, <2>3, <2>4, OwnerMoves DEF Importing
<1>7. CASE ~importer[w].unchanged
  <2>1. /\ import' = [import EXCEPT !.status = "review_required",
                                    !.pending = importer[w].snapshot]
        /\ offered' = offered \cup {importer[w].snapshot}
    BY <1>7 DEF CompleteRefresh
  <2>2. /\ import'.linked /\ import'.accepted = import.accepted
        /\ import'.pending = importer[w].snapshot /\ import'.status = "review_required"
    BY <1>1, <2>1 DEF ImportInv, ImportTypes
  <2>3. ImportTypes'
    BY <1>2, <1>3, <2>1 DEF ImportInv, ImportTypes, IdleImporter, NullableContents
  <2>4. importer[w].snapshot \notin {Nothing, import.accepted}
    BY <1>2, <1>7, ImportAssumption
  <2>5. RowSound'
    BY <1>1, <1>3, <2>1, <2>2, <2>4
    DEF ImportInv, RowSound, AcceptedWasOffered, ReviewHasSomethingToShow
  <2> QED
    BY <1>1, <1>4, <1>5, <2>2, <2>3, <2>5, OwnerMoves DEF Importing
<1> QED
  BY <1>6, <1>7

LEMMA ImportFails ==
    ASSUME ImportInv, NEW w \in Importers, FailImport(w)
    PROVE  ImportInv'
<1>1. /\ Importing(w)
      /\ import' = [import EXCEPT !.status = "failed"]
      /\ importer' = [importer EXCEPT ![w] = IdleImporter]
      /\ UNCHANGED <<snapshots, born, offered>>
  BY DEF FailImport, ImporterEnds
<1>2. /\ \A v \in Importers : v # w => importer'[v] = importer[v]
      /\ importer'[w].at = "idle"
      /\ import'.linked = import.linked /\ import'.accepted = import.accepted
      /\ import'.pending = import.pending /\ import'.status = "failed"
  BY <1>1 DEF ImportInv, ImportTypes, IdleImporter
<1>3. ImportTypes'
  BY <1>1 DEF ImportInv, ImportTypes, IdleImporter, NullableContents
<1>4. RowSound'
  BY <1>1, <1>2 DEF ImportInv, RowSound, AcceptedWasOffered, ReviewHasSomethingToShow
<1>5. ReadSound(w)'
  BY <1>2 DEF ReadSound, ImporterAt
<1> QED
  BY <1>1, <1>2, <1>3, <1>4, <1>5, OwnerMoves DEF Importing

(* A review is applied to a row that nobody imports.                       *)
LEMMA ImportApplies ==
    ASSUME ImportInv, ReadPending \/ UpdateDocument \/ CompleteApply
    PROVE  ImportInv'
<1>1. UNCHANGED <<snapshots, born, importer, offered>>
  BY DEF ReadPending, UpdateDocument, CompleteApply
<1>2. CASE import' = import
  <2>1. ImportTypes' /\ RowSound'
    BY <1>1, <1>2 DEF ImportInv, ImportTypes, RowSound, AcceptedWasOffered,
                      ReviewHasSomethingToShow
  <2>2. OneImports'
    BY <1>1, <1>2 DEF ImportInv, OneImports, Importing
  <2>3. \A w \in Importers : ReadSound(w)'
    BY <1>1, <1>2 DEF ImportInv, ReadSound, ImporterAt
  <2> QED
    BY <2>1, <2>2, <2>3 DEF ImportInv
<1>3. CASE import' # import
  <2>1. import' = AcceptPending /\ import.status = "review_required"
    BY <1>3 DEF ReadPending, UpdateDocument, CompleteApply
  <2>2. /\ import'.linked = import.linked /\ import'.accepted = import.pending
        /\ import'.pending = Nothing /\ import'.status = "current"
        /\ ImportTypes'
    BY <1>1, <2>1 DEF AcceptPending, ImportInv, ImportTypes, NullableContents
  <2>3. RowSound'
    BY <1>1, <2>1, <2>2 DEF ImportInv, RowSound, AcceptedWasOffered, ReviewHasSomethingToShow
  <2>4. \A w \in Importers : ~Importing(w)
    BY <2>1 DEF ImportInv, OneImports
  <2>5. \A w \in Importers : ~Importing(w)' /\ importer'[w].at \in {"idle", "found"}
    BY <1>1, <2>4 DEF Importing
  <2>6. OneImports'
    BY <2>2, <2>5 DEF OneImports
  <2>7. \A w \in Importers : ReadSound(w)'
    BY <2>5 DEF ReadSound, ImporterAt
  <2> QED
    BY <2>2, <2>3, <2>6, <2>7 DEF ImportInv
<1> QED
  BY <1>2, <1>3

LEMMA ImportRestarts ==
    ASSUME ImportInv, RestartImports
    PROVE  ImportInv'
<1>1. /\ UNCHANGED <<snapshots, born, offered>>
      /\ importer' = [w \in Importers |-> IdleImporter]
  BY DEF RestartImports
<1>2. /\ import'.linked = import.linked /\ import'.accepted = import.accepted
      /\ import'.pending = import.pending
      /\ import'.status = IF import.status = "importing" THEN "failed" ELSE import.status
      /\ ImportTypes'
  <2>1. CASE import.status = "importing"
    <3>1. import' = [import EXCEPT !.status = "failed"]
      BY <2>1 DEF RestartImports
    <3> QED
      BY <1>1, <2>1, <3>1 DEF ImportInv, ImportTypes, IdleImporter, NullableContents
  <2>2. CASE import.status # "importing"
    <3>1. import' = import
      BY <2>2 DEF RestartImports
    <3> QED
      BY <1>1, <2>2, <3>1 DEF ImportInv, ImportTypes, IdleImporter, NullableContents
  <2> QED
    BY <2>1, <2>2
<1>3. RowSound'
  BY <1>1, <1>2 DEF ImportInv, RowSound, AcceptedWasOffered, ReviewHasSomethingToShow
<1>4. \A w \in Importers : importer'[w].at = "idle"
  BY <1>1 DEF IdleImporter
<1>5. OneImports'
  BY <1>2, <1>4 DEF OneImports, Importing
<1>6. \A w \in Importers : ReadSound(w)'
  BY <1>4 DEF ReadSound, ImporterAt
<1> QED
  BY <1>2, <1>3, <1>5, <1>6 DEF ImportInv

LEMMA ImportSteps == ImportInv /\ [ImportNext]_importVars => ImportInv'
<1> SUFFICES ASSUME ImportInv, [ImportNext]_importVars PROVE ImportInv'
  OBVIOUS
<1>1. CASE UNCHANGED importVars
  <2>1. UNCHANGED <<import, snapshots, born, importer, offered>>
    BY <1>1 DEF importVars
  <2>2. ImportTypes' /\ RowSound'
    BY <2>1 DEF ImportInv, ImportTypes, RowSound, AcceptedWasOffered, ReviewHasSomethingToShow
  <2>3. OneImports'
    BY <2>1 DEF ImportInv, OneImports, Importing
  <2>4. \A w \in Importers : ReadSound(w)'
    BY <2>1 DEF ImportInv, ReadSound, ImporterAt
  <2> QED
    BY <2>2, <2>3, <2>4 DEF ImportInv
<1>2. CASE ImportNext
  BY <1>2, ImportFinds, ImportTakes, ImportRecovers, ImportSnapshots, ImportCreates, ImportLinks,
     ImportCompletes, ImportRefreshes, ImportOffers, ImportFails, ImportApplies, ImportRestarts
  DEF ImportNext
<1> QED
  BY <1>1, <1>2

(* "refreshes surface diffs for review instead of silently overwriting     *)
(* edits" (karakeep.py): for any importers, contents and failures, what is *)
(* accepted was the document's beginning or was offered for review, a      *)
(* review has something to show, and a running import has one importer.    *)
THEOREM ImportsAlwaysKeepFaith == ImportSpec => []ImportsKeepFaith
<1>1. ImportInv => ImportsKeepFaith
  <2> SUFFICES ASSUME ImportInv PROVE ImportsKeepFaith
    OBVIOUS
  <2>1. AcceptedWasOffered /\ ReviewHasSomethingToShow
    BY DEF ImportInv, RowSound
  <2>2. RunningHasOneImporter
    <3>1. CASE import.status = "importing"
      <4>1. PICK w \in Importers : Importing(w)
        BY <3>1 DEF ImportInv, OneImports
      <4>2. {v \in Importers : Importing(v)} = {w}
        BY <4>1 DEF ImportInv, OneImports
      <4> QED
        BY <3>1, <4>2, FS_Singleton DEF RunningHasOneImporter
    <3>2. CASE import.status # "importing"
      <4>1. {v \in Importers : Importing(v)} = {}
        BY <3>2 DEF ImportInv, OneImports
      <4> QED
        BY <3>2, <4>1, FS_EmptySet DEF RunningHasOneImporter
    <3> QED
      BY <3>1, <3>2
  <2> QED
    BY <2>1, <2>2 DEF ImportsKeepFaith
<1>2. ImportInit => ImportInv
  BY ImportInitially
<1>3. ImportInv /\ [ImportNext]_importVars => ImportInv'
  BY ImportSteps
<1> QED
  BY <1>1, <1>2, <1>3, PTL DEF ImportSpec

-----------------------------------------------------------------------------
(* SearchIndexing                                                          *)

SearchState == [changes : Nat, deleted : BOOLEAN]

SearchTypes ==
    /\ source \in [SearchDocuments -> SearchState]
    /\ indexed \in [SearchDocuments -> Nat]
    /\ writer \in [Writers -> [of : SUBSET SearchDocuments, seen : Nat]]

SearchInv == SearchTypes /\ IndexedOrMarked

(* What there is to show is a number.                                      *)
LEMMA SearchableIsNat ==
    ASSUME SearchTypes, NEW d \in SearchDocuments
    PROVE  Searchable(d) \in Nat
BY DEF SearchTypes, SearchState, Searchable

(* Indexing the committed state and taking the marks away keeps the        *)
(* promise, for whatever documents: replace() reads and unmarks under one  *)
(* writer lock.                                                            *)
LEMMA IndexingKeepsPromise ==
    ASSUME SearchInv, NEW documents, Reindexed(documents, Committed), UNCHANGED source
    PROVE  indexed' \in [SearchDocuments -> Nat] /\ IndexedOrMarked'
<1>1. Committed \in [SearchDocuments -> Nat]
  BY SearchableIsNat DEF SearchInv, Committed
<1>2. \A d \in SearchDocuments : Committed[d] = Searchable(d) /\ Searchable(d)' = Searchable(d)
  BY DEF Committed, Searchable
<1>3. indexed' = [d \in SearchDocuments |->
                    IF d \in documents THEN Committed[d] ELSE indexed[d]]
  BY DEF Reindexed
<1>4. indexed' \in [SearchDocuments -> Nat]
  BY <1>1, <1>3 DEF SearchInv, SearchTypes
<1>5. ASSUME NEW d \in SearchDocuments, d \notin marked'
      PROVE  indexed'[d] = Searchable(d)'
  <2>1. CASE d \in documents
    BY <1>2, <1>3, <2>1
  <2>2. CASE d \notin documents
    <3>1. d \notin marked
      BY <1>5, <2>2 DEF Reindexed
    <3> QED
      BY <1>2, <1>3, <2>2, <3>1 DEF SearchInv, IndexedOrMarked
  <2> QED
    BY <2>1, <2>2
<1> QED
  BY <1>4, <1>5 DEF IndexedOrMarked

(* A commit that leaves its document marked keeps it as well.              *)
LEMMA MarkingKeepsPromise ==
    ASSUME SearchInv, NEW d \in SearchDocuments, NEW deletes \in BOOLEAN,
           ChangeSearchable(d, deletes), UNCHANGED indexed
    PROVE  source' \in [SearchDocuments -> SearchState] /\ IndexedOrMarked'
<1>1. source' = [source EXCEPT ![d] = [changes |-> source[d].changes + 1, deleted |-> deletes]]
  BY DEF ChangeSearchable
<1>2. source' \in [SearchDocuments -> SearchState]
  BY <1>1 DEF SearchInv, SearchTypes, SearchState
<1>3. ASSUME NEW e \in SearchDocuments, e \notin marked'
      PROVE  indexed'[e] = Searchable(e)'
  <2>1. e # d /\ e \notin marked
    BY <1>3 DEF ChangeSearchable
  <2>2. Searchable(e)' = Searchable(e)
    BY <1>1, <2>1 DEF SearchInv, SearchTypes, Searchable
  <2> QED
    BY <2>1, <2>2 DEF SearchInv, IndexedOrMarked
<1> QED
  BY <1>2, <1>3 DEF IndexedOrMarked

LEMMA SearchInitially == SearchInit => SearchInv
BY DEF SearchInit, SearchInv, SearchTypes, SearchState, IndexedOrMarked, Searchable, NoWork

LEMMA SearchStep == SearchInv /\ [SearchNext]_searchVars => SearchInv'
<1> SUFFICES ASSUME SearchInv, [SearchNext]_searchVars
             PROVE  SearchInv'
  OBVIOUS
<1> USE DEF SearchInv
<1>1. ASSUME NEW w \in Writers, NEW d \in SearchDocuments, NEW deletes \in BOOLEAN,
             CommitSearchable(w, d, deletes)
      PROVE  SearchInv'
  <2>1. source' \in [SearchDocuments -> SearchState] /\ IndexedOrMarked'
    BY <1>1, MarkingKeepsPromise DEF CommitSearchable
  <2>2. indexed' \in [SearchDocuments -> Nat]
        /\ writer' \in [Writers -> [of : SUBSET SearchDocuments, seen : Nat]]
    BY <1>1 DEF CommitSearchable, SearchTypes
  <2> QED
    BY <2>1, <2>2 DEF SearchTypes
<1>2. ASSUME NEW w \in Writers, ReadBack(w)
      PROVE  SearchInv'
  <2>1. \E d \in SearchDocuments : writer' = [writer EXCEPT ![w].seen = Searchable(d)]
    BY <1>2 DEF ReadBack, SearchTypes
  <2>2. writer' \in [Writers -> [of : SUBSET SearchDocuments, seen : Nat]]
    BY <2>1, SearchableIsNat DEF SearchTypes
  <2> QED
    BY <1>2, <2>2 DEF ReadBack, SearchTypes, IndexedOrMarked, Searchable
<1>3. ASSUME NEW w \in Writers, Sync(w)
      PROVE  SearchInv'
  <2>1. indexed' \in [SearchDocuments -> Nat] /\ IndexedOrMarked'
    BY <1>3, IndexingKeepsPromise DEF Sync
  <2> QED
    BY <1>3, <2>1 DEF Sync, NoWork, SearchTypes
<1>4. ASSUME NEW w \in Writers, FailBeforeSync(w)
      PROVE  SearchInv'
  BY <1>4 DEF FailBeforeSync, NoWork, SearchTypes, IndexedOrMarked, Searchable
<1>5. ASSUME NEW documents \in SUBSET SearchDocuments, CommitIndexing(documents)
      PROVE  SearchInv'
  <2>1. source' = [d \in SearchDocuments |->
          IF d \in documents THEN [source[d] EXCEPT !.changes = @ + 1] ELSE source[d]]
    BY <1>5 DEF CommitIndexing
  <2>2. indexed' = [d \in SearchDocuments |->
          IF d \in documents
          THEN IF source[d].deleted THEN 0 ELSE source[d].changes + 1
          ELSE indexed[d]]
    BY <1>5 DEF CommitIndexing, Reindexed
  <2>3. source' \in [SearchDocuments -> SearchState] /\ indexed' \in [SearchDocuments -> Nat]
    BY <2>1, <2>2 DEF SearchTypes, SearchState
  <2>4. ASSUME NEW d \in SearchDocuments, d \notin marked'
        PROVE  indexed'[d] = Searchable(d)'
    <3>1. CASE d \in documents
      BY <2>1, <2>2, <3>1 DEF SearchTypes, SearchState, Searchable
    <3>2. CASE d \notin documents
      <4>1. d \notin marked
        BY <1>5, <2>4, <3>2 DEF CommitIndexing, Reindexed
      <4> QED
        BY <2>1, <2>2, <3>2, <4>1 DEF IndexedOrMarked, Searchable
    <3> QED
      BY <3>1, <3>2
  <2> QED
    BY <1>5, <2>3, <2>4 DEF CommitIndexing, SearchTypes, IndexedOrMarked
<1>6. ASSUME NEW d \in SearchDocuments, CommitElsewhere(d)
      PROVE  SearchInv'
  <2>1. source[d].deleted \in BOOLEAN
    BY DEF SearchTypes, SearchState
  <2>2. source' \in [SearchDocuments -> SearchState] /\ IndexedOrMarked'
    BY <1>6, <2>1, MarkingKeepsPromise DEF CommitElsewhere
  <2> QED
    BY <1>6, <2>2 DEF CommitElsewhere, SearchTypes
<1>7. ASSUME NEW documents \in SUBSET SearchDocuments, RepairSome(documents)
      PROVE  SearchInv'
  <2>1. indexed' \in [SearchDocuments -> Nat] /\ IndexedOrMarked'
    BY <1>7, IndexingKeepsPromise DEF RepairSome
  <2> QED
    BY <1>7, <2>1 DEF RepairSome, SearchTypes
<1>8. CASE Rebuild
  <2>1. indexed' \in [SearchDocuments -> Nat] /\ IndexedOrMarked'
    BY <1>8, IndexingKeepsPromise DEF Rebuild
  <2> QED
    BY <1>8, <2>1 DEF Rebuild, SearchTypes
<1>9. CASE StopServing
  BY <1>9 DEF StopServing, NoWork, SearchTypes, IndexedOrMarked, Searchable
<1>10. CASE Serve
  BY <1>10 DEF Serve, SearchTypes, IndexedOrMarked, Searchable
<1>11. CASE UNCHANGED searchVars
  BY <1>11 DEF searchVars, SearchTypes, IndexedOrMarked, Searchable
<1> QED
  BY <1>1, <1>2, <1>3, <1>4, <1>5, <1>6, <1>7, <1>8, <1>9, <1>10, <1>11 DEF SearchNext

(* "Index synchronization reads the canonical state and removes that       *)
(* marker in one transaction": for any number of documents, writers and    *)
(* changes, and any batch of the repair, a document that is not marked is  *)
(* indexed as it is committed.                                             *)
THEOREM IndexIsFaithful == SearchSpec => []IndexedOrMarked
<1>1. SearchInv => IndexedOrMarked
  BY DEF SearchInv
<1> QED
  BY SearchInitially, SearchStep, <1>1, PTL DEF SearchSpec

-----------------------------------------------------------------------------
(* SearchPassages                                                          *)

(* What _hits() returns.                                                   *)
SortedHits(hits) ==
    /\ hits \in Seq([start : Nat, term : Terms])
    /\ \A i, j \in 1 .. Len(hits) : i < j => InOrder(hits[i], hits[j])

PlaceOrder(S) == {p \in S \X S : InOrder(p[1], p[2])}

LEMMA PlacesAreOrdered ==
    ASSUME NEW S, S \subseteq [start : Nat, term : Terms]
    PROVE  StrictOrder(PlaceOrder(S), S)
<1>1. \A x \in S : x.start \in Nat /\ x.term \in Nat /\ x = [start |-> x.start, term |-> x.term]
  <2> SUFFICES ASSUME NEW x \in S
               PROVE  x.start \in Nat /\ x.term \in Nat /\ x = [start |-> x.start, term |-> x.term]
    OBVIOUS
  <2>1. x \in [start : Nat, term : Terms]
    OBVIOUS
  <2>2. x.term \in Nat
    BY <2>1, PassageAssumption
  <2> QED
    BY <2>1, <2>2
<1>2. \A x, y \in S : <<x, y>> \in PlaceOrder(S) <=> InOrder(x, y)
  BY DEF PlaceOrder
<1>3. \A x \in S : ~InOrder(x, x)
  BY <1>1 DEF InOrder
<1>4. \A x, y, z \in S : InOrder(x, y) /\ InOrder(y, z) => InOrder(x, z)
  BY <1>1 DEF InOrder
<1>5. \A x, y \in S : x # y => InOrder(x, y) \/ InOrder(y, x)
  <2> SUFFICES ASSUME NEW x \in S, NEW y \in S, ~InOrder(x, y), ~InOrder(y, x)
               PROVE  x = y
    OBVIOUS
  <2>1. x.start = y.start /\ x.term = y.term
    BY <1>1 DEF InOrder
  <2> QED
    BY <1>1, <2>1
<1> QED
  BY <1>2, <1>3, <1>4, <1>5 DEF StrictOrder

(* Hits lists the occurrences in the order of the text.                    *)
LEMMA HitsAreSorted ==
    ASSUME occurrences \in HitSets
    PROVE  SortedHits(Hits)
<1> DEFINE n == Cardinality(occurrences)
           Sorts(s) == \A i, j \in 1 .. n : i < j => InOrder(s[i], s[j])
<1>1. IsFiniteSet(occurrences) /\ occurrences \subseteq [start : Nat, term : Terms] /\ n \in Nat
  BY PassageAssumption, FS_CardinalityType
<1>2. \E s \in [1 .. n -> occurrences] : Sorts(s)
  <2>1. PICK s : Lists(s, occurrences, PlaceOrder(occurrences))
    BY <1>1, PlacesAreOrdered, SortedExists
  <2>2. s \in [1 .. n -> occurrences] /\ \A i, j \in 1 .. n : i < j => <<s[i], s[j]>> \in PlaceOrder(occurrences)
    BY <2>1 DEF Lists
  <2>3. Sorts(s)
    BY <2>2 DEF PlaceOrder
  <2> QED
    BY <2>2, <2>3
<1>3. Hits \in [1 .. n -> occurrences] /\ Sorts(Hits)
  <2>1. Hits = CHOOSE s \in [1 .. n -> occurrences] : Sorts(s)
    BY DEF Hits
  <2> HIDE DEF Sorts, n
  <2> QED
    BY <1>2, <2>1
<1>4. Hits \in Seq([start : Nat, term : Terms]) /\ Len(Hits) = n
  <2> DEFINE places == [start : Nat, term : Terms]
             s == Hits
  <2>1. s \in [1 .. n -> places]
    BY <1>1, <1>3
  <2> HIDE DEF n, s, places
  <2>2. s \in Seq(places) /\ Len(s) = n
    BY <1>1, <2>1
  <2> QED
    BY <2>2 DEF s, places
<1> QED
  BY <1>3, <1>4 DEF SortedHits

(* Counting                                                                *)

HitsOf(hits, t, from, to) == {i \in from .. to : hits[i].term = t}

LEMMA CountIs ==
    ASSUME NEW hits, NEW t, NEW from \in Int, NEW to \in Int
    PROVE  /\ CountOf(hits, t, from, to) = Cardinality(HitsOf(hits, t, from, to))
           /\ IsFiniteSet(HitsOf(hits, t, from, to)) /\ CountOf(hits, t, from, to) \in Nat
<1>1. IsFiniteSet(from .. to)
  BY FS_Interval
<1>2. IsFiniteSet(HitsOf(hits, t, from, to))
  BY <1>1, FS_Subset DEF HitsOf
<1> QED
  BY <1>2, FS_CardinalityType DEF CountOf, HitsOf

LEMMA CountSplits ==
    ASSUME NEW hits, NEW t, NEW from \in Int, NEW mid \in Int, NEW to \in Int,
           from <= mid + 1, mid <= to
    PROVE  CountOf(hits, t, from, to) = CountOf(hits, t, from, mid) + CountOf(hits, t, mid + 1, to)
<1> DEFINE A == HitsOf(hits, t, from, mid)
           B == HitsOf(hits, t, mid + 1, to)
<1>1. HitsOf(hits, t, from, to) = A \cup B /\ A \cap B = {}
  BY DEF HitsOf
<1>2. /\ IsFiniteSet(A) /\ CountOf(hits, t, from, mid) = Cardinality(A)
      /\ CountOf(hits, t, from, mid) \in Nat
  BY CountIs
<1>3. /\ IsFiniteSet(B) /\ CountOf(hits, t, mid + 1, to) = Cardinality(B)
      /\ CountOf(hits, t, mid + 1, to) \in Nat
  <2>1. mid + 1 \in Int
    OBVIOUS
  <2> QED
    BY <2>1, CountIs
<1>4. CountOf(hits, t, from, to) = Cardinality(A \cup B)
  BY <1>1, CountIs
<1>5. Cardinality(A \cup B) = Cardinality(A) + Cardinality(B) - Cardinality(A \cap B)
  <2> HIDE DEF A, B
  <2> QED
    BY <1>2, <1>3, FS_Union
<1>6. Cardinality(A \cap B) = 0
  BY <1>1, FS_EmptySet
<1> HIDE DEF A, B
<1> QED
  BY <1>2, <1>3, <1>4, <1>5, <1>6

LEMMA CountOfNone ==
    ASSUME NEW hits, NEW t, NEW from \in Int, NEW to \in Int, to < from
    PROVE  CountOf(hits, t, from, to) = 0
<1>1. HitsOf(hits, t, from, to) = {}
  BY DEF HitsOf
<1> QED
  BY <1>1, CountIs, FS_EmptySet

LEMMA CountOfOne ==
    ASSUME NEW hits, NEW t, NEW i \in Int
    PROVE  CountOf(hits, t, i, i) = IF hits[i].term = t THEN 1 ELSE 0
<1>1. i .. i = {i}
  OBVIOUS
<1>2. CASE hits[i].term = t
  <2>1. HitsOf(hits, t, i, i) = {i}
    BY <1>1, <1>2 DEF HitsOf
  <2> QED
    BY <1>2, <2>1, CountIs, FS_Singleton
<1>3. CASE hits[i].term # t
  <2>1. HitsOf(hits, t, i, i) = {}
    BY <1>1, <1>3 DEF HitsOf
  <2> QED
    BY <1>3, <2>1, CountIs, FS_EmptySet
<1> QED
  BY <1>2, <1>3

(* The window slides                                                       *)

Windows(n) == [right : 0 .. n, counts : [Terms -> Int]]

(* Where the loop of one hit stops.                                        *)
StopsAt(hits, left, from, r) ==
    /\ \A i \in from + 1 .. r : Within(hits, left, i)
    /\ r < Len(hits) => ~Within(hits, left, r + 1)

LEMMA LoopStops ==
    ASSUME NEW hits \in Seq([start : Nat, term : Terms]), NEW left, NEW from \in 0 .. Len(hits)
    PROVE  \E r \in from .. Len(hits) : StopsAt(hits, left, from, r)
<1> DEFINE B == {r \in from .. Len(hits) : r < Len(hits) => ~Within(hits, left, r + 1)}
<1>1. PICK r \in B : \A k \in B : r <= k
  <2>1. B \subseteq Nat /\ Len(hits) \in B
    OBVIOUS
  <2> HIDE DEF B
  <2> QED
    BY <2>1, LeastOf
<1>2. \A i \in from + 1 .. r : Within(hits, left, i)
  <2> SUFFICES ASSUME NEW i \in from + 1 .. r, ~Within(hits, left, i)
               PROVE  FALSE
    OBVIOUS
  <2>1. i - 1 \in from .. Len(hits) /\ (i - 1) + 1 = i /\ i - 1 < r
    BY <1>1
  <2>2. i - 1 \in B
    BY <2>1
  <2>3. i - 1 \in Int /\ r \in Int
    BY <1>1
  <2> HIDE DEF B
  <2> QED
    BY <1>1, <2>1, <2>2, <2>3
<1> QED
  BY <1>1, <1>2 DEF StopsAt

LEMMA NextWindowIs ==
    ASSUME NEW hits \in Seq([start : Nat, term : Terms]), NEW left \in 1 .. Len(hits),
           NEW before \in Windows(Len(hits))
    PROVE  LET w == NextWindow(hits, left, before) IN
           /\ w \in Windows(Len(hits)) /\ before.right <= w.right
           /\ StopsAt(hits, left, before.right, w.right)
           /\ \A t \in Terms : w.counts[t] =
                before.counts[t] + CountOf(hits, t, before.right + 1, w.right)
                  - LeftBehind(hits, left, t)
<1> DEFINE right == CHOOSE r \in before.right .. Len(hits) :
                      /\ \A i \in before.right + 1 .. r : Within(hits, left, i)
                      /\ r < Len(hits) => ~Within(hits, left, r + 1)
           counts == [t \in Terms |->
                        before.counts[t] + CountOf(hits, t, before.right + 1, right)
                          - LeftBehind(hits, left, t)]
<1>1. before.right \in 0 .. Len(hits) /\ before.counts \in [Terms -> Int]
  BY DEF Windows
<1>2. right \in before.right .. Len(hits) /\ StopsAt(hits, left, before.right, right)
  <2>1. \E r \in before.right .. Len(hits) : StopsAt(hits, left, before.right, r)
    BY <1>1, LoopStops
  <2> QED
    BY <2>1 DEF StopsAt
<1>3. NextWindow(hits, left, before) = [right |-> right, counts |-> counts]
  BY DEF NextWindow
<1> HIDE DEF right
<1>4. Len(hits) \in Nat /\ right \in Int /\ before.right + 1 \in Int /\ right \in 0 .. Len(hits)
  BY <1>1, <1>2
<1>5. counts \in [Terms -> Int]
  <2>1. \A t \in Terms : CountOf(hits, t, before.right + 1, right) \in Nat
    BY <1>4, CountIs
  <2>2. \A t \in Terms : LeftBehind(hits, left, t) \in {0, 1}
    BY DEF LeftBehind
  <2>3. \A t \in Terms : before.counts[t] \in Int
    BY <1>1
  <2>4. \A t \in Terms : before.counts[t] + CountOf(hits, t, before.right + 1, right)
                           - LeftBehind(hits, left, t) \in Int
    BY <2>1, <2>2, <2>3
  <2> QED
    BY <2>4
<1>6. \A t \in Terms : counts[t] = before.counts[t] + CountOf(hits, t, before.right + 1, right)
                                     - LeftBehind(hits, left, t)
  OBVIOUS
<1> HIDE DEF counts
<1> QED
  BY <1>1, <1>2, <1>3, <1>4, <1>5, <1>6 DEF Windows

(* The definition of the slide has a value, and it goes from hit to hit.   *)
LEMMA SlideIs ==
    ASSUME NEW hits \in Seq([start : Nat, term : Terms])
    PROVE  /\ Slide(hits) \in [0 .. Len(hits) -> Windows(Len(hits))]
           /\ Slide(hits)[0] = NoWindow
           /\ \A left \in 1 .. Len(hits) :
                Slide(hits)[left] = NextWindow(hits, left, Slide(hits)[left - 1])
<1> DEFINE n == Len(hits)
           Body(f) == [left \in 0 .. n |->
                         IF left = 0 THEN NoWindow ELSE NextWindow(hits, left, f[left - 1])]
           step == [left \in 1 .. n |-> [w \in Windows(n) |-> NextWindow(hits, left, w)]]
<1>1. n \in Nat /\ NoWindow \in Windows(n)
  BY DEF NoWindow, Windows
<1>2. step \in [1 .. n -> [Windows(n) -> Windows(n)]]
  BY NextWindowIs
<1>3. PICK f \in [0 .. n -> Windows(n)] : f = Recursion(f, n, NoWindow, step)
  <2> HIDE DEF step, n
  <2> QED
    BY <1>1, <1>2, RecursionExists
<1>4. f = Body(f)
  <2>1. \A left \in 1 .. n : f[left - 1] \in Windows(n)
    BY <1>1, <1>3
  <2>2. \A left \in 1 .. n : step[left][f[left - 1]] = NextWindow(hits, left, f[left - 1])
    BY <2>1
  <2>3. \A left \in 0 .. n : left # 0 => left \in 1 .. n
    BY <1>1
  <2> HIDE DEF step, n
  <2>4. Recursion(f, n, NoWindow, step) = Body(f)
    BY <2>2, <2>3 DEF Recursion
  <2> QED
    BY <1>3, <2>4
<1>5. Slide(hits) = CHOOSE slide : slide = Body(slide)
  BY DEF Slide
<1>6. Slide(hits) = Body(Slide(hits))
  <2> HIDE DEF Body
  <2> QED
    BY <1>4, <1>5
<1> DEFINE s == Slide(hits)
<1>7. s[0] = NoWindow /\ \A left \in 1 .. n : s[left] = NextWindow(hits, left, s[left - 1])
  <2> HIDE DEF s
  <2> QED
    BY <1>1, <1>6 DEF s
<1>8. \A left \in 0 .. n : s[left] \in Windows(n)
  <2> DEFINE P == {left \in 0 .. n : s[left] \in Windows(n)}
  <2> HIDE DEF s, n
  <2>1. 0 \in P
    BY <1>1, <1>7
  <2>2. ASSUME NEW left \in 1 .. n, left - 1 \in P
        PROVE  left \in P
    <3>1. s[left - 1] \in Windows(n) /\ left \in 0 .. n
      BY <1>1, <2>2
    <3>2. NextWindow(hits, left, s[left - 1]) \in Windows(n)
      BY <3>1, NextWindowIs DEF n
    <3> QED
      BY <1>7, <3>1, <3>2
  <2>3. \A left \in 0 .. n : left \in P
    <3> HIDE DEF P
    <3>1. \A left \in 1 .. n : left - 1 \in P => left \in P
      BY <2>2
    <3> QED
      BY <1>1, <2>1, <3>1, UpTo
  <2> QED
    BY <2>3
<1>9. s \in [0 .. n -> Windows(n)]
  <2>1. s = [left \in 0 .. n |-> s[left]]
    <3>1. s = Body(s)
      BY <1>6
    <3> HIDE DEF s
    <3> QED
      BY <3>1
  <2> HIDE DEF s, n
  <2> QED
    BY <1>8, <2>1
<1> QED
  BY <1>7, <1>9
(* What the loop has found when it leaves a hit: all that is within, no    *)
(* more, and the count of each term there.                                 *)
ShowsWindow(hits, left, w) ==
    /\ w.right \in left .. Len(hits)
    /\ \A i \in left .. w.right : Within(hits, left, i)
    /\ w.right < Len(hits) => ~Within(hits, left, w.right + 1)
    /\ \A t \in Terms : w.counts[t] = CountOf(hits, t, left, w.right)

LEMMA StartsRise ==
    ASSUME NEW hits, SortedHits(hits)
    PROVE  /\ Len(hits) \in Nat
           /\ \A i \in 1 .. Len(hits) :
                hits[i].start \in Nat /\ hits[i].term \in Terms
           /\ \A i, j \in 1 .. Len(hits) : i <= j => hits[i].start <= hits[j].start
<1>1. hits \in Seq([start : Nat, term : Terms])
  BY DEF SortedHits
<1>2. \A i \in 1 .. Len(hits) : hits[i] \in [start : Nat, term : Terms]
  BY <1>1, ElementOfSeq
<1>3. \A i \in 1 .. Len(hits) : hits[i].start \in Nat /\ hits[i].term \in Terms
  BY <1>2
<1>4. ASSUME NEW i \in 1 .. Len(hits), NEW j \in 1 .. Len(hits), i <= j
      PROVE  hits[i].start <= hits[j].start
  <2>1. CASE i = j
    BY <1>3, <2>1
  <2>2. CASE i < j
    <3>1. InOrder(hits[i], hits[j])
      BY <2>2 DEF SortedHits
    <3> QED
      BY <1>3, <3>1 DEF InOrder
  <2> QED
    BY <1>4, <2>1, <2>2
<1> QED
  BY <1>1, <1>3, <1>4

(* A window that begins later reaches as far.                              *)
LEMMA WithinLater ==
    ASSUME NEW hits, SortedHits(hits), NEW left \in 1 .. Len(hits), left > 1,
           NEW i \in left .. Len(hits), Within(hits, left - 1, i)
    PROVE  Within(hits, left, i)
<1>1. left - 1 \in 1 .. Len(hits) /\ i \in 1 .. Len(hits)
  OBVIOUS
<1>2. hits[left - 1].start <= hits[left].start
  BY <1>1, StartsRise
<1>3. hits[left].start \in Nat /\ hits[left - 1].start \in Nat /\ hits[i].start \in Nat
  BY <1>1, StartsRise
<1> QED
  BY <1>2, <1>3, PassageAssumption DEF Within

LEMMA FirstWindowShows ==
    ASSUME NEW hits, SortedHits(hits), 1 \in 1 .. Len(hits)
    PROVE  ShowsWindow(hits, 1, NextWindow(hits, 1, NoWindow))
<1> DEFINE w == NextWindow(hits, 1, NoWindow)
<1>1. hits \in Seq([start : Nat, term : Terms]) /\ Len(hits) \in Nat
  BY DEF SortedHits
<1>2. NoWindow \in Windows(Len(hits)) /\ NoWindow.right = 0 /\ \A t \in Terms : NoWindow.counts[t] = 0
  BY <1>1 DEF NoWindow, Windows
<1>3. /\ w \in Windows(Len(hits)) /\ StopsAt(hits, 1, 0, w.right)
      /\ \A t \in Terms : w.counts[t] = 0 + CountOf(hits, t, 1, w.right) - LeftBehind(hits, 1, t)
  <2>1. /\ w \in Windows(Len(hits)) /\ StopsAt(hits, 1, NoWindow.right, w.right)
        /\ \A t \in Terms : w.counts[t] = NoWindow.counts[t]
             + CountOf(hits, t, NoWindow.right + 1, w.right) - LeftBehind(hits, 1, t)
    BY <1>1, <1>2, NextWindowIs
  <2>2. NoWindow.right + 1 = 1
    BY <1>2
  <2> HIDE DEF w
  <2> QED
    BY <1>2, <2>1, <2>2
<1> HIDE DEF w
<1>4. w.right \in 0 .. Len(hits)
  BY <1>3 DEF Windows
<1>5. w.right \in 1 .. Len(hits)
  <2> SUFFICES ASSUME w.right = 0 PROVE FALSE
    BY <1>1, <1>4
  <2>1. ~Within(hits, 1, 1)
    BY <1>1, <1>3 DEF StopsAt
  <2>2. hits[1].start \in Nat
    BY StartsRise
  <2> QED
    BY <2>1, <2>2, PassageAssumption DEF Within
<1>6. \A t \in Terms : w.counts[t] = CountOf(hits, t, 1, w.right)
  <2>1. \A t \in Terms : CountOf(hits, t, 1, w.right) \in Nat
    BY <1>4, CountIs
  <2>2. \A t \in Terms : LeftBehind(hits, 1, t) = 0
    BY DEF LeftBehind
  <2> QED
    BY <1>3, <2>1, <2>2
<1> QED
  BY <1>3, <1>5, <1>6 DEF ShowsWindow, StopsAt, w

LEMMA LaterWindowShows ==
    ASSUME NEW hits, SortedHits(hits), NEW left \in 1 .. Len(hits), left > 1,
           NEW before \in Windows(Len(hits)), ShowsWindow(hits, left - 1, before)
    PROVE  ShowsWindow(hits, left, NextWindow(hits, left, before))
<1> DEFINE w == NextWindow(hits, left, before)
<1>1. hits \in Seq([start : Nat, term : Terms]) /\ Len(hits) \in Nat
  BY DEF SortedHits
<1>2. /\ w \in Windows(Len(hits)) /\ before.right <= w.right
      /\ StopsAt(hits, left, before.right, w.right)
      /\ \A t \in Terms : w.counts[t] =
           before.counts[t] + CountOf(hits, t, before.right + 1, w.right) - LeftBehind(hits, left, t)
  BY <1>1, NextWindowIs
<1> HIDE DEF w
<1>3. w.right \in 0 .. Len(hits) /\ before.right \in left - 1 .. Len(hits)
  BY <1>2 DEF Windows, ShowsWindow
<1>4. w.right \in left .. Len(hits)
  <2> SUFFICES ASSUME w.right < left PROVE FALSE
    BY <1>1, <1>3
  <2>1. w.right + 1 = left /\ w.right < Len(hits)
    BY <1>1, <1>2, <1>3
  <2>2. ~Within(hits, left, left)
    BY <1>2, <2>1 DEF StopsAt
  <2>3. hits[left].start \in Nat
    BY StartsRise
  <2> QED
    BY <2>2, <2>3, PassageAssumption DEF Within
<1>5. ASSUME NEW i \in left .. w.right
      PROVE  Within(hits, left, i)
  <2>1. i \in left .. Len(hits)
    BY <1>3
  <2>2. CASE i <= before.right
    <3>1. Within(hits, left - 1, i)
      BY <1>3, <2>2 DEF ShowsWindow
    <3> QED
      BY <2>1, <3>1, WithinLater
  <2>3. CASE i > before.right
    <3>1. i \in before.right + 1 .. w.right
      BY <1>3, <2>3
    <3> QED
      BY <1>2, <3>1 DEF StopsAt
  <2> QED
    BY <1>3, <2>2, <2>3
<1>6. ASSUME NEW t \in Terms
      PROVE  w.counts[t] = CountOf(hits, t, left, w.right)
  <2>1. before.counts[t] = CountOf(hits, t, left - 1, before.right)
    BY DEF ShowsWindow
  <2>2. left - 1 \in Int /\ left \in Int /\ before.right \in Int /\ w.right \in Int
        /\ (left - 1) + 1 = left
    BY <1>3
  <2>3. CountOf(hits, t, left - 1, before.right)
          = CountOf(hits, t, left - 1, left - 1) + CountOf(hits, t, (left - 1) + 1, before.right)
    BY <1>3, <2>2, CountSplits
  <2>4. CountOf(hits, t, left - 1, left - 1) = LeftBehind(hits, left, t)
    BY <2>2, CountOfOne DEF LeftBehind
  <2>5. CountOf(hits, t, left, w.right)
          = CountOf(hits, t, left, before.right) + CountOf(hits, t, before.right + 1, w.right)
    BY <1>2, <1>3, <2>2, CountSplits
  <2>6. /\ CountOf(hits, t, left, before.right) \in Nat
        /\ CountOf(hits, t, before.right + 1, w.right) \in Nat
    BY <2>2, CountIs
  <2>7. LeftBehind(hits, left, t) \in Nat
    BY DEF LeftBehind
  <2>8. before.counts[t] = LeftBehind(hits, left, t) + CountOf(hits, t, left, before.right)
    BY <2>1, <2>2, <2>3, <2>4
  <2> QED
    BY <1>2, <2>5, <2>6, <2>7, <2>8
<1> QED
  BY <1>2, <1>4, <1>5, <1>6 DEF ShowsWindow, StopsAt, w

(* The slide shows every window.                                           *)
LEMMA SlideShows ==
    ASSUME NEW hits, SortedHits(hits), NEW left \in 1 .. Len(hits)
    PROVE  ShowsWindow(hits, left, Slide(hits)[left])
<1> DEFINE n == Len(hits)
           slide == Slide(hits)
           P == {i \in 0 .. n : i = 0 \/ ShowsWindow(hits, i, slide[i])}
<1>1. hits \in Seq([start : Nat, term : Terms]) /\ n \in Nat
  BY DEF SortedHits
<1>2. /\ slide \in [0 .. n -> Windows(n)] /\ slide[0] = NoWindow
      /\ \A i \in 1 .. n : slide[i] = NextWindow(hits, i, slide[i - 1])
  BY <1>1, SlideIs
<1> HIDE DEF slide
<1>3. 0 \in P
  BY <1>1
<1>4. ASSUME NEW i \in 1 .. n, i - 1 \in P
      PROVE  i \in P
  <2>1. slide[i] = NextWindow(hits, i, slide[i - 1])
    BY <1>2
  <2>2. CASE i = 1
    <3>1. slide[i - 1] = NoWindow
      BY <1>2, <2>2
    <3> QED
      BY <2>1, <2>2, <3>1, FirstWindowShows
  <2>3. CASE i > 1
    <3>1. i - 1 \in 0 .. n /\ i - 1 # 0
      BY <2>3
    <3>2. slide[i - 1] \in Windows(n) /\ ShowsWindow(hits, i - 1, slide[i - 1])
      BY <1>2, <1>4, <3>1
    <3> QED
      BY <2>1, <2>3, <3>2, LaterWindowShows
  <2> QED
    BY <2>2, <2>3
<1>5. \A i \in 0 .. n : i \in P
  <2>1. \A i \in 1 .. n : i - 1 \in P => i \in P
    BY <1>4
  <2> HIDE DEF P, n
  <2> QED
    BY <1>1, <1>3, <2>1, UpTo
<1> QED
  BY <1>1, <1>5 DEF slide

(* The score of a window is what it has to find.                           *)
LEMMA ScoreIsDistinct ==
    ASSUME NEW hits, SortedHits(hits), NEW left \in 1 .. Len(hits)
    PROVE  Score(Slide(hits)[left]) = Distinct(hits, left) /\ Distinct(hits, left) \in Nat
<1> DEFINE w == Slide(hits)[left]
           seen == {t \in Terms : w.counts[t] > 0}
           inside == {k \in left .. Len(hits) : Within(hits, left, k)}
           terms == {hits[j].term : j \in inside}
<1>1. ShowsWindow(hits, left, w)
  BY SlideShows
<1>2. /\ Len(hits) \in Nat /\ \A i \in 1 .. Len(hits) : hits[i].start \in Nat /\ hits[i].term \in Terms
      /\ \A i, j \in 1 .. Len(hits) : i <= j => hits[i].start <= hits[j].start
  BY StartsRise
<1> HIDE DEF w
<1>3. w.right \in left .. Len(hits)
  BY <1>1 DEF ShowsWindow
<1>4. inside = left .. w.right
  <2>1. \A k \in left .. w.right : k \in inside
    BY <1>1, <1>3 DEF ShowsWindow
  <2>2. ASSUME NEW k \in inside, k > w.right
        PROVE  FALSE
    <3>1. w.right + 1 \in 1 .. Len(hits) /\ k \in 1 .. Len(hits) /\ w.right + 1 <= k /\ w.right < Len(hits)
      BY <1>3, <2>2
    <3>2. hits[w.right + 1].start <= hits[k].start
      BY <1>2, <3>1
    <3>3. ~Within(hits, left, w.right + 1) /\ Within(hits, left, k)
      BY <1>1, <3>1 DEF ShowsWindow
    <3>4. hits[w.right + 1].start \in Nat /\ hits[k].start \in Nat /\ hits[left].start \in Nat
      BY <1>2, <3>1
    <3> QED
      BY <3>2, <3>3, <3>4, PassageAssumption DEF Within
  <2> QED
    BY <1>3, <2>1, <2>2
<1>5. ASSUME NEW t \in Terms
      PROVE  w.counts[t] > 0 <=> \E j \in left .. w.right : hits[j].term = t
  <2>1. w.counts[t] = Cardinality(HitsOf(hits, t, left, w.right))
        /\ IsFiniteSet(HitsOf(hits, t, left, w.right)) /\ w.counts[t] \in Nat
    BY <1>1, <1>3, CountIs DEF ShowsWindow
  <2>2. w.counts[t] = 0 <=> HitsOf(hits, t, left, w.right) = {}
    BY <2>1, FS_EmptySet
  <2>3. HitsOf(hits, t, left, w.right) = {} <=> ~\E j \in left .. w.right : hits[j].term = t
    BY DEF HitsOf
  <2> QED
    BY <2>1, <2>2, <2>3
<1>6. \A j \in left .. w.right : hits[j].term \in Terms
  BY <1>2, <1>3
<1>7. seen = terms
  <2> HIDE DEF inside
  <2> QED
    BY <1>4, <1>5, <1>6
<1>8. Cardinality(seen) \in Nat
  <2>1. seen \subseteq Terms /\ IsFiniteSet(Terms)
    BY PassageAssumption
  <2> HIDE DEF seen
  <2> QED
    BY <2>1, FS_Subset, FS_CardinalityType
<1> QED
  BY <1>7, <1>8 DEF Score, Distinct, w
(* The best windows are chosen                                             *)

ScoreOrder(n, slide) == {p \in (1 .. n) \X (1 .. n) : Better(slide, p[1], p[2])}

LEMMA ScoresAreOrdered ==
    ASSUME NEW n \in Nat, NEW slide, \A i \in 1 .. n : Score(slide[i]) \in Nat
    PROVE  StrictOrder(ScoreOrder(n, slide), 1 .. n)
<1>1. \A i, j \in 1 .. n : <<i, j>> \in ScoreOrder(n, slide) <=> Better(slide, i, j)
  BY DEF ScoreOrder
<1>2. \A i \in 1 .. n : ~Better(slide, i, i)
  BY DEF Better
<1>3. \A i, j, k \in 1 .. n : Better(slide, i, j) /\ Better(slide, j, k) => Better(slide, i, k)
  BY DEF Better
<1>4. \A i, j \in 1 .. n : i # j => Better(slide, i, j) \/ Better(slide, j, i)
  BY DEF Better
<1> QED
  BY <1>1, <1>2, <1>3, <1>4 DEF StrictOrder

(* Every window has one place in the ranking, the better ones before it.   *)
Ranks(ranking, n, slide) ==
    /\ ranking \in [1 .. n -> 1 .. n]
    /\ \A i, j \in 1 .. n : i < j => Better(slide, ranking[i], ranking[j])
    /\ \A x \in 1 .. n : \E i \in 1 .. n : ranking[i] = x
    /\ \A i, j \in 1 .. n : ranking[i] = ranking[j] => i = j

LEMMA RankingIs ==
    ASSUME NEW hits, Len(hits) \in Nat, NEW slide,
           \A i \in 1 .. Len(hits) : Score(slide[i]) \in Nat
    PROVE  Ranks(Ranking(hits, slide), Len(hits), slide)
<1> DEFINE n == Len(hits)
           R == ScoreOrder(n, slide)
           Sorts(s) == \A i, j \in 1 .. n : i < j => Better(slide, s[i], s[j])
           ranking == Ranking(hits, slide)
<1>1. StrictOrder(R, 1 .. n) /\ IsFiniteSet(1 .. n) /\ Cardinality(1 .. n) = n /\ n \in Nat
  <2>1. 1 \in Int /\ n \in Int /\ n \in Nat
    OBVIOUS
  <2>2. IsFiniteSet(1 .. n) /\ Cardinality(1 .. n) = n
    <3> HIDE DEF n
    <3>1. IsFiniteSet(1 .. n) /\ Cardinality(1 .. n) = IF 1 > n THEN 0 ELSE n - 1 + 1
      BY <2>1, FS_Interval, Zenon
    <3>2. (IF 1 > n THEN 0 ELSE n - 1 + 1) = n
      BY <2>1
    <3> QED
      BY <3>1, <3>2
  <2> QED
    BY <2>1, <2>2, ScoresAreOrdered
<1>2. \A i, j \in 1 .. n : <<i, j>> \in R <=> Better(slide, i, j)
  BY DEF ScoreOrder
<1> HIDE DEF R, n
<1>3. \E s \in [1 .. n -> 1 .. n] : Sorts(s)
  <2>1. PICK s : Lists(s, 1 .. n, R)
    BY <1>1, SortedExists
  <2>2. s \in [1 .. n -> 1 .. n] /\ \A i, j \in 1 .. n : i < j => <<s[i], s[j]>> \in R
    BY <1>1, <2>1 DEF Lists
  <2>3. \A i \in 1 .. n : s[i] \in 1 .. n
    BY <2>2
  <2>4. Sorts(s)
    BY <1>2, <2>2, <2>3
  <2> QED
    BY <2>2, <2>4
<1>4. ranking \in [1 .. n -> 1 .. n] /\ Sorts(ranking)
  <2>1. ranking = CHOOSE s \in [1 .. n -> 1 .. n] : Sorts(s)
    BY DEF Ranking, n
  <2> HIDE DEF Sorts, ranking
  <2> QED
    BY <1>3, <2>1
<1> HIDE DEF ranking
<1>5. Lists(ranking, 1 .. n, R)
  <2>1. \A i \in 1 .. n : ranking[i] \in 1 .. n
    BY <1>4
  <2>2. \A i, j \in 1 .. n : i < j => <<ranking[i], ranking[j]>> \in R
    BY <1>2, <1>4, <2>1
  <2> QED
    BY <1>1, <1>4, <2>2 DEF Lists
<1>6. Covers(ranking, 1 .. n)
  BY <1>1, <1>5, ListingCovers
<1> QED
  BY <1>1, <1>4, <1>6 DEF Covers, Ranks, ranking, n

Passages(n) == Seq([anchor : 1 .. n, distinct : Nat])

LEMMA ChooseIs ==
    ASSUME NEW hits, NEW n, NEW chosen \in Passages(n), NEW i \in 1 .. n, NEW score \in Nat
    PROVE  Choose(hits, chosen, i, score) \in Passages(n)
<1> DEFINE rows == [anchor : 1 .. n, distinct : Nat]
           row == [anchor |-> i, distinct |-> score]
<1>1. row \in rows
  OBVIOUS
<1>2. Append(chosen, row) \in Seq(rows)
  <2>1. chosen \in Seq(rows)
    BY DEF Passages
  <2> HIDE DEF rows, row
  <2> QED
    BY <1>1, <2>1, AppendProperties
<1>3. Choose(hits, chosen, i, score) = chosen \/ Choose(hits, chosen, i, score) = Append(chosen, row)
  BY DEF Choose
<1> QED
  BY <1>2, <1>3 DEF Passages

(* What is chosen of the first k windows of the ranking.                   *)
ChosenBy(hits, slide, ranking, chosen) ==
    /\ chosen[0] = <<>> /\ BestPassages(hits) = chosen[Len(hits)]
    /\ \A k \in 1 .. Len(hits) : chosen[k] =
         Choose(hits, chosen[k - 1], ranking[k], Score(slide[ranking[k]]))

LEMMA ChosenIs ==
    ASSUME NEW hits \in Seq([start : Nat, term : Terms]), NEW ranking, NEW slide,
           slide = Slide(hits), ranking = Ranking(hits, slide),
           ranking \in [1 .. Len(hits) -> 1 .. Len(hits)],
           \A i \in 1 .. Len(hits) : Score(slide[i]) \in Nat
    PROVE  \E chosen \in [0 .. Len(hits) -> Passages(Len(hits))] :
             ChosenBy(hits, slide, ranking, chosen)
<1> DEFINE n == Len(hits)
           Pick(k, c) == Choose(hits, c, ranking[k], Score(slide[ranking[k]]))
           Body(f) == [k \in 0 .. n |-> IF k = 0 THEN <<>> ELSE Pick(k, f[k - 1])]
           step == [k \in 1 .. n |-> [c \in Passages(n) |-> Pick(k, c)]]
           none == <<>>
<1>1. n \in Nat /\ none \in Passages(n)
  BY DEF Passages
<1>2. ASSUME NEW k \in 1 .. n, NEW c \in Passages(n)
      PROVE  Pick(k, c) \in Passages(n)
  <2>1. ranking[k] \in 1 .. n
    OBVIOUS
  <2>2. Score(slide[ranking[k]]) \in Nat
    BY <2>1
  <2> HIDE DEF n
  <2> QED
    BY <2>1, <2>2, ChooseIs
<1> HIDE DEF n, Pick
<1>3. step \in [1 .. n -> [Passages(n) -> Passages(n)]]
  BY <1>2
<1>4. PICK f \in [0 .. n -> Passages(n)] : f = Recursion(f, n, none, step)
  <2> DEFINE S == Passages(n)
  <2>1. n \in Nat /\ none \in S /\ step \in [1 .. n -> [S -> S]]
    BY <1>1, <1>3
  <2> HIDE DEF step, none, S
  <2>2. \E f \in [0 .. n -> S] : f = Recursion(f, n, none, step)
    BY ONLY <2>1, RecursionExists
  <2> QED
    BY <2>2 DEF S
<1>5. f = Body(f)
  <2>1. \A k \in 1 .. n : f[k - 1] \in Passages(n)
    BY <1>1, <1>4
  <2>2. \A k \in 1 .. n : step[k][f[k - 1]] = Pick(k, f[k - 1])
    BY <2>1
  <2>3. \A k \in 0 .. n : k # 0 => k \in 1 .. n
    BY <1>1
  <2> HIDE DEF step
  <2>4. Recursion(f, n, none, step) = Body(f)
    BY <2>2, <2>3 DEF Recursion
  <2> QED
    BY <1>4, <2>4
<1> DEFINE g == CHOOSE chosen : chosen = Body(chosen)
<1>6. BestPassages(hits) = g[n]
  BY DEF BestPassages, Pick, n
<1>7. g = Body(g)
  <2> HIDE DEF Body
  <2> QED
    BY <1>5
<1> HIDE DEF g
<1>8. g[0] = <<>> /\ \A k \in 1 .. n : g[k] = Pick(k, g[k - 1])
  BY <1>1, <1>7
<1>9. \A k \in 0 .. n : g[k] \in Passages(n)
  <2> DEFINE P == {k \in 0 .. n : g[k] \in Passages(n)}
  <2>1. 0 \in P
    BY <1>1, <1>8
  <2>2. ASSUME NEW k \in 1 .. n, k - 1 \in P
        PROVE  k \in P
    <3>1. g[k - 1] \in Passages(n) /\ k \in 0 .. n
      BY <1>1, <2>2
    <3> QED
      BY <1>2, <1>8, <3>1
  <2>3. \A k \in 0 .. n : k \in P
    <3>1. \A k \in 1 .. n : k - 1 \in P => k \in P
      BY <2>2
    <3> HIDE DEF P
    <3> QED
      BY <1>1, <2>1, <3>1, UpTo
  <2> QED
    BY <2>3
<1>10. g \in [0 .. n -> Passages(n)]
  <2>1. g = [k \in 0 .. n |-> g[k]]
    BY <1>7
  <2> QED
    BY <1>9, <2>1
<1> QED
  BY <1>6, <1>8, <1>10 DEF Pick, n, ChosenBy

(* What has been chosen when the first k windows of the ranking were       *)
(* looked at.                                                              *)
NearChosen(hits, i, chosen) == \E p \in DOMAIN chosen : Near(hits, i, chosen[p].anchor)

NoneAbove(score, chosen) ==
    Len(chosen) = Limit /\ \A p \in DOMAIN chosen : score <= chosen[p].distinct

ChosenBest(hits, slide, ranking, k, chosen) ==
    /\ Len(chosen) <= Limit
    /\ \A p \in DOMAIN chosen :
         /\ chosen[p].distinct = Score(slide[chosen[p].anchor])
         /\ \E q \in 1 .. k : chosen[p].anchor = ranking[q]
    /\ \A p, q \in DOMAIN chosen : p # q => ~Near(hits, chosen[p].anchor, chosen[q].anchor)
    /\ k > 0 => chosen # <<>> /\ chosen[1].anchor = ranking[1]
    /\ \A q \in 1 .. k :
         NearChosen(hits, ranking[q], chosen) \/ NoneAbove(Score(slide[ranking[q]]), chosen)

LEMMA NearBothWays ==
    ASSUME NEW hits, SortedHits(hits), NEW i \in 1 .. Len(hits), NEW j \in 1 .. Len(hits)
    PROVE  Near(hits, i, i) /\ (Near(hits, i, j) => Near(hits, j, i))
<1>1. hits[i].start \in Nat /\ hits[j].start \in Nat
  BY StartsRise
<1> QED
  BY <1>1, PassageAssumption DEF Near

(* The window is refused: it is near one that is chosen, or there are      *)
(* enough, and all of them were before it in the ranking.                  *)
LEMMA RefusingKeepsBest ==
    ASSUME NEW hits, SortedHits(hits), NEW slide, NEW ranking, Ranks(ranking, Len(hits), slide),
           \A i \in 1 .. Len(hits) : Score(slide[i]) \in Nat,
           NEW k \in 1 .. Len(hits), NEW chosen \in Passages(Len(hits)),
           ChosenBest(hits, slide, ranking, k - 1, chosen),
           Len(chosen) = Limit \/ NearChosen(hits, ranking[k], chosen)
    PROVE  ChosenBest(hits, slide, ranking, k, chosen)
<1> DEFINE n == Len(hits)
<1>1. n \in Nat
  BY StartsRise
<1>2. \A p \in DOMAIN chosen : \E q \in 1 .. k : chosen[p].anchor = ranking[q]
  <2>1. \A q \in 1 .. k - 1 : q \in 1 .. k
    OBVIOUS
  <2> QED
    BY <2>1 DEF ChosenBest
<1>3. chosen # <<>> /\ chosen[1].anchor = ranking[1]
  <2>1. CASE k = 1
    <3>1. \A p \in DOMAIN chosen : FALSE
      <4>1. 1 .. k - 1 = {}
        BY <2>1
      <4> QED
        BY <4>1 DEF ChosenBest
    <3>2. Len(chosen) = Limit
      BY <3>1 DEF NearChosen
    <3>3. Len(chosen) \in Nat \ {0} /\ DOMAIN chosen = 1 .. Len(chosen)
      BY <3>2, PassageAssumption DEF Passages
    <3> QED
      BY <3>1, <3>3
  <2>2. CASE k > 1
    <3>1. k - 1 > 0
      BY <2>2
    <3> QED
      BY <3>1 DEF ChosenBest
  <2> QED
    BY <2>1, <2>2
<1>4. NearChosen(hits, ranking[k], chosen) \/ NoneAbove(Score(slide[ranking[k]]), chosen)
  <2> SUFFICES ASSUME Len(chosen) = Limit
               PROVE  NoneAbove(Score(slide[ranking[k]]), chosen)
    OBVIOUS
  <2>1. ASSUME NEW p \in DOMAIN chosen
        PROVE  Score(slide[ranking[k]]) <= chosen[p].distinct
    <3>1. PICK q \in 1 .. k - 1 : chosen[p].anchor = ranking[q]
      BY DEF ChosenBest
    <3>2. q \in 1 .. n /\ q < k /\ ranking[q] \in 1 .. n /\ ranking[k] \in 1 .. n
      <4>1. q \in 1 .. n /\ q < k
        BY <1>1
      <4>2. ranking \in [1 .. n -> 1 .. n]
        BY DEF Ranks
      <4> HIDE DEF n
      <4>3. ranking[q] \in 1 .. n
        BY <4>1, <4>2
      <4>4. k \in 1 .. n
        BY DEF n
      <4>5. ranking[k] \in 1 .. n
        BY <4>2, <4>4
      <4> QED
        BY <4>1, <4>3, <4>5
    <3>3. Better(slide, ranking[q], ranking[k])
      BY <3>2 DEF Ranks
    <3>4. chosen[p].distinct = Score(slide[ranking[q]])
      BY <3>1 DEF ChosenBest
    <3>5. Score(slide[ranking[q]]) \in Nat /\ Score(slide[ranking[k]]) \in Nat
      BY <3>2
    <3> QED
      BY <3>3, <3>4, <3>5 DEF Better
  <2> QED
    BY <2>1 DEF NoneAbove
<1>5. \A q \in 1 .. k : q = k \/ q \in 1 .. k - 1
  OBVIOUS
<1> QED
  BY <1>2, <1>3, <1>4, <1>5 DEF ChosenBest

LEMMA TakingKeepsBest ==
    ASSUME NEW hits, SortedHits(hits), NEW slide, NEW ranking, Ranks(ranking, Len(hits), slide),
           \A i \in 1 .. Len(hits) : Score(slide[i]) \in Nat,
           NEW k \in 1 .. Len(hits), NEW chosen \in Passages(Len(hits)),
           ChosenBest(hits, slide, ranking, k - 1, chosen),
           Len(chosen) # Limit, ~NearChosen(hits, ranking[k], chosen)
    PROVE  ChosenBest(hits, slide, ranking, k,
             Append(chosen, [anchor |-> ranking[k], distinct |-> Score(slide[ranking[k]])]))
<1> DEFINE n == Len(hits)
           m == Len(chosen)
           row == [anchor |-> ranking[k], distinct |-> Score(slide[ranking[k]])]
           more == Append(chosen, row)
<1>1. n \in Nat
  BY StartsRise
<1>2. chosen \in Seq([anchor : 1 .. n, distinct : Nat])
  BY DEF Passages
<1>3. ranking[k] \in 1 .. n /\ Score(slide[ranking[k]]) \in Nat
  BY DEF Ranks
<1>4. /\ m \in Nat /\ DOMAIN chosen = 1 .. m /\ Len(more) = m + 1 /\ DOMAIN more = 1 .. m + 1
      /\ more[m + 1] = row /\ \A p \in 1 .. m : more[p] = chosen[p] /\ chosen[p].anchor \in 1 .. n
  <2> DEFINE rows == [anchor : 1 .. n, distinct : Nat]
  <2>1. chosen \in Seq(rows) /\ row \in rows
    BY <1>2, <1>3
  <2>2. \A x \in rows : x.anchor \in 1 .. n
    OBVIOUS
  <2> HIDE DEF n, row, rows
  <2>3. m \in Nat /\ DOMAIN chosen = 1 .. m /\ \A p \in 1 .. m : chosen[p] \in rows
    BY <2>1, ElementOfSeq
  <2>4. /\ more \in Seq(rows) /\ Len(more) = m + 1 /\ more[m + 1] = row
        /\ \A p \in 1 .. m : more[p] = chosen[p]
    BY <2>1, AppendProperties
  <2>5. DOMAIN more = 1 .. m + 1
    <3> HIDE DEF more
    <3> QED
      BY <2>4
  <2> HIDE DEF m, more
  <2> QED
    BY <2>2, <2>3, <2>4, <2>5
<1>5. row.anchor = ranking[k] /\ row.distinct = Score(slide[ranking[k]])
  OBVIOUS
<1> HIDE DEF m, row, more
<1>6. \A p \in 1 .. m + 1 : p = m + 1 \/ p \in 1 .. m
  BY <1>4
<1>7. Len(more) <= Limit
  <2>1. m <= Limit /\ m # Limit /\ Limit \in Nat
    BY PassageAssumption DEF ChosenBest, m
  <2> QED
    BY <1>4, <2>1
<1>8. \A p \in DOMAIN more : more[p].distinct = Score(slide[more[p].anchor])
  BY <1>4, <1>5, <1>6 DEF ChosenBest
<1>9. \A p \in DOMAIN more : \E q \in 1 .. k : more[p].anchor = ranking[q]
  <2>1. \A q \in 1 .. k - 1 : q \in 1 .. k
    OBVIOUS
  <2> QED
    BY <1>4, <1>5, <1>6, <2>1 DEF ChosenBest
<1>10. \A p, q \in DOMAIN more : p # q => ~Near(hits, more[p].anchor, more[q].anchor)
  <2>1. \A p \in 1 .. m : ~Near(hits, ranking[k], chosen[p].anchor)
    BY <1>4 DEF NearChosen
  <2>2. \A p \in 1 .. m : ~Near(hits, chosen[p].anchor, ranking[k])
    BY <1>3, <1>4, <2>1, NearBothWays
  <2>3. \A p, q \in 1 .. m : p # q => ~Near(hits, chosen[p].anchor, chosen[q].anchor)
    BY <1>4 DEF ChosenBest
  <2> QED
    BY <1>4, <1>5, <1>6, <2>1, <2>2, <2>3
<1>11. more # <<>> /\ more[1].anchor = ranking[1]
  <2>1. more # <<>>
    BY <1>4
  <2>2. CASE k = 1
    <3>1. 1 .. k - 1 = {}
      BY <2>2
    <3>2. \A p \in DOMAIN chosen : FALSE
      BY <3>1 DEF ChosenBest
    <3>3. m = 0
      <4>1. m \in Nat /\ 1 \notin 1 .. m
        BY <1>4, <3>2
      <4> QED
        BY <4>1
    <3> QED
      BY <1>4, <1>5, <2>1, <2>2, <3>3
  <2>3. CASE k > 1
    <3>1. chosen # <<>> /\ chosen[1].anchor = ranking[1]
      <4>1. k - 1 > 0
        BY <2>3
      <4> QED
        BY <4>1 DEF ChosenBest
    <3>2. 1 \in 1 .. m
      BY <1>2, <1>4, <3>1 DEF m
    <3> QED
      BY <1>4, <2>1, <3>1, <3>2
  <2> QED
    BY <2>2, <2>3
<1>12. \A q \in 1 .. k : NearChosen(hits, ranking[q], more)
  <2>1. NearChosen(hits, ranking[k], more)
    BY <1>3, <1>4, <1>5, NearBothWays DEF NearChosen
  <2>2. ASSUME NEW q \in 1 .. k - 1
        PROVE  NearChosen(hits, ranking[q], more)
    <3>1. NearChosen(hits, ranking[q], chosen)
      BY DEF ChosenBest, NoneAbove
    <3>2. PICK p \in 1 .. m : Near(hits, ranking[q], chosen[p].anchor)
      BY <1>4, <3>1 DEF NearChosen
    <3>3. p \in DOMAIN more /\ more[p] = chosen[p]
      BY <1>4
    <3> QED
      BY <3>2, <3>3 DEF NearChosen
  <2>3. \A q \in 1 .. k : q = k \/ q \in 1 .. k - 1
    OBVIOUS
  <2> QED
    BY <2>1, <2>2, <2>3
<1> QED
  BY <1>7, <1>8, <1>9, <1>10, <1>11, <1>12 DEF ChosenBest, more, row

(* The choice, at its end.                                                 *)
LEMMA ChoiceIsBest ==
    ASSUME NEW hits, SortedHits(hits)
    PROVE  LET slide == Slide(hits) ranking == Ranking(hits, slide) IN
           /\ Ranks(ranking, Len(hits), slide)
           /\ BestPassages(hits) \in Passages(Len(hits))
           /\ ChosenBest(hits, slide, ranking, Len(hits), BestPassages(hits))
<1> DEFINE n == Len(hits)
           slide == Slide(hits)
           ranking == Ranking(hits, slide)
<1>1. n \in Nat /\ hits \in Seq([start : Nat, term : Terms])
  BY DEF SortedHits
<1>2. \A i \in 1 .. n : Score(slide[i]) \in Nat
  BY ScoreIsDistinct
<1> HIDE DEF slide
<1>3. Ranks(ranking, n, slide)
  BY <1>1, <1>2, RankingIs
<1> HIDE DEF ranking
<1>4. ranking \in [1 .. n -> 1 .. n]
  BY <1>3 DEF Ranks
<1>5. PICK chosen \in [0 .. n -> Passages(n)] : ChosenBy(hits, slide, ranking, chosen)
  <2>1. slide = Slide(hits) /\ ranking = Ranking(hits, slide)
    BY DEF slide, ranking
  <2> QED
    BY <1>1, <1>2, <1>4, <2>1, ChosenIs
<1> DEFINE P == {k \in 0 .. n : ChosenBest(hits, slide, ranking, k, chosen[k])}
<1>6. 0 \in P
  <2>1. ChosenBest(hits, slide, ranking, 0, <<>>)
    BY PassageAssumption DEF ChosenBest
  <2> QED
    BY <1>1, <1>5, <2>1 DEF ChosenBy
<1>7. ASSUME NEW k \in 1 .. n, k - 1 \in P
      PROVE  k \in P
  <2> DEFINE before == chosen[k - 1]
  <2>1. before \in Passages(n) /\ ChosenBest(hits, slide, ranking, k - 1, before)
    BY <1>1, <1>7
  <2>2. chosen[k] = Choose(hits, before, ranking[k], Score(slide[ranking[k]]))
    BY <1>5 DEF ChosenBy
  <2> HIDE DEF before
  <2>3. CASE Len(before) = Limit \/ NearChosen(hits, ranking[k], before)
    <3>1. chosen[k] = before
      BY <2>2, <2>3 DEF Choose, NearChosen
    <3>2. ChosenBest(hits, slide, ranking, k, before)
      BY <1>2, <1>3, <2>1, <2>3, RefusingKeepsBest
    <3> QED
      BY <3>1, <3>2
  <2>4. CASE Len(before) # Limit /\ ~NearChosen(hits, ranking[k], before)
    <3>1. chosen[k] = Append(before, [anchor |-> ranking[k], distinct |-> Score(slide[ranking[k]])])
      BY <2>2, <2>4 DEF Choose, NearChosen
    <3>2. ChosenBest(hits, slide, ranking, k, chosen[k])
      BY <1>2, <1>3, <2>1, <2>4, <3>1, TakingKeepsBest
    <3> QED
      BY <3>2
  <2> QED
    BY <2>3, <2>4
<1>8. n \in P
  <2>1. \A k \in 1 .. n : k - 1 \in P => k \in P
    BY <1>7
  <2>2. \A k \in 0 .. n : k \in P
    <3> HIDE DEF P, n
    <3> QED
      BY <1>1, <1>6, <2>1, UpTo
  <2> QED
    BY <1>1, <2>2
<1>9. BestPassages(hits) \in Passages(n) /\ ChosenBest(hits, slide, ranking, n, BestPassages(hits))
  BY <1>1, <1>5, <1>8 DEF ChosenBy
<1> QED
  BY <1>3, <1>9 DEF slide, ranking

(* PassagesAreBest, of what is found in these hits.                        *)
BestOf(hits, found) ==
    LET anchors == {found[p].anchor : p \in DOMAIN found} IN
    /\ \A p \in DOMAIN found : found[p].distinct = Distinct(hits, found[p].anchor)
    /\ \A i, j \in anchors : i # j => ~Near(hits, i, j)
    /\ hits # <<>> => \A i \in DOMAIN hits : Distinct(hits, i) <= found[1].distinct
    /\ \A i \in DOMAIN hits :
         (\A j \in anchors : ~Near(hits, i, j)) =>
           /\ Len(found) = Limit
           /\ \A p \in DOMAIN found : Distinct(hits, i) <= found[p].distinct

LEMMA FoundIsBest ==
    ASSUME NEW hits, SortedHits(hits)
    PROVE  BestOf(hits, BestPassages(hits))
<1> DEFINE n == Len(hits)
           slide == Slide(hits)
           ranking == Ranking(hits, slide)
           found == BestPassages(hits)
           anchors == {found[p].anchor : p \in DOMAIN found}
<1>1. n \in Nat /\ hits \in Seq([start : Nat, term : Terms]) /\ DOMAIN hits = 1 .. n
  BY DEF SortedHits
<1>2. \A i \in 1 .. n : Score(slide[i]) = Distinct(hits, i) /\ Distinct(hits, i) \in Nat
  BY ScoreIsDistinct
<1>3. /\ Ranks(ranking, n, slide) /\ found \in Passages(n)
      /\ ChosenBest(hits, slide, ranking, n, found)
  BY ChoiceIsBest
<1> HIDE DEF slide, ranking, found
<1>4. \A p \in DOMAIN found : found[p].anchor \in 1 .. n
  <2> DEFINE rows == [anchor : 1 .. n, distinct : Nat]
  <2>1. \A x \in rows : x.anchor \in 1 .. n
    OBVIOUS
  <2>2. found \in Seq(rows)
    BY <1>3 DEF Passages
  <2> HIDE DEF rows
  <2>3. \A p \in DOMAIN found : found[p] \in rows
    BY <2>2, ElementOfSeq
  <2> QED
    BY <2>1, <2>3
<1>5. \A p \in DOMAIN found : found[p].distinct = Distinct(hits, found[p].anchor)
  BY <1>2, <1>3, <1>4 DEF ChosenBest
<1>6. \A i, j \in anchors : i # j => ~Near(hits, i, j)
  BY <1>3 DEF ChosenBest
<1>7. ASSUME hits # <<>>, NEW i \in 1 .. n
      PROVE  Distinct(hits, i) <= found[1].distinct
  <2>1. n > 0
    BY <1>1, <1>7
  <2>2. found # <<>> /\ found[1].anchor = ranking[1]
    BY <1>3, <2>1 DEF ChosenBest
  <2>3. 1 \in DOMAIN found
    BY <1>3, <2>2 DEF Passages
  <2>4. PICK q \in 1 .. n : ranking[q] = i
    BY <1>3 DEF Ranks
  <2>5. 1 \in 1 .. n /\ ranking[1] \in 1 .. n
    <3>1. ranking \in [1 .. n -> 1 .. n]
      BY <1>3 DEF Ranks
    <3> HIDE DEF n
    <3>2. 1 \in 1 .. n
      BY <1>1, <2>1
    <3> QED
      BY <3>1, <3>2
  <2>6. q = 1 \/ Better(slide, ranking[1], ranking[q])
    BY <1>3, <2>5 DEF Ranks
  <2>7. found[1].distinct = Distinct(hits, ranking[1])
    BY <1>5, <2>2, <2>3
  <2> QED
    BY <1>2, <2>4, <2>5, <2>6, <2>7 DEF Better
<1>8. ASSUME NEW i \in 1 .. n, \A j \in anchors : ~Near(hits, i, j)
      PROVE  /\ Len(found) = Limit
             /\ \A p \in DOMAIN found : Distinct(hits, i) <= found[p].distinct
  <2>1. PICK q \in 1 .. n : ranking[q] = i
    BY <1>3 DEF Ranks
  <2>2. ~NearChosen(hits, ranking[q], found)
    BY <1>8, <2>1 DEF NearChosen
  <2>3. NoneAbove(Score(slide[ranking[q]]), found)
    BY <1>3, <2>2 DEF ChosenBest
  <2> QED
    BY <1>2, <2>1, <2>3 DEF NoneAbove
<1> QED
  BY <1>1, <1>5, <1>6, <1>7, <1>8 DEF BestOf, found

(* A reader who asks gets the best passages.                               *)
PassageInv == occurrences \in HitSets /\ PassagesAreBest

LEMMA PassageInitially == PassageInit => PassageInv
  BY DEF PassageInit, PassageInv, PassagesAreBest

LEMMA LocateKeepsInv ==
    ASSUME PassageInv, [Locate]_passageVars
    PROVE  PassageInv'
<1>1. CASE UNCHANGED passageVars
  <2>1. UNCHANGED <<occurrences, passages>> /\ Hits' = Hits
    BY <1>1 DEF passageVars, Hits
  <2> QED
    BY <2>1 DEF PassageInv, PassagesAreBest
<1>2. CASE Locate
  <2>1. passages' = BestPassages(Hits) /\ occurrences' = occurrences
    BY <1>2 DEF Locate
  <2>2. Hits' = Hits
    BY <2>1 DEF Hits
  <2>3. BestOf(Hits, BestPassages(Hits))
    BY HitsAreSorted, FoundIsBest DEF PassageInv
  <2>4. BestOf(Hits', passages')
    BY <2>1, <2>2, <2>3
  <2>5. PassagesAreBest'
    BY <2>4 DEF PassagesAreBest, BestOf
  <2> QED
    BY <2>1, <2>5 DEF PassageInv
<1> QED
  BY <1>1, <1>2

(* Search tells the truth: for any documents and writers, and any hits,    *)
(* window and limit, a document that the index does not show as it is      *)
(* committed is marked for the next start, and best_passages() answers     *)
(* with windows that say how many terms they show, overlap nowhere, and    *)
(* leave out no window apart from them that shows more.                    *)
THEOREM SearchStaysFaithful == SearchSpec /\ PassageSpec => []SearchIsFaithful
<1>1. SearchSpec => []IndexedOrMarked
  BY IndexIsFaithful
<1>2. PassageInit => PassageInv
  BY PassageInitially
<1>3. PassageInv /\ [Locate]_passageVars => PassageInv'
  BY LocateKeepsInv
<1>4. PassageInv => PassagesAreBest
  BY DEF PassageInv
<1>5. IndexedOrMarked /\ PassagesAreBest => SearchIsFaithful
  BY DEF SearchIsFaithful
<1> QED
  BY <1>1, <1>2, <1>3, <1>4, <1>5, PTL DEF PassageSpec
=============================================================================
