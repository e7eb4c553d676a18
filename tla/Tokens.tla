-------------------------------- MODULE Tokens --------------------------------
(***************************************************************************)
(* Agent tokens of security.py: issue, rotate, edit, revoke, authenticate  *)
(* and reauthorize.  A rotation reads the old token in one connection and  *)
(* replaces it in a transaction; an edit names the version it was made     *)
(* from; a request under way keeps the grants it was last authorized with. *)
(***************************************************************************)
EXTENDS Naturals, Sequences, FiniteSets

CONSTANTS
    MaxTokens,          \* bound on the token ids, 1 .. MaxTokens
    MaxIssues,          \* bound on the tokens that do not come from a rotation
    Scopes,             \* what may be granted
    Callers,            \* calls that may be under way at once
    MaxTime,            \* bound on the clock; MaxTime + 1 stands for no expiry
    MaxTokenEdits            \* bound on the edits of all tokens

ASSUME TokenAssumption == MaxTokens \in Nat /\ MaxTime \in Nat

VARIABLES
    token,              \* rows of actor_tokens with their token_scopes
    tokenEvents,        \* actor_token_events of each, oldest first
    caller,             \* what a call does, and what it keeps of a token's row
    clock

tokenVars == <<token, tokenEvents, caller, clock>>

Tokens == 1 .. MaxTokens
NoToken == 0
Never == MaxTime + 1            \* no expiry, or one past the clock's bound
AnyScopes == CHOOSE s \in Scopes : TRUE

NoTokenRow == [issued |-> FALSE, scopes |-> AnyScopes, expires |-> Never,
          revoked |-> FALSE, version |-> 1, from |-> NoToken]

Gone == [does |-> "nothing", of |-> NoToken, scopes |-> AnyScopes,
         expires |-> Never, version |-> 1]

TokenInit ==
    /\ token = [t \in Tokens |-> NoTokenRow]
    /\ tokenEvents = [t \in Tokens |-> <<>>]
    /\ caller = [c \in Callers |-> Gone]
    /\ clock = 0

Expired(row) == row.expires # Never /\ row.expires <= clock
Live(t) == token[t].issued /\ ~token[t].revoked

(* Ids are random and never reused; the model numbers them.                *)
Fresh(t) == \A u \in Tokens : token[u].issued <=> u < t

Issued(from) == {t \in Tokens : token[t].issued /\ token[t].from = from}
MayBeEdited == Cardinality({e \in Tokens \X (1 .. MaxTokenEdits) : token[e[1]].version > e[2]}) < MaxTokenEdits

Inserted(scopes, expires, from) ==
    [NoTokenRow EXCEPT !.issued = TRUE, !.scopes = scopes, !.expires = expires, !.from = from]

CallerDoes(c, what) == caller[c].does = what
CallerLeaves(c) == caller' = [caller EXCEPT ![c] = Gone]

-----------------------------------------------------------------------------
(* issue_agent_token()                                                     *)
IssueToken(t, scopes, expires) ==
    /\ Fresh(t) /\ expires > clock
    /\ Cardinality(Issued(NoToken)) < MaxIssues
    /\ token' = [token EXCEPT ![t] = Inserted(scopes, expires, NoToken)]
    /\ UNCHANGED <<tokenEvents, caller, clock>>

(* rotate_token() reads the row; an expired one will get a new lifetime.   *)
ReadRotated(c, t) ==
    /\ CallerDoes(c, "nothing") /\ token[t].issued
    /\ \E expires \in IF Expired(token[t]) THEN clock + 1 .. Never ELSE {token[t].expires} :
         caller' = [caller EXCEPT ![c] =
           [Gone EXCEPT !.does = "rotate", !.of = t, !.scopes = token[t].scopes,
                        !.expires = expires]]
    /\ UNCHANGED <<token, tokenEvents, clock>>

Rotated(c, t) ==
    /\ token' = [token EXCEPT
         ![caller[c].of].revoked = TRUE,
         ![t] = Inserted(caller[c].scopes, caller[c].expires, caller[c].of)]
    /\ CallerLeaves(c)
    /\ UNCHANGED <<tokenEvents, clock>>

ReplaceUnchecked(c, t) ==
    CallerDoes(c, "rotate") /\ Fresh(t) /\ caller[c].expires > clock /\ Rotated(c, t)

(* The transaction of the rotation looks at the old token again.           *)
ReplaceRotated(c, t) ==
    /\ CallerDoes(c, "rotate") /\ Fresh(t)
    /\ caller[c].expires > clock
    /\ ~token[caller[c].of].revoked
    /\ Rotated(c, t)

RefuseRotation(c) ==
    /\ CallerDoes(c, "rotate")
    /\ caller[c].expires <= clock \/ token[caller[c].of].revoked
    /\ CallerLeaves(c)
    /\ UNCHANGED <<token, tokenEvents, clock>>

-----------------------------------------------------------------------------
(* update_token(), by an administrator who has loaded a version            *)
LoadToken(c, t) ==
    /\ CallerDoes(c, "nothing") /\ token[t].issued
    /\ caller' = [caller EXCEPT ![c] =
         [Gone EXCEPT !.does = "edit", !.of = t, !.version = token[t].version]]
    /\ UNCHANGED <<token, tokenEvents, clock>>

Edited(c, scopes, expires) ==
    LET t == caller[c].of  version == token[t].version IN
    /\ token' = [token EXCEPT ![t].scopes = scopes, ![t].expires = expires,
                              ![t].version = version + 1]
    /\ tokenEvents' = [tokenEvents EXCEPT ![t] = Append(@,
         [version |-> version + 1, loaded |-> caller[c].version,
          before |-> token[t].scopes, after |-> scopes])]
    /\ CallerLeaves(c)
    /\ UNCHANGED clock

UpdateToken(c, scopes, expires) ==
    /\ CallerDoes(c, "edit") /\ Live(caller[c].of)
    /\ token[caller[c].of].version = caller[c].version
    /\ expires > clock /\ MayBeEdited
    /\ Edited(c, scopes, expires)

RefuseUpdate(c) ==
    /\ CallerDoes(c, "edit")
    /\ ~Live(caller[c].of) \/ token[caller[c].of].version # caller[c].version
    /\ CallerLeaves(c)
    /\ UNCHANGED <<token, tokenEvents, clock>>

(* revoke_token(): COALESCE keeps the first time.                          *)
RevokeToken(t) ==
    /\ Live(t)
    /\ token' = [token EXCEPT ![t].revoked = TRUE]
    /\ UNCHANGED <<tokenEvents, caller, clock>>

-----------------------------------------------------------------------------
(* authenticate() and reauthorize() hand out the grants of the row.        *)
Authenticate(c, t) ==
    /\ CallerDoes(c, "nothing") /\ Live(t) /\ ~Expired(token[t])
    /\ caller' = [caller EXCEPT ![c] =
         [Gone EXCEPT !.does = "act", !.of = t, !.scopes = token[t].scopes]]
    /\ UNCHANGED <<token, tokenEvents, clock>>

Reauthorize(c) ==
    LET t == caller[c].of IN
    /\ CallerDoes(c, "act")
    /\ IF Live(t) /\ ~Expired(token[t])
       THEN caller' = [caller EXCEPT ![c].scopes = token[t].scopes]
       ELSE CallerLeaves(c)
    /\ UNCHANGED <<token, tokenEvents, clock>>

Tick ==
    /\ clock < MaxTime
    /\ clock' = clock + 1
    /\ UNCHANGED <<token, tokenEvents, caller>>

TokenNext ==
    \/ \E t \in Tokens, scopes \in Scopes, expires \in 1 .. Never :
         IssueToken(t, scopes, expires)
    \/ \E t \in Tokens : RevokeToken(t)
    \/ \E c \in Callers, t \in Tokens :
         ReadRotated(c, t) \/ ReplaceRotated(c, t) \/ LoadToken(c, t) \/ Authenticate(c, t)
    \/ \E c \in Callers, scopes \in Scopes, expires \in 1 .. Never :
         UpdateToken(c, scopes, expires)
    \/ \E c \in Callers : RefuseRotation(c) \/ RefuseUpdate(c) \/ Reauthorize(c)
    \/ Tick

TokenSpec == TokenInit /\ [][TokenNext]_tokenVars

-----------------------------------------------------------------------------
(* Properties.                                                             *)

TokenTypeOK ==
    /\ \A t \in Tokens :
         /\ token[t].scopes \in Scopes
         /\ token[t].version \in 1 .. MaxTokenEdits + 1
         /\ token[t].from \in Tokens \cup {NoToken}
    /\ clock \in 0 .. MaxTime

(* A rotation replaces a token by one other, however many rotations and    *)
(* revocations of it are under way: a token that has been replaced is      *)
(* revoked, and it has one successor, so one live token at most descends   *)
(* from it.                                                                *)
OneSuccessor ==
    \A t \in Tokens :
        /\ Cardinality(Issued(t)) <= 1
        /\ Issued(t) # {} => token[t].revoked

(* The history of a token's edits has no gap and no lost edit: every edit  *)
(* was made from the version it replaced, and ends in what the token has.  *)
EditsAreSerial ==
    \A t \in Tokens :
        /\ Len(tokenEvents[t]) = token[t].version - 1
        /\ \A i \in 1 .. Len(tokenEvents[t]) :
             LET event == tokenEvents[t][i] IN
             /\ event.version = i + 1 /\ event.loaded = i
             /\ event.after = IF i = Len(tokenEvents[t]) THEN token[t].scopes
                              ELSE tokenEvents[t][i + 1].before

(* A token has one successor, and its history is the history of its edits. *)
TokensKeepFaith == OneSuccessor /\ EditsAreSerial
=============================================================================
