------------------------------- MODULE SavedFacts --------------------------------
(***************************************************************************)
(* The saved facts of one person (chat_profiles.py): chat and the          *)
(* instructions page save, suggest, accept and forget them, each change    *)
(* under a key and for the version that was reviewed; a turn recalls       *)
(* active facts and keeps the versions it has read.  A fact that is        *)
(* forgotten leaves a tombstone with the message it first came from.  The  *)
(* text of a fact is left out.                                             *)
(***************************************************************************)
EXTENDS Naturals, Sequences, FiniteSets

CONSTANTS
    Facts, FactMessages, NoMessage, \* memory ids, the messages facts come from, and a NULL
    FactKeys                    \* idempotency keys, one per request

VARIABLES
    fact,       \* chat_profile_facts
    changes,    \* what has been committed, in order and with its key
    change,     \* the request under each key
    recalled    \* chat_profile_memory_reads of a turn: the version read of each fact

factVars == <<fact, changes, change, recalled>>

NoFact == [state |-> "absent", version |-> 0, source |-> NoMessage, sourceKey |-> NoMessage]
Unsent == [at |-> "unsent", of |-> CHOOSE f \in Facts : TRUE, action |-> "save",
           expected |-> 0, source |-> NoMessage]

FactInit ==
    /\ fact = [f \in Facts |-> NoFact]
    /\ changes = <<>>
    /\ change = [k \in FactKeys |-> Unsent]
    /\ recalled = [f \in Facts |-> 0]

Recorded(k) == \E i \in DOMAIN changes : changes[i].key = k
ChangeGoes(k, place) == change' = [change EXCEPT ![k].at = place]
ChangedFacts == {f \in Facts : fact[f].version > 0}
ActiveFacts == {f \in Facts : fact[f].state = "active"}

-----------------------------------------------------------------------------
(* change_memory()                                                         *)

ForgottenSource(m) ==
    \E f \in Facts : fact[f].state = "forgotten" /\ fact[f].sourceKey = m

(* preflight_memory()                                                      *)
Preflight(asked) ==
    LET current == fact[asked.of] IN
    /\ current.version = asked.expected
    /\ current.state # "forgotten"
    /\ asked.action = "accept" => current.state = "suggested"
    /\ asked.action = "forget" => asked.of \in ChangedFacts
    /\ asked.source # NoMessage => ~ForgottenSource(asked.source)

(* A change is asked for as the fact was when somebody looked at it; for   *)
(* one of the chat, memory_preview() has passed.  (A client that names an  *)
(* older version has looked earlier; one that does not exist is refused.)  *)
AskChange(k, f, action, source) ==
    LET asked == [at |-> "sent", of |-> f, action |-> action, expected |-> fact[f].version,
                  source |-> source]
    IN
    /\ change[k].at = "unsent"
    /\ Preflight(asked)
    /\ change' = [change EXCEPT ![k] = asked]
    /\ UNCHANGED <<fact, changes, recalled>>

StateAfter(action) ==
    CASE action = "forget" -> "forgotten" [] action = "suggest" -> "suggested"
      [] OTHER -> "active"

(* The tombstone keeps the first message the fact came from.               *)
After(current, asked) ==
    [state |-> StateAfter(asked.action),
     version |-> asked.expected + 1,
     source |-> IF asked.action = "forget" THEN NoMessage
                ELSE IF asked.source # NoMessage THEN asked.source ELSE current.source,
     sourceKey |-> IF current.sourceKey # NoMessage THEN current.sourceKey ELSE asked.source]

CommitChange(k) ==
    LET asked == change[k] IN
    /\ fact' = [fact EXCEPT ![asked.of] = After(@, asked)]
    /\ changes' = Append(changes, [key |-> k, of |-> asked.of, action |-> asked.action,
                                   version |-> asked.expected + 1, source |-> asked.source,
                                   had |-> fact[asked.of].source])

RefuseChange(k) == UNCHANGED <<fact, changes>> /\ ChangeGoes(k, "refused")

(* The recorded answer first, to a request that is sent again; then        *)
(* everything is looked at again.                                          *)
ReplayChange(k) ==
    /\ change[k].at = "sent" /\ Recorded(k)
    /\ UNCHANGED factVars

ChangeFact(k) ==
    /\ change[k].at = "sent" /\ ~Recorded(k)
    /\ IF Preflight(change[k]) THEN CommitChange(k) /\ UNCHANGED change ELSE RefuseChange(k)
    /\ UNCHANGED recalled

(* What was refused is not recorded, and may be sent again.                *)
SendAgain(k) ==
    /\ change[k].at = "refused"
    /\ ChangeGoes(k, "sent")
    /\ UNCHANGED <<fact, changes, recalled>>

-----------------------------------------------------------------------------
(* search_memory() of a turn: the query finds some of the active facts.    *)

Recall(found) ==
    /\ found # {} /\ found \subseteq ActiveFacts
    /\ recalled' = [f \in Facts |-> IF f \in found THEN fact[f].version ELSE recalled[f]]
    /\ UNCHANGED <<fact, changes, change>>

(* used_memory()                                                           *)
Used == {f \in ActiveFacts : recalled[f] = fact[f].version}

FactNext ==
    \/ \E k \in FactKeys :
         \/ \E f \in Facts, action \in {"save", "suggest", "accept", "forget"},
               source \in FactMessages \cup {NoMessage} : AskChange(k, f, action, source)
         \/ ReplayChange(k) \/ ChangeFact(k) \/ SendAgain(k)
    \/ \E found \in SUBSET Facts : Recall(found)

FactSpec == FactInit /\ [][FactNext]_factVars

-----------------------------------------------------------------------------
(* Properties.                                                             *)

FactTypeOK ==
    /\ \A f \in Facts : fact[f].state \in {"absent", "active", "suggested", "forgotten"}
    /\ \A k \in FactKeys : change[k].at \in {"unsent", "sent", "refused"}
    /\ \A f \in Facts : recalled[f] \in 0 .. fact[f].version

(* "Stale saves and attempts to reactivate that ID or source fail": after  *)
(* a fact is forgotten nothing changes it, and nothing is saved from the   *)
(* message it first came from, whatever was asked before and whatever is   *)
(* sent again; every version is one change of one key, and nobody is       *)
(* refused a change that was made.                                         *)
ForgottenStaysForgotten ==
    /\ \A i, j \in DOMAIN changes :
         i < j /\ changes[i].action = "forget" =>
           /\ changes[j].of # changes[i].of
           /\ changes[j].source \notin {fact[changes[i].of].sourceKey} \ {NoMessage}
    /\ \A i, j \in DOMAIN changes : changes[i].key = changes[j].key => i = j
    /\ \A f \in Facts :
         fact[f].version = Cardinality({i \in DOMAIN changes : changes[i].of = f})
    /\ \A k \in FactKeys : change[k].at = "refused" => ~Recorded(k)

(* "Inferred facts must be suggestions; they are excluded from recall      *)
(* until accepted": a version that a turn has read was saved or accepted,  *)
(* and a fact that the turn is said to use has not changed since.          *)
OnlyAcceptedIsRecalled ==
    /\ \A f \in Facts : recalled[f] > 0 =>
         \E i \in DOMAIN changes :
           /\ changes[i].of = f /\ changes[i].version = recalled[f]
           /\ changes[i].action \in {"save", "accept"}
    /\ \A f \in Used : \A i \in DOMAIN changes :
         changes[i].of = f => changes[i].version <= recalled[f]

(* The same of the message a fact came from last.  A correction from       *)
(* another message leaves the first one in the tombstone: the message that *)
(* was shown as the source when the fact was forgotten may be saved from   *)
(* again.  No run checks it.                                               *)
LastSourceStaysForgotten ==
    \A i, j \in DOMAIN changes :
      i < j /\ changes[i].action = "forget" /\ changes[i].had # NoMessage =>
        changes[j].source # changes[i].had
=============================================================================
