--------------------------------- MODULE Backups ---------------------------------
(***************************************************************************)
(* Backup sets: BackupService reserves a name under the request's key in   *)
(* one transaction, BackupManager makes the set in a staging directory,    *)
(* publishes it by a rename, verifies it and applies the retention, and    *)
(* the key is completed in another transaction.  Names sort by the time    *)
(* they were given out, so a name is a number.                             *)
(***************************************************************************)
EXTENDS Naturals, FiniteSets

CONSTANTS
    BackupKeys, BackupCallers,
    MaxNames, Retention     \* names given out, and sets that are kept

ASSUME BackupAssumption == MaxNames \in Nat

VARIABLES
    set,        \* what lies at each name: "none", "published", "verified"
    key,        \* mutation_idempotency_keys
    call,       \* the call of create() each caller is in
    maker,      \* who holds _create_lock
    proven      \* the names whose set has passed its verification

backupVars == <<set, key, call, maker, proven>>

Names == 1 .. MaxNames
Nobody == "nobody"
UnusedKey == [name |-> 0, completed |-> FALSE]
NoBackupCall == [at |-> "away", key |-> Nobody, name |-> 0, completed |-> FALSE]

BackupInit ==
    /\ set = [n \in Names |-> "none"]
    /\ key = [k \in BackupKeys |-> UnusedKey]
    /\ call = [c \in BackupCallers |-> NoBackupCall]
    /\ maker = Nobody
    /\ proven = {}

BackupAt(c, place) == call[c].at = place
BackupGoes(c, place) == call' = [call EXCEPT ![c].at = place]
BackupEnds(c) == call' = [call EXCEPT ![c] = NoBackupCall]
Name(c) == call[c].name
There(n) == set[n] # "none"
Given == {key[k].name : k \in BackupKeys} \ {0}

-----------------------------------------------------------------------------
(* BackupService.create()                                                  *)

(* mutation_record(), and record_mutation() with a name of its own.        *)
ReserveName(c, k) ==
    /\ BackupAt(c, "away")
    /\ key[k].name = 0 => Cardinality(Given) < MaxNames
    /\ key' = IF key[k].name # 0 THEN key
              ELSE [key EXCEPT ![k].name = Cardinality(Given) + 1]
    /\ call' = [call EXCEPT ![c] = [at |-> "reserved", key |-> k,
                                    name |-> key'[k].name, completed |-> key[k].completed]]
    /\ UNCHANGED <<set, maker, proven>>

LookOnly(c) ==
    /\ BackupAt(c, "reserved")
    /\ IF There(Name(c)) THEN BackupGoes(c, "whole")
       ELSE IF call[c].completed THEN BackupEnds(c)
       ELSE BackupGoes(c, "to make")
    /\ UNCHANGED <<set, key, maker, proven>>

(* manager.get(): a set that was made and is gone is not made again.       *)
Look(c) ==
    /\ BackupAt(c, "reserved")
    /\ IF There(Name(c)) THEN BackupGoes(c, "found")
       ELSE IF call[c].completed THEN BackupEnds(c)
       ELSE BackupGoes(c, "to make")
    /\ UNCHANGED <<set, key, maker, proven>>

(* An attempt may have left the set unverified.                            *)
VerifyFound(c) ==
    /\ BackupAt(c, "found")
    /\ IF ~There(Name(c)) THEN UNCHANGED <<set, proven>> /\ BackupEnds(c)
       ELSE IF set[Name(c)] = "verified" THEN UNCHANGED <<set, proven>> /\ BackupGoes(c, "whole")
       ELSE /\ set' = [set EXCEPT ![Name(c)] = "verified"]
            /\ proven' = proven \cup {Name(c)}
            /\ BackupGoes(c, "whole")
    /\ UNCHANGED <<key, maker>>

(* verify() raises, here or under create()'s lock: nothing is removed.     *)
RefuseFound(c) ==
    /\ BackupAt(c, "found") \/ BackupAt(c, "verifying")
    /\ set[Name(c)] # "verified"
    /\ maker' = IF BackupAt(c, "verifying") THEN Nobody ELSE maker
    /\ BackupEnds(c)
    /\ UNCHANGED <<set, key, proven>>

(* complete_mutation()                                                     *)
CompleteKey(c) ==
    /\ BackupAt(c, "whole")
    /\ key' = [key EXCEPT ![call[c].key].completed = TRUE]
    /\ BackupEnds(c)
    /\ UNCHANGED <<set, maker, proven>>

-----------------------------------------------------------------------------
(* BackupManager._create() under its lock                                  *)

TakeLock(c) ==
    /\ BackupAt(c, "to make") /\ maker = Nobody
    /\ maker' = c
    /\ BackupGoes(c, IF There(Name(c)) THEN "verifying" ELSE "staging")
    /\ UNCHANGED <<set, key, proven>>

(* os.replace() of the finished staging directory.                         *)
PublishSet(c) ==
    /\ BackupAt(c, "staging")
    /\ set' = [set EXCEPT ![Name(c)] = "published"]
    /\ BackupGoes(c, "published")
    /\ UNCHANGED <<key, maker, proven>>

(* The archive does not match the database, the disk is full: all of it    *)
(* is removed again.                                                       *)
FailToMake(c) ==
    /\ BackupAt(c, "staging") \/ BackupAt(c, "published") \/ (BackupAt(c, "made") /\ maker = c)
    /\ set' = [set EXCEPT ![Name(c)] = "none"]
    /\ maker' = Nobody
    /\ BackupEnds(c)
    /\ UNCHANGED <<key, proven>>

Verify(c) ==
    /\ BackupAt(c, "published") \/ BackupAt(c, "verifying")
    /\ set' = [set EXCEPT ![Name(c)] = "verified"]
    /\ proven' = proven \cup {Name(c)}
    /\ BackupGoes(c, "made")
    /\ maker' = IF BackupAt(c, "verifying") THEN Nobody ELSE maker
    /\ UNCHANGED key

Listed == {n \in Names : There(n)}
Kept == {n \in Listed : Cardinality({o \in Listed : o > n}) < Retention}

(* _apply_retention(), and the last look at the new set: a name reserved   *)
(* long ago may be beyond the retention by now.                            *)
ApplyRetention(c) ==
    /\ BackupAt(c, "made") /\ maker = c
    /\ set' = [n \in Names |-> IF n \in Kept THEN set[n] ELSE "none"]
    /\ maker' = Nobody
    /\ IF Name(c) \in Kept THEN BackupGoes(c, "found") ELSE BackupEnds(c)
    /\ UNCHANGED <<key, proven>>

ReturnExisting(c) ==
    /\ BackupAt(c, "made") /\ maker # c
    /\ BackupGoes(c, "found")
    /\ UNCHANGED <<set, key, maker, proven>>

(* delete(), and the process that stops: a staging directory has no name.  *)
DeleteBackup(n) ==
    /\ There(n) /\ maker = Nobody
    /\ set' = [set EXCEPT ![n] = "none"]
    /\ UNCHANGED <<key, call, maker, proven>>

BackupCrash ==
    /\ \E c \in BackupCallers : ~BackupAt(c, "away")
    /\ call' = [c \in BackupCallers |-> NoBackupCall]
    /\ maker' = Nobody
    /\ UNCHANGED <<set, key, proven>>

BackupNext ==
    \/ \E c \in BackupCallers :
         \/ \E k \in BackupKeys : ReserveName(c, k)
         \/ Look(c) \/ VerifyFound(c) \/ RefuseFound(c) \/ CompleteKey(c)
         \/ TakeLock(c) \/ PublishSet(c) \/ FailToMake(c) \/ Verify(c)
         \/ ApplyRetention(c) \/ ReturnExisting(c)
    \/ \E n \in Names : DeleteBackup(n)
    \/ BackupCrash

BackupSpec == BackupInit /\ [][BackupNext]_backupVars

-----------------------------------------------------------------------------
(* Properties.                                                             *)

BackupTypeOK ==
    /\ \A n \in Names : set[n] \in {"none", "published", "verified"}
    /\ \A k \in BackupKeys : key[k].name \in 0 .. MaxNames
    /\ maker \in BackupCallers \cup {Nobody}

(* A key that is answered stands for a backup that was verified, through   *)
(* crashes, retries that overlap, deletions, the retention and a name that *)
(* an earlier attempt had published without verifying it.                  *)
AnsweredIsVerified == \A k \in BackupKeys : key[k].completed => key[k].name \in proven
=============================================================================
