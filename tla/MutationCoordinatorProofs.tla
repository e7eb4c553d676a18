---------------------- MODULE MutationCoordinatorProofs ----------------------
(***************************************************************************)
(* What the lock protocol guarantees for any number of threads, any keys   *)
(* and any pipelines whose locks are retained before they are taken.       *)
(***************************************************************************)
EXTENDS MutationCoordinator, LockOrders, OrderLemmas, SequenceTheorems,
        FiniteSetTheorems, TLAPS

ThreadTypes ==
    /\ phase \in [Threads -> {"new", "in", "out"}]
    /\ program \in [Threads -> Seq(Steps)]
    /\ opened \in [Threads -> Nat]
    /\ \A t \in Threads :
          /\ opened[t] <= Len(program[t])
          /\ program[t] = <<>> \/ program[t] \in Pipelines
          /\ phase[t] = "new" => opened[t] = 0

LockTypes ==
    /\ handle \in [Threads -> [Keys -> LockObjects \cup {NoLock}]]
    /\ owner \in [LockObjects -> Threads \cup {Nobody}]
    /\ lockTable \in [Keys -> LockObjects \cup {NoLock}]
    /\ users \in [Keys -> SUBSET (Threads \X Nat)]

(* The counters are integers here; that they stay natural needs BarrierInv. *)
BarrierTypes ==
    /\ activeMutations \in Int
    /\ backupActive \in BOOLEAN
    /\ waitingBackups \in Int
    /\ mutating \in [Threads -> Nat]
    /\ enlisted \in SUBSET Threads
    /\ asleep \in SUBSET Threads

Types == ThreadTypes /\ LockTypes /\ BarrierTypes

-----------------------------------------------------------------------------
(* The steps of a thread are steps, and their keys are keys.               *)

LEMMA StepTypes ==
    ASSUME ThreadTypes, NEW t \in Threads
    PROVE  /\ \A i \in 1..Len(program[t]) : program[t][i] \in Steps
           /\ \A i \in 1..opened[t] : program[t][i] \in Steps
           /\ phase[t] = "in" /\ opened[t] < Len(program[t]) =>
                /\ opened[t] + 1 \in 1..Len(program[t])
                /\ program[t][opened[t] + 1] \in Steps
           /\ opened[t] > 0 => program[t][opened[t]] \in Steps
<1>1. /\ program[t] \in Seq(Steps)
      /\ opened[t] \in Nat
      /\ opened[t] <= Len(program[t])
      /\ Len(program[t]) \in Nat
  BY DEF ThreadTypes
<1>2. \A i \in 1..Len(program[t]) : program[t][i] \in Steps
  BY <1>1
<1>. QED BY <1>1, <1>2

LEMMA StepKeys ==
    ASSUME NEW s \in Steps
    PROVE  /\ s.op \in {"retain", "lock"} => s.key \in Keys
           /\ s.op = "retain" => s = Retain(s.key)
           /\ s.op = "lock" => s = Lock(s.key)
           /\ s.op = "enter" => s = Enter
           /\ s.op = "exclusive" => s = Exclusive
BY DEF Steps, Retain, Lock, Enter, Exclusive

(* What a step on the way in or out does to the thread's own state.        *)
LEMMA OpenStep ==
    ASSUME ThreadTypes, NEW t \in Threads, NEW op, AtStep(t, op), Open(t),
           UNCHANGED <<phase, program>>
    PROVE  /\ ThreadTypes'
           /\ opened[t] + 1 \in 1..Len(program[t])
           /\ program[t][opened[t] + 1] \in Steps
           /\ program[t][opened[t] + 1].op = op
           /\ op \in {"retain", "lock"} => NextKey(t) \in Keys
<1>1. /\ opened[t] + 1 \in 1..Len(program[t])
      /\ program[t][opened[t] + 1] \in Steps
      /\ program[t][opened[t] + 1].op = op
  BY StepTypes DEF AtStep
<1>2. op \in {"retain", "lock"} => NextKey(t) \in Keys
  BY <1>1, StepKeys DEF NextKey
<1>3. ThreadTypes'
  BY <1>1 DEF ThreadTypes, Open, AtStep
<1>. QED BY <1>1, <1>2, <1>3

LEMMA CloseStep ==
    ASSUME ThreadTypes, NEW t \in Threads, NEW op, Closing(t, op)
    PROVE  /\ ThreadTypes'
           /\ UNCHANGED <<phase, program>>
           /\ opened[t] \in 1..Len(program[t])
           /\ program[t][opened[t]] \in Steps
           /\ program[t][opened[t]].op = op
           /\ op \in {"retain", "lock"} => LastKey(t) \in Keys
<1>1. /\ opened[t] \in 1..Len(program[t])
      /\ program[t][opened[t]] \in Steps
      /\ program[t][opened[t]].op = op
  BY StepTypes DEF Closing, ThreadTypes
<1>2. op \in {"retain", "lock"} => LastKey(t) \in Keys
  BY <1>1, StepKeys DEF LastKey
<1>3. ThreadTypes'
  BY <1>1 DEF ThreadTypes, Closing
<1>. QED BY <1>1, <1>2, <1>3 DEF Closing

-----------------------------------------------------------------------------
LEMMA TypesInit == Init => Types
<1> SUFFICES ASSUME Init PROVE Types
  OBVIOUS
<1>1. <<>> \in Seq(Steps) /\ Len(<<>>) = 0
  OBVIOUS
<1>2. program \in [Threads -> Seq(Steps)]
  BY <1>1 DEF Init
<1>3. \A t \in Threads : opened[t] <= Len(program[t])
  BY <1>1 DEF Init
<1>4. ThreadTypes
  BY <1>2, <1>3 DEF Init, ThreadTypes
<1>5. LockTypes
  <2>1. handle \in [Threads -> [Keys -> LockObjects \cup {NoLock}]]
    BY DEF Init
  <2>2. users \in [Keys -> SUBSET (Threads \X Nat)]
    BY DEF Init
  <2>. QED BY <2>1, <2>2 DEF Init, LockTypes
<1>6. BarrierTypes
  <2>1. backupActive \in BOOLEAN
    BY DEF Init
  <2>2. enlisted \in SUBSET Threads /\ asleep \in SUBSET Threads
    BY DEF Init
  <2>. QED BY <2>1, <2>2 DEF Init, BarrierTypes
<1>. QED BY <1>4, <1>5, <1>6 DEF Types

LEMMA TypesStart ==
    ASSUME Types, NEW t \in Threads, Start(t)
    PROVE  Types'
<1>1. PICK p \in Pipelines : program' = [program EXCEPT ![t] = p]
  BY DEF Start
<1>2. p \in Seq(Steps) /\ Len(p) \in Nat
  BY CoordinatorAssumption
<1>3. opened' = opened /\ opened[t] = 0
  BY DEF Start, Types, ThreadTypes
<1>4. phase' \in [Threads -> {"new", "in", "out"}]
      /\ \A u \in Threads : phase'[u] = "new" => phase[u] = "new"
  BY DEF Start, Types, ThreadTypes
<1>5. program' \in [Threads -> Seq(Steps)]
  BY <1>1, <1>2 DEF Types, ThreadTypes
<1>6. \A u \in Threads : /\ opened'[u] <= Len(program'[u])
                         /\ program'[u] = <<>> \/ program'[u] \in Pipelines
  BY <1>1, <1>2, <1>3 DEF Types, ThreadTypes
<1>7. ThreadTypes'
  BY <1>3, <1>4, <1>5, <1>6 DEF Types, ThreadTypes
<1>. QED BY <1>7 DEF Start, Types, LockTypes, BarrierTypes, lockVars, barrierVars

LEMMA TypesWayIn ==
    ASSUME Types, NEW t \in Threads, WayIn(t)
    PROVE  Types'
<1>1. CASE RetainLock(t)
  <2>1. ThreadTypes' /\ NextKey(t) \in Keys
    BY <1>1, OpenStep DEF RetainLock, Types
  <2>2. lockTable' \in [Keys -> LockObjects \cup {NoLock}]
    <3>1. CASE UNCHANGED lockTable
      BY <3>1 DEF Types, LockTypes
    <3>2. CASE FreshLocks # {} /\ lockTable' = [lockTable EXCEPT
                          ![NextKey(t)] = CHOOSE o \in FreshLocks : TRUE]
      <4>1. (CHOOSE o \in FreshLocks : TRUE) \in LockObjects
        BY <3>2 DEF FreshLocks
      <4>. QED BY <3>2, <4>1, <2>1 DEF Types, LockTypes
    <3>. QED BY <1>1, <3>1, <3>2 DEF RetainLock
  <2>3. handle' \in [Threads -> [Keys -> LockObjects \cup {NoLock}]]
    BY <1>1, <2>1, <2>2 DEF RetainLock, Types, LockTypes
  <2>4. users' \in [Keys -> SUBSET (Threads \X Nat)]
    BY <1>1, <2>1 DEF RetainLock, Types, LockTypes, ThreadTypes
  <2>. QED BY <1>1, <2>1, <2>2, <2>3, <2>4
           DEF RetainLock, Types, LockTypes, BarrierTypes, barrierVars
<1>2. CASE TakeLock(t)
  <2>1. ThreadTypes' /\ NextKey(t) \in Keys
    BY <1>2, OpenStep DEF TakeLock, Types
  <2>. QED BY <1>2, <2>1 DEF TakeLock, Types, LockTypes, BarrierTypes, barrierVars
<1>3. CASE PassGeneration(t)
  <2>1. ThreadTypes'
    BY <1>3, OpenStep DEF PassGeneration, Types
  <2>. QED BY <1>3, <2>1 DEF PassGeneration, Types, LockTypes, BarrierTypes,
                             lockVars, barrierVars
<1>4. CASE EnterGeneration(t)
  <2>1. ThreadTypes'
    BY <1>4, OpenStep DEF EnterGeneration, Types
  <2>2. mutating' \in [Threads -> Nat]
    BY <1>4 DEF EnterGeneration, Types, ThreadTypes, BarrierTypes
  <2>. QED BY <1>4, <2>1, <2>2
           DEF EnterGeneration, Types, LockTypes, BarrierTypes, lockVars
<1>5. CASE OwnExclusive(t)
  <2>1. ThreadTypes'
    BY <1>5, OpenStep DEF OwnExclusive, Types
  <2>. QED BY <1>5, <2>1
           DEF OwnExclusive, Types, LockTypes, BarrierTypes, lockVars
<1>6. CASE AwaitGeneration(t)
  BY <1>6 DEF AwaitGeneration, Types, ThreadTypes, LockTypes, BarrierTypes,
              threadVars, lockVars
<1>7. CASE AwaitExclusive(t)
  BY <1>7 DEF AwaitExclusive, Types, ThreadTypes, LockTypes, BarrierTypes,
              threadVars, lockVars
<1>8. CASE Body(t)
  BY <1>8 DEF Body, Types, ThreadTypes, LockTypes, BarrierTypes, lockVars,
              barrierVars
<1>. QED BY <1>1, <1>2, <1>3, <1>4, <1>5, <1>6, <1>7, <1>8 DEF WayIn

LEMMA TypesWayOut ==
    ASSUME Types, NEW t \in Threads, WayOut(t)
    PROVE  Types'
<1>1. CASE ReleaseLock(t)
  <2>1. ThreadTypes' /\ LastKey(t) \in Keys
    BY <1>1, CloseStep DEF ReleaseLock, Types
  <2>2. owner' \in [LockObjects -> Threads \cup {Nobody}]
    BY <1>1, <2>1 DEF ReleaseLock, Types, LockTypes
  <2>. QED BY <1>1, <2>1, <2>2
           DEF ReleaseLock, Types, LockTypes, BarrierTypes, barrierVars
<1>2. CASE ReleaseRetained(t)
  <2>1. ThreadTypes' /\ LastKey(t) \in Keys
    BY <1>2, CloseStep DEF ReleaseRetained, Types
  <2>2. lockTable' \in [Keys -> LockObjects \cup {NoLock}]
    BY <1>2, <2>1 DEF ReleaseRetained, Types, LockTypes
  <2>3. handle' \in [Threads -> [Keys -> LockObjects \cup {NoLock}]]
    BY <1>2, <2>1 DEF ReleaseRetained, Types, LockTypes
  <2>4. users' \in [Keys -> SUBSET (Threads \X Nat)]
    BY <1>2, <2>1 DEF ReleaseRetained, Types, LockTypes
  <2>. QED BY <1>2, <2>1, <2>2, <2>3, <2>4
           DEF ReleaseRetained, Types, LockTypes, BarrierTypes, barrierVars
<1>3. CASE LeaveGeneration(t)
  <2>1. ThreadTypes'
    BY <1>3, CloseStep DEF LeaveGeneration, Types
  <2>. QED BY <1>3, <2>1
           DEF LeaveGeneration, Types, LockTypes, BarrierTypes, lockVars
<1>4. CASE LeavePassed(t)
  <2>1. ThreadTypes'
    BY <1>4, CloseStep DEF LeavePassed, Types
  <2>. QED BY <1>4, <2>1
           DEF LeavePassed, Types, LockTypes, BarrierTypes, lockVars, barrierVars
<1>5. CASE ReleaseExclusive(t)
  <2>1. ThreadTypes'
    BY <1>5, CloseStep DEF ReleaseExclusive, Types
  <2>. QED BY <1>5, <2>1
           DEF ReleaseExclusive, Types, LockTypes, BarrierTypes, lockVars
<1>. QED BY <1>1, <1>2, <1>3, <1>4, <1>5 DEF WayOut

LEMMA TypesNext == Types /\ [Next]_vars => Types'
<1> SUFFICES ASSUME Types, [Next]_vars PROVE Types'
  OBVIOUS
<1>1. CASE UNCHANGED vars
  BY <1>1 DEF Types, ThreadTypes, LockTypes, BarrierTypes, vars, threadVars,
              lockVars, barrierVars
<1>2. CASE Next
  BY <1>2, TypesStart, TypesWayIn, TypesWayOut DEF Next
<1>. QED BY <1>1, <1>2

-----------------------------------------------------------------------------
(* How the steps in force change.                                          *)

LEMMA HeldOpen ==
    ASSUME ThreadTypes, NEW t \in Threads, NEW op, AtStep(t, op), Open(t),
           UNCHANGED program, NEW u \in Threads, NEW s
    PROVE  Held(u, s)' = IF u = t /\ program[t][opened[t] + 1] = s
                            THEN Held(u, s) \cup {opened[t] + 1}
                            ELSE Held(u, s)
<1>1. opened[t] \in Nat /\ opened' = [opened EXCEPT ![t] = opened[t] + 1]
      /\ program' = program
  BY DEF ThreadTypes, Open
<1>2. CASE u = t
  <2>1. opened'[u] = opened[t] + 1
    BY <1>1, <1>2 DEF ThreadTypes
  <2>. QED BY <1>1, <1>2, <2>1 DEF Held
<1>3. CASE u # t
  BY <1>1, <1>3 DEF Held, ThreadTypes
<1>. QED BY <1>2, <1>3

LEMMA HeldClose ==
    ASSUME ThreadTypes, NEW t \in Threads, NEW op, Closing(t, op),
           NEW u \in Threads, NEW s
    PROVE  Held(u, s)' = IF u = t THEN Held(u, s) \ {opened[t]} ELSE Held(u, s)
<1>1. opened[t] \in Nat /\ opened' = [opened EXCEPT ![t] = opened[t] - 1]
      /\ program' = program /\ opened[t] > 0
  BY DEF ThreadTypes, Closing
<1>2. CASE u = t
  <2>1. opened'[u] = opened[t] - 1
    BY <1>1, <1>2 DEF ThreadTypes
  <2>. QED BY <1>1, <1>2, <2>1 DEF Held
<1>3. CASE u # t
  BY <1>1, <1>3 DEF Held, ThreadTypes
<1>. QED BY <1>2, <1>3

LEMMA HeldStart ==
    ASSUME ThreadTypes, NEW t \in Threads, Start(t), NEW u \in Threads, NEW s
    PROVE  Held(u, s)' = Held(u, s)
<1>1. opened' = opened /\ opened[t] = 0
  BY DEF Start, ThreadTypes
<1>2. CASE u = t
  BY <1>1, <1>2 DEF Held
<1>3. CASE u # t
  BY <1>1, <1>3 DEF Start, Held, ThreadTypes
<1>. QED BY <1>2, <1>3

LEMMA HeldSame ==
    ASSUME UNCHANGED <<program, opened>>, NEW u, NEW s
    PROVE  Held(u, s)' = Held(u, s)
BY DEF Held

-----------------------------------------------------------------------------
(* The generation barrier.  The exclusion alone is not inductive: that a   *)
(* backup waits for the last mutation rests on _active_mutations counting  *)
(* the threads whose _local.mutating is set, and on each of them leaving   *)
(* by the very block that entered.                                         *)

Mutators == {t \in Threads : mutating[t] # 0}

CountsMutators == activeMutations = Cardinality(Mutators)

CountsWaiters == waitingBackups = Cardinality(enlisted)

EntersByEnter ==
    \A t \in Threads : mutating[t] # 0 =>
        /\ mutating[t] \in 1..opened[t]
        /\ program[t][mutating[t]] = Enter

OneHolder ==
    \A t, u \in Threads : \A i \in Held(t, Exclusive), j \in Held(u, Exclusive) :
        t = u /\ i = j

HolderIsFlagged == backupActive <=> \E t \in Threads : HoldsExclusive(t)

HolderIsAlone == backupActive => Mutators = {}

BarrierInv ==
    /\ CountsMutators /\ CountsWaiters /\ EntersByEnter
    /\ OneHolder /\ HolderIsFlagged /\ HolderIsAlone

LEMMA FiniteCounts ==
    ASSUME Types
    PROVE  /\ IsFiniteSet(Mutators)
           /\ Cardinality(Mutators) \in Nat
           /\ Cardinality(Mutators) = 0 <=> Mutators = {}
           /\ IsFiniteSet(enlisted)
           /\ Cardinality(enlisted) \in Nat
<1>1. Mutators \subseteq Threads /\ enlisted \subseteq Threads
  BY DEF Mutators, Types, BarrierTypes
<1>2. IsFiniteSet(Threads)
  BY CoordinatorAssumption
<1>3. IsFiniteSet(Mutators) /\ IsFiniteSet(enlisted)
  BY <1>1, <1>2, FS_Subset
<1>. QED BY <1>3, FS_CardinalityType, FS_EmptySet

LEMMA BarrierInit == Init => BarrierInv
<1> SUFFICES ASSUME Init PROVE BarrierInv
  OBVIOUS
<1>1. Mutators = {} /\ enlisted = {}
  BY DEF Init, Mutators
<1>2. \A t \in Threads : \A s : Held(t, s) = {}
  BY DEF Init, Held
<1>3. CountsMutators /\ CountsWaiters
  BY <1>1, FS_EmptySet DEF Init, CountsMutators, CountsWaiters
<1>4. EntersByEnter
  BY DEF Init, EntersByEnter
<1>5. OneHolder /\ HolderIsFlagged /\ HolderIsAlone
  BY <1>1, <1>2 DEF Init, OneHolder, HolderIsFlagged, HolderIsAlone, HoldsExclusive
<1>. QED BY <1>3, <1>4, <1>5 DEF BarrierInv

(* A step that leaves the barrier's variables and the exclusive steps in   *)
(* force alone.                                                            *)
LEMMA BarrierFrame ==
    ASSUME Types, BarrierInv,
           UNCHANGED <<activeMutations, backupActive, waitingBackups, mutating,
                       enlisted>>,
           \A t \in Threads : Held(t, Exclusive)' = Held(t, Exclusive),
           EntersByEnter'
    PROVE  BarrierInv'
<1>1. Mutators' = Mutators
  BY DEF Mutators
<1>2. \A t \in Threads : HoldsExclusive(t)' <=> HoldsExclusive(t)
  BY DEF HoldsExclusive
<1>3. CountsMutators' /\ CountsWaiters'
  BY <1>1 DEF BarrierInv, CountsMutators, CountsWaiters
<1>4. OneHolder'
  BY DEF BarrierInv, OneHolder
<1>5. HolderIsFlagged' /\ HolderIsAlone'
  BY <1>1, <1>2 DEF BarrierInv, HolderIsFlagged, HolderIsAlone
<1>. QED BY <1>3, <1>4, <1>5 DEF BarrierInv

LEMMA EntersOpen ==
    ASSUME ThreadTypes, EntersByEnter, NEW t \in Threads, NEW op,
           AtStep(t, op), Open(t), UNCHANGED <<program, mutating>>
    PROVE  EntersByEnter'
BY DEF ThreadTypes, EntersByEnter, Open

LEMMA EntersClose ==
    ASSUME ThreadTypes, EntersByEnter, NEW t \in Threads, NEW op,
           Closing(t, op), op = "enter" => mutating[t] # opened[t],
           UNCHANGED mutating
    PROVE  EntersByEnter'
<1>1. UNCHANGED program /\ opened[t] \in 1..Len(program[t])
      /\ program[t][opened[t]].op = op
  BY CloseStep
<1>2. mutating[t] # 0 => mutating[t] # opened[t]
  BY <1>1 DEF EntersByEnter, Enter
<1>. QED BY <1>1, <1>2 DEF ThreadTypes, EntersByEnter, Closing

LEMMA BarrierWayIn ==
    ASSUME Types, BarrierInv, NEW t \in Threads, WayIn(t)
    PROVE  BarrierInv'
<1>. USE DEF Types
<1>1. CASE RetainLock(t)
  <2>1. program[t][opened[t] + 1] # Exclusive
    BY <1>1, OpenStep DEF RetainLock, Exclusive
  <2>2. \A u \in Threads : Held(u, Exclusive)' = Held(u, Exclusive)
    BY <1>1, <2>1, HeldOpen DEF RetainLock
  <2>3. EntersByEnter'
    BY <1>1, EntersOpen DEF RetainLock, BarrierInv, barrierVars
  <2>. QED BY <1>1, <2>2, <2>3, BarrierFrame DEF RetainLock, barrierVars
<1>2. CASE TakeLock(t)
  <2>1. program[t][opened[t] + 1] # Exclusive
    BY <1>2, OpenStep DEF TakeLock, Exclusive
  <2>2. \A u \in Threads : Held(u, Exclusive)' = Held(u, Exclusive)
    BY <1>2, <2>1, HeldOpen DEF TakeLock
  <2>3. EntersByEnter'
    BY <1>2, EntersOpen DEF TakeLock, BarrierInv, barrierVars
  <2>. QED BY <1>2, <2>2, <2>3, BarrierFrame DEF TakeLock, barrierVars
<1>3. CASE PassGeneration(t)
  <2>1. program[t][opened[t] + 1] # Exclusive
    BY <1>3, OpenStep DEF PassGeneration, Exclusive
  <2>2. \A u \in Threads : Held(u, Exclusive)' = Held(u, Exclusive)
    BY <1>3, <2>1, HeldOpen DEF PassGeneration
  <2>3. EntersByEnter'
    BY <1>3, EntersOpen DEF PassGeneration, BarrierInv, barrierVars
  <2>. QED BY <1>3, <2>2, <2>3, BarrierFrame DEF PassGeneration, barrierVars
<1>4. CASE EnterGeneration(t)
  <2>1. /\ opened[t] + 1 \in 1..Len(program[t])
        /\ program[t][opened[t] + 1] = Enter
    BY <1>4, OpenStep, StepKeys DEF EnterGeneration
  <2>2. \A u \in Threads : Held(u, Exclusive)' = Held(u, Exclusive)
    BY <1>4, <2>1, HeldOpen DEF EnterGeneration, Enter, Exclusive
  <2>3. Mutators' = Mutators \cup {t} /\ t \notin Mutators
    BY <1>4 DEF EnterGeneration, Mutators, BarrierTypes, ThreadTypes
  <2>4. activeMutations' = Cardinality(Mutators')
    BY <1>4, <2>3, FiniteCounts, FS_AddElement
    DEF EnterGeneration, BarrierInv, CountsMutators
  <2>5. EntersByEnter'
    BY <1>4, <2>1 DEF EnterGeneration, EntersByEnter, BarrierInv, ThreadTypes,
                      BarrierTypes, Open
  <2>6. ~backupActive' /\ UNCHANGED <<backupActive, waitingBackups, enlisted>>
    BY <1>4 DEF EnterGeneration, GenerationClosed
  <2>7. OneHolder' /\ HolderIsFlagged' /\ HolderIsAlone'
    BY <2>2, <2>6 DEF BarrierInv, OneHolder, HolderIsFlagged, HolderIsAlone,
                      HoldsExclusive
  <2>. QED BY <2>4, <2>5, <2>6, <2>7 DEF BarrierInv, CountsMutators, CountsWaiters
<1>5. CASE AwaitGeneration(t)
  <2>1. \A u \in Threads : Held(u, Exclusive)' = Held(u, Exclusive)
    BY <1>5, HeldSame DEF AwaitGeneration, threadVars
  <2>2. EntersByEnter'
    BY <1>5 DEF AwaitGeneration, threadVars, BarrierInv, EntersByEnter
  <2>. QED BY <1>5, <2>1, <2>2, BarrierFrame DEF AwaitGeneration
<1>6. CASE AwaitExclusive(t)
  <2>1. \A u \in Threads : Held(u, Exclusive)' = Held(u, Exclusive)
    BY <1>6, HeldSame DEF AwaitExclusive, threadVars
  <2>2. EntersByEnter' /\ Mutators' = Mutators
    BY <1>6 DEF AwaitExclusive, threadVars, BarrierInv, EntersByEnter, Mutators
  <2>3. CountsWaiters'
    BY <1>6, FiniteCounts, FS_AddElement
    DEF AwaitExclusive, BarrierInv, CountsWaiters
  <2>4. OneHolder' /\ HolderIsFlagged' /\ HolderIsAlone' /\ CountsMutators'
    BY <1>6, <2>1, <2>2
    DEF AwaitExclusive, BarrierInv, OneHolder, HolderIsFlagged, HolderIsAlone,
        HoldsExclusive, CountsMutators
  <2>. QED BY <2>2, <2>3, <2>4 DEF BarrierInv
<1>7. CASE OwnExclusive(t)
  <2>1. /\ opened[t] + 1 \in 1..Len(program[t])
        /\ program[t][opened[t] + 1] = Exclusive
    BY <1>7, OpenStep, StepKeys DEF OwnExclusive
  <2>2. \A u \in Threads : Held(u, Exclusive)' =
            IF u = t THEN Held(u, Exclusive) \cup {opened[t] + 1}
                     ELSE Held(u, Exclusive)
    BY <1>7, <2>1, HeldOpen DEF OwnExclusive
  <2>3. \A u \in Threads : Held(u, Exclusive) = {}
    BY <1>7 DEF OwnExclusive, GenerationBusy, BarrierInv, HolderIsFlagged,
                HoldsExclusive
  <2>4. OneHolder'
    BY <2>2, <2>3 DEF OneHolder
  <2>5. HolderIsFlagged'
    BY <1>7, <2>2 DEF OwnExclusive, HolderIsFlagged, HoldsExclusive
  <2>6. Mutators = {} /\ Mutators' = Mutators
    BY <1>7, FiniteCounts
    DEF OwnExclusive, GenerationBusy, BarrierInv, CountsMutators, Mutators,
        BarrierTypes
  <2>7. CountsMutators' /\ HolderIsAlone'
    BY <1>7, <2>6 DEF OwnExclusive, BarrierInv, CountsMutators, HolderIsAlone
  <2>8. CountsWaiters'
    BY <1>7, FiniteCounts, FS_RemoveElement
    DEF OwnExclusive, BarrierInv, CountsWaiters
  <2>9. EntersByEnter'
    BY <1>7, EntersOpen DEF OwnExclusive, BarrierInv
  <2>. QED BY <2>4, <2>5, <2>7, <2>8, <2>9 DEF BarrierInv
<1>8. CASE Body(t)
  <2>1. \A u \in Threads : Held(u, Exclusive)' = Held(u, Exclusive)
    BY <1>8, HeldSame DEF Body
  <2>2. EntersByEnter'
    BY <1>8 DEF Body, barrierVars, BarrierInv, EntersByEnter
  <2>. QED BY <1>8, <2>1, <2>2, BarrierFrame DEF Body, barrierVars
<1>. QED BY <1>1, <1>2, <1>3, <1>4, <1>5, <1>6, <1>7, <1>8 DEF WayIn

LEMMA BarrierWayOut ==
    ASSUME Types, BarrierInv, NEW t \in Threads, WayOut(t)
    PROVE  BarrierInv'
<1>. USE DEF Types
<1>0. ASSUME NEW op, Closing(t, op), op # "exclusive"
      PROVE  \A u \in Threads : Held(u, Exclusive)' = Held(u, Exclusive)
  <2>1. program[t][opened[t]] # Exclusive
    BY <1>0, CloseStep DEF Exclusive
  <2>2. opened[t] \notin Held(t, Exclusive)
    BY <2>1 DEF Held
  <2>. QED BY <1>0, <2>2, HeldClose
<1>1. CASE ReleaseLock(t)
  <2>1. EntersByEnter'
    BY <1>1, EntersClose DEF ReleaseLock, barrierVars, BarrierInv
  <2>. QED BY <1>0, <1>1, <2>1, BarrierFrame DEF ReleaseLock, barrierVars
<1>2. CASE ReleaseRetained(t)
  <2>1. EntersByEnter'
    BY <1>2, EntersClose DEF ReleaseRetained, barrierVars, BarrierInv
  <2>. QED BY <1>0, <1>2, <2>1, BarrierFrame DEF ReleaseRetained, barrierVars
<1>3. CASE LeaveGeneration(t)
  <2>1. \A u \in Threads : Held(u, Exclusive)' = Held(u, Exclusive)
    BY <1>0, <1>3 DEF LeaveGeneration
  <2>2. Mutators' = Mutators \ {t} /\ t \in Mutators
    BY <1>3, CloseStep DEF LeaveGeneration, Mutators, BarrierTypes
  <2>3. activeMutations' = Cardinality(Mutators')
    BY <1>3, <2>2, FiniteCounts, FS_RemoveElement
    DEF LeaveGeneration, BarrierInv, CountsMutators
  <2>4. EntersByEnter'
    BY <1>3 DEF LeaveGeneration, Closing, EntersByEnter, BarrierInv,
                ThreadTypes, BarrierTypes
  <2>5. OneHolder' /\ HolderIsFlagged' /\ HolderIsAlone'
    BY <1>3, <2>1, <2>2
    DEF LeaveGeneration, BarrierInv, OneHolder, HolderIsFlagged, HolderIsAlone,
        HoldsExclusive
  <2>. QED BY <1>3, <2>3, <2>4, <2>5
           DEF LeaveGeneration, BarrierInv, CountsMutators, CountsWaiters
<1>4. CASE LeavePassed(t)
  <2>1. EntersByEnter'
    BY <1>4, EntersClose DEF LeavePassed, barrierVars, BarrierInv
  <2>. QED BY <1>0, <1>4, <2>1, BarrierFrame DEF LeavePassed, barrierVars
<1>5. CASE ReleaseExclusive(t)
  <2>1. /\ opened[t] \in 1..Len(program[t])
        /\ program[t][opened[t]] = Exclusive
    BY <1>5, CloseStep, StepKeys DEF ReleaseExclusive
  <2>2. opened[t] \in Held(t, Exclusive)
    BY <2>1 DEF Held, ThreadTypes
  <2>3. \A u \in Threads : Held(u, Exclusive)' = {}
    <3> SUFFICES ASSUME NEW u \in Threads PROVE Held(u, Exclusive)' = {}
      OBVIOUS
    <3>1. Held(u, Exclusive)' = IF u = t THEN Held(u, Exclusive) \ {opened[t]}
                                         ELSE Held(u, Exclusive)
      BY <1>5, HeldClose DEF ReleaseExclusive
    <3>2. \A j \in Held(u, Exclusive) : t = u /\ j = opened[t]
      BY <2>2 DEF BarrierInv, OneHolder
    <3>. QED BY <3>1, <3>2
  <2>4. OneHolder' /\ HolderIsFlagged' /\ HolderIsAlone'
    BY <1>5, <2>3 DEF ReleaseExclusive, OneHolder, HolderIsFlagged,
                      HolderIsAlone, HoldsExclusive
  <2>5. EntersByEnter'
    BY <1>5, EntersClose DEF ReleaseExclusive, BarrierInv
  <2>. QED BY <1>5, <2>4, <2>5
           DEF ReleaseExclusive, BarrierInv, CountsMutators, CountsWaiters,
               Mutators
<1>. QED BY <1>1, <1>2, <1>3, <1>4, <1>5 DEF WayOut

LEMMA BarrierNext == Types /\ BarrierInv /\ [Next]_vars => BarrierInv'
<1> SUFFICES ASSUME Types, BarrierInv, [Next]_vars PROVE BarrierInv'
  OBVIOUS
<1>1. CASE UNCHANGED vars
  <2>1. \A u \in Threads : Held(u, Exclusive)' = Held(u, Exclusive)
    BY <1>1, HeldSame DEF vars, threadVars
  <2>2. EntersByEnter'
    BY <1>1 DEF vars, threadVars, barrierVars, BarrierInv, EntersByEnter
  <2>. QED BY <1>1, <2>1, <2>2, BarrierFrame DEF vars, barrierVars
<1>2. ASSUME NEW t \in Threads, Start(t) PROVE BarrierInv'
  <2>1. \A u \in Threads : Held(u, Exclusive)' = Held(u, Exclusive)
    BY <1>2, HeldStart DEF Types
  <2>2. EntersByEnter'
    <3>1. opened' = opened /\ mutating' = mutating /\ opened[t] = 0
      BY <1>2 DEF Start, barrierVars, Types, ThreadTypes
    <3>2. \A u \in Threads : u # t => program'[u] = program[u]
      BY <1>2 DEF Start, Types, ThreadTypes
    <3>. QED BY <3>1, <3>2 DEF BarrierInv, EntersByEnter
  <2>. QED BY <1>2, <2>1, <2>2, BarrierFrame DEF Start, barrierVars
<1>3. ASSUME NEW t \in Threads, WayIn(t) \/ WayOut(t) PROVE BarrierInv'
  BY <1>3, BarrierWayIn, BarrierWayOut
<1>. QED BY <1>1, <1>2, <1>3 DEF Next

-----------------------------------------------------------------------------
(* Type correctness: in particular neither counter of the barrier ever     *)
(* drops below zero, whatever the order in which blocks are left.          *)
THEOREM TypeCorrect == Spec => []TypeOK
<1>1. Init => Types /\ BarrierInv
  BY TypesInit, BarrierInit
<1>2. (Types /\ BarrierInv) /\ [Next]_vars => (Types /\ BarrierInv)'
  BY TypesNext, BarrierNext
<1>3. Types /\ BarrierInv => TypeOK
  <2> SUFFICES ASSUME Types, BarrierInv PROVE TypeOK
    OBVIOUS
  <2>1. activeMutations \in Nat /\ waitingBackups \in Nat
    BY FiniteCounts DEF BarrierInv, CountsMutators, CountsWaiters
  <2>2. backupActive \in BOOLEAN
    BY DEF Types, BarrierTypes
  <2>. QED BY <2>1, <2>2 DEF Types, ThreadTypes, LockTypes, BarrierTypes, TypeOK
<1>. QED BY <1>1, <1>2, <1>3, PTL DEF Spec

LEMMA BarrierExcludes ==
    ASSUME Types, BarrierInv
    PROVE  BackupSeesNoMutation
<1> SUFFICES ASSUME NEW t \in Threads, NEW u \in Threads, HoldsExclusive(t)
             PROVE  mutating[u] = 0 /\ (HoldsExclusive(u) => u = t)
  BY DEF BackupSeesNoMutation
<1>1. backupActive /\ Mutators = {}
  BY DEF BarrierInv, HolderIsFlagged, HolderIsAlone
<1>2. mutating[u] = 0
  BY <1>1 DEF Mutators
<1>3. HoldsExclusive(u) => u = t
  BY DEF BarrierInv, OneHolder, HoldsExclusive
<1>. QED BY <1>2, <1>3

(* A backup, or a folder rename, never runs beside a mutation or beside    *)
(* another of its kind.                                                    *)
THEOREM BackupIsAlone == Spec => []BackupSeesNoMutation
<1>1. Init => Types /\ BarrierInv
  BY TypesInit, BarrierInit
<1>2. (Types /\ BarrierInv) /\ [Next]_vars => (Types /\ BarrierInv)'
  BY TypesNext, BarrierNext
<1>3. Types /\ BarrierInv => BackupSeesNoMutation
  BY BarrierExcludes
<1>. QED BY <1>1, <1>2, <1>3, PTL DEF Spec

-----------------------------------------------------------------------------
(* A sleeper stays where it sleeps, and what it waits for only stops being *)
(* the case in a step that notifies the condition.                         *)
Waits(s) ==
    \/ AtStep(s, "enter") /\ mutating[s] = 0 /\ GenerationClosed
    \/ AtStep(s, "exclusive") /\ GenerationBusy

SleepersWait == \A s \in asleep : Waits(s)

LEMMA WakeupNext ==
    Types /\ BarrierInv /\ SleepersWait /\ [Next]_vars => SleepersWait'
<1> SUFFICES ASSUME Types, BarrierInv, SleepersWait, [Next]_vars,
                    NEW s \in Threads, s \in asleep'
             PROVE  Waits(s)'
  <2>1. Types /\ [Next]_vars => asleep' \subseteq Threads
    BY TypesNext DEF Types, BarrierTypes
  <2>. QED BY <2>1 DEF SleepersWait
<1>0. /\ activeMutations \in Nat
      /\ waitingBackups \in Nat
      /\ backupActive \in BOOLEAN
  <2>1. activeMutations \in Nat /\ waitingBackups \in Nat
    BY FiniteCounts DEF BarrierInv, CountsMutators, CountsWaiters
  <2>. QED BY <2>1 DEF Types, BarrierTypes
<1>. USE DEF Types
<1>1. ASSUME s \in asleep,
             UNCHANGED <<phase[s], program[s], opened[s], mutating[s]>>,
             GenerationClosed => GenerationClosed', GenerationBusy => GenerationBusy'
      PROVE  Waits(s)'
  BY <1>1 DEF SleepersWait, Waits, AtStep
<1>2. ASSUME s \in asleep, UNCHANGED <<phase[s], program[s], opened[s]>>,
             UNCHANGED <<activeMutations, backupActive, waitingBackups, mutating>>
      PROVE  Waits(s)'
  BY <1>1, <1>2 DEF GenerationClosed, GenerationBusy
<1>3. CASE UNCHANGED vars
  BY <1>2, <1>3 DEF vars, threadVars, barrierVars
<1>4. ASSUME NEW t \in Threads, Start(t) PROVE Waits(s)'
  <2>1. s \in asleep /\ s # t
    BY <1>4 DEF Start, barrierVars, SleepersWait, Waits, AtStep
  <2>. QED BY <1>2, <1>4, <2>1 DEF Start, barrierVars, ThreadTypes
<1>5. ASSUME NEW t \in Threads, WayIn(t) PROVE Waits(s)'
  <2>1. CASE RetainLock(t) \/ TakeLock(t) \/ PassGeneration(t) \/ Body(t)
    <3>1. s \in asleep
      BY <2>1 DEF RetainLock, TakeLock, PassGeneration, Body, barrierVars
    <3>2. s # t
      BY <2>1, <3>1
      DEF RetainLock, TakeLock, PassGeneration, Body, SleepersWait, Waits, AtStep
    <3>. QED BY <1>2, <2>1, <3>1, <3>2
             DEF RetainLock, TakeLock, PassGeneration, Body, barrierVars, Open,
                 ThreadTypes
  <2>2. CASE EnterGeneration(t)
    <3>1. s \in asleep /\ s # t
      BY <2>2 DEF EnterGeneration
    <3>2. UNCHANGED <<phase[s], program[s], opened[s], mutating[s]>>
      BY <2>2, <3>1 DEF EnterGeneration, Open, ThreadTypes, BarrierTypes
    <3>3. ~GenerationClosed /\ GenerationBusy'
      BY <2>2, <1>0 DEF EnterGeneration, GenerationBusy
    <3>. QED BY <1>1, <3>1, <3>2, <3>3
  <2>3. CASE AwaitGeneration(t)
    <3>1. UNCHANGED <<phase, program, opened, mutating>>
      BY <2>3 DEF AwaitGeneration, threadVars
    <3>2. GenerationClosed' /\ (GenerationBusy => GenerationBusy')
      BY <2>3 DEF AwaitGeneration, GenerationClosed, GenerationBusy
    <3>3. s = t => (AtStep(s, "enter") /\ mutating[s] = 0)'
      BY <2>3, <3>1 DEF AwaitGeneration, AtStep
    <3>. QED BY <1>1, <2>3, <3>1, <3>2, <3>3 DEF AwaitGeneration, Waits
  <2>4. CASE AwaitExclusive(t)
    <3>1. UNCHANGED <<phase, program, opened, mutating>>
      BY <2>4 DEF AwaitExclusive, threadVars
    <3>2. GenerationBusy' /\ (GenerationClosed => GenerationClosed')
      BY <2>4, <1>0 DEF AwaitExclusive, GenerationClosed, GenerationBusy
    <3>3. s = t => AtStep(s, "exclusive")'
      BY <2>4, <3>1 DEF AwaitExclusive, AtStep
    <3>. QED BY <1>1, <2>4, <3>1, <3>2, <3>3 DEF AwaitExclusive, Waits
  <2>5. CASE OwnExclusive(t)
    <3>1. s \in asleep /\ s # t
      BY <2>5 DEF OwnExclusive
    <3>2. UNCHANGED <<phase[s], program[s], opened[s], mutating[s]>>
      BY <2>5, <3>1 DEF OwnExclusive, Open, ThreadTypes
    <3>3. GenerationClosed' /\ GenerationBusy'
      BY <2>5 DEF OwnExclusive, GenerationClosed, GenerationBusy
    <3>. QED BY <1>1, <3>1, <3>2, <3>3
  <2>. QED BY <1>5, <2>1, <2>2, <2>3, <2>4, <2>5 DEF WayIn
<1>6. ASSUME NEW t \in Threads, WayOut(t) PROVE Waits(s)'
  <2>1. ASSUME NEW op, Closing(t, op), s \in asleep
        PROVE  t # s /\ UNCHANGED <<phase[s], program[s], opened[s]>>
    <3>1. t # s
      BY <2>1 DEF Closing, SleepersWait, Waits, AtStep
    <3>. QED BY <2>1, <3>1 DEF Closing, ThreadTypes
  <2>2. CASE ReleaseLock(t) \/ ReleaseRetained(t) \/ LeavePassed(t)
    <3>1. UNCHANGED barrierVars
      BY <2>2 DEF ReleaseLock, ReleaseRetained, LeavePassed
    <3>2. UNCHANGED <<phase[s], program[s], opened[s]>>
      BY <2>1, <2>2, <3>1 DEF ReleaseLock, ReleaseRetained, LeavePassed, barrierVars
    <3>. QED BY <1>2, <3>1, <3>2 DEF barrierVars
  <2>3. CASE LeaveGeneration(t)
    <3>1. s \in asleep /\ activeMutations' # 0
      BY <2>3 DEF LeaveGeneration
    <3>2. t # s /\ UNCHANGED <<phase[s], program[s], opened[s]>>
      BY <2>1, <2>3, <3>1 DEF LeaveGeneration
    <3>3. UNCHANGED <<mutating[s], backupActive, waitingBackups>>
      BY <2>3, <3>2 DEF LeaveGeneration, BarrierTypes
    <3>4. activeMutations' > 0
      <4>1. t \in Mutators
        BY <2>3, CloseStep DEF LeaveGeneration, Mutators, BarrierTypes
      <4>2. activeMutations # 0
        BY <4>1, FiniteCounts DEF BarrierInv, CountsMutators
      <4>. QED BY <2>3, <3>1, <4>2, <1>0 DEF LeaveGeneration
    <3>5. GenerationBusy' /\ (GenerationClosed => GenerationClosed')
      BY <3>3, <3>4 DEF GenerationBusy, GenerationClosed
    <3>. QED BY <1>1, <3>1, <3>2, <3>3, <3>5
  <2>4. CASE ReleaseExclusive(t)
    BY <2>4 DEF ReleaseExclusive
  <2>. QED BY <1>6, <2>2, <2>3, <2>4 DEF WayOut
<1>. QED BY <1>3, <1>4, <1>5, <1>6 DEF Next

(* No wake-up is lost: notifying only when the last mutation leaves, and   *)
(* when a structural operation ends, is enough.                            *)
THEOREM NoWakeupLost == Spec => []NoLostWakeup
<1>1. Init => Types /\ BarrierInv /\ SleepersWait
  BY TypesInit, BarrierInit DEF Init, SleepersWait
<1>2. (Types /\ BarrierInv /\ SleepersWait) /\ [Next]_vars
         => (Types /\ BarrierInv /\ SleepersWait)'
  BY TypesNext, BarrierNext, WakeupNext
<1>3. SleepersWait => NoLostWakeup
  BY DEF SleepersWait, Waits, NoLostWakeup
<1>. QED BY <1>1, <1>2, <1>3, PTL DEF Spec

-----------------------------------------------------------------------------
(* The condition variable, the counters and the re-entrant passes of       *)
(* mutations.py implement the abstract barrier.                            *)

Holders == {t \in Threads : HoldsExclusive(t)}

LEMMA HoldersFrame ==
    ASSUME \A u \in Threads : Held(u, Exclusive)' = Held(u, Exclusive),
           UNCHANGED mutating
    PROVE  UNCHANGED <<Mutators, Holders>>
BY DEF Mutators, Holders, HoldsExclusive

AbstractNext ==
    \E t \in Threads :
        \/ Holders = {} /\ t \notin Mutators
           /\ Mutators' = Mutators \cup {t} /\ UNCHANGED Holders
        \/ t \in Mutators /\ Mutators' = Mutators \ {t} /\ UNCHANGED Holders
        \/ Mutators = {} /\ Holders = {} /\ Holders' = {t} /\ UNCHANGED Mutators
        \/ Holders = {t} /\ Holders' = {} /\ UNCHANGED Mutators

AbstractStep == AbstractNext \/ UNCHANGED <<Mutators, Holders>>

LEMMA RefinesWayIn ==
    ASSUME Types, BarrierInv, NEW t \in Threads, WayIn(t)
    PROVE  AbstractStep
<1>. USE DEF Types
<1>0. ASSUME NEW op, AtStep(t, op), Open(t), UNCHANGED <<phase, program, mutating>>,
             op # "exclusive"
      PROVE  UNCHANGED <<Mutators, Holders>>
  <2>1. program[t][opened[t] + 1] # Exclusive
    BY <1>0, OpenStep DEF Exclusive
  <2>2. \A u \in Threads : Held(u, Exclusive)' = Held(u, Exclusive)
    BY <1>0, <2>1, HeldOpen
  <2>. QED BY <1>0, <2>2, HoldersFrame
<1>1. CASE RetainLock(t)
  BY <1>0, <1>1 DEF RetainLock, barrierVars, AbstractStep
<1>2. CASE TakeLock(t)
  BY <1>0, <1>2 DEF TakeLock, barrierVars, AbstractStep
<1>3. CASE PassGeneration(t)
  BY <1>0, <1>3 DEF PassGeneration, barrierVars, AbstractStep
<1>4. CASE EnterGeneration(t)
  <2>1. program[t][opened[t] + 1] # Exclusive
    BY <1>4, OpenStep DEF EnterGeneration, Exclusive
  <2>2. \A u \in Threads : Held(u, Exclusive)' = Held(u, Exclusive)
    BY <1>4, <2>1, HeldOpen DEF EnterGeneration
  <2>3. Holders' = Holders
    BY <2>2 DEF Holders, HoldsExclusive
  <2>4. Holders = {}
    BY <1>4 DEF EnterGeneration, GenerationClosed, Holders, BarrierInv,
                HolderIsFlagged
  <2>5. Mutators' = Mutators \cup {t} /\ t \notin Mutators
    BY <1>4 DEF EnterGeneration, Mutators, BarrierTypes, ThreadTypes
  <2>. QED BY <2>3, <2>4, <2>5 DEF AbstractStep, AbstractNext
<1>5. CASE AwaitGeneration(t)
  BY <1>5, HeldSame, HoldersFrame DEF AwaitGeneration, threadVars, AbstractStep
<1>6. CASE AwaitExclusive(t)
  BY <1>6, HeldSame, HoldersFrame DEF AwaitExclusive, threadVars, AbstractStep
<1>7. CASE OwnExclusive(t)
  <2>1. program[t][opened[t] + 1] = Exclusive
    BY <1>7, OpenStep, StepKeys DEF OwnExclusive
  <2>2. \A u \in Threads : Held(u, Exclusive)' =
            IF u = t THEN Held(u, Exclusive) \cup {opened[t] + 1}
                     ELSE Held(u, Exclusive)
    BY <1>7, <2>1, HeldOpen DEF OwnExclusive
  <2>3. \A u \in Threads : Held(u, Exclusive) = {}
    BY <1>7 DEF OwnExclusive, GenerationBusy, BarrierInv, HolderIsFlagged,
                HoldsExclusive
  <2>4. Holders = {} /\ Holders' = {t}
    BY <2>2, <2>3 DEF Holders, HoldsExclusive
  <2>5. Mutators = {}
    BY <1>7, FiniteCounts
    DEF OwnExclusive, GenerationBusy, BarrierInv, CountsMutators, BarrierTypes
  <2>6. Mutators' = Mutators
    BY <1>7 DEF OwnExclusive, Mutators
  <2>. QED BY <2>4, <2>5, <2>6 DEF AbstractStep, AbstractNext
<1>8. CASE Body(t)
  BY <1>8, HeldSame, HoldersFrame DEF Body, barrierVars, AbstractStep
<1>. QED BY <1>1, <1>2, <1>3, <1>4, <1>5, <1>6, <1>7, <1>8 DEF WayIn

LEMMA RefinesWayOut ==
    ASSUME Types, BarrierInv, NEW t \in Threads, WayOut(t)
    PROVE  AbstractStep
<1>. USE DEF Types
<1>0. ASSUME NEW op, Closing(t, op), op # "exclusive"
      PROVE  \A u \in Threads : Held(u, Exclusive)' = Held(u, Exclusive)
  <2>1. program[t][opened[t]] # Exclusive
    BY <1>0, CloseStep DEF Exclusive
  <2>2. opened[t] \notin Held(t, Exclusive)
    BY <2>1 DEF Held
  <2>. QED BY <1>0, <2>2, HeldClose
<1>1. CASE ReleaseLock(t)
  BY <1>0, <1>1, HoldersFrame DEF ReleaseLock, barrierVars, AbstractStep
<1>2. CASE ReleaseRetained(t)
  BY <1>0, <1>2, HoldersFrame DEF ReleaseRetained, barrierVars, AbstractStep
<1>3. CASE LeaveGeneration(t)
  <2>1. \A u \in Threads : Held(u, Exclusive)' = Held(u, Exclusive)
    BY <1>0, <1>3 DEF LeaveGeneration
  <2>2. Mutators' = Mutators \ {t} /\ t \in Mutators
    BY <1>3, CloseStep DEF LeaveGeneration, Mutators, BarrierTypes
  <2>3. Holders' = Holders
    BY <2>1 DEF Holders, HoldsExclusive
  <2>. QED BY <2>2, <2>3 DEF AbstractStep, AbstractNext
<1>4. CASE LeavePassed(t)
  BY <1>0, <1>4, HoldersFrame DEF LeavePassed, barrierVars, AbstractStep
<1>5. CASE ReleaseExclusive(t)
  <2>1. /\ opened[t] \in 1..Len(program[t])
        /\ program[t][opened[t]] = Exclusive
    BY <1>5, CloseStep, StepKeys DEF ReleaseExclusive
  <2>2. opened[t] \in Held(t, Exclusive)
    BY <2>1 DEF Held, ThreadTypes
  <2>3. \A u \in Threads : \A j \in Held(u, Exclusive) : u = t /\ j = opened[t]
    BY <2>2 DEF BarrierInv, OneHolder
  <2>4. Holders = {t}
    BY <2>2, <2>3 DEF Holders, HoldsExclusive
  <2>5. \A u \in Threads : Held(u, Exclusive)' = {}
    BY <1>5, <2>3, HeldClose DEF ReleaseExclusive
  <2>6. Holders' = {}
    BY <2>5 DEF Holders, HoldsExclusive
  <2>7. Mutators' = Mutators
    BY <1>5 DEF ReleaseExclusive, Mutators
  <2>. QED BY <2>4, <2>6, <2>7 DEF AbstractStep, AbstractNext
<1>. QED BY <1>1, <1>2, <1>3, <1>4, <1>5 DEF WayOut

(* Every behaviour of the coordinator is one of the abstract barrier.      *)
THEOREM ImplementsBarrier == Spec => BarrierSpec
<1>1. Init => Types /\ BarrierInv
  BY TypesInit, BarrierInit
<1>2. (Types /\ BarrierInv) /\ [Next]_vars => (Types /\ BarrierInv)'
  BY TypesNext, BarrierNext
<1>3. Init => Barrier!Init
  BY DEF Init, Barrier!Init, HoldsExclusive, Held
<1>4. Types /\ BarrierInv /\ [Next]_vars => [Barrier!Next]_(Barrier!vars)
  <2> SUFFICES ASSUME Types, BarrierInv, [Next]_vars
               PROVE  [Barrier!Next]_(Barrier!vars)
    OBVIOUS
  <2>1. ASSUME NEW t \in Threads, Start(t) PROVE UNCHANGED <<Mutators, Holders>>
    BY <2>1, HeldStart, HoldersFrame DEF Start, barrierVars, Types
  <2>2. ASSUME AbstractStep PROVE [Barrier!Next]_(Barrier!vars)
    BY <2>2 DEF AbstractStep, AbstractNext, Mutators, Holders, Barrier!Next,
                Barrier!vars, Barrier!Mutate, Barrier!EndMutation, Barrier!Own,
                Barrier!Disown
  <2>3. AbstractStep
    <3>1. CASE UNCHANGED vars
      <4>1. \A u \in Threads : Held(u, Exclusive)' = Held(u, Exclusive)
        BY <3>1, HeldSame DEF vars, threadVars
      <4>. QED BY <3>1, <4>1, HoldersFrame DEF vars, barrierVars, AbstractStep
    <3>2. CASE Next
      BY <3>2, <2>1, RefinesWayIn, RefinesWayOut DEF Next, AbstractStep
    <3>. QED BY <3>1, <3>2
  <2>. QED BY <2>2, <2>3
<1>. QED BY <1>1, <1>2, <1>3, <1>4, PTL DEF Spec, BarrierSpec, Barrier!Spec

-----------------------------------------------------------------------------
(* The refcounted lock tables of mutations.py: although a key's lock       *)
(* object is dropped with its last user and created anew for the next one, *)
(* no two threads ever own the lock of one key.                            *)

(* Ownership is not inductive by itself: it needs every block to hold the  *)
(* object the table names, which needs the refcount to be the set of       *)
(* blocks, which needs distinct keys to have distinct objects.             *)
HandlesCurrent ==
    \A t \in Threads, k \in Keys : Retained(t, k) =>
        /\ lockTable[k] \in LockObjects
        /\ handle[t][k] = lockTable[k]

UsersCounted ==
    \A t \in Threads, k \in Keys, i \in Nat :
        <<t, i>> \in users[k] <=> i \in Held(t, Retain(k))

EntryUsed == \A k \in Keys : lockTable[k] # NoLock => users[k] # {}

OneKeyPerLock ==
    \A j, k \in Keys : lockTable[j] = lockTable[k] /\ lockTable[k] # NoLock
                          => j = k

OwnersOwn ==
    \A t \in Threads, k \in Keys : Locked(t, k) => owner[handle[t][k]] = t

LockInv ==
    /\ HandlesCurrent /\ UsersCounted /\ EntryUsed /\ OneKeyPerLock /\ OwnersOwn

-----------------------------------------------------------------------------
LEMMA LockedIsRetained ==
    ASSUME ThreadTypes, NEW t \in Threads, NEW k
    PROVE  /\ Locked(t, k) => Retained(t, k)
           /\ AtStep(t, "lock") => Retained(t, NextKey(t))
<1>1. ASSUME NEW i \in 1..Len(program[t]), i <= opened[t] + 1,
             program[t][i].op = "lock"
      PROVE  Retained(t, program[t][i].key)
  <2>1. program[t] \in Pipelines
    <3>1. program[t] # <<>>
      BY <1>1
    <3>. QED BY <3>1 DEF ThreadTypes
  <2>2. PICK j \in 1..(i - 1) : program[t][j] = Retain(program[t][i].key)
    BY <1>1, <2>1, CoordinatorAssumption
  <2>3. j \in Held(t, Retain(program[t][i].key))
    BY <1>1, <2>2 DEF Held, ThreadTypes
  <2>. QED BY <2>3 DEF Retained
<1>2. ASSUME Locked(t, k) PROVE Retained(t, k)
  <2>1. PICK i \in 1..opened[t] : program[t][i] = Lock(k)
    BY <1>2 DEF Locked, Held
  <2>2. i \in 1..Len(program[t]) /\ i <= opened[t] + 1
    BY <2>1 DEF ThreadTypes
  <2>3. program[t][i].op = "lock" /\ program[t][i].key = k
    BY <2>1 DEF Lock
  <2>. QED BY <1>1, <2>2, <2>3
<1>3. ASSUME AtStep(t, "lock") PROVE Retained(t, NextKey(t))
  <2>1. opened[t] + 1 \in 1..Len(program[t])
    BY <1>3, StepTypes DEF AtStep
  <2>. QED BY <1>1, <1>3, <2>1 DEF AtStep, NextKey, ThreadTypes
<1>. QED BY <1>2, <1>3

LEMMA LockedAreRetained ==
    ThreadTypes => \A t \in Threads, k \in Keys : Locked(t, k) => Retained(t, k)
BY LockedIsRetained

LEMMA LockedAreRetainedNext ==
    (ThreadTypes => \A t \in Threads, k \in Keys : Locked(t, k) => Retained(t, k))'
BY LockedAreRetained, PTL

LEMMA LockInit == Init => LockInv
<1> SUFFICES ASSUME Init PROVE LockInv
  OBVIOUS
<1>1. \A t \in Threads : \A s : Held(t, s) = {}
  BY DEF Init, Held
<1>2. \A k \in Keys : lockTable[k] = NoLock /\ users[k] = {}
  BY DEF Init
<1>. QED BY <1>1, <1>2 DEF LockInv, HandlesCurrent, UsersCounted, EntryUsed,
                           OneKeyPerLock, OwnersOwn, Retained, Locked

(* Steps that neither touch the tables nor take or release a lock.         *)
LEMMA LockFrame ==
    ASSUME Types, LockInv, UNCHANGED lockVars,
           \A t \in Threads, k \in Keys :
              /\ Held(t, Retain(k))' = Held(t, Retain(k))
              /\ Held(t, Lock(k))' = Held(t, Lock(k))
    PROVE  LockInv'
<1>1. \A t \in Threads, k \in Keys : /\ Retained(t, k)' <=> Retained(t, k)
                                     /\ Locked(t, k)' <=> Locked(t, k)
  BY DEF Retained, Locked
<1>2. HandlesCurrent' /\ OwnersOwn'
  BY <1>1 DEF LockInv, HandlesCurrent, OwnersOwn, lockVars
<1>3. UsersCounted'
  BY DEF LockInv, UsersCounted, lockVars
<1>4. EntryUsed' /\ OneKeyPerLock'
  BY DEF LockInv, EntryUsed, OneKeyPerLock, lockVars
<1>. QED BY <1>2, <1>3, <1>4 DEF LockInv

LEMMA LockRetain ==
    ASSUME Types, LockInv, NEW t \in Threads, RetainLock(t)
    PROVE  LockInv'
<1> DEFINE n == NextKey(t)
           i == opened[t] + 1
<1>1. n \in Keys /\ program[t][i] = Retain(n) /\ i \in Nat
  BY OpenStep, StepKeys DEF RetainLock, Types, NextKey, ThreadTypes
<1>2. \A u \in Threads, k \in Keys :
         /\ Held(u, Retain(k))' = IF u = t /\ k = n
                                     THEN Held(u, Retain(k)) \cup {i}
                                     ELSE Held(u, Retain(k))
         /\ Held(u, Lock(k))' = Held(u, Lock(k))
  <2>1. ThreadTypes /\ Open(t) /\ UNCHANGED program /\ AtStep(t, "retain")
    BY DEF RetainLock, Types
  <2>2. \A s : \A u \in Threads :
           Held(u, s)' = IF u = t /\ s = Retain(n) THEN Held(u, s) \cup {i} ELSE Held(u, s)
    BY <1>1, <2>1, HeldOpen
  <2>3. \A k \in Keys : Lock(k) # Retain(n) /\ (Retain(k) = Retain(n) <=> k = n)
    BY DEF Retain, Lock
  <2> QED
    BY <2>2, <2>3
<1>3. /\ lockTable'[n] \in LockObjects
      /\ \A k \in Keys : k # n => lockTable'[k] = lockTable[k]
      /\ lockTable[n] # NoLock => lockTable'[n] = lockTable[n]
      /\ lockTable[n] = NoLock => \A k \in Keys : lockTable[k] # lockTable'[n]
  <2>1. CASE UNCHANGED lockTable /\ lockTable[n] # NoLock
    BY <1>1, <2>1 DEF Types, LockTypes
  <2>2. CASE /\ lockTable[n] = NoLock
             /\ FreshLocks # {}
             /\ lockTable' = [lockTable EXCEPT
                                ![n] = CHOOSE o \in FreshLocks : TRUE]
    <3>1. (CHOOSE o \in FreshLocks : TRUE) \in FreshLocks
      BY <2>2
    <3>. QED BY <1>1, <2>2, <3>1 DEF Types, LockTypes, FreshLocks
  <2>. QED BY <2>1, <2>2 DEF RetainLock
<1>4. /\ handle'[t][n] = lockTable'[n]
      /\ \A u \in Threads, k \in Keys :
            u # t \/ k # n => handle'[u][k] = handle[u][k]
  BY <1>1 DEF RetainLock, Types, LockTypes
<1>5. /\ users'[n] = users[n] \cup {<<t, i>>}
      /\ \A k \in Keys : k # n => users'[k] = users[k]
  BY <1>1 DEF RetainLock, Types, LockTypes
<1>6. HandlesCurrent'
  <2> SUFFICES ASSUME NEW u \in Threads, NEW k \in Keys, Retained(u, k)'
               PROVE  lockTable'[k] \in LockObjects /\ handle'[u][k] = lockTable'[k]
    BY DEF HandlesCurrent
  <2>1. CASE u = t /\ k = n
    BY <2>1, <1>3, <1>4
  <2>2. CASE u # t \/ k # n
    <3>1. Retained(u, k)
      BY <1>2, <2>2 DEF Retained
    <3>2. lockTable[k] \in LockObjects /\ handle[u][k] = lockTable[k]
      BY <3>1 DEF LockInv, HandlesCurrent
    <3>3. lockTable[k] # NoLock
      BY <3>2, CoordinatorAssumption
    <3>. QED BY <2>2, <3>2, <3>3, <1>3, <1>4
  <2>. QED BY <2>1, <2>2
<1>7. UsersCounted'
  <2> SUFFICES ASSUME NEW u \in Threads, NEW k \in Keys, NEW j \in Nat
               PROVE  <<u, j>> \in users'[k] <=> j \in Held(u, Retain(k))'
    BY DEF UsersCounted
  <2>1. <<u, j>> \in users[k] <=> j \in Held(u, Retain(k))
    BY DEF LockInv, UsersCounted
  <2>2. CASE k = n
    <3>1. <<u, j>> \in users'[k] <=>
             <<u, j>> \in users[k] \/ (u = t /\ j = i)
      BY <2>2, <1>5
    <3>. QED BY <3>1, <2>1, <2>2, <1>2
  <2>3. CASE k # n
    BY <2>1, <2>3, <1>2, <1>5
  <2>. QED BY <2>2, <2>3
<1>8. EntryUsed'
  BY <1>3, <1>5 DEF LockInv, EntryUsed
<1>9. OneKeyPerLock'
  BY <1>1, <1>3 DEF LockInv, OneKeyPerLock
<1>10. OwnersOwn'
  <2> SUFFICES ASSUME NEW u \in Threads, NEW k \in Keys, Locked(u, k)'
               PROVE  owner'[handle'[u][k]] = u
    BY DEF OwnersOwn
  <2>1. Locked(u, k) /\ Retained(u, k)
    BY <1>2, LockedIsRetained DEF Locked, Types
  <2>2. owner[handle[u][k]] = u /\ handle[u][k] = lockTable[k]
        /\ lockTable[k] # NoLock
    BY <2>1, CoordinatorAssumption DEF LockInv, OwnersOwn, HandlesCurrent
  <2>3. handle'[u][k] = handle[u][k]
    BY <2>2, <1>3, <1>4
  <2>. QED BY <2>2, <2>3 DEF RetainLock
<1>. QED BY <1>6, <1>7, <1>8, <1>9, <1>10 DEF LockInv

LEMMA LockTake ==
    ASSUME Types, LockInv, NEW t \in Threads, TakeLock(t)
    PROVE  LockInv'
<1> DEFINE n == NextKey(t)
           o == handle[t][n]
<1>1. n \in Keys /\ program[t][opened[t] + 1] = Lock(n)
  BY OpenStep, StepKeys DEF TakeLock, Types, NextKey
<1>2. Retained(t, n)
  BY LockedIsRetained DEF TakeLock, Types
<1>3. o \in LockObjects
  BY <1>1, <1>2 DEF LockInv, HandlesCurrent
<1>4. \A u \in Threads, k \in Keys :
         /\ Held(u, Retain(k))' = Held(u, Retain(k))
         /\ Held(u, Lock(k))' = IF u = t /\ k = n
                                   THEN Held(u, Lock(k)) \cup {opened[t] + 1}
                                   ELSE Held(u, Lock(k))
  BY <1>1, HeldOpen DEF TakeLock, Types, Retain, Lock
<1>5. HandlesCurrent' /\ UsersCounted' /\ EntryUsed' /\ OneKeyPerLock'
  BY <1>4 DEF TakeLock, LockInv, HandlesCurrent, UsersCounted, EntryUsed,
              OneKeyPerLock, Retained
<1>6. OwnersOwn'
  <2> SUFFICES ASSUME NEW u \in Threads, NEW k \in Keys, Locked(u, k)'
               PROVE  owner'[handle[u][k]] = u
    BY DEF OwnersOwn, TakeLock
  <2>1. owner[o] \in {Nobody, t} /\ owner' = [owner EXCEPT ![o] = t]
    BY DEF TakeLock
  <2>2. CASE u = t /\ k = n
    BY <2>1, <2>2, <1>3 DEF Types, LockTypes
  <2>3. CASE u # t \/ k # n
    <3>1. Locked(u, k) /\ Retained(u, k)
      BY <1>4, <2>3, LockedIsRetained DEF Locked, Types
    <3>2. owner[handle[u][k]] = u /\ handle[u][k] \in LockObjects
      BY <3>1 DEF LockInv, OwnersOwn, HandlesCurrent
    <3>3. handle[u][k] = o => u = t
      BY <3>2, <2>1, CoordinatorAssumption
    <3>. QED BY <2>1, <3>2, <3>3, <1>3 DEF Types, LockTypes
  <2>. QED BY <2>2, <2>3
<1>. QED BY <1>5, <1>6 DEF LockInv

LEMMA LockRelease ==
    ASSUME Types, LockInv, NEW t \in Threads, ReleaseLock(t)
    PROVE  LockInv'
<1> DEFINE n == LastKey(t)
           o == handle[t][n]
<1>1. /\ n \in Keys
      /\ opened[t] \in 1..Len(program[t])
      /\ program[t][opened[t]] = Lock(n)
  <2>1. /\ opened[t] \in 1..Len(program[t])
        /\ program[t][opened[t]] \in Steps
        /\ program[t][opened[t]].op = "lock"
        /\ n \in Keys
    BY CloseStep DEF ReleaseLock, Types
  <2>. QED BY <2>1, StepKeys DEF LastKey
<1>2. opened[t] \in Held(t, Lock(n)) /\ Locked(t, n) /\ Retained(t, n)
  <2>1. opened[t] \in 1..opened[t]
    BY <1>1 DEF Types, ThreadTypes
  <2>2. opened[t] \in Held(t, Lock(n)) /\ Locked(t, n)
    BY <1>1, <2>1 DEF Held, Locked
  <2>. QED BY <2>1, <2>2, LockedIsRetained DEF Types
<1>3. o \in LockObjects /\ owner[o] = t /\ o = lockTable[n]
  BY <1>1, <1>2 DEF LockInv, HandlesCurrent, OwnersOwn
<1>4. \A u \in Threads, k \in Keys :
         /\ Held(u, Retain(k))' = Held(u, Retain(k))
         /\ Held(u, Lock(k))' = IF u = t THEN Held(u, Lock(k)) \ {opened[t]}
                                         ELSE Held(u, Lock(k))
  <2> SUFFICES ASSUME NEW u \in Threads, NEW k \in Keys
               PROVE  /\ Held(u, Retain(k))' = Held(u, Retain(k))
                      /\ Held(u, Lock(k))' = IF u = t
                                                THEN Held(u, Lock(k)) \ {opened[t]}
                                                ELSE Held(u, Lock(k))
    OBVIOUS
  <2>1. opened[t] \notin Held(t, Retain(k))
    BY <1>1 DEF Held, Retain, Lock
  <2>2. Held(u, Retain(k))' = IF u = t THEN Held(u, Retain(k)) \ {opened[t]}
                                       ELSE Held(u, Retain(k))
    BY HeldClose DEF ReleaseLock, Types
  <2>3. Held(u, Lock(k))' = IF u = t THEN Held(u, Lock(k)) \ {opened[t]}
                                     ELSE Held(u, Lock(k))
    BY HeldClose DEF ReleaseLock, Types
  <2>. QED BY <2>1, <2>2, <2>3
<1>5. HandlesCurrent' /\ UsersCounted' /\ EntryUsed' /\ OneKeyPerLock'
  BY <1>4 DEF ReleaseLock, LockInv, HandlesCurrent, UsersCounted, EntryUsed,
              OneKeyPerLock, Retained
<1>6. OwnersOwn'
  <2> SUFFICES ASSUME NEW u \in Threads, NEW k \in Keys, Locked(u, k)'
               PROVE  owner'[handle[u][k]] = u
    BY DEF OwnersOwn, ReleaseLock
  <2>1. Locked(u, k)
    BY <1>4 DEF Locked
  <2>2. Retained(u, k)
    BY <2>1, LockedIsRetained DEF Types
  <2>3. /\ handle[u][k] = lockTable[k] /\ lockTable[k] # NoLock
        /\ handle[u][k] \in LockObjects /\ owner[handle[u][k]] = u
    BY <2>1, <2>2, CoordinatorAssumption DEF LockInv, HandlesCurrent, OwnersOwn
  <2>4. owner' = [owner EXCEPT ![o] =
                    IF Held(t, Lock(n)) = {opened[t]} THEN Nobody ELSE @]
    BY DEF ReleaseLock
  <2>5. CASE handle[u][k] = o
    <3>1. u = t /\ k = n
      BY <2>3, <2>5, <1>1, <1>3 DEF LockInv, OneKeyPerLock
    <3>2. Held(t, Lock(n)) # {opened[t]}
      BY <3>1, <1>4 DEF Locked
    <3>. QED BY <3>1, <3>2, <2>4, <1>3 DEF Types, LockTypes
  <2>6. CASE handle[u][k] # o
    BY <2>3, <2>4, <2>6 DEF Types, LockTypes
  <2>. QED BY <2>5, <2>6
<1>. QED BY <1>5, <1>6 DEF LockInv

LEMMA LockForget ==
    ASSUME Types, LockInv, NEW t \in Threads, ReleaseRetained(t)
    PROVE  LockInv'
<1> DEFINE n == LastKey(t)
           i == opened[t]
           remaining == users[n] \ {<<t, i>>}
<1>1. /\ n \in Keys /\ i \in Nat
      /\ i \in 1..Len(program[t])
      /\ program[t][i] = Retain(n)
      /\ ThreadTypes'
  BY CloseStep, StepKeys DEF ReleaseRetained, Types, LastKey, ThreadTypes
<1>2. i \in Held(t, Retain(n))
  BY <1>1 DEF Held
<1>3. \A u \in Threads, k \in Keys :
         /\ Held(u, Retain(k))' = IF u = t /\ k = n
                                     THEN Held(u, Retain(k)) \ {i}
                                     ELSE Held(u, Retain(k))
         /\ Held(u, Lock(k))' = Held(u, Lock(k))
  <2> SUFFICES ASSUME NEW u \in Threads, NEW k \in Keys
               PROVE  /\ Held(u, Retain(k))' = IF u = t /\ k = n
                                                  THEN Held(u, Retain(k)) \ {i}
                                                  ELSE Held(u, Retain(k))
                      /\ Held(u, Lock(k))' = Held(u, Lock(k))
    OBVIOUS
  <2>1. i \notin Held(t, Lock(k)) /\ (k # n => i \notin Held(t, Retain(k)))
    BY <1>1 DEF Held, Retain, Lock
  <2>2. Held(u, Retain(k))' = IF u = t THEN Held(u, Retain(k)) \ {i}
                                       ELSE Held(u, Retain(k))
    BY HeldClose DEF ReleaseRetained, Types
  <2>3. Held(u, Lock(k))' = IF u = t THEN Held(u, Lock(k)) \ {i}
                                     ELSE Held(u, Lock(k))
    BY HeldClose DEF ReleaseRetained, Types
  <2>. QED BY <2>1, <2>2, <2>3
<1>4. /\ users'[n] = remaining
      /\ \A k \in Keys : k # n => users'[k] = users[k]
  BY <1>1 DEF ReleaseRetained, Types, LockTypes
<1>5. /\ lockTable'[n] = IF remaining = {} THEN NoLock ELSE lockTable[n]
      /\ \A k \in Keys : k # n => lockTable'[k] = lockTable[k]
  BY <1>1 DEF ReleaseRetained, Types, LockTypes
<1>6. /\ handle'[t][n] = IF Held(t, Retain(n)) = {i} THEN NoLock ELSE handle[t][n]
      /\ \A u \in Threads, k \in Keys :
            u # t \/ k # n => handle'[u][k] = handle[u][k]
  BY <1>1 DEF ReleaseRetained, Types, LockTypes
<1>7. UsersCounted'
  <2> SUFFICES ASSUME NEW u \in Threads, NEW k \in Keys, NEW j \in Nat
               PROVE  <<u, j>> \in users'[k] <=> j \in Held(u, Retain(k))'
    BY DEF UsersCounted
  <2>1. <<u, j>> \in users[k] <=> j \in Held(u, Retain(k))
    BY DEF LockInv, UsersCounted
  <2>2. CASE k = n
    <3>1. <<u, j>> \in users'[k] <=>
             <<u, j>> \in users[k] /\ ~(u = t /\ j = i)
      BY <2>2, <1>4
    <3>. QED BY <3>1, <2>1, <2>2, <1>3
  <2>3. CASE k # n
    BY <2>1, <2>3, <1>3, <1>4
  <2>. QED BY <2>2, <2>3
<1>8. \A u \in Threads, k \in Keys : Retained(u, k)' =>
         /\ Retained(u, k)
         /\ handle'[u][k] = handle[u][k]
         /\ lockTable'[k] = lockTable[k]
  <2> SUFFICES ASSUME NEW u \in Threads, NEW k \in Keys, Retained(u, k)'
               PROVE  /\ Retained(u, k)
                      /\ handle'[u][k] = handle[u][k]
                      /\ lockTable'[k] = lockTable[k]
    OBVIOUS
  <2>1. PICK j \in 1..opened'[u] : j \in Held(u, Retain(k))'
    BY DEF Retained, Held
  <2>2. j \in Nat /\ j \in Held(u, Retain(k)) /\ (u = t /\ k = n => j # i)
    BY <2>1, <1>3
  <2>3. Retained(u, k)
    BY <2>2 DEF Retained
  <2>4. k = n => <<u, j>> \in remaining
    BY <2>1, <2>2, <1>4, <1>7 DEF UsersCounted
  <2>5. lockTable'[k] = lockTable[k]
    BY <2>4, <1>5
  <2>6. handle'[u][k] = handle[u][k]
    BY <2>2, <1>6
  <2>. QED BY <2>3, <2>5, <2>6
<1>9. HandlesCurrent'
  BY <1>8 DEF LockInv, HandlesCurrent
<1>10. EntryUsed'
  BY <1>1, <1>4, <1>5 DEF LockInv, EntryUsed
<1>11. OneKeyPerLock'
  BY <1>1, <1>5 DEF LockInv, OneKeyPerLock
<1>12. OwnersOwn'
  <2> SUFFICES ASSUME NEW u \in Threads, NEW k \in Keys, Locked(u, k)'
               PROVE  owner[handle'[u][k]] = u
    BY DEF OwnersOwn, ReleaseRetained
  <2>1. Locked(u, k)
    BY <1>3 DEF Locked
  <2>2. Retained(u, k)'
    BY <1>1, LockedAreRetainedNext
  <2>. QED BY <2>1, <2>2, <1>8 DEF LockInv, OwnersOwn
<1>. QED BY <1>7, <1>9, <1>10, <1>11, <1>12 DEF LockInv

LEMMA LockNext == Types /\ LockInv /\ [Next]_vars => LockInv'
<1> SUFFICES ASSUME Types, LockInv, [Next]_vars PROVE LockInv'
  OBVIOUS
<1>. USE DEF Types
<1>1. CASE UNCHANGED vars
  BY <1>1, HeldSame, LockFrame DEF vars, threadVars
<1>2. ASSUME NEW t \in Threads, Start(t) PROVE LockInv'
  BY <1>2, HeldStart, LockFrame DEF Start
<1>3. ASSUME NEW t \in Threads, NEW op, op \notin {"retain", "lock"},
             AtStep(t, op), Open(t), UNCHANGED <<phase, program, lockVars>>
      PROVE  LockInv'
  <2>1. program[t][opened[t] + 1].op = op
    BY <1>3 DEF AtStep
  <2>2. \A k \in Keys : /\ program[t][opened[t] + 1] # Retain(k)
                        /\ program[t][opened[t] + 1] # Lock(k)
    BY <1>3, <2>1 DEF Retain, Lock
  <2>. QED BY <1>3, <2>2, HeldOpen, LockFrame
<1>4. ASSUME NEW t \in Threads, NEW op, op \notin {"retain", "lock"},
             Closing(t, op), UNCHANGED lockVars
      PROVE  LockInv'
  <2>1. \A k \in Keys : /\ opened[t] \notin Held(t, Retain(k))
                        /\ opened[t] \notin Held(t, Lock(k))
    BY <1>4 DEF Closing, Held, Retain, Lock
  <2>2. \A u \in Threads, k \in Keys :
           /\ Held(u, Retain(k))' = Held(u, Retain(k))
           /\ Held(u, Lock(k))' = Held(u, Lock(k))
    BY <1>4, <2>1, HeldClose
  <2>. QED BY <1>4, <2>2, LockFrame
<1>5. ASSUME NEW t \in Threads, WayIn(t) PROVE LockInv'
  <2>1. CASE RetainLock(t)
    BY <2>1, LockRetain
  <2>2. CASE TakeLock(t)
    BY <2>2, LockTake
  <2>3. CASE PassGeneration(t)
    BY <2>3, <1>3 DEF PassGeneration
  <2>4. CASE EnterGeneration(t)
    BY <2>4, <1>3 DEF EnterGeneration
  <2>5. CASE OwnExclusive(t)
    BY <2>5, <1>3 DEF OwnExclusive
  <2>6. CASE AwaitGeneration(t)
    BY <2>6, HeldSame, LockFrame DEF AwaitGeneration, threadVars
  <2>7. CASE AwaitExclusive(t)
    BY <2>7, HeldSame, LockFrame DEF AwaitExclusive, threadVars
  <2>8. CASE Body(t)
    BY <2>8, HeldSame, LockFrame DEF Body
  <2>. QED BY <1>5, <2>1, <2>2, <2>3, <2>4, <2>5, <2>6, <2>7, <2>8 DEF WayIn
<1>6. ASSUME NEW t \in Threads, WayOut(t) PROVE LockInv'
  <2>1. CASE ReleaseLock(t)
    BY <2>1, LockRelease
  <2>2. CASE ReleaseRetained(t)
    BY <2>2, LockForget
  <2>3. CASE LeaveGeneration(t)
    BY <2>3, <1>4 DEF LeaveGeneration
  <2>4. CASE LeavePassed(t)
    BY <2>4, <1>4 DEF LeavePassed
  <2>5. CASE ReleaseExclusive(t)
    BY <2>5, <1>4 DEF ReleaseExclusive
  <2>. QED BY <1>6, <2>1, <2>2, <2>3, <2>4, <2>5 DEF WayOut
<1>. QED BY <1>1, <1>2, <1>5, <1>6 DEF Next

LEMMA LockSafe ==
    ASSUME Types, LockInv
    PROVE  OneOwnerPerKey /\ TableMatchesUse
<1>1. OneOwnerPerKey
  <2> SUFFICES ASSUME NEW k \in Keys, NEW t \in Threads, NEW u \in Threads,
                      Locked(t, k), Locked(u, k)
               PROVE  t = u
    BY DEF OneOwnerPerKey
  <2>1. Retained(t, k) /\ Retained(u, k)
    BY LockedIsRetained DEF Types
  <2>. QED BY <2>1 DEF LockInv, HandlesCurrent, OwnersOwn
<1>2. TableMatchesUse
  <2> SUFFICES ASSUME NEW k \in Keys
               PROVE  /\ (lockTable[k] # NoLock) <=>
                            (\E t \in Threads : Retained(t, k))
                      /\ \A t \in Threads :
                            Retained(t, k) => handle[t][k] = lockTable[k]
    BY DEF TableMatchesUse
  <2>1. ASSUME lockTable[k] # NoLock PROVE \E t \in Threads : Retained(t, k)
    <3>1. users[k] # {} /\ users[k] \subseteq Threads \X Nat
      BY <2>1 DEF LockInv, EntryUsed, Types, LockTypes
    <3>2. PICK t \in Threads, i \in Nat : <<t, i>> \in users[k]
      BY <3>1
    <3>3. i \in Held(t, Retain(k))
      BY <3>2 DEF LockInv, UsersCounted
    <3>. QED BY <3>3 DEF Retained
  <2>2. \A t \in Threads : Retained(t, k) =>
            lockTable[k] # NoLock /\ handle[t][k] = lockTable[k]
    BY CoordinatorAssumption DEF LockInv, HandlesCurrent
  <2>. QED BY <2>1, <2>2
<1>. QED BY <1>1, <1>2

(* Two threads never own the lock of one document, path or creation.       *)
THEOREM KeyHasOneOwner == Spec => []OneOwnerPerKey
<1>1. Init => Types /\ LockInv
  BY TypesInit, LockInit
<1>2. (Types /\ LockInv) /\ [Next]_vars => (Types /\ LockInv)'
  BY TypesNext, LockNext
<1>3. Types /\ LockInv => OneOwnerPerKey
  BY LockSafe
<1>. QED BY <1>1, <1>2, <1>3, PTL DEF Spec

(* The lock tables hold exactly the keys in use, and no block waits on a   *)
(* lock the tables have forgotten.                                         *)
THEOREM TablesMatchUse == Spec => []TableMatchesUse
<1>1. Init => Types /\ LockInv
  BY TypesInit, LockInit
<1>2. (Types /\ LockInv) /\ [Next]_vars => (Types /\ LockInv)'
  BY TypesNext, LockNext
<1>3. Types /\ LockInv => TableMatchesUse
  BY LockSafe
<1>. QED BY <1>1, <1>2, <1>3, PTL DEF Spec

-----------------------------------------------------------------------------
(* Wait cycles.  What a thread waits for is told by its program and by how *)
(* far it has come: whoever owns a lock object has locked the key, whoever *)
(* is inside a generation has the flag, and a counted waiter is waiting.   *)

OwnersHaveLocked ==
    \A o \in LockObjects : owner[o] # Nobody =>
        \E k \in Keys : Locked(owner[o], k) /\ handle[owner[o]][k] = o

EnteredIsFlagged ==
    \A t \in Threads : phase[t] = "in" /\ mutating[t] = 0 => Held(t, Enter) = {}

EnlistedWait == \A t \in enlisted : AtStep(t, "exclusive")

WaitInv == OwnersHaveLocked /\ EnteredIsFlagged /\ EnlistedWait

LEMMA OwnersSame ==
    ASSUME OwnersHaveLocked, UNCHANGED <<owner, handle>>,
           \A t \in Threads, k \in Keys : Locked(t, k) => Locked(t, k)',
           owner \in [LockObjects -> Threads \cup {Nobody}]
    PROVE  OwnersHaveLocked'
<1> SUFFICES ASSUME NEW o \in LockObjects, owner'[o] # Nobody
             PROVE  (\E k \in Keys : Locked(owner[o], k) /\ handle[owner[o]][k] = o)'
  BY DEF OwnersHaveLocked
<1>1. PICK u \in Threads : u = owner[o]
  OBVIOUS
<1>2. PICK k \in Keys : Locked(u, k) /\ handle[u][k] = o
  BY <1>1 DEF OwnersHaveLocked
<1>3. Locked(u, k)' /\ handle'[u][k] = o
  BY <1>2
<1> QED
  BY <1>1, <1>3

(* The owner of an object, before and after a step.                        *)
LEMMA OwnerSteps ==
    ASSUME OwnersHaveLocked, owner' \in [LockObjects -> Threads \cup {Nobody}],
           \A o \in LockObjects, u \in Threads : owner'[o] = u =>
               \E k \in Keys : Locked(u, k)' /\ handle'[u][k] = o
    PROVE  OwnersHaveLocked'
<1> SUFFICES ASSUME NEW o \in LockObjects, owner'[o] # Nobody
             PROVE  (\E k \in Keys : Locked(owner[o], k) /\ handle[owner[o]][k] = o)'
  BY DEF OwnersHaveLocked
<1>1. PICK u \in Threads : u = owner'[o]
  OBVIOUS
<1>2. PICK k \in Keys : Locked(u, k)' /\ handle'[u][k] = o
  BY <1>1
<1> QED
  BY <1>1, <1>2

LEMMA OwnersWayIn ==
    ASSUME Types, Types', LockInv, OwnersHaveLocked, NEW t \in Threads, WayIn(t)
    PROVE  OwnersHaveLocked'
<1>. USE DEF Types
<1>1. /\ owner \in [LockObjects -> Threads \cup {Nobody}]
      /\ owner' \in [LockObjects -> Threads \cup {Nobody}]
      /\ \A u \in Threads : u # Nobody
  BY CoordinatorAssumption DEF LockTypes
<1>2. CASE RetainLock(t)
  <2>1. \A u \in Threads, k \in Keys : Locked(u, k) => Locked(u, k)'
    BY <1>2, HeldOpen DEF RetainLock, Locked
  <2>2. \A u \in Threads, k \in Keys : Locked(u, k) => handle'[u][k] = handle[u][k]
    <3> SUFFICES ASSUME NEW u \in Threads, NEW k \in Keys, Locked(u, k)
                 PROVE  handle'[u][k] = handle[u][k]
      OBVIOUS
    <3>1. lockTable[k] \in LockObjects /\ handle[u][k] = lockTable[k]
      BY LockedIsRetained DEF LockInv, HandlesCurrent
    <3>2. lockTable[k] # NoLock
      BY <3>1, CoordinatorAssumption
    <3>3. NextKey(t) \in Keys
      BY <1>2, OpenStep DEF RetainLock
    <3>4. handle' = [handle EXCEPT ![t][NextKey(t)] = lockTable'[NextKey(t)]]
      BY <1>2 DEF RetainLock
    <3>5. k = NextKey(t) => lockTable'[k] = lockTable[k]
      BY <1>2, <3>2 DEF RetainLock
    <3> QED
      BY <3>1, <3>3, <3>4, <3>5 DEF LockTypes
  <2>3. UNCHANGED owner
    BY <1>2 DEF RetainLock
  <2>4. ASSUME NEW o \in LockObjects, NEW u \in Threads, owner'[o] = u
        PROVE  \E k \in Keys : Locked(u, k)' /\ handle'[u][k] = o
    <3>1. PICK k \in Keys : Locked(u, k) /\ handle[u][k] = o
      BY <1>1, <2>3, <2>4 DEF OwnersHaveLocked
    <3> QED
      BY <2>1, <2>2, <3>1
  <2> QED
    BY <1>1, <2>4, OwnerSteps
<1>3. CASE TakeLock(t)
  <2>0. PICK j \in Keys : j = NextKey(t) /\ program[t][opened[t] + 1] = Lock(j)
    BY <1>3, OpenStep, StepKeys DEF TakeLock, NextKey
  <2>2. \A u \in Threads, k \in Keys : Locked(u, k) => Locked(u, k)'
    BY <1>3, HeldOpen DEF TakeLock, Locked
  <2>3. Locked(t, j)'
    <3>1. Held(t, Lock(j))' = Held(t, Lock(j)) \cup {opened[t] + 1}
      BY <1>3, <2>0, HeldOpen DEF TakeLock
    <3> QED
      BY <3>1 DEF Locked
  <2>4. owner' = [owner EXCEPT ![handle[t][j]] = t] /\ UNCHANGED handle
    BY <1>3, <2>0 DEF TakeLock
  <2>5. ASSUME NEW o \in LockObjects, NEW u \in Threads, owner'[o] = u
        PROVE  \E k \in Keys : Locked(u, k)' /\ handle'[u][k] = o
    <3>1. CASE o = handle[t][j]
      <4>1. u = t
        BY <1>1, <2>4, <2>5, <3>1
      <4> QED
        BY <2>3, <2>4, <3>1, <4>1
    <3>2. CASE o # handle[t][j]
      <4>1. owner[o] = u
        BY <1>1, <2>4, <2>5, <3>2
      <4>2. PICK k \in Keys : Locked(u, k) /\ handle[u][k] = o
        BY <1>1, <4>1 DEF OwnersHaveLocked
      <4> QED
        BY <2>2, <2>4, <4>2
    <3> QED
      BY <3>1, <3>2
  <2> QED
    BY <1>1, <2>5, OwnerSteps
<1>4. CASE PassGeneration(t) \/ EnterGeneration(t) \/ OwnExclusive(t)
  <2>1. \A u \in Threads, k \in Keys : Locked(u, k) => Locked(u, k)'
    BY <1>4, HeldOpen DEF PassGeneration, EnterGeneration, OwnExclusive, Locked
  <2>2. UNCHANGED <<owner, handle>>
    BY <1>4 DEF PassGeneration, EnterGeneration, OwnExclusive, lockVars
  <2> QED
    BY <1>1, <2>1, <2>2, OwnersSame
<1>5. CASE AwaitGeneration(t) \/ AwaitExclusive(t) \/ Body(t)
  <2>1. UNCHANGED <<program, opened>> /\ UNCHANGED <<owner, handle>>
    BY <1>5 DEF AwaitGeneration, AwaitExclusive, Body, threadVars, lockVars
  <2>2. \A u \in Threads, k \in Keys : Locked(u, k) => Locked(u, k)'
    BY <2>1, HeldSame DEF Locked
  <2> QED
    BY <1>1, <2>1, <2>2, OwnersSame
<1> QED
  BY <1>2, <1>3, <1>4, <1>5 DEF WayIn

(* On the way out the last block that locks a key gives its object up, and *)
(* the handle stays as long as a block retains the key.                    *)
LEMMA OwnersWayOut ==
    ASSUME Types, Types', LockInv, OwnersHaveLocked, NEW t \in Threads, WayOut(t)
    PROVE  OwnersHaveLocked'
<1>. USE DEF Types
<1>1. /\ owner \in [LockObjects -> Threads \cup {Nobody}]
      /\ owner' \in [LockObjects -> Threads \cup {Nobody}]
      /\ \A u \in Threads : u # Nobody
  BY CoordinatorAssumption DEF LockTypes
<1>2. CASE ReleaseLock(t)
  <2>0. Closing(t, "lock")
    BY <1>2 DEF ReleaseLock
  <2>a. program[t][opened[t]] \in Steps /\ program[t][opened[t]].op = "lock"
    BY <2>0, CloseStep
  <2>1. LastKey(t) \in Keys /\ program[t][opened[t]] = Lock(LastKey(t))
    BY <2>a, StepKeys DEF LastKey
  <2>2. \A u \in Threads, k \in Keys :
           Held(u, Lock(k))' = IF u = t THEN Held(u, Lock(k)) \ {opened[t]}
                               ELSE Held(u, Lock(k))
    BY <1>2, HeldClose DEF ReleaseLock
  <2>3. \A k \in Keys : k # LastKey(t) => opened[t] \notin Held(t, Lock(k))
    BY <2>1 DEF Held, Lock
  <2>4. /\ owner' = [owner EXCEPT ![handle[t][LastKey(t)]] =
                       IF Held(t, Lock(LastKey(t))) = {opened[t]} THEN Nobody ELSE @]
        /\ UNCHANGED handle
    BY <1>2 DEF ReleaseLock
  <2>5. ASSUME NEW o \in LockObjects, NEW u \in Threads, owner'[o] = u
        PROVE  \E k \in Keys : Locked(u, k)' /\ handle'[u][k] = o
    <3>1. /\ owner[o] = u
          /\ o = handle[t][LastKey(t)] => Held(t, Lock(LastKey(t))) # {opened[t]}
      BY <1>1, <2>4, <2>5
    <3>2. PICK k \in Keys : Locked(u, k) /\ handle[u][k] = o
      BY <1>1, <3>1 DEF OwnersHaveLocked
    <3>3. u = t /\ k = LastKey(t) => Held(t, Lock(k)) # {opened[t]}
      BY <3>1, <3>2
    <3>4. Held(u, Lock(k))' # {}
      BY <2>2, <2>3, <3>2, <3>3 DEF Locked
    <3> QED
      BY <2>4, <3>2, <3>4 DEF Locked
  <2> QED
    BY <1>1, <2>5, OwnerSteps
<1>3. CASE ReleaseRetained(t)
  <2>0. Closing(t, "retain")
    BY <1>3 DEF ReleaseRetained
  <2>a. program[t][opened[t]] \in Steps /\ program[t][opened[t]].op = "retain"
    BY <2>0, CloseStep
  <2>1. LastKey(t) \in Keys /\ program[t][opened[t]] = Retain(LastKey(t))
    BY <2>a, StepKeys DEF LastKey
  <2>2. \A u \in Threads, k \in Keys : Held(u, Lock(k))' = Held(u, Lock(k))
    <3>1. \A k \in Keys : opened[t] \notin Held(t, Lock(k))
      BY <2>1 DEF Held, Lock, Retain
    <3>2. \A u \in Threads, k \in Keys :
             Held(u, Lock(k))' = IF u = t THEN Held(u, Lock(k)) \ {opened[t]}
                                 ELSE Held(u, Lock(k))
      BY <2>0, HeldClose
    <3> QED
      BY <3>1, <3>2
  <2>3. ThreadTypes'
    BY <1>3, CloseStep DEF ReleaseRetained
  <2>4. \A u \in Threads, k \in Keys : Locked(u, k) => handle'[u][k] = handle[u][k]
    <3> SUFFICES ASSUME NEW u \in Threads, NEW k \in Keys, Locked(u, k)
                 PROVE  handle'[u][k] = handle[u][k]
      OBVIOUS
    <3>1. Locked(u, k)'
      BY <2>2 DEF Locked
    <3>2. Held(u, Retain(k))' # {}
      BY <2>3, <3>1, LockedAreRetainedNext DEF Retained
    <3>3. Held(t, Retain(k))' = Held(t, Retain(k)) \ {opened[t]}
      BY <1>3, HeldClose DEF ReleaseRetained
    <3>4. u = t => Held(t, Retain(k)) # {opened[t]}
      BY <3>2, <3>3
    <3>5. handle' = [handle EXCEPT ![t][LastKey(t)] =
                       IF Held(t, Retain(LastKey(t))) = {opened[t]} THEN NoLock ELSE @]
      BY <1>3 DEF ReleaseRetained
    <3> QED
      BY <2>1, <3>4, <3>5 DEF LockTypes
  <2>5. UNCHANGED owner
    BY <1>3 DEF ReleaseRetained
  <2>6. ASSUME NEW o \in LockObjects, NEW u \in Threads, owner'[o] = u
        PROVE  \E k \in Keys : Locked(u, k)' /\ handle'[u][k] = o
    <3>1. PICK k \in Keys : Locked(u, k) /\ handle[u][k] = o
      BY <1>1, <2>5, <2>6 DEF OwnersHaveLocked
    <3> QED
      BY <2>2, <2>4, <3>1 DEF Locked
  <2> QED
    BY <1>1, <2>6, OwnerSteps
<1>4. CASE LeaveGeneration(t) \/ LeavePassed(t) \/ ReleaseExclusive(t)
  <2>1. PICK op \in {"enter", "exclusive"} : Closing(t, op)
    BY <1>4 DEF LeaveGeneration, LeavePassed, ReleaseExclusive
  <2>2. \A k \in Keys : opened[t] \notin Held(t, Lock(k))
    BY <2>1, CloseStep DEF Held, Lock
  <2>3. \A u \in Threads, k \in Keys : Held(u, Lock(k))' = Held(u, Lock(k))
    BY <2>1, <2>2, HeldClose
  <2>4. UNCHANGED <<owner, handle>>
    BY <1>4 DEF LeaveGeneration, LeavePassed, ReleaseExclusive, lockVars
  <2> QED
    BY <1>1, <2>3, <2>4, OwnersSame DEF Locked
<1> QED
  BY <1>2, <1>3, <1>4 DEF WayOut

LEMMA WaitInit == Init => WaitInv
<1> SUFFICES ASSUME Init PROVE WaitInv
  OBVIOUS
<1>1. \A t \in Threads : Held(t, Enter) = {}
  BY DEF Init, Held
<1> QED
  BY <1>1 DEF Init, WaitInv, OwnersHaveLocked, EnteredIsFlagged, EnlistedWait

LEMMA WaitNext ==
    Types /\ BarrierInv /\ LockInv /\ WaitInv /\ [Next]_vars => WaitInv'
<1> SUFFICES ASSUME Types, BarrierInv, LockInv, WaitInv, [Next]_vars PROVE WaitInv'
  OBVIOUS
<1>. USE DEF Types
<1>0. /\ owner \in [LockObjects -> Threads \cup {Nobody}]
      /\ enlisted \subseteq Threads
  BY DEF LockTypes, BarrierTypes
<1>1. CASE UNCHANGED vars
  <2>1. UNCHANGED <<phase, program, opened, owner, handle, mutating, enlisted>>
    BY <1>1 DEF vars, threadVars, lockVars, barrierVars
  <2> QED
    BY <2>1, <1>0, OwnersSame, HeldSame
    DEF WaitInv, EnteredIsFlagged, EnlistedWait, AtStep, Locked
<1>2. ASSUME NEW t \in Threads, Start(t) PROVE WaitInv'
  <2>1. \A u \in Threads : \A s : Held(u, s)' = Held(u, s)
    BY <1>2, HeldStart
  <2>2. UNCHANGED <<owner, handle, mutating, enlisted, opened>>
    BY <1>2 DEF Start, lockVars, barrierVars
  <2>3. OwnersHaveLocked'
    BY <1>0, <2>1, <2>2, OwnersSame DEF WaitInv, Locked
  <2>4. opened[t] = 0
    BY <1>2 DEF Start, ThreadTypes
  <2>5. EnteredIsFlagged'
    <3>1. Held(t, Enter) = {}
      BY <2>4 DEF Held
    <3>2. \A u \in Threads : u # t => phase'[u] = phase[u]
      BY <1>2 DEF Start, ThreadTypes
    <3> QED
      BY <2>1, <2>2, <3>1, <3>2 DEF WaitInv, EnteredIsFlagged
  <2>6. EnlistedWait'
    <3>1. t \notin enlisted
      BY <1>2 DEF Start, WaitInv, EnlistedWait, AtStep
    <3> QED
      BY <1>0, <1>2, <2>2, <3>1 DEF Start, WaitInv, EnlistedWait, AtStep, ThreadTypes
  <2> QED
    BY <2>3, <2>5, <2>6 DEF WaitInv
<1>3. ASSUME NEW t \in Threads, WayIn(t) PROVE WaitInv'
  <2>1. OwnersHaveLocked'
    BY <1>3, OwnersWayIn, TypesNext DEF WaitInv, Next
  <2>2. CASE RetainLock(t) \/ TakeLock(t)
    <3>1. PICK op \in {"retain", "lock"} : AtStep(t, op)
      BY <2>2 DEF RetainLock, TakeLock
    <3>2. Open(t) /\ UNCHANGED <<phase, program, mutating, enlisted>>
      BY <2>2 DEF RetainLock, TakeLock, barrierVars
    <3>3. \A u \in Threads : Held(u, Enter)' = Held(u, Enter)
      BY <3>1, <3>2, HeldOpen DEF AtStep, Enter
    <3>4. t \notin enlisted
      BY <3>1 DEF AtStep, WaitInv, EnlistedWait
    <3>5. \A u \in Threads : u # t => opened'[u] = opened[u]
      BY <3>2 DEF Open, ThreadTypes
    <3> QED
      BY <1>0, <2>1, <3>2, <3>3, <3>4, <3>5 DEF WaitInv, EnteredIsFlagged, EnlistedWait, AtStep
  <2>3. CASE PassGeneration(t) \/ EnterGeneration(t)
    <3>1. AtStep(t, "enter") /\ Open(t) /\ UNCHANGED <<phase, program, enlisted>>
      BY <2>3 DEF PassGeneration, EnterGeneration, barrierVars
    <3>2. /\ mutating'[t] # 0
          /\ \A u \in Threads : u # t => mutating'[u] = mutating[u]
      BY <2>3 DEF PassGeneration, EnterGeneration, barrierVars, BarrierTypes, ThreadTypes
    <3>3. \A u \in Threads : u # t => Held(u, Enter)' = Held(u, Enter)
      BY <3>1, HeldOpen
    <3>4. t \notin enlisted
      BY <3>1 DEF AtStep, WaitInv, EnlistedWait
    <3>5. \A u \in Threads : u # t => opened'[u] = opened[u]
      BY <3>1 DEF Open, ThreadTypes
    <3> QED
      BY <1>0, <2>1, <3>1, <3>2, <3>3, <3>4, <3>5
      DEF WaitInv, EnteredIsFlagged, EnlistedWait, AtStep
  <2>4. CASE AwaitGeneration(t) \/ AwaitExclusive(t)
    <3>1. UNCHANGED <<phase, program, opened, mutating>>
      BY <2>4 DEF AwaitGeneration, AwaitExclusive, threadVars
    <3>2. enlisted' \subseteq enlisted \cup {t}
          /\ (t \in enlisted' => AtStep(t, "exclusive"))
      BY <2>4 DEF AwaitGeneration, AwaitExclusive, WaitInv, EnlistedWait
    <3>3. \A u \in Threads : Held(u, Enter)' = Held(u, Enter)
      BY <3>1, HeldSame
    <3> QED
      BY <2>1, <3>1, <3>2, <3>3 DEF WaitInv, EnteredIsFlagged, EnlistedWait, AtStep
  <2>5. CASE OwnExclusive(t)
    <3>1. AtStep(t, "exclusive") /\ Open(t) /\ UNCHANGED <<phase, program, mutating>>
      BY <2>5 DEF OwnExclusive
    <3>2. enlisted' \subseteq enlisted \ {t}
      BY <2>5 DEF OwnExclusive
    <3>3. \A u \in Threads : Held(u, Enter)' = Held(u, Enter)
      BY <3>1, HeldOpen DEF AtStep, Enter
    <3>4. \A u \in Threads : u # t => opened'[u] = opened[u]
      BY <3>1 DEF Open, ThreadTypes
    <3> QED
      BY <1>0, <2>1, <3>1, <3>2, <3>3, <3>4 DEF WaitInv, EnteredIsFlagged, EnlistedWait, AtStep
  <2>6. CASE Body(t)
    <3>1. UNCHANGED <<program, opened, mutating, enlisted>>
      BY <2>6 DEF Body, barrierVars
    <3>2. /\ phase'[t] = "out"
          /\ \A u \in Threads : u # t => phase'[u] = phase[u]
      BY <2>6 DEF Body, ThreadTypes
    <3>3. t \notin enlisted
      BY <2>6 DEF Body, AtStep, WaitInv, EnlistedWait, ThreadTypes
    <3>4. \A u \in Threads : Held(u, Enter)' = Held(u, Enter)
      BY <3>1, HeldSame
    <3> QED
      BY <1>0, <2>1, <3>1, <3>2, <3>3, <3>4 DEF WaitInv, EnteredIsFlagged, EnlistedWait, AtStep
  <2> QED
    BY <1>3, <2>2, <2>3, <2>4, <2>5, <2>6 DEF WayIn
<1>4. ASSUME NEW t \in Threads, WayOut(t) PROVE WaitInv'
  <2>1. OwnersHaveLocked'
    BY <1>4, OwnersWayOut, TypesNext DEF WaitInv, Next
  <2>2. PICK op : Closing(t, op)
    BY <1>4 DEF WayOut, ReleaseLock, ReleaseRetained, LeaveGeneration, LeavePassed,
                ReleaseExclusive
  <2>3. UNCHANGED <<phase, program>> /\ phase[t] = "out"
    BY <2>2 DEF Closing
  <2>4. /\ \A u \in Threads : u # t => mutating'[u] = mutating[u]
        /\ UNCHANGED enlisted
    BY <1>4 DEF WayOut, ReleaseLock, ReleaseRetained, LeaveGeneration, LeavePassed,
                ReleaseExclusive, barrierVars, BarrierTypes
  <2>5. \A u \in Threads : u # t => Held(u, Enter)' = Held(u, Enter)
    BY <2>2, HeldClose
  <2>6. \A u \in Threads : u # t => opened'[u] = opened[u]
    BY <2>2 DEF Closing, ThreadTypes
  <2>7. t \notin enlisted
    BY <2>3 DEF WaitInv, EnlistedWait, AtStep
  <2> QED
    BY <1>0, <2>1, <2>3, <2>4, <2>5, <2>6, <2>7
    DEF WaitInv, EnteredIsFlagged, EnlistedWait, AtStep
<1> QED
  BY <1>1, <1>2, <1>3, <1>4 DEF Next

LEMMA WaitInvAlways == Spec => [](Types /\ BarrierInv /\ LockInv /\ SleepersWait /\ WaitInv)
<1>1. Init => Types /\ BarrierInv /\ LockInv /\ SleepersWait /\ WaitInv
  BY TypesInit, BarrierInit, LockInit, WaitInit DEF Init, SleepersWait
<1>2. (Types /\ BarrierInv /\ LockInv /\ SleepersWait /\ WaitInv) /\ [Next]_vars
         => (Types /\ BarrierInv /\ LockInv /\ SleepersWait /\ WaitInv)'
  BY TypesNext, BarrierNext, LockNext, WakeupNext, WaitNext
<1> QED
  BY <1>1, <1>2, PTL DEF Spec

-----------------------------------------------------------------------------
(* What the pipelines' orders make of that.                                *)

LEMMA RunsPipeline ==
    ASSUME ThreadTypes, NEW t \in Threads, NEW op, AtStep(t, op)
    PROVE  /\ program[t] \in Pipelines
           /\ opened[t] \in Nat
           /\ opened[t] + 1 \in 1..Len(program[t])
           /\ \A i \in 1..opened[t] :
                 i \in 1..Len(program[t]) /\ program[t][i] \in Steps
           /\ program[t][opened[t] + 1] \in Steps
           /\ program[t][opened[t] + 1].op = op
<1>1. /\ opened[t] \in Nat /\ opened[t] < Len(program[t])
      /\ Len(program[t]) \in Nat
      /\ program[t] \in Seq(Steps)
      /\ program[t] = <<>> \/ program[t] \in Pipelines
  BY DEF ThreadTypes, AtStep
<1>2. program[t] # <<>>
  BY <1>1
<1> QED
  BY <1>1, <1>2, StepTypes DEF AtStep

(* "Never hold a document lock while waiting for a generation" (the        *)
(* comment in document(), mutations.py): whatever the pipelines, if they   *)
(* lock documents inside a mutation only, no thread that sleeps at the     *)
(* barrier of mutation() holds one.                                        *)
THEOREM BarrierHoldsNoDocument ==
    ASSUME DocumentsAreLockedInside(Pipelines)
    PROVE  Spec => []NoDocumentHeldAtTheBarrier
<1>1. Types /\ SleepersWait /\ WaitInv => NoDocumentHeldAtTheBarrier
  <2> SUFFICES ASSUME Types, SleepersWait, WaitInv,
                      NEW t \in asleep, AtStep(t, "enter"),
                      NEW k \in DocumentKeys, Locked(t, k)
               PROVE  FALSE
    BY DEF NoDocumentHeldAtTheBarrier
  <2>1. t \in Threads /\ ThreadTypes
    BY DEF Types, BarrierTypes
  <2>2. mutating[t] = 0 /\ Held(t, Enter) = {}
    <3>1. mutating[t] = 0
      BY DEF SleepersWait, Waits, AtStep
    <3> QED
      BY <2>1, <3>1 DEF WaitInv, EnteredIsFlagged, AtStep
  <2>3. PICK i \in 1..opened[t] : program[t][i] = Lock(k)
    BY DEF Locked, Held
  <2>4. /\ program[t] \in Pipelines
        /\ opened[t] \in Nat
        /\ i \in 1..Len(program[t])
    BY <2>1, RunsPipeline
  <2>5. PICK j \in 1..(i - 1) : program[t][j] = Enter
    BY <2>3, <2>4 DEF DocumentsAreLockedInside, Lock
  <2>6. j \in Held(t, Enter)
    BY <2>4, <2>5 DEF Held
  <2> QED
    BY <2>2, <2>6
<1> QED
  BY <1>1, WaitInvAlways, PTL

(* The lock a thread waits for is one the other thread has locked.         *)
LEMMA AwaitedIsLocked ==
    ASSUME Types, LockInv, OwnersHaveLocked, NEW t \in Threads, AtStep(t, "lock"),
           NEW u \in Threads, u = owner[handle[t][NextKey(t)]]
    PROVE  NextKey(t) \in Keys /\ Locked(u, NextKey(t))
<1>. USE DEF Types
<1>1. PICK k \in Keys : k = NextKey(t) /\ program[t][opened[t] + 1] = Lock(k)
  BY RunsPipeline, StepKeys DEF NextKey
<1>2. Retained(t, k)
  <2>1. PICK j \in 1..(opened[t] + 1 - 1) : program[t][j] = Retain(k)
    BY <1>1, RunsPipeline, CoordinatorAssumption DEF Lock
  <2> QED
    BY <2>1, RunsPipeline DEF Retained, Held
<1>3. handle[t][k] = lockTable[k] /\ lockTable[k] \in LockObjects
  BY <1>2 DEF LockInv, HandlesCurrent
<1>4. u # Nobody
  BY CoordinatorAssumption
<1>5. PICK j \in Keys : Locked(u, j) /\ handle[u][j] = lockTable[k]
  BY <1>1, <1>3, <1>4 DEF OwnersHaveLocked
<1>6. lockTable[j] = lockTable[k]
  BY <1>5, LockedIsRetained DEF LockInv, HandlesCurrent
<1>7. j = k
  BY <1>3, <1>6, CoordinatorAssumption DEF LockInv, OneKeyPerLock
<1> QED
  BY <1>1, <1>5, <1>7

LEMMA NextLockIsLower ==
    ASSUME ThreadTypes, NEW depth \in [Keys -> Nat], LeadDown(Pipelines, depth),
           NEW t \in Threads, AtStep(t, "lock"),
           NEW k \in Keys, Locked(t, k), ~Locked(t, NextKey(t))
    PROVE  depth[NextKey(t)] < depth[k]
<1>0. PICK p \in Pipelines : p = program[t]
  BY RunsPipeline
<1>1. PICK m \in 1..Len(p) : m = opened[t] + 1
  BY <1>0, RunsPipeline
<1>2. PICK n \in Keys : n = NextKey(t) /\ p[m] = Lock(n)
  BY <1>0, <1>1, RunsPipeline, StepKeys DEF NextKey
<1>3. PICK i \in 1..(m - 1) : p[i] = Lock(k)
  BY <1>0, <1>1, RunsPipeline DEF Locked, Held
<1>4. ~\E j \in 1..(m - 1) : p[j] = p[m]
  <2>1. ~Locked(t, n)
    BY <1>2
  <2>2. \A j \in 1..opened[t] : program[t][j] # Lock(n)
    BY <2>1 DEF Locked, Held
  <2>3. opened[t] \in Nat
    BY RunsPipeline
  <2> QED
    BY <1>0, <1>1, <1>2, <2>2, <2>3
<1>5. p[m].op = "lock" /\ p[m].key = n /\ p[i].op = "lock" /\ p[i].key = k
  BY <1>2, <1>3 DEF Lock
<1>6. \/ \E j \in 1..(m - 1) : p[j] = p[m]
      \/ \A j \in 1..(m - 1) : p[j].op = "lock" => depth[p[j].key] > depth[p[m].key]
  BY <1>5 DEF LeadDown
<1>7. depth[k] > depth[n]
  BY <1>4, <1>5, <1>6
<1> QED
  BY <1>2, <1>7

(* A thread that waits for the generation has nothing yet.                 *)
AtTheBarrier(t) ==
    \/ AtStep(t, "enter") /\ mutating[t] = 0
    \/ AtStep(t, "exclusive")

LEMMA NothingAtTheBarrier ==
    ASSUME Types, BarrierInv, WaitInv, NEW depth, LeadDown(Pipelines, depth),
           NEW t \in Threads, AtTheBarrier(t)
    PROVE  /\ \A k \in Keys : ~Locked(t, k)
           /\ mutating[t] = 0
           /\ ~HoldsExclusive(t)
<1>. USE DEF Types
<1>0. opened[t] \in Nat
  BY DEF ThreadTypes
<1>1. \A i \in 1..opened[t] : program[t][i].op = "retain"
  <2>1. CASE AtStep(t, "enter") /\ mutating[t] = 0
    <3>1. Held(t, Enter) = {}
      BY <2>1 DEF WaitInv, EnteredIsFlagged, AtStep
    <3>2. ~\E j \in 1..(opened[t] + 1 - 1) : program[t][j] = Enter
      BY <1>0, <3>1 DEF Held
    <3>3. \A j \in 1..(opened[t] + 1 - 1) : program[t][j].op = "retain"
      BY <2>1, <3>2, RunsPipeline DEF LeadDown
    <3> QED
      BY <1>0, <3>3
  <2>2. CASE AtStep(t, "exclusive")
    <3>1. \A j \in 1..(opened[t] + 1 - 1) : program[t][j].op = "retain"
      BY <2>2, RunsPipeline DEF LeadDown
    <3> QED
      BY <1>0, <3>1
  <2> QED
    BY <2>1, <2>2 DEF AtTheBarrier
<1>2. \A s : s.op # "retain" => Held(t, s) = {}
  BY <1>1 DEF Held
<1>3. \A k \in Keys : ~Locked(t, k)
  BY <1>2 DEF Locked, Lock
<1>4. ~HoldsExclusive(t)
  BY <1>2 DEF HoldsExclusive, Exclusive
<1>5. Held(t, Enter) = {}
  BY <1>2 DEF Enter
<1>6. mutating[t] = 0
  BY <1>5 DEF BarrierInv, EntersByEnter, Held
<1> QED
  BY <1>3, <1>4, <1>6

(* A set of keys that is not empty has one of least depth.                 *)
LEMMA ShallowestExists ==
    ASSUME NEW depth \in [Keys -> Nat], NEW K \in SUBSET Keys, K # {}
    PROVE  \E k \in K : \A j \in K : ~(depth[j] < depth[k])
<1> DEFINE depths == {depth[k] : k \in K}
<1>1. depths \in SUBSET Nat /\ depths # {}
  OBVIOUS
<1>2. \E m \in depths : \A n \in depths : m <= n
  <2> HIDE DEF depths
  <2> QED
    BY <1>1, LeastOf
<1>3. PICK k \in K : \A j \in K : depth[k] <= depth[j]
  BY <1>2
<1> QED
  BY <1>3

(* "Waiting again would deadlock a nested storage call against a queued    *)
(* backup" (mutation()), "replay cannot invert document locks"             *)
(* (documents()), mutations.py: if all pipelines take their locks down one *)
(* order of the keys and the generation before the first of them, then no  *)
(* set of threads waits only on its own members.                           *)
THEOREM ThreadsNeverWaitInACycle ==
    ASSUME NEW depth \in [Keys -> Nat], LeadDown(Pipelines, depth)
    PROVE  Spec => []NoWaitCycle
<1>1. Types /\ BarrierInv /\ LockInv /\ WaitInv => NoWaitCycle
  <2> SUFFICES ASSUME Types, BarrierInv, LockInv, WaitInv,
                      NEW S \in SUBSET Threads, S # {},
                      \A t \in S : WaitsFor(t) \cap S # {}
               PROVE  FALSE
    BY DEF NoWaitCycle
  <2>0. OwnersHaveLocked /\ ThreadTypes
    BY DEF WaitInv, Types
  <2>1. \A t \in S : AtStep(t, "lock") \/ AtTheBarrier(t)
    BY DEF WaitsFor, AtTheBarrier
  <2>2. \A t \in S : AtStep(t, "lock") =>
           /\ NextKey(t) \in Keys
           /\ ~Locked(t, NextKey(t))
           /\ \E u \in S : Locked(u, NextKey(t))
    <3> SUFFICES ASSUME NEW t \in S, AtStep(t, "lock")
                 PROVE  /\ NextKey(t) \in Keys
                        /\ ~Locked(t, NextKey(t))
                        /\ \E u \in S : Locked(u, NextKey(t))
      OBVIOUS
    <3>1. PICK u \in S : u # t /\ owner[handle[t][NextKey(t)]] = u
      BY DEF WaitsFor, AtStep
    <3>2. NextKey(t) \in Keys /\ Locked(u, NextKey(t))
      BY <2>0, <3>1, AwaitedIsLocked
    <3>3. ~Locked(t, NextKey(t))
      BY <3>1, <3>2 DEF LockInv, OwnersOwn
    <3> QED
      BY <3>2, <3>3
  <2>3. CASE \E t \in S : AtStep(t, "lock")
    <3> DEFINE awaited == {k \in Keys : \E t \in S : AtStep(t, "lock") /\ k = NextKey(t)}
    <3>1. awaited \in SUBSET Keys /\ awaited # {}
      BY <2>2, <2>3
    <3>2. PICK k \in awaited : \A j \in awaited : ~(depth[j] < depth[k])
      <4> HIDE DEF awaited
      <4> QED
        BY <3>1, ShallowestExists
    <3>3. PICK t \in S : AtStep(t, "lock") /\ k = NextKey(t)
      OBVIOUS
    <3>4. PICK u \in S : Locked(u, k)
      BY <2>2, <3>3
    <3>5. ~AtTheBarrier(u)
      BY <3>4, NothingAtTheBarrier
    <3>6. AtStep(u, "lock")
      BY <2>1, <3>5
    <3>7. depth[NextKey(u)] < depth[k]
      BY <2>0, <2>2, <3>4, <3>6, NextLockIsLower
    <3>8. NextKey(u) \in awaited
      BY <2>2, <3>6
    <3> QED
      BY <3>2, <3>7, <3>8
  <2>4. CASE \A t \in S : ~AtStep(t, "lock")
    <3>1. \A t \in S : mutating[t] = 0 /\ ~HoldsExclusive(t)
      BY <2>1, <2>4, NothingAtTheBarrier
    <3>2. \A t \in S : ~AtStep(t, "exclusive")
      BY <3>1 DEF WaitsFor, AtStep
    <3>3. \A t \in S : t \notin enlisted
      BY <3>2 DEF WaitInv, EnlistedWait
    <3> QED
      BY <2>4, <3>1, <3>2, <3>3 DEF WaitsFor
  <2> QED
    BY <2>3, <2>4
<1> QED
  BY <1>1, WaitInvAlways, PTL

-----------------------------------------------------------------------------
(* The orders of the callers                                               *)

(* The steps a sequence of blocks takes, and those up to one of them.      *)
StepsOf(q) == {q[i] : i \in 1 .. Len(q)}
Before(q, i) == {q[j] : j \in 1 .. (i - 1)}

(* What LeadDown says of one step, after the steps of S.                   *)
MayFollow(s, S, depth) ==
    /\ s.op = "lock" => \/ s \in S
                        \/ \A r \in S : r.op = "lock" => depth[r.key] > depth[s.key]
    /\ s.op = "enter" => Enter \in S \/ \A r \in S : r.op = "retain"
    /\ s.op = "exclusive" => \A r \in S : r.op = "retain"

LeadsAfter(S, q, depth) ==
    \A i \in 1 .. Len(q) : MayFollow(q[i], S \cup Before(q, i), depth)

LEMMA LeadsFromStart ==
    ASSUME NEW p, NEW depth, LeadsAfter({}, p, depth)
    PROVE  LeadDown({p}, depth)
  BY DEF LeadsAfter, LeadDown, MayFollow, Before, Enter

LEMMA JoinedSteps ==
    ASSUME NEW T, NEW p \in Seq(T), NEW q \in Seq(T)
    PROVE  /\ p \o q \in Seq(T) /\ StepsOf(p \o q) = StepsOf(p) \cup StepsOf(q)
           /\ \A i \in 1 .. Len(p) :
                 i \in 1 .. Len(p \o q) /\ (p \o q)[i] = p[i] /\ Before(p \o q, i) = Before(p, i)
           /\ \A i \in 1 .. Len(q) :
                 /\ Len(p) + i \in 1 .. Len(p \o q) /\ (p \o q)[Len(p) + i] = q[i]
                 /\ Before(p \o q, Len(p) + i) = StepsOf(p) \cup Before(q, i)
           /\ \A i \in 1 .. Len(p \o q) :
                 i \in 1 .. Len(p) \/ \E j \in 1 .. Len(q) : i = Len(p) + j
<1> DEFINE r == p \o q  m == Len(p)  n == Len(q)
<1>1. /\ r \in Seq(T) /\ Len(r) = m + n /\ m \in Nat /\ n \in Nat
      /\ \A i \in 1 .. m + n : r[i] = IF i <= m THEN p[i] ELSE q[i - m]
  OBVIOUS
<1> HIDE DEF r, m, n
<1>2. \A i \in 1 .. m : i \in 1 .. Len(r) /\ r[i] = p[i]
  BY <1>1
<1>3. \A i \in 1 .. n : m + i \in 1 .. Len(r) /\ r[m + i] = q[i]
  BY <1>1
<1>4. \A i \in 1 .. Len(r) : i \in 1 .. m \/ \E j \in 1 .. n : i = m + j
  <2> SUFFICES ASSUME NEW i \in 1 .. Len(r), i \notin 1 .. m
               PROVE  \E j \in 1 .. n : i = m + j
    OBVIOUS
  <2>1. i - m \in 1 .. n /\ i = m + (i - m)
    BY <1>1
  <2> QED
    BY <2>1
<1>5. StepsOf(r) = StepsOf(p) \cup StepsOf(q)
  <2>1. ASSUME NEW s \in StepsOf(r) PROVE s \in StepsOf(p) \cup StepsOf(q)
    <3>1. PICK i \in 1 .. Len(r) : s = r[i]
      BY DEF StepsOf
    <3>2. CASE i \in 1 .. m
      BY <1>2, <3>1, <3>2 DEF StepsOf, m
    <3>3. CASE \E j \in 1 .. n : i = m + j
      BY <1>3, <3>1, <3>3 DEF StepsOf, n
    <3> QED
      BY <1>4, <3>2, <3>3
  <2>2. ASSUME NEW s \in StepsOf(p) PROVE s \in StepsOf(r)
    BY <1>2 DEF StepsOf, m
  <2>3. ASSUME NEW s \in StepsOf(q) PROVE s \in StepsOf(r)
    BY <1>3 DEF StepsOf, n
  <2> QED
    BY <2>1, <2>2, <2>3
<1>6. ASSUME NEW i \in 1 .. m PROVE Before(r, i) = Before(p, i)
  <2>1. \A j \in 1 .. (i - 1) : r[j] = p[j]
    BY <1>1, <1>2
  <2> QED
    BY <2>1 DEF Before
<1>7. ASSUME NEW i \in 1 .. n PROVE Before(r, m + i) = StepsOf(p) \cup Before(q, i)
  <2>1. ASSUME NEW s \in Before(r, m + i) PROVE s \in StepsOf(p) \cup Before(q, i)
    <3>1. PICK j \in 1 .. ((m + i) - 1) : s = r[j]
      BY DEF Before
    <3>2. CASE j \in 1 .. m
      BY <1>2, <3>1, <3>2 DEF StepsOf, m
    <3>3. CASE j \notin 1 .. m
      <4>1. j - m \in 1 .. (i - 1) /\ j - m \in 1 .. n /\ j = m + (j - m)
        BY <1>1, <3>3
      <4>2. s = q[j - m]
        BY <1>3, <3>1, <4>1
      <4> QED
        BY <4>1, <4>2 DEF Before
    <3> QED
      BY <3>2, <3>3
  <2>2. ASSUME NEW s \in StepsOf(p) PROVE s \in Before(r, m + i)
    <3>1. PICK j \in 1 .. m : s = p[j]
      BY DEF StepsOf, m
    <3>2. j \in 1 .. ((m + i) - 1) /\ r[j] = s
      BY <1>1, <1>2, <3>1
    <3> QED
      BY <3>2 DEF Before
  <2>3. ASSUME NEW s \in Before(q, i) PROVE s \in Before(r, m + i)
    <3>1. PICK j \in 1 .. (i - 1) : s = q[j]
      BY DEF Before
    <3>2. j \in 1 .. n /\ m + j \in 1 .. ((m + i) - 1)
      BY <1>1
    <3>3. r[m + j] = s
      BY <1>3, <3>1, <3>2
    <3> QED
      BY <3>2, <3>3 DEF Before
  <2> QED
    BY <2>1, <2>2, <2>3
<1> QED
  BY <1>1, <1>2, <1>3, <1>4, <1>5, <1>6, <1>7 DEF r, m, n

(* Blocks that lead down after S, and others that do after both.           *)
LEMMA LeadsJoined ==
    ASSUME NEW T, NEW p \in Seq(T), NEW q \in Seq(T), NEW S, NEW depth,
           LeadsAfter(S, p, depth), LeadsAfter(S \cup StepsOf(p), q, depth)
    PROVE  LeadsAfter(S, p \o q, depth)
<1> SUFFICES ASSUME NEW i \in 1 .. Len(p \o q)
             PROVE  MayFollow((p \o q)[i], S \cup Before(p \o q, i), depth)
  BY DEF LeadsAfter
<1>1. CASE i \in 1 .. Len(p)
  <2>1. (p \o q)[i] = p[i] /\ Before(p \o q, i) = Before(p, i)
    BY <1>1, JoinedSteps
  <2> QED
    BY <1>1, <2>1 DEF LeadsAfter
<1>2. ASSUME NEW j \in 1 .. Len(q), i = Len(p) + j
      PROVE  MayFollow((p \o q)[i], S \cup Before(p \o q, i), depth)
  <2>1. (p \o q)[i] = q[j] /\ Before(p \o q, i) = StepsOf(p) \cup Before(q, j)
    BY <1>2, JoinedSteps
  <2>2. MayFollow(q[j], (S \cup StepsOf(p)) \cup Before(q, j), depth)
    BY DEF LeadsAfter
  <2>3. (S \cup StepsOf(p)) \cup Before(q, j) = S \cup (StepsOf(p) \cup Before(q, j))
    OBVIOUS
  <2> QED
    BY <2>1, <2>2, <2>3
<1>3. i \in 1 .. Len(p) \/ \E j \in 1 .. Len(q) : i = Len(p) + j
  BY JoinedSteps
<1> QED
  BY <1>1, <1>2, <1>3

(* What DocumentsAreLockedInside says of one sequence of blocks after S.   *)
InsideAfter(S, q) ==
    \A i \in 1 .. Len(q) :
        q[i].op = "lock" /\ q[i].key \in DocumentKeys => Enter \in S \cup Before(q, i)

LEMMA InsideFromStart ==
    ASSUME NEW p, InsideAfter({}, p)
    PROVE  DocumentsAreLockedInside({p})
  BY DEF InsideAfter, DocumentsAreLockedInside, Before

LEMMA InsideJoined ==
    ASSUME NEW T, NEW p \in Seq(T), NEW q \in Seq(T), NEW S,
           InsideAfter(S, p), InsideAfter(S \cup StepsOf(p), q)
    PROVE  InsideAfter(S, p \o q)
<1> SUFFICES ASSUME NEW i \in 1 .. Len(p \o q), (p \o q)[i].op = "lock",
                    (p \o q)[i].key \in DocumentKeys
             PROVE  Enter \in S \cup Before(p \o q, i)
  BY DEF InsideAfter
<1>1. CASE i \in 1 .. Len(p)
  <2>1. (p \o q)[i] = p[i] /\ Before(p \o q, i) = Before(p, i)
    BY <1>1, JoinedSteps
  <2> QED
    BY <1>1, <2>1 DEF InsideAfter
<1>2. ASSUME NEW j \in 1 .. Len(q), i = Len(p) + j
      PROVE  Enter \in S \cup Before(p \o q, i)
  <2>1. (p \o q)[i] = q[j] /\ Before(p \o q, i) = StepsOf(p) \cup Before(q, j)
    BY <1>2, JoinedSteps
  <2>2. Enter \in (S \cup StepsOf(p)) \cup Before(q, j)
    BY <2>1 DEF InsideAfter
  <2> QED
    BY <2>1, <2>2
<1>3. i \in 1 .. Len(p) \/ \E j \in 1 .. Len(q) : i = Len(p) + j
  BY JoinedSteps
<1> QED
  BY <1>1, <1>2, <1>3

(* Sets of keys that their numbers tell apart.                             *)
Numbered(ks) ==
    /\ ks \subseteq Keys /\ IsFiniteSet(ks)
    /\ \A k \in ks : k[2] \in Nat
    /\ \A j, k \in ks : j[2] = k[2] => j = k

LEMMA SortedKeys ==
    ASSUME NEW ks, Numbered(ks)
    PROVE  LET n == Cardinality(ks) IN
           /\ n \in Nat /\ Sorted(ks) \in [1 .. n -> ks]
           /\ Sorted(ks) \in Seq(ks) /\ Len(Sorted(ks)) = n
           /\ \A i, j \in 1 .. n : i < j => Sorted(ks)[i][2] < Sorted(ks)[j][2]
           /\ \A k \in ks : \E i \in 1 .. n : Sorted(ks)[i] = k
<1> DEFINE n == Cardinality(ks)
           R == {x \in ks \X ks : x[1][2] < x[2][2]}
<1>1. n \in Nat
  BY FS_CardinalityType DEF Numbered
<1>2. StrictOrder(R, ks)
  <2>1. \A j, k \in ks : <<j, k>> \in R <=> j[2] < k[2]
    OBVIOUS
  <2> HIDE DEF R
  <2> QED
    BY <2>1 DEF StrictOrder, Numbered
<1>3. \A s : Lists(s, ks, R) <=> /\ s \in [1 .. n -> ks]
                                 /\ \A i, j \in 1 .. n : i < j => s[i][2] < s[j][2]
  BY DEF Lists
<1> HIDE DEF R
<1>4. PICK s : Lists(s, ks, R)
  BY <1>2, SortedExists DEF Numbered
<1>5. /\ Sorted(ks) \in [1 .. n -> ks]
      /\ \A i, j \in 1 .. n : i < j => Sorted(ks)[i][2] < Sorted(ks)[j][2]
  BY <1>3, <1>4 DEF Sorted
<1>6. \A k \in ks : \E i \in 1 .. n : Sorted(ks)[i] = k
  <2>1. Lists(Sorted(ks), ks, R)
    BY <1>3, <1>5
  <2>2. Covers(Sorted(ks), ks)
    BY <1>2, <2>1, ListingCovers DEF Numbered
  <2> QED
    BY <2>2 DEF Covers
<1>7. Sorted(ks) \in Seq(ks) /\ Len(Sorted(ks)) = n
  <2> HIDE DEF n
  <2> QED
    BY <1>1, <1>5
<1> QED
  BY <1>1, <1>5, <1>6, <1>7

(* The steps of one kind over a set of keys.                               *)
LEMMA EachRetains ==
    ASSUME NEW ks, Numbered(ks)
    PROVE  LET q == Each(Retain, Sorted(ks)) IN
           /\ q \in Seq(Steps) /\ StepsOf(q) = {Retain(k) : k \in ks}
           /\ \A i \in 1 .. Len(q) : q[i].op = "retain"
<1> DEFINE n == Cardinality(ks)  s == Sorted(ks)  q == Each(Retain, s)
<1>1. /\ n \in Nat /\ s \in [1 .. n -> ks] /\ Len(s) = n
      /\ \A k \in ks : \E i \in 1 .. n : s[i] = k
  BY SortedKeys
<1> HIDE DEF n, s
<1>2. q = [i \in 1 .. n |-> Retain(s[i])]
  BY <1>1 DEF Each
<1>3. \A i \in 1 .. n : s[i] \in ks /\ Retain(s[i]) \in Steps
  BY <1>1 DEF Numbered, Steps
<1>4. q \in Seq(Steps) /\ Len(q) = n
  BY <1>1, <1>2, <1>3
<1> HIDE DEF q
<1>5. StepsOf(q) = {Retain(k) : k \in ks}
  <2>1. \A i \in 1 .. n : q[i] = Retain(s[i])
    BY <1>2
  <2>2. StepsOf(q) = {Retain(s[i]) : i \in 1 .. n}
    BY <1>4, <2>1 DEF StepsOf
  <2>3. \A k \in ks : \E i \in 1 .. n : Retain(s[i]) = Retain(k)
    BY <1>1
  <2> QED
    BY <1>3, <2>2, <2>3
<1>6. \A i \in 1 .. Len(q) : q[i].op = "retain"
  BY <1>2, <1>4 DEF Retain
<1> QED
  BY <1>4, <1>5, <1>6 DEF q, s

LEMMA EachLocks ==
    ASSUME NEW ks, Numbered(ks)
    PROVE  LET q == Each(Lock, Sorted(ks)) IN
           /\ q \in Seq(Steps) /\ StepsOf(q) = {Lock(k) : k \in ks}
           /\ Len(q) = Cardinality(ks) /\ Len(q) \in Nat
           /\ \A i \in 1 .. Len(q) : q[i] = Lock(Sorted(ks)[i])
<1> DEFINE n == Cardinality(ks)  s == Sorted(ks)  q == Each(Lock, s)
<1>1. /\ n \in Nat /\ s \in [1 .. n -> ks] /\ Len(s) = n
      /\ \A k \in ks : \E i \in 1 .. n : s[i] = k
  BY SortedKeys
<1> HIDE DEF n, s
<1>2. q = [i \in 1 .. n |-> Lock(s[i])]
  BY <1>1 DEF Each
<1>3. \A i \in 1 .. n : s[i] \in ks /\ Lock(s[i]) \in Steps
  BY <1>1 DEF Numbered, Steps
<1>4. q \in Seq(Steps) /\ Len(q) = n
  BY <1>1, <1>2, <1>3
<1> HIDE DEF q
<1>5. \A i \in 1 .. n : q[i] = Lock(s[i])
  BY <1>2
<1>6. StepsOf(q) = {Lock(k) : k \in ks}
  <2>1. StepsOf(q) = {Lock(s[i]) : i \in 1 .. n}
    BY <1>4, <1>5 DEF StepsOf
  <2>2. \A k \in ks : \E i \in 1 .. n : Lock(s[i]) = Lock(k)
    BY <1>1
  <2> QED
    BY <1>3, <2>1, <2>2
<1> QED
  BY <1>1, <1>4, <1>5, <1>6 DEF q, s, n

-----------------------------------------------------------------------------
(* What may follow the steps of S.                                         *)

LEMMA RetainsFollow ==
    ASSUME NEW ks, Numbered(ks), NEW S, NEW depth
    PROVE  LET q == Each(Retain, Sorted(ks)) IN LeadsAfter(S, q, depth) /\ InsideAfter(S, q)
  BY EachRetains DEF LeadsAfter, MayFollow, InsideAfter

(* Locks below all of S, taken in the order of their numbers.              *)
LEMMA LocksFollow ==
    ASSUME NEW ks, Numbered(ks), NEW S, NEW depth,
           \A j, k \in ks : j[2] < k[2] => depth[j] > depth[k],
           \A r \in S : r.op = "lock" => \A k \in ks : depth[r.key] > depth[k]
    PROVE  LeadsAfter(S, Each(Lock, Sorted(ks)), depth)
<1> DEFINE n == Cardinality(ks)  s == Sorted(ks)  q == Each(Lock, s)
<1>1. /\ n \in Nat /\ s \in [1 .. n -> ks]
      /\ \A i, j \in 1 .. n : i < j => s[i][2] < s[j][2]
  BY SortedKeys
<1>2. Len(q) = n /\ \A i \in 1 .. n : q[i] = Lock(s[i])
  BY EachLocks
<1> HIDE DEF n, s, q
<1>3. ASSUME NEW i \in 1 .. n PROVE MayFollow(q[i], S \cup Before(q, i), depth)
  <2>1. q[i] = Lock(s[i]) /\ q[i].op = "lock" /\ q[i].key = s[i]
    BY <1>2 DEF Lock
  <2>2. ASSUME NEW r \in Before(q, i) PROVE depth[r.key] > depth[s[i]]
    <3>1. PICK j \in 1 .. (i - 1) : r = q[j]
      BY DEF Before
    <3>2. j \in 1 .. n /\ j < i
      BY <1>1
    <3>3. s[j] \in ks /\ s[i] \in ks /\ s[j][2] < s[i][2]
      BY <1>1, <3>2
    <3>4. r.key = s[j]
      BY <1>2, <3>1, <3>2 DEF Lock
    <3> QED
      BY <3>3, <3>4
  <2>3. ASSUME NEW r \in S, r.op = "lock" PROVE depth[r.key] > depth[s[i]]
    BY <1>1, <2>3
  <2> QED
    BY <2>1, <2>2, <2>3 DEF MayFollow
<1> QED
  BY <1>2, <1>3 DEF LeadsAfter, q, s

(* Re-entrant blocks.                                                      *)
LEMMA RepeatsFollow ==
    ASSUME NEW q, NEW S, NEW depth,
           \A s \in StepsOf(q) : s.op = "retain" \/ (s \in S /\ s.op \in {"lock", "enter"}),
           \A s \in S : s.op = "enter" => s = Enter
    PROVE  LeadsAfter(S, q, depth)
<1> SUFFICES ASSUME NEW i \in 1 .. Len(q)
             PROVE  MayFollow(q[i], S \cup Before(q, i), depth)
  BY DEF LeadsAfter
<1>1. q[i].op = "retain" \/ (q[i] \in S /\ q[i].op \in {"lock", "enter"})
  BY DEF StepsOf
<1> QED
  BY <1>1 DEF MayFollow

LEMMA EnterFollows ==
    ASSUME NEW S, NEW depth, \A s \in S : s.op = "retain"
    PROVE  LeadsAfter(S, <<Enter>>, depth)
<1>1. Len(<<Enter>>) = 1 /\ <<Enter>>[1] = Enter /\ Before(<<Enter>>, 1) = {}
  BY DEF Before
<1> QED
  BY <1>1 DEF LeadsAfter, MayFollow, Enter

(* A lock of its own below all of S: path() and creation().                *)
LEMMA PathFollows ==
    ASSUME NEW k, NEW S, NEW depth,
           \A r \in S : r.op = "lock" => depth[r.key] > depth[k]
    PROVE  LeadsAfter(S, Path(k), depth) /\ LeadsAfter(S, Creation(k), depth)
<1> DEFINE q == <<Retain(k), Lock(k)>>
<1>1. Len(q) = 2 /\ q[1] = Retain(k) /\ q[2] = Lock(k)
  OBVIOUS
<1>2. Before(q, 2) = {Retain(k)}
  BY <1>1 DEF Before
<1> HIDE DEF q
<1>3. MayFollow(q[1], S \cup Before(q, 1), depth)
  BY <1>1 DEF MayFollow, Retain
<1>4. MayFollow(q[2], S \cup Before(q, 2), depth)
  BY <1>1, <1>2 DEF MayFollow, Retain, Lock
<1>5. LeadsAfter(S, q, depth)
  BY <1>1, <1>3, <1>4 DEF LeadsAfter
<1> QED
  BY <1>5 DEF Path, Creation, q

(* A document of its own below all of S, inside a mutation: document().    *)
LEMMA DocumentFollows ==
    ASSUME NEW k, NEW S, NEW depth, Enter \in S,
           \A r \in S : r.op = "lock" => depth[r.key] > depth[k]
    PROVE  LeadsAfter(S, Document(k), depth)
<1> DEFINE q == <<Retain(k), Enter, Lock(k)>>
<1>1. Len(q) = 3 /\ q[1] = Retain(k) /\ q[2] = Enter /\ q[3] = Lock(k)
  OBVIOUS
<1>2. Before(q, 3) = {Retain(k), Enter}
  BY <1>1 DEF Before
<1> HIDE DEF q
<1>3. MayFollow(q[1], S \cup Before(q, 1), depth) /\ MayFollow(q[2], S \cup Before(q, 2), depth)
  BY <1>1 DEF MayFollow, Retain, Enter
<1>4. MayFollow(q[3], S \cup Before(q, 3), depth)
  BY <1>1, <1>2 DEF MayFollow, Retain, Lock, Enter
<1>5. \A i \in 1 .. Len(q) : i \in {1, 2, 3}
  BY <1>1
<1>6. LeadsAfter(S, q, depth)
  BY <1>3, <1>4, <1>5 DEF LeadsAfter
<1> QED
  BY <1>6 DEF Document, q

(* The steps of the blocks the pipelines are made of.                      *)
LEMMA StepsJoined ==
    ASSUME NEW T, NEW p \in Seq(T), NEW q \in Seq(T),
           NEW A, NEW B, StepsOf(p) = A, StepsOf(q) = B
    PROVE  p \o q \in Seq(T) /\ StepsOf(p \o q) = A \cup B
<1>1. p \o q \in Seq(T) /\ StepsOf(p \o q) = StepsOf(p) \cup StepsOf(q)
  BY JoinedSteps
<1> QED
  BY <1>1

(* The steps that lock after those of one kind.                            *)
LEMMA KeysOfSteps ==
    ASSUME NEW ks
    PROVE  /\ \A s \in {Retain(k) : k \in ks} : s.op = "retain"
           /\ \A s \in {Lock(k) : k \in ks} : s.op = "lock" /\ s.key \in ks
  BY DEF Retain, Lock

LEMMA DocumentsSteps ==
    ASSUME NEW ks, Numbered(ks)
    PROVE  /\ Documents(ks) \in Seq(Steps)
           /\ StepsOf(Documents(ks)) = {Retain(k) : k \in ks} \cup {Enter} \cup {Lock(k) : k \in ks}
<1> DEFINE a == Each(Retain, Sorted(ks))  b == <<Enter>>  c == Each(Lock, Sorted(ks))
           A == {Retain(k) : k \in ks}  C == {Lock(k) : k \in ks}
<1>1. a \in Seq(Steps) /\ StepsOf(a) = A
  BY EachRetains
<1>2. b \in Seq(Steps) /\ StepsOf(b) = {Enter}
  BY DEF Steps, StepsOf
<1>3. c \in Seq(Steps) /\ StepsOf(c) = C
  BY EachLocks
<1> HIDE DEF a, b, c, A, C
<1>4. a \o b \in Seq(Steps) /\ StepsOf(a \o b) = A \cup {Enter}
  BY <1>1, <1>2, StepsJoined
<1> DEFINE ab == a \o b  AB == A \cup {Enter}
<1>5. ab \o c \in Seq(Steps) /\ StepsOf(ab \o c) = AB \cup C
  <2> HIDE DEF ab, AB
  <2>1. ab \in Seq(Steps) /\ StepsOf(ab) = AB
    BY <1>4 DEF ab, AB
  <2> QED
    BY <1>3, <2>1, StepsJoined
<1>6. Documents(ks) = ab \o c
  BY DEF Documents, a, b, c
<1> QED
  BY <1>5, <1>6 DEF A, C

LEMMA PathsSteps ==
    ASSUME NEW ks, Numbered(ks)
    PROVE  /\ PathsOf(ks) \in Seq(Steps)
           /\ StepsOf(PathsOf(ks)) = {Retain(k) : k \in ks} \cup {Lock(k) : k \in ks}
<1> DEFINE a == Each(Retain, Sorted(ks))  c == Each(Lock, Sorted(ks))
<1>1. a \in Seq(Steps) /\ StepsOf(a) = {Retain(k) : k \in ks}
  BY EachRetains
<1>2. c \in Seq(Steps) /\ StepsOf(c) = {Lock(k) : k \in ks}
  BY EachLocks
<1> HIDE DEF a, c
<1>3. a \o c \in Seq(Steps) /\ StepsOf(a \o c) = {Retain(k) : k \in ks} \cup {Lock(k) : k \in ks}
  BY <1>1, <1>2, StepsJoined
<1>4. PathsOf(ks) = a \o c
  BY DEF PathsOf, a, c
<1> QED
  BY <1>3, <1>4

LEMMA OneKeySteps ==
    ASSUME NEW k \in Keys
    PROVE  /\ Path(k) \in Seq(Steps) /\ StepsOf(Path(k)) = {Retain(k), Lock(k)}
           /\ Creation(k) \in Seq(Steps) /\ StepsOf(Creation(k)) = {Retain(k), Lock(k)}
           /\ Document(k) \in Seq(Steps) /\ StepsOf(Document(k)) = {Retain(k), Enter, Lock(k)}
<1>1. Retain(k) \in Steps /\ Lock(k) \in Steps /\ Enter \in Steps
  BY DEF Steps
<1> DEFINE q == <<Retain(k), Lock(k)>>  r == <<Retain(k), Enter, Lock(k)>>
<1>2. q \in Seq(Steps) /\ Len(q) = 2 /\ q[1] = Retain(k) /\ q[2] = Lock(k)
  BY <1>1
<1>3. r \in Seq(Steps) /\ Len(r) = 3 /\ r[1] = Retain(k) /\ r[2] = Enter /\ r[3] = Lock(k)
  BY <1>1
<1> HIDE DEF q, r
<1>4. StepsOf(q) = {Retain(k), Lock(k)}
  <2>1. 1 .. Len(q) = {1, 2}
    BY <1>2
  <2> QED
    BY <1>2, <2>1 DEF StepsOf
<1>5. StepsOf(r) = {Retain(k), Enter, Lock(k)}
  <2>1. 1 .. Len(r) = {1, 2, 3}
    BY <1>3
  <2> QED
    BY <1>3, <2>1 DEF StepsOf
<1> QED
  BY <1>2, <1>3, <1>4, <1>5 DEF Path, Creation, Document, q, r

(* documents(): at the start of a pipeline.                                *)
LEMMA DocumentsLead ==
    ASSUME NEW ks, Numbered(ks), NEW depth,
           \A j, k \in ks : j[2] < k[2] => depth[j] > depth[k]
    PROVE  LeadsAfter({}, Documents(ks), depth)
<1> DEFINE a == Each(Retain, Sorted(ks))  b == <<Enter>>  c == Each(Lock, Sorted(ks))
<1>1. a \in Seq(Steps) /\ StepsOf(a) = {Retain(k) : k \in ks}
  BY EachRetains
<1>2. b \in Seq(Steps) /\ StepsOf(b) = {Enter}
  BY DEF Steps, StepsOf
<1>3. c \in Seq(Steps)
  BY EachLocks
<1>4. LeadsAfter({}, a, depth)
  BY RetainsFollow
<1>5. LeadsAfter({} \cup StepsOf(a), b, depth)
  <2>1. \A s \in StepsOf(a) : s.op = "retain"
    BY <1>1, KeysOfSteps
  <2>2. LeadsAfter(StepsOf(a), b, depth)
    BY <2>1, EnterFollows
  <2> QED
    BY <2>2
<1>6. a \o b \in Seq(Steps) /\ StepsOf(a \o b) = {Retain(k) : k \in ks} \cup {Enter}
  <2> HIDE DEF a, b
  <2> QED
    BY <1>1, <1>2, StepsJoined
<1>7. LeadsAfter({} \cup StepsOf(a \o b), c, depth)
  <2>1. \A s \in StepsOf(a \o b) : s.op # "lock"
    <3>1. \A s \in {Retain(k) : k \in ks} : s.op # "lock"
      BY KeysOfSteps
    <3>2. Enter.op # "lock"
      BY DEF Enter
    <3> HIDE DEF a, b
    <3> QED
      BY <1>6, <3>1, <3>2
  <2>2. LeadsAfter(StepsOf(a \o b), c, depth)
    BY <2>1, LocksFollow
  <2> QED
    BY <2>2
<1> HIDE DEF a, b, c
<1>8. LeadsAfter({}, a \o b, depth)
  BY <1>1, <1>2, <1>4, <1>5, LeadsJoined
<1>9. LeadsAfter({}, (a \o b) \o c, depth)
  BY <1>3, <1>6, <1>7, <1>8, LeadsJoined
<1>10. Documents(ks) = (a \o b) \o c
  BY DEF Documents, a, b, c
<1> QED
  BY <1>9, <1>10

(* paths(): below what is locked already.                                  *)
LEMMA PathsLead ==
    ASSUME NEW ks, Numbered(ks), NEW S, NEW depth,
           \A j, k \in ks : j[2] < k[2] => depth[j] > depth[k],
           \A r \in S : r.op = "lock" => \A k \in ks : depth[r.key] > depth[k]
    PROVE  LeadsAfter(S, PathsOf(ks), depth)
<1> DEFINE a == Each(Retain, Sorted(ks))  c == Each(Lock, Sorted(ks))
<1>1. a \in Seq(Steps) /\ StepsOf(a) = {Retain(k) : k \in ks}
  BY EachRetains
<1>2. c \in Seq(Steps)
  BY EachLocks
<1>3. LeadsAfter(S, a, depth)
  BY RetainsFollow
<1>4. \A r \in S \cup StepsOf(a) : r.op = "lock" => r \in S
  BY <1>1, KeysOfSteps
<1>5. LeadsAfter(S \cup StepsOf(a), c, depth)
  <2> HIDE DEF a
  <2> QED
    BY <1>4, LocksFollow
<1> HIDE DEF a, c
<1>6. LeadsAfter(S, a \o c, depth)
  BY <1>1, <1>2, <1>3, <1>5, LeadsJoined
<1> QED
  BY <1>6 DEF PathsOf, a, c

(* The same inside a mutation, for DocumentsAreLockedInside.               *)
LEMMA DocumentsInside ==
    ASSUME NEW ks, Numbered(ks)
    PROVE  InsideAfter({}, Documents(ks))
<1> DEFINE a == Each(Retain, Sorted(ks))  b == <<Enter>>  c == Each(Lock, Sorted(ks))
<1>1. a \in Seq(Steps) /\ StepsOf(a) = {Retain(k) : k \in ks}
  BY EachRetains
<1>2. b \in Seq(Steps) /\ StepsOf(b) = {Enter}
  BY DEF Steps, StepsOf
<1>3. c \in Seq(Steps)
  BY EachLocks
<1>4. InsideAfter({}, a)
  BY RetainsFollow
<1>5. InsideAfter({} \cup StepsOf(a), b)
  BY DEF InsideAfter, Enter
<1>6. a \o b \in Seq(Steps) /\ StepsOf(a \o b) = {Retain(k) : k \in ks} \cup {Enter}
  <2> HIDE DEF a, b
  <2> QED
    BY <1>1, <1>2, StepsJoined
<1>7. InsideAfter({} \cup StepsOf(a \o b), c)
  BY <1>6 DEF InsideAfter
<1> HIDE DEF a, b, c
<1>8. InsideAfter({}, a \o b)
  BY <1>1, <1>2, <1>4, <1>5, InsideJoined
<1>9. InsideAfter({}, (a \o b) \o c)
  BY <1>3, <1>6, <1>7, <1>8, InsideJoined
<1> QED
  BY <1>9 DEF Documents, a, b, c

LEMMA PathsInside ==
    ASSUME NEW ks, Numbered(ks), ks \cap DocumentKeys = {}, NEW S
    PROVE  InsideAfter(S, PathsOf(ks))
<1> SUFFICES ASSUME NEW i \in 1 .. Len(PathsOf(ks)), PathsOf(ks)[i].op = "lock",
                    PathsOf(ks)[i].key \in DocumentKeys
             PROVE  FALSE
  BY DEF InsideAfter
<1>1. PathsOf(ks)[i] \in {Retain(k) : k \in ks} \cup {Lock(k) : k \in ks}
  BY PathsSteps DEF StepsOf
<1> QED
  BY <1>1 DEF Retain, Lock

LEMMA OneKeyInside ==
    ASSUME NEW k \in Keys, NEW S
    PROVE  /\ InsideAfter(S, Document(k))
           /\ k \notin DocumentKeys => InsideAfter(S, Path(k)) /\ InsideAfter(S, Creation(k))
<1> DEFINE q == <<Retain(k), Lock(k)>>  r == <<Retain(k), Enter, Lock(k)>>
<1>1. Len(q) = 2 /\ q[1] = Retain(k) /\ q[2] = Lock(k)
  OBVIOUS
<1>2. Len(r) = 3 /\ r[1] = Retain(k) /\ r[2] = Enter /\ r[3] = Lock(k)
  OBVIOUS
<1> HIDE DEF q, r
<1>3. InsideAfter(S, r)
  <2>1. Enter \in Before(r, 3)
    BY <1>2 DEF Before
  <2>2. \A i \in 1 .. Len(r) : i \in {1, 2, 3}
    BY <1>2
  <2> QED
    BY <1>2, <2>1, <2>2 DEF InsideAfter, Retain, Enter
<1>4. k \notin DocumentKeys => InsideAfter(S, q)
  <2>1. \A i \in 1 .. Len(q) : i \in {1, 2}
    BY <1>1
  <2> QED
    BY <1>1, <2>1 DEF InsideAfter, Retain, Lock
<1> QED
  BY <1>3, <1>4 DEF Path, Creation, Document, q, r

(* The keys a set of steps locks are among those of K.                     *)
LocksOnly(S, K) ==
    \A s \in S : /\ s.op = "lock" => s.key \in K
                 /\ s.op = "enter" => s = Enter

LEMMA LocksOfBoth ==
    ASSUME NEW A, NEW B, NEW J, NEW K, LocksOnly(A, J), LocksOnly(B, K)
    PROVE  LocksOnly(A \cup B, J \cup K)
  BY DEF LocksOnly

LEMMA StepOps ==
    ASSUME NEW k
    PROVE  /\ Retain(k).op = "retain" /\ Lock(k).op = "lock" /\ Lock(k).key = k
           /\ Enter.op = "enter" /\ Exclusive.op = "exclusive"
  BY DEF Retain, Lock, Enter, Exclusive

LEMMA DocumentsLock ==
    ASSUME NEW ks, Numbered(ks)
    PROVE  /\ LocksOnly(StepsOf(Documents(ks)), ks)
           /\ Enter \in StepsOf(Documents(ks))
           /\ \A k \in ks : Lock(k) \in StepsOf(Documents(ks))
<1> DEFINE A == {Retain(k) : k \in ks}  C == {Lock(k) : k \in ks}
<1>1. StepsOf(Documents(ks)) = A \cup {Enter} \cup C
  BY DocumentsSteps
<1>2. LocksOnly(A, ks) /\ LocksOnly({Enter}, ks) /\ LocksOnly(C, ks)
  BY StepOps DEF LocksOnly
<1>3. \A k \in ks : Lock(k) \in C
  OBVIOUS
<1> HIDE DEF A, C
<1>4. LocksOnly(A \cup {Enter} \cup C, ks)
  BY <1>2 DEF LocksOnly
<1> QED
  BY <1>1, <1>3, <1>4

LEMMA PathsLock ==
    ASSUME NEW ks, Numbered(ks)
    PROVE  /\ LocksOnly(StepsOf(PathsOf(ks)), ks)
           /\ \A k \in ks : Lock(k) \in StepsOf(PathsOf(ks))
<1> DEFINE A == {Retain(k) : k \in ks}  C == {Lock(k) : k \in ks}
<1>1. StepsOf(PathsOf(ks)) = A \cup C
  BY PathsSteps
<1>2. LocksOnly(A, ks) /\ LocksOnly(C, ks)
  BY StepOps DEF LocksOnly
<1>3. \A k \in ks : Lock(k) \in C
  OBVIOUS
<1> HIDE DEF A, C
<1>4. LocksOnly(A \cup C, ks)
  BY <1>2 DEF LocksOnly
<1> QED
  BY <1>1, <1>3, <1>4

LEMMA OneKeyLocks ==
    ASSUME NEW k \in Keys
    PROVE  /\ LocksOnly(StepsOf(Path(k)), {k}) /\ LocksOnly(StepsOf(Creation(k)), {k})
           /\ LocksOnly(StepsOf(Document(k)), {k})
           /\ Lock(k) \in StepsOf(Path(k)) /\ Lock(k) \in StepsOf(Document(k))
<1>1. LocksOnly({Retain(k), Lock(k)}, {k}) /\ LocksOnly({Retain(k), Enter, Lock(k)}, {k})
  BY StepOps DEF LocksOnly
<1> QED
  BY <1>1, OneKeySteps

(* What comes again after what it is part of.                              *)
LEMMA AgainFollows ==
    ASSUME NEW k \in Keys, NEW S, NEW K, NEW depth, LocksOnly(S, K), Lock(k) \in S
    PROVE  /\ LeadsAfter(S, Path(k), depth)
           /\ Enter \in S => LeadsAfter(S, Document(k), depth)
<1>1. \A s \in S : s.op = "enter" => s = Enter
  BY DEF LocksOnly
<1>2. \A s \in StepsOf(Path(k)) : s.op = "retain" \/ (s \in S /\ s.op \in {"lock", "enter"})
  BY OneKeySteps, StepOps
<1>3. ASSUME Enter \in S
      PROVE  \A s \in StepsOf(Document(k)) : s.op = "retain" \/ (s \in S /\ s.op \in {"lock", "enter"})
  BY <1>3, OneKeySteps, StepOps
<1> QED
  BY <1>1, <1>2, <1>3, RepeatsFollow

LEMMA PathsAgain ==
    ASSUME NEW ks, Numbered(ks), NEW S, NEW K, NEW depth, LocksOnly(S, K),
           \A k \in ks : Lock(k) \in S
    PROVE  LeadsAfter(S, PathsOf(ks), depth)
<1>1. \A s \in S : s.op = "enter" => s = Enter
  BY DEF LocksOnly
<1>2. ASSUME NEW s \in StepsOf(PathsOf(ks))
      PROVE  s.op = "retain" \/ (s \in S /\ s.op \in {"lock", "enter"})
  <2>1. (\E k \in ks : s = Retain(k)) \/ (\E k \in ks : s = Lock(k))
    BY PathsSteps
  <2> QED
    BY <2>1, StepOps
<1> QED
  BY <1>1, <1>2, RepeatsFollow

-----------------------------------------------------------------------------
(* The depths of the callers' keys: the documents they know, the paths,    *)
(* the creation keys, the documents they create.                           *)
Descends(depth, documents, paths, creations, created) ==
    /\ \A j, k \in documents : j[2] < k[2] => depth[j] > depth[k]
    /\ \A j, k \in paths : j[2] < k[2] => depth[j] > depth[k]
    /\ \A d \in documents : \A k \in paths \cup creations \cup created : depth[d] > depth[k]
    /\ \A p \in paths : \A k \in creations \cup created : depth[p] > depth[k]
    /\ \A c \in creations : \A k \in created : depth[c] > depth[k]

LEMMA SubsetsNumbered ==
    ASSUME NEW ks, Numbered(ks), NEW js \in SUBSET ks
    PROVE  Numbered(js)
  BY FS_Subset DEF Numbered

LEMMA LeadsOn ==
    ASSUME NEW T, NEW p \in Seq(T), NEW q \in Seq(T), NEW S, NEW depth,
           S = StepsOf(p), LeadsAfter({}, p, depth), LeadsAfter(S, q, depth)
    PROVE  /\ p \o q \in Seq(T) /\ StepsOf(p \o q) = S \cup StepsOf(q)
           /\ LeadsAfter({}, p \o q, depth)
<1>1. LeadsAfter({} \cup StepsOf(p), q, depth)
  OBVIOUS
<1>2. LeadsAfter({}, p \o q, depth)
  BY <1>1, LeadsJoined
<1> QED
  BY <1>2, StepsJoined

LEMMA WriteLeads ==
    ASSUME NEW D, NEW P, NEW C, NEW N, NEW depth, Numbered(D), Numbered(P),
           Descends(depth, D, P, C, N), NEW d \in D, NEW ps \in SUBSET P
    PROVE  LeadsAfter({}, WriteDocument(d, ps), depth)
<1>1. Numbered({d}) /\ Numbered(ps) /\ d \in Keys
  BY SubsetsNumbered DEF Numbered
<1> DEFINE a == Documents({d})  b == PathsOf(ps)  c == Document(d)
<1>2. a \in Seq(Steps) /\ b \in Seq(Steps) /\ c \in Seq(Steps)
  BY <1>1, DocumentsSteps, PathsSteps, OneKeySteps
<1>3. /\ LocksOnly(StepsOf(a), {d}) /\ Enter \in StepsOf(a) /\ Lock(d) \in StepsOf(a)
      /\ LocksOnly(StepsOf(b), ps)
  BY <1>1, DocumentsLock, PathsLock
<1>4. LeadsAfter({}, a, depth)
  BY <1>1, DocumentsLead DEF Descends
<1>5. LeadsAfter(StepsOf(a), b, depth)
  <2>1. \A r \in StepsOf(a) : r.op = "lock" => \A k \in ps : depth[r.key] > depth[k]
    BY <1>3 DEF LocksOnly, Descends
  <2>2. \A j, k \in ps : j[2] < k[2] => depth[j] > depth[k]
    BY DEF Descends
  <2> QED
    BY <1>1, <2>1, <2>2, PathsLead
<1>6. LeadsAfter(StepsOf(a) \cup StepsOf(b), c, depth)
  BY <1>1, <1>3, LocksOfBoth, AgainFollows
<1> HIDE DEF a, b, c
<1>7. b \o c \in Seq(Steps)
  BY <1>2, StepsJoined
<1>8. LeadsAfter(StepsOf(a), b \o c, depth)
  BY <1>2, <1>5, <1>6, LeadsJoined
<1>9. LeadsAfter({}, a \o (b \o c), depth)
  <2>1. LeadsAfter({} \cup StepsOf(a), b \o c, depth)
    BY <1>8
  <2> HIDE DEF a, b, c
  <2> QED
    BY <1>2, <1>4, <1>7, <2>1, LeadsJoined
<1> QED
  BY <1>9 DEF WriteDocument, AppendRevision, a, b, c

LEMMA DuplicateLeads ==
    ASSUME NEW D, NEW P, NEW C, NEW N, NEW depth, Numbered(D), Numbered(P),
           C \subseteq Keys, N \subseteq Keys, Descends(depth, D, P, C, N),
           NEW d \in D, NEW ps \in SUBSET P, NEW p \in ps, NEW c \in C, NEW new \in N
    PROVE  LeadsAfter({}, DuplicateDocument(d, ps, c, p, new), depth)
<1>1. Numbered({d}) /\ Numbered(ps) /\ Numbered({p}) /\ p \in P /\ p \in Keys
  BY SubsetsNumbered DEF Numbered
<1> DEFINE a == Documents({d})  b == PathsOf(ps)  e == Creation(c)
           f == PathsOf({p})  g == Document(new)
<1>2. /\ a \in Seq(Steps) /\ b \in Seq(Steps) /\ e \in Seq(Steps)
      /\ f \in Seq(Steps) /\ g \in Seq(Steps)
  BY <1>1, DocumentsSteps, PathsSteps, OneKeySteps
<1>3. /\ LocksOnly(StepsOf(a), {d}) /\ Enter \in StepsOf(a)
      /\ LocksOnly(StepsOf(b), ps) /\ Lock(p) \in StepsOf(b)
      /\ LocksOnly(StepsOf(e), {c}) /\ LocksOnly(StepsOf(f), {p})
  BY <1>1, DocumentsLock, PathsLock, OneKeyLocks
<1>4. LeadsAfter({}, a, depth)
  BY <1>1, DocumentsLead DEF Descends
<1> DEFINE S1 == StepsOf(a)  S2 == S1 \cup StepsOf(b)  S3 == S2 \cup StepsOf(e)
           S4 == S3 \cup StepsOf(f)
<1>5. LeadsAfter(S1, b, depth)
  <2>1. \A r \in S1 : r.op = "lock" => \A k \in ps : depth[r.key] > depth[k]
    BY <1>3 DEF LocksOnly, Descends
  <2>2. \A j, k \in ps : j[2] < k[2] => depth[j] > depth[k]
    BY DEF Descends
  <2> QED
    BY <1>1, <2>1, <2>2, PathsLead
<1>6. LocksOnly(S2, {d} \cup ps)
  BY <1>3, LocksOfBoth
<1>7. LeadsAfter(S2, e, depth)
  <2>1. \A r \in S2 : r.op = "lock" => depth[r.key] > depth[c]
    BY <1>6 DEF LocksOnly, Descends
  <2> QED
    BY <2>1, PathFollows
<1>8. LocksOnly(S3, ({d} \cup ps) \cup {c})
  BY <1>3, <1>6, LocksOfBoth
<1>9. LeadsAfter(S3, f, depth)
  BY <1>1, <1>3, <1>8, PathsAgain
<1>10. LocksOnly(S4, (({d} \cup ps) \cup {c}) \cup {p})
  BY <1>3, <1>8, LocksOfBoth
<1>11. LeadsAfter(S4, g, depth)
  <2>1. \A r \in S4 : r.op = "lock" => depth[r.key] > depth[new]
    BY <1>1, <1>10 DEF LocksOnly, Descends
  <2> QED
    BY <1>3, <2>1, DocumentFollows
<1>12. /\ S1 = StepsOf(a) /\ S2 = S1 \cup StepsOf(b) /\ S3 = S2 \cup StepsOf(e)
       /\ S4 = S3 \cup StepsOf(f)
  OBVIOUS
<1> HIDE DEF a, b, e, f, g, S1, S2, S3, S4
<1> DEFINE ab == a \o b  abe == ab \o e  abef == abe \o f
<1>13. ab \in Seq(Steps) /\ StepsOf(ab) = S2 /\ LeadsAfter({}, ab, depth)
  BY <1>2, <1>4, <1>5, <1>12, LeadsOn
<1> HIDE DEF ab
<1>14. abe \in Seq(Steps) /\ StepsOf(abe) = S3 /\ LeadsAfter({}, abe, depth)
  <2>1. S2 = StepsOf(ab)
    BY <1>13
  <2>2. /\ ab \o e \in Seq(Steps) /\ StepsOf(ab \o e) = S2 \cup StepsOf(e)
        /\ LeadsAfter({}, ab \o e, depth)
    BY <1>2, <1>7, <1>13, <2>1, LeadsOn
  <2> QED
    BY <1>12, <2>2
<1> HIDE DEF abe
<1>15. abef \in Seq(Steps) /\ StepsOf(abef) = S4 /\ LeadsAfter({}, abef, depth)
  <2>1. S3 = StepsOf(abe)
    BY <1>14
  <2>2. /\ abe \o f \in Seq(Steps) /\ StepsOf(abe \o f) = S3 \cup StepsOf(f)
        /\ LeadsAfter({}, abe \o f, depth)
    BY <1>2, <1>9, <1>14, <2>1, LeadsOn
  <2> QED
    BY <1>12, <2>2
<1> HIDE DEF abef
<1>16. LeadsAfter({}, abef \o g, depth)
  BY <1>2, <1>11, <1>15, LeadsOn
<1> QED
  BY <1>16 DEF DuplicateDocument, a, b, e, f, g, ab, abe, abef

LEMMA ReplayLeads ==
    ASSUME NEW D, NEW P, NEW C, NEW N, NEW depth, Numbered(D), Numbered(P),
           Descends(depth, D, P, C, N), NEW d \in D, NEW new \in D, NEW p \in P
    PROVE  LeadsAfter({}, ReplayDuplicate(d, new, p), depth)
<1>1. Numbered({d, new}) /\ new \in Keys /\ p \in Keys
  BY SubsetsNumbered DEF Numbered
<1> DEFINE a == Documents({d, new})  b == Document(new)  c == Path(p)
<1>2. a \in Seq(Steps) /\ b \in Seq(Steps) /\ c \in Seq(Steps)
  BY <1>1, DocumentsSteps, OneKeySteps
<1>3. /\ LocksOnly(StepsOf(a), {d, new}) /\ Enter \in StepsOf(a) /\ Lock(new) \in StepsOf(a)
      /\ LocksOnly(StepsOf(b), {new}) /\ LocksOnly(StepsOf(c), {p})
  BY <1>1, DocumentsLock, OneKeyLocks
<1>4. LeadsAfter({}, a, depth)
  BY <1>1, DocumentsLead DEF Descends
<1> DEFINE S1 == StepsOf(a)  S2 == S1 \cup StepsOf(b)  S3 == S2 \cup StepsOf(c)
<1>5. LeadsAfter(S1, b, depth)
  BY <1>1, <1>3, AgainFollows
<1>6. LocksOnly(S2, {d, new} \cup {new})
  BY <1>3, LocksOfBoth
<1>7. LeadsAfter(S2, c, depth)
  <2>1. \A r \in S2 : r.op = "lock" => depth[r.key] > depth[p]
    BY <1>6 DEF LocksOnly, Descends
  <2> QED
    BY <2>1, PathFollows
<1>8. LocksOnly(S3, ({d, new} \cup {new}) \cup {p})
  BY <1>3, <1>6, LocksOfBoth
<1>9. LeadsAfter(S3, b, depth)
  BY <1>1, <1>3, <1>8, AgainFollows
<1> HIDE DEF a, b, c
<1> DEFINE ab == a \o b  cb == c \o b
<1>10. ab \in Seq(Steps) /\ StepsOf(ab) = S2 /\ LeadsAfter({}, ab, depth)
  BY <1>2, <1>4, <1>5, StepsJoined, LeadsJoined
<1> HIDE DEF ab, S2
<1>11. cb \in Seq(Steps) /\ LeadsAfter(S2, cb, depth)
  BY <1>2, <1>7, <1>9, StepsJoined, LeadsJoined
<1> HIDE DEF cb
<1>12. LeadsAfter({}, ab \o cb, depth)
  BY <1>10, <1>11, LeadsJoined
<1> QED
  BY <1>12 DEF ReplayDuplicate, FinishMaterialization, a, b, c, ab, cb

-----------------------------------------------------------------------------
(* The same pipelines, for what is locked inside a mutation.               *)

LEMMA InsideOn ==
    ASSUME NEW T, NEW p \in Seq(T), NEW q \in Seq(T), InsideAfter({}, p),
           \A S : InsideAfter(S, q)
    PROVE  p \o q \in Seq(T) /\ InsideAfter({}, p \o q)
<1>1. InsideAfter({} \cup StepsOf(p), q)
  OBVIOUS
<1> QED
  BY <1>1, InsideJoined, StepsJoined

(* The keys the pipelines are over, numbered up to N.                      *)
CallersKeys(N, documents, created, paths, creations) ==
    /\ N \in Nat
    /\ documents \cup created \subseteq {DocumentKey(n) : n \in 0 .. N}
    /\ paths \subseteq {PathKey(n) : n \in 0 .. N}
    /\ creations \subseteq {CreationKey(n) : n \in 0 .. N}
    /\ DocumentKeys = documents \cup created
    /\ paths \cup creations \subseteq Keys

LEMMA NumberedKeys ==
    ASSUME NEW N \in Nat, NEW kind, NEW ks \in SUBSET Keys,
           ks \subseteq {<<kind, n>> : n \in 0 .. N}
    PROVE  Numbered(ks) /\ \A k \in ks : k[1] = kind
<1>1. \A k \in ks : k[1] = kind /\ k[2] \in 0 .. N /\ k = <<k[1], k[2]>>
  OBVIOUS
<1>2. IsFiniteSet({kind} \X (0 .. N))
  <2>1. IsFiniteSet({kind}) /\ IsFiniteSet(0 .. N)
    <3>1. 0 \in Int /\ N \in Int
      OBVIOUS
    <3> QED
      BY <3>1, FS_Singleton, FS_Interval
  <2> QED
    BY <2>1, FS_Product
<1>3. ks \subseteq {kind} \X (0 .. N)
  BY <1>1
<1>4. IsFiniteSet(ks)
  BY <1>2, <1>3, FS_Subset
<1>5. \A j, k \in ks : j[2] = k[2] => j = k
  BY <1>1
<1> QED
  BY <1>1, <1>4, <1>5 DEF Numbered

LEMMA CallersNumbered ==
    ASSUME NEW N, NEW documents, NEW created, NEW paths, NEW creations,
           CallersKeys(N, documents, created, paths, creations)
    PROVE  /\ Numbered(documents) /\ Numbered(paths)
           /\ created \subseteq Keys /\ creations \subseteq Keys
           /\ \A k \in documents \cup created : k[1] = "document"
           /\ \A k \in paths : k[1] = "path"
           /\ \A k \in creations : k[1] = "creation"
           /\ (paths \cup creations) \cap DocumentKeys = {}
<1>1. N \in Nat /\ DocumentKeys = documents \cup created
  BY DEF CallersKeys
<1>2. documents \cup created \subseteq Keys /\ paths \subseteq Keys /\ creations \subseteq Keys
  BY CoordinatorAssumption DEF CallersKeys
<1>3. Numbered(documents \cup created) /\ \A k \in documents \cup created : k[1] = "document"
  <2>1. documents \cup created \subseteq {<<"document", n>> : n \in 0 .. N}
    BY DEF CallersKeys, DocumentKey
  <2> QED
    BY <1>1, <1>2, <2>1, NumberedKeys
<1>4. Numbered(paths) /\ \A k \in paths : k[1] = "path"
  <2>1. paths \subseteq {<<"path", n>> : n \in 0 .. N}
    BY DEF CallersKeys, PathKey
  <2> QED
    BY <1>1, <1>2, <2>1, NumberedKeys
<1>5. \A k \in creations : k[1] = "creation"
  <2>1. creations \subseteq {<<"creation", n>> : n \in 0 .. N}
    BY DEF CallersKeys, CreationKey
  <2> QED
    BY <1>1, <1>2, <2>1, NumberedKeys
<1>6. Numbered(documents)
  BY <1>3, SubsetsNumbered
<1>7. \A k \in paths \cup creations : k \notin documents \cup created
  BY <1>3, <1>4, <1>5
<1> QED
  BY <1>1, <1>2, <1>3, <1>4, <1>5, <1>6, <1>7

LEMMA DocumentFirstCases ==
    ASSUME NEW D, NEW W, NEW P, NEW C, NEW q \in DocumentFirst(D, W, P, C)
    PROVE  \/ \E d \in D, ps \in SUBSET P : q = WriteDocument(d, ps)
           \/ \E ps \in SUBSET P : \E d \in D, c \in C, p \in ps, new \in W :
                 q = DuplicateDocument(d, ps, c, p, new)
           \/ \E d \in D, new \in D, p \in P : q = ReplayDuplicate(d, new, p)
           \/ \E p \in P : q = CreateFolder(p)
           \/ q = RenameFolder \/ q = Backup
<1> DEFINE F == {CreateFolder(f) : f \in P}
<1>1. \/ q \in Writes(D, P) \/ q \in Duplicates(D, W, P, C) \/ q \in Replays(D, P)
      \/ q \in F \/ q \in {RenameFolder, Backup}
  BY DEF DocumentFirst
<1>2. q \in F => \E p \in P : q = CreateFolder(p)
  OBVIOUS
<1> HIDE DEF F
<1>3. q \in Writes(D, P) => \E d \in D, ps \in SUBSET P : q = WriteDocument(d, ps)
  BY DEF Writes
<1>4. q \in Duplicates(D, W, P, C) =>
         \E ps \in SUBSET P : \E d \in D, c \in C, p \in ps, new \in W :
            q = DuplicateDocument(d, ps, c, p, new)
  BY DEF Duplicates
<1>5. q \in Replays(D, P) =>
         \E d \in D, new \in D, p \in P : q = ReplayDuplicate(d, new, p)
  BY DEF Replays
<1> QED
  BY <1>1, <1>2, <1>3, <1>4, <1>5

LEMMA PathFirstCases ==
    ASSUME NEW D, NEW W, NEW P, NEW C, NEW q \in PathFirst(D, W, P, C)
    PROVE  \/ \E c \in C, p \in P, d \in W : q = CreateDocument(c, p, d)
           \/ \E d \in D, p \in P : q = RematerializeDocument(d, p)
  BY DEF PathFirst

LEMMA PipelinesInside ==
    ASSUME NEW N, NEW D, NEW W, NEW P, NEW C,
           CallersKeys(N, D, W, P, C),
           NEW q \in DocumentFirst(D, W, P, C)
                       \cup PathFirst(D, W, P, C)
    PROVE  InsideAfter({}, q)
<1>1. /\ Numbered(D) /\ Numbered(P) /\ W \subseteq Keys /\ C \subseteq Keys
      /\ P \cap DocumentKeys = {} /\ C \cap DocumentKeys = {}
      /\ P \subseteq Keys /\ D \subseteq Keys
  BY CallersNumbered DEF Numbered
<1>3. \A S : \A k \in D \cup W : Document(k) \in Seq(Steps) /\ InsideAfter(S, Document(k))
  BY <1>1, OneKeySteps, OneKeyInside
<1>4. \A S : \A k \in P : Path(k) \in Seq(Steps) /\ InsideAfter(S, Path(k))
  BY <1>1, OneKeySteps, OneKeyInside
<1>5. \A S : \A k \in C : Creation(k) \in Seq(Steps) /\ InsideAfter(S, Creation(k))
  BY <1>1, OneKeySteps, OneKeyInside
<1>6. \A S : \A ks \in SUBSET P : PathsOf(ks) \in Seq(Steps) /\ InsideAfter(S, PathsOf(ks))
  <2> SUFFICES ASSUME NEW ks \in SUBSET P, NEW S
               PROVE  PathsOf(ks) \in Seq(Steps) /\ InsideAfter(S, PathsOf(ks))
    OBVIOUS
  <2>1. Numbered(ks) /\ ks \cap DocumentKeys = {}
    BY <1>1, SubsetsNumbered
  <2> QED
    BY <2>1, PathsSteps, PathsInside
<1>7. \A ks \in SUBSET D : Documents(ks) \in Seq(Steps) /\ InsideAfter({}, Documents(ks))
  BY <1>1, SubsetsNumbered, DocumentsSteps, DocumentsInside
<1>8. ASSUME NEW d \in D, NEW ps \in SUBSET P, q = WriteDocument(d, ps) PROVE InsideAfter({}, q)
  <2> DEFINE a == Documents({d})  b == PathsOf(ps)  c == Document(d)
  <2>1. a \in Seq(Steps) /\ InsideAfter({}, a)
    BY <1>7
  <2>2. b \in Seq(Steps) /\ \A S : InsideAfter(S, b)
    BY <1>6
  <2>3. c \in Seq(Steps) /\ \A S : InsideAfter(S, c)
    BY <1>3
  <2> HIDE DEF a, b, c
  <2>4. b \o c \in Seq(Steps) /\ \A S : InsideAfter(S, b \o c)
    BY <2>2, <2>3, InsideJoined, StepsJoined
  <2>5. InsideAfter({}, a \o (b \o c))
    <3> DEFINE bc == b \o c
    <3>1. bc \in Seq(Steps) /\ \A S : InsideAfter(S, bc)
      BY <2>4
    <3> HIDE DEF bc
    <3>2. InsideAfter({}, a \o bc)
      BY <2>1, <3>1, InsideOn
    <3> QED
      BY <3>2 DEF bc
  <2> QED
    BY <1>8, <2>5 DEF WriteDocument, AppendRevision, a, b, c
<1>9. ASSUME NEW d \in D, NEW ps \in SUBSET P, NEW p \in ps, NEW c \in C, NEW new \in W,
             q = DuplicateDocument(d, ps, c, p, new)
      PROVE  InsideAfter({}, q)
  <2> DEFINE a == Documents({d})  b == PathsOf(ps)  e == Creation(c)
             f == PathsOf({p})  g == Document(new)
  <2>1. a \in Seq(Steps) /\ InsideAfter({}, a)
    BY <1>7
  <2>2. b \in Seq(Steps) /\ \A S : InsideAfter(S, b)
    BY <1>6
  <2>3. e \in Seq(Steps) /\ \A S : InsideAfter(S, e)
    BY <1>5
  <2>4. f \in Seq(Steps) /\ \A S : InsideAfter(S, f)
    BY <1>6
  <2>5. g \in Seq(Steps) /\ \A S : InsideAfter(S, g)
    BY <1>3
  <2> HIDE DEF a, b, e, f, g
  <2> DEFINE ab == a \o b  abe == ab \o e  abef == abe \o f
  <2>6. ab \in Seq(Steps) /\ InsideAfter({}, ab)
    BY <2>1, <2>2, InsideOn
  <2> HIDE DEF ab
  <2>7. abe \in Seq(Steps) /\ InsideAfter({}, abe)
    BY <2>3, <2>6, InsideOn
  <2> HIDE DEF abe
  <2>8. abef \in Seq(Steps) /\ InsideAfter({}, abef)
    BY <2>4, <2>7, InsideOn
  <2> HIDE DEF abef
  <2>9. InsideAfter({}, abef \o g)
    BY <2>5, <2>8, InsideOn
  <2> QED
    BY <1>9, <2>9 DEF DuplicateDocument, a, b, e, f, g, ab, abe, abef
<1>10. ASSUME NEW d \in D, NEW new \in D, NEW p \in P, q = ReplayDuplicate(d, new, p)
       PROVE  InsideAfter({}, q)
  <2> DEFINE a == Documents({d, new})  b == Document(new)  c == Path(p)
  <2>1. a \in Seq(Steps) /\ InsideAfter({}, a)
    BY <1>7
  <2>2. b \in Seq(Steps) /\ \A S : InsideAfter(S, b)
    BY <1>3
  <2>3. c \in Seq(Steps) /\ \A S : InsideAfter(S, c)
    BY <1>4
  <2> HIDE DEF a, b, c
  <2> DEFINE ab == a \o b  cb == c \o b
  <2>4. ab \in Seq(Steps) /\ InsideAfter({}, ab)
    BY <2>1, <2>2, InsideOn
  <2>5. cb \in Seq(Steps) /\ \A S : InsideAfter(S, cb)
    BY <2>2, <2>3, InsideJoined, StepsJoined
  <2> HIDE DEF ab, cb
  <2>6. InsideAfter({}, ab \o cb)
    BY <2>4, <2>5, InsideOn
  <2> QED
    BY <1>10, <2>6 DEF ReplayDuplicate, FinishMaterialization, a, b, c, ab, cb
<1>11. ASSUME NEW p \in P, q = CreateFolder(p) PROVE InsideAfter({}, q)
  <2> DEFINE a == <<Enter>>  b == Path(p)
  <2>1. a \in Seq(Steps) /\ InsideAfter({}, a)
    BY StepOps DEF Steps, InsideAfter
  <2>2. b \in Seq(Steps) /\ \A S : InsideAfter(S, b)
    BY <1>4
  <2> HIDE DEF a, b
  <2>3. InsideAfter({}, a \o b)
    BY <2>1, <2>2, InsideOn
  <2> QED
    BY <1>11, <2>3 DEF CreateFolder, a, b
<1>12. CASE q = RenameFolder \/ q = Backup
  BY <1>12, StepOps DEF RenameFolder, Backup, InsideAfter
<1>13. ASSUME NEW c \in C, NEW p \in P, NEW d \in W, q = CreateDocument(c, p, d)
       PROVE  InsideAfter({}, q)
  <2> DEFINE a == Creation(c)  b == PathsOf({p})  e == Document(d)  f == Path(p)
  <2>1. a \in Seq(Steps) /\ InsideAfter({}, a)
    BY <1>5
  <2>2. b \in Seq(Steps) /\ \A S : InsideAfter(S, b)
    BY <1>6
  <2>3. e \in Seq(Steps) /\ \A S : InsideAfter(S, e)
    BY <1>3
  <2>4. f \in Seq(Steps) /\ \A S : InsideAfter(S, f)
    BY <1>4
  <2> HIDE DEF a, b, e, f
  <2> DEFINE ab == a \o b  abe == ab \o e  fe == f \o e
  <2>5. ab \in Seq(Steps) /\ InsideAfter({}, ab)
    BY <2>1, <2>2, InsideOn
  <2>6. fe \in Seq(Steps) /\ \A S : InsideAfter(S, fe)
    BY <2>3, <2>4, InsideJoined, StepsJoined
  <2> HIDE DEF ab, fe
  <2>7. abe \in Seq(Steps) /\ InsideAfter({}, abe)
    BY <2>3, <2>5, InsideOn
  <2> HIDE DEF abe
  <2>8. InsideAfter({}, abe \o fe)
    BY <2>6, <2>7, InsideOn
  <2> QED
    BY <1>13, <2>8 DEF CreateDocument, FinishMaterialization, a, b, e, f, ab, abe, fe
<1>14. ASSUME NEW d \in D, NEW p \in P, q = RematerializeDocument(d, p)
       PROVE  InsideAfter({}, q)
  <2> DEFINE b == PathsOf({p})  e == Document(d)  f == Path(p)
  <2>1. b \in Seq(Steps) /\ \A S : InsideAfter(S, b)
    BY <1>6
  <2>2. e \in Seq(Steps) /\ \A S : InsideAfter(S, e)
    BY <1>3
  <2>3. f \in Seq(Steps) /\ \A S : InsideAfter(S, f)
    BY <1>4
  <2> HIDE DEF b, e, f
  <2> DEFINE be == b \o e  fe == f \o e
  <2>4. be \in Seq(Steps) /\ InsideAfter({}, be)
    BY <2>1, <2>2, InsideOn
  <2>5. fe \in Seq(Steps) /\ \A S : InsideAfter(S, fe)
    BY <2>2, <2>3, InsideJoined, StepsJoined
  <2> HIDE DEF be, fe
  <2>6. InsideAfter({}, be \o fe)
    BY <2>4, <2>5, InsideOn
  <2> QED
    BY <1>14, <2>6 DEF RematerializeDocument, FinishMaterialization, b, e, f, be, fe
<1> QED
  <2>1. CASE q \in DocumentFirst(D, W, P, C)
    <3>1. \/ \E d \in D, ps \in SUBSET P : q = WriteDocument(d, ps)
          \/ \E ps \in SUBSET P : \E d \in D, c \in C, p \in ps, new \in W :
                q = DuplicateDocument(d, ps, c, p, new)
          \/ \E d \in D, new \in D, p \in P : q = ReplayDuplicate(d, new, p)
          \/ \E p \in P : q = CreateFolder(p)
          \/ q = RenameFolder \/ q = Backup
      BY <2>1, DocumentFirstCases
    <3> QED
      BY <3>1, <1>8, <1>9, <1>10, <1>11, <1>12
  <2>2. CASE q \in PathFirst(D, W, P, C)
    <3>1. \/ \E c \in C, p \in P, d \in W : q = CreateDocument(c, p, d)
          \/ \E d \in D, p \in P : q = RematerializeDocument(d, p)
      BY <2>2, PathFirstCases
    <3> QED
      BY <3>1, <1>13, <1>14
  <2> QED
    BY <2>1, <2>2

LEMMA DepthExists ==
    ASSUME NEW N, NEW D, NEW W, NEW P, NEW C, CallersKeys(N, D, W, P, C), D \cap W = {}
    PROVE  \E depth \in [Keys -> Nat] : Descends(depth, D, P, C, W)
<1> DEFINE depth == [k \in Keys |-> IF k \in D THEN ((2 * N) + 3) - k[2]
                                    ELSE IF k \in P THEN (N + 2) - k[2]
                                    ELSE IF k \in C THEN 1 ELSE 0]
<1>1. /\ N \in Nat
      /\ \A k \in D \cup W \cup P : k[2] \in 0 .. N
      /\ D \subseteq Keys /\ W \subseteq Keys /\ P \subseteq Keys /\ C \subseteq Keys
  <2>1. \A k \in D \cup W \cup P : k[2] \in 0 .. N
    BY DEF CallersKeys, DocumentKey, PathKey
  <2> QED
    BY <2>1, CoordinatorAssumption DEF CallersKeys
<1>2. /\ \A k \in P : k \notin D \cup W
      /\ \A k \in C : k \notin D \cup W \cup P
      /\ \A k \in W : k \notin D \cup P \cup C
  BY CallersNumbered
<1>3. /\ \A k \in D : depth[k] = ((2 * N) + 3) - k[2]
      /\ \A k \in P : depth[k] = (N + 2) - k[2]
      /\ \A k \in C : depth[k] = 1
      /\ \A k \in W : depth[k] = 0
  BY <1>1, <1>2
<1>4. \A k \in Keys : depth[k] \in Nat
  <2> SUFFICES ASSUME NEW k \in Keys PROVE depth[k] \in Nat
    OBVIOUS
  <2>1. k \notin D /\ k \notin P => depth[k] \in Nat
    OBVIOUS
  <2>2. k \in D => ((2 * N) + 3) - k[2] \in Nat
    BY <1>1
  <2>3. k \in P => (N + 2) - k[2] \in Nat
    BY <1>1
  <2> QED
    BY <1>3, <2>1, <2>2, <2>3
<1>5. depth \in [Keys -> Nat]
  BY <1>4
<1> HIDE DEF depth
<1>6. \A d \in D : depth[d] \in Nat /\ depth[d] >= N + 3
  BY <1>1, <1>3
<1>7. \A p \in P : depth[p] \in Nat /\ depth[p] \in 2 .. (N + 2)
  BY <1>1, <1>3
<1>8. \A j, k \in D : j[2] < k[2] => depth[j] > depth[k]
  BY <1>1, <1>3
<1>9. \A j, k \in P : j[2] < k[2] => depth[j] > depth[k]
  BY <1>1, <1>3
<1>10. Descends(depth, D, P, C, W)
  BY <1>1, <1>3, <1>6, <1>7, <1>8, <1>9 DEF Descends
<1> QED
  BY <1>5, <1>10

LEMMA PipelinesLead ==
    ASSUME NEW N, NEW D, NEW W, NEW P, NEW C, CallersKeys(N, D, W, P, C),
           NEW depth, Descends(depth, D, P, C, W), NEW q \in DocumentFirst(D, W, P, C)
    PROVE  LeadsAfter({}, q, depth)
<1>1. Numbered(D) /\ Numbered(P) /\ W \subseteq Keys /\ C \subseteq Keys /\ P \subseteq Keys
  BY CallersNumbered DEF Numbered
<1>2. CASE \E d \in D, ps \in SUBSET P : q = WriteDocument(d, ps)
  BY <1>1, <1>2, WriteLeads
<1>3. CASE \E ps \in SUBSET P : \E d \in D, c \in C, p \in ps, new \in W :
              q = DuplicateDocument(d, ps, c, p, new)
  BY <1>1, <1>3, DuplicateLeads
<1>4. CASE \E d \in D, new \in D, p \in P : q = ReplayDuplicate(d, new, p)
  BY <1>1, <1>4, ReplayLeads
<1>5. ASSUME NEW p \in P, q = CreateFolder(p) PROVE LeadsAfter({}, q, depth)
  <2> DEFINE a == <<Enter>>  b == Path(p)
  <2>1. a \in Seq(Steps) /\ StepsOf(a) = {Enter}
    BY DEF Steps, StepsOf
  <2>2. b \in Seq(Steps)
    BY <1>1, OneKeySteps
  <2>3. LeadsAfter({}, a, depth)
    BY EnterFollows
  <2>4. LeadsAfter({Enter}, b, depth)
    <3>1. \A r \in {Enter} : r.op = "lock" => depth[r.key] > depth[p]
      BY StepOps
    <3> QED
      BY <3>1, PathFollows
  <2> HIDE DEF a, b
  <2>5. LeadsAfter({}, a \o b, depth)
    BY <2>1, <2>2, <2>3, <2>4, LeadsOn
  <2> QED
    BY <1>5, <2>5 DEF CreateFolder, a, b
<1>6. CASE q = RenameFolder \/ q = Backup
  <2>1. Before(q, 1) = {}
    BY DEF Before
  <2>2. q = <<Exclusive>>
    BY <1>6 DEF RenameFolder, Backup
  <2> QED
    BY <2>1, <2>2, StepOps DEF LeadsAfter, MayFollow
<1> QED
  BY <1>2, <1>3, <1>4, <1>5, <1>6, DocumentFirstCases

-----------------------------------------------------------------------------
(* The callers' pipelines satisfy both hypotheses.                         *)

(* "Never hold a document lock while waiting for a generation": whatever   *)
(* pipelines of service.py, organization.py, backup.py and reconciliation  *)
(* run, over any documents and paths, no thread that sleeps at the barrier *)
(* holds a document.                                                       *)
THEOREM CallersHoldNoDocumentAtTheBarrier ==
    ASSUME NEW N, NEW documents, NEW created, NEW paths, NEW creations,
           CallersKeys(N, documents, created, paths, creations),
           Pipelines \subseteq DocumentFirst(documents, created, paths, creations)
                                \cup PathFirst(documents, created, paths, creations)
    PROVE  Spec => []NoDocumentHeldAtTheBarrier
<1>1. \A p \in Pipelines : DocumentsAreLockedInside({p})
  BY PipelinesInside, InsideFromStart
<1>2. DocumentsAreLockedInside(Pipelines)
  BY <1>1 DEF DocumentsAreLockedInside
<1> QED
  BY <1>2, BarrierHoldsNoDocument

(* "Replay cannot invert document locks" (documents()): writes, duplicates *)
(* and their replays, folders and backups, over any documents and paths,   *)
(* never wait in a cycle, as long as nobody has learnt of a document that  *)
(* another pipeline is still creating.                                     *)
THEOREM CallersNeverWaitInACycle ==
    ASSUME NEW N, NEW documents, NEW created, NEW paths, NEW creations,
           CallersKeys(N, documents, created, paths, creations),
           documents \cap created = {},
           Pipelines \subseteq DocumentFirst(documents, created, paths, creations)
    PROVE  Spec => []NoWaitCycle
<1>1. PICK depth \in [Keys -> Nat] : Descends(depth, documents, paths, creations, created)
  BY DepthExists
<1>2. \A p \in Pipelines : LeadDown({p}, depth)
  BY <1>1, PipelinesLead, LeadsFromStart
<1>3. LeadDown(Pipelines, depth)
  BY <1>2 DEF LeadDown
<1> QED
  BY <1>3, ThreadsNeverWaitInACycle
=============================================================================
