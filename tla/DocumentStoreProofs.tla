------------------------- MODULE DocumentStoreProofs -------------------------
(***************************************************************************)
(* Proofs about DocumentStore, for any documents, paths, contents, keys,   *)
(* clients and requests, and any bounds: types, that the pipeline          *)
(* implements RevisionLog, and what the workspace directory holds.         *)
(***************************************************************************)
EXTENDS DocumentStore, TLAPS

(* Heads and bound keys name revisions that exist.                         *)
HeadsExist == \A d \in Docs : row[d].head <= Len(revisions)

KeysExist ==
    \A k \in Keys : keys[k] # Unbound =>
        /\ keys[k].request \in Requests
        /\ keys[k].revision \in 1..Len(revisions)

(* What a job carries at each stage.                                       *)
Carries(j) ==
    /\ j.stage # "idle" =>
          /\ j.request \in Requests /\ j.key \in Keys
          /\ j.request.op = "create" => j.request.content \in Contents
          /\ j.request.op # "create" => j.doc \in Docs /\ row[j.doc].head # 0
    /\ j.stage \in {"locked", "committed", "written", "marked"} => j.doc \in Docs
    /\ j.stage \in {"committed", "written", "marked"} =>
          j.revision \in 1..Len(revisions)

JobsCarry == \A c \in Clients : Carries(job[c])

Inv == TypeOK /\ HeadsExist /\ KeysExist /\ JobsCarry

LEMMA ElementType ==
  ASSUME NEW S, NEW s \in Seq(S), NEW i \in 1..Len(s)
  PROVE  s[i] \in S
  OBVIOUS

LEMMA IdleJob == Idle \in Jobs /\ Carries(Idle)
  BY StoreAssumption DEF Idle, Jobs, Carries

LEMMA InvInit == Init => Inv
<1> SUFFICES ASSUME Init
             PROVE  Inv
  OBVIOUS
<1>1. Unborn \in Rows /\ Unborn.head = 0 /\ Unbound \in Bindings
  BY DEF Unborn, Rows, Unbound, Bindings
<1>2. TypeOK
  BY <1>1, IdleJob DEF Init, TypeOK
<1>3. HeadsExist /\ KeysExist /\ JobsCarry
  BY <1>1, IdleJob DEF Init, HeadsExist, KeysExist, JobsCarry
<1> QED
  BY <1>2, <1>3 DEF Inv

(* A step of one job that leaves rows' heads, revisions and keys alone.    *)
JobStep(c) ==
    /\ \A o \in Clients \ {c} : job'[o] = job[o]
    /\ job' = [o \in Clients |-> job'[o]]
    /\ job'[c] \in Jobs /\ Carries(job'[c])
    /\ UNCHANGED <<revisions, keys>>
    /\ \A d \in Docs : row'[d].head = row[d].head

LEMMA JobStepInv ==
  ASSUME Inv, NEW c \in Clients, JobStep(c),
         row' \in [Docs -> Rows], disk' \in [Paths -> Contents \cup {Nothing}],
         edited' \in SUBSET Paths, edits' \in Nat
  PROVE  Inv'
<1>0. TypeOK /\ HeadsExist /\ KeysExist /\ JobsCarry
  BY DEF Inv
<1>1. TypeOK'
  BY <1>0 DEF TypeOK, JobStep
<1>2. HeadsExist' /\ KeysExist'
  BY <1>0 DEF HeadsExist, KeysExist, JobStep
<1>3. ASSUME NEW o \in Clients
      PROVE  Carries(job[o])'
  <2>1. /\ job'[o].request \in Requests => job'[o].request.op \in Ops
        /\ revisions' = revisions
        /\ \A d \in Docs : row'[d].head = row[d].head
    BY DEF Requests, JobStep
  <2>2. Carries(job'[o])
    <3>1. CASE o = c
      BY <3>1 DEF JobStep
    <3>2. CASE o # c
      BY <3>2, <1>0 DEF JobStep, JobsCarry
    <3> QED
      BY <3>1, <3>2
  <2> QED
    BY <2>1, <2>2 DEF Carries
<1> QED
  BY <1>1, <1>2, <1>3 DEF Inv, JobsCarry

-----------------------------------------------------------------------------
(* A job whose stage and a few fields change still has a job's type.       *)
LEMMA SubmitInv ==
  ASSUME Inv, NEW c \in Clients, NEW w \in Writes, NEW k \in Keys, Submit(c, w, k)
  PROVE  Inv'
<1>0. TypeOK /\ HeadsExist /\ KeysExist /\ JobsCarry
  BY DEF Inv
<1>1. PICK e \in Expectations(w), b \in Bodies(w) :
         job' = [job EXCEPT
                    ![c] = [Idle EXCEPT
                              !.stage = "waiting", !.key = k, !.doc = w.doc,
                              !.paths = PathsToLock(w),
                              !.request = [op |-> w.op, doc |-> w.doc,
                                           content |-> b, path |-> w.path,
                                           expected |-> e]]]
  BY DEF Submit
<1>2. /\ UNCHANGED <<row, revisions, keys, disk, edited, edits>>
      /\ Found(w)
  BY DEF Submit
<1>3. /\ w.op \in Ops /\ w.doc \in Docs \cup {Nothing}
      /\ w.content \in Contents \cup {Nothing} /\ w.path \in Paths \cup {Nothing}
      /\ w.doc = Nothing <=> w.op = "create"
      /\ w.op \in {"create", "update"} => w.content \in Contents
      /\ Nothing \notin Docs \cup Paths \cup Contents \cup Keys
  BY StoreAssumption
<1>4. w.op # "create" => w.doc \in Docs /\ row[w.doc].head # 0
  BY <1>2, <1>3 DEF Found, Live
<1>5. w.op # "create" => row[w.doc] \in Rows
  BY <1>0, <1>4 DEF TypeOK
<1>6. e \in Nat
  BY <1>0, <1>4, <1>5 DEF Expectations, RevisionsOf, TypeOK, Rows
<1>7. b \in Contents \cup {Nothing} /\ (w.op = "create" => b \in Contents)
  <2>1. CASE w.op = "restore"
    <3>1. PICK r \in RevisionsOf(w.doc) : b = revisions[r].content
      BY <2>1 DEF Bodies
    <3>2. revisions[r] \in Revisions
      BY <1>0, ElementType DEF RevisionsOf, TypeOK
    <3> QED
      BY <2>1, <3>1, <3>2 DEF Revisions
  <2>2. CASE w.op # "restore"
    BY <2>2, <1>3 DEF Bodies
  <2> QED
    BY <2>1, <2>2
<1>8. PathsToLock(w) \in SUBSET Paths
  BY <1>3, <1>5 DEF PathsToLock, Rows
<1> DEFINE q == [op |-> w.op, doc |-> w.doc, content |-> b, path |-> w.path,
                 expected |-> e]
           j == [Idle EXCEPT !.stage = "waiting", !.key = k, !.doc = w.doc,
                             !.paths = PathsToLock(w), !.request = q]
<1>9. q \in Requests /\ q.op = w.op /\ q.content = b
  BY <1>3, <1>6, <1>7 DEF Requests
<1> HIDE DEF q
<1>10. /\ j \in Jobs /\ j.stage = "waiting" /\ j.request = q /\ j.key = k
       /\ j.doc = w.doc
  BY <1>3, <1>8, <1>9, IdleJob DEF Idle, Jobs
<1>11. job' = [job EXCEPT ![c] = j]
  BY <1>1 DEF q
<1> HIDE DEF j
<1>12. Carries(j)
  BY <1>4, <1>7, <1>9, <1>10 DEF Carries
<1>13. JobStep(c)
  BY <1>0, <1>2, <1>10, <1>11, <1>12 DEF JobStep, TypeOK
<1> QED
  BY <1>0, <1>2, <1>13, JobStepInv DEF TypeOK

(* The other steps that only move a job on.                                *)
LEMMA EndInv ==
  ASSUME Inv, NEW c \in Clients, End(c), UNCHANGED <<row, revisions, keys, edits>>,
         disk' \in [Paths -> Contents \cup {Nothing}], edited' \in SUBSET Paths
  PROVE  Inv'
<1>0. TypeOK
  BY DEF Inv
<1>1. JobStep(c)
  BY <1>0, IdleJob DEF JobStep, End, TypeOK
<1> QED
  BY <1>0, <1>1, JobStepInv DEF TypeOK

LEMMA StageInv ==
  ASSUME Inv, NEW c \in Clients, NEW j \in Jobs, Carries(j),
         job' = [job EXCEPT ![c] = j], UNCHANGED <<revisions, keys, edits>>,
         row' \in [Docs -> Rows], \A d \in Docs : row'[d].head = row[d].head,
         disk' \in [Paths -> Contents \cup {Nothing}], edited' \in SUBSET Paths
  PROVE  Inv'
<1>0. TypeOK
  BY DEF Inv
<1>1. JobStep(c)
  BY <1>0 DEF JobStep, TypeOK
<1> QED
  BY <1>0, <1>1, JobStepInv DEF TypeOK

LEMMA AcquireInv ==
  ASSUME Inv, NEW c \in Clients, Acquire(c)
  PROVE  Inv'
<1>0. TypeOK /\ KeysExist /\ JobsCarry
  BY DEF Inv
<1>1. UNCHANGED <<row, revisions, keys, disk, edited, edits>>
  BY DEF Acquire
<1>2. job[c] \in Jobs /\ Carries(job[c]) /\ job[c].stage = "waiting"
  BY <1>0 DEF TypeOK, JobsCarry, Acquire
<1>3. CASE job[c].request.op # "create"
           /\ job' = [job EXCEPT ![c].stage = "locked"]
  <2> DEFINE j == [job[c] EXCEPT !.stage = "locked"]
  <2>1. j \in Jobs /\ Carries(j)
    BY <1>2, <1>3 DEF Jobs, Carries
  <2>2. job' = [job EXCEPT ![c] = j]
    BY <1>3
  <2> QED
    BY <1>0, <1>1, <2>1, <2>2, StageInv DEF TypeOK
<1>4. ASSUME NEW d \in Docs, job[c].request.op = "create",
             job' = [job EXCEPT ![c].stage = "locked", ![c].doc = d]
      PROVE  Inv'
  <2> DEFINE j == [job[c] EXCEPT !.stage = "locked", !.doc = d]
  <2>1. j \in Jobs /\ Carries(j)
    BY <1>2, <1>4 DEF Jobs, Carries
  <2>2. job' = [job EXCEPT ![c] = j]
    BY <1>4
  <2> QED
    BY <1>0, <1>1, <2>1, <2>2, StageInv DEF TypeOK
<1>5. CASE End(c)
  BY <1>0, <1>1, <1>5, EndInv DEF TypeOK
<1>6. Replayed(c) => revisions[keys[job[c].key].revision].doc \in Docs
  <2> SUFFICES ASSUME Replayed(c)
               PROVE  revisions[keys[job[c].key].revision].doc \in Docs
    OBVIOUS
  <2>1. job[c].key \in Keys
    BY <1>2 DEF Carries
  <2>2. keys[job[c].key].revision \in 1..Len(revisions)
    BY <1>0, <2>1 DEF KeysExist, Replayed
  <2>3. revisions[keys[job[c].key].revision] \in Revisions
    BY <1>0, <2>2, ElementType DEF TypeOK
  <2> QED
    BY <2>3 DEF Revisions
<1> QED
  BY <1>3, <1>4, <1>5, <1>6 DEF Acquire

-----------------------------------------------------------------------------
(* The committing transaction: it appends one revision of the job's        *)
(* document, or leaves the revisions and every head as they are.           *)
LEMMA LockedFacts ==
  ASSUME Inv, NEW c \in Clients, job[c].stage = "locked"
  PROVE  /\ job[c] \in Jobs /\ job[c].doc \in Docs /\ job[c].key \in Keys
         /\ job[c].request \in Requests
         /\ job[c].request.op = "create" => job[c].request.content \in Contents
         /\ row[job[c].doc] \in Rows /\ row[job[c].doc].head <= Len(revisions)
  BY DEF Inv, TypeOK, HeadsExist, JobsCarry, Carries

LEMMA HeadContentType ==
  ASSUME Inv, NEW d \in Docs, row[d].head # 0
  PROVE  HeadContent(d) \in Contents
<1>1. row[d].head \in 1..Len(revisions) /\ revisions \in Seq(Revisions)
  BY DEF Inv, TypeOK, HeadsExist, Rows
<1>2. revisions[row[d].head] \in Revisions
  BY <1>1, ElementType
<1> QED
  BY <1>2 DEF HeadContent, Revisions

(* A write that expects a head expects the one there is; only a create may *)
(* find none, and a create brings its content.                             *)
LEMMA NextContentType ==
  ASSUME Inv, NEW c \in Clients, job[c].stage = "locked"
  PROVE  NextContent(c) \in Contents
<1>1. CASE job[c].request.op = "create"
  BY <1>1, LockedFacts, StoreAssumption DEF NextContent
<1>2. CASE job[c].request.op # "create"
  <2>1. row[job[c].doc].head # 0
    BY <1>2 DEF Inv, JobsCarry, Carries
  <2>2. HeadContent(job[c].doc) \in Contents
    BY <2>1, LockedFacts, HeadContentType
  <2> QED
    BY <2>2, LockedFacts DEF NextContent, Requests
<1> QED
  BY <1>1, <1>2

LEMMA AppendFacts ==
  ASSUME Inv, NEW c \in Clients, job[c].stage = "locked", AppendRevision(c)
  PROVE  LET d == job[c].doc
             r == Len(revisions) + 1 IN
         /\ Len(revisions') = r
         /\ revisions' \in Seq(Revisions)
         /\ row' \in [Docs -> Rows]
         /\ row'[d].head = r
         /\ \A e \in Docs \ {d} : row'[e] = row[e]
         /\ keys' = [keys EXCEPT ![job[c].key] = [request |-> job[c].request,
                                                  revision |-> r]]
<1> DEFINE d == job[c].doc
           r == Len(revisions) + 1
<1>1. NextPath(c) \in Paths \cup {Nothing}
  BY LockedFacts DEF NextPath, Rows, Requests
<1>2. NextState(c) \in {"none", "pending", "clean"} /\ NextDeleted(c) \in BOOLEAN
  BY DEF NextState, NextDeleted
<1>3. row \in [Docs -> Rows] /\ revisions \in Seq(Revisions)
  BY DEF Inv, TypeOK
<1>4. [doc |-> d, parent |-> row[d].head, content |-> NextContent(c)] \in Revisions
  BY LockedFacts, NextContentType DEF Revisions, Rows
<1>5. revisions' \in Seq(Revisions) /\ Len(revisions') = r
  BY <1>3, <1>4 DEF AppendRevision
<1> DEFINE x == [row[d] EXCEPT !.head = r, !.path = NextPath(c),
                               !.state = NextState(c), !.deleted = NextDeleted(c)]
<1>6. row' = [row EXCEPT ![d] = x]
  BY DEF AppendRevision
<1>7. r \in Nat
  BY <1>3
<1>8. x \in Rows /\ x.head = r
  BY <1>1, <1>2, <1>7, LockedFacts DEF Rows
<1> HIDE DEF x
<1>9. row' \in [Docs -> Rows] /\ row'[d] = x
      /\ \A e \in Docs \ {d} : row'[e] = row[e]
  BY <1>3, <1>6, <1>8, LockedFacts
<1> QED
  BY <1>5, <1>8, <1>9 DEF AppendRevision

LEMMA AppendInv ==
  ASSUME Inv, NEW c \in Clients, job[c].stage = "locked", AppendRevision(c),
         UNCHANGED <<disk, edited, edits>>
  PROVE  Inv'
<1> DEFINE d == job[c].doc
           r == Len(revisions) + 1
<1>0. TypeOK /\ HeadsExist /\ KeysExist /\ JobsCarry
  BY DEF Inv
<1>1. /\ job[c] \in Jobs /\ d \in Docs /\ job[c].key \in Keys
      /\ job[c].request \in Requests
      /\ job[c].request.op = "create" => job[c].request.content \in Contents
      /\ row[d] \in Rows
  BY LockedFacts
<1>2. /\ Len(revisions') = r /\ revisions' \in Seq(Revisions)
      /\ row' \in [Docs -> Rows] /\ row'[d].head = r
      /\ \A e \in Docs \ {d} : row'[e] = row[e]
      /\ keys' = [keys EXCEPT ![job[c].key] = [request |-> job[c].request,
                                               revision |-> r]]
  BY AppendFacts
<1>3. Len(revisions) \in Nat
  BY <1>0 DEF TypeOK
<1> DEFINE s == IF row[d].path # NextPath(c) THEN row[d].path ELSE Nothing
           j == [job[c] EXCEPT !.stage = "committed", !.revision = r, !.stale = s]
<1>4. job' = [job EXCEPT ![c] = j]
  BY DEF AppendRevision
<1>5. s \in Paths \cup {Nothing}
  BY <1>1 DEF Rows
<1>7. r = Len(revisions) + 1 /\ r \in Nat
  BY <1>3
<1> HIDE DEF s, r
<1>6b. j \in Jobs
  BY <1>1, <1>5, <1>7 DEF Jobs
<1>6. /\ j \in Jobs /\ j.stage = "committed" /\ j.revision = r
      /\ j.request = job[c].request /\ j.key = job[c].key /\ j.doc = d
  BY <1>1, <1>6b DEF Jobs
<1> HIDE DEF j
<1>8. HeadsExist'
  <2> SUFFICES ASSUME NEW e \in Docs
               PROVE  row'[e].head <= r
    BY <1>2 DEF HeadsExist
  <2>1. CASE e = d
    BY <2>1, <1>2, <1>3, <1>7
  <2>2. CASE e # d
    <3>1. row'[e] = row[e] /\ row[e].head \in Nat /\ row[e].head <= Len(revisions)
      BY <2>2, <1>0, <1>2 DEF HeadsExist, TypeOK, Rows
    <3> QED
      BY <3>1, <1>3, <1>7
  <2> QED
    BY <2>1, <2>2
<1>9. \A k \in Keys : k # job[c].key => keys'[k] = keys[k]
  BY <1>0, <1>2 DEF TypeOK
<1>10. keys'[job[c].key] = [request |-> job[c].request, revision |-> r]
  BY <1>0, <1>1, <1>2 DEF TypeOK
<1>11. KeysExist'
  <2> SUFFICES ASSUME NEW k \in Keys, keys'[k] # Unbound
               PROVE  keys'[k].request \in Requests
                      /\ keys'[k].revision \in 1..Len(revisions')
    BY DEF KeysExist, Unbound
  <2>1. CASE k = job[c].key
    BY <2>1, <1>1, <1>2, <1>3, <1>7, <1>10
  <2>2. CASE k # job[c].key
    BY <2>2, <1>0, <1>2, <1>3, <1>7, <1>9 DEF KeysExist
  <2> QED
    BY <2>1, <2>2
<1>12. keys' \in [Keys -> Bindings]
  BY <1>0, <1>1, <1>2, <1>3, <1>7 DEF TypeOK, Bindings
<1>13. TypeOK'
  BY <1>0, <1>2, <1>4, <1>6, <1>12 DEF TypeOK
<1>14. JobsCarry'
  <2> SUFFICES ASSUME NEW o \in Clients
               PROVE  Carries(job[o])'
    BY DEF JobsCarry
  <2>1. \A e \in Docs : row[e].head # 0 => row'[e].head # 0
    BY <1>2, <1>3, <1>7
  <2>2. CASE o = c
    <3>1. job'[o] = j /\ row'[d].head # 0
      BY <2>2, <1>0, <1>2, <1>3, <1>4, <1>7 DEF TypeOK
    <3> QED
      BY <3>1, <1>1, <1>2, <1>3, <1>6, <1>7 DEF Carries
  <2>3. CASE o # c
    <3>1. job'[o] = job[o] /\ Carries(job[o])
      BY <2>3, <1>0, <1>4 DEF TypeOK, JobsCarry
    <3>2. \A i \in 1..Len(revisions) : i \in 1..Len(revisions')
      BY <1>2, <1>3, <1>7
    <3> QED
      BY <3>1, <3>2, <2>1 DEF Carries
  <2> QED
    BY <2>2, <2>3
<1> QED
  BY <1>8, <1>11, <1>13, <1>14 DEF Inv

LEMMA MetadataInv ==
  ASSUME Inv, NEW c \in Clients, job[c].stage = "locked", Expected(c),
         UpdateMetadata(c), UNCHANGED <<disk, edited, edits>>
  PROVE  Inv'
<1> DEFINE d == job[c].doc
           r == row[d].head
           j == [job[c] EXCEPT !.stage = "committed", !.revision = r]
           x == [row[d] EXCEPT !.version = @ + 1]
<1>0. TypeOK /\ HeadsExist /\ KeysExist /\ JobsCarry
  BY DEF Inv
<1>1. /\ job[c] \in Jobs /\ d \in Docs /\ job[c].key \in Keys
      /\ job[c].request \in Requests /\ job[c].request.op = "tag"
      /\ row[d] \in Rows /\ r <= Len(revisions)
  BY LockedFacts DEF UpdateMetadata
<1>2. Len(revisions) \in Nat /\ r \in Nat
  BY <1>0, <1>1 DEF TypeOK, Rows
<1>3. r # 0
  BY <1>0, <1>1 DEF JobsCarry, Carries
<1>4. x \in Rows /\ x.head = r
  BY <1>1 DEF Rows
<1>5. /\ row' = [row EXCEPT ![d] = x]
      /\ job' = [job EXCEPT ![c] = j]
      /\ keys' = [keys EXCEPT ![job[c].key] = [request |-> job[c].request,
                                               revision |-> r]]
      /\ revisions' = revisions
  BY DEF UpdateMetadata
<1> HIDE DEF r, x
<1>6. j \in Jobs
  BY <1>1, <1>2 DEF Jobs
<1>7. /\ j.stage = "committed" /\ j.revision = r /\ j.doc = d
      /\ j.request = job[c].request /\ j.key = job[c].key
  BY <1>1 DEF Jobs
<1> HIDE DEF j
<1>8. row' \in [Docs -> Rows] /\ \A e \in Docs : row'[e].head = row[e].head
  BY <1>0, <1>1, <1>4, <1>5 DEF TypeOK, r
<1>9. keys' \in [Keys -> Bindings]
  BY <1>0, <1>1, <1>2, <1>5 DEF TypeOK, Bindings
<1>10. TypeOK'
  BY <1>0, <1>5, <1>6, <1>8, <1>9 DEF TypeOK
<1>11. HeadsExist'
  BY <1>0, <1>5, <1>8 DEF HeadsExist
<1>12. KeysExist'
  <2> SUFFICES ASSUME NEW k \in Keys, keys'[k] # Unbound
               PROVE  keys'[k].request \in Requests
                      /\ keys'[k].revision \in 1..Len(revisions)
    BY <1>5 DEF KeysExist, Unbound
  <2>1. CASE k = job[c].key
    <3>1. keys'[k] = [request |-> job[c].request, revision |-> r]
      BY <2>1, <1>0, <1>1, <1>5 DEF TypeOK
    <3> QED
      BY <3>1, <1>1, <1>2, <1>3
  <2>2. CASE k # job[c].key
    BY <2>2, <1>0, <1>1, <1>5 DEF KeysExist, TypeOK
  <2> QED
    BY <2>1, <2>2
<1>13. JobsCarry'
  <2> SUFFICES ASSUME NEW o \in Clients
               PROVE  Carries(job[o])'
    BY DEF JobsCarry
  <2>1. CASE o = c
    <3>1. job'[o] = j
      BY <2>1, <1>0, <1>5 DEF TypeOK
    <3>2. row'[d].head # 0
      BY <1>1, <1>3, <1>8 DEF r
    <3> QED
      BY <3>1, <3>2, <1>1, <1>2, <1>3, <1>5, <1>7 DEF Carries
  <2>2. CASE o # c
    <3>1. job'[o] = job[o] /\ Carries(job[o])
      BY <2>2, <1>0, <1>5 DEF TypeOK, JobsCarry
    <3> QED
      BY <3>1, <1>5, <1>8 DEF Carries
  <2> QED
    BY <2>1, <2>2
<1> QED
  BY <1>10, <1>11, <1>12, <1>13 DEF Inv

LEMMA CommitInv ==
  ASSUME Inv, NEW c \in Clients, Commit(c)
  PROVE  Inv'
<1>1. /\ job[c].stage = "locked" /\ Expected(c)
      /\ UNCHANGED <<disk, edited, edits>>
  BY DEF Commit, Writable
<1>2. CASE AppendRevision(c)
  BY <1>1, <1>2, AppendInv
<1>3. CASE UpdateMetadata(c)
  BY <1>1, <1>3, MetadataInv
<1> QED
  BY <1>2, <1>3 DEF Commit

-----------------------------------------------------------------------------
LEMMA ReplayInv ==
  ASSUME Inv, NEW c \in Clients, Replay(c)
  PROVE  Inv'
<1> DEFINE r == keys[job[c].key].revision
           j == [job[c] EXCEPT !.stage = "committed", !.revision = r]
<1>0. TypeOK /\ KeysExist /\ JobsCarry
  BY DEF Inv
<1>1. /\ job[c] \in Jobs /\ Carries(job[c]) /\ job[c].stage = "locked"
      /\ job[c].key \in Keys /\ Len(revisions) \in Nat
  BY <1>0, LockedFacts DEF TypeOK, JobsCarry, Replay
<1>2. r \in 1..Len(revisions)
  BY <1>0, <1>1 DEF KeysExist, Replay, Replayed
<1>3. job' = [job EXCEPT ![c] = j]
      /\ UNCHANGED <<row, revisions, keys, disk, edited, edits>>
  BY DEF Replay
<1> HIDE DEF r
<1>4. j \in Jobs
  <2>1. r \in Nat
    BY <1>1, <1>2
  <2> QED
    BY <1>1, <2>1 DEF Jobs
<1>5. /\ j.stage = "committed" /\ j.revision = r /\ j.doc = job[c].doc
      /\ j.request = job[c].request /\ j.key = job[c].key
  BY <1>1 DEF Jobs
<1> HIDE DEF j
<1>6. Carries(j)
  BY <1>1, <1>2, <1>5 DEF Carries
<1> QED
  BY <1>0, <1>3, <1>4, <1>6, StageInv DEF TypeOK

LEMMA WriteFileInv ==
  ASSUME Inv, NEW c \in Clients, WriteFile(c)
  PROVE  Inv'
<1> DEFINE d == job[c].doc
           p == row[d].path
           j == [job[c] EXCEPT !.stage = "written", !.target = p]
<1>0. TypeOK /\ JobsCarry
  BY DEF Inv
<1>1. /\ job[c] \in Jobs /\ Carries(job[c]) /\ job[c].stage = "committed"
      /\ d \in Docs /\ p \in Paths
  BY <1>0 DEF TypeOK, JobsCarry, Carries, WriteFile, Unfinished, Rows
<1>2. row[d].head # 0
  <2>1. row[d].head = job[c].revision
    BY DEF WriteFile, Unfinished
  <2>2. job[c].revision \in 1..Len(revisions) /\ Len(revisions) \in Nat
    BY <1>0, <1>1 DEF Carries, TypeOK
  <2> QED
    BY <2>1, <2>2
<1>3. HeadContent(d) \in Contents
  BY <1>1, <1>2, HeadContentType
<1>4. /\ job' = [job EXCEPT ![c] = j] /\ UNCHANGED <<row, revisions, keys, edits>>
      /\ disk' = [disk EXCEPT ![p] = HeadContent(d)] /\ edited' = edited \ {p}
  BY DEF WriteFile
<1> HIDE DEF p
<1>5. j \in Jobs /\ Carries(j)
  BY <1>1 DEF Jobs, Carries
<1> HIDE DEF j
<1>6. disk' \in [Paths -> Contents \cup {Nothing}] /\ edited' \in SUBSET Paths
  BY <1>0, <1>3, <1>4 DEF TypeOK
<1> QED
  BY <1>0, <1>4, <1>5, <1>6, StageInv DEF TypeOK

LEMMA MarkCleanInv ==
  ASSUME Inv, NEW c \in Clients, MarkClean(c)
  PROVE  Inv'
<1> DEFINE d == job[c].doc
           s == IF row[d].head = job[c].revision THEN "clean" ELSE row[d].state
           j == [job[c] EXCEPT !.stage = "marked", !.target = Nothing]
<1>0. TypeOK /\ JobsCarry
  BY DEF Inv
<1>1. /\ job[c] \in Jobs /\ Carries(job[c]) /\ job[c].stage = "written"
      /\ d \in Docs /\ row[d] \in Rows
  BY <1>0 DEF TypeOK, JobsCarry, Carries, MarkClean
<1>2. /\ job' = [job EXCEPT ![c] = j] /\ row' = [row EXCEPT ![d].state = s]
      /\ UNCHANGED <<revisions, keys, disk, edited, edits>>
  BY DEF MarkClean
<1>3. s \in {"none", "pending", "clean"}
  BY <1>1 DEF Rows
<1> HIDE DEF s
<1>4. row' \in [Docs -> Rows] /\ \A e \in Docs : row'[e].head = row[e].head
  BY <1>0, <1>1, <1>2, <1>3 DEF TypeOK, Rows
<1>5. j \in Jobs /\ Carries(j)
  BY <1>1 DEF Jobs, Carries
<1> HIDE DEF j
<1> QED
  BY <1>0, <1>2, <1>4, <1>5, StageInv DEF TypeOK

LEMMA NothingToFinishInv ==
  ASSUME Inv, NEW c \in Clients, NothingToFinish(c)
  PROVE  Inv'
<1> DEFINE j == [job[c] EXCEPT !.stage = "marked"]
<1>0. TypeOK /\ JobsCarry
  BY DEF Inv
<1>1. job[c] \in Jobs /\ Carries(job[c]) /\ job[c].stage = "committed"
  BY <1>0 DEF TypeOK, JobsCarry, NothingToFinish
<1>2. /\ job' = [job EXCEPT ![c] = j]
      /\ UNCHANGED <<row, revisions, keys, disk, edited, edits>>
  BY DEF NothingToFinish
<1>3. j \in Jobs /\ Carries(j)
  BY <1>1 DEF Jobs, Carries
<1> HIDE DEF j
<1> QED
  BY <1>0, <1>2, <1>3, StageInv DEF TypeOK

LEMMA AnswerInv ==
  ASSUME Inv, NEW c \in Clients, Answer(c)
  PROVE  Inv'
<1>0. TypeOK
  BY DEF Inv
<1>1. /\ End(c) /\ UNCHANGED <<row, revisions, keys, edits>>
      /\ disk' \in [Paths -> Contents \cup {Nothing}]
      /\ edited' \in SUBSET Paths
  BY <1>0 DEF Answer, TypeOK
<1> QED
  BY <1>1, EndInv

LEMMA EditFileInv ==
  ASSUME Inv, NEW p \in Paths, NEW x \in Contents \cup {Nothing}, EditFile(p, x)
  PROVE  Inv'
<1>0. TypeOK /\ HeadsExist /\ KeysExist /\ JobsCarry
  BY DEF Inv
<1>1. TypeOK'
  BY <1>0 DEF EditFile, TypeOK
<1>2. HeadsExist' /\ KeysExist' /\ JobsCarry'
  BY <1>0 DEF EditFile, HeadsExist, KeysExist, JobsCarry, Carries
<1> QED
  BY <1>1, <1>2 DEF Inv

LEMMA CrashInv ==
  ASSUME Inv, Crash
  PROVE  Inv'
<1>0. TypeOK /\ HeadsExist /\ KeysExist
  BY DEF Inv
<1>1. TypeOK'
  BY <1>0, IdleJob DEF Crash, TypeOK
<1>2. HeadsExist' /\ KeysExist'
  BY <1>0 DEF Crash, HeadsExist, KeysExist
<1>3. JobsCarry'
  BY DEF Crash, JobsCarry, Carries, Idle
<1> QED
  BY <1>1, <1>2, <1>3 DEF Inv

LEMMA InvStep == Inv /\ [Next]_vars => Inv'
<1> SUFFICES ASSUME Inv, [Next]_vars
             PROVE  Inv'
  OBVIOUS
<1>1. ASSUME NEW c \in Clients, NEW w \in Writes, NEW k \in Keys, Submit(c, w, k)
      PROVE  Inv'
  BY <1>1, SubmitInv
<1>2. ASSUME NEW c \in Clients, Step(c)
      PROVE  Inv'
  <2>1. CASE Acquire(c)
    BY <2>1, AcquireInv
  <2>2. CASE Commit(c)
    BY <2>2, CommitInv
  <2>3. CASE Replay(c)
    BY <2>3, ReplayInv
  <2>4. CASE Refuse(c)
    BY <2>4, EndInv DEF Refuse, Inv, TypeOK
  <2>5. CASE WriteFile(c)
    BY <2>5, WriteFileInv
  <2>6. CASE FailFile(c)
    BY <2>6, EndInv DEF FailFile, Inv, TypeOK
  <2>7. CASE MarkClean(c)
    BY <2>7, MarkCleanInv
  <2>8. CASE NothingToFinish(c)
    BY <2>8, NothingToFinishInv
  <2>9. CASE Answer(c)
    BY <2>9, AnswerInv
  <2> QED
    BY <1>2, <2>1, <2>2, <2>3, <2>4, <2>5, <2>6, <2>7, <2>8, <2>9 DEF Step
<1>3. ASSUME NEW p \in Paths, NEW x \in Contents \cup {Nothing}, EditFile(p, x)
      PROVE  Inv'
  BY <1>3, EditFileInv
<1>4. CASE Crash
  BY <1>4, CrashInv
<1>5. CASE UNCHANGED vars
  BY <1>5 DEF vars, Inv, TypeOK, HeadsExist, KeysExist, JobsCarry, Carries
<1> QED
  BY <1>1, <1>2, <1>3, <1>4, <1>5 DEF Next

(* Rows, revisions, keys, files and jobs keep their types, for every set   *)
(* of requests and every bound.                                            *)
THEOREM TypeCorrect == Spec => []TypeOK
<1>1. Inv => TypeOK
  BY DEF Inv
<1> QED
  BY InvInit, InvStep, <1>1, PTL DEF Spec

-----------------------------------------------------------------------------
(* The refinement of RevisionLog.                                          *)

LEMMA LogInit == Init => Log!Init
<1> SUFFICES ASSUME Init
             PROVE  Log!Init
  OBVIOUS
<1>1. \A d \in Docs : row[d].head = 0
  BY DEF Init, Unborn
<1>2. \A k \in Keys : keys[k] = Unbound /\ Unbound.revision = 0
  BY DEF Init, Unbound
<1> QED
  BY <1>1, <1>2 DEF Init, Log!Init, Log!Unused, Bound

(* A step that keeps revisions, keys and heads is a stutter of the log.    *)
LEMMA LogStutter ==
  ASSUME UNCHANGED <<revisions, keys>>, \A d \in Docs : row'[d].head = row[d].head
  PROVE  UNCHANGED Log!vars
  BY DEF Log!vars

LEMMA LogAppend ==
  ASSUME Inv, NEW c \in Clients, job[c].stage = "locked", Writable(c),
         AppendRevision(c)
  PROVE  Log!Next
<1> DEFINE d == job[c].doc
           k == job[c].key
           base == row[d].head
           x == NextContent(c)
           n == Len(revisions) + 1
<1>0. TypeOK /\ HeadsExist
  BY DEF Inv
<1>1. /\ d \in Docs /\ k \in Keys /\ row[d] \in Rows /\ x \in Contents
      /\ job[c].request \in Requests
  BY LockedFacts, NextContentType
<1>2. base \in 0..Len(revisions) /\ Len(revisions) \in Nat
  BY <1>0, <1>1 DEF TypeOK, HeadsExist, Rows
<1>3. job[c].request.op # "tag" /\ job[c].request.expected = base
      /\ keys[k] = Unbound
  BY DEF AppendRevision, Writable, Expected
<1>4. revisions' = Append(revisions, [doc |-> d, parent |-> base, content |-> x])
  BY DEF AppendRevision
<1>5. row'[d].head = n /\ \A e \in Docs \ {d} : row'[e] = row[e]
  BY AppendFacts
<1>6. keys' = [keys EXCEPT ![k] = [request |-> job[c].request, revision |-> n]]
  BY AppendFacts
<1> HIDE DEF d, k, base, x, n
<1>7. n = Len(revisions) + 1 /\ n # 0
  BY <1>2 DEF n
<1>8. base = row[d].head
  BY DEF base
<1>9. [e \in Docs |-> row'[e].head] = [[e \in Docs |-> row[e].head] EXCEPT ![d] = n]
  BY <1>1, <1>5
<1>10. keys'[k] = [request |-> job[c].request, revision |-> n]
       /\ \A i \in Keys : i # k => keys'[i] = keys[i]
  BY <1>0, <1>1, <1>6 DEF TypeOK
<1>11. Bound(keys'[k]) = [base |-> base, revision |-> n]
  BY <1>3, <1>7, <1>10 DEF Bound, Unbound
<1>12. [i \in Keys |-> Bound(keys'[i])] =
          [[i \in Keys |-> Bound(keys[i])] EXCEPT ![k] = [base |-> base, revision |-> n]]
  BY <1>1, <1>10, <1>11
<1>13. Bound(keys[k]) = [base |-> 0, revision |-> 0]
  BY <1>3 DEF Bound, Unbound
<1>14. Log!Write(d, k, base, x)
  BY <1>1, <1>4, <1>7, <1>8, <1>9, <1>12, <1>13 DEF Log!Write, Log!Unused
<1>15. \E e \in 0..Len(revisions), y \in Contents : Log!Write(d, k, e, y)
  BY <1>1, <1>2, <1>14 DEF Log!Write
<1> QED
  BY <1>1, <1>15 DEF Log!Next

LEMMA LogBind ==
  ASSUME Inv, NEW c \in Clients, job[c].stage = "locked", Writable(c),
         UpdateMetadata(c)
  PROVE  Log!Next
<1> DEFINE d == job[c].doc
           k == job[c].key
           h == row[d].head
<1>0. TypeOK /\ JobsCarry
  BY DEF Inv
<1>1. /\ d \in Docs /\ k \in Keys /\ job[c].request \in Requests
      /\ row[d] \in Rows
  BY LockedFacts
<1>2. job[c].request.op = "tag" /\ keys[k] = Unbound /\ h # 0 /\ h \in Nat
  BY <1>0, <1>1 DEF UpdateMetadata, Writable, JobsCarry, Carries, Rows
<1>3. /\ keys' = [keys EXCEPT ![k] = [request |-> job[c].request, revision |-> h]]
      /\ row' = [row EXCEPT ![d].version = @ + 1]
      /\ revisions' = revisions
  BY DEF UpdateMetadata
<1> HIDE DEF d, k
<1>4. [e \in Docs |-> row'[e].head] = [e \in Docs |-> row[e].head]
  BY <1>0, <1>1, <1>3 DEF TypeOK, Rows
<1> HIDE DEF h
<1>5. keys'[k] = [request |-> job[c].request, revision |-> h]
      /\ \A i \in Keys : i # k => keys'[i] = keys[i]
  BY <1>0, <1>1, <1>3 DEF TypeOK
<1>6. Bound(keys'[k]) = [base |-> h, revision |-> h]
  BY <1>2, <1>5 DEF Bound, Unbound
<1>7. [i \in Keys |-> Bound(keys'[i])] =
         [[i \in Keys |-> Bound(keys[i])] EXCEPT ![k] = [base |-> h, revision |-> h]]
  BY <1>1, <1>5, <1>6
<1>8. Bound(keys[k]) = [base |-> 0, revision |-> 0]
  BY <1>2 DEF Bound, Unbound
<1>9. Log!Bind(d, k)
  BY <1>1, <1>2, <1>3, <1>4, <1>7, <1>8 DEF Log!Bind, Log!Unused, h
<1> QED
  BY <1>1, <1>9 DEF Log!Next

LEMMA LogStep ==
  ASSUME Inv, [Next]_vars
  PROVE  Log!Next \/ UNCHANGED Log!vars
<1>0. TypeOK
  BY DEF Inv
<1>1. ASSUME NEW c \in Clients, NEW w \in Writes, NEW k \in Keys, Submit(c, w, k)
      PROVE  UNCHANGED Log!vars
  BY <1>1, LogStutter DEF Submit
<1>2. ASSUME NEW c \in Clients, Step(c)
      PROVE  Log!Next \/ UNCHANGED Log!vars
  <2>1. CASE Commit(c)
    BY <2>1, LogAppend, LogBind DEF Commit
  <2>2. CASE MarkClean(c)
    <3>1. job[c].doc \in Docs
      BY <2>2 DEF Inv, JobsCarry, Carries, MarkClean
    <3>2. \A d \in Docs : row'[d].head = row[d].head
      BY <2>2, <3>1, <1>0 DEF MarkClean, TypeOK, Rows
    <3> QED
      BY <2>2, <3>2, LogStutter DEF MarkClean
  <2>3. CASE Acquire(c) \/ Replay(c) \/ Refuse(c) \/ WriteFile(c) \/ FailFile(c)
             \/ NothingToFinish(c) \/ Answer(c)
    <3>1. UNCHANGED <<row, revisions, keys>>
      BY <2>3 DEF Acquire, Replay, Refuse, WriteFile, FailFile,
                  NothingToFinish, Answer
    <3> QED
      BY <3>1, LogStutter
  <2> QED
    BY <1>2, <2>1, <2>2, <2>3 DEF Step
<1>3. ASSUME NEW p \in Paths, NEW x \in Contents \cup {Nothing}, EditFile(p, x)
      PROVE  UNCHANGED Log!vars
  BY <1>3, LogStutter DEF EditFile
<1>4. CASE Crash
  BY <1>4, LogStutter DEF Crash
<1>5. CASE UNCHANGED vars
  BY <1>5, LogStutter DEF vars
<1> QED
  BY <1>1, <1>2, <1>3, <1>4, <1>5 DEF Next

(* The write pipeline implements the revision log: a step of any request,  *)
(* failure, edit of a file or crash appends one revision to the head its   *)
(* client expected and binds an unused key, binds such a key to a head, or *)
(* leaves the history alone.                                               *)
THEOREM ImplementsLog == Spec => LogSpec
<1>1. Inv /\ [Next]_vars => [Log!Next]_(Log!vars)
  BY LogStep
<1> QED
  BY InvInit, InvStep, LogInit, <1>1, PTL DEF Spec, LogSpec, Log!Spec

-----------------------------------------------------------------------------
(* What RevisionLogProofs shows of every revision log, said of the store.  *)
LogProofs == INSTANCE RevisionLogProofs
                WITH log   <- revisions,
                     head  <- [d \in Docs |-> row[d].head],
                     bound <- [k \in Keys |-> Bound(keys[k])]

(* No update of a client is lost and no retry writes a second revision,    *)
(* however requests, retries, failures and crashes interleave.             *)
THEOREM UpdatesAreKept == Spec => []NoLostUpdate
<1>1. Log!Spec => LogProofs!Spec
  <2>1. Log!Init => LogProofs!Init
    BY DEF Log!Init, LogProofs!Init, Log!Unused, LogProofs!Unused
  <2>2. [Log!Next]_(Log!vars) => [LogProofs!Next]_(LogProofs!vars)
    BY DEF Log!Next, LogProofs!Next, Log!vars, LogProofs!vars, Log!Write,
           LogProofs!Write, Log!Bind, LogProofs!Bind, Log!Unused, LogProofs!Unused
  <2> QED
    BY <2>1, <2>2, PTL DEF Log!Spec, LogProofs!Spec
<1>2. LogProofs!Spec => []NoLostUpdate
  <2>1. LogProofs!HistoryIsLinear /\ LogProofs!WritesFollowTheirBase => NoLostUpdate
    BY DEF NoLostUpdate, LogProofs!HistoryIsLinear, Log!HistoryIsLinear,
           LogProofs!WritesFollowTheirBase, Log!WritesFollowTheirBase
  <2> QED
    BY LogProofs!HistoryIsSound, <2>1, PTL
<1> QED
  BY ImplementsLog, <1>1, <1>2, PTL DEF LogSpec

-----------------------------------------------------------------------------
(* The workspace directory.  What makes a file safe is who may change its  *)
(* row and its path: RowsSound says which rows there are, Exclusive that   *)
(* no two jobs own one document or one path, and the three facts about     *)
(* each job say that the path it leaves and the path it writes are among   *)
(* those it owns.                                                          *)

Late == {"committed", "written", "marked"}

(* A path belongs to one row; a live row with a path is pending or clean.  *)
RowsSound ==
    /\ \A d \in Docs : row[d].head = 0 => row[d].path = Nothing /\ ~row[d].deleted
    /\ \A d \in Docs : row[d].state # "none" => row[d].path # Nothing
    /\ \A d \in Docs : Live(d) /\ row[d].path # Nothing => row[d].state # "none"
    /\ \A d, e \in Docs : d # e /\ row[d].path # Nothing => row[d].path # row[e].path

Exclusive ==
    \A c, o \in Clients : c # o /\ Owning(c) /\ Owning(o) =>
        /\ job[c].doc # job[o].doc
        /\ OwnedPaths(c) \cap OwnedPaths(o) = {}

(* Before it commits, a job owns every path it may leave or go to, unless  *)
(* the head it expects is no longer the head.                              *)
Asked(c) ==
    LET q == job[c].request IN
    job[c].stage \in {"waiting", "locked"} =>
        /\ job[c].target = Nothing /\ job[c].stale = Nothing
        /\ q.op = "create" => q.expected = 0
        /\ q.op = "tag" => q.path = Nothing
        /\ q.op # "tag" => q.path \in job[c].paths \cup {Nothing}
        /\ q.op \notin {"create", "tag"} =>
             /\ q.expected <= Len(revisions)
             /\ row[job[c].doc].head = q.expected =>
                  row[job[c].doc].path \in job[c].paths \cup {Nothing}

(* No document is at the path a job has left.                              *)
Vacated(c) ==
    job[c].stage \in Late /\ job[c].stale # Nothing =>
        /\ job[c].stale \in job[c].paths
        /\ \A e \in Docs : row[e].path # job[c].stale

(* What a job has written stays the head of its document until it is       *)
(* marked clean.                                                           *)
Wrote(c) ==
    LET d == job[c].doc
        p == job[c].target
    IN /\ job[c].stage \in {"committed", "marked"} => p = Nothing
       /\ job[c].stage = "written" =>
             /\ p # Nothing /\ row[d].path = p /\ ~row[d].deleted
             /\ row[d].head = job[c].revision
             /\ p \notin edited => disk[p] = HeadContent(d)

JobSound(c) == Asked(c) /\ Vacated(c) /\ Wrote(c)

JobsSound == \A c \in Clients : JobSound(c)

TreeInv == Inv /\ RowsSound /\ Exclusive /\ JobsSound

-----------------------------------------------------------------------------
LEMMA JobFacts ==
  ASSUME Inv, NEW c \in Clients
  PROVE  /\ job[c] \in Jobs /\ Carries(job[c])
         /\ Len(revisions) \in Nat
         /\ Owning(c) => job[c].doc \in Docs
         /\ job[c].stage \in Late => job[c].revision \in 1..Len(revisions)
  BY DEF Inv, TypeOK, JobsCarry, Carries, Owning, Late

LEMMA RowFacts ==
  ASSUME Inv, NEW d \in Docs
  PROVE  row[d] \in Rows /\ row[d].head \in 0..Len(revisions) /\ Len(revisions) \in Nat
  BY DEF Inv, TypeOK, HeadsExist, Rows

LEMMA SameContent ==
  ASSUME Inv, NEW d \in Docs, row[d].head # 0, row'[d].head = row[d].head,
         revisions' = revisions
           \/ \E x \in Revisions : revisions' = Append(revisions, x)
  PROVE  HeadContent(d)' = HeadContent(d)
<1>1. row[d].head \in 1..Len(revisions)
  BY RowFacts
<1>2. revisions'[row[d].head] = revisions[row[d].head]
  BY <1>1 DEF Inv, TypeOK
<1> QED
  BY <1>2 DEF HeadContent

(* What another job's step must leave alone for the facts about job o.     *)
LEMMA KeepAsked ==
  ASSUME Inv, NEW o \in Clients, Asked(o), job'[o] = job[o],
         Len(revisions') \in Nat, Len(revisions) <= Len(revisions'),
         \A d \in Docs : \/ row'[d].head = row[d].head /\ row'[d].path = row[d].path
                         \/ row'[d].head = Len(revisions) + 1
  PROVE  Asked(o)'
<1>1. SUFFICES ASSUME job[o].stage \in {"waiting", "locked"}
               PROVE  Asked(o)'
  BY DEF Asked
<1> DEFINE q == job[o].request
           d == job[o].doc
<1>2. CASE q.op \in {"create", "tag"}
  BY <1>1, <1>2 DEF Asked
<1>3. CASE q.op \notin {"create", "tag"}
  <2>1. d \in Docs /\ q.expected \in Nat /\ Len(revisions) \in Nat
    BY <1>1, <1>3, JobFacts DEF Carries, Requests
  <2>2. /\ q.expected <= Len(revisions)
        /\ row[d].head = q.expected => row[d].path \in job[o].paths \cup {Nothing}
    BY <1>1, <1>3 DEF Asked
  <2>3. q.expected <= Len(revisions')
    BY <2>1, <2>2
  <2>4. row'[d].head = q.expected => row'[d].path \in job[o].paths \cup {Nothing}
    BY <2>1, <2>2
  <2> QED
    BY <1>1, <1>3, <2>3, <2>4 DEF Asked
<1> QED
  BY <1>2, <1>3

LEMMA KeepVacated ==
  ASSUME NEW o \in Clients, Vacated(o), job'[o] = job[o],
         \A e \in Docs : job[o].stage \in Late /\ job[o].stale # Nothing
                            /\ row'[e].path = job[o].stale
                              => row[e].path = job[o].stale
  PROVE  Vacated(o)'
  BY DEF Vacated, Late

LEMMA KeepWrote ==
  ASSUME Inv, NEW o \in Clients, Wrote(o), job'[o] = job[o],
         revisions' = revisions
           \/ \E x \in Revisions : revisions' = Append(revisions, x),
         job[o].stage = "written" =>
            LET d == job[o].doc
                p == job[o].target
            IN /\ row'[d].head = row[d].head /\ row'[d].path = row[d].path
               /\ row'[d].deleted = row[d].deleted
               /\ p \notin edited' => p \notin edited /\ disk'[p] = disk[p]
  PROVE  Wrote(o)'
<1>1. CASE job[o].stage = "written"
  <2>1. job[o].doc \in Docs /\ row[job[o].doc].head # 0
    BY <1>1, JobFacts DEF Owning, Late, Wrote
  <2>2. HeadContent(job[o].doc)' = HeadContent(job[o].doc)
    BY <1>1, <2>1, SameContent
  <2> QED
    BY <1>1, <2>2 DEF Wrote, HeadContent
<1>2. CASE job[o].stage # "written"
  BY <1>2 DEF Wrote
<1> QED
  BY <1>1, <1>2

-----------------------------------------------------------------------------
LEMMA ExclusiveStep ==
  ASSUME Exclusive, NEW c \in Clients, \A o \in Clients \ {c} : job'[o] = job[o],
         Owning(c)' => \A o \in Clients \ {c} : Owning(o) =>
                          /\ job'[c].doc # job[o].doc
                          /\ OwnedPaths(c)' \cap OwnedPaths(o) = {}
  PROVE  Exclusive'
<1>1. \A o \in Clients \ {c} : (Owning(o)' <=> Owning(o))
                              /\ OwnedPaths(o)' = OwnedPaths(o)
  BY DEF Owning, OwnedPaths
<1>2. SUFFICES ASSUME NEW a \in Clients, NEW b \in Clients, a # b,
                      Owning(a)', Owning(b)'
               PROVE  job'[a].doc # job'[b].doc
                      /\ OwnedPaths(a)' \cap OwnedPaths(b)' = {}
  BY DEF Exclusive
<1>3. CASE a = c
  <2>1. b \in Clients \ {c} /\ Owning(b) /\ job'[b] = job[b]
        /\ OwnedPaths(b)' = OwnedPaths(b)
    BY <1>1, <1>2, <1>3
  <2>2. Owning(c)'
    BY <1>2, <1>3
  <2>3. job'[c].doc # job[b].doc /\ OwnedPaths(c)' \cap OwnedPaths(b) = {}
    BY <2>1, <2>2
  <2> QED
    BY <1>3, <2>1, <2>3
<1>4. CASE b = c
  <2>1. a \in Clients \ {c} /\ Owning(a) /\ job'[a] = job[a]
        /\ OwnedPaths(a)' = OwnedPaths(a)
    BY <1>1, <1>2, <1>4
  <2>2. Owning(c)'
    BY <1>2, <1>4
  <2>3. job'[c].doc # job[a].doc /\ OwnedPaths(c)' \cap OwnedPaths(a) = {}
    BY <2>1, <2>2
  <2> QED
    BY <1>4, <2>1, <2>3
<1>5. CASE a # c /\ b # c
  BY <1>1, <1>2, <1>5 DEF Exclusive
<1> QED
  BY <1>3, <1>4, <1>5

(* A step of one job that leaves rows and revisions alone, and the files   *)
(* that other jobs have written.                                           *)
LEMMA QuietTree ==
  ASSUME TreeInv, NEW c \in Clients, \A o \in Clients \ {c} : job'[o] = job[o],
         UNCHANGED <<row, revisions>>, JobSound(c)',
         \A o \in Clients \ {c} : job[o].stage = "written" =>
            (job[o].target \notin edited' =>
               job[o].target \notin edited /\ disk'[job[o].target] = disk[job[o].target]),
         Owning(c)' => \A o \in Clients \ {c} : Owning(o) =>
                          /\ job'[c].doc # job[o].doc
                          /\ OwnedPaths(c)' \cap OwnedPaths(o) = {}
  PROVE  RowsSound' /\ Exclusive' /\ JobsSound'
<1>0. Inv /\ RowsSound /\ Exclusive /\ JobsSound
  BY DEF TreeInv
<1>1. RowsSound'
  BY <1>0 DEF RowsSound, Live
<1>2. Exclusive'
  BY <1>0, ExclusiveStep
<1>3. ASSUME NEW o \in Clients
      PROVE  JobSound(o)'
  <2>1. CASE o = c
    BY <2>1 DEF JobSound, Asked, Vacated, Wrote, HeadContent
  <2>2. CASE o # c
    <3>1. job'[o] = job[o] /\ Asked(o) /\ Vacated(o) /\ Wrote(o)
      BY <1>0, <2>2 DEF JobsSound, JobSound
    <3>2. Asked(o)'
      BY <1>0, <3>1, KeepAsked, JobFacts
    <3>3. Vacated(o)'
      BY <3>1, KeepVacated
    <3>4. Wrote(o)'
      BY <1>0, <2>2, <3>1, KeepWrote
    <3> QED
      BY <3>2, <3>3, <3>4 DEF JobSound
  <2> QED
    BY <2>1, <2>2
<1> QED
  BY <1>1, <1>2, <1>3 DEF JobsSound

(* A job that goes on keeps the document and at most the paths it had.     *)
LEMMA OwnsNoMore ==
  ASSUME Exclusive, NEW c \in Clients, Owning(c), job'[c].doc = job[c].doc,
         OwnedPaths(c)' \subseteq OwnedPaths(c)
  PROVE  \A o \in Clients \ {c} : Owning(o) =>
            job'[c].doc # job[o].doc /\ OwnedPaths(c)' \cap OwnedPaths(o) = {}
  BY DEF Exclusive

LEMMA SubmitTree ==
  ASSUME TreeInv, NEW c \in Clients, NEW w \in Writes, NEW k \in Keys, Submit(c, w, k)
  PROVE  RowsSound' /\ Exclusive' /\ JobsSound'
<1>0. Inv /\ TypeOK
  BY DEF TreeInv, Inv
<1>1. PICK e \in Expectations(w), b \in Bodies(w) :
         job' = [job EXCEPT
                    ![c] = [Idle EXCEPT
                              !.stage = "waiting", !.key = k, !.doc = w.doc,
                              !.paths = PathsToLock(w),
                              !.request = [op |-> w.op, doc |-> w.doc,
                                           content |-> b, path |-> w.path,
                                           expected |-> e]]]
  BY DEF Submit
<1> DEFINE q == [op |-> w.op, doc |-> w.doc, content |-> b, path |-> w.path,
                 expected |-> e]
           j == [Idle EXCEPT !.stage = "waiting", !.key = k, !.doc = w.doc,
                             !.paths = PathsToLock(w), !.request = q]
<1>2. /\ j.stage = "waiting" /\ j.target = Nothing /\ j.stale = Nothing
      /\ j.paths = PathsToLock(w) /\ j.doc = w.doc /\ j.request = q
      /\ q.op = w.op /\ q.expected = e /\ q.path = w.path
  BY DEF Idle
<1>3. job' = [job EXCEPT ![c] = j]
  BY <1>1
<1> HIDE DEF q, j
<1>4. job'[c] = j /\ \A o \in Clients \ {c} : job'[o] = job[o]
  BY <1>0, <1>3 DEF TypeOK
<1>5. /\ w.path \in Paths \cup {Nothing} /\ (w.op = "tag" => w.path = Nothing)
      /\ (w.op # "create" => w.doc \in Docs) /\ Nothing \notin Paths
  BY StoreAssumption
<1>6. UNCHANGED <<row, revisions, disk, edited>>
  BY DEF Submit
<1>7. w.op = "create" => e = 0
  BY DEF Expectations
<1>8. w.op \notin {"create", "tag"} =>
        /\ e <= Len(revisions)
        /\ row[w.doc].path \in PathsToLock(w) \cup {Nothing}
  <2>1. w.op \notin {"create", "tag"} => e \in 1..Len(revisions)
    BY DEF Expectations, RevisionsOf
  <2> QED
    BY <1>0, <2>1, JobFacts DEF PathsToLock
<1>9. w.op # "tag" => w.path \in PathsToLock(w) \cup {Nothing}
  BY <1>5 DEF PathsToLock
<1>10. JobSound(c)'
  BY <1>2, <1>4, <1>5, <1>6, <1>7, <1>8, <1>9 DEF JobSound, Asked, Vacated, Wrote, Late
<1>11. ~Owning(c)'
  BY <1>2, <1>4 DEF Owning
<1> QED
  BY <1>4, <1>6, <1>10, <1>11, QuietTree

(* A request that ends owns nothing.                                       *)
LEMMA EndTree ==
  ASSUME TreeInv, NEW c \in Clients, End(c), UNCHANGED <<row, revisions>>,
         \A o \in Clients \ {c} : job[o].stage = "written" =>
            (job[o].target \notin edited' =>
               job[o].target \notin edited /\ disk'[job[o].target] = disk[job[o].target])
  PROVE  RowsSound' /\ Exclusive' /\ JobsSound'
<1>1. job'[c] = Idle /\ \A o \in Clients \ {c} : job'[o] = job[o]
  BY DEF TreeInv, Inv, TypeOK, End
<1>2. JobSound(c)' /\ ~Owning(c)'
  BY <1>1 DEF JobSound, Asked, Vacated, Wrote, Late, Owning, Idle
<1> QED
  BY <1>1, <1>2, QuietTree

LEMMA AcquireTree ==
  ASSUME TreeInv, NEW c \in Clients, Acquire(c)
  PROVE  RowsSound' /\ Exclusive' /\ JobsSound'
<1>0. Inv /\ TypeOK /\ Exclusive /\ JobSound(c) /\ job[c] \in Jobs
  BY DEF TreeInv, Inv, JobsSound, TypeOK
<1>1. /\ UNCHANGED <<row, revisions, disk, edited>>
      /\ PathsFree(c, job[c].paths) /\ job[c].stage = "waiting"
  BY DEF Acquire
<1>2. ASSUME NEW d \in Docs, DocumentFree(c, d),
             job' = [job EXCEPT ![c] = [job[c] EXCEPT !.stage = "locked", !.doc = d]],
             d = job[c].doc \/ job[c].request.op = "create"
      PROVE  RowsSound' /\ Exclusive' /\ JobsSound'
  <2> DEFINE j == [job[c] EXCEPT !.stage = "locked", !.doc = d]
  <2>1. /\ j.stage = "locked" /\ j.doc = d /\ j.target = job[c].target
        /\ j.stale = job[c].stale /\ j.paths = job[c].paths
        /\ j.request = job[c].request
    BY <1>0 DEF Jobs
  <2>2. job' = [job EXCEPT ![c] = j]
    BY <1>2
  <2> HIDE DEF j
  <2>3. job'[c] = j /\ \A o \in Clients \ {c} : job'[o] = job[o]
    BY <1>0, <2>2 DEF TypeOK
  <2>4. JobSound(c)'
    BY <1>0, <1>1, <1>2, <2>1, <2>3 DEF JobSound, Asked, Vacated, Wrote, Late
  <2>5. OwnedPaths(c)' \subseteq job[c].paths
    BY <1>0, <1>1, <2>1, <2>3 DEF OwnedPaths, JobSound, Asked
  <2>6. \A o \in Clients \ {c} : Owning(o) =>
           job'[c].doc # job[o].doc /\ OwnedPaths(c)' \cap OwnedPaths(o) = {}
    BY <1>1, <1>2, <2>1, <2>3, <2>5 DEF DocumentFree, PathsFree
  <2> QED
    BY <1>1, <2>3, <2>4, <2>6, QuietTree
<1>3. CASE job[c].request.op # "create"
  <2>1. job[c].doc \in Docs
    BY <1>0, <1>1, <1>3 DEF Inv, JobsCarry, Carries
  <2>2. DocumentFree(c, job[c].doc) /\ job' = [job EXCEPT ![c].stage = "locked"]
    BY <1>3 DEF Acquire
  <2>3. [job[c] EXCEPT !.stage = "locked"]
          = [job[c] EXCEPT !.stage = "locked", !.doc = job[c].doc]
    BY <1>0 DEF Jobs
  <2> QED
    BY <1>2, <2>1, <2>2, <2>3
<1>4. CASE job[c].request.op = "create"
  <2>1. CASE Replayed(c)
    <3> DEFINE r == keys[job[c].key].revision
               d == revisions[r].doc
    <3>1. r \in 1..Len(revisions)
      BY <1>0, <1>1, <2>1 DEF Replayed, Inv, KeysExist, JobsCarry, Carries
    <3>2. d \in Docs
      <4>1. revisions[r] \in Revisions
        BY <1>0, <3>1, ElementType DEF TypeOK
      <4> QED
        BY <4>1 DEF Revisions
    <3>3. DocumentFree(c, d) /\ job' = [job EXCEPT ![c].stage = "locked", ![c].doc = d]
      BY <1>4, <2>1 DEF Acquire, Replayed
    <3> QED
      BY <1>2, <1>4, <3>2, <3>3
  <2>2. CASE keys[job[c].key] = Unbound
    <3>1. PICK d \in Docs : DocumentFree(c, d)
             /\ job' = [job EXCEPT ![c].stage = "locked", ![c].doc = d]
      BY <1>4, <2>2 DEF Acquire, Replayed
    <3> QED
      BY <1>2, <1>4, <3>1
  <2>3. CASE keys[job[c].key] # Unbound /\ ~Replayed(c)
    BY <1>1, <1>4, <2>3, EndTree DEF Acquire
  <2> QED
    BY <2>1, <2>2, <2>3
<1> QED
  BY <1>3, <1>4

(* A job that goes on with the same document, paths and files.             *)
LEMMA ReplayTree ==
  ASSUME TreeInv, NEW c \in Clients, Replay(c) \/ NothingToFinish(c)
  PROVE  RowsSound' /\ Exclusive' /\ JobsSound'
<1>0. Inv /\ TypeOK /\ Exclusive /\ JobSound(c) /\ job[c] \in Jobs
  BY DEF TreeInv, Inv, JobsSound, TypeOK
<1>1. UNCHANGED <<row, revisions, disk, edited>> /\ job[c].stage \in {"locked", "committed"}
  BY DEF Replay, NothingToFinish
<1>2. /\ \A o \in Clients \ {c} : job'[o] = job[o]
      /\ job'[c].stage \in {"committed", "marked"}
      /\ job'[c].target = job[c].target /\ job'[c].stale = job[c].stale
      /\ job'[c].paths = job[c].paths /\ job'[c].doc = job[c].doc
  BY <1>0 DEF Replay, NothingToFinish, TypeOK, Jobs
<1>3. JobSound(c)'
  BY <1>0, <1>1, <1>2 DEF JobSound, Asked, Vacated, Wrote, Late
<1>4. Owning(c) /\ OwnedPaths(c)' \subseteq OwnedPaths(c)
  BY <1>1, <1>2 DEF OwnedPaths, Owning
<1> QED
  BY <1>0, <1>1, <1>2, <1>3, <1>4, OwnsNoMore, QuietTree

-----------------------------------------------------------------------------
(* No document is at a path another job owns and has not written.          *)
LEMMA WriteFileTree ==
  ASSUME TreeInv, NEW c \in Clients, WriteFile(c)
  PROVE  RowsSound' /\ Exclusive' /\ JobsSound'
<1> DEFINE d == job[c].doc
           p == row[d].path
<1>0. Inv /\ TypeOK /\ Exclusive /\ JobSound(c) /\ job[c] \in Jobs
  BY DEF TreeInv, Inv, JobsSound, TypeOK
<1>1. /\ job[c].stage = "committed" /\ Unfinished(c) /\ PathsFree(c, {p})
      /\ disk' = [disk EXCEPT ![p] = HeadContent(d)] /\ edited' = edited \ {p}
      /\ UNCHANGED <<row, revisions>>
      /\ job' = [job EXCEPT ![c].stage = "written", ![c].target = p]
  BY DEF WriteFile
<1>2. d \in Docs /\ Owning(c)
  BY <1>0, <1>1, JobFacts DEF Owning
<1>3. p \in Paths /\ p # Nothing /\ ~row[d].deleted /\ row[d].head = job[c].revision
  BY <1>0, <1>1, <1>2, RowFacts DEF Unfinished, Rows
<1>4. /\ \A o \in Clients \ {c} : job'[o] = job[o]
      /\ job'[c].stage = "written" /\ job'[c].target = p
      /\ job'[c].stale = job[c].stale /\ job'[c].revision = job[c].revision
      /\ job'[c].paths = job[c].paths /\ job'[c].doc = d
  BY <1>0, <1>1 DEF TypeOK, Jobs
<1>5. disk'[p] = HeadContent(d) /\ \A x \in Paths \ {p} : disk'[x] = disk[x]
  BY <1>0, <1>1, <1>3 DEF TypeOK
<1>6. HeadContent(job[c].doc)' = HeadContent(d)
  BY <1>1, <1>4 DEF HeadContent
<1>7. JobSound(c)'
  BY <1>0, <1>1, <1>3, <1>4, <1>5, <1>6
     DEF JobSound, Asked, Vacated, Wrote, Late, HeadContent
<1>8. ASSUME NEW o \in Clients \ {c}, Owning(o)
      PROVE  /\ job'[c].doc # job[o].doc
             /\ OwnedPaths(c)' \cap OwnedPaths(o) = {}
  <2>1. OwnedPaths(c)' \subseteq OwnedPaths(c) \cup {p}
    BY <1>2, <1>4 DEF OwnedPaths, Owning
  <2>2. OwnedPaths(c) \cap OwnedPaths(o) = {} /\ d # job[o].doc
    BY <1>0, <1>2, <1>8 DEF Exclusive
  <2>3. p \notin OwnedPaths(o)
    BY <1>1, <1>8 DEF PathsFree
  <2> QED
    BY <2>1, <2>2, <2>3, <1>4
<1>9. ASSUME NEW o \in Clients \ {c}, job[o].stage = "written"
      PROVE  job[o].target \in Paths \ {p}
  <2>1. job[o].target \in Paths /\ job[o].target # Nothing
    BY <1>0, <1>9 DEF TreeInv, JobsSound, JobSound, Wrote, TypeOK, Jobs
  <2>2. Owning(o) /\ job[o].target \in OwnedPaths(o)
    BY <1>9, <2>1 DEF OwnedPaths, Owning
  <2> QED
    BY <1>1, <2>1, <2>2 DEF PathsFree
<1> QED
  BY <1>1, <1>4, <1>5, <1>7, <1>8, <1>9, QuietTree

(* What a request removes, no other job has written and no live document   *)
(* needs.                                                                  *)
LEMMA StaleIsFree ==
  ASSUME TreeInv, NEW c \in Clients, job[c].stage \in Late
  PROVE  \A d \in Docs : Live(d) => row[d].path \notin StaleFiles(c)
<1>1. SUFFICES ASSUME NEW d \in Docs, Live(d), row[d].path \in StaleFiles(c)
               PROVE  FALSE
  OBVIOUS
<1>2. Vacated(c) /\ Inv /\ RowsSound
  BY DEF TreeInv, JobsSound, JobSound
<1>3. job[c].doc \in Docs /\ row[d].path # Nothing
  BY <1>1, <1>2, JobFacts DEF Late, Owning, StaleFiles
<1>4. row[d].path # job[c].stale
  BY <1>1, <1>2, <1>3 DEF Vacated
<1>5. row[job[c].doc].deleted /\ row[d].path = row[job[c].doc].path
  BY <1>1, <1>4 DEF StaleFiles
<1>6. d = job[c].doc
  BY <1>2, <1>3, <1>5 DEF RowsSound
<1> QED
  BY <1>1, <1>5, <1>6 DEF Live

LEMMA WrittenIsLive ==
  ASSUME TreeInv, NEW o \in Clients, job[o].stage = "written"
  PROVE  /\ job[o].doc \in Docs /\ Live(job[o].doc)
         /\ job[o].target \in Paths /\ job[o].target = row[job[o].doc].path
         /\ row[job[o].doc].head = job[o].revision
         /\ job[o].target \notin edited =>
               disk[job[o].target] = HeadContent(job[o].doc)
<1>1. Inv /\ Wrote(o) /\ job[o] \in Jobs
  BY JobFacts DEF TreeInv, JobsSound, JobSound
<1>2. job[o].doc \in Docs /\ job[o].revision \in 1..Len(revisions)
      /\ Len(revisions) \in Nat
  BY <1>1, JobFacts DEF Owning, Late
<1> QED
  BY <1>1, <1>2 DEF Wrote, Live, Jobs

LEMMA AnswerTree ==
  ASSUME TreeInv, NEW c \in Clients, Answer(c)
  PROVE  RowsSound' /\ Exclusive' /\ JobsSound'
<1>1. /\ End(c) /\ UNCHANGED <<row, revisions>> /\ job[c].stage \in Late
      /\ disk' = [p \in Paths |-> IF p \in StaleFiles(c) THEN Nothing ELSE disk[p]]
      /\ edited' = edited \ StaleFiles(c)
  BY DEF Answer, Late
<1>2. ASSUME NEW o \in Clients, job[o].stage = "written"
      PROVE  job[o].target \in Paths \ StaleFiles(c)
  BY <1>1, <1>2, WrittenIsLive, StaleIsFree
<1> QED
  BY <1>1, <1>2, EndTree

-----------------------------------------------------------------------------
(* The steps that change a row are steps of the job that owns it.          *)
LEMMA OtherJobs ==
  ASSUME TreeInv, NEW c \in Clients, NEW o \in Clients \ {c}, Owning(c),
         job'[o] = job[o], UNCHANGED <<disk, edited>>,
         revisions' = revisions
           \/ \E x \in Revisions : revisions' = Append(revisions, x),
         \A e \in Docs \ {job[c].doc} : row'[e] = row[e],
         LET d == job[c].doc IN
            \/ row'[d].head = row[d].head /\ row'[d].path = row[d].path
            \/ /\ row'[d].head = Len(revisions) + 1
               /\ row'[d].path \in {row[d].path, Nothing} \cup job[c].paths
  PROVE  JobSound(o)'
<1> DEFINE d == job[c].doc
<1>0. Inv /\ Asked(o) /\ Vacated(o) /\ Wrote(o) /\ Exclusive
      /\ job[o] \in Jobs /\ d \in Docs
  BY JobFacts DEF TreeInv, JobsSound, JobSound
<1>1. Len(revisions') \in Nat /\ Len(revisions) <= Len(revisions')
  BY <1>0 DEF Inv, TypeOK
<1>2. Owning(o) => d # job[o].doc /\ OwnedPaths(c) \cap OwnedPaths(o) = {}
  BY <1>0 DEF Exclusive
<1>3. Asked(o)'
  <2>1. \A e \in Docs : \/ row'[e].head = row[e].head /\ row'[e].path = row[e].path
                        \/ row'[e].head = Len(revisions) + 1
    OBVIOUS
  <2> QED
    BY <1>0, <1>1, <2>1, KeepAsked
<1>4. Vacated(o)'
  <2>1. ASSUME job[o].stage \in Late, job[o].stale # Nothing
        PROVE  job[o].stale \notin job[c].paths
    <3>1. Owning(o) /\ job[o].stale \in job[o].paths
      BY <1>0, <2>1 DEF Vacated, Late, Owning
    <3>2. job[o].stale \in OwnedPaths(o)
      BY <2>1, <3>1 DEF OwnedPaths
    <3>3. job[o].stale \in job[c].paths => job[o].stale \in OwnedPaths(c)
      BY <2>1 DEF OwnedPaths
    <3> QED
      BY <1>2, <3>1, <3>2, <3>3
  <2> QED
    BY <1>0, <2>1, KeepVacated
<1>5. Wrote(o)'
  <2>1. job[o].stage = "written" => job[o].doc \in Docs \ {d}
    BY <1>0, <1>2, JobFacts DEF Owning
  <2> QED
    BY <1>0, <2>1, KeepWrote
<1> QED
  BY <1>3, <1>4, <1>5 DEF JobSound

LEMMA MarkFacts ==
  ASSUME TreeInv, NEW c \in Clients, MarkClean(c)
  PROVE  LET d == job[c].doc IN
         /\ d \in Docs /\ Live(d) /\ row[d].path \in Paths
         /\ row'[d] = [row[d] EXCEPT !.state = "clean"]
         /\ row'[d].head = row[d].head /\ row'[d].path = row[d].path
         /\ row'[d].deleted = row[d].deleted /\ row'[d].state = "clean"
         /\ \A e \in Docs \ {d} : row'[e] = row[e]
         /\ \A o \in Clients \ {c} : job'[o] = job[o]
         /\ job'[c].stage = "marked" /\ job'[c].target = Nothing
         /\ job'[c].stale = job[c].stale /\ job'[c].doc = d
         /\ job'[c].paths = job[c].paths /\ job'[c].revision = job[c].revision
         /\ UNCHANGED <<revisions, disk, edited>>
<1> DEFINE d == job[c].doc
<1>0. Inv /\ TypeOK /\ job[c] \in Jobs /\ job[c].stage = "written"
  BY JobFacts DEF TreeInv, Inv, MarkClean
<1>1. d \in Docs /\ Live(d) /\ row[d].path \in Paths /\ row[d].head = job[c].revision
      /\ row[d] \in Rows
  BY <1>0, WrittenIsLive, RowFacts
<1>2. row' = [row EXCEPT ![d].state = "clean"]
  BY <1>1 DEF MarkClean
<1>3. row'[d] = [row[d] EXCEPT !.state = "clean"] /\ \A e \in Docs \ {d} : row'[e] = row[e]
  BY <1>0, <1>1, <1>2 DEF TypeOK
<1>4. /\ row'[d].head = row[d].head /\ row'[d].path = row[d].path
      /\ row'[d].deleted = row[d].deleted /\ row'[d].state = "clean"
  BY <1>1, <1>3 DEF Rows
<1>5. /\ \A o \in Clients \ {c} : job'[o] = job[o]
      /\ job'[c].stage = "marked" /\ job'[c].target = Nothing
      /\ job'[c].stale = job[c].stale /\ job'[c].doc = d
      /\ job'[c].paths = job[c].paths /\ job'[c].revision = job[c].revision
      /\ UNCHANGED <<revisions, disk, edited>>
  BY <1>0 DEF MarkClean, TypeOK, Jobs
<1> QED
  BY <1>1, <1>3, <1>4, <1>5

LEMMA MarkCleanTree ==
  ASSUME TreeInv, NEW c \in Clients, MarkClean(c)
  PROVE  RowsSound' /\ Exclusive' /\ JobsSound'
<1> DEFINE d == job[c].doc
<1>0. Inv /\ RowsSound /\ Exclusive /\ JobSound(c) /\ job[c].stage = "written"
  BY DEF TreeInv, JobsSound, MarkClean
<1>1. /\ d \in Docs /\ Live(d) /\ row[d].path \in Paths
      /\ row'[d].head = row[d].head /\ row'[d].path = row[d].path
      /\ row'[d].deleted = row[d].deleted /\ row'[d].state = "clean"
      /\ \A e \in Docs \ {d} : row'[e] = row[e]
      /\ \A o \in Clients \ {c} : job'[o] = job[o]
      /\ job'[c].stage = "marked" /\ job'[c].target = Nothing
      /\ job'[c].stale = job[c].stale /\ job'[c].doc = d
      /\ job'[c].paths = job[c].paths
      /\ UNCHANGED <<revisions, disk, edited>>
  BY MarkFacts
<1>2. Nothing \notin Paths /\ Owning(c)
  BY <1>0, StoreAssumption DEF Owning
<1>3. \A e \in Docs : row'[e].head = row[e].head /\ row'[e].path = row[e].path
                     /\ row'[e].deleted = row[e].deleted
                     /\ (row'[e].state = row[e].state \/ e = d)
  BY <1>1
<1> HIDE DEF d
<1>4. RowsSound'
  BY <1>0, <1>1, <1>2, <1>3 DEF RowsSound, Live
<1>5. Exclusive'
  <2>1. OwnedPaths(c)' \subseteq OwnedPaths(c)
    BY <1>1, <1>2 DEF OwnedPaths, Owning
  <2> QED
    BY <1>0, <1>1, <1>2, <2>1, OwnsNoMore, ExclusiveStep DEF d
<1>6. JobSound(c)'
  BY <1>0, <1>1, <1>3 DEF JobSound, Asked, Vacated, Wrote, Late
<1>7. \A o \in Clients \ {c} : JobSound(o)'
  BY <1>1, <1>2, OtherJobs DEF d
<1> QED
  BY <1>4, <1>5, <1>6, <1>7 DEF JobsSound

-----------------------------------------------------------------------------
(* The committing transaction.                                             *)
LEMMA AppendFields ==
  ASSUME TreeInv, NEW c \in Clients, job[c].stage = "locked", AppendRevision(c),
         Writable(c)
  PROVE  LET d == job[c].doc
             r == Len(revisions) + 1
             p == NextPath(c)
             s == IF row[d].path # p THEN row[d].path ELSE Nothing
         IN
         /\ d \in Docs /\ r \in Nat \ {0}
         /\ row'[d].head = r /\ row'[d].path = p
         /\ row'[d].state = NextState(c) /\ row'[d].deleted = NextDeleted(c)
         /\ \A e \in Docs \ {d} : row'[e] = row[e]
         /\ \E x \in Revisions : revisions' = Append(revisions, x)
         /\ \A o \in Clients \ {c} : job'[o] = job[o]
         /\ job'[c].stage = "committed" /\ job'[c].revision = r
         /\ job'[c].stale = s /\ job'[c].target = Nothing
         /\ job'[c].doc = d /\ job'[c].paths = job[c].paths
         /\ s \in job[c].paths \cup {Nothing}
         /\ p \in {row[d].path} \cup job[c].paths
         /\ \A e \in Docs \ {d} : p # Nothing => row[e].path # p
<1> DEFINE d == job[c].doc
           q == job[c].request
           r == Len(revisions) + 1
           p == NextPath(c)
           s == IF row[d].path # p THEN row[d].path ELSE Nothing
<1>0. Inv /\ TypeOK /\ RowsSound /\ Asked(c) /\ job[c] \in Jobs
      /\ Len(revisions) \in Nat
  BY JobFacts DEF TreeInv, Inv, JobsSound, JobSound
<1>1. d \in Docs /\ row[d] \in Rows /\ q \in Requests /\ NextContent(c) \in Contents
  BY <1>0, LockedFacts, NextContentType
<1>2. /\ row' = [row EXCEPT
                   ![d].head = r, ![d].path = p,
                   ![d].state = NextState(c), ![d].deleted = NextDeleted(c)]
      /\ job' = [job EXCEPT ![c].stage = "committed", ![c].revision = r, ![c].stale = s]
      /\ revisions' = Append(revisions, [doc |-> d, parent |-> row[d].head,
                                         content |-> NextContent(c)])
      /\ q.op # "tag"
  BY DEF AppendRevision
<1>3. \E x \in Revisions : revisions' = Append(revisions, x)
  BY <1>1, <1>2 DEF Revisions, Rows
<1>4. Expected(c) /\ PathUnique(c)
  BY DEF Writable
<1>5. p \in {row[d].path} \cup job[c].paths
  BY <1>0, <1>2 DEF NextPath, Asked
<1>6. s \in job[c].paths \cup {Nothing}
  <2>1. q.expected = row[d].head
    BY <1>2, <1>4 DEF Expected
  <2>2. CASE q.op = "create"
    BY <1>0, <1>1, <2>1, <2>2 DEF Asked, RowsSound
  <2>3. CASE q.op # "create"
    BY <1>0, <1>1, <1>2, <2>1, <2>3 DEF Asked
  <2> QED
    BY <2>2, <2>3
<1>7. \A e \in Docs \ {d} : p # Nothing => row[e].path # p
  BY <1>4 DEF PathUnique
<1>8. job[c].target = Nothing
  BY <1>0 DEF Asked
<1> HIDE DEF p, r, s
<1>9. /\ \A o \in Clients \ {c} : job'[o] = job[o]
      /\ job'[c].stage = "committed" /\ job'[c].revision = r
      /\ job'[c].stale = s /\ job'[c].target = job[c].target
      /\ job'[c].doc = d /\ job'[c].paths = job[c].paths
  BY <1>0, <1>2 DEF TypeOK, Jobs
<1>10. /\ row'[d].head = r /\ row'[d].path = p
       /\ row'[d].state = NextState(c) /\ row'[d].deleted = NextDeleted(c)
       /\ \A e \in Docs \ {d} : row'[e] = row[e]
  BY <1>0, <1>1, <1>2 DEF TypeOK, Rows
<1>11. r \in Nat \ {0}
  BY <1>0 DEF r
<1> QED
  BY <1>1, <1>3, <1>5, <1>6, <1>7, <1>8, <1>9, <1>10, <1>11 DEF p, r, s

LEMMA AppendTree ==
  ASSUME TreeInv, NEW c \in Clients, job[c].stage = "locked", AppendRevision(c),
         Writable(c), UNCHANGED <<disk, edited>>
  PROVE  RowsSound' /\ Exclusive' /\ JobsSound'
<1> DEFINE d == job[c].doc
           r == Len(revisions) + 1
           p == NextPath(c)
           s == IF row[d].path # p THEN row[d].path ELSE Nothing
<1>0. RowsSound /\ Exclusive /\ Owning(c)
  BY DEF TreeInv, Owning
<1>1. /\ d \in Docs /\ r \in Nat \ {0}
      /\ row'[d].head = r /\ row'[d].path = p
      /\ row'[d].state = NextState(c) /\ row'[d].deleted = NextDeleted(c)
      /\ \A e \in Docs \ {d} : row'[e] = row[e]
  BY AppendFields
<1>2. \E x \in Revisions : revisions' = Append(revisions, x)
  BY AppendFields
<1>3. /\ \A o \in Clients \ {c} : job'[o] = job[o]
      /\ job'[c].stage = "committed"
      /\ job'[c].stale = s /\ job'[c].target = Nothing
      /\ job'[c].doc = d /\ job'[c].paths = job[c].paths
  BY AppendFields
<1>4. /\ s \in job[c].paths \cup {Nothing}
      /\ p \in {row[d].path} \cup job[c].paths
      /\ \A e \in Docs \ {d} : p # Nothing => row[e].path # p
  BY AppendFields
<1>5. NextState(c) # "none" <=> ~NextDeleted(c) /\ p # Nothing
  BY DEF NextState
<1>6. s # Nothing => s = row[d].path /\ s # p
  OBVIOUS
<1> HIDE DEF d, r, p, s
<1>7. RowsSound'
  BY <1>0, <1>1, <1>4, <1>5 DEF RowsSound, Live
<1>8. Exclusive'
  <2>1. OwnedPaths(c)' \subseteq OwnedPaths(c)
    BY <1>0, <1>3 DEF OwnedPaths, Owning
  <2> QED
    BY <1>0, <1>3, <2>1, OwnsNoMore, ExclusiveStep DEF d
<1>9. JobSound(c)'
  <2>1. Vacated(c)'
    BY <1>0, <1>1, <1>3, <1>4, <1>6 DEF Vacated, RowsSound, Late
  <2> QED
    BY <1>3, <2>1 DEF JobSound, Asked, Wrote
<1>10. \A o \in Clients \ {c} : JobSound(o)'
  BY <1>0, <1>1, <1>2, <1>3, <1>4, OtherJobs DEF d, r
<1> QED
  BY <1>7, <1>8, <1>9, <1>10 DEF JobsSound

LEMMA MetadataFields ==
  ASSUME TreeInv, NEW c \in Clients, job[c].stage = "locked", UpdateMetadata(c)
  PROVE  LET d == job[c].doc IN
         /\ d \in Docs /\ revisions' = revisions
         /\ \A e \in Docs : /\ row'[e].head = row[e].head /\ row'[e].path = row[e].path
                            /\ row'[e].state = row[e].state
                            /\ row'[e].deleted = row[e].deleted
         /\ \A e \in Docs \ {d} : row'[e] = row[e]
         /\ \A o \in Clients \ {c} : job'[o] = job[o]
         /\ job'[c].stage = "committed" /\ job'[c].doc = d
         /\ job'[c].stale = job[c].stale /\ job'[c].target = job[c].target
         /\ job'[c].paths = job[c].paths
<1> DEFINE d == job[c].doc
<1>0. Inv /\ TypeOK /\ job[c] \in Jobs
  BY JobFacts DEF TreeInv, Inv
<1>1. d \in Docs /\ row[d] \in Rows
  BY <1>0, LockedFacts
<1>2. /\ row' = [row EXCEPT ![d].version = @ + 1] /\ revisions' = revisions
      /\ job' = [job EXCEPT ![c].stage = "committed", ![c].revision = row[d].head]
  BY DEF UpdateMetadata
<1>3. /\ \A e \in Docs : /\ row'[e].head = row[e].head /\ row'[e].path = row[e].path
                         /\ row'[e].state = row[e].state
                         /\ row'[e].deleted = row[e].deleted
      /\ \A e \in Docs \ {d} : row'[e] = row[e]
  BY <1>0, <1>1, <1>2 DEF TypeOK, Rows
<1>4. /\ \A o \in Clients \ {c} : job'[o] = job[o]
      /\ job'[c].stage = "committed" /\ job'[c].doc = d
      /\ job'[c].stale = job[c].stale /\ job'[c].target = job[c].target
      /\ job'[c].paths = job[c].paths
  BY <1>0, <1>2 DEF TypeOK, Jobs
<1> QED
  BY <1>1, <1>2, <1>3, <1>4

LEMMA MetadataTree ==
  ASSUME TreeInv, NEW c \in Clients, job[c].stage = "locked", UpdateMetadata(c),
         UNCHANGED <<disk, edited>>
  PROVE  RowsSound' /\ Exclusive' /\ JobsSound'
<1> DEFINE d == job[c].doc
<1>0. RowsSound /\ Exclusive /\ Owning(c) /\ JobSound(c)
  BY DEF TreeInv, Owning, JobsSound
<1>1. /\ d \in Docs /\ revisions' = revisions
      /\ \A e \in Docs : /\ row'[e].head = row[e].head /\ row'[e].path = row[e].path
                         /\ row'[e].state = row[e].state
                         /\ row'[e].deleted = row[e].deleted
      /\ \A e \in Docs \ {d} : row'[e] = row[e]
      /\ \A o \in Clients \ {c} : job'[o] = job[o]
      /\ job'[c].stage = "committed" /\ job'[c].doc = d
      /\ job'[c].stale = job[c].stale /\ job'[c].target = job[c].target
      /\ job'[c].paths = job[c].paths
  BY MetadataFields
<1> HIDE DEF d
<1>2. RowsSound'
  BY <1>0, <1>1 DEF RowsSound, Live
<1>3. Exclusive'
  <2>1. OwnedPaths(c)' \subseteq OwnedPaths(c)
    BY <1>0, <1>1 DEF OwnedPaths, Owning
  <2> QED
    BY <1>0, <1>1, <2>1, OwnsNoMore, ExclusiveStep DEF d
<1>4. JobSound(c)'
  BY <1>0, <1>1 DEF JobSound, Asked, Vacated, Wrote, Late
<1>5. \A o \in Clients \ {c} : JobSound(o)'
  BY <1>0, <1>1, OtherJobs DEF d
<1> QED
  BY <1>2, <1>3, <1>4, <1>5 DEF JobsSound

-----------------------------------------------------------------------------
LEMMA EditFileTree ==
  ASSUME TreeInv, NEW p \in Paths, NEW x \in Contents \cup {Nothing}, EditFile(p, x)
  PROVE  RowsSound' /\ Exclusive' /\ JobsSound'
<1>0. Inv /\ TypeOK /\ RowsSound /\ Exclusive /\ JobsSound
  BY DEF TreeInv, Inv
<1>1. /\ UNCHANGED <<row, revisions, job>> /\ edited' = edited \cup {p}
      /\ disk' = [disk EXCEPT ![p] = x]
  BY DEF EditFile
<1>2. RowsSound' /\ Exclusive'
  BY <1>0, <1>1 DEF RowsSound, Live, Exclusive, Owning, OwnedPaths
<1>3. ASSUME NEW o \in Clients
      PROVE  JobSound(o)'
  <2>1. Asked(o)' /\ Vacated(o)'
    BY <1>0, <1>1 DEF JobsSound, JobSound, Asked, Vacated
  <2>2. job[o].stage = "written" => job[o].target \in Paths
    BY WrittenIsLive
  <2>3. Wrote(o)'
    BY <1>0, <1>1, <2>2, KeepWrote DEF TypeOK, JobsSound, JobSound
  <2> QED
    BY <2>1, <2>3 DEF JobSound
<1> QED
  BY <1>2, <1>3 DEF JobsSound

LEMMA CrashTree ==
  ASSUME TreeInv, Crash
  PROVE  RowsSound' /\ Exclusive' /\ JobsSound'
<1>1. UNCHANGED row /\ \A c \in Clients : job'[c] = Idle
  BY DEF Crash
<1>2. RowsSound'
  BY <1>1 DEF TreeInv, RowsSound, Live
<1>3. Exclusive'
  BY <1>1 DEF Exclusive, Owning, Idle
<1>4. JobsSound'
  BY <1>1 DEF JobsSound, JobSound, Asked, Vacated, Wrote, Late, Idle
<1> QED
  BY <1>2, <1>3, <1>4

LEMMA TreeInit == Init => TreeInv
<1> SUFFICES ASSUME Init
             PROVE  TreeInv
  OBVIOUS
<1>1. \A d \in Docs : row[d] = Unborn
  BY DEF Init
<1>2. \A c \in Clients : job[c] = Idle
  BY DEF Init
<1>3. RowsSound
  BY <1>1 DEF RowsSound, Live, Unborn
<1>4. Exclusive /\ JobsSound
  BY <1>2 DEF Exclusive, Owning, JobsSound, JobSound, Asked, Vacated, Wrote, Late, Idle
<1> QED
  BY <1>3, <1>4, InvInit DEF TreeInv

LEMMA TreeStep == TreeInv /\ [Next]_vars => TreeInv'
<1> SUFFICES ASSUME TreeInv, [Next]_vars
             PROVE  RowsSound' /\ Exclusive' /\ JobsSound'
  BY InvStep DEF TreeInv
<1>1. ASSUME NEW c \in Clients, NEW w \in Writes, NEW k \in Keys, Submit(c, w, k)
      PROVE  RowsSound' /\ Exclusive' /\ JobsSound'
  BY <1>1, SubmitTree
<1>2. ASSUME NEW c \in Clients, Step(c)
      PROVE  RowsSound' /\ Exclusive' /\ JobsSound'
  <2>1. CASE Acquire(c)
    BY <2>1, AcquireTree
  <2>2. CASE Commit(c)
    BY <2>2, AppendTree, MetadataTree DEF Commit
  <2>3. CASE Replay(c) \/ NothingToFinish(c)
    BY <2>3, ReplayTree
  <2>4. CASE Refuse(c) \/ FailFile(c)
    BY <2>4, EndTree DEF Refuse, FailFile
  <2>5. CASE WriteFile(c)
    BY <2>5, WriteFileTree
  <2>6. CASE MarkClean(c)
    BY <2>6, MarkCleanTree
  <2>7. CASE Answer(c)
    BY <2>7, AnswerTree
  <2> QED
    BY <1>2, <2>1, <2>2, <2>3, <2>4, <2>5, <2>6, <2>7 DEF Step
<1>3. ASSUME NEW p \in Paths, NEW x \in Contents \cup {Nothing}, EditFile(p, x)
      PROVE  RowsSound' /\ Exclusive' /\ JobsSound'
  BY <1>3, EditFileTree
<1>4. CASE Crash
  BY <1>4, CrashTree
<1>5. CASE UNCHANGED vars
  BY <1>5 DEF vars, TreeInv, RowsSound, Live, Exclusive, Owning, OwnedPaths, JobsSound,
              JobSound, Asked, Vacated, Wrote, HeadContent
<1> QED
  BY <1>1, <1>2, <1>3, <1>4, <1>5 DEF Next

-----------------------------------------------------------------------------
(* Clean rows and answered requests.                                       *)
LEMMA LiveContent ==
  ASSUME TreeInv, NEW d \in Docs, Live(d), row'[d].head = row[d].head,
         revisions' = revisions
           \/ \E x \in Revisions : revisions' = Append(revisions, x)
  PROVE  HeadContent(d)' = HeadContent(d)
  BY SameContent DEF TreeInv, Live

(* A clean file stays current while its row and its file stay, or somebody *)
(* else changes the file.                                                  *)
LEMMA KeepClean ==
  ASSUME TreeInv, CleanMeansCurrent,
         revisions' = revisions
           \/ \E x \in Revisions : revisions' = Append(revisions, x),
         NEW d \in Docs, row'[d].head = row[d].head, row'[d].path = row[d].path,
         row'[d].state = row[d].state, row'[d].deleted = row[d].deleted,
         Live(d) /\ row[d].state = "clean" =>
            (row[d].path \notin edited' =>
               row[d].path \notin edited /\ disk'[row[d].path] = disk[row[d].path]),
         Live(d)', row'[d].state = "clean", row'[d].path \notin edited'
  PROVE  disk'[row'[d].path] = HeadContent(d)'
<1>1. Live(d) /\ HeadContent(d)' = HeadContent(d)
  BY LiveContent DEF Live
<1> QED
  BY <1>1 DEF CleanMeansCurrent


LEMMA CleanStep ==
  ASSUME TreeInv, CleanMeansCurrent, [Next]_vars
  PROVE  CleanMeansCurrent'
<1>0. Inv /\ TypeOK /\ RowsSound /\ Nothing \notin Paths
  BY StoreAssumption DEF TreeInv, Inv
<1>1. SUFFICES ASSUME NEW d \in Docs, Live(d)', row'[d].state = "clean",
                      row'[d].path \notin edited'
               PROVE  disk'[row'[d].path] = HeadContent(d)'
  BY DEF CleanMeansCurrent
<1>2. ASSUME UNCHANGED <<row, revisions, disk, edited>>
      PROVE  disk'[row'[d].path] = HeadContent(d)'
  BY <1>1, <1>2, KeepClean
<1>3. ASSUME NEW c \in Clients, Step(c)
      PROVE  disk'[row'[d].path] = HeadContent(d)'
  <2>1. CASE Commit(c)
    <3>1. job[c].stage = "locked" /\ Writable(c) /\ UNCHANGED <<disk, edited>>
      BY <2>1 DEF Commit
    <3>2. CASE AppendRevision(c)
      <4>1. /\ row'[job[c].doc].state = NextState(c)
            /\ \A e \in Docs \ {job[c].doc} : row'[e] = row[e]
            /\ \E x \in Revisions : revisions' = Append(revisions, x)
        BY <3>1, <3>2, AppendFields
      <4>2. d # job[c].doc
        BY <1>1, <4>1 DEF NextState
      <4> QED
        BY <1>1, <3>1, <4>1, <4>2, KeepClean
    <3>3. CASE UpdateMetadata(c)
      BY <1>1, <3>1, <3>3, MetadataFields, KeepClean
    <3> QED
      BY <2>1, <3>2, <3>3 DEF Commit
  <2>2. CASE WriteFile(c)
    <3> DEFINE x == job[c].doc
               p == row[x].path
    <3>1. /\ Unfinished(c) /\ UNCHANGED <<row, revisions>>
          /\ disk' = [disk EXCEPT ![p] = HeadContent(x)] /\ edited' = edited \ {p}
          /\ job[c].stage = "committed"
      BY <2>2 DEF WriteFile
    <3>2. x \in Docs /\ row[x].path # Nothing /\ row[x].state = "pending"
      BY <1>0, <3>1, JobFacts DEF Owning, Unfinished
    <3>3. d # x /\ row[d].path # p
      BY <1>0, <1>1, <3>1, <3>2 DEF RowsSound
    <3>4. row[d].path \in Paths
      BY <1>0, <1>1, <3>1, RowFacts DEF RowsSound, Rows
    <3>5. disk'[row[d].path] = disk[row[d].path]
      BY <1>0, <3>1, <3>3, <3>4 DEF TypeOK
    <3>6. row[d].path \notin edited' => row[d].path \notin edited
      BY <3>1, <3>3
    <3> QED
      BY <1>1, <3>1, <3>5, <3>6, KeepClean
  <2>3. CASE MarkClean(c)
    <3> DEFINE x == job[c].doc
    <3>1. /\ x \in Docs /\ Live(x)
          /\ row'[x].head = row[x].head /\ row'[x].path = row[x].path
          /\ \A e \in Docs \ {x} : row'[e] = row[e]
          /\ UNCHANGED <<revisions, disk, edited>>
      BY <2>3, MarkFacts
    <3>2. CASE d # x
      BY <1>1, <3>1, <3>2, KeepClean
    <3>3. CASE d = x
      <4>1. job[c].target = row[d].path
            /\ (job[c].target \notin edited => disk[job[c].target] = HeadContent(d))
        BY <2>3, <3>3, WrittenIsLive DEF MarkClean
      <4>2. HeadContent(d)' = HeadContent(d)
        BY <3>1, <3>3, LiveContent
      <4> QED
        BY <1>1, <3>1, <3>3, <4>1, <4>2
    <3> QED
      BY <3>2, <3>3
  <2>4. CASE Answer(c)
    <3>1. /\ UNCHANGED <<row, revisions>> /\ job[c].stage \in Late
          /\ disk' = [p \in Paths |-> IF p \in StaleFiles(c) THEN Nothing ELSE disk[p]]
          /\ edited' = edited \ StaleFiles(c)
      BY <2>4 DEF Answer, Late
    <3>2. Live(d) /\ row[d].path \notin StaleFiles(c)
      BY <1>1, <3>1, StaleIsFree DEF Live
    <3>3. row[d].path \in Paths
      BY <1>0, <1>1, <3>1, RowFacts DEF RowsSound, Rows
    <3> QED
      BY <1>1, <3>1, <3>2, <3>3, KeepClean
  <2>5. CASE Acquire(c) \/ Replay(c) \/ Refuse(c) \/ FailFile(c) \/ NothingToFinish(c)
    BY <1>2, <2>5 DEF Acquire, Replay, Refuse, FailFile, NothingToFinish
  <2> QED
    BY <1>3, <2>1, <2>2, <2>3, <2>4, <2>5 DEF Step
<1>4. ASSUME NEW p \in Paths, NEW x \in Contents \cup {Nothing}, EditFile(p, x)
      PROVE  disk'[row'[d].path] = HeadContent(d)'
  <2>1. UNCHANGED <<row, revisions>> /\ edited' = edited \cup {p}
        /\ disk' = [disk EXCEPT ![p] = x]
    BY <1>4 DEF EditFile
  <2>2. row[d].path \in Paths
    BY <1>0, <1>1, <2>1, RowFacts DEF RowsSound, Rows
  <2>3. row[d].path \notin edited' =>
           row[d].path \notin edited /\ disk'[row[d].path] = disk[row[d].path]
    BY <1>0, <2>1, <2>2 DEF TypeOK
  <2> QED
    BY <1>1, <2>1, <2>3, KeepClean
<1>5. CASE Crash
  BY <1>2, <1>5 DEF Crash
<1>6. CASE UNCHANGED vars
  BY <1>2, <1>6 DEF vars
<1>7. ASSUME NEW c \in Clients, NEW w \in Writes, NEW k \in Keys, Submit(c, w, k)
      PROVE  disk'[row'[d].path] = HeadContent(d)'
  BY <1>2, <1>7 DEF Submit
<1> QED
  BY <1>3, <1>4, <1>5, <1>6, <1>7 DEF Next

(* The file of a document marked clean holds its head, or what somebody    *)
(* else put there, whatever moves, creates, failures and crashes overlap.  *)
THEOREM CleanFilesAreCurrent == Spec => []CleanMeansCurrent
<1>1. Init => CleanMeansCurrent
  BY DEF Init, CleanMeansCurrent, Live, Unborn
<1>2. TreeInv /\ CleanMeansCurrent /\ [Next]_vars => CleanMeansCurrent'
  BY CleanStep
<1> QED
  BY TreeInit, TreeStep, <1>1, <1>2, PTL DEF Spec

-----------------------------------------------------------------------------
(* The document of a job that owns it changes by that job's steps only.    *)
LEMMA AnswersStep ==
  ASSUME TreeInv, AnswersAreMaterialized, [Next]_vars
  PROVE  AnswersAreMaterialized'
<1>0. Inv /\ TypeOK /\ RowsSound /\ Exclusive
  BY DEF TreeInv, Inv
<1>1. SUFFICES ASSUME NEW o \in Clients, job'[o].stage = "marked",
                      row'[job'[o].doc].head = job'[o].revision,
                      row'[job'[o].doc].path # Nothing,
                      ~row'[job'[o].doc].deleted
               PROVE  row'[job'[o].doc].state = "clean"
  BY DEF AnswersAreMaterialized
<1>2. ASSUME UNCHANGED row, job'[o] = job[o]
      PROVE  row'[job'[o].doc].state = "clean"
  BY <1>1, <1>2 DEF AnswersAreMaterialized
<1>3. ASSUME NEW c \in Clients, c # o, Owning(c), job'[o] = job[o],
             \A e \in Docs \ {job[c].doc} : row'[e] = row[e]
      PROVE  row'[job'[o].doc].state = "clean"
  <2>1. job[o].doc \in Docs /\ job[o].doc # job[c].doc
    BY <1>0, <1>1, <1>3, JobFacts DEF Owning, Exclusive
  <2> QED
    BY <1>1, <1>3, <2>1 DEF AnswersAreMaterialized
<1>4. ASSUME NEW c \in Clients, End(c), UNCHANGED row
      PROVE  row'[job'[o].doc].state = "clean"
  <2>1. job'[c] = Idle /\ \A i \in Clients \ {c} : job'[i] = job[i]
    BY <1>0, <1>4 DEF End, TypeOK
  <2> QED
    BY <1>1, <1>2, <1>4, <2>1 DEF Idle
<1>5. ASSUME NEW c \in Clients, UNCHANGED row, job'[c].stage # "marked",
             \A i \in Clients \ {c} : job'[i] = job[i]
      PROVE  row'[job'[o].doc].state = "clean"
  BY <1>1, <1>2, <1>5
<1>6. ASSUME NEW c \in Clients, NEW w \in Writes, NEW k \in Keys, Submit(c, w, k)
      PROVE  row'[job'[o].doc].state = "clean"
  <2>1. PICK e \in Expectations(w), b \in Bodies(w) :
           job' = [job EXCEPT
                      ![c] = [Idle EXCEPT
                                !.stage = "waiting", !.key = k, !.doc = w.doc,
                                !.paths = PathsToLock(w),
                                !.request = [op |-> w.op, doc |-> w.doc,
                                             content |-> b, path |-> w.path,
                                             expected |-> e]]]
    BY <1>6 DEF Submit
  <2> DEFINE q == [op |-> w.op, doc |-> w.doc, content |-> b, path |-> w.path,
                   expected |-> e]
             j == [Idle EXCEPT !.stage = "waiting", !.key = k, !.doc = w.doc,
                               !.paths = PathsToLock(w), !.request = q]
  <2>2. j.stage = "waiting"
    BY DEF Idle
  <2>3. job' = [job EXCEPT ![c] = j]
    BY <2>1
  <2> HIDE DEF j
  <2>4. job'[c] = j /\ \A i \in Clients \ {c} : job'[i] = job[i]
    BY <1>0, <2>3 DEF TypeOK
  <2> QED
    BY <1>5, <1>6, <2>2, <2>4 DEF Submit
<1>7. ASSUME NEW c \in Clients, Step(c)
      PROVE  row'[job'[o].doc].state = "clean"
  <2>1. CASE Acquire(c)
    <3>1. CASE End(c)
      BY <1>4, <2>1, <3>1 DEF Acquire
    <3>2. CASE ~End(c)
      <4>1. /\ job'[c].stage = "locked" /\ \A i \in Clients \ {c} : job'[i] = job[i]
            /\ UNCHANGED row
        BY <1>0, <2>1, <3>2 DEF Acquire, TypeOK, Jobs
      <4> QED
        BY <1>5, <4>1
    <3> QED
      BY <3>1, <3>2
  <2>2. CASE Commit(c)
    <3>1. /\ job[c].stage = "locked" /\ job'[c].stage = "committed"
          /\ \A i \in Clients \ {c} : job'[i] = job[i]
          /\ \A e \in Docs \ {job[c].doc} : row'[e] = row[e]
      BY <2>2, AppendFields, MetadataFields DEF Commit
    <3> QED
      BY <1>1, <1>3, <3>1 DEF Owning
  <2>3. CASE Replay(c) \/ WriteFile(c)
    <3>1. /\ job'[c].stage # "marked" /\ \A i \in Clients \ {c} : job'[i] = job[i]
          /\ UNCHANGED row
      BY <1>0, <2>3 DEF Replay, WriteFile, TypeOK, Jobs
    <3> QED
      BY <1>5, <3>1
  <2>4. CASE Refuse(c) \/ FailFile(c) \/ Answer(c)
    BY <1>4, <2>4 DEF Refuse, FailFile, Answer
  <2>5. CASE MarkClean(c)
    <3>1. /\ row'[job[c].doc].state = "clean" /\ job'[c].doc = job[c].doc
          /\ \A e \in Docs \ {job[c].doc} : row'[e] = row[e]
          /\ \A i \in Clients \ {c} : job'[i] = job[i]
      BY <2>5, MarkFacts
    <3>2. Owning(c)
      BY <2>5 DEF MarkClean, Owning
    <3> QED
      BY <1>3, <3>1, <3>2
  <2>6. CASE NothingToFinish(c)
    <3>1. /\ job[c].stage = "committed" /\ ~Unfinished(c) /\ UNCHANGED row
          /\ \A i \in Clients \ {c} : job'[i] = job[i]
          /\ job'[c].doc = job[c].doc /\ job'[c].revision = job[c].revision
      BY <1>0, <2>6 DEF NothingToFinish, TypeOK, Jobs
    <3>2. CASE o = c
      <4> DEFINE d == job[c].doc
      <4>1. /\ d \in Docs /\ row[d] \in Rows /\ row[d].head # 0
            /\ row[d].path # Nothing /\ ~row[d].deleted
            /\ row[d].head = job[c].revision
        BY <1>0, <1>1, <3>1, <3>2, JobFacts, RowFacts DEF Owning, Late
      <4>2. row[d].state # "pending" /\ row[d].state # "none"
        BY <1>0, <3>1, <4>1 DEF Unfinished, RowsSound, Live
      <4> QED
        BY <3>1, <3>2, <4>1, <4>2 DEF Rows
    <3> QED
      BY <1>2, <3>1, <3>2
  <2> QED
    BY <1>7, <2>1, <2>2, <2>3, <2>4, <2>5, <2>6 DEF Step
<1>8. ASSUME NEW p \in Paths, NEW x \in Contents \cup {Nothing}, EditFile(p, x)
      PROVE  row'[job'[o].doc].state = "clean"
  BY <1>2, <1>8 DEF EditFile
<1>9. CASE Crash
  BY <1>1, <1>9 DEF Crash, Idle
<1>10. CASE UNCHANGED vars
  BY <1>2, <1>10 DEF vars
<1> QED
  BY <1>6, <1>7, <1>8, <1>9, <1>10 DEF Next

(* A request about to be answered has its revision in the workspace, also  *)
(* one that replays an earlier commit or only touches metadata.            *)
THEOREM AnswersAreInTheTree == Spec => []AnswersAreMaterialized
<1>1. Init => AnswersAreMaterialized
  BY DEF Init, AnswersAreMaterialized, Idle
<1>2. TreeInv /\ AnswersAreMaterialized /\ [Next]_vars => AnswersAreMaterialized'
  BY AnswersStep
<1> QED
  BY TreeInit, TreeStep, <1>1, <1>2, PTL DEF Spec

-----------------------------------------------------------------------------
(* Files that belong to no document.                                       *)

Leaving(p) == \E c \in Clients : job[c].stage \in Late /\ p \in StaleFiles(c)

Wanted(p) == \E d \in Docs : Live(d) /\ row[d].path = p

(* A file stays accounted for while the rows keep their places and every   *)
(* request that is to remove it goes on.                                   *)
LEMMA KeepWanted ==
  ASSUME NEW p \in Paths, Wanted(p) \/ Leaving(p),
         \A d \in Docs : /\ row'[d].head = row[d].head /\ row'[d].path = row[d].path
                         /\ row'[d].deleted = row[d].deleted,
         \A c \in Clients : job[c].stage \in Late /\ p \in StaleFiles(c) =>
            /\ job'[c].stage \in Late /\ job'[c].stale = job[c].stale
            /\ job'[c].doc = job[c].doc /\ job[c].doc \in Docs
  PROVE  Wanted(p)' \/ Leaving(p)'
<1>1. CASE Wanted(p)
  BY <1>1 DEF Wanted, Live
<1>2. CASE Leaving(p)
  <2>1. PICK c \in Clients : job[c].stage \in Late /\ p \in StaleFiles(c)
    BY <1>2 DEF Leaving
  <2>2. /\ job'[c].stage \in Late /\ job'[c].stale = job[c].stale
        /\ job'[c].doc = job[c].doc /\ job[c].doc \in Docs
    BY <2>1
  <2>3. p \in StaleFiles(c)'
    BY <2>1, <2>2 DEF StaleFiles
  <2> QED
    BY <2>2, <2>3 DEF Leaving
<1> QED
  BY <1>1, <1>2

LEMMA AppendWanted ==
  ASSUME TreeInv, NEW c \in Clients, job[c].stage = "locked", AppendRevision(c),
         Writable(c), NEW p \in Paths, Wanted(p) \/ Leaving(p)
  PROVE  Wanted(p)' \/ Leaving(p)'
<1> DEFINE d == job[c].doc
           s == IF row[d].path # NextPath(c) THEN row[d].path ELSE Nothing
<1>0. Inv /\ Exclusive /\ Nothing \notin Paths
  BY StoreAssumption DEF TreeInv
<1>1. /\ d \in Docs /\ Len(revisions) + 1 # 0
      /\ row'[d].head = Len(revisions) + 1 /\ row'[d].path = NextPath(c)
      /\ row'[d].deleted = NextDeleted(c)
      /\ \A e \in Docs \ {d} : row'[e] = row[e]
      /\ \A o \in Clients \ {c} : job'[o] = job[o]
      /\ job'[c].stage = "committed" /\ job'[c].stale = s /\ job'[c].doc = d
  BY AppendFields
<1>2. CASE Wanted(p)
  <2>1. PICK e \in Docs : Live(e) /\ row[e].path = p
    BY <1>2 DEF Wanted
  <2>2. CASE e # d
    BY <1>1, <2>1, <2>2 DEF Wanted, Live
  <2>3. CASE e = d /\ NextPath(c) = p /\ ~NextDeleted(c)
    BY <1>1, <2>3 DEF Wanted, Live
  <2>4. CASE e = d /\ (NextPath(c) # p \/ NextDeleted(c))
    <3>1. NextPath(c) # p => s = p
      BY <2>1, <2>4
    <3>2. p \in StaleFiles(c)'
      BY <1>0, <1>1, <2>4, <3>1 DEF StaleFiles
    <3> QED
      BY <1>1, <3>2 DEF Leaving, Late
  <2> QED
    BY <2>2, <2>3, <2>4
<1>3. CASE Leaving(p)
  <2>1. PICK o \in Clients : job[o].stage \in Late /\ p \in StaleFiles(o)
    BY <1>3 DEF Leaving
  <2>2. o # c /\ Owning(o) /\ Owning(c)
    BY <2>1 DEF Late, Owning
  <2>3. job[o].doc \in Docs \ {d} /\ job'[o] = job[o]
    BY <1>0, <1>1, <2>2, JobFacts DEF Exclusive
  <2>4. p \in StaleFiles(o)'
    BY <1>1, <2>1, <2>3 DEF StaleFiles
  <2> QED
    BY <2>1, <2>3, <2>4 DEF Leaving
<1> QED
  BY <1>2, <1>3

LEMMA StrayStep ==
  ASSUME TreeInv, NoStrayFile, [Next]_vars
  PROVE  NoStrayFile'
<1>0. Inv /\ TypeOK /\ RowsSound
  BY DEF TreeInv, Inv
<1>1. SUFFICES ASSUME Failing = {}, ~ProcessDies, NEW p \in Paths,
                      p \notin edited', disk'[p] # Nothing
               PROVE  Wanted(p)' \/ Leaving(p)'
  BY DEF NoStrayFile, Wanted, Leaving, Late
<1>2. p \notin edited /\ disk[p] # Nothing => Wanted(p) \/ Leaving(p)
  BY <1>1 DEF NoStrayFile, Wanted, Leaving, Late
<1>3. \A c \in Clients : job[c].stage \in Late => job[c].doc \in Docs
  BY <1>0, JobFacts DEF Late, Owning
<1>4. ASSUME UNCHANGED <<row, disk, edited>>, NEW c \in Clients,
             \A o \in Clients \ {c} : job'[o] = job[o],
             job[c].stage \in Late =>
                /\ job'[c].stage \in Late /\ job'[c].stale = job[c].stale
                /\ job'[c].doc = job[c].doc
      PROVE  Wanted(p)' \/ Leaving(p)'
  BY <1>1, <1>2, <1>3, <1>4, KeepWanted
<1>5. ASSUME NEW c \in Clients, NEW w \in Writes, NEW k \in Keys, Submit(c, w, k)
      PROVE  Wanted(p)' \/ Leaving(p)'
  <2>1. PICK j : job' = [job EXCEPT ![c] = j]
    BY <1>5 DEF Submit
  <2>2. job[c].stage = "idle" /\ \A o \in Clients \ {c} : job'[o] = job[o]
    BY <1>0, <1>5, <2>1 DEF TypeOK, Submit
  <2> QED
    BY <1>4, <1>5, <2>2 DEF Submit, Late
<1>6. ASSUME NEW c \in Clients, Step(c)
      PROVE  Wanted(p)' \/ Leaving(p)'
  <2>1. CASE Acquire(c) \/ Refuse(c)
    <3>1. /\ job[c].stage \notin Late /\ UNCHANGED <<row, disk, edited>>
          /\ \A o \in Clients \ {c} : job'[o] = job[o]
      BY <1>0, <2>1 DEF Acquire, Refuse, End, TypeOK, Late
    <3> QED
      BY <1>4, <3>1
  <2>2. CASE Commit(c)
    <3>1. Wanted(p) \/ Leaving(p)
      BY <1>1, <1>2, <2>2 DEF Commit
    <3>2. CASE AppendRevision(c)
      BY <2>2, <3>1, <3>2, AppendWanted DEF Commit
    <3>3. CASE UpdateMetadata(c)
      <4>1. /\ \A e \in Docs : /\ row'[e].head = row[e].head
                               /\ row'[e].path = row[e].path
                               /\ row'[e].deleted = row[e].deleted
            /\ \A o \in Clients \ {c} : job'[o] = job[o]
            /\ job[c].stage \notin Late
        BY <2>2, <3>3, MetadataFields DEF Commit, Late
      <4> QED
        BY <1>3, <3>1, <4>1, KeepWanted
    <3> QED
      BY <2>2, <3>2, <3>3 DEF Commit
  <2>3. CASE Replay(c) \/ NothingToFinish(c)
    <3>1. /\ job'[c].stage \in Late /\ UNCHANGED <<row, disk, edited>>
          /\ \A o \in Clients \ {c} : job'[o] = job[o]
          /\ job'[c].stale = job[c].stale /\ job'[c].doc = job[c].doc
      BY <1>0, <2>3 DEF Replay, NothingToFinish, TypeOK, Jobs, Late
    <3> QED
      BY <1>4, <3>1
  <2>4. CASE WriteFile(c)
    <3> DEFINE d == job[c].doc
               x == row[d].path
    <3>1. /\ job[c].stage = "committed" /\ Unfinished(c) /\ UNCHANGED row
          /\ disk' = [disk EXCEPT ![x] = HeadContent(d)] /\ edited' = edited \ {x}
      BY <2>4 DEF WriteFile
    <3>2. CASE p = x
      <4>1. d \in Docs /\ row[d].head # 0
        BY <1>0, <3>1, JobFacts DEF Owning, Unfinished, Late
      <4> QED
        BY <3>1, <3>2, <4>1 DEF Wanted, Live, Unfinished
    <3>3. CASE p # x
      <4>1. p \notin edited /\ disk[p] # Nothing
        BY <1>0, <1>1, <3>1, <3>3 DEF TypeOK
      <4>2. /\ job'[c].stage \in Late /\ job'[c].stale = job[c].stale
            /\ job'[c].doc = d /\ \A o \in Clients \ {c} : job'[o] = job[o]
        BY <1>0, <2>4 DEF WriteFile, TypeOK, Jobs, Late
      <4> QED
        BY <1>2, <1>3, <3>1, <4>1, <4>2, KeepWanted
    <3> QED
      BY <3>2, <3>3
  <2>5. CASE FailFile(c)
    BY <1>1, <2>5 DEF FailFile
  <2>6. CASE MarkClean(c)
    <3>1. /\ \A e \in Docs : /\ row'[e].head = row[e].head
                             /\ row'[e].path = row[e].path
                             /\ row'[e].deleted = row[e].deleted
          /\ job'[c].stage \in Late /\ job'[c].stale = job[c].stale
          /\ job'[c].doc = job[c].doc /\ \A o \in Clients \ {c} : job'[o] = job[o]
          /\ UNCHANGED <<disk, edited>>
      BY <2>6, MarkFacts DEF Late
    <3> QED
      BY <1>1, <1>2, <1>3, <3>1, KeepWanted
  <2>7. CASE Answer(c)
    <3>1. /\ disk' = [y \in Paths |-> IF y \in StaleFiles(c) THEN Nothing ELSE disk[y]]
          /\ edited' = edited \ StaleFiles(c) /\ UNCHANGED row
          /\ \A o \in Clients \ {c} : job'[o] = job[o]
      BY <1>0, <2>7 DEF Answer, End, TypeOK
    <3>2. p \notin StaleFiles(c) /\ p \notin edited /\ disk[p] # Nothing
      BY <1>1, <3>1
    <3> QED
      BY <1>2, <1>3, <3>1, <3>2, KeepWanted
  <2> QED
    BY <1>6, <2>1, <2>2, <2>3, <2>4, <2>5, <2>6, <2>7 DEF Step
<1>7. ASSUME NEW y \in Paths, NEW x \in Contents \cup {Nothing}, EditFile(y, x)
      PROVE  Wanted(p)' \/ Leaving(p)'
  <2>1. /\ UNCHANGED <<row, job>> /\ edited' = edited \cup {y}
        /\ disk' = [disk EXCEPT ![y] = x]
    BY <1>7 DEF EditFile
  <2>2. p \notin edited /\ disk[p] # Nothing
    BY <1>0, <1>1, <2>1 DEF TypeOK
  <2> QED
    BY <1>2, <1>3, <2>1, <2>2, KeepWanted
<1>8. CASE Crash
  BY <1>1, <1>8 DEF Crash
<1>9. CASE UNCHANGED vars
  BY <1>1, <1>2, <1>3, <1>9, KeepWanted DEF vars
<1> QED
  BY <1>5, <1>6, <1>7, <1>8, <1>9 DEF Next

(* Where nothing fails, a file of Sangam's own belongs to a live document  *)
(* or is about to be removed by the request that made it stale.            *)
THEOREM NoFileIsStray == Spec => []NoStrayFile
<1>1. Init => NoStrayFile
  BY DEF Init, NoStrayFile
<1>2. TreeInv /\ NoStrayFile /\ [Next]_vars => NoStrayFile'
  BY StrayStep
<1> QED
  BY TreeInit, TreeStep, <1>1, <1>2, PTL DEF Spec
=============================================================================
