-------------------------- MODULE RevisionLogProofs --------------------------
(***************************************************************************)
(* Proofs about RevisionLog, for any documents, contents and keys: the     *)
(* history stays linear, every key writes once and on the revision its     *)
(* client had read, and no revision appears without a key.                 *)
(***************************************************************************)
EXTENDS RevisionLog, TLAPS

TypeOK ==
    /\ log \in Seq([doc : Docs, parent : Nat, content : Contents])
    /\ head \in [Docs -> Nat]
    /\ bound \in [Keys -> [base : Nat, revision : Nat]]

(* A key is bound to no revision that is yet to be written.                *)
BoundExist == \A k \in Keys : bound[k].revision <= Len(log)

Inv == /\ TypeOK /\ BoundExist
       /\ HistoryIsLinear /\ WritesFollowTheirBase /\ RevisionsHaveKeys

LEMMA ElementType ==
  ASSUME NEW S, NEW s \in Seq(S), NEW i \in 1..Len(s)
  PROVE  s[i] \in S
  OBVIOUS

LEMMA InvInit == Init => Inv
  BY DEF Init, Inv, TypeOK, BoundExist, HistoryIsLinear,
         WritesFollowTheirBase, RevisionsHaveKeys, Unused

(* What a write does to the sequence of revisions.                         *)
LEMMA WriteAppends ==
  ASSUME TypeOK, NEW d \in Docs, NEW k \in Keys, NEW base \in 0..Len(log),
         NEW x \in Contents, Write(d, k, base, x)
  PROVE  /\ Len(log') = Len(log) + 1
         /\ \A i \in 1..Len(log) : log'[i] = log[i]
         /\ log'[Len(log) + 1] = [doc |-> d, parent |-> base, content |-> x]
         /\ TypeOK'
  BY DEF TypeOK, Write

LEMMA WriteInv ==
  ASSUME Inv, NEW d \in Docs, NEW k \in Keys, NEW base \in 0..Len(log),
         NEW x \in Contents, Write(d, k, base, x)
  PROVE  Inv'
<1> DEFINE n == Len(log) + 1
<1>0. /\ TypeOK /\ BoundExist
      /\ HistoryIsLinear /\ WritesFollowTheirBase /\ RevisionsHaveKeys
  BY DEF Inv
<1>1. /\ Len(log') = n
      /\ \A i \in 1..Len(log) : log'[i] = log[i]
      /\ log'[n] = [doc |-> d, parent |-> base, content |-> x]
      /\ TypeOK'
  BY <1>0, WriteAppends
<1>2. /\ head[d] = base /\ bound[k] = Unused
      /\ head' = [head EXCEPT ![d] = n]
      /\ bound' = [bound EXCEPT ![k] = [base |-> base, revision |-> n]]
  BY DEF Write
<1> HIDE DEF n
<1>3. Len(log) \in Nat /\ n = Len(log) + 1
  BY <1>0 DEF n, TypeOK
<1>4. BoundExist'
  BY <1>0, <1>1, <1>2, <1>3 DEF BoundExist, TypeOK
<1>5. HistoryIsLinear'
  <2>1. ASSUME NEW i \in 1..n
        PROVE  /\ log'[i].parent < i
               /\ log'[i].parent # 0 => log'[log'[i].parent].doc = log'[i].doc
               /\ \A j \in (log'[i].parent + 1)..(i - 1) :
                     log'[j].doc # log'[i].doc
    <3>1. CASE i = n
      <4>1. /\ base \in Nat /\ base <= Len(log)
            /\ base # 0 => log[base].doc = d
            /\ \A j \in (base + 1)..Len(log) : log[j].doc # d
        BY <1>0, <1>2, <1>3 DEF HistoryIsLinear
      <4>2. log'[i].parent = base /\ log'[i].doc = d
        BY <3>1, <1>1
      <4> QED
        BY <3>1, <4>1, <4>2, <1>1, <1>3
    <3>2. CASE i # n
      <4>1. i \in 1..Len(log)
        BY <3>2, <1>3
      <4>2. log[i] \in [doc : Docs, parent : Nat, content : Contents]
        BY <4>1, <1>0, ElementType DEF TypeOK
      <4>3. /\ log[i].parent < i
            /\ log[i].parent # 0 => log[log[i].parent].doc = log[i].doc
            /\ \A j \in (log[i].parent + 1)..(i - 1) :
                  log[j].doc # log[i].doc
        BY <4>1, <1>0 DEF HistoryIsLinear
      <4>4. log'[i] = log[i]
        BY <4>1, <1>1
      <4>5. log[i].parent # 0 => log'[log[i].parent] = log[log[i].parent]
        BY <4>1, <4>2, <4>3, <1>1, <1>3
      <4>6. \A j \in (log[i].parent + 1)..(i - 1) : log'[j] = log[j]
        BY <4>1, <4>2, <1>1, <1>3
      <4> QED
        BY <4>3, <4>4, <4>5, <4>6
    <3> QED
      BY <3>1, <3>2
  <2>2. ASSUME NEW e \in Docs
        PROVE  /\ head'[e] <= n
               /\ head'[e] # 0 => log'[head'[e]].doc = e
               /\ \A j \in (head'[e] + 1)..n : log'[j].doc # e
    <3>1. CASE e = d
      BY <3>1, <1>0, <1>1, <1>2, <1>3 DEF TypeOK
    <3>2. CASE e # d
      <4>1. head'[e] = head[e] /\ head[e] \in Nat
        BY <3>2, <1>0, <1>2 DEF TypeOK
      <4> QED
        BY <4>1, <3>2, <1>0, <1>1, <1>3 DEF HistoryIsLinear
    <3> QED
      BY <3>1, <3>2
  <2> QED
    BY <2>1, <2>2, <1>1 DEF HistoryIsLinear
<1>6. WritesFollowTheirBase'
  <2>1. base < n /\ base \in Nat
    BY <1>3
  <2>2. ASSUME NEW j \in Keys, j # k
        PROVE  bound'[j] = bound[j] /\ bound[j].revision < n
    BY <2>2, <1>0, <1>2, <1>3 DEF BoundExist, TypeOK
  <2>3. bound'[k] = [base |-> base, revision |-> n]
    BY <1>0, <1>2 DEF TypeOK
  <2>4. ASSUME NEW i \in Keys, bound'[i].base # bound'[i].revision
        PROVE  /\ bound'[i].revision \in 1..n
               /\ log'[bound'[i].revision].parent = bound'[i].base
               /\ \A j \in Keys : bound'[j].base # bound'[j].revision
                     /\ bound'[j].revision = bound'[i].revision => j = i
    <3>1. CASE i = k
      BY <3>1, <2>1, <2>2, <2>3, <1>1, <1>3
    <3>2. CASE i # k
      BY <3>2, <2>2, <2>3, <2>4, <1>0, <1>1, <1>3 DEF WritesFollowTheirBase
    <3> QED
      BY <3>1, <3>2
  <2> QED
    BY <2>4, <1>1 DEF WritesFollowTheirBase
<1>7. RevisionsHaveKeys'
  <2>1. ASSUME NEW i \in 1..n
        PROVE  \E j \in Keys : bound'[j].revision = i /\ bound'[j].base # i
    <3>1. CASE i = n
      BY <3>1, <1>0, <1>2, <1>3 DEF TypeOK
    <3>2. CASE i # n
      <4>1. PICK j \in Keys : bound[j].revision = i /\ bound[j].base # i
        BY <3>2, <1>0, <1>3 DEF RevisionsHaveKeys
      <4>2. j # k
        BY <4>1, <1>2 DEF Unused
      <4> QED
        BY <4>1, <4>2, <1>0, <1>2 DEF TypeOK
    <3> QED
      BY <3>1, <3>2
  <2> QED
    BY <2>1, <1>1 DEF RevisionsHaveKeys
<1> QED
  BY <1>1, <1>4, <1>5, <1>6, <1>7 DEF Inv

LEMMA BindInv ==
  ASSUME Inv, NEW d \in Docs, NEW k \in Keys, Bind(d, k)
  PROVE  Inv'
<1> USE DEF Inv
<1>1. /\ log' = log /\ head' = head /\ bound[k] = Unused
      /\ bound' = [bound EXCEPT ![k] = [base |-> head[d], revision |-> head[d]]]
      /\ head[d] \in Nat /\ head[d] <= Len(log)
  BY DEF Bind, TypeOK, HistoryIsLinear
<1>2. /\ bound'[k] = [base |-> head[d], revision |-> head[d]]
      /\ \A j \in Keys : j # k => bound'[j] = bound[j]
  BY <1>1 DEF TypeOK
<1>3. TypeOK' /\ HistoryIsLinear'
  BY <1>1 DEF TypeOK, HistoryIsLinear
<1>4. BoundExist'
  BY <1>1, <1>2 DEF BoundExist
<1>5. WritesFollowTheirBase'
  BY <1>1, <1>2 DEF WritesFollowTheirBase
<1>6. RevisionsHaveKeys'
  BY <1>1, <1>2 DEF RevisionsHaveKeys, Unused
<1> QED
  BY <1>3, <1>4, <1>5, <1>6

LEMMA InvStep == Inv /\ [Next]_vars => Inv'
<1> SUFFICES ASSUME Inv, [Next]_vars
             PROVE  Inv'
  OBVIOUS
<1>1. CASE Next
  BY <1>1, WriteInv, BindInv DEF Next
<1>2. CASE UNCHANGED vars
  BY <1>2 DEF vars, Inv, TypeOK, BoundExist, HistoryIsLinear,
              WritesFollowTheirBase, RevisionsHaveKeys
<1> QED
  BY <1>1, <1>2

(* Every history the pipeline may commit is linear; its keys wrote each    *)
(* one revision, on top of the one their client had read; and no revision  *)
(* lacks a key.                                                            *)
THEOREM HistoryIsSound ==
  Spec => [](HistoryIsLinear /\ WritesFollowTheirBase /\ RevisionsHaveKeys)
<1>1. Inv => HistoryIsLinear /\ WritesFollowTheirBase /\ RevisionsHaveKeys
  BY DEF Inv
<1> QED
  BY InvInit, InvStep, <1>1, PTL DEF Spec
=============================================================================
