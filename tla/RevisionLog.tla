----------------------------- MODULE RevisionLog -----------------------------
(***************************************************************************)
(* What the write pipeline promises its clients: every document has "an    *)
(* immutable revision chain" (docs/architecture.md).  A write names the    *)
(* revision it is based on and is appended only while that revision is the *)
(* head; an idempotency key commits at most one write, for ever.           *)
(***************************************************************************)
EXTENDS Naturals, Sequences

CONSTANTS Docs, Contents, Keys

VARIABLES log, head, bound

vars == <<log, head, bound>>

Unused == [base |-> 0, revision |-> 0]

Init ==
    /\ log = <<>>
    /\ head = [d \in Docs |-> 0]
    /\ bound = [k \in Keys |-> Unused]

(* Key k commits content x as the successor of the revision base.          *)
Write(d, k, base, x) ==
    /\ bound[k] = Unused
    /\ head[d] = base
    /\ log' = Append(log, [doc |-> d, parent |-> base, content |-> x])
    /\ head' = [head EXCEPT ![d] = Len(log) + 1]
    /\ bound' = [bound EXCEPT ![k] = [base |-> base, revision |-> Len(log) + 1]]

(* A write that leaves the content alone is bound to the head it leaves.   *)
Bind(d, k) ==
    /\ bound[k] = Unused
    /\ head[d] # 0
    /\ bound' = [bound EXCEPT ![k] = [base |-> head[d], revision |-> head[d]]]
    /\ UNCHANGED <<log, head>>

Next ==
    \E d \in Docs, k \in Keys :
        \/ \E base \in 0..Len(log), x \in Contents : Write(d, k, base, x)
        \/ Bind(d, k)

Spec == Init /\ [][Next]_vars

-----------------------------------------------------------------------------
(* Each revision follows the one that was the head before it: nothing      *)
(* branches, nothing is skipped, and the head is the last of its chain.    *)
HistoryIsLinear ==
    /\ \A i \in 1..Len(log) :
          /\ log[i].parent < i
          /\ log[i].parent # 0 => log[log[i].parent].doc = log[i].doc
          /\ \A j \in (log[i].parent + 1)..(i - 1) : log[j].doc # log[i].doc
    /\ \A d \in Docs :
          /\ head[d] <= Len(log)
          /\ head[d] # 0 => log[head[d]].doc = d
          /\ \A j \in (head[d] + 1)..Len(log) : log[j].doc # d

(* A key that wrote a revision wrote it on top of the revision its client  *)
(* had read, and wrote no other: no update is lost, no retry repeated.     *)
WritesFollowTheirBase ==
    \A k \in Keys : bound[k].base # bound[k].revision =>
        /\ bound[k].revision \in 1..Len(log)
        /\ log[bound[k].revision].parent = bound[k].base
        /\ \A j \in Keys : bound[j].base # bound[j].revision
                              /\ bound[j].revision = bound[k].revision => j = k

(* Every revision was written by some key.                                 *)
RevisionsHaveKeys ==
    \A i \in 1..Len(log) : \E k \in Keys :
        bound[k].revision = i /\ bound[k].base # i
=============================================================================
