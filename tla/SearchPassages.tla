----------------------------- MODULE SearchPassages ------------------------------
(***************************************************************************)
(* best_passages() of search_passages.py: where the terms of a query occur *)
(* in a text, the passages that show most of them.  A hit is the place and *)
(* the term of an occurrence; a passage is the window that begins at a     *)
(* hit.  The window slides over the sorted hits and keeps a count per      *)
(* term; Distinct defines what it has to find.                             *)
(***************************************************************************)
EXTENDS SearchIndexing, Sequences

CONSTANTS
    HitSets,        \* the sets of hits a text may have
    Terms,
    Window, Limit   \* WINDOW, and the passages that are asked for

ASSUME PassageAssumption ==
    /\ Terms \subseteq Nat /\ IsFiniteSet(Terms)
    /\ \A hits \in HitSets : IsFiniteSet(hits) /\ hits \subseteq [start : Nat, term : Terms]
    /\ Window \in Nat \ {0} /\ Limit \in Nat \ {0}

VARIABLES
    occurrences,    \* the hits of the text
    passages        \* what best_passages() has returned

passageVars == <<occurrences, passages>>

NotAsked == <<[anchor |-> 0, distinct |-> 0]>>

PassageInit ==
    /\ occurrences \in HitSets
    /\ passages = NotAsked

(* The sort of _hits().                                                    *)
InOrder(h, i) == h.start < i.start \/ (h.start = i.start /\ h.term < i.term)

Hits ==
    CHOOSE s \in [1 .. Cardinality(occurrences) -> occurrences] :
        \A i, j \in 1 .. Cardinality(occurrences) : i < j => InOrder(s[i], s[j])

-----------------------------------------------------------------------------
(* The scores                                                              *)

Within(hits, left, right) == hits[right].start < hits[left].start + Window
CountOf(hits, t, from, to) == Cardinality({i \in from .. to : hits[i].term = t})

(* The hit that is left behind stays counted.                              *)
NobodyLeft(hits, left, t) == 0

LeftBehind(hits, left, t) == IF left > 1 /\ hits[left - 1].term = t THEN 1 ELSE 0

(* The window of hit left as it comes out of the loop: right is its last   *)
(* hit, and counts are of the hits from left on.                           *)
NoWindow == [right |-> 0, counts |-> [t \in Terms |-> 0]]

NextWindow(hits, left, before) ==
    LET right == CHOOSE r \in before.right .. Len(hits) :
                   /\ \A i \in before.right + 1 .. r : Within(hits, left, i)
                   /\ r < Len(hits) => ~Within(hits, left, r + 1)
    IN [right |-> right,
        counts |-> [t \in Terms |->
           before.counts[t] + CountOf(hits, t, before.right + 1, right)
             - LeftBehind(hits, left, t)]]

Slide(hits) ==
    LET slide[left \in 0 .. Len(hits)] ==
          IF left = 0 THEN NoWindow ELSE NextWindow(hits, left, slide[left - 1])
    IN slide

Score(window) == Cardinality({t \in Terms : window.counts[t] > 0})

-----------------------------------------------------------------------------
(* The choice: the best scores first, and in the order of the text among   *)
(* equals; no window near one that is chosen.                              *)

Near(hits, i, j) ==
    LET from == hits[i].start to == hits[j].start
    IN (IF from < to THEN to - from ELSE from - to) < Window

(* The order of the scores; the sort is stable.                            *)
Better(slide, i, j) ==
    Score(slide[i]) > Score(slide[j]) \/ (Score(slide[i]) = Score(slide[j]) /\ i < j)

Ranking(hits, slide) ==
    CHOOSE s \in [1 .. Len(hits) -> 1 .. Len(hits)] :
        \A i, j \in 1 .. Len(hits) : i < j => Better(slide, s[i], s[j])

Choose(hits, chosen, i, score) ==
    IF Len(chosen) = Limit \/ \E c \in DOMAIN chosen : Near(hits, i, chosen[c].anchor)
    THEN chosen
    ELSE Append(chosen, [anchor |-> i, distinct |-> score])

BestPassages(hits) ==
    LET slide == Slide(hits)
        ranking == Ranking(hits, slide)
        chosen[n \in 0 .. Len(hits)] ==
          IF n = 0 THEN <<>>
          ELSE Choose(hits, chosen[n - 1], ranking[n], Score(slide[ranking[n]]))
    IN chosen[Len(hits)]

Locate ==
    /\ passages = NotAsked
    /\ passages' = BestPassages(Hits)
    /\ UNCHANGED occurrences

PassageSpec == PassageInit /\ [][Locate]_passageVars

-----------------------------------------------------------------------------
(* Properties.                                                             *)

(* The terms that occur in the window of a hit, from it on.                *)
Distinct(hits, i) ==
    Cardinality({hits[j].term : j \in {k \in i .. Len(hits) : Within(hits, i, k)}})

(* Every passage says how many terms it shows; no two overlap; and no      *)
(* window that is apart from them, or in the place of the last, shows more *)
(* terms than a passage that was taken.                                    *)
PassagesAreBest ==
    passages # NotAsked =>
      LET hits == Hits
          anchors == {passages[p].anchor : p \in DOMAIN passages}
      IN
      /\ \A p \in DOMAIN passages : passages[p].distinct = Distinct(hits, passages[p].anchor)
      /\ \A i, j \in anchors : i # j => ~Near(hits, i, j)
      /\ hits # <<>> => \A i \in DOMAIN hits : Distinct(hits, i) <= passages[1].distinct
      /\ \A i \in DOMAIN hits :
           (\A j \in anchors : ~Near(hits, i, j)) =>
             /\ Len(passages) = Limit
             /\ \A p \in DOMAIN passages : Distinct(hits, i) <= passages[p].distinct

(* The index shows what is committed, or the document is marked; a reader  *)
(* is given the best passages of it.                                       *)
SearchIsFaithful == IndexedOrMarked /\ PassagesAreBest
=============================================================================
