------------------------------ MODULE Ranking ------------------------------
(***************************************************************************)
(* How the query workflow ranks what the searches found: reciprocal rank   *)
(* fusion of the two vector searches (NodeRrf), the merge with the web     *)
(* results and the cut after the reranker (NodeRerank).  A document is a   *)
(* record [key, score] whose key is what the code identifies it by; scores *)
(* are integers, a constant of them to one unit of the code's scores.      *)
(***************************************************************************)
EXTENDS Integers, Sequences, FiniteSets, SequencesExt

CONSTANTS
    FusionK,      \* k of _rrf_merge, 60
    MaxFused,     \* max_results of _rrf_merge, 10
    TopN,         \* settings.rerank_top_n
    MaxTop,       \* RERANK_MAX_TOPK
    MinTop,       \* RERANK_MIN_TOPK
    GapAbsolute   \* RERANK_GAP_ABS, in units of score

ASSUME RankingAssumption ==
    /\ FusionK \in Nat \ {0}
    /\ MaxFused \in Nat \ {0}
    /\ TopN \in Nat \ {0}
    /\ MinTop \in Nat \ {0}
    /\ MaxTop \in Nat /\ MinTop <= MaxTop
    /\ GapAbsolute \in Nat

NoScore == -1000   \* None, below any score

Rank(list, key) == CHOOSE i \in DOMAIN list : list[i] = key

(* The documents in the order in which _rrf_merge first sees them. *)
See(seen, key) == IF Contains(seen, key) THEN seen ELSE Append(seen, key)
SeeAll(seen, list) == FoldLeft(See, seen, list)
FirstSeen(lists) == FoldLeft(SeeAll, <<>>, lists)

(* The score of a document, a fraction: the sum of 1/(k + rank) over the   *)
(* lists it is in.                                                         *)
Reciprocal(sum, list, key) ==
    IF ~Contains(list, key) THEN sum
    ELSE LET d == FusionK + Rank(list, key)
         IN  [n |-> sum.n * d + sum.d, d |-> sum.d * d]

FusedScore(lists, key) ==
    FoldLeft(LAMBDA sum, list : Reciprocal(sum, list, key), [n |-> 0, d |-> 1], lists)

Higher(x, y) == x.n * y.d > y.n * x.d

(* sorted(..., reverse=True) is stable: of equal scores the earlier comes  *)
(* first.  above holds the pairs of positions of which the first is higher.*)
Precedes(above, i, j) == <<i, j>> \in above \/ (<<j, i>> \notin above /\ i < j)

Place(seq, above, i) == 1 + Cardinality({j \in DOMAIN seq : Precedes(above, j, i)})

StableSort(seq, above) ==
    [p \in DOMAIN seq |-> seq[CHOOSE i \in DOMAIN seq : Place(seq, above, i) = p]]

FirstOf(seq, n) == SubSeq(seq, 1, IF n < Len(seq) THEN n ELSE Len(seq))

(* _rrf_merge. *)
HigherFused(lists, seen) ==
    {pair \in (DOMAIN seen) \X (DOMAIN seen) :
        Higher(FusedScore(lists, seen[pair[1]]), FusedScore(lists, seen[pair[2]]))}

Fuse(lists) ==
    LET seen == FirstSeen(lists)
    IN  FirstOf(StableSort(seen, HigherFused(lists, seen)), MaxFused)

----------------------------------------------------------------------------
(* _merge_multi_source_docs and _deduplicate_docs: the fused chunks, then  *)
(* the web results, those without content left out, the first of each key; *)
(* process passes the first of them on.                                    *)
Collect(unique, doc) ==
    IF ~doc.content \/ \E i \in DOMAIN unique : unique[i].key = doc.key THEN unique
    ELSE Append(unique, doc)

MergeSources(local, web) == FirstOf(FoldLeft(Collect, <<>>, local \o web), TopN)

(* _rerank_merged_docs: by the reranker's scores, or, when it fails, in    *)
(* the order of the merge with the scores of the retrieval.                *)
HigherScored(docs) ==
    {pair \in (DOMAIN docs) \X (DOMAIN docs) : docs[pair[1]].score > docs[pair[2]].score}

Rerank(docs, scores, fails) ==
    LET scored == [i \in DOMAIN docs |-> [docs[i] EXCEPT !.score = scores[docs[i].key]]]
    IN  IF fails THEN docs ELSE StableSort(scored, HigherScored(scored))

Magnitude(n) == IF n < 0 THEN 0 - n ELSE n

(* A cliff between two scores: half a point, or a quarter of the first;    *)
(* no score, no cliff.                                                     *)
Cliff(docs, i) ==
    /\ docs[i].score # NoScore
    /\ docs[i + 1].score # NoScore
    /\ LET gap == docs[i].score - docs[i + 1].score
       IN  \/ gap >= GapAbsolute
           \/ 4 * gap > Magnitude(docs[i].score)

\* mutant: cut at the last cliff
CutoffLast(docs) ==
    LET cliffs == {i \in MinTop .. Len(FirstOf(docs, MaxTop)) - 1 : Cliff(docs, i)}
    IN  FirstOf(docs, IF cliffs = {} THEN MaxTop
                      ELSE CHOOSE i \in cliffs : \A j \in cliffs : i >= j)

(* _cliff_cutoff: at the first cliff after the lower bound. *)
Cutoff(docs) ==
    LET upper == Len(FirstOf(docs, MaxTop))
        lower == Len(FirstOf(docs, MinTop))
        cliffs == {i \in lower .. upper - 1 : i > 0 /\ Cliff(docs, i)}
    IN  FirstOf(docs, IF cliffs = {} THEN upper
                     ELSE CHOOSE i \in cliffs : \A j \in cliffs : i <= j)

----------------------------------------------------------------------------
Before(list, x, y) == Contains(list, x) /\ (Contains(list, y) => Rank(list, x) <= Rank(list, y))

(* A document that no search ranks below another one is not ranked below   *)
(* it by the fusion, nor dropped for it, and none is there twice.          *)
FusionAgrees(lists) ==
    LET fused == Fuse(lists)
    IN  /\ IsInjective(fused)
        /\ \A x, y \in UNION {ToSet(lists[i]) : i \in DOMAIN lists} :
            /\ x # y
            /\ \A i \in DOMAIN lists : Contains(lists[i], x) \/ ~Contains(lists[i], y)
            /\ \A i \in DOMAIN lists : Contains(lists[i], x) => Before(lists[i], x, y)
            => Before(fused, x, y) \/ (~Contains(fused, y) /\ Len(fused) = MaxFused)

(* What the answer is given is never less than MinTop documents when there *)
(* are as many, never more than MaxTop; no kept document is beyond a       *)
(* cliff, and what the reranker puts higher is never dropped for less.     *)
CutoffBounded(docs, fails) ==
    LET kept == Cutoff(docs)
    IN  /\ Len(kept) >= Len(FirstOf(docs, MinTop))
        /\ Len(kept) <= MaxTop
        /\ \A i \in MinTop .. Len(kept) - 1 : ~Cliff(docs, i)
        /\ Len(kept) < Len(FirstOf(docs, MaxTop)) => Cliff(docs, Len(kept))
        /\ ~fails => \A i \in DOMAIN kept, j \in Len(kept) + 1 .. Len(docs) :
                        kept[i].score >= docs[j].score
============================================================================
