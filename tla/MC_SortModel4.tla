--------------------------- MODULE MC_SortModel4 ----------------------------
(* Instantiates SortModel for TLC with four terms, so that two regions of *)
(* two representatives each can be merged across (moveNode, takeNode).    *)
EXTENDS SortModel

CONSTANTS t1, t2, t3, t4

MCTerms == {t1, t2, t3, t4}
TermSymmetry == Permutations(MCTerms)
NoAbort == -1   \* ufssAbortCardinality default
NoTotality == -1 \* ufssTotalityLimited off
NoApps == << >>  \* no applications over the sort
NoChildren == [n \in MCTerms |-> {}]  \* terms of the sort are atomic
\* t3 = g(t1) and t4 = g(t2) for a function g over the sort: setSplitScore
\* raises t1 and t2 to score 1 when t3 and t4 become classes.
AppChildren == (t1 :> {} @@ t2 :> {} @@ t3 :> {t1} @@ t4 :> {t2})

\* Bound: at most this many disequality literals asserted in a behaviour.
MaxDiseqs == 2
DiseqBound == Cardinality(ee.diseqs) <= MaxDiseqs
=============================================================================
