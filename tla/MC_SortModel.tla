---------------------------- MODULE MC_SortModel ----------------------------
(* Instantiates SortModel for TLC: three terms of one sort, cardinality    *)
(* literals up to 2, one saved SAT context.                               *)
EXTENDS SortModel

CONSTANTS t1, t2, t3

MCTerms == {t1, t2, t3}
TermSymmetry == Permutations(MCTerms)
NoAbort == -1   \* ufssAbortCardinality default
NoTotality == -1 \* ufssTotalityLimited off
NoApps == << >>  \* no applications over the sort
NoChildren == [n \in MCTerms |-> {}]  \* terms of the sort are atomic
AppsAll == <<t1, t2, t3>>  \* g(t1), g(t2), g(t3), in this order
AbortAt3 == 3
=============================================================================
