------------------------------ MODULE UFRegion ------------------------------
(***************************************************************************)
(* The Region of the finite-model strong solver for uninterpreted sorts    *)
(* (StrongSolverTheoryUF::SortModel::Region, theory_uf_strong_solver.cpp). *)
(*                                                                         *)
(* A region is a cell of a partition of the representatives of one sort.  *)
(* Its operations are called synchronously by the SortModel, so they are   *)
(* written here as functions from a SortModel state record s to the        *)
(* record after the call; r is the index of the region (d_regions[r]).     *)
(* The region fields of s are functions of the region index:               *)
(*   valid[r]              Region::d_valid                                 *)
(*   nodes[r]              the n of d_nodes with d_nodes[n]->d_valid       *)
(*   diseq[r][n][t]        the true entries of d_nodes[n]->d_disequalities *)
(*                         [t]; t = 0 external, t = 1 internal             *)
(*   repsSize[r]           d_reps_size                                     *)
(*   totalExt[r]           d_total_diseq_external                          *)
(*   totalInt[r]           d_total_diseq_internal                          *)
(*   testClique[r]         the true entries of d_testClique                *)
(*   testCliqueSize[r]     d_testCliqueSize                                *)
(*   splits[r]             the true entries of d_splits, as the pair of    *)
(*                         terms of the EQUAL node                         *)
(*   splitsSize[r]         d_splitsSize                                    *)
(* Counters are kept as the code keeps them, next to the sets they count, *)
(* so that a property can compare the two.                                 *)
(* A failed Assert of the code is recorded in s.failed.                    *)
(***************************************************************************)
EXTENDS Integers, FiniteSets, SequencesExt

CONSTANT Terms,      \* the ground terms of the sort (model values)
         UseRegions, \* options::ufssRegions()
         EagerSplits \* options::ufssEagerSplits()

ASSUME UseRegions \in BOOLEAN /\ EagerSplits \in BOOLEAN

Efforts == {"standard", "full"}   \* Theory::EFFORT_STANDARD, EFFORT_FULL

RegionIds == 0 .. Cardinality(Terms) - 1
Kinds == {0, 1}                   \* 0 external, 1 internal disequality

\* Records a failed Assert( cond ) of the code.
AssertOk(s, cond, tag) ==
  IF cond THEN s ELSE [s EXCEPT !.failed = @ \cup {tag}]

HasRep(s, r, n) == n \in s.nodes[r]

\* Region::getRepresentatives: the valid nodes of region r.
getRegionRepresentatives(s, r) == s.nodes[r]

IsDisequal(s, r, n1, n2, t) == n2 \in s.diseq[r][n1][t]

NumInternal(s, r, n) == Cardinality(s.diseq[r][n][1])
NumExternal(s, r, n) == Cardinality(s.diseq[r][n][0])
NumDisequalities(s, r, n) == NumInternal(s, r, n) + NumExternal(s, r, n)

(***************************************************************************)
(* Region::setDisequal: toggles one directed entry and its counter; a new *)
(* internal disequality between two test-clique members removes the split *)
(* keyed by (n1, n2).                                                      *)
(***************************************************************************)
\* Mutant: a new internal disequality leaves its split pending.
setDisequal_keepsSplit(s, r, n1, n2, t, v) ==
  IF IsDisequal(s, r, n1, n2, t) = v THEN s
  ELSE LET s1 == [s EXCEPT !.diseq[r][n1][t] = IF v THEN @ \cup {n2} ELSE @ \ {n2}]
       IN  IF t = 0 THEN [s1 EXCEPT !.totalExt[r] = @ + IF v THEN 1 ELSE -1]
           ELSE [s1 EXCEPT !.totalInt[r] = @ + IF v THEN 1 ELSE -1]

setDisequal(s, r, n1, n2, t, v) ==
  IF IsDisequal(s, r, n1, n2, t) = v THEN s
  ELSE LET d  == IF v THEN 1 ELSE -1
           s1 == [s EXCEPT !.diseq[r][n1][t] =
                             IF v THEN @ \cup {n2} ELSE @ \ {n2}]
       IN  IF t = 0 THEN [s1 EXCEPT !.totalExt[r] = @ + d]
           ELSE IF v /\ n1 \in s.testClique[r] /\ n2 \in s.testClique[r]
                     /\ <<n1, n2>> \in s.splits[r]
                THEN [s1 EXCEPT !.totalInt[r] = @ + d,
                                !.splits[r] = @ \ {<<n1, n2>>},
                                !.splitsSize[r] = @ - 1]
                ELSE [s1 EXCEPT !.totalInt[r] = @ + d]

(***************************************************************************)
(* Region::setRep: validates or invalidates n; invalidating a test-clique  *)
(* member drops it from the test clique and drops every split naming it.   *)
(***************************************************************************)
\* Mutant: a node leaving the test clique leaves its splits behind.
setRep_keepsStaleSplits(s, r, n, v) ==
  LET s1 == [s EXCEPT !.nodes[r] = IF v THEN @ \cup {n} ELSE @ \ {n},
                      !.repsSize[r] = @ + (IF v THEN 1 ELSE -1)]
  IN  IF n \in s.testClique[r]
      THEN [s1 EXCEPT !.testClique[r] = @ \ {n}, !.testCliqueSize[r] = @ - 1]
      ELSE s1

setRep(s, r, n, v) ==
  LET s0 == AssertOk(s, HasRep(s, r, n) # v, "setRep_toggle")
      s1 == [s0 EXCEPT !.nodes[r] = IF v THEN @ \cup {n} ELSE @ \ {n},
                       !.repsSize[r] = @ + (IF v THEN 1 ELSE -1)]
      stale == {p \in s.splits[r] : n = p[1] \/ n = p[2]}
  IN  IF n \in s.testClique[r]
      THEN [AssertOk(s1, ~v, "setRep_clique") EXCEPT
              !.testClique[r] = @ \ {n},
              !.testCliqueSize[r] = @ - 1,
              !.splits[r] = @ \ stale,
              !.splitsSize[r] = @ - Cardinality(stale)]
      ELSE s1

addRep(s, r, n) == setRep(s, r, n, TRUE)

(***************************************************************************)
(* Region::takeNode: this region r takes n from region f, converting each *)
(* disequality of n to the kind it has seen from its new region.          *)
(***************************************************************************)
TakeExternal(s, r, f, n, x) ==
  LET s1 == setDisequal(s, f, n, x, 0, FALSE)
  IN  IF HasRep(s1, r, x)
      THEN setDisequal(setDisequal(setDisequal(s1, r, x, n, 0, FALSE),
                                   r, x, n, 1, TRUE), r, n, x, 1, TRUE)
      ELSE setDisequal(s1, r, n, x, 0, TRUE)

TakeInternal(s, r, f, n, x) ==
  LET s1 == setDisequal(setDisequal(s, f, n, x, 1, FALSE), f, x, n, 1, FALSE)
  IN  setDisequal(setDisequal(s1, f, x, n, 0, TRUE), r, n, x, 0, TRUE)

takeNode(s, r, f, n) ==
  LET s0 == AssertOk(s, ~HasRep(s, r, n) /\ HasRep(s, f, n), "takeNode_pre")
      s1 == setRep(s0, r, n, TRUE)
      s2 == FoldSet(LAMBDA x, acc : TakeExternal(acc, r, f, n, x),
                    s1, s.diseq[f][n][0])
      s3 == FoldSet(LAMBDA x, acc : TakeInternal(acc, r, f, n, x),
                    s2, s.diseq[f][n][1])
  IN  setRep(s3, f, n, FALSE)

(***************************************************************************)
(* Region::combine: r takes every valid node of o, then every disequality *)
(* of those nodes; o becomes invalid (its own entries are left as they     *)
(* are, as in the code).                                                   *)
(***************************************************************************)
\* Mutant: x keeps its external entry to n once both are in region r.
CombineEdge_keepsExternal(s, r, n, x, t) ==
  IF t = 0 /\ HasRep(s, r, x)
  THEN setDisequal(setDisequal(s, r, x, n, 1, TRUE), r, n, x, 1, TRUE)
  ELSE setDisequal(s, r, n, x, t, TRUE)

CombineEdge(s, r, n, x, t) ==
  IF t = 0 /\ HasRep(s, r, x)
  THEN setDisequal(setDisequal(setDisequal(s, r, x, n, 0, FALSE),
                               r, x, n, 1, TRUE), r, n, x, 1, TRUE)
  ELSE setDisequal(s, r, n, x, t, TRUE)

combine(s, r, o) ==
  LET s1 == FoldSet(LAMBDA n, acc : setRep(acc, r, n, TRUE), s, s.nodes[o])
      edges == UNION {{<<n, x, t>> : x \in s.diseq[o][n][t]} :
                        <<n, t>> \in s.nodes[o] \X Kinds}
      s2 == FoldSet(LAMBDA e, acc : CombineEdge(acc, r, e[1], e[2], e[3]),
                    s1, edges)
  IN  [s2 EXCEPT !.valid[o] = FALSE]

(***************************************************************************)
(* Region::setEqual: b (merged into a) hands its disequalities to a, in   *)
(* this region and in the region of the other endpoint, then leaves.      *)
(***************************************************************************)
\* Mutant: b's disequalities move to a only on a's side.
MoveEdge_oneSided(s, r, a, b, x, t) ==
  setDisequal(setDisequal(s, r, a, x, t, TRUE), r, b, x, t, FALSE)

MoveEdge(s, r, a, b, x, t) ==
  LET nr == s.regionsMap[x]
      s1 == IF ~IsDisequal(s, r, a, x, t)
            THEN setDisequal(setDisequal(s, r, a, x, t, TRUE), nr, x, a, t, TRUE)
            ELSE s
  IN  setDisequal(setDisequal(s1, r, b, x, t, FALSE), nr, x, b, t, FALSE)

setEqual(s, r, a, b) ==
  LET s0 == AssertOk(s, HasRep(s, r, a) /\ HasRep(s, r, b), "setEqual_pre")
      edges == UNION {{<<x, t>> : x \in s.diseq[r][b][t]} : t \in Kinds}
      s1 == FoldSet(LAMBDA e, acc : MoveEdge(acc, r, a, b, e[1], e[2]),
                    s0, edges)
  IN  setRep(s1, r, b, FALSE)

(***************************************************************************)
(* Region::getMustCombine: the region has enough external disequalities  *)
(* that a clique of cardinality+1 may span it and other regions: some n  *)
(* of its nodes have external degree >= cardinality+1-n.  Only nodes of   *)
(* total degree >= cardinality count; degrees is scanned in ascending     *)
(* order after the two early exits.                                       *)
(***************************************************************************)
getMustCombine(s, r, card) ==
  /\ UseRegions
  /\ s.totalExt[r] >= card
  /\ LET cand    == {n \in s.nodes[r] : NumDisequalities(s, r, n) >= card}
         big     == {n \in cand : NumExternal(s, r, n) >= card}
         small   == {n \in cand : NumExternal(s, r, n) \in 1 .. card - 1}
         m       == Cardinality(small)
         degrees == SortSeq([i \in 1 .. m |-> NumExternal(s, r, SetToSeq(small)[i])],
                            LAMBDA x, y : x < y)
     IN  \/ big # {}
         \/ m >= card
         \/ \E i \in 1 .. m : degrees[i] >= card + 1 - (m - i + 1)

(***************************************************************************)
(* Test-clique growth in Region::check.  Below cardinality, the missing   *)
(* card-size+1 members are the candidates of highest internal degree      *)
(* (std::sort, ties in any order); at cardinality, one candidate of       *)
(* maximal degree.  Each choice is a set of new members.                  *)
(***************************************************************************)
\* The orders std::sort may leave newClique in: by non-increasing internal
\* degree, ties in any order.
SortOrders(s, r, N) ==
  {f \in [N -> 1 .. Cardinality(N)] :
     /\ \A x, y \in N : f[x] = f[y] => x = y
     /\ \A x, y \in N : f[x] < f[y] => NumInternal(s, r, x) >= NumInternal(s, r, y)}

NewCliqueChoices(s, r, card) ==
  LET cands == s.nodes[r] \ s.testClique[r]
      k     == card - s.testCliqueSize[r] + 1
      top(N) == \A x \in N, y \in cands \ N : NumInternal(s, r, x) >= NumInternal(s, r, y)
  IN  IF s.testCliqueSize[r] < card
      THEN IF Cardinality(cands) < k THEN {cands}
           ELSE {N \in kSubset(k, cands) : top(N)}
      ELSE {{n} : n \in {x \in cands : top({x})}}

\* Adds newClique, in order f, to the test clique, recording a split for
\* every pair of it and of an old member and it that is not internally
\* disequal.
AddToTestClique(s, r, N, f) ==
  LET newPairs == {<<x, y>> \in N \X N : f[x] < f[y] /\ ~IsDisequal(s, r, x, y, 1)}
      oldPairs == {<<o, y>> \in s.testClique[r] \X N : ~IsDisequal(s, r, o, y, 1)}
      added    == newPairs \cup oldPairs
  IN  [s EXCEPT !.splits[r] = @ \cup added,
                !.splitsSize[r] = @ + Cardinality(added),
                !.testClique[r] = @ \cup N,
                !.testCliqueSize[r] = @ + Cardinality(N)]

GrowTestClique(s, r, card) ==
  LET k     == card - s.testCliqueSize[r] + 1
      cands == s.nodes[r] \ s.testClique[r]
      s0 == IF s.testCliqueSize[r] < card
            THEN AssertOk(s, Cardinality(cands) >= k, "check_erase_past_end")
            ELSE AssertOk(s, cands # {}, "check_maxNode")
  IN  IF cands = {} THEN {s0}
      ELSE UNION {{AddToTestClique(s0, r, N, f) : f \in SortOrders(s, r, N)} :
                   N \in NewCliqueChoices(s, r, card)}

(***************************************************************************)
(* Region::check: the possible pairs <<s', clique>>, clique = {} when no  *)
(* clique is reported.                                                    *)
(***************************************************************************)
\* Mutant: a test clique of cardinality+1 is reported with splits pending.
regionCheck_ignoresSplits(s, r, level, card) ==
  LET n == s.repsSize[r]
  IN  IF n <= card THEN {<<s, {}>>}
      ELSE IF s.totalInt[r] = n * (n - 1)
      THEN IF n > 1 THEN {<<s, s.nodes[r]>>} ELSE {<<s, {}>>}
      ELSE LET grown == IF s.testCliqueSize[r] <= card
                        THEN GrowTestClique(s, r, card) ELSE {s}
           IN  {IF s2.testCliqueSize[r] >= card + 1
                THEN <<s2, s2.testClique[r]>> ELSE <<s2, {}>> : s2 \in grown}

regionCheck(s, r, level, card) ==
  LET n == s.repsSize[r]
  IN  IF n <= card THEN {<<s, {}>>}
      ELSE IF s.totalInt[r] = n * (n - 1)
      THEN IF n > 1 THEN {<<s, s.nodes[r]>>} ELSE {<<s, {}>>}
      ELSE IF UseRegions \/ EagerSplits \/ level = "full"
      THEN LET grown == IF s.testCliqueSize[r] <= card
                        THEN GrowTestClique(s, r, card) ELSE {s}
           IN  {IF s2.testCliqueSize[r] >= card + 1 /\ s2.splitsSize[r] = 0
                THEN <<s2, s2.testClique[r]>> ELSE <<s2, {}>> : s2 \in grown}
      ELSE {<<s, {}>>}

=============================================================================
