------------------------------ MODULE SortModel -----------------------------
(***************************************************************************)
(* StrongSolverTheoryUF::SortModel (theory_uf_strong_solver.cpp) for one  *)
(* uninterpreted sort, driven by the equality engine and the SAT search   *)
(* that call it.                                                           *)
(*                                                                         *)
(* The SortModel state is the record sm: the Region fields of UFRegion and *)
(*   regionsIndex   d_regions_index     regionsMap   d_regions_map         *)
(*   reps           d_reps              conflict     d_conflict            *)
(*   cardinality    d_cardinality       hasCard      d_hasCard             *)
(*   cardAsserted   d_cardinality_assertions (literal k |-> polarity)     *)
(*   disequalities  d_disequalities[0 .. d_disequalities_index)            *)
(*   aloc           d_aloc_cardinality (not context dependent)             *)
(*   witnesses      d_totality_terms[0].size() (not context dependent)    *)
(*   out            what the step sent to the OutputChannel                *)
(*   halted         exit(0) in allocateCardinality                         *)
(* regionsMap[n] is NotInMap for a term with no entry and -1 for a term    *)
(* merged away.  Every handler is one atomic step: the code is single-    *)
(* threaded and runs each notification to completion.  Handlers are sets   *)
(* of possible results where the code's choice depends on hash-map or     *)
(* sort order.                                                             *)
(*                                                                         *)
(* The environment is the equality engine, ee = [terms, rep, diseqs]: its *)
(* registered terms, their representatives, and the asserted disequality  *)
(* literals <<x, y>>.  The SAT search is a stack of saved contexts: all   *)
(* of sm except aloc, witnesses, totAx, halted and failed is context     *)
(* dependent, and so is ee; a pop restores both.                          *)
(***************************************************************************)
EXTENDS UFRegion, Sequences

CONSTANTS MinimalModel,     \* options::ufssMinimalModel()
          CliqueMode,       \* "simple": ufssSimpleCliques && !ufssExplainedCliques,
                            \* "explained": ufssExplainedCliques, "repmap": neither
          AbortCardinality, \* options::ufssAbortCardinality(), -1 for none
          MaxCardinality,   \* bound: cardinality literals allocated
          MaxLevel,         \* bound: depth of the SAT context stack
          NotInMap,         \* model value: no entry in d_regions_map
          DiseqPropagation, \* options::ufssDiseqPropagation()
          ColoringSat,      \* options::ufssColoringSat()
          AppArgs,          \* arguments a of the applications g(a) of one
                            \* function g over the sort, in term-database order
          TotalityLimited,  \* options::ufssTotalityLimited() (-1: none)
          TotalityLazy,     \* options::ufssTotalityLazy()
          SmartSplits,      \* options::ufssSmartSplits()
          Children          \* the children of each term that have this sort

ASSUME /\ MinimalModel \in BOOLEAN
       /\ CliqueMode \in {"simple", "explained", "repmap"}
       /\ AbortCardinality \in Int /\ MaxCardinality \in Nat /\ MaxLevel \in Nat
       /\ DiseqPropagation \in BOOLEAN /\ ColoringSat \in BOOLEAN
       /\ TotalityLimited \in Int /\ TotalityLazy \in BOOLEAN
       /\ SmartSplits \in BOOLEAN
       /\ Children \in [Terms -> SUBSET Terms]

VARIABLES sm, ee, stack
vars == <<sm, ee, stack>>

\* Sequencing of handlers whose outcome is a set of possible records.
Bind(S, F(_)) == UNION {F(x) : x \in S}

IsValid(s, ri) == ri \in 0 .. s.regionsIndex - 1 /\ s.valid[ri]

Rep(e, t) == e.rep[t]
EEReps(e) == {t \in e.terms : e.rep[t] = t}

\* equalityEngine.areDisequal on representatives a, b
EEDisequal(e, a, b) ==
  \E p \in e.diseqs : {Rep(e, p[1]), Rep(e, p[2])} = {a, b}

\* Node::null(), the reason the disequality propagator passes: it has no
\* children.
NullReason == <<>>

\* The opposite truth value of a predicate literal; e.pred[t] is the value
\* asserted for P(t) of the one unary predicate P, or "none".
Opp(v) == IF v = "T" THEN "F" ELSE "T"

\* Merging a and b would make P(a) = P(b) equal true to false: the equality
\* engine reports a conflict instead.
PredClash(e, a, b) ==
  \E u, v \in e.terms : Rep(e, u) = a /\ Rep(e, v) = b /\ {e.pred[u], e.pred[v]} = {"T", "F"}

\* Classes a and b are entailed distinct: by an asserted disequality, or by
\* P(a) and P(b) asserted with opposite polarities.
KnownDisequal(e, a, b) == EEDisequal(e, a, b) \/ PredClash(e, a, b)

-----------------------------------------------------------------------------
(* SortModel::combineRegions, moveNode, getNumDisequalitiesToRegion,       *)
(* forceCombineRegion.  The first two return <<s', index>>.               *)

combineRegions(s, ai, bi) ==
  LET s0 == AssertOk(s, IsValid(s, ai) /\ IsValid(s, bi), "combineRegions_pre")
      s1 == [s0 EXCEPT !.regionsMap = [n \in Terms |->
                          IF n \in s.nodes[bi] THEN ai ELSE @[n]]]
  IN  <<[combine(s1, ai, bi) EXCEPT !.valid[bi] = FALSE], ai>>

\* Mutant: the moved node's d_regions_map entry is not updated.
moveNode_keepsMap(s, n, ri) ==
  takeNode(s, ri, s.regionsMap[n], n)

moveNode(s, n, ri) ==
  LET from == s.regionsMap[n]
      s0 == AssertOk(s, IsValid(s, from) /\ IsValid(s, ri), "moveNode_pre")
  IN  [takeNode(s0, ri, from, n) EXCEPT !.regionsMap[n] = ri]

getNumDisequalitiesToRegion(s, n, ri) ==
  Cardinality({x \in s.diseq[s.regionsMap[n]][n][0] : s.regionsMap[x] = ri})

\* Number of external disequalities from the valid nodes of ri into region j.
DiseqToRegion(s, ri, j) ==
  Cardinality({<<n, x>> \in s.nodes[ri] \X Terms :
                 x \in s.diseq[ri][n][0] /\ s.regionsMap[x] = j})

forceCombineRegion(s, ri, useDensity) ==
  IF ~useDensity
  THEN LET others == {i \in 0 .. s.regionsIndex - 1 : i # ri /\ s.valid[i]}
       IN  IF others = {} THEN <<s, -1>>
           ELSE combineRegions(s, ri, CHOOSE i \in others : \A j \in others : i <= j)
  ELSE LET J  == {s.regionsMap[x] : x \in UNION {s.diseq[ri][n][0] : n \in s.nodes[ri]}}
           s0 == AssertOk(s, \A j \in J : j # ri /\ IsValid(s, j) /\ s.repsSize[j] > 0,
                       "forceCombineRegion_target")
           cnt(j) == DiseqToRegion(s, ri, j)
           \* score(j) > score(k), with score = count / reps, compared exactly
           gt(j, k) == cnt(j) * s.repsSize[k] > cnt(k) * s.repsSize[j]
           V  == {j \in J : IsValid(s, j)}
           best == {j \in V : /\ \A k \in V : ~gt(k, j)
                              /\ \A k \in V : k < j => gt(j, k)}
       IN  IF best = {} THEN <<s0, -1>>
           ELSE combineRegions(s0, ri, CHOOSE j \in best : TRUE)

-----------------------------------------------------------------------------
(***************************************************************************)
(* Totality axioms (options::ufssTotality, which drops regions, is not    *)
(* modelled).  The axiom for term n and cardinality c, "card <= c implies *)
(* n equals one of the c witness terms", is a lemma: it is recorded in    *)
(* totAx, which no backtracking undoes.                                   *)
(***************************************************************************)
\* SortModel::applyTotality with ufssTotality off.
applyTotality(c) == c <= TotalityLimited

\* SortModel::addTotalityAxiom for every term of N and cardinality of C.
addTotalityAxioms(s, N, C) ==
  [s EXCEPT !.totAx = @ \cup (N \X C),
            !.out = @ \cup {[kind |-> "totality", term |-> p[1], card |-> p[2]] : p \in N \X C}]

\* The terms with an entry in d_regions_map (merged-away ones included).
InMap(s) == {n \in Terms : s.regionsMap[n] # NotInMap}

\* Mutant: the loop over d_cardinality_literal stops before the last one.
newClassTotality_skipsLast(s, n) ==
  IF TotalityLazy THEN s
  ELSE addTotalityAxioms(s, {n}, {c \in 1 .. s.aloc - 1 : applyTotality(c)})

\* The eager axioms newEqClass sends for a new term: one for every
\* cardinality allocated so far.
newClassTotality(s, n) ==
  IF TotalityLazy THEN s
  ELSE addTotalityAxioms(s, {n}, {c \in 1 .. s.aloc : applyTotality(c)})

\* Mutant: only the fresh skolems _c_k are pushed on d_totality_terms[0];
\* d_cardinality_term, the witness for cardinality 1, is left out.
allocTotality_skipsFirst(s, k) ==
  IF ~applyTotality(k) THEN s
  ELSE LET s1 == IF k > 1 THEN [s EXCEPT !.out = @ \cup {[kind |-> "witness", card |-> k]},
                                         !.witnesses = @ + 1]
                 ELSE s
       IN  IF TotalityLazy THEN s1 ELSE addTotalityAxioms(s1, InMap(s1), {k})

\* What allocateCardinality does for totality once literal k exists: a new
\* witness term pushed on d_totality_terms[0] (d_cardinality_term for k = 1,
\* else a fresh skolem distinct, by lemma, from the earlier ones), and the
\* eager axioms for every term in d_regions_map.
allocTotality(s, k) ==
  IF ~applyTotality(k) THEN s
  ELSE LET s0 == [s EXCEPT !.witnesses = @ + 1]
           s1 == IF k > 1 THEN [s0 EXCEPT !.out = @ \cup {[kind |-> "witness", card |-> k]}]
                 ELSE s0
       IN  IF TotalityLazy THEN s1 ELSE addTotalityAxioms(s1, InMap(s1), {k})

\* Mutant: the lazy axioms are sent only when ufssTotalityLazy is off.
checkTotality_invertedLazy(s, level) ==
  IF ~TotalityLazy /\ level = "full"
  THEN addTotalityAxioms(s, InMap(s), {s.cardinality}) ELSE s

\* check, once no clique was reported and the bound is covered by
\* totality: no splits; with ufssTotalityLazy a full check sends the axiom
\* for the bound for every term in d_regions_map.
checkTotality(s, level) ==
  IF TotalityLazy /\ level = "full"
  THEN addTotalityAxioms(s, InMap(s), {s.cardinality}) ELSE s

(* SortModel::allocateCardinality: a new literal "card <= aloc+1" and the *)
(* split lemma on it, or exit(0) at the abort cardinality.                *)
\* Mutant: the split lemma names the literal before the increment.
allocateCardinality_staleIndex(s) ==
  [s EXCEPT !.aloc = @ + 1,
            !.out = @ \cup {[kind |-> "card_split", card |-> s.aloc]}]

\* Mutant: the abort test reads the count before it is incremented.
allocateCardinality_lateAbort(s) ==
  IF s.aloc = AbortCardinality
  THEN [s EXCEPT !.aloc = @ + 1, !.halted = TRUE]
  ELSE [s EXCEPT !.aloc = @ + 1,
                 !.out = @ \cup {[kind |-> "card_split", card |-> s.aloc + 1]}]

allocateCardinality(s) ==
  IF s.aloc + 1 = AbortCardinality
  THEN [s EXCEPT !.aloc = @ + 1, !.halted = TRUE]
  ELSE allocTotality([s EXCEPT !.aloc = @ + 1,
                               !.out = @ \cup {[kind |-> "card_split", card |-> s.aloc + 1]}],
                     s.aloc + 1)

(***************************************************************************)
(* SortModel::addCliqueLemma.  The clique vector is popped back to       *)
(* cardinality+1 members (which ones depends on its order).  "simple"     *)
(* sends the lemma; otherwise the recorded disequalities are walked in    *)
(* order, keeping the first one for each pair of clique representatives, *)
(* until every pair is explained.  d_disequalities[i][0][0] of a null     *)
(* reason (NullReason, from the disequality propagator) reads a child the *)
(* null node does not have: recorded in s.ub, and the walk stops.          *)
(***************************************************************************)
\* Mutant: the walk stops one explained pair short.
RECURSIVE Walk_stopsEarly(_, _, _, _, _)
Walk_stopsEarly(s, e, K, i, acc) ==
  LET k == Cardinality(K) IN
  IF i > Len(s.disequalities) \/ Cardinality(acc.pairs) >= (k * (k - 1)) \div 2 - 1
  THEN acc
  ELSE LET x == s.disequalities[i][1]
           y == s.disequalities[i][2]
           r1 == Rep(e, x)
           r2 == Rep(e, y)
       IN  IF r1 # r2 /\ {r1, r2} \notin acc.pairs /\ r1 \in K /\ r2 \in K
           THEN Walk_stopsEarly(s, e, K, i + 1,
                  [acc EXCEPT !.pairs = @ \cup {{r1, r2}}, !.lits = @ \cup {<<x, y>>}])
           ELSE Walk_stopsEarly(s, e, K, i + 1, acc)

RECURSIVE Walk(_, _, _, _, _)
Walk(s, e, K, i, acc) ==
  LET k == Cardinality(K) IN
  IF i > Len(s.disequalities) \/ Cardinality(acc.pairs) = (k * (k - 1)) \div 2
  THEN acc
  ELSE IF s.disequalities[i] = NullReason THEN [acc EXCEPT !.nullRead = TRUE]
  ELSE LET x == s.disequalities[i][1]
           y == s.disequalities[i][2]
           r1 == Rep(e, x)
           r2 == Rep(e, y)
           ru(rr, t) == IF \E q \in acc.repMap : q[1] = rr
                        THEN (CHOOSE q \in acc.repMap : q[1] = rr)[2] ELSE t
           u1 == ru(r1, x)
           u2 == ru(r2, y)
           lit == IF CliqueMode = "repmap" THEN <<u1, u2>> ELSE <<x, y>>
       IN  IF r1 # r2 /\ {r1, r2} \notin acc.pairs /\ r1 \in K /\ r2 \in K
           THEN Walk(s, e, K, i + 1,
                  [acc EXCEPT !.pairs  = @ \cup {{r1, r2}},
                              !.lits   = @ \cup {lit},
                              !.repMap = @ \cup {<<r1, u1>>, <<r2, u2>>},
                              !.isSat  = @ /\ (CliqueMode # "repmap" \/ lit = <<x, y>>)])
           ELSE Walk(s, e, K, i + 1, acc)

addCliqueLemma(s, e, clique) ==
  LET s0 == AssertOk(s, s.hasCard /\ s.cardinality > 0, "addCliqueLemma_pre")
      k  == IF Cardinality(clique) > s.cardinality + 1
            THEN s.cardinality + 1 ELSE Cardinality(clique)
      Emit(K) ==
        IF CliqueMode = "simple"
        THEN [s0 EXCEPT !.out = @ \cup {[kind |-> "clique_lemma", clique |-> K,
                                         card |-> s.cardinality, lits |-> {}]}]
        ELSE LET w == Walk(s, e, K, 1, [pairs |-> {}, lits |-> {}, repMap |-> {},
                                         isSat |-> TRUE, nullRead |-> FALSE])
                 s1 == IF CliqueMode = "explained"
                       THEN AssertOk(s0, Cardinality(w.pairs) = (k * (k - 1)) \div 2,
                                  "addCliqueLemma_explained")
                       ELSE s0
                 rec == [kind |-> IF w.isSat THEN "clique_conflict" ELSE "clique_lemma",
                         clique |-> K, card |-> s.cardinality, lits |-> w.lits]
             IN  IF w.nullRead
                 THEN [s0 EXCEPT !.ub = @ \cup {"addCliqueLemma_nullReason"}]
                 ELSE [s1 EXCEPT !.out = @ \cup {rec},
                                 !.conflict = @ \/ w.isSat]
  IN  {Emit(K) : K \in kSubset(k, clique)}

-----------------------------------------------------------------------------
(* SortModel::checkRegion: combine the region if it must, then report a   *)
(* clique if Region::check finds one.                                     *)
RECURSIVE checkRegion(_, _, _, _)
checkRegion(s, e, ri, checkCombine) ==
  IF ~(IsValid(s, ri) /\ s.hasCard) THEN {s}
  ELSE LET s0 == AssertOk(s, s.cardinality > 0, "checkRegion_card")
           pre == IF checkCombine /\ getMustCombine(s0, ri, s0.cardinality)
                  THEN LET fc == forceCombineRegion(s0, ri, TRUE)
                       IN  IF fc[2] >= 0 THEN checkRegion(fc[1], e, fc[2], checkCombine)
                           ELSE {fc[1]}
                  ELSE {s0}
       IN  Bind(pre, LAMBDA s1 :
             Bind(regionCheck(s1, ri, "standard", s1.cardinality), LAMBDA p :
               IF p[2] # {} /\ MinimalModel THEN addCliqueLemma(p[1], e, p[2])
               ELSE {p[1]}))

\* checkRegion on every valid region from index i on, until a conflict.
RECURSIVE CheckAllRegions(_, _, _)
CheckAllRegions(s, e, i) ==
  IF i >= s.regionsIndex THEN {s}
  ELSE IF ~s.valid[i] THEN CheckAllRegions(s, e, i + 1)
  ELSE Bind(checkRegion(s, e, i, TRUE), LAMBDA s1 :
         IF s1.conflict THEN {s1} ELSE CheckAllRegions(s1, e, i + 1))

-----------------------------------------------------------------------------
(* SortModel::newEqClass: the eager totality axioms for the new term,    *)
(* then a new representative goes into a new region (into region 0       *)
(* without regions).                                                      *)
\* SortModel::setSplitScore: the score of n is raised to v, then each child
\* of n gets v+1 the same way.  Children[n] holds the children of this
\* sort; raising to a maximum is order-independent, so the children are
\* folded in any order.  The scores are read only by addSplit's smart
\* branch.
RECURSIVE setSplitScore(_, _, _)
setSplitScore(s, n, v) ==
  FoldSet(LAMBDA c, acc : setSplitScore(acc, c, v + 1),
          [s EXCEPT !.splitScore[n] = IF @ > v THEN @ ELSE v],
          Children[n])

\* Mutant: the ufssRegions test is inverted when choosing the new region.
newEqClass_invertedOption(s, n) ==
  IF s.conflict \/ s.regionsMap[n] # NotInMap THEN s
  ELSE LET idx == IF ~UseRegions THEN s.regionsIndex ELSE 0
           s0  == AssertOk(newClassTotality(s, n), ~UseRegions \/ s.repsSize[idx] = 0, "newEqClass_empty")
           s1  == [s0 EXCEPT !.regionsMap[n] = idx, !.valid[idx] = TRUE]
           s2  == IF SmartSplits THEN setSplitScore(s1, n, 0) ELSE s1
       IN  [addRep(s2, idx, n) EXCEPT !.regionsIndex = idx + 1, !.reps = @ + 1]

newEqClass(s, n) ==
  IF s.conflict \/ s.regionsMap[n] # NotInMap THEN s
  ELSE LET idx == IF UseRegions THEN s.regionsIndex ELSE 0
           s0  == AssertOk(newClassTotality(s, n), ~UseRegions \/ s.repsSize[idx] = 0, "newEqClass_empty")
           s1  == [s0 EXCEPT !.regionsMap[n] = idx, !.valid[idx] = TRUE]
           s2  == IF SmartSplits THEN setSplitScore(s1, n, 0) ELSE s1
       IN  [addRep(s2, idx, n) EXCEPT !.regionsIndex = idx + 1, !.reps = @ + 1]

(***************************************************************************)
(* SortModel::merge(a, b): b's class joins a's.  A region of one node is  *)
(* absorbed by the other region; otherwise the node whose move leaves     *)
(* fewer external disequalities moves.  Then setEqual and the checks.     *)
(***************************************************************************)
\* Mutant: the merged-away b keeps its d_regions_map entry.
merge_keepsMap(s, e, a, b) ==
  IF s.conflict THEN {s}
  ELSE LET ai == s.regionsMap[a]
           bi == s.regionsMap[b]
           Done(S) == {[x EXCEPT !.reps = @ - 1] : x \in S}
       IN  IF ai = bi THEN Done(checkRegion(setEqual(s, ai, a, b), e, ai, TRUE))
           ELSE IF s.repsSize[ai] = 1 \/ s.repsSize[bi] = 1
           THEN LET c == IF s.repsSize[ai] = 1 THEN combineRegions(s, bi, ai)
                         ELSE combineRegions(s, ai, bi)
                IN  Done(checkRegion(setEqual(c[1], c[2], a, b), e, c[2], TRUE))
           ELSE LET aex == NumInternal(s, ai, a) - getNumDisequalitiesToRegion(s, a, bi)
                    bex == NumInternal(s, bi, b) - getNumDisequalitiesToRegion(s, b, ai)
                    s1  == IF aex < bex THEN setEqual(moveNode(s, a, bi), bi, a, b)
                           ELSE setEqual(moveNode(s, b, ai), ai, a, b)
                IN  Done(Bind(checkRegion(s1, e, ai, TRUE), LAMBDA x :
                                checkRegion(x, e, bi, TRUE)))

merge(s, e, a, b) ==
  IF s.conflict THEN {s}
  ELSE LET ai == s.regionsMap[a]
           bi == s.regionsMap[b]
           s0 == AssertOk(s, ai # NotInMap /\ bi # NotInMap, "merge_pre")
           Done(S) == {[x EXCEPT !.regionsMap[b] = -1, !.reps = @ - 1] : x \in S}
       IN  IF a = b THEN {[s EXCEPT !.reps = @ - 1]}
           ELSE IF ai = bi
           THEN Done(checkRegion(setEqual(s0, ai, a, b), e, ai, TRUE))
           ELSE IF s.repsSize[ai] = 1 \/ s.repsSize[bi] = 1
           THEN LET c == IF s.repsSize[ai] = 1 THEN combineRegions(s0, bi, ai)
                         ELSE combineRegions(s0, ai, bi)
                IN  Done(checkRegion(setEqual(c[1], c[2], a, b), e, c[2], TRUE))
           ELSE LET aex == NumInternal(s, ai, a) - getNumDisequalitiesToRegion(s, a, bi)
                    bex == NumInternal(s, bi, b) - getNumDisequalitiesToRegion(s, b, ai)
                    s1  == IF aex < bex THEN setEqual(moveNode(s0, a, bi), bi, a, b)
                           ELSE setEqual(moveNode(s0, b, ai), ai, a, b)
                IN  Done(Bind(checkRegion(s1, e, ai, TRUE), LAMBDA x :
                                checkRegion(x, e, bi, TRUE)))

(***************************************************************************)
(* SortModel::assertDisequal: the reason is recorded and the disequality  *)
(* added to the regions, internal or external, unless the equality engine *)
(* already knew the two classes disequal (known).                         *)
(***************************************************************************)
assertDisequal(s, e, x, y, reason, known) ==
  LET a  == Rep(e, x)
      b  == Rep(e, y)
      ai == s.regionsMap[a]
      bi == s.regionsMap[b]
      s0 == [AssertOk(s, ai # NotInMap /\ bi # NotInMap, "assertDisequal_pre")
               EXCEPT !.disequalities = Append(@, reason)]
  IN  IF s.conflict \/ known THEN {s}
      ELSE IF ai = bi
      THEN checkRegion(setDisequal(setDisequal(s0, ai, a, b, 1, TRUE), ai, b, a, 1, TRUE),
                       e, ai, FALSE)
      ELSE Bind(checkRegion(setDisequal(setDisequal(s0, ai, a, b, 0, TRUE), bi, b, a, 0, TRUE),
                            e, ai, TRUE), LAMBDA z : checkRegion(z, e, bi, TRUE))

(***************************************************************************)
(* SortModel::assertCardinality: the literal "card <= c" gets polarity    *)
(* val.  True lowers the bound (the first one also checks every region);  *)
(* false, while no bound holds and every literal is assigned, allocates   *)
(* the next one.                                                          *)
(***************************************************************************)
AllAssigned(s) == \A c \in 1 .. s.aloc : c \in DOMAIN s.cardAsserted

\* Mutant: every positive literal overwrites the bound, weaker or not.
assertCardinality_alwaysLowers(s, e, c, val) ==
  IF s.conflict THEN {s}
  ELSE LET s0 == [s EXCEPT !.cardAsserted = (c :> val) @@ @]
       IN  IF val
           THEN LET s1 == [s0 EXCEPT !.cardinality = c, !.hasCard = TRUE]
                IN  IF ~s.hasCard THEN CheckAllRegions(s1, e, 0) ELSE {s1}
           ELSE IF ~s.hasCard /\ AllAssigned(s0) THEN {allocateCardinality(s0)}
           ELSE {s0}

assertCardinality(s, e, c, val) ==
  IF s.conflict THEN {s}
  ELSE LET s0 == [AssertOk(s, c \in 1 .. s.aloc, "assertCardinality_lit")
                    EXCEPT !.cardAsserted = (c :> val) @@ @]
       IN  IF val
           THEN LET s1 == [s0 EXCEPT !.cardinality = IF ~s.hasCard \/ c < @ THEN c ELSE @,
                                     !.hasCard = TRUE]
                IN  IF ~s.hasCard THEN CheckAllRegions(s1, e, 0) ELSE {s1}
           ELSE IF ~s.hasCard /\ AllAssigned(s0) THEN {allocateCardinality(s0)}
           ELSE {s0}

(***************************************************************************)
(* SortModel::addSplit: the first pending split of the region (any one,   *)
(* hash order), or without minimal models any pair of its nodes not known *)
(* disequal; the split is sent with phase true.  <<s', added>>.           *)
(* With ufssSmartSplits the loop keeps the last split, in hash order,     *)
(* whose score exceeds maxScore, and maxScore is reset to -1 rather than  *)
(* to that score (line 1043): any split scoring above -1 can be the one.  *)
(***************************************************************************)
\* The score of a split: the lower d_split_score of its two nodes.
SplitScore(s, p) ==
  IF s.splitScore[p[1]] < s.splitScore[p[2]] THEN s.splitScore[p[1]] ELSE s.splitScore[p[2]]

\* The pending splits the loop of addSplit can end on.
SplitCandidates(s, r) ==
  IF SmartSplits THEN {p \in s.splits[r] : SplitScore(s, p) > -1} ELSE s.splits[r]

\* Mutant: without minimal models any two nodes are split, disequal or not.
addSplit_ignoresDiseq(s, r) ==
  LET Send(p) == <<[s EXCEPT !.out = @ \cup {[kind |-> "split", pair |-> p]}], TRUE>>
      free == {<<x, y>> \in s.nodes[r] \X s.nodes[r] : x # y}
  IN  IF s.splitsSize[r] > 0
      THEN IF SplitCandidates(s, r) = {} THEN {<<AssertOk(s, FALSE, "addSplit_null"), FALSE>>}
           ELSE {Send(p) : p \in SplitCandidates(s, r)}
      ELSE IF ~MinimalModel /\ free # {} THEN {Send(p) : p \in free}
      ELSE {<<s, FALSE>>}

addSplit(s, r) ==
  LET Send(p) == <<[s EXCEPT !.out = @ \cup {[kind |-> "split", pair |-> p]}], TRUE>>
      free == {<<x, y>> \in s.nodes[r] \X s.nodes[r] :
                 x # y /\ ~IsDisequal(s, r, x, y, 1)}
  IN  IF s.splitsSize[r] > 0
      THEN IF SplitCandidates(s, r) = {} THEN {<<AssertOk(s, FALSE, "addSplit_null"), FALSE>>}
           ELSE {Send(p) : p \in SplitCandidates(s, r)}
      ELSE IF ~MinimalModel /\ free # {} THEN {Send(p) : p \in free}
      ELSE {<<s, FALSE>>}

\* The splitting loop of check over the regions with more nodes than the bound.
RECURSIVE SplitRegions(_, _, _)
SplitRegions(s, i, added) ==
  IF i >= s.regionsIndex THEN {<<s, added>>}
  ELSE IF s.valid[i] /\ s.repsSize[i] > s.cardinality
  THEN Bind(addSplit(s, i), LAMBDA p : SplitRegions(p[1], i + 1, added \/ p[2]))
  ELSE SplitRegions(s, i + 1, added)

\* The clique loop of check: <<s', stop>>, stop when a clique was reported.
RECURSIVE CliqueRegions(_, _, _, _)
CliqueRegions(s, e, i, level) ==
  IF i >= s.regionsIndex THEN {<<s, FALSE>>}
  ELSE IF ~s.valid[i] THEN CliqueRegions(s, e, i + 1, level)
  ELSE Bind(regionCheck(s, i, level, s.cardinality), LAMBDA p :
         IF p[2] # {} /\ MinimalModel
         THEN {<<x, TRUE>> : x \in addCliqueLemma(p[1], e, p[2])}
         ELSE CliqueRegions(p[1], e, i + 1, level))

(***************************************************************************)
(* SortModel::check: nothing to do within the bound; else report a clique, *)
(* else send splits, else (full effort) combine the first valid region    *)
(* with the next one and check again.  depth counts the re-checks; the    *)
(* code has no bound, so exceeding one region per term is recorded.       *)
(***************************************************************************)
\* Mutant: a full check that found no clique and no split gives up instead
\* of combining regions.
check_noCombine(s, e, level, depth) ==
  IF ~s.hasCard \/ s.conflict \/ s.reps <= s.cardinality THEN {s}
  ELSE Bind(CliqueRegions(s, e, 0, level), LAMBDA p :
    IF p[2] THEN {p[1]}
    ELSE IF applyTotality(p[1].cardinality)
    THEN {checkTotality(p[1], level)}
    ELSE {q[1] : q \in IF level = "full" \/ EagerSplits THEN SplitRegions(p[1], 0, FALSE)
                       ELSE {<<p[1], FALSE>>}})

RECURSIVE check(_, _, _, _)
check(s, e, level, depth) ==
  IF ~s.hasCard \/ s.conflict \/ s.reps <= s.cardinality THEN {s}
  ELSE IF depth > Cardinality(Terms) THEN {AssertOk(s, FALSE, "check_recursion")}
  ELSE Bind(CliqueRegions(s, e, 0, level), LAMBDA p :
    IF p[2] THEN {p[1]}
    ELSE IF applyTotality(p[1].cardinality)
    THEN {checkTotality(p[1], level)}
    ELSE Bind(IF level = "full" \/ EagerSplits THEN SplitRegions(p[1], 0, FALSE)
              ELSE {<<p[1], FALSE>>}, LAMBDA q :
      IF level # "full" \/ q[2] THEN {q[1]}
      ELSE LET v  == {i \in 0 .. q[1].regionsIndex - 1 : q[1].valid[i]}
               i0 == CHOOSE i \in v : \A j \in v : i <= j
               fc == forceCombineRegion(q[1], i0, FALSE)
           IN  IF v = {} THEN {q[1]}
               ELSE IF MinimalModel \/ fc[2] # -1 THEN check(fc[1], e, level, depth + 1)
               ELSE {fc[1]}))

(***************************************************************************)
(* TermDisambiguator::disambiguateTerms, for the one function g of       *)
(* AppArgs (its argument has this sort, so involvesRelevantType holds).  *)
(* The applications in the term database are those whose argument is     *)
(* registered.  The pairs g(a), g(b) (i < j) not yet in d_term_amb are    *)
(* scanned in order: equal ones (congruence: a and b merged) and ones     *)
(* whose arguments are disequal are entered as not ambiguous; the first   *)
(* ambiguous pair gets the lemma g(a) = g(b) \/ a != b, is entered, and   *)
(* ends the call.  d_term_amb is context dependent; its entries all end   *)
(* false, so it is kept as the set of pairs entered (ambChecked).         *)
(***************************************************************************)
\* TermDisambiguator::involvesRelevantType on the first application g(a):
\* its argument has an uninterpreted sort.
involvesRelevantType(apps) == apps[1] \in Terms

RECURSIVE disambiguate(_, _, _, _)
disambiguate(s, e, i, j) ==
  LET apps == SelectSeq(AppArgs, LAMBDA a : a \in e.terms) IN
  IF Len(apps) <= 1 \/ ~involvesRelevantType(apps) \/ i > Len(apps) THEN s
  ELSE IF j > Len(apps) THEN disambiguate(s, e, i + 1, i + 2)
  ELSE LET a == apps[i]
           b == apps[j]
           s1 == [s EXCEPT !.ambChecked = @ \cup {{a, b}}]
       IN  IF {a, b} \in s.ambChecked THEN disambiguate(s, e, i, j + 1)
           ELSE IF Rep(e, a) = Rep(e, b) \/ EEDisequal(e, Rep(e, a), Rep(e, b))
           THEN disambiguate(s1, e, i, j + 1)
           ELSE [s1 EXCEPT !.out = @ \cup {[kind |-> "disamb", pair |-> <<a, b>>]}]

\* StrongSolverTheoryUF::check for the one sort: nothing once d_conflict
\* holds; with ufssColoringSat a full-effort check disambiguates terms and
\* returns when the count of lemmas is >= 0, which it always is; otherwise
\* the SortModel's check runs (its conflict is the dispatcher's).
ssCheck(s, e, level) ==
  IF s.conflict THEN {s}
  ELSE IF level = "full" /\ ColoringSat THEN {disambiguate(s, e, 1, 2)}
  ELSE check(s, e, level, 0)

\* SortModel::areDisequal on two representatives.
areDisequal(s, a, b) ==
  LET ai == s.regionsMap[a]
      bi == s.regionsMap[b]
  IN  ai \in RegionIds /\ bi \in RegionIds
      /\ IsDisequal(s, ai, a, b, IF ai = bi THEN 1 ELSE 0)

(***************************************************************************)
(* StrongSolverTheoryUF::areDisequal and the DisequalityPropagator.  With *)
(* ufssDiseqPropagation, asserting P(t) with a polarity walks the class of *)
(* the opposite constant: for every P(u) there whose argument is neither  *)
(* disequal nor equal to t, t != u is asserted to the SortModel with a    *)
(* null reason.  The class is walked in the equality engine's order.      *)
(***************************************************************************)
ufssAreDisequal(s, e, a, b) ==
  /\ a # b
  /\ \/ EEDisequal(e, Rep(e, a), Rep(e, b))
     \/ areDisequal(s, Rep(e, a), Rep(e, b))

\* DisequalityPropagator::checkEquivalenceClass(t, eqc): eqc is the class
\* of the constant, "T" or "F".
checkEquivalenceClass(s, e, t, eqc) ==
  LET RECURSIVE Walk1(_, _)
      Walk1(s1, S) ==
        IF S = {} THEN {s1}
        ELSE UNION {IF ufssAreDisequal(s1, e, t, u) \/ Rep(e, t) = Rep(e, u)
                    THEN Walk1(s1, S \ {u})
                    ELSE Bind(assertDisequal(s1, e, t, u, NullReason, FALSE),
                              LAMBDA s2 : Walk1(s2, S \ {u})) : u \in S}
  IN  Walk1(s, {u \in e.terms : e.pred[u] = eqc})

\* Mutant: d_true and d_false are swapped: the class of the same constant.
assertPredicate_samePolarity(s, e, t, pol) == checkEquivalenceClass(s, e, t, pol)

\* DisequalityPropagator::assertPredicate: P(t) with polarity true is
\* checked against the class of false, and the other way round.
assertPredicate(s, e, t, pol) == checkEquivalenceClass(s, e, t, Opp(pol))

(***************************************************************************)
(* SortModel::getNextDecisionRequest: the first allocated cardinality     *)
(* literal, below the bound if one holds, that the SAT search has not     *)
(* assigned; 0 for the null node.                                          *)
(***************************************************************************)
\* Mutant: the scan stops before the last allocated literal.
getNextDecisionRequest_skipsLast(s) ==
  LET open == {i \in 1 .. s.aloc - 1 : (~s.hasCard \/ i < s.cardinality)
                                       /\ i \notin DOMAIN s.cardAsserted}
  IN  IF open = {} THEN 0 ELSE Min(open)

getNextDecisionRequest(s) ==
  LET open == {i \in 1 .. s.aloc : (~s.hasCard \/ i < s.cardinality)
                                   /\ i \notin DOMAIN s.cardAsserted}
  IN  IF open = {} THEN 0 ELSE Min(open)

(***************************************************************************)
(* SortModel::minimize without a TheoryModel (ufssTotality off): walk the *)
(* regions in index order, combining each valid one into the first valid *)
(* one and asking addSplit for a split after every combination and once  *)
(* more at the end.  <<s', result>>: FALSE when a split was sent.  With   *)
(* no valid region the code calls addSplit on d_regions[-1]: recorded in  *)
(* s.ub.                                                                   *)
(***************************************************************************)
\* Mutant: the split request after the last region is left out.
RECURSIVE minimize_noFinalSplit(_, _, _)
minimize_noFinalSplit(s, i, vri) ==
  IF i >= s.regionsIndex
  THEN IF vri = -1 THEN {<<[s EXCEPT !.ub = @ \cup {"minimize_noRegion"}], TRUE>>}
       ELSE {<<s, TRUE>>}
  ELSE IF ~s.valid[i] THEN minimize_noFinalSplit(s, i + 1, vri)
  ELSE IF vri = -1 THEN minimize_noFinalSplit(s, i + 1, i)
  ELSE Bind(addSplit(combineRegions(s, vri, i)[1], vri), LAMBDA p :
         IF p[2] THEN {<<p[1], FALSE>>} ELSE minimize_noFinalSplit(p[1], i + 1, vri))

RECURSIVE minimize(_, _, _)
minimize(s, i, vri) ==
  IF i >= s.regionsIndex
  THEN IF vri = -1 THEN {<<[s EXCEPT !.ub = @ \cup {"minimize_noRegion"}], TRUE>>}
       ELSE {<<p[1], ~p[2]>> : p \in addSplit(s, vri)}
  ELSE IF ~s.valid[i] THEN minimize(s, i + 1, vri)
  ELSE IF vri = -1 THEN minimize(s, i + 1, i)
  ELSE Bind(addSplit(combineRegions(s, vri, i)[1], vri), LAMBDA p :
         IF p[2] THEN {<<p[1], FALSE>>} ELSE minimize(p[1], i + 1, vri))

\* SortModel::getNumRegions: the number of valid regions.
getNumRegions(s) == Cardinality({i \in 0 .. s.regionsIndex - 1 : s.valid[i]})

\* SortModel::getRepresentatives: the valid nodes of the only valid region;
\* it Asserts that no valid region follows the first one.
getRepresentatives(s) ==
  LET v == {i \in 0 .. s.regionsIndex - 1 : s.valid[i]}
  IN  <<AssertOk(s, getNumRegions(s) <= 1, "getRepresentatives_oneRegion"),
        UNION {getRegionRepresentatives(s, i) : i \in v}>>

-----------------------------------------------------------------------------
(***************************************************************************)
(* The specification.  The SortModel is created and initialize()d when    *)
(* its sort is preregistered, which allocates cardinality literal 1.      *)
(* Until then the dispatcher's d_rep_model has no entry for the sort      *)
(* (registered is FALSE) and its loops over d_rep_model skip it; the     *)
(* fields below are the constructor's values, which the context-dependent *)
(* ones keep in every context opened before the registration.            *)
(***************************************************************************)
EmptyModel ==
  [valid |-> [r \in RegionIds |-> FALSE], nodes |-> [r \in RegionIds |-> {}],
   diseq |-> [r \in RegionIds |-> [n \in Terms |-> [t \in Kinds |-> {}]]],
   repsSize |-> [r \in RegionIds |-> 0], totalExt |-> [r \in RegionIds |-> 0],
   totalInt |-> [r \in RegionIds |-> 0], testClique |-> [r \in RegionIds |-> {}],
   testCliqueSize |-> [r \in RegionIds |-> 0], splits |-> [r \in RegionIds |-> {}],
   splitsSize |-> [r \in RegionIds |-> 0],
   regionsIndex |-> 0, regionsMap |-> [n \in Terms |-> NotInMap], reps |-> 0,
   conflict |-> FALSE, cardinality |-> 1, hasCard |-> FALSE, cardAsserted |-> <<>>,
   disequalities |-> <<>>, aloc |-> 0, out |-> {}, halted |-> FALSE, failed |-> {}, ub |-> {},
   ambChecked |-> {}, registered |-> FALSE, totAx |-> {}, witnesses |-> 0,
   splitScore |-> [n \in Terms |-> -1]]

\* SortModel::initialize.
initialize(s) == allocateCardinality(s)

\* StrongSolverTheoryUF::preRegisterTerm on a term of the sort: the first
\* time, the SortModel is created, initialized and put in d_rep_model.
preRegisterTerm(s) ==
  IF s.registered THEN s ELSE initialize([s EXCEPT !.registered = TRUE])

\* StrongSolverTheoryUF::getSortModel: preregisters the sort if needed.
getSortModel(s) == preRegisterTerm(s)

\* StrongSolverTheoryUF::getRepresentatives: through getSortModel.
ssGetRepresentatives(s) == getRepresentatives(getSortModel(s))

\* The StrongSolverTheoryUF constructor: d_conflict false, no SortModel.
Init ==
  /\ sm = EmptyModel
  /\ ee = [terms |-> {}, rep |-> [t \in Terms |-> t], diseqs |-> {},
          pred |-> [t \in Terms |-> "none"]]
  /\ stack = <<>>

\* Each step starts with nothing sent on the output channel.
Begin(s) == [s EXCEPT !.out = {}]
Running == ~sm.halted

\* The equality engine creates the class of a new term (eqNotifyNewClass).
NewClass(n) ==
  /\ Running /\ n \notin ee.terms
  /\ ee' = [ee EXCEPT !.terms = @ \cup {n}]
  /\ sm' = newEqClass(getSortModel(Begin(sm)), n)
  /\ UNCHANGED stack

\* The equality engine merges b's class into a's (eqNotifyPostMerge); it
\* never merges classes it knows to be disequal.
Merge(a, b) ==
  /\ Running /\ a \in EEReps(ee) /\ b \in EEReps(ee) /\ a # b
  /\ ~EEDisequal(ee, a, b) /\ ~PredClash(ee, a, b)
  /\ LET e2 == [ee EXCEPT !.rep = [t \in Terms |-> IF @[t] = b THEN a ELSE @[t]]]
     IN  /\ ee' = e2
         /\ sm' \in merge(getSortModel(Begin(sm)), e2, a, b)
  /\ UNCHANGED stack

\* A disequality literal x != y is asserted (eqNotifyDisequal).
AssertDiseq(x, y) ==
  /\ Running /\ x \in ee.terms /\ y \in ee.terms
  /\ Rep(ee, x) # Rep(ee, y)
  /\ <<x, y>> \notin ee.diseqs /\ <<y, x>> \notin ee.diseqs
  /\ LET e2 == [ee EXCEPT !.diseqs = @ \cup {<<x, y>>}]
     IN  /\ ee' = e2
         /\ sm' \in assertDisequal(getSortModel(Begin(sm)), e2, x, y, <<x, y>>,
                                   EEDisequal(ee, Rep(ee, x), Rep(ee, y)))
  /\ UNCHANGED stack

\* The SAT search asserts P(t) with a polarity (assertNode on a literal
\* that is not an equality); with ufssDiseqPropagation the dispatcher hands
\* it to DisequalityPropagator::assertPredicate.  Without the option the
\* SortModel never sees predicate literals, so they are not generated.
AssertPred(t, pol) ==
  /\ Running /\ DiseqPropagation
  /\ t \in ee.terms /\ ee.pred[t] = "none"
  /\ ~\E u \in ee.terms : Rep(ee, u) = Rep(ee, t) /\ ee.pred[u] = Opp(pol)
  /\ LET e2 == [ee EXCEPT !.pred[t] = pol]
     IN  /\ ee' = e2
         /\ sm' \in assertPredicate(Begin(sm), e2, t, pol)
  /\ UNCHANGED stack

\* TheoryUF::preRegisterTerm hands a term of the sort to the dispatcher
\* before the equality engine has a class for it.
PreRegister ==
  /\ Running /\ ~sm.registered
  /\ sm' = preRegisterTerm(Begin(sm))
  /\ UNCHANGED <<ee, stack>>

\* The SAT search assigns an allocated cardinality literal (assertNode).
AssertCard(c, val) ==
  /\ Running /\ c \in 1 .. sm.aloc /\ c \notin DOMAIN sm.cardAsserted
  /\ \/ val \/ sm.hasCard \/ sm.aloc < MaxCardinality
     \/ ~AllAssigned([sm EXCEPT !.cardAsserted = (c :> val) @@ @])
  /\ sm' \in assertCardinality(Begin(sm), ee, c, val)
  /\ UNCHANGED <<ee, stack>>

\* The theory engine calls check at an effort level.
CheckEffort(level) ==
  /\ Running
  /\ sm' \in ssCheck(Begin(sm), ee, level)
  /\ UNCHANGED <<ee, stack>>

\* A decision opens a new SAT context; backtracking pops one, restoring all
\* context-dependent state.
Push ==
  /\ Running /\ Len(stack) < MaxLevel
  /\ stack' = Append(stack, [sm |-> Begin(sm), ee |-> ee])
  /\ sm' = Begin(sm)
  /\ UNCHANGED ee

Pop ==
  /\ Running /\ stack # <<>>
  /\ LET top == stack[Len(stack)]
     IN  /\ sm' = [top.sm EXCEPT !.aloc = sm.aloc, !.failed = sm.failed, !.ub = sm.ub,
                                !.registered = sm.registered, !.totAx = sm.totAx,
                                !.witnesses = sm.witnesses]
         /\ ee' = top.ee
  /\ stack' = SubSeq(stack, 1, Len(stack) - 1)

\* The SAT search asks for a decision (getNextDecisionRequest) and decides
\* the literal returned in the phase allocateCardinality required (true),
\* in a new context.
DecisionRequest ==
  /\ Running /\ Len(stack) < MaxLevel
  /\ getNextDecisionRequest(sm) # 0
  /\ stack' = Append(stack, [sm |-> Begin(sm), ee |-> ee])
  /\ sm' \in assertCardinality(Begin(sm), ee, getNextDecisionRequest(sm), TRUE)
  /\ UNCHANGED ee

\* Last call: with no decision requested, a full-effort check that sends
\* nothing is followed by model construction, which calls minimize (the
\* dispatcher's, on its one sort) and, when it succeeds, getRepresentatives;
\* the representatives returned are recorded as a "model" output.
BuildModel ==
  /\ Running /\ sm.registered /\ getNextDecisionRequest(sm) = 0
  /\ \E s1 \in ssCheck(Begin(sm), ee, "full") :
       /\ s1.out = {} /\ ~s1.conflict
       /\ \E p \in minimize(s1, 0, -1) :
            sm' = IF p[2]
                  THEN LET g == ssGetRepresentatives(p[1])
                       IN  [g[1] EXCEPT !.out = {[kind |-> "model", reps |-> g[2]]}]
                  ELSE p[1]
  /\ UNCHANGED <<ee, stack>>

Next ==
  \/ PreRegister
  \/ \E n \in Terms : NewClass(n)
  \/ \E a, b \in Terms : Merge(a, b)
  \/ \E x, y \in Terms : AssertDiseq(x, y)
  \/ \E t \in Terms, pol \in {"T", "F"} : AssertPred(t, pol)
  \/ \E c \in 1 .. MaxCardinality, val \in BOOLEAN : AssertCard(c, val)
  \/ \E level \in Efforts : CheckEffort(level)
  \/ DecisionRequest
  \/ BuildModel
  \/ Push
  \/ Pop

Spec == Init /\ [][Next]_vars

-----------------------------------------------------------------------------
(***************************************************************************)
(* Properties.                                                             *)
(***************************************************************************)
Mapped(s) == {n \in Terms : s.regionsMap[n] \in RegionIds}

(***************************************************************************)
(* Refinement mapping onto CardinalityGraph: the view is the mapped       *)
(* representatives, the pairs SortModel::areDisequal reports, the bound   *)
(* d_cardinality once a literal is asserted, d_conflict, the cliques sent *)
(* by the step, and the same of every saved SAT context.                  *)
(***************************************************************************)
AbsEdges(s) ==
  {p \in SUBSET Mapped(s) : Cardinality(p) = 2 /\ \A a, b \in p : a # b => areDisequal(s, a, b)}
AbsBound(s) == IF s.hasCard THEN s.cardinality ELSE 0
AbsOut(s) ==
  {[kind |-> IF o.kind = "clique_conflict" THEN "conflict" ELSE "lemma",
    clique |-> o.clique, card |-> o.card] :
     o \in {o \in s.out : o.kind \in {"clique_lemma", "clique_conflict"}}}
AbsView(s) == [reps |-> Mapped(s), edges |-> AbsEdges(s), bound |-> AbsBound(s),
               conflict |-> s.conflict]

Abs == INSTANCE CardinalityGraph WITH
         MaxBound <- MaxCardinality,
         reps <- Mapped(sm), edges <- AbsEdges(sm), bound <- AbsBound(sm),
         conflict <- sm.conflict, out <- AbsOut(sm),
         saved <- [i \in DOMAIN stack |-> AbsView(stack[i].sm)]

TypeOK ==
  /\ sm.regionsIndex \in 0 .. Cardinality(Terms)
  /\ sm.regionsMap \in [Terms -> RegionIds \cup {-1, NotInMap}]
  /\ sm.valid \in [RegionIds -> BOOLEAN]
  /\ sm.nodes \in [RegionIds -> SUBSET Terms]
  /\ sm.diseq \in [RegionIds -> [Terms -> [Kinds -> SUBSET Terms]]]
  /\ sm.testClique \in [RegionIds -> SUBSET Terms]
  /\ sm.splits \in [RegionIds -> SUBSET (Terms \X Terms)]
  /\ sm.reps \in Int /\ sm.conflict \in BOOLEAN /\ sm.hasCard \in BOOLEAN
  /\ sm.cardinality \in 1 .. MaxCardinality /\ sm.aloc \in 0 .. MaxCardinality
  /\ sm.splitScore \in [Terms -> -1 .. Cardinality(Terms)]
  /\ sm.totAx \subseteq Terms \X (1 .. MaxCardinality)
  /\ sm.witnesses \in 0 .. MaxCardinality
  /\ sm.registered \in BOOLEAN /\ (sm.registered <=> sm.aloc > 0)
  /\ DOMAIN sm.cardAsserted \subseteq 1 .. sm.aloc
  /\ sm.disequalities \in Seq((Terms \X Terms) \cup {NullReason})
  /\ ee.terms \subseteq Terms /\ ee.rep \in [Terms -> Terms]
  /\ ee.diseqs \subseteq Terms \X Terms
  /\ ee.pred \in [Terms -> {"T", "F", "none"}]
  /\ Len(stack) <= MaxLevel
  /\ \A o \in sm.out :
       /\ o.kind \in {"card_split", "split", "clique_lemma", "clique_conflict", "model",
                     "disamb", "totality", "witness"}
       /\ o.kind = "card_split" => o.card \in 1 .. sm.aloc

\* No Assert of the code fails on any reachable path: the preconditions of
\* setRep, takeNode, setEqual, combineRegions, moveNode, the test-clique
\* growth of Region::check (erase past the end, null maxNode), addSplit's
\* non-null split, the explained-clique size and the recursion of check.
NoFailedAssertion == sm.failed = {}

\* The regions partition the mapped representatives: every mapped term is a
\* valid node of the region the map names and of no other, valid regions
\* are non-empty, and d_reps counts exactly the mapped terms.
RegionPartition ==
  /\ \A n \in Mapped(sm) : IsValid(sm, sm.regionsMap[n])
                           /\ n \in sm.nodes[sm.regionsMap[n]]
  /\ \A r \in RegionIds : IsValid(sm, r) =>
        /\ sm.nodes[r] # {}
        /\ \A n \in sm.nodes[r] : sm.regionsMap[n] = r
  /\ sm.reps = Cardinality(Mapped(sm))

\* The disequality lists of the valid regions form one symmetric graph:
\* an internal entry joins two valid nodes of the region and is mirrored;
\* an external one points to a node of another valid region, which holds
\* the mirror entry; a node that left a region keeps no entry there.
DiseqGraphConsistent ==
  \A r \in RegionIds : IsValid(sm, r) => \A n \in Terms :
    IF n \notin sm.nodes[r] THEN sm.diseq[r][n] = [t \in Kinds |-> {}]
    ELSE /\ sm.diseq[r][n][1] \subseteq sm.nodes[r] \ {n}
         /\ \A m \in sm.diseq[r][n][1] : n \in sm.diseq[r][m][1]
         /\ \A m \in sm.diseq[r][n][0] :
               /\ m \in Mapped(sm) /\ sm.regionsMap[m] # r
               /\ n \in sm.diseq[sm.regionsMap[m]][m][0]

\* The counters of every valid region equal what they count: d_reps_size,
\* the total internal and external disequalities, d_testCliqueSize and
\* d_splitsSize; the test clique holds only valid nodes and its splits are
\* exactly its pairs not known to be disequal, one per pair.
RegionBookkeeping ==
  \A r \in RegionIds : IsValid(sm, r) =>
    /\ sm.repsSize[r] = Cardinality(sm.nodes[r])
    /\ sm.totalInt[r] = MapThenSumSet(LAMBDA n : NumInternal(sm, r, n), sm.nodes[r])
    /\ sm.totalExt[r] = MapThenSumSet(LAMBDA n : NumExternal(sm, r, n), sm.nodes[r])
    /\ sm.testClique[r] \subseteq sm.nodes[r]
    /\ sm.testCliqueSize[r] = Cardinality(sm.testClique[r])
    /\ sm.splitsSize[r] = Cardinality(sm.splits[r])
    /\ \A p \in sm.splits[r] : <<p[2], p[1]>> \notin sm.splits[r]
    /\ {{p[1], p[2]} : p \in sm.splits[r]} =
         {{x, y} : x, y \in sm.testClique[r]} \ ({{x} : x \in Terms} \cup
           UNION {{{x, y} : y \in sm.diseq[r][x][1]} : x \in sm.testClique[r]})


\* Refinement of the equality engine: while no conflict is pending, the
\* mapped terms are exactly the equality engine's representatives, and
\* SortModel::areDisequal agrees with the equality engine on every pair of
\* them, through merges that move and redirect disequalities (setEqual,
\* takeNode, combine) and through backtracking; every recorded reason is an
\* asserted literal.
EEAgreement ==
  ~sm.conflict =>
    /\ Mapped(sm) = EEReps(ee)
    /\ \A a, b \in Mapped(sm) :
          a # b => (areDisequal(sm, a, b) <=> EEDisequal(ee, a, b))
    /\ Range(sm.disequalities) \subseteq ee.diseqs

\* Every clique lemma or conflict sent (addCliqueLemma, from checkRegion or
\* check) names cardinality+1 current representatives that are pairwise
\* known to be disequal (KnownDisequal), for a cardinality literal asserted
\* true; an explained clique names, for each pair, an asserted literal
\* (or, with the representative map, a literal between terms of the two
\* classes), and only a set of asserted literals is sent as a conflict.
CliqueOutputsJustified ==
  \A o \in sm.out : o.kind \in {"clique_lemma", "clique_conflict"} =>
    /\ Cardinality(o.clique) = o.card + 1
    /\ o.card \in DOMAIN sm.cardAsserted /\ sm.cardAsserted[o.card]
    /\ o.clique \subseteq EEReps(ee)
    /\ \A a, b \in o.clique : a # b => KnownDisequal(ee, a, b)
    /\ CliqueMode # "simple" =>
         \A a, b \in o.clique : a # b =>
           \E l \in o.lits : {Rep(ee, l[1]), Rep(ee, l[2])} = {a, b}
    /\ o.kind = "clique_conflict" => o.lits \subseteq ee.diseqs

\* Every split sent (addSplit) is between two distinct current
\* representatives that the equality engine has not merged and that are
\* not known to be disequal: no stale split survives a merge, a
\* disequality, a propagated disequality or a pop.
SplitsFresh ==
  \A o \in sm.out : o.kind = "split" =>
    /\ o.pair[1] # o.pair[2]
    /\ {o.pair[1], o.pair[2]} \subseteq EEReps(ee)
    /\ ~KnownDisequal(ee, o.pair[1], o.pair[2])

\* Smart splits (the spec's "smart-split scoring", addSplit's maxScore
\* loop): a split that addSplit takes from a region's pending splits has
\* the highest score among them, the score of a pair being the lower
\* d_split_score of its nodes, raised by setSplitScore for the children of
\* every new class.
SmartSplitsPreferScore ==
  SmartSplits =>
    \A o \in sm.out :
      o.kind = "split" /\ sm.regionsMap[o.pair[1]] \in RegionIds =>
        \A q \in sm.splits[sm.regionsMap[o.pair[1]]] :
          SplitScore(sm, q) <= SplitScore(sm, o.pair)

\* A full-effort check never returns with more representatives than the
\* cardinality bound and nothing sent: it reports a clique, proposes a
\* split, or combines regions until it can (check's recursion).  Under
\* ufssTotalityLimited it sends no split for a bound the totality axioms
\* cover, and may be silent only if every current representative already
\* has the axiom for the bound, sent by newEqClass or allocateCardinality
\* (eager) or by an earlier full check (lazy) in any context since.
FullCheckDecides ==
  (sm.hasCard /\ ~sm.conflict /\ sm.reps > sm.cardinality) =>
    \A s2 \in ssCheck(Begin(sm), ee, "full") :
      \/ s2.out # {}
      \/ applyTotality(sm.cardinality) /\ Mapped(s2) \X {sm.cardinality} \subseteq s2.totAx

\* Eager totality (ufssTotalityLimited, not lazy): every term in
\* d_regions_map has the axiom for every allocated cardinality the option
\* covers, whichever came first: newEqClass sends it for the literals
\* allocated before the term, allocateCardinality for the terms registered
\* before the literal.  The axioms are lemmas and outlive any pop; the map
\* entries do not.
TotalityAxiomsComplete ==
  ~TotalityLazy =>
    InMap(sm) \X {c \in 1 .. sm.aloc : applyTotality(c) /\ c # AbortCardinality}
      \subseteq sm.totAx

\* getTotalityLemmaTerm(c, i) reads d_totality_terms[0][i] for every i < c:
\* whenever a totality axiom for cardinality c is sent, eagerly by
\* newEqClass or allocateCardinality or lazily by a full check for the
\* bound, at least c witness terms have been pushed, though only
\* allocateCardinality pushes them and pops do not undo them.
TotalityWitnessesExist ==
  \A ax \in sm.totAx : ax[2] <= sm.witnesses

\* The bound d_cardinality is the least cardinality literal asserted true in
\* the current context (it survives no pop that undoes its literal), and
\* while none is, an unassigned literal is always allocated: the
\* non-backtracking d_aloc_cardinality never leaves the search with every
\* literal false.
CardinalityTracksLiterals ==
  LET trueLits == {c \in DOMAIN sm.cardAsserted : sm.cardAsserted[c]}
  IN  /\ sm.hasCard <=> trueLits # {}
      /\ sm.hasCard => sm.cardinality = Min(trueLits)
      /\ sm.registered /\ ~sm.hasCard /\ ~sm.halted => ~AllAssigned(sm)


\* A set of cardinality+1 representatives that the equality engine knows
\* to be pairwise disequal.
EECliques(e, k) ==
  {K \in kSubset(k, EEReps(e)) : \A a, b \in K : a # b => EEDisequal(e, a, b)}

\* Clique correctness (spec section 8, scenario A): once cardinality+1
\* representatives are pairwise disequal under a bound, a full-effort check
\* reports a clique, rather than proposing a split or nothing.
FullCheckReportsClique ==
  (sm.hasCard /\ ~sm.conflict /\ EECliques(ee, sm.cardinality + 1) # {}) =>
    \A s2 \in ssCheck(Begin(sm), ee, "full") :
      \E o \in s2.out : o.kind \in {"clique_lemma", "clique_conflict"}


\* Scenario A of the spec, as the code guarantees it: when every current
\* representative is pairwise disequal to every other and there are more
\* of them than the bound, a full-effort check reports a clique, combining
\* regions first if the representatives are spread over several.
FullCheckReportsRepClique ==
  (sm.hasCard /\ ~sm.conflict /\ Cardinality(EEReps(ee)) > sm.cardinality
     /\ EEReps(ee) \in EECliques(ee, Cardinality(EEReps(ee)))) =>
    \A s2 \in ssCheck(Begin(sm), ee, "full") :
      \E o \in s2.out : o.kind \in {"clique_lemma", "clique_conflict"}


\* The abort ceiling (spec scenario D): allocateCardinality never leaves a
\* literal for the abort cardinality allocated with the search still
\* running; reaching it stops the process (exit(0)) at exactly that count.
AbortCeiling ==
  AbortCardinality > 0 =>
    /\ ~sm.halted => sm.aloc < AbortCardinality
    /\ sm.halted => sm.aloc = AbortCardinality

\* Model construction (minimize, getRepresentatives): a model is only
\* built under an asserted bound, once the SAT search has no cardinality
\* literal left to decide, and its elements are exactly the equality
\* engine's representatives, no more of them than the bound allows.
ModelWithinBound ==
  \A o \in sm.out : o.kind = "model" =>
    /\ sm.hasCard
    /\ o.reps = EEReps(ee)
    /\ Cardinality(o.reps) <= sm.cardinality

\* The comment of SortModel::minimize: "internal minimize, ensure that
\* model forms a clique: if two equivalence classes are neither equal nor
\* disequal, add a split".  When minimize succeeds, every two elements of
\* the model are known to be disequal: by a disequality literal, or (with
\* ufssDiseqPropagation) by a predicate asserted with opposite polarities.
MinimizeFormsClique ==
  \A o \in sm.out : o.kind = "model" =>
    \A a, b \in o.reps : a # b => KnownDisequal(ee, a, b)

\* minimize never indexes d_regions outside the vector: some region is
\* valid whenever it runs.
MinimizeInBounds == "minimize_noRegion" \notin sm.ub

\* With ufssDiseqPropagation, the regions hold exactly the disequalities
\* the equality engine knows plus those the propagator derives from P(a)
\* and P(b) asserted with opposite polarities: none is derived from two
\* literals of the same polarity, none is missed when the second literal
\* comes after merges or in another context, and they move with merges.
RegionDiseqsExact ==
  ~sm.conflict =>
    /\ Mapped(sm) = EEReps(ee)
    /\ \A a, b \in Mapped(sm) : a # b =>
          (areDisequal(sm, a, b) <=> KnownDisequal(ee, a, b))

\* addCliqueLemma never dereferences a recorded reason that is the null
\* node (the disequality propagator's): with explained cliques or the
\* representative map, every reason walked is a disequality literal.
ReasonsDereferenceable == "addCliqueLemma_nullReason" \notin sm.ub


\* SortModel implements CardinalityGraph: every call of the theory (a new
\* class, a merge through moveNode/takeNode/setEqual, a disequality or a
\* propagated one, a cardinality literal, a check, model building) changes
\* the representatives and the region graph by exactly one graph operation,
\* reports only cliques of the graph it leaves, changes nothing once in
\* conflict, and push and pop save and restore the whole view.
RefinesCardinalityGraph == Abs!Spec

=============================================================================
