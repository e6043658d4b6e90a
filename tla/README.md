# TLA+ model of the UF cardinality (strong) solver, the quantifiers term registry and the LFSC theory-proof printer

This directory models the finite-model-finding solver for uninterpreted sorts:
`src/src/theory/uf/theory_uf_strong_solver.cpp`. It is the CVC4-era
`StrongSolverTheoryUF` with its `SortModel` and `SortModel::Region` classes.
It is checked with TLC. Two smaller components are modelled beside it: the
quantifiers `TermRegistry` (`src/src/theory/quantifiers/term_registry.cpp`)
and the LFSC theory-proof printer (`src/src/proof/theory_proof.cpp`).

## The system

For each uninterpreted sort, a `SortModel` keeps a partition of the current
equivalence-class representatives into **regions**.

- Each representative has a `RegionNodeInfo`. It holds two disequality lists:
  - internal: disequalities to representatives in the same region;
  - external: disequalities to representatives in other regions.
- Each region keeps these counters:
  - the number of representatives;
  - the totals of internal and external disequalities;
  - a **test clique**, a set of candidate members of a clique of size
    cardinality+1, and its size;
  - the **splits**, the pairs of test-clique members not yet known disequal,
    and their count.

The theory of equality drives the model through five calls:

- `newEqClass` adds a representative to a region.
- `merge(a,b)` makes `a` absorb `b`. If `b` lives in another region, it is
  first moved there (`moveNode` and `takeNode`). Then `setEqual` re-homes
  `b`'s disequalities onto `a`.
- `assertDisequal` records an edge.
- `assertCardinality` asserts or denies the literal "sort has at most k
  elements", which changes the bound.
- `check(level)` runs the checks:
  - each region checks for a clique (`Region::check`);
  - a clique larger than the bound becomes a conflict or lemma
    (`addCliqueLemma`);
  - otherwise, a region with pending splits proposes an equality split
    (`addSplit`);
  - at full effort, regions are combined (`getMustCombine`,
    `forceCombineRegion`, `combineRegions`) and the check recurses.
- `allocateCardinality` creates the next cardinality literal, or stops the
  process at `ufssAbortCardinality`.
- Under `ufssTotalityLimited` k, **totality axioms** "card<=c implies n equals
  one of c witness terms" (for c <= k) replace splitting. They are sent
  eagerly by `newEqClass` and `allocateCardinality`. With `ufssTotalityLazy`
  they are sent instead by a full check, for the current bound.

The dispatcher `StrongSolverTheoryUF` creates the `SortModel` of a sort when a
term of it is first preregistered (`preRegisterTerm`, or lazily through
`getSortModel`), and calls `initialize`, which allocates literal 1. Its loops
over `d_rep_model` (check, decision requests, minimize) skip a sort that is
not yet registered. With `ufssColoringSat`, its full-effort check first asks
the `TermDisambiguator` for a lemma `g(a) = g(b) or a != b` on an ambiguous
pair of applications.

Most state is context dependent (CDO/CDHashMap). When the SAT solver
backtracks, it reverts to the value it had when the context was pushed. One
piece of state is not context dependent: `d_aloc_cardinality`, with the
literals it has allocated. The `d_conflict` flag is a context-dependent bool
(line 399), so a pop clears it.

## Modules

| Module | Models | Code |
|---|---|---|
| `UFRegion` | One region as an operator library on the region state inside a record `s`: `addRep`, `setRep`, `setDisequal`, `takeNode` (`TakeExternal`/`TakeInternal`), `combine` (`CombineEdge`), `setEqual` (`MoveEdge`), `getMustCombine`, test-clique growth (`SortOrders`, `NewCliqueChoices`, `AddToTestClique`, `GrowTestClique`) and `regionCheck` (`Region::check`). | lines 35-332 |
| `SortModel` | `SortModel` and the dispatcher for one sort, together with its environment: an abstract equality engine `ee` (terms, representatives, asserted disequalities, the predicate P) and the SAT context `stack`, and the disequality propagator. | lines 396-1263, 1325-1372, 1385-1619, 1676-1744, 1752-1804 |
| `CardinalityGraph` | The abstract specification of what a `SortModel` promises: a graph of representatives and disequalities changed by one graph operation per call, cliques of bound+1 reported from it, frozen in conflict, saved and restored by contexts. `SortModel` instantiates it with a refinement mapping (`Abs`). | |
| `TermRegistry` | `quantifiers::TermRegistry`: `addTerm` and `presolve` with the user-context `d_presolve` and `d_presolveCache`, under a host that registers terms, runs check-sats and pushes and pops user contexts. | `term_registry.cpp` lines 33-101 |
| `TheoryProof` | `TheoryProof`/`LFSCTheoryProof`: `addAtom` and `assertFormula` as actions over `d_atomSet`, `d_inputFormulas`, `d_termDeclarations`, `d_sortDeclarations` and `d_declarationCache`, with the recursive cached `addDeclaration`; `printTerm`, `printFormula`, `toLFSCKind`, `printAssertions` and `printDeclarations` as recursive operators producing the LFSC token sequence; a reference LFSC printer (`RefText`) to check them against. | `theory_proof.cpp` lines 22-189 |
| `MC_TheoryProof` | Sorts `S`, `U`, constants `x`, `y : S`, `z : U`, a unary `f : S -> U` and a binary `g : S S -> S`, a few equalities and formulas (negation, binary `or`, ternary `and`, `=>` over `g`), and the id orders of the `std::set`s. | |
| `MC_SortModel`, `MC_SortModel4`, `MC_TermRegistry` | Three and four terms (two for the registry) as model values, the symmetry set, and the abort constant. `MC_SortModel4` also bounds the number of disequalities; `MC_TermRegistry` bounds the number of check-sats. | |

### How a handler is modelled

Every C++ method is a pure operator from a model record `s` to a new record.
The record holds the regions, `d_regions_map`, `d_reps`, `d_cardinality`,
`d_aloc_cardinality`, the cardinality literals and assertions, the disequality
reasons, `d_conflict`, `failed` (a failed `Assert`) and `out` (what the step
sent to the output channel).

- A method that can go several ways returns a set of records. The union is
  taken with `Bind`.
- `std::sort` is not stable and ranks by internal degree. Where degrees tie,
  any order may occur (`SortOrders`).
- Which members of a clique are popped (line 1097) is also a nondeterministic
  choice.
- Every `Assert` of the code becomes `AssertOk`. It records the failure
  instead of aborting, and `NoFailedAssertion` checks that none fails.

The actions of `Spec` are the calls the theory makes, each taken as a whole:

- `NewClass`, `Merge`, `AssertDiseq`, `AssertCard` and `CheckEffort` each
  perform the handler and everything it calls (checks, allocation, splits,
  lemmas) in one step.
- `AssertPred(t, pol)` asserts `P(t)` with a polarity. With
  `ufssDiseqPropagation`, `DisequalityPropagator::checkEquivalenceClass`
  asserts `t != u` for every `u` with `P(u)` of the opposite polarity that is
  not already known equal or disequal, with the null node as reason.
- `DecisionRequest` is the SAT solver deciding the literal
  `getNextDecisionRequest` returns, true, in a new context.
- `BuildModel` is last call: with no decision requested, a full check that
  sends nothing is followed by `minimize` and `getRepresentatives`, and the
  model's elements are sent as a `"model"` output.
- `PreRegister` is `TheoryUF::preRegisterTerm` reaching the dispatcher;
  `NewClass` preregisters the sort itself through `getSortModel` when needed.
- `Push` and `Pop` are the SAT context. `Pop` restores the saved `[sm, ee]`
  except for the parts that are not context dependent: `d_aloc_cardinality`
  and the literals allocated, the registration in `d_rep_model`, and the
  totality axioms sent (`totAx`, lemmas are permanent).
- A handler does not run while `d_conflict` holds (lines 411, 456, 514, 578 and 802).

### Abstractions

- Terms are model values. An equality-engine explanation is abstracted to the
  literal that was asserted.
- A lemma, a conflict or a split is a record with a kind and the terms it
  names. Node construction, rewriting and printing are left out.
- Options are constants:
  - `UseRegions` (ufssRegions);
  - `EagerSplits`;
  - `MinimalModel` (ufssMinimalModel);
  - `CliqueMode`: `"simple"`, `"explained"` (ufssExplainedCliques) or
    `"repmap"`;
  - `AbortCardinality`.

  - `DiseqPropagation` (ufssDiseqPropagation), with one unary predicate
    `P` whose values are kept by the abstract equality engine (`ee.pred`).

  - `TotalityLimited` (ufssTotalityLimited, -1 for none) and `TotalityLazy`
    (ufssTotalityLazy). A witness term is not named: an axiom is recorded as
    the pair of term and cardinality.
  - `ColoringSat` (ufssColoringSat) and `AppArgs`: the arguments of the
    applications `g(a)` of one function `g` over the sort, in the order of
    the term database.

  - `SmartSplits` (ufssSmartSplits) and `Children`: `newEqClass` scores
    the new term with `setSplitScore`, which recurses into the term's
    children with score+1. `Children[n]` is the set of children of `n` of
    this sort (empty in every run but `smart_splits`, where `t3 = g(t1)`
    and `t4 = g(t2)`). The equality engine has no congruence, so the
    children only feed the scores. `addSplit`'s smart branch
    (`SplitCandidates`) can end on any pending split whose score exceeds -1,
    because `maxScore` is reset to -1 (line 1043) rather than to the score.

  The options ufssTotality (which drops regions) and sortInference are off
  in every run. Those paths are not modelled.

### The proof printer

`TheoryProof` is sequential and has no context: its state is five sets, and
its actions are the two calls that change them, `AddAtom(a)` and
`AssertFormula(f)`, each with the whole recursive `addDeclaration` it makes.
Printing changes no state, so `printDeclarations` and `printAssertions` are
operators evaluated in every state (`LFSCText`) and compared with the
reference printer (`RefText`).

- Terms and formulas are records; symbols and sorts are model values.
- The output is a sequence of tokens. Whitespace and line breaks are left
  out; parentheses, keywords, names and the labels `A0`, `A1`, ... are kept.
- A `std::set` is iterated in id order. The model takes the ids as constant
  sequences (`SortIds`, `DeclIds`, `FormulaIds`), so the printed order is a
  fixed order, as in the code.
- The code's unsigned tests on 0-based indices (`i < n-1`, `i < n-2`) are
  kept as `i - 1 < n - 1` and `i - 1 < n - 2` over 1-based indices.

## Properties

- **`TypeOK`** is the type invariant of the record, including the shape of
  every output.
- **`NoFailedAssertion`**: no `Assert` of the code fails in any reachable
  state. These include the asserts of `takeNode`, `setEqual`,
  `forceCombineRegion`, `moveNode`, the clique size in `addCliqueLemma`
  (line 1185) and the region checks.
- **`RegionPartition`**: every mapped term is a valid node of the region the
  map names and of no other. Valid regions are non-empty, and `d_reps`
  counts exactly the mapped terms.
- **`DiseqGraphConsistent`**: the disequality lists form a symmetric graph.
  - An edge is internal exactly when both ends share a region.
  - The totals equal the edge counts.
- **`RegionBookkeeping`**: the split set of a region is exactly the set of
  non-disequal pairs of its test clique, and the counters agree.
- **`EEAgreement`**: unless in conflict, the region graph is the
  equality-engine disequality relation on current representatives. Every
  recorded reason is an asserted disequality.
- **`CliqueOutputsJustified`**: every clique conflict or lemma sent names
  cardinality+1 current representatives that are pairwise disequal in the
  equality engine, for a literal asserted true.
  - An explained clique names an asserted literal for each pair.
  - Only asserted literals are sent as a conflict.
- **`SplitsFresh`**: every split sent is between two distinct current
  representatives that the equality engine neither merged nor knows to be
  disequal.
- **`FullCheckDecides`**: when the bound is exceeded, a full-effort check
  always outputs something: a clique, a split or a combination. Under
  totality for the bound it may send nothing, but only if every current
  representative already has the totality axiom for the bound: eager axioms
  must have been sent for every term and literal whatever order they came
  in, across pushes and pops.
- **`TotalityAxiomsComplete`**: with eager totality, every term in
  `d_regions_map` has the axiom for every allocated cardinality the option
  covers, whether the term (`newEqClass`) or the literal
  (`allocateCardinality`) came first. The lemmas outlive pops; the run that checks it (no_regions) has no push.
- **`TotalityWitnessesExist`**: every totality axiom sent for cardinality
  `c` finds `c` witness terms in `d_totality_terms[0]`, which
  `getTotalityLemmaTerm` indexes without a check. Only `allocateCardinality`
  pushes witnesses, one per literal the option covers, and pops do not undo
  them (`witnesses` in the model). The two runs that check it have no push; no_regions limits totality to 2, so the witness count grows from 1 to 2 while axioms are being sent.
- **`SmartSplitsPreferScore`**: with smart splits, a split `addSplit` takes
  has the highest score among its region's pending splits. Violated (see
  the findings).
- **`CardinalityTracksLiterals`**: `d_cardinality` is the least cardinality
  literal asserted true in the current context. While none is, an unassigned
  literal is always allocated, even after backtracking over the
  non-backtracking `d_aloc_cardinality`.
- **`FullCheckReportsRepClique`**: when every representative is pairwise
  disequal and there are more of them than the bound, a full check reports a
  clique.
- **`FullCheckReportsClique`**: a full check reports a clique whenever the
  equality engine holds one of cardinality+1 classes. This is the stronger
  statement of the spec, and it is violated (see the finding).
- **`AbortCeiling`**: a literal for the abort cardinality is never left
  allocated while the search is still running. The process stops at exactly
  that count.

- **`ModelWithinBound`**: a model is only built under an asserted bound,
  its elements are exactly the equality engine's representatives, and there
  are no more of them than the bound.
- **`MinimizeFormsClique`**: the elements of a built model are pairwise
  known disequal, as the comment of `minimize` says. Checked without
  minimal models, where `addSplit` scans the whole region. Under the default
  option `addSplit` only proposes the test clique's pending splits, so a model
  may contain two classes that are neither equal nor disequal; it is still
  within the bound, and that is what `ModelWithinBound` checks.
- **`MinimizeInBounds`**: `minimize` never indexes `d_regions[-1]`.
  Violated (see the findings).
- **`RegionDiseqsExact`**: with the disequality propagator, the region
  graph is exactly the equality engine's disequalities plus those implied by
  `P(a)`, `not P(b)`.
- **`ReasonsDereferenceable`**: `addCliqueLemma` never reads the children
  of a null reason. Violated (see the findings).
- **`RefinesCardinalityGraph`** (`Abs!Spec`): `SortModel` implements
  `CardinalityGraph` under the mapping
  - `reps` is the mapped terms, `edges` the pairs `areDisequal` reports;
  - `bound` is `d_cardinality` once a literal is asserted, 0 before;
  - `conflict` is `d_conflict`, `out` the cliques the step sent;
  - `saved` is the same view of every saved SAT context.

  A merge must move `b`'s edges onto `a` (through `moveNode`, `takeNode`,
  `combine` and `setEqual`), no other call may change the graph except by
  adding edges, a reported clique must be one of the graph left by the step,
  and nothing changes once a conflict is sent until a pop.
- **`DeclarationsComplete`** (`TheoryProof`): the term declarations are
  exactly the variables and function symbols of the atoms and input formulas,
  and the sort declarations exactly their sorts, whatever the order of the
  `addAtom` and `assertFormula` calls: the shared `d_declarationCache` never
  makes a later call skip a symbol nested in a term seen before.
- **`PrintedProofIsLFSC`** (`TheoryProof`): the text `printDeclarations` and
  `printAssertions` print, with the parentheses owed to their paren streams,
  is the reference LFSC: curried `(apply _ _ (apply _ _ g a) b)` applications,
  curried `(arrow S (arrow S S))` function types and right-nested n-ary
  connectives. Holds with unary functions; violated with a binary one (see
  the findings).
- **`TermsInDatabase`** (`TermRegistry`): during every check-sat, every term
  registered in the current user context (outside quantifier bodies) is in
  the term database, including terms registered after a pop restored
  `d_presolve` to true.

## Runs

| Run | cfg | Bounds | Shows |
|---|---|---|---|
| core | `MC_SortModel.cfg` | 3 terms, literals up to 2, one push | All structural and output properties under defaults. About 340k states. |
| cross_region_merge | `MC_SortModel4.cfg` | 4 terms, at most 2 disequalities, no push, smart splits, lazy totality limited to 1 | Merges across two regions (`moveNode`, `takeNode`, `combine`). These need two regions of two representatives each, which three terms cannot produce. With the lazy totality axioms, a full check at bound 1 still decides, and every axiom finds its witness terms. |
| explained_cliques | `MC_Explained.cfg` | as core | Conflicts built from reasons are complete (line 1185) and valid, and `SortModel` refines `CardinalityGraph`. Explained cliques send conflicts that set `d_conflict`, so the frozen state and its pop are reached. About 630k states. |
| no_regions | `MC_NoRegions.cfg` | 3 terms, no push, no regions, no minimal models, totality limited to 2 (eager), propagation on, literals up to 3, abort at 3 | Eager totality axioms cover every mapped term for every covered literal, each with its witness terms allocated: the second witness arrives only with literal 2, after the terms it must cover. Propagated disequalities enter the one region exactly. `addSplit`'s own scan for a split is sound, and `minimize` then builds only models whose elements are pairwise known disequal. `exit(0)` happens exactly at the abort literal; deadlock checking is off because the process stops there. Without saved contexts, because one push multiplies the predicate states past five minutes. About 49k states. |
| term_registry | `MC_TermRegistry.cfg` | 2 terms, 2 user levels, 3 check-sats | Presolve caching across user push/pop. |
| theory_proof | `MC_TheoryProof.cfg` | 3 constants, unary `f`, 3 atoms, 4 formulas | Declarations are complete and the printed text is the reference LFSC, over every subset of atoms and formulas reached in any order (128 states). |
| null_reason | `MC_NullReason.cfg` | as core without push, propagation and explained cliques | **Violation** of `ReasonsDereferenceable`. |
| coloring_sat | `MC_ColoringSat.cfg` | as core, coloring SAT, explained cliques, no symmetry | **Violation** of `ModelWithinBound`. |
| minimize_in_bounds | `MC_MinimizeInBounds.cfg` | as core | **Violation** of `MinimizeInBounds`. |
| stale_test_clique | `MC_StaleTestClique.cfg` | as core | **Violation** of `FullCheckReportsClique`. |
| smart_splits | `MC_SmartSplits.cfg` | as cross_region_merge, smart splits, `t3 = g(t1)`, `t4 = g(t2)`, no totality, no symmetry | **Violation** of `SmartSplitsPreferScore`. |
| curried_apply | `MC_CurriedApply.cfg` | as theory_proof, with binary `g` and `(g(x,y) = x) => (x = y)` | **Violation** of `PrintedProofIsLFSC`. |

`FullCheckDecides` is not checked in `no_regions`: with
`ufssMinimalModel` off, `check` neither sends a clique it finds (line 598)
nor rechecks after a `forceCombineRegion` that found no partner (line 666),
so a full check with one region of three pairwise disequal representatives
and bound 2 returns without output. That is what the option asks for (the
bound is no longer enforced), not a defect.

**Why the bounds are enough.** Three terms with literals 1 and 2 reach these
cases:

- a region whose clique exceeds cardinality 1;
- splits created and then invalidated by merges;
- combination of two regions at full effort;
- a disequality asserted after a test clique was built;
- backtracking over each of these.

Four terms are needed only for merges between two non-singleton regions, so
that run bounds the disequalities to keep under five minutes.

Every property has a mutant: a plausible bug in the mapped operator that the
run detects (see `PROJECT.json`).

**Symmetry.** The terms are interchangeable:

- Test-clique ties are resolved nondeterministically, not by term identity.
- `CHOOSE` is only used to pick region indices and members of sets that are
  then sorted as multisets.

So `Permutations(MCTerms)` is sound.

**Fairness.** None is assumed, and no liveness property is checked. The
solver acts only when the SAT solver calls it. Termination of the whole
search rests on the SAT solver's, which is not code of this repository:
the environment here may push and pop forever, and no weak fairness of the
solver's own steps rules that out. The same holds for the term registry,
whose host decides when to run a check-sat. What must happen within one
call is checked as safety instead: `FullCheckDecides` and
`FullCheckReportsRepClique` say that a full check never returns without
acting on an exceeded bound.

## Findings

In **`stale_test_clique`**, the code keeps `d_testClique` and `d_splits`
across checks (line 253). They are context dependent, not rebuilt. Once the
test clique has cardinality+1 members with a pending split, it is not regrown.

The failing sequence, with cardinality 1:

1. A check builds the test clique `{t1,t2}` with the split `t1=t2`.
2. `t1 != t3` is asserted.
3. The next full check proposes the split `t1=t2` and reports nothing, though
   `{t1,t3}` is a clique.

The spec says the test clique and splits are cleared and rebuilt at each
check, and that such a check emits a clique lemma. The code delays the lemma
until the SAT solver decides the split. Completeness is preserved, because
`FullCheckReportsRepClique` holds.

In **`coloring_sat`**, the dispatcher's check (line 1484) returns after
`disambiguateTerms` whenever `lemmas>=0`, which always holds, so with
`ufssColoringSat` no `SortModel` is ever checked. With `t1`, `t2`, card<=1
true, a full check sends the disambiguation lemma once; the next one sends
nothing, and the model `{t1,t2}` is built under the bound 1.

In **`minimize_in_bounds`**, `minimize` calls
`addSplit(d_regions[validRegionIndex])` after its loop (line 750) with
`validRegionIndex` still -1 when no region is valid. That happens when the
sort has no class in the current context and a bound is asserted: the model
is built and `d_regions[-1]` is read.

In **`null_reason`**, the disequality propagator asserts its disequalities
with `Node::null()` as the reason (line 1778). `assertDisequal` appends it to
`d_disequalities`, and with explained cliques `addCliqueLemma` reads
`d_disequalities[i][0][0]` (line 1141) of the null node. `P(t1)`, `not P(t2)`
and card<=1 reach it.

In **`curried_apply`**, `printTerm` (lines 74-78) prints `g(x, y)` as
`(apply _ _ g x(apply _ _ g )y))`: after each argument but the last it opens a
new `(apply _ _ g ` and still closes a parenthesis after every argument. The
text has one more `)` than `(` and is not the curried
`(apply _ _ (apply _ _ g x) y)` LFSC expects, while `printDeclarations`
declares `g` with the correct curried arrow. Unary applications print
correctly, which is why only the binary case fails.

In **`smart_splits`**, `addSplit`'s smart branch sets `maxScore = -1`
(line 1043) where the loop needs `maxScore = score`, so every pending split
beats the running maximum and the last one in hash order is taken. With
`t3 = g(t1)` and `t4 = g(t2)`, `setSplitScore` gives `t1` and `t2` score 1
and `t3`, `t4` score 0. Under bound 2, a full check combines the regions of
`t1`, `t2`, `t3` and proposes the split `t1 = t3` (score 0) while `t1 = t2`
(score 1) is pending. The spec lists smart-split scoring as an option; with
it on, the computed scores never decide. Any pending split is still a sound
choice, so only the heuristic is lost.

## Not modelled

- **Full totality mode** (`ufssTotality`, which replaces regions by a map to
  0/-1) and **sort inference** in `check` and `addSplit`. These are options
  off by default; sort inference needs the key order of a region's
  `d_nodes`, merged-away nodes included, which the model does not keep. The witness
  terms of `getTotalityLemmaTerm` are not named.
- **Several sorts and the combined-cardinality literal.**
- **`TermRegistry`'s term database internals**, the sygus evaluation
  unfolding and its read-only queries. `TermDb::addTerm` is abstracted to the
  set of terms it has been given. With `termDbCd`, the database's own
  context handling is not modelled; the run keeps it off.
- **Proof-printer inputs the printer rejects.** A Boolean variable, a
  predicate application or an `ITE` in an input formula fails an `Assert` of
  `addDeclaration`, `printFormula` or `printDeclarations`. The proof manager
  that calls `TheoryProof` is not in this repository, so the model keeps to
  equalities of uninterpreted terms under the connectives `toLFSCKind` names.
- **Other files of `src/`**: headers, containers and a unit test. These are listed in `PROJECT.json` with the reason for each.

## Plan

1. Dispatcher with two sorts and the combined cardinality.
2. `getMustCombine` as a pure algorithm, checked against a reference density
   definition.
3. A 4-term run in repmap mode, which needs three disequalities at
   cardinality 2.
4. Full totality mode.
5. A host SAT search that decides the splits the solver sends, for a
   liveness property: with finitely many environment steps, every exceeded
   bound is eventually refuted or a model is built.
