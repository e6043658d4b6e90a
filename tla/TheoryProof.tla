---------------------------- MODULE TheoryProof ----------------------------
(***************************************************************************)
(* TheoryProof and LFSCTheoryProof (src/src/proof/theory_proof.cpp): the  *)
(* theory part of an LFSC proof.  The proof manager hands it the atoms    *)
(* (addAtom) and the input formulas (assertFormula); both declare, once  *)
(* per term thanks to d_declarationCache, the sorts, uninterpreted        *)
(* functions and variables they contain.  printDeclarations and          *)
(* printAssertions then print the LFSC text.                              *)
(*                                                                         *)
(* Terms and formulas are records: a variable [op |-> "VAR", name |-> v], *)
(* an application [op |-> "APPLY_UF", fn |-> f, args |-> <<...>>] and a   *)
(* formula [op |-> kind, args |-> <<...>>].  The printed text is a        *)
(* sequence of LFSC tokens: whitespace is left out, every parenthesis and  *)
(* every symbol is kept.                                                   *)
(***************************************************************************)
EXTENDS Integers, Sequences, SequencesExt

CONSTANTS
  Sorts,      \* uninterpreted sorts
  Vars,       \* free constants of those sorts
  VarSort,    \* VarSort[v]: the sort of v
  Funs,       \* uninterpreted function symbols
  Sig,        \* Sig[f]: argument sorts followed by the range sort
  Atoms,      \* equalities the proof manager may register with addAtom
  Formulas,   \* input formulas it may pass to assertFormula
  SortIds,    \* Sorts in the order of their type ids (std::set<Type>)
  DeclIds,    \* Vars \cup Funs in the order of their expression ids
  FormulaIds  \* Formulas in the order of their expression ids

VARIABLES atomSet, inputFormulas, termDecls, sortDecls, declCache

vars == <<atomSet, inputFormulas, termDecls, sortDecls, declCache>>

\* The std::set iteration order: the elements of S in id order.
InIdOrder(S, ids) == SelectSeq(ids, LAMBDA e : e \in S)

\* Expr::getType for terms (a formula has the Boolean type, not a sort).
TypeOf(t) == IF t.op = "VAR" THEN VarSort[t.name] ELSE Last(Sig[t.fn])

IsSortType(t) == t.op \in {"VAR", "APPLY_UF"}

(***************************************************************************)
(* Declarations                                                            *)
(***************************************************************************)
\* TheoryProof::TheoryProof: every set empty.
Init ==
  /\ atomSet = {}
  /\ inputFormulas = {}
  /\ termDecls = {}
  /\ sortDecls = {}
  /\ declCache = {}

\* Mutants of addDeclaration: declaring the application term instead of
\* its operator, and not descending into the arguments of an application.
RECURSIVE addDeclaration_declaresTerm(_, _)
addDeclaration_declaresTerm(st, t) ==
  IF t \in st.declCache THEN st
  ELSE LET s1 == [st EXCEPT
                    !.sortDecls = IF IsSortType(t) THEN @ \cup {TypeOf(t)} ELSE @,
                    !.termDecls = CASE t.op = "APPLY_UF" -> @ \cup {t}
                                    [] t.op = "VAR"      -> @ \cup {t.name}
                                    [] OTHER             -> @]
           s2 == IF t.op = "VAR" THEN s1 ELSE FoldLeft(addDeclaration_declaresTerm, s1, t.args)
       IN  [s2 EXCEPT !.declCache = @ \cup {t}]

RECURSIVE addDeclaration_leafApply(_, _)
addDeclaration_leafApply(st, t) ==
  IF t \in st.declCache THEN st
  ELSE LET s1 == [st EXCEPT
                    !.sortDecls = IF IsSortType(t) THEN @ \cup {TypeOf(t)} ELSE @,
                    !.termDecls = CASE t.op = "APPLY_UF" -> @ \cup {t.fn}
                                    [] t.op = "VAR"      -> @ \cup {t.name}
                                    [] OTHER             -> @]
           s2 == IF IsSortType(t) THEN s1 ELSE FoldLeft(addDeclaration_leafApply, s1, t.args)
       IN  [s2 EXCEPT !.declCache = @ \cup {t}]

\* TheoryProof::addDeclaration on st = [termDecls, sortDecls, declCache]:
\* a term already in the cache is skipped; otherwise its sort, its
\* function symbol or the variable itself are declared, the children
\* declared in turn, and the term cached.
RECURSIVE addDeclaration(_, _)
addDeclaration(st, t) ==
  IF t \in st.declCache THEN st
  ELSE LET s1 == [st EXCEPT
                    !.sortDecls = IF IsSortType(t) THEN @ \cup {TypeOf(t)} ELSE @,
                    !.termDecls = CASE t.op = "APPLY_UF" -> @ \cup {t.fn}
                                    [] t.op = "VAR"      -> @ \cup {t.name}
                                    [] OTHER             -> @]
           s2 == IF t.op = "VAR" THEN s1 ELSE FoldLeft(addDeclaration, s1, t.args)
       IN  [s2 EXCEPT !.declCache = @ \cup {t}]

DeclState == [termDecls |-> termDecls, sortDecls |-> sortDecls, declCache |-> declCache]

\* Stores the result of addDeclaration calls into the variables.
Declare(st) ==
  /\ termDecls' = st.termDecls
  /\ sortDecls' = st.sortDecls
  /\ declCache' = st.declCache

\* TheoryProof::addAtom: record the equality, declare both sides.
AddAtom(a) ==
  /\ atomSet' = atomSet \cup {a}
  /\ Declare(addDeclaration(addDeclaration(DeclState, a.args[1]), a.args[2]))
  /\ UNCHANGED inputFormulas

\* TheoryProof::assertFormula: record the formula, declare it.
AssertFormula(f) ==
  /\ inputFormulas' = inputFormulas \cup {f}
  /\ Declare(addDeclaration(DeclState, f))
  /\ UNCHANGED atomSet

(***************************************************************************)
(* Printing (LFSCTheoryProof)                                              *)
(***************************************************************************)
\* n copies of ")", the content of a paren stream.
Closing(n) == [i \in 1 .. n |-> ")"]

\* The "(apply _ _ f " prefix printed before an application.
ApplyHead(f) == <<"(", "apply", "_", "_", f>>

\* LFSCTheoryProof::printTerm.  After every argument but the last it
\* opens a further "(apply _ _ f " and owes a parenthesis, and after
\* every argument it closes one.
RECURSIVE printTerm(_)
printTerm(t) ==
  IF t.op = "VAR" THEN <<t.name>>
  ELSE LET n == Len(t.args)
           arg(i) == printTerm(t.args[i])
                     \o (IF i - 1 < n - 1 THEN ApplyHead(t.fn) ELSE << >>)
                     \o <<")">>
       IN  ApplyHead(t.fn) \o FlattenSeq([i \in 1 .. n |-> arg(i)]) \o Closing(n - 1)

\* toLFSCKind.
toLFSCKind(k) ==
  CASE k = "OR" -> "or" [] k = "AND" -> "and" [] k = "XOR" -> "xor"
    [] k = "EQUAL" -> "=" [] k = "IMPLIES" -> "impl" [] k = "NOT" -> "not"

\* LFSCTheoryProof::printFormula: an equality with the sort of its sides;
\* a connective of more than two children right-nested, opening a new
\* "(kind " after each child but the last two; otherwise flat.
RECURSIVE printFormula(_)
printFormula(a) ==
  IF a.op = "EQUAL"
  THEN <<"(", "=", TypeOf(a.args[1])>> \o printTerm(a.args[1])
       \o printTerm(a.args[2]) \o <<")">>
  ELSE LET n == Len(a.args)
           k == toLFSCKind(a.op)
           child(i) == printFormula(a.args[i])
                       \o (IF n > 2 /\ i - 1 < n - 2 THEN <<"(", k>> ELSE << >>)
       IN  <<"(", k>> \o FlattenSeq([i \in 1 .. n |-> child(i)])
           \o Closing(IF n > 2 THEN n - 2 ELSE 0) \o <<")">>

\* LFSCTheoryProof::printAssertions: "(% A<i> (th_holds F)" for every input
\* formula, one owed parenthesis each.
printAssertions ==
  LET fs == InIdOrder(inputFormulas, FormulaIds)
      one(i) == <<"(", "%", <<"A", i - 1>>, "(", "th_holds">> \o printFormula(fs[i]) \o <<")">>
  IN  [os |-> FlattenSeq([i \in 1 .. Len(fs) |-> one(i)]), paren |-> Len(fs)]

\* Mutant of printArrow: one "(arrow " too many (i < size - 1).
printArrow_offByOne(args) ==
  LET n == Len(args)
      one(i) == <<args[i]>> \o (IF i - 1 < n - 1 THEN <<"(", "arrow">> ELSE << >>)
  IN  <<"(", "arrow">> \o FlattenSeq([i \in 1 .. n |-> one(i)]) \o Closing(n - 1) \o <<")", ")">>

\* The curried LFSC arrow of a function type printed by printDeclarations:
\* after each type but the last two a further "(arrow ".
printArrow(args) ==
  LET n == Len(args)
      one(i) == <<args[i]>> \o (IF i - 1 < n - 2 THEN <<"(", "arrow">> ELSE << >>)
  IN  <<"(", "arrow">> \o FlattenSeq([i \in 1 .. n |-> one(i)]) \o Closing(n - 2) \o <<")", ")">>

\* LFSCTheoryProof::printDeclarations: "(% S sort" for every sort, then
\* "(% x (term T)" for every declared term, one owed parenthesis each.
printDeclarations ==
  LET ss == InIdOrder(sortDecls, SortIds)
      ts == InIdOrder(termDecls, DeclIds)
      term(d) == <<"(", "%", d, "(", "term">>
                 \o (IF d \in Funs THEN printArrow(Sig[d]) ELSE <<VarSort[d], ")">>)
  IN  [os |-> FlattenSeq([i \in 1 .. Len(ss) |-> <<"(", "%", ss[i], "sort">>])
              \o FlattenSeq([i \in 1 .. Len(ts) |-> term(ts[i])]),
       paren |-> Len(ss) + Len(ts)]

\* The theory part of the proof: declarations, then assertions, then the
\* parentheses both owe.
LFSCText ==
  printDeclarations.os \o printAssertions.os
  \o Closing(printDeclarations.paren + printAssertions.paren)

(***************************************************************************)
(* Reference LFSC printing: a curried application (apply _ _ (apply _ _ f *)
(* a) b), a right-nested arrow and right-nested connectives.               *)
(***************************************************************************)
RECURSIVE RefTerm(_), RefApply(_, _, _)
RefApply(f, args, n) ==
  IF n = 0 THEN <<f>>
  ELSE <<"(", "apply", "_", "_">> \o RefApply(f, args, n - 1) \o RefTerm(args[n]) \o <<")">>
RefTerm(t) == IF t.op = "VAR" THEN <<t.name>> ELSE RefApply(t.fn, t.args, Len(t.args))

RECURSIVE RefArrow(_)
RefArrow(ts) ==
  IF Len(ts) = 1 THEN <<Head(ts)>> ELSE <<"(", "arrow", Head(ts)>> \o RefArrow(Tail(ts)) \o <<")">>

RECURSIVE RefFormula(_), RefNested(_, _)
RefNested(k, cs) ==
  IF Len(cs) = 2 THEN RefFormula(cs[1]) \o RefFormula(cs[2])
  ELSE RefFormula(Head(cs)) \o <<"(", k>> \o RefNested(k, Tail(cs)) \o <<")">>
RefFormula(a) ==
  IF a.op = "EQUAL"
  THEN <<"(", "=", TypeOf(a.args[1])>> \o RefTerm(a.args[1]) \o RefTerm(a.args[2]) \o <<")">>
  ELSE <<"(", toLFSCKind(a.op)>>
       \o (IF Len(a.args) > 2 THEN RefNested(toLFSCKind(a.op), a.args)
           ELSE FlattenSeq([i \in 1 .. Len(a.args) |-> RefFormula(a.args[i])]))
       \o <<")">>

\* A declaration: "(% S sort" or "(% x (term T))"; each scope closes at
\* the end of the proof.
RefDecl(d) ==
  <<"(", "%", d, "(", "term">> \o RefArrow(IF d \in Funs THEN Sig[d] ELSE <<VarSort[d]>>) \o <<")">>

RefText ==
  LET ss == InIdOrder(sortDecls, SortIds)
      ts == InIdOrder(termDecls, DeclIds)
      fs == InIdOrder(inputFormulas, FormulaIds)
  IN  FlattenSeq([i \in 1 .. Len(ss) |-> <<"(", "%", ss[i], "sort">>])
      \o FlattenSeq([i \in 1 .. Len(ts) |-> RefDecl(ts[i])])
      \o FlattenSeq([i \in 1 .. Len(fs) |->
            <<"(", "%", <<"A", i - 1>>, "(", "th_holds">> \o RefFormula(fs[i]) \o <<")">>])
      \o Closing(Len(ss) + Len(ts) + Len(fs))

(***************************************************************************)
(* Properties                                                              *)
(***************************************************************************)
Symbols(t) ==
  LET RECURSIVE sy(_)
      sy(u) == CASE u.op = "VAR"      -> {u.name}
                 [] u.op = "APPLY_UF" -> {u.fn} \cup UNION {sy(u.args[i]) : i \in DOMAIN u.args}
                 [] OTHER             -> UNION {sy(u.args[i]) : i \in DOMAIN u.args}
  IN  sy(t)

TypeOK ==
  /\ atomSet \subseteq Atoms
  /\ inputFormulas \subseteq Formulas
  /\ termDecls \subseteq Vars \cup Funs
  /\ sortDecls \subseteq Sorts

\* The declarations printed before the assertions declare exactly the
\* symbols of the atoms and input formulas, with every sort they use:
\* addDeclaration, through its cache shared by addAtom and assertFormula,
\* misses no nested variable or function and declares nothing else.
DeclarationsComplete ==
  LET used == UNION {Symbols(e) : e \in atomSet \cup inputFormulas}
  IN  /\ termDecls = used
      /\ sortDecls = {VarSort[v] : v \in used \cap Vars}
                     \cup UNION {Range(Sig[f]) : f \in used \cap Funs}

\* The LFSC text that printDeclarations and printAssertions produce is
\* the reference LFSC for the declared symbols and the input formulas:
\* curried applications, curried arrows, right-nested connectives, and
\* every parenthesis closed.
PrintedProofIsLFSC == LFSCText = RefText

Next ==
  \/ \E a \in Atoms : AddAtom(a)
  \/ \E f \in Formulas : AssertFormula(f)

Spec == Init /\ [][Next]_vars
=============================================================================
