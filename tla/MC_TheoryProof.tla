--------------------------- MODULE MC_TheoryProof ---------------------------
(* Instantiates TheoryProof for TLC: sorts S and U, constants x, y : S and *)
(* z : U, a unary f : S -> U and a binary g : S S -> S, a few equalities   *)
(* and input formulas over them.                                           *)
EXTENDS TheoryProof

CONSTANTS S, U, x, y, z, f, g

Var(v) == [op |-> "VAR", name |-> v]
App(h, as) == [op |-> "APPLY_UF", fn |-> h, args |-> as]
Eq(a, b) == [op |-> "EQUAL", args |-> <<a, b>>]

MCSorts == {S, U}
MCVarSort == (x :> S) @@ (y :> S) @@ (z :> U)
MCSig == (f :> <<S, U>>) @@ (g :> <<S, S, S>>)

\* The equalities and formulas over unary f only.
Exy  == Eq(Var(x), Var(y))
Efxz == Eq(App(f, <<Var(x)>>), Var(z))
Efyz == Eq(App(f, <<Var(y)>>), Var(z))
UnaryAtoms == {Exy, Efxz, Efyz}
UnaryFormulas ==
  << Efxz,
     [op |-> "NOT", args |-> <<Exy>>],
     [op |-> "OR", args |-> <<Exy, Efyz>>],
     [op |-> "AND", args |-> <<Exy, Efxz, Efyz>>] >>

\* With the binary g as well: g(x, y) = x.
Egxy == Eq(App(g, <<Var(x), Var(y)>>), Var(x))
BinaryAtoms == UnaryAtoms \cup {Egxy}
BinaryFormulas == UnaryFormulas \o <<[op |-> "IMPLIES", args |-> <<Egxy, Exy>>]>>

UnaryFormulaSet == Range(UnaryFormulas)
BinaryFormulaSet == Range(BinaryFormulas)

MCSortIds == <<S, U>>
MCDeclIds == <<x, y, z, f, g>>
=============================================================================
