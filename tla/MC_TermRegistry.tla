-------------------------- MODULE MC_TermRegistry --------------------------
EXTENDS TermRegistry, TLC

CONSTANTS r1, r2
MCTerms == {r1, r2}
MCSymmetry == Permutations(MCTerms)
\* Bound on the number of check-sat calls.
MaxChecks == 3
ChecksBound == checks <= MaxChecks
=============================================================================
