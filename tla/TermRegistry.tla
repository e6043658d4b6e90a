---------------------------- MODULE TermRegistry ----------------------------
(***************************************************************************)
(* quantifiers::TermRegistry (term_registry.cpp): the term registration   *)
(* that feeds the quantifiers' term database across incremental check-sat *)
(* calls.                                                                  *)
(*                                                                         *)
(*   presolveFlag  d_presolve        context::CDO<bool> on the user context *)
(*   cache         d_presolveCache   CDHashSet on the user context          *)
(*   db            the terms TermDb::addTerm has been given (not context    *)
(*                 dependent without termDbCd)                              *)
(*                                                                         *)
(* The host is the SMT engine: it registers terms (addTerm, with          *)
(* withinQuant for terms of quantifier bodies), calls presolve at the     *)
(* start of each check-sat, and pushes and pops user contexts between     *)
(* check-sats.  registered is the host's record of the terms registered   *)
(* in the current user context; solving is true during a check-sat.       *)
(***************************************************************************)
EXTENDS Naturals, Sequences

CONSTANTS Terms,                  \* ground terms the host may register
          IncrementalSolving,     \* options::incrementalSolving()
          TermDbCd,               \* options::termDbCd()
          RegisterQuantBodyTerms, \* options::registerQuantBodyTerms()
          MaxUserLevel            \* bound: depth of the user context stack

ASSUME /\ IncrementalSolving \in BOOLEAN /\ TermDbCd \in BOOLEAN
       /\ RegisterQuantBodyTerms \in BOOLEAN /\ MaxUserLevel \in Nat

VARIABLES presolveFlag, cache, db, registered, solving, userStack, checks
vars == <<presolveFlag, cache, db, registered, solving, userStack, checks>>

\* What a user push saves: the user-context-dependent d_presolve and
\* d_presolveCache, and the host's registrations.  The term database is not
\* restored (with termDbCd the TermDb's own context handling is not modelled).
Saved == [presolveFlag |-> presolveFlag, cache |-> cache, registered |-> registered]

-----------------------------------------------------------------------------
\* TermRegistry::addTerm: <<cache', db'>>.
addTerm(t, withinQuant) ==
  IF withinQuant /\ ~RegisterQuantBodyTerms THEN <<cache, db>>
  ELSE <<IF IncrementalSolving /\ ~TermDbCd THEN cache \cup {t} ELSE cache,
         IF ~presolveFlag \/ ~IncrementalSolving \/ TermDbCd THEN db \cup {t} ELSE db>>

\* Mutant: presolve adds the cached terms but leaves d_presolve set.
presolve_keepsFlag ==
  <<presolveFlag,
    IF IncrementalSolving /\ ~TermDbCd THEN db \cup cache ELSE db>>

\* TermRegistry::presolve: <<d_presolve', db'>>.
presolve ==
  <<FALSE,
    IF IncrementalSolving /\ ~TermDbCd THEN db \cup cache ELSE db>>

-----------------------------------------------------------------------------
Init ==
  /\ presolveFlag = TRUE /\ cache = {} /\ db = {}
  /\ registered = {} /\ solving = FALSE /\ userStack = <<>> /\ checks = 0

\* The quantifiers engine registers a term (preRegister / a new equivalence
\* class), within a quantifier body or not, before or during a check-sat.
AddTerm(t, withinQuant) ==
  /\ LET r == addTerm(t, withinQuant)
     IN  /\ cache' = r[1]
         /\ db' = r[2]
  /\ registered' = registered \cup {<<t, withinQuant>>}
  /\ UNCHANGED <<presolveFlag, solving, userStack, checks>>

\* check-sat starts: TheoryEngine::presolve reaches TermRegistry::presolve.
\* Without incremental solving there is one check-sat.
CheckSatBegin ==
  /\ ~solving /\ (IncrementalSolving \/ checks = 0)
  /\ presolveFlag' = presolve[1]
  /\ db' = presolve[2]
  /\ solving' = TRUE
  /\ checks' = checks + 1
  /\ UNCHANGED <<cache, registered, userStack>>

CheckSatEnd ==
  /\ solving
  /\ solving' = FALSE
  /\ UNCHANGED <<presolveFlag, cache, db, registered, userStack, checks>>

UserPush ==
  /\ IncrementalSolving /\ ~solving /\ Len(userStack) < MaxUserLevel
  /\ userStack' = Append(userStack, Saved)
  /\ UNCHANGED <<presolveFlag, cache, db, registered, solving, checks>>

UserPop ==
  /\ ~solving /\ userStack # <<>>
  /\ LET top == userStack[Len(userStack)]
     IN  /\ presolveFlag' = top.presolveFlag
         /\ cache' = top.cache
         /\ registered' = top.registered
  /\ userStack' = SubSeq(userStack, 1, Len(userStack) - 1)
  /\ UNCHANGED <<db, solving, checks>>

Next ==
  \/ \E t \in Terms, w \in BOOLEAN : AddTerm(t, w)
  \/ CheckSatBegin
  \/ CheckSatEnd
  \/ UserPush
  \/ UserPop

Spec == Init /\ [][Next]_vars

-----------------------------------------------------------------------------
\* During every check-sat, every term registered in the current user
\* context (outside quantifier bodies, or with registerQuantBodyTerms) is in
\* the term database: the terms that addTerm held back before presolve,
\* including those registered after a pop restored d_presolve to true, are
\* added by presolve, and those registered during the check-sat at once.
TermsInDatabase ==
  solving =>
    \A r \in registered : (~r[2] \/ RegisterQuantBodyTerms) => r[1] \in db
====
