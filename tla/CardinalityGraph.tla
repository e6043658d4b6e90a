-------------------------- MODULE CardinalityGraph --------------------------
(***************************************************************************)
(* What a SortModel promises the UF theory, without regions: it keeps the *)
(* current representatives of its sort and the disequalities between     *)
(* them as an undirected graph, and the cardinality bound (the least      *)
(* cardinality literal asserted true, 0 while there is none).  Each call  *)
(* of the theory changes that view by one graph operation: a new          *)
(* representative, the merge of one representative into another (its     *)
(* edges move to the survivor), new edges, or a new literal; and the same *)
(* call may report cliques of bound+1 representatives pairwise joined in  *)
(* the new graph, a conflict among them freezing the view.  A pushed      *)
(* context saves the view and a pop restores it.                          *)
(***************************************************************************)
EXTENDS Naturals, Sequences, FiniteSets

CONSTANTS Terms,     \* the terms of the sort
          MaxBound   \* the largest cardinality literal

VARIABLES reps,      \* the current representatives
          edges,     \* disequalities between representatives, as pairs {a, b}
          bound,     \* the cardinality bound, 0 for none
          conflict,  \* a conflict has been reported in this context
          out,       \* the cliques reported by the last step
          saved      \* the views saved by the open contexts
vars == <<reps, edges, bound, conflict, out, saved>>

View == [reps |-> reps, edges |-> edges, bound |-> bound, conflict |-> conflict]

\* The unordered pairs of distinct elements of S.
Pairs(S) == {{a, b} : a, b \in S} \ {{a} : a \in S}

IsClique(K, E) == Pairs(K) \subseteq E

\* The edges once b is merged into a: b's edges are a's.
Rename(E, a, b) == {IF b \in p THEN (p \ {b}) \cup {a} ELSE p : p \in E}

\* The cliques that may be reported in a view: bound+1 representatives.
Reports(r, E, k) ==
  {[kind |-> kd, clique |-> K, card |-> k] :
     kd \in {"lemma", "conflict"},
     K \in {K \in SUBSET r : k > 0 /\ Cardinality(K) = k + 1 /\ IsClique(K, E)}}

-----------------------------------------------------------------------------
Init ==
  /\ reps = {} /\ edges = {} /\ bound = 0 /\ conflict = FALSE
  /\ out = {} /\ saved = <<>>

\* A call outside a conflict moves the view to <<r, E, k>> and may report
\* cliques of the new view; reporting a conflict sets the flag.
Solve(r, E, k) ==
  /\ ~conflict
  /\ reps' = r /\ edges' = E /\ bound' = k
  /\ out' \subseteq Reports(r, E, k)
  /\ conflict' = \E o \in out' : o.kind = "conflict"

Lower(k) == IF bound = 0 \/ k < bound THEN k ELSE bound

NewRep(n) == n \notin reps /\ Solve(reps \cup {n}, edges, bound)

MergeReps(a, b) ==
  /\ a \in reps /\ b \in reps /\ a # b /\ {a, b} \notin edges
  /\ Solve(reps \ {b}, Rename(edges, a, b), bound)

AddEdges(N) == Solve(reps, edges \cup N, bound)

AssertBound(k) == Solve(reps, edges, Lower(k))

\* A call in a conflict changes nothing and reports nothing.
Frozen == conflict /\ out' = {} /\ UNCHANGED <<reps, edges, bound, conflict>>

Call ==
  /\ \/ \E n \in Terms : NewRep(n)
     \/ \E a, b \in Terms : MergeReps(a, b)
     \/ \E N \in SUBSET Pairs(reps) : AddEdges(N)
     \/ \E k \in 1 .. MaxBound : AssertBound(k)
     \/ Frozen
  /\ UNCHANGED saved

Push ==
  /\ saved' = Append(saved, View)
  /\ out' = {}
  /\ UNCHANGED <<reps, edges, bound, conflict>>

\* A decision opens a context and asserts a cardinality literal in it.
Decide ==
  /\ saved' = Append(saved, View)
  /\ \/ \E k \in 1 .. MaxBound : AssertBound(k)
     \/ Frozen

Pop ==
  /\ saved # <<>>
  /\ LET top == saved[Len(saved)]
     IN  /\ reps' = top.reps /\ edges' = top.edges
         /\ bound' = top.bound /\ conflict' = top.conflict
  /\ out' = {}
  /\ saved' = SubSeq(saved, 1, Len(saved) - 1)

Next == Call \/ Push \/ Decide \/ Pop

Spec == Init /\ [][Next]_vars
====
