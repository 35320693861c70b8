----------------------------- MODULE Placement -----------------------------
(***************************************************************************)
(* What a round of the scheduler promises about jobs that ask for no GPU.  *)
(* Server lets distribute() return any such placement; Distribute has its  *)
(* loop and is shown to return one.                                        *)
(***************************************************************************)
EXTENDS Naturals, FiniteSets

\* util.IsSubsetString
IsSubsetString(set1, set2) == \A s \in set1 : s \in set2

\* The placements of jobs J on nodes N, each of which has load[a] jobs and room for
\* limit[a]. Every job goes to a node that can run it, no node gets more than it has
\* room for, and a job goes to nobody only when the nodes that can run it are full.
\* Which of several nodes gets a job depends on priorities and the order of nodes.
Placements(J, N, nobody, load, limit, Can(_, _)) ==
  {D \in [J -> N \cup {nobody}] :
     LET planned(a) == load[a] + Cardinality({j \in J : D[j] = a})
     IN \A j \in J :
          IF D[j] = nobody
            THEN \A a \in N : Can(a, j) => planned(a) >= limit[a]
            ELSE Can(D[j], j) /\ planned(D[j]) <= limit[D[j]]}

=============================================================================
