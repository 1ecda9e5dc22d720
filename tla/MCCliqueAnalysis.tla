-------------------------- MODULE MCCliqueAnalysis --------------------------
(* CliqueAnalysis with small sets of communication matrices. *)
EXTENDS CliqueAnalysis

\* The zero-one matrices of a set of pairs, with a zero diagonal: the symmetric
\* ones, and the triangular ones, since the rows of default_matrix do not have the
\* length SUBSCRIPT assumes and the matrix is not symmetric as it is read.  The pairs
\* are any of the first three threads, or any one pair; the others exchange nothing.
ZeroOne(S) == [a \in Thread |-> [b \in Thread |-> IF <<a, b>> \in S THEN 1 ELSE 0]]

Above(n) == {p \in Thread \X Thread : p[1] < p[2] /\ p[2] < n}

ZeroOneMatrices ==
  LET pairs == SUBSET Above(3) \cup {{p} : p \in Above(NTHREADS)}
  IN {ZeroOne(S) : S \in pairs}
       \cup {ZeroOne(S \cup {<<p[2], p[1]>> : p \in S}) : S \in pairs}

\* Two groups of equal size, with rates that differ within a group: a thread
\* exchanges more with the threads numbered closely to it, or with some thread.
Rate(a, b, hub) == IF a = b THEN 0 ELSE IF hub \in {a, b} THEN 3 ELSE 1 + ((a + b) % 2)

GroupMatrices ==
  {[a \in Thread |-> [b \in Thread |-> IF a \in G <=> b \in G THEN Rate(a, b, hub) ELSE 0]] :
     G \in {S \in SUBSET Thread : 2 * Cardinality(S) = NTHREADS},
     hub \in {0, NTHREADS - 1}}

\* One explicit set, which TLC looks up faster than a union.
SmallMatrices == {m \in ZeroOneMatrices \cup GroupMatrices : TRUE}
=============================================================================
