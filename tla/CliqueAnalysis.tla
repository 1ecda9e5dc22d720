--------------------------- MODULE CliqueAnalysis ---------------------------
(***************************************************************************)
(* clique_analysis of clique.c: threads that share memory are merged into  *)
(* cliques, the sizes doubling in every round, until there is at most one  *)
(* clique for each NUMA node, and every thread is given a core of the node *)
(* of its clique.  The analysis is sequential; its state is global and     *)
(* survives from one call to the next.  A step is one pass through a loop. *)
(***************************************************************************)
EXTENDS Naturals, Sequences, FiniteSets, Functions

CONSTANTS
  NTHREADS,        \* threads, and cliques[] that hold them
  num_nodes,       \* NUMA nodes
  cores_per_node,
  Matrices,        \* the communication matrices default_matrix may hold
  NULL             \* the null pointer

Thread == 0 .. NTHREADS - 1

ASSUME ThreadAssumption == NTHREADS \in Nat \ {0} /\ NULL \notin Thread
\* NTHREADS is 1 << NTHREADS_SHIFT: it can be halved until it is 1.
ASSUME PowerAssumption  ==
  \E P \in SUBSET (1 .. NTHREADS) :
    NTHREADS \in P /\ \A n \in P : n = 1 \/ \E m \in P : n = 2 * m
ASSUME NodeAssumption   == num_nodes \in Nat \ {0} /\ cores_per_node \in Nat \ {0}
ASSUME MatrixAssumption == \A m \in Matrices : m \in [Thread -> [Thread -> Nat]]

VARIABLES
  default_matrix,  \* communication rates between threads
  pids,            \* cliques[c].pids, the first cliques[c].size elements
  flag,            \* cliques[c].flag
  cliques_size,
  threads_chosen,  \* the core chosen for each thread
  pc               \* the loop of clique_analysis that is running

vars == <<default_matrix, pids, flag, cliques_size, threads_chosen, pc>>

Valid == {c \in Thread : flag[c] = "C_VALID"}

\* The memory the module is loaded with: no clique has a member yet.
Init ==
  /\ default_matrix \in Matrices
  /\ pids = [c \in Thread |-> <<>>]
  /\ flag = [c \in Thread |-> "C_VALID"]
  /\ cliques_size = 0
  /\ threads_chosen = [t \in Thread |-> 0]
  /\ pc = "done"

-----------------------------------------------------------------------------

\* A call of clique_analysis, which starts with init_cliques.
init_cliques ==
  /\ pc = "done"
  /\ default_matrix' \in Matrices
  /\ pids' = [c \in Thread |-> <<c>>]
  /\ flag' = [c \in Thread |-> "C_VALID"]
  /\ cliques_size' = NTHREADS
  /\ pc' = "outer"
  /\ UNCHANGED threads_chosen

get_first_valid ==
  IF Valid = {} THEN NULL ELSE CHOOSE c \in Valid : \A d \in Valid : c <= d

\* The rates of the pairs with one thread in each clique, added up.
clique_distance(c1, c2) ==
  LET rate == [p \in (DOMAIN pids[c1]) \X (DOMAIN pids[c2]) |->
                 default_matrix[pids[c1][p[1]]][pids[c2][p[2]]]]
  IN FoldFunction(+, 0, rate)

\* Faulty variant: any other valid clique will do.
find_neighbor_First(c1) ==
  LET others == Valid \ {c1}
  IN IF c1 = NULL \/ others = {} THEN Thread \cup {NULL}
     ELSE {c \in others : \A d \in others : c <= d}

\* The pointers find_neighbor can return: the first of the valid cliques nearest
\* to c1, or the uninitialized c2 when there is no other clique to look at.
find_neighbor(c1) ==
  LET others  == Valid \ {c1}
      nearest == {c \in others :
                    \A d \in others : clique_distance(c1, d) <= clique_distance(c1, c)}
  IN IF c1 = NULL \/ others = {} THEN Thread \cup {NULL}
     ELSE {c \in nearest : \A d \in nearest : c <= d}

\* Faulty variant: the clique that was merged away is used again.
merge_clique_Twice(c1, c2) ==
  /\ pids' = [pids EXCEPT ![c1] = @ \o pids[c2]]
  /\ flag' = [flag EXCEPT ![c1] = "C_REUSE", ![c2] = "C_REUSE"]
  /\ cliques_size' = cliques_size - 2

\* Faulty variant: one clique less is counted, although neither is valid any more.
merge_clique_One(c1, c2) ==
  /\ pids' = [pids EXCEPT ![c1] = @ \o pids[c2]]
  /\ flag' = [flag EXCEPT ![c1] = "C_REUSE", ![c2] = "C_INVALID"]
  /\ cliques_size' = cliques_size - 1

\* c2 joins c1, which is put aside until the next round.
merge_clique(c1, c2) ==
  IF c1 = NULL \/ c2 = NULL \/ (flag[c1] # "C_VALID" /\ flag[c2] # "C_VALID")
    THEN UNCHANGED <<pids, flag, cliques_size>>
  ELSE IF flag[c1] = "C_VALID" /\ flag[c2] = "C_VALID"
    THEN /\ pids' = [pids EXCEPT ![c1] = @ \o pids[c2]]
         /\ flag' = [flag EXCEPT ![c1] = "C_REUSE", ![c2] = "C_INVALID"]
         /\ cliques_size' = cliques_size - 2
  ELSE /\ flag' = [flag EXCEPT ![IF flag[c1] = "C_VALID" THEN c1 ELSE c2] = "C_REUSE"]
       /\ cliques_size' = cliques_size - 1
       /\ UNCHANGED pids

\* One pass through the inner loop.
Merge ==
  /\ pc = "inner" /\ cliques_size > 0
  /\ \E c2 \in find_neighbor(get_first_valid) : merge_clique(get_first_valid, c2)
  /\ UNCHANGED <<default_matrix, threads_chosen, pc>>

\* Faulty variant: the cliques that become valid again are not counted.
reset_cliques_NoCount ==
  /\ pc = "inner" /\ cliques_size <= 0
  /\ flag' = [c \in Thread |-> IF flag[c] = "C_REUSE" THEN "C_VALID" ELSE flag[c]]
  /\ pc' = "outer"
  /\ UNCHANGED <<default_matrix, pids, cliques_size, threads_chosen>>

\* Faulty variant: the merged cliques stay aside.
reset_cliques_None ==
  /\ pc = "inner" /\ cliques_size <= 0
  /\ pc' = "outer"
  /\ cliques_size' = cliques_size + Cardinality({c \in Thread : flag[c] = "C_REUSE"})
  /\ UNCHANGED <<default_matrix, pids, flag, threads_chosen>>

\* The round is over: the merged cliques are valid again.
reset_cliques ==
  /\ pc = "inner" /\ cliques_size <= 0
  /\ flag' = [c \in Thread |-> IF flag[c] = "C_REUSE" THEN "C_VALID" ELSE flag[c]]
  /\ cliques_size' = cliques_size + Cardinality({c \in Thread : flag[c] = "C_REUSE"})
  /\ pc' = "outer"
  /\ UNCHANGED <<default_matrix, pids, threads_chosen>>

\* The head of the outer loop, when there are more cliques than nodes.
NextRound ==
  /\ pc = "outer" /\ cliques_size > num_nodes
  /\ pc' = "inner"
  /\ UNCHANGED <<default_matrix, pids, flag, cliques_size, threads_chosen>>

\* Faulty variant: the cores are not reused within the node.
assign_cpu_NoWrap(node, i) == cores_per_node * node + i - 1

\* Faulty variant: the nodes are numbered from one.
assign_cpu_FromOne(node, i) == cores_per_node * (node + 1) + ((i - 1) % cores_per_node)

\* assign_cpus_for_clique, the core of the i-th thread: the cores of the node in turn.
assign_cpu(node, i) == cores_per_node * node + ((i - 1) % cores_per_node)

\* The valid cliques are given the nodes in the order of the array; a thread of no
\* valid clique keeps the core it had.
calculate_threads_chosen ==
  /\ pc = "outer" /\ cliques_size <= num_nodes
  /\ threads_chosen' =
       [t \in Thread |->
          LET homes == {c \in Valid : \E i \in DOMAIN pids[c] : pids[c][i] = t}
              home  == CHOOSE c \in homes : \A d \in homes : d <= c
              place == CHOOSE i \in DOMAIN pids[home] : pids[home][i] = t
          IN IF homes = {} THEN threads_chosen[t]
             ELSE assign_cpu(Cardinality({c \in Valid : c < home}), place)]
  /\ pc' = "done"
  /\ UNCHANGED <<default_matrix, pids, flag, cliques_size>>

Next == init_cliques \/ NextRound \/ Merge \/ reset_cliques \/ calculate_threads_chosen

Spec == Init /\ [][Next]_vars

\* A call that has started runs.
FairSpec ==
  Spec /\ WF_vars(NextRound \/ Merge \/ reset_cliques \/ calculate_threads_chosen)

-----------------------------------------------------------------------------
(* Properties.                                                             *)

\* The variables have their types; no clique outgrows pids[NTHREADS], and a chosen
\* core is a core of the machine.
TypeOK ==
  /\ default_matrix \in Matrices
  /\ pids \in [Thread -> Seq(Thread)] /\ \A c \in Thread : Len(pids[c]) <= NTHREADS
  /\ flag \in [Thread -> {"C_VALID", "C_REUSE", "C_INVALID"}]
  /\ cliques_size \in 0 .. NTHREADS
  /\ threads_chosen \in [Thread -> 0 .. num_nodes * cores_per_node - 1]
  /\ pc \in {"done", "outer", "inner"}

\* The places of the cliques in use that hold thread t.
Places(t) ==
  {p \in Thread \X (1 .. NTHREADS) :
     flag[p[1]] # "C_INVALID" /\ p[2] \in DOMAIN pids[p[1]] /\ pids[p[1]][p[2]] = t}

\* Merging neither loses nor duplicates a thread (clique.c:239-267): while an
\* analysis runs, every thread is at exactly one place of one clique in use.
Partition == pc # "done" => \A t \in Thread : Cardinality(Places(t)) = 1

\* cliques_size, which both loops trust, is the number of the valid cliques
\* (clique.c:250, 261, 302, 315).
SizeCounted == pc # "done" => cliques_size = Cardinality(Valid)

\* find_neighbor never returns its uninitialized c2 (clique.c:282, 294): whenever the
\* inner loop goes on there are two valid cliques.
NeighborFound == pc = "inner" /\ cliques_size > 0 => Cardinality(Valid) >= 2

\* The threads whose chosen core is k.
Load(k) == Cardinality({t \in Thread : threads_chosen[t] = k})

\* The nodes share the threads evenly and so do the cores of a node
\* (clique.c:322-337): as many nodes as there are cliques hold equal numbers, and two
\* cores of one node differ by at most one thread.
CoresBalanced ==
  pc = "done" /\ cliques_size > 0 =>
    \A j, k \in 0 .. cliques_size * cores_per_node - 1 :
      /\ Load(j) <= Load(k) + (IF j \div cores_per_node = k \div cores_per_node THEN 1
                               ELSE NTHREADS \div cliques_size)
      /\ \A n \in 0 .. cliques_size - 1 :
           NTHREADS = cliques_size *
             Cardinality({t \in Thread : threads_chosen[t] \div cores_per_node = n})

\* The threads fall into groups of the size of a node's share, and the rates are
\* positive within the groups and zero between them.
Clustered(m) ==
  LET Group(a) == {a} \cup {b \in Thread : m[a][b] > 0}
  IN \A a \in Thread :
       /\ num_nodes * Cardinality(Group(a)) = NTHREADS
       /\ \A b \in Group(a) : Group(b) = Group(a)

\* What the analysis is for: if the threads communicate in groups that fit the nodes,
\* the threads of a group end up on one node (clique.c:347-369).
GroupsTogether ==
  pc = "done" /\ cliques_size > 0 /\ Clustered(default_matrix) =>
    \A a, b \in Thread :
      default_matrix[a][b] > 0 =>
        threads_chosen[a] \div cores_per_node = threads_chosen[b] \div cores_per_node

\* The two nested loops end, whatever the matrix (clique.c:354-367).
Terminates == pc # "done" ~> pc = "done"
=============================================================================
