------------------------------- MODULE Plans -------------------------------
(***************************************************************************)
(* The plans of the executor and how complex they are: the measures of     *)
(* core/bigframe_node.py and select_cache_target of                        *)
(* core/tree_properties.py, which chooses the subtree to cache.            *)
(*                                                                         *)
(* An expression is a node of a DAG; a subtree that occurs twice is one    *)
(* node, as equal nodes are equal keys.  All its columns are used (pruning *)
(* removes none).  `cached` is the set of the nodes that are in the cache, *)
(* each of which counts as the scan of a table with all its columns.       *)
(***************************************************************************)
EXTENDS Naturals, FiniteSets, Functions

CONSTANTS
    NumNodes,
    Copies,          \* how often a node is a child of another
    Fields,          \* the number of its columns
    Variables,       \* variables_introduced
    Operations,      \* relation_ops_created
    Joins,           \* joins: 0 or 1
    Limit,           \* QUERY_COMPLEXITY_LIMIT
    MinComplexity    \* QUERY_COMPLEXITY_LIMIT / 500

Nodes == 1..NumNodes

ASSUME NodesAssumption ==
    /\ NumNodes \in Nat /\ Copies \in [Nodes -> [Nodes -> Nat]]
    /\ \A n, m \in Nodes : Copies[n][m] > 0 => m < n
    /\ {Fields, Variables, Operations, Joins} \subseteq [Nodes -> Nat]
ASSUME LimitAssumption == Limit \in Nat /\ MinComplexity \in Nat

Leaves == {n \in Nodes : \A m \in Nodes : Copies[n][m] = 0}

Children(n) == {m \in Nodes : Copies[n][m] > 0}
Parents(n) == {p \in Nodes : Copies[p][n] > 0}

\* The sum of a measure over the tree of every node; of a cached subtree, what the
\* scan of its table measures.
Total(measure, scan, cached) ==
    LET total[n \in Nodes] ==
          IF n \in cached THEN scan[n]
          ELSE measure[n] + SumFunctionOnSet([m \in Children(n) |-> Copies[n][m] * total[m]], Children(n))
    IN total

\* What a CachedTableNode introduces: a variable for each column and one more, three
\* operations and no join.
ScanVariables == [n \in Nodes |-> Fields[n] + 1]
ScanOperations == [n \in Nodes |-> 3]
ScanJoins == [n \in Nodes |-> 0]

TotalVariables(cached) == Total(Variables, ScanVariables, cached)
TotalOperations(cached) == Total(Operations, ScanOperations, cached)
TotalJoins(cached) == Total(Joins, ScanJoins, cached)

\* planning_complexity of the plans with their cached subtrees substituted.
Complexity(cached) ==
    LET variables == TotalVariables(cached)
        operations == TotalOperations(cached)
        joins == TotalJoins(cached)
    IN [n \in Nodes |-> variables[n] * operations[n] * (1 + joins[n])]

\* The nodes whose cached table has so many columns that its scan is in the range for
\* caching again: with MinComplexity 20,000, from 6,666 columns on.
Wide == {n \in Nodes : 3 * (Fields[n] + 1) >= MinComplexity}

\* Mutant: it counts the occurrences in all the plans there are.
OccurrencesAnywhere(root, complexity) ==
    LET count[n \in Nodes] ==
          IF complexity[n] < MinComplexity THEN 0
          ELSE IF Parents(n) = {} THEN 1
          ELSE SumFunctionOnSet([p \in Parents(n) |-> count[p] * Copies[p][n]], Parents(n))
    IN count

\* _node_counts_inner: how often each node occurs in the tree of `root` below nodes
\* that are complex enough.
Occurrences(root, complexity) ==
    LET count[n \in Nodes] ==
          IF complexity[n] < MinComplexity \/ n > root THEN 0
          ELSE IF n = root THEN 1
          ELSE SumFunctionOnSet([p \in Parents(n) |-> count[p] * Copies[p][n]], Parents(n))
    IN count

\* Mutant: the complexity of the candidates ignores what is cached.
TargetsWithoutCache(root, cached) ==
    LET complexity == Complexity({})
        count == Occurrences(root, complexity)
        inRange == {n \in Nodes : count[n] > 0 /\ complexity[n] <= Limit}
        score(n) == complexity[n] * count[n] * count[n]
    IN {n \in inRange : \A m \in inRange : score(m) <= score(n)}

\* select_cache_target: the nodes of the highest score, max() takes one of them;
\* the heuristic is the logarithm of this score.
Targets(root, cached) ==
    LET complexity == Complexity(cached)
        count == Occurrences(root, complexity)
        inRange == {n \in Nodes : count[n] > 0 /\ complexity[n] <= Limit}
        score(n) == complexity[n] * count[n] * count[n]
    IN {n \in inRange : \A m \in inRange : score(m) <= score(n)}

\* What top_down() visits: a cached node is replaced and its subtrees are left out.
Visited(root, cached) ==
    LET visited[n \in Nodes] ==
          {n} \cup (IF n \in cached THEN {} ELSE UNION {visited[m] : m \in Children(n)})
    IN visited[root]

\* unique_nodes: the node and all that is below it.
Subtrees(root) == Visited(root, {})
=============================================================================
