--------------------------- MODULE ExecutorCache ---------------------------
(***************************************************************************)
(* BigQueryCachingExecutor (session/bq_caching_executor.py) and its        *)
(* ExecutionCache: an expression is executed by a query over what was      *)
(* cached of it.  With enable_multi_query_execution an expression that is  *)
(* too complex is first cut down: its best subtree is executed and cached, *)
(* which calls the executor again, up to MAX_SUBTREE_FACTORINGS times.     *)
(* Large local data is uploaded before the query by a pool of one thread.  *)
(*                                                                         *)
(* One thread uses the executor ("This class is not thread-safe"); the     *)
(* session may be closed by another one.                                   *)
(***************************************************************************)
EXTENDS Plans, Sequences

CONSTANTS
    Locals,          \* the leaves with more than MAX_INLINE_BYTES of local data
    MaxFactorings,   \* MAX_SUBTREE_FACTORINGS
    MaxDepth,        \* executions inside each other at Python's recursion limit
    MaxCalls         \* bound: the calls of the user

ASSUME LocalsAssumption == Locals \subseteq Leaves
ASSUME BoundsAssumption ==
    MaxFactorings \in Nat /\ MaxDepth \in Nat \ {0, 1} /\ MaxCalls \in Nat

VARIABLES
    multiQuery,  \* options.compute.enable_multi_query_execution
    stack,       \* the executions, the innermost last
    cache,       \* _cached_executions: the table of a node; 0 is none
    uploaded,    \* _uploaded_local_data: the table of a leaf; 0 is none
    jobs,        \* the uploads submitted to the loader's thread
    tables,      \* the tables of the session
    calls,
    gone,        \* the tables Session.close() deleted
    outcome,     \* of the last call
    faulted      \* history: the service failed, or had deleted what was asked for

callVars == <<multiQuery, calls>>
cacheVars == <<cache, uploaded>>
endVars == <<outcome, faulted>>
vars == <<callVars, stack, cacheVars, jobs, tables, gone, endVars>>

Tables == DOMAIN tables
Depth == Len(stack)
Top == stack[Depth]

Frames ==
    [node : Nodes, caches : BOOLEAN,
     pc : {"simplify", "substitute", "upload", "create", "query", "return"},
     rounds : 0..MaxFactorings, reads : [Nodes -> Tables \cup {0}],
     waits : SUBSET DOMAIN jobs, target : Tables \cup {0}]

Jobs ==
    [leaf : Locals, state : {"waiting", "running", "done", "failed", "cancelled"},
     table : Tables \cup {0}]

TypeOK ==
    /\ multiQuery \in BOOLEAN
    /\ stack \in Seq(Frames) /\ Depth <= MaxDepth
    /\ \A d \in 1..(Depth - 1) : stack[d].pc = "simplify"
    /\ cache \in [Nodes -> Tables \cup {0}]
    /\ uploaded \in [Locals -> Tables \cup {0}]
    /\ jobs \in Seq(Jobs)
    /\ \A j \in DOMAIN jobs : jobs[j].state = "done" => jobs[j].table # 0
    /\ tables \in Seq([node : Nodes, rows : {"none", "right", "wrong"}])
    /\ calls \in 0..MaxCalls
    /\ gone \subseteq Tables
    /\ outcome \in {"none", "right", "wrong", "raised"}
    /\ faulted \in BOOLEAN

Init ==
    /\ multiQuery \in BOOLEAN
    /\ stack = <<>>
    /\ cache = [n \in Nodes |-> 0]
    /\ uploaded = [n \in Locals |-> 0]
    /\ jobs = <<>>
    /\ tables = <<>>
    /\ calls = 0
    /\ gone = {}
    /\ outcome = "none"
    /\ faulted = FALSE
----------------------------------------------------------------------------
Cached == {n \in Nodes : cache[n] # 0}

\* subsitute_cached_subplans, and the large local sources of what is left.
Substituted(root, cached) == Visited(root, cached) \cap cached
NeedsUpload(root, cached) == (Visited(root, cached) \ cached) \cap Locals
----------------------------------------------------------------------------
(* Executions                                                              *)

Frame(n, caches) ==
    [node |-> n, caches |-> caches, pc |-> IF multiQuery THEN "simplify" ELSE "substitute",
     rounds |-> 0, reads |-> [m \in Nodes |-> 0], waits |-> {}, target |-> 0]

At(place) == stack # <<>> /\ Top.pc = place
SetTop(frame) == stack' = [stack EXCEPT ![Depth] = frame]
Goto(place) == SetTop([Top EXCEPT !.pc = place])

\* An exception leaves all the executions.
Raise ==
    /\ stack' = <<>>
    /\ outcome' = "raised"

ServiceFails == Raise /\ faulted' = TRUE

\* The rows a query gets from the tables it reads in the place of nodes.
RowsOf(reads) ==
    IF \A m \in Nodes :
         reads[m] # 0 => tables[reads[m]] = [node |-> m, rows |-> "right"]
    THEN "right" ELSE "wrong"

Begin == stack = <<>> /\ calls < MaxCalls /\ calls' = calls + 1

\* execute() for the user, or cached() of a plan that is not trivial.
Call(n, caches) ==
    /\ Begin
    /\ stack' = <<Frame(n, caches)>>
    /\ outcome' = "none" /\ faulted' = FALSE
    /\ UNCHANGED <<multiQuery, cacheVars, jobs, tables, gone>>

\* A semi-executor takes a plan that is reduced to the scan of a cached table.
ReadCachedTable(n) ==
    /\ Begin
    /\ cache[n] # 0
    /\ faulted' = (cache[n] \in gone)
    /\ outcome' = IF faulted' THEN "raised" ELSE RowsOf([m \in Nodes |-> IF m = n THEN cache[m] ELSE 0])
    /\ UNCHANGED <<multiQuery, stack, cacheVars, jobs, tables, gone>>

\* The last expression with the node is garbage: the weak dictionary forgets it,
\* with the nodes that hold it.
Forget(n) ==
    /\ stack = <<>> /\ cache[n] # 0
    /\ cache' = [m \in Nodes |-> IF n \in Subtrees(m) THEN 0 ELSE cache[m]]
    /\ UNCHANGED <<callVars, stack, uploaded, jobs, tables, gone, endVars>>

\* Mutant: the loop ends with the first subtree it has cached.
EndAfterCaching ==
    /\ At("simplify")
    /\ Top.rounds > 0 \/ Complexity(Cached)[Top.node] < Limit
    /\ Goto("substitute")
    /\ UNCHANGED <<callVars, cacheVars, jobs, tables, gone, endVars>>

\* _simplify_with_caching: the plan is simple enough, or was factored often enough.
EndSimplify ==
    /\ At("simplify")
    /\ Top.rounds = MaxFactorings \/ Complexity(Cached)[Top.node] < Limit
    /\ Goto("substitute")
    /\ UNCHANGED <<callVars, cacheVars, jobs, tables, gone, endVars>>

TooComplex ==
    /\ At("simplify")
    /\ Top.rounds < MaxFactorings /\ Complexity(Cached)[Top.node] >= Limit

\* _cache_most_complex_subtree: the target is executed by this executor.
CacheSubtree ==
    /\ TooComplex /\ Depth < MaxDepth
    /\ \E n \in Targets(Top.node, Cached) :
         stack' = Append([stack EXCEPT ![Depth] = [Top EXCEPT !.rounds = @ + 1]],
                         Frame(n, TRUE))
    /\ UNCHANGED <<callVars, cacheVars, jobs, tables, gone, endVars>>

\* select_cache_target raises ValueError where its caller expects None.
NoTarget ==
    /\ TooComplex /\ Targets(Top.node, Cached) = {}
    /\ Raise /\ UNCHANGED faulted
    /\ UNCHANGED <<callVars, cacheVars, jobs, tables, gone>>

RecursionError ==
    /\ TooComplex /\ Targets(Top.node, Cached) # {} /\ Depth = MaxDepth
    /\ Raise /\ UNCHANGED faulted
    /\ UNCHANGED <<callVars, cacheVars, jobs, tables, gone>>

\* The plan with its cached subtrees; the uploads of its local leaves are
\* submitted, whether they were uploaded before or not.
Substitute ==
    /\ At("substitute")
    /\ LET leaves == NeedsUpload(Top.node, Cached)
           news == (Len(jobs) + 1)..(Len(jobs) + Cardinality(leaves))
       IN \E leaf \in Bijection(news, leaves) :
            /\ jobs' = jobs \o [i \in 1..Cardinality(leaves) |->
                                  [leaf |-> leaf[Len(jobs) + i], state |-> "waiting", table |-> 0]]
            /\ SetTop([Top EXCEPT !.pc = "upload", !.waits = news,
                         !.reads = [n \in Nodes |-> IF n \in Substituted(Top.node, Cached)
                                                    THEN cache[n] ELSE 0]])
    /\ UNCHANGED <<callVars, cacheVars, tables, gone, endVars>>

\* as_completed yields an upload that succeeded ...
CollectUpload(j) ==
    /\ At("upload") /\ j \in Top.waits /\ jobs[j].state = "done"
    /\ uploaded' = [uploaded EXCEPT ![jobs[j].leaf] = jobs[j].table]
    /\ SetTop([Top EXCEPT !.waits = @ \ {j}])
    /\ UNCHANGED <<callVars, cache, jobs, tables, gone, endVars>>

\* Mutant: the exception of an upload is not looked at.
IgnoreFailedUpload(j) ==
    /\ At("upload") /\ j \in Top.waits /\ jobs[j].state = "failed"
    /\ UNCHANGED vars

\* ... or one that failed: those that did not start are cancelled.
CollectFailure(j) ==
    /\ At("upload") /\ j \in Top.waits /\ jobs[j].state = "failed"
    /\ jobs' = [i \in DOMAIN jobs |->
                  IF i \in Top.waits /\ jobs[i].state = "waiting"
                  THEN [jobs[i] EXCEPT !.state = "cancelled"] ELSE jobs[i]]
    /\ ServiceFails
    /\ UNCHANGED <<callVars, cacheVars, tables, gone>>

\* The local scans become scans of the uploaded tables.
EndUpload ==
    /\ At("upload") /\ Top.waits = {}
    /\ LET leaves == NeedsUpload(Top.node, Cached)
       IN SetTop([Top EXCEPT !.pc = "create",
                    !.reads = [n \in Nodes |-> IF n \in leaves THEN uploaded[n]
                                               ELSE Top.reads[n]]])
    /\ UNCHANGED <<callVars, cacheVars, jobs, tables, gone, endVars>>

\* Mutant: the table is cached before the query has filled it.
CreateAndCache ==
    /\ At("create")
    /\ tables' = Append(tables, [node |-> Top.node, rows |-> "none"])
    /\ SetTop([Top EXCEPT !.pc = "query", !.target = Len(tables')])
    /\ cache' = IF Top.caches THEN [cache EXCEPT ![Top.node] = Len(tables')] ELSE cache
    /\ UNCHANGED <<callVars, uploaded, jobs, gone, endVars>>

CreateTable ==
    /\ At("create")
    /\ tables' = Append(tables, [node |-> Top.node, rows |-> "none"])
    /\ SetTop([Top EXCEPT !.pc = "query", !.target = Len(tables')])
    /\ UNCHANGED <<callVars, cacheVars, jobs, gone, endVars>>

\* promise_under_10gb: the result needs no table.
RunWithoutTable ==
    /\ At("create") /\ ~Top.caches
    /\ Goto("query")
    /\ UNCHANGED <<callVars, cacheVars, jobs, tables, gone, endVars>>

\* The query fills its table, which the job creates again if it is gone.
Query ==
    /\ At("query") /\ \A n \in Nodes : Top.reads[n] \notin gone
    /\ tables' = [t \in Tables |->
                    IF t = Top.target THEN [tables[t] EXCEPT !.rows = RowsOf(Top.reads)]
                    ELSE tables[t]]
    /\ gone' = gone \ {Top.target}
    /\ Goto("return")
    /\ UNCHANGED <<callVars, cacheVars, jobs, endVars>>

\* A request fails: for the service's reasons, or for a table that is gone.
FailRequest ==
    /\ At("create") \/ At("query")
    /\ ServiceFails
    /\ UNCHANGED <<callVars, cacheVars, jobs, tables, gone>>

\* cache_results_table under the plan before its substitution, if asked for; the
\* execution that asked for it goes on.
Return ==
    /\ At("return")
    /\ cache' = IF Top.caches THEN [cache EXCEPT ![Top.node] = Top.target] ELSE cache
    /\ stack' = SubSeq(stack, 1, Depth - 1)
    /\ outcome' = IF Depth > 1 THEN outcome
                   ELSE IF Top.target = 0 THEN RowsOf(Top.reads)
                   ELSE tables[Top.target].rows
    /\ UNCHANGED <<callVars, uploaded, jobs, tables, gone, faulted>>
----------------------------------------------------------------------------
(* The loader's thread, and the end of the session                         *)

\* The one thread of the pool takes the jobs in their order.
StartUpload(j) ==
    /\ jobs[j].state = "waiting"
    /\ \A i \in DOMAIN jobs : jobs[i].state # "running"
    /\ \A i \in 1..(j - 1) : jobs[i].state # "waiting"
    /\ jobs' = [jobs EXCEPT ![j].state = "running"]
    /\ UNCHANGED <<callVars, stack, cacheVars, tables, gone, endVars>>

FinishUpload(j) ==
    /\ jobs[j].state = "running"
    /\ tables' = Append(tables, [node |-> jobs[j].leaf, rows |-> "right"])
    /\ jobs' = [jobs EXCEPT ![j].state = "done", ![j].table = Len(tables')]
    /\ UNCHANGED <<callVars, stack, cacheVars, gone, endVars>>

\* Mutant: the exception stays in the thread.
LoseFailure(j) ==
    /\ jobs[j].state = "running"
    /\ jobs' = [jobs EXCEPT ![j].state = "done"]
    /\ UNCHANGED <<callVars, stack, cacheVars, tables, gone, endVars>>

FailUpload(j) ==
    /\ jobs[j].state = "running"
    /\ jobs' = [jobs EXCEPT ![j].state = "failed"]
    /\ UNCHANGED <<callVars, stack, cacheVars, tables, gone, endVars>>

\* Session.close() deletes the tables; the executor keeps its caches.
Close ==
    /\ gone # Tables
    /\ gone' = Tables
    /\ UNCHANGED <<callVars, stack, cacheVars, jobs, tables, endVars>>
----------------------------------------------------------------------------
ExecutorStep ==
    \/ EndSimplify \/ CacheSubtree \/ NoTarget \/ RecursionError \/ Substitute
    \/ EndUpload \/ CreateTable \/ RunWithoutTable \/ Query \/ FailRequest \/ Return
    \/ \E j \in DOMAIN jobs : CollectUpload(j) \/ CollectFailure(j)

LoaderStep == \E j \in DOMAIN jobs : StartUpload(j) \/ FinishUpload(j) \/ FailUpload(j)

UserStep ==
    \/ \E n \in Nodes, caches \in BOOLEAN : Call(n, caches)
    \/ \E n \in Nodes : ReadCachedTable(n) \/ Forget(n)

Next == ExecutorStep \/ LoaderStep \/ UserStep \/ Close

\* Requests are answered in the end; the user and the end of the session are free.
Fairness == WF_vars(ExecutorStep) /\ WF_vars(LoaderStep)

Spec == Init /\ [][Next]_vars
FairSpec == Spec /\ Fairness
----------------------------------------------------------------------------
\* A plan is never answered with other rows than its own: what the caches hold is
\* the complete result of the node it is filed under, whatever failed meanwhile, and
\* so is every answer computed from it (lines 431-436, 533-566, 655-658).
AnswersAreRight ==
    /\ \A n \in Nodes : cache[n] # 0 => tables[cache[n]] = [node |-> n, rows |-> "right"]
    /\ \A n \in Locals :
         uploaded[n] # 0 => tables[uploaded[n]] = [node |-> n, rows |-> "right"]
    /\ outcome # "wrong"

\* Every factoring caches something new: a subtree that is cached is not chosen again,
\* unless its table is so wide that the scan is complex enough, and one that is being
\* executed further out is not, unless its complexity is exactly the limit, where `<`
\* and `<=` disagree (lines 484-511 and tree_properties.py:92-105).
FactoringsAreNew ==
    [][ stack # <<>> /\ Depth' > Depth =>
          LET node == stack'[Depth'].node
          IN /\ cache[node] = 0 \/ node \in Wide
             /\ \A d \in 1..Depth :
                  stack[d].node = node => Complexity(Cached)[node] = Limit ]_vars

\* A query over the limit is sent only after MAX_SUBTREE_FACTORINGS factorings, whatever
\* the executions inside have cached or failed to make simpler (lines 481-493).
QueriesFit ==
    multiQuery /\ At("query") =>
        Complexity(Cached)[Top.node] < Limit \/ Top.rounds = MaxFactorings

\* "No good subtrees to cache, just return original tree" (lines 506-508): whatever there
\* is to cache, an execution does not raise unless the service failed.
RaisesOnlyWithTheService ==
    [][stack # <<>> /\ outcome' = "raised" => faulted']_vars

\* The expression of the call, and what the tables hold that the cache names.
Running == IF stack = <<>> THEN 0 ELSE stack[1].node

Memory ==
    [n \in Nodes |-> IF cache[n] = 0 THEN [node |-> 0, rows |-> "none"] ELSE tables[cache[n]]]

Evaluation == INSTANCE CachedEvaluation WITH
    Expressions <- Nodes,
    Parts <- [n \in Nodes |-> Subtrees(n)],
    Results <- [n \in Nodes |-> [node |-> n, rows |-> "right"]],
    Nothing <- [node |-> 0, rows |-> "none"],
    Idle <- 0,
    running <- Running,
    memory <- Memory,
    answer <- outcome

\* Executions inside each other, over caches, uploads and tables that come and go,
\* implement the evaluation of one expression: only its parts are cached on the way,
\* each once it is complete, an exception leaves what is cached so far and nothing
\* else, and the caller gets the result or the exception (lines 425-566).
ImplementsEvaluation == Evaluation!Spec

\* An execution ends: the factorings, their recursion and the uploads do.
ExecutionsEnd == []<>(stack = <<>>)
=============================================================================
