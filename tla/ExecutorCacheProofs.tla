------------------------ MODULE ExecutorCacheProofs ------------------------
EXTENDS ExecutorCache, PlansProofs, SequenceTheorems

LEMMA LocalsAreNodes == Locals \subseteq Nodes
BY LocalsAssumption DEF Leaves

LEMMA SetsOfNodes ==
    /\ Cached \subseteq Nodes
    /\ \A r, c : Targets(r, c) \subseteq Nodes
    /\ \A r, c : NeedsUpload(r, c) \subseteq Locals /\ Cardinality(NeedsUpload(r, c)) \in Nat
<1>1. Cached \subseteq Nodes
  BY DEF Cached
<1>2. ASSUME NEW r, NEW c PROVE Targets(r, c) \subseteq Nodes
  BY DEF Targets
<1>3. ASSUME NEW r, NEW c
      PROVE  NeedsUpload(r, c) \subseteq Locals /\ Cardinality(NeedsUpload(r, c)) \in Nat
  <2>1. NeedsUpload(r, c) \subseteq Locals
    BY DEF NeedsUpload
  <2>2. IsFiniteSet(Nodes)
    <3>1. NumNodes \in Int /\ 1 \in Int
      BY NodesAssumption
    <3> QED
      BY <3>1, FS_Interval, Zenon DEF Nodes
  <2>3. IsFiniteSet(NeedsUpload(r, c))
    BY <2>1, <2>2, LocalsAreNodes, FS_Subset
  <2> QED
    BY <2>1, <2>3, FS_CardinalityType
<1> QED
  BY <1>1, <1>2, <1>3

LEMMA TypeInit == Init => TypeOK
<1> SUFFICES ASSUME Init PROVE TypeOK
  OBVIOUS
<1>1. stack \in Seq(Frames) /\ Depth = 0 /\ jobs \in Seq(Jobs) /\ DOMAIN jobs = {}
      /\ tables \in Seq([node : Nodes, rows : {"none", "right", "wrong"}])
  BY DEF Init, Depth
<1>2. /\ cache \in [Nodes -> Tables \cup {0}]
      /\ uploaded \in [Locals -> Tables \cup {0}]
  BY DEF Init
<1>3. 0 <= MaxDepth /\ \A d \in 1..(0 - 1) : stack[d].pc = "simplify"
  BY BoundsAssumption
<1>4. /\ multiQuery \in BOOLEAN /\ gone \subseteq Tables
      /\ outcome \in {"none", "right", "wrong", "raised"} /\ faulted \in BOOLEAN
  BY DEF Init
<1>5. calls \in 0..MaxCalls
  BY BoundsAssumption DEF Init
<1> QED
  BY <1>1, <1>2, <1>3, <1>4, <1>5 DEF TypeOK

LEMMA NewFrame == \A n \in Nodes, c \in BOOLEAN : Frame(n, c) \in Frames
BY BoundsAssumption DEF Frame, Frames

\* The innermost execution and the stack with another one in its place.
LEMMA TopTypes ==
    ASSUME TypeOK, stack # <<>>
    PROVE  /\ Top \in Frames /\ Depth \in Nat /\ Depth >= 1 /\ Depth \in DOMAIN stack
           /\ Top.node \in Nodes /\ Top.target \in Tables \cup {0}
           /\ Top.waits \subseteq DOMAIN jobs /\ Top.reads \in [Nodes -> Tables \cup {0}]
<1>1. Depth \in Nat /\ Depth >= 1 /\ Depth \in DOMAIN stack /\ stack[Depth] \in Frames
  BY DEF TypeOK, Depth
<1> QED
  BY <1>1 DEF Top, Frames

LEMMA ReplaceLast ==
    ASSUME NEW F, NEW q \in Seq(F), q # <<>>, NEW f \in F
    PROVE  /\ [q EXCEPT ![Len(q)] = f] \in Seq(F)
           /\ Len([q EXCEPT ![Len(q)] = f]) = Len(q)
           /\ \A d \in 1..Len(q) : [q EXCEPT ![Len(q)] = f][d] = IF d = Len(q) THEN f ELSE q[d]
<1>1. Len(q) \in Nat /\ Len(q) >= 1 /\ DOMAIN q = 1..Len(q)
  OBVIOUS
<1> QED
  BY <1>1

LEMMA AddLast ==
    ASSUME NEW F, NEW q \in Seq(F), NEW f \in F
    PROVE  /\ Append(q, f) \in Seq(F)
           /\ Len(Append(q, f)) = Len(q) + 1
           /\ \A d \in 1..Len(q) : Append(q, f)[d] = q[d]
BY AppendProperties

LEMMA DropLast ==
    ASSUME NEW F, NEW q \in Seq(F), q # <<>>
    PROVE  /\ SubSeq(q, 1, Len(q) - 1) \in Seq(F)
           /\ Len(SubSeq(q, 1, Len(q) - 1)) = Len(q) - 1
           /\ \A d \in 1..(Len(q) - 1) : SubSeq(q, 1, Len(q) - 1)[d] = q[d]
<1>1. Len(q) \in Nat /\ Len(q) >= 1 /\ \A i \in 1..(Len(q) - 1) : q[i] \in F
  OBVIOUS
<1> DEFINE n == Len(q) - 1
<1>2. n \in Int /\ 1 \in Int /\ n >= 0
  BY <1>1
<1> HIDE DEF n
<1>3. /\ SubSeq(q, 1, n) \in Seq(F) /\ Len(SubSeq(q, 1, n)) = IF 1 <= n THEN n - 1 + 1 ELSE 0
      /\ \A d \in 1..(n - 1 + 1) : SubSeq(q, 1, n)[d] = q[1 + d - 1]
  BY <1>1, <1>2, SubSeqProperties DEF n
<1>4. Len(SubSeq(q, 1, n)) = n /\ \A d \in 1..n : SubSeq(q, 1, n)[d] = q[d]
  BY <1>2, <1>3
<1> QED
  BY <1>3, <1>4 DEF n

\* The innermost execution goes on, with frames of the types F.
LEMMA SetTopTypes ==
    ASSUME TypeOK, stack # <<>>, NEW F, stack \in Seq(F), NEW f \in F, SetTop(f)
    PROVE  /\ stack' \in Seq(F) /\ Depth' = Depth /\ Top' = f /\ stack' # <<>>
           /\ \A d \in 1..(Depth - 1) : stack'[d].pc = "simplify"
<1>1. Depth \in Nat /\ Depth >= 1
  BY TopTypes
<1>2. stack' \in Seq(F) /\ Len(stack') = Len(stack)
  BY ReplaceLast DEF SetTop, Depth
<1>3. \A d \in 1..Depth : stack'[d] = IF d = Depth THEN f ELSE stack[d]
  BY ReplaceLast DEF SetTop, Depth
<1>4. \A d \in 1..(Depth - 1) : stack[d].pc = "simplify" /\ d \in 1..Depth /\ d # Depth
  BY <1>1 DEF TypeOK
<1>5. Depth' = Depth /\ Top' = f /\ stack' # <<>>
  BY <1>1, <1>2, <1>3 DEF Depth, Top
<1> QED
  BY <1>2, <1>3, <1>4, <1>5

\* What was well-typed stays so when there are more tables and more jobs.
LEMMA MoreTypes ==
    ASSUME Tables \subseteq Tables', DOMAIN jobs \subseteq DOMAIN jobs'
    PROVE  /\ Frames \subseteq Frames' /\ Jobs \subseteq Jobs'
           /\ Seq(Frames) \subseteq Seq(Frames') /\ Seq(Jobs) \subseteq Seq(Jobs')
<1>1. Frames \subseteq Frames'
  BY DEF Frames
<1>2. Jobs \subseteq Jobs'
  BY DEF Jobs
<1> QED
  BY <1>1, <1>2

LEMMA SameTypes ==
    UNCHANGED <<tables, jobs>> => /\ Tables' = Tables /\ Frames' = Frames /\ Jobs' = Jobs
BY DEF Tables, Frames, Jobs

LEMMA TableTypes ==
    ASSUME TypeOK, NEW r \in [node : Nodes, rows : {"none", "right", "wrong"}],
           tables' = Append(tables, r)
    PROVE  /\ Tables \subseteq Tables' /\ Len(tables') \in Tables' /\ Len(tables') # 0
           /\ Len(tables') \notin Tables
           /\ tables' \in Seq([node : Nodes, rows : {"none", "right", "wrong"}])
           /\ tables'[Len(tables')] = r /\ \A t \in Tables : tables'[t] = tables[t]
BY DEF TypeOK, Tables

StackOK == /\ stack \in Seq(Frames) /\ Depth <= MaxDepth
           /\ \A d \in 1..(Depth - 1) : stack[d].pc = "simplify"

\* Steps of the innermost execution that make neither tables nor jobs.
LEMMA QuietTop ==
    ASSUME TypeOK, stack # <<>>, NEW f \in Frames, SetTop(f), UNCHANGED <<tables, jobs>>
    PROVE  StackOK'
<1>1. stack \in Seq(Frames) /\ Frames' = Frames
  BY SameTypes DEF TypeOK
<1> QED
  BY <1>1, SetTopTypes DEF StackOK, TypeOK

LEMMA RaiseTypes == ASSUME TypeOK, Raise PROVE StackOK' /\ outcome' = "raised"
<1>1. stack' = <<>> /\ stack' \in Seq(Frames') /\ Depth' = 0
  BY DEF Raise, Depth
<1> QED
  BY <1>1, BoundsAssumption DEF StackOK, Raise

\* The loader's thread changes one job.
LEMMA JobParts ==
    ASSUME NEW J, NEW q \in Seq(J), NEW j \in DOMAIN q, NEW f
    PROVE  /\ DOMAIN [q EXCEPT ![j] = f] = DOMAIN q
           /\ [q EXCEPT ![j] = f][j] = f
           /\ \A i \in DOMAIN q \ {j} : [q EXCEPT ![j] = f][i] = q[i]
           /\ f \in J => [q EXCEPT ![j] = f] \in Seq(J)
OBVIOUS

LEMMA TypeStep == TypeOK /\ [Next]_vars => TypeOK'
<1> SUFFICES ASSUME TypeOK, [Next]_vars PROVE TypeOK'
  OBVIOUS
<1> USE DEF callVars, cacheVars, endVars
<1>1. CASE EndSimplify
  <2>1. [Top EXCEPT !.pc = "substitute"] \in Frames /\ stack # <<>>
    BY <1>1, TopTypes DEF EndSimplify, At, Frames
  <2>2. StackOK'
    BY <1>1, <2>1, QuietTop DEF EndSimplify, Goto
  <2> QED
    BY <1>1, <2>2, SameTypes DEF EndSimplify, TypeOK, StackOK
<1>2. CASE CacheSubtree
  <2> DEFINE f == [Top EXCEPT !.rounds = @ + 1]
             s == [stack EXCEPT ![Depth] = f]
  <2>1. PICK n \in Targets(Top.node, Cached) : stack' = Append(s, Frame(n, TRUE))
    BY <1>2 DEF CacheSubtree
  <2>2. stack # <<>> /\ Top.pc = "simplify" /\ Top.rounds < MaxFactorings /\ Depth < MaxDepth
    BY <1>2 DEF CacheSubtree, TooComplex, At
  <2>3. stack \in Seq(Frames) /\ Depth \in Nat /\ Depth >= 1 /\ Top \in Frames
    BY <2>2, TopTypes DEF TypeOK
  <2>4. f \in Frames /\ f.pc = "simplify"
    <3>1. Top.rounds + 1 \in 0..MaxFactorings
      BY <2>2, <2>3, BoundsAssumption DEF Frames
    <3> QED
      BY <2>2, <2>3, <3>1 DEF Frames
  <2> HIDE DEF f
  <2>5. /\ s \in Seq(Frames) /\ Len(s) = Depth
        /\ \A d \in 1..Depth : s[d] = IF d = Depth THEN f ELSE stack[d]
    BY <2>2, <2>3, <2>4, ReplaceLast DEF Depth
  <2>6. \A d \in 1..Depth : s[d].pc = "simplify"
    BY <2>3, <2>4, <2>5 DEF TypeOK
  <2>7. Frame(n, TRUE) \in Frames
    BY NewFrame, SetsOfNodes
  <2> HIDE DEF s
  <2>8. /\ stack' \in Seq(Frames) /\ Len(stack') = Depth + 1
        /\ \A d \in 1..Depth : stack'[d] = s[d]
    <3> DEFINE e == Frame(n, TRUE)
    <3>1. e \in Frames
      BY <2>7
    <3> HIDE DEF e
    <3>2. /\ Append(s, e) \in Seq(Frames) /\ Len(Append(s, e)) = Depth + 1
          /\ \A d \in 1..Depth : Append(s, e)[d] = s[d]
      BY <2>5, <3>1, AddLast
    <3> QED
      BY <2>1, <3>2 DEF e
  <2>9. \A d \in 1..Depth : stack'[d].pc = "simplify"
    BY <2>6, <2>8
  <2>10. Frames' = Frames /\ Depth' = Depth + 1
    BY <1>2, <2>8, SameTypes DEF CacheSubtree, Depth
  <2>11. StackOK'
    BY <2>2, <2>3, <2>8, <2>9, <2>10, BoundsAssumption DEF StackOK
  <2> QED
    BY <1>2, <2>11, SameTypes DEF CacheSubtree, TypeOK, StackOK
<1>3. CASE NoTarget \/ RecursionError
  BY <1>3, RaiseTypes, SameTypes DEF NoTarget, RecursionError, TypeOK, StackOK
<1>4. CASE Substitute
  <2> DEFINE leaves == NeedsUpload(Top.node, Cached)
             news == (Len(jobs) + 1)..(Len(jobs) + Cardinality(leaves))
  <2>1. PICK leaf \in Bijection(news, leaves) :
          /\ jobs' = jobs \o [i \in 1..Cardinality(leaves) |->
                                [leaf |-> leaf[Len(jobs) + i], state |-> "waiting", table |-> 0]]
          /\ SetTop([Top EXCEPT !.pc = "upload", !.waits = news,
                       !.reads = [n \in Nodes |-> IF n \in Substituted(Top.node, Cached)
                                                  THEN cache[n] ELSE 0]])
    BY <1>4 DEF Substitute
  <2>2. stack # <<>> /\ jobs \in Seq(Jobs) /\ leaves \subseteq Locals /\ Cardinality(leaves) \in Nat
    BY <1>4, SetsOfNodes DEF Substitute, At, TypeOK
  <2>3. leaf \in [news -> leaves]
    BY DEF Bijection, Injection
  <2>4. \A i \in 1..Cardinality(leaves) : leaf[Len(jobs) + i] \in Locals
    BY <2>2, <2>3
  <2> HIDE DEF leaves
  <2>5. [i \in 1..Cardinality(leaves) |->
           [leaf |-> leaf[Len(jobs) + i], state |-> "waiting", table |-> 0]]
          \in Seq({j \in Jobs : j.state = "waiting"})
    <3>1. \A i \in 1..Cardinality(leaves) :
            [leaf |-> leaf[Len(jobs) + i], state |-> "waiting", table |-> 0]
              \in {j \in Jobs : j.state = "waiting"}
      BY <2>4 DEF Jobs
    <3> QED
      BY <2>2, <3>1
  <2>6. /\ jobs' \in Seq(Jobs) /\ DOMAIN jobs' = 1..(Len(jobs) + Cardinality(leaves))
        /\ \A j \in DOMAIN jobs' : jobs'[j].state = "done" => j \in DOMAIN jobs /\ jobs'[j] = jobs[j]
    BY <2>1, <2>2, <2>5
  <2>7. news \subseteq DOMAIN jobs' /\ DOMAIN jobs \subseteq DOMAIN jobs' /\ Tables' = Tables
    <3>1. Len(jobs) \in Nat /\ DOMAIN jobs = 1..Len(jobs)
      BY <2>2
    <3>2. Tables' = Tables
      BY <1>4 DEF Substitute, Tables
    <3> QED
      BY <2>2, <2>6, <3>1, <3>2
  <2>8. Top \in Frames'
    BY <2>2, <2>7, MoreTypes, TopTypes
  <2>9. [Top EXCEPT !.pc = "upload", !.waits = news,
           !.reads = [n \in Nodes |-> IF n \in Substituted(Top.node, Cached)
                                      THEN cache[n] ELSE 0]] \in Frames'
    BY <2>7, <2>8 DEF Frames, TypeOK
  <2>10. stack \in Seq(Frames')
    BY <2>7, MoreTypes DEF TypeOK
  <2>11. StackOK'
    BY <2>1, <2>2, <2>9, <2>10, SetTopTypes DEF StackOK, TypeOK
  <2> QED
    <3>1. \A j \in DOMAIN jobs' : jobs'[j].state = "done" => jobs'[j].table # 0
      BY <2>6 DEF TypeOK
    <3>2. jobs' \in Seq(Jobs')
      BY <2>6, <2>7, MoreTypes
    <3>3. UNCHANGED <<callVars, cacheVars, tables, gone, endVars>>
      BY <1>4 DEF Substitute
    <3> QED
      BY <2>7, <2>11, <3>1, <3>2, <3>3 DEF TypeOK, StackOK
<1>5. ASSUME NEW j \in DOMAIN jobs, CollectUpload(j) PROVE TypeOK'
  <2>1. stack # <<>> /\ jobs[j] \in Jobs /\ jobs[j].state = "done"
    BY <1>5 DEF CollectUpload, At, TypeOK
  <2>2. jobs[j].leaf \in Locals /\ jobs[j].table \in Tables \cup {0}
    BY <2>1 DEF Jobs
  <2>3. [Top EXCEPT !.waits = @ \ {j}] \in Frames
    BY <2>1, TopTypes DEF Frames
  <2>4. StackOK'
    BY <1>5, <2>1, <2>3, QuietTop DEF CollectUpload
  <2> QED
    BY <1>5, <2>2, <2>4, SameTypes DEF CollectUpload, TypeOK, StackOK
<1>6. ASSUME NEW j \in DOMAIN jobs, CollectFailure(j) PROVE TypeOK'
  <2>1. /\ jobs' = [i \in DOMAIN jobs |->
                      IF i \in Top.waits /\ jobs[i].state = "waiting"
                      THEN [jobs[i] EXCEPT !.state = "cancelled"] ELSE jobs[i]]
        /\ Raise /\ faulted' = TRUE
    BY <1>6 DEF CollectFailure, ServiceFails
  <2>2. StackOK' /\ outcome' = "raised"
    BY <2>1, RaiseTypes
  <2>3. jobs \in Seq(Jobs) /\ Tables' = Tables /\ Jobs' = Jobs
    BY <1>6 DEF CollectFailure, TypeOK, Tables, Jobs
  <2>4. \A i \in DOMAIN jobs : jobs'[i] \in Jobs /\ (jobs'[i].state = "done" => jobs'[i] = jobs[i])
    <3>1. ASSUME NEW i \in DOMAIN jobs, i \in Top.waits /\ jobs[i].state = "waiting"
          PROVE  jobs'[i] \in Jobs /\ jobs'[i].state = "cancelled"
      <4>1. jobs[i] \in Jobs
        BY <2>3
      <4>2. jobs'[i] = [jobs[i] EXCEPT !.state = "cancelled"]
        BY <2>1, <3>1
      <4> QED
        BY <4>1, <4>2 DEF Jobs
    <3>2. ASSUME NEW i \in DOMAIN jobs, ~(i \in Top.waits /\ jobs[i].state = "waiting")
          PROVE  jobs'[i] \in Jobs /\ jobs'[i] = jobs[i]
      BY <2>1, <2>3, <3>2
    <3> QED
      BY <3>1, <3>2
  <2>5. jobs' \in Seq(Jobs) /\ DOMAIN jobs' = DOMAIN jobs
    <3>1. Len(jobs) \in Nat /\ DOMAIN jobs = 1..Len(jobs)
      BY <2>3
    <3>2. jobs' \in [1..Len(jobs) -> Jobs]
      BY <2>1, <2>4, <3>1
    <3> QED
      BY <2>1, <3>1, <3>2
  <2> QED
    BY <1>6, <2>1, <2>2, <2>3, <2>4, <2>5 DEF CollectFailure, TypeOK, StackOK
<1>7. CASE EndUpload
  <2> DEFINE f == [Top EXCEPT !.pc = "create",
                     !.reads = [n \in Nodes |-> IF n \in NeedsUpload(Top.node, Cached)
                                                THEN uploaded[n] ELSE Top.reads[n]]]
  <2>1. stack # <<>> /\ SetTop(f)
    BY <1>7 DEF EndUpload, At
  <2>2. f \in Frames
    BY <2>1, TopTypes, SetsOfNodes DEF Frames, TypeOK
  <2>3. StackOK'
    BY <1>7, <2>1, <2>2, QuietTop DEF EndUpload
  <2> QED
    BY <1>7, <2>3, SameTypes DEF EndUpload, TypeOK, StackOK
<1>8. CASE CreateTable
  <2> DEFINE f == [Top EXCEPT !.pc = "query", !.target = Len(tables')]
  <2>1. stack # <<>> /\ SetTop(f) /\ Top.node \in Nodes
    BY <1>8, TopTypes DEF CreateTable, At
  <2>2. /\ Tables \subseteq Tables' /\ Len(tables') \in Tables'
        /\ tables' \in Seq([node : Nodes, rows : {"none", "right", "wrong"}])
    <3>1. [node |-> Top.node, rows |-> "none"] \in [node : Nodes, rows : {"none", "right", "wrong"}]
      BY <2>1
    <3> QED
      BY <1>8, <3>1, TableTypes DEF CreateTable
  <2>3. jobs' = jobs /\ DOMAIN jobs' = DOMAIN jobs
    BY <1>8 DEF CreateTable
  <2>4. f \in Frames' /\ stack \in Seq(Frames')
    <3>1. Top \in Frames'
      BY <2>1, <2>2, <2>3, MoreTypes, TopTypes
    <3> QED
      BY <2>2, <2>3, <3>1, MoreTypes DEF Frames, TypeOK
  <2>5. StackOK'
    BY <2>1, <2>4, SetTopTypes DEF StackOK, TypeOK
  <2>6. jobs \in Seq(Jobs')
    BY <2>2, <2>3, MoreTypes DEF TypeOK
  <2> QED
    BY <1>8, <2>2, <2>3, <2>5, <2>6 DEF CreateTable, TypeOK, StackOK
<1>9. CASE RunWithoutTable
  <2>1. [Top EXCEPT !.pc = "query"] \in Frames /\ stack # <<>>
    BY <1>9, TopTypes DEF RunWithoutTable, At, Frames
  <2>2. StackOK'
    BY <1>9, <2>1, QuietTop DEF RunWithoutTable, Goto
  <2> QED
    BY <1>9, <2>2, SameTypes DEF RunWithoutTable, TypeOK, StackOK
<1>10. CASE Query
  <2>1. [Top EXCEPT !.pc = "return"] \in Frames /\ stack # <<>>
    BY <1>10, TopTypes DEF Query, At, Frames
  <2>2. /\ tables' = [t \in Tables |-> IF t = Top.target
                                       THEN [tables[t] EXCEPT !.rows = RowsOf(Top.reads)]
                                       ELSE tables[t]]
        /\ jobs' = jobs /\ SetTop([Top EXCEPT !.pc = "return"])
    BY <1>10 DEF Query, Goto
  <2>3. RowsOf(Top.reads) \in {"none", "right", "wrong"}
    BY DEF RowsOf
  <2>4. /\ Tables' = Tables
        /\ tables' \in Seq([node : Nodes, rows : {"none", "right", "wrong"}])
    <3> DEFINE Row == [node : Nodes, rows : {"none", "right", "wrong"}]
    <3>0. tables \in Seq(Row)
      BY DEF TypeOK
    <3> HIDE DEF Row
    <3>1. Len(tables) \in Nat /\ Tables = 1..Len(tables)
      BY <3>0 DEF Tables
    <3>2. \A t \in Tables : tables[t] \in Row
      BY <3>0 DEF Tables
    <3>3. \A t \in Tables : tables'[t] \in Row
      BY <2>2, <2>3, <3>2 DEF Row
    <3>4. tables' \in [1..Len(tables) -> Row]
      BY <2>2, <3>1, <3>3
    <3>5. tables' \in Seq(Row) /\ Tables' = Tables
      BY <2>2, <3>1, <3>4 DEF Tables
    <3> QED
      BY <3>5 DEF Row
  <2>5. Frames' = Frames /\ Jobs' = Jobs
    BY <2>2, <2>4 DEF Frames, Jobs
  <2>6. StackOK'
    BY <2>1, <2>2, <2>5, SetTopTypes DEF StackOK, TypeOK
  <2> QED
    BY <1>10, <2>2, <2>4, <2>5, <2>6 DEF Query, TypeOK, StackOK
<1>11. CASE FailRequest
  BY <1>11, RaiseTypes, SameTypes DEF FailRequest, ServiceFails, TypeOK, StackOK
<1>12. CASE Return
  <2>1. stack # <<>> /\ stack' = SubSeq(stack, 1, Depth - 1) /\ UNCHANGED <<tables, jobs>>
    BY <1>12 DEF Return, At
  <2>2. /\ Depth \in Nat /\ Depth >= 1 /\ Top.node \in Nodes
        /\ Top.target \in Tables \cup {0} /\ Depth <= MaxDepth
    BY <2>1, TopTypes DEF TypeOK
  <2>3. /\ stack' \in Seq(Frames) /\ Depth' = Depth - 1
        /\ \A d \in 1..(Depth - 1) : stack'[d] = stack[d]
    BY <2>1, DropLast DEF TypeOK, Depth
  <2>4. StackOK'
    <3>1. Depth - 1 <= MaxDepth /\ 1..(Depth - 1 - 1) \subseteq 1..(Depth - 1)
      BY <2>2, BoundsAssumption
    <3>2. \A d \in 1..(Depth - 1 - 1) : stack'[d].pc = "simplify"
      BY <2>3, <3>1 DEF TypeOK
    <3> QED
      BY <2>1, <2>3, <3>1, <3>2, SameTypes DEF StackOK
  <2>5. cache' \in [Nodes -> Tables \cup {0}]
    BY <1>12, <2>2 DEF Return, TypeOK
  <2>6. outcome' \in {"none", "right", "wrong", "raised"}
    <3>1. ASSUME Top.target # 0 PROVE tables[Top.target].rows \in {"none", "right", "wrong"}
      <4> DEFINE Row == [node : Nodes, rows : {"none", "right", "wrong"}]
      <4>0. tables \in Seq(Row)
        BY DEF TypeOK
      <4> HIDE DEF Row
      <4>1. tables[Top.target] \in Row
        BY <2>2, <3>1, <4>0 DEF Tables
      <4> QED
        BY <4>1 DEF Row
    <3> QED
      BY <1>12, <3>1 DEF Return, RowsOf, TypeOK
  <2> QED
    BY <1>12, <2>1, <2>4, <2>5, <2>6, SameTypes DEF Return, TypeOK, StackOK
<1>13. ASSUME NEW j \in DOMAIN jobs, StartUpload(j) \/ FailUpload(j) PROVE TypeOK'
  <2>1. PICK st \in {"running", "failed"} : jobs' = [jobs EXCEPT ![j].state = st]
    BY <1>13 DEF StartUpload, FailUpload
  <2>2. /\ UNCHANGED <<callVars, stack, cacheVars, tables, gone, endVars>>
        /\ Tables' = Tables /\ Jobs' = Jobs
    BY <1>13 DEF StartUpload, FailUpload, Tables, Jobs
  <2>3. /\ jobs' \in Seq(Jobs) /\ DOMAIN jobs' = DOMAIN jobs
        /\ \A i \in DOMAIN jobs : jobs'[i].state = "done" => jobs'[i] = jobs[i]
    <3>1. jobs[j] \in Jobs /\ jobs \in Seq(Jobs)
      BY DEF TypeOK
    <3>2. [jobs[j] EXCEPT !.state = st] \in Jobs /\ [jobs[j] EXCEPT !.state = st].state # "done"
      BY <3>1 DEF Jobs
    <3> QED
      BY <2>1, <3>1, <3>2, JobParts
  <2>4. Frames' = Frames
    BY <2>2, <2>3 DEF Frames
  <2> QED
    BY <2>2, <2>3, <2>4 DEF TypeOK, Depth
<1>14. ASSUME NEW j \in DOMAIN jobs, FinishUpload(j) PROVE TypeOK'
  <2>1. jobs' = [jobs EXCEPT ![j].state = "done", ![j].table = Len(tables')]
    BY <1>14 DEF FinishUpload
  <2>2. /\ Tables \subseteq Tables' /\ Len(tables') \in Tables' /\ Len(tables') # 0
        /\ tables' \in Seq([node : Nodes, rows : {"none", "right", "wrong"}])
    <3>1. jobs[j] \in Jobs
      BY DEF TypeOK
    <3>2. [node |-> jobs[j].leaf, rows |-> "right"] \in [node : Nodes, rows : {"none", "right", "wrong"}]
      BY <3>1, LocalsAreNodes DEF Jobs
    <3> QED
      BY <1>14, <3>2, TableTypes DEF FinishUpload
  <2>3. /\ DOMAIN jobs' = DOMAIN jobs /\ jobs'[j].table = Len(tables')
        /\ \A i \in DOMAIN jobs \ {j} : jobs'[i] = jobs[i]
    <3>1. jobs[j] \in Jobs /\ jobs \in Seq(Jobs)
      BY DEF TypeOK
    <3>2. [jobs[j] EXCEPT !.state = "done", !.table = Len(tables')].table = Len(tables')
      BY <3>1 DEF Jobs
    <3> QED
      BY <2>1, <3>1, <3>2, JobParts
  <2>4. jobs' \in Seq(Jobs')
    <3>1. jobs \in Seq(Jobs')
      BY <2>2, <2>3, MoreTypes DEF TypeOK
    <3>2. jobs[j] \in Jobs'
      BY <3>1
    <3>3. [jobs[j] EXCEPT !.state = "done", !.table = Len(tables')] \in Jobs'
      BY <2>2, <3>2 DEF Jobs
    <3>4. jobs' = [jobs EXCEPT ![j] = [jobs[j] EXCEPT !.state = "done", !.table = Len(tables')]]
      BY <2>1
    <3> QED
      BY <3>1, <3>3, <3>4, JobParts
  <2>5. Frames \subseteq Frames' /\ Seq(Frames) \subseteq Seq(Frames')
    BY <2>2, <2>3, MoreTypes
  <2> QED
    BY <1>14, <2>2, <2>3, <2>4, <2>5 DEF FinishUpload, TypeOK, Depth
<1>15. ASSUME NEW n \in Nodes, NEW c \in BOOLEAN, Call(n, c) PROVE TypeOK'
  <2>1. /\ stack' = <<Frame(n, c)>> /\ calls' = calls + 1 /\ calls < MaxCalls
        /\ UNCHANGED <<tables, jobs>>
    BY <1>15 DEF Call, Begin
  <2>2. stack' \in Seq(Frames) /\ Depth' = 1
    <3>1. Frame(n, c) \in Frames
      BY NewFrame
    <3> QED
      BY <2>1, <3>1 DEF Depth
  <2>3. StackOK'
    BY <2>1, <2>2, SameTypes, BoundsAssumption DEF StackOK
  <2>4. calls' \in 0..MaxCalls
    BY <2>1, BoundsAssumption DEF TypeOK
  <2> QED
    BY <1>15, <2>1, <2>3, <2>4, SameTypes DEF Call, TypeOK, StackOK
<1>16. ASSUME NEW n \in Nodes, ReadCachedTable(n) PROVE TypeOK'
  <2>1. calls' \in 0..MaxCalls
    BY <1>16, BoundsAssumption DEF ReadCachedTable, Begin, TypeOK
  <2>2. outcome' \in {"none", "right", "wrong", "raised"} /\ faulted' \in BOOLEAN
    BY <1>16 DEF ReadCachedTable, RowsOf
  <2> QED
    BY <1>16, <2>1, <2>2, SameTypes DEF ReadCachedTable, TypeOK, Depth
<1>17. ASSUME NEW n \in Nodes, Forget(n) PROVE TypeOK'
  BY <1>17, SameTypes DEF Forget, TypeOK, Depth
<1>18. CASE Close
  BY <1>18, SameTypes DEF Close, TypeOK, Depth
<1>19. CASE UNCHANGED vars
  BY <1>19, SameTypes DEF vars, TypeOK, Depth
<1> QED
  BY <1>1, <1>2, <1>3, <1>4, <1>5, <1>6, <1>7, <1>8, <1>9, <1>10, <1>11, <1>12, <1>13,
     <1>14, <1>15, <1>16, <1>17, <1>18, <1>19
     DEF Next, ExecutorStep, LoaderStep, UserStep

\* The stack and the caches are of their types: they name tables of the session, the
\* recursion stays below its limit and every execution but the innermost one is in
\* its simplification (bq_caching_executor.py:481-511).
THEOREM TypeCorrect == Spec => []TypeOK
BY TypeInit, TypeStep, PTL DEF Spec
----------------------------------------------------------------------------
(* The answers: in the tables `ts`, table t is the complete result of n.    *)

Right(t, n, ts) == t \in DOMAIN ts /\ ts[t] = [node |-> n, rows |-> "right"]

CachesRight ==
    /\ \A n \in Nodes : cache[n] # 0 => Right(cache[n], n, tables)
    /\ \A n \in Locals : uploaded[n] # 0 => Right(uploaded[n], n, tables)
    /\ \A j \in DOMAIN jobs : jobs[j].state = "done" => Right(jobs[j].table, jobs[j].leaf, tables)

ReadsRight(reads, ts) == \A m \in Nodes : reads[m] # 0 => Right(reads[m], m, ts)

\* An execution reads the results of the nodes it replaced and fills a table of its own.
FrameRight(f, ts) ==
    /\ f.pc \notin {"query", "return"} => f.target = 0
    /\ f.pc \notin {"simplify", "substitute"} => ReadsRight(f.reads, ts)
    /\ f.pc \in {"query", "return"} /\ f.caches => f.target # 0
    /\ f.pc = "query" /\ f.target # 0 => ts[f.target].node = f.node
    /\ f.pc = "return" /\ f.target # 0 => Right(f.target, f.node, ts)

FramesRight == \A d \in 1..Depth : FrameRight(stack[d], tables)

RInv == TypeOK /\ CachesRight /\ FramesRight /\ outcome # "wrong"

\* The tables `us` hold what the tables `ts` held.
Kept(ts, us) ==
    /\ DOMAIN ts \subseteq DOMAIN us
    /\ \A t \in DOMAIN ts : us[t].node = ts[t].node /\ (ts[t].rows = "right" => us[t] = ts[t])

LEMMA StaysRight ==
    ASSUME NEW ts, NEW us, Kept(ts, us), NEW t, NEW n, Right(t, n, ts)
    PROVE  Right(t, n, us)
BY DEF Kept, Right

LEMMA FrameStaysRight ==
    ASSUME NEW ts, NEW us, Kept(ts, us), NEW f, f.target \in DOMAIN ts \cup {0}, FrameRight(f, ts)
    PROVE  FrameRight(f, us)
<1>1. ReadsRight(f.reads, ts) => ReadsRight(f.reads, us)
  BY StaysRight DEF ReadsRight
<1>2. f.target # 0 /\ Right(f.target, f.node, ts) => Right(f.target, f.node, us)
  BY StaysRight
<1>3. f.target # 0 /\ ts[f.target].node = f.node => us[f.target].node = f.node
  BY DEF Kept
<1> QED
  BY <1>1, <1>2, <1>3 DEF FrameRight

LEMMA RightReads ==
    ASSUME NEW reads, ReadsRight(reads, tables) PROVE RowsOf(reads) = "right"
BY DEF ReadsRight, Right, RowsOf

LEMMA RowTypes ==
    ASSUME TypeOK
    PROVE  \A t \in Tables : \E n \in Nodes, x \in {"none", "right", "wrong"} :
                            tables[t] = [node |-> n, rows |-> x]
<1> DEFINE Row == [node : Nodes, rows : {"none", "right", "wrong"}]
<1>1. tables \in Seq(Row)
  BY DEF TypeOK
<1>2. \A x \in Row : \E n \in Nodes, y \in {"none", "right", "wrong"} :
                     x = [node |-> n, rows |-> y]
  OBVIOUS
<1> HIDE DEF Row
<1>3. \A t \in Tables : tables[t] \in Row
  BY <1>1 DEF Tables
<1> QED
  BY <1>2, <1>3

LEMMA SameTables == tables' = tables => Kept(tables, tables')
BY DEF Kept

LEMMA NewTable ==
    ASSUME TypeOK, NEW r \in [node : Nodes, rows : {"none", "right", "wrong"}],
           tables' = Append(tables, r)
    PROVE  Kept(tables, tables')
BY TableTypes DEF Kept, Tables

\* What the caches hold stays right.
LEMMA CachesStay ==
    ASSUME CachesRight, Kept(tables, tables')
    PROVE  /\ \A n \in Nodes : cache[n] # 0 => Right(cache[n], n, tables')
           /\ \A n \in Locals : uploaded[n] # 0 => Right(uploaded[n], n, tables')
           /\ \A j \in DOMAIN jobs :
                jobs[j].state = "done" => Right(jobs[j].table, jobs[j].leaf, tables')
BY StaysRight DEF CachesRight

LEMMA QuietCaches ==
    ASSUME CachesRight, Kept(tables, tables'), UNCHANGED <<cache, uploaded, jobs>>
    PROVE  CachesRight'
BY CachesStay DEF CachesRight

LEMMA FramesStay ==
    ASSUME TypeOK, FramesRight, Kept(tables, tables')
    PROVE  \A d \in 1..Depth : FrameRight(stack[d], tables')
<1> SUFFICES ASSUME NEW d \in 1..Depth PROVE FrameRight(stack[d], tables')
  OBVIOUS
<1>1. stack[d] \in Frames
  BY DEF TypeOK, Depth
<1>2. stack[d].target \in DOMAIN tables \cup {0}
  BY <1>1 DEF Frames, Tables
<1> QED
  BY <1>2, FrameStaysRight DEF FramesRight

LEMMA TopRight == ASSUME TypeOK, stack # <<>>, FramesRight PROVE FrameRight(Top, tables)
<1>1. Depth \in 1..Depth
  BY TopTypes
<1> QED
  BY <1>1 DEF FramesRight, Top

LEMMA SetTopRight ==
    ASSUME TypeOK, FramesRight, Kept(tables, tables'), stack # <<>>,
           NEW f, SetTop(f), FrameRight(f, tables')
    PROVE  FramesRight'
<1>1. Depth' = Depth /\ \A d \in 1..Depth : stack'[d] = IF d = Depth THEN f ELSE stack[d]
  BY DEF SetTop, Depth, TypeOK
<1> QED
  BY <1>1, FramesStay DEF FramesRight

LEMMA RaiseRight == Raise => FramesRight' /\ outcome' # "wrong"
<1> SUFFICES ASSUME Raise PROVE FramesRight' /\ outcome' # "wrong"
  OBVIOUS
<1>1. Depth' = 0 /\ outcome' = "raised"
  BY DEF Raise, Depth
<1> QED
  BY <1>1 DEF FramesRight

\* A query writes complete rows, into a table of its node.
LEMMA QueryFills ==
    ASSUME TypeOK, FramesRight, Query
    PROVE  Kept(tables, tables') /\ (Top.target # 0 => Right(Top.target, Top.node, tables'))
<1>1. /\ stack # <<>> /\ Top.pc = "query"
      /\ tables' = [t \in Tables |-> IF t = Top.target
                                     THEN [tables[t] EXCEPT !.rows = RowsOf(Top.reads)]
                                     ELSE tables[t]]
  BY DEF Query, At
<1>2. FrameRight(Top, tables) /\ Top.target \in Tables \cup {0}
  BY <1>1, TopRight, TopTypes
<1>3. RowsOf(Top.reads) = "right"
  BY <1>1, <1>2, RightReads DEF FrameRight
<1>4. ASSUME NEW t \in Tables
      PROVE  [tables[t] EXCEPT !.rows = "right"] = [node |-> tables[t].node, rows |-> "right"]
  <2>1. PICK n \in Nodes, x \in {"none", "right", "wrong"} : tables[t] = [node |-> n, rows |-> x]
    BY RowTypes
  <2> QED
    BY <2>1
<1>5. /\ DOMAIN tables' = Tables
      /\ \A t \in Tables : tables'[t] = IF t = Top.target
                                       THEN [node |-> tables[t].node, rows |-> "right"]
                                       ELSE tables[t]
  BY <1>1, <1>3, <1>4
<1>6. ASSUME NEW t \in Tables
      PROVE  tables'[t].node = tables[t].node /\ (tables[t].rows = "right" => tables'[t] = tables[t])
  <2>1. PICK n \in Nodes, x \in {"none", "right", "wrong"} : tables[t] = [node |-> n, rows |-> x]
    BY RowTypes
  <2> QED
    BY <1>5, <2>1
<1>7. Kept(tables, tables')
  BY <1>5, <1>6 DEF Kept, Tables
<1>8. Top.target # 0 => Right(Top.target, Top.node, tables')
  BY <1>1, <1>2, <1>5 DEF Right, FrameRight
<1> QED
  BY <1>7, <1>8

LEMMA RightInit == Init => RInv
<1> SUFFICES ASSUME Init PROVE RInv
  OBVIOUS
<1>1. Depth = 0 /\ DOMAIN jobs = {}
  BY DEF Init, Depth
<1> QED
  BY <1>1, TypeInit DEF Init, RInv, CachesRight, FramesRight

LEMMA RightStep == RInv /\ [Next]_vars => RInv'
<1> SUFFICES ASSUME RInv, [Next]_vars PROVE RInv'
  OBVIOUS
<1>0. TypeOK /\ TypeOK' /\ CachesRight /\ FramesRight /\ outcome # "wrong"
  BY TypeStep DEF RInv
<1> USE DEF callVars, cacheVars, endVars
<1> SUFFICES CachesRight' /\ FramesRight' /\ outcome' # "wrong"
  BY <1>0 DEF RInv
<1>1. CASE EndSimplify
  <2>1. stack # <<>> /\ Top.pc = "simplify" /\ SetTop([Top EXCEPT !.pc = "substitute"])
        /\ UNCHANGED <<cache, uploaded, jobs, tables, outcome>>
    BY <1>1 DEF EndSimplify, At, Goto
  <2>2. FrameRight([Top EXCEPT !.pc = "substitute"], tables)
    BY <1>0, <2>1, TopRight, TopTypes DEF FrameRight, Frames
  <2> QED
    BY <1>0, <2>1, <2>2, SameTables, SetTopRight, QuietCaches
<1>2. CASE CacheSubtree
  <2> DEFINE f == [Top EXCEPT !.rounds = @ + 1]
             s == [stack EXCEPT ![Depth] = f]
  <2>1. PICK n \in Targets(Top.node, Cached) : stack' = Append(s, Frame(n, TRUE))
    BY <1>2 DEF CacheSubtree
  <2>2. stack # <<>> /\ Top.pc = "simplify" /\ UNCHANGED <<cache, uploaded, jobs, tables, outcome>>
    BY <1>2 DEF CacheSubtree, TooComplex, At
  <2>3. stack \in Seq(Frames) /\ Top \in Frames
    BY <1>0, <2>2, TopTypes DEF TypeOK
  <2>4. FrameRight(f, tables)
    BY <1>0, <2>2, <2>3, TopRight DEF FrameRight, Frames
  <2>5. FrameRight(Frame(n, TRUE), tables)
    BY DEF FrameRight, Frame
  <2> HIDE DEF f
  <2>6. DOMAIN s = 1..Depth /\ \A d \in 1..Depth : s[d] = IF d = Depth THEN f ELSE stack[d]
    BY <2>3 DEF Depth
  <2>7. Depth \in Nat /\ Depth' = Depth + 1
        /\ \A d \in 1..(Depth + 1) : stack'[d] = IF d = Depth + 1 THEN Frame(n, TRUE) ELSE s[d]
    <3>1. Depth \in Nat /\ Len(s) = Depth
      BY <2>3, <2>6 DEF Depth
    <3> DEFINE S == {s[d] : d \in 1..Depth} \cup {Frame(n, TRUE)}
    <3>2. s \in [1..Depth -> S] /\ Frame(n, TRUE) \in S
      BY <2>6
    <3> HIDE DEF s, S
    <3>3. s \in Seq(S)
      BY <3>1, <3>2, SeqDef
    <3>4. stack' = Append(s, Frame(n, TRUE))
      BY <2>1
    <3>5. /\ Len(stack') = Len(s) + 1
          /\ \A d \in 1..Len(s) : stack'[d] = s[d]
          /\ stack'[Len(s) + 1] = Frame(n, TRUE)
      <4> DEFINE e == Frame(n, TRUE)
      <4>1. e \in S
        BY <3>2
      <4> HIDE DEF e
      <4>2. /\ Len(Append(s, e)) = Len(s) + 1
            /\ \A d \in 1..Len(s) : Append(s, e)[d] = s[d]
            /\ Append(s, e)[Len(s) + 1] = e
        BY <3>3, <4>1, AppendProperties
      <4> QED
        BY <3>4, <4>2 DEF e
    <3>6. \A d \in 1..(Depth + 1) : d = Depth + 1 \/ d \in 1..Depth
      BY <3>1
    <3> QED
      BY <3>1, <3>5, <3>6 DEF Depth
  <2>8. \A d \in 1..(Depth + 1) : FrameRight(stack'[d], tables)
    <3> HIDE DEF s
    <3> SUFFICES ASSUME NEW d \in 1..(Depth + 1) PROVE FrameRight(stack'[d], tables)
      OBVIOUS
    <3>1. CASE d = Depth + 1
      BY <2>5, <2>7, <3>1
    <3>2. CASE d # Depth + 1
      <4>1. d \in 1..Depth /\ stack'[d] = s[d]
        <5>1. d \in 1..Depth
          BY <2>7, <3>2
        <5> QED
          BY <2>7, <3>2, <5>1
      <4>2. CASE d = Depth
        BY <2>4, <2>6, <4>1, <4>2
      <4>3. CASE d # Depth
        BY <1>0, <2>6, <4>1, <4>3 DEF FramesRight
      <4> QED
        BY <4>2, <4>3
    <3> QED
      BY <3>1, <3>2
  <2> QED
    BY <1>0, <2>2, <2>7, <2>8, SameTables, QuietCaches DEF FramesRight
<1>3. CASE NoTarget \/ RecursionError
  BY <1>0, <1>3, RaiseRight, SameTables, QuietCaches DEF NoTarget, RecursionError
<1>4. CASE Substitute
  <2> DEFINE leaves == NeedsUpload(Top.node, Cached)
             news == (Len(jobs) + 1)..(Len(jobs) + Cardinality(leaves))
             f == [Top EXCEPT !.pc = "upload", !.waits = news,
                     !.reads = [n \in Nodes |-> IF n \in Substituted(Top.node, Cached)
                                                THEN cache[n] ELSE 0]]
  <2>1. PICK leaf \in Bijection(news, leaves) :
          /\ jobs' = jobs \o [i \in 1..Cardinality(leaves) |->
                                [leaf |-> leaf[Len(jobs) + i], state |-> "waiting", table |-> 0]]
          /\ SetTop(f)
    BY <1>4 DEF Substitute
  <2>2. stack # <<>> /\ Top.pc = "substitute" /\ UNCHANGED <<cache, uploaded, tables, outcome>>
    BY <1>4 DEF Substitute, At
  <2>3. \A j \in DOMAIN jobs' :
          jobs'[j].state = "done" => j \in DOMAIN jobs /\ jobs'[j] = jobs[j]
    <3> HIDE DEF leaves
    <3>1. Len(jobs) \in Nat /\ DOMAIN jobs = 1..Len(jobs) /\ Cardinality(leaves) \in Nat
      BY <1>0, SetsOfNodes DEF TypeOK, leaves
    <3> DEFINE new == [i \in 1..Cardinality(leaves) |->
                         [leaf |-> leaf[Len(jobs) + i], state |-> "waiting", table |-> 0]]
    <3>2. Len(new) = Cardinality(leaves) /\ \A i \in 1..Len(new) : new[i].state = "waiting"
      BY <3>1
    <3> HIDE DEF new
    <3>3. \A j \in DOMAIN jobs' :
            IF j \in DOMAIN jobs THEN jobs'[j] = jobs[j]
            ELSE j - Len(jobs) \in 1..Len(new) /\ jobs'[j] = new[j - Len(jobs)]
      BY <2>1, <3>1, <3>2 DEF new
    <3>4. ASSUME NEW j \in DOMAIN jobs', j \notin DOMAIN jobs PROVE jobs'[j].state = "waiting"
      <4>1. PICK i \in 1..Len(new) : jobs'[j] = new[i]
        <5>1. jobs'[j] = new[j - Len(jobs)] /\ j - Len(jobs) \in 1..Len(new)
          BY <3>3, <3>4
        <5> QED
          BY <5>1
      <4> QED
        BY <3>2, <4>1
    <3>5. \A j \in DOMAIN jobs' : j \in DOMAIN jobs \/ jobs'[j].state # "done"
      BY <3>4
    <3>6. \A j \in DOMAIN jobs' : j \in DOMAIN jobs => jobs'[j] = jobs[j]
      BY <3>3
    <3> QED
      BY <3>5, <3>6
  <2>4. f.reads = [n \in Nodes |-> IF n \in Substituted(Top.node, Cached) THEN cache[n] ELSE 0]
        /\ f.pc = "upload" /\ f.target = 0
    BY <1>0, <2>2, TopTypes, TopRight DEF FrameRight, Frames
  <2> HIDE DEF f
  <2>5. FrameRight(f, tables)
    BY <1>0, <2>4 DEF FrameRight, ReadsRight, CachesRight
  <2>6. CachesRight'
    BY <1>0, <2>2, <2>3, SameTables, CachesStay DEF CachesRight
  <2> QED
    BY <1>0, <2>1, <2>2, <2>5, <2>6, SameTables, SetTopRight
<1>5. ASSUME NEW j \in DOMAIN jobs, CollectUpload(j)
      PROVE  CachesRight' /\ FramesRight' /\ outcome' # "wrong"
  <2>1. /\ stack # <<>> /\ Top.pc = "upload" /\ jobs[j].state = "done"
        /\ SetTop([Top EXCEPT !.waits = @ \ {j}])
        /\ uploaded' = [uploaded EXCEPT ![jobs[j].leaf] = jobs[j].table]
        /\ UNCHANGED <<cache, jobs, tables, outcome>>
    BY <1>5 DEF CollectUpload, At
  <2>2. FrameRight([Top EXCEPT !.waits = @ \ {j}], tables)
    BY <1>0, <2>1, TopRight, TopTypes DEF FrameRight, Frames
  <2>3. \A n \in Locals : uploaded'[n] = uploaded[n] \/ (n = jobs[j].leaf /\ uploaded'[n] = jobs[j].table)
    BY <1>0, <2>1 DEF TypeOK
  <2>4. Right(jobs[j].table, jobs[j].leaf, tables)
    BY <1>0, <2>1 DEF CachesRight
  <2>5. CachesRight'
    BY <1>0, <2>1, <2>3, <2>4 DEF CachesRight
  <2> QED
    BY <1>0, <2>1, <2>2, <2>5, SameTables, SetTopRight
<1>6. ASSUME NEW j \in DOMAIN jobs, CollectFailure(j)
      PROVE  CachesRight' /\ FramesRight' /\ outcome' # "wrong"
  <2>1. /\ jobs' = [i \in DOMAIN jobs |->
                      IF i \in Top.waits /\ jobs[i].state = "waiting"
                      THEN [jobs[i] EXCEPT !.state = "cancelled"] ELSE jobs[i]]
        /\ Raise /\ UNCHANGED <<cache, uploaded, tables>>
    BY <1>6 DEF CollectFailure, ServiceFails
  <2>2. \A i \in DOMAIN jobs : jobs[i] \in Jobs
    BY <1>0 DEF TypeOK
  <2>3. \A i \in DOMAIN jobs' :
          jobs'[i].state = "done" => i \in DOMAIN jobs /\ jobs'[i] = jobs[i]
    BY <2>1, <2>2 DEF Jobs
  <2> QED
    BY <1>0, <2>1, <2>3, RaiseRight, SameTables, CachesStay DEF CachesRight
<1>7. CASE EndUpload
  <2> DEFINE f == [Top EXCEPT !.pc = "create",
                     !.reads = [n \in Nodes |-> IF n \in NeedsUpload(Top.node, Cached)
                                                THEN uploaded[n] ELSE Top.reads[n]]]
  <2>1. stack # <<>> /\ Top.pc = "upload" /\ SetTop(f)
        /\ UNCHANGED <<cache, uploaded, jobs, tables, outcome>>
    BY <1>7 DEF EndUpload, At
  <2>2. f.pc = "create" /\ f.target = 0
        /\ f.reads = [n \in Nodes |-> IF n \in NeedsUpload(Top.node, Cached)
                                      THEN uploaded[n] ELSE Top.reads[n]]
    BY <1>0, <2>1, TopTypes, TopRight DEF FrameRight, Frames
  <2>3. ReadsRight(Top.reads, tables)
    BY <1>0, <2>1, TopRight DEF FrameRight
  <2> HIDE DEF f
  <2>4. FrameRight(f, tables)
    BY <1>0, <2>2, <2>3, SetsOfNodes DEF FrameRight, ReadsRight, CachesRight
  <2> QED
    BY <1>0, <2>1, <2>4, SameTables, SetTopRight, QuietCaches
<1>8. CASE CreateTable
  <2> DEFINE f == [Top EXCEPT !.pc = "query", !.target = Len(tables')]
             r == [node |-> Top.node, rows |-> "none"]
  <2>1. stack # <<>> /\ Top.pc = "create" /\ SetTop(f) /\ tables' = Append(tables, r)
        /\ UNCHANGED <<cache, uploaded, jobs, outcome>>
    BY <1>8 DEF CreateTable, At
  <2>2. r \in [node : Nodes, rows : {"none", "right", "wrong"}]
    BY <1>0, <2>1, TopTypes
  <2>3. Kept(tables, tables') /\ Len(tables') # 0 /\ tables'[Len(tables')] = r
    BY <1>0, <2>1, <2>2, NewTable, TableTypes
  <2>4. /\ f.pc = "query" /\ f.target = Len(tables') /\ f.node = Top.node
        /\ f.reads = Top.reads /\ FrameRight(Top, tables)
    BY <1>0, <2>1, TopTypes, TopRight DEF Frames
  <2> HIDE DEF f
  <2>5. ReadsRight(f.reads, tables')
    BY <2>1, <2>3, <2>4, StaysRight DEF FrameRight, ReadsRight
  <2>6. FrameRight(f, tables')
    BY <2>3, <2>4, <2>5 DEF FrameRight
  <2> QED
    BY <1>0, <2>1, <2>3, <2>6, SetTopRight, QuietCaches
<1>9. CASE RunWithoutTable
  <2>1. stack # <<>> /\ Top.pc = "create" /\ ~Top.caches /\ SetTop([Top EXCEPT !.pc = "query"])
        /\ UNCHANGED <<cache, uploaded, jobs, tables, outcome>>
    BY <1>9 DEF RunWithoutTable, At, Goto
  <2>2. FrameRight([Top EXCEPT !.pc = "query"], tables)
    BY <1>0, <2>1, TopRight, TopTypes DEF FrameRight, Frames
  <2> QED
    BY <1>0, <2>1, <2>2, SameTables, SetTopRight, QuietCaches
<1>10. CASE Query
  <2> DEFINE f == [Top EXCEPT !.pc = "return"]
  <2>1. /\ stack # <<>> /\ Top.pc = "query" /\ SetTop(f)
        /\ tables' = [t \in Tables |-> IF t = Top.target
                                       THEN [tables[t] EXCEPT !.rows = RowsOf(Top.reads)]
                                       ELSE tables[t]]
        /\ UNCHANGED <<cache, uploaded, jobs, outcome>>
    BY <1>10 DEF Query, At, Goto
  <2>2. FrameRight(Top, tables)
    BY <1>0, <2>1, TopRight
  <2>6. Kept(tables, tables') /\ (Top.target # 0 => Right(Top.target, Top.node, tables'))
    BY <1>0, <1>10, QueryFills
  <2>8. f.pc = "return" /\ f.target = Top.target /\ f.node = Top.node /\ f.caches = Top.caches
        /\ f.reads = Top.reads
    BY <1>0, <2>1, TopTypes DEF Frames
  <2> HIDE DEF f
  <2>9. ReadsRight(f.reads, tables')
    BY <2>1, <2>2, <2>6, <2>8, StaysRight DEF FrameRight, ReadsRight
  <2>10. FrameRight(f, tables')
    BY <2>1, <2>2, <2>6, <2>8, <2>9 DEF FrameRight
  <2> QED
    BY <1>0, <2>1, <2>6, <2>10, SetTopRight, QuietCaches
<1>11. CASE FailRequest
  BY <1>0, <1>11, RaiseRight, SameTables, QuietCaches DEF FailRequest, ServiceFails
<1>12. CASE Return
  <2>1. /\ stack # <<>> /\ Top.pc = "return" /\ stack' = SubSeq(stack, 1, Depth - 1)
        /\ cache' = IF Top.caches THEN [cache EXCEPT ![Top.node] = Top.target] ELSE cache
        /\ outcome' = IF Depth > 1 THEN outcome
                       ELSE IF Top.target = 0 THEN RowsOf(Top.reads)
                       ELSE tables[Top.target].rows
        /\ UNCHANGED <<uploaded, jobs, tables>>
    BY <1>12 DEF Return, At
  <2>2. FrameRight(Top, tables) /\ Depth \in Nat /\ Depth >= 1
    BY <1>0, <2>1, TopRight, TopTypes
  <2>3. FramesRight'
    <3>1. Depth' = Depth - 1 /\ \A d \in 1..(Depth - 1) : stack'[d] = stack[d]
      BY <1>0, <2>1, DropLast DEF TypeOK, Depth
    <3> QED
      BY <1>0, <2>1, <2>2, <3>1 DEF FramesRight
  <2>4. Top.caches => Right(Top.target, Top.node, tables)
    BY <2>1, <2>2 DEF FrameRight
  <2>5. \A n \in Nodes : cache'[n] = cache[n] \/ (Top.caches /\ n = Top.node /\ cache'[n] = Top.target)
    BY <1>0, <2>1 DEF TypeOK
  <2>6. CachesRight'
    BY <1>0, <2>1, <2>4, <2>5 DEF CachesRight
  <2>7. RowsOf(Top.reads) = "right" /\ (Top.target # 0 => tables[Top.target].rows = "right")
    BY <2>1, <2>2, RightReads DEF FrameRight, Right
  <2> QED
    BY <1>0, <2>1, <2>3, <2>6, <2>7
<1>13. ASSUME NEW j \in DOMAIN jobs, StartUpload(j) \/ FailUpload(j)
       PROVE  CachesRight' /\ FramesRight' /\ outcome' # "wrong"
  <2>1. PICK st \in {"running", "failed"} : jobs' = [jobs EXCEPT ![j].state = st]
    BY <1>13 DEF StartUpload, FailUpload
  <2>2. UNCHANGED <<stack, cache, uploaded, tables, outcome>>
    BY <1>13 DEF StartUpload, FailUpload
  <2>3. jobs[j] \in Jobs /\ jobs \in Seq(Jobs)
    BY <1>0 DEF TypeOK
  <2>4. [jobs[j] EXCEPT !.state = st].state # "done"
    BY <2>3 DEF Jobs
  <2>5. \A i \in DOMAIN jobs' :
          jobs'[i].state = "done" => i \in DOMAIN jobs /\ jobs'[i] = jobs[i]
    BY <2>1, <2>3, <2>4, JobParts
  <2>6. CachesRight'
    BY <1>0, <2>2, <2>5 DEF CachesRight
  <2> QED
    BY <1>0, <2>2, <2>6 DEF FramesRight, Depth
<1>14. ASSUME NEW j \in DOMAIN jobs, FinishUpload(j)
       PROVE  CachesRight' /\ FramesRight' /\ outcome' # "wrong"
  <2> DEFINE r == [node |-> jobs[j].leaf, rows |-> "right"]
  <2>1. /\ tables' = Append(tables, r)
        /\ jobs' = [jobs EXCEPT ![j].state = "done", ![j].table = Len(tables')]
        /\ UNCHANGED <<stack, cache, uploaded, outcome>>
    BY <1>14 DEF FinishUpload
  <2>2. jobs[j] \in Jobs /\ jobs \in Seq(Jobs)
    BY <1>0 DEF TypeOK
  <2>3. r \in [node : Nodes, rows : {"none", "right", "wrong"}]
    BY <2>2, LocalsAreNodes DEF Jobs
  <2>4. Kept(tables, tables') /\ tables'[Len(tables')] = r /\ Len(tables') \in DOMAIN tables'
    BY <1>0, <2>1, <2>3, NewTable, TableTypes DEF Tables
  <2>5. Right(Len(tables'), jobs[j].leaf, tables')
    BY <2>4 DEF Right
  <2> DEFINE job == [jobs[j] EXCEPT !.state = "done", !.table = Len(tables')]
  <2>6. job.leaf = jobs[j].leaf /\ job.table = Len(tables')
    BY <2>2 DEF Jobs
  <2>7. \A i \in DOMAIN jobs' : i \in DOMAIN jobs /\ jobs'[i] = IF i = j THEN job ELSE jobs[i]
    BY <2>1, <2>2, JobParts
  <2> HIDE DEF job
  <2>8. CachesRight'
    BY <1>0, <2>1, <2>4, <2>5, <2>6, <2>7, CachesStay DEF CachesRight
  <2>9. FramesRight'
    BY <1>0, <2>1, <2>4, FramesStay DEF FramesRight, Depth
  <2> QED
    BY <1>0, <2>1, <2>8, <2>9
<1>15. ASSUME NEW n \in Nodes, NEW c \in BOOLEAN, Call(n, c)
       PROVE  CachesRight' /\ FramesRight' /\ outcome' # "wrong"
  <2>1. /\ stack' = <<Frame(n, c)>> /\ outcome' = "none"
        /\ UNCHANGED <<cache, uploaded, jobs, tables>>
    BY <1>15 DEF Call
  <2>2. FrameRight(Frame(n, c), tables)
    BY DEF FrameRight, Frame
  <2>3. Depth' = 1 /\ stack'[1] = Frame(n, c)
    BY <2>1 DEF Depth
  <2>4. FramesRight'
    BY <2>1, <2>2, <2>3 DEF FramesRight
  <2> QED
    BY <1>0, <2>1, <2>4, SameTables, QuietCaches
<1>16. ASSUME NEW n \in Nodes, ReadCachedTable(n)
       PROVE  CachesRight' /\ FramesRight' /\ outcome' # "wrong"
  <2> DEFINE reads == [m \in Nodes |-> IF m = n THEN cache[m] ELSE 0]
  <2>1. /\ outcome' = IF faulted' THEN "raised" ELSE RowsOf(reads)
        /\ UNCHANGED <<stack, cache, uploaded, jobs, tables>>
    BY <1>16 DEF ReadCachedTable
  <2>2. ReadsRight(reads, tables)
    BY <1>0 DEF ReadsRight, CachesRight
  <2> HIDE DEF reads
  <2>3. outcome' # "wrong"
    BY <2>1, <2>2, RightReads
  <2> QED
    BY <1>0, <2>1, <2>3, SameTables, QuietCaches DEF FramesRight, Depth
<1>17. ASSUME NEW n \in Nodes, Forget(n)
       PROVE  CachesRight' /\ FramesRight' /\ outcome' # "wrong"
  <2>1. /\ \A m \in Nodes : cache'[m] \in {0, cache[m]}
        /\ UNCHANGED <<stack, uploaded, jobs, tables, outcome>>
    BY <1>17 DEF Forget
  <2>2. CachesRight'
    BY <1>0, <2>1 DEF CachesRight
  <2> QED
    BY <1>0, <2>1, <2>2 DEF FramesRight, Depth
<1>18. CASE Close
  BY <1>0, <1>18, SameTables, QuietCaches DEF Close, FramesRight, Depth
<1>19. CASE UNCHANGED vars
  BY <1>0, <1>19, SameTables, QuietCaches DEF vars, FramesRight, Depth
<1> QED
  BY <1>1, <1>2, <1>3, <1>4, <1>5, <1>6, <1>7, <1>8, <1>9, <1>10, <1>11, <1>12, <1>13,
     <1>14, <1>15, <1>16, <1>17, <1>18, <1>19
     DEF Next, ExecutorStep, LoaderStep, UserStep

\* What the caches hold is the complete result of the node it is filed under, and no
\* answer is computed from anything else, whatever fails and whenever the session is
\* closed (bq_caching_executor.py:431-436, 533-566,
\* 655-658).
THEOREM AnswersAreRightHolds == Spec => []AnswersAreRight
<1>1. RInv => AnswersAreRight
  BY DEF RInv, CachesRight, Right, AnswersAreRight
<1> QED
  BY <1>1, RightInit, RightStep, PTL DEF Spec
----------------------------------------------------------------------------
(* The factorings. *)

\* Executions inside each other go down the plan.
Nested(s) == \A d, e \in 1..Len(s) : d <= e => s[e].node <= s[d].node

Simplified ==
    multiQuery /\ stack # <<>> /\ Top.pc # "simplify" =>
        Complexity(Cached)[Top.node] < Limit \/ Top.rounds = MaxFactorings

Factored == Nested(stack) /\ Simplified

FInv == RInv /\ Factored

LEMMA FactoredInit == Init => Factored
<1> SUFFICES ASSUME Init PROVE Factored
  OBVIOUS
<1>1. stack = <<>> /\ Len(stack) = 0
  BY DEF Init
<1> QED
  BY <1>1 DEF Factored, Nested, Simplified

LEMMA NodesOfStack ==
    ASSUME TypeOK
    PROVE  /\ Depth \in Nat /\ Len(stack) = Depth
           /\ \A d \in 1..Depth : stack[d] \in Frames /\ stack[d].node \in Nodes
<1>1. stack \in Seq(Frames) /\ Depth \in Nat /\ Len(stack) = Depth
  BY DEF TypeOK, Depth
<1>2. \A d \in 1..Depth : stack[d] \in Frames
  BY <1>1
<1> QED
  BY <1>1, <1>2 DEF Frames

\* Nested() is about the nodes of a stack only, and holds of what is left of it.
LEMMA NestedNodes ==
    ASSUME NEW s, NEW t, Len(s) \in Nat, Len(t) \in Nat, Len(t) <= Len(s),
           \A d \in 1..Len(t) : t[d].node = s[d].node,
           Nested(s)
    PROVE  Nested(t)
<1>1. ASSUME NEW d \in 1..Len(t), NEW e \in 1..Len(t), d <= e
      PROVE  t[e].node <= t[d].node
  <2>1. d \in 1..Len(s) /\ e \in 1..Len(s)
    OBVIOUS
  <2>2. s[e].node <= s[d].node
    BY <1>1, <2>1 DEF Nested
  <2> QED
    BY <2>2
<1> QED
  BY <1>1 DEF Nested

LEMMA SetTopNested ==
    ASSUME TypeOK, stack # <<>>, NEW f, SetTop(f), f.node = Top.node,
           Nested(stack), UNCHANGED cache
    PROVE  Nested(stack') /\ stack' # <<>> /\ Top' = f
<1>1. Len(stack') = Len(stack) /\ Len(stack) \in Nat /\ Depth >= 1 /\ Depth = Len(stack)
      /\ \A d \in 1..Depth : stack'[d] = IF d = Depth THEN f ELSE stack[d]
  BY DEF SetTop, Depth, TypeOK
<1>2. \A d \in 1..Len(stack') : stack'[d].node = stack[d].node
  BY <1>1 DEF Top
<1>3. Nested(stack')
  BY <1>1, <1>2, NestedNodes
<1>4. Top' = f /\ stack' # <<>>
  BY <1>1 DEF Top, Depth
<1> QED
  BY <1>3, <1>4

\* An execution that is past its simplification goes on.
LEMMA TopGoesOn ==
    ASSUME TypeOK, Factored, stack # <<>>, Top.pc # "simplify",
           NEW f, SetTop(f), f.node = Top.node, f.rounds = Top.rounds,
           UNCHANGED <<multiQuery, cache>>
    PROVE  Factored'
<1>1. Nested(stack') /\ stack' # <<>> /\ Top' = f
  BY SetTopNested DEF Factored
<1>2. Cached' = Cached
  BY DEF Cached
<1> QED
  BY <1>1, <1>2 DEF Factored, Simplified

LEMMA RaiseFactored == Raise => Factored'
<1> SUFFICES ASSUME Raise PROVE Factored'
  OBVIOUS
<1>1. stack' = <<>> /\ Len(stack') = 0
  BY DEF Raise
<1> QED
  BY <1>1 DEF Factored, Nested, Simplified

LEMMA QuietFactored ==
    Factored /\ UNCHANGED <<multiQuery, stack, cache>> => Factored'
BY DEF Factored, Nested, Simplified, Cached, Top, Depth

\* An execution is put on the stack for a candidate of the innermost one.
LEMMA Pushed ==
    ASSUME TypeOK, CacheSubtree
    PROVE  \E n \in Targets(Top.node, Cached) :
             /\ Len(stack') = Depth + 1 /\ stack'[Depth + 1] = Frame(n, TRUE)
             /\ \A d \in 1..Depth : stack'[d].node = stack[d].node
<1> DEFINE f == [Top EXCEPT !.rounds = @ + 1]
           s == [stack EXCEPT ![Depth] = f]
<1>1. PICK n \in Targets(Top.node, Cached) : stack' = Append(s, Frame(n, TRUE))
  BY DEF CacheSubtree
<1> DEFINE e == Frame(n, TRUE)
           F == Frames \cup {f, e}
<1>2. stack # <<>> /\ stack \in Seq(Frames) /\ Top \in Frames /\ Len(stack) = Depth
  BY TopTypes DEF CacheSubtree, TooComplex, At, TypeOK, Depth
<1>3. f.node = Top.node
  BY <1>2 DEF Frames
<1> HIDE DEF f, e
<1>4. stack \in Seq(F) /\ f \in F /\ e \in F
  BY <1>2
<1> HIDE DEF F
<1>5. /\ s \in Seq(F) /\ Len(s) = Depth
      /\ \A d \in 1..Depth : s[d] = IF d = Depth THEN f ELSE stack[d]
  BY <1>2, <1>4, ReplaceLast
<1> HIDE DEF s
<1>6. stack' = Append(s, e)
  BY <1>1 DEF e
<1>7. /\ Len(stack') = Depth + 1 /\ stack'[Depth + 1] = e
      /\ \A d \in 1..Depth : stack'[d] = s[d]
  BY <1>4, <1>5, <1>6, AppendProperties
<1> QED
  BY <1>3, <1>5, <1>7 DEF e, Top

LEMMA FactoredStep == FInv /\ [Next]_vars => Factored'
<1> SUFFICES ASSUME FInv, [Next]_vars PROVE Factored'
  OBVIOUS
<1> USE DEF callVars, cacheVars, endVars
<1>0. RInv /\ TypeOK /\ Factored
  BY DEF FInv, RInv
<1>1. CASE EndSimplify
  <2> DEFINE f == [Top EXCEPT !.pc = "substitute"]
  <2>1. stack # <<>> /\ SetTop(f) /\ UNCHANGED <<multiQuery, cache>>
        /\ (Top.rounds = MaxFactorings \/ Complexity(Cached)[Top.node] < Limit)
    BY <1>1 DEF EndSimplify, Goto, At
  <2>2. f.node = Top.node /\ f.rounds = Top.rounds
    BY <1>0, <2>1, TopTypes DEF Frames
  <2> HIDE DEF f
  <2>3. Nested(stack') /\ Top' = f
    BY <1>0, <2>1, <2>2, SetTopNested DEF Factored
  <2>4. Cached' = Cached
    BY <2>1 DEF Cached
  <2> QED
    BY <1>0, <2>1, <2>2, <2>3, <2>4 DEF Factored, Simplified
<1>2. CASE CacheSubtree
  <2>1. PICK n \in Targets(Top.node, Cached) :
          /\ Len(stack') = Depth + 1 /\ stack'[Depth + 1] = Frame(n, TRUE)
          /\ \A d \in 1..Depth : stack'[d].node = stack[d].node
    BY <1>0, <1>2, Pushed
  <2>2. stack # <<>> /\ Top.pc = "simplify" /\ UNCHANGED <<multiQuery, cache>>
    BY <1>2 DEF CacheSubtree, TooComplex, At
  <2>3. /\ Depth \in Nat /\ Depth >= 1 /\ Len(stack) = Depth /\ Cached' = Cached
        /\ Top.node \in Nodes /\ \A d \in 1..Depth : stack[d].node \in Nodes
    BY <1>0, <2>2, TopTypes, NodesOfStack DEF Cached
  <2>4. stack'[Depth + 1].node = n /\ stack' # <<>>
    BY <2>1, <2>3 DEF Frame
  <2>5. n \in Nodes /\ n <= Top.node
    <3>1. n \in Nodes /\ ~(n > Top.node)
      BY <2>1, TargetsInRange
    <3>2. n \in Nat /\ Top.node \in Nat
      BY <2>3, <3>1 DEF Nodes
    <3> QED
      BY <3>1, <3>2
  <2>6. ASSUME NEW d \in 1..Len(stack'), NEW l \in 1..Len(stack'), d <= l
        PROVE  stack'[l].node <= stack'[d].node
    <3>1. CASE l \in 1..Depth
      <4>1. d \in 1..Depth
        BY <2>3, <2>6, <3>1
      <4> QED
        BY <1>0, <2>1, <2>3, <2>6, <3>1, <4>1 DEF Factored, Nested
    <3>2. CASE l = Depth + 1 /\ d \in 1..Depth
      <4>1. Top.node <= stack[d].node
        BY <1>0, <2>3, <3>2 DEF Factored, Nested, Top
      <4>2. stack[d].node \in Nat /\ Top.node \in Nat /\ n \in Nat
        BY <2>3, <2>5, <3>2 DEF Nodes
      <4>3. stack'[d].node = stack[d].node /\ stack'[l].node = n
        BY <2>1, <2>4, <3>2
      <4> QED
        BY <2>5, <4>1, <4>2, <4>3
    <3>3. CASE l = Depth + 1 /\ d = Depth + 1
      <4>1. n <= n
        BY <2>5 DEF Nodes
      <4> QED
        BY <2>4, <3>3, <4>1
    <3> QED
      BY <2>1, <2>3, <2>6, <3>1, <3>2, <3>3
  <2>8. Simplified'
    <3>1. Top' = Frame(n, TRUE) /\ multiQuery' = multiQuery
      BY <2>1, <2>2 DEF Top, Depth
    <3> QED
      BY <3>1 DEF Simplified, Frame
  <2> QED
    BY <1>0, <2>2, <2>3, <2>6, <2>8 DEF Factored, Nested
<1>3. CASE NoTarget \/ RecursionError \/ FailRequest
  BY <1>3, RaiseFactored DEF NoTarget, RecursionError, FailRequest, ServiceFails
<1>4. CASE Substitute
  <2>1. PICK news, reads :
          SetTop([Top EXCEPT !.pc = "upload", !.waits = news, !.reads = reads])
    BY <1>4 DEF Substitute
  <2>2. stack # <<>> /\ Top.pc # "simplify" /\ UNCHANGED <<multiQuery, cache>>
    BY <1>4 DEF Substitute, At
  <2> DEFINE f == [Top EXCEPT !.pc = "upload", !.waits = news, !.reads = reads]
  <2>3. f.node = Top.node /\ f.rounds = Top.rounds
    BY <1>0, <2>2, TopTypes DEF Frames
  <2> HIDE DEF f
  <2>4. SetTop(f)
    BY <2>1 DEF f
  <2> QED
    BY <1>0, <2>2, <2>3, <2>4, TopGoesOn
<1>5. ASSUME NEW j \in DOMAIN jobs, CollectUpload(j) PROVE Factored'
  <2> DEFINE f == [Top EXCEPT !.waits = @ \ {j}]
  <2>1. stack # <<>> /\ Top.pc # "simplify" /\ SetTop(f) /\ UNCHANGED <<multiQuery, cache>>
    BY <1>5 DEF CollectUpload, At
  <2>2. f.node = Top.node /\ f.rounds = Top.rounds
    BY <1>0, <2>1, TopTypes DEF Frames
  <2> HIDE DEF f
  <2> QED
    BY <1>0, <2>1, <2>2, TopGoesOn
<1>6. ASSUME NEW j \in DOMAIN jobs, CollectFailure(j) PROVE Factored'
  BY <1>6, RaiseFactored DEF CollectFailure, ServiceFails
<1>7. CASE EndUpload
  <2> DEFINE f == [Top EXCEPT !.pc = "create",
                     !.reads = [n \in Nodes |-> IF n \in NeedsUpload(Top.node, Cached)
                                                THEN uploaded[n] ELSE Top.reads[n]]]
  <2>1. stack # <<>> /\ Top.pc # "simplify" /\ SetTop(f) /\ UNCHANGED <<multiQuery, cache>>
    BY <1>7 DEF EndUpload, At
  <2>2. f.node = Top.node /\ f.rounds = Top.rounds
    BY <1>0, <2>1, TopTypes DEF Frames
  <2> HIDE DEF f
  <2> QED
    BY <1>0, <2>1, <2>2, TopGoesOn
<1>8. CASE CreateTable
  <2> DEFINE f == [Top EXCEPT !.pc = "query", !.target = Len(tables')]
  <2>1. stack # <<>> /\ Top.pc # "simplify" /\ SetTop(f) /\ UNCHANGED <<multiQuery, cache>>
    BY <1>8 DEF CreateTable, At
  <2>2. f.node = Top.node /\ f.rounds = Top.rounds
    BY <1>0, <2>1, TopTypes DEF Frames
  <2> HIDE DEF f
  <2> QED
    BY <1>0, <2>1, <2>2, TopGoesOn
<1>9. ASSUME NEW place \in {"query", "return"}, RunWithoutTable \/ Query, Goto(place)
      PROVE  Factored'
  <2> DEFINE f == [Top EXCEPT !.pc = place]
  <2>1. stack # <<>> /\ Top.pc # "simplify" /\ SetTop(f) /\ UNCHANGED <<multiQuery, cache>>
    BY <1>9 DEF RunWithoutTable, Query, At, Goto
  <2>2. f.node = Top.node /\ f.rounds = Top.rounds
    BY <1>0, <2>1, TopTypes DEF Frames
  <2> HIDE DEF f
  <2> QED
    BY <1>0, <2>1, <2>2, TopGoesOn
<1>10. CASE RunWithoutTable \/ Query
  BY <1>9, <1>10 DEF RunWithoutTable, Query
<1>11. CASE Return
  <2>1. /\ stack # <<>> /\ Top.pc = "return" /\ stack' = SubSeq(stack, 1, Depth - 1)
        /\ cache' = IF Top.caches THEN [cache EXCEPT ![Top.node] = Top.target] ELSE cache
    BY <1>11 DEF Return, At
  <2>2. /\ Depth \in Nat /\ Depth >= 1 /\ Top \in Frames /\ Top.node \in Nodes
        /\ (Top.caches => Top.target # 0) /\ Len(stack) = Depth
    BY <1>0, <2>1, TopTypes, TopRight DEF RInv, FrameRight, Depth
  <2>3. Len(stack') = Depth - 1 /\ \A d \in 1..(Depth - 1) : stack'[d] = stack[d]
    BY <1>0, <2>1, DropLast DEF TypeOK, Depth
  <2>4. CASE Depth = 1
    <3>1. Len(stack') = 0 /\ stack' = <<>>
      BY <2>1, <2>3, <2>4
    <3> QED
      BY <3>1 DEF Factored, Nested, Simplified
  <2>5. CASE Depth > 1
    <3>1. Nested(stack')
      <4>1. /\ Len(stack) \in Nat /\ Len(stack') \in Nat /\ Len(stack') <= Len(stack)
            /\ \A d \in 1..Len(stack') : stack'[d].node = stack[d].node
        BY <2>2, <2>3, <2>5
      <4> QED
        BY <1>0, <4>1, NestedNodes DEF Factored
    <3>6. Top'.pc = "simplify"
      <4>1. Top' = stack[Depth - 1] /\ Depth - 1 \in 1..(Depth - 1)
        BY <2>2, <2>3, <2>5 DEF Top, Depth
      <4> QED
        BY <1>0, <4>1 DEF TypeOK
    <3> QED
      BY <1>0, <2>1, <2>5, <3>1, <3>6 DEF Factored, Simplified
  <2> QED
    BY <2>2, <2>4, <2>5
<1>12. ASSUME NEW n \in Nodes, NEW c \in BOOLEAN, Call(n, c) PROVE Factored'
  <2>1. stack' = <<Frame(n, c)>> /\ multiQuery' = multiQuery
    BY <1>12 DEF Call
  <2>2. Len(stack') = 1 /\ Top' = Frame(n, c)
    BY <2>1 DEF Top, Depth
  <2>3. multiQuery => Frame(n, c).pc = "simplify"
    BY DEF Frame
  <2>4. Nested(stack')
    <3>1. stack'[1].node = n /\ n <= n
      BY <2>1 DEF Frame, Nodes
    <3> QED
      BY <2>2, <3>1 DEF Nested
  <2> QED
    BY <2>1, <2>2, <2>3, <2>4 DEF Factored, Simplified
<1>13. ASSUME NEW n \in Nodes, ReadCachedTable(n) \/ Forget(n) PROVE Factored'
  <2>1. stack' = <<>> /\ Len(stack') = 0
    BY <1>13 DEF ReadCachedTable, Begin, Forget
  <2> QED
    BY <2>1 DEF Factored, Nested, Simplified
<1>14. CASE LoaderStep \/ Close \/ UNCHANGED vars
  BY <1>0, <1>14, QuietFactored
     DEF LoaderStep, StartUpload, FinishUpload, FailUpload, Close, vars
<1> QED
  BY <1>1, <1>2, <1>3, <1>4, <1>5, <1>6, <1>7, <1>8, <1>10, <1>11, <1>12, <1>13, <1>14
     DEF Next, ExecutorStep, UserStep

LEMMA Deeper ==
    ASSUME TypeOK, [Next]_vars, stack # <<>>, Depth' > Depth
    PROVE  CacheSubtree
<1> USE DEF callVars, cacheVars, endVars
<1>0. Depth \in Nat /\ Depth >= 1
  BY TopTypes
<1>1. ASSUME NEW f, SetTop(f) PROVE FALSE
  <2>1. Depth' = Depth
    BY <1>1 DEF SetTop, Depth, TypeOK
  <2> QED
    BY <1>0, <2>1
<1>2. ASSUME stack' = stack \/ stack' = <<>> \/ Raise PROVE FALSE
  <2>1. Depth' = Depth \/ Depth' = 0
    BY <1>2 DEF Raise, Depth
  <2> QED
    BY <1>0, <2>1
<1>3. ~Return
  <2>1. ASSUME Return PROVE Depth' = Depth - 1
    BY <2>1, DropLast DEF Return, TypeOK, Depth
  <2> QED
    BY <1>0, <2>1
<1>4. ~EndSimplify /\ ~CreateTable /\ ~RunWithoutTable /\ ~Query
  BY <1>1 DEF EndSimplify, CreateTable, RunWithoutTable, Query, Goto
<1>5. ~Substitute /\ ~EndUpload
  BY <1>1 DEF Substitute, EndUpload
<1>6. \A j \in DOMAIN jobs : ~CollectUpload(j) /\ ~CollectFailure(j)
  BY <1>1, <1>2 DEF CollectUpload, CollectFailure, ServiceFails
<1>7. ~NoTarget /\ ~RecursionError /\ ~FailRequest
  BY <1>2 DEF NoTarget, RecursionError, FailRequest, ServiceFails
<1>8. ~LoaderStep /\ ~Close /\ ~UNCHANGED vars
  BY <1>2 DEF LoaderStep, StartUpload, FinishUpload, FailUpload, Close, vars
<1>9. ~UserStep
  BY DEF UserStep, Call, ReadCachedTable, Forget, Begin
<1> QED
  BY <1>3, <1>4, <1>5, <1>6, <1>7, <1>8, <1>9 DEF Next, ExecutorStep

LEMMA FInvHolds == Spec => []FInv
<1>1. Init => FInv
  BY FactoredInit, RightInit DEF FInv
<1>2. FInv /\ [Next]_vars => FInv'
  BY FactoredStep, RightStep DEF FInv
<1> QED
  BY <1>1, <1>2, PTL DEF Spec

NewFactoring ==
    stack # <<>> /\ Depth' > Depth =>
      LET node == stack'[Depth'].node
      IN /\ cache[node] = 0 \/ node \in Wide
         /\ \A d \in 1..Depth : stack[d].node = node => Complexity(Cached)[node] = Limit

\* What is factored out was neither cached nor begun, unless its cached table is wide or
\* its complexity exactly the limit (bq_caching_executor.py:484-511, tree_properties.py
\* 92-105).
THEOREM FactoringsAreNewHolds == Spec => FactoringsAreNew
<1>1. FInv /\ [Next]_vars => NewFactoring
  <2> SUFFICES ASSUME FInv, [Next]_vars, stack # <<>>, Depth' > Depth
               PROVE  NewFactoring
    BY DEF NewFactoring
  <2>0. TypeOK /\ Nested(stack)
    BY DEF FInv, RInv, Factored
  <2>1. CacheSubtree
    BY <2>0, Deeper
  <2>2. PICK n \in Targets(Top.node, Cached) :
          Len(stack') = Depth + 1 /\ stack'[Depth + 1] = Frame(n, TRUE)
    BY <2>0, <2>1, Pushed
  <2>3. Depth \in Nat /\ Depth >= 1 /\ Len(stack) = Depth /\ Top.node \in Nodes
    BY <2>0, TopTypes DEF Depth
  <2>4. stack'[Depth'].node = n
    BY <2>2 DEF Depth, Frame
  <2>5. /\ n \in Nodes /\ (n \in Cached => n \in Wide) /\ ~(n > Top.node) /\ Complexity(Cached)[n] <= Limit
    BY <2>2, TargetsInRange
  <2>6. cache[n] = 0 \/ n \in Wide
    BY <2>5 DEF Cached
  <2>7. ASSUME NEW d \in 1..Depth, stack[d].node = n PROVE Complexity(Cached)[n] = Limit
    <3>1. Top.node <= n
      BY <2>0, <2>3, <2>7 DEF Nested, Top
    <3>2. Top.node = n
      BY <2>3, <2>5, <3>1 DEF Nodes
    <3>3. Complexity(Cached)[n] >= Limit
      BY <2>1, <3>2 DEF CacheSubtree, TooComplex
    <3> QED
      BY <2>5, <3>3, MeasureTypes, LimitAssumption
  <2> QED
    BY <2>4, <2>6, <2>7 DEF NewFactoring
<1>2. Spec => [][NewFactoring]_vars
  BY <1>1, FInvHolds, PTL DEF Spec
<1> QED
  BY <1>2 DEF FactoringsAreNew, NewFactoring

\* A query over the limit is sent after MAX_SUBTREE_FACTORINGS factorings only: nothing
\* that is executed inside, or cached by it, makes an execution send its query earlier
\* (bq_caching_executor.py:481-493).
THEOREM QueriesFitHolds == Spec => []QueriesFit
<1>1. FInv => QueriesFit
  BY DEF FInv, Factored, Simplified, QueriesFit, At
<1> QED
  BY <1>1, FInvHolds, PTL

----------------------------------------------------------------------------
(* The executor implements the evaluation of one expression. *)

Inside(s) == \A d \in 1..Len(s) : s[d].node \in Subtrees(s[1].node)

EInv == FInv /\ Inside(stack)

\* A step within the executions that are there.
SameNodes(s, t) == Len(t) = Len(s) /\ \A d \in 1..Len(s) : t[d].node = s[d].node

LEMMA TopStays ==
    ASSUME TypeOK, stack # <<>>, NEW f, SetTop(f), f.node = Top.node
    PROVE  SameNodes(stack, stack')
<1>1. Len(stack') = Len(stack) /\ Depth = Len(stack)
      /\ \A d \in 1..Depth : stack'[d] = IF d = Depth THEN f ELSE stack[d]
  BY DEF SetTop, Depth, TypeOK
<1> QED
  BY <1>1 DEF SameNodes, Top

\* The steps, by what they do to the stack, the cache and the outcome.
LEMMA Steps ==
    ASSUME TypeOK, [Next]_vars
    PROVE  \/ SameNodes(stack, stack') /\ UNCHANGED <<cache, outcome>>
           \/ \E n \in Nodes : ReadCachedTable(n) \/ Forget(n)
           \/ \E n \in Nodes, c \in BOOLEAN : Call(n, c)
           \/ CacheSubtree
           \/ stack # <<>> /\ Raise /\ UNCHANGED cache
           \/ Return
<1> USE DEF callVars, cacheVars, endVars
<1>1. ASSUME NEW f, stack # <<>>, SetTop(f), stack # <<>> => f.node = Top.node,
             UNCHANGED <<cache, outcome>>
      PROVE  SameNodes(stack, stack') /\ UNCHANGED <<cache, outcome>>
  BY <1>1, TopStays
<1>2. stack # <<>> => Top \in Frames
  BY TopTypes
<1>3. CASE EndSimplify \/ RunWithoutTable \/ Query
  <2>1. PICK place \in {"substitute", "query", "return"} : Goto(place)
    BY <1>3 DEF EndSimplify, RunWithoutTable, Query
  <2>2. stack # <<>> /\ UNCHANGED <<cache, outcome>>
    BY <1>3 DEF EndSimplify, RunWithoutTable, Query, At
  <2>3. [Top EXCEPT !.pc = place].node = Top.node
    BY <1>2, <2>2 DEF Frames
  <2> QED
    BY <1>1, <2>1, <2>2, <2>3 DEF Goto
<1>4. CASE Substitute
  <2>1. PICK news, reads :
          SetTop([Top EXCEPT !.pc = "upload", !.waits = news, !.reads = reads])
    BY <1>4 DEF Substitute
  <2>2. stack # <<>> /\ UNCHANGED <<cache, outcome>>
    BY <1>4 DEF Substitute, At
  <2>3. [Top EXCEPT !.pc = "upload", !.waits = news, !.reads = reads].node = Top.node
    BY <1>2, <2>2 DEF Frames
  <2> QED
    BY <1>1, <2>1, <2>2, <2>3
<1>5. CASE EndUpload
  <2>1. PICK reads : SetTop([Top EXCEPT !.pc = "create", !.reads = reads])
    BY <1>5 DEF EndUpload
  <2>2. stack # <<>> /\ UNCHANGED <<cache, outcome>>
    BY <1>5 DEF EndUpload, At
  <2>3. [Top EXCEPT !.pc = "create", !.reads = reads].node = Top.node
    BY <1>2, <2>2 DEF Frames
  <2> QED
    BY <1>1, <2>1, <2>2, <2>3
<1>6. CASE CreateTable
  <2>1. PICK t : SetTop([Top EXCEPT !.pc = "query", !.target = t])
    BY <1>6 DEF CreateTable
  <2>2. stack # <<>> /\ UNCHANGED <<cache, outcome>>
    BY <1>6 DEF CreateTable, At
  <2>3. [Top EXCEPT !.pc = "query", !.target = t].node = Top.node
    BY <1>2, <2>2 DEF Frames
  <2> QED
    BY <1>1, <2>1, <2>2, <2>3
<1>7. ASSUME NEW j \in DOMAIN jobs, CollectUpload(j)
      PROVE  SameNodes(stack, stack') /\ UNCHANGED <<cache, outcome>>
  <2>1. stack # <<>> /\ SetTop([Top EXCEPT !.waits = @ \ {j}]) /\ UNCHANGED <<cache, outcome>>
    BY <1>7 DEF CollectUpload, At
  <2>2. [Top EXCEPT !.waits = @ \ {j}].node = Top.node
    BY <1>2, <2>1 DEF Frames
  <2> QED
    BY <1>1, <2>1, <2>2
<1>8. CASE NoTarget \/ RecursionError \/ FailRequest \/ \E j \in DOMAIN jobs : CollectFailure(j)
  BY <1>8 DEF NoTarget, RecursionError, FailRequest, CollectFailure, ServiceFails, TooComplex, At
<1>9. CASE LoaderStep \/ Close \/ UNCHANGED vars
  BY <1>9 DEF LoaderStep, StartUpload, FinishUpload, FailUpload, Close, vars, SameNodes
<1> QED
  BY <1>3, <1>4, <1>5, <1>6, <1>7, <1>8, <1>9 DEF Next, ExecutorStep, UserStep

LEMMA InsideStep == EInv /\ [Next]_vars => Inside(stack)'
<1> SUFFICES ASSUME EInv, [Next]_vars PROVE Inside(stack')
  BY DEF Inside
<1>0. TypeOK /\ Inside(stack) /\ Depth \in Nat /\ Len(stack) = Depth
      /\ \A d \in 1..Depth : stack[d].node \in Nodes
  BY NodesOfStack DEF EInv, FInv, RInv
<1>1. CASE SameNodes(stack, stack')
  BY <1>0, <1>1 DEF SameNodes, Inside
<1>2. ASSUME stack' = <<>> PROVE Inside(stack')
  BY <1>2 DEF Inside
<1>3. ASSUME NEW n \in Nodes, ReadCachedTable(n) \/ Forget(n) PROVE Inside(stack')
  BY <1>2, <1>3 DEF ReadCachedTable, Begin, Forget
<1>4. ASSUME NEW n \in Nodes, NEW c \in BOOLEAN, Call(n, c) PROVE Inside(stack')
  <2>1. Len(stack') = 1 /\ stack'[1].node = n
    BY <1>4 DEF Call, Frame
  <2> QED
    BY <2>1, SubtreesOfSubtrees DEF Inside
<1>5. CASE CacheSubtree
  <2>1. PICK n \in Targets(Top.node, Cached) :
          /\ Len(stack') = Depth + 1 /\ stack'[Depth + 1] = Frame(n, TRUE)
          /\ \A d \in 1..Depth : stack'[d].node = stack[d].node
    BY <1>0, <1>5, Pushed
  <2>2. Depth >= 1 /\ Top.node \in Nodes
    BY <1>0, <1>5, TopTypes DEF CacheSubtree, TooComplex, At
  <2>3. stack'[1].node = stack[1].node /\ stack[1].node \in Nodes
        /\ Top.node \in Subtrees(stack[1].node)
    BY <1>0, <2>1, <2>2 DEF Inside, Top
  <2>4. n \in Subtrees(stack[1].node)
    <3>1. n \in Subtrees(Top.node)
      BY <2>2, CacheTarget, VisitedAreParts
    <3> QED
      BY <2>3, <3>1, SubtreesOfSubtrees
  <2>5. stack'[Depth + 1].node = n
    BY <2>1 DEF Frame
  <2>6. ASSUME NEW d \in 1..Len(stack') PROVE stack'[d].node \in Subtrees(stack'[1].node)
    <3>1. CASE d = Depth + 1
      BY <2>3, <2>4, <2>5, <3>1
    <3>2. CASE d # Depth + 1
      <4>1. d \in 1..Depth
        BY <1>0, <2>1, <3>2
      <4> QED
        BY <1>0, <2>1, <2>3, <4>1 DEF Inside
    <3> QED
      BY <3>1, <3>2
  <2> QED
    BY <2>6 DEF Inside
<1>6. CASE Raise
  BY <1>2, <1>6 DEF Raise
<1>7. CASE Return
  <2>1. stack # <<>> /\ stack' = SubSeq(stack, 1, Depth - 1)
    BY <1>7 DEF Return, At
  <2>2. Len(stack') = Depth - 1 /\ \A d \in 1..(Depth - 1) : stack'[d] = stack[d]
    BY <1>0, <2>1, DropLast DEF TypeOK, Depth
  <2> QED
    BY <1>0, <2>2 DEF Inside
<1> QED
  BY <1>0, <1>1, <1>3, <1>4, <1>5, <1>6, <1>7, Steps

\* What is remembered of an expression is its result.
LEMMA MemoryRight ==
    ASSUME RInv, NEW n \in Nodes
    PROVE  Memory[n] = IF cache[n] = 0 THEN [node |-> 0, rows |-> "none"]
                       ELSE [node |-> n, rows |-> "right"]
BY DEF RInv, CachesRight, Right, Memory

LEMMA KnownWhenCached ==
    ASSUME RInv, NEW n \in Nodes, cache[n] # 0
    PROVE  Memory[n] # [node |-> 0, rows |-> "none"]
<1>1. Memory[n] = [node |-> n, rows |-> "right"]
  BY MemoryRight
<1>2. n # 0
  BY DEF Nodes
<1> QED
  BY <1>1, <1>2

LEMMA MemoryStays ==
    ASSUME RInv, RInv', UNCHANGED cache
    PROVE  UNCHANGED Memory
<1>1. \A n \in Nodes : Memory'[n] = Memory[n]
  <2> SUFFICES ASSUME NEW n \in Nodes PROVE Memory'[n] = Memory[n]
    OBVIOUS
  <2>1. Memory'[n] = IF cache'[n] = 0 THEN [node |-> 0, rows |-> "none"]
                     ELSE [node |-> n, rows |-> "right"]
    BY DEF RInv, CachesRight, Right, Memory
  <2> QED
    BY <2>1, MemoryRight
<1> QED
  BY <1>1 DEF Memory

LEMMA MemoryGrows ==
    ASSUME RInv, RInv', NEW n \in Nodes, NEW t, t # 0, cache' = [cache EXCEPT ![n] = t]
    PROVE  Memory' = [Memory EXCEPT ![n] = [node |-> n, rows |-> "right"]]
<1>0. cache \in [Nodes -> Tables \cup {0}]
  BY DEF RInv, TypeOK
<1>1. ASSUME NEW m \in Nodes
      PROVE  Memory'[m] = IF m = n THEN [node |-> n, rows |-> "right"] ELSE Memory[m]
  <2>1. Memory'[m] = IF cache'[m] = 0 THEN [node |-> 0, rows |-> "none"]
                     ELSE [node |-> m, rows |-> "right"]
    BY DEF RInv, CachesRight, Right, Memory
  <2> QED
    BY <1>0, <2>1, MemoryRight
<1> QED
  BY <1>1 DEF Memory

LEMMA MemoryForgets ==
    ASSUME RInv, RInv', NEW n \in Nodes, Forget(n)
    PROVE  Memory' = [m \in Nodes |-> IF n \in Subtrees(m) THEN [node |-> 0, rows |-> "none"]
                                     ELSE Memory[m]]
<1>1. cache' = [m \in Nodes |-> IF n \in Subtrees(m) THEN 0 ELSE cache[m]]
  BY DEF Forget
<1>2. ASSUME NEW m \in Nodes
      PROVE  Memory'[m] = IF n \in Subtrees(m) THEN [node |-> 0, rows |-> "none"] ELSE Memory[m]
  <2>1. Memory'[m] = IF cache'[m] = 0 THEN [node |-> 0, rows |-> "none"]
                     ELSE [node |-> m, rows |-> "right"]
    BY DEF RInv, CachesRight, Right, Memory
  <2> QED
    BY <1>1, <2>1, MemoryRight
<1> QED
  BY <1>2 DEF Memory

LEMMA Runs ==
    ASSUME TypeOK
    PROVE  /\ (Running = 0) <=> (stack = <<>>)
           /\ stack # <<>> => Running = stack[1].node /\ Running \in Nodes
<1>1. stack # <<>> => 1 \in 1..Depth
  BY TopTypes
<1>2. \A n \in Nodes : n # 0
  BY DEF Nodes
<1> QED
  BY <1>1, <1>2, NodesOfStack DEF Running

LEMMA SameRun ==
    ASSUME TypeOK, SameNodes(stack, stack') PROVE UNCHANGED Running
<1>1. stack = <<>> => stack' = <<>>
  BY DEF SameNodes, TypeOK
<1>2. stack # <<>> => stack' # <<>> /\ stack'[1].node = stack[1].node
  BY TopTypes, NodesOfStack DEF SameNodes
<1> QED
  BY <1>1, <1>2 DEF Running

\* A finished execution returns the result of its node; it files it when asked to.
LEMMA Returned ==
    ASSUME RInv, RInv', Return
    PROVE  /\ Depth = 1 => outcome' = "right"
           /\ \/ UNCHANGED Memory
              \/ Memory' = [Memory EXCEPT ![Top.node] = [node |-> Top.node, rows |-> "right"]]
<1>0. TypeOK /\ stack # <<>> /\ Top.pc = "return" /\ FrameRight(Top, tables) /\ Top.node \in Nodes
  BY TopTypes, TopRight DEF RInv, Return, At
<1>1. Depth = 1 => outcome' = "right"
  BY <1>0, RightReads DEF Return, FrameRight, Right
<1>2. CASE ~Top.caches
  BY <1>1, <1>2, MemoryStays DEF Return
<1>3. CASE Top.caches
  <2>1. cache' = [cache EXCEPT ![Top.node] = Top.target] /\ Top.target # 0
    BY <1>0, <1>3 DEF Return, FrameRight
  <2> QED
    BY <1>0, <1>1, <2>1, MemoryGrows
<1> QED
  BY <1>2, <1>3

\* The executor, with its nested executions, its cache and its uploads, is an evaluation
\* of one expression at a time: what it caches meanwhile are results of parts of that
\* expression, an exception adds nothing to them, and the caller gets the result or the
\* exception (bq_caching_executor.py:425-566).
THEOREM ExecutorEvaluates == Spec => ImplementsEvaluation
<1>1. Init => Evaluation!Init
  BY DEF Init, Evaluation!Init, Running, Memory
<1>2. EInv /\ EInv' /\ [Next]_vars => [Evaluation!Next]_<<Running, Memory, outcome>>
  <2> SUFFICES ASSUME EInv, EInv', [Next]_vars
               PROVE  [Evaluation!Next]_<<Running, Memory, outcome>>
    OBVIOUS
  <2>0. RInv /\ RInv' /\ TypeOK /\ TypeOK' /\ Inside(stack)
    BY DEF EInv, FInv, RInv
  <2>1. CASE SameNodes(stack, stack') /\ UNCHANGED <<cache, outcome>>
    BY <2>0, <2>1, SameRun, MemoryStays
  <2>2. ASSUME NEW n \in Nodes, ReadCachedTable(n) PROVE Evaluation!Recall
    <3>1. Running = 0 /\ UNCHANGED <<Running, Memory>>
      BY <2>0, <2>2, MemoryStays DEF ReadCachedTable, Begin, Running, cacheVars
    <3>2. Memory[n] # [node |-> 0, rows |-> "none"]
      BY <2>0, <2>2, KnownWhenCached DEF ReadCachedTable
    <3>3. outcome' \in {"right", "raised"}
      BY <2>0, <2>2 DEF ReadCachedTable, RowsOf, RInv
    <3> QED
      BY <3>1, <3>2, <3>3 DEF Evaluation!Recall, Evaluation!Known
  <2>3. ASSUME NEW n \in Nodes, Forget(n) PROVE Evaluation!Forget(n)
    <3>1. Running = 0 /\ UNCHANGED <<Running, outcome>>
      BY <2>3 DEF Forget, Running, endVars
    <3>2. Memory[n] # [node |-> 0, rows |-> "none"]
      BY <2>0, <2>3, KnownWhenCached DEF Forget
    <3> QED
      BY <2>0, <2>3, <3>1, <3>2, MemoryForgets DEF Evaluation!Forget, Evaluation!Known
  <2>4. ASSUME NEW n \in Nodes, NEW c \in BOOLEAN, Call(n, c) PROVE Evaluation!Begin
    <3>1. Running = 0 /\ Running' = n /\ outcome' = "none"
      BY <2>4 DEF Call, Begin, Running, Frame
    <3>2. UNCHANGED Memory
      BY <2>0, <2>4, MemoryStays DEF Call, cacheVars
    <3> QED
      BY <3>1, <3>2 DEF Evaluation!Begin
  <2>5. CASE CacheSubtree
    <3>1. stack # <<>> /\ UNCHANGED <<cache, outcome>>
      BY <2>5 DEF CacheSubtree, TooComplex, At, cacheVars, endVars
    <3>2. Depth >= 1 /\ Depth \in Nat
      BY <2>0, <3>1, TopTypes
    <3>3. PICK n : /\ Len(stack') = Depth + 1 /\ stack'[Depth + 1] = Frame(n, TRUE)
                   /\ \A d \in 1..Depth : stack'[d].node = stack[d].node
      BY <2>0, <2>5, Pushed
    <3>4. stack' # <<>> /\ stack'[1].node = stack[1].node
      BY <3>2, <3>3
    <3> QED
      BY <2>0, <3>1, <3>4, MemoryStays DEF Running
  <2>6. CASE stack # <<>> /\ Raise /\ UNCHANGED cache
    <3>1. Running # 0 /\ Running' = 0 /\ outcome' = "raised" /\ UNCHANGED Memory
      BY <2>0, <2>6, Runs, MemoryStays DEF Raise, Running
    <3> QED
      BY <3>1 DEF Evaluation!Next, Evaluation!Raise
  <2>7. CASE Return
    <3>1. stack # <<>> /\ stack' = SubSeq(stack, 1, Depth - 1)
          /\ (Depth > 1 => outcome' = outcome)
      BY <2>7 DEF Return, At
    <3>2. Depth \in Nat /\ Depth >= 1 /\ Top.node \in Nodes /\ Len(stack) = Depth
      BY <2>0, <3>1, TopTypes DEF Depth
    <3>3. Len(stack') = Depth - 1 /\ \A d \in 1..(Depth - 1) : stack'[d] = stack[d]
      BY <2>0, <3>1, DropLast DEF TypeOK, Depth
    <3>4. Running # 0 /\ Running = stack[1].node /\ Running \in Nodes
      BY <2>0, <3>1, Runs
    <3>5. /\ Depth = 1 => outcome' = "right"
          /\ \/ UNCHANGED Memory
             \/ Memory' = [Memory EXCEPT ![Top.node] = [node |-> Top.node, rows |-> "right"]]
      BY <2>0, <2>7, Returned
    <3>6. CASE Depth = 1
      <4>1. Running' = 0 /\ Top.node = Running
        BY <3>1, <3>3, <3>4, <3>6 DEF Running, Top
      <4> QED
        BY <3>4, <3>5, <3>6, <4>1 DEF Evaluation!Next, Evaluation!Answer, Evaluation!Learn
    <3>7. CASE Depth > 1
      <4>1. UNCHANGED Running
        BY <3>1, <3>2, <3>3, <3>7 DEF Running
      <4>2. Top.node \in Subtrees(Running)
        BY <2>0, <3>2, <3>4 DEF Inside, Top
      <4> QED
        BY <3>1, <3>2, <3>4, <3>5, <3>7, <4>1, <4>2
           DEF Evaluation!Next, Evaluation!LearnPart, Evaluation!Learn
    <3> QED
      BY <3>2, <3>6, <3>7
  <2> QED
    BY <2>0, <2>1, <2>2, <2>3, <2>4, <2>5, <2>6, <2>7, Steps DEF Evaluation!Next
<1>3. Spec => []EInv
  <2>1. Init => EInv
    BY FactoredInit, RightInit DEF EInv, FInv, Init, Inside
  <2>2. EInv /\ [Next]_vars => EInv'
    BY FactoredStep, RightStep, InsideStep DEF EInv, FInv
  <2> QED
    BY <2>1, <2>2, PTL DEF Spec
<1> QED
  BY <1>1, <1>2, <1>3, PTL DEF Spec, Evaluation!Spec, ImplementsEvaluation
=============================================================================
