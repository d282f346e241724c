------------------------- MODULE WriteStreamsProofs -------------------------
(***************************************************************************)
(* write_data implements an atomic load of what the service accepts, for   *)
(* any number of batches, any sizes of them and any number of streams.     *)
(*                                                                         *)
(* The invariant accounts for the batches: each one the iterator has given *)
(* out is in the hand of one worker, at one place of one stream or was     *)
(* refused, and by the commit every batch was given out and every hand is  *)
(* empty.                                                                  *)
(***************************************************************************)
EXTENDS WriteStreams, FiniteSetTheorems, SequenceTheorems, TLAPS

\* Until the service refuses something a request's offset is the length of its
\* stream, and what failed, failed for the service's sake.
Faults ==
    /\ ~faulted => \A w \in Workers : offset[w] = length[w]
    /\ refused # {} => faulted
    /\ \A w \in Workers : workerPc[w] = "failed" => faulted
    /\ pc \in {"drain", "raised"} => faulted

\* Only submitted workers have work; a worker ends when no batch is left, and the
\* caller goes on when all workers were submitted or no batch is left.
Phases ==
    /\ \A w \in Workers : hand[w] # 0 \/ stream[w] # <<>> => w <= submitted
    /\ \A w \in Workers : workerPc[w] \in {"finalize", "done"} => nextBatch > NumBatches
    /\ pc # "submit" => submitted = NumStreams \/ nextBatch > NumBatches
    /\ \A w \in names : workerPc[w] = "done"
    /\ pc = "commit" => names = 1..submitted
    /\ pc \in {"commit", "returned", "raised"} =>
          \A w \in Workers : workerPc[w] \in {"none"} \cup Ended
    /\ pc \notin {"returned", "raised"} => shown = [b \in Batches |-> 0]

\* A batch given out is somewhere ...
Accounted ==
    \A b \in Batches : b < nextBatch =>
        \/ \E w \in Workers : hand[w] = b \/ \E i \in DOMAIN stream[w] : stream[w][i] = b
        \/ b \in refused

\* ... and nowhere else.
Unique ==
    /\ \A w \in Workers : hand[w] < nextBatch
    /\ \A w \in Workers : \A i \in DOMAIN stream[w] : stream[w][i] < nextBatch
    /\ \A v, w \in Workers : hand[v] = hand[w] /\ hand[v] # 0 => v = w
    /\ \A v, w \in Workers : \A i \in DOMAIN stream[v] : stream[v][i] # hand[w]
    /\ \A v, w \in Workers : \A i \in DOMAIN stream[v] : \A j \in DOMAIN stream[w] :
         stream[v][i] = stream[w][j] => v = w /\ i = j
    /\ \A b \in refused : b < nextBatch
    /\ \A w \in Workers : hand[w] \notin refused
    /\ \A w \in Workers : \A i \in DOMAIN stream[w] : stream[w][i] \notin refused

IInv == TypeOK /\ Faults /\ Phases /\ Accounted /\ Unique

USE DEF Ended

\* Batches and workers are numbered from 1.
LEMMA Numbers ==
    /\ NumBatches \in Nat /\ NumStreams \in Nat /\ NumStreams > 0
    /\ \A b : b \in Batches <=> b \in Nat /\ 1 <= b /\ b <= NumBatches
    /\ \A w : w \in Workers <=> w \in Nat /\ 1 <= w /\ w <= NumStreams
    /\ \A n \in 1..(NumBatches + 1) : n \in Nat /\ (n <= NumBatches => n \in Batches /\ n + 1 \in 1..(NumBatches + 1))
    /\ \A b \in Batches : NumRows[b] \in Nat
BY NumBatchesAssumption, NumRowsAssumption, NumStreamsAssumption DEF Batches, Workers

LEMMA InitIInv == Init => IInv
<1> SUFFICES ASSUME Init PROVE IInv
  OBVIOUS
<1>1. TypeOK
  <2>1. 1 \in 1..(NumBatches + 1) /\ 0 \in 0..NumStreams /\ \A w \in Workers : w > 0
    BY Numbers
  <2> QED BY <2>1, EmptySeq DEF Init, TypeOK
<1>2. Faults /\ Phases
  BY DEF Init, Faults, Phases
<1>3. Accounted
  BY Numbers DEF Init, Accounted
<1>4. Unique
  BY DEF Init, Unique
<1> QED BY <1>1, <1>2, <1>3, <1>4 DEF IInv

\* Steps of the caller and of the service that move no batch.
LEMMA NoBatchMoves ==
    ASSUME UNCHANGED <<nextBatch, hand, stream, refused>>, Accounted, Unique
    PROVE  Accounted' /\ Unique'
<1>1. Accounted'
  BY DEF Accounted
<1>2. Unique'
  BY DEF Unique
<1> QED BY <1>1, <1>2

\* At the commit every batch is at one place of the collected streams, but for
\* those that were refused, which are at none.
LEMMA CommitShows ==
    ASSUME IInv, pc = "commit"
    PROVE  \A b \in Batches :
               /\ shown[b] = 0
               /\ Cardinality(Places(names, b)) = IF b \in refused THEN 0 ELSE 1
<1> USE DEF IInv
<1>1. nextBatch > NumBatches
  <2>1. CASE submitted = 0
    BY <2>1, Numbers DEF Phases
  <2>2. CASE submitted # 0
    <3>1. submitted \in Nat /\ names = 1..submitted
      BY Numbers DEF Phases, TypeOK
    <3>2. 1 \in names
      BY <2>2, <3>1
    <3>3. 1 \in Workers /\ workerPc[1] = "done"
      BY <3>2, Numbers DEF Phases
    <3> QED BY <3>3 DEF Phases
  <2> QED BY <2>1, <2>2
<1>2. \A w \in Workers : hand[w] = 0
  BY Numbers DEF TypeOK, Phases
<1>3. ASSUME NEW b \in Batches, b \notin refused PROVE Cardinality(Places(names, b)) = 1
  <2>1. PICK w \in Workers : \E i \in DOMAIN stream[w] : stream[w][i] = b
    <3>1. b < nextBatch
      BY <1>1, Numbers DEF TypeOK
    <3>2. b # 0
      BY Numbers
    <3> QED BY <1>2, <1>3, <3>1, <3>2 DEF Accounted
  <2>2. PICK i \in DOMAIN stream[w] : stream[w][i] = b
    BY <2>1
  <2>3. w \in names
    <3>1. stream[w] # <<>>
      BY <2>2
    <3> QED BY <3>1, Numbers DEF Phases, TypeOK
  <2>4. Places(names, b) = {<<w, i>>}
    <3>1. <<w, i>> \in Places(names, b)
      BY <2>2, <2>3 DEF Places
    <3>2. ASSUME NEW q \in Places(names, b) PROVE q = <<w, i>>
      <4>1. PICK v \in names : q \in {v} \X {j \in DOMAIN stream[v] : stream[v][j] = b}
        BY <3>2 DEF Places
      <4>2. PICK j \in DOMAIN stream[v] : q = <<v, j>> /\ stream[v][j] = b
        BY <4>1
      <4>3. v \in Workers
        BY <4>1 DEF TypeOK
      <4>4. v = w /\ j = i
        BY <2>2, <4>2, <4>3 DEF Unique
      <4> QED BY <4>2, <4>4
    <3> QED BY <3>1, <3>2
  <2> QED BY <2>4, FS_Singleton
<1>4. ASSUME NEW b \in refused PROVE Cardinality(Places(names, b)) = 0
  <2>1. \A w \in names : {i \in DOMAIN stream[w] : stream[w][i] = b} = {}
    BY <1>4 DEF Unique, TypeOK
  <2>2. Places(names, b) = {}
    BY <2>1 DEF Places
  <2> QED BY <2>2, FS_EmptySet
<1>5. \A b \in Batches : shown[b] = 0
  BY DEF Phases
<1> QED BY <1>3, <1>4, <1>5

LEMMA TypeStep == ASSUME IInv, [Next]_vars PROVE TypeOK'
<1> USE DEF IInv, TypeOK, poolVars, workerVars, serviceVars, Goto
<1>1. CASE UNCHANGED vars
  BY <1>1 DEF vars
<1>2. ASSUME NEW w \in Workers, WorkerStep(w) PROVE TypeOK'
  <2>1. CASE CreateStream(w) BY <2>1 DEF CreateStream
  <2>2. CASE TakeBatch(w)
    <3>1. nextBatch \in Batches /\ nextBatch' \in 1..(NumBatches + 1)
      BY <2>2, Numbers DEF TakeBatch
    <3>2. hand' = [hand EXCEPT ![w] = nextBatch] /\ UNCHANGED <<poolVars, workerPc, offset, serviceVars, faulted>>
      BY <2>2 DEF TakeBatch
    <3> QED BY <2>2, <3>1, <3>2 DEF TakeBatch
  <2>3. CASE AppendBatch(w) \/ RefuseBatch(w)
    <3>1. NextRequest(w) /\ (Take(w) \/ Refuse(w)) /\ faulted' \in BOOLEAN
      BY <2>3 DEF AppendBatch, RefuseBatch
    <3>2. hand[w] \in Batches /\ NumRows[hand[w]] \in Nat
      BY <3>1, Numbers DEF NextRequest
    <3>3. stream' \in [Workers -> Seq(Batches)] /\ length' \in [Workers -> Nat]
      <4>1. CASE Take(w)
        <5>1. Append(stream[w], hand[w]) \in Seq(Batches) /\ length[w] + NumRows[hand[w]] \in Nat
          BY <3>2, AppendProperties
        <5>2. /\ stream' = [stream EXCEPT ![w] = Append(stream[w], hand[w])]
              /\ length' = [length EXCEPT ![w] = length[w] + NumRows[hand[w]]]
          BY <4>1 DEF Take
        <5> QED BY <5>1, <5>2
      <4>2. CASE Refuse(w)
        BY <4>2 DEF Refuse
      <4> QED BY <3>1, <4>1, <4>2
    <3>4. offset' \in [Workers -> Nat]
      <4>1. offset[w] + NumRows[hand[w]] \in Nat
        BY <3>2
      <4>2. offset' = [offset EXCEPT ![w] = offset[w] + NumRows[hand[w]]]
        BY <3>1 DEF NextRequest
      <4> QED BY <4>1, <4>2
    <3>5. refused' \subseteq Batches
      BY <3>1, <3>2 DEF Take, Refuse
    <3>6. hand' = [hand EXCEPT ![w] = 0] /\ UNCHANGED <<nextBatch, poolVars, workerPc, shown>>
      BY <3>1 DEF NextRequest
    <3> QED BY <3>1, <3>3, <3>4, <3>5, <3>6
  <2>4. CASE EndOfWork(w) BY <2>4 DEF EndOfWork
  <2>5. CASE FinalizeStream(w) BY <2>5 DEF FinalizeStream
  <2>6. CASE FailWorker(w) BY <2>6 DEF FailWorker
  <2> QED BY <1>2, <2>1, <2>2, <2>3, <2>4, <2>5, <2>6 DEF WorkerStep
<1>3. ASSUME CallerStep PROVE TypeOK'
  <2>1. CASE SubmitWorker
    <3> DEFINE w == submitted + 1
    <3>0. submitted \in Nat /\ submitted < NumStreams /\ submitted' = w
      BY <2>1, Numbers DEF SubmitWorker
    <3>1. /\ w \in Workers /\ w \in 0..NumStreams /\ nextBatch \in Batches
          /\ nextBatch' \in 1..(NumBatches + 1)
      <4>1. w \in Workers /\ w \in 0..NumStreams
        <5>1. NumStreams \in Nat
          BY Numbers
        <5>2. w \in Nat /\ 1 <= w /\ w <= NumStreams
          BY <3>0, <5>1
        <5> HIDE DEF w
        <5> QED BY <5>1, <5>2 DEF Workers
      <4>2. nextBatch <= NumBatches /\ nextBatch' = nextBatch + 1
        BY <2>1 DEF SubmitWorker
      <4> HIDE DEF w
      <4> QED BY <4>1, <4>2, Numbers
    <3>2. /\ hand' = [hand EXCEPT ![w] = nextBatch]
          /\ workerPc' = [workerPc EXCEPT ![w] = "create"]
          /\ UNCHANGED <<pc, names, offset, serviceVars, faulted>>
      BY <2>1, <3>0, <3>1 DEF SubmitWorker
    <3>3. \A v \in Workers : v > w <=> v > submitted /\ v # w
      <4>1. \A v \in Workers : v \in Nat
        BY Numbers
      <4> QED BY <3>0, <4>1
    <3> HIDE DEF w
    <3>4. \A v \in Workers : workerPc'[v] = "none" <=> v > submitted'
      BY <3>0, <3>1, <3>2, <3>3
    <3> QED BY <3>0, <3>1, <3>2, <3>4
  <2>2. CASE EndSubmit BY <2>2 DEF EndSubmit
  <2>3. CASE AllCollected BY <2>3 DEF AllCollected
  <2>4. CASE LeavePool BY <2>4 DEF LeavePool
  <2>5. CASE Commit \/ FailCommit
    <3>1. shown' \in [Batches -> Nat]
      BY <2>5, CommitShows DEF Commit, FailCommit
    <3> QED BY <2>5, <3>1 DEF Commit, FailCommit
  <2>7. ASSUME NEW w \in Workers, CollectName(w) PROVE TypeOK'
    BY <2>7 DEF CollectName
  <2>8. ASSUME NEW w \in Workers, CollectFailure(w) PROVE TypeOK'
    BY <2>8 DEF CollectFailure
  <2> QED BY <1>3, <2>1, <2>2, <2>3, <2>4, <2>5, <2>7, <2>8 DEF CallerStep
<1> QED BY <1>1, <1>2, <1>3 DEF Next

LEMMA FaultsStep ==
    ASSUME IInv, [Next]_vars PROVE Faults'
<1> USE DEF IInv, Faults, poolVars, workerVars, serviceVars, Goto
<1>1. CASE UNCHANGED vars
  BY <1>1 DEF vars
<1>2. ASSUME NEW w \in Workers, WorkerStep(w) PROVE Faults'
  <2>1. CASE CreateStream(w) BY <2>1 DEF CreateStream, TypeOK
  <2>2. CASE TakeBatch(w) BY <2>2 DEF TakeBatch, TypeOK
  <2>3. CASE AppendBatch(w)
    <3>1. /\ offset' = [offset EXCEPT ![w] = offset[w] + NumRows[hand[w]]]
          /\ UNCHANGED <<workerPc, pc, faulted>>
      BY <2>3 DEF AppendBatch, NextRequest
    <3>2. CASE offset[w] = length[w]
      <4>1. /\ length' = [length EXCEPT ![w] = length[w] + NumRows[hand[w]]]
            /\ UNCHANGED refused
        BY <2>3, <3>2 DEF AppendBatch, Take
      <4> QED BY <3>1, <3>2, <4>1 DEF TypeOK
    <3>3. CASE offset[w] # length[w]
      BY <3>1, <3>3
    <3> QED BY <3>2, <3>3
  <2>7. CASE RefuseBatch(w)
    BY <2>7 DEF RefuseBatch, NextRequest
  <2>4. CASE EndOfWork(w) BY <2>4 DEF EndOfWork, TypeOK
  <2>5. CASE FinalizeStream(w) BY <2>5 DEF FinalizeStream, TypeOK
  <2>6. CASE FailWorker(w) BY <2>6 DEF FailWorker, TypeOK
  <2> QED BY <1>2, <2>1, <2>2, <2>3, <2>4, <2>5, <2>6, <2>7 DEF WorkerStep
<1>3. ASSUME CallerStep PROVE Faults'
  <2>1. CASE SubmitWorker BY <2>1 DEF SubmitWorker, TypeOK
  <2>2. CASE EndSubmit BY <2>2 DEF EndSubmit
  <2>3. CASE AllCollected BY <2>3 DEF AllCollected
  <2>4. CASE LeavePool BY <2>4 DEF LeavePool
  <2>5. CASE Commit \/ FailCommit BY <2>5 DEF Commit, FailCommit
  <2>7. ASSUME NEW w \in Workers, CollectName(w) PROVE Faults'
    BY <2>7 DEF CollectName
  <2>8. ASSUME NEW w \in Workers, CollectFailure(w) PROVE Faults'
    BY <2>8 DEF CollectFailure
  <2> QED BY <1>3, <2>1, <2>2, <2>3, <2>4, <2>5, <2>7, <2>8 DEF CallerStep
<1> QED BY <1>1, <1>2, <1>3 DEF Next

\* Worker w, or the caller for it, takes the next batch.
LEMMA TakeKeepsCount ==
    ASSUME IInv, NEW w \in Workers, hand[w] = 0, nextBatch <= NumBatches,
           hand' = [hand EXCEPT ![w] = nextBatch], nextBatch' = nextBatch + 1,
           UNCHANGED <<stream, refused>>
    PROVE  Accounted' /\ Unique'
<1> USE DEF IInv
<1>1. nextBatch \in Nat /\ hand'[w] = nextBatch /\ \A v \in Workers : v # w => hand'[v] = hand[v]
  BY Numbers DEF TypeOK
<1>2. \A v \in Workers : hand[v] < nextBatch /\ hand[v] \in Nat /\ hand'[v] \in Nat
  BY <1>1, Numbers DEF Unique, TypeOK
<1>3. \A v \in Workers : \A i \in DOMAIN stream[v] :
        stream[v][i] \in Nat /\ stream[v][i] # 0 /\ stream[v][i] < nextBatch
  BY Numbers DEF Unique, TypeOK
<1>4. Accounted'
  <2> SUFFICES ASSUME NEW b \in Batches, b < nextBatch'
               PROVE  \/ \E v \in Workers : hand'[v] = b \/ \E i \in DOMAIN stream[v] : stream[v][i] = b
                      \/ b \in refused
    BY DEF Accounted
  <2>1. CASE b = nextBatch
    BY <1>1, <2>1
  <2>2. CASE b # nextBatch /\ b \notin refused
    <3>1. PICK v \in Workers : hand[v] = b \/ \E i \in DOMAIN stream[v] : stream[v][i] = b
      BY <1>1, <2>2, Numbers DEF Accounted
    <3>2. hand[v] = b => v # w
      BY Numbers
    <3> QED BY <1>1, <3>1, <3>2
  <2> QED BY <2>1, <2>2
<1>5. Unique'
  <2>1. \A v \in Workers : hand'[v] < nextBatch'
    BY <1>1, <1>2
  <2>2. \A v \in Workers : \A i \in DOMAIN stream[v] : stream[v][i] < nextBatch'
    BY <1>1, <1>3
  <2>3. \A u, v \in Workers : hand'[u] = hand'[v] /\ hand'[u] # 0 => u = v
    BY <1>1, <1>2 DEF Unique
  <2>4. \A u, v \in Workers : \A i \in DOMAIN stream[u] : stream[u][i] # hand'[v]
    BY <1>1, <1>3 DEF Unique
  <2>5. \A b \in refused : b \in Nat /\ b < nextBatch /\ b < nextBatch'
    BY <1>1, Numbers DEF Unique, TypeOK
  <2>6. \A v \in Workers : hand'[v] \notin refused
    BY <1>1, <2>5 DEF Unique
  <2> QED BY <2>1, <2>2, <2>3, <2>4, <2>5, <2>6 DEF Unique
<1> QED BY <1>4, <1>5

\* Worker w's batch moves from its hand to the end of its stream.
LEMMA AppendKeepsCount ==
    ASSUME IInv, NEW w \in Workers, hand[w] # 0,
           hand' = [hand EXCEPT ![w] = 0],
           stream' = [stream EXCEPT ![w] = Append(stream[w], hand[w])],
           UNCHANGED <<nextBatch, refused>>
    PROVE  Accounted' /\ Unique'
<1> USE DEF IInv
<1> DEFINE n == Len(stream[w]) + 1
<1>1. hand'[w] = 0 /\ \A v \in Workers : v # w => hand'[v] = hand[v] /\ stream'[v] = stream[v]
  BY DEF TypeOK
<1>2. /\ n \in Nat \ {0} /\ DOMAIN stream[w] = 1..(n - 1) /\ DOMAIN stream'[w] = 1..n
      /\ stream'[w][n] = hand[w]
      /\ \A i \in DOMAIN stream[w] : stream'[w][i] = stream[w][i]
  <2>1. stream[w] \in Seq(Batches) /\ hand[w] \in Batches /\ stream'[w] = Append(stream[w], hand[w])
    BY DEF TypeOK
  <2> QED BY <2>1, AppendProperties, LenProperties
<1>3. Accounted'
  <2> SUFFICES ASSUME NEW b \in Batches, b < nextBatch
               PROVE  \/ \E v \in Workers : hand'[v] = b \/ \E i \in DOMAIN stream'[v] : stream'[v][i] = b
                      \/ b \in refused
    BY DEF Accounted
  <2> SUFFICES ASSUME b \notin refused
               PROVE  \E v \in Workers : hand'[v] = b \/ \E i \in DOMAIN stream'[v] : stream'[v][i] = b
    OBVIOUS
  <2>1. PICK v \in Workers : hand[v] = b \/ \E i \in DOMAIN stream[v] : stream[v][i] = b
    BY DEF Accounted
  <2>2. CASE v # w
    BY <1>1, <2>1, <2>2
  <2>3. CASE v = w
    <3> HIDE DEF n
    <3>1. DOMAIN stream[w] \subseteq DOMAIN stream'[w] /\ n \in DOMAIN stream'[w]
      BY <1>2
    <3> QED BY <1>2, <2>1, <2>3, <3>1
  <2> QED BY <2>2, <2>3
<1>4. Unique'
  <2> HIDE DEF n
  \* Every place after the step is one before it, or the hand's batch.
  <2>1. ASSUME NEW v \in Workers, NEW i \in DOMAIN stream'[v]
        PROVE  \/ i \in DOMAIN stream[v] /\ stream'[v][i] = stream[v][i] /\ ~(v = w /\ i = n)
               \/ v = w /\ i = n /\ stream'[v][i] = hand[w]
    BY <1>1, <1>2
  <2>2. \A v \in Workers : hand'[v] < nextBatch
    BY <1>1, Numbers DEF Unique, TypeOK
  <2>3. \A v \in Workers : \A i \in DOMAIN stream'[v] : stream'[v][i] < nextBatch
    BY <2>1 DEF Unique
  <2>4. \A u, v \in Workers : hand'[u] = hand'[v] /\ hand'[u] # 0 => u = v
    BY <1>1 DEF Unique
  <2>5. ASSUME NEW u \in Workers, NEW v \in Workers, NEW i \in DOMAIN stream'[u]
        PROVE  stream'[u][i] # hand'[v]
    <3>1. CASE v = w
      <4>1. stream'[u][i] # 0
        <5>1. \A x \in Workers : \A k \in DOMAIN stream[x] : stream[x][k] \in Batches
          BY DEF TypeOK
        <5>2. hand[w] \in Batches
          BY DEF TypeOK
        <5>3. 0 \notin Batches
          BY Numbers
        <5> QED BY <2>1, <5>1, <5>2, <5>3
      <4> QED BY <1>1, <3>1, <4>1
    <3>2. CASE v # w
      BY <1>1, <2>1, <3>2 DEF Unique
    <3> QED BY <3>1, <3>2
  <2>6. ASSUME NEW u \in Workers, NEW v \in Workers,
               NEW i \in DOMAIN stream'[u], NEW j \in DOMAIN stream'[v],
               stream'[u][i] = stream'[v][j]
        PROVE  u = v /\ i = j
    BY <2>1, <2>6 DEF Unique
  <2>7. \A v \in Workers : hand'[v] \notin refused
    <3>1. 0 \notin refused
      BY Numbers DEF TypeOK
    <3> QED BY <1>1, <3>1 DEF Unique
  <2>8. \A v \in Workers : \A i \in DOMAIN stream'[v] : stream'[v][i] \notin refused
    BY <2>1 DEF Unique
  <2> QED BY <2>2, <2>3, <2>4, <2>5, <2>6, <2>7, <2>8 DEF Unique
<1> QED BY <1>3, <1>4

\* Worker w's batch is refused and leaves its hand.
LEMMA RefusalKeepsCount ==
    ASSUME IInv, NEW w \in Workers, hand[w] # 0,
           hand' = [hand EXCEPT ![w] = 0], refused' = refused \cup {hand[w]},
           UNCHANGED <<nextBatch, stream>>
    PROVE  Accounted' /\ Unique'
<1> USE DEF IInv
<1>1. hand'[w] = 0 /\ \A v \in Workers : v # w => hand'[v] = hand[v]
  BY DEF TypeOK
<1>2. 0 \notin refused' /\ 0 < nextBatch
  BY Numbers DEF TypeOK
<1>3. Accounted'
  BY <1>1 DEF Accounted
<1>4. Unique'
  <2>1. \A v \in Workers : hand'[v] < nextBatch /\ hand'[v] \notin refused'
    BY <1>1, <1>2 DEF Unique
  <2>2. \A u, v \in Workers : hand'[u] = hand'[v] /\ hand'[u] # 0 => u = v
    BY <1>1 DEF Unique
  <2>3. \A u, v \in Workers : \A i \in DOMAIN stream[u] : stream[u][i] # hand'[v]
    <3>1. \A u \in Workers : \A i \in DOMAIN stream[u] : stream[u][i] # 0
      BY Numbers DEF TypeOK
    <3> QED BY <1>1, <3>1 DEF Unique
  <2>4. \A b \in refused' : b < nextBatch
    BY DEF Unique
  <2>5. \A v \in Workers : \A i \in DOMAIN stream[v] : stream[v][i] \notin refused'
    BY DEF Unique
  <2> QED BY <2>1, <2>2, <2>3, <2>4, <2>5 DEF Unique
<1> QED BY <1>3, <1>4

LEMMA BatchesStep ==
    ASSUME IInv, [Next]_vars PROVE Accounted' /\ Unique'
<1> USE DEF IInv, poolVars, workerVars, serviceVars, Goto
<1>1. ASSUME UNCHANGED <<nextBatch, hand, stream, refused>> PROVE Accounted' /\ Unique'
  BY <1>1, NoBatchMoves
<1>2. CASE UNCHANGED vars
  BY <1>1, <1>2 DEF vars
<1>3. ASSUME NEW w \in Workers, WorkerStep(w) PROVE Accounted' /\ Unique'
  <2>1. CASE TakeBatch(w)
    BY <2>1, TakeKeepsCount DEF TakeBatch
  <2>2. CASE AppendBatch(w) \/ RefuseBatch(w)
    <3>1. NextRequest(w) /\ (Take(w) \/ Refuse(w))
      BY <2>2 DEF AppendBatch, RefuseBatch
    <3>2. CASE Take(w)
      BY <3>1, <3>2, AppendKeepsCount DEF NextRequest, Take
    <3>3. CASE Refuse(w)
      BY <3>1, <3>3, RefusalKeepsCount DEF NextRequest, Refuse
    <3> QED BY <3>1, <3>2, <3>3
  <2>3. CASE CreateStream(w) \/ EndOfWork(w) \/ FinalizeStream(w) \/ FailWorker(w)
    BY <1>1, <2>3 DEF CreateStream, EndOfWork, FinalizeStream, FailWorker
  <2> QED BY <1>3, <2>1, <2>2, <2>3 DEF WorkerStep
<1>4. CASE SubmitWorker
  <2>1. submitted' \in Workers /\ submitted' > submitted
    <3>1. submitted \in Nat /\ submitted < NumStreams /\ submitted' = submitted + 1
      BY <1>4, Numbers DEF SubmitWorker, TypeOK
    <3> QED BY <3>1, Numbers DEF Workers
  <2>2. hand[submitted'] = 0
    BY <2>1, Numbers DEF Phases, TypeOK
  <2> QED BY <1>4, <2>1, <2>2, TakeKeepsCount DEF SubmitWorker
<1>5. ASSUME CallerStep, ~SubmitWorker PROVE Accounted' /\ Unique'
  BY <1>1, <1>5 DEF CallerStep, EndSubmit, AllCollected, LeavePool, Commit, FailCommit,
     CollectName, CollectFailure
<1> QED BY <1>2, <1>3, <1>4, <1>5 DEF Next

LEMMA PhasesStep ==
    ASSUME IInv, TypeOK', [Next]_vars PROVE Phases'
<1> USE DEF IInv, Phases, poolVars, workerVars, serviceVars, Goto
<1>1. CASE UNCHANGED vars
  BY <1>1 DEF vars
<1>2. ASSUME NEW w \in Workers, WorkerStep(w) PROVE Phases'
  <2>1. CASE CreateStream(w) BY <2>1 DEF CreateStream, TypeOK
  <2>2. CASE TakeBatch(w)
    <3>1. w <= submitted
      BY <2>2, Numbers DEF TakeBatch, TypeOK
    <3>2. nextBatch \in Nat /\ nextBatch' = nextBatch + 1 /\ NumBatches \in Nat
      BY <2>2, Numbers DEF TakeBatch, TypeOK
    <3> QED BY <2>2, <3>1, <3>2 DEF TakeBatch, TypeOK
  <2>3. CASE AppendBatch(w) \/ RefuseBatch(w)
    <3>1. NextRequest(w) /\ (Take(w) \/ Refuse(w))
      BY <2>3 DEF AppendBatch, RefuseBatch
    <3>2. w <= submitted
      BY <3>1 DEF NextRequest
    <3>3. /\ hand' = [hand EXCEPT ![w] = 0]
          /\ \A v \in Workers : v # w => stream'[v] = stream[v]
          /\ UNCHANGED <<nextBatch, poolVars, workerPc, shown>>
      BY <3>1 DEF NextRequest, Take, Refuse, TypeOK
    <3> QED BY <3>2, <3>3 DEF TypeOK
  <2>4. CASE EndOfWork(w) BY <2>4 DEF EndOfWork, TypeOK
  <2>5. CASE FinalizeStream(w) BY <2>5 DEF FinalizeStream, TypeOK
  <2>6. CASE FailWorker(w) BY <2>6 DEF FailWorker, TypeOK
  <2> QED BY <1>2, <2>1, <2>2, <2>3, <2>4, <2>5, <2>6 DEF WorkerStep
<1>3. ASSUME CallerStep PROVE Phases'
  <2>1. CASE SubmitWorker
    <3>1. submitted' \in Workers /\ submitted' > submitted /\ submitted \in Nat
      BY <2>1, Numbers DEF SubmitWorker, TypeOK
    <3>2. workerPc[submitted'] = "none" /\ submitted' \notin names
      BY <3>1 DEF TypeOK
    <3>3. nextBatch \in Nat /\ nextBatch' = nextBatch + 1 /\ NumBatches \in Nat
      BY <2>1, Numbers DEF SubmitWorker, TypeOK
    <3>4. \A v \in Workers : v <= submitted => v <= submitted'
      BY <3>1, Numbers
    <3> QED BY <2>1, <3>1, <3>2, <3>3, <3>4 DEF SubmitWorker, TypeOK
  <2>2. CASE EndSubmit BY <2>2 DEF EndSubmit
  <2>3. CASE AllCollected \/ LeavePool
    <3>1. \A w \in Workers : w \in 1..submitted \/ workerPc[w] = "none"
      BY Numbers DEF TypeOK
    <3>2. \A w \in 1..submitted : workerPc[w] \in Ended
      BY <2>3 DEF AllCollected, LeavePool
    <3> QED BY <2>3, <3>1, <3>2 DEF AllCollected, LeavePool
  <2>5. CASE Commit \/ FailCommit BY <2>5 DEF Commit, FailCommit
  <2>6. ASSUME NEW w \in Workers, CollectName(w) PROVE Phases'
    BY <2>6 DEF CollectName
  <2>7. ASSUME NEW w \in Workers, CollectFailure(w) PROVE Phases'
    BY <2>7 DEF CollectFailure
  <2> QED BY <1>3, <2>1, <2>2, <2>3, <2>5, <2>6, <2>7 DEF CallerStep
<1> QED BY <1>1, <1>2, <1>3 DEF Next

LEMMA Invariance == Spec => []IInv
<1>1. IInv /\ [Next]_vars => IInv'
  BY TypeStep, FaultsStep, BatchesStep, PhasesStep DEF IInv
<1> QED BY <1>1, InitIInv, PTL DEF Spec
----------------------------------------------------------------------------
\* The state of a load is of its types: the workers, the iterator they share, the
\* streams and what the caller has collected (session/loader.py:523-598).
THEOREM LoadTypesCorrect == Spec => []TypeOK
<1>1. IInv => TypeOK
  BY DEF IInv
<1> QED BY <1>1, Invariance, PTL

\* A load raises, and a batch is refused, only when the service fails or refuses a
\* request by itself: no schedule of the workers makes it refuse an offset.
THEOREM FailsOnlyOnFaults == Spec => []FailsOnlyWithTheService
<1>1. IInv => FailsOnlyWithTheService
  BY DEF IInv, Faults, FailsOnlyWithTheService
<1> QED BY <1>1, Invariance, PTL

\* The pool of streams and the one commit implement the atomic load of what the
\* service accepts: initial states map to initial states, a refusal maps to Lose,
\* the commit to Show, a failure to Raise, and every other step changes nothing
\* that AtomicLoad sees.
THEOREM LoadIsAtomic == Spec => ImplementsAtomicLoad
<1> DEFINE status == IF pc \in {"returned", "raised"} THEN pc ELSE "loading"
<1>1. Init => Load!Init
  BY DEF Init, Load!Init, Load!Nothing
<1>2. IInv /\ [Next]_vars => [Load!Next]_<<shown, refused, status>>
  <2> SUFFICES ASSUME IInv, [Next]_vars PROVE [Load!Next]_<<shown, refused, status>>
    OBVIOUS
  <2>1. CASE Commit \/ FailCommit
    <3>1. /\ pc = "commit" /\ status = "loading" /\ shown = [b \in Batches |-> 0]
          /\ UNCHANGED refused
      BY <2>1 DEF Commit, FailCommit, IInv, Phases
    <3>2. \A b \in Batches :
            shown[b] + Cardinality(Places(names, b)) = IF b \in refused THEN 0 ELSE 1
      BY <3>1, CommitShows
    <3>3. CASE UNCHANGED shown /\ pc' = "raised"
      BY <3>1, <3>3 DEF Load!Next, Load!Raise
    <3>4. CASE /\ shown' = [b \in Batches |-> shown[b] + Cardinality(Places(names, b))]
               /\ pc' \in {"returned", "raised"}
      <4>1. shown' = [b \in Batches |-> IF b \in refused THEN 0 ELSE 1]
        BY <3>2, <3>4
      <4> QED BY <3>1, <3>4, <4>1 DEF Load!Next, Load!Show, Load!Nothing, Load!Accepted
    <3> QED BY <2>1, <3>3, <3>4 DEF Commit, FailCommit
  <2>2. CASE LeavePool
    BY <2>2 DEF LeavePool, serviceVars, Load!Next, Load!Raise
  <2>3. ASSUME NEW w \in Workers, AppendBatch(w) \/ RefuseBatch(w)
        PROVE  [Load!Next]_<<shown, refused, status>>
    <3>1. NextRequest(w) /\ (Take(w) \/ Refuse(w))
      BY <2>3 DEF AppendBatch, RefuseBatch
    <3>2. hand[w] \in Batches \ refused
      BY <3>1, Numbers DEF NextRequest, IInv, TypeOK, Unique
    <3>3. status = "loading" /\ shown = [b \in Batches |-> 0]
      <4>1. pc \notin {"returned", "raised"}
        BY <3>1 DEF NextRequest, IInv, Phases
      <4> QED BY <4>1 DEF IInv, Phases
    <3>4. UNCHANGED <<shown, pc>>
      BY <3>1 DEF NextRequest, poolVars
    <3> QED BY <3>1, <3>2, <3>3, <3>4 DEF Take, Refuse, Load!Next, Load!Lose, Load!Nothing
  <2>4. CASE UNCHANGED vars
    BY <2>4 DEF vars, serviceVars, poolVars
  <2>5. ASSUME NEW w \in Workers, WorkerStep(w), ~AppendBatch(w), ~RefuseBatch(w)
        PROVE  UNCHANGED <<shown, refused, pc>>
    BY <2>5 DEF WorkerStep, CreateStream, TakeBatch, EndOfWork, FinalizeStream,
                FailWorker, poolVars, serviceVars
  <2>6. CASE \/ SubmitWorker \/ EndSubmit \/ AllCollected
             \/ \E w \in Workers : CollectName(w) \/ CollectFailure(w)
    BY <2>6 DEF SubmitWorker, EndSubmit, AllCollected, CollectName, CollectFailure,
                poolVars, serviceVars
  <2> QED BY <2>1, <2>2, <2>3, <2>4, <2>5, <2>6 DEF Next, CallerStep
<1> QED BY <1>1, <1>2, Invariance, PTL DEF Spec, Load!Spec, ImplementsAtomicLoad
=============================================================================
