---------------------------- MODULE WriteStreams ----------------------------
(***************************************************************************)
(* GbqDataLoader.write_data (session/loader.py): local data is uploaded by *)
(* a pool of threads, each with a PENDING stream of the Storage Write API. *)
(* The threads take the batches from one ThreadSafeIterator; the caller    *)
(* takes the first batch of each thread from it too.  When every stream is *)
(* finalized, all are committed in one request.                            *)
(*                                                                         *)
(* The service is external: a PENDING stream takes a batch when the offset *)
(* of the request is its number of rows, shows nothing before the commit,  *)
(* and BatchCommitWriteStreams commits all its streams or none.  A request *)
(* it does not take either ends the connection, which raises in the        *)
(* worker, or is answered with an error: of the answers write_data looks   *)
(* at row_errors only, so that an answer with `error` goes unnoticed.      *)
(***************************************************************************)
EXTENDS Naturals, Sequences, FiniteSets

CONSTANTS
    NumBatches,  \* the record batches of the data
    NumRows,     \* the rows of each batch
    NumStreams   \* num_streams, the threads of the pool

ASSUME NumBatchesAssumption == NumBatches \in Nat
ASSUME NumRowsAssumption == NumRows \in [1..NumBatches -> Nat \ {0}]
ASSUME NumStreamsAssumption == NumStreams \in Nat \ {0}

Batches == 1..NumBatches
Workers == 1..NumStreams

VARIABLES
    nextBatch,  \* the position of shared_batches
    pc,         \* where write_data is
    submitted,  \* how many workers were submitted to the pool
    workerPc,
    hand,       \* the batch a worker took and has not sent; 0 is none
    offset,     \* current_offset of each worker
    stream,     \* the batches the service took, per stream
    length,     \* the rows the service took, per stream
    names,      \* stream_names: the workers whose results were collected
    shown,      \* how often each batch is visible in the table
    refused,    \* history: the batches refused by an answer nobody looked at
    faulted     \* history: the service failed or refused a request

poolVars == <<pc, submitted, names>>
workerVars == <<workerPc, hand, offset>>
serviceVars == <<stream, length, shown, refused>>
vars == <<nextBatch, poolVars, workerVars, serviceVars, faulted>>

Ended == {"done", "failed"}

TypeOK ==
    /\ nextBatch \in 1..(NumBatches + 1)
    /\ pc \in {"submit", "collect", "drain", "commit", "returned", "raised"}
    /\ submitted \in 0..NumStreams
    /\ workerPc \in [Workers -> {"none", "create", "append", "finalize"} \cup Ended]
    /\ hand \in [Workers -> Batches \cup {0}]
    /\ offset \in [Workers -> Nat]
    /\ stream \in [Workers -> Seq(Batches)]
    /\ length \in [Workers -> Nat]
    /\ names \subseteq Workers
    /\ shown \in [Batches -> Nat]
    /\ refused \subseteq Batches
    /\ faulted \in BOOLEAN
    /\ \A w \in Workers :
         /\ workerPc[w] = "none" <=> w > submitted
         /\ workerPc[w] \in {"finalize", "done"} => hand[w] = 0

Init ==
    /\ nextBatch = 1
    /\ pc = "submit"
    /\ submitted = 0
    /\ workerPc = [w \in Workers |-> "none"]
    /\ hand = [w \in Workers |-> 0]
    /\ offset = [w \in Workers |-> 0]
    /\ stream = [w \in Workers |-> <<>>]
    /\ length = [w \in Workers |-> 0]
    /\ names = {}
    /\ shown = [b \in Batches |-> 0]
    /\ refused = {}
    /\ faulted = FALSE
----------------------------------------------------------------------------
(* stream_worker                                                           *)

Goto(w, place) == workerPc' = [workerPc EXCEPT ![w] = place]

CreateStream(w) ==
    /\ workerPc[w] = "create"
    /\ Goto(w, "append")
    /\ UNCHANGED <<nextBatch, poolVars, hand, offset, serviceVars, faulted>>

\* Mutant: the iterator is shared without its lock; a thread gets a batch that
\* another one has taken.
TakeUnlocked(w) ==
    /\ workerPc[w] = "append" /\ hand[w] = 0 /\ nextBatch <= NumBatches
    /\ hand' \in {[hand EXCEPT ![w] = b] : b \in {nextBatch - 1, nextBatch}}
    /\ nextBatch' = nextBatch + 1
    /\ UNCHANGED <<poolVars, workerPc, offset, serviceVars, faulted>>

\* next() of the iterator the workers share.
TakeBatch(w) ==
    /\ workerPc[w] = "append" /\ hand[w] = 0 /\ nextBatch <= NumBatches
    /\ hand' = [hand EXCEPT ![w] = nextBatch]
    /\ nextBatch' = nextBatch + 1
    /\ UNCHANGED <<poolVars, workerPc, offset, serviceVars, faulted>>

\* The answer to a request has no row errors: the generator is resumed, and the
\* offset of the next request is past the batch, whether it was taken or not.
NextRequest(w) ==
    /\ workerPc[w] = "append" /\ hand[w] # 0
    /\ offset' = [offset EXCEPT ![w] = @ + NumRows[hand[w]]]
    /\ hand' = [hand EXCEPT ![w] = 0]
    /\ UNCHANGED <<nextBatch, poolVars, workerPc, shown>>

Take(w) ==
    /\ stream' = [stream EXCEPT ![w] = Append(@, hand[w])]
    /\ length' = [length EXCEPT ![w] = @ + NumRows[hand[w]]]
    /\ UNCHANGED refused

Refuse(w) == refused' = refused \cup {hand[w]} /\ UNCHANGED <<stream, length>>

\* Mutant: current_offset counts requests instead of rows.
AppendAndCountRequests(w) ==
    /\ workerPc[w] = "append" /\ hand[w] # 0
    /\ offset' = [offset EXCEPT ![w] = @ + 1]
    /\ hand' = [hand EXCEPT ![w] = 0]
    /\ IF offset[w] = length[w] THEN Take(w) ELSE Refuse(w)
    /\ UNCHANGED <<nextBatch, poolVars, workerPc, shown, faulted>>

\* The request with the batch and the current offset: the service takes it at
\* the end of the stream and refuses one that would leave a gap or overwrite rows.
AppendBatch(w) ==
    /\ NextRequest(w)
    /\ IF offset[w] = length[w] THEN Take(w) ELSE Refuse(w)
    /\ UNCHANGED faulted

\* The service refuses the batch for a reason of its own, in `error`.
RefuseBatch(w) ==
    /\ NextRequest(w)
    /\ Refuse(w)
    /\ faulted' = TRUE

\* Mutant: a worker stops at the end of the shared work without sending its own.
EndWithBatchInHand(w) ==
    /\ workerPc[w] = "append" /\ nextBatch > NumBatches
    /\ Goto(w, "finalize")
    /\ UNCHANGED <<nextBatch, poolVars, hand, offset, serviceVars, faulted>>

\* The generator is exhausted and every response was free of row errors.
EndOfWork(w) ==
    /\ workerPc[w] = "append" /\ hand[w] = 0 /\ nextBatch > NumBatches
    /\ Goto(w, "finalize")
    /\ UNCHANGED <<nextBatch, poolVars, hand, offset, serviceVars, faulted>>

FinalizeStream(w) ==
    /\ workerPc[w] = "finalize"
    /\ Goto(w, "done")
    /\ UNCHANGED <<nextBatch, poolVars, hand, offset, serviceVars, faulted>>

\* A request ends the connection or its response holds row errors: the worker
\* raises, with what it has appended in its stream and perhaps a batch in hand.
FailWorker(w) ==
    /\ workerPc[w] \in {"create", "append", "finalize"}
    /\ Goto(w, "failed")
    /\ faulted' = TRUE
    /\ UNCHANGED <<nextBatch, poolVars, hand, offset, serviceVars>>
----------------------------------------------------------------------------
(* write_data, in the thread of the caller                                 *)

\* "Guarantee at least a single piece of work for each worker".
SubmitWorker ==
    /\ pc = "submit" /\ submitted < NumStreams /\ nextBatch <= NumBatches
    /\ submitted' = submitted + 1
    /\ hand' = [hand EXCEPT ![submitted'] = nextBatch]
    /\ nextBatch' = nextBatch + 1
    /\ Goto(submitted', "create")
    /\ UNCHANGED <<pc, names, offset, serviceVars, faulted>>

\* All the workers are there, or next() raised StopIteration.
EndSubmit ==
    /\ pc = "submit" /\ (submitted = NumStreams \/ nextBatch > NumBatches)
    /\ pc' = "collect"
    /\ UNCHANGED <<nextBatch, submitted, names, workerVars, serviceVars, faulted>>

\* as_completed yields a future that has a result ...
CollectName(w) ==
    /\ pc = "collect" /\ workerPc[w] = "done" /\ w \notin names
    /\ names' = names \cup {w}
    /\ UNCHANGED <<nextBatch, pc, submitted, workerVars, serviceVars, faulted>>

\* ... or one whose result() raises: the `with` block then waits for the others.
CollectFailure(w) ==
    /\ pc = "collect" /\ workerPc[w] = "failed"
    /\ pc' = "drain"
    /\ UNCHANGED <<nextBatch, submitted, names, workerVars, serviceVars, faulted>>

AllCollected ==
    /\ pc = "collect" /\ names = 1..submitted
    /\ pc' = "commit"
    /\ UNCHANGED <<nextBatch, submitted, names, workerVars, serviceVars, faulted>>

\* Mutant: leaving the pool waits for workers that can no longer succeed.
WaitForSuccess ==
    /\ pc = "drain" /\ \A w \in 1..submitted : workerPc[w] = "done"
    /\ pc' = "raised"
    /\ UNCHANGED <<nextBatch, submitted, names, workerVars, serviceVars, faulted>>

LeavePool ==
    /\ pc = "drain" /\ \A w \in 1..submitted : workerPc[w] \in Ended
    /\ pc' = "raised"
    /\ UNCHANGED <<nextBatch, submitted, names, workerVars, serviceVars, faulted>>

\* Where batch b is in the streams of `ws`.
Places(ws, b) ==
    UNION {{w} \X {i \in DOMAIN stream[w] : stream[w][i] = b} : w \in ws}

\* "This makes all data from all streams visible in the table at once".
Commit ==
    /\ pc = "commit"
    /\ shown' = [b \in Batches |-> shown[b] + Cardinality(Places(names, b))]
    /\ pc' = "returned"
    /\ UNCHANGED <<nextBatch, submitted, names, workerVars, stream, length, refused,
                   faulted>>

\* The commit reports stream errors and shows nothing, or its answer is lost.
FailCommit ==
    /\ pc = "commit"
    /\ \/ UNCHANGED shown
       \/ shown' = [b \in Batches |-> shown[b] + Cardinality(Places(names, b))]
    /\ pc' = "raised"
    /\ faulted' = TRUE
    /\ UNCHANGED <<nextBatch, submitted, names, workerVars, stream, length, refused>>
----------------------------------------------------------------------------
WorkerStep(w) ==
    \/ CreateStream(w) \/ TakeBatch(w) \/ AppendBatch(w) \/ RefuseBatch(w)
    \/ EndOfWork(w) \/ FinalizeStream(w) \/ FailWorker(w)

CallerStep ==
    \/ SubmitWorker \/ EndSubmit \/ AllCollected \/ LeavePool \/ Commit \/ FailCommit
    \/ \E w \in Workers : CollectName(w) \/ CollectFailure(w)

Next == CallerStep \/ \E w \in Workers : WorkerStep(w)

\* Every request of a worker or of the caller is answered in the end, and the
\* pool has a thread for each worker.
Fairness == WF_vars(CallerStep) /\ \A w \in Workers : WF_vars(WorkerStep(w))

Spec == Init /\ [][Next]_vars
FairSpec == Spec /\ Fairness
----------------------------------------------------------------------------
\* The load fails, and a batch is refused, only when the service does so for a
\* reason of its own: the offsets of a stream's requests have no gap, whichever
\* batches its worker happens to get (lines 533-547).
FailsOnlyWithTheService == pc = "raised" \/ refused # {} => faulted

Load == INSTANCE AtomicLoad WITH
    Parts <- Batches,
    lost <- refused,
    status <- IF pc \in {"returned", "raised"} THEN pc ELSE "loading"

\* Of what the service accepted, all or none becomes visible, every batch exactly
\* once however the workers share them, and the caller gets a table with all of
\* it: the pool, the streams and the commit implement an atomic load of the
\* batches that were not refused (lines 560-585).
ImplementsAtomicLoad == Load!Spec


\* write_data ends, with a table or an exception: an exception in one worker does
\* not keep the pool open for ever.
LoadEnds == <>(pc \in {"returned", "raised"})
=============================================================================
