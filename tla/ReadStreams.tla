---------------------------- MODULE ReadStreams ----------------------------
(***************************************************************************)
(* Reading a table through the Storage Read API (core/bq_data.py):         *)
(* get_arrow_batches asks for a read session and _iter_streams yields the  *)
(* pages of its streams.  A thread per stream puts pages in one bounded    *)
(* queue; the generator takes them out, looks at the threads' futures when *)
(* it finds the queue empty, and returns when all are done.  A timeout is  *)
(* an alternative that is open while the queue is full (empty): Python's   *)
(* queue raises Full (Empty) only then.                                    *)
(*                                                                         *)
(* The service is external: it gives a stream count up to the requested    *)
(* one and distributes the pages; a stream serves its pages in their order.*)
(***************************************************************************)
EXTENDS Naturals, Sequences, FiniteSets

CONSTANTS
    MaxPages,  \* bound: the largest table, in pages
    CpuCount   \* os.cpu_count()

ASSUME MaxPagesAssumption == MaxPages \in Nat
ASSUME CpuCountAssumption == CpuCount \in Nat \ {0}

VARIABLES
    ordered,     \* data.ordering is not None
    numStreams,  \* len(session.streams)
    home,        \* the stream of each page of the table
    left,        \* the pages each stream has still to serve
    workerPc,
    hand,        \* the page a worker is putting; 0 is none
    queue,       \* result_queue
    stopEvent,
    pc,          \* where the generator is
    inProgress,  \* in_progress; during a poll, with the futures still to look at
    unchecked,   \* the futures the poll has still to look at
    yielded,     \* the pages the caller got
    outcome

tableVars == <<ordered, numStreams, home>>
workerVars == <<left, workerPc, hand>>
pollVars == <<inProgress, unchecked>>
vars == <<tableVars, workerVars, queue, stopEvent, pc, pollVars, yielded, outcome>>

Streams == 1..CpuCount
Workers == 1..numStreams
Pages == 1..MaxPages
Ended == {"done", "failed"}

TypeOK ==
    /\ ordered \in BOOLEAN
    /\ numStreams \in 0..CpuCount
    /\ DOMAIN home \subseteq Pages /\ \A p \in DOMAIN home : home[p] \in Workers
    /\ left \in [Streams -> SUBSET DOMAIN home]
    /\ workerPc \in [Streams -> {"none", "read", "put", "full"} \cup Ended]
    /\ hand \in [Streams -> {0} \cup DOMAIN home]
    /\ \A w \in Streams : hand[w] # 0 <=> workerPc[w] \in {"put", "full"}
    /\ queue \in Seq(DOMAIN home) /\ Len(queue) <= numStreams
    /\ stopEvent \in BOOLEAN
    /\ pc \in {"submit", "get", "yielded", "poll", "finally", "leave", "ended"}
    /\ inProgress \subseteq Workers /\ unchecked \subseteq inProgress
    /\ pc = "submit" => \A w \in Workers \ inProgress : workerPc[w] = "none"
    /\ yielded \in Seq(DOMAIN home)
    /\ outcome \in {"open", "returned", "raised", "closed"}

\* Mutant: an ordered table is read like any other.
AllStreams(inOrder) == CpuCount

\* "Single stream to maintain ordering".
MaxStreams(inOrder) == IF inOrder THEN 1 ELSE CpuCount

\* The answer of create_read_session; a table without rows may get no stream.
ReadSession ==
    /\ numStreams \in 0..MaxStreams(ordered)
    /\ home \in UNION {[1..n -> 1..numStreams] : n \in 0..MaxPages}
    /\ left = [w \in Streams |-> {p \in DOMAIN home : home[p] = w}]

Init ==
    /\ ordered \in BOOLEAN
    /\ ReadSession
    /\ workerPc = [w \in Streams |-> "none"]
    /\ hand = [w \in Streams |-> 0]
    /\ queue = <<>>
    /\ stopEvent = FALSE
    /\ pc = "submit"
    /\ inProgress = {}
    /\ unchecked = {}
    /\ yielded = <<>>
    /\ outcome = "open"
----------------------------------------------------------------------------
(* _iter_stream                                                            *)

Goto(w, place) == workerPc' = [workerPc EXCEPT ![w] = place]

\* The next of reader.rows().pages.
ReadPage(w) ==
    /\ workerPc[w] = "read"
    /\ \E p \in left[w] :
         /\ \A q \in left[w] : p <= q
         /\ hand' = [hand EXCEPT ![w] = p]
         /\ left' = [left EXCEPT ![w] = @ \ {p}]
    /\ Goto(w, "put")
    /\ UNCHANGED <<tableVars, queue, stopEvent, pc, pollVars, yielded, outcome>>

EndOfStream(w) ==
    /\ workerPc[w] = "read" /\ left[w] = {}
    /\ Goto(w, "done")
    /\ UNCHANGED <<tableVars, left, hand, queue, stopEvent, pc, pollVars, yielded, outcome>>

\* Mutant: the queue has no maxsize.
PutUnbounded(w) ==
    /\ workerPc[w] = "put"
    /\ queue' = Append(queue, hand[w])
    /\ hand' = [hand EXCEPT ![w] = 0]
    /\ Goto(w, "read")
    /\ UNCHANGED <<tableVars, left, stopEvent, pc, pollVars, yielded, outcome>>

PutPage(w) ==
    /\ workerPc[w] = "put" /\ Len(queue) < numStreams
    /\ queue' = Append(queue, hand[w])
    /\ hand' = [hand EXCEPT ![w] = 0]
    /\ Goto(w, "read")
    /\ UNCHANGED <<tableVars, left, stopEvent, pc, pollVars, yielded, outcome>>

\* queue.Full after _WORKER_TIME_INCREMENT.
PutTimesOut(w) ==
    /\ workerPc[w] = "put" /\ Len(queue) >= numStreams
    /\ Goto(w, "full")
    /\ UNCHANGED <<tableVars, left, hand, queue, stopEvent, pc, pollVars, yielded, outcome>>

\* "Alternate between put attempt and checking stop event".
CheckStop(w) ==
    /\ workerPc[w] = "full"
    /\ IF stopEvent
       THEN Goto(w, "done") /\ hand' = [hand EXCEPT ![w] = 0]
       ELSE Goto(w, "put") /\ UNCHANGED hand
    /\ UNCHANGED <<tableVars, left, queue, stopEvent, pc, pollVars, yielded, outcome>>

\* The stream breaks, or a page cannot be converted by to_arrow().
FailWorker(w) ==
    /\ workerPc[w] \in {"read", "put"}
    /\ Goto(w, "failed")
    /\ hand' = [hand EXCEPT ![w] = 0]
    /\ UNCHANGED <<tableVars, left, queue, stopEvent, pc, pollVars, yielded, outcome>>
----------------------------------------------------------------------------
(* _iter_streams, in the thread of the caller                              *)

\* get_arrow_batches answers iter([]) itself.
NoStreams ==
    /\ pc = "submit" /\ numStreams = 0
    /\ pc' = "ended"
    /\ outcome' = "returned"
    /\ UNCHANGED <<tableVars, workerVars, queue, stopEvent, pollVars, yielded>>

Submit(w) ==
    /\ pc = "submit" /\ inProgress = 1..(w - 1)
    /\ inProgress' = 1..w
    /\ Goto(w, "read")
    /\ pc' = IF w = numStreams THEN "get" ELSE pc
    /\ UNCHANGED <<tableVars, left, hand, queue, stopEvent, unchecked, yielded, outcome>>

GetPage ==
    /\ pc = "get" /\ queue # <<>>
    /\ yielded' = Append(yielded, Head(queue))
    /\ queue' = Tail(queue)
    /\ pc' = "yielded"
    /\ UNCHANGED <<tableVars, workerVars, stopEvent, pollVars, outcome>>

\* queue.Empty after 0.1 s.
GetTimesOut ==
    /\ pc = "get" /\ queue = <<>>
    /\ pc' = "poll"
    /\ unchecked' = inProgress
    /\ UNCHANGED <<tableVars, workerVars, queue, stopEvent, inProgress, yielded, outcome>>

Resume ==
    /\ pc = "yielded"
    /\ pc' = "get"
    /\ UNCHANGED <<tableVars, workerVars, queue, stopEvent, pollVars, yielded, outcome>>

\* GeneratorExit: truncate_pyarrow_iterable has its rows, the limit of rows was
\* exceeded, or the caller drops the iterator.
Close ==
    /\ pc = "yielded"
    /\ pc' = "finally"
    /\ outcome' = "closed"
    /\ UNCHANGED <<tableVars, workerVars, queue, stopEvent, pollVars, yielded>>

\* The future the poll looks at next, in the order of in_progress.
NextUnchecked == CHOOSE w \in unchecked : \A v \in unchecked : w <= v

\* Mutant: a future that is done is dropped without asking for its result.
DropWithoutResult ==
    /\ pc = "poll" /\ unchecked # {}
    /\ unchecked' = unchecked \ {NextUnchecked}
    /\ inProgress' = IF workerPc[NextUnchecked] \in Ended
                     THEN inProgress \ {NextUnchecked} ELSE inProgress
    /\ UNCHANGED <<tableVars, workerVars, queue, stopEvent, pc, yielded, outcome>>

PollFuture ==
    /\ pc = "poll" /\ unchecked # {}
    /\ unchecked' = unchecked \ {NextUnchecked}
    /\ inProgress' = IF workerPc[NextUnchecked] \in Ended
                     THEN inProgress \ {NextUnchecked} ELSE inProgress
    /\ IF workerPc[NextUnchecked] = "failed"
       THEN pc' = "finally" /\ outcome' = "raised"
       ELSE UNCHANGED <<pc, outcome>>
    /\ UNCHANGED <<tableVars, workerVars, queue, stopEvent, yielded>>

\* The condition of the loop: the queue is not looked at again.
EndPoll ==
    /\ pc = "poll" /\ unchecked = {}
    /\ IF inProgress = {}
       THEN pc' = "finally" /\ outcome' = "returned"
       ELSE pc' = "get" /\ UNCHANGED outcome
    /\ UNCHANGED <<tableVars, workerVars, queue, stopEvent, pollVars, yielded>>

\* Mutant: the event is set after the `with` block instead of in its finally.
LeaveWithoutStop ==
    /\ pc = "finally"
    /\ pc' = "leave"
    /\ UNCHANGED <<tableVars, workerVars, queue, stopEvent, pollVars, yielded, outcome>>

SetStop ==
    /\ pc = "finally"
    /\ stopEvent' = TRUE
    /\ pc' = "leave"
    /\ UNCHANGED <<tableVars, workerVars, queue, pollVars, yielded, outcome>>

LeavePool ==
    /\ pc = "leave" /\ \A w \in Workers : workerPc[w] \in Ended
    /\ pc' = "ended"
    /\ UNCHANGED <<tableVars, workerVars, queue, stopEvent, pollVars, yielded, outcome>>
----------------------------------------------------------------------------
WorkerStep(w) ==
    \/ ReadPage(w) \/ EndOfStream(w) \/ PutPage(w) \/ PutTimesOut(w) \/ CheckStop(w)
    \/ FailWorker(w)

GeneratorStep ==
    \/ NoStreams \/ GetPage \/ GetTimesOut \/ PollFuture \/ EndPoll \/ SetStop \/ LeavePool
    \/ \E w \in Workers : Submit(w)

Next == GeneratorStep \/ Resume \/ Close \/ \E w \in Workers : WorkerStep(w)

\* The pool has a thread per stream, every request is answered in the end and the
\* waits on the queue have timeouts.  The caller owes the generator nothing.
Fairness == WF_vars(GeneratorStep) /\ \A w \in Streams : WF_vars(w \in Workers /\ WorkerStep(w))

Spec == Init /\ [][Next]_vars
FairSpec == Spec /\ Fairness
----------------------------------------------------------------------------
InQueue(p) == \E i \in DOMAIN queue : queue[i] = p
Yielded(p) == \E i \in DOMAIN yielded : yielded[i] = p

\* When the generator returns as if the table were read, every page was read from
\* the service: no worker failed, none stopped at a full queue, and what the caller
\* did not get is in the queue (lines 267-275 against 301-312).
ReturnsAfterEveryStream ==
    outcome = "returned" => \A p \in DOMAIN home : Yielded(p) \/ InQueue(p)

\* The caller gets the pages of a stream in the order of the stream, each at most
\* once, and those of an ordered table in the order of the table (lines 361-364).
PagesInOrder ==
    /\ \A i, j \in DOMAIN yielded :
         i < j /\ home[yielded[i]] = home[yielded[j]] => yielded[i] < yielded[j]
    /\ ordered => \A i \in DOMAIN yielded : yielded[i] = i

\* "each response is large, so small queue is appropriate": however slow the caller,
\* at most two pages per stream were fetched and not given to it (lines 283-285).
BoundedReadAhead ==
    Cardinality({p \in DOMAIN home : ~Yielded(p) /\ p \notin left[home[p]]})
        <= 2 * numStreams

\* The generator ends unless the caller leaves it suspended for ever: workers that
\* wait for room in the queue are stopped, and a failure of one does not keep the
\* others, or the pool, waiting (lines 268-275, 313-314).
ReadEnds == []<>(pc # "yielded") => <>(pc = "ended")

\* "all rows" of the table (dataframe.py:1699): when the generator returns, every
\* page was given to the caller.
AllPagesRead == outcome = "returned" => \A p \in DOMAIN home : Yielded(p)
=============================================================================
