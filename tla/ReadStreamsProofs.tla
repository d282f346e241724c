------------------------- MODULE ReadStreamsProofs -------------------------
(* Theorems about ReadStreams, for every table and every number of streams. *)
EXTENDS ReadStreams, FiniteSetTheorems, SequenceTheorems, TLAPS

\* The generator gives up only after its loop, and sets the event after that.
Phases ==
    /\ stopEvent => pc \in {"leave", "ended"}
    /\ pc \in {"get", "yielded", "poll"} =>
         \A w \in Workers \ inProgress : workerPc[w] = "done"
    /\ pc \in {"submit", "get", "yielded", "poll"} <=> outcome = "open"

\* A worker that was not stopped is done when its stream is exhausted; when the
\* generator returns, all are.
Exhausted ==
    /\ ~stopEvent => \A w \in Workers : workerPc[w] = "done" => left[w] = {}
    /\ outcome = "returned" =>
         \A w \in Workers : workerPc[w] = "done" /\ left[w] = {}

\* A page is on its way unless its worker failed or was stopped.
OnItsWay(p) ==
    \/ Yielded(p)
    \/ InQueue(p)
    \/ p \in left[home[p]]
    \/ hand[home[p]] = p
    \/ workerPc[home[p]] = "failed"
    \/ stopEvent /\ outcome # "returned"

Located == \A p \in DOMAIN home : OnItsWay(p)

IInv == TypeOK /\ Phases /\ Exhausted /\ Located

USE CpuCountAssumption, MaxPagesAssumption

LEMMA WorkersAreStreams == TypeOK => Workers \subseteq Streams
BY DEF TypeOK, Workers, Streams

LEMMA TypeInit == Init => TypeOK
<1> SUFFICES ASSUME Init PROVE TypeOK
  OBVIOUS
<1>1. numStreams \in 0..CpuCount
  BY DEF Init, ReadSession, MaxStreams
<1>2. DOMAIN home \subseteq Pages /\ \A p \in DOMAIN home : home[p] \in Workers
  <2>1. PICK n \in 0..MaxPages : home \in [1..n -> 1..numStreams]
    BY DEF Init, ReadSession
  <2> QED
    BY <2>1 DEF Pages, Workers
<1>3. left \in [Streams -> SUBSET DOMAIN home]
  BY DEF Init, ReadSession
<1>4. /\ workerPc \in [Streams -> {"none", "read", "put", "full"} \cup Ended]
      /\ hand \in [Streams -> {0} \cup DOMAIN home]
      /\ \A w \in Streams : hand[w] # 0 <=> workerPc[w] \in {"put", "full"}
  BY DEF Init
<1>5. /\ queue = <<>> /\ yielded = <<>> /\ inProgress = {} /\ unchecked = {}
      /\ stopEvent = FALSE /\ pc = "submit" /\ outcome = "open" /\ ordered \in BOOLEAN
  BY DEF Init
<1>6. Len(queue) <= numStreams
  BY <1>1, <1>5
<1>7. \A w \in Workers : workerPc[w] = "none"
  BY <1>1 DEF Init, Workers, Streams
<1>8. queue \in Seq(DOMAIN home) /\ yielded \in Seq(DOMAIN home)
  BY <1>5
<1>9. /\ ordered \in BOOLEAN /\ stopEvent \in BOOLEAN
      /\ pc = "submit" /\ outcome = "open"
      /\ inProgress \subseteq Workers /\ unchecked \subseteq inProgress
  BY <1>5
<1> QED
  BY <1>1, <1>2, <1>3, <1>4, <1>6, <1>7, <1>8, <1>9 DEF TypeOK

\* Every step keeps the types.
LEMMA TypeStep == TypeOK /\ [Next]_vars => TypeOK'
<1> SUFFICES ASSUME TypeOK, [Next]_vars PROVE TypeOK'
  OBVIOUS
<1> USE DEF Goto, tableVars, workerVars, pollVars, Ended
<1>1. ASSUME NEW w \in Workers, WorkerStep(w) PROVE TypeOK'
  <2>1. w \in Streams
    BY WorkersAreStreams
  <2> DEFINE Starts == pc = "submit" => \A v \in Workers \ inProgress : workerPc[v] = "none"
  <2>8. Workers' = Workers /\ Starts'
    BY <1>1, <2>1, WorkersAreStreams
       DEF TypeOK, WorkerStep, ReadPage, EndOfStream, PutPage, PutTimesOut, CheckStop,
           FailWorker, Workers
  <2>2. CASE ReadPage(w)
    BY <2>1, <2>8, <2>2 DEF TypeOK, ReadPage, Pages
  <2>3. CASE EndOfStream(w)
    BY <2>1, <2>8, <2>3 DEF TypeOK, EndOfStream
  <2>4. CASE PutPage(w)
    <3>1. hand[w] \in DOMAIN home
      BY <2>1, <2>4 DEF TypeOK, PutPage
    <3>2. queue' \in Seq(DOMAIN home) /\ Len(queue') <= numStreams
      BY <2>4, <3>1 DEF TypeOK, PutPage
    <3> QED
      BY <2>1, <2>8, <2>4, <3>2 DEF TypeOK, PutPage
  <2>5. CASE PutTimesOut(w)
    BY <2>1, <2>8, <2>5 DEF TypeOK, PutTimesOut
  <2>6. CASE CheckStop(w)
    BY <2>1, <2>8, <2>6 DEF TypeOK, CheckStop
  <2>7. CASE FailWorker(w)
    BY <2>1, <2>8, <2>7 DEF TypeOK, FailWorker
  <2> QED
    BY <1>1, <2>2, <2>3, <2>4, <2>5, <2>6, <2>7 DEF WorkerStep
<1>2. CASE NoStreams
  BY <1>2 DEF TypeOK, NoStreams, Workers
<1>3. ASSUME NEW w \in Workers, Submit(w) PROVE TypeOK'
  <2>1. Workers' = Workers /\ w \in Streams
    BY <1>3, WorkersAreStreams DEF Submit, Workers
  <2>2. /\ w \notin inProgress /\ w \in inProgress' /\ inProgress' \subseteq Workers
        /\ inProgress \subseteq inProgress'
    BY <1>3 DEF TypeOK, Submit, Workers
  <2>3. hand[w] = 0
    BY <1>3, <2>1, <2>2 DEF TypeOK, Submit
  <2>4. \A v \in Workers \ inProgress' : workerPc[v] = "none" /\ v # w
    BY <1>3, <2>2 DEF TypeOK, Submit
  <2> QED
    BY <1>3, <2>1, <2>2, <2>3, <2>4 DEF TypeOK, Submit
<1>4. CASE GetPage
  <2>1. /\ Head(queue) \in DOMAIN home
        /\ Tail(queue) \in Seq(DOMAIN home) /\ Len(Tail(queue)) <= numStreams
    BY <1>4 DEF TypeOK, GetPage
  <2>2. yielded' \in Seq(DOMAIN home)
    BY <1>4, <2>1 DEF TypeOK, GetPage
  <2> QED
    BY <1>4, <2>1, <2>2 DEF TypeOK, GetPage, Workers
<1>5. CASE GetTimesOut
  BY <1>5 DEF TypeOK, GetTimesOut, Workers
<1>6. CASE PollFuture
  BY <1>6 DEF TypeOK, PollFuture, Workers
<1>7. CASE EndPoll
  BY <1>7 DEF TypeOK, EndPoll, Workers
<1>8. CASE SetStop
  BY <1>8 DEF TypeOK, SetStop, Workers
<1>9. CASE LeavePool
  BY <1>9 DEF TypeOK, LeavePool, Workers
<1>10. CASE Resume
  BY <1>10 DEF TypeOK, Resume, Workers
<1>11. CASE Close
  BY <1>11 DEF TypeOK, Close, Workers
<1>12. CASE UNCHANGED vars
  BY <1>12 DEF TypeOK, vars, Workers
<1> QED
  BY <1>1, <1>2, <1>3, <1>4, <1>5, <1>6, <1>7, <1>8, <1>9, <1>10, <1>11, <1>12
     DEF Next, GeneratorStep

\* The generator and its workers keep the types of their state.
THEOREM TypeCorrect == Spec => []TypeOK
<1> QED
  BY TypeInit, TypeStep, PTL DEF Spec

----------------------------------------------------------------------------
LEMMA OthersInit == Init => Phases /\ Exhausted /\ Located
<1> SUFFICES ASSUME Init PROVE Phases /\ Exhausted /\ Located
  OBVIOUS
<1>1. TypeOK
  BY TypeInit
<1>2. Phases
  BY DEF Init, Phases
<1>3. Exhausted
  BY <1>1, WorkersAreStreams DEF Init, Exhausted
<1>4. Located
  <2>1. ASSUME NEW p \in DOMAIN home PROVE p \in left[home[p]]
    <3>1. home[p] \in Streams
      BY <1>1, <2>1, WorkersAreStreams DEF TypeOK
    <3> QED
      BY <2>1, <3>1 DEF Init, ReadSession
  <2> QED
    BY <2>1 DEF Located, OnItsWay
<1> QED
  BY <1>2, <1>3, <1>4

\* What a worker changes: its own place, hand and stream, and the end of the queue.
LEMMA WorkerFrame ==
    ASSUME NEW w \in Workers, TypeOK, WorkerStep(w)
    PROVE  /\ UNCHANGED <<ordered, numStreams, home, stopEvent, pc, inProgress,
                          unchecked, yielded, outcome>>
           /\ Workers' = Workers
           /\ workerPc[w] \notin {"none", "done", "failed"}
           /\ \A v \in Streams \ {w} :
                /\ workerPc'[v] = workerPc[v] /\ hand'[v] = hand[v] /\ left'[v] = left[v]
BY WorkersAreStreams
   DEF TypeOK, WorkerStep, ReadPage, EndOfStream, PutPage, PutTimesOut, CheckStop, FailWorker,
       Goto, tableVars, pollVars, Workers

LEMMA PhasesStep == IInv /\ [Next]_vars => Phases'
<1> SUFFICES ASSUME IInv, [Next]_vars PROVE Phases'
  OBVIOUS
<1>1. ASSUME NEW w \in Workers, WorkerStep(w) PROVE Phases'
  BY <1>1, WorkerFrame, WorkersAreStreams DEF IInv, Phases
<1> USE DEF tableVars, workerVars, pollVars, Workers
<1>2. CASE NoStreams
  BY <1>2 DEF IInv, Phases, NoStreams
<1>3. ASSUME NEW w \in Workers, Submit(w) PROVE Phases'
  BY <1>3 DEF IInv, Phases, Submit
<1>4. CASE GetPage
  BY <1>4 DEF IInv, Phases, GetPage
<1>5. CASE GetTimesOut
  BY <1>5 DEF IInv, Phases, GetTimesOut
<1>6. CASE PollFuture
  BY <1>6 DEF IInv, Phases, PollFuture, Ended
<1>7. CASE EndPoll
  BY <1>7 DEF IInv, Phases, EndPoll
<1>8. CASE SetStop
  BY <1>8 DEF IInv, Phases, SetStop
<1>9. CASE LeavePool
  BY <1>9 DEF IInv, Phases, LeavePool
<1>10. CASE Resume
  BY <1>10 DEF IInv, Phases, Resume
<1>11. CASE Close
  BY <1>11 DEF IInv, Phases, Close
<1>12. CASE UNCHANGED vars
  BY <1>12 DEF IInv, Phases, vars
<1> QED
  BY <1>1, <1>2, <1>3, <1>4, <1>5, <1>6, <1>7, <1>8, <1>9, <1>10, <1>11, <1>12
     DEF Next, GeneratorStep

LEMMA ExhaustedStep == IInv /\ [Next]_vars => Exhausted'
<1> SUFFICES ASSUME IInv, [Next]_vars PROVE Exhausted'
  OBVIOUS
<1>1. ASSUME NEW w \in Workers, WorkerStep(w) PROVE Exhausted'
  <2>1. w \in Streams /\ outcome # "returned"
    BY <1>1, WorkerFrame, WorkersAreStreams DEF IInv, Exhausted
  <2>2. workerPc'[w] = "done" => left'[w] = {} \/ stopEvent
    BY <1>1, <2>1
       DEF IInv, TypeOK, WorkerStep, ReadPage, EndOfStream, PutPage, PutTimesOut,
           CheckStop, FailWorker, Goto
  <2> QED
    BY <1>1, <2>1, <2>2, WorkerFrame, WorkersAreStreams DEF IInv, Exhausted
<1> USE DEF tableVars, workerVars, pollVars, Workers
<1>2. CASE NoStreams
  BY <1>2 DEF IInv, Exhausted, NoStreams
<1>3. ASSUME NEW w \in Workers, Submit(w) PROVE Exhausted'
  <2>1. pc = "submit" /\ outcome # "returned" /\ outcome' # "returned"
    BY <1>3 DEF IInv, Phases, Submit
  <2>2. \A v \in Workers : workerPc'[v] = "done" => workerPc[v] = "done"
    BY <1>3, WorkersAreStreams DEF IInv, TypeOK, Submit, Goto
  <2> QED
    BY <1>3, <2>1, <2>2 DEF IInv, Exhausted, Submit
<1>4. CASE GetPage
  BY <1>4 DEF IInv, Exhausted, GetPage
<1>5. CASE GetTimesOut
  BY <1>5 DEF IInv, Exhausted, GetTimesOut
<1>6. CASE PollFuture
  BY <1>6 DEF IInv, Exhausted, PollFuture
<1>7. CASE EndPoll
  BY <1>7 DEF IInv, Phases, Exhausted, EndPoll
<1>8. CASE SetStop
  BY <1>8 DEF IInv, Exhausted, SetStop
<1>9. CASE LeavePool
  BY <1>9 DEF IInv, Exhausted, LeavePool
<1>10. CASE Resume
  BY <1>10 DEF IInv, Exhausted, Resume
<1>11. CASE Close
  BY <1>11 DEF IInv, Exhausted, Close
<1>12. CASE UNCHANGED vars
  BY <1>12 DEF IInv, Exhausted, vars
<1> QED
  BY <1>1, <1>2, <1>3, <1>4, <1>5, <1>6, <1>7, <1>8, <1>9, <1>10, <1>11, <1>12
     DEF Next, GeneratorStep

\* What is appended to a sequence is in it ...
LEMMA AppendHas ==
    ASSUME NEW S, NEW s \in Seq(S), NEW e \in S
    PROVE  \E i \in DOMAIN Append(s, e) : Append(s, e)[i] = e
<1>1. Len(s) + 1 \in DOMAIN Append(s, e) /\ Append(s, e)[Len(s) + 1] = e
  OBVIOUS
<1> QED
  BY <1>1

\* ... and what was in it still is.
LEMMA AppendKeeps ==
    ASSUME NEW S, NEW s \in Seq(S), NEW e \in S, NEW x, \E i \in DOMAIN s : s[i] = x
    PROVE  \E i \in DOMAIN Append(s, e) : Append(s, e)[i] = x
<1>1. \A i \in DOMAIN s : i \in DOMAIN Append(s, e) /\ Append(s, e)[i] = s[i]
  OBVIOUS
<1> QED
  BY <1>1

\* What is in a sequence is its head or in its tail.
LEMMA HeadOrTail ==
    ASSUME NEW S, NEW s \in Seq(S), s # <<>>, NEW x, \E i \in DOMAIN s : s[i] = x
    PROVE  x = Head(s) \/ \E i \in DOMAIN Tail(s) : Tail(s)[i] = x
<1>1. PICK i \in DOMAIN s : s[i] = x
  OBVIOUS
<1>2. CASE i = 1
  BY <1>1, <1>2
<1>3. CASE i # 1
  <2>1. i - 1 \in DOMAIN Tail(s) /\ Tail(s)[i - 1] = s[i]
    BY <1>3
  <2> QED
    BY <1>1, <2>1
<1> QED
  BY <1>2, <1>3

LEMMA TableKept == [Next]_vars => home' = home
BY DEF Next, GeneratorStep, WorkerStep, ReadPage, EndOfStream, PutPage, PutTimesOut, CheckStop,
       FailWorker, NoStreams, Submit, GetPage, GetTimesOut, PollFuture, EndPoll, SetStop,
       LeavePool, Resume, Close, vars, tableVars

LEMMA LocatedStep == IInv /\ [Next]_vars => Located'
<1> SUFFICES ASSUME IInv, [Next]_vars, NEW p \in DOMAIN home PROVE OnItsWay(p)'
  BY TableKept DEF IInv, Located
<1>0. OnItsWay(p) /\ home[p] \in Streams /\ home' = home
  BY WorkersAreStreams, TableKept DEF IInv, TypeOK, Located
<1>1. ASSUME NEW w \in Workers, WorkerStep(w) PROVE OnItsWay(p)'
  <2>1. w \in Streams
    BY WorkersAreStreams DEF IInv
  <2>2. Yielded(p) => Yielded(p)'
    BY <1>1, WorkerFrame DEF IInv, Yielded
  <2>3. InQueue(p) => InQueue(p)'
    <3>1. CASE PutPage(w)
      <4>1. hand[w] \in DOMAIN home /\ queue \in Seq(DOMAIN home)
        BY <2>1, <3>1 DEF IInv, TypeOK, PutPage
      <4>2. queue' = Append(queue, hand[w])
        BY <3>1 DEF PutPage
      <4> QED
        BY <4>1, <4>2, AppendKeeps DEF InQueue
    <3> QED
      BY <1>1, <3>1
         DEF WorkerStep, ReadPage, EndOfStream, PutTimesOut, CheckStop, FailWorker, InQueue
  <2>4. ASSUME hand[w] = p PROVE hand'[w] = p \/ InQueue(p)' \/ workerPc'[w] = "failed" \/ stopEvent'
    <3>1. CASE PutPage(w)
      <4>1. hand[w] \in DOMAIN home /\ queue \in Seq(DOMAIN home)
        BY <2>1, <3>1 DEF IInv, TypeOK, PutPage
      <4>2. queue' = Append(queue, hand[w])
        BY <3>1 DEF PutPage
      <4> QED
        BY <2>4, <4>1, <4>2, AppendHas DEF InQueue
    <3>2. p # 0
      BY DEF IInv, TypeOK, Pages
    <3> QED
      BY <1>1, <2>1, <2>4, <3>1, <3>2
         DEF IInv, TypeOK, WorkerStep, ReadPage, EndOfStream, PutTimesOut, CheckStop,
             FailWorker, Goto
  <2>5. ASSUME p \in left[w] PROVE p \in left'[w] \/ hand'[w] = p
    BY <1>1, <2>1, <2>5
       DEF IInv, TypeOK, WorkerStep, ReadPage, EndOfStream, PutPage, PutTimesOut, CheckStop,
           FailWorker, workerVars
  <2>6. outcome' = outcome /\ outcome # "returned" /\ stopEvent' = stopEvent
    BY <1>1, WorkerFrame DEF IInv, Exhausted
  <2>7. workerPc[w] # "failed"
    BY <1>1, WorkerFrame DEF IInv
  <2>8. home[p] # w => /\ workerPc'[home[p]] = workerPc[home[p]]
                       /\ hand'[home[p]] = hand[home[p]] /\ left'[home[p]] = left[home[p]]
    BY <1>0, <1>1, WorkerFrame DEF OnItsWay, IInv
  <2> QED
    BY <1>0, <2>2, <2>3, <2>4, <2>5, <2>6, <2>7, <2>8 DEF OnItsWay
<1> USE DEF tableVars, workerVars, pollVars
<1>2. CASE NoStreams
  BY <1>0, <1>2 DEF OnItsWay, IInv, TypeOK, NoStreams, Workers
<1>3. ASSUME NEW w \in Workers, Submit(w) PROVE OnItsWay(p)'
  <2>1. workerPc[home[p]] = "failed" => workerPc'[home[p]] = "failed"
    <3>1. w \in Streams /\ w \notin inProgress
      BY <1>3, WorkersAreStreams DEF IInv, Submit, Workers
    <3>2. workerPc[w] = "none"
      BY <1>3, <3>1 DEF IInv, TypeOK, Submit
    <3> QED
      BY <1>0, <1>3, <3>1, <3>2 DEF OnItsWay, IInv, TypeOK, Submit, Goto
  <2> QED
    BY <1>0, <1>3, <2>1 DEF OnItsWay, Submit, Yielded, InQueue
<1>4. CASE GetPage
  <2>1. /\ queue \in Seq(DOMAIN home) /\ queue # <<>> /\ Head(queue) \in DOMAIN home
        /\ yielded \in Seq(DOMAIN home)
    BY <1>4 DEF IInv, TypeOK, GetPage
  <2>2. yielded' = Append(yielded, Head(queue)) /\ queue' = Tail(queue)
    BY <1>4 DEF GetPage
  <2>3. /\ \E i \in DOMAIN yielded' : yielded'[i] = Head(queue)
        /\ Yielded(p) => \E i \in DOMAIN yielded' : yielded'[i] = p
    <3>1. \E i \in DOMAIN Append(yielded, Head(queue)) : Append(yielded, Head(queue))[i] = Head(queue)
      BY <2>1, AppendHas
    <3>2. Yielded(p) => \E i \in DOMAIN Append(yielded, Head(queue)) : Append(yielded, Head(queue))[i] = p
      BY <2>1, AppendKeeps DEF Yielded
    <3> QED
      BY <2>2, <3>1, <3>2
  <2>4. Yielded(p) => Yielded(p)'
    BY <2>2, <2>3 DEF Yielded
  <2>5. InQueue(p) => Yielded(p)' \/ InQueue(p)'
    <3>1. p = Head(queue) => Yielded(p)'
      BY <2>2, <2>3 DEF Yielded
    <3>2. InQueue(p) => p = Head(queue) \/ \E i \in DOMAIN Tail(queue) : Tail(queue)[i] = p
      BY <2>1, HeadOrTail DEF InQueue
    <3> QED
      BY <2>2, <3>1, <3>2 DEF InQueue
  <2> QED
    BY <1>0, <1>4, <2>4, <2>5 DEF OnItsWay, GetPage
<1>5. CASE GetTimesOut
  BY <1>0, <1>5 DEF OnItsWay, GetTimesOut, Yielded, InQueue
<1>6. CASE PollFuture
  BY <1>0, <1>6 DEF OnItsWay, PollFuture, Yielded, InQueue
<1>7. CASE EndPoll
  BY <1>0, <1>7 DEF OnItsWay, IInv, Phases, EndPoll, Yielded, InQueue
<1>8. CASE SetStop
  BY <1>0, <1>8 DEF OnItsWay, SetStop, Yielded, InQueue
<1>9. CASE LeavePool
  BY <1>0, <1>9 DEF OnItsWay, LeavePool, Yielded, InQueue
<1>10. CASE Resume
  BY <1>0, <1>10 DEF OnItsWay, Resume, Yielded, InQueue
<1>11. CASE Close
  BY <1>0, <1>11 DEF OnItsWay, Close, Yielded, InQueue
<1>12. CASE UNCHANGED vars
  BY <1>0, <1>12 DEF OnItsWay, vars, Yielded, InQueue
<1> QED
  BY <1>1, <1>2, <1>3, <1>4, <1>5, <1>6, <1>7, <1>8, <1>9, <1>10, <1>11, <1>12
     DEF Next, GeneratorStep

LEMMA IInvImpliesProperty == IInv => ReturnsAfterEveryStream
<1> SUFFICES ASSUME IInv, outcome = "returned", NEW p \in DOMAIN home
             PROVE  Yielded(p) \/ InQueue(p)
  BY DEF ReturnsAfterEveryStream
<1>1. home[p] \in Workers /\ home[p] \in Streams /\ p # 0
  BY WorkersAreStreams DEF IInv, TypeOK, Pages
<1>2. workerPc[home[p]] = "done" /\ left[home[p]] = {}
  BY <1>1 DEF IInv, Exhausted
<1>3. hand[home[p]] = 0
  BY <1>1, <1>2 DEF IInv, TypeOK
<1> QED
  BY <1>1, <1>2, <1>3 DEF IInv, Located, OnItsWay

\* The generator returns only when every page of the table was yielded or is in
\* the queue: a worker's exception is raised and a full queue loses nothing.
THEOREM ReturnsAfterEveryStreamHolds == Spec => []ReturnsAfterEveryStream
<1>1. Init => IInv
  BY TypeInit, OthersInit DEF IInv
<1>2. IInv /\ [Next]_vars => IInv'
  BY TypeStep, PhasesStep, ExhaustedStep, LocatedStep DEF IInv
<1> QED
  BY <1>1, <1>2, IInvImpliesProperty, PTL DEF Spec
----------------------------------------------------------------------------
(* The order of the pages: what was yielded and what is queued, in a row.   *)

Flow == yielded \o queue

\* Along a stream: the pages in the flow, the one in the worker's hand, those left.
InOrder ==
    /\ \A i, j \in DOMAIN Flow : i < j /\ home[Flow[i]] = home[Flow[j]] => Flow[i] < Flow[j]
    /\ \A i \in DOMAIN Flow : hand[home[Flow[i]]] # 0 => Flow[i] < hand[home[Flow[i]]]
    /\ \A i \in DOMAIN Flow : \A q \in left[home[Flow[i]]] : Flow[i] < q
    /\ \A w \in Workers : hand[w] # 0 => home[hand[w]] = w /\ \A q \in left[w] : hand[w] < q
    /\ \A w \in Workers : \A q \in left[w] : home[q] = w

\* The one stream of an ordered table: its next page follows the flow.
OneStream ==
    ordered =>
        /\ Workers \subseteq {1} /\ \E n \in Nat : DOMAIN home = 1..n
        /\ \A i \in DOMAIN Flow : Flow[i] = i
        /\ \A w \in Workers :
             /\ hand[w] # 0 => hand[w] = Len(Flow) + 1 /\ left[w] = {q \in DOMAIN home : q > hand[w]}
             /\ workerPc[w] \in {"none", "read"} => left[w] = {q \in DOMAIN home : q > Len(Flow)}

FlowInv == TypeOK /\ InOrder /\ OneStream

LEMMA FlowTypes ==
    ASSUME TypeOK
    PROVE  /\ Flow \in Seq(DOMAIN home) /\ Len(Flow) \in Nat /\ DOMAIN Flow = 1..Len(Flow)
           /\ \A i \in DOMAIN Flow : Flow[i] \in DOMAIN home /\ home[Flow[i]] \in Workers
           /\ \A i \in DOMAIN yielded : i \in DOMAIN Flow /\ Flow[i] = yielded[i]
           /\ DOMAIN yielded \subseteq Nat
<1> DEFINE P == DOMAIN home
<1>1. yielded \in Seq(P) /\ queue \in Seq(P) /\ \A p \in P : home[p] \in Workers
  BY DEF TypeOK
<1> HIDE DEF P
<1>2. Flow \in Seq(P) /\ Len(Flow) = Len(yielded) + Len(queue)
      /\ \A i \in DOMAIN yielded : i \in DOMAIN Flow /\ Flow[i] = yielded[i]
  BY <1>1, ConcatProperties DEF Flow
<1>3. Len(Flow) \in Nat /\ DOMAIN Flow = 1..Len(Flow) /\ \A i \in DOMAIN Flow : Flow[i] \in P
  BY <1>2
<1>4. DOMAIN yielded \subseteq Nat
  BY <1>1
<1> QED
  BY <1>1, <1>2, <1>3, <1>4 DEF P

LEMMA GetKeepsFlow == ASSUME TypeOK, GetPage PROVE Flow' = Flow
<1> DEFINE P == DOMAIN home
<1>1. yielded \in Seq(P) /\ queue \in Seq(P) /\ queue # <<>>
  BY DEF TypeOK, GetPage
<1>2. yielded' = Append(yielded, Head(queue)) /\ queue' = Tail(queue)
  BY DEF GetPage
<1> HIDE DEF P
<1>3. Append(yielded, Head(queue)) \o Tail(queue) = yielded \o queue
  BY <1>1
<1> QED
  BY <1>2, <1>3 DEF Flow

LEMMA PutExtendsFlow ==
    ASSUME TypeOK, NEW w \in Workers, PutPage(w)
    PROVE  /\ hand[w] \in DOMAIN home /\ Flow' = Append(Flow, hand[w])
           /\ Len(Flow') = Len(Flow) + 1 /\ DOMAIN Flow' = 1..(Len(Flow) + 1)
           /\ \A i \in 1..(Len(Flow) + 1) :
                Flow'[i] = IF i = Len(Flow) + 1 THEN hand[w] ELSE Flow[i]
<1> DEFINE P == DOMAIN home
<1>1. hand[w] \in P
  BY WorkersAreStreams DEF TypeOK, PutPage
<1>2. yielded \in Seq(P) /\ queue \in Seq(P) /\ yielded' = yielded /\ queue' = Append(queue, hand[w])
  BY DEF TypeOK, PutPage
<1> HIDE DEF P
<1>3. yielded \o Append(queue, hand[w]) = Append(yielded \o queue, hand[w])
  BY <1>1, <1>2
<1>4. Flow \in Seq(P) /\ Flow' = Append(Flow, hand[w])
  BY <1>2, <1>3, ConcatProperties DEF Flow
<1> HIDE DEF Flow
<1>5. Len(Flow') = Len(Flow) + 1 /\ DOMAIN Flow' = 1..(Len(Flow) + 1)
      /\ \A i \in 1..(Len(Flow) + 1) : Flow'[i] = IF i = Len(Flow) + 1 THEN hand[w] ELSE Flow[i]
  <2> DEFINE h == hand[w]
  <2>1. h \in P /\ Flow' = Append(Flow, h) /\ Flow \in Seq(P)
    BY <1>1, <1>4
  <2> HIDE DEF h
  <2>2. Len(Flow') = Len(Flow) + 1 /\ Flow'[Len(Flow) + 1] = h /\ Flow' \in Seq(P)
        /\ \A i \in 1..Len(Flow) : Flow'[i] = Flow[i]
    BY <2>1, AppendProperties
  <2>3. Len(Flow) \in Nat
    BY <2>1
  <2>4. DOMAIN Flow' = 1..(Len(Flow) + 1)
    BY <2>2, <2>3
  <2>5. \A i \in 1..(Len(Flow) + 1) : i = Len(Flow) + 1 \/ i \in 1..Len(Flow)
    BY <2>3
  <2> QED
    BY <2>2, <2>3, <2>4, <2>5 DEF h
<1> QED
  BY <1>1, <1>4, <1>5 DEF P

LEMMA FlowInit == Init => FlowInv
<1> SUFFICES ASSUME Init PROVE FlowInv
  OBVIOUS
<1>1. TypeOK
  BY TypeInit
<1>2. DOMAIN Flow = {} /\ Len(Flow) = 0
  BY DEF Init, Flow
<1>3. \A w \in Workers : hand[w] = 0 /\ left[w] = {p \in DOMAIN home : home[p] = w}
  BY <1>1, WorkersAreStreams DEF Init, ReadSession
<1>4. InOrder
  BY <1>2, <1>3 DEF InOrder
<1>5. PICK n \in 0..MaxPages : home \in [1..n -> 1..numStreams]
  BY DEF Init, ReadSession
<1>6. ASSUME ordered PROVE Workers \subseteq {1}
  BY <1>6 DEF Init, ReadSession, MaxStreams, Workers
<1>7. ASSUME ordered, NEW w \in Workers PROVE left[w] = {q \in DOMAIN home : q > 0}
  <2>1. \A p \in DOMAIN home : home[p] = w /\ p > 0
    BY <1>5, <1>6, <1>7 DEF Workers
  <2> QED
    BY <1>3, <2>1
<1>8. OneStream
  BY <1>2, <1>3, <1>5, <1>6, <1>7 DEF OneStream
<1> QED
  BY <1>1, <1>4, <1>8 DEF FlowInv

\* Steps after which the same pages are in the flow, in the hands and left.
LEMMA FlowStays ==
    ASSUME FlowInv, UNCHANGED <<ordered, numStreams, home, left>>, Flow' = Flow,
           \A w \in Workers : hand'[w] \in {0, hand[w]},
           \A w \in Workers :
             workerPc'[w] \in {"none", "read"} => workerPc[w] \in {"none", "read"}
    PROVE  InOrder' /\ OneStream'
<1>1. Workers' = Workers
  BY DEF Workers
<1>2. \A i \in DOMAIN Flow : home[Flow[i]] \in Workers
  BY FlowTypes DEF FlowInv
<1> HIDE DEF Flow
<1>3. InOrder'
  BY <1>1, <1>2 DEF FlowInv, InOrder
<1>4. OneStream'
  BY <1>1 DEF FlowInv, OneStream
<1> QED
  BY <1>3, <1>4

LEMMA FlowStep == FlowInv /\ [Next]_vars => FlowInv'
<1> SUFFICES ASSUME FlowInv, [Next]_vars PROVE FlowInv'
  OBVIOUS
<1>0. TypeOK /\ TypeOK' /\ InOrder /\ OneStream
  BY TypeStep DEF FlowInv
<1> SUFFICES InOrder' /\ OneStream'
  BY <1>0 DEF FlowInv
<1> USE DEF Goto, tableVars, workerVars, pollVars
<1>1. ASSUME NEW w \in Workers, ReadPage(w) PROVE InOrder' /\ OneStream'
  <2>1. PICK p \in left[w] :
          /\ \A q \in left[w] : p <= q
          /\ hand' = [hand EXCEPT ![w] = p]
          /\ left' = [left EXCEPT ![w] = @ \ {p}]
    BY <1>1 DEF ReadPage
  <2>2. /\ workerPc[w] = "read" /\ workerPc' = [workerPc EXCEPT ![w] = "put"]
        /\ UNCHANGED <<ordered, numStreams, home>> /\ Flow' = Flow /\ Workers' = Workers
    BY <1>1 DEF ReadPage, Flow, Workers
  <2>3. w \in Streams /\ p \in DOMAIN home /\ left[w] \subseteq DOMAIN home /\ Workers \subseteq Streams
    BY <1>0, WorkersAreStreams DEF TypeOK
  <2>4. DOMAIN home \subseteq Nat
    BY <1>0 DEF TypeOK, Pages
  <2>5. \A v \in Workers : /\ v # w => hand'[v] = hand[v] /\ left'[v] = left[v]
                           /\ v = w => hand'[v] = p /\ left'[v] = left[w] \ {p}
    BY <1>0, <2>1, <2>3 DEF TypeOK
  <2>6. \A i \in DOMAIN Flow : Flow[i] \in Nat /\ home[Flow[i]] \in Workers
    BY <1>0, <2>4, FlowTypes
  <2> HIDE DEF Flow
  <2>7. \A q \in left[w] \ {p} : p < q
    BY <2>1, <2>3, <2>4
  <2>8. InOrder'
    BY <1>0, <2>2, <2>5, <2>6, <2>7 DEF InOrder
  <2>9. ASSUME ordered PROVE OneStream'
    <3>1. Workers \subseteq {1} /\ w = 1 /\ left[w] = {q \in DOMAIN home : q > Len(Flow)}
      BY <1>0, <2>2, <2>9 DEF OneStream
    <3>2. PICK n \in Nat : DOMAIN home = 1..n
      BY <1>0, <2>9 DEF OneStream
    <3>3. Len(Flow) \in Nat
      BY <1>0, FlowTypes
    <3>4. p = Len(Flow) + 1
      <4>1. p \in 1..n /\ p > Len(Flow)
        BY <2>3, <3>1, <3>2
      <4>2. Len(Flow) + 1 \in 1..n /\ Len(Flow) + 1 > Len(Flow)
        BY <3>3, <4>1
      <4>3. p <= Len(Flow) + 1
        BY <2>1, <3>1, <3>2, <4>2
      <4> QED
        BY <3>3, <4>1, <4>3
    <3>5. left[w] \ {p} = {q \in DOMAIN home : q > p}
      BY <2>4, <3>1, <3>3, <3>4
    <3>6. \A v \in Workers : v = w /\ workerPc'[v] = "put" /\ hand'[v] = p /\ left'[v] = left[w] \ {p}
      BY <1>0, <2>2, <2>3, <2>5, <3>1 DEF TypeOK
    <3>7. Workers' \subseteq {1} /\ \E k \in Nat : DOMAIN home' = 1..k
      BY <2>2, <3>1, <3>2
    <3>8. \A i \in DOMAIN Flow' : Flow'[i] = i
      BY <1>0, <2>2, <2>9 DEF OneStream
    <3>9. ASSUME NEW v \in Workers'
          PROVE  /\ hand'[v] = Len(Flow') + 1 /\ left'[v] = {q \in DOMAIN home' : q > hand'[v]}
                 /\ workerPc'[v] \notin {"none", "read"}
      <4>1. v \in Workers /\ home' = home /\ Flow' = Flow
        BY <2>2, <3>9
      <4>2. workerPc'[v] = "put" /\ hand'[v] = p /\ left'[v] = {q \in DOMAIN home : q > p}
        BY <3>5, <3>6, <4>1
      <4> QED
        BY <3>4, <4>1, <4>2
    <3> QED
      BY <3>7, <3>8, <3>9 DEF OneStream
  <2> QED
    BY <2>2, <2>8, <2>9 DEF OneStream
<1>2. ASSUME NEW w \in Workers, PutPage(w) PROVE InOrder' /\ OneStream'
  <2>1. /\ workerPc[w] = "put" /\ workerPc' = [workerPc EXCEPT ![w] = "read"]
        /\ hand' = [hand EXCEPT ![w] = 0]
        /\ UNCHANGED <<ordered, numStreams, home, left>> /\ Workers' = Workers
    BY <1>2 DEF PutPage, Workers
  <2>2. w \in Streams /\ Workers \subseteq Streams /\ DOMAIN home \subseteq Nat /\ 0 \notin DOMAIN home
    BY <1>0, WorkersAreStreams DEF TypeOK, Pages
  <2>3. hand[w] \in DOMAIN home /\ hand[w] # 0 /\ hand[w] \in Nat /\ home[hand[w]] = w
    BY <1>0, <1>2, <2>2, PutExtendsFlow DEF InOrder
  <2>4. /\ Len(Flow') = Len(Flow) + 1 /\ DOMAIN Flow' = 1..(Len(Flow) + 1)
        /\ \A i \in DOMAIN Flow' : Flow'[i] = IF i = Len(Flow) + 1 THEN hand[w] ELSE Flow[i]
    BY <1>0, <1>2, PutExtendsFlow
  <2>5. /\ Len(Flow) \in Nat /\ DOMAIN Flow = 1..Len(Flow)
        /\ \A i \in DOMAIN Flow : Flow[i] \in Nat /\ home[Flow[i]] \in Workers
    BY <1>0, <2>2, FlowTypes
  <2> DEFINE n == Len(Flow)
             h == hand[w]
  <2> HIDE DEF Flow
  <2>6. \A i \in DOMAIN Flow' : i = n + 1 \/ (i \in DOMAIN Flow /\ i < n + 1 /\ i # n + 1)
    BY <2>4, <2>5
  <2>7. \A v \in Workers : hand'[v] = IF v = w THEN 0 ELSE hand[v]
    BY <1>0, <2>1, <2>2 DEF TypeOK
  <2>8. \A i, j \in DOMAIN Flow' :
          i < j /\ home[Flow'[i]] = home[Flow'[j]] => Flow'[i] < Flow'[j]
    <3> SUFFICES ASSUME NEW i \in DOMAIN Flow', NEW j \in DOMAIN Flow',
                        i < j, home[Flow'[i]] = home[Flow'[j]]
                 PROVE  Flow'[i] < Flow'[j]
      OBVIOUS
    <3>1. i \in DOMAIN Flow /\ Flow'[i] = Flow[i]
      BY <2>4, <2>5, <2>6
    <3>2. CASE j = n + 1
      BY <1>0, <2>3, <2>4, <3>1, <3>2 DEF InOrder
    <3>3. CASE j # n + 1
      <4>1. j \in DOMAIN Flow /\ Flow'[j] = Flow[j]
        BY <2>4, <2>6, <3>3
      <4> QED
        BY <1>0, <3>1, <4>1 DEF InOrder
    <3> QED
      BY <3>2, <3>3
  <2>9. \A i \in DOMAIN Flow' : /\ hand'[home[Flow'[i]]] # 0 => Flow'[i] < hand'[home[Flow'[i]]]
                               /\ \A q \in left[home[Flow'[i]]] : Flow'[i] < q
    <3> SUFFICES ASSUME NEW i \in DOMAIN Flow'
                 PROVE  /\ hand'[home[Flow'[i]]] # 0 => Flow'[i] < hand'[home[Flow'[i]]]
                        /\ \A q \in left[home[Flow'[i]]] : Flow'[i] < q
      OBVIOUS
    <3>1. CASE i = n + 1
      BY <1>0, <2>3, <2>4, <2>7, <3>1 DEF InOrder
    <3>2. CASE i # n + 1
      <4>1. i \in DOMAIN Flow /\ Flow'[i] = Flow[i]
        BY <2>4, <2>6, <3>2
      <4> QED
        BY <1>0, <2>5, <2>7, <4>1 DEF InOrder
    <3> QED
      BY <3>1, <3>2
  <2>10. InOrder'
    BY <1>0, <2>1, <2>7, <2>8, <2>9 DEF InOrder
  <2>11. ASSUME ordered PROVE OneStream'
    <3>1. /\ Workers \subseteq {1} /\ w = 1 /\ h = n + 1
          /\ left[w] = {q \in DOMAIN home : q > h} /\ \A i \in DOMAIN Flow : Flow[i] = i
          /\ \E k \in Nat : DOMAIN home = 1..k
      BY <1>0, <2>3, <2>11 DEF OneStream
    <3>2. \A i \in DOMAIN Flow' : Flow'[i] = i
      BY <2>4, <2>6, <3>1
    <3>3. \A v \in Workers : v = w /\ hand'[v] = 0 /\ left[v] = {q \in DOMAIN home : q > n + 1}
      BY <2>7, <3>1
    <3>4. Workers' = Workers /\ home' = home /\ left' = left /\ Len(Flow') = n + 1
      BY <2>1, <2>4
    <3>5. \A v \in Workers' : hand'[v] = 0 /\ left'[v] = {q \in DOMAIN home' : q > Len(Flow')}
      BY <3>3, <3>4
    <3>6. Workers' \subseteq {1} /\ \E k \in Nat : DOMAIN home' = 1..k
      BY <3>1, <3>4
    <3> QED
      BY <3>2, <3>5, <3>6 DEF OneStream
  <2> QED
    BY <2>1, <2>10, <2>11 DEF OneStream
<1>3. ASSUME NEW w \in Workers, EndOfStream(w) \/ PutTimesOut(w) \/ CheckStop(w) \/ FailWorker(w)
      PROVE  InOrder' /\ OneStream'
  <2>1. UNCHANGED <<ordered, numStreams, home, left>> /\ Flow' = Flow
    BY <1>3 DEF EndOfStream, PutTimesOut, CheckStop, FailWorker, Flow
  <2>2. w \in Streams /\ Workers \subseteq Streams
    BY <1>0, WorkersAreStreams
  <2>3. \A v \in Workers : hand'[v] \in {0, hand[v]}
    BY <1>0, <1>3, <2>2 DEF EndOfStream, PutTimesOut, CheckStop, FailWorker, TypeOK
  <2>4. \A v \in Workers :
          workerPc'[v] \in {"none", "read"} => workerPc[v] \in {"none", "read"}
    BY <1>0, <1>3, <2>2 DEF EndOfStream, PutTimesOut, CheckStop, FailWorker, TypeOK
  <2> QED
    BY <2>1, <2>3, <2>4, FlowStays
<1>4. ASSUME NEW w \in Workers, Submit(w) PROVE InOrder' /\ OneStream'
  <2>1. UNCHANGED <<ordered, numStreams, home, left, hand>> /\ Flow' = Flow
    BY <1>4 DEF Submit, Flow
  <2>2. w \in Streams /\ Workers \subseteq Streams /\ w \notin inProgress /\ workerPc[w] = "none"
    BY <1>0, <1>4, WorkersAreStreams DEF Submit, TypeOK, Workers
  <2>3. \A v \in Workers :
          workerPc'[v] \in {"none", "read"} => workerPc[v] \in {"none", "read"}
    BY <1>0, <1>4, <2>2 DEF Submit, TypeOK
  <2> QED
    BY <2>1, <2>3, FlowStays
<1>5. CASE GetPage
  <2>1. Flow' = Flow /\ UNCHANGED <<ordered, numStreams, home, left, hand, workerPc>>
    BY <1>0, <1>5, GetKeepsFlow DEF GetPage
  <2> QED
    BY <2>1, FlowStays
<1>6. CASE NoStreams \/ GetTimesOut \/ PollFuture \/ EndPoll \/ SetStop \/ LeavePool \/ Resume \/ Close
           \/ UNCHANGED vars
  <2>1. Flow' = Flow /\ UNCHANGED <<ordered, numStreams, home, left, hand, workerPc>>
    BY <1>6 DEF NoStreams, GetTimesOut, PollFuture, EndPoll, SetStop, LeavePool, Resume, Close,
                vars, Flow
  <2> QED
    BY <2>1, FlowStays
<1> QED
  BY <1>1, <1>2, <1>3, <1>4, <1>5, <1>6 DEF Next, GeneratorStep, WorkerStep

\* The pages of a stream are yielded in its order and at most once, whatever the
\* threads do, and an ordered table in the order of the table (bq_data.py:361-364).
THEOREM PagesInOrderHolds == Spec => []PagesInOrder
<1>1. FlowInv => PagesInOrder
  <2> SUFFICES ASSUME FlowInv PROVE PagesInOrder
    OBVIOUS
  <2>1. \A i \in DOMAIN yielded : i \in DOMAIN Flow /\ Flow[i] = yielded[i]
    BY FlowTypes DEF FlowInv
  <2> HIDE DEF Flow
  <2> QED
    BY <2>1 DEF FlowInv, InOrder, OneStream, PagesInOrder
<1> QED
  BY <1>1, FlowInit, FlowStep, PTL DEF Spec
----------------------------------------------------------------------------
(* The pages that were fetched and not given to the caller. *)

\* A worker owns one page at most, the one it holds; it drops that when it ends.
Lost(p) == ~Yielded(p) /\ ~InQueue(p) /\ p \notin left[home[p]]

OneInHand ==
    \A p \in DOMAIN home : Lost(p) =>
      /\ workerPc[home[p]] \notin {"none", "read"}
      /\ workerPc[home[p]] \in {"put", "full"} => hand[home[p]] = p
      /\ \A q \in DOMAIN home : Lost(q) /\ home[q] = home[p] => q = p

LEMMA OneInHandInit == Init => OneInHand
<1> SUFFICES ASSUME Init, NEW p \in DOMAIN home PROVE p \in left[home[p]]
  BY DEF OneInHand, Lost
<1>1. home[p] \in Streams
  BY TypeInit, WorkersAreStreams DEF TypeOK
<1> QED
  BY <1>1 DEF Init, ReadSession

\* A page that is in the queue stays there until it is given to the caller, who keeps it.
LEMMA GivenStays ==
    ASSUME TypeOK, [Next]_vars, NEW p \in DOMAIN home, Yielded(p) \/ InQueue(p)
    PROVE  Yielded(p)' \/ InQueue(p)'
<1>1. ASSUME NEW w \in Workers, PutPage(w) PROVE Yielded(p)' \/ InQueue(p)'
  <2>1. hand[w] \in DOMAIN home /\ queue \in Seq(DOMAIN home)
    BY <1>1, WorkersAreStreams DEF TypeOK, PutPage
  <2>2. queue' = Append(queue, hand[w]) /\ yielded' = yielded
    BY <1>1 DEF PutPage
  <2> QED
    BY <2>1, <2>2, AppendKeeps DEF InQueue, Yielded
<1>2. CASE GetPage
  <2> DEFINE x == Head(queue)
  <2>1. /\ queue \in Seq(DOMAIN home) /\ queue # <<>> /\ x \in DOMAIN home
        /\ yielded \in Seq(DOMAIN home)
    BY <1>2 DEF TypeOK, GetPage
  <2>2. yielded' = Append(yielded, x) /\ queue' = Tail(queue)
    BY <1>2 DEF GetPage
  <2>3. InQueue(p) => p = x \/ \E i \in DOMAIN queue' : queue'[i] = p
    BY <2>1, <2>2, HeadOrTail DEF InQueue
  <2> HIDE DEF x
  <2>4. CASE Yielded(p)
    <3>1. \E i \in DOMAIN yielded' : yielded'[i] = p
      BY <2>1, <2>2, <2>4, AppendKeeps DEF Yielded
    <3> QED
      BY <3>1 DEF Yielded
  <2>5. CASE p = x
    <3>1. yielded \in Seq(DOMAIN home) /\ x \in DOMAIN home
      BY <2>1
    <3>2. \E i \in DOMAIN Append(yielded, x) : Append(yielded, x)[i] = x
      BY <3>1, AppendHas
    <3> QED
      BY <2>2, <2>5, <3>2 DEF Yielded
  <2>6. CASE \E i \in DOMAIN queue' : queue'[i] = p
    BY <2>6 DEF InQueue
  <2> QED
    BY <2>3, <2>4, <2>5, <2>6
<1>3. ASSUME UNCHANGED <<queue, yielded>> PROVE Yielded(p)' \/ InQueue(p)'
  BY <1>3 DEF Yielded, InQueue
<1>4. (\E w \in Workers : PutPage(w)) \/ GetPage \/ UNCHANGED <<queue, yielded>>
  BY DEF Next, GeneratorStep, WorkerStep, ReadPage, EndOfStream, PutTimesOut, CheckStop,
         FailWorker, NoStreams, Submit, GetTimesOut, PollFuture, EndPoll, SetStop,
         LeavePool, Resume, Close, vars
<1> QED
  BY <1>1, <1>2, <1>3, <1>4

\* A page leaves its stream for the hand of its worker.
LEMMA LeftForHand ==
    ASSUME TypeOK, [Next]_vars, NEW p \in DOMAIN home, p \in left[home[p]], p \notin left'[home[p]]
    PROVE  ReadPage(home[p]) /\ hand'[home[p]] = p
<1>1. left \in [Streams -> SUBSET DOMAIN home] /\ home[p] \in Streams /\ home[p] \in Workers
  BY WorkersAreStreams DEF TypeOK
<1>2. left' # left
  OBVIOUS
<1>3. PICK w \in Workers : ReadPage(w)
  BY <1>2 DEF Next, GeneratorStep, WorkerStep, EndOfStream, PutPage, PutTimesOut, CheckStop,
              FailWorker, NoStreams, Submit, GetPage, GetTimesOut, PollFuture, EndPoll, SetStop,
              LeavePool, Resume, Close, vars, workerVars
<1>4. PICK q \in left[w] : hand' = [hand EXCEPT ![w] = q] /\ left' = [left EXCEPT ![w] = @ \ {q}]
  BY <1>3 DEF ReadPage
<1>5. w = home[p] /\ q = p
  BY <1>1, <1>4
<1>6. hand'[home[p]] = p
  BY <1>1, <1>4, <1>5 DEF TypeOK
<1> QED
  BY <1>3, <1>5, <1>6

\* A page is lost to view when it is taken into a hand, and stays there until it is put.
LEMMA LostStep ==
    ASSUME TypeOK, [Next]_vars, NEW p \in DOMAIN home, Lost(p)'
    PROVE  Lost(p) \/ (ReadPage(home[p]) /\ hand'[home[p]] = p)
<1>1. home' = home
  BY TableKept
<1>2. p \notin left'[home[p]] /\ ~Yielded(p) /\ ~InQueue(p)
  BY <1>1, GivenStays DEF Lost
<1>3. p \notin left[home[p]] \/ (ReadPage(home[p]) /\ hand'[home[p]] = p)
  BY <1>2, LeftForHand
<1> QED
  BY <1>2, <1>3 DEF Lost

LEMMA OneInHandStep == TypeOK /\ OneInHand /\ [Next]_vars => OneInHand'
<1> SUFFICES ASSUME TypeOK, OneInHand, [Next]_vars, NEW p \in DOMAIN home, Lost(p)'
             PROVE  /\ workerPc'[home[p]] \notin {"none", "read"}
                    /\ workerPc'[home[p]] \in {"put", "full"} => hand'[home[p]] = p
                    /\ \A q \in DOMAIN home : Lost(q)' /\ home[q] = home[p] => q = p
  BY TableKept DEF OneInHand
<1> DEFINE w == home[p]
<1>1. w \in Workers /\ w \in Streams /\ p # 0
  BY WorkersAreStreams DEF TypeOK, Pages
<1>2. CASE ReadPage(w)
  <2>1. workerPc[w] = "read" /\ workerPc'[w] = "put"
    BY <1>1, <1>2 DEF ReadPage, Goto, TypeOK
  <2>2. \A q \in DOMAIN home : home[q] = w => ~Lost(q)
    BY <2>1 DEF OneInHand
  <2>3. \A q \in DOMAIN home : Lost(q)' /\ home[q] = w => hand'[w] = q
    BY <2>2, LostStep
  <2> QED
    BY <2>1, <2>3
<1>3. CASE ~ReadPage(w)
  <2>1. \A q \in DOMAIN home : Lost(q)' /\ home[q] = w => Lost(q)
    BY <1>3, LostStep
  <2>2. /\ workerPc[w] \notin {"none", "read"}
        /\ workerPc[w] \in {"put", "full"} => hand[w] = p
        /\ \A q \in DOMAIN home : Lost(q)' /\ home[q] = w => q = p
    BY <2>1 DEF OneInHand
  <2>3. ~PutPage(w)
    <3>1. ASSUME PutPage(w) PROVE FALSE
      <4>1. hand[w] = p /\ hand[w] \in DOMAIN home /\ queue \in Seq(DOMAIN home)
            /\ queue' = Append(queue, hand[w])
        BY <1>1, <2>2, <3>1 DEF PutPage, TypeOK
      <4>2. InQueue(p)'
        BY <4>1, AppendHas DEF InQueue
      <4> QED
        BY <4>2 DEF Lost
    <3> QED
      BY <3>1
  <2>4. /\ workerPc'[w] \notin {"none", "read"}
        /\ workerPc'[w] \in {"put", "full"} => hand'[w] = p
    <3>1. CASE WorkerStep(w)
      BY <1>1, <1>3, <2>2, <2>3, <3>1
         DEF WorkerStep, EndOfStream, PutTimesOut, CheckStop, FailWorker, Goto, Ended, TypeOK
    <3>2. ASSUME NEW v \in Workers \ {w}, WorkerStep(v)
          PROVE  workerPc'[w] = workerPc[w] /\ hand'[w] = hand[w]
      BY <1>1, <3>2, WorkerFrame
    <3>3. ASSUME NEW v \in Workers, Submit(v)
          PROVE  workerPc'[w] = workerPc[w] /\ hand'[w] = hand[w]
      <4>1. workerPc[v] = "none" /\ v \in Streams
        BY <3>3, WorkersAreStreams DEF Submit, TypeOK, Workers
      <4> QED
        BY <1>1, <2>2, <3>3, <4>1 DEF Submit, Goto, TypeOK
    <3>4. ASSUME UNCHANGED <<workerPc, hand>>
          PROVE  workerPc'[w] = workerPc[w] /\ hand'[w] = hand[w]
      BY <3>4
    <3>5. \/ UNCHANGED <<workerPc, hand>> \/ \E v \in Workers : WorkerStep(v) \/ Submit(v)
      BY DEF Next, GeneratorStep, NoStreams, GetPage, GetTimesOut, PollFuture, EndPoll,
             SetStop, LeavePool, Resume, Close, vars, workerVars
    <3> QED
      BY <2>2, <3>1, <3>2, <3>3, <3>4, <3>5
  <2> QED
    BY <2>2, <2>4
<1> QED
  BY <1>2, <1>3

\* However slow the caller, at most two pages per stream were fetched and not given to
\* it: as many as the queue holds, and one in the hand of each worker
\* (bq_data.py:283-285).
THEOREM BoundedReadAheadHolds == Spec => []BoundedReadAhead
<1>1. TypeOK /\ OneInHand => BoundedReadAhead
  <2> SUFFICES ASSUME TypeOK, OneInHand PROVE BoundedReadAhead
    OBVIOUS
  <2> DEFINE Fetched == {p \in DOMAIN home : ~Yielded(p) /\ p \notin left[home[p]]}
             Waiting == {p \in Fetched : InQueue(p)}
             InHand == {p \in Fetched : ~InQueue(p)}
             n == Len(queue)
  <2>1. numStreams \in Nat /\ n \in Nat /\ n <= numStreams /\ queue \in Seq(DOMAIN home)
        /\ DOMAIN queue = 1..n
    BY DEF TypeOK
  <2>2. IsFiniteSet(Waiting) /\ Cardinality(Waiting) <= n /\ Cardinality(Waiting) \in Nat
    <3>1. IsFiniteSet(DOMAIN home)
      <4>1. IsFiniteSet(Pages)
        BY FS_Interval DEF Pages
      <4> QED
        BY <4>1, FS_Subset DEF TypeOK
    <3>2. IsFiniteSet(Waiting)
      BY <3>1, FS_Subset
    <3>3. IsFiniteSet({i \in 1..n : queue[i] \in Waiting}) /\
          Cardinality({i \in 1..n : queue[i] \in Waiting}) <= n
      <4> HIDE DEF n, Waiting
      <4>1. IsFiniteSet(1..n) /\ Cardinality(1..n) = n
        BY <2>1, FS_Interval
      <4> QED
        BY <4>1, FS_Subset
    <3> DEFINE Places == {i \in 1..n : queue[i] \in Waiting}
               q == [i \in Places |-> queue[i]]
    <3>4. q \in Surjection(Places, Waiting)
      <4>1. q \in [Places -> Waiting]
        OBVIOUS
      <4>2. \A p \in Waiting : \E i \in Places : q[i] = p
        BY <2>1 DEF InQueue
      <4> QED
        BY <4>1, <4>2 DEF Surjection
    <3> HIDE DEF q, Waiting, n
    <3>5. Cardinality(Waiting) <= Cardinality(Places)
      BY <3>3, <3>4, FS_Surjection
    <3>6. Cardinality(Waiting) \in Nat /\ Cardinality(Places) \in Nat
      BY <3>2, <3>3, FS_CardinalityType
    <3> QED
      BY <2>1, <3>2, <3>3, <3>5, <3>6
  <2>3. IsFiniteSet(InHand) /\ Cardinality(InHand) <= numStreams /\ Cardinality(InHand) \in Nat
    <3> DEFINE at == [p \in InHand |-> home[p]]
    <3>1. at \in Injection(InHand, Workers)
      <4>1. at \in [InHand -> Workers]
        BY DEF TypeOK
      <4>2. \A p, q \in InHand : at[p] = at[q] => p = q
        BY DEF OneInHand, Lost
      <4> QED
        BY <4>1, <4>2 DEF Injection, IsInjective
    <3>2. IsFiniteSet(Workers) /\ Cardinality(Workers) = numStreams
      BY <2>1, FS_Interval DEF Workers
    <3> HIDE DEF at, InHand
    <3> QED
      BY <2>1, <3>1, <3>2, FS_Injection, FS_CardinalityType
  <2>4. Fetched = Waiting \cup InHand
    OBVIOUS
  <2> HIDE DEF Waiting, InHand, Fetched, n
  <2>5. /\ IsFiniteSet(Waiting \cap InHand) /\ Cardinality(Waiting \cap InHand) \in Nat
        /\ Cardinality(Fetched) = Cardinality(Waiting) + Cardinality(InHand)
                                   - Cardinality(Waiting \cap InHand)
    BY <2>2, <2>3, <2>4, FS_Union, FS_Intersection, FS_CardinalityType
  <2>6. Cardinality(Fetched) <= 2 * numStreams
    BY <2>1, <2>2, <2>3, <2>5
  <2> QED
    BY <2>6 DEF BoundedReadAhead, Fetched
<1>2. Init => TypeOK /\ OneInHand
  BY TypeInit, OneInHandInit
<1>3. TypeOK /\ OneInHand /\ [Next]_vars => (TypeOK /\ OneInHand)'
  BY TypeStep, OneInHandStep
<1> QED
  BY <1>1, <1>2, <1>3, PTL DEF Spec
=============================================================================
