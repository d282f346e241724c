-------------------------- MODULE SessionResource --------------------------
(***************************************************************************)
(* The SessionResourceManager of a session (session/bigquery_session.py):  *)
(* temporary tables live in one BigQuery session, created on first use     *)
(* under a reentrant lock; a daemon thread (RecurringTaskDaemon) queries   *)
(* the session now and then so that it does not expire; close() stops the  *)
(* daemon and aborts the BigQuery session WITHOUT taking the lock.         *)
(*                                                                         *)
(* The reentrant lock is held by create_temp_table (and by the keep-alive  *)
(* task) around the inner acquisition of _get_session_id, so holding it    *)
(* once or twice is the same thing here.                                   *)
(***************************************************************************)
EXTENDS SessionThreads

CONSTANTS
    BqSessions   \* the sessions BigQuery can hand out, each once

ASSUME BqSessionsAssumption == None \notin BqSessions

VARIABLES
    sessionId,  \* _session_id, or None
    server,     \* the state of each BigQuery session
    lock,       \* the holder of _session_lock, or None
    daemon,     \* _sessiondaemon: None, built (not started) or started
    thread,     \* the daemon's thread
    stopEvent,  \* _stop_event of the daemon
    bPc,        \* where each worker and the closer is
    newId,      \* the session a worker has just created and not yet published
    orphans,    \* history: sessions created by a call whose result() raised
    clean,      \* history: the last close() to begin found a started daemon
    closed      \* history: such a close() has ended, normally or not

resourceVars == <<sessionId, server, lock, daemon, thread, stopEvent, bPc,
                  newId, orphans, clean, closed>>

Callers == Workers \cup {"closer"}

\* create_temp_table: `lock` waits for the lock; all the later ones hold it.
CreatorPcs == {"lock", "getId", "newSession", "publish", "build", "start", "ddl"}
CloserSteps == {"stop", "join", "readId", "abort"}
ThreadPcs == {"new", "wait", "wake", "acquire", "query", "exited"}

ResourceTypeOK ==
    /\ sessionId \in BqSessions \cup {None}
    /\ server \in [BqSessions -> {"absent", "open", "aborted"}]
    /\ lock \in Workers \cup {"daemon", None}
    /\ daemon \in {"none", "built", "started"}
    /\ thread \in ThreadPcs
    /\ stopEvent \in BOOLEAN
    /\ bPc \in [Callers -> {"idle"} \cup CreatorPcs \cup CloserSteps]
    /\ newId \in [Workers -> BqSessions \cup {None}]
    /\ orphans \subseteq BqSessions
    /\ clean \in BOOLEAN
    /\ closed \in BOOLEAN

ResourceInit ==
    /\ sessionId = None
    /\ server = [s \in BqSessions |-> "absent"]
    /\ lock = None
    /\ daemon = "none"
    /\ thread = "new"
    /\ stopEvent = FALSE
    /\ bPc = [c \in Callers |-> "idle"]
    /\ newId = [w \in Workers |-> None]
    /\ orphans = {}
    /\ clean = FALSE
    /\ closed = FALSE

At(c, from, to) == bPc[c] = from /\ bPc' = [bPc EXCEPT ![c] = to]
----------------------------------------------------------------------------
(* create_temp_table, with _get_session_id inlined                         *)

CallCreateInSession(w) ==
    /\ At(w, "idle", "lock")
    /\ UNCHANGED <<sessionId, server, lock, daemon, thread, stopEvent, newId,
                   orphans, clean, closed>>

\* Mutant: create_temp_table does not take the lock.
CreateUnlocked(w) ==
    /\ At(w, "lock", "getId")
    /\ UNCHANGED <<sessionId, server, lock, daemon, thread, stopEvent, newId,
                   orphans, clean, closed>>

LockForCreate(w) ==
    /\ At(w, "lock", "getId")
    /\ lock = None
    /\ lock' = w
    /\ UNCHANGED <<sessionId, server, daemon, thread, stopEvent, newId,
                   orphans, clean, closed>>

\* Lines 133-136: the id is reused when there is one, even after close().
ReadSessionId(w) ==
    /\ At(w, "getId", IF sessionId = None THEN "newSession" ELSE "ddl")
    /\ UNCHANGED <<sessionId, server, lock, daemon, thread, stopEvent, newId,
                   orphans, clean, closed>>

OpenSession(w) ==
    /\ At(w, "newSession", "publish")
    /\ \E s \in BqSessions :
         /\ server[s] = "absent"
         /\ server' = [server EXCEPT ![s] = "open"]
         /\ newId' = [newId EXCEPT ![w] = s]
    /\ UNCHANGED <<sessionId, lock, daemon, thread, stopEvent, orphans, clean, closed>>

\* The query that creates the session raises; if BigQuery ran it, a session
\* that nobody knows the id of is left behind until it expires.
FailOpenSession(w) ==
    /\ At(w, "newSession", "idle")
    /\ lock' = None
    /\ \/ UNCHANGED <<server, orphans>>
       \/ \E s \in BqSessions :
            /\ server[s] = "absent"
            /\ server' = [server EXCEPT ![s] = "open"]
            /\ orphans' = orphans \cup {s}
    /\ UNCHANGED <<sessionId, daemon, thread, stopEvent, newId, clean, closed>>

\* Lines 154-158: three assignments, each of which close() can observe.
PublishSessionId(w) ==
    /\ At(w, "publish", "build")
    /\ sessionId' = newId[w]
    /\ newId' = [newId EXCEPT ![w] = None]
    /\ UNCHANGED <<server, lock, daemon, thread, stopEvent, orphans, clean, closed>>

BuildDaemon(w) ==
    /\ At(w, "build", "start")
    /\ daemon' = "built"
    /\ UNCHANGED <<sessionId, server, lock, thread, stopEvent, newId,
                   orphans, clean, closed>>

\* start() refuses to start a daemon whose stop event is set.
StartDaemon(w) ==
    /\ At(w, "start", "ddl")
    /\ ~stopEvent
    /\ daemon' = "started"
    /\ thread' = "wait"
    /\ UNCHANGED <<sessionId, server, lock, stopEvent, newId, orphans, clean, closed>>

\* The DDL query and its result(): it can only succeed in an open session, and
\* it can fail in any; the lock is released either way.
RunDdl(w) ==
    /\ At(w, "ddl", "idle")
    /\ lock' = None
    /\ UNCHANGED <<sessionId, server, daemon, thread, stopEvent, newId,
                   orphans, clean, closed>>

CreatorStep(w) ==
    \/ LockForCreate(w) \/ ReadSessionId(w) \/ OpenSession(w) \/ FailOpenSession(w)
    \/ PublishSessionId(w) \/ BuildDaemon(w) \/ StartDaemon(w) \/ RunDdl(w)
----------------------------------------------------------------------------
(* RecurringTaskDaemon._run_loop and _keep_session_alive                   *)

ThreadGoto(from, to) == thread = from /\ thread' = to

\* wait() returns: the frequency elapsed, or the event was set.
WakeUp ==
    /\ ThreadGoto("wait", "wake")
    /\ UNCHANGED <<sessionId, server, lock, daemon, stopEvent, bPc, newId,
                   orphans, clean, closed>>

CheckStop ==
    /\ ThreadGoto("wake", IF stopEvent THEN "exited" ELSE "acquire")
    /\ UNCHANGED <<sessionId, server, lock, daemon, stopEvent, bPc, newId,
                   orphans, clean, closed>>

\* Mutant: the keep-alive query runs without the lock.
KeepAliveUnlocked ==
    /\ ThreadGoto("acquire", "query")
    /\ UNCHANGED <<sessionId, server, lock, daemon, stopEvent, bPc, newId,
                   orphans, clean, closed>>

LockForKeepAlive ==
    /\ ThreadGoto("acquire", "query")
    /\ lock = None
    /\ lock' = "daemon"
    /\ UNCHANGED <<sessionId, server, daemon, stopEvent, bPc, newId,
                   orphans, clean, closed>>

\* The keep-alive query ends, fails or times out; every exception is logged.
KeepAlive ==
    /\ ThreadGoto("query", "wait")
    /\ lock' = None
    /\ UNCHANGED <<sessionId, server, daemon, stopEvent, bPc, newId,
                   orphans, clean, closed>>

DaemonStep == WakeUp \/ CheckStop \/ LockForKeepAlive \/ KeepAlive
----------------------------------------------------------------------------
(* close() and RecurringTaskDaemon.stop()                                  *)

\* Line 116: the unlocked read of _sessiondaemon.
BeginCloseSession ==
    /\ At("closer", "idle", IF daemon = "none" THEN "readId" ELSE "stop")
    /\ clean' = (daemon = "started")
    /\ UNCHANGED <<sessionId, server, lock, daemon, thread, stopEvent, newId,
                   orphans, closed>>

\* Mutant: stop() signals the thread and does not wait for it.
StopWithoutJoin ==
    /\ At("closer", "stop", "readId")
    /\ stopEvent' = (stopEvent \/ thread \notin {"new", "exited"})
    /\ UNCHANGED <<sessionId, server, lock, daemon, thread, newId,
                   orphans, clean, closed>>

\* Mutant: stop() waits for the thread without signalling it.
JoinWithoutSignal ==
    /\ At("closer", "stop", IF thread \notin {"new", "exited"} THEN "join" ELSE "readId")
    /\ UNCHANGED <<sessionId, server, lock, daemon, thread, stopEvent, newId,
                   orphans, clean, closed>>

\* Line 212: a thread that has not been started, or has ended, is not alive.
StopDaemon ==
    LET alive == thread \notin {"new", "exited"}
    IN  /\ At("closer", "stop", IF alive THEN "join" ELSE "readId")
        /\ stopEvent' = (stopEvent \/ alive)
        /\ UNCHANGED <<sessionId, server, lock, daemon, thread, newId,
                       orphans, clean, closed>>

\* join() without a timeout.
JoinDaemon ==
    /\ At("closer", "join", "readId")
    /\ thread = "exited"
    /\ UNCHANGED <<sessionId, server, lock, daemon, thread, stopEvent, newId,
                   orphans, clean, closed>>

ReadIdForAbort ==
    /\ At("closer", "readId", IF sessionId = None THEN "idle" ELSE "abort")
    /\ UNCHANGED <<sessionId, server, lock, daemon, thread, stopEvent, newId,
                   orphans, clean, closed>>

AbortSession ==
    /\ At("closer", "abort", "idle")
    /\ server' = [server EXCEPT ![sessionId] = "aborted"]
    /\ closed' = (closed \/ clean)
    /\ UNCHANGED <<sessionId, lock, daemon, thread, stopEvent, newId, orphans,
                   clean>>

\* The ABORT_SESSION call raises, and close() with it; BigQuery may or may not
\* have run it.
FailAbortSession ==
    /\ At("closer", "abort", "idle")
    /\ server' \in {server, [server EXCEPT ![sessionId] = "aborted"]}
    /\ closed' = (closed \/ clean)
    /\ UNCHANGED <<sessionId, lock, daemon, thread, stopEvent, newId, orphans,
                   clean>>

CloseSessionStep ==
    StopDaemon \/ JoinDaemon \/ ReadIdForAbort \/ AbortSession \/ FailAbortSession

ResourceNext ==
    \/ \E w \in Workers : CallCreateInSession(w) \/ CreatorStep(w)
    \/ DaemonStep
    \/ BeginCloseSession \/ CloseSessionStep

ResourceSpec == ResourceInit /\ [][ResourceNext]_resourceVars
----------------------------------------------------------------------------
\* The workers with a query running in the BigQuery session, or creating one.
Querying == {w \in Workers : bPc[w] \in {"newSession", "publish", "build", "start", "ddl"}}

\* A BigQuery session runs one query at a time ("Session is an exclusive
\* resource", bigquery_session.py 66): no two temp-table DDLs, set-ups or
\* keep-alive queries of one manager overlap.
ExclusiveSession ==
    /\ \A v, w \in Querying : v = w
    /\ Querying # {} => thread # "query"

\* However many threads race for the first temporary table, the manager opens
\* one session: each open session is the published one (which close() aborts),
\* the one its creator is about to publish, or one whose creation raised.
OneOpenSession ==
    \A s \in BqSessions :
        server[s] = "open" =>
            s = sessionId \/ s \in orphans \/ \E w \in Workers : newId[w] = s

\* Once a close() that found the daemon running has ended, the daemon's thread
\* has ended too: no keep-alive query can follow, not even one already waiting
\* for the lock (bigquery_session.py 115-117 and 210-214).
QuietAfterClose == closed => thread = "exited"
=============================================================================
