---------------------------- MODULE GlobalSession ----------------------------
(***************************************************************************)
(* The default session of a process (core/global_session.py), the options  *)
(* it is opened with (_config/global_options.py, _config/bigquery_options  *)
(* .py) and the option_context that gives a thread a session of its own    *)
(* (bigframes_vendored/pandas/_config/config.py).                          *)
(*                                                                         *)
(* Of the options only the location is kept: the others obey the same rule *)
(* (no change on a running session).  What a thread does to its own        *)
(* thread-local session and options is one step: no other thread sees it,  *)
(* and the one call of another thread that replaces them, options.reset(), *)
(* is taken to come before or after such a step.                           *)
(***************************************************************************)
EXTENDS Naturals, Sequences

CONSTANTS
    Threads,    \* the threads of the process
    Importer,   \* the thread that first imported global_session
    SessionIds, \* the ids Session() can take: each is used once
    Locations,  \* BigQuery locations; "US" is the default one
    MaxCalls,   \* bound: the calls all threads make
    MaxDepth,   \* bound: how deep a thread nests option contexts
    None

Options == [location : Locations \cup {None}, started : BOOLEAN]

ASSUME ImporterAssumption == Importer \in Threads
ASSUME LocationsAssumption == "US" \in Locations /\ None \notin Locations
ASSUME NoneAssumption ==
    None \notin Threads /\ None \notin SessionIds /\ None \notin Options /\ "process" \notin Threads
ASSUME BoundsAssumption == MaxCalls \in Nat /\ MaxDepth \in Nat

VARIABLES
    globalSession,  \* _global_session
    globalLock,     \* the holder of _global_session_lock, or None
    globalOptions,  \* options._bigquery_options: location and _session_started
    locationLock,   \* the holder of _default_location_lock, or None
    localSession,   \* _global_session_state.thread_local_session of each thread
    localOptions,   \* options._local.bigquery_options of each thread, or None
    contexts,       \* the option contexts each thread is in, the innermost last
    sessions,       \* every session: its state, its location, whose it is
    pc,
    draft,          \* the location a thread read, or is about to set
    got,            \* what each thread's last get_global_session() returned
    calls,
    detached,       \* the threads whose call holds options that reset() replaced
    replaced        \* history: whose session, the process's or a thread's, has
                    \* seen a reset() since the options it opens with were read

threadVars == <<pc, draft, got, calls, detached>>
localVars == <<localSession, localOptions, contexts>>
globalVars == <<globalSession, globalLock, globalOptions, locationLock>>
vars == <<globalVars, localVars, sessions, threadVars, replaced>>

\* `abandoned`: close() met a RefreshError, the caller is warned and the session
\* is given up.  `broken`: close() raised something else half-way.
Sessions == [state : {"unborn", "open", "closed", "abandoned", "broken"},
             location : Locations \cup {None},
             home : Threads \cup {"process"}]

\* What reset() and the import of the module leave.
FreshOptions == [location |-> None, started |-> FALSE]

\* Where a thread holds _global_session_lock.
HoldsLock == {"connect", "starting", "publish", "closing", "reset"}

TypeOK ==
    /\ globalSession \in SessionIds \cup {None}
    /\ globalLock \in Threads \cup {None}
    /\ globalOptions \in Options
    /\ locationLock \in Threads \cup {None}
    /\ localSession \in [Threads -> SessionIds \cup {None}]
    /\ localOptions \in [Threads -> Options \cup {None}]
    /\ contexts \in [Threads -> Seq({"bigquery", "other"})]
    /\ sessions \in [SessionIds -> Sessions]
    /\ pc \in [Threads -> {"idle", "wantSession", "connect", "starting", "publish",
                           "return", "wantClose", "closing", "reset",
                           "wantLocation", "detect", "check", "assign"}]
    /\ draft \in [Threads -> Locations \cup {None}]
    /\ got \in [Threads -> SessionIds \cup {None, "nothing"}]
    /\ calls \in 0..MaxCalls
    /\ detached \subseteq Threads
    /\ replaced \subseteq Threads \cup {"process"}
    /\ \A t \in Threads : pc[t] \in HoldsLock <=> globalLock = t

Init ==
    /\ globalSession = None
    /\ globalLock = None
    /\ globalOptions = FreshOptions
    /\ locationLock = None
    /\ localSession = [t \in Threads |-> None]
    /\ localOptions = [t \in Threads |-> None]
    /\ contexts = [t \in Threads |-> <<>>]
    /\ sessions = [s \in SessionIds |->
                     [state |-> "unborn", location |-> None, home |-> "process"]]
    /\ pc = [t \in Threads |-> "idle"]
    /\ draft = [t \in Threads |-> None]
    /\ got = [t \in Threads |-> "nothing"]
    /\ calls = 0
    /\ detached = {}
    /\ replaced = {}
----------------------------------------------------------------------------
\* options.is_bigquery_thread_local, read in thread t.
IsThreadLocal(t) == localOptions[t] # None

\* The location of a session opened with an option that may be unset.
Effective(location) == IF location = None THEN "US" ELSE location

Alive == {"open", "broken"}

\* A thread starts a call; one that needs steps of its own goes to `place`.
Call(t, place) ==
    /\ pc[t] = "idle"
    /\ calls < MaxCalls
    /\ calls' = calls + 1
    /\ pc' = [pc EXCEPT ![t] = place]
    /\ UNCHANGED detached

Goto(t, place) ==
    /\ pc' = [pc EXCEPT ![t] = place]
    /\ detached' = detached \ {t}
    /\ UNCHANGED calls

\* Session(): id s now belongs to `home`, at the location that was read.
Open(s, home, location) ==
    /\ sessions[s].state = "unborn"
    /\ sessions' = [sessions EXCEPT ![s] =
         [state |-> "open", location |-> Effective(location), home |-> home]]

\* session.close() ended so: with "abandoned" it was _try_close_session that
\* swallowed the RefreshError, "broken" lets the exception through.
End(s, how) == sessions' = [sessions EXCEPT ![s].state = how]
----------------------------------------------------------------------------
(* get_global_session() outside a bigquery option context                  *)

GetSession(t) ==
    /\ ~IsThreadLocal(t)
    /\ Call(t, "wantSession")
    /\ UNCHANGED <<globalVars, localVars, sessions, draft, got, replaced>>

\* Mutant: the check and the creation are not under the lock.
GetUnlocked(t) ==
    /\ pc[t] = "wantSession"
    /\ Goto(t, IF globalSession = None THEN "connect" ELSE "return")
    /\ UNCHANGED <<globalVars, localVars, sessions, draft, got, replaced>>

\* Lines 111-112.  When there is a session the lock is released at once.
LockForGet(t) ==
    /\ pc[t] = "wantSession"
    /\ globalLock = None
    /\ globalLock' = IF globalSession = None THEN t ELSE None
    /\ Goto(t, IF globalSession = None THEN "connect" ELSE "return")
    /\ UNCHANGED <<globalSession, globalOptions, locationLock, localVars, sessions,
                   draft, got, replaced>>

\* Session() reads the location early on ...
ReadLocation(t) ==
    /\ pc[t] = "connect"
    /\ draft' = [draft EXCEPT ![t] = globalOptions.location]
    /\ Goto(t, "starting")
    /\ replaced' = replaced \ {"process"}
    /\ UNCHANGED <<globalVars, localVars, sessions, got>>

\* ... and marks the same options as started once the clients are there.
MarkStarted(t) ==
    /\ pc[t] = "starting"
    /\ globalOptions' = IF t \in detached THEN globalOptions
                        ELSE [globalOptions EXCEPT !.started = TRUE]
    /\ Goto(t, "publish")
    /\ UNCHANGED <<globalSession, globalLock, locationLock, localVars, sessions,
                   draft, got, replaced>>

\* Mutant: the lock is released by hand after the assignment, not by `with`.
FailAndKeepLock(t) ==
    /\ pc[t] \in {"starting", "publish"}
    /\ Goto(t, "idle")
    /\ UNCHANGED <<globalVars, localVars, sessions, draft, got, replaced>>

\* The clients cannot be built (no credentials, no project), or the first query,
\* which asks for the time, fails when the options are already marked.  The
\* exception leaves Session() and the `with` block, and nothing clears the mark.
FailConnect(t) ==
    /\ pc[t] \in {"starting", "publish"}
    /\ globalLock' = None
    /\ Goto(t, "idle")
    /\ UNCHANGED <<globalSession, globalOptions, locationLock, localVars, sessions,
                   draft, got, replaced>>

PublishSession(t) ==
    /\ pc[t] = "publish"
    /\ \E s \in SessionIds :
         /\ Open(s, "process", draft[t])
         /\ globalSession' = s
    /\ globalLock' = None
    /\ Goto(t, "return")
    /\ UNCHANGED <<globalOptions, locationLock, localVars, draft, got, replaced>>

\* Line 117: _global_session is read again, after the lock was released.
ReturnSession(t) ==
    /\ pc[t] = "return"
    /\ got' = [got EXCEPT ![t] = globalSession]
    /\ Goto(t, "idle")
    /\ UNCHANGED <<globalVars, localVars, sessions, draft, replaced>>
----------------------------------------------------------------------------
(* close_session() outside a bigquery option context                       *)

CloseSession(t) ==
    /\ ~IsThreadLocal(t)
    /\ Call(t, "wantClose")
    /\ UNCHANGED <<globalVars, localVars, sessions, draft, got, replaced>>

LockForClose(t) ==
    /\ pc[t] = "wantClose"
    /\ globalLock = None
    /\ globalLock' = t
    /\ Goto(t, IF globalSession = None THEN "reset" ELSE "closing")
    /\ UNCHANGED <<globalSession, globalOptions, locationLock, localVars, sessions,
                   draft, got, replaced>>

TryClose(t) ==
    /\ pc[t] = "closing"
    /\ \E how \in {"closed", "abandoned"} : End(globalSession, how)
    /\ Goto(t, "reset")
    /\ UNCHANGED <<globalVars, localVars, draft, got, replaced>>

\* Any other exception leaves close_session(), with the session still in place.
FailClose(t) ==
    /\ pc[t] = "closing"
    /\ End(globalSession, "broken")
    /\ globalLock' = None
    /\ Goto(t, "idle")
    /\ UNCHANGED <<globalSession, globalOptions, locationLock, localVars, draft, got, replaced>>

\* Mutant: an abandoned session stays the global one.
ResetUnlessAbandoned(t) ==
    /\ pc[t] = "reset"
    /\ globalSession' = IF globalSession # None /\ sessions[globalSession].state = "abandoned"
                        THEN globalSession ELSE None
    /\ globalOptions' = [globalOptions EXCEPT !.started = FALSE]
    /\ globalLock' = None
    /\ Goto(t, "idle")
    /\ UNCHANGED <<locationLock, localVars, sessions, draft, got, replaced>>

ResetSession(t) ==
    /\ pc[t] = "reset"
    /\ globalSession' = None
    /\ globalOptions' = [globalOptions EXCEPT !.started = FALSE]
    /\ globalLock' = None
    /\ Goto(t, "idle")
    /\ UNCHANGED <<locationLock, localVars, sessions, draft, got, replaced>>
----------------------------------------------------------------------------
(* Setting the location of the process's options                           *)

\* options.bigquery.location = l, written by the user.
SetLocation(t) ==
    /\ ~IsThreadLocal(t)
    /\ \E l \in Locations : draft' = [draft EXCEPT ![t] = l]
    /\ Call(t, "check")
    /\ UNCHANGED <<globalVars, localVars, sessions, got, replaced>>

\* pandas/io/api.py: the first read of a query or table gives the session the
\* location of its data, unless it has started or has one.
SetDefaultLocation(t) ==
    /\ ~IsThreadLocal(t)
    /\ Call(t, "wantLocation")
    /\ UNCHANGED <<globalVars, localVars, sessions, draft, got, replaced>>

LockLocation(t) ==
    /\ pc[t] = "wantLocation"
    /\ locationLock = None
    /\ IF globalOptions.started \/ globalOptions.location # None
       THEN Goto(t, "idle") /\ UNCHANGED locationLock
       ELSE Goto(t, "detect") /\ locationLock' = t
    /\ UNCHANGED <<globalSession, globalLock, globalOptions, localVars, sessions,
                   draft, got, replaced>>

\* The dry run, or the lookup of the table, tells where the data is.
DetectLocation(t) ==
    /\ pc[t] = "detect"
    /\ \E l \in Locations : draft' = [draft EXCEPT ![t] = l]
    /\ Goto(t, "check")
    /\ UNCHANGED <<globalVars, localVars, sessions, got, replaced>>

\* The setter's guard: no change once the session has started.
MayChange(options, location) == ~options.started \/ options.location = location

ReleaseLocation(t) == locationLock' = IF locationLock = t THEN None ELSE locationLock

\* The setter: it checks, and then assigns, or raises ValueError.
CheckOption(t) ==
    /\ pc[t] = "check"
    /\ IF MayChange(globalOptions, draft[t])
       THEN Goto(t, "assign") /\ UNCHANGED locationLock
       ELSE Goto(t, "idle") /\ ReleaseLocation(t)
    /\ UNCHANGED <<globalSession, globalLock, globalOptions, localVars, sessions,
                   draft, got, replaced>>

AssignOption(t) ==
    /\ pc[t] = "assign"
    /\ globalOptions' = IF t \in detached THEN globalOptions
                        ELSE [globalOptions EXCEPT !.location = draft[t]]
    /\ ReleaseLocation(t)
    /\ Goto(t, "idle")
    /\ UNCHANGED <<globalSession, globalLock, localVars, sessions, draft, got, replaced>>

\* Options.reset(): new options for the process, and a new threading.local, so
\* that no thread has options of its own any more.  Sessions are left alone, and
\* a call that has the old options at hand goes on with them.
ResetOptions(t) ==
    /\ pc[t] = "idle"
    /\ calls < MaxCalls
    /\ calls' = calls + 1
    /\ globalOptions' = FreshOptions
    /\ localOptions' = [u \in Threads |-> None]
    /\ detached' = detached \cup {u \in Threads : pc[u] \in {"starting", "assign"}}
    /\ replaced' = Threads \cup {"process"}
    /\ UNCHANGED <<globalSession, globalLock, locationLock, localSession, contexts,
                   sessions, pc, draft, got>>
----------------------------------------------------------------------------
(* option_context, and what a thread does inside one                       *)

\* __enter__ with a "bigquery." option: _init_bigquery_thread_local copies the
\* process's options, then the setter runs on the copy.
EnterBigQueryContext(t) ==
    LET mine == IF IsThreadLocal(t) THEN localOptions[t]
                ELSE [location |-> globalOptions.location, started |-> FALSE]
    IN  \E l \in Locations :
          /\ MayChange(mine, l)
          /\ Len(contexts[t]) < MaxDepth
          /\ Call(t, "idle")
          /\ localOptions' = [localOptions EXCEPT ![t] = [mine EXCEPT !.location = l]]
          /\ contexts' = [contexts EXCEPT ![t] = Append(@, "bigquery")]
          /\ UNCHANGED <<globalVars, localSession, sessions, draft, got, replaced>>

\* __enter__ with display, sampling or compute options only.
EnterOtherContext(t) ==
    /\ Len(contexts[t]) < MaxDepth
    /\ Call(t, "idle")
    /\ contexts' = [contexts EXCEPT ![t] = Append(@, "other")]
    /\ UNCHANGED <<globalVars, localSession, localOptions, sessions, draft, got, replaced>>

\* The thread_local_session attribute exists in the importing thread only: in
\* any other thread reading it raises AttributeError.
HasAttribute(t) == t = Importer

\* The thread-local branch of get_global_session().
GetLocalSession(t) ==
    /\ IsThreadLocal(t) /\ HasAttribute(t)
    /\ Call(t, "idle")
    /\ \/ /\ localSession[t] = None
          /\ \E s \in SessionIds :
               /\ Open(s, t, localOptions[t].location)
               /\ localSession' = [localSession EXCEPT ![t] = s]
               /\ got' = [got EXCEPT ![t] = s]
          /\ localOptions' = [localOptions EXCEPT ![t].started = TRUE]
       \/ /\ localSession[t] # None
          /\ got' = [got EXCEPT ![t] = localSession[t]]
          /\ UNCHANGED <<localSession, localOptions, sessions>>
    /\ replaced' = IF localSession[t] = None THEN replaced \ {t} ELSE replaced
    /\ UNCHANGED <<globalVars, contexts, draft>>

\* Session() raises, before or after it marked the thread's options as started.
FailLocalSession(t) ==
    /\ IsThreadLocal(t) /\ HasAttribute(t)
    /\ localSession[t] = None
    /\ localOptions' \in {localOptions, [localOptions EXCEPT ![t].started = TRUE]}
    /\ Call(t, "idle")
    /\ UNCHANGED <<globalVars, localSession, contexts, sessions, draft, got, replaced>>

\* The thread-local branch of close_session() up to the session's end: the
\* thread has no session any more.
LocalSessionEnds(t) ==
    /\ HasAttribute(t)
    /\ \/ localSession[t] = None /\ UNCHANGED sessions
       \/ localSession[t] # None /\ \E how \in {"closed", "abandoned"} : End(localSession[t], how)
    /\ localSession' = [localSession EXCEPT ![t] = None]

\* The same branch when an exception leaves it.
LocalSessionBreaks(t) ==
    /\ HasAttribute(t) => localSession[t] # None /\ End(localSession[t], "broken")
    /\ ~HasAttribute(t) => UNCHANGED sessions
    /\ UNCHANGED localSession

\* Mutant: the flag is reset in the process's options.
CloseAndResetGlobal(t) ==
    /\ IsThreadLocal(t)
    /\ LocalSessionEnds(t)
    /\ globalOptions' = [globalOptions EXCEPT !.started = FALSE]
    /\ Call(t, "idle")
    /\ UNCHANGED <<globalSession, globalLock, locationLock, localOptions, contexts,
                   draft, got, replaced>>

CloseLocalSession(t) ==
    /\ IsThreadLocal(t)
    /\ \/ LocalSessionEnds(t) /\ localOptions' = [localOptions EXCEPT ![t].started = FALSE]
       \/ LocalSessionBreaks(t) /\ UNCHANGED localOptions
    /\ Call(t, "idle")
    /\ UNCHANGED <<globalVars, contexts, draft, got, replaced>>

\* Mutant: the setter of a thread-local option does not look at the flag.
SetLocalUnchecked(t) ==
    /\ IsThreadLocal(t)
    /\ \E l \in Locations : localOptions' = [localOptions EXCEPT ![t].location = l]
    /\ Call(t, "idle")
    /\ UNCHANGED <<globalVars, localSession, contexts, sessions, draft, got, replaced>>

SetLocalLocation(t) ==
    /\ IsThreadLocal(t)
    /\ \E l \in Locations :
         /\ MayChange(localOptions[t], l)
         /\ localOptions' = [localOptions EXCEPT ![t].location = l]
    /\ Call(t, "idle")
    /\ UNCHANGED <<globalVars, localSession, contexts, sessions, draft, got, replaced>>

Leave(t) == contexts' = [contexts EXCEPT ![t] = SubSeq(@, 1, Len(@) - 1)]

\* Mutant: leaving a bigquery context falls through to the global branch.
ExitAndCloseGlobal(t) ==
    /\ pc[t] = "idle" /\ contexts[t] # <<>>
    /\ globalLock = None
    /\ Leave(t)
    /\ IF globalSession # None THEN End(globalSession, "closed") ELSE UNCHANGED sessions
    /\ globalSession' = None
    /\ globalOptions' = [globalOptions EXCEPT !.started = FALSE]
    /\ localOptions' = [localOptions EXCEPT ![t] = None]
    /\ UNCHANGED <<globalLock, locationLock, localSession, threadVars, replaced>>

\* __exit__ of any context closes the thread-local session there is, whoever
\* started it, and ends the thread's use of thread-local options.
ExitContext(t) ==
    /\ pc[t] = "idle" /\ contexts[t] # <<>>
    /\ Leave(t)
    /\ \/ ~IsThreadLocal(t) /\ UNCHANGED <<localSession, localOptions, sessions>>
       \/ IsThreadLocal(t) /\ LocalSessionEnds(t) /\ localOptions' = [localOptions EXCEPT ![t] = None]
       \/ IsThreadLocal(t) /\ LocalSessionBreaks(t) /\ UNCHANGED localOptions
    /\ UNCHANGED <<globalVars, threadVars, replaced>>
----------------------------------------------------------------------------
GetStep(t) ==
    \/ LockForGet(t) \/ ReadLocation(t) \/ MarkStarted(t) \/ FailConnect(t)
    \/ PublishSession(t) \/ ReturnSession(t)

CloseStep(t) == LockForClose(t) \/ TryClose(t) \/ FailClose(t) \/ ResetSession(t)

OptionStep(t) == LockLocation(t) \/ DetectLocation(t) \/ CheckOption(t) \/ AssignOption(t)

LocalStep(t) ==
    \/ EnterBigQueryContext(t) \/ EnterOtherContext(t) \/ ExitContext(t)
    \/ GetLocalSession(t) \/ FailLocalSession(t) \/ CloseLocalSession(t)
    \/ SetLocalLocation(t)

Next == \E t \in Threads :
    \/ GetSession(t) \/ CloseSession(t) \/ SetLocation(t) \/ SetDefaultLocation(t)
    \/ GetStep(t) \/ CloseStep(t) \/ OptionStep(t) \/ LocalStep(t) \/ ResetOptions(t)

\* Calls of BigQuery end, and the interpreter runs every thread that can run.
\* The threads make finitely many calls, so one waiting for a lock that others
\* take again and again gets it in the end.
Fairness == \A t \in Threads : WF_vars(GetStep(t) \/ CloseStep(t) \/ OptionStep(t))

Spec == Init /\ [][Next]_vars
FairSpec == Spec /\ Fairness
----------------------------------------------------------------------------
\* Every session that was opened and not given up is the one the process or its
\* thread would close: no interleaving of get_global_session(), close_session(),
\* option contexts and options.reset() opens a second one over it (lines 82-85 and
\* 111-115).  After a reset() a thread's session waits for the thread's next
\* "bigquery." context.
NoOrphanSession ==
    \A s \in SessionIds : sessions[s].state \in Alive =>
        s = IF sessions[s].home = "process" THEN globalSession
            ELSE localSession[sessions[s].home]

\* Outside the lock the global session is never one that close_session() is done
\* with, whether its clean-up succeeded or was abandoned (lines 83-85).
NoDeadSessionKept ==
    globalLock = None /\ globalSession # None => sessions[globalSession].state \in Alive

\* While the process has a session its options say so, whatever happens in
\* thread-local mode: the setters go on refusing changes (lines 77, 87-89 and
\* session/__init__.py 205).  Only options.reset() undoes it, for the session it
\* finds open or being opened (global_options.py 65-77).
StartedWhileOpen ==
    globalLock = None /\ globalSession # None /\ "process" \notin replaced =>
        globalOptions.started

\* As long as a thread has a session of its own it is in thread-local mode, with
\* the options the session was opened with: through nested contexts, setters,
\* closes and failed closes.  Only options.reset(), called by any thread, takes
\* them from it (global_options.py 71).
LocalOptionsFrozen ==
    \A t \in Threads \ replaced : localSession[t] # None =>
        /\ IsThreadLocal(t) /\ localOptions[t].started
        /\ sessions[localSession[t]].location = Effective(localOptions[t].location)

\* "Don't close the non-thread-local session" (line 79): only a thread outside
\* thread-local mode that holds the lock ends the process's session.
ContextsSpareGlobalSession ==
    [][\A s \in SessionIds :
         sessions[s].home = "process" /\ sessions[s].state = "open" /\ sessions'[s].state # "open" =>
           \E t \in Threads : globalLock = t /\ pc[t] = "closing" /\ ~IsThreadLocal(t)]_vars

\* Every call returns or raises: no exception leaves a lock taken.
CallsEnd == \A t \in Threads : pc[t] # "idle" ~> pc[t] = "idle"

\* "Gets the global session. Creates the global session if it does not exist."
\* (lines 93-95): the caller gets a session.
GetReturnsASession == \A t \in Threads : got[t] # None
=============================================================================
