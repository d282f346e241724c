------------------------ MODULE GlobalSessionProofs ------------------------
(***************************************************************************)
(* Safety of the default session for any number of threads, sessions and   *)
(* locations, any number of calls and any nesting of option contexts.      *)
(***************************************************************************)
EXTENDS GlobalSession, TLAPS, SequenceTheorems

\* What the lock holder may rely on between two steps.
LockPhases ==
    \A t \in Threads :
        /\ pc[t] \in {"connect", "starting", "publish"} => globalSession = None
        /\ pc[t] = "starting" /\ t \in detached => "process" \in replaced
        /\ pc[t] = "publish" /\ "process" \notin replaced => globalOptions.started
        /\ pc[t] = "closing" => /\ globalSession # None
                                /\ sessions[globalSession].state \in Alive
        /\ pc[t] = "reset" /\ globalSession # None =>
             sessions[globalSession].state \notin Alive

\* The global session is the process's own; only the last step of close_session()
\* finds it dead, and only after options.reset() are its options not marked.
GlobalSessionOwned ==
    globalSession # None =>
        /\ sessions[globalSession].home = "process"
        /\ sessions[globalSession].state # "unborn"
        /\ (\A t \in Threads : pc[t] # "reset") =>
              /\ sessions[globalSession].state \in Alive
              /\ "process" \notin replaced => globalOptions.started

\* A thread's own session is alive and its own.
LocalSessionsOwned ==
    \A t \in Threads : localSession[t] # None =>
        /\ sessions[localSession[t]].state \in Alive
        /\ sessions[localSession[t]].home = t

Safe == /\ LockPhases
        /\ GlobalSessionOwned
        /\ LocalSessionsOwned
        /\ NoOrphanSession
        /\ LocalOptionsFrozen

USE DEF Alive, HoldsLock, Effective, IsThreadLocal

LEMMA InitSafe == Init => TypeOK /\ Safe
BY ImporterAssumption, LocationsAssumption, NoneAssumption, BoundsAssumption
   DEF Init, FreshOptions, Safe, TypeOK, Options, Sessions, LockPhases, GlobalSessionOwned,
       LocalSessionsOwned, NoOrphanSession, LocalOptionsFrozen

\* What a setter makes of an options record.
LEMMA OptionFacts ==
    ASSUME NEW o \in Options, NEW l \in Locations, NEW b \in BOOLEAN
    PROVE  /\ [o EXCEPT !.location = l] \in Options
           /\ [o EXCEPT !.location = l].location = l
           /\ [o EXCEPT !.location = l].started = o.started
           /\ [o EXCEPT !.started = b] \in Options
           /\ [o EXCEPT !.started = b].location = o.location
           /\ [o EXCEPT !.started = b].started = b
BY DEF Options

\* A thread whose options were set is in thread-local mode.
LEMMA OptionsAreSet == ASSUME NEW o, o \in Options PROVE o # None
BY NoneAssumption

\* The end of session s touches nothing but its state.
LEMMA EndFacts ==
    ASSUME sessions \in [SessionIds -> Sessions], NEW s \in SessionIds \cup {None},
           NEW how \in {"closed", "abandoned", "broken"}, End(s, how)
    PROVE  /\ sessions' \in [SessionIds -> Sessions]
           /\ \A x \in SessionIds :
                /\ sessions'[x].state = IF x = s THEN how ELSE sessions[x].state
                /\ sessions'[x].home = sessions[x].home
                /\ sessions'[x].location = sessions[x].location
<1>1. CASE s = None
  <2>1. sessions' = sessions
    BY <1>1, NoneAssumption DEF End
  <2> QED BY <1>1, <2>1, NoneAssumption
<1>2. CASE s \in SessionIds
  <2>1. sessions' = [sessions EXCEPT ![s] = [sessions[s] EXCEPT !.state = how]]
    BY <1>2 DEF End
  <2>2. /\ [sessions[s] EXCEPT !.state = how] \in Sessions
        /\ [sessions[s] EXCEPT !.state = how].state = how
        /\ [sessions[s] EXCEPT !.state = how].home = sessions[s].home
        /\ [sessions[s] EXCEPT !.state = how].location = sessions[s].location
    BY <1>2 DEF Sessions
  <2> QED BY <1>2, <2>1, <2>2
<1> QED BY <1>1, <1>2

\* Opening session s.
LEMMA OpenFacts ==
    ASSUME sessions \in [SessionIds -> Sessions], NEW s \in SessionIds,
           NEW h \in Threads \cup {"process"}, NEW l \in Locations \cup {None},
           Open(s, h, l)
    PROVE  /\ sessions[s].state = "unborn"
           /\ sessions' \in [SessionIds -> Sessions]
           /\ sessions'[s].state = "open"
           /\ sessions'[s].home = h
           /\ sessions'[s].location = Effective(l)
           /\ \A x \in SessionIds : x # s => sessions'[x] = sessions[x]
<1>1. [state |-> "open", location |-> Effective(l), home |-> h] \in Sessions
  BY LocationsAssumption DEF Sessions
<1> QED BY <1>1 DEF Open

\* What a thread does in thread-local mode keeps the types, when what it assigns
\* has them.
LEMMA LocalOptionsType ==
    ASSUME localOptions \in [Threads -> Options \cup {None}], NEW t \in Threads,
           NEW o \in Options,
           UNCHANGED localOptions \/ localOptions' = [localOptions EXCEPT ![t] = o]
    PROVE  localOptions' \in [Threads -> Options \cup {None}]
OBVIOUS

LEMMA LocalTypes ==
    ASSUME TypeOK, NEW t \in Threads, Call(t, "idle"), UNCHANGED <<globalVars, draft>>,
           replaced' \subseteq Threads \cup {"process"},
           localSession' \in [Threads -> SessionIds \cup {None}],
           localOptions' \in [Threads -> Options \cup {None}],
           contexts' \in [Threads -> Seq({"bigquery", "other"})],
           sessions' \in [SessionIds -> Sessions],
           got' \in [Threads -> SessionIds \cup {None, "nothing"}]
    PROVE  TypeOK'
<1>1. pc' = pc
  BY DEF Call, TypeOK
<1>2. calls' \in 0..MaxCalls /\ detached' = detached
  BY BoundsAssumption DEF Call, TypeOK
<1> QED BY <1>1, <1>2 DEF TypeOK, globalVars

\* A step of a setter, which holds no lock but the one of the default location.
LEMMA SetterTypes ==
    ASSUME TypeOK, NEW t \in Threads, NEW p \in {"idle", "detect", "assign"},
           pc[t] \in {"wantLocation", "check"}, Goto(t, p),
           locationLock' \in Threads \cup {None},
           UNCHANGED <<globalSession, globalLock, globalOptions, localVars, sessions,
                       draft, got, replaced>>
    PROVE  TypeOK'
<1>1. \A u \in Threads : pc'[u] \in HoldsLock <=> globalLock' = u
  BY DEF TypeOK, Goto, HoldsLock
<1>2. pc' \in [Threads -> {"idle", "wantSession", "connect", "starting", "publish",
                           "return", "wantClose", "closing", "reset",
                           "wantLocation", "detect", "check", "assign"}]
  BY DEF TypeOK, Goto
<1> QED BY <1>1, <1>2 DEF TypeOK, Goto, localVars

\* Types first, one action at a time.
LEMMA TypeStep == TypeOK /\ [Next]_vars => TypeOK'
<1> SUFFICES ASSUME TypeOK, [Next]_vars PROVE TypeOK'
  OBVIOUS
<1> USE NoneAssumption, LocationsAssumption, BoundsAssumption
        DEF TypeOK, Options, Sessions, globalVars, localVars, threadVars, Call, Goto
<1>0. localOptions \in [Threads -> Options \cup {None}]
  OBVIOUS
<1>1. CASE UNCHANGED vars
  BY <1>1 DEF vars
<1>2. ASSUME NEW t \in Threads, GetSession(t) \/ GetStep(t) PROVE TypeOK'
  <2>1. CASE GetSession(t) BY <2>1 DEF GetSession
  <2>2. CASE LockForGet(t) BY <2>2 DEF LockForGet
  <2>3. CASE ReadLocation(t) BY <2>3 DEF ReadLocation
  <2>4. CASE MarkStarted(t) BY <2>4 DEF MarkStarted
  <2>5. CASE FailConnect(t) BY <2>5 DEF FailConnect
  <2>6. CASE PublishSession(t) BY <2>6 DEF PublishSession, Open
  <2>7. CASE ReturnSession(t) BY <2>7 DEF ReturnSession
  <2> QED BY <1>2, <2>1, <2>2, <2>3, <2>4, <2>5, <2>6, <2>7 DEF GetStep
<1>3. ASSUME NEW t \in Threads, CloseSession(t) \/ CloseStep(t) PROVE TypeOK'
  <2>1. CASE CloseSession(t) BY <2>1 DEF CloseSession
  <2>2. CASE LockForClose(t) BY <2>2 DEF LockForClose
  <2>3. CASE TryClose(t) BY <2>3, EndFacts DEF TryClose
  <2>4. CASE FailClose(t) BY <2>4, EndFacts DEF FailClose
  <2>5. CASE ResetSession(t)
    <3>1. globalOptions' \in Options
      BY <2>5, OptionFacts DEF ResetSession
    <3> QED BY <2>5, <3>1 DEF ResetSession
  <2> QED BY <1>3, <2>1, <2>2, <2>3, <2>4, <2>5 DEF CloseStep
<1>4. ASSUME NEW t \in Threads, SetLocation(t) \/ SetDefaultLocation(t) \/ OptionStep(t)
      PROVE TypeOK'
  <2>1. CASE SetLocation(t) BY <2>1 DEF SetLocation
  <2>2. CASE SetDefaultLocation(t) BY <2>2 DEF SetDefaultLocation
  <2>3. CASE LockLocation(t)
    <3>1. PICK p \in {"idle", "detect", "assign"} : Goto(t, p)
      BY <2>3, Zenon DEF LockLocation
    <3>2. locationLock' \in Threads \cup {None}
      BY <2>3 DEF LockLocation
    <3>3. /\ pc[t] \in {"wantLocation", "check"}
          /\ UNCHANGED <<globalSession, globalLock, globalOptions, localVars, sessions,
                         draft, got, replaced>>
      BY <2>3, Zenon DEF LockLocation
    <3> QED BY <3>1, <3>2, <3>3, SetterTypes, Zenon
  <2>4. CASE DetectLocation(t) BY <2>4 DEF DetectLocation
  <2>5. CASE CheckOption(t)
    <3>1. PICK p \in {"idle", "detect", "assign"} : Goto(t, p)
      BY <2>5, Zenon DEF CheckOption
    <3>2. locationLock' \in Threads \cup {None}
      BY <2>5 DEF CheckOption, ReleaseLocation
    <3>3. /\ pc[t] \in {"wantLocation", "check"}
          /\ UNCHANGED <<globalSession, globalLock, globalOptions, localVars, sessions,
                         draft, got, replaced>>
      BY <2>5, Zenon DEF CheckOption
    <3> QED BY <3>1, <3>2, <3>3, SetterTypes, Zenon
  <2>6. CASE AssignOption(t) BY <2>6 DEF AssignOption, ReleaseLocation
  <2> QED BY <1>4, <2>1, <2>2, <2>3, <2>4, <2>5, <2>6 DEF OptionStep
<1>5. ASSUME NEW t \in Threads, LocalStep(t) PROVE TypeOK'
  <2> DEFINE mine == IF IsThreadLocal(t) THEN localOptions[t]
                     ELSE [location |-> globalOptions.location, started |-> FALSE]
  <2>0. mine \in Options
    OBVIOUS
  <2>1. CASE EnterBigQueryContext(t)
    <3>1. PICK l \in Locations : localOptions' = [localOptions EXCEPT ![t] = [mine EXCEPT !.location = l]]
      BY <2>1 DEF EnterBigQueryContext
    <3>2. localOptions' \in [Threads -> Options \cup {None}]
      BY <2>0, <3>1, OptionFacts
    <3>3. contexts' \in [Threads -> Seq({"bigquery", "other"})]
      BY <2>1 DEF EnterBigQueryContext
    <3>4. Call(t, "idle") /\ UNCHANGED <<globalVars, localSession, sessions, draft, got, replaced>>
      BY <2>1, Zenon DEF EnterBigQueryContext
    <3> HIDE DEF mine
    <3> QED BY <3>2, <3>3, <3>4
  <2>2. CASE EnterOtherContext(t) BY <2>2 DEF EnterOtherContext
  <2>3. CASE ExitContext(t)
    <3>1. SubSeq(contexts[t], 1, Len(contexts[t]) - 1) \in Seq({"bigquery", "other"})
      BY <2>3, EmptySeq, LenProperties, SubSeqProperties DEF ExitContext
    <3>2. contexts' \in [Threads -> Seq({"bigquery", "other"})]
      BY <2>3, <3>1 DEF ExitContext, Leave
    <3>3. sessions' \in [SessionIds -> Sessions]
      BY <2>3, EndFacts DEF ExitContext, LocalSessionEnds, LocalSessionBreaks
    <3> QED BY <2>3, <3>2, <3>3 DEF ExitContext, LocalSessionEnds, LocalSessionBreaks
  <2>4. CASE GetLocalSession(t)
    <3>1. IsThreadLocal(t) /\ localOptions[t] \in Options
      BY <2>4 DEF GetLocalSession
    <3>2. sessions' \in [SessionIds -> Sessions]
      BY <2>4, <3>1, OpenFacts DEF GetLocalSession
    <3>3. localOptions' \in [Threads -> Options \cup {None}]
      <4>1. \/ UNCHANGED localOptions
            \/ localOptions' = [localOptions EXCEPT ![t] = [localOptions[t] EXCEPT !.started = TRUE]]
        BY <2>4 DEF GetLocalSession
      <4>2. [localOptions[t] EXCEPT !.started = TRUE] \in Options
        BY <3>1, OptionFacts
      <4> HIDE DEF TypeOK, Options
      <4> QED BY <1>0, <4>1, <4>2, LocalOptionsType
    <3>4. Call(t, "idle") /\ UNCHANGED <<globalVars, contexts, draft>>
      BY <2>4, Zenon DEF GetLocalSession
    <3>6. replaced' \subseteq Threads \cup {"process"}
      BY <2>4 DEF GetLocalSession
    <3>5. /\ localSession' \in [Threads -> SessionIds \cup {None}]
          /\ got' \in [Threads -> SessionIds \cup {None, "nothing"}]
      <4>1. CASE localSession[t] = None
        <5>1. PICK s \in SessionIds : /\ localSession' = [localSession EXCEPT ![t] = s]
                                      /\ got' = [got EXCEPT ![t] = s]
          BY <2>4, <4>1 DEF GetLocalSession
        <5> QED BY <5>1
      <4>2. CASE localSession[t] # None
        <5>1. got' = [got EXCEPT ![t] = localSession[t]] /\ UNCHANGED localSession
          BY <2>4, <4>2 DEF GetLocalSession
        <5> QED BY <4>2, <5>1
      <4> QED BY <4>1, <4>2
    <3> QED BY <3>2, <3>3, <3>4, <3>5, <3>6, LocalTypes
  <2>5. CASE CloseLocalSession(t)
    <3>1. IsThreadLocal(t) /\ localOptions[t] \in Options
      BY <2>5 DEF CloseLocalSession
    <3>2. sessions' \in [SessionIds -> Sessions]
      BY <2>5, EndFacts DEF CloseLocalSession, LocalSessionEnds, LocalSessionBreaks
    <3>3. localOptions' \in [Threads -> Options \cup {None}]
      <4>1. \/ UNCHANGED localOptions
            \/ localOptions' = [localOptions EXCEPT ![t] = [localOptions[t] EXCEPT !.started = FALSE]]
        BY <2>5 DEF CloseLocalSession
      <4>2. [localOptions[t] EXCEPT !.started = FALSE] \in Options
        BY <3>1, OptionFacts
      <4> HIDE DEF TypeOK, Options
      <4> QED BY <1>0, <4>1, <4>2, LocalOptionsType
    <3>4. /\ Call(t, "idle") /\ UNCHANGED <<globalVars, contexts, draft, got, replaced>>
          /\ localSession' \in [Threads -> SessionIds \cup {None}]
      BY <2>5 DEF CloseLocalSession, LocalSessionEnds, LocalSessionBreaks
    <3> QED BY <3>2, <3>3, <3>4
  <2>6. CASE SetLocalLocation(t)
    <3>1. IsThreadLocal(t) /\ localOptions[t] \in Options
      BY <2>6 DEF SetLocalLocation
    <3>2. localOptions' \in [Threads -> Options \cup {None}]
      <4>1. PICK l \in Locations :
              localOptions' = [localOptions EXCEPT ![t] = [localOptions[t] EXCEPT !.location = l]]
        BY <2>6 DEF SetLocalLocation
      <4>2. [localOptions[t] EXCEPT !.location = l] \in Options
        BY <3>1, OptionFacts
      <4> QED BY <4>1, <4>2
    <3> QED BY <2>6, <3>2 DEF SetLocalLocation
  <2>7. CASE FailLocalSession(t)
    <3>1. localOptions[t] \in Options
      BY <2>7 DEF FailLocalSession
    <3>2. \/ UNCHANGED localOptions
          \/ localOptions' = [localOptions EXCEPT ![t] = [localOptions[t] EXCEPT !.started = TRUE]]
      BY <2>7 DEF FailLocalSession
    <3>3. localOptions' \in [Threads -> Options \cup {None}]
      <4>1. [localOptions[t] EXCEPT !.started = TRUE] \in Options
        BY <3>1, OptionFacts
      <4> HIDE DEF TypeOK, Options
      <4> QED BY <1>0, <3>2, <4>1, LocalOptionsType
    <3>4. Call(t, "idle") /\ UNCHANGED <<globalVars, localSession, contexts, sessions, draft, got, replaced>>
      BY <2>7, Zenon DEF FailLocalSession
    <3> QED BY <3>3, <3>4, LocalTypes
  <2> QED BY <1>5, <2>1, <2>2, <2>3, <2>4, <2>5, <2>6, <2>7 DEF LocalStep
<1>6. ASSUME NEW t \in Threads, ResetOptions(t) PROVE TypeOK'
  BY <1>6 DEF ResetOptions, FreshOptions
<1> QED BY <1>1, <1>2, <1>3, <1>4, <1>5, <1>6 DEF Next
----------------------------------------------------------------------------
\* A step that changes no session, no thread's options and no started flag, and
\* enters a phase of the lock only with what the phase needs.
LEMMA QuietStep ==
    ASSUME TypeOK, TypeOK', Safe,
           UNCHANGED <<sessions, globalSession, localSession, localOptions>>,
           globalOptions'.started = globalOptions.started \/ globalOptions'.started,
           NEW t \in Threads, NEW p, pc' = [pc EXCEPT ![t] = p],
           \A u \in Threads : u # t => (u \in detached' <=> u \in detached),
           \/ replaced' = replaced
           \/ pc[t] = "connect" /\ replaced' = replaced \ {"process"},
           p \in {"connect", "starting", "publish"} => globalSession = None,
           p = "starting" => t \notin detached',
           p = "publish" /\ "process" \notin replaced' => globalOptions'.started,
           p = "closing" => globalSession # None /\ sessions[globalSession].state \in Alive,
           pc[t] # "reset", p # "reset"
    PROVE  Safe'
<1>0. /\ pc[t] = "connect" =>
           globalSession = None /\ \A x \in Threads : x # t => pc[x] \notin HoldsLock
      /\ \A x \in Threads : x \in replaced' <=> x \in replaced
  BY NoneAssumption DEF TypeOK, Safe, LockPhases
<1>1. LockPhases'
  BY <1>0 DEF TypeOK, Safe, LockPhases
<1>2. GlobalSessionOwned'
  <2>1. \A x \in Threads : pc'[x] # "reset" => pc[x] # "reset"
    BY DEF TypeOK
  <2> QED BY <1>0, <2>1 DEF Safe, GlobalSessionOwned, TypeOK, Options
<1>3. LocalSessionsOwned' /\ NoOrphanSession' /\ LocalOptionsFrozen'
  BY <1>0 DEF Safe, LocalSessionsOwned, NoOrphanSession, LocalOptionsFrozen
<1> QED BY <1>1, <1>2, <1>3 DEF Safe

\* The steps of a call outside thread-local mode that QuietStep covers.
LEMMA QuietCalls ==
    ASSUME TypeOK, TypeOK', Safe, NEW t \in Threads,
           \/ GetSession(t) \/ LockForGet(t) \/ ReadLocation(t) \/ MarkStarted(t)
           \/ FailConnect(t) \/ ReturnSession(t) \/ CloseSession(t)
           \/ SetLocation(t) \/ SetDefaultLocation(t) \/ OptionStep(t)
    PROVE  Safe'
<1> USE DEF globalVars, localVars, threadVars, Call, Goto
<1>1. CASE GetSession(t) BY <1>1, QuietStep DEF GetSession
<1>2. CASE LockForGet(t) BY <1>2, QuietStep DEF LockForGet
<1>3. CASE ReadLocation(t)
  BY <1>3, QuietStep DEF ReadLocation, Safe, LockPhases
<1>4. CASE MarkStarted(t)
  <2>1. globalSession = None
    BY <1>4 DEF MarkStarted, Safe, LockPhases
  <2>2. globalOptions'.started \/ "process" \in replaced
    BY <1>4 DEF MarkStarted, Safe, LockPhases, TypeOK, Options
  <2>3. globalOptions'.started = globalOptions.started \/ globalOptions'.started
    BY <1>4 DEF MarkStarted, TypeOK, Options
  <2> QED BY <1>4, <2>1, <2>2, <2>3, QuietStep DEF MarkStarted
<1>5. CASE FailConnect(t) BY <1>5, QuietStep DEF FailConnect
<1>6. CASE ReturnSession(t) BY <1>6, QuietStep DEF ReturnSession
<1>7. CASE CloseSession(t) BY <1>7, QuietStep DEF CloseSession
<1>8. CASE SetLocation(t) BY <1>8, QuietStep DEF SetLocation
<1>9. CASE SetDefaultLocation(t) BY <1>9, QuietStep DEF SetDefaultLocation
<1>10. CASE LockLocation(t) BY <1>10, QuietStep DEF LockLocation
<1>11. CASE DetectLocation(t) BY <1>11, QuietStep DEF DetectLocation
<1>12. CASE CheckOption(t) BY <1>12, QuietStep DEF CheckOption
<1>13. CASE AssignOption(t)
  <2>1. globalOptions'.started = globalOptions.started
    BY <1>13 DEF AssignOption, TypeOK, Options
  <2> QED BY <1>13, <2>1, QuietStep DEF AssignOption
<1> QED BY <1>1, <1>2, <1>3, <1>4, <1>5, <1>6, <1>7, <1>8, <1>9, <1>10, <1>11, <1>12, <1>13
        DEF OptionStep

LEMMA OwnSessions ==
    ASSUME TypeOK, Safe, NEW x \in Threads, localSession[x] # None
    PROVE  /\ localSession[x] \in SessionIds
           /\ sessions[localSession[x]].state \in Alive
           /\ sessions[localSession[x]].home = x
<1>1. localSession[x] \in SessionIds
  BY DEF TypeOK
<1> QED BY <1>1 DEF Safe, LocalSessionsOwned

LEMMA PublishStep ==
    ASSUME TypeOK, TypeOK', Safe, NEW t \in Threads, PublishSession(t)
    PROVE  Safe'
<1> USE NoneAssumption DEF globalVars, localVars, threadVars, Call, Goto
<1>1. globalSession = None /\ globalLock = t
  BY DEF PublishSession, Safe, LockPhases, TypeOK
<1>2. PICK s \in SessionIds : Open(s, "process", draft[t]) /\ globalSession' = s
  BY DEF PublishSession
<1>3. /\ sessions[s].state = "unborn" /\ sessions'[s].state = "open"
      /\ sessions'[s].home = "process"
      /\ \A x \in SessionIds : x # s => sessions'[x] = sessions[x]
  BY <1>2, OpenFacts DEF TypeOK
<1>4. LockPhases'
  <2>1. \A x \in Threads : pc'[x] \notin HoldsLock
    BY <1>1 DEF PublishSession, TypeOK
  <2> QED BY <2>1 DEF LockPhases
<1>5. GlobalSessionOwned'
  BY <1>2, <1>3 DEF PublishSession, GlobalSessionOwned, Safe, LockPhases
<1>6. LocalSessionsOwned' /\ LocalOptionsFrozen'
  <2>1. \A x \in Threads : localSession[x] # None =>
          sessions'[localSession[x]] = sessions[localSession[x]]
    <3>1. \A x \in Threads : localSession[x] # None => localSession[x] \in SessionIds /\ localSession[x] # s
      BY <1>3, OwnSessions
    <3> QED BY <1>3, <3>1
  <2>2. UNCHANGED <<localSession, localOptions, replaced>>
    BY DEF PublishSession
  <2> QED BY <2>1, <2>2 DEF LocalSessionsOwned, LocalOptionsFrozen, Safe
<1>7. NoOrphanSession'
  BY <1>1, <1>2, <1>3 DEF PublishSession, NoOrphanSession, Safe
<1> QED BY <1>4, <1>5, <1>6, <1>7 DEF Safe

LEMMA CloseSteps ==
    ASSUME TypeOK, TypeOK', Safe, NEW t \in Threads, CloseStep(t)
    PROVE  Safe'
<1> USE NoneAssumption DEF globalVars, localVars, threadVars, Goto
<1>1. CASE LockForClose(t)
  <2>1. \A x \in Threads : pc[x] \notin HoldsLock
    BY <1>1 DEF LockForClose, TypeOK
  <2>2. globalSession # None => sessions[globalSession].state \in Alive
    BY <2>1 DEF Safe, GlobalSessionOwned
  <2>3. LockPhases' /\ GlobalSessionOwned'
    BY <1>1, <2>1, <2>2 DEF LockForClose, Safe, LockPhases, GlobalSessionOwned, TypeOK
  <2> QED BY <1>1, <2>3 DEF LockForClose, Safe, LocalSessionsOwned, NoOrphanSession, LocalOptionsFrozen
<1>2. ASSUME pc[t] = "closing"
      PROVE  /\ globalSession \in SessionIds /\ sessions[globalSession].home = "process"
             /\ "process" \notin replaced => globalOptions.started
             /\ \A x \in Threads : x # t => pc[x] \notin HoldsLock
             /\ \A x \in Threads : localSession[x] # globalSession
  BY <1>2 DEF Safe, LockPhases, GlobalSessionOwned, LocalSessionsOwned, TypeOK
<1>3. CASE TryClose(t)
  <2>1. PICK how \in {"closed", "abandoned"} : End(globalSession, how)
    BY <1>3 DEF TryClose
  <2>2. \A x \in SessionIds : /\ sessions'[x].state = IF x = globalSession THEN how ELSE sessions[x].state
                              /\ sessions'[x].home = sessions[x].home
                              /\ sessions'[x].location = sessions[x].location
    BY <2>1, EndFacts DEF TypeOK
  <2>3. pc[t] = "closing" /\ pc'[t] = "reset" /\ \A x \in Threads : x # t => pc'[x] \notin HoldsLock
    BY <1>2, <1>3 DEF TryClose, TypeOK
  <2>4. LockPhases' /\ GlobalSessionOwned'
    BY <1>2, <1>3, <2>2, <2>3 DEF TryClose, LockPhases, GlobalSessionOwned
  <2>5. LocalSessionsOwned' /\ LocalOptionsFrozen'
    <3>1. \A x \in Threads : localSession[x] # None =>
            /\ sessions'[localSession[x]].state = sessions[localSession[x]].state
            /\ sessions'[localSession[x]].home = sessions[localSession[x]].home
            /\ sessions'[localSession[x]].location = sessions[localSession[x]].location
      BY <1>2, <2>2, <2>3 DEF TypeOK
    <3>2. UNCHANGED <<localSession, localOptions, replaced>>
      BY <1>3 DEF TryClose
    <3> QED BY <3>1, <3>2 DEF LocalSessionsOwned, LocalOptionsFrozen, Safe
  <2>6. NoOrphanSession'
    BY <1>2, <1>3, <2>2, <2>3 DEF TryClose, NoOrphanSession, Safe
  <2> QED BY <2>4, <2>5, <2>6 DEF Safe
<1>4. CASE FailClose(t)
  <2>1. End(globalSession, "broken")
    BY <1>4 DEF FailClose
  <2>2. \A x \in SessionIds : /\ sessions'[x].state = IF x = globalSession THEN "broken" ELSE sessions[x].state
                              /\ sessions'[x].home = sessions[x].home
                              /\ sessions'[x].location = sessions[x].location
    BY <2>1, EndFacts DEF TypeOK
  <2>3. pc[t] = "closing" /\ \A x \in Threads : pc'[x] \notin HoldsLock
    BY <1>2, <1>4 DEF FailClose, TypeOK
  <2>4. LockPhases' /\ GlobalSessionOwned'
    BY <1>2, <1>4, <2>2, <2>3 DEF FailClose, LockPhases, GlobalSessionOwned
  <2>5. LocalSessionsOwned' /\ LocalOptionsFrozen'
    <3>1. \A x \in Threads : localSession[x] # None =>
            /\ sessions'[localSession[x]].state = sessions[localSession[x]].state
            /\ sessions'[localSession[x]].home = sessions[localSession[x]].home
            /\ sessions'[localSession[x]].location = sessions[localSession[x]].location
      BY <1>2, <2>2, <2>3 DEF TypeOK
    <3>2. UNCHANGED <<localSession, localOptions, replaced>>
      BY <1>4 DEF FailClose
    <3> QED BY <3>1, <3>2 DEF LocalSessionsOwned, LocalOptionsFrozen, Safe
  <2>6. NoOrphanSession'
    BY <1>2, <1>4, <2>2, <2>3 DEF FailClose, NoOrphanSession, Safe
  <2> QED BY <2>4, <2>5, <2>6 DEF Safe
<1>5. CASE ResetSession(t)
  <2>1. pc[t] = "reset" /\ globalSession' = None /\ \A x \in Threads : pc'[x] \notin HoldsLock
    BY <1>5 DEF ResetSession, TypeOK
  <2>2. globalSession # None => sessions[globalSession].state \notin Alive
    BY <2>1 DEF Safe, LockPhases
  <2>3. LockPhases' /\ GlobalSessionOwned'
    BY <2>1 DEF LockPhases, GlobalSessionOwned
  <2>4. LocalSessionsOwned' /\ LocalOptionsFrozen'
    BY <1>5 DEF ResetSession, LocalSessionsOwned, LocalOptionsFrozen, Safe
  <2>5. NoOrphanSession'
    BY <1>5, <2>1, <2>2 DEF ResetSession, NoOrphanSession, Safe
  <2> QED BY <2>3, <2>4, <2>5 DEF Safe
<1> QED BY <1>1, <1>3, <1>4, <1>5 DEF CloseStep
----------------------------------------------------------------------------
\* What one thread does in thread-local mode, or entering and leaving it: the
\* process's session, its options and its lock stay as they are.
LEMMA LocalStepSafe ==
    ASSUME TypeOK, TypeOK', Safe, NEW t \in Threads,
           UNCHANGED <<globalSession, globalOptions, pc, detached>>,
           "process" \in replaced' <=> "process" \in replaced,
           globalSession # None =>
               /\ sessions'[globalSession].state = sessions[globalSession].state
               /\ sessions'[globalSession].home = sessions[globalSession].home,
           LocalSessionsOwned', NoOrphanSession', LocalOptionsFrozen'
    PROVE  Safe'
BY DEF Safe, LockPhases, GlobalSessionOwned

\* A thread's own session that ends or breaks is no other thread's.
LEMMA LocalEndStep ==
    ASSUME TypeOK, TypeOK', Safe, NEW t \in Threads,
           UNCHANGED <<globalSession, globalOptions, pc, detached, replaced>>,
           \A x \in Threads : x # t => localOptions'[x] = localOptions[x],
           \/ LocalSessionEnds(t)
           \/ /\ LocalSessionBreaks(t)
              /\ localOptions'[t] = localOptions[t]
    PROVE  Safe'
<1> DEFINE own == localSession[t]
<1>1. CASE sessions' = sessions /\ localSession' = localSession
  <2>1. localSession[t] # None => localOptions'[t] = localOptions[t]
    BY <1>1, NoneAssumption DEF LocalSessionEnds, TypeOK
  <2>2. LocalSessionsOwned' /\ NoOrphanSession'
    BY <1>1 DEF Safe, LocalSessionsOwned, NoOrphanSession
  <2>3. LocalOptionsFrozen'
    BY <1>1, <2>1 DEF Safe, LocalOptionsFrozen
  <2> QED BY <1>1, <2>2, <2>3, LocalStepSafe
<1>2. ASSUME own # None
      PROVE  /\ own \in SessionIds /\ own # globalSession
             /\ sessions[own].home = t
             /\ \A x \in Threads : x # t => localSession[x] # own
  BY <1>2, NoneAssumption DEF Safe, LocalSessionsOwned, GlobalSessionOwned, TypeOK
<1>3. CASE /\ own # None
           /\ \E how \in {"closed", "abandoned"} : End(own, how)
           /\ localSession' = [localSession EXCEPT ![t] = None]
  <2>1. PICK how \in {"closed", "abandoned"} : End(own, how)
    BY <1>3
  <2>2. \A x \in SessionIds : /\ sessions'[x].state = IF x = own THEN how ELSE sessions[x].state
                              /\ sessions'[x].home = sessions[x].home
                              /\ sessions'[x].location = sessions[x].location
    BY <1>2, <1>3, <2>1, EndFacts DEF TypeOK
  <2>3. localSession'[t] = None /\ \A x \in Threads : x # t => localSession'[x] = localSession[x]
    BY <1>3 DEF TypeOK
  <2>4. /\ LocalSessionsOwned'
        /\ NoOrphanSession'
    <3>1. LocalSessionsOwned'
      BY <1>2, <1>3, <2>2, <2>3, OwnSessions DEF LocalSessionsOwned
    <3>2. NoOrphanSession'
      BY <1>2, <1>3, <2>2, <2>3 DEF Safe, NoOrphanSession
    <3> QED BY <3>1, <3>2
  <2>5. LocalOptionsFrozen'
    <3> SUFFICES ASSUME NEW x \in Threads \ replaced, localSession'[x] # None
                 PROVE  /\ IsThreadLocal(x)' /\ localOptions'[x].started
                        /\ sessions'[localSession'[x]].location = Effective(localOptions'[x].location)
      BY DEF LocalOptionsFrozen
    <3>1. x # t
      BY <2>3
    <3>2. /\ IsThreadLocal(x) /\ localOptions[x].started
          /\ localSession[x] # None
          /\ sessions[localSession[x]].location = Effective(localOptions[x].location)
      BY <2>3, <3>1 DEF Safe, LocalOptionsFrozen
    <3>3. localOptions'[x] = localOptions[x]
      BY <3>1
    <3> QED BY <2>2, <2>3, <3>1, <3>2, <3>3 DEF TypeOK
  <2>6. UNCHANGED globalSession /\ (globalSession # None =>
          sessions'[globalSession].state = sessions[globalSession].state /\ sessions'[globalSession].home = sessions[globalSession].home)
    BY <1>2, <1>3, <2>2 DEF TypeOK
  <2> QED BY <2>4, <2>5, <2>6, LocalStepSafe
<1>4. CASE /\ own # None
           /\ End(own, "broken")
           /\ localSession' = localSession
           /\ localOptions'[t] = localOptions[t]
  <2>1. \A x \in SessionIds : /\ sessions'[x].state = IF x = own THEN "broken" ELSE sessions[x].state
                              /\ sessions'[x].home = sessions[x].home
                              /\ sessions'[x].location = sessions[x].location
    BY <1>4, EndFacts DEF TypeOK
  <2>2. LocalSessionsOwned' /\ LocalOptionsFrozen'
    <3>1. \A x \in Threads : localSession[x] # None =>
            /\ sessions'[localSession[x]].state \in Alive
            /\ sessions'[localSession[x]].home = sessions[localSession[x]].home
            /\ sessions'[localSession[x]].location = sessions[localSession[x]].location
      BY <2>1, OwnSessions
    <3>2. \A x \in Threads : localOptions'[x] = localOptions[x]
      BY <1>4
    <3> QED BY <1>4, <3>1, <3>2 DEF Safe, LocalSessionsOwned, LocalOptionsFrozen
  <2>3. NoOrphanSession'
    BY <1>2, <1>4, <2>1, NoneAssumption DEF Safe, NoOrphanSession
  <2>4. globalSession # None =>
          sessions'[globalSession].state = sessions[globalSession].state /\ sessions'[globalSession].home = sessions[globalSession].home
    BY <1>2, <1>4, <2>1 DEF TypeOK
  <2> QED BY <2>2, <2>3, <2>4, LocalStepSafe
<1>5. ASSUME LocalSessionEnds(t), own = None
      PROVE  sessions' = sessions /\ localSession' = localSession
  BY <1>5 DEF LocalSessionEnds, TypeOK
<1> QED BY <1>1, <1>3, <1>4, <1>5 DEF LocalSessionEnds, LocalSessionBreaks
LEMMA LocalSteps ==
    ASSUME TypeOK, TypeOK', Safe, NEW t \in Threads, LocalStep(t)
    PROVE  Safe'
<1> USE DEF globalVars, threadVars
<1>1. CASE EnterBigQueryContext(t)
  <2> DEFINE mine == IF IsThreadLocal(t) THEN localOptions[t]
                     ELSE [location |-> globalOptions.location, started |-> FALSE]
  <2>1. PICK l \in Locations :
          /\ MayChange(mine, l)
          /\ localOptions' = [localOptions EXCEPT ![t] = [mine EXCEPT !.location = l]]
    BY <1>1 DEF EnterBigQueryContext
  <2>2. Call(t, "idle") /\ UNCHANGED <<globalVars, localSession, sessions, replaced>>
    BY <1>1, Zenon DEF EnterBigQueryContext
  <2>3. mine \in Options
    BY DEF TypeOK, Options
  <2>4. /\ localOptions'[t].location = l /\ localOptions'[t].started = mine.started
        /\ localOptions'[t] # None
        /\ \A x \in Threads : x # t => localOptions'[x] = localOptions[x]
    <3>1. localOptions'[t] = [mine EXCEPT !.location = l]
      BY <2>1 DEF TypeOK
    <3>2. [mine EXCEPT !.location = l] \in Options
      BY <2>3, OptionFacts
    <3>3. localOptions'[t] # None
      BY <3>1, <3>2, OptionsAreSet, Zenon
    <3>4. localOptions'[t].location = l /\ localOptions'[t].started = mine.started
      <4> HIDE DEF mine
      <4> QED BY <2>3, <3>1, OptionFacts
    <3>5. \A x \in Threads : x # t => localOptions'[x] = localOptions[x]
      BY <2>1 DEF TypeOK
    <3> QED BY <3>3, <3>4, <3>5
  <2>5. mine.started => IsThreadLocal(t) /\ localOptions[t].started /\ localOptions[t].location = l
    BY <2>1 DEF MayChange
  <2>6. LocalOptionsFrozen'
    <3>1. localSession[t] # None /\ t \notin replaced => mine.started
      BY DEF Safe, LocalOptionsFrozen
    <3> HIDE DEF mine
    <3> QED BY <3>1, <2>2, <2>4, <2>5 DEF Safe, LocalOptionsFrozen
  <2>7. LocalSessionsOwned' /\ NoOrphanSession' /\ pc' = pc /\ detached' = detached
    BY <2>2 DEF Safe, LocalSessionsOwned, NoOrphanSession, Call, TypeOK
  <2> QED BY <2>2, <2>6, <2>7, LocalStepSafe
<1>2. CASE EnterOtherContext(t) \/ (ExitContext(t) /\ ~IsThreadLocal(t))
  <2>1. UNCHANGED <<globalSession, globalOptions, localSession, localOptions, sessions, pc,
                  detached, replaced>>
    BY <1>2 DEF EnterOtherContext, ExitContext, Call, TypeOK
  <2> QED BY <2>1 DEF Safe, LockPhases, GlobalSessionOwned, LocalSessionsOwned,
                      NoOrphanSession, LocalOptionsFrozen
<1>3. CASE ExitContext(t) /\ IsThreadLocal(t)
  <2>1. /\ UNCHANGED <<globalSession, globalOptions, pc, detached, replaced>>
        /\ \/ LocalSessionEnds(t) /\ localOptions' = [localOptions EXCEPT ![t] = None]
           \/ LocalSessionBreaks(t) /\ UNCHANGED localOptions
    BY <1>3 DEF ExitContext
  <2> QED BY <2>1, LocalEndStep DEF TypeOK
<1>4. CASE GetLocalSession(t)
  <2>1. /\ UNCHANGED <<globalVars, detached>> /\ pc' = pc /\ localOptions[t] \in Options
        /\ "process" \in replaced' <=> "process" \in replaced
    BY <1>4, NoneAssumption DEF GetLocalSession, Call, TypeOK
  <2>2. CASE localSession[t] = None
    <3>1. PICK s \in SessionIds :
            /\ Open(s, t, localOptions[t].location)
            /\ localSession' = [localSession EXCEPT ![t] = s]
      BY <1>4, <2>2 DEF GetLocalSession
    <3>2. localOptions' = [localOptions EXCEPT ![t] = [localOptions[t] EXCEPT !.started = TRUE]]
      BY <1>4, <2>2 DEF GetLocalSession
    <3>3. /\ localOptions'[t].location = localOptions[t].location
          /\ localOptions'[t].started /\ localOptions'[t] # None
          /\ \A x \in Threads : x # t => localOptions'[x] = localOptions[x]
      <4>1. localOptions'[t] = [localOptions[t] EXCEPT !.started = TRUE]
        BY <3>2 DEF TypeOK
      <4>2. [localOptions[t] EXCEPT !.started = TRUE] \in Options
        BY <2>1, LocationsAssumption, OptionFacts
      <4>3. localOptions'[t] # None
        BY <4>1, <4>2, OptionsAreSet, Zenon
      <4> QED BY <2>1, <3>2, <4>3, OptionFacts DEF TypeOK
    <3>4. /\ sessions[s].state = "unborn" /\ sessions'[s].state = "open"
          /\ sessions'[s].home = t
          /\ sessions'[s].location = Effective(localOptions[t].location)
          /\ \A x \in SessionIds : x # s => sessions'[x] = sessions[x]
      BY <2>1, <3>1, OpenFacts DEF TypeOK, Options
    <3>5. localSession'[t] = s /\ \A x \in Threads : x # t => localSession'[x] = localSession[x]
      BY <3>1 DEF TypeOK
    <3>6. \A x \in Threads : x # t /\ localSession[x] # None => sessions'[localSession[x]] = sessions[localSession[x]]
      BY <3>4, OwnSessions
    <3>7. LocalSessionsOwned'
      BY <3>4, <3>5, <3>6, OwnSessions DEF LocalSessionsOwned
    <3>8. LocalOptionsFrozen'
      <4> SUFFICES ASSUME NEW x \in Threads \ replaced', localSession'[x] # None
                   PROVE  /\ IsThreadLocal(x)' /\ localOptions'[x].started
                          /\ sessions'[localSession'[x]].location = Effective(localOptions'[x].location)
        BY DEF LocalOptionsFrozen
      <4>1. CASE x = t
        BY <3>3, <3>4, <3>5, <4>1, NoneAssumption
      <4>2. CASE x # t
        <5>1. x \notin replaced
          BY <1>4, <2>2, <4>2 DEF GetLocalSession
        <5> QED BY <3>3, <3>5, <3>6, <4>2, <5>1 DEF Safe, LocalOptionsFrozen
      <4> QED BY <4>1, <4>2
    <3>9. s # globalSession
      BY <3>4, NoneAssumption DEF Safe, GlobalSessionOwned
    <3>10. NoOrphanSession'
      <4> SUFFICES ASSUME NEW x \in SessionIds, sessions'[x].state \in Alive
                   PROVE  x = IF sessions'[x].home = "process" THEN globalSession'
                              ELSE localSession'[sessions'[x].home]
        BY DEF NoOrphanSession
      <4>1. CASE x = s
        BY <3>4, <3>5, <4>1, NoneAssumption
      <4>2. CASE x # s
        <5>1. x = IF sessions[x].home = "process" THEN globalSession
                  ELSE localSession[sessions[x].home]
          BY <3>4, <4>2 DEF Safe, NoOrphanSession
        <5>2. sessions[x].home \in Threads \cup {"process"}
          BY DEF TypeOK, Sessions
        <5> QED BY <2>1, <2>2, <3>4, <3>5, <4>2, <5>1, <5>2, NoneAssumption
      <4> QED BY <4>1, <4>2
    <3> QED BY <2>1, <3>4, <3>7, <3>8, <3>9, <3>10, LocalStepSafe DEF TypeOK
  <2>3. CASE localSession[t] # None
    <3>1. UNCHANGED <<localSession, localOptions, sessions, replaced>>
      BY <1>4, <2>3 DEF GetLocalSession
    <3> QED BY <2>1, <3>1 DEF Safe, LockPhases, GlobalSessionOwned, LocalSessionsOwned,
                      NoOrphanSession, LocalOptionsFrozen
  <2> QED BY <2>2, <2>3
<1>5. CASE CloseLocalSession(t)
  <2>1. /\ UNCHANGED <<globalVars, detached, replaced>> /\ pc' = pc /\ localOptions[t] \in Options
        /\ \/ /\ LocalSessionEnds(t)
              /\ localOptions' = [localOptions EXCEPT ![t] = [localOptions[t] EXCEPT !.started = FALSE]]
           \/ LocalSessionBreaks(t) /\ UNCHANGED localOptions
    BY <1>5 DEF CloseLocalSession, Call, TypeOK
  <2>2. [localOptions[t] EXCEPT !.started = FALSE].started = FALSE
    BY <2>1, OptionFacts
  <2> QED BY <2>1, <2>2, LocalEndStep DEF TypeOK
<1>6. CASE SetLocalLocation(t)
  <2>1. PICK l \in Locations :
          /\ MayChange(localOptions[t], l)
          /\ localOptions' = [localOptions EXCEPT ![t] = [localOptions[t] EXCEPT !.location = l]]
    BY <1>6 DEF SetLocalLocation
  <2>2. /\ UNCHANGED <<globalVars, localSession, sessions, detached, replaced>> /\ pc' = pc
        /\ localOptions[t] \in Options
    BY <1>6 DEF SetLocalLocation, Call, TypeOK
  <2>3. /\ localOptions'[t].location = l /\ localOptions'[t].started = localOptions[t].started
        /\ localOptions'[t] # None
        /\ \A x \in Threads : x # t => localOptions'[x] = localOptions[x]
    <3>1. localOptions'[t] = [localOptions[t] EXCEPT !.location = l]
      BY <2>1 DEF TypeOK
    <3>2. [localOptions[t] EXCEPT !.location = l] \in Options
      BY <2>2, OptionFacts
    <3>3. localOptions'[t] # None
      BY <3>1, <3>2, OptionsAreSet, Zenon
    <3> QED BY <2>1, <2>2, <3>3, OptionFacts DEF TypeOK
  <2>4. LocalOptionsFrozen'
    BY <1>6, <2>1, <2>2, <2>3 DEF SetLocalLocation, MayChange, Safe, LocalOptionsFrozen
  <2>5. LocalSessionsOwned' /\ NoOrphanSession'
    BY <2>2 DEF Safe, LocalSessionsOwned, NoOrphanSession
  <2> QED BY <2>2, <2>4, <2>5, LocalStepSafe
<1>7. CASE FailLocalSession(t)
  <2>1. /\ UNCHANGED <<globalVars, localSession, sessions, detached, replaced>> /\ pc' = pc
        /\ localSession[t] = None
        /\ \A x \in Threads : x # t => localOptions'[x] = localOptions[x]
    BY <1>7 DEF FailLocalSession, Call, TypeOK
  <2>2. LocalSessionsOwned' /\ NoOrphanSession' /\ LocalOptionsFrozen'
    BY <2>1 DEF Safe, LocalSessionsOwned, NoOrphanSession, LocalOptionsFrozen
  <2> QED BY <2>1, <2>2, LocalStepSafe
<1> QED BY <1>1, <1>2, <1>3, <1>4, <1>5, <1>6, <1>7 DEF LocalStep

\* options.reset() takes the options away and leaves the sessions alone.
LEMMA ResetStep ==
    ASSUME TypeOK, TypeOK', Safe, NEW t \in Threads, ResetOptions(t)
    PROVE  Safe'
<1>1. UNCHANGED <<globalSession, localSession, sessions, pc>> /\ replaced' = Threads \cup {"process"}
  BY DEF ResetOptions
<1> QED BY <1>1 DEF Safe, LockPhases, GlobalSessionOwned, LocalSessionsOwned,
                    NoOrphanSession, LocalOptionsFrozen
----------------------------------------------------------------------------
LEMMA SafeInductive == Spec => [](TypeOK /\ Safe)
<1>1. Init => TypeOK /\ Safe
  BY InitSafe
<1>2. TypeOK /\ Safe /\ [Next]_vars => TypeOK' /\ Safe'
  <2> SUFFICES ASSUME TypeOK, Safe, [Next]_vars PROVE TypeOK' /\ Safe'
    OBVIOUS
  <2>1. TypeOK'
    BY TypeStep
  <2>2. CASE UNCHANGED vars
    BY <2>1, <2>2 DEF vars, globalVars, localVars, threadVars, Safe, LockPhases,
       GlobalSessionOwned, LocalSessionsOwned, NoOrphanSession, LocalOptionsFrozen
  <2>3. CASE Next
    BY <2>1, <2>3, QuietCalls, PublishStep, CloseSteps, LocalSteps, ResetStep DEF Next, GetStep
  <2> QED BY <2>1, <2>2, <2>3
<1> QED BY <1>1, <1>2, PTL DEF Spec

\* A thread is in a call of the process's session only outside thread-local mode.
CallsAreGlobal == \A t \in Threads : pc[t] # "idle" => ~IsThreadLocal(t)

LEMMA CallsAreGlobalInductive == Spec => []CallsAreGlobal
<1>1. Init => CallsAreGlobal
  BY DEF Init, CallsAreGlobal
<1>2. TypeOK /\ CallsAreGlobal /\ [Next]_vars => CallsAreGlobal'
  <2> SUFFICES ASSUME TypeOK, CallsAreGlobal, [Next]_vars PROVE CallsAreGlobal'
    OBVIOUS
  <2> USE DEF CallsAreGlobal, Call, Goto, localVars, threadVars
  <2>1. CASE UNCHANGED vars
    BY <2>1 DEF vars
  <2>2. ASSUME NEW t \in Threads,
               \/ GetSession(t) \/ CloseSession(t) \/ SetLocation(t) \/ SetDefaultLocation(t)
        PROVE  CallsAreGlobal'
    BY <2>2 DEF TypeOK, GetSession, CloseSession, SetLocation, SetDefaultLocation
  <2>3. ASSUME NEW t \in Threads, GetStep(t) \/ CloseStep(t) \/ OptionStep(t)
        PROVE  CallsAreGlobal'
    <3>1. pc[t] # "idle" /\ UNCHANGED localOptions
      BY <2>3 DEF GetStep, LockForGet, ReadLocation, MarkStarted, FailConnect,
         PublishSession, ReturnSession, CloseStep, LockForClose, TryClose, FailClose,
         ResetSession, OptionStep, LockLocation, DetectLocation, CheckOption, AssignOption
    <3>2. \E p : pc' = [pc EXCEPT ![t] = p]
      BY <2>3 DEF GetStep, LockForGet, ReadLocation, MarkStarted, FailConnect,
         PublishSession, ReturnSession, CloseStep, LockForClose, TryClose, FailClose,
         ResetSession, OptionStep, LockLocation, DetectLocation, CheckOption, AssignOption
    <3> QED BY <3>1, <3>2 DEF TypeOK
  <2>4. ASSUME NEW t \in Threads, LocalStep(t) PROVE CallsAreGlobal'
    <3>1. pc[t] = "idle" /\ UNCHANGED pc
      BY <2>4 DEF TypeOK, LocalStep, EnterBigQueryContext, EnterOtherContext, ExitContext,
         GetLocalSession, FailLocalSession, CloseLocalSession, SetLocalLocation
    <3>2. \A x \in Threads : x # t => localOptions'[x] = localOptions[x]
      BY <2>4 DEF TypeOK, LocalStep, EnterBigQueryContext, EnterOtherContext, ExitContext,
         GetLocalSession, FailLocalSession, CloseLocalSession, SetLocalLocation
    <3> QED BY <3>1, <3>2
  <2>5. ASSUME NEW t \in Threads, ResetOptions(t) PROVE CallsAreGlobal'
    BY <2>5 DEF ResetOptions
  <2> QED BY <2>1, <2>2, <2>3, <2>4, <2>5 DEF Next
<1> QED BY <1>1, <1>2, SafeInductive, PTL DEF Spec

\* Types, with the lock in the hands of the one thread that is in its section.
THEOREM GlobalTypesCorrect == Spec => []TypeOK
BY SafeInductive, PTL

\* No second session is opened over one that is still alive: in the process, and
\* in each thread's option contexts.
THEOREM NoSessionForgotten == Spec => []NoOrphanSession
<1>1. TypeOK /\ Safe => NoOrphanSession
  BY DEF Safe
<1> QED BY <1>1, SafeInductive, PTL

\* close_session() leaves no session behind that it has ended.
THEOREM NoDeadSession == Spec => []NoDeadSessionKept
<1>1. TypeOK /\ Safe => NoDeadSessionKept
  BY NoneAssumption DEF Safe, GlobalSessionOwned, NoDeadSessionKept, TypeOK
<1> QED BY <1>1, SafeInductive, PTL

\* The options of the process are marked as started as long as it has a session,
\* unless options.reset() replaced them since the session read them.
THEOREM StaysStarted == Spec => []StartedWhileOpen
<1>1. TypeOK /\ Safe => StartedWhileOpen
  BY NoneAssumption DEF Safe, GlobalSessionOwned, StartedWhileOpen, TypeOK
<1> QED BY <1>1, SafeInductive, PTL

\* The options of a thread's session do not change under it, unless options.reset()
\* took them away since it was opened.
THEOREM LocalFrozen == Spec => []LocalOptionsFrozen
<1>1. TypeOK /\ Safe => LocalOptionsFrozen
  BY DEF Safe
<1> QED BY <1>1, SafeInductive, PTL

\* Option contexts and other thread-local work never end the process's session.
THEOREM ContextsSpare == Spec => ContextsSpareGlobalSession
<1> DEFINE Spares ==
      \A s \in SessionIds :
        sessions[s].home = "process" /\ sessions[s].state = "open" /\ sessions'[s].state # "open" =>
          \E t \in Threads : globalLock = t /\ pc[t] = "closing" /\ ~IsThreadLocal(t)
<1>1. TypeOK /\ Safe /\ CallsAreGlobal /\ [Next]_vars => [Spares]_vars
  <2> SUFFICES ASSUME TypeOK, Safe, CallsAreGlobal, Next,
                      NEW s \in SessionIds,
                      sessions[s].home = "process", sessions[s].state = "open",
                      sessions'[s].state # "open"
               PROVE  \E t \in Threads : globalLock = t /\ pc[t] = "closing" /\ ~IsThreadLocal(t)
    OBVIOUS
  <2>1. PICK t \in Threads :
          \/ GetSession(t) \/ CloseSession(t) \/ SetLocation(t) \/ SetDefaultLocation(t)
          \/ GetStep(t) \/ CloseStep(t) \/ OptionStep(t) \/ LocalStep(t) \/ ResetOptions(t)
    BY DEF Next
  <2>2. CASE TryClose(t) \/ FailClose(t)
    BY <2>2 DEF TryClose, FailClose, TypeOK, CallsAreGlobal
  <2>3. CASE PublishSession(t)
    <3>1. PICK x \in SessionIds : Open(x, "process", draft[t])
      BY <2>3 DEF PublishSession
    <3> QED BY <3>1, OpenFacts DEF TypeOK
  <2>4. CASE GetLocalSession(t)
    <3>1. sessions' = sessions \/ \E x \in SessionIds : Open(x, t, localOptions[t].location)
      BY <2>4 DEF GetLocalSession
    <3>2. localOptions[t].location \in Locations \cup {None}
      BY <2>4 DEF GetLocalSession, TypeOK, Options
    <3> QED BY <3>1, <3>2, OpenFacts DEF TypeOK
  <2>5. CASE ExitContext(t) \/ CloseLocalSession(t)
    <3>1. \/ sessions' = sessions
          \/ localSession[t] # None /\ \E how \in {"closed", "abandoned", "broken"} : End(localSession[t], how)
      BY <2>5 DEF ExitContext, CloseLocalSession, LocalSessionEnds, LocalSessionBreaks
    <3>2. localSession[t] # None => localSession[t] # s
      BY OwnSessions, NoneAssumption
    <3>3. localSession[t] \in SessionIds \cup {None}
      BY DEF TypeOK
    <3> QED BY <3>1, <3>2, <3>3, EndFacts DEF TypeOK
  <2>6. sessions' # sessions
    OBVIOUS
  <2> QED BY <2>1, <2>2, <2>3, <2>4, <2>5, <2>6
          DEF GetSession, CloseSession, SetLocation, SetDefaultLocation, GetStep, CloseStep,
              OptionStep, LocalStep, LockForGet, ReadLocation, MarkStarted, FailConnect,
              ReturnSession, LockForClose, ResetSession, LockLocation, DetectLocation,
              CheckOption, AssignOption, EnterBigQueryContext, EnterOtherContext, SetLocalLocation,
              FailLocalSession, ResetOptions
<1> QED BY <1>1, SafeInductive, CallsAreGlobalInductive, PTL DEF Spec, ContextsSpareGlobalSession
=============================================================================
