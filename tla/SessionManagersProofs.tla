----------------------- MODULE SessionManagersProofs -----------------------
(***************************************************************************)
(* What holds of the managers of a session for any number of threads.      *)
(*                                                                         *)
(* AnonymousDatasetManager, for any number of tables.  NoForgottenTable is *)
(* not inductive: the state where the closer is about to clear the list    *)
(* must already say that everything in it is deleted.  DeletedSoFar says   *)
(* so for the part of the list behind the cursor, and HandTracked that an  *)
(* id in a worker's hand is in the list, or racing.                        *)
(*                                                                         *)
(* SessionResourceManager, for any number of BigQuery sessions it could be *)
(* handed.  Three facts carry the argument: the lock has the one holder    *)
(* its users think it has (Holder), a thread that opens a session does so  *)
(* because none was published (Opening), and the daemon is built once and  *)
(* started once (Lifecycle), so that an ended thread stays ended.          *)
(*                                                                         *)
(* FunctionSession, for any set of function definitions, whichever of them *)
(* share a cloud function.  DeployedAreOwned is not inductive: while       *)
(* clean_up() runs, the artifacts it has deleted are still in the          *)
(* dictionary, so ownership is stated with the artifacts still to delete;  *)
(* and a deployment owns a routine (a cloud function) only from the step   *)
(* that creates it.                                                        *)
(***************************************************************************)
EXTENDS AnonymousDataset, SessionResource, FunctionSession, TLAPS

\* The holder of the dataset lock is the one thread inside the `with`.
LockHolder ==
    \A t \in Threads : aPc[t] \in {"check", "query"} => dsLock = t

\* The thread that queries does so because no lookup has succeeded.
QueryNeeded == \A t \in Threads : aPc[t] = "query" => ~dsRef

\* The id a worker is creating is in the list or racing; during close() racing.
HandTracked ==
    \A w \in Workers : aPc[w] = "create" =>
        IF Closing THEN hand[w] \in racing
                   ELSE hand[w] \in Ids(tableIds) \cup racing

\* While close() runs, the tables behind its cursor are gone, or racing.
DeletedSoFar ==
    Closing => /\ cursor \in Nat \ {0}
               /\ \A i \in 1..Len(tableIds) :
                    i < cursor => tableIds[i] \notin live \ racing

\* When the loop is over, whatever was appended since is racing.
AllDeleted ==
    aPc["closer"] = "clear" =>
        \A i \in 1..Len(tableIds) : tableIds[i] \notin live \ racing

\* A worker is never in close(), and the closer creates no table.
Roles ==
    /\ \A w \in Workers : aPc[w] \in WorkerPcs
    /\ aPc["closer"] \in CloserPcs

AnonInv ==
    /\ AnonTypeOK /\ Roles
    /\ DatasetLookedUpOnce /\ LockHolder /\ QueryNeeded
    /\ NoForgottenTable /\ HandTracked /\ DeletedSoFar /\ AllDeleted

----------------------------------------------------------------------------
\* Appending an id keeps the list a sequence of ids and adds just that id.
LEMMA AppendId ==
    ASSUME NEW s \in Seq(Tables), NEW id \in Tables
    PROVE  /\ Append(s, id) \in Seq(Tables)
           /\ Len(Append(s, id)) = Len(s) + 1
           /\ \A i \in 1..Len(s) : Append(s, id)[i] = s[i]
           /\ Append(s, id)[Len(s) + 1] = id
           /\ Ids(Append(s, id)) = Ids(s) \cup {id}
<1>1. /\ Append(s, id) \in Seq(Tables)
      /\ Len(Append(s, id)) = Len(s) + 1
      /\ \A i \in 1..Len(s) : Append(s, id)[i] = s[i]
      /\ Append(s, id)[Len(s) + 1] = id
  OBVIOUS
<1>2. Ids(Append(s, id)) = Ids(s) \cup {id}
  BY <1>1 DEF Ids
<1> QED BY <1>1, <1>2

LEMMA InitHolds == AnonInit => AnonInv
<1> SUFFICES ASSUME AnonInit PROVE AnonInv
  OBVIOUS
<1> USE WorkersAssumption, NoneAssumption DEF AnonInit
<1>1. AnonTypeOK
  <2>1. tableIds \in Seq(Tables)
    OBVIOUS
  <2>2. aPc \in [Threads -> WorkerPcs \cup CloserPcs]
    BY DEF WorkerPcs
  <2>3. hand \in [Workers -> Tables \cup {None}]
    OBVIOUS
  <2>4. \A w \in Workers : hand[w] # None <=> aPc[w] = "create"
    BY DEF Threads
  <2> QED BY <2>1, <2>2, <2>3, <2>4 DEF AnonTypeOK, Threads
<1>2. Roles
  BY DEF Roles, Threads, WorkerPcs, CloserPcs
<1>3. DatasetLookedUpOnce /\ LockHolder /\ QueryNeeded
  BY DEF DatasetLookedUpOnce, LockHolder, QueryNeeded
<1>4. NoForgottenTable /\ HandTracked /\ DeletedSoFar /\ AllDeleted
  BY DEF NoForgottenTable, HandTracked, DeletedSoFar, AllDeleted, Closing, Threads
<1> QED BY <1>1, <1>2, <1>3, <1>4 DEF AnonInv

\* The types, with the roles that say which thread can be where.
LEMMA TypingHolds ==
    ASSUME AnonTypeOK, Roles, AnonNext
    PROVE  AnonTypeOK' /\ Roles'
<1> USE WorkersAssumption, NoneAssumption, TablesAssumption
        DEF AnonTypeOK, Roles, Threads, WorkerPcs, CloserPcs, Goto, AfterDataset
<1>1. ASSUME NEW w \in Workers, CallCreate(w) PROVE AnonTypeOK' /\ Roles'
  BY <1>1 DEF CallCreate
<1>2. ASSUME NEW t \in Threads, DatasetStep(t) PROVE AnonTypeOK' /\ Roles'
  <2>1. CASE ReadDataset(t)
    BY <2>1 DEF ReadDataset
  <2>2. CASE LockDataset(t)
    BY <2>2 DEF LockDataset
  <2>3. CASE RecheckDataset(t)
    BY <2>3 DEF RecheckDataset
  <2>4. CASE LookUpDataset(t)
    BY <2>4 DEF LookUpDataset
  <2>5. CASE FailDataset(t)
    BY <2>5 DEF FailDataset
  <2> QED BY <1>2, <2>1, <2>2, <2>3, <2>4, <2>5 DEF DatasetStep
<1>3. ASSUME NEW w \in Workers, Allocate(w) PROVE AnonTypeOK' /\ Roles'
  BY <1>3, AppendId DEF Allocate
<1>4. ASSUME NEW w \in Workers, CreateTable(w) PROVE AnonTypeOK' /\ Roles'
  BY <1>4 DEF CreateTable
<1>5. CASE BeginClose
  BY <1>5 DEF BeginClose
<1>6. CASE DeleteTable
  BY <1>6 DEF DeleteTable
<1>7. CASE FailDelete
  BY <1>7 DEF FailDelete
<1>8. CASE EndLoop
  BY <1>8 DEF EndLoop
<1>9. CASE ClearIds
  BY <1>9 DEF ClearIds
<1>10. CASE CleanUpUdfs
  BY <1>10 DEF CleanUpUdfs
<1>11. CASE ExpireTable
  BY <1>11 DEF ExpireTable
<1> QED
  BY <1>1, <1>2, <1>3, <1>4, <1>5, <1>6, <1>7, <1>8, <1>9, <1>10, <1>11
     DEF AnonNext, CreatorOfTable, CloserStep

DatasetInv == DatasetLookedUpOnce /\ LockHolder /\ QueryNeeded

\* Only the steps of the `dataset` property can disturb its invariant.
LEMMA DatasetHolds ==
    ASSUME AnonTypeOK, Roles, DatasetInv, AnonNext
    PROVE  DatasetInv'
<1> USE WorkersAssumption, NoneAssumption
        DEF AnonTypeOK, Roles, Threads, WorkerPcs, CloserPcs, Goto, AfterDataset,
            DatasetInv, DatasetLookedUpOnce, LockHolder, QueryNeeded
<1>1. ASSUME NEW t \in Threads, DatasetStep(t) PROVE DatasetInv'
  <2>1. CASE ReadDataset(t)
    BY <2>1 DEF ReadDataset
  <2>2. CASE LockDataset(t)
    BY <2>2 DEF LockDataset
  <2>3. CASE RecheckDataset(t)
    BY <2>3 DEF RecheckDataset
  <2>4. CASE LookUpDataset(t)
    BY <2>4 DEF LookUpDataset
  <2>5. CASE FailDataset(t)
    BY <2>5 DEF FailDataset
  <2> QED BY <1>1, <2>1, <2>2, <2>3, <2>4, <2>5 DEF DatasetStep
<1>2. ASSUME NEW w \in Workers, CallCreate(w) \/ Allocate(w) \/ CreateTable(w)
      PROVE  DatasetInv'
  BY <1>2 DEF CallCreate, Allocate, CreateTable
<1>3. CASE BeginClose \/ DeleteTable \/ FailDelete \/ EndLoop \/ ClearIds
  BY <1>3 DEF BeginClose, DeleteTable, FailDelete, EndLoop, ClearIds
<1>4. CASE CleanUpUdfs \/ ExpireTable
  BY <1>4 DEF CleanUpUdfs, ExpireTable
<1> QED BY <1>1, <1>2, <1>3, <1>4 DEF AnonNext, CreatorOfTable, CloserStep

TableInv == NoForgottenTable /\ HandTracked /\ DeletedSoFar /\ AllDeleted

\* A step that leaves the list, the tables, the racing ids, the ids in hand and
\* the closer's place alone preserves what is known of the tables.
LEMMA TableFrame ==
    ASSUME TableInv,
           UNCHANGED <<tableIds, live, racing, hand, cursor>>,
           Closing' = Closing, (aPc["closer"] = "clear")' = (aPc["closer"] = "clear"),
           \A w \in Workers : aPc'[w] = "create" => aPc[w] = "create"
    PROVE  TableInv'
BY DEF TableInv, NoForgottenTable, HandTracked, DeletedSoFar, AllDeleted, Ids

LEMMA TablesHold ==
    ASSUME AnonTypeOK, Roles, TableInv, AnonNext
    PROVE  TableInv'
<1> USE WorkersAssumption, NoneAssumption, TablesAssumption
        DEF AnonTypeOK, Roles, Threads, WorkerPcs, CloserPcs, Goto, AfterDataset
<1>1. ASSUME NEW w \in Workers, CallCreate(w) PROVE TableInv'
  BY <1>1, TableFrame DEF CallCreate, Closing
<1>2. ASSUME NEW t \in Threads, DatasetStep(t) PROVE TableInv'
  <2>1. /\ UNCHANGED <<tableIds, live, racing, hand, cursor>>
        /\ Closing' = Closing
        /\ (aPc["closer"] = "clear")' = (aPc["closer"] = "clear")
        /\ \A w \in Workers : aPc'[w] = "create" => aPc[w] = "create"
    BY <1>2 DEF DatasetStep, ReadDataset, LockDataset, RecheckDataset,
                LookUpDataset, FailDataset, Closing
  <2> QED BY <2>1, TableFrame
<1>3. ASSUME NEW w \in Workers, Allocate(w) PROVE TableInv'
  <2>1. PICK id \in Tables : /\ tableIds' = Append(tableIds, id)
                             /\ hand' = [hand EXCEPT ![w] = id]
                             /\ racing' = IF Closing THEN racing \cup {id} ELSE racing
    BY <1>3 DEF Allocate
  <2>2. Closing' = Closing /\ live' = live /\ cursor' = cursor
    BY <1>3 DEF Allocate, Closing
  <2>3. aPc' = [aPc EXCEPT ![w] = "create"]
    BY <1>3 DEF Allocate
  <2>4. /\ Ids(tableIds') = Ids(tableIds) \cup {id}
        /\ Len(tableIds') = Len(tableIds) + 1
        /\ \A i \in 1..Len(tableIds) : tableIds'[i] = tableIds[i]
        /\ tableIds'[Len(tableIds) + 1] = id
    BY <2>1, AppendId
  <2>5. NoForgottenTable'
    BY <2>1, <2>2, <2>4 DEF TableInv, NoForgottenTable
  <2>6. HandTracked'
    BY <2>1, <2>2, <2>3, <2>4 DEF TableInv, HandTracked
  <2>7. DeletedSoFar' /\ AllDeleted'
    BY <2>1, <2>2, <2>3, <2>4 DEF TableInv, DeletedSoFar, AllDeleted, Closing
  <2> QED BY <2>5, <2>6, <2>7 DEF TableInv
<1>4. ASSUME NEW w \in Workers, CreateTable(w) PROVE TableInv'
  BY <1>4 DEF CreateTable, TableInv, NoForgottenTable, HandTracked, DeletedSoFar,
              AllDeleted, Closing, Ids
<1>5. CASE BeginClose
  BY <1>5 DEF BeginClose, TableInv, NoForgottenTable, HandTracked, DeletedSoFar,
              AllDeleted, Closing, Ids
<1>6. CASE DeleteTable
  BY <1>6 DEF DeleteTable, TableInv, NoForgottenTable, HandTracked, DeletedSoFar,
              AllDeleted, Closing, Ids
<1>7. CASE FailDelete
  BY <1>7 DEF FailDelete, TableInv, NoForgottenTable, HandTracked, DeletedSoFar,
              AllDeleted, Closing, Ids
<1>8. CASE EndLoop
  BY <1>8 DEF EndLoop, TableInv, NoForgottenTable, HandTracked, DeletedSoFar,
              AllDeleted, Closing, Ids
<1>9. CASE ClearIds
  BY <1>9 DEF ClearIds, TableInv, NoForgottenTable, HandTracked, DeletedSoFar,
              AllDeleted, Closing, Ids
<1>10. CASE CleanUpUdfs
  BY <1>10, TableFrame DEF CleanUpUdfs, Closing
<1>11. CASE ExpireTable
  BY <1>11 DEF ExpireTable, TableInv, NoForgottenTable, HandTracked, DeletedSoFar,
               AllDeleted, Closing, Ids
<1> QED
  BY <1>1, <1>2, <1>3, <1>4, <1>5, <1>6, <1>7, <1>8, <1>9, <1>10, <1>11
     DEF AnonNext, CreatorOfTable, CloserStep

LEMMA NextHolds == AnonInv /\ [AnonNext]_anonVars => AnonInv'
<1> SUFFICES ASSUME AnonInv, [AnonNext]_anonVars PROVE AnonInv'
  OBVIOUS
<1>1. CASE AnonNext
  BY <1>1, TypingHolds, DatasetHolds, TablesHold DEF AnonInv, DatasetInv, TableInv
<1>2. CASE UNCHANGED anonVars
  BY <1>2 DEF AnonInv, anonVars, AnonTypeOK, Roles, DatasetLookedUpOnce, LockHolder,
              QueryNeeded, NoForgottenTable, HandTracked, DeletedSoFar, AllDeleted,
              Closing, Ids
<1> QED BY <1>1, <1>2

LEMMA AnonInvHolds == AnonSpec => []AnonInv
BY InitHolds, NextHolds, PTL DEF AnonSpec
----------------------------------------------------------------------------
\* Every variable of the manager keeps its type, and a thread has an id in hand
\* exactly while it creates the table.
THEOREM TypesCorrect == AnonSpec => []AnonTypeOK
<1>1. AnonInv => AnonTypeOK
  BY DEF AnonInv
<1> QED BY <1>1, AnonInvHolds, PTL

\* The dataset is looked up at most once, for any number of threads
\* (anonymous_dataset.py 65-76).
THEOREM LookedUpOnce == AnonSpec => []DatasetLookedUpOnce
<1>1. AnonInv => DatasetLookedUpOnce
  BY DEF AnonInv
<1> QED BY <1>1, AnonInvHolds, PTL

\* No table that was created while no close() ran is ever forgotten, for any
\* number of threads, tables, failures and calls of close()
\* (anonymous_dataset.py 116-123 and 171-175).
THEOREM NothingForgotten == AnonSpec => []NoForgottenTable
<1>1. AnonInv => NoForgottenTable
  BY DEF AnonInv
<1> QED BY <1>1, AnonInvHolds, PTL
----------------------------------------------------------------------------
WorkerRoles ==
    /\ \A w \in Workers : bPc[w] \in {"idle"} \cup CreatorPcs
    /\ bPc["closer"] \in {"idle"} \cup CloserSteps

Holder ==
    /\ \A w \in Workers : bPc[w] \in CreatorPcs \ {"lock"} => lock = w
    /\ thread = "query" => lock = "daemon"

Opening ==
    \A w \in Workers :
        /\ bPc[w] \in {"newSession", "publish"} => sessionId = None
        /\ bPc[w] = "build" => sessionId # None
        /\ newId[w] # None <=> bPc[w] = "publish"

Lifecycle ==
    /\ sessionId = None => daemon = "none"
    /\ daemon = "started" <=> thread # "new"
    /\ \A w \in Workers : /\ bPc[w] = "build" => daemon = "none"
                          /\ bPc[w] = "start" => daemon = "built"

\* A close() that found the daemon running is past stop() only when it ended.
Stopping ==
    /\ clean \/ closed => daemon = "started"
    /\ daemon = "none" => bPc["closer"] \notin {"stop", "join"}
    /\ clean /\ bPc["closer"] \in {"readId", "abort"} => thread = "exited"

ResourceInv ==
    /\ ResourceTypeOK /\ WorkerRoles
    /\ Holder /\ Opening /\ Lifecycle /\ Stopping
    /\ OneOpenSession /\ QuietAfterClose

LEMMA ResourceInitHolds == ResourceInit => ResourceInv
<1> SUFFICES ASSUME ResourceInit PROVE ResourceInv
  OBVIOUS
<1> USE WorkersAssumption, NoneAssumption, BqSessionsAssumption DEF ResourceInit
<1>1. ResourceTypeOK
  BY DEF ResourceTypeOK, ThreadPcs
<1>2. WorkerRoles /\ Holder /\ Opening /\ Lifecycle /\ Stopping
  BY DEF WorkerRoles, Holder, Opening, Lifecycle, Stopping, Callers, CreatorPcs,
         CloserSteps
<1>3. OneOpenSession /\ QuietAfterClose
  BY DEF OneOpenSession, QuietAfterClose
<1> QED BY <1>1, <1>2, <1>3 DEF ResourceInv

LEMMA ResourceNextHolds == ResourceInv /\ [ResourceNext]_resourceVars => ResourceInv'
<1> SUFFICES ASSUME ResourceInv, [ResourceNext]_resourceVars PROVE ResourceInv'
  OBVIOUS
<1> USE WorkersAssumption, NoneAssumption, BqSessionsAssumption
        DEF ResourceInv, ResourceTypeOK, WorkerRoles, Holder, Opening, Lifecycle,
            Stopping, OneOpenSession, QuietAfterClose, Callers, CreatorPcs,
            CloserSteps, ThreadPcs, At, ThreadGoto
<1>1. ASSUME NEW w \in Workers, CallCreateInSession(w) PROVE ResourceInv'
  BY <1>1 DEF CallCreateInSession
<1>2. ASSUME NEW w \in Workers, LockForCreate(w) PROVE ResourceInv'
  BY <1>2 DEF LockForCreate
<1>3. ASSUME NEW w \in Workers, ReadSessionId(w) PROVE ResourceInv'
  BY <1>3 DEF ReadSessionId
<1>4. ASSUME NEW w \in Workers, OpenSession(w) PROVE ResourceInv'
  BY <1>4 DEF OpenSession
<1>5. ASSUME NEW w \in Workers, FailOpenSession(w) PROVE ResourceInv'
  BY <1>5 DEF FailOpenSession
<1>6. ASSUME NEW w \in Workers, PublishSessionId(w) PROVE ResourceInv'
  BY <1>6 DEF PublishSessionId
<1>7. ASSUME NEW w \in Workers, BuildDaemon(w) PROVE ResourceInv'
  BY <1>7 DEF BuildDaemon
<1>8. ASSUME NEW w \in Workers, StartDaemon(w) PROVE ResourceInv'
  BY <1>8 DEF StartDaemon
<1>9. ASSUME NEW w \in Workers, RunDdl(w) PROVE ResourceInv'
  BY <1>9 DEF RunDdl
<1>10. CASE WakeUp
  BY <1>10 DEF WakeUp
<1>11. CASE CheckStop
  BY <1>11 DEF CheckStop
<1>12. CASE LockForKeepAlive
  BY <1>12 DEF LockForKeepAlive
<1>13. CASE KeepAlive
  BY <1>13 DEF KeepAlive
<1>14. CASE BeginCloseSession
  BY <1>14 DEF BeginCloseSession
<1>15. CASE StopDaemon
  BY <1>15 DEF StopDaemon
<1>16. CASE JoinDaemon
  BY <1>16 DEF JoinDaemon
<1>17. CASE ReadIdForAbort
  BY <1>17 DEF ReadIdForAbort
<1>18. CASE AbortSession
  <2>1. ResourceTypeOK' /\ WorkerRoles'
    BY <1>18 DEF AbortSession
  <2>2. Holder' /\ Opening' /\ Lifecycle'
    BY <1>18 DEF AbortSession
  <2>3. Stopping' /\ QuietAfterClose'
    BY <1>18 DEF AbortSession
  <2>4. OneOpenSession'
    BY <1>18 DEF AbortSession
  <2> QED BY <2>1, <2>2, <2>3, <2>4
<1>19. CASE FailAbortSession
  <2>1. ResourceTypeOK' /\ WorkerRoles'
    BY <1>19 DEF FailAbortSession
  <2>2. Holder' /\ Opening' /\ Lifecycle'
    BY <1>19 DEF FailAbortSession
  <2>3. Stopping' /\ QuietAfterClose'
    BY <1>19 DEF FailAbortSession
  <2>4. OneOpenSession'
    BY <1>19 DEF FailAbortSession
  <2> QED BY <2>1, <2>2, <2>3, <2>4
<1>20. CASE UNCHANGED resourceVars
  BY <1>20 DEF resourceVars
<1> QED
  BY <1>1, <1>2, <1>3, <1>4, <1>5, <1>6, <1>7, <1>8, <1>9, <1>10, <1>11, <1>12,
     <1>13, <1>14, <1>15, <1>16, <1>17, <1>18, <1>19, <1>20
     DEF ResourceNext, CreatorStep, DaemonStep, CloseSessionStep

LEMMA ResourceInvHolds == ResourceSpec => []ResourceInv
BY ResourceInitHolds, ResourceNextHolds, PTL DEF ResourceSpec
----------------------------------------------------------------------------
\* Every variable of the manager keeps its type.
THEOREM ResourceTypesCorrect == ResourceSpec => []ResourceTypeOK
<1>1. ResourceInv => ResourceTypeOK
  BY DEF ResourceInv
<1> QED BY <1>1, ResourceInvHolds, PTL

\* The BigQuery session runs one query of this manager at a time
\* (bigquery_session.py 66, 69 and 165).
THEOREM SessionExclusive == ResourceSpec => []ExclusiveSession
<1>1. ResourceInv => ExclusiveSession
  BY WorkersAssumption
     DEF ResourceInv, Holder, ExclusiveSession, Querying, CreatorPcs
<1> QED BY <1>1, ResourceInvHolds, PTL

\* The manager never loses track of a BigQuery session it opened, unless the
\* call that opened it raised (bigquery_session.py 132-161).
THEOREM SessionOpenedOnce == ResourceSpec => []OneOpenSession
<1>1. ResourceInv => OneOpenSession
  BY DEF ResourceInv
<1> QED BY <1>1, ResourceInvHolds, PTL

\* After a close() that found the daemon running, the daemon is silent for good
\* (bigquery_session.py 115-117 and 210-214).
THEOREM DaemonQuiet == ResourceSpec => []QuietAfterClose
<1>1. ResourceInv => QuietAfterClose
  BY DEF ResourceInv
<1> QED BY <1>1, ResourceInvHolds, PTL
----------------------------------------------------------------------------
FnRoles ==
    /\ \A w \in Workers : /\ fPc[w] \in {"idle"} \cup DeployPcs
                          /\ target[w] = None <=> fPc[w] = "idle"
                          /\ fPc[w] \in {"endpoint", "createCloud", "specs"} =>
                                CloudOf[target[w]] # None
    /\ fPc["closer"] \in {"idle", "delete"}

CleanUpState ==
    /\ fnLock <=> fPc["closer"] = "delete"
    /\ artifacts \cap Named = {}
    /\ todo \subseteq artifacts
    /\ fPc["closer"] = "idle" => todo = {}

\* What a clean_up(), this one or the next one, will delete.
Doomed == IF fPc["closer"] = "delete" THEN todo ELSE artifacts

RoutinesOwned ==
    \A r \in routines \ Named :
        \/ r \in Doomed
        \/ \E w \in Workers : fPc[w] = "register" /\ target[w] = r
        \/ r \in raised

BackendsOwned ==
    \A c \in backends :
        \/ \E r \in Doomed \cup Named : CloudOf[r] = c
        \/ \E w \in Workers : /\ fPc[w] \in {"specs", "createRoutine", "register"}
                              /\ CloudOf[target[w]] = c
        \/ c \in raised
        \/ c \in deleting \cup undeleted

\* Both parts of a deployment that raised are excused together.
RaisedTogether ==
    \A r \in raised \cap Routines : CloudOf[r] = None \/ CloudOf[r] \in raised

NamedCreated ==
    /\ kept \subseteq routines
    /\ \A w \in Workers :
          fPc[w] = "register" /\ target[w] \in Named => target[w] \in routines

FnInv ==
    /\ FnTypeOK /\ FnRoles /\ CleanUpState
    /\ RoutinesOwned /\ BackendsOwned /\ RaisedTogether /\ NamedCreated

LEMMA FnInitHolds == FnInit => FnInv
BY WorkersAssumption, NoneAssumption, RoutinesAssumption
   DEF FnInit, FnInv, FnTypeOK, FnRoles, CleanUpState, RoutinesOwned, BackendsOwned,
       RaisedTogether, NamedCreated, FnThreads, Doomed

\* The step that takes away a deployment's claim on a cloud function, because
\* the routine is there already, leaves the claim of whoever put it there.
LEMMA ReuseKeepsOwner ==
    ASSUME FnInv, NEW w \in Workers, ReuseRoutine(w)
    PROVE  BackendsOwned'
<1> USE WorkersAssumption, NoneAssumption, RoutinesAssumption
        DEF FnInv, FnTypeOK, FnRoles, FnThreads, DeployPcs, FnAt, cloudVars, deletionVars
<1>1. /\ fPc[w] = "specs" /\ fPc' = [fPc EXCEPT ![w] = "idle"]
      /\ target[w] \in routines
      /\ target' = [target EXCEPT ![w] = None]
      /\ UNCHANGED <<routines, backends, deleting, undeleted, artifacts, todo, raised>>
  BY DEF ReuseRoutine
<1>2. Doomed' = Doomed
  BY <1>1 DEF Doomed
<1> SUFFICES ASSUME NEW c \in backends
             PROVE  \/ \E r \in Doomed \cup Named : CloudOf[r] = c
                    \/ \E v \in Workers :
                          /\ fPc'[v] \in {"specs", "createRoutine", "register"}
                          /\ CloudOf[target'[v]] = c
                    \/ c \in raised
                    \/ c \in deleting \cup undeleted
  BY <1>1, <1>2 DEF BackendsOwned
<1>3. CASE CloudOf[target[w]] # c
  BY <1>1, <1>3 DEF BackendsOwned
<1>4. CASE CloudOf[target[w]] = c
  <2>1. CASE target[w] \in Named \cup Doomed
    BY <1>4, <2>1
  <2>2. CASE \E v \in Workers : fPc[v] = "register" /\ target[v] = target[w]
    BY <1>1, <1>4, <2>2
  <2>3. CASE target[w] \in raised
    BY <1>1, <1>4, <2>3 DEF RaisedTogether
  <2> QED BY <1>1, <2>1, <2>2, <2>3 DEF RoutinesOwned
<1> QED BY <1>3, <1>4

LEMMA DeployHolds ==
    ASSUME FnInv, NEW w \in Workers, Deploy(w) \/ DeployStep(w)
    PROVE  FnInv'
<1> USE WorkersAssumption, NoneAssumption, RoutinesAssumption
        DEF FnInv, FnTypeOK, FnRoles, CleanUpState, FnThreads, DeployPcs, FnAt,
            Raise, Backends, cloudVars, deletionVars
<1>1. CASE Deploy(w)
  BY <1>1 DEF Deploy, RoutinesOwned, BackendsOwned, RaisedTogether, NamedCreated, Doomed
<1>2. CASE GetEndpoint(w)
  BY <1>2 DEF GetEndpoint, RoutinesOwned, BackendsOwned, RaisedTogether, NamedCreated,
              Doomed
<1>3. CASE CreateCloud(w)
  BY <1>3 DEF CreateCloud, RoutinesOwned, BackendsOwned, RaisedTogether, NamedCreated,
              Doomed
<1>4. CASE FailCreateCloud(w)
  BY <1>4 DEF FailCreateCloud, RoutinesOwned, BackendsOwned, RaisedTogether,
              NamedCreated, Doomed
<1>5. CASE ReuseRoutine(w)
  <2>1. BackendsOwned'
    BY <1>5, ReuseKeepsOwner
  <2> QED BY <1>5, <2>1 DEF ReuseRoutine, RoutinesOwned, RaisedTogether, NamedCreated,
                            Doomed
<1>6. CASE NeedsRoutine(w)
  BY <1>6 DEF NeedsRoutine, RoutinesOwned, BackendsOwned, RaisedTogether,
              NamedCreated, Doomed
<1>7. CASE CreateRoutine(w)
  BY <1>7 DEF CreateRoutine, RoutinesOwned, BackendsOwned, RaisedTogether,
              NamedCreated, Doomed
<1>8. CASE FailCreateRoutine(w)
  BY <1>8 DEF FailCreateRoutine, RoutinesOwned, BackendsOwned, RaisedTogether,
              NamedCreated, Doomed
<1>9. CASE Register(w)
  <2> USE <1>9 DEF Register, IsTemp
  <2>1. FnTypeOK' /\ FnRoles' /\ CleanUpState'
    OBVIOUS
  <2>2. RoutinesOwned'
    BY DEF RoutinesOwned, Doomed
  <2>3. BackendsOwned'
    BY DEF BackendsOwned, Doomed
  <2>4. RaisedTogether' /\ NamedCreated'
    BY DEF RaisedTogether, NamedCreated
  <2> QED BY <2>1, <2>2, <2>3, <2>4
<1> QED
  BY <1>1, <1>2, <1>3, <1>4, <1>5, <1>6, <1>7, <1>8, <1>9 DEF DeployStep

LEMMA CleanUpHolds ==
    ASSUME FnInv, BeginCleanUp \/ CleanUpStep
    PROVE  FnInv'
<1> USE WorkersAssumption, NoneAssumption, RoutinesAssumption
        DEF FnInv, FnTypeOK, FnRoles, CleanUpState, FnThreads, DeployPcs, FnAt,
            RoutinesOwned, BackendsOwned, RaisedTogether, NamedCreated, Doomed,
            cloudVars, deletionVars, StartDeletion
<1>1. CASE BeginCleanUp
  BY <1>1 DEF BeginCleanUp
<1>2. CASE DeleteArtifact
  BY <1>2 DEF DeleteArtifact
<1>3. CASE FailDeleteArtifact
  <2>1. PICK r \in todo :
          \/ routines' \in {routines, routines \ {r}} /\ UNCHANGED deleting
          \/ routines' = routines \ {r} /\ StartDeletion(r)
    BY <1>3 DEF FailDeleteArtifact
  <2>2. /\ fPc["closer"] = "delete"
        /\ fPc' = [fPc EXCEPT !["closer"] = "idle"]
        /\ fnLock' = FALSE /\ todo' = {}
        /\ UNCHANGED <<backends, undeleted, artifacts, target, raised, kept>>
    BY <1>3 DEF FailDeleteArtifact
  <2>3. FnTypeOK' /\ FnRoles' /\ CleanUpState'
    BY <2>1, <2>2
  <2>4. RoutinesOwned' /\ RaisedTogether'
    BY <2>1, <2>2
  <2>5. BackendsOwned'
    BY <2>1, <2>2
  <2>6. NamedCreated'
    BY <2>1, <2>2
  <2> QED BY <2>3, <2>4, <2>5, <2>6
<1>4. CASE EndCleanUp
  BY <1>4 DEF EndCleanUp
<1> QED BY <1>1, <1>2, <1>3, <1>4 DEF CleanUpStep

\* Whether a deletion succeeds or fails, what it leaves was one asked for.
LEMMA EndDeletionHolds == ASSUME FnInv, EndDeletion PROVE FnInv'
<1> USE WorkersAssumption, NoneAssumption, RoutinesAssumption
        DEF FnInv, FnTypeOK, FnRoles, CleanUpState, FnThreads, RoutinesOwned,
            BackendsOwned, RaisedTogether, NamedCreated, Doomed
<1>1. ASSUME NEW c \in Backends, FinishDeletion(c) PROVE FnInv'
  BY <1>1 DEF FinishDeletion
<1>2. ASSUME NEW c \in Backends, FailDeletion(c) PROVE FnInv'
  BY <1>2 DEF FailDeletion
<1> QED BY <1>1, <1>2 DEF EndDeletion

LEMMA FnNextHolds == FnInv /\ [FnNext]_fnVars => FnInv'
<1> SUFFICES ASSUME FnInv, [FnNext]_fnVars PROVE FnInv'
  OBVIOUS
<1>1. CASE FnNext
  BY <1>1, DeployHolds, CleanUpHolds, EndDeletionHolds DEF FnNext
<1>2. CASE UNCHANGED fnVars
  BY <1>2 DEF fnVars, cloudVars, deletionVars, FnInv, FnTypeOK, FnRoles, CleanUpState, RoutinesOwned,
              BackendsOwned, RaisedTogether, NamedCreated, Doomed
<1> QED BY <1>1, <1>2

LEMMA FnInvHolds == FnSpec => []FnInv
BY FnInitHolds, FnNextHolds, PTL DEF FnSpec
----------------------------------------------------------------------------
\* Every variable of the function session keeps its type.
THEOREM FnTypesCorrect == FnSpec => []FnTypeOK
<1>1. FnInv => FnTypeOK
  BY DEF FnInv
<1> QED BY <1>1, FnInvHolds, PTL

\* A temporary function that exists is in the artifacts, still being deployed,
\* or part of a deployment that raised; its cloud function may also be one whose
\* deletion clean_up() had started (_function_session.py 195-216, 612-622).
THEOREM FunctionsOwned == FnSpec => []DeployedAreOwned
<1>1. FnInv => DeployedAreOwned
  BY WorkersAssumption, NoneAssumption, RoutinesAssumption
     DEF FnInv, FnTypeOK, FnRoles, CleanUpState, RoutinesOwned, BackendsOwned, Doomed,
         DeployedAreOwned, InFlight, CloudsOf, FnThreads, DeployPcs
<1> QED BY <1>1, FnInvHolds, PTL

\* No clean_up() deletes a function that was deployed under a user's name.
THEOREM NamedSurvive == FnSpec => []NamedFunctionsSurvive
<1>1. FnInv => NamedFunctionsSurvive
  BY DEF FnInv, NamedCreated, NamedFunctionsSurvive
<1> QED BY <1>1, FnInvHolds, PTL
=============================================================================
