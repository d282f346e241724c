---------------------------- MODULE SessionClose ----------------------------
(***************************************************************************)
(* A session and the three managers of what it creates in the cloud        *)
(* (session/__init__.py): temporary tables and views, the BigQuery session *)
(* with its keep-alive daemon, and deployed functions.                     *)
(*                                                                         *)
(* Session.close() closes them one after the other; an exception ends it   *)
(* there, with the later managers untouched.  It may be called again.      *)
(* Workers keep using the session meanwhile: nothing marks it as closed.   *)
(***************************************************************************)
EXTENDS AnonymousDataset, SessionResource, FunctionSession

CONSTANT MaxCalls  \* how many calls the users' code makes, all workers together

ASSUME MaxCallsAssumption == MaxCalls \in Nat

VARIABLES
    closePc,  \* the manager that Session.close() is closing, or "idle"
    outcome,  \* how the last close() ended
    calls     \* the number of calls made so far

sessionVars == <<closePc, outcome, calls>>
vars == <<anonVars, resourceVars, fnVars, sessionVars>>

SessionTypeOK ==
    /\ closePc \in {"idle", "tables", "session", "functions"}
    /\ outcome \in {"none", "running", "raised", "returned"}
    /\ calls \in 0..MaxCalls

TypeOK == AnonTypeOK /\ ResourceTypeOK /\ FnTypeOK /\ SessionTypeOK

Init ==
    /\ AnonInit /\ ResourceInit /\ FnInit
    /\ closePc = "idle"
    /\ outcome = "none"
    /\ calls = 0
----------------------------------------------------------------------------
\* A worker runs one call of the session at a time.
Free(w) == aPc[w] = "idle" /\ bPc[w] = "idle" /\ fPc[w] = "idle"

StartCall(w) ==
    /\ Free(w)
    /\ calls < MaxCalls
    /\ calls' = calls + 1
    /\ UNCHANGED <<closePc, outcome>>

\* Session._create_temp_view, and every temporary table of a session with a
\* customer-managed key, go to the anonymous dataset.
AnonWorker(w) ==
    /\ \/ StartCall(w) /\ CallCreate(w)
       \/ CreatorOfTable(w) /\ UNCHANGED sessionVars
    /\ UNCHANGED <<resourceVars, fnVars>>

\* Loaders and the executor create temporary tables in the BigQuery session.
ResourceWorker(w) ==
    /\ \/ StartCall(w) /\ CallCreateInSession(w)
       \/ CreatorStep(w) /\ UNCHANGED sessionVars
    /\ UNCHANGED <<anonVars, fnVars>>

FunctionWorker(w) ==
    /\ \/ StartCall(w) /\ Deploy(w)
       \/ DeployStep(w) /\ UNCHANGED sessionVars
    /\ UNCHANGED <<anonVars, resourceVars>>

KeepAliveDaemon ==
    /\ DaemonStep
    /\ UNCHANGED <<anonVars, fnVars, sessionVars>>

TableExpires ==
    /\ ExpireTable
    /\ UNCHANGED <<resourceVars, fnVars, sessionVars>>

CloudFunctionsService ==
    /\ EndDeletion
    /\ UNCHANGED <<anonVars, resourceVars, sessionVars>>
----------------------------------------------------------------------------
(* Session.close()                                                         *)

\* The manager's close() ended in this step, and close() goes on with the next.
Then(ended, next) ==
    /\ closePc' = IF ended THEN next ELSE closePc
    /\ outcome' = IF ended /\ next = "idle" THEN "returned" ELSE outcome
    /\ UNCHANGED calls

Raised == closePc' = "idle" /\ outcome' = "raised" /\ UNCHANGED calls

CallClose ==
    /\ closePc = "idle"
    /\ BeginClose
    /\ closePc' = "tables"
    /\ outcome' = "running"
    /\ UNCHANGED <<resourceVars, fnVars, calls>>

CloseTables ==
    /\ closePc = "tables"
    /\ \/ FailDelete /\ Raised
       \/ /\ \/ DeleteTable \/ EndLoop \/ ClearIds
             \/ DatasetStep("closer") \/ CleanUpUdfs
          /\ Then(aPc'["closer"] = "idle", "session")
    /\ UNCHANGED <<resourceVars, fnVars>>

CloseBqSession ==
    /\ closePc = "session"
    /\ \/ FailAbortSession /\ Raised
       \/ /\ \/ BeginCloseSession \/ StopDaemon \/ JoinDaemon
             \/ ReadIdForAbort \/ AbortSession
          /\ Then(bPc'["closer"] = "idle", "functions")
    /\ UNCHANGED <<anonVars, fnVars>>

CloseFunctions ==
    /\ closePc = "functions"
    /\ \/ FailDeleteArtifact /\ Raised
       \/ /\ BeginCleanUp \/ DeleteArtifact \/ EndCleanUp
          /\ Then(fPc'["closer"] = "idle", "idle")
    /\ UNCHANGED <<anonVars, resourceVars>>

CloseStep == CloseTables \/ CloseBqSession \/ CloseFunctions

Next ==
    \/ \E w \in Workers : AnonWorker(w) \/ ResourceWorker(w) \/ FunctionWorker(w)
    \/ KeepAliveDaemon
    \/ TableExpires
    \/ CloudFunctionsService
    \/ CallClose \/ CloseStep
----------------------------------------------------------------------------
(***************************************************************************)
(* Fairness: every call to BigQuery or Cloud Functions ends (with an       *)
(* answer or an exception), the interpreter schedules every runnable       *)
(* thread, and a thread waiting for a lock that is released again and      *)
(* again gets it in the end.  Nobody has to start a call.                  *)
(***************************************************************************)
Fairness ==
    /\ \A w \in Workers :
         /\ WF_vars(CreatorOfTable(w) /\ UNCHANGED <<resourceVars, fnVars, sessionVars>>)
         /\ WF_vars(CreatorStep(w) /\ UNCHANGED <<anonVars, fnVars, sessionVars>>)
    /\ WF_vars(KeepAliveDaemon)
    /\ SF_vars(KeepAliveDaemon /\ LockForKeepAlive)
    /\ WF_vars(CloseStep)
    /\ SF_vars(CloseStep /\ LockDataset("closer"))

Spec == Init /\ [][Next]_vars
FairSpec == Spec /\ Fairness
----------------------------------------------------------------------------
\* close() always ends, normally or with an exception: in particular the join()
\* without a timeout never waits for a keep-alive task that waits for the
\* closer (bigquery_session.py 115-117, 165 and 210-214).
CloseEnds == closePc # "idle" ~> closePc = "idle"

InUse == \E w \in Workers : ~Free(w)

\* "Delete resources that were created with this session's session_id. This
\* includes BigQuery tables, remote functions and cloud functions serving the
\* remote functions" (session/__init__.py 397-399), where "the deletion of cloud
\* function happens in a non-blocking way" (tests/system/large/functions/
\* test_remote_function.py 2243-2244): when close() returned and no call is
\* running, every cloud function of the session that is left is being deleted, or
\* a later close() knows it.
CloseDeletesCloudFunctions ==
    outcome = "returned" /\ ~InUse =>
        backends \subseteq CloudsOf(artifacts \cup Named) \cup deleting
=============================================================================
