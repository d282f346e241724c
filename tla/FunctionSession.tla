-------------------------- MODULE FunctionSession --------------------------
(***************************************************************************)
(* The FunctionSession of a session and the FunctionClient it deploys with *)
(* (functions/_function_session.py, functions/_function_client.py).        *)
(*                                                                         *)
(* A remote function is a BigQuery routine served by a cloud function.     *)
(* Its two parts are created one after the other, and only then is the     *)
(* pair entered in _temp_artifacts, which clean_up() deletes when the      *)
(* session closes.  Names are hashes of the definition (and of the session *)
(* id), so that with reuse=True two definitions with the same code share a *)
(* cloud function, and a second deployment finds the first one.            *)
(* A managed function (udf) has a routine and no cloud function.           *)
(*                                                                         *)
(* Deleting a cloud function is a long-running operation.  clean_up()      *)
(* starts it and does not wait: the function still exists when the session *)
(* is closed, and the operation ends later, with or without success.       *)
(***************************************************************************)
EXTENDS SessionThreads

CONSTANTS
    Routines,   \* the function definitions, by the name of their routine
    Named,      \* those deployed under a name the user gave
    CloudOf     \* the cloud function serving each routine; None if managed

Backends == {CloudOf[r] : r \in Routines} \ {None}

ASSUME RoutinesAssumption ==
    /\ None \notin Routines
    /\ Named \subseteq Routines
    /\ Routines \cap Backends = {}
\* The cloud function of a named routine has a name of its own: the session id
\* is part of the other names (_function_client.py 619-623).
ASSUME CloudOfAssumption ==
    \A r \in Routines, q \in Named : CloudOf[r] = CloudOf[q] =>
        r \in Named \/ CloudOf[r] = None

VARIABLES
    routines,   \* the routines that exist in BigQuery
    backends,   \* the cloud functions that exist, those being deleted included
    deleting,   \* the cloud functions whose deletion is under way
    artifacts,  \* _temp_artifacts: the routines it has as keys
    fnLock,     \* _artifacts_lock is held by clean_up
    fPc,        \* where each worker's deployment, and the clean-up, is
    target,     \* the routine each worker deploys
    todo,       \* the artifacts clean_up has still to delete
    raised,     \* history: what a deployment that raised had worked on
    undeleted,  \* history: the cloud functions whose deletion failed
    kept        \* history: the named routines deployed and returned to a user

fnVars == <<routines, backends, deleting, artifacts, fnLock, fPc, target, todo,
            raised, undeleted, kept>>
deletionVars == <<deleting, undeleted>>
cloudVars == <<backends, deletionVars>>

FnThreads == Workers \cup {"closer"}

DeployPcs == {"endpoint", "createCloud", "specs", "createRoutine", "register"}

FnTypeOK ==
    /\ routines \subseteq Routines
    /\ backends \subseteq Backends
    /\ deleting \subseteq backends
    /\ artifacts \subseteq Routines
    /\ fnLock \in BOOLEAN
    /\ fPc \in [FnThreads -> {"idle", "lock", "delete"} \cup DeployPcs]
    /\ target \in [Workers -> Routines \cup {None}]
    /\ todo \subseteq Routines
    /\ raised \subseteq Routines \cup Backends
    /\ undeleted \subseteq backends
    /\ kept \subseteq Named

FnInit ==
    /\ routines = {}
    /\ backends = {}
    /\ deleting = {}
    /\ artifacts = {}
    /\ fnLock = FALSE
    /\ fPc = [t \in FnThreads |-> "idle"]
    /\ target = [w \in Workers |-> None]
    /\ todo = {}
    /\ raised = {}
    /\ undeleted = {}
    /\ kept = {}

FnAt(t, from, to) == fPc[t] = from /\ fPc' = [fPc EXCEPT ![t] = to]

\* A deployment that raises registers nothing.
Raise(w) ==
    /\ raised' = raised \cup ({target[w], CloudOf[target[w]]} \ {None})
    /\ target' = [target EXCEPT ![w] = None]
----------------------------------------------------------------------------
(* remote_function and udf                                                 *)

\* udf() goes straight to CREATE OR REPLACE FUNCTION.
Deploy(w) ==
    /\ fPc[w] = "idle"
    /\ \E r \in Routines :
         /\ target' = [target EXCEPT ![w] = r]
         /\ FnAt(w, "idle", IF CloudOf[r] = None THEN "createRoutine" ELSE "endpoint")
    /\ UNCHANGED <<routines, cloudVars, artifacts, fnLock, todo, raised, kept>>

\* Line 625: an existing cloud function is used as it is.
GetEndpoint(w) ==
    /\ FnAt(w, "endpoint",
            IF CloudOf[target[w]] \in backends THEN "specs" ELSE "createCloud")
    /\ UNCHANGED <<routines, cloudVars, artifacts, fnLock, target, todo, raised,
                   kept>>

\* create_function succeeds, or answers AlreadyExists, which is ignored.
CreateCloud(w) ==
    /\ FnAt(w, "createCloud", "specs")
    /\ backends' = backends \cup {CloudOf[target[w]]}
    /\ UNCHANGED <<routines, deletionVars, artifacts, fnLock, target, todo, raised,
                   kept>>

\* The operation fails, or the endpoint stays unknown for the five minutes of
\* retries; in the second case the cloud function exists.
FailCreateCloud(w) ==
    /\ FnAt(w, "createCloud", "idle")
    /\ backends' \in {backends, backends \cup {CloudOf[target[w]]}}
    /\ Raise(w)
    /\ UNCHANGED <<routines, deletionVars, artifacts, fnLock, todo, kept>>

\* Lines 647-660: with reuse=True a routine that exists with the intended
\* configuration is used as it is, and is not entered in the artifacts.
ReuseRoutine(w) ==
    /\ FnAt(w, "specs", "idle")
    /\ target[w] \in routines
    /\ kept' = kept \cup (Named \cap {target[w]})
    /\ target' = [target EXCEPT ![w] = None]
    /\ UNCHANGED <<routines, cloudVars, artifacts, fnLock, todo, raised>>

\* No such routine (or reuse=False, whose random suffix makes the name new), or
\* a name of the user's whose routine has another configuration.
NeedsRoutine(w) ==
    /\ FnAt(w, "specs", "createRoutine")
    /\ target[w] \notin routines \/ target[w] \in Named
    /\ UNCHANGED <<routines, cloudVars, artifacts, fnLock, target, todo, raised,
                   kept>>

CreateRoutine(w) ==
    /\ FnAt(w, "createRoutine", "register")
    /\ routines' = routines \cup {target[w]}
    /\ UNCHANGED <<cloudVars, artifacts, fnLock, target, todo, raised, kept>>

\* The DDL job raises: the connection is missing, the name is invalid, the user
\* lacks a permission, or the answer of a job that succeeded is lost.
FailCreateRoutine(w) ==
    /\ FnAt(w, "createRoutine", "idle")
    /\ routines' \in {routines, routines \cup {target[w]}}
    /\ Raise(w)
    /\ UNCHANGED <<cloudVars, artifacts, fnLock, todo, kept>>

\* Mutant: named functions are registered too.
AlwaysTemp(r) == r \in Routines

\* Lines 619-622 (remote) and 863-864 (managed): only unnamed functions belong
\* to the session.
IsTemp(r) == r \notin Named

Register(w) ==
    /\ FnAt(w, "register", "idle")
    /\ IsTemp(target[w]) => ~fnLock
    /\ artifacts' = artifacts \cup {r \in {target[w]} : IsTemp(r)}
    /\ kept' = kept \cup (Named \cap {target[w]})
    /\ target' = [target EXCEPT ![w] = None]
    /\ UNCHANGED <<routines, cloudVars, fnLock, todo, raised>>

DeployStep(w) ==
    \/ GetEndpoint(w) \/ CreateCloud(w) \/ FailCreateCloud(w)
    \/ ReuseRoutine(w) \/ NeedsRoutine(w)
    \/ CreateRoutine(w) \/ FailCreateRoutine(w) \/ Register(w)
----------------------------------------------------------------------------
(* clean_up                                                                *)

BeginCleanUp ==
    /\ FnAt("closer", "idle", "delete")
    /\ ~fnLock
    /\ fnLock' = TRUE
    /\ todo' = artifacts
    /\ UNCHANGED <<routines, cloudVars, artifacts, target, raised, kept>>

\* The cloud function of r, if it exists, is being deleted.
StartDeletion(r) == deleting' = deleting \cup (backends \cap {CloudOf[r]})

\* delete_routine, then delete_function: both tolerate what is already gone.  The
\* second only starts the deletion, and nobody waits for its end.
DeleteArtifact ==
    /\ fPc["closer"] = "delete"
    /\ \E r \in todo :
         /\ routines' = routines \ {r}
         /\ StartDeletion(r)
         /\ todo' = todo \ {r}
    /\ UNCHANGED <<backends, undeleted, artifacts, fnLock, fPc, target, raised, kept>>

\* Mutant: the artifacts are forgotten although a deletion raised.
FailAndForget ==
    /\ FnAt("closer", "delete", "idle")
    /\ \E r \in todo : routines' \in {routines, routines \ {r}}
    /\ fnLock' = FALSE
    /\ artifacts' = {}
    /\ todo' = {}
    /\ UNCHANGED <<cloudVars, target, raised, kept>>

\* Either call raises, the second perhaps when the deletion has started: the lock
\* is released, the artifacts stay.
FailDeleteArtifact ==
    /\ FnAt("closer", "delete", "idle")
    /\ \E r \in todo :
         \/ routines' \in {routines, routines \ {r}} /\ UNCHANGED deleting
         \/ routines' = routines \ {r} /\ StartDeletion(r)
    /\ fnLock' = FALSE
    /\ todo' = {}
    /\ UNCHANGED <<backends, undeleted, artifacts, target, raised, kept>>

EndCleanUp ==
    /\ FnAt("closer", "delete", "idle")
    /\ todo = {}
    /\ artifacts' = {}
    /\ fnLock' = FALSE
    /\ UNCHANGED <<routines, cloudVars, target, todo, raised, kept>>

\* Cloud Functions ends a deletion, at any time after it was started ...
FinishDeletion(c) ==
    /\ c \in deleting
    /\ backends' = backends \ {c}
    /\ deleting' = deleting \ {c}
    /\ undeleted' = undeleted \ {c}
    /\ UNCHANGED <<routines, artifacts, fnLock, fPc, target, todo, raised, kept>>

\* ... or gives it up: the operation reports an error, which nobody reads.
FailDeletion(c) ==
    /\ c \in deleting
    /\ deleting' = deleting \ {c}
    /\ undeleted' = undeleted \cup {c}
    /\ UNCHANGED <<routines, backends, artifacts, fnLock, fPc, target, todo, raised,
                   kept>>

EndDeletion == \E c \in Backends : FinishDeletion(c) \/ FailDeletion(c)

CleanUpStep == DeleteArtifact \/ FailDeleteArtifact \/ EndCleanUp

FnNext ==
    \/ \E w \in Workers : Deploy(w) \/ DeployStep(w)
    \/ BeginCleanUp \/ CleanUpStep
    \/ EndDeletion

FnSpec == FnInit /\ [][FnNext]_fnVars
----------------------------------------------------------------------------
\* What the in-flight deployments will register, or hand to the user.
InFlight == {target[w] : w \in Workers} \ {None}

CloudsOf(rs) == {CloudOf[r] : r \in rs}

\* Every temporary routine that exists is in the artifacts that the next
\* clean_up() deletes, or belongs to a deployment that is still running, or to
\* one that raised.  So does every temporary cloud function, unless clean_up()
\* had its deletion started (_function_session.py 204-216): the list is cleared
\* only when that was asked for each of its entries.
DeployedAreOwned ==
    /\ routines \ Named \subseteq artifacts \cup InFlight \cup raised
    /\ backends \subseteq
           CloudsOf(artifacts \cup InFlight \cup Named) \cup raised
             \cup deleting \cup undeleted

\* clean_up() never deletes a function deployed under a user's own name, even
\* one that shares its code with temporary ones (_function_session.py 612-622).
NamedFunctionsSurvive == kept \subseteq routines
=============================================================================
