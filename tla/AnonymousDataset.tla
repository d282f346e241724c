------------------------- MODULE AnonymousDataset -------------------------
(***************************************************************************)
(* The AnonymousDatasetManager of a session (session/anonymous_dataset.py):*)
(* the anonymous dataset is looked up once, behind a double-checked lock;  *)
(* every temporary table or view gets a fresh id that is appended to       *)
(* _table_ids BEFORE the table is created; close() deletes the tables in   *)
(* that list, empties the list, and then tries to clean up old UDFs.       *)
(*                                                                         *)
(* Threads of one process (Workers) allocate tables while another thread   *)
(* (the closer) runs close().  Each action is one step another thread can  *)
(* observe: an API call, an access to a shared attribute, a lock operation.*)
(***************************************************************************)
EXTENDS Naturals, Sequences, SessionThreads

CONSTANTS
    Tables,     \* the ids uuid4 can yield: each is handed out once
    OldUdfs,    \* scalar functions of the dataset older than the threshold
    YoungUdfs   \* routines that are younger, or no scalar functions

ASSUME TablesAssumption == None \notin Tables
ASSUME UdfsAssumption == OldUdfs \cap YoungUdfs = {}

VARIABLES
    dsRef,      \* _datset_ref: FALSE until the dataset was looked up
    dsLock,     \* the holder of _dataset_lock, or None
    dsQueries,  \* how many lookups of the anonymous dataset succeeded
    tableIds,   \* _table_ids
    used,       \* the ids generated so far
    live,       \* the tables that exist in BigQuery
    udfs,       \* the routines that exist in the anonymous dataset
    aPc,        \* where each thread is
    hand,       \* the id a worker is creating a table under
    cursor,     \* the closer's position in its iteration over _table_ids
    racing      \* history: ids whose allocation or creation overlapped a close()

anonVars == <<dsRef, dsLock, dsQueries, tableIds, used, live, udfs, aPc,
              hand, cursor, racing>>

Threads == Workers \cup {"closer"}

\* The ids held in a list.
Ids(s) == {s[i] : i \in 1..Len(s)}

\* A worker is in `allocate` between the dataset lookup and the append, and in
\* `create` between the append and the answer of create_table.
WorkerPcs == {"idle", "dataset", "lock", "check", "query", "allocate", "create"}

\* `delete` is the loop of close(), `clear` the point after its last iteration
\* and before the list is emptied, `dataset` .. `udfs` the UDF clean-up.
CloserPcs == {"idle", "delete", "clear", "dataset", "lock", "check", "query", "udfs"}

AnonTypeOK ==
    /\ dsRef \in BOOLEAN
    /\ dsLock \in Threads \cup {None}
    /\ dsQueries \in Nat
    /\ tableIds \in Seq(Tables)
    /\ used \subseteq Tables
    /\ live \subseteq Tables
    /\ udfs \subseteq OldUdfs \cup YoungUdfs
    /\ aPc \in [Threads -> WorkerPcs \cup CloserPcs]
    /\ hand \in [Workers -> Tables \cup {None}]
    /\ cursor \in Nat
    /\ racing \subseteq Tables
    /\ \A w \in Workers : hand[w] # None <=> aPc[w] = "create"

AnonInit ==
    /\ dsRef = FALSE
    /\ dsLock = None
    /\ dsQueries = 0
    /\ tableIds = <<>>
    /\ used = {}
    /\ live = {}
    /\ udfs = OldUdfs \cup YoungUdfs
    /\ aPc = [t \in Threads |-> "idle"]
    /\ hand = [w \in Workers |-> None]
    /\ cursor = 0
    /\ racing = {}

\* Between the first read of _table_ids in close() and the clear() that ends it.
Closing == aPc["closer"] \in {"delete", "clear"}

----------------------------------------------------------------------------
(* The `dataset` property, run by workers and by the UDF clean-up.         *)

\* Where a thread goes when the property returned.
AfterDataset(t) == IF t = "closer" THEN "udfs" ELSE "allocate"

Goto(t, place) == aPc' = [aPc EXCEPT ![t] = place]

\* Line 67: the unlocked first check.
ReadDataset(t) ==
    /\ aPc[t] = "dataset"
    /\ Goto(t, IF dsRef THEN AfterDataset(t) ELSE "lock")
    /\ UNCHANGED <<dsRef, dsLock, dsQueries, tableIds, used, live, udfs, hand,
                   cursor, racing>>

\* Mutant: the lookup is not guarded by the lock.
EnterUnlocked(t) ==
    /\ aPc[t] = "lock"
    /\ Goto(t, "check")
    /\ UNCHANGED <<dsRef, dsLock, dsQueries, tableIds, used, live, udfs, hand,
                   cursor, racing>>

LockDataset(t) ==
    /\ aPc[t] = "lock"
    /\ dsLock = None
    /\ dsLock' = t
    /\ Goto(t, "check")
    /\ UNCHANGED <<dsRef, dsQueries, tableIds, used, live, udfs, hand, cursor,
                   racing>>

\* Line 70: check again under the lock.
RecheckDataset(t) ==
    /\ aPc[t] = "check"
    /\ Goto(t, IF dsRef THEN AfterDataset(t) ELSE "query")
    /\ dsLock' = IF dsRef THEN None ELSE dsLock
    /\ UNCHANGED <<dsRef, dsQueries, tableIds, used, live, udfs, hand, cursor,
                   racing>>

\* Lines 71-76: look the dataset up, release the lock and return.
LookUpDataset(t) ==
    /\ aPc[t] = "query"
    /\ dsQueries' = dsQueries + 1
    /\ dsRef' = TRUE
    /\ dsLock' = None
    /\ Goto(t, AfterDataset(t))
    /\ UNCHANGED <<tableIds, used, live, udfs, hand, cursor, racing>>

\* The lookup query raises: the `with` releases the lock and the caller fails.
\* In close() the exception is caught and turned into a warning.
FailDataset(t) ==
    /\ aPc[t] = "query"
    /\ dsLock' = None
    /\ Goto(t, "idle")
    /\ UNCHANGED <<dsRef, dsQueries, tableIds, used, live, udfs, hand, cursor,
                   racing>>

DatasetStep(t) ==
    \/ ReadDataset(t) \/ LockDataset(t) \/ RecheckDataset(t)
    \/ LookUpDataset(t) \/ FailDataset(t)
----------------------------------------------------------------------------
(* create_temp_table and create_temp_view: the same steps, another payload.*)

CallCreate(w) ==
    /\ aPc[w] = "idle"
    /\ Goto(w, "dataset")
    /\ UNCHANGED <<dsRef, dsLock, dsQueries, tableIds, used, live, udfs, hand,
                   cursor, racing>>

\* allocate_temp_table: a fresh id, remembered before the table exists.
Allocate(w) ==
    /\ aPc[w] = "allocate"
    /\ \E id \in Tables \ used :
         /\ used' = used \cup {id}
         /\ tableIds' = Append(tableIds, id)
         /\ hand' = [hand EXCEPT ![w] = id]
         /\ racing' = IF Closing THEN racing \cup {id} ELSE racing
    /\ Goto(w, "create")
    /\ UNCHANGED <<dsRef, dsLock, dsQueries, live, udfs, cursor>>

\* Mutant: the id stays in hand after the call.
CreateAndKeepId(w) ==
    /\ aPc[w] = "create"
    /\ live' \in {live, live \cup {hand[w]}}
    /\ Goto(w, "idle")
    /\ UNCHANGED <<dsRef, dsLock, dsQueries, tableIds, used, udfs, hand, cursor,
                   racing>>

\* create_table returns, or raises, with the table created or not: the answer
\* of a call that succeeded may be lost.
CreateTable(w) ==
    /\ aPc[w] = "create"
    /\ live' \in {live, live \cup {hand[w]}}
    /\ hand' = [hand EXCEPT ![w] = None]
    /\ Goto(w, "idle")
    /\ UNCHANGED <<dsRef, dsLock, dsQueries, tableIds, used, udfs, cursor,
                   racing>>

CreatorOfTable(w) == DatasetStep(w) \/ Allocate(w) \/ CreateTable(w)
----------------------------------------------------------------------------
(* close()                                                                 *)

BeginClose ==
    /\ aPc["closer"] = "idle"
    /\ cursor' = 1
    /\ racing' = racing \cup {hand[w] : w \in {v \in Workers : aPc[v] = "create"}}
    /\ Goto("closer", "delete")
    /\ UNCHANGED <<dsRef, dsLock, dsQueries, tableIds, used, live, udfs, hand>>

\* One iteration of the loop, with not_found_ok=True: a table that does not
\* exist is no error.
DeleteTable ==
    /\ aPc["closer"] = "delete"
    /\ cursor \in 1..Len(tableIds)
    /\ live' = live \ {tableIds[cursor]}
    /\ cursor' = cursor + 1
    /\ UNCHANGED <<dsRef, dsLock, dsQueries, tableIds, used, udfs, aPc, hand,
                   racing>>

\* delete_table raises; nothing catches it, so close() ends here.
FailDelete ==
    /\ aPc["closer"] = "delete"
    /\ cursor \in 1..Len(tableIds)
    /\ cursor' = 0
    /\ Goto("closer", "idle")
    /\ UNCHANGED <<dsRef, dsLock, dsQueries, tableIds, used, live, udfs, hand,
                   racing>>

\* Mutant: the loop stops one short of the end.
EndLoopEarly ==
    /\ aPc["closer"] = "delete"
    /\ cursor >= Len(tableIds)
    /\ Goto("closer", "clear")
    /\ UNCHANGED <<dsRef, dsLock, dsQueries, tableIds, used, live, udfs, hand,
                   cursor, racing>>

\* A Python list iterator looks at the length each time, and stops for good
\* the first time it is past the end.
EndLoop ==
    /\ aPc["closer"] = "delete"
    /\ cursor > Len(tableIds)
    /\ Goto("closer", "clear")
    /\ UNCHANGED <<dsRef, dsLock, dsQueries, tableIds, used, live, udfs, hand,
                   cursor, racing>>

ClearIds ==
    /\ aPc["closer"] = "clear"
    /\ tableIds' = <<>>
    /\ cursor' = 0
    /\ Goto("closer", "dataset")
    /\ UNCHANGED <<dsRef, dsLock, dsQueries, used, live, udfs, hand, racing>>

\* _cleanup_old_udfs: each old routine is deleted, or its deletion fails with a
\* warning; a failing listing deletes none.  Nothing is raised out of close().
CleanUpUdfs ==
    /\ aPc["closer"] = "udfs"
    /\ \E gone \in SUBSET (udfs \cap OldUdfs) : udfs' = udfs \ gone
    /\ Goto("closer", "idle")
    /\ UNCHANGED <<dsRef, dsLock, dsQueries, tableIds, used, live, hand, cursor,
                   racing>>

CloserStep ==
    \/ DeleteTable \/ FailDelete \/ EndLoop \/ ClearIds
    \/ DatasetStep("closer") \/ CleanUpUdfs
----------------------------------------------------------------------------
\* A table reaches its expiration, or is dropped by the user.
ExpireTable ==
    /\ \E id \in live : live' = live \ {id}
    /\ UNCHANGED <<dsRef, dsLock, dsQueries, tableIds, used, udfs, aPc, hand,
                   cursor, racing>>

AnonNext ==
    \/ \E w \in Workers : CallCreate(w) \/ CreatorOfTable(w)
    \/ BeginClose \/ CloserStep
    \/ ExpireTable

AnonSpec == AnonInit /\ [][AnonNext]_anonVars
----------------------------------------------------------------------------
\* Every table that exists is still in the list that the next close() deletes,
\* unless a close() ran while it was being created: registration precedes
\* creation, and a close() that raises keeps the list (anonymous_dataset.py
\* 116-123 and 171-175).
NoForgottenTable == live \ racing \subseteq Ids(tableIds)

\* The anonymous dataset is looked up at most once per session, however many
\* threads ask for it first: each lookup is a query that costs a round trip and
\* fires events (anonymous_dataset.py 65-76).
DatasetLookedUpOnce == dsQueries <= 1 /\ (dsRef <=> dsQueries = 1)
=============================================================================
