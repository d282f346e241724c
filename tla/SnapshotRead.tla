---------------------------- MODULE SnapshotRead ----------------------------
(***************************************************************************)
(* GbqDataLoader.read_gbq_table (session/loader.py): a DataFrame over a    *)
(* table reads the table as of a snapshot time, so that it stays the same  *)
(* while others write.  Time and metadata are cached per table, without a  *)
(* lock, and shared by the reads of a session; a query on the table as it  *)
(* is decides whether the index columns are a key.                         *)
(*                                                                         *)
(* One table and one choice of index columns.  BigQuery and the others who *)
(* use the table are external.  Time is counted in changes of the table.   *)
(***************************************************************************)
EXTENDS Naturals, Sequences

CONSTANTS
    Readers,  \* threads reading through one session
    Lag,      \* how far the session's clock is behind BigQuery's, at most
    MaxTime,  \* bound: the changes of the table
    None

ASSUME LagAssumption == Lag \in Nat
ASSUME MaxTimeAssumption == MaxTime \in Nat

VARIABLES
    history,   \* the table after each change
    snapshot,  \* _df_snapshot[table_id]: snapshot time and metadata, or None
    pc,
    useCache,  \* the use_cache of each reader's read
    mine,      \* the reader's own snapshot time and metadata
    frame,     \* what the last read of each reader returned, or will return
    started    \* history: when each read began

readerVars == <<pc, useCache, mine, frame>>
vars == <<history, snapshot, readerVars, started>>

\* `unique`: the index columns are a key; `created`: when this table was created.
Versions == [exists : BOOLEAN, created : Nat \ {0}, unique : BOOLEAN]

\* Of the metadata only the creation time is kept: it tells tables apart that had
\* the same name.
Snapshots == [time : Nat, created : Nat]

\* A frame that does not use time travel reads the table as it is.
Live == 0
Frames == [at : Nat, created : Nat, key : BOOLEAN]
NoFrame == [at |-> Live, created |-> 0, key |-> FALSE]

Now == Len(history)
Table == history[Now]

TypeOK ==
    /\ history \in Seq(Versions)
    /\ snapshot \in Snapshots \cup {None}
    /\ pc \in [Readers -> {"idle", "lookUp", "fetch", "remember", "dryRun", "check"}]
    /\ useCache \in [Readers -> BOOLEAN]
    /\ mine \in [Readers -> Snapshots]
    /\ frame \in [Readers -> Frames]
    /\ started \in [Readers -> Nat]

Init ==
    /\ \E u \in BOOLEAN : history = <<[exists |-> TRUE, created |-> 1, unique |-> u]>>
    /\ snapshot = None
    /\ pc = [r \in Readers |-> "idle"]
    /\ useCache = [r \in Readers |-> TRUE]
    /\ mine = [r \in Readers |-> [time |-> 0, created |-> 0]]
    /\ frame = [r \in Readers |-> NoFrame]
    /\ started = [r \in Readers |-> 0]
----------------------------------------------------------------------------
(* What others do to the table.                                            *)

Change(version) ==
    /\ Now < MaxTime
    /\ history' = Append(history, version)
    /\ UNCHANGED <<snapshot, readerVars, started>>

Write ==
    /\ Table.exists
    /\ \E u \in BOOLEAN : Change([Table EXCEPT !.unique = u])

\* CREATE OR REPLACE TABLE, or a table of the same name after a DROP.
Create ==
    \E u \in BOOLEAN : Change([exists |-> TRUE, created |-> Now + 1, unique |-> u])

Drop ==
    /\ Table.exists
    /\ Change([Table EXCEPT !.exists = FALSE])
----------------------------------------------------------------------------
(* read_gbq_table                                                          *)

Goto(r, from, to) == pc[r] = from /\ pc' = [pc EXCEPT ![r] = to]

\* The clock of the session was synchronized once, with a query whose answer took
\* a while: since then it is behind by that while.
ClockTimes == {t \in 1..Now : Now <= t + Lag}

\* Line 765: the time is taken before anything is known of the table.
Read(r) ==
    /\ Goto(r, "idle", "lookUp")
    /\ \E c \in BOOLEAN : useCache' = [useCache EXCEPT ![r] = c]
    /\ \E t \in ClockTimes : mine' = [mine EXCEPT ![r] = [time |-> t, created |-> 0]]
    /\ frame' = [frame EXCEPT ![r] = NoFrame]
    /\ started' = [started EXCEPT ![r] = Now]
    /\ UNCHANGED <<history, snapshot>>

\* Mutant: a reader that may use the cache takes what is there.
LookUpUnchecked(r) ==
    /\ Goto(r, "lookUp", IF useCache[r] THEN "dryRun" ELSE "fetch")
    /\ mine' = IF useCache[r] THEN [mine EXCEPT ![r] = snapshot] ELSE mine
    /\ UNCHANGED <<history, snapshot, useCache, frame, started>>

\* Lines 1017-1019 and 1057.
LookUp(r) ==
    LET hit == useCache[r] /\ snapshot # None
    IN  /\ Goto(r, "lookUp", IF hit THEN "dryRun" ELSE "fetch")
        /\ mine' = IF hit THEN [mine EXCEPT ![r] = snapshot] ELSE mine
        /\ UNCHANGED <<history, snapshot, useCache, frame, started>>

Later(s, t) == IF s < t THEN t ELSE s

\* Mutant: the time is not moved to the creation of the table.
FetchWithoutClamp(r) ==
    /\ Goto(r, "fetch", "remember")
    /\ Table.exists
    /\ mine' = [mine EXCEPT ![r].created = Table.created]
    /\ UNCHANGED <<history, snapshot, useCache, frame, started>>

\* get_table, and "make sure it is at least table creation time".
FetchMetadata(r) ==
    /\ Goto(r, "fetch", "remember")
    /\ Table.exists
    /\ mine' = [mine EXCEPT ![r] = [time |-> Later(@.time, Table.created),
                                    created |-> Table.created]]
    /\ UNCHANGED <<history, snapshot, useCache, frame, started>>

\* Mutant: the entry is replaced only when there is none, and then read back.
RememberIfAbsent(r) ==
    /\ Goto(r, "remember", "dryRun")
    /\ snapshot' = IF snapshot = None THEN mine[r] ELSE snapshot
    /\ mine' = [mine EXCEPT ![r] = snapshot']
    /\ UNCHANGED <<history, useCache, frame, started>>

\* Lines 1085-1087.
Remember(r) ==
    /\ Goto(r, "remember", "dryRun")
    /\ snapshot' = mine[r]
    /\ UNCHANGED <<history, useCache, mine, frame, started>>

\* A query as of time t finds the table of that time when that is the one that is
\* there now.  One that was replaced it may find or not; after DROP it finds none.
Answers(t) ==
    IF ~Table.exists \/ ~history[t].exists THEN {FALSE}
    ELSE IF history[t].created = Table.created THEN {TRUE}
    ELSE BOOLEAN

\* is_time_travel_eligible: without an answer the frame does not use time travel.
\* The check follows when index columns were asked for, no primary key is declared
\* and the session orders its rows.
DryRun(r) ==
    /\ \E place \in {"check", "idle"} : Goto(r, "dryRun", place)
    /\ \E found \in Answers(mine[r].time) :
         frame' = [frame EXCEPT ![r] =
            [at |-> IF found THEN mine[r].time ELSE Live,
             created |-> mine[r].created, key |-> FALSE]]
    /\ UNCHANGED <<history, snapshot, useCache, mine, started>>

\* check_if_index_columns_are_unique has no time-travel clause.
CheckUnique(r) ==
    /\ Goto(r, "check", "idle")
    /\ Table.exists
    /\ frame' = [frame EXCEPT ![r].key = Table.unique]
    /\ UNCHANGED <<history, snapshot, useCache, mine, started>>

\* The read raises, or its arguments make it go another way: it runs a query for
\* max_results, only estimates for dry_run, or reads the table as it is for
\* enable_snapshot=False.
EndEarly(r) ==
    /\ \E from \in {"fetch", "dryRun", "check"} : Goto(r, from, "idle")
    /\ frame' = [frame EXCEPT ![r] = NoFrame]
    /\ UNCHANGED <<history, snapshot, useCache, mine, started>>

ReadStep(r) ==
    \/ Read(r) \/ LookUp(r) \/ FetchMetadata(r) \/ Remember(r) \/ DryRun(r)
    \/ CheckUnique(r) \/ EndEarly(r)

Next == Write \/ Create \/ Drop \/ \E r \in Readers : ReadStep(r)

Spec == Init /\ [][Next]_vars
----------------------------------------------------------------------------
\* A table is created at time 1 or later.
IsFrame(r) == frame[r].created # 0
Snapshotted(r) == frame[r].at # Live

\* A frame reads the very table its metadata describe: not one that had the same
\* name at the snapshot time, however far the clock is behind and whichever read
\* left the entry in the cache (loader.py 1077-1086).
FrameReadsItsTable ==
    \A r \in Readers : Snapshotted(r) =>
        /\ frame[r].at \in 1..Now
        /\ history[frame[r].at].exists
        /\ history[frame[r].at].created = frame[r].created

\* A frame that was to use time travel does without only when the table was
\* dropped or replaced after its metadata were fetched: just having been created
\* is no reason (loader.py 1077-1083).
LiveOnlyIfReplaced ==
    \A r \in Readers :
        IsFrame(r) /\ ~Snapshotted(r) =>
            \E t \in 1..Now : t > frame[r].created /\
                (~history[t].exists \/ history[t].created # frame[r].created)

\* With use_cache=False a frame is not older than the clock's lag, whatever
\* entries other reads make meanwhile ("To read the latest version, set
\* use_cache=False", loader.py 1043-1046).
UncachedReadsAreFresh ==
    \A r \in Readers : Snapshotted(r) /\ ~useCache[r] =>
        started[r] <= frame[r].at + Lag

\* "A total ordering is enforced" (loader.py 715-718): the key that a snapshot
\* frame is ordered by is a key of the rows it reads.
KeyOfTheSnapshot ==
    \A r \in Readers : Snapshotted(r) /\ frame[r].key => history[frame[r].at].unique
=============================================================================
