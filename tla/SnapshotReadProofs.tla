------------------------- MODULE SnapshotReadProofs -------------------------
(***************************************************************************)
(* What a snapshot frame reads, for any number of readers, any lag of the  *)
(* clock and any history of the table.                                     *)
(*                                                                         *)
(* The invariant says of the history that the versions of one table follow *)
(* each other, and of every pair of time and metadata that a read holds or *)
(* that is in the cache, that the metadata are of the table at that time.  *)
(***************************************************************************)
EXTENDS SnapshotRead, TLAPS

\* The versions from a table's creation to any version of it are versions of it,
\* and while it exists it has existed all along.
Lineage ==
    /\ Now >= 1
    /\ \A t \in 1..Now : history[t].created \in 1..t
    /\ \A t \in 1..Now : \A u \in history[t].created..t :
         /\ history[u].created = history[t].created
         /\ history[t].exists => history[u].exists

\* The metadata of s are of the table that is there at its time.
Matches(s) ==
    /\ s.time \in 1..Now
    /\ s.created <= s.time
    /\ history[s.time].created = s.created
    /\ history[s.time].exists

Fetched == {"remember", "dryRun"}

Pairs ==
    /\ snapshot # None => Matches(snapshot)
    /\ \A r \in Readers : pc[r] \in {"lookUp", "fetch"} => mine[r].time \in 1..Now
    /\ \A r \in Readers : pc[r] \in Fetched => Matches(mine[r])

FreshPairs ==
    \A r \in Readers :
        pc[r] \in {"lookUp", "fetch"} \/ (pc[r] \in Fetched /\ ~useCache[r]) =>
            started[r] <= mine[r].time + Lag

IInv ==
    /\ TypeOK /\ Lineage /\ Pairs /\ FreshPairs
    /\ FrameReadsItsTable /\ LiveOnlyIfReplaced /\ UncachedReadsAreFresh

USE DEF Fetched, Live, NoFrame, IsFrame, Snapshotted

LEMMA InitIInv == Init => IInv
<1> SUFFICES ASSUME Init PROVE IInv
  OBVIOUS
<1>1. PICK u \in BOOLEAN : history = <<[exists |-> TRUE, created |-> 1, unique |-> u]>>
  BY DEF Init
<1>2. history \in Seq(Versions) /\ Now = 1 /\ history[1] = [exists |-> TRUE, created |-> 1, unique |-> u]
  BY <1>1 DEF Versions, Now
<1>3. TypeOK
  BY <1>2 DEF Init, TypeOK, Snapshots, Frames
<1>4. Lineage
  BY <1>2 DEF Lineage
<1>5. Pairs /\ FreshPairs /\ FrameReadsItsTable /\ LiveOnlyIfReplaced /\ UncachedReadsAreFresh
  BY DEF Init, Pairs, FreshPairs, FrameReadsItsTable, LiveOnlyIfReplaced, UncachedReadsAreFresh
<1> QED BY <1>3, <1>4, <1>5 DEF IInv

----------------------------------------------------------------------------
\* A change adds a version and leaves the older ones as they were.
LEMMA ChangeGrows ==
    ASSUME TypeOK, NEW v \in Versions, Change(v)
    PROVE  /\ history' \in Seq(Versions)
           /\ Now \in Nat /\ Now' = Now + 1
           /\ history'[Now + 1] = v
           /\ \A t \in 1..Now : history'[t] = history[t]
BY DEF TypeOK, Change, Now

\* Whatever the change, what held of pairs and frames goes on holding.
LEMMA ChangeKeepsReads ==
    ASSUME IInv, NEW v \in Versions, Change(v)
    PROVE  (TypeOK /\ Pairs /\ FreshPairs /\ FrameReadsItsTable /\ LiveOnlyIfReplaced /\ UncachedReadsAreFresh)'
<1> USE DEF IInv
<1>0. /\ history' \in Seq(Versions) /\ Now \in Nat /\ Now' = Now + 1
      /\ \A t \in 1..Now : t \in 1..Now' /\ history'[t] = history[t]
  BY ChangeGrows
<1>1. TypeOK'
  BY <1>0 DEF Change, TypeOK, readerVars
<1>2. ASSUME NEW s, Matches(s) PROVE Matches(s)'
  BY <1>0, <1>2 DEF Matches
<1>3. Pairs'
  <2>1. snapshot' # None => Matches(snapshot)'
    BY <1>2 DEF Pairs, Change
  <2>2. ASSUME NEW r \in Readers, pc'[r] \in {"lookUp", "fetch"} PROVE mine'[r].time \in 1..Now'
    BY <1>0, <2>2 DEF Pairs, Change, readerVars
  <2>3. ASSUME NEW r \in Readers, pc'[r] \in Fetched PROVE Matches(mine[r])' /\ mine' = mine
    BY <1>2, <2>3 DEF Pairs, Change, readerVars
  <2> QED BY <2>1, <2>2, <2>3 DEF Pairs, Matches
<1>4. FreshPairs' /\ UncachedReadsAreFresh'
  BY DEF FreshPairs, UncachedReadsAreFresh, Change, readerVars
<1>5. FrameReadsItsTable'
  BY <1>0 DEF FrameReadsItsTable, Change, readerVars
<1>6. LiveOnlyIfReplaced'
  <2> SUFFICES ASSUME NEW r \in Readers, IsFrame(r), ~Snapshotted(r)
               PROVE  \E t \in 1..Now' : t > frame[r].created /\
                        (~history'[t].exists \/ history'[t].created # frame[r].created)
    BY DEF LiveOnlyIfReplaced, Change, readerVars
  <2>1. PICK t \in 1..Now : t > frame[r].created /\
                (~history[t].exists \/ history[t].created # frame[r].created)
    BY DEF LiveOnlyIfReplaced
  <2> QED BY <1>0, <2>1
<1> QED BY <1>1, <1>3, <1>4, <1>5, <1>6

\* A version of the table that was there, or of a new one, continues the history.
LEMMA ChangeKeepsLineage ==
    ASSUME IInv, NEW v \in Versions, Change(v),
           \/ v.created = Table.created /\ (v.exists => Table.exists)
           \/ v.created = Now + 1
    PROVE  Lineage'
<1> USE ChangeGrows DEF IInv
<1>1. \A t \in 1..Now' : t \in 1..Now \/ t = Now + 1
  OBVIOUS
<1>2. \A t \in 1..Now' : history'[t].created \in 1..t
  BY <1>1 DEF Lineage, Table
<1>3. ASSUME NEW t \in 1..Now', NEW u \in history'[t].created..t
      PROVE  /\ history'[u].created = history'[t].created
             /\ history'[t].exists => history'[u].exists
  <2>1. CASE t \in 1..Now
    <3>1. u \in 1..Now /\ u \in history[t].created..t
      BY <2>1, <1>2
    <3> QED BY <2>1, <3>1 DEF Lineage
  <2>2. CASE t = Now + 1 /\ u = t
    BY <2>2
  <2>3. CASE t = Now + 1 /\ u # t
    <3>1. v.created = Table.created /\ (v.exists => Table.exists)
      BY <2>3
    <3>2. u \in 1..Now /\ u \in history[Now].created..Now
      BY <2>3, <3>1, <1>2 DEF Table
    <3> QED BY <2>3, <3>1, <3>2 DEF Lineage, Table
  <2> QED BY <1>1, <2>1, <2>2, <2>3
<1> QED BY <1>2, <1>3 DEF Lineage

LEMMA TableTyped ==
    ASSUME TypeOK, Lineage
    PROVE  Now \in Nat /\ Table \in Versions
BY DEF TypeOK, Lineage, Now, Table

LEMMA ChangeStep == IInv /\ (Write \/ Create \/ Drop) => IInv'
<1> SUFFICES ASSUME IInv, Write \/ Create \/ Drop PROVE IInv'
  OBVIOUS
<1> USE TableTyped DEF IInv
<1>1. CASE Write
  <2>1. PICK u \in BOOLEAN : Change([Table EXCEPT !.unique = u])
    BY <1>1 DEF Write
  <2> DEFINE v == [Table EXCEPT !.unique = u]
  <2>2. v \in Versions /\ v.created = Table.created /\ v.exists = Table.exists
    BY DEF Versions
  <2> HIDE DEF v
  <2> QED BY <2>1, <2>2, ChangeKeepsReads, ChangeKeepsLineage DEF v
<1>2. CASE Create
  <2>1. PICK u \in BOOLEAN : Change([exists |-> TRUE, created |-> Now + 1, unique |-> u])
    BY <1>2 DEF Create
  <2>2. [exists |-> TRUE, created |-> Now + 1, unique |-> u] \in Versions
    BY DEF Versions
  <2> QED BY <2>1, <2>2, ChangeKeepsReads, ChangeKeepsLineage
<1>3. CASE Drop
  <2> DEFINE v == [Table EXCEPT !.exists = FALSE]
  <2>1. v \in Versions /\ v.created = Table.created /\ ~v.exists
    BY DEF Versions
  <2>2. Change(v)
    BY <1>3 DEF Drop
  <2> HIDE DEF v
  <2> QED BY <2>1, <2>2, ChangeKeepsReads, ChangeKeepsLineage
<1> QED BY <1>1, <1>2, <1>3
----------------------------------------------------------------------------
\* The steps of a read leave the table as it is.
LEMMA HistoryStays ==
    ASSUME UNCHANGED history
    PROVE  /\ Now' = Now /\ Table' = Table
           /\ Lineage => Lineage'
           /\ \A s : Matches(s) <=> Matches(s)'
BY DEF Now, Table, Lineage, Matches

\* Where a pair is fetched, the clamp makes it match the table.
LEMMA FetchMatches ==
    ASSUME IInv, Table.exists, NEW t \in 1..Now,
           NEW s, s = [time |-> Later(t, Table.created), created |-> Table.created]
    PROVE  Matches(s) /\ s \in Snapshots /\ s.time >= t
<1> USE TableTyped DEF IInv
<1>1. Table.created \in 1..Now
  BY DEF Lineage, Table
<1>2. Later(t, Table.created) \in Table.created..Now /\ Later(t, Table.created) >= t
  BY <1>1 DEF Later
<1>3. history[Later(t, Table.created)].created = Table.created /\ history[Later(t, Table.created)].exists
  BY <1>1, <1>2 DEF Lineage, Table
<1> QED BY <1>1, <1>2, <1>3 DEF Matches, Snapshots

\* A query as of the time of a matching pair goes unanswered only when the table
\* was dropped or replaced since.
LEMMA UnansweredMatch ==
    ASSUME IInv, NEW s \in Snapshots, Matches(s), FALSE \in Answers(s.time)
    PROVE  \E t \in 1..Now : t > s.created /\ (~history[t].exists \/ history[t].created # s.created)
<1> USE TableTyped DEF IInv
<1>1. ~Table.exists \/ Table.created # s.created
  BY DEF Answers, Matches
<1>2. s.time # Now
  BY <1>1 DEF Matches, Table
<1>3. Now \in 1..Now /\ Now > s.created
  BY <1>2 DEF Matches, Snapshots
<1> QED BY <1>1, <1>3 DEF Table

LEMMA ReadKeeps ==
    ASSUME IInv, NEW r \in Readers, ReadStep(r)
    PROVE  IInv'
<1> USE HistoryStays, TableTyped, LagAssumption DEF IInv
<1>1. CASE Read(r)
  <2>1. PICK t \in ClockTimes : mine' = [mine EXCEPT ![r] = [time |-> t, created |-> 0]]
    BY <1>1 DEF Read
  <2>2. t \in 1..Now /\ Now <= t + Lag
    BY <2>1 DEF ClockTimes
  <2>3. TypeOK'
    <3>1. mine' \in [Readers -> Snapshots]
      BY <2>1, <2>2 DEF TypeOK, Snapshots
    <3> QED
      BY <1>1, <3>1 DEF Read, Goto, TypeOK, Snapshots, Frames
  <2>4. Pairs'
    BY <1>1, <2>1, <2>2 DEF Read, Goto, TypeOK, Pairs
  <2>6. FreshPairs'
    BY <1>1, <2>1, <2>2 DEF Read, Goto, TypeOK, FreshPairs
  <2>5. (FrameReadsItsTable /\ LiveOnlyIfReplaced /\ UncachedReadsAreFresh)'
    BY <1>1 DEF Read, Goto, TypeOK, FrameReadsItsTable, LiveOnlyIfReplaced, UncachedReadsAreFresh
  <2> QED BY <1>1, <2>3, <2>4, <2>5, <2>6 DEF Read
<1>2. CASE LookUp(r)
  <2>1. TypeOK'
    BY <1>2 DEF LookUp, Goto, TypeOK
  <2>2. Pairs' /\ FreshPairs'
    BY <1>2 DEF LookUp, Goto, TypeOK, Pairs, FreshPairs
  <2>3. (FrameReadsItsTable /\ LiveOnlyIfReplaced /\ UncachedReadsAreFresh)'
    BY <1>2 DEF LookUp, FrameReadsItsTable, LiveOnlyIfReplaced, UncachedReadsAreFresh
  <2> QED BY <1>2, <2>1, <2>2, <2>3 DEF LookUp
<1>3. CASE FetchMetadata(r)
  <2> DEFINE s == [time |-> Later(mine[r].time, Table.created), created |-> Table.created]
  <2>1. mine[r].time \in 1..Now /\ started[r] <= mine[r].time + Lag
    BY <1>3 DEF FetchMetadata, Goto, Pairs, FreshPairs
  <2>2. Matches(s) /\ s \in Snapshots /\ s.time >= mine[r].time
    BY <1>3, <2>1, FetchMatches DEF FetchMetadata
  <2>3. mine' = [mine EXCEPT ![r] = s]
    BY <1>3 DEF FetchMetadata
  <2> HIDE DEF s
  <2>4. TypeOK'
    BY <1>3, <2>2, <2>3 DEF FetchMetadata, Goto, TypeOK
  <2>5. Pairs'
    BY <1>3, <2>1, <2>2, <2>3 DEF FetchMetadata, Goto, TypeOK, Pairs, Snapshots
  <2>7. FreshPairs'
    BY <1>3, <2>1, <2>2, <2>3 DEF FetchMetadata, Goto, TypeOK, FreshPairs, Snapshots
  <2>6. (FrameReadsItsTable /\ LiveOnlyIfReplaced /\ UncachedReadsAreFresh)'
    BY <1>3 DEF FetchMetadata, FrameReadsItsTable, LiveOnlyIfReplaced, UncachedReadsAreFresh
  <2> QED BY <1>3, <2>4, <2>5, <2>6, <2>7 DEF FetchMetadata
<1>4. CASE Remember(r)
  <2>1. TypeOK'
    BY <1>4 DEF Remember, Goto, TypeOK
  <2>2. Pairs' /\ FreshPairs'
    BY <1>4 DEF Remember, Goto, TypeOK, Pairs, FreshPairs
  <2>3. (FrameReadsItsTable /\ LiveOnlyIfReplaced /\ UncachedReadsAreFresh)'
    BY <1>4 DEF Remember, FrameReadsItsTable, LiveOnlyIfReplaced, UncachedReadsAreFresh
  <2> QED BY <1>4, <2>1, <2>2, <2>3 DEF Remember
<1>5. CASE DryRun(r)
  <2>1. PICK found \in Answers(mine[r].time) :
            frame' = [frame EXCEPT ![r] = [at |-> IF found THEN mine[r].time ELSE 0,
                                           created |-> mine[r].created, key |-> FALSE]]
    BY <1>5 DEF DryRun
  <2>2. found \in BOOLEAN /\ mine[r] \in Snapshots /\ Matches(mine[r])
    BY <1>5 DEF DryRun, Goto, Answers, Pairs, TypeOK
  <2>3. TypeOK'
    BY <1>5, <2>1, <2>2 DEF DryRun, Goto, TypeOK, Snapshots, Frames
  <2>4. Pairs' /\ FreshPairs'
    BY <1>5 DEF DryRun, Goto, TypeOK, Pairs, FreshPairs
  <2>5. FrameReadsItsTable'
    BY <1>5, <2>1, <2>2 DEF DryRun, TypeOK, FrameReadsItsTable, Matches, Snapshots
  <2>6. LiveOnlyIfReplaced'
    <3>1. ~found => \E t \in 1..Now : t > mine[r].created /\
                (~history[t].exists \/ history[t].created # mine[r].created)
      BY <2>1, <2>2, UnansweredMatch
    <3>2. found => mine[r].time # 0
      BY <2>2 DEF Matches
    <3> QED BY <1>5, <2>1, <2>2, <3>1, <3>2 DEF DryRun, TypeOK, LiveOnlyIfReplaced
  <2>7. UncachedReadsAreFresh'
    <3>1. ~useCache[r] => started[r] <= mine[r].time + Lag
      BY <1>5 DEF DryRun, Goto, FreshPairs
    <3> QED BY <1>5, <2>1, <3>1 DEF DryRun, TypeOK, UncachedReadsAreFresh
  <2> QED BY <1>5, <2>3, <2>4, <2>5, <2>6, <2>7 DEF DryRun
<1>6. CASE CheckUnique(r)
  <2>1. frame' = [frame EXCEPT ![r].key = Table.unique] /\ Table.unique \in BOOLEAN
    BY <1>6 DEF CheckUnique, Versions
  <2>2. TypeOK'
    <3>1. frame[r] \in Frames /\ [frame[r] EXCEPT !.key = Table.unique] \in Frames
      BY <2>1 DEF TypeOK, Frames
    <3>2. frame' \in [Readers -> Frames]
      BY <2>1, <3>1 DEF TypeOK
    <3> QED BY <1>6, <3>2 DEF CheckUnique, Goto, TypeOK
  <2>3. Pairs' /\ FreshPairs'
    BY <1>6 DEF CheckUnique, Goto, TypeOK, Pairs, FreshPairs
  <2>4. \A q \in Readers : frame'[q].at = frame[q].at /\ frame'[q].created = frame[q].created
    BY <2>1 DEF TypeOK, Frames
  <2>5. FrameReadsItsTable' /\ UncachedReadsAreFresh'
    BY <1>6, <2>4 DEF CheckUnique, FrameReadsItsTable, UncachedReadsAreFresh
  <2>6. LiveOnlyIfReplaced'
    BY <1>6, <2>4 DEF CheckUnique, LiveOnlyIfReplaced
  <2> QED BY <1>6, <2>2, <2>3, <2>5, <2>6 DEF CheckUnique
<1>7. CASE EndEarly(r)
  <2>1. TypeOK'
    BY <1>7 DEF EndEarly, Goto, TypeOK, Frames
  <2>2. Pairs' /\ FreshPairs'
    BY <1>7 DEF EndEarly, Goto, TypeOK, Pairs, FreshPairs
  <2>3. (FrameReadsItsTable /\ LiveOnlyIfReplaced /\ UncachedReadsAreFresh)'
    BY <1>7 DEF EndEarly, TypeOK, FrameReadsItsTable, LiveOnlyIfReplaced, UncachedReadsAreFresh
  <2> QED BY <1>7, <2>1, <2>2, <2>3 DEF EndEarly
<1> QED BY <1>1, <1>2, <1>3, <1>4, <1>5, <1>6, <1>7 DEF ReadStep

THEOREM IInvHolds == Spec => []IInv
<1>1. IInv /\ [Next]_vars => IInv'
  <2> SUFFICES ASSUME IInv, [Next]_vars PROVE IInv'
    OBVIOUS
  <2>1. CASE Write \/ Create \/ Drop
    BY <2>1, ChangeStep
  <2>2. CASE \E r \in Readers : ReadStep(r)
    BY <2>2, ReadKeeps
  <2>3. CASE UNCHANGED vars
    BY <2>3 DEF vars, readerVars, IInv, TypeOK, Lineage, Pairs, FreshPairs, Matches, Now,
        FrameReadsItsTable, LiveOnlyIfReplaced, UncachedReadsAreFresh
  <2> QED BY <2>1, <2>2, <2>3 DEF Next
<1> QED BY InitIInv, <1>1, PTL DEF Spec
----------------------------------------------------------------------------
\* The variables keep their types: in particular the pair a read takes from the
\* cache is one, although the cache has no lock (loader.py 1017-1019).
THEOREM ReadTypesCorrect == Spec => []TypeOK
BY IInvHolds, PTL DEF IInv

\* A snapshot frame reads the table its metadata describe (loader.py 1077-1086).
THEOREM ReadsItsTable == Spec => []FrameReadsItsTable
BY IInvHolds, PTL DEF IInv

\* A table that was just created is read with time travel (loader.py 1077-1083).
THEOREM TravelsUnlessReplaced == Spec => []LiveOnlyIfReplaced
BY IInvHolds, PTL DEF IInv

\* use_cache=False is as fresh as the clock, under any race for the cache.
THEOREM UncachedFresh == Spec => []UncachedReadsAreFresh
BY IInvHolds, PTL DEF IInv
=============================================================================
