------------------------- MODULE SessionCloseProofs -------------------------
(***************************************************************************)
(* A session's use of its three managers is a behaviour of each of them:   *)
(* every step of the composed specification is a step of a manager or      *)
(* leaves its variables alone.  What the managers' own proofs establish    *)
(* therefore holds of the session, whatever its workers interleave and     *)
(* however often close() raises half-way and is called again.              *)
(***************************************************************************)
EXTENDS SessionClose, SessionManagersProofs

LEMMA AnonStep == [Next]_vars => [AnonNext]_anonVars
<1> SUFFICES ASSUME [Next]_vars PROVE [AnonNext]_anonVars
  OBVIOUS
<1>1. ASSUME NEW w \in Workers, AnonWorker(w) PROVE AnonNext
  BY <1>1 DEF AnonWorker, AnonNext
<1>2. ASSUME NEW w \in Workers, ResourceWorker(w) \/ FunctionWorker(w)
      PROVE  UNCHANGED anonVars
  BY <1>2 DEF ResourceWorker, FunctionWorker
<1>3. CASE KeepAliveDaemon
  BY <1>3 DEF KeepAliveDaemon
<1>4. CASE TableExpires \/ CallClose \/ CloseTables
  BY <1>4 DEF TableExpires, CallClose, CloseTables, AnonNext, CloserStep
<1>5. CASE CloseBqSession \/ CloseFunctions \/ CloudFunctionsService
  BY <1>5 DEF CloseBqSession, CloseFunctions, CloudFunctionsService
<1>6. CASE UNCHANGED vars
  BY <1>6 DEF vars
<1> QED BY <1>1, <1>2, <1>3, <1>4, <1>5, <1>6 DEF Next, CloseStep

LEMMA ResourceStep == [Next]_vars => [ResourceNext]_resourceVars
<1> SUFFICES ASSUME [Next]_vars PROVE [ResourceNext]_resourceVars
  OBVIOUS
<1>1. ASSUME NEW w \in Workers, ResourceWorker(w) PROVE ResourceNext
  BY <1>1 DEF ResourceWorker, ResourceNext
<1>2. ASSUME NEW w \in Workers, AnonWorker(w) \/ FunctionWorker(w)
      PROVE  UNCHANGED resourceVars
  BY <1>2 DEF AnonWorker, FunctionWorker
<1>3. CASE KeepAliveDaemon \/ CloseBqSession
  BY <1>3 DEF KeepAliveDaemon, CloseBqSession, ResourceNext, CloseSessionStep
<1>4. CASE \/ TableExpires \/ CallClose \/ CloseTables \/ CloseFunctions
           \/ CloudFunctionsService
  BY <1>4 DEF TableExpires, CallClose, CloseTables, CloseFunctions,
              CloudFunctionsService
<1>5. CASE UNCHANGED vars
  BY <1>5 DEF vars
<1> QED BY <1>1, <1>2, <1>3, <1>4, <1>5 DEF Next, CloseStep

LEMMA FnStep == [Next]_vars => [FnNext]_fnVars
<1> SUFFICES ASSUME [Next]_vars PROVE [FnNext]_fnVars
  OBVIOUS
<1>1. ASSUME NEW w \in Workers, FunctionWorker(w) PROVE FnNext
  BY <1>1 DEF FunctionWorker, FnNext
<1>2. ASSUME NEW w \in Workers, AnonWorker(w) \/ ResourceWorker(w)
      PROVE  UNCHANGED fnVars
  BY <1>2 DEF AnonWorker, ResourceWorker
<1>3. CASE CloseFunctions \/ CloudFunctionsService
  BY <1>3 DEF CloseFunctions, CloudFunctionsService, FnNext, CleanUpStep
<1>4. CASE KeepAliveDaemon \/ TableExpires \/ CallClose \/ CloseTables \/ CloseBqSession
  BY <1>4 DEF KeepAliveDaemon, TableExpires, CallClose, CloseTables, CloseBqSession
<1>5. CASE UNCHANGED vars
  BY <1>5 DEF vars
<1> QED BY <1>1, <1>2, <1>3, <1>4, <1>5 DEF Next, CloseStep
----------------------------------------------------------------------------
\* The session implements the specification of each manager.
THEOREM SessionImplementsManagers == Spec => AnonSpec /\ ResourceSpec /\ FnSpec
<1>1. Init => AnonInit /\ ResourceInit /\ FnInit
  BY DEF Init
<1> QED
  BY <1>1, AnonStep, ResourceStep, FnStep, PTL
     DEF Spec, AnonSpec, ResourceSpec, FnSpec

\* The part of the type invariant that is the session's own.
LEMMA SessionTypes == Spec => []SessionTypeOK
<1>1. Init => SessionTypeOK
  BY MaxCallsAssumption DEF Init, SessionTypeOK
<1>2. SessionTypeOK /\ [Next]_vars => SessionTypeOK'
  <2> SUFFICES ASSUME SessionTypeOK, [Next]_vars PROVE SessionTypeOK'
    OBVIOUS
  <2> USE DEF SessionTypeOK
  <2>1. ASSUME NEW w \in Workers, StartCall(w) PROVE SessionTypeOK'
    BY <2>1, MaxCallsAssumption DEF StartCall
  <2>2. ASSUME NEW w \in Workers, AnonWorker(w) \/ ResourceWorker(w) \/ FunctionWorker(w)
        PROVE  SessionTypeOK'
    BY <2>1, <2>2 DEF AnonWorker, ResourceWorker, FunctionWorker, sessionVars
  <2>3. CASE KeepAliveDaemon \/ TableExpires \/ CloudFunctionsService
    BY <2>3 DEF KeepAliveDaemon, TableExpires, CloudFunctionsService, sessionVars
  <2>4. CASE CallClose \/ CloseTables \/ CloseBqSession \/ CloseFunctions
    BY <2>4 DEF CallClose, CloseTables, CloseBqSession, CloseFunctions, Then, Raised
  <2>5. CASE UNCHANGED vars
    BY <2>5 DEF vars, sessionVars
  <2> QED BY <2>2, <2>3, <2>4, <2>5 DEF Next, CloseStep
<1> QED BY <1>1, <1>2, PTL DEF Spec

\* Type correctness of a session with its three managers.
THEOREM SessionTypesCorrect == Spec => []TypeOK
BY SessionImplementsManagers, TypesCorrect, ResourceTypesCorrect, FnTypesCorrect,
   SessionTypes, PTL DEF TypeOK

\* In a session, for any number of worker threads, calls and failures: no table
\* is forgotten, the dataset is looked up once, the BigQuery session is opened
\* once, used by one thread at a time and quiet after close(), and every temporary
\* function is owned, unless its deletion was started or its deployment raised.
THEOREM SessionSafe ==
    Spec => [](/\ NoForgottenTable /\ DatasetLookedUpOnce
               /\ ExclusiveSession /\ OneOpenSession /\ QuietAfterClose
               /\ DeployedAreOwned /\ NamedFunctionsSurvive)
BY SessionImplementsManagers, NothingForgotten, LookedUpOnce, SessionExclusive,
   SessionOpenedOnce, DaemonQuiet, FunctionsOwned, NamedSurvive, PTL
=============================================================================
