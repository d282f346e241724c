-------------------------- MODULE CachedEvaluation --------------------------
(***************************************************************************)
(* What an executor with a cache promises.  A call gives the result of its *)
(* expression or an exception.  Meanwhile the results of parts of the      *)
(* expression may be remembered, whatever the outcome, and nothing is      *)
(* forgotten; an expression is forgotten only between calls, with those    *)
(* it is a part of.  What is remembered of an expression is its result.    *)
(***************************************************************************)
CONSTANTS
    Expressions,
    Parts,    \* the expressions an expression consists of, itself among them
    Results,  \* the result of each expression
    Nothing,  \* is remembered of the others
    Idle      \* no expression is running

VARIABLES
    running,  \* the expression of the call
    memory,   \* what is remembered of each expression
    answer    \* of the last call

Init ==
    /\ running = Idle
    /\ memory = [e \in Expressions |-> Nothing]
    /\ answer = "none"

Known(e) == memory[e] # Nothing
Learn(e) == memory' = [memory EXCEPT ![e] = Results[e]]

Begin ==
    /\ running = Idle
    /\ running' \in Expressions
    /\ answer' = "none"
    /\ UNCHANGED memory

\* What is known is answered at once, if it can be read.
Recall ==
    /\ running = Idle /\ \E e \in Expressions : Known(e)
    /\ answer' \in {"right", "raised"}
    /\ UNCHANGED <<running, memory>>

LearnPart ==
    /\ running # Idle
    /\ \E e \in Parts[running] : Learn(e)
    /\ UNCHANGED <<running, answer>>

Answer ==
    /\ running # Idle
    /\ running' = Idle
    /\ answer' = "right"
    /\ UNCHANGED memory \/ Learn(running)

Raise ==
    /\ running # Idle
    /\ running' = Idle
    /\ answer' = "raised"
    /\ UNCHANGED memory

Forget(e) ==
    /\ running = Idle /\ Known(e)
    /\ memory' = [x \in Expressions |-> IF e \in Parts[x] THEN Nothing ELSE memory[x]]
    /\ UNCHANGED <<running, answer>>

Next ==
    \/ Begin \/ Recall \/ LearnPart \/ Answer \/ Raise
    \/ \E e \in Expressions : Forget(e)

Spec == Init /\ [][Next]_<<running, memory, answer>>
=============================================================================
