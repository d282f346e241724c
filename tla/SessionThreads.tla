--------------------------- MODULE SessionThreads ---------------------------
(***************************************************************************)
(* The threads of a process that share one bigframes session: Workers run  *)
(* the user's code, "closer" is the thread in which Session.close() runs   *)
(* and "daemon" the keep-alive thread.                                     *)
(***************************************************************************)
CONSTANTS
    Workers,    \* the user's threads
    None        \* a value that is nothing else

ASSUME WorkersAssumption ==
    None \notin Workers /\ "closer" \notin Workers /\ "daemon" \notin Workers
ASSUME NoneAssumption == None # "closer" /\ None # "daemon"
=============================================================================
