----------------------------- MODULE AtomicLoad -----------------------------
(***************************************************************************)
(* What uploading local data to a temporary table promises: the table      *)
(* shows none of the data or all of it, every part exactly once, and the   *)
(* caller gets the table only when it shows all of it.  A caller that gets *)
(* an exception gets no table, whatever it shows.                          *)
(*                                                                         *)
(* The promise is weakened by what the service refuses without the upload  *)
(* noticing: `lost` parts, which are missing from a table that is shown.   *)
(* With no part lost it is the atomic load one expects.                    *)
(***************************************************************************)
EXTENDS Naturals

CONSTANT Parts  \* the parts the data is uploaded in

VARIABLES
    shown,  \* how often each part is visible in the table
    lost,   \* the parts that were refused unnoticed
    status  \* "loading", and in the end "returned" or "raised"

Nothing == [p \in Parts |-> 0]
Accepted == [p \in Parts |-> IF p \in lost THEN 0 ELSE 1]

Init == shown = Nothing /\ lost = {} /\ status = "loading"

\* A part is refused, before anything is visible.
Lose ==
    /\ status = "loading" /\ shown = Nothing
    /\ \E p \in Parts \ lost : lost' = lost \cup {p}
    /\ UNCHANGED <<shown, status>>

\* All that was accepted becomes visible; the caller may hear of it later, or never.
Show ==
    /\ status = "loading" /\ shown = Nothing
    /\ shown' = Accepted
    /\ status' \in {"loading", "returned", "raised"}
    /\ UNCHANGED lost

Return ==
    /\ status = "loading" /\ shown = Accepted
    /\ status' = "returned"
    /\ UNCHANGED <<shown, lost>>

Raise ==
    /\ status = "loading"
    /\ status' = "raised"
    /\ UNCHANGED <<shown, lost>>

Next == Lose \/ Show \/ Return \/ Raise

Spec == Init /\ [][Next]_<<shown, lost, status>>
=============================================================================
