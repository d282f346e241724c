--------------------------- MODULE MCSessionClose ---------------------------
(* Two worker threads that make two calls between them; ids for two tables  *)
(* and two BigQuery sessions, so that a second one could be opened; and     *)
(* four functions: two temporary ones that share a cloud function, one the  *)
(* user named and a managed one.                                            *)
EXTENDS SessionClose

MCCloudOf == [r \in Routines |->
    CASE r \in {"rf", "rf2"} -> "cf" [] r = "named" -> "ncf" [] OTHER -> None]
=============================================================================
