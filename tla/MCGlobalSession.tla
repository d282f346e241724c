--------------------------- MODULE MCGlobalSession ---------------------------
(* Two threads, one of which imported the module; the calls they make are    *)
(* bounded, and so are the sessions they can open.                           *)
EXTENDS GlobalSession
=============================================================================
