--------------------------- MODULE MCWriteStreams ---------------------------
(* Five batches of one or two rows and three workers: a worker may send one *)
(* batch or several, and the last workers may find the iterator exhausted.  *)
EXTENDS WriteStreams

MCNumRows == [b \in Batches |-> 1 + (b % 2)]
=============================================================================
