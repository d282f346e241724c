--------------------------- MODULE MCSnapshotRead ---------------------------
(* Two readers of one session and four versions of the table, with a clock  *)
(* that may be a change behind.                                             *)
EXTENDS SnapshotRead, TLC

ReaderSymmetry == Permutations(Readers)
=============================================================================
