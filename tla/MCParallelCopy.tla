---------------------------- MODULE MCParallelCopy ----------------------------
(* ParallelCopy on small files: the configurations give the constants. *)
EXTENDS ParallelCopy, TLC
=============================================================================
