---------------------------- MODULE MCIngestion ----------------------------
(***************************************************************************)
(* Small instances of IngestionJobs for TLC.                               *)
(***************************************************************************)
EXTENDS IngestionJobs, TLC

JobSymmetry == Permutations(Job) \cup Permutations(Upload)
=============================================================================
