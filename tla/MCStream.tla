------------------------------ MODULE MCStream ------------------------------
(***************************************************************************)
(* Small instances of TurnStream for TLC.                                  *)
(***************************************************************************)
EXTENDS TurnStream, TLC

(* For the invariants alone: a run that checks StreamsEnd takes none.       *)
ClientSymmetry == Permutations(Client)
=============================================================================
