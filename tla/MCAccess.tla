------------------------------- MODULE MCAccess -------------------------------
(***************************************************************************)
(* Values and symmetry for DataAccess.                                     *)
(***************************************************************************)
EXTENDS DataAccess, TLC

(* Tokens and sessions do not touch what connections and queries do, and   *)
(* ids that no row has are tried apart from sessions and queries.          *)
Families == {{"tokens", "sessions"}, {"connections", "queries", "rotation"},
             {"tokens", "unknown"}, {"connections", "unknown"}}

AccessSymmetry == Permutations(Token) \cup Permutations(Cookie) \cup Permutations(Conn)
                  \cup Permutations(Slot)
=============================================================================
