-------------------------------- MODULE MCChat --------------------------------
(***************************************************************************)
(* Model values and symmetry for ChatSessions.                             *)
(***************************************************************************)
EXTENDS ChatSessions, TLC

ChatSymmetry == Permutations(Session) \cup Permutations(Slot) \cup Permutations(Token)
=============================================================================
