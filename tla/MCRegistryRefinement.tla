------------------------ MODULE MCRegistryRefinement ------------------------
(* The instances of MCRegistry, with the history variable.                 *)
EXTENDS MCRegistry, RegistryRefinement
=============================================================================
