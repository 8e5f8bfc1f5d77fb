------------------------- MODULE RegistryRefinement -------------------------
(***************************************************************************)
(* RegistryTxn implements RegistryAtomic. The detailed rows are the        *)
(* abstract rows; the abstract "past" is a history variable added here.    *)
(***************************************************************************)
EXTENDS RegistryTxn

VARIABLE past

HInit == Init /\ past = [e \in Env |-> {EmptyRegistry}]

HNext == Next /\ past' = [e \in Env |-> past[e] \cup {reg'[e].payload}]

HSpec == HInit /\ [][HNext]_<<vars, past>>

HFairSpec == HSpec /\ Fairness

Atomic == INSTANCE RegistryAtomic WITH reg <- reg, past <- past

(* Statement by statement, with locks, stale loads, aborted and crashed    *)
(* transactions, the requests amount to the atomic steps of the promise.   *)
ImplementsAtomic == Atomic!Spec
=============================================================================
