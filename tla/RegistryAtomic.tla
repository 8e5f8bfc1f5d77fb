--------------------------- MODULE RegistryAtomic ---------------------------
(***************************************************************************)
(* What the registry store promises: every request that commits is one     *)
(* atomic step on the three rows. The rows a step overwrites are the       *)
(* current ones. A row it only copies from may be one committed earlier    *)
(* ("past"): reads take no lock.                                           *)
(***************************************************************************)
EXTENDS RegistryPayload

CONSTANTS BlindEdits      \* may an edit start from an earlier staging?

VARIABLES reg,    \* Env -> [payload, version]
          past    \* Env -> the payloads the row has held

Env == {"staging", "production", "previous_production"}

Init ==
    /\ reg = [e \in Env |-> [payload |-> EmptyRegistry, version |-> 0]]
    /\ past = [e \in Env |-> {EmptyRegistry}]

(* Overwrite the rows in the domain of w; each counts the write.           *)
Write(w) ==
    /\ reg' = [e \in Env |-> IF e \in DOMAIN w
                               THEN [payload |-> w[e], version |-> reg[e].version + 1]
                               ELSE reg[e]]
    /\ past' = [e \in Env |-> past[e] \cup {reg'[e].payload}]

Current(e) == reg[e].payload

Bases == IF BlindEdits THEN past["staging"] ELSE {Current("staging")}

(* A validated edit, or the removal of what nothing refers to.             *)
Edit ==
    \E b \in Bases :
       \E p \in RemoveResults(b) \cup
               {q \in PutResults(b) \cup MappingResults(b) \cup ImportResults(b) : WellFormed(q)} :
          Write([e \in {"staging"} |-> p])

(* production <- staging, its backup <- production                         *)
Promote ==
    \E s \in past["staging"] :
       /\ WellFormed(s)
       /\ Write([e \in {"production", "previous_production"} |->
                    IF e = "production" THEN s ELSE Current("production")])

(* staging <- production                                                   *)
Revert == \E p \in past["production"] : Write([e \in {"staging"} |-> p])

(* production <- its backup, and the backup is used up                     *)
Undo ==
    /\ Current("previous_production").version # EmptyVersion
    /\ Write([e \in {"production", "previous_production"} |->
                IF e = "production" THEN Current("previous_production")
                                    ELSE EmptyRegistry])

Next == Edit \/ Promote \/ Revert \/ Undo

Spec == Init /\ [][Next]_<<reg, past>>
=============================================================================
