--------------------------- MODULE IngestionAgent ---------------------------
(***************************************************************************)
(* One run of the ingestion agent: the loop of run_agent, the tools that   *)
(* edit the in-memory working registry, and the import of the result.      *)
(*                                                                         *)
(* The model's answers are external: any number of tool calls, well formed *)
(* or not, or a final message. Tool calls and checks run between two       *)
(* awaits, so the cancellation token can only change while the loop waits  *)
(* for an answer.                                                          *)
(***************************************************************************)
EXTENDS RegistryPayload

CONSTANTS Bases,        \* the staging registries a job may start from
          Known,        \* connection ids when the job started
          MaxSteps,     \* settings.llm_max_steps
          MaxCalls      \* bound: tool calls in one answer

ASSUME AgentAssumption ==
    /\ Bases \subseteq Payload
    /\ Known \subseteq Conn
    /\ MaxSteps \in Nat
    /\ MaxCalls \in Nat

Modes == {"replace", "merge"}

VARIABLES base,     \* snap.registry, as loaded before the run
          mode,     \* job.mode
          wr,       \* the working registry
          step,     \* answers asked for so far
          calls,    \* tool calls of the last answer not yet dispatched
          token,    \* CancellationToken
          pc,
          result    \* what is saved to staging

vars == <<base, mode, wr, step, calls, token, pc, result>>

(* A job in replace mode starts from an empty working registry.            *)
Init ==
    /\ base \in Bases
    /\ mode \in Modes
    /\ wr = IF mode = "replace" THEN EmptyRegistry ELSE base
    /\ step = 0
    /\ calls = 0
    /\ token = FALSE
    /\ pc = "loop"
    /\ result = base

-----------------------------------------------------------------------------
(* The tools.                                                              *)

(* Mutant: deletes do not look for referrers.                              *)
EditsUnchecked(p) ==
    LET checked == PutResults(p) \cup MappingResults(p) \cup ImportResults(p)
    IN {q \in checked : Valid(q, Known)} \cup RemoveUnchecked(p)

(* What one call can make of the working registry: put_*, set_asset_mapping*)
(* and import validate the whole of it, delete_* only looks for referrers. *)
Edits(p) ==
    LET checked == PutResults(p) \cup MappingResults(p) \cup ImportResults(p)
    IN {q \in checked : Valid(q, Known)} \cup RemoveResults(p)

-----------------------------------------------------------------------------
(* run_agent.                                                              *)

(* Mutant: steps whose answer is tool calls are not counted.               *)
AskUncounted ==
    /\ pc = "loop"
    /\ pc' = IF token THEN "cancelled" ELSE "asking"
    /\ UNCHANGED <<base, mode, wr, step, calls, token, result>>

(* for step in range(1, max_steps + 1): check the token, ask the model.    *)
Ask ==
    /\ pc = "loop"
    /\ pc' = IF step = MaxSteps THEN "step_cap"
             ELSE IF token THEN "cancelled" ELSE "asking"
    /\ step' = IF pc' = "asking" THEN step + 1 ELSE step
    /\ UNCHANGED <<base, mode, wr, calls, token, result>>

(* While acompletion is awaited.                                           *)
Cancel ==
    /\ pc = "asking"
    /\ token' = TRUE
    /\ UNCHANGED <<base, mode, wr, step, calls, pc, result>>

(* The final message returns without a look at the token.                  *)
Final ==
    /\ pc = "asking"
    /\ pc' = "import"
    /\ UNCHANGED <<base, mode, wr, step, calls, token, result>>

ToolCalls ==
    /\ pc = "asking"
    /\ calls' \in 1..MaxCalls
    /\ pc' = "dispatch"
    /\ UNCHANGED <<base, mode, wr, step, token, result>>

(* The provider fails: litellm raises.                                     *)
ProviderError ==
    /\ pc = "asking"
    /\ pc' = "llm_error"
    /\ UNCHANGED <<base, mode, wr, step, calls, token, result>>

(* Mutant: the tools edit staging itself.                                  *)
DispatchOnStaging ==
    /\ pc = "dispatch"
    /\ calls > 0
    /\ ~token
    /\ wr' \in Edits(wr) \cup {wr}
    /\ result' = wr'
    /\ calls' = calls - 1
    /\ UNCHANGED <<base, mode, step, token, pc>>

(* One call: an edit, or an error (unknown tool, missing argument, a       *)
(* refusal) that is told to the model and leaves the registry alone.       *)
Dispatch ==
    /\ pc = "dispatch"
    /\ calls > 0
    /\ ~token
    /\ wr' \in Edits(wr) \cup {wr}
    /\ calls' = calls - 1
    /\ UNCHANGED <<base, mode, step, token, pc, result>>

(* The arguments cannot be summarised for the report (a registry whose     *)
(* object_types is a number, say). The summary is written before the call  *)
(* is answered and again by the handler of its own failure, which raises   *)
(* out of the loop: the call itself may have edited the registry.          *)
DispatchRaises ==
    /\ pc = "dispatch"
    /\ calls > 0
    /\ ~token
    /\ wr' \in Edits(wr) \cup {wr}
    /\ calls' = calls - 1
    /\ pc' = "llm_error"
    /\ UNCHANGED <<base, mode, step, token, result>>

Aborted ==
    /\ pc = "dispatch"
    /\ calls > 0
    /\ token
    /\ pc' = "cancelled"
    /\ UNCHANGED <<base, mode, wr, step, calls, token, result>>

NextStep ==
    /\ pc = "dispatch"
    /\ calls = 0
    /\ pc' = "loop"
    /\ UNCHANGED <<base, mode, wr, step, calls, token, result>>

(* Mutant: staging is merged over the working registry.                    *)
ImportWorkingUnder ==
    /\ pc = "import"
    /\ LET new == Import(wr, base, mode) IN
         \/ /\ Valid(new, Known)
            /\ result' = new
            /\ pc' = "imported"
         \/ /\ ~Valid(new, Known)
            /\ pc' = "invalid"
            /\ UNCHANGED result
    /\ UNCHANGED <<base, mode, wr, step, calls, token>>

(* run_one_job: import_into_registry(base, wr), validated, then saved.     *)
ImportWorking ==
    /\ pc = "import"
    /\ LET new == Import(base, wr, mode) IN
         \/ /\ Valid(new, Known)
            /\ result' = new
            /\ pc' = "imported"
         \/ /\ ~Valid(new, Known)
            /\ pc' = "invalid"
            /\ UNCHANGED result
    /\ UNCHANGED <<base, mode, wr, step, calls, token>>

Ends == {"imported", "invalid", "cancelled", "step_cap", "llm_error"}

Finished == pc \in Ends /\ UNCHANGED vars

Run == \/ Ask \/ Final \/ ToolCalls \/ ProviderError \/ Dispatch \/ DispatchRaises
       \/ Aborted \/ NextStep \/ ImportWorking

Next == Run \/ Cancel \/ Finished

Spec == Init /\ [][Next]_vars

(* Every call of the model returns or fails: request_timeout_s.            *)
FairSpec == Spec /\ WF_vars(Run)

-----------------------------------------------------------------------------
(* Properties.                                                             *)

TypeOK ==
    /\ base \in Bases
    /\ mode \in Modes
    /\ wr \in Payload
    /\ step \in 0..MaxSteps
    /\ calls \in 0..MaxCalls
    /\ token \in BOOLEAN
    /\ pc \in Ends \cup {"loop", "asking", "dispatch", "import"}
    /\ result \in Payload

StartsValid == mode = "replace" \/ Valid(base, Known)

(* Whatever the model calls, and although deletes skip the validator, a    *)
(* run that starts from nothing or from a valid staging keeps the working  *)
(* registry valid.                                                         *)
WorkingStaysValid ==
    StartsValid => Valid(wr, Known)

(* A definition that the agent deleted, which a merge brings back as it    *)
(* was, and which asks a sort of one that the agent has put anew.          *)
Revived(r) == r \in Present(base) \ Present(wr)

Misfit(r) ==
    \E a \in base.defs[r].agrees : a[1] \in Present(wr) /\ wr.defs[a[1]].sort # a[2]

(* Of a job that started from a valid staging, the import is refused       *)
(* exactly when it merges and revives such a misfit: the merge dangles     *)
(* nothing, binds nothing that is gone and closes no circle of interfaces, *)
(* and a replace is never refused.                                         *)
RefusedOnlyByRevived ==
    StartsValid /\ pc \in {"imported", "invalid"} =>
       (pc = "invalid" <=> mode = "merge" /\ \E r \in Rid : Revived(r) /\ Misfit(r))

(* Staging changes only at the very end, and by nothing but the import: a  *)
(* run that was cancelled, capped or failed has no effect.                 *)
OnlyImportWrites == TypeOK /\ (result # base => pc = "imported")

(* An import writes the whole turn: what the agent left in its copy is in  *)
(* staging as it left it. What it deleted is gone after a replace; after a *)
(* merge, which cannot delete, it is back as it was.                       *)
WholeTurnWritten ==
    pc = "imported" =>
       \A r \in Rid : result.defs[r] = IF mode = "merge" /\ wr.defs[r] = Absent
                                       THEN base.defs[r] ELSE wr.defs[r]

(* The loop ends, however the model answers: llm_max_steps.                *)
RunEnds == <>(pc \in Ends)
=============================================================================
