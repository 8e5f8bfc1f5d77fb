------------------------ MODULE IngestionAgentProofs ------------------------
(***************************************************************************)
(* Theorems about IngestionAgent, for every staging a job may start from,  *)
(* every definition and import the model may send, and any step limit.     *)
(***************************************************************************)
EXTENDS IngestionAgent, TLAPS

-----------------------------------------------------------------------------
(* What the tools make of a registry.                                      *)

LEMMA EmptyIsValid == EmptyRegistry \in Payload /\ Valid(EmptyRegistry, Known)
<1>1. EmptyRegistry \in Payload
  BY DEF EmptyRegistry, Payload, Label, EmptyVersion
<1>2. Present(EmptyRegistry) = {}
  BY DEF EmptyRegistry, Present
<1>. QED BY <1>1, <1>2 DEF Valid, WellFormed, Resolved, Agreeing, Acyclic, Bindings

LEMMA ImportIsPayload ==
  ASSUME NEW p \in Payload, NEW q \in Payload, NEW m
  PROVE  Import(p, q, m) \in Payload
BY DEF Import, Merge, Payload

LEMMA EditsArePayloads ==
  ASSUME NEW p \in Payload
  PROVE  Edits(p) \subseteq Payload
<1>1. ASSUME NEW r \in Rid, NEW d \in Definition PROVE Put(p, r, d) \in Payload
  BY DefinitionAssumption DEF Put, Payload
<1>2. ASSUME NEW r \in Present(p), NEW c \in Conn \cup {Unbound}
      PROVE  Bind(p, r, c) \in Payload
  <2>1. r \in Rid /\ [p.defs[r] EXCEPT !.conn = c] \in Stored
    BY DEF Present, Payload, Stored
  <2>2. Bind(p, r, c) = [p EXCEPT !.defs = [p.defs EXCEPT ![r] = [p.defs[r] EXCEPT !.conn = c]]]
    BY DEF Bind
  <2>. QED BY <2>1, <2>2 DEF Payload
<1>3. ASSUME NEW r \in Rid PROVE Remove(p, r) \in Payload
  BY DEF Remove, Payload
<1>4. ASSUME NEW q \in PutResults(p) \cup MappingResults(p) \cup ImportResults(p)
      PROVE  q \in Payload
  BY <1>1, <1>2, <1>4, ImportIsPayload, IncomingAssumption
  DEF PutResults, MappingResults, ImportResults
<1>. QED BY <1>3, <1>4 DEF Edits, RemoveResults

(* Every tool leaves a valid registry valid, although deletes only look    *)
(* for referrers.                                                          *)
LEMMA EditsStayValid ==
  ASSUME NEW p \in Payload, Valid(p, Known), NEW q \in Edits(p)
  PROVE  Valid(q, Known)
<1>1. CASE Valid(q, Known)
  BY <1>1
<1>2. CASE q \in RemoveResults(p)
  <2>1. PICK r \in Rid : Referrers(p, r) = {} /\ q = Remove(p, r)
    BY <1>2 DEF RemoveResults
  <2>2. q.defs[r] = Absent /\ \A s \in Rid \ {r} : q.defs[s] = p.defs[s]
    BY <2>1 DEF Remove, Payload
  <2>3. Present(q) = Present(p) \ {r}
    BY <2>2 DEF Present
  <2>4. \A s \in Present(p) : r \notin p.defs[s].refs
    BY <2>1 DEF Referrers
  <2>5. WellFormed(q)
    <3>1. Present(p) \subseteq Rid
      BY DEF Present
    <3>2. \A s \in Present(q) : s \in Present(p) /\ q.defs[s] = p.defs[s]
      BY <2>2, <2>3, <3>1
    <3>3. Resolved(q)
      BY <2>3, <2>4, <3>2 DEF Valid, WellFormed, Resolved
    <3>4. Agreeing(q) /\ Acyclic(q)
      BY <2>3, <3>2 DEF Valid, WellFormed, Agreeing, Acyclic
    <3>. QED BY <3>3, <3>4 DEF WellFormed
  <2>6. Bindings(q) \subseteq Bindings(p)
    BY <2>2, <2>3 DEF Bindings, Present
  <2>. QED BY <2>5, <2>6 DEF Valid
<1>. QED BY <1>1, <1>2 DEF Edits

(* What a merge of q over p has, and from where.                           *)
LEMMA MergedFrom ==
  ASSUME NEW p, NEW q
  PROVE  /\ Present(Merge(p, q)) = Present(p) \cup Present(q)
         /\ \A r \in Present(q) : Merge(p, q).defs[r] = q.defs[r]
         /\ \A r \in Present(p) \ Present(q) : Merge(p, q).defs[r] = p.defs[r]
<1>1. \A r \in Rid : Merge(p, q).defs[r] = IF r \in Present(q) THEN q.defs[r] ELSE p.defs[r]
  BY DEF Merge
<1>. QED BY <1>1 DEF Present

(* What a definition asks a sort of, it refers to.                         *)
LEMMA AgreesAreRefs ==
  ASSUME NEW p \in Payload, Resolved(p), NEW r \in Present(p), NEW a \in p.defs[r].agrees
  PROVE  a[1] \in Present(p)
<1>1. p.defs[r] \in Stored
  BY DEF Present, Payload
<1>2. a[1] \in p.defs[r].refs
  BY <1>1 DEF Stored
<1>. QED BY <1>2 DEF Resolved

(* No circle: q's own definitions ask nothing of those it lacks, so that a *)
(* circle would be all of q's or all of p's.                               *)
LEMMA MergeIsAcyclic ==
  ASSUME NEW p \in Payload, NEW q \in Payload, WellFormed(p), WellFormed(q)
  PROVE  Acyclic(Merge(p, q))
<1> DEFINE m == Merge(p, q)
<1>1. /\ Present(m) = Present(p) \cup Present(q)
      /\ \A r \in Present(q) : m.defs[r] = q.defs[r]
      /\ \A r \in Present(p) \ Present(q) : m.defs[r] = p.defs[r]
  BY MergedFrom
<1>2. ASSUME NEW S \in SUBSET Present(m), S # {}
      PROVE  \E r \in S : \A a \in m.defs[r].agrees : a[1] \notin S
  <2>1. CASE S \cap Present(q) # {}
    <3>1. PICK r \in S \cap Present(q) : \A a \in q.defs[r].agrees : a[1] \notin S \cap Present(q)
      BY <2>1 DEF WellFormed, Acyclic
    <3>2. \A a \in q.defs[r].agrees : a[1] \in Present(q)
      BY AgreesAreRefs DEF WellFormed
    <3>. QED BY <1>1, <3>1, <3>2
  <2>2. CASE S \cap Present(q) = {}
    <3>1. S \in SUBSET Present(p) /\ \A r \in S : m.defs[r] = p.defs[r]
      BY <1>1, <2>2
    <3>2. PICK r \in S : \A a \in p.defs[r].agrees : a[1] \notin S
      BY <1>2, <3>1 DEF WellFormed, Acyclic
    <3>. QED BY <3>1, <3>2
  <2>. QED BY <2>1, <2>2
<1>. QED BY <1>2 DEF Acyclic

(* Merging one valid registry over another yields a valid one, unless a    *)
(* definition that only the old one has asks another sort of one that the  *)
(* new one has put.                                                        *)
LEMMA MergeIsValid ==
  ASSUME NEW p \in Payload, NEW q \in Payload, Valid(p, Known), Valid(q, Known)
  PROVE  Valid(Merge(p, q), Known) <=>
            ~ \E r \in Present(p) \ Present(q) : \E a \in p.defs[r].agrees :
                 a[1] \in Present(q) /\ q.defs[a[1]].sort # a[2]
<1> DEFINE m == Merge(p, q)
           Fits(r) == \A a \in p.defs[r].agrees : a[1] \in Present(q) => q.defs[a[1]].sort = a[2]
<1>1. /\ Present(m) = Present(p) \cup Present(q)
      /\ \A r \in Present(q) : m.defs[r] = q.defs[r]
      /\ \A r \in Present(p) \ Present(q) : m.defs[r] = p.defs[r]
  BY MergedFrom
<1>2. WellFormed(p) /\ WellFormed(q)
  BY DEF Valid
<1>3. Resolved(m)
  BY <1>1, <1>2 DEF WellFormed, Resolved
<1>4. Acyclic(m)
  BY <1>2, MergeIsAcyclic
<1>5. Bindings(m) \subseteq Known
  <2>1. Bindings(m) \subseteq Bindings(p) \cup Bindings(q)
    BY <1>1 DEF Bindings
  <2>. QED BY <2>1 DEF Valid
<1>6. ASSUME NEW r \in Present(q), NEW a \in m.defs[r].agrees
      PROVE  m.defs[a[1]].sort = a[2]
  <2>1. a \in q.defs[r].agrees
    BY <1>1, <1>6
  <2>2. a[1] \in Present(q)
    BY <1>2, <2>1, AgreesAreRefs DEF WellFormed
  <2>. QED BY <1>1, <1>2, <2>1, <2>2 DEF WellFormed, Agreeing
<1>7. ASSUME NEW r \in Present(p) \ Present(q), NEW a \in p.defs[r].agrees
      PROVE  /\ a[1] \in Present(p)
             /\ a[1] \notin Present(q) => m.defs[a[1]].sort = a[2]
             /\ a[1] \in Present(q) => m.defs[a[1]] = q.defs[a[1]]
  <2>1. a[1] \in Present(p)
    BY <1>2, AgreesAreRefs DEF WellFormed
  <2>. QED BY <1>1, <1>2, <2>1 DEF WellFormed, Agreeing
<1>8. Agreeing(m) <=> \A r \in Present(p) \ Present(q) : Fits(r)
  <2>1. ASSUME \A r \in Present(p) \ Present(q) : Fits(r),
               NEW r \in Present(m), NEW a \in m.defs[r].agrees
        PROVE  m.defs[a[1]].sort = a[2]
    <3>1. CASE r \in Present(q)
      BY <1>6, <2>1, <3>1
    <3>2. CASE r \in Present(p) \ Present(q)
      BY <1>1, <1>7, <2>1, <3>2
    <3>. QED BY <1>1, <3>1, <3>2
  <2>2. ASSUME Agreeing(m), NEW r \in Present(p) \ Present(q), NEW a \in p.defs[r].agrees,
               a[1] \in Present(q)
        PROVE  q.defs[a[1]].sort = a[2]
    <3>1. r \in Present(m) /\ a \in m.defs[r].agrees /\ a[1] \in Present(m)
      BY <1>1, <2>2
    <3>2. m.defs[a[1]].sort = a[2]
      BY <2>2, <3>1 DEF Agreeing
    <3>. QED BY <1>7, <2>2, <3>2
  <2>. QED BY <2>1, <2>2 DEF Agreeing
<1>. QED BY <1>3, <1>4, <1>5, <1>8 DEF Valid, WellFormed

-----------------------------------------------------------------------------
(* The run.                                                                *)

(* What is written is the import of the working registry, once, at the     *)
(* end; it is refused exactly when it is not valid.                        *)
RunInv ==
    /\ TypeOK
    /\ WorkingStaysValid
    /\ pc = "invalid" => ~Valid(Import(base, wr, mode), Known)
    /\ pc # "imported" => result = base
    /\ pc = "imported" => /\ result = Import(base, wr, mode)
                          /\ Valid(Import(base, wr, mode), Known)

LEMMA RunInductive ==
  /\ Init => RunInv
  /\ RunInv /\ [Next]_vars => RunInv'
<1>1. ASSUME Init PROVE RunInv
  <2>1. base \in Payload /\ base \in Bases /\ mode \in Modes
    BY <1>1, AgentAssumption DEF Init
  <2>2. /\ mode = "replace" => wr = EmptyRegistry
        /\ mode # "replace" => wr = base
    BY <1>1 DEF Init
  <2>3. wr \in Payload /\ (StartsValid => Valid(wr, Known))
    BY <2>1, <2>2, EmptyIsValid DEF StartsValid
  <2>4. step = 0 /\ calls = 0 /\ token = FALSE /\ pc = "loop" /\ result = base
    BY <1>1 DEF Init
  <2>5. step \in 0..MaxSteps /\ calls \in 0..MaxCalls
    BY <2>4, AgentAssumption
  <2>. QED BY <2>1, <2>3, <2>4, <2>5 DEF RunInv, TypeOK, WorkingStaysValid
<1>2. ASSUME RunInv, [Next]_vars PROVE RunInv'
  <2>1. CASE UNCHANGED vars
    BY <1>2, <2>1 DEF vars, RunInv, TypeOK, WorkingStaysValid, StartsValid
  <2>2. CASE Dispatch \/ DispatchRaises
    <3>1. /\ wr \in Payload /\ wr' \in Edits(wr) \cup {wr}
          /\ UNCHANGED <<base, mode, step, token, result>> /\ calls' \in 0..MaxCalls
          /\ pc = "dispatch" /\ pc' \in {"dispatch", "llm_error"}
      BY <1>2, <2>2, AgentAssumption DEF Dispatch, DispatchRaises, RunInv, TypeOK
    <3>2. wr' \in Payload
      BY <3>1, EditsArePayloads
    <3>3. Valid(wr, Known) => Valid(wr', Known)
      BY <3>1, EditsStayValid
    <3>. QED BY <1>2, <3>1, <3>2, <3>3 DEF RunInv, TypeOK, WorkingStaysValid, StartsValid, Ends
  <2>3. CASE ImportWorking
    <3> DEFINE new == Import(base, wr, mode)
    <3>1. /\ UNCHANGED <<base, mode, wr, step, calls, token>>
          /\ \/ Valid(new, Known) /\ result' = new /\ pc' = "imported"
             \/ ~Valid(new, Known) /\ result' = result /\ pc' = "invalid"
      BY <2>3 DEF ImportWorking
    <3>2. new \in Payload
      BY <1>2, ImportIsPayload, AgentAssumption DEF RunInv, TypeOK
    <3>3. result = base
      BY <1>2, <2>3 DEF ImportWorking, RunInv
    <3> HIDE DEF new
    <3>4. TypeOK'
      BY <1>2, <3>1, <3>2 DEF RunInv, TypeOK, Ends
    <3>5. WorkingStaysValid'
      BY <1>2, <3>1 DEF RunInv, WorkingStaysValid, StartsValid
    <3>. QED BY <3>1, <3>3, <3>4, <3>5 DEF RunInv, new
  <2>4. CASE Ask
    BY <1>2, <2>4, AgentAssumption DEF Ask, RunInv, TypeOK, WorkingStaysValid, StartsValid, Ends
  <2>5. CASE Cancel \/ Final \/ ToolCalls \/ ProviderError \/ Aborted \/ NextStep
    <3>1. /\ UNCHANGED <<base, mode, wr, step, result>> /\ calls' \in 0..MaxCalls
          /\ token' \in BOOLEAN /\ pc # "imported"
          /\ pc' \in {"asking", "import", "dispatch", "llm_error", "cancelled", "loop"}
      <4>1. /\ calls \in 0..MaxCalls /\ 1..MaxCalls \subseteq 0..MaxCalls /\ token \in BOOLEAN
        BY <1>2, AgentAssumption DEF RunInv, TypeOK
      <4>2. CASE Cancel
        BY <4>1, <4>2 DEF Cancel
      <4>3. CASE ToolCalls
        BY <4>1, <4>3 DEF ToolCalls
      <4>4. CASE Final \/ ProviderError \/ Aborted \/ NextStep
        BY <4>1, <4>4 DEF Final, ProviderError, Aborted, NextStep
      <4>. QED BY <2>5, <4>2, <4>3, <4>4
    <3>. QED BY <1>2, <3>1 DEF RunInv, TypeOK, WorkingStaysValid, StartsValid, Ends
  <2>. QED BY <1>2, <2>1, <2>2, <2>3, <2>4, <2>5 DEF Next, Run, Finished
<1>. QED BY <1>1, <1>2

(* Whatever the model calls, the working registry stays valid if the job   *)
(* starts from nothing or from a valid staging.                            *)
THEOREM WorkingIsValid == Spec => []WorkingStaysValid
<1>1. RunInv => WorkingStaysValid
  BY DEF RunInv
<1>. QED BY <1>1, RunInductive, PTL DEF Spec

(* The import of a job that started from a valid staging is refused        *)
(* exactly when its merge revives a definition that asks another sort of   *)
(* one the agent has put.                                                  *)
THEOREM OnlyRevivedRefuse == Spec => []RefusedOnlyByRevived
<1>1. ASSUME RunInv, StartsValid
      PROVE  Valid(Import(base, wr, mode), Known) <=>
                ~ (mode = "merge" /\ \E r \in Rid : Revived(r) /\ Misfit(r))
  <2>1. base \in Payload /\ wr \in Payload /\ Valid(wr, Known) /\ mode \in {"replace", "merge"}
    BY <1>1, AgentAssumption DEF RunInv, TypeOK, WorkingStaysValid, Modes
  <2>2. CASE mode = "replace"
    BY <2>1, <2>2 DEF Import
  <2>3. CASE mode = "merge"
    <3>1. Valid(base, Known)
      BY <1>1, <2>3 DEF StartsValid
    <3>2. Valid(Merge(base, wr), Known) <=>
             ~ \E r \in Present(base) \ Present(wr) : Misfit(r)
      BY <2>1, <3>1, MergeIsValid DEF Misfit
    <3>3. Present(base) \subseteq Rid
      BY DEF Present
    <3>. QED BY <2>3, <3>2, <3>3 DEF Import, Revived
  <2>. QED BY <2>1, <2>2, <2>3
<1>2. RunInv => RefusedOnlyByRevived
  BY <1>1 DEF RunInv, RefusedOnlyByRevived
<1>. QED BY <1>2, RunInductive, PTL DEF Spec

(* Only the import writes: a run that is cancelled, capped or failed has   *)
(* no effect on staging.                                                   *)
THEOREM OnlyImportsWrite == Spec => []OnlyImportWrites
<1>1. RunInv => OnlyImportWrites
  BY DEF RunInv, OnlyImportWrites
<1>. QED BY <1>1, RunInductive, PTL DEF Spec

(* And it writes all that the agent left: its definitions as they are, and *)
(* what it deleted gone after a replace, and as it was after a merge.      *)
THEOREM WholeTurnIsWritten == Spec => []WholeTurnWritten
<1>1. ASSUME RunInv, pc = "imported", NEW r \in Rid
      PROVE  result.defs[r] = IF mode = "merge" /\ wr.defs[r] = Absent
                                THEN base.defs[r] ELSE wr.defs[r]
  <2>1. result = Import(base, wr, mode) /\ mode \in {"replace", "merge"}
    BY <1>1 DEF RunInv, TypeOK, Modes
  <2>2. CASE mode = "replace"
    BY <2>1, <2>2 DEF Import
  <2>3. CASE mode = "merge"
    <3>1. result.defs[r] = IF r \in Present(wr) THEN wr.defs[r] ELSE base.defs[r]
      BY <2>1, <2>3 DEF Import, Merge
    <3>. QED BY <2>3, <3>1 DEF Present
  <2>. QED BY <2>1, <2>2, <2>3
<1>2. RunInv => WholeTurnWritten
  BY <1>1 DEF WholeTurnWritten
<1>. QED BY <1>2, RunInductive, PTL DEF Spec
=============================================================================
