---------------------- MODULE RegistryRefinementProofs ----------------------
(***************************************************************************)
(* More theorems about RegistryTxn: every stored registry is well formed,  *)
(* production and its backup rotate together, and RegistryTxn, with the    *)
(* history variable of RegistryRefinement, implements RegistryAtomic.      *)
(***************************************************************************)
EXTENDS RegistryRefinement, RegistryTxnProofs

-----------------------------------------------------------------------------
(* Where a handler is tells what it has read, computed and written. All of *)
(* it can be said of a request's own state alone.                          *)

PromoteSteps == {"promote_connections", "promote_load_staging", "promote_load_production",
                 "promote_load_previous", "promote_save_previous", "promote_save_production"}
RevertSteps  == {"revert_load_production", "revert_load_staging", "revert_save_staging"}
UndoSteps    == {"undo_load_previous", "undo_load_production", "undo_save_production",
                 "undo_clear_previous"}
ConnSteps    == {"connection_insert", "connection_scan_staging",
                 "connection_scan_production", "connection_delete"}
RestoreSteps == {"restore_load", "restore_save"}

StepsOf(op) ==
    CASE op \in EditOps   -> BeforeSave
      [] op = "promote"   -> PromoteSteps
      [] op = "revert"    -> RevertSteps
      [] op = "undo"      -> UndoSteps
      [] op \in ConnOps   -> ConnSteps
      [] OTHER            -> RestoreSteps

Wrote(r, e) == r.buf[e] # NoRow

(* What an edit of b may save: a delete is not validated.                  *)
Outcomes(op, b) ==
    IF op = "delete" THEN RemoveResults(b) ELSE {q \in Results(op, b) : WellFormed(q)}

EditFlow(r) ==
    /\ ~Wrote(r, "production") /\ ~Wrote(r, "previous_production")
    /\ Wrote(r, "staging") => r.pc = "done" /\ r.buf["staging"].payload = r.cand
    /\ r.pc \in {"edit_reload", "edit_save", "done"} =>
          r.cand \in Outcomes(r.call.op, r.seen["staging"].payload)
    /\ ~BlindEdits => r.given # NoVersion

PromoteFlow(r) ==
    /\ ~Wrote(r, "staging")
    /\ r.pc \in {"promote_load_production", "promote_load_previous", "promote_save_previous",
                 "promote_save_production", "done"} =>
          Valid(r.seen["staging"].payload, r.known)
    /\ Wrote(r, "production") =>
          /\ r.pc = "done"
          /\ r.buf["production"].payload = r.seen["staging"].payload
          /\ r.buf["production"].version = r.seen["production"].version + 1
    /\ Wrote(r, "previous_production") =>
          /\ r.pc \in {"promote_save_production", "done", "failed"}
          /\ r.buf["previous_production"].payload = r.seen["production"].payload
    /\ r.pc = "promote_save_production" => Wrote(r, "previous_production")
    /\ r.pc = "done" => Wrote(r, "production") /\ Wrote(r, "previous_production")

RevertFlow(r) ==
    /\ ~Wrote(r, "production") /\ ~Wrote(r, "previous_production")
    /\ Wrote(r, "staging") => /\ r.pc = "done"
                              /\ r.buf["staging"].payload = r.seen["production"].payload

UndoFlow(r) ==
    /\ ~Wrote(r, "staging")
    /\ r.pc \in (UndoSteps \ {"undo_load_previous"}) \cup {"done"} =>
          r.seen["previous_production"].payload.version # EmptyVersion
    /\ Wrote(r, "production") =>
          /\ r.pc \in {"undo_clear_previous", "done", "failed"}
          /\ r.buf["production"].payload = r.seen["previous_production"].payload
    /\ Wrote(r, "previous_production") =>
          /\ r.pc = "done"
          /\ r.buf["previous_production"].payload = EmptyRegistry
          /\ r.buf["previous_production"].version = r.seen["previous_production"].version + 1
    /\ r.pc = "undo_clear_previous" => Wrote(r, "production")
    /\ r.pc = "done" => Wrote(r, "production") /\ Wrote(r, "previous_production")

Flow(r) ==
    /\ r.pc = "idle" => r.buf = NoRows
    /\ r.pc # "idle" =>
          /\ r.call \in Calls
          /\ r.pc \in StepsOf(r.call.op) \cup {"done", "failed"}
          /\ r.call.op \in EditOps => EditFlow(r)
          /\ r.call.op = "promote" => PromoteFlow(r)
          /\ r.call.op = "revert" => RevertFlow(r)
          /\ r.call.op = "undo" => UndoFlow(r)
          /\ r.call.op \in ConnOps => r.buf = NoRows

FlowOK == \A t \in Request : Flow(tx[t])

-----------------------------------------------------------------------------
(* What a statement changes of its request's own state.                    *)

Ops == EditOps \cup LifecycleOps \cup ConnOps \cup {"restore"}

LEMMA OpIsKnown == \A c \in Calls : c \in Call /\ c.op \in Ops
BY TxnAssumption DEF Call, Ops

Alone(t) == \A u \in Request : u # t => tx'[u] = tx[u]

(* q is r at another place, with the same call and the same registries     *)
(* computed and written.                                                   *)
Keeps(r, q) ==
    /\ q.call = r.call /\ q.given = r.given /\ q.cand = r.cand /\ q.buf = r.buf

LEMMA LoadSets ==
  ASSUME TypeOK, NEW t \in Request, NEW e \in Env, NEW next, Load(t, e, next)
  PROVE  /\ Keeps(tx[t], tx'[t]) /\ tx'[t].known = tx[t].known
         /\ tx'[t].pc = next /\ tx'[t].seen[e] = reg[e]
         /\ \A f \in Env \ {e} : tx'[t].seen[f] = tx[t].seen[f]
         /\ Alone(t) /\ UNCHANGED reg
<1>1. tx \in [Request -> Tx] /\ tx[t] \in Tx
  BY DEF TypeOK
<1>2. tx' = [tx EXCEPT ![t] = [tx[t] EXCEPT !.seen = [tx[t].seen EXCEPT ![e] = reg[e]], !.pc = next]]
  BY <1>1 DEF Load
<1>3. tx'[t] = [tx[t] EXCEPT !.seen = [tx[t].seen EXCEPT ![e] = reg[e]], !.pc = next]
  BY <1>1, <1>2
<1>4. Keeps(tx[t], tx'[t]) /\ tx'[t].known = tx[t].known /\ tx'[t].pc = next
  BY <1>1, <1>3 DEF Tx, Keeps
<1>5. tx'[t].seen[e] = reg[e] /\ \A f \in Env \ {e} : tx'[t].seen[f] = tx[t].seen[f]
  BY <1>1, <1>3 DEF Tx
<1>6. Alone(t) /\ UNCHANGED reg
  BY <1>1, <1>2 DEF Alone, Load, Database
<1>. QED BY <1>4, <1>5, <1>6

LEMMA FailSets ==
  ASSUME TypeOK, NEW t \in Request, Fail(t)
  PROVE  /\ Keeps(tx[t], tx'[t]) /\ tx'[t].known = tx[t].known
         /\ tx'[t].pc = "failed" /\ tx'[t].seen = tx[t].seen
         /\ Alone(t)
BY DEF TypeOK, Fail, Goto, Tx, Keeps, Alone

LEMMA SaveSets ==
  ASSUME TypeOK, NEW t \in Request, NEW e \in Env, NEW p, NEW x, NEW next, Save(t, e, p, x, next)
  PROVE  /\ tx'[t].call = tx[t].call /\ tx'[t].given = tx[t].given /\ tx'[t].cand = tx[t].cand
         /\ tx'[t].known = tx[t].known /\ tx'[t].seen = tx[t].seen
         /\ Alone(t) /\ UNCHANGED reg
         /\ \/ tx'[t].pc = "failed" /\ tx'[t].buf = tx[t].buf
            \/ /\ tx'[t].pc = next
               /\ tx'[t].buf[e] # NoRow /\ tx'[t].buf[e].payload = p
               /\ tx'[t].buf[e].version = x + 1
               /\ \A f \in Env \ {e} : tx'[t].buf[f] = tx[t].buf[f]
<1>1. tx \in [Request -> Tx] /\ tx[t] \in Tx /\ reg[e].version \in Nat
  BY DEF TypeOK, Row
<1>2. CASE Fail(t)
  BY <1>2, FailSets DEF Save, Keeps
<1>3. CASE /\ reg[e].version = x
           /\ tx' = [tx EXCEPT ![t] = [@ EXCEPT !.buf[e] = [payload |-> p, version |-> x + 1], !.pc = next]]
  <2> DEFINE w == [payload |-> p, version |-> x + 1]
             b == [tx[t].buf EXCEPT ![e] = w]
  <2>1. w # NoRow
    <3>1. w.version = x + 1 /\ NoRow.version = -1
      BY DEF NoRow, NoVersion
    <3>. QED BY <1>1, <1>3, <3>1
  <2>2. b[e] = w /\ \A f \in Env \ {e} : b[f] = tx[t].buf[f]
    BY <1>1 DEF Tx
  <2>3. w.payload = p /\ w.version = x + 1
    OBVIOUS
  <2> HIDE DEF w, b
  <2>4. tx' = [tx EXCEPT ![t] = [tx[t] EXCEPT !.buf = b, !.pc = next]]
    BY <1>1, <1>3 DEF w, b
  <2>5. /\ tx'[t].call = tx[t].call /\ tx'[t].given = tx[t].given /\ tx'[t].cand = tx[t].cand
        /\ tx'[t].known = tx[t].known /\ tx'[t].seen = tx[t].seen
        /\ tx'[t].pc = next /\ tx'[t].buf = b /\ Alone(t)
    BY <1>1, <2>4 DEF Tx, Alone
  <2>. QED BY <2>1, <2>2, <2>3, <2>5 DEF Save, w, b
<1>. QED BY <1>2, <1>3 DEF Save

-----------------------------------------------------------------------------
(* The flow of every handler.                                              *)

LEMMA StepTellsOp ==
  ASSUME NEW r, Flow(r), r.pc # "idle"
  PROVE  /\ r.call.op \in Ops
         /\ r.pc \in BeforeSave => r.call.op \in EditOps /\ EditFlow(r)
         /\ r.pc \in PromoteSteps => r.call.op = "promote" /\ PromoteFlow(r)
         /\ r.pc \in RevertSteps => r.call.op = "revert" /\ RevertFlow(r)
         /\ r.pc \in UndoSteps => r.call.op = "undo" /\ UndoFlow(r)
         /\ r.pc \in ConnSteps => r.call.op \in ConnOps /\ r.buf = NoRows
         /\ r.pc \in RestoreSteps => r.call.op = "restore"
<1>1. r.call.op \in Ops /\ r.pc \in StepsOf(r.call.op) \cup {"done", "failed"}
  BY OpIsKnown DEF Flow
<1>2. /\ r.call.op \in EditOps => EditFlow(r)
      /\ r.call.op = "promote" => PromoteFlow(r)
      /\ r.call.op = "revert" => RevertFlow(r)
      /\ r.call.op = "undo" => UndoFlow(r)
      /\ r.call.op \in ConnOps => r.buf = NoRows
  BY DEF Flow
<1>. QED BY <1>1, <1>2 DEF StepsOf, Ops, EditOps, LifecycleOps, ConnOps, BeforeSave, PromoteSteps,
     RevertSteps, UndoSteps, ConnSteps, RestoreSteps

(* A handler that raises.                                                  *)
LEMMA FailFlows ==
  ASSUME NEW r, NEW q, Flow(r), r.pc \notin {"idle", "done"}, Keeps(r, q), q.pc = "failed",
         q.seen = r.seen \/ \A e \in Env : ~Wrote(r, e)
  PROVE  Flow(q)
<1>1. \A e : Wrote(q, e) <=> Wrote(r, e)
  BY DEF Keeps, Wrote
<1>2. r.call.op \in EditOps => EditFlow(q)
  BY <1>1 DEF Flow, EditFlow, Keeps
<1>3. r.call.op = "promote" => PromoteFlow(q)
  BY <1>1 DEF Flow, PromoteFlow, Keeps, Env
<1>4. r.call.op = "revert" => RevertFlow(q)
  BY <1>1 DEF Flow, RevertFlow, Keeps
<1>5. r.call.op = "undo" => UndoFlow(q)
  BY <1>1 DEF Flow, UndoFlow, UndoSteps, Keeps, Env
<1>. QED BY <1>2, <1>3, <1>4, <1>5 DEF Flow, Keeps

LEMMA BeginFlows ==
  ASSUME TypeOK, NEW t \in Request, Flow(tx[t]), Begin(t)
  PROVE  /\ Flow(tx'[t]) /\ Alone(t) /\ tx'[t].cand = tx[t].cand /\ tx'[t].seen = tx[t].seen
         /\ tx'[t].buf = tx[t].buf /\ tx'[t].drop = tx[t].drop /\ UNCHANGED reg
         /\ tx'[t].pc = Entry(tx'[t].call.op) /\ tx'[t].call.op \in Ops
         /\ tx'[t].call.op \in EditOps /\ ~BlindEdits => tx'[t].given = reg["staging"].version
<1>1. PICK c \in Calls :
        \E v \in Given(c.op), g \in Targets(c.op) :
        \E s \in Spellings(c.op, g) :
          tx' = [tx EXCEPT ![t] = [@ EXCEPT !.call = c, !.pc = Entry(c.op),
                                            !.given = v, !.target = g, !.text = s]]
  BY DEF Begin
<1>a. PICK v \in Given(c.op), g \in Targets(c.op) :
        \E s \in Spellings(c.op, g) :
          tx' = [tx EXCEPT ![t] = [@ EXCEPT !.call = c, !.pc = Entry(c.op),
                                            !.given = v, !.target = g, !.text = s]]
  BY <1>1
<1>2. PICK s \in Spellings(c.op, g) :
        tx' = [tx EXCEPT ![t] = [@ EXCEPT !.call = c, !.pc = Entry(c.op),
                                          !.given = v, !.target = g, !.text = s]]
  BY <1>a
<1>3. tx \in [Request -> Tx] /\ tx[t] \in Tx /\ tx[t].buf = NoRows
  BY DEF TypeOK, Begin, At, Flow
<1>4. /\ tx'[t].call = c /\ tx'[t].pc = Entry(c.op) /\ tx'[t].given = v
      /\ tx'[t].buf = tx[t].buf /\ tx'[t].cand = tx[t].cand /\ tx'[t].seen = tx[t].seen
      /\ tx'[t].drop = tx[t].drop /\ Alone(t)
  BY <1>2, <1>3 DEF Tx, Alone
<1>5. \A e \in Env : ~Wrote(tx'[t], e)
  BY <1>3, <1>4 DEF Wrote, NoRows
<1>6. c.op \in Ops
  BY OpIsKnown
<1>7. c.op \in EditOps /\ ~BlindEdits => v = reg["staging"].version /\ v # NoVersion
  <2>1. reg["staging"].version \in Nat
    BY DEF TypeOK, Row, Env
  <2>. QED BY <2>1 DEF Given, NoVersion
<1>8. /\ Entry(c.op) \in StepsOf(c.op) /\ Entry(c.op) # "idle"
      /\ c.op \in EditOps => Entry(c.op) = "edit_load"
      /\ c.op = "promote" => Entry(c.op) = "promote_connections"
      /\ c.op = "revert" => Entry(c.op) = "revert_load_production"
      /\ c.op = "undo" => Entry(c.op) = "undo_load_previous"
  BY <1>6 DEF Entry, StepsOf, Ops, EditOps, LifecycleOps, ConnOps, BeforeSave, PromoteSteps,
     RevertSteps, UndoSteps, ConnSteps, RestoreSteps
<1>9. c.op \in EditOps => EditFlow(tx'[t])
  BY <1>4, <1>5, <1>7, <1>8 DEF EditFlow, Env
<1>10. c.op = "promote" => PromoteFlow(tx'[t])
  BY <1>4, <1>5, <1>8 DEF PromoteFlow, Env
<1>11. c.op = "revert" => RevertFlow(tx'[t])
  BY <1>4, <1>5, <1>8 DEF RevertFlow, Env
<1>12. c.op = "undo" => UndoFlow(tx'[t])
  BY <1>4, <1>5, <1>8 DEF UndoFlow, UndoSteps, Env
<1>13. Flow(tx'[t])
  BY <1>3, <1>4, <1>8, <1>9, <1>10, <1>11, <1>12 DEF Flow
<1>. QED BY <1>4, <1>6, <1>7, <1>13 DEF Begin

LEMMA EditFlows ==
  ASSUME TypeOK, NEW t \in Request, Flow(tx[t]), Edit(t)
  PROVE  Flow(tx'[t]) /\ Alone(t) /\ UNCHANGED reg
<1> DEFINE r == tx[t]
           q == tx'[t]
<1>1. tx \in [Request -> Tx] /\ tx[t] \in Tx
  BY DEF TypeOK
<1>2. r.pc \in BeforeSave /\ r.pc \notin {"idle", "done"}
  BY DEF Edit, EditLoad, EditCompute, EditRefused, EditReload, EditSave, At, BeforeSave
<1>3. r.call.op \in EditOps /\ EditFlow(r) /\ r.call \in Calls
  BY <1>2, StepTellsOp DEF Flow
<1>4. \A e \in Env : ~Wrote(r, e)
  BY <1>2, <1>3 DEF EditFlow, Env, BeforeSave
<1>5. ASSUME q.pc \in BeforeSave, q.call = r.call, EditFlow(q) PROVE Flow(q)
  BY <1>3, <1>5 DEF Flow, StepsOf, EditOps, ConnOps, BeforeSave
<1>6. CASE EditLoad(t)
  <2>1. Keeps(r, q) /\ q.pc = "edit_compute" /\ Alone(t) /\ UNCHANGED reg
    BY <1>6, LoadSets DEF EditLoad, Env
  <2>2. EditFlow(q)
    BY <1>3, <1>4, <2>1 DEF EditFlow, Keeps, Wrote, Env
  <2>. QED BY <1>5, <2>1, <2>2 DEF Keeps, BeforeSave
<1>7. CASE EditCompute(t)
  <2>1. PICK p \in Results(r.call.op, Base(t)) :
          /\ r.call.op = "delete" \/ Valid(p, conns)
          /\ tx' = [tx EXCEPT ![t] = [@ EXCEPT !.cand = p, !.known = Looked(t),
                                               !.pc = "edit_reload"]]
    BY <1>7 DEF EditCompute
  <2>2. /\ q.call = r.call /\ q.given = r.given /\ q.buf = r.buf /\ q.seen = r.seen
        /\ q.cand = p /\ q.pc = "edit_reload" /\ Alone(t)
    BY <1>1, <2>1 DEF Tx, Alone
  <2>3. p \in Outcomes(r.call.op, r.seen["staging"].payload)
    BY <2>1 DEF Outcomes, Results, Valid, Base
  <2>4. EditFlow(q)
    BY <1>3, <1>4, <2>2, <2>3 DEF EditFlow, Wrote, Env
  <2>. QED BY <1>5, <1>7, <2>2, <2>4 DEF BeforeSave, EditCompute, Database
<1>8. CASE EditRefused(t)
  <2>1. Keeps(r, q) /\ q.pc = "failed" /\ q.seen = r.seen /\ Alone(t) /\ UNCHANGED reg
    BY <1>8, FailSets DEF EditRefused, Database
  <2>. QED BY <1>2, <2>1, FailFlows
<1>9. CASE EditReload(t)
  <2>1. /\ Keeps(r, q) /\ q.pc = "edit_save" /\ q.seen = r.seen /\ r.pc = "edit_reload"
        /\ Alone(t) /\ UNCHANGED reg
    BY <1>1, <1>9 DEF EditReload, Tx, Keeps, Alone, Database, At
  <2>2. EditFlow(q)
    BY <1>3, <1>4, <2>1 DEF EditFlow, Keeps, Wrote, Env
  <2>. QED BY <1>5, <2>1, <2>2 DEF Keeps, BeforeSave
<1>10. CASE EditSave(t)
  <2>1. r.pc = "edit_save" /\ Save(t, "staging", r.cand, r.expect, "done") /\ "staging" \in Env
    BY <1>10 DEF EditSave, At, Env
  <2>2. Alone(t) /\ UNCHANGED reg
    BY <2>1, SaveSets
  <2>3. CASE q.pc = "failed" /\ q.buf = r.buf
    <3>1. Keeps(r, q) /\ q.seen = r.seen
      BY <2>1, <2>3, SaveSets DEF Keeps
    <3>. QED BY <1>2, <2>2, <2>3, <3>1, FailFlows
  <2>4. CASE /\ q.pc = "done" /\ q.buf["staging"].payload = r.cand
             /\ \A f \in Env \ {"staging"} : q.buf[f] = r.buf[f]
    <3>1. q.call = r.call /\ q.given = r.given /\ q.cand = r.cand /\ q.seen = r.seen
      BY <2>1, SaveSets
    <3>2. EditFlow(q)
      BY <1>3, <1>4, <2>1, <2>4, <3>1 DEF EditFlow, Wrote, Env
    <3>. QED BY <1>3, <2>2, <2>4, <3>1, <3>2 DEF Flow, EditOps, ConnOps
  <2>5. \/ q.pc = "failed" /\ q.buf = r.buf
        \/ /\ q.pc = "done" /\ q.buf["staging"].payload = r.cand
           /\ \A f \in Env \ {"staging"} : q.buf[f] = r.buf[f]
    BY <2>1, SaveSets
  <2>. QED BY <2>3, <2>4, <2>5
<1>. QED BY <1>6, <1>7, <1>8, <1>9, <1>10 DEF Edit

LEMMA PromoteFlows ==
  ASSUME TypeOK, NEW t \in Request, Flow(tx[t]), Promote(t)
  PROVE  Flow(tx'[t]) /\ Alone(t) /\ UNCHANGED reg
<1> DEFINE r == tx[t]
           q == tx'[t]
<1>1. tx \in [Request -> Tx] /\ tx[t] \in Tx /\ r.seen \in [Env -> Row \cup {NoRow}]
  BY DEF TypeOK, Tx
<1>2. r.pc \in PromoteSteps /\ r.pc \notin {"idle", "done"}
  BY DEF Promote, PromoteConnections, PromoteLoadStaging, PromoteLoadProduction,
     PromoteLoadPrevious, PromoteSavePrevious, PromoteSaveProduction, At, PromoteSteps
<1>3. r.call.op = "promote" /\ PromoteFlow(r) /\ r.call \in Calls
  BY <1>2, StepTellsOp DEF Flow
<1>4. r.pc # "promote_save_production" => \A e \in Env : ~Wrote(r, e)
  BY <1>2, <1>3 DEF PromoteFlow, Env, PromoteSteps
<1>5. ASSUME q.pc \in PromoteSteps \cup {"done"}, q.call = r.call, PromoteFlow(q) PROVE Flow(q)
  BY <1>3, <1>5 DEF Flow, StepsOf, EditOps, ConnOps, PromoteSteps
<1>6. CASE PromoteConnections(t)
  <2>1. /\ Keeps(r, q) /\ q.pc = "promote_load_staging" /\ Alone(t) /\ UNCHANGED reg
        /\ r.pc = "promote_connections"
    BY <1>1, <1>6 DEF PromoteConnections, Tx, Keeps, Alone, Database, At
  <2>2. PromoteFlow(q)
    BY <1>3, <1>4, <2>1 DEF PromoteFlow, Keeps, Wrote, Env
  <2>. QED BY <1>5, <2>1, <2>2 DEF Keeps, PromoteSteps
<1>7. CASE PromoteLoadStaging(t)
  <2>1. PICK next :
          /\ next = IF Valid(reg["staging"].payload, r.known)
                      THEN "promote_load_production" ELSE "failed"
          /\ r.pc = "promote_load_staging" /\ Load(t, "staging", next) /\ "staging" \in Env
    BY <1>7 DEF PromoteLoadStaging, At, Env
  <2>2. /\ Keeps(r, q) /\ q.known = r.known /\ Alone(t) /\ UNCHANGED reg
        /\ q.seen["staging"] = reg["staging"] /\ q.pc = next
    BY <1>1, <2>1, LoadSets
  <2>3. CASE q.pc = "failed"
    BY <1>2, <1>4, <2>1, <2>2, <2>3, FailFlows
  <2>4. CASE q.pc = "promote_load_production" /\ Valid(q.seen["staging"].payload, q.known)
    <3>1. PromoteFlow(q)
      BY <1>3, <1>4, <2>1, <2>2, <2>4 DEF PromoteFlow, Keeps, Wrote, Env
    <3>. QED BY <1>5, <2>2, <2>4, <3>1 DEF Keeps, PromoteSteps
  <2>. QED BY <2>1, <2>2, <2>3, <2>4
<1>8. CASE PromoteLoadProduction(t)
  <2>1. r.pc = "promote_load_production" /\ Load(t, "production", "promote_load_previous")
        /\ "production" \in Env
    BY <1>8 DEF PromoteLoadProduction, At, Env
  <2>2. /\ Keeps(r, q) /\ q.known = r.known /\ Alone(t) /\ UNCHANGED reg
        /\ q.seen["staging"] = r.seen["staging"] /\ q.pc = "promote_load_previous"
    BY <1>1, <2>1, LoadSets DEF Env
  <2>3. PromoteFlow(q)
    BY <1>3, <1>4, <2>1, <2>2 DEF PromoteFlow, Keeps, Wrote, Env
  <2>. QED BY <1>5, <2>2, <2>3 DEF Keeps, PromoteSteps
<1>9. CASE PromoteLoadPrevious(t)
  <2>1. r.pc = "promote_load_previous" /\ Load(t, "previous_production", "promote_save_previous")
        /\ "previous_production" \in Env
    BY <1>9 DEF PromoteLoadPrevious, At, Env
  <2>2. /\ Keeps(r, q) /\ q.known = r.known /\ Alone(t) /\ UNCHANGED reg
        /\ q.seen["staging"] = r.seen["staging"] /\ q.pc = "promote_save_previous"
    BY <1>1, <2>1, LoadSets DEF Env
  <2>3. PromoteFlow(q)
    BY <1>3, <1>4, <2>1, <2>2 DEF PromoteFlow, Keeps, Wrote, Env
  <2>. QED BY <1>5, <2>2, <2>3 DEF Keeps, PromoteSteps
<1>10. CASE PromoteSavePrevious(t) \/ PromoteSaveProduction(t)
  <2>1. PICK e, p, x, next :
          /\ e \in {"previous_production", "production"} /\ Save(t, e, p, x, next) /\ e \in Env
          /\ \/ /\ e = "previous_production" /\ r.pc = "promote_save_previous"
                /\ p = r.seen["production"].payload /\ next = "promote_save_production"
             \/ /\ e = "production" /\ r.pc = "promote_save_production"
                /\ p = r.seen["staging"].payload /\ next = "done"
                /\ x = r.seen["production"].version
    BY <1>10 DEF PromoteSavePrevious, PromoteSaveProduction, At, Env
  <2>6. Save(t, e, p, x, next) /\ e \in Env
    BY <2>1
  <2>2. /\ Alone(t) /\ UNCHANGED reg /\ q.call = r.call /\ q.given = r.given /\ q.cand = r.cand
        /\ q.known = r.known /\ q.seen = r.seen
    BY <2>6, SaveSets
  <2>3. CASE q.pc = "failed" /\ q.buf = r.buf
    BY <1>2, <2>2, <2>3, FailFlows DEF Keeps
  <2>4. CASE /\ q.pc = next /\ q.buf[e] # NoRow /\ q.buf[e].payload = p /\ q.buf[e].version = x + 1
             /\ \A f \in Env \ {e} : q.buf[f] = r.buf[f]
    <3>1. PromoteFlow(q)
      BY <1>3, <1>4, <2>1, <2>2, <2>4 DEF PromoteFlow, Wrote, Env
    <3>. QED BY <1>5, <2>1, <2>2, <2>4, <3>1 DEF PromoteSteps
  <2>5. \/ q.pc = "failed" /\ q.buf = r.buf
        \/ /\ q.pc = next /\ q.buf[e] # NoRow /\ q.buf[e].payload = p /\ q.buf[e].version = x + 1
           /\ \A f \in Env \ {e} : q.buf[f] = r.buf[f]
    BY <2>6, SaveSets
  <2>. QED BY <2>2, <2>3, <2>4, <2>5
<1>. QED BY <1>6, <1>7, <1>8, <1>9, <1>10 DEF Promote

LEMMA RevertFlows ==
  ASSUME TypeOK, NEW t \in Request, Flow(tx[t]), Revert(t)
  PROVE  Flow(tx'[t]) /\ Alone(t) /\ UNCHANGED reg
<1> DEFINE r == tx[t]
           q == tx'[t]
<1>2. r.pc \in RevertSteps /\ r.pc \notin {"idle", "done"}
  BY DEF Revert, RevertLoadProduction, RevertLoadStaging, RevertSaveStaging, At, RevertSteps
<1>3. r.call.op = "revert" /\ RevertFlow(r) /\ r.call \in Calls
  BY <1>2, StepTellsOp DEF Flow
<1>4. \A e \in Env : ~Wrote(r, e)
  BY <1>2, <1>3 DEF RevertFlow, Env
<1>5. ASSUME q.pc \in RevertSteps \cup {"done"}, q.call = r.call, RevertFlow(q) PROVE Flow(q)
  BY <1>3, <1>5 DEF Flow, StepsOf, EditOps, ConnOps, RevertSteps
<1>6. CASE RevertLoadProduction(t) \/ RevertLoadStaging(t)
  <2>1. PICK e \in Env, next \in RevertSteps : Load(t, e, next)
    BY <1>6 DEF RevertLoadProduction, RevertLoadStaging, Env, RevertSteps
  <2>2. Keeps(r, q) /\ Alone(t) /\ UNCHANGED reg /\ q.pc = next
    BY <2>1, LoadSets
  <2>3. RevertFlow(q)
    BY <1>4, <2>2 DEF RevertFlow, Keeps, Wrote, Env
  <2>. QED BY <1>5, <2>1, <2>2, <2>3 DEF Keeps
<1>7. CASE RevertSaveStaging(t)
  <2>1. PICK p, x : /\ Save(t, "staging", p, x, "done") /\ "staging" \in Env
                    /\ p = r.seen["production"].payload
    BY <1>7 DEF RevertSaveStaging, Env
  <2>2. Alone(t) /\ UNCHANGED reg /\ q.call = r.call /\ q.given = r.given /\ q.cand = r.cand
        /\ q.seen = r.seen
    BY <2>1, SaveSets
  <2>3. CASE q.pc = "failed" /\ q.buf = r.buf
    BY <1>2, <2>2, <2>3, FailFlows DEF Keeps
  <2>4. CASE /\ q.pc = "done" /\ q.buf["staging"].payload = p
             /\ \A f \in Env \ {"staging"} : q.buf[f] = r.buf[f]
    <3>1. RevertFlow(q)
      BY <1>4, <2>1, <2>2, <2>4 DEF RevertFlow, Wrote, Env
    <3>. QED BY <1>5, <2>2, <2>4, <3>1
  <2>5. \/ q.pc = "failed" /\ q.buf = r.buf
        \/ /\ q.pc = "done" /\ q.buf["staging"].payload = p
           /\ \A f \in Env \ {"staging"} : q.buf[f] = r.buf[f]
    BY <2>1, SaveSets
  <2>. QED BY <2>2, <2>3, <2>4, <2>5
<1>. QED BY <1>6, <1>7 DEF Revert

LEMMA UndoFlows ==
  ASSUME TypeOK, NEW t \in Request, Flow(tx[t]), Undo(t)
  PROVE  Flow(tx'[t]) /\ Alone(t) /\ UNCHANGED reg
<1> DEFINE r == tx[t]
           q == tx'[t]
<1>2. r.pc \in UndoSteps /\ r.pc \notin {"idle", "done"}
  BY DEF Undo, UndoLoadPrevious, UndoLoadProduction, UndoSaveProduction, UndoClearPrevious,
     At, UndoSteps
<1>3. r.call.op = "undo" /\ UndoFlow(r) /\ r.call \in Calls
  BY <1>2, StepTellsOp DEF Flow
<1>4. r.pc # "undo_clear_previous" => \A e \in Env : ~Wrote(r, e)
  BY <1>2, <1>3 DEF UndoFlow, Env, UndoSteps
<1>5. ASSUME q.pc \in UndoSteps \cup {"done"}, q.call = r.call, UndoFlow(q) PROVE Flow(q)
  BY <1>3, <1>5 DEF Flow, StepsOf, EditOps, ConnOps, UndoSteps
<1>6. CASE UndoLoadPrevious(t)
  <2>1. PICK next :
          /\ next = IF reg["previous_production"].payload.version = EmptyVersion
                      THEN "failed" ELSE "undo_load_production"
          /\ r.pc = "undo_load_previous" /\ Load(t, "previous_production", next)
          /\ "previous_production" \in Env
    BY <1>6 DEF UndoLoadPrevious, At, Env
  <2>2. /\ Keeps(r, q) /\ Alone(t) /\ UNCHANGED reg
        /\ q.seen["previous_production"] = reg["previous_production"] /\ q.pc = next
    BY <2>1, LoadSets
  <2>3. CASE q.pc = "failed"
    BY <1>2, <1>4, <2>1, <2>2, <2>3, FailFlows
  <2>4. CASE /\ q.pc = "undo_load_production"
             /\ q.seen["previous_production"].payload.version # EmptyVersion
    <3>1. UndoFlow(q)
      BY <1>4, <2>1, <2>2, <2>4 DEF UndoFlow, UndoSteps, Keeps, Wrote, Env
    <3>. QED BY <1>5, <2>2, <2>4, <3>1 DEF Keeps, UndoSteps
  <2>. QED BY <2>1, <2>2, <2>3, <2>4
<1>7. CASE UndoLoadProduction(t)
  <2>1. r.pc = "undo_load_production" /\ Load(t, "production", "undo_save_production")
        /\ "production" \in Env /\ "previous_production" \in Env \ {"production"}
    BY <1>7 DEF UndoLoadProduction, At, Env
  <2>2. /\ Keeps(r, q) /\ Alone(t) /\ UNCHANGED reg
        /\ q.seen["previous_production"] = r.seen["previous_production"]
        /\ q.pc = "undo_save_production"
    BY <2>1, LoadSets
  <2>3. UndoFlow(q)
    BY <1>3, <1>4, <2>1, <2>2 DEF UndoFlow, UndoSteps, Keeps, Wrote, Env
  <2>. QED BY <1>5, <2>2, <2>3 DEF Keeps, UndoSteps
<1>8. CASE UndoSaveProduction(t) \/ UndoClearPrevious(t)
  <2>1. PICK e, p, x, next :
          /\ e \in {"previous_production", "production"} /\ Save(t, e, p, x, next) /\ e \in Env
          /\ \/ /\ e = "production" /\ r.pc = "undo_save_production"
                /\ p = r.seen["previous_production"].payload /\ next = "undo_clear_previous"
             \/ /\ e = "previous_production" /\ r.pc = "undo_clear_previous"
                /\ p = EmptyRegistry /\ next = "done"
                /\ x = r.seen["previous_production"].version
    BY <1>8 DEF UndoSaveProduction, UndoClearPrevious, At, Env
  <2>2. /\ Alone(t) /\ UNCHANGED reg /\ q.call = r.call /\ q.given = r.given /\ q.cand = r.cand
        /\ q.seen = r.seen
    BY <2>1, SaveSets
  <2>3. CASE q.pc = "failed" /\ q.buf = r.buf
    BY <1>2, <2>2, <2>3, FailFlows DEF Keeps
  <2>4. CASE /\ q.pc = next /\ q.buf[e] # NoRow /\ q.buf[e].payload = p /\ q.buf[e].version = x + 1
             /\ \A f \in Env \ {e} : q.buf[f] = r.buf[f]
    <3>1. UndoFlow(q)
      BY <1>3, <1>4, <2>1, <2>2, <2>4 DEF UndoFlow, UndoSteps, Wrote, Env
    <3>. QED BY <1>5, <2>1, <2>2, <2>4, <3>1 DEF UndoSteps
  <2>5. \/ q.pc = "failed" /\ q.buf = r.buf
        \/ /\ q.pc = next /\ q.buf[e] # NoRow /\ q.buf[e].payload = p /\ q.buf[e].version = x + 1
           /\ \A f \in Env \ {e} : q.buf[f] = r.buf[f]
    BY <2>1, SaveSets
  <2>. QED BY <2>2, <2>3, <2>4, <2>5
<1>. QED BY <1>6, <1>7, <1>8 DEF Undo

LEMMA ConnectionFlows ==
  ASSUME TypeOK, NEW t \in Request, Flow(tx[t]), Connections(t)
  PROVE  Flow(tx'[t]) /\ Alone(t) /\ UNCHANGED reg
<1> DEFINE r == tx[t]
           q == tx'[t]
<1>1. tx \in [Request -> Tx] /\ tx[t] \in Tx
  BY DEF TypeOK
<1>2. r.pc \in ConnSteps /\ r.pc # "idle"
  BY DEF Connections, ConnectionInsert, ConnectionScanStaging, ConnectionScanProduction,
     ConnectionScan, ConnectionDelete, At, ConnSteps
<1>3. r.call.op \in ConnOps /\ r.buf = NoRows /\ r.call \in Calls
  BY <1>2, StepTellsOp DEF Flow
<1>4. ASSUME Keeps(r, q), q.pc \in ConnSteps \cup {"done", "failed"} PROVE Flow(q)
  BY <1>3, <1>4 DEF Flow, Keeps, StepsOf, EditOps, ConnOps, ConnSteps
<1>5. CASE ConnectionInsert(t) \/ ConnectionDelete(t)
  <2>1. Keeps(r, q) /\ q.pc = "done" /\ Alone(t) /\ UNCHANGED reg
    <3>1. CASE ConnectionInsert(t)
      BY <1>1, <3>1 DEF ConnectionInsert, Database, Tx, Keeps, Alone
    <3>2. CASE ConnectionDelete(t)
      BY <1>1, <3>2 DEF ConnectionDelete, Database, Tx, Keeps, Alone
    <3>. QED BY <1>5, <3>1, <3>2
  <2>. QED BY <1>4, <2>1
<1>6. CASE ConnectionScanStaging(t) \/ ConnectionScanProduction(t)
  <2>1. PICK e \in Env, next \in ConnSteps \cup {"failed"} : Load(t, e, next)
    BY <1>6 DEF ConnectionScanStaging, ConnectionScanProduction, ConnectionScan, Env, ConnSteps
  <2>2. Keeps(r, q) /\ Alone(t) /\ UNCHANGED reg /\ q.pc = next
    BY <2>1, LoadSets
  <2>. QED BY <1>4, <2>1, <2>2
<1>. QED BY <1>5, <1>6 DEF Connections

LEMMA RestoreFlows ==
  ASSUME TypeOK, NEW t \in Request, Flow(tx[t]), Restore(t)
  PROVE  Flow(tx'[t]) /\ Alone(t) /\ UNCHANGED reg /\ tx[t].call.op = "restore"
<1> DEFINE r == tx[t]
           q == tx'[t]
<1>1. r.pc \in RestoreSteps /\ r.pc # "idle"
  BY DEF Restore, RestoreLoad, RestoreSave, At, RestoreSteps
<1>2. r.call.op = "restore" /\ r.call \in Calls
  BY <1>1, StepTellsOp DEF Flow
<1>3. ASSUME q.call = r.call, q.pc \in RestoreSteps \cup {"done", "failed"} PROVE Flow(q)
  BY <1>2, <1>3 DEF Flow, StepsOf, EditOps, ConnOps, RestoreSteps
<1>4. CASE RestoreLoad(t)
  <2>1. PICK e \in Env : Load(t, e, "restore_save")
    BY <1>4 DEF RestoreLoad
  <2>2. Keeps(r, q) /\ Alone(t) /\ UNCHANGED reg /\ q.pc = "restore_save"
    BY <2>1, LoadSets
  <2>. QED BY <1>2, <1>3, <2>2 DEF Keeps, RestoreSteps
<1>5. CASE RestoreSave(t)
  <2>1. PICK e, p, x : e \in Env /\ Save(t, e, p, x, "done")
    BY <1>5 DEF RestoreSave
  <2>2. q.call = r.call /\ Alone(t) /\ UNCHANGED reg /\ q.pc \in {"done", "failed"}
    BY <2>1, SaveSets
  <2>. QED BY <1>2, <1>3, <2>2
<1>. QED BY <1>4, <1>5 DEF Restore

LEMMA IdleFlows == Flow(Idle)
BY DEF Flow, Idle

LEMMA EndFlows ==
  ASSUME TypeOK, NEW t \in Request, Commit(t) \/ Discard(t)
  PROVE  tx'[t] = Idle /\ Alone(t)
BY DEF TypeOK, Commit, Discard, Alone

LEMMA FlowInductive ==
  /\ Init => FlowOK
  /\ TypeOK /\ FlowOK /\ [Next]_vars => FlowOK'
<1>1. Init => FlowOK
  BY IdleFlows DEF Init, FlowOK
<1>2. ASSUME TypeOK, FlowOK, [Next]_vars PROVE FlowOK'
  <2>1. CASE UNCHANGED vars
    BY <1>2, <2>1 DEF vars, FlowOK
  <2>2. ASSUME NEW t \in Request, Begin(t) \/ Run(t) \/ DeadlockVictim(t) \/ Crash(t)
        PROVE  FlowOK'
    <3>1. Flow(tx[t])
      BY <1>2 DEF FlowOK
    <3>2. Flow(tx'[t]) /\ Alone(t)
      <4>1. CASE Commit(t) \/ Discard(t)
        BY <1>2, <4>1, EndFlows, IdleFlows
      <4>. QED BY <1>2, <2>2, <3>1, <4>1, BeginFlows, EditFlows, PromoteFlows, RevertFlows,
                  UndoFlows, ConnectionFlows, RestoreFlows
               DEF Run, Rollback, DeadlockVictim, Crash
    <3>. QED BY <1>2, <3>2 DEF FlowOK, Alone
  <2>. QED BY <1>2, <2>1, <2>2 DEF Next, Quiet
<1>. QED BY <1>1, <1>2

-----------------------------------------------------------------------------
(* The version a careful client names is one that staging had reached when *)
(* the tool loaded it.                                                     *)

CarefulInv ==
    ~BlindEdits =>
      \A t \in Request : tx[t].call.op \in EditOps =>
          /\ tx[t].given <= reg["staging"].version
          /\ tx[t].pc # "edit_load" => tx[t].given <= tx[t].seen["staging"].version

LEMMA VersionsGrow ==
  ASSUME RowsInv, NEW t \in Request, Commit(t)
  PROVE  reg["staging"].version <= reg'["staging"].version
<1>1. reg'["staging"] = IF Written(t, "staging") THEN tx[t].buf["staging"] ELSE reg["staging"]
  BY DEF Commit, Env
<1>2. reg["staging"].version \in Nat
  BY DEF RowsInv, TypeOK, Row, Env
<1>3. Written(t, "staging") => tx[t].buf["staging"].version = reg["staging"].version + 1
  BY DEF RowsInv, ExclusiveWriters, Env
<1>. QED BY <1>1, <1>2, <1>3

LEMMA EditStaysCareful ==
  ASSUME TypeOK, NEW t \in Request, Edit(t), ~BlindEdits, tx[t].call.op \in EditOps,
         tx[t].given <= reg["staging"].version,
         tx[t].pc # "edit_load" => tx[t].given <= tx[t].seen["staging"].version
  PROVE  /\ tx'[t].given = tx[t].given
         /\ tx'[t].given <= tx'[t].seen["staging"].version
<1>1. tx \in [Request -> Tx] /\ tx[t] \in Tx /\ "staging" \in Env
  BY DEF TypeOK, Env
<1>2. CASE EditLoad(t)
  BY <1>1, <1>2, LoadSets DEF EditLoad, Keeps
<1>3. CASE EditCompute(t)
  <2>1. tx'[t].given = tx[t].given /\ tx'[t].seen = tx[t].seen /\ tx[t].pc = "edit_compute"
    BY <1>1, <1>3 DEF EditCompute, Tx, At
  <2>. QED BY <2>1
<1>4. CASE EditRefused(t)
  BY <1>4, FailSets DEF EditRefused, Keeps, At
<1>5. CASE EditReload(t)
  <2>1. tx'[t].given = tx[t].given /\ tx'[t].seen = tx[t].seen /\ tx[t].pc = "edit_reload"
    BY <1>1, <1>5 DEF EditReload, Tx, At
  <2>. QED BY <2>1
<1>6. CASE EditSave(t)
  BY <1>1, <1>6, SaveSets DEF EditSave, At
<1>. QED BY <1>2, <1>3, <1>4, <1>5, <1>6 DEF Edit

LEMMA CarefulInductive ==
  /\ Init => CarefulInv
  /\ RowsInv /\ FlowOK /\ CarefulInv /\ [Next]_vars => CarefulInv'
<1>1. Init => CarefulInv
  BY DEF Init, CarefulInv, Idle, NoCall, EditOps
<1>2. ASSUME RowsInv, FlowOK, CarefulInv, [Next]_vars PROVE CarefulInv'
  <2> SUFFICES ASSUME ~BlindEdits PROVE CarefulInv'
    BY DEF CarefulInv
  <2>1. /\ TypeOK
        /\ \A u \in Request : tx[u].call.op \in EditOps =>
             /\ tx[u].given <= reg["staging"].version
             /\ tx[u].pc # "edit_load" => tx[u].given <= tx[u].seen["staging"].version
    BY <1>2 DEF RowsInv, CarefulInv
  <2>2. ASSUME NEW t \in Request, UNCHANGED reg, Alone(t),
               tx'[t].call.op \in EditOps =>
                 /\ tx'[t].given <= reg["staging"].version
                 /\ tx'[t].pc # "edit_load" => tx'[t].given <= tx'[t].seen["staging"].version
        PROVE  CarefulInv'
    BY <2>1, <2>2 DEF CarefulInv, Alone
  <2>3. CASE UNCHANGED vars
    BY <2>1, <2>3 DEF vars, CarefulInv
  <2>4. ASSUME NEW t \in Request, Begin(t) PROVE CarefulInv'
    <3>1. /\ Alone(t) /\ UNCHANGED reg /\ tx'[t].pc = Entry(tx'[t].call.op)
          /\ tx'[t].call.op \in EditOps => tx'[t].given = reg["staging"].version
      BY <1>2, <2>1, <2>4, BeginFlows DEF FlowOK
    <3>2. tx'[t].call.op \in EditOps => tx'[t].pc = "edit_load"
      BY <3>1 DEF Entry, EditOps
    <3>3. reg["staging"].version \in Nat
      BY <2>1 DEF TypeOK, Row, Env
    <3>. QED BY <2>2, <3>1, <3>2, <3>3
  <2>5. ASSUME NEW t \in Request, Edit(t) PROVE CarefulInv'
    <3>1. tx[t].pc \in BeforeSave /\ tx[t].pc # "idle"
      BY <2>5 DEF Edit, EditLoad, EditCompute, EditRefused, EditReload, EditSave, At, BeforeSave
    <3>2. tx[t].call.op \in EditOps
      BY <1>2, <3>1, StepTellsOp DEF FlowOK
    <3>3. Alone(t) /\ UNCHANGED reg
      BY <1>2, <2>1, <2>5, EditFlows DEF FlowOK
    <3>4. tx'[t].given = tx[t].given /\ tx'[t].given <= tx'[t].seen["staging"].version
      BY <2>1, <2>5, <3>2, EditStaysCareful
    <3>. QED BY <2>1, <2>2, <3>2, <3>3, <3>4
  <2>6. ASSUME NEW t \in Request,
               Promote(t) \/ Revert(t) \/ Undo(t) \/ Connections(t) \/ Restore(t)
        PROVE  CarefulInv'
    <3>1. Elsewhere(t)
      BY <2>1, <2>6, OtherHandlers
    <3>2. tx[t].call.op \notin EditOps
      BY <1>2, <3>1 DEF FlowOK, Flow, StepsOf, Elsewhere, EditOps, ConnOps, BeforeSave
    <3>. QED BY <2>2, <3>1, <3>2 DEF Elsewhere, Alone
  <2>7. ASSUME NEW t \in Request, Discard(t) PROVE CarefulInv'
    <3>1. tx'[t] = Idle /\ Alone(t) /\ UNCHANGED reg
      BY <2>1, <2>7, EndFlows DEF Discard
    <3>. QED BY <2>2, <3>1 DEF Idle, NoCall, EditOps
  <2>8. ASSUME NEW t \in Request, Commit(t) PROVE CarefulInv'
    <3>1. tx'[t] = Idle /\ Alone(t) /\ Idle.call.op \notin EditOps
      BY <2>1, <2>8, EndFlows DEF Idle, NoCall, EditOps
    <3>2. reg["staging"].version <= reg'["staging"].version
      BY <1>2, <2>8, VersionsGrow
    <3>3. reg["staging"].version \in Nat /\ reg'["staging"].version \in Nat
      BY <1>2, RowsInductive DEF RowsInv, TypeOK, Row, Env
    <3>4. ASSUME NEW u \in Request, tx'[u].call.op \in EditOps
          PROVE  /\ tx'[u].given <= reg'["staging"].version
                 /\ tx'[u].pc # "edit_load" => tx'[u].given <= tx'[u].seen["staging"].version
      <4>1. tx'[u] = tx[u]
        BY <3>1, <3>4 DEF Alone
      <4>2. tx[u].given \in Nat \cup {-1}
        BY <2>1 DEF TypeOK, Tx, NoVersion
      <4>. QED BY <2>1, <3>2, <3>3, <3>4, <4>1, <4>2
    <3>. QED BY <3>4 DEF CarefulInv
  <2>. QED BY <1>2, <2>3, <2>4, <2>5, <2>6, <2>7, <2>8
           DEF Next, Run, Rollback, DeadlockVictim, Crash, Quiet
<1>. QED BY <1>1, <1>2

-----------------------------------------------------------------------------
(* Commits. Life-cycle requests that fail half-way are rolled back on REST *)
(* only: the dispatcher of /mcp commits what a failed handler has written. *)

ApiRotations ==
    \A c \in Calls : /\ c.op # "restore"
                     /\ c.op \in LifecycleOps => c.surface = "api"

(* The rows in the domain of w are overwritten; each counts the write.     *)
Puts(w) ==
    reg' = [e \in Env |-> IF e \in DOMAIN w
                            THEN [payload |-> w[e], version |-> reg[e].version + 1]
                            ELSE reg[e]]

LEMMA CommitPuts ==
  ASSUME RowsInv, NEW t \in Request, Commit(t), NEW E \in SUBSET Env,
         \A e \in Env : Wrote(tx[t], e) <=> e \in E
  PROVE  Puts([e \in E |-> tx[t].buf[e].payload])
<1>1. ASSUME NEW e \in E
      PROVE  tx[t].buf[e] = [payload |-> tx[t].buf[e].payload, version |-> reg[e].version + 1]
  <2>1. tx[t].buf[e] \in Row
    BY DEF RowsInv, TypeOK, Tx, Wrote
  <2>2. tx[t].buf[e].version = reg[e].version + 1
    BY DEF RowsInv, ExclusiveWriters, Wrote, Written
  <2>. QED BY <2>1, <2>2 DEF Row
<1>. QED BY <1>1 DEF Commit, Written, Wrote, Puts

(* The rows that a request has saved are the successors of the ones it     *)
(* loaded: nobody else has written them since.                             *)
LEMMA SavedOverLoaded ==
  ASSUME RowsInv, NEW t \in Request, NEW e \in Env, Wrote(tx[t], e),
         tx[t].buf[e].version = tx[t].seen[e].version + 1
  PROVE  tx[t].seen[e] = reg[e]
<1>1. tx[t].buf[e].version = reg[e].version + 1
  BY DEF RowsInv, ExclusiveWriters, Wrote, Written
<1>2. reg[e].version \in Nat /\ tx[t].seen[e].version \in Nat \cup {-1}
  BY SeenType DEF RowsInv, TypeOK, Row, NoVersion
<1>3. tx[t].seen[e].version = reg[e].version
  BY <1>1, <1>2
<1>. QED BY <1>3 DEF RowsInv, VersionNamesRow

(* The four ways in which a commit changes rows.                           *)
EditCommit(t) ==
    /\ tx[t].call.op \in EditOps
    /\ tx[t].cand \in Outcomes(tx[t].call.op, tx[t].seen["staging"].payload)
    /\ ~BlindEdits => tx[t].seen["staging"] = reg["staging"]
    /\ Puts([e \in {"staging"} |-> tx[t].cand])

RevertCommit(t) ==
    Puts([e \in {"staging"} |-> tx[t].seen["production"].payload])

PromoteCommit(t) ==
    /\ WellFormed(tx[t].seen["staging"].payload)
    /\ Puts([e \in {"production", "previous_production"} |->
                IF e = "production" THEN tx[t].seen["staging"].payload
                                    ELSE reg["production"].payload])

UndoCommit(t) ==
    /\ reg["previous_production"].payload.version # EmptyVersion
    /\ Puts([e \in {"production", "previous_production"} |->
                IF e = "production" THEN reg["previous_production"].payload
                                    ELSE EmptyRegistry])

LEMMA CommitIsAtomic ==
  ASSUME RowsInv, EditInv, FlowOK, CarefulInv, ApiRotations, NEW t \in Request, Commit(t)
  PROVE  \/ UNCHANGED reg
         \/ EditCommit(t) \/ RevertCommit(t) \/ PromoteCommit(t) \/ UndoCommit(t)
<1> DEFINE r == tx[t]
           w(E) == [e \in E |-> r.buf[e].payload]
<1>1. /\ Flow(r) /\ r.pc \in {"done", "failed"} /\ r.pc # "idle"
      /\ r.call \in Calls /\ r.call.op \in Ops /\ r.call.op # "restore"
      /\ r.call.op \in LifecycleOps => r.pc = "done"
  BY StepTellsOp DEF FlowOK, Commit, Commits, At, ApiRotations, Flow
<1>2. ASSUME \A e \in Env : ~Wrote(r, e) PROVE UNCHANGED reg
  <2>1. reg \in [Env -> Row]
    BY DEF RowsInv, TypeOK
  <2>. QED BY <1>2, <2>1 DEF Commit, Written, Wrote
<1>3. \A E \in SUBSET Env : (\A e \in Env : Wrote(r, e) <=> e \in E) => Puts(w(E))
  BY CommitPuts
<1>4. {"staging"} \in SUBSET Env /\ {"production", "previous_production"} \in SUBSET Env
  BY DEF Env
<1>5. CASE r.call.op \in EditOps
  <2>1. EditFlow(r)
    BY <1>1, <1>5 DEF Flow
  <2>2. CASE Wrote(r, "staging")
    <3>1. /\ r.pc = "done" /\ r.buf["staging"].payload = r.cand
          /\ r.cand \in Outcomes(r.call.op, r.seen["staging"].payload)
          /\ \A e \in Env : Wrote(r, e) <=> e \in {"staging"}
      BY <2>1, <2>2 DEF EditFlow, Env
    <3>2. ~BlindEdits => r.seen["staging"] = reg["staging"]
      <4>1. ~BlindEdits => tx[t].given <= tx[t].seen["staging"].version
        BY <1>5, <3>1 DEF CarefulInv
      <4>. QED BY <1>5, <2>1, <2>2, <4>1, NamedEditIsCurrent DEF EditFlow, Named, Written, Wrote
    <3>3. Puts(w({"staging"}))
      BY <1>3, <1>4, <3>1
    <3>4. w({"staging"}) = [e \in {"staging"} |-> r.cand]
      BY <3>1
    <3>. QED BY <1>5, <3>1, <3>2, <3>3, <3>4 DEF EditCommit
  <2>. QED BY <1>2, <2>1, <2>2 DEF EditFlow, Env
<1>6. CASE r.call.op = "revert"
  <2>1. RevertFlow(r)
    BY <1>1, <1>6 DEF Flow
  <2>2. CASE Wrote(r, "staging")
    <3>1. /\ r.buf["staging"].payload = r.seen["production"].payload
          /\ \A e \in Env : Wrote(r, e) <=> e \in {"staging"}
      BY <2>1, <2>2 DEF RevertFlow, Env
    <3>2. Puts(w({"staging"}))
      BY <1>3, <1>4, <3>1
    <3>3. w({"staging"}) = [e \in {"staging"} |-> r.seen["production"].payload]
      BY <3>1
    <3>. QED BY <3>2, <3>3 DEF RevertCommit
  <2>. QED BY <1>2, <2>1, <2>2 DEF RevertFlow, Env
<1>7. CASE r.call.op = "promote"
  <2>1. PromoteFlow(r) /\ r.pc = "done"
    BY <1>1, <1>7 DEF Flow, LifecycleOps
  <2>2. /\ \A e \in Env : Wrote(r, e) <=> e \in {"production", "previous_production"}
        /\ r.buf["production"].payload = r.seen["staging"].payload
        /\ r.buf["previous_production"].payload = r.seen["production"].payload
        /\ r.buf["production"].version = r.seen["production"].version + 1
        /\ WellFormed(r.seen["staging"].payload)
    BY <2>1 DEF PromoteFlow, Env, Valid
  <2>3. r.seen["production"] = reg["production"]
    BY <2>2, SavedOverLoaded DEF Env
  <2>4. Puts(w({"production", "previous_production"}))
    BY <1>3, <1>4, <2>2
  <2>5. w({"production", "previous_production"})
          = [e \in {"production", "previous_production"} |->
                IF e = "production" THEN r.seen["staging"].payload
                                    ELSE reg["production"].payload]
    BY <2>2, <2>3
  <2>. QED BY <2>2, <2>4, <2>5 DEF PromoteCommit
<1>8. CASE r.call.op = "undo"
  <2>1. UndoFlow(r) /\ r.pc = "done"
    BY <1>1, <1>8 DEF Flow, LifecycleOps
  <2>2. /\ \A e \in Env : Wrote(r, e) <=> e \in {"production", "previous_production"}
        /\ r.buf["production"].payload = r.seen["previous_production"].payload
        /\ r.buf["previous_production"].payload = EmptyRegistry
        /\ r.buf["previous_production"].version = r.seen["previous_production"].version + 1
        /\ r.seen["previous_production"].payload.version # EmptyVersion
    BY <2>1 DEF UndoFlow, UndoSteps, Env
  <2>3. r.seen["previous_production"] = reg["previous_production"]
    BY <2>2, SavedOverLoaded DEF Env
  <2>4. Puts(w({"production", "previous_production"}))
    BY <1>3, <1>4, <2>2
  <2>5. w({"production", "previous_production"})
          = [e \in {"production", "previous_production"} |->
                IF e = "production" THEN reg["previous_production"].payload
                                    ELSE EmptyRegistry]
    BY <2>2, <2>3
  <2>. QED BY <2>2, <2>3, <2>4, <2>5 DEF UndoCommit
<1>9. CASE r.call.op \in ConnOps
  BY <1>1, <1>2, <1>9 DEF Flow, Wrote, NoRows
<1>. QED BY <1>1, <1>5, <1>6, <1>7, <1>8, <1>9 DEF Ops, LifecycleOps

(* Rows change at commits only.                                            *)
LEMMA OnlyCommitsWrite ==
  ASSUME TypeOK, [Next]_vars
  PROVE  UNCHANGED reg \/ \E t \in Request : Commit(t)
<1>1. CASE UNCHANGED vars
  BY <1>1 DEF vars
<1>2. ASSUME NEW t \in Request, Reads(t)
      PROVE  UNCHANGED reg
  BY <1>2 DEF Reads, Local
<1>3. ASSUME NEW t \in Request, Saves(t)
      PROVE  UNCHANGED reg
  BY <1>3 DEF Saves, Save
<1>4. ASSUME NEW t \in Request, Discard(t)
      PROVE  UNCHANGED reg
  BY <1>4 DEF Discard
<1>. QED BY <1>1, <1>2, <1>3, <1>4, StepKinds

-----------------------------------------------------------------------------
(* Production and its backup change together or not at all: a promote      *)
(* makes the replaced production the backup, an undo makes the backup      *)
(* production and clears the slot; both of the rows as they are at the     *)
(* commit. It takes REST's rollback: ApiRotations is needed.               *)
THEOREM RotationIsAtomic == ApiRotations => (Spec => RotationAtomic)
<1> DEFINE Rotates ==
      \/ UNCHANGED <<reg["production"], reg["previous_production"]>>
      \/ /\ reg'["production"] # reg["production"]
         /\ reg'["previous_production"] # reg["previous_production"]
         /\ RotatesForward \/ RotatesBack
<1> SUFFICES ASSUME ApiRotations PROVE Spec => RotationAtomic
  OBVIOUS
<1>1. ASSUME RowsInv, EditInv, FlowOK, CarefulInv, [Next]_vars PROVE Rotates
  <2>1. CASE UNCHANGED reg
    BY <2>1
  <2>2. \A e \in Env : reg[e].version \in Nat
    BY <1>1 DEF RowsInv, TypeOK, Row
  <2>3. ASSUME NEW t \in Request, EditCommit(t) \/ RevertCommit(t) PROVE Rotates
    BY <2>3 DEF EditCommit, RevertCommit, Puts, Env
  <2>4. ASSUME NEW t \in Request, PromoteCommit(t) PROVE Rotates
    <3>1. /\ reg'["production"].version = reg["production"].version + 1
          /\ reg'["previous_production"].version = reg["previous_production"].version + 1
          /\ reg'["previous_production"].payload = reg["production"].payload
      BY <2>4 DEF PromoteCommit, Puts, Env
    <3>. QED BY <2>2, <3>1 DEF Env, RotatesForward
  <2>5. ASSUME NEW t \in Request, UndoCommit(t) PROVE Rotates
    <3>1. /\ reg'["production"].version = reg["production"].version + 1
          /\ reg'["previous_production"].version = reg["previous_production"].version + 1
          /\ reg'["production"].payload = reg["previous_production"].payload
          /\ reg'["previous_production"].payload = EmptyRegistry
          /\ reg["previous_production"].payload.version # EmptyVersion
      BY <2>5 DEF UndoCommit, Puts, Env
    <3>. QED BY <2>2, <3>1 DEF Env, RotatesBack
  <2>. QED BY <1>1, <2>1, <2>3, <2>4, <2>5, OnlyCommitsWrite, CommitIsAtomic DEF RowsInv
<1>2. RowsInv => TypeOK
  BY DEF RowsInv
<1>3. RowsInv /\ EditInv /\ FlowOK /\ CarefulInv /\ [Next]_vars => [Rotates]_vars
  BY <1>1
<1>. QED BY <1>2, <1>3, RowsInductive, EditsInductive, FlowInductive, CarefulInductive, PTL
     DEF Spec, RotationAtomic

-----------------------------------------------------------------------------
(* Well-formed registries. Only restore-registry stores what nothing has   *)
(* validated: it must have been given well-formed files.                   *)

SoundRestores ==
    (\E c \in Calls : c.op = "restore") => \A q \in Incoming : WellFormed(q)

(* Whatever a request has in hand was well formed when it read it.         *)
Sound(r) ==
    /\ WellFormed(r.cand)
    /\ \A e \in Env : WellFormed(r.seen[e].payload) /\ WellFormed(r.buf[e].payload)

AllSound == StoredWellFormed /\ \A t \in Request : Sound(tx[t])

LEMMA EmptyIsSound == WellFormed(EmptyRegistry) /\ Sound(Idle)
<1>1. Present(EmptyRegistry) = {}
  BY DEF EmptyRegistry, Present
<1>2. WellFormed(EmptyRegistry)
  BY <1>1 DEF WellFormed, Resolved, Agreeing, Acyclic
<1>. QED BY <1>2 DEF Sound, Idle, NoRows, NoRow

(* What nothing refers to may go.                                          *)
LEMMA RemovalIsSound ==
  ASSUME NEW p \in Payload, WellFormed(p), NEW q \in RemoveResults(p)
  PROVE  WellFormed(q)
<1>1. PICK r \in Rid : Referrers(p, r) = {} /\ q = Remove(p, r)
  BY DEF RemoveResults
<1>2. /\ q.defs[r] = Absent
      /\ \A s \in Rid \ {r} : q.defs[s] = p.defs[s]
  BY <1>1 DEF Remove, Payload
<1>3. Present(q) = Present(p) \ {r}
  BY <1>2 DEF Present
<1>4. \A s \in Present(p) : r \notin p.defs[s].refs
  BY <1>1 DEF Referrers
<1>5. Present(p) \subseteq Rid
  BY DEF Present
<1>6. \A s \in Present(q) : s \in Present(p) /\ q.defs[s] = p.defs[s]
  BY <1>2, <1>3, <1>5
<1>7. Resolved(q)
  BY <1>3, <1>4, <1>6 DEF WellFormed, Resolved
<1>8. Agreeing(q)
  BY <1>3, <1>6 DEF WellFormed, Agreeing
<1>9. Acyclic(q)
  BY <1>3, <1>6 DEF WellFormed, Acyclic
<1>. QED BY <1>7, <1>8, <1>9 DEF WellFormed

LEMMA LoadIsSound ==
  ASSUME TypeOK, AllSound, NEW t \in Request, NEW e \in Env, NEW next, Load(t, e, next)
  PROVE  Sound(tx'[t])
<1>1. /\ Keeps(tx[t], tx'[t]) /\ tx'[t].seen[e] = reg[e]
      /\ \A f \in Env \ {e} : tx'[t].seen[f] = tx[t].seen[f]
  BY LoadSets
<1>. QED BY <1>1 DEF AllSound, Sound, StoredWellFormed, Keeps

LEMMA SaveIsSound ==
  ASSUME TypeOK, AllSound, NEW t \in Request, NEW e \in Env, NEW p, NEW x, NEW next,
         Save(t, e, p, x, next), WellFormed(p)
  PROVE  Sound(tx'[t])
<1>1. /\ tx'[t].cand = tx[t].cand /\ tx'[t].seen = tx[t].seen
      /\ \/ tx'[t].buf = tx[t].buf
         \/ /\ tx'[t].buf[e].payload = p
            /\ \A f \in Env \ {e} : tx'[t].buf[f] = tx[t].buf[f]
  BY SaveSets
<1>. QED BY <1>1 DEF AllSound, Sound

LEMMA StatementsAreSound ==
  ASSUME TypeOK, FlowOK, AllSound, SoundRestores, NEW t \in Request,
         \/ Edit(t) \/ Promote(t) \/ Revert(t) \/ Undo(t) \/ Connections(t) \/ Restore(t)
  PROVE  Sound(tx'[t])
<1>1. tx \in [Request -> Tx] /\ tx[t] \in Tx /\ Sound(tx[t]) /\ Flow(tx[t])
  BY DEF TypeOK, AllSound, FlowOK
<1>2. \A e \in Env : WellFormed(tx[t].seen[e].payload)
  BY <1>1 DEF Sound
<1>3. CASE EditCompute(t)
  <2>1. PICK p \in Results(tx[t].call.op, Base(t)) :
          /\ tx[t].call.op = "delete" \/ Valid(p, conns)
          /\ tx' = [tx EXCEPT ![t] = [@ EXCEPT !.cand = p, !.known = Looked(t),
                                               !.pc = "edit_reload"]]
    BY <1>3 DEF EditCompute
  <2>2. Base(t) \in Payload /\ WellFormed(Base(t))
    BY <1>2, SeenType DEF Base, Env
  <2>3. WellFormed(p)
    BY <2>1, <2>2, RemovalIsSound DEF Results, Valid
  <2>4. tx'[t].cand = p /\ tx'[t].seen = tx[t].seen /\ tx'[t].buf = tx[t].buf
    BY <1>1, <2>1 DEF Tx
  <2>. QED BY <1>1, <2>3, <2>4 DEF Sound
<1>4. CASE EditLoad(t) \/ PromoteLoadStaging(t) \/ PromoteLoadProduction(t)
           \/ PromoteLoadPrevious(t) \/ RevertLoadProduction(t) \/ RevertLoadStaging(t)
           \/ UndoLoadPrevious(t) \/ UndoLoadProduction(t)
           \/ ConnectionScanStaging(t) \/ ConnectionScanProduction(t) \/ RestoreLoad(t)
  <2>1. PICK e, next : e \in Env /\ Load(t, e, next)
    BY <1>4 DEF EditLoad, PromoteLoadStaging, PromoteLoadProduction, PromoteLoadPrevious,
       RevertLoadProduction, RevertLoadStaging, UndoLoadPrevious, UndoLoadProduction,
       ConnectionScanStaging, ConnectionScanProduction, ConnectionScan, RestoreLoad, Env
  <2>. QED BY <2>1, LoadIsSound
<1>5. CASE EditRefused(t)
  <2>1. Keeps(tx[t], tx'[t]) /\ tx'[t].seen = tx[t].seen
    BY <1>5, FailSets DEF EditRefused
  <2>. QED BY <1>1, <2>1 DEF Sound, Keeps
<1>6. CASE EditReload(t) \/ PromoteConnections(t) \/ ConnectionInsert(t) \/ ConnectionDelete(t)
  <2>1. tx'[t].cand = tx[t].cand /\ tx'[t].seen = tx[t].seen /\ tx'[t].buf = tx[t].buf
    <3>1. CASE EditReload(t)
      BY <1>1, <3>1 DEF EditReload, Tx
    <3>2. CASE PromoteConnections(t)
      BY <1>1, <3>2 DEF PromoteConnections, Tx
    <3>3. CASE ConnectionInsert(t) \/ ConnectionDelete(t)
      BY <1>1, <3>3 DEF ConnectionInsert, ConnectionDelete, Tx
    <3>. QED BY <1>6, <3>1, <3>2, <3>3
  <2>. QED BY <1>1, <2>1 DEF Sound
<1>7. CASE EditSave(t)
  <2>1. PICK x, next : Save(t, "staging", tx[t].cand, x, next) /\ "staging" \in Env
    BY <1>7 DEF EditSave, Env
  <2>. QED BY <1>1, <2>1, SaveIsSound DEF Sound
<1>8. CASE PromoteSavePrevious(t) \/ PromoteSaveProduction(t) \/ RevertSaveStaging(t)
           \/ UndoSaveProduction(t)
  <2>1. PICK e, f, x, next :
          e \in Env /\ f \in Env /\ Save(t, e, tx[t].seen[f].payload, x, next)
    BY <1>8 DEF PromoteSavePrevious, PromoteSaveProduction, RevertSaveStaging,
       UndoSaveProduction, Env
  <2>. QED BY <1>2, <2>1, SaveIsSound
<1>9. CASE UndoClearPrevious(t)
  <2>1. PICK e, x, next : e \in Env /\ Save(t, e, EmptyRegistry, x, next)
    BY <1>9 DEF UndoClearPrevious, Env
  <2>. QED BY <2>1, SaveIsSound, EmptyIsSound
<1>10. CASE RestoreSave(t)
  <2>1. tx[t].call.op = "restore" /\ tx[t].call \in Calls
    BY <1>1, <1>10, StepTellsOp DEF RestoreSave, At, RestoreSteps, Flow
  <2>2. PICK e, p, x, next : e \in Env /\ p \in Incoming /\ Save(t, e, p, x, next)
    BY <1>10 DEF RestoreSave
  <2>. QED BY <2>1, <2>2, SaveIsSound DEF SoundRestores
<1>. QED BY <1>3, <1>4, <1>5, <1>6, <1>7, <1>8, <1>9, <1>10
         DEF Edit, Promote, Revert, Undo, Connections, Restore

LEMMA SoundInductive ==
  ASSUME SoundRestores
  PROVE  /\ Init => AllSound
         /\ TypeOK /\ FlowOK /\ AllSound /\ [Next]_vars => AllSound'
<1>1. Init => AllSound
  BY EmptyIsSound DEF Init, AllSound, StoredWellFormed
<1>2. ASSUME TypeOK, FlowOK, AllSound, [Next]_vars PROVE AllSound'
  <2>1. CASE UNCHANGED vars
    BY <1>2, <2>1 DEF vars, AllSound, Sound, StoredWellFormed
  <2>2. ASSUME NEW t \in Request, Alone(t), UNCHANGED reg, Sound(tx'[t]) PROVE AllSound'
    BY <1>2, <2>2 DEF AllSound, Sound, Alone, StoredWellFormed
  <2>3. ASSUME NEW t \in Request, Begin(t) PROVE AllSound'
    <3>1. /\ Alone(t) /\ UNCHANGED reg /\ tx'[t].cand = tx[t].cand
          /\ tx'[t].seen = tx[t].seen /\ tx'[t].buf = tx[t].buf
      BY <1>2, <2>3, BeginFlows DEF FlowOK
    <3>2. Sound(tx'[t])
      BY <1>2, <3>1 DEF AllSound, Sound
    <3>. QED BY <2>2, <3>1, <3>2
  <2>4. ASSUME NEW t \in Request,
               Edit(t) \/ Promote(t) \/ Revert(t) \/ Undo(t) \/ Connections(t) \/ Restore(t)
        PROVE  AllSound'
    <3>1. Alone(t) /\ UNCHANGED reg
      BY <1>2, <2>4, EditFlows, PromoteFlows, RevertFlows, UndoFlows, ConnectionFlows, RestoreFlows
      DEF FlowOK
    <3>. QED BY <1>2, <2>2, <2>4, <3>1, StatementsAreSound
  <2>5. ASSUME NEW t \in Request, Commit(t) PROVE AllSound'
    <3>1. tx'[t] = Idle /\ Alone(t)
      BY <1>2, <2>5, EndFlows
    <3>2. \A e \in Env : reg'[e] \in {tx[t].buf[e], reg[e]}
      BY <2>5 DEF Commit
    <3>3. \A e \in Env : WellFormed(reg'[e].payload)
      BY <1>2, <3>2 DEF AllSound, Sound, StoredWellFormed
    <3>4. \A u \in Request : Sound(tx'[u])
      BY <1>2, <3>1, EmptyIsSound DEF AllSound, Alone
    <3>. QED BY <3>3, <3>4 DEF AllSound, StoredWellFormed, Sound
  <2>6. ASSUME NEW t \in Request, Discard(t) PROVE AllSound'
    BY <1>2, <2>2, <2>6, EndFlows, EmptyIsSound DEF Discard
  <2>. QED BY <1>2, <2>1, <2>3, <2>4, <2>5, <2>6
           DEF Next, Run, Rollback, DeadlockVictim, Crash, Quiet
<1>. QED BY <1>1, <1>2

(* Every stored registry resolves its references, although deletes skip    *)
(* the validator, life-cycle requests copy rows they read some time ago,   *)
(* and half of a request may be committed.                                 *)
THEOREM StoredIsWellFormed == SoundRestores => (Spec => []StoredWellFormed)
<1> SUFFICES ASSUME SoundRestores PROVE Spec => []StoredWellFormed
  OBVIOUS
<1>1. AllSound => StoredWellFormed
  BY DEF AllSound
<1>2. RowsInv => TypeOK
  BY DEF RowsInv
<1>3. /\ Init => AllSound
      /\ TypeOK /\ FlowOK /\ AllSound /\ [Next]_vars => AllSound'
  BY SoundInductive
<1>. QED BY <1>1, <1>2, <1>3, RowsInductive, FlowInductive, PTL DEF Spec

-----------------------------------------------------------------------------
(* The refinement. A request copies what a row holds, or once held.        *)

PastOK ==
    /\ past = [e \in Env |-> past[e]]
    /\ \A e \in Env : EmptyRegistry \in past[e] /\ reg[e].payload \in past[e]
    /\ \A t \in Request, e \in Env : tx[t].seen[e].payload \in past[e]

Grows == past' = [e \in Env |-> past[e] \cup {reg'[e].payload}]

LEMMA SeenStaysPast ==
  ASSUME TypeOK, Next
  PROVE  \A t \in Request, e \in Env :
            tx'[t].seen[e] \in {tx[t].seen[e], reg[e], NoRow}
<1>1. CASE UNCHANGED vars
  BY <1>1 DEF vars
<1>2. ASSUME NEW t \in Request, Reads(t)
      PROVE  \A u \in Request, e \in Env : tx'[u].seen[e] \in {tx[u].seen[e], reg[e], NoRow}
  <2>1. PICK r \in Tx : Local(t, r)
    BY <1>2 DEF Reads
  <2>2. /\ \A u \in Request : u # t => tx'[u] = tx[u]
        /\ tx'[t] = r
    BY <2>1 DEF TypeOK, Local
  <2>. QED BY <2>1, <2>2 DEF Local
<1>3. ASSUME NEW t \in Request, Saves(t)
      PROVE  \A u \in Request, e \in Env : tx'[u].seen[e] \in {tx[u].seen[e], reg[e], NoRow}
  <2>1. PICK e \in Env, p \in Payload, x \in Nat \cup {NoVersion}, next \in Steps :
          Save(t, e, p, x, next)
    BY <1>3 DEF Saves
  <2>2. tx'[t].seen = tx[t].seen /\ Alone(t)
    BY <2>1, SaveSets
  <2>. QED BY <2>2 DEF Alone
<1>4. ASSUME NEW t \in Request, Commit(t) \/ Discard(t)
      PROVE  \A u \in Request, e \in Env : tx'[u].seen[e] \in {tx[u].seen[e], reg[e], NoRow}
  <2>1. tx'[t] = Idle /\ Alone(t)
    BY <1>4, EndFlows
  <2>2. \A e \in Env : Idle.seen[e] = NoRow
    BY DEF Idle, NoRows
  <2>. QED BY <2>1, <2>2 DEF Alone
<1>. QED BY <1>1, <1>2, <1>3, <1>4, StepKinds

LEMMA PastInductive ==
  /\ HInit => PastOK
  /\ TypeOK /\ PastOK /\ [HNext]_<<vars, past>> => PastOK'
<1>1. HInit => PastOK
  BY DEF HInit, Init, PastOK, Idle, NoRows, NoRow
<1>2. ASSUME TypeOK, PastOK, [HNext]_<<vars, past>> PROVE PastOK'
  <2>1. CASE UNCHANGED <<vars, past>>
    BY <1>2, <2>1 DEF PastOK, vars
  <2>2. CASE Next /\ Grows
    <3>1. \A e \in Env : past'[e] = past[e] \cup {reg'[e].payload}
      BY <2>2 DEF Grows
    <3>2. \A t \in Request, e \in Env :
             tx'[t].seen[e] \in {tx[t].seen[e], reg[e], NoRow}
      BY <1>2, <2>2, SeenStaysPast
    <3>3. NoRow.payload = EmptyRegistry
      BY DEF NoRow
    <3>4. \A t \in Request, e \in Env : tx'[t].seen[e].payload \in past'[e]
      BY <1>2, <3>1, <3>2, <3>3 DEF PastOK
    <3>5. past' = [e \in Env |-> past'[e]]
      BY <2>2 DEF Grows
    <3>. QED BY <1>2, <3>1, <3>4, <3>5 DEF PastOK
  <2>. QED BY <1>2, <2>1, <2>2 DEF HNext, Grows
<1>. QED BY <1>1, <1>2

(* The two modules share RegistryPayload.                                  *)
LEMMA SamePayloads ==
  /\ Atomic!Env = Env /\ Atomic!EmptyRegistry = EmptyRegistry /\ Atomic!EmptyVersion = EmptyVersion
  /\ \A p : /\ Atomic!WellFormed(p) <=> WellFormed(p)
            /\ Atomic!PutResults(p) = PutResults(p)
            /\ Atomic!MappingResults(p) = MappingResults(p)
            /\ Atomic!ImportResults(p) = ImportResults(p)
            /\ Atomic!RemoveResults(p) = RemoveResults(p)
<1>1. /\ Atomic!Env = Env /\ Atomic!EmptyRegistry = EmptyRegistry
      /\ Atomic!EmptyVersion = EmptyVersion
  BY DEF Atomic!Env, Env, Atomic!EmptyRegistry, EmptyRegistry, Atomic!EmptyVersion, EmptyVersion
<1>2. ASSUME NEW p PROVE Atomic!Present(p) = Present(p)
  BY DEF Atomic!Present, Present
<1>3. ASSUME NEW p PROVE Atomic!WellFormed(p) <=> WellFormed(p)
  BY DEF Atomic!WellFormed, WellFormed, Atomic!Resolved, Resolved, Atomic!Agreeing, Agreeing,
     Atomic!Acyclic, Acyclic, Atomic!Present, Present
<1>4. ASSUME NEW p PROVE Atomic!PutResults(p) = PutResults(p)
  BY DEF Atomic!PutResults, PutResults, Atomic!Put, Put
<1>5. ASSUME NEW p PROVE Atomic!MappingResults(p) = MappingResults(p)
  BY DEF Atomic!MappingResults, MappingResults, Atomic!Bind, Bind, Atomic!Present, Present
<1>6. ASSUME NEW p PROVE Atomic!ImportResults(p) = ImportResults(p)
  BY DEF Atomic!ImportResults, ImportResults, Atomic!Import, Import, Atomic!Merge, Merge,
     Atomic!Present, Present
<1>7. ASSUME NEW p PROVE Atomic!RemoveResults(p) = RemoveResults(p)
  BY DEF Atomic!RemoveResults, RemoveResults, Atomic!Remove, Remove,
     Atomic!Referrers, Referrers, Atomic!Present, Present
<1>. QED BY <1>1, <1>3, <1>4, <1>5, <1>6, <1>7

LEMMA PutsIsWrite ==
  ASSUME NEW w, Puts(w), Grows
  PROVE  Atomic!Write(w)
BY SamePayloads DEF Puts, Grows, Atomic!Write

(* Every kind of commit is the atomic step of the same name.               *)
LEMMA EditRefines ==
  ASSUME TypeOK, PastOK, NEW t \in Request, EditCommit(t), Grows
  PROVE  Atomic!Edit
<1> DEFINE b == tx[t].seen["staging"].payload
           p == tx[t].cand
<1>1. b \in Atomic!Bases
  <2>1. b \in past["staging"]
    BY DEF PastOK, Env
  <2>2. ~BlindEdits => b = reg["staging"].payload
    BY DEF EditCommit
  <2>. QED BY <2>1, <2>2 DEF Atomic!Bases, Atomic!Current
<1>2. p \in Atomic!RemoveResults(b) \cup
            {q \in Atomic!PutResults(b) \cup Atomic!MappingResults(b) \cup Atomic!ImportResults(b) :
               Atomic!WellFormed(q)}
  <2>1. p \in Outcomes(tx[t].call.op, b)
    BY DEF EditCommit
  <2>2. CASE tx[t].call.op = "delete"
    BY <2>1, <2>2, SamePayloads DEF Outcomes
  <2>3. CASE tx[t].call.op # "delete"
    <3>1. WellFormed(p) /\ p \in Results(tx[t].call.op, b)
      BY <2>1, <2>3 DEF Outcomes
    <3>2. p \in PutResults(b) \cup MappingResults(b) \cup ImportResults(b)
      BY <2>3, <3>1 DEF Results
    <3>. QED BY <3>1, <3>2, SamePayloads
  <2>. QED BY <2>2, <2>3
<1>3. Atomic!Write([e \in {"staging"} |-> p])
  BY PutsIsWrite DEF EditCommit
<1> HIDE DEF b, p
<1>. QED BY <1>1, <1>2, <1>3 DEF Atomic!Edit

LEMMA CommitRefines ==
  ASSUME TypeOK, PastOK, Grows, NEW t \in Request,
         EditCommit(t) \/ RevertCommit(t) \/ PromoteCommit(t) \/ UndoCommit(t)
  PROVE  Atomic!Next
<1>1. tx[t].seen["production"].payload \in past["production"]
      /\ tx[t].seen["staging"].payload \in past["staging"]
  BY DEF PastOK, Env
<1>2. CASE EditCommit(t)
  BY <1>2, EditRefines DEF Atomic!Next
<1>3. CASE RevertCommit(t)
  BY <1>1, <1>3, PutsIsWrite DEF RevertCommit, Atomic!Revert, Atomic!Next
<1>4. CASE PromoteCommit(t)
  <2>1. Atomic!WellFormed(tx[t].seen["staging"].payload)
    BY <1>4, SamePayloads DEF PromoteCommit
  <2>2. Atomic!Write([e \in {"production", "previous_production"} |->
                         IF e = "production" THEN tx[t].seen["staging"].payload
                                             ELSE Atomic!Current("production")])
    BY <1>4, PutsIsWrite DEF PromoteCommit, Atomic!Current
  <2>. QED BY <1>1, <2>1, <2>2 DEF Atomic!Promote, Atomic!Next
<1>5. CASE UndoCommit(t)
  <2>1. Atomic!Current("previous_production").version # Atomic!EmptyVersion
    BY <1>5, SamePayloads DEF UndoCommit, Atomic!Current
  <2>2. Atomic!Write([e \in {"production", "previous_production"} |->
                         IF e = "production" THEN Atomic!Current("previous_production")
                                             ELSE Atomic!EmptyRegistry])
    BY <1>5, PutsIsWrite, SamePayloads DEF UndoCommit, Atomic!Current
  <2>. QED BY <2>1, <2>2 DEF Atomic!Undo, Atomic!Next
<1>. QED BY <1>2, <1>3, <1>4, <1>5

(* Statement by statement, with locks, stale loads, deadlocks and crashes, *)
(* the requests amount to atomic steps on the three rows.                  *)
THEOREM RegistryIsAtomic == ApiRotations => (HSpec => ImplementsAtomic)
<1> SUFFICES ASSUME ApiRotations PROVE HSpec => ImplementsAtomic
  OBVIOUS
<1>1. HInit => Atomic!Init
  BY SamePayloads DEF HInit, Init, Atomic!Init
<1>2. ASSUME RowsInv, EditInv, FlowOK, CarefulInv, PastOK, [HNext]_<<vars, past>>
      PROVE  [Atomic!Next]_<<reg, past>>
  <2>1. CASE UNCHANGED <<vars, past>>
    BY <2>1 DEF vars
  <2>2. CASE Next /\ Grows
    <3>1. CASE UNCHANGED reg
      <4>1. \A e \in Env : past[e] \cup {reg'[e].payload} = past[e]
        BY <1>2, <3>1 DEF PastOK
      <4>2. past' = past
        BY <1>2, <2>2, <4>1 DEF Grows, PastOK
      <4>. QED BY <3>1, <4>2
    <3>2. ASSUME NEW t \in Request, Commit(t), ~UNCHANGED reg PROVE Atomic!Next
      BY <1>2, <2>2, <3>2, CommitIsAtomic, CommitRefines DEF RowsInv
    <3>. QED BY <1>2, <2>2, <3>1, <3>2, OnlyCommitsWrite DEF RowsInv
  <2>. QED BY <1>2, <2>1, <2>2 DEF HNext, Grows
<1>3. HInit => Init
  BY DEF HInit
<1>4. [HNext]_<<vars, past>> => [Next]_vars
  BY DEF HNext
<1>5. RowsInv => TypeOK
  BY DEF RowsInv
<1>6. RowsInv /\ EditInv /\ FlowOK /\ CarefulInv /\ PastOK /\ [HNext]_<<vars, past>>
        => [Atomic!Next]_<<reg, past>>
  BY <1>2
<1>. QED BY <1>1, <1>3, <1>4, <1>5, <1>6, RowsInductive, EditsInductive, FlowInductive,
            CarefulInductive, PastInductive, PTL DEF HSpec, ImplementsAtomic, Atomic!Spec

-----------------------------------------------------------------------------
(* Bindings. What a request has looked at before it commits, said of its   *)
(* own state: nothing is claimed of the rows as they are by then.          *)

ValidatedOps == {"put", "set_mapping", "import"}
ScanSteps    == {"connection_scan_staging", "connection_scan_production", "connection_delete"}

Clear(r, e) == r.text \cap Bindings(r.seen[e].payload) = {}

Vouched(r) ==
    /\ r.call.op \in ValidatedOps /\ r.pc \in {"edit_reload", "edit_save", "done"} =>
          Bindings(r.cand) \subseteq r.known
    /\ r.pc \in ScanSteps => r.call.op = "delete_connection"
    /\ r.pc \in {"connection_scan_production", "connection_delete"} => Clear(r, "staging")
    /\ r.pc = "connection_delete" => Clear(r, "production")
    /\ r.drop # {} => /\ r.pc = "done" /\ r.call.op = "delete_connection"
                      /\ r.drop = r.target
                      /\ Clear(r, "staging") /\ Clear(r, "production")

AllVouched == \A t \in Request : Vouched(tx[t])

LEMMA EmptyBindsNothing == Bindings(EmptyRegistry) = {} /\ NoRow.payload = EmptyRegistry
BY DEF Bindings, Present, EmptyRegistry, NoRow

LEMMA RemovalBindsLess ==
  ASSUME NEW p \in Payload, NEW q \in RemoveResults(p)
  PROVE  Bindings(q) \subseteq Bindings(p)
<1>1. PICK r \in Rid : q = Remove(p, r)
  BY DEF RemoveResults
<1>2. q.defs[r] = Absent /\ \A s \in Rid \ {r} : q.defs[s] = p.defs[s]
  BY <1>1 DEF Remove, Payload
<1>. QED BY <1>2 DEF Bindings, Present

LEMMA LoadKeepsTarget ==
  ASSUME TypeOK, NEW t \in Request, NEW e, NEW next, Load(t, e, next)
  PROVE  /\ tx'[t].drop = tx[t].drop /\ tx'[t].target = tx[t].target
         /\ tx'[t].text = tx[t].text /\ tx'[t].pc = next /\ tx'[t].call = tx[t].call
<1>1. tx \in [Request -> Tx] /\ tx[t] \in Tx
  BY DEF TypeOK
<1>2. tx' = [tx EXCEPT ![t] = [tx[t] EXCEPT !.seen = [tx[t].seen EXCEPT ![e] = reg[e]], !.pc = next]]
  BY <1>1 DEF Load
<1>. QED BY <1>1, <1>2 DEF Tx

LEMMA SaveKeepsTarget ==
  ASSUME TypeOK, NEW t \in Request, NEW e, NEW p, NEW x, NEW next, Save(t, e, p, x, next)
  PROVE  tx'[t].drop = tx[t].drop /\ tx'[t].pc \in {next, "failed"} /\ tx'[t].call = tx[t].call
<1>1. tx \in [Request -> Tx] /\ tx[t] \in Tx
  BY DEF TypeOK
<1>2. \/ tx' = [tx EXCEPT ![t] = [@ EXCEPT !.buf[e] = [payload |-> p, version |-> x + 1],
                                           !.pc = next]]
      \/ tx' = [tx EXCEPT ![t].pc = "failed"]
  BY DEF Save, Fail, Goto
<1>. QED BY <1>1, <1>2 DEF Tx

(* Most statements have nothing to vouch for.                              *)
LEMMA PlainIsVouched ==
  ASSUME NEW r, NEW q, Vouched(r), r.pc # "done", q.call = r.call, q.drop = r.drop,
         q.pc \notin ScanSteps \cup {"edit_reload", "edit_save"},
         q.pc = "done" => r.call.op \notin ValidatedOps
  PROVE  Vouched(q)
BY DEF Vouched, ScanSteps

LEMMA BeginIsVouched ==
  ASSUME TypeOK, NEW t \in Request, Flow(tx[t]), Vouched(tx[t]), Begin(t)
  PROVE  Vouched(tx'[t])
<1>1. /\ tx'[t].drop = tx[t].drop /\ tx'[t].pc = Entry(tx'[t].call.op) /\ tx'[t].call.op \in Ops
  BY BeginFlows
<1>2. tx[t].drop = {}
  BY DEF Begin, At, Vouched
<1>3. /\ tx'[t].pc \notin {"edit_reload", "edit_save", "done", "connection_scan_production",
                           "connection_delete"}
      /\ tx'[t].pc = "connection_scan_staging" => tx'[t].call.op = "delete_connection"
  BY <1>1 DEF Entry, Ops, EditOps, LifecycleOps, ConnOps
<1>. QED BY <1>1, <1>2, <1>3 DEF Vouched, ScanSteps

LEMMA EditIsVouched ==
  ASSUME TypeOK, NEW t \in Request, Flow(tx[t]), Vouched(tx[t]), Edit(t)
  PROVE  Vouched(tx'[t])
<1> DEFINE r == tx[t]
           q == tx'[t]
<1>1. tx \in [Request -> Tx] /\ r \in Tx /\ "staging" \in Env
  BY DEF TypeOK, Env
<1>2. r.pc \in BeforeSave /\ r.pc \notin {"idle", "done"}
  BY DEF Edit, EditLoad, EditCompute, EditRefused, EditReload, EditSave, At, BeforeSave
<1>3. r.drop = {}
  BY <1>2 DEF Vouched
<1>4. ASSUME q.call = r.call, q.drop = r.drop, q.pc \in {"edit_reload", "edit_save", "done"},
             r.call.op \in ValidatedOps => Bindings(q.cand) \subseteq q.known
      PROVE  Vouched(q)
  BY <1>3, <1>4 DEF Vouched, ScanSteps
<1>5. CASE EditLoad(t)
  <2>1. q.drop = r.drop /\ q.pc = "edit_compute" /\ q.call = r.call
    BY <1>1, <1>5, LoadKeepsTarget DEF EditLoad
  <2>. QED BY <1>2, <2>1, PlainIsVouched DEF ScanSteps
<1>6. CASE EditCompute(t)
  <2>1. PICK p \in Results(r.call.op, Base(t)) :
          /\ r.call.op = "delete" \/ Valid(p, conns)
          /\ tx' = [tx EXCEPT ![t] = [@ EXCEPT !.cand = p, !.known = Looked(t),
                                               !.pc = "edit_reload"]]
    BY <1>6 DEF EditCompute
  <2>2. /\ q.call = r.call /\ q.drop = r.drop /\ q.pc = "edit_reload"
        /\ q.cand = p /\ q.known = Looked(t)
    BY <1>1, <2>1 DEF Tx
  <2>3. r.call.op \in ValidatedOps => Bindings(p) \subseteq Looked(t)
    BY <2>1 DEF ValidatedOps, Looked, Valid
  <2>. QED BY <1>4, <2>2, <2>3
<1>7. CASE EditRefused(t)
  <2>1. q.drop = r.drop /\ q.pc = "failed" /\ q.call = r.call
    BY <1>1, <1>7 DEF EditRefused, Fail, Goto, Tx
  <2>. QED BY <1>2, <2>1, PlainIsVouched DEF ScanSteps
<1>8. CASE EditReload(t)
  <2>1. /\ q.drop = r.drop /\ q.pc = "edit_save" /\ q.call = r.call
        /\ q.cand = r.cand /\ q.known = r.known /\ r.pc = "edit_reload"
    BY <1>1, <1>8 DEF EditReload, Tx, At
  <2>2. r.call.op \in ValidatedOps => Bindings(q.cand) \subseteq q.known
    BY <2>1 DEF Vouched
  <2>. QED BY <1>4, <2>1, <2>2
<1>9. CASE EditSave(t)
  <2>1. r.pc = "edit_save" /\ Save(t, "staging", r.cand, r.expect, "done")
    BY <1>9 DEF EditSave, At
  <2>2. /\ q.drop = r.drop /\ q.call = r.call /\ q.pc \in {"done", "failed"}
        /\ q.cand = r.cand /\ q.known = r.known
    BY <1>1, <2>1, SaveKeepsTarget, SaveSets
  <2>3. r.call.op \in ValidatedOps => Bindings(q.cand) \subseteq q.known
    BY <2>1, <2>2 DEF Vouched
  <2>. QED BY <1>2, <1>4, <2>2, <2>3, PlainIsVouched DEF ScanSteps
<1>. QED BY <1>5, <1>6, <1>7, <1>8, <1>9 DEF Edit

LEMMA RotationIsVouched ==
  ASSUME TypeOK, NEW t \in Request, Flow(tx[t]), Vouched(tx[t]),
         Promote(t) \/ Revert(t) \/ Undo(t) \/ Restore(t)
  PROVE  Vouched(tx'[t])
<1> DEFINE r == tx[t]
           q == tx'[t]
<1> USE DEF At
<1>1. tx \in [Request -> Tx] /\ r \in Tx
  BY DEF TypeOK
<1>2. /\ r.pc \in PromoteSteps \cup RevertSteps \cup UndoSteps \cup RestoreSteps
      /\ \/ UNCHANGED Database /\ q.drop = r.drop /\ q.pc = "promote_load_staging" /\ q.call = r.call
         \/ \E e, next : next \in Steps \ (ScanSteps \cup BeforeSave) /\ Load(t, e, next)
         \/ \E e, p, x, next : next \in Steps \ (ScanSteps \cup BeforeSave) /\ Save(t, e, p, x, next)
  <2> USE DEF PromoteSteps, RevertSteps, UndoSteps, RestoreSteps, ScanSteps, BeforeSave, Steps
  <2>1. CASE PromoteConnections(t)
    BY <1>1, <2>1 DEF PromoteConnections, Tx
  <2>2. CASE PromoteLoadStaging(t) \/ PromoteLoadProduction(t) \/ PromoteLoadPrevious(t)
    BY <2>2 DEF PromoteLoadStaging, PromoteLoadProduction, PromoteLoadPrevious
  <2>3. CASE PromoteSavePrevious(t) \/ PromoteSaveProduction(t)
    BY <2>3 DEF PromoteSavePrevious, PromoteSaveProduction
  <2>4. CASE Revert(t)
    BY <2>4 DEF Revert, RevertLoadProduction, RevertLoadStaging, RevertSaveStaging
  <2>5. CASE UndoLoadPrevious(t) \/ UndoLoadProduction(t)
    BY <2>5 DEF UndoLoadPrevious, UndoLoadProduction
  <2>6. CASE UndoSaveProduction(t) \/ UndoClearPrevious(t)
    BY <2>6 DEF UndoSaveProduction, UndoClearPrevious
  <2>7. CASE Restore(t)
    BY <2>7 DEF Restore, RestoreLoad, RestoreSave
  <2>. QED BY <2>1, <2>2, <2>3, <2>4, <2>5, <2>6, <2>7 DEF Promote, Undo
<1>3. r.pc \notin {"idle", "done"}
  BY <1>2 DEF PromoteSteps, RevertSteps, UndoSteps, RestoreSteps
<1>4. r.call.op \in LifecycleOps \cup {"restore"}
  BY <1>2, <1>3, StepTellsOp DEF LifecycleOps
<1>5. /\ q.drop = r.drop /\ q.call = r.call
      /\ q.pc \notin ScanSteps \cup {"edit_reload", "edit_save"}
  BY <1>2, LoadKeepsTarget, SaveKeepsTarget DEF ScanSteps, BeforeSave
<1>6. r.call.op \notin ValidatedOps
  BY <1>4 DEF LifecycleOps, ValidatedOps
<1>. QED BY <1>3, <1>5, <1>6, PlainIsVouched

LEMMA ConnectionIsVouched ==
  ASSUME TypeOK, NEW t \in Request, Flow(tx[t]), Vouched(tx[t]), Connections(t)
  PROVE  Vouched(tx'[t])
<1> DEFINE r == tx[t]
           q == tx'[t]
<1> USE DEF At
<1>1. tx \in [Request -> Tx] /\ r \in Tx /\ "staging" \in Env /\ "production" \in Env
  BY DEF TypeOK, Env
<1>2. r.pc \in ConnSteps /\ r.pc \notin {"idle", "done"}
  BY DEF Connections, ConnectionInsert, ConnectionScanStaging, ConnectionScanProduction,
     ConnectionScan, ConnectionDelete, ConnSteps
<1>3. r.drop = {} /\ r.call.op \in ConnOps
  BY <1>2, StepTellsOp DEF Vouched
<1>4. r.call.op \notin ValidatedOps
  BY <1>3 DEF ConnOps, ValidatedOps
<1>5. CASE ConnectionInsert(t)
  <2>1. q.drop = r.drop /\ q.call = r.call /\ q.pc = "done"
    BY <1>1, <1>5 DEF ConnectionInsert, Tx
  <2>. QED BY <1>2, <1>4, <2>1, PlainIsVouched DEF ScanSteps
<1>6. CASE ConnectionScanStaging(t)
  <2>1. PICK next :
          /\ next = IF r.text \cap Bindings(reg["staging"].payload) = {}
                      THEN "connection_scan_production" ELSE "failed"
          /\ Load(t, "staging", next) /\ r.pc = "connection_scan_staging"
    BY <1>6 DEF ConnectionScanStaging, ConnectionScan
  <2>2. /\ q.drop = r.drop /\ q.text = r.text /\ q.pc = next /\ q.call = r.call
        /\ q.seen["staging"] = reg["staging"]
    BY <1>1, <2>1, LoadKeepsTarget, LoadSets
  <2>3. r.call.op = "delete_connection"
    BY <2>1 DEF Vouched, ScanSteps
  <2>. QED BY <1>3, <1>4, <2>1, <2>2, <2>3 DEF Vouched, Clear, ScanSteps
<1>7. CASE ConnectionScanProduction(t)
  <2>1. PICK next :
          /\ next = IF r.text \cap Bindings(reg["production"].payload) = {}
                      THEN "connection_delete" ELSE "failed"
          /\ Load(t, "production", next) /\ r.pc = "connection_scan_production"
    BY <1>7 DEF ConnectionScanProduction, ConnectionScan
  <2>2. /\ q.drop = r.drop /\ q.text = r.text /\ q.pc = next /\ q.call = r.call
        /\ q.seen["production"] = reg["production"] /\ q.seen["staging"] = r.seen["staging"]
    BY <1>1, <2>1, LoadKeepsTarget, LoadSets
  <2>3. r.call.op = "delete_connection" /\ Clear(r, "staging")
    BY <2>1 DEF Vouched, ScanSteps
  <2>. QED BY <1>3, <1>4, <2>1, <2>2, <2>3 DEF Vouched, Clear, ScanSteps
<1>8. CASE ConnectionDelete(t)
  <2>1. /\ q.drop = r.target /\ q.target = r.target /\ q.text = r.text /\ q.seen = r.seen
        /\ q.call = r.call /\ q.pc = "done" /\ r.pc = "connection_delete"
    BY <1>1, <1>8 DEF ConnectionDelete, Tx
  <2>2. r.call.op = "delete_connection" /\ Clear(r, "staging") /\ Clear(r, "production")
    BY <2>1 DEF Vouched, ScanSteps
  <2>. QED BY <1>4, <2>1, <2>2 DEF Vouched, Clear, ScanSteps
<1>. QED BY <1>5, <1>6, <1>7, <1>8 DEF Connections

LEMMA VouchedInductive ==
  /\ Init => AllVouched
  /\ TypeOK /\ FlowOK /\ AllVouched /\ [Next]_vars => AllVouched'
<1>1. Vouched(Idle)
  BY DEF Vouched, Idle, ScanSteps
<1>2. Init => AllVouched
  BY <1>1 DEF Init, AllVouched
<1>3. ASSUME TypeOK, FlowOK, AllVouched, [Next]_vars PROVE AllVouched'
  <2>1. CASE UNCHANGED vars
    BY <1>3, <2>1 DEF vars, AllVouched
  <2>2. ASSUME NEW t \in Request, Begin(t) \/ Run(t) \/ DeadlockVictim(t) \/ Crash(t)
        PROVE  AllVouched'
    <3>1. Flow(tx[t]) /\ Vouched(tx[t])
      BY <1>3 DEF FlowOK, AllVouched
    <3>2. CASE Begin(t)
      BY <1>3, <3>1, <3>2, BeginIsVouched, BeginFlows DEF AllVouched, Alone
    <3>3. CASE Edit(t)
      BY <1>3, <3>1, <3>3, EditIsVouched, EditFlows DEF AllVouched, Alone
    <3>4. CASE Promote(t) \/ Revert(t) \/ Undo(t) \/ Restore(t)
      <4>1. Vouched(tx'[t])
        BY <1>3, <3>1, <3>4, RotationIsVouched
      <4>2. Alone(t)
        BY <1>3, <3>1, <3>4, PromoteFlows, RevertFlows, UndoFlows, RestoreFlows
      <4>. QED BY <1>3, <4>1, <4>2 DEF AllVouched, Alone
    <3>5. CASE Connections(t)
      BY <1>3, <3>1, <3>5, ConnectionIsVouched, ConnectionFlows DEF AllVouched, Alone
    <3>6. CASE Commit(t) \/ Discard(t)
      BY <1>1, <1>3, <3>6, EndFlows DEF AllVouched, Alone
    <3>. QED BY <2>2, <3>2, <3>3, <3>4, <3>5, <3>6 DEF Run, Rollback, DeadlockVictim, Crash
  <2>. QED BY <1>3, <2>1, <2>2 DEF Next, Quiet
<1>. QED BY <1>2, <1>3

Live == {"staging", "production"}

LEMMA GroundedCommitKeepsBindings ==
  ASSUME TypeOK, NEW t \in Request, Flow(tx[t]), Vouched(tx[t]), BindingsResolve,
         Grounded(t), Commit(t)
  PROVE  BindingsResolve'
<1> DEFINE r == tx[t]
<1>1. /\ r \in Tx /\ r.pc \in {"done", "failed"} /\ r.pc # "idle"
      /\ \A e \in Live : reg'[e] = IF Wrote(r, e) THEN r.buf[e] ELSE reg[e]
      /\ conns' = (conns \cup r.add) \ r.drop
  BY DEF TypeOK, Commit, Commits, At, Written, Wrote, Live, Env
<1>2. \A e \in Live : Bindings(reg[e].payload) \subseteq conns
  BY DEF BindingsResolve, Live
<1>3. r.call.op \in Ops
  BY <1>1, StepTellsOp
<1>4. ASSUME r.drop = {},
             \A e \in Live : Wrote(r, e) => Bindings(r.buf[e].payload) \subseteq conns
      PROVE  BindingsResolve'
  BY <1>1, <1>2, <1>4 DEF BindingsResolve, Live
<1>5. r.call.op # "delete_connection" => r.drop = {}
  BY DEF Vouched
<1>6. CASE r.call.op \in EditOps
  <2>1. EditFlow(r) /\ r.drop = {}
    BY <1>1, <1>5, <1>6 DEF Flow, EditOps
  <2>2. ASSUME Wrote(r, "staging") PROVE Bindings(r.buf["staging"].payload) \subseteq conns
    <3>1. /\ r.pc = "done" /\ r.buf["staging"].payload = r.cand
          /\ r.cand \in Outcomes(r.call.op, r.seen["staging"].payload)
      BY <2>1, <2>2 DEF EditFlow
    <3>2. CASE r.call.op = "delete"
      <4>1. r.seen["staging"] = reg["staging"]
        BY <3>2 DEF Grounded, StillSeen
      <4>2. reg["staging"].payload \in Payload
        BY DEF TypeOK, Row, Env
      <4>3. r.cand \in RemoveResults(reg["staging"].payload)
        BY <3>1, <3>2, <4>1 DEF Outcomes
      <4>. QED BY <1>2, <3>1, <4>2, <4>3, RemovalBindsLess DEF Live
    <3>3. CASE r.call.op \in ValidatedOps
      <4>1. r.known \subseteq conns
        BY <3>3 DEF Grounded, ValidatedOps
      <4>2. Bindings(r.cand) \subseteq r.known
        BY <3>1, <3>3 DEF Vouched
      <4>. QED BY <3>1, <4>1, <4>2
    <3>. QED BY <1>6, <3>2, <3>3 DEF EditOps, ValidatedOps
  <2>. QED BY <1>4, <2>1, <2>2 DEF EditFlow, Live
<1>7. CASE r.call.op = "promote"
  <2>1. PromoteFlow(r) /\ r.drop = {} /\ r.known \subseteq conns
    BY <1>1, <1>5, <1>7 DEF Flow, Grounded
  <2>2. ASSUME Wrote(r, "production") PROVE Bindings(r.buf["production"].payload) \subseteq conns
    BY <2>1, <2>2 DEF PromoteFlow, Valid
  <2>. QED BY <1>4, <2>1, <2>2 DEF PromoteFlow, Live
<1>8. CASE r.call.op = "revert"
  <2>1. RevertFlow(r) /\ r.drop = {} /\ r.seen["production"] = reg["production"]
    BY <1>1, <1>5, <1>8 DEF Flow, Grounded, StillSeen
  <2>2. ASSUME Wrote(r, "staging") PROVE Bindings(r.buf["staging"].payload) \subseteq conns
    BY <1>2, <2>1, <2>2 DEF RevertFlow, Live
  <2>. QED BY <1>4, <2>1, <2>2 DEF RevertFlow, Live
<1>9. CASE r.call.op \in ConnOps
  <2>1. \A e \in Live : ~Wrote(r, e)
    BY <1>1, <1>9 DEF Flow, Wrote, NoRows, Live, Env
  <2>2. CASE r.drop = {}
    BY <1>4, <2>1, <2>2
  <2>3. CASE r.drop # {}
    <3>1. /\ r.call.op = "delete_connection" /\ r.drop = r.target
          /\ Clear(r, "staging") /\ Clear(r, "production")
      BY <2>3 DEF Vouched
    <3>2. r.text = r.target /\ \A e \in Live : r.seen[e] = reg[e]
      BY <3>1 DEF Grounded, StillSeen, Live
    <3>3. \A e \in Live : r.drop \cap Bindings(reg[e].payload) = {}
      BY <3>1, <3>2 DEF Clear, Live
    <3>. QED BY <1>1, <1>2, <2>1, <3>3 DEF BindingsResolve, Live
  <2>. QED BY <2>2, <2>3
<1>10. r.call.op \notin {"undo", "restore"}
  BY DEF Grounded
<1>. QED BY <1>3, <1>6, <1>7, <1>8, <1>9, <1>10 DEF Ops, LifecycleOps

(* A commit leaves every binding of staging and production with its        *)
(* connection, if what its request looked at is still so: the connections  *)
(* an edit or a promote was validated against, the row a delete or a       *)
(* revert copies, the two rows that delete_connection scanned with its     *)
(* argument spelled the way the bindings are. What else commits meanwhile  *)
(* does not matter; undo_promote and restore-registry look at no           *)
(* connection, and nothing is claimed of them.                             *)
THEOREM BindingsStand == Spec => GroundedKeepBindings
<1> DEFINE Keeping ==
      \A t \in Request : BindingsResolve /\ Grounded(t) /\ Commit(t) => BindingsResolve'
<1>1. TypeOK /\ FlowOK /\ AllVouched /\ [Next]_vars => [Keeping]_vars
  BY GroundedCommitKeepsBindings DEF FlowOK, AllVouched
<1>2. RowsInv => TypeOK
  BY DEF RowsInv
<1>. QED BY <1>1, <1>2, RowsInductive, FlowInductive, VouchedInductive, PTL
         DEF Spec, GroundedKeepBindings
=============================================================================
