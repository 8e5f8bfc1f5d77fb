-------------------------- MODULE RegistryTxnProofs --------------------------
(***************************************************************************)
(* Theorems about RegistryTxn, for every set of requests, calls, RIDs,     *)
(* connections and definitions.                                            *)
(***************************************************************************)
EXTENDS RegistryTxn, TLAPS

-----------------------------------------------------------------------------
(* The edits of registry/crud.py and imports.py yield registries.          *)

LEMMA EmptyIsPayload == EmptyRegistry \in Payload
  BY PayloadAssumption DEF EmptyRegistry, Payload, Label, EmptyVersion, Stored

LEMMA EditsYieldPayloads ==
  ASSUME NEW p \in Payload
  PROVE  /\ PutResults(p) \subseteq Payload
         /\ MappingResults(p) \subseteq Payload
         /\ ImportResults(p) \subseteq Payload
         /\ RemoveResults(p) \subseteq Payload
<1>1. ASSUME NEW r \in Rid, NEW d \in Definition PROVE Put(p, r, d) \in Payload
  BY DefinitionAssumption DEF Put, Payload
<1>2. ASSUME NEW r \in Present(p), NEW c \in Conn \cup {Unbound}
      PROVE  Bind(p, r, c) \in Payload
  <2>1. r \in Rid /\ p.defs[r] \in Stored
    BY DEF Present, Payload
  <2>2. [p.defs[r] EXCEPT !.conn = c] \in Stored
    BY <2>1 DEF Stored
  <2>3. Bind(p, r, c) = [p EXCEPT !.defs = [p.defs EXCEPT ![r] = [p.defs[r] EXCEPT !.conn = c]]]
    BY DEF Bind
  <2>. QED BY <2>1, <2>2, <2>3 DEF Payload
<1>3. ASSUME NEW q \in Payload, NEW m PROVE Import(p, q, m) \in Payload
  BY DEF Import, Merge, Payload
<1>4. ASSUME NEW r \in Rid PROVE Remove(p, r) \in Payload
  BY DEF Remove, Payload
<1>. QED
  BY <1>1, <1>2, <1>3, <1>4, IncomingAssumption
     DEF PutResults, MappingResults, ImportResults, RemoveResults

-----------------------------------------------------------------------------
(* Type correctness.                                                       *)

LEMMA GotoIsTx ==
  ASSUME NEW r \in Tx, NEW l \in Steps
  PROVE  [r EXCEPT !.pc = l] \in Tx
  BY DEF Tx

LEMMA IdleIsTx == Idle \in Tx
<1>1. NoRows \in [Env -> Row \cup {NoRow}]
  BY DEF NoRows
<1>2. NoCall \in Call \cup {NoCall}
  OBVIOUS
<1>3. NoVersion \in Nat \cup {NoVersion}
  OBVIOUS
<1>4. {} \in SUBSET Conn
  OBVIOUS
<1>5. "idle" \in Steps
  BY DEF Steps
<1>. QED BY <1>1, <1>2, <1>3, <1>4, <1>5, EmptyIsPayload DEF Idle, Tx

(* What a step of one request can be, as far as the rows are concerned:    *)
(* a statement that writes no row, the save of one row, the end of a       *)
(* transaction with or without its writes.                                 *)

Local(t, r) ==
    /\ tx' = [tx EXCEPT ![t] = r]
    /\ r.buf = tx[t].buf
    /\ \A e \in Env : r.seen[e] \in {tx[t].seen[e], reg[e]}
    /\ UNCHANGED <<reg, conns, lock>>

Reads(t) == issued' \subseteq Conn /\ \E r \in Tx : Local(t, r)

Saves(t) ==
    \E e \in Env, p \in Payload, x \in Nat \cup {NoVersion}, next \in Steps :
        Save(t, e, p, x, next)

LEMMA LoadReads ==
  ASSUME TypeOK, NEW t \in Request, NEW e \in Env, NEW next \in Steps, Load(t, e, next)
  PROVE  Reads(t)
<1> DEFINE s == [tx[t].seen EXCEPT ![e] = reg[e]]
           r == [tx[t] EXCEPT !.seen = s, !.pc = next]
<1>1. tx[t] \in Tx /\ reg[e] \in Row
  BY DEF TypeOK
<1>2. s \in [Env -> Row \cup {NoRow}]
  BY <1>1 DEF Tx
<1>3. r \in Tx
  BY <1>1, <1>2 DEF Tx
<1>4. tx' = [tx EXCEPT ![t] = r]
  BY DEF Load
<1>5. r.buf = tx[t].buf /\ r.seen = s
  BY <1>1 DEF Tx
<1>6. \A f \in Env : s[f] \in {tx[t].seen[f], reg[f]}
  BY <1>1 DEF Tx
<1>7. issued' \subseteq Conn /\ UNCHANGED <<reg, conns, lock>>
  BY DEF Load, Database, TypeOK
<1> HIDE DEF r, s
<1>. QED BY <1>3, <1>4, <1>5, <1>6, <1>7 DEF Reads, Local

LEMMA OwnStateReads ==
  ASSUME TypeOK, NEW t \in Request, NEW r \in Tx, tx' = [tx EXCEPT ![t] = r],
         r.buf = tx[t].buf, r.seen = tx[t].seen,
         UNCHANGED <<reg, conns, lock>>, issued' \subseteq Conn
  PROVE  Reads(t)
  BY DEF Reads, Local

LEMMA FailReads ==
  ASSUME TypeOK, NEW t \in Request, Fail(t), UNCHANGED Database
  PROVE  Reads(t)
<1> DEFINE r == [tx[t] EXCEPT !.pc = "failed"]
<1>1. tx[t] \in Tx /\ "failed" \in Steps
  BY DEF TypeOK, Steps
<1>2. r \in Tx
  BY <1>1, GotoIsTx
<1>3. r.buf = tx[t].buf /\ r.seen = tx[t].seen
  BY <1>1 DEF Tx
<1>4. tx' = [tx EXCEPT ![t] = r]
  BY DEF Fail, Goto
<1>5. UNCHANGED <<reg, conns, lock>> /\ issued' \subseteq Conn
  BY DEF Database, TypeOK
<1> HIDE DEF r
<1>. QED BY <1>2, <1>3, <1>4, <1>5, OwnStateReads

LEMMA BeginReads ==
  ASSUME TypeOK, NEW t \in Request, Begin(t)
  PROVE  Reads(t)
<1>a. PICK c \in Calls :
        \E v \in Given(c.op), g \in Targets(c.op) :
        \E s \in Spellings(c.op, g) :
          /\ tx' = [tx EXCEPT ![t] = [@ EXCEPT !.call = c, !.pc = Entry(c.op),
                                               !.given = v, !.target = g, !.text = s]]
          /\ issued' = issued \cup g
  BY DEF Begin
<1>b. PICK v \in Given(c.op), g \in Targets(c.op) :
        \E s \in Spellings(c.op, g) :
          /\ tx' = [tx EXCEPT ![t] = [@ EXCEPT !.call = c, !.pc = Entry(c.op),
                                               !.given = v, !.target = g, !.text = s]]
          /\ issued' = issued \cup g
  BY <1>a
<1>1. PICK s \in Spellings(c.op, g) :
        /\ tx' = [tx EXCEPT ![t] = [@ EXCEPT !.call = c, !.pc = Entry(c.op),
                                             !.given = v, !.target = g, !.text = s]]
        /\ issued' = issued \cup g
  BY <1>b
<1> DEFINE r == [tx[t] EXCEPT !.call = c, !.pc = Entry(c.op), !.given = v, !.target = g,
                             !.text = s]
<1>2. c \in Call
  BY TxnAssumption
<1>3. c.op \in EditOps \cup LifecycleOps \cup ConnOps \cup {"restore"}
  BY <1>2 DEF Call
<1>4. Entry(c.op) \in Steps
  BY <1>3 DEF Entry, Steps, EditOps, LifecycleOps, ConnOps
<1>5. v \in Nat \cup {NoVersion}
  <2>1. reg["staging"].version \in Nat
    BY DEF TypeOK, Row, Env
  <2>2. reg["staging"].version .. MaxVersion \subseteq Nat
    BY <2>1, TxnAssumption
  <2>. QED BY <2>1, <2>2 DEF Given
<1>6. g \in SUBSET Conn /\ s \in SUBSET Conn
  BY <1>3 DEF Targets, Spellings, TypeOK, EditOps, LifecycleOps, ConnOps
<1>7. tx[t] \in Tx
  BY DEF TypeOK
<1>8. r \in Tx
  BY <1>2, <1>4, <1>5, <1>6, <1>7 DEF Tx
<1>9. r.buf = tx[t].buf /\ r.seen = tx[t].seen
  BY <1>7 DEF Tx
<1>10. tx' = [tx EXCEPT ![t] = r]
  BY <1>1
<1>11. UNCHANGED <<reg, conns, lock>> /\ issued' \subseteq Conn
  BY <1>1, <1>6 DEF Begin, TypeOK
<1> HIDE DEF r
<1>. QED BY <1>8, <1>9, <1>10, <1>11, OwnStateReads

LEMMA EditKinds ==
  ASSUME TypeOK, NEW t \in Request, Edit(t)
  PROVE  Reads(t) \/ Saves(t)
<1> USE DEF Env
<1>1. tx[t] \in Tx /\ reg["staging"] \in Row
  BY DEF TypeOK
<1>2. CASE EditLoad(t)
  BY <1>2, LoadReads DEF EditLoad, Steps
<1>3. CASE EditCompute(t)
  <2>1. PICK p \in Results(tx[t].call.op, Base(t)) :
          tx' = [tx EXCEPT ![t] = [@ EXCEPT !.cand = p, !.known = Looked(t),
                                            !.pc = "edit_reload"]]
    BY <1>3 DEF EditCompute
  <2> DEFINE r == [tx[t] EXCEPT !.cand = p, !.known = Looked(t), !.pc = "edit_reload"]
  <2>2. Base(t) \in Payload
    BY <1>1, EmptyIsPayload DEF Base, Tx, Row, NoRow
  <2>3. p \in Payload
    BY <2>1, <2>2, EditsYieldPayloads DEF Results
  <2>a. Looked(t) \in SUBSET Conn
    BY DEF Looked, TypeOK
  <2>4. r \in Tx
    BY <1>1, <2>3, <2>a DEF Tx, Steps
  <2>5. r.buf = tx[t].buf /\ r.seen = tx[t].seen
    BY <1>1 DEF Tx
  <2>6. UNCHANGED <<reg, conns, lock>> /\ issued' \subseteq Conn
    BY <1>3 DEF EditCompute, Database, TypeOK
  <2>7. tx' = [tx EXCEPT ![t] = r]
    BY <2>1
  <2> HIDE DEF r
  <2>. QED BY <2>4, <2>5, <2>6, <2>7, OwnStateReads
<1>4. CASE EditRefused(t)
  BY <1>4, FailReads DEF EditRefused
<1>5. CASE EditReload(t)
  <2> DEFINE x == IF tx[t].given # NoVersion THEN tx[t].given ELSE reg["staging"].version
             r == [tx[t] EXCEPT !.pc = "edit_save", !.expect = x]
  <2>1. x \in Nat \cup {NoVersion}
    BY <1>1 DEF Tx, Row
  <2>2. r \in Tx
    BY <1>1, <2>1 DEF Tx, Steps
  <2>3. r.buf = tx[t].buf /\ r.seen = tx[t].seen
    BY <1>1 DEF Tx
  <2>4. UNCHANGED <<reg, conns, lock>> /\ issued' \subseteq Conn
    BY <1>5 DEF EditReload, Database, TypeOK
  <2>5. tx' = [tx EXCEPT ![t] = r]
    BY <1>5 DEF EditReload
  <2> HIDE DEF r
  <2>. QED BY <2>2, <2>3, <2>4, <2>5, OwnStateReads
<1>6. CASE EditSave(t)
  <2>1. tx[t].cand \in Payload /\ tx[t].expect \in Nat \cup {NoVersion}
    BY <1>1 DEF Tx
  <2>. QED BY <1>6, <2>1 DEF EditSave, Saves, Steps
<1>. QED BY <1>2, <1>3, <1>4, <1>5, <1>6 DEF Edit

(* What a request has loaded of a row may be saved.                        *)
LEMMA SeenType ==
  ASSUME TypeOK, NEW t \in Request, NEW e \in Env
  PROVE  tx[t].seen[e].payload \in Payload /\ tx[t].seen[e].version \in Nat \cup {NoVersion}
<1>1. tx[t].seen[e] \in Row \cup {NoRow}
  BY DEF TypeOK, Tx
<1>. QED BY <1>1, EmptyIsPayload DEF Row, NoRow

LEMMA PromoteKinds ==
  ASSUME TypeOK, NEW t \in Request, Promote(t)
  PROVE  Reads(t) \/ Saves(t)
<1> USE DEF Env, Steps
<1>1. CASE PromoteConnections(t)
  <2> DEFINE r == [tx[t] EXCEPT !.known = conns, !.pc = "promote_load_staging"]
  <2>1. tx[t] \in Tx /\ conns \in SUBSET Conn
    BY DEF TypeOK
  <2>2. r \in Tx
    BY <2>1 DEF Tx
  <2>3. r.buf = tx[t].buf /\ r.seen = tx[t].seen
    BY <2>1 DEF Tx
  <2>4. UNCHANGED <<reg, conns, lock>> /\ issued' \subseteq Conn
    BY <1>1 DEF PromoteConnections, Database, TypeOK
  <2>5. tx' = [tx EXCEPT ![t] = r]
    BY <1>1 DEF PromoteConnections
  <2> HIDE DEF r
  <2>. QED BY <2>2, <2>3, <2>4, <2>5, OwnStateReads
<1>2. CASE PromoteLoadStaging(t)
  BY <1>2, LoadReads DEF PromoteLoadStaging
<1>3. CASE PromoteLoadProduction(t)
  BY <1>3, LoadReads DEF PromoteLoadProduction
<1>4. CASE PromoteLoadPrevious(t)
  BY <1>4, LoadReads DEF PromoteLoadPrevious
<1>5. CASE PromoteSavePrevious(t)
  BY <1>5, SeenType DEF PromoteSavePrevious, Saves
<1>6. CASE PromoteSaveProduction(t)
  BY <1>6, SeenType DEF PromoteSaveProduction, Saves
<1>. QED BY <1>1, <1>2, <1>3, <1>4, <1>5, <1>6 DEF Promote

LEMMA RevertKinds ==
  ASSUME TypeOK, NEW t \in Request, Revert(t)
  PROVE  Reads(t) \/ Saves(t)
<1> USE DEF Env, Steps
<1>1. CASE RevertLoadProduction(t)
  BY <1>1, LoadReads DEF RevertLoadProduction
<1>2. CASE RevertLoadStaging(t)
  BY <1>2, LoadReads DEF RevertLoadStaging
<1>3. CASE RevertSaveStaging(t)
  BY <1>3, SeenType DEF RevertSaveStaging, Saves
<1>. QED BY <1>1, <1>2, <1>3 DEF Revert

LEMMA UndoKinds ==
  ASSUME TypeOK, NEW t \in Request, Undo(t)
  PROVE  Reads(t) \/ Saves(t)
<1> USE DEF Env, Steps
<1>1. CASE UndoLoadPrevious(t)
  BY <1>1, LoadReads DEF UndoLoadPrevious
<1>2. CASE UndoLoadProduction(t)
  BY <1>2, LoadReads DEF UndoLoadProduction
<1>3. CASE UndoSaveProduction(t)
  BY <1>3, SeenType DEF UndoSaveProduction, Saves
<1>4. CASE UndoClearPrevious(t)
  BY <1>4, SeenType, EmptyIsPayload DEF UndoClearPrevious, Saves
<1>. QED BY <1>1, <1>2, <1>3, <1>4 DEF Undo

LEMMA ConnectionKinds ==
  ASSUME TypeOK, NEW t \in Request, Connections(t)
  PROVE  Reads(t)
<1> USE DEF Env, Steps
<1>1. tx[t] \in Tx
  BY DEF TypeOK
<1>2. CASE ConnectionInsert(t)
  <2> DEFINE r == [tx[t] EXCEPT !.add = tx[t].target, !.pc = "done"]
  <2>1. r \in Tx
    BY <1>1 DEF Tx
  <2>2. r.buf = tx[t].buf /\ r.seen = tx[t].seen
    BY <1>1 DEF Tx
  <2>3. UNCHANGED <<reg, conns, lock>> /\ issued' \subseteq Conn
    BY <1>2 DEF ConnectionInsert, Database, TypeOK
  <2>4. tx' = [tx EXCEPT ![t] = r]
    BY <1>2 DEF ConnectionInsert
  <2> HIDE DEF r
  <2>. QED BY <2>1, <2>2, <2>3, <2>4, OwnStateReads
<1>3. CASE ConnectionScanStaging(t)
  BY <1>3, LoadReads DEF ConnectionScanStaging, ConnectionScan
<1>4. CASE ConnectionScanProduction(t)
  BY <1>4, LoadReads DEF ConnectionScanProduction, ConnectionScan
<1>5. CASE ConnectionDelete(t)
  <2> DEFINE r == [tx[t] EXCEPT !.drop = tx[t].target, !.pc = "done"]
  <2>1. r \in Tx
    BY <1>1 DEF Tx
  <2>2. r.buf = tx[t].buf /\ r.seen = tx[t].seen
    BY <1>1 DEF Tx
  <2>3. UNCHANGED <<reg, conns, lock>> /\ issued' \subseteq Conn
    BY <1>5 DEF ConnectionDelete, Database, TypeOK
  <2>4. tx' = [tx EXCEPT ![t] = r]
    BY <1>5 DEF ConnectionDelete
  <2> HIDE DEF r
  <2>. QED BY <2>1, <2>2, <2>3, <2>4, OwnStateReads
<1>. QED BY <1>2, <1>3, <1>4, <1>5 DEF Connections

LEMMA RestoreKinds ==
  ASSUME TypeOK, NEW t \in Request, Restore(t)
  PROVE  Reads(t) \/ Saves(t)
<1>1. CASE RestoreLoad(t)
  BY <1>1, LoadReads DEF RestoreLoad, Steps
<1>2. CASE RestoreSave(t)
  BY <1>2, SeenType, IncomingAssumption DEF RestoreSave, Saves, Steps
<1>. QED BY <1>1, <1>2 DEF Restore

LEMMA StepKinds ==
  ASSUME TypeOK, Next
  PROVE  \/ UNCHANGED vars
         \/ \E t \in Request : Reads(t) \/ Saves(t) \/ Commit(t) \/ Discard(t)
<1>1. CASE Quiet
  BY <1>1 DEF Quiet
<1>2. ASSUME NEW t \in Request, Begin(t) \/ Run(t) \/ DeadlockVictim(t) \/ Crash(t)
      PROVE  Reads(t) \/ Saves(t) \/ Commit(t) \/ Discard(t)
  <2>1. CASE Begin(t)
    BY <2>1, BeginReads
  <2>2. CASE Run(t)
    BY <2>2, EditKinds, PromoteKinds, RevertKinds, UndoKinds, ConnectionKinds, RestoreKinds
       DEF Run, Rollback
  <2>3. CASE DeadlockVictim(t) \/ Crash(t)
    BY <2>3 DEF DeadlockVictim, Crash
  <2>. QED BY <1>2, <2>1, <2>2, <2>3
<1>. QED BY <1>1, <1>2 DEF Next

-----------------------------------------------------------------------------
(* Type correctness.                                                       *)

LEMMA ReadsType ==
  ASSUME TypeOK, NEW t \in Request, Reads(t)
  PROVE  TypeOK'
  BY DEF TypeOK, Reads, Local

LEMMA SavesType ==
  ASSUME TypeOK, NEW t \in Request, Saves(t)
  PROVE  TypeOK'
<1>1. PICK e \in Env, p \in Payload, x \in Nat \cup {NoVersion}, next \in Steps :
        Save(t, e, p, x, next)
  BY DEF Saves
<1>2. lock' \in [Env -> Request \cup {NoRequest}]
  BY <1>1 DEF TypeOK, Save
<1>3. tx[t] \in Tx /\ reg[e].version \in Nat
  BY DEF TypeOK, Row
<1>4. CASE /\ reg[e].version = x
           /\ tx' = [tx EXCEPT ![t] = [@ EXCEPT !.buf[e] = [payload |-> p, version |-> x + 1],
                                                !.pc = next]]
  <2> DEFINE b == [tx[t].buf EXCEPT ![e] = [payload |-> p, version |-> x + 1]]
  <2>1. [payload |-> p, version |-> x + 1] \in Row
    BY <1>3, <1>4 DEF Row
  <2>2. b \in [Env -> Row \cup {NoRow}]
    BY <1>3, <2>1 DEF Tx
  <2>3. [tx[t] EXCEPT !.buf = b, !.pc = next] \in Tx
    BY <1>3, <2>2 DEF Tx
  <2>4. tx' \in [Request -> Tx]
    BY <1>4, <2>3 DEF TypeOK
  <2>. QED BY <1>1, <1>2, <2>4 DEF TypeOK, Save
<1>5. CASE Fail(t)
  <2>1. [tx[t] EXCEPT !.pc = "failed"] \in Tx
    BY <1>3, GotoIsTx DEF Steps
  <2>2. tx' \in [Request -> Tx]
    BY <1>5, <2>1 DEF TypeOK, Fail, Goto
  <2>. QED BY <1>1, <1>2, <2>2 DEF TypeOK, Save
<1>. QED BY <1>1, <1>4, <1>5 DEF Save

LEMMA DiscardType ==
  ASSUME TypeOK, NEW t \in Request, Discard(t)
  PROVE  TypeOK'
  BY IdleIsTx DEF TypeOK, Discard, Release

LEMMA CommitType ==
  ASSUME TypeOK, NEW t \in Request, Commit(t)
  PROVE  TypeOK'
<1>1. tx[t] \in Tx
  BY DEF TypeOK
<1>2. reg' \in [Env -> Row]
  BY <1>1 DEF TypeOK, Commit, Written, Tx
<1>3. conns' \subseteq Conn
  BY <1>1 DEF TypeOK, Commit, Tx
<1>. QED BY <1>2, <1>3, IdleIsTx DEF TypeOK, Commit, Release

(* Every reachable state is well typed: whatever the requests do and       *)
(* however they are cut short, no row is left half written.                *)
THEOREM TypeCorrect == Spec => []TypeOK
<1>1. Init => TypeOK
  BY EmptyIsPayload, IdleIsTx DEF Init, TypeOK, Row
<1>2. TypeOK /\ [Next]_vars => TypeOK'
  <2>1. CASE UNCHANGED vars
    BY <2>1 DEF vars, TypeOK
  <2>2. CASE Next
    BY <2>1, <2>2, StepKinds, ReadsType, SavesType, CommitType, DiscardType
  <2>. QED BY <2>1, <2>2
<1>. QED BY <1>1, <1>2, PTL DEF Spec
-----------------------------------------------------------------------------
(* The rows: exclusive writers, and version numbers that stand for rows.   *)
(* Neither holds by induction alone: a save may overwrite only because     *)
(* whoever wrote the row before holds its lock, and a commit may not bring *)
(* back the version of a stale snapshot only because versions never fall.  *)

SeenBefore ==
    \A t \in Request, e \in Env : tx[t].seen[e].version <= reg[e].version

RowsInv == TypeOK /\ ExclusiveWriters /\ SeenBefore /\ VersionNamesRow

LEMMA ReadsKeepRows ==
  ASSUME RowsInv, NEW t \in Request, Reads(t)
  PROVE  RowsInv'
<1>1. PICK r \in Tx : Local(t, r)
  BY DEF Reads
<1>2. TypeOK'
  BY ReadsType DEF RowsInv
<1>3. \A u \in Request : u # t => tx'[u] = tx[u]
  BY <1>1 DEF RowsInv, TypeOK, Local
<1>4. tx'[t] = r
  BY <1>1 DEF RowsInv, TypeOK, Local
<1>5. \A e \in Env : reg[e].version \in Nat
  BY DEF RowsInv, TypeOK, Row
<1>6. ExclusiveWriters'
  BY <1>1, <1>3, <1>4 DEF RowsInv, ExclusiveWriters, Written, Local
<1>7. SeenBefore'
  BY <1>1, <1>3, <1>4, <1>5 DEF RowsInv, SeenBefore, Local
<1>8. VersionNamesRow'
  BY <1>1, <1>3, <1>4 DEF RowsInv, VersionNamesRow, Local
<1>. QED BY <1>2, <1>6, <1>7, <1>8 DEF RowsInv

LEMMA SavesKeepRows ==
  ASSUME RowsInv, NEW t \in Request, Saves(t)
  PROVE  RowsInv'
<1>1. PICK e \in Env, p \in Payload, x \in Nat \cup {NoVersion}, next \in Steps :
        Save(t, e, p, x, next)
  BY DEF Saves
<1>2. TypeOK'
  BY SavesType DEF RowsInv
<1>3. \A u \in Request : u # t => tx'[u] = tx[u]
  BY <1>1 DEF RowsInv, TypeOK, Save, Fail, Goto
<1>4. /\ tx'[t].seen = tx[t].seen
      /\ \A f \in Env : f # e => tx'[t].buf[f] = tx[t].buf[f]
      /\ \/ tx'[t].buf[e] = tx[t].buf[e]
         \/ tx'[t].buf[e].version = reg[e].version + 1
  <2>1. tx[t] \in Tx
    BY DEF RowsInv, TypeOK
  <2>2. CASE /\ reg[e].version = x
             /\ tx' = [tx EXCEPT ![t] = [@ EXCEPT !.buf[e] = [payload |-> p, version |-> x + 1],
                                                  !.pc = next]]
    BY <2>1, <2>2 DEF RowsInv, TypeOK, Tx
  <2>3. CASE Fail(t)
    BY <2>1, <2>3 DEF RowsInv, TypeOK, Tx, Fail, Goto
  <2>. QED BY <1>1, <2>2, <2>3 DEF Save
<1>5. lock' = [lock EXCEPT ![e] = t] /\ lock[e] \in {NoRequest, t} /\ reg' = reg
  BY <1>1 DEF Save, Free
<1>6. ExclusiveWriters'
  <2> SUFFICES ASSUME NEW u \in Request, NEW f \in Env, Written(u, f)'
               PROVE  lock'[f] = u /\ tx'[u].buf[f].version = reg'[f].version + 1
    BY DEF ExclusiveWriters
  <2>0. lock'[f] = IF f = e THEN t ELSE lock[f]
    BY <1>5 DEF RowsInv, TypeOK
  <2>1. CASE u = t /\ tx'[u].buf[f] # tx[u].buf[f]
    BY <2>0, <2>1, <1>4, <1>5
  <2>2. CASE tx'[u].buf[f] = tx[u].buf[f]
    <3>1. lock[f] = u /\ tx[u].buf[f].version = reg[f].version + 1
      BY <2>2 DEF RowsInv, ExclusiveWriters, Written
    <3>2. f = e => u = t
      BY <3>1, <1>5, TxnAssumption
    <3>. QED BY <2>0, <2>2, <3>1, <3>2, <1>5
  <2>. QED BY <2>1, <2>2, <1>3
<1>7. SeenBefore'
  BY <1>3, <1>4, <1>5 DEF RowsInv, SeenBefore
<1>8. VersionNamesRow'
  BY <1>3, <1>4, <1>5 DEF RowsInv, VersionNamesRow
<1>. QED BY <1>2, <1>6, <1>7, <1>8 DEF RowsInv

(* The end of a transaction, with or without its writes.                   *)
LEMMA IdleRows ==
  \A e \in Env : Idle.buf[e] = NoRow /\ Idle.seen[e] = NoRow /\ NoRow.version = -1
  BY DEF Idle, NoRows, NoRow, NoVersion

LEMMA CommitKeepsRows ==
  ASSUME RowsInv, NEW t \in Request, Commit(t)
  PROVE  /\ RowsInv'
         /\ \A e \in Env : reg'[e] # reg[e] => reg'[e].version = reg[e].version + 1
<1>1. TypeOK /\ TypeOK'
  BY CommitType DEF RowsInv
<1>2. /\ \A u \in Request : u # t => tx'[u] = tx[u]
      /\ tx'[t] = Idle
  BY <1>1 DEF TypeOK, Commit
<1>3. \A e \in Env : reg'[e] = IF Written(t, e) THEN tx[t].buf[e] ELSE reg[e]
  BY <1>1 DEF Commit
<1>4. \A e \in Env : /\ Written(t, e) => reg'[e].version = reg[e].version + 1
                     /\ ~Written(t, e) => reg'[e] = reg[e]
  BY <1>3 DEF RowsInv, ExclusiveWriters
<1>5. ExclusiveWriters'
  <2> SUFFICES ASSUME NEW u \in Request, NEW e \in Env, Written(u, e)'
               PROVE  lock'[e] = u /\ tx'[u].buf[e].version = reg'[e].version + 1
    BY DEF ExclusiveWriters
  <2>1. u # t
    BY <1>2, IdleRows DEF Written
  <2>2. Written(u, e) /\ tx'[u].buf[e] = tx[u].buf[e]
    BY <2>1, <1>2 DEF Written
  <2>3. lock[e] = u /\ tx[u].buf[e].version = reg[e].version + 1
    BY <2>2 DEF RowsInv, ExclusiveWriters
  <2>4. ~Written(t, e)
    BY <2>1, <2>3 DEF RowsInv, ExclusiveWriters
  <2>5. lock'[e] = u
    BY <2>1, <2>3 DEF Commit, Release
  <2>. QED BY <1>4, <2>2, <2>3, <2>4, <2>5
<1>6. \A e \in Env : reg[e].version \in Nat /\ reg'[e].version \in Nat
  BY <1>1 DEF TypeOK, Row
<1>7. \A u \in Request, e \in Env : tx[u].seen[e].version \in Nat \cup {-1}
  BY <1>1, SeenType DEF NoVersion
<1>8. SeenBefore'
  <2> SUFFICES ASSUME NEW u \in Request, NEW e \in Env
               PROVE  tx'[u].seen[e].version <= reg'[e].version
    BY DEF SeenBefore
  <2>1. CASE u = t
    BY <2>1, <1>2, <1>6, IdleRows
  <2>2. CASE u # t
    <3>1. tx'[u].seen[e].version <= reg[e].version
      BY <2>2, <1>2 DEF RowsInv, SeenBefore
    <3>2. reg[e].version <= reg'[e].version
      BY <1>4, <1>6
    <3>. QED BY <3>1, <3>2, <1>2, <1>6, <1>7, <2>2
  <2>. QED BY <2>1, <2>2
<1>9. VersionNamesRow'
  <2> SUFFICES ASSUME NEW u \in Request, NEW e \in Env,
                      tx'[u].seen[e].version = reg'[e].version
               PROVE  tx'[u].seen[e] = reg'[e]
    BY DEF VersionNamesRow
  <2>1. u # t
    BY <1>2, <1>6, IdleRows
  <2>2. tx[u].seen[e].version <= reg[e].version
    BY DEF RowsInv, SeenBefore
  <2>3. ~Written(t, e)
    BY <2>1, <2>2, <1>2, <1>4, <1>6
  <2>. QED BY <2>1, <2>3, <1>2, <1>4 DEF RowsInv, VersionNamesRow
<1>. QED BY <1>1, <1>4, <1>5, <1>8, <1>9 DEF RowsInv

LEMMA DiscardKeepsRows ==
  ASSUME RowsInv, NEW t \in Request, Discard(t)
  PROVE  RowsInv' /\ reg' = reg
<1>1. TypeOK /\ TypeOK' /\ reg' = reg
  BY DiscardType DEF RowsInv, Discard
<1>2. /\ \A u \in Request : u # t => tx'[u] = tx[u]
      /\ tx'[t] = Idle
  BY <1>1 DEF TypeOK, Discard
<1>3. \A e \in Env : reg[e].version \in Nat
  BY <1>1 DEF TypeOK, Row
<1>4. ExclusiveWriters'
  <2> SUFFICES ASSUME NEW u \in Request, NEW e \in Env, Written(u, e)'
               PROVE  lock'[e] = u /\ tx'[u].buf[e].version = reg'[e].version + 1
    BY DEF ExclusiveWriters
  <2>1. u # t
    BY <1>2, IdleRows DEF Written
  <2>2. lock[e] = u /\ tx[u].buf[e].version = reg[e].version + 1
    BY <2>1, <1>2 DEF RowsInv, ExclusiveWriters, Written
  <2>. QED BY <1>1, <1>2, <2>1, <2>2 DEF Discard, Release
<1>5. SeenBefore'
  BY <1>1, <1>2, <1>3, IdleRows DEF RowsInv, SeenBefore
<1>6. VersionNamesRow'
  BY <1>1, <1>2, <1>3, IdleRows DEF RowsInv, VersionNamesRow
<1>. QED BY <1>1, <1>4, <1>5, <1>6 DEF RowsInv

LEMMA RowsInductive ==
  /\ Init => RowsInv
  /\ RowsInv /\ [Next]_vars =>
        /\ RowsInv'
        /\ \A e \in Env : reg'[e] # reg[e] => reg'[e].version = reg[e].version + 1
<1>1. Init => RowsInv
  <2> SUFFICES ASSUME Init PROVE RowsInv
    OBVIOUS
  <2>1. TypeOK
    BY EmptyIsPayload, IdleIsTx DEF Init, TypeOK, Row
  <2>2. \A t \in Request, e \in Env : /\ tx[t].buf[e] = NoRow
                                      /\ tx[t].seen[e].version = -1
                                      /\ reg[e].version = 0
    BY IdleRows DEF Init
  <2>. QED BY <2>1, <2>2 DEF RowsInv, ExclusiveWriters, SeenBefore, VersionNamesRow, Written
<1>2. ASSUME RowsInv, [Next]_vars
      PROVE  /\ RowsInv'
             /\ \A e \in Env : reg'[e] # reg[e] => reg'[e].version = reg[e].version + 1
  <2>1. CASE UNCHANGED vars
    BY <1>2, <2>1 DEF vars, RowsInv, TypeOK, ExclusiveWriters, SeenBefore, VersionNamesRow, Written
  <2>2. CASE \E t \in Request : Reads(t)
    BY <1>2, <2>2, ReadsKeepRows DEF Reads, Local
  <2>3. CASE \E t \in Request : Saves(t)
    <3>1. RowsInv'
      BY <1>2, <2>3, SavesKeepRows
    <3>2. reg' = reg
      BY <2>3 DEF Saves, Save
    <3>. QED BY <3>1, <3>2
  <2>4. CASE \E t \in Request : Commit(t)
    BY <1>2, <2>4, CommitKeepsRows
  <2>5. CASE \E t \in Request : Discard(t)
    BY <1>2, <2>5, DiscardKeepsRows
  <2>. QED BY <1>2, <2>1, <2>2, <2>3, <2>4, <2>5, StepKinds DEF RowsInv
<1>. QED BY <1>1, <1>2

(* A row that a request has written is locked by it and the committed row  *)
(* under the write cannot move; the version a request has loaded stands    *)
(* for the row it loaded.                                                  *)
THEOREM LocksAreDisciplined == Spec => []LockingDiscipline
<1>1. RowsInv => LockingDiscipline
  BY DEF RowsInv, LockingDiscipline
<1>. QED BY <1>1, RowsInductive, PTL DEF Spec

(* Committed versions move by one at every write and never otherwise.      *)
THEOREM VersionsCount == Spec => VersionsCountCommits
<1>1. RowsInv /\ [Next]_vars =>
        [\A e \in Env : reg'[e] # reg[e] => reg'[e].version = reg[e].version + 1]_vars
  BY RowsInductive
<1>. QED BY <1>1, RowsInductive, PTL DEF Spec, VersionsCountCommits
-----------------------------------------------------------------------------
(* No lost update. The save compares with the version the client named,    *)
(* not with the one the edit was computed from. They agree when the named  *)
(* version is at most the loaded one, since the loaded one is at most the  *)
(* committed one, and a write that succeeds pins all three together.       *)

Named(t) == tx[t].call.op \in EditOps /\ tx[t].given # NoVersion

BeforeSave == {"edit_load", "edit_compute", "edit_reload", "edit_save"}

NamedEdit(t) ==
    /\ tx[t].pc \in BeforeSave \cup {"done", "failed"}
    /\ tx[t].pc \in BeforeSave => ~Written(t, "staging")
    /\ tx[t].pc = "edit_save" => tx[t].expect = tx[t].given
    /\ Written(t, "staging") => tx[t].buf["staging"].version = tx[t].given + 1

EditInv ==
    \A t \in Request : /\ tx[t].pc = "idle" => tx[t].buf = NoRows
                       /\ Named(t) => NamedEdit(t)

(* The steps of the other handlers leave the call alone.                   *)
Elsewhere(t) ==
    /\ tx[t].pc \notin BeforeSave \cup {"idle", "done", "failed"}
    /\ tx'[t].call = tx[t].call
    /\ tx'[t].given = tx[t].given
    /\ tx'[t].pc # "idle"
    /\ \A u \in Request : u # t => tx'[u] = tx[u]
    /\ reg' = reg

LEMMA LoadElsewhere ==
  ASSUME TypeOK, NEW t \in Request, NEW e \in Env, NEW next, next # "idle", Load(t, e, next),
         tx[t].pc \notin BeforeSave \cup {"idle", "done", "failed"}
  PROVE  Elsewhere(t)
  BY DEF TypeOK, Tx, Load, Database, Elsewhere

LEMMA SaveElsewhere ==
  ASSUME TypeOK, NEW t \in Request, NEW e \in Env, NEW p, NEW x, NEW next, next # "idle",
         Save(t, e, p, x, next), tx[t].pc \notin BeforeSave \cup {"idle", "done", "failed"}
  PROVE  Elsewhere(t)
<1>1. tx \in [Request -> Tx] /\ tx[t] \in Tx
  BY DEF TypeOK
<1>2. CASE tx' = [tx EXCEPT ![t] = [@ EXCEPT !.buf[e] = [payload |-> p, version |-> x + 1],
                                             !.pc = next]]
  BY <1>1, <1>2 DEF Tx, Save, Elsewhere
<1>3. CASE Fail(t)
  BY <1>1, <1>3 DEF Tx, Save, Fail, Goto, Elsewhere
<1>. QED BY <1>2, <1>3 DEF Save

LEMMA OtherHandlers ==
  ASSUME TypeOK, NEW t \in Request,
         Promote(t) \/ Revert(t) \/ Undo(t) \/ Connections(t) \/ Restore(t)
  PROVE  Elsewhere(t)
<1> USE LoadElsewhere, SaveElsewhere DEF At, Env, BeforeSave
<1>1. CASE PromoteConnections(t)
  BY <1>1 DEF PromoteConnections, Database, TypeOK, Tx, Elsewhere
<1>2. CASE PromoteLoadStaging(t)
  BY <1>2 DEF PromoteLoadStaging
<1>3. CASE PromoteLoadProduction(t)
  BY <1>3 DEF PromoteLoadProduction
<1>4. CASE PromoteLoadPrevious(t)
  BY <1>4 DEF PromoteLoadPrevious
<1>5. CASE PromoteSavePrevious(t)
  BY <1>5 DEF PromoteSavePrevious
<1>6. CASE PromoteSaveProduction(t)
  BY <1>6 DEF PromoteSaveProduction
<1>7. CASE RevertLoadProduction(t)
  BY <1>7 DEF RevertLoadProduction
<1>8. CASE RevertLoadStaging(t)
  BY <1>8 DEF RevertLoadStaging
<1>9. CASE RevertSaveStaging(t)
  BY <1>9 DEF RevertSaveStaging
<1>10. CASE UndoLoadPrevious(t)
  BY <1>10 DEF UndoLoadPrevious
<1>11. CASE UndoLoadProduction(t)
  BY <1>11 DEF UndoLoadProduction
<1>12. CASE UndoSaveProduction(t)
  BY <1>12 DEF UndoSaveProduction
<1>13. CASE UndoClearPrevious(t)
  BY <1>13 DEF UndoClearPrevious
<1>14. CASE ConnectionInsert(t)
  <2>1. /\ tx \in [Request -> Tx] /\ tx[t] \in Tx /\ reg' = reg
        /\ tx' = [tx EXCEPT ![t] = [@ EXCEPT !.add = tx[t].target, !.pc = "done"]]
        /\ tx[t].pc = "connection_insert"
    BY <1>14 DEF ConnectionInsert, Database, TypeOK
  <2>2. tx'[t] = [tx[t] EXCEPT !.add = tx[t].target, !.pc = "done"]
    BY <2>1
  <2>. QED BY <2>1, <2>2 DEF Tx, Elsewhere
<1>15. CASE ConnectionScanStaging(t)
  BY <1>15 DEF ConnectionScanStaging, ConnectionScan
<1>16. CASE ConnectionScanProduction(t)
  BY <1>16 DEF ConnectionScanProduction, ConnectionScan
<1>17. CASE ConnectionDelete(t)
  <2>1. /\ tx \in [Request -> Tx] /\ tx[t] \in Tx /\ reg' = reg
        /\ tx' = [tx EXCEPT ![t] = [@ EXCEPT !.drop = tx[t].target, !.pc = "done"]]
        /\ tx[t].pc = "connection_delete"
    BY <1>17 DEF ConnectionDelete, Database, TypeOK
  <2>2. tx'[t] = [tx[t] EXCEPT !.drop = tx[t].target, !.pc = "done"]
    BY <2>1
  <2>. QED BY <2>1, <2>2 DEF Tx, Elsewhere
<1>18. CASE RestoreLoad(t)
  BY <1>18 DEF RestoreLoad
<1>19. CASE RestoreSave(t)
  BY <1>19 DEF RestoreSave
<1>. QED BY <1>1, <1>2, <1>3, <1>4, <1>5, <1>6, <1>7, <1>8, <1>9, <1>10, <1>11, <1>12,
            <1>13, <1>14, <1>15, <1>16, <1>17, <1>18, <1>19
         DEF Promote, Revert, Undo, Connections, Restore

(* It is enough to look at the request that moves.                         *)
LEMMA EditInvLocal ==
  ASSUME RowsInv, EditInv, NEW t \in Request,
         \A u \in Request : u # t => tx'[u] = tx[u],
         tx'[t].pc = "idle" => tx'[t].buf = NoRows,
         Named(t)' => NamedEdit(t)'
  PROVE  EditInv'
<1> SUFFICES ASSUME NEW u \in Request
             PROVE  /\ tx'[u].pc = "idle" => tx'[u].buf = NoRows
                    /\ Named(u)' => NamedEdit(u)'
  BY DEF EditInv
<1>1. CASE u = t
  BY <1>1
<1>2. CASE u # t
  <2>1. tx'[u] = tx[u] /\ tx[u].given \in Nat \cup {-1}
    BY <1>2 DEF RowsInv, TypeOK, Tx, NoVersion
  <2>. QED BY <2>1 DEF EditInv, Named, NamedEdit, Written
<1>. QED BY <1>1, <1>2

LEMMA BeginKeepsEdits ==
  ASSUME RowsInv, EditInv, NEW t \in Request, Begin(t)
  PROVE  EditInv'
<1>1. PICK c \in Calls :
        \E v \in Given(c.op), g \in Targets(c.op) :
        \E s \in Spellings(c.op, g) :
          tx' = [tx EXCEPT ![t] = [@ EXCEPT !.call = c, !.pc = Entry(c.op),
                                            !.given = v, !.target = g, !.text = s]]
  BY DEF Begin
<1>a. PICK v \in Given(c.op), g \in Targets(c.op) :
        \E s \in Spellings(c.op, g) :
          tx' = [tx EXCEPT ![t] = [@ EXCEPT !.call = c, !.pc = Entry(c.op),
                                            !.given = v, !.target = g, !.text = s]]
  BY <1>1
<1>2. PICK s \in Spellings(c.op, g) :
        tx' = [tx EXCEPT ![t] = [@ EXCEPT !.call = c, !.pc = Entry(c.op),
                                          !.given = v, !.target = g, !.text = s]]
  BY <1>a
<1>3. tx \in [Request -> Tx] /\ tx[t] \in Tx
  BY DEF RowsInv, TypeOK
<1>4. /\ tx'[t].call = c /\ tx'[t].pc = Entry(c.op) /\ tx'[t].given = v
      /\ tx'[t].buf = tx[t].buf
      /\ \A u \in Request : u # t => tx'[u] = tx[u]
  BY <1>2, <1>3 DEF Tx
<1>6. tx[t].buf = NoRows
  BY DEF Begin, At, EditInv
<1>7. ~Written(t, "staging")'
  BY <1>4, <1>6 DEF Written, NoRows, Env
<1>8. c \in Call
  BY TxnAssumption
<1>9. tx'[t].pc # "idle"
  BY <1>4, <1>8 DEF Entry, Call, EditOps, LifecycleOps, ConnOps
<1>10. Named(t)' => NamedEdit(t)'
  <2> SUFFICES ASSUME Named(t)' PROVE NamedEdit(t)'
    OBVIOUS
  <2>1. c.op \in EditOps
    BY <1>4 DEF Named
  <2>2. tx'[t].pc = "edit_load"
    BY <2>1, <1>4 DEF Entry, EditOps
  <2>. QED BY <2>2, <1>7 DEF NamedEdit, BeforeSave
<1>. QED BY <1>4, <1>9, <1>10, EditInvLocal

LEMMA EditKeepsEdits ==
  ASSUME RowsInv, EditInv, NEW t \in Request, Edit(t)
  PROVE  EditInv'
<1> USE DEF Env
<1>1. tx \in [Request -> Tx] /\ tx[t] \in Tx
  BY DEF RowsInv, TypeOK
<1>2. reg["staging"].version \in Nat /\ tx[t].given \in Nat \cup {-1}
  BY <1>1 DEF RowsInv, TypeOK, Row, Tx, NoVersion
<1>3. Named(t) => NamedEdit(t)
  BY DEF EditInv
<1>4. CASE EditLoad(t)
  <2>1. /\ tx'[t].call = tx[t].call /\ tx'[t].given = tx[t].given
        /\ tx'[t].buf = tx[t].buf /\ tx'[t].pc = "edit_compute"
        /\ tx'[t].seen["staging"] = reg["staging"]
        /\ \A u \in Request : u # t => tx'[u] = tx[u]
    BY <1>1, <1>4 DEF EditLoad, Load, Tx
  <2>2. reg' = reg /\ tx[t].pc = "edit_load"
    BY <1>4 DEF EditLoad, Load, Database, At
  <2>3. Named(t)' => NamedEdit(t)'
    BY <1>2, <1>3, <2>1, <2>2 DEF Named, NamedEdit, Written, BeforeSave
  <2>. QED BY <1>2, <2>1, <2>2, <2>3, EditInvLocal
<1>5. CASE EditCompute(t)
  <2>1. /\ tx'[t].call = tx[t].call /\ tx'[t].given = tx[t].given
        /\ tx'[t].buf = tx[t].buf /\ tx'[t].pc = "edit_reload"
        /\ tx'[t].seen = tx[t].seen
        /\ \A u \in Request : u # t => tx'[u] = tx[u]
    BY <1>1, <1>5 DEF EditCompute, Tx
  <2>2. reg' = reg /\ tx[t].pc = "edit_compute"
    BY <1>5 DEF EditCompute, Database, At
  <2>3. Named(t)' => NamedEdit(t)'
    BY <1>2, <1>3, <2>1, <2>2 DEF Named, NamedEdit, Written, BeforeSave
  <2>. QED BY <1>2, <2>1, <2>2, <2>3, EditInvLocal
<1>6. CASE EditRefused(t)
  <2>1. /\ tx'[t].call = tx[t].call /\ tx'[t].given = tx[t].given
        /\ tx'[t].buf = tx[t].buf /\ tx'[t].pc = "failed"
        /\ tx'[t].seen = tx[t].seen
        /\ \A u \in Request : u # t => tx'[u] = tx[u]
    BY <1>1, <1>6 DEF EditRefused, Fail, Goto, Tx
  <2>2. reg' = reg /\ tx[t].pc = "edit_compute"
    BY <1>6 DEF EditRefused, Database, At
  <2>3. Named(t)' => NamedEdit(t)'
    BY <1>2, <1>3, <2>1, <2>2 DEF Named, NamedEdit, Written, BeforeSave
  <2>. QED BY <1>2, <2>1, <2>2, <2>3, EditInvLocal
<1>7. CASE EditReload(t)
  <2>1. /\ tx'[t].call = tx[t].call /\ tx'[t].given = tx[t].given
        /\ tx'[t].buf = tx[t].buf /\ tx'[t].pc = "edit_save"
        /\ tx'[t].seen = tx[t].seen
        /\ tx[t].given # NoVersion => tx'[t].expect = tx[t].given
        /\ \A u \in Request : u # t => tx'[u] = tx[u]
    BY <1>1, <1>7 DEF EditReload, Tx
  <2>2. reg' = reg /\ tx[t].pc = "edit_reload"
    BY <1>7 DEF EditReload, Database, At
  <2>3. Named(t)' => NamedEdit(t)'
    BY <1>2, <1>3, <2>1, <2>2 DEF Named, NamedEdit, Written, BeforeSave
  <2>. QED BY <1>2, <2>1, <2>2, <2>3, EditInvLocal
<1>8. CASE EditSave(t)
  <2>1. tx[t].pc = "edit_save" /\ reg' = reg
    BY <1>8 DEF EditSave, Save, At
  <2>2. CASE tx' = [tx EXCEPT ![t] =
                      [@ EXCEPT !.buf["staging"] = [payload |-> tx[t].cand,
                                                    version |-> tx[t].expect + 1],
                                !.pc = "done"]]
    <3>1. /\ tx'[t].call = tx[t].call /\ tx'[t].given = tx[t].given
          /\ tx'[t].buf["staging"].version = tx[t].expect + 1 /\ tx'[t].pc = "done"
          /\ tx'[t].seen = tx[t].seen
          /\ \A u \in Request : u # t => tx'[u] = tx[u]
      BY <1>1, <2>2 DEF Tx
    <3>2. Named(t)' => NamedEdit(t)'
      BY <1>2, <1>3, <2>1, <3>1 DEF Named, NamedEdit, Written, BeforeSave
    <3>. QED BY <1>2, <2>1, <3>1, <3>2, EditInvLocal
  <2>3. CASE Fail(t)
    <3>1. /\ tx'[t].call = tx[t].call /\ tx'[t].given = tx[t].given
          /\ tx'[t].buf = tx[t].buf /\ tx'[t].pc = "failed"
          /\ tx'[t].seen = tx[t].seen
          /\ \A u \in Request : u # t => tx'[u] = tx[u]
      BY <1>1, <2>3 DEF Fail, Goto, Tx
    <3>2. Named(t)' => NamedEdit(t)'
      BY <1>2, <1>3, <2>1, <3>1 DEF Named, NamedEdit, Written, BeforeSave
    <3>. QED BY <1>2, <2>1, <3>1, <3>2, EditInvLocal
  <2>. QED BY <1>8, <2>2, <2>3 DEF EditSave, Save
<1>. QED BY <1>4, <1>5, <1>6, <1>7, <1>8 DEF Edit

LEMMA OtherKeepEdits ==
  ASSUME RowsInv, EditInv, NEW t \in Request, Elsewhere(t)
  PROVE  EditInv'
<1>1. ~Named(t)'
  BY DEF EditInv, Named, NamedEdit, Elsewhere
<1>. QED BY <1>1, EditInvLocal DEF Elsewhere

LEMMA EndKeepsEdits ==
  ASSUME RowsInv, EditInv, NEW t \in Request, Commit(t) \/ Discard(t)
  PROVE  EditInv'
<1>1. /\ tx'[t] = Idle
      /\ \A u \in Request : u # t => tx'[u] = tx[u]
  BY DEF RowsInv, TypeOK, Commit, Discard
<1>2. ~Named(t)' /\ tx'[t].buf = NoRows
  BY <1>1 DEF Named, Idle, NoCall, EditOps
<1>. QED BY <1>1, <1>2, EditInvLocal

LEMMA EditsInductive ==
  /\ Init => EditInv
  /\ RowsInv /\ EditInv /\ [Next]_vars => EditInv'
<1>1. Init => EditInv
  BY DEF Init, Idle, NoCall, EditInv, Named, EditOps
<1>2. ASSUME RowsInv, EditInv, [Next]_vars PROVE EditInv'
  <2>1. CASE UNCHANGED vars
    BY <1>2, <2>1 DEF vars, EditInv, Named, NamedEdit, Written
  <2>2. ASSUME NEW t \in Request, Begin(t) \/ Run(t) \/ DeadlockVictim(t) \/ Crash(t)
        PROVE  EditInv'
    <3>1. CASE Begin(t)
      BY <1>2, <3>1, BeginKeepsEdits
    <3>2. CASE Edit(t)
      BY <1>2, <3>2, EditKeepsEdits
    <3>3. CASE Promote(t) \/ Revert(t) \/ Undo(t) \/ Connections(t) \/ Restore(t)
      BY <1>2, <3>3, OtherHandlers, OtherKeepEdits DEF RowsInv
    <3>4. CASE Commit(t) \/ Rollback(t) \/ DeadlockVictim(t) \/ Crash(t)
      BY <1>2, <3>4, EndKeepsEdits DEF Rollback, DeadlockVictim, Crash
    <3>. QED BY <2>2, <3>1, <3>2, <3>3, <3>4 DEF Run
  <2>. QED BY <1>2, <2>1, <2>2 DEF Next, Quiet
<1>. QED BY <1>1, <1>2

(* The argument itself.                                                    *)
LEMMA NamedEditIsCurrent ==
  ASSUME RowsInv, EditInv, NEW t \in Request, Named(t), Written(t, "staging"),
         tx[t].given <= tx[t].seen["staging"].version
  PROVE  tx[t].seen["staging"] = reg["staging"]
<1>1. NamedEdit(t)
  BY DEF EditInv
<1>2. tx[t].buf["staging"].version = tx[t].given + 1
  BY <1>1 DEF NamedEdit
<1>3. /\ tx[t].buf["staging"].version = reg["staging"].version + 1
      /\ tx[t].seen["staging"].version <= reg["staging"].version
  BY DEF RowsInv, ExclusiveWriters, SeenBefore, Env
<1>4. /\ tx[t].given \in Nat \cup {-1}
      /\ reg["staging"].version \in Nat
      /\ tx[t].seen["staging"].version \in Nat \cup {-1}
  BY SeenType DEF RowsInv, TypeOK, Tx, Row, Env, NoVersion
<1>5. tx[t].seen["staging"].version = reg["staging"].version
  BY <1>2, <1>3, <1>4
<1>. QED BY <1>5 DEF RowsInv, VersionNamesRow, Env

(* An edit that named a version staging had reached when the tool loaded   *)
(* it overwrites exactly the row it was computed from, whoever else was    *)
(* editing.                                                                *)
THEOREM NoUpdateIsLost == Spec => NoLostUpdate
<1> DEFINE Keeps == \A t \in Request :
             ( /\ tx[t].call.op \in EditOps
               /\ tx[t].given # NoVersion
               /\ tx[t].given <= tx[t].seen["staging"].version
               /\ Written(t, "staging")
               /\ reg'["staging"] = tx[t].buf["staging"] )
             => tx[t].seen["staging"] = reg["staging"]
<1>1. RowsInv /\ EditInv /\ [Next]_vars => [Keeps]_vars
  BY NamedEditIsCurrent DEF Named
<1>. QED BY <1>1, RowsInductive, EditsInductive, PTL DEF Spec, NoLostUpdate
=============================================================================
