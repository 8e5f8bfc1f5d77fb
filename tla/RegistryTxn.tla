----------------------------- MODULE RegistryTxn -----------------------------
(***************************************************************************)
(* The registry store and every request that writes it, one SQL statement  *)
(* per step.                                                               *)
(*                                                                         *)
(* The registries table has three rows (staging, production, the backup of *)
(* production) and the connections table a set of ids. A request runs in   *)
(* one Postgres transaction at READ COMMITTED: a plain SELECT sees the     *)
(* last committed row, SELECT ... FOR UPDATE waits for the row's lock, and *)
(* what the request wrote is visible to others when it commits. The locks, *)
(* the visibility rule and the deadlock detector are Postgres's and are    *)
(* modelled from what the code relies on; the order of the statements, the *)
(* checks between them and what becomes of a failed handler are the code's.*)
(***************************************************************************)
EXTENDS RegistryPayload, Integers

CONSTANTS Request,      \* request slots: how many run at the same time
          NoRequest,    \* the lock of a row is free
          Calls,        \* the calls this instance makes, each a Call
          BlindEdits,   \* may a client omit expected_version, or name one it
                        \* has not read?
          MaxVersion    \* bound: no request starts once a row is this old

Env == {"staging", "production", "previous_production"}

EditOps      == {"put", "import", "set_mapping", "delete"}
LifecycleOps == {"promote", "revert", "undo"}
ConnOps      == {"add_connection", "delete_connection"}

(* Editor and connection tools exist on the MCP surface only, the life     *)
(* cycle on MCP and REST, restore-registry on the command line.            *)
Call == [op : EditOps \cup LifecycleOps \cup ConnOps, surface : {"mcp"}]
        \cup [op : LifecycleOps, surface : {"api"}]
        \cup [op : {"restore"}, surface : {"cli"}]

ASSUME TxnAssumption ==
    /\ NoRequest \notin Request
    /\ Calls \subseteq Call
    /\ BlindEdits \in BOOLEAN
    /\ MaxVersion \in Nat

VARIABLES reg,      \* committed rows: Env -> [payload, version]
          conns,    \* committed connection ids
          issued,   \* ids ever handed out: uuids are not reused
          lock,     \* Env -> the request that holds the row's lock
          tx        \* Request -> the state of its handler

vars == <<reg, conns, issued, lock, tx>>

NoVersion == -1
Row       == [payload : Payload, version : Nat]
NoRow     == [payload |-> EmptyRegistry, version |-> NoVersion]
NoRows    == [e \in Env |-> NoRow]
NoCall    == [op |-> "none", surface |-> "none"]

(* given: the expected_version argument. seen: the snapshots loaded.       *)
(* expect: the version the save will ask for. known: connection ids read.  *)
(* cand: the candidate registry. buf: rows written and not yet committed.  *)
(* target: the connection a request is about. text: the stored ids that    *)
(* its argument equals as a string.                                        *)
Idle == [call |-> NoCall, pc |-> "idle", given |-> NoVersion, seen |-> NoRows,
         expect |-> NoVersion, known |-> {}, cand |-> EmptyRegistry,
         target |-> {}, text |-> {}, buf |-> NoRows, add |-> {}, drop |-> {}]

Init ==
    /\ reg = [e \in Env |-> [payload |-> EmptyRegistry, version |-> 0]]
    /\ conns = {}
    /\ issued = {}
    /\ lock = [e \in Env |-> NoRequest]
    /\ tx = [t \in Request |-> Idle]

-----------------------------------------------------------------------------
(* Building blocks of the handlers.                                        *)

Entry(op) ==
    CASE op \in EditOps           -> "edit_load"
      [] op = "promote"           -> "promote_connections"
      [] op = "revert"            -> "revert_load_production"
      [] op = "undo"              -> "undo_load_previous"
      [] op = "add_connection"    -> "connection_insert"
      [] op = "delete_connection" -> "connection_scan_staging"
      [] op = "restore"           -> "restore_load"

At(t, l) == tx[t].pc = l

Goto(t, l) == tx' = [tx EXCEPT ![t].pc = l]

(* The handler raised.                                                     *)
Fail(t) == Goto(t, "failed")

Database == <<reg, conns, issued, lock>>

(* RegistryStore.load                                                      *)
Load(t, e, next) ==
    /\ tx' = [tx EXCEPT ![t] = [@ EXCEPT !.seen[e] = reg[e], !.pc = next]]
    /\ UNCHANGED Database

Written(t, e) == tx[t].buf[e] # NoRow

(* Mutant: the version is read without FOR UPDATE.                         *)
FreeUnlocked(t, e) == TRUE

Free(t, e) == lock[e] \in {NoRequest, t}

(* RegistryStore.save: take the lock, compare, write. A stale save raises  *)
(* and leaves the lock held: only the end of the transaction releases it.  *)
Save(t, e, p, expected, next) ==
    /\ Free(t, e)
    /\ lock' = [lock EXCEPT ![e] = t]
    /\ \/ /\ reg[e].version = expected
          /\ tx' = [tx EXCEPT ![t] = [@ EXCEPT !.buf[e] = [payload |-> p, version |-> expected + 1],
                                               !.pc = next]]
       \/ /\ reg[e].version # expected
          /\ Fail(t)
    /\ UNCHANGED <<reg, conns, issued>>

(* The connection a request is about: a fresh uuid, or one seen before.    *)
Targets(op) ==
    CASE op = "add_connection"    -> {{i} : i \in Conn \ issued}
      [] op = "delete_connection" -> {{i} : i \in issued}
      [] OTHER                    -> {{}}

(* delete_connection takes any spelling that uuid.UUID() reads (capitals,  *)
(* braces, no hyphens); stored bindings are spelled the way str() does.    *)
Spellings(op, g) == IF op = "delete_connection" THEN {g, {}} ELSE {{}}

(* The expected_version argument. A careful client passes the version of   *)
(* staging it has read; others may commit before the call runs its first   *)
(* statement, so that stale numbers are covered. But the tools take any    *)
(* number, also one that staging has yet to reach, and they take none.     *)
Given(op) ==
    CASE op \notin EditOps -> {NoVersion}
      [] op \in EditOps /\ ~BlindEdits -> {reg["staging"].version}
      [] OTHER -> {NoVersion} \cup (reg["staging"].version .. MaxVersion)

(* A client sends a request.                                               *)
Begin(t) ==
    /\ At(t, "idle")
    /\ \A e \in Env : reg[e].version < MaxVersion
    /\ \E c \in Calls :
       \E v \in Given(c.op), g \in Targets(c.op) :
       \E s \in Spellings(c.op, g) :
          /\ tx' = [tx EXCEPT ![t] = [@ EXCEPT !.call = c, !.pc = Entry(c.op),
                                               !.given = v, !.target = g, !.text = s]]
          /\ issued' = issued \cup g
    /\ UNCHANGED <<reg, conns, lock>>

-----------------------------------------------------------------------------
(* Editor tools on staging.                                                *)

EditLoad(t) == At(t, "edit_load") /\ Load(t, "staging", "edit_compute")

Base(t) == tx[t].seen["staging"].payload

(* What the tool makes of the loaded registry: deletes are not validated,  *)
(* everything else is.                                                     *)
Results(op, p) ==
    CASE op = "put"         -> PutResults(p)
      [] op = "set_mapping" -> MappingResults(p)
      [] op = "import"      -> ImportResults(p)
      [] op = "delete"      -> RemoveResults(p)
      [] OTHER              -> {}

(* The connection ids that are read for the validator: deletes read none.  *)
Looked(t) == IF tx[t].call.op = "delete" THEN {} ELSE conns

EditCompute(t) ==
    /\ At(t, "edit_compute")
    /\ \E p \in Results(tx[t].call.op, Base(t)) :
          /\ tx[t].call.op = "delete" \/ Valid(p, conns)
          /\ tx' = [tx EXCEPT ![t] = [@ EXCEPT !.cand = p, !.known = Looked(t),
                                               !.pc = "edit_reload"]]
    /\ UNCHANGED Database

(* VALIDATION_FAILED, REFERENCED or NOT_FOUND: nothing is written.         *)
EditRefused(t) ==
    /\ At(t, "edit_compute")
    /\ \/ /\ tx[t].call.op # "delete"
          /\ \E p \in Results(tx[t].call.op, Base(t)) : ~Valid(p, conns)
       \/ /\ tx[t].call.op = "delete"
          /\ \E r \in Rid : Referrers(Base(t), r) # {}
       \/ /\ tx[t].call.op = "set_mapping"
          /\ \E r \in Rid : r \notin Present(Base(t)) \cap Mappable
    /\ Fail(t)
    /\ UNCHANGED Database

(* Mutant: the save always asks for the version just loaded.               *)
EditReloadIgnoresGiven(t) ==
    /\ At(t, "edit_reload")
    /\ tx' = [tx EXCEPT ![t] = [@ EXCEPT !.pc = "edit_save",
                                         !.expect = reg["staging"].version]]
    /\ UNCHANGED Database

(* _save loads staging a second time, and asks for that version when the   *)
(* client named none.                                                      *)
EditReload(t) ==
    /\ At(t, "edit_reload")
    /\ tx' = [tx EXCEPT ![t] = [@ EXCEPT !.pc = "edit_save",
                                         !.expect = IF tx[t].given # NoVersion
                                                    THEN tx[t].given
                                                    ELSE reg["staging"].version]]
    /\ UNCHANGED Database

EditSave(t) ==
    /\ At(t, "edit_save")
    /\ Save(t, "staging", tx[t].cand, tx[t].expect, "done")

-----------------------------------------------------------------------------
(* promote_staging_to_production                                           *)

PromoteConnections(t) ==
    /\ At(t, "promote_connections")
    /\ tx' = [tx EXCEPT ![t] = [@ EXCEPT !.known = conns, !.pc = "promote_load_staging"]]
    /\ UNCHANGED Database

PromoteLoadStaging(t) ==
    /\ At(t, "promote_load_staging")
    /\ Load(t, "staging", IF Valid(reg["staging"].payload, tx[t].known)
                            THEN "promote_load_production" ELSE "failed")

PromoteLoadProduction(t) ==
    /\ At(t, "promote_load_production")
    /\ Load(t, "production", "promote_load_previous")

PromoteLoadPrevious(t) ==
    /\ At(t, "promote_load_previous")
    /\ Load(t, "previous_production", "promote_save_previous")

PromoteSavePrevious(t) ==
    /\ At(t, "promote_save_previous")
    /\ Save(t, "previous_production", tx[t].seen["production"].payload,
            tx[t].seen["previous_production"].version, "promote_save_production")

(* Mutant: production is saved over whatever version it has by now.        *)
PromoteSaveBlindly(t) ==
    /\ At(t, "promote_save_production")
    /\ Save(t, "production", tx[t].seen["staging"].payload,
            reg["production"].version, "done")

PromoteSaveProduction(t) ==
    /\ At(t, "promote_save_production")
    /\ Save(t, "production", tx[t].seen["staging"].payload,
            tx[t].seen["production"].version, "done")

-----------------------------------------------------------------------------
(* revert_staging_to_production                                            *)

RevertLoadProduction(t) ==
    /\ At(t, "revert_load_production")
    /\ Load(t, "production", "revert_load_staging")

RevertLoadStaging(t) ==
    /\ At(t, "revert_load_staging")
    /\ Load(t, "staging", "revert_save_staging")

RevertSaveStaging(t) ==
    /\ At(t, "revert_save_staging")
    /\ Save(t, "staging", tx[t].seen["production"].payload,
            tx[t].seen["staging"].version, "done")

-----------------------------------------------------------------------------
(* undo_promote                                                            *)

(* Only the version string tells an unused slot; UndoUnavailableError.     *)
UndoLoadPrevious(t) ==
    /\ At(t, "undo_load_previous")
    /\ Load(t, "previous_production",
            IF reg["previous_production"].payload.version = EmptyVersion
              THEN "failed" ELSE "undo_load_production")

UndoLoadProduction(t) ==
    /\ At(t, "undo_load_production")
    /\ Load(t, "production", "undo_save_production")

UndoSaveProduction(t) ==
    /\ At(t, "undo_save_production")
    /\ Save(t, "production", tx[t].seen["previous_production"].payload,
            tx[t].seen["production"].version, "undo_clear_previous")

(* Mutant: the slot is not cleared.                                        *)
UndoKeepsPrevious(t) ==
    /\ At(t, "undo_clear_previous")
    /\ Save(t, "previous_production", tx[t].seen["previous_production"].payload,
            tx[t].seen["previous_production"].version, "done")

UndoClearPrevious(t) ==
    /\ At(t, "undo_clear_previous")
    /\ Save(t, "previous_production", EmptyRegistry,
            tx[t].seen["previous_production"].version, "done")

-----------------------------------------------------------------------------
(* The connections table.                                                  *)

(* register_connection after its probe: a row with a new id.               *)
ConnectionInsert(t) ==
    /\ At(t, "connection_insert")
    /\ tx' = [tx EXCEPT ![t] = [@ EXCEPT !.add = tx[t].target, !.pc = "done"]]
    /\ UNCHANGED Database

(* delete_connection reads staging, then production, and refuses when an   *)
(* object or link type there reads from the connection: the argument is    *)
(* compared as the string it is, and parsed only for the delete.           *)
ConnectionScan(t, e, from, next) ==
    /\ At(t, from)
    /\ Load(t, e, IF tx[t].text \cap Bindings(reg[e].payload) = {}
                    THEN next ELSE "failed")

ConnectionScanStaging(t) ==
    ConnectionScan(t, "staging", "connection_scan_staging", "connection_scan_production")

(* Mutant: only staging is scanned.                                        *)
ConnectionSkipsProduction(t) ==
    /\ At(t, "connection_scan_production")
    /\ Load(t, "production", "connection_delete")

ConnectionScanProduction(t) ==
    ConnectionScan(t, "production", "connection_scan_production", "connection_delete")

ConnectionDelete(t) ==
    /\ At(t, "connection_delete")
    /\ tx' = [tx EXCEPT ![t] = [@ EXCEPT !.drop = tx[t].target, !.pc = "done"]]
    /\ UNCHANGED Database

-----------------------------------------------------------------------------
(* restore-registry: any row, from a file, without validation.             *)

RestoreLoad(t) ==
    /\ At(t, "restore_load")
    /\ \E e \in Env : Load(t, e, "restore_save")

RestoreSave(t) ==
    /\ At(t, "restore_save")
    /\ \E e \in Env, p \in Incoming :
          /\ tx[t].seen[e] # NoRow
          /\ Save(t, e, p, tx[t].seen[e].version, "done")

-----------------------------------------------------------------------------
(* How a request ends.                                                     *)

Release(t) == lock' = [e \in Env |-> IF lock[e] = t THEN NoRequest ELSE lock[e]]

(* The dispatcher of /mcp writes its audit row and commits, whether the    *)
(* handler returned or raised; REST and the command line commit only what  *)
(* returned.                                                               *)
Commits(t) == At(t, "done") \/ (At(t, "failed") /\ tx[t].call.surface = "mcp")

(* Mutant: the commit installs every row of the unit of work, written or   *)
(* not.                                                                    *)
CommitAllRows(t) ==
    /\ Commits(t)
    /\ reg' = tx[t].buf
    /\ conns' = (conns \cup tx[t].add) \ tx[t].drop
    /\ tx' = [tx EXCEPT ![t] = Idle]
    /\ Release(t)
    /\ UNCHANGED issued

Commit(t) ==
    /\ Commits(t)
    /\ reg' = [e \in Env |-> IF Written(t, e) THEN tx[t].buf[e] ELSE reg[e]]
    /\ conns' = (conns \cup tx[t].add) \ tx[t].drop
    /\ tx' = [tx EXCEPT ![t] = Idle]
    /\ Release(t)
    /\ UNCHANGED issued

Discard(t) ==
    /\ tx' = [tx EXCEPT ![t] = Idle]
    /\ Release(t)
    /\ UNCHANGED <<reg, conns, issued>>

(* Mutant: a failed handler's session goes back to the pool unclosed.      *)
RollbackKeepsLocks(t) ==
    /\ At(t, "failed")
    /\ ~Commits(t)
    /\ tx' = [tx EXCEPT ![t] = Idle]
    /\ UNCHANGED Database

(* The exception leaves the handler: closing the session rolls back.       *)
Rollback(t) == At(t, "failed") /\ ~Commits(t) /\ Discard(t)

(* The row whose lock a save is about to take.                             *)
Wants(t) ==
    CASE tx[t].pc \in {"edit_save", "revert_save_staging"}                 -> {"staging"}
      [] tx[t].pc \in {"promote_save_production", "undo_save_production"}  -> {"production"}
      [] tx[t].pc \in {"promote_save_previous", "undo_clear_previous"}     -> {"previous_production"}
      [] tx[t].pc = "restore_save" -> {e \in Env : tx[t].seen[e] # NoRow}
      [] OTHER -> {}

WaitsFor(t, u) == t # u /\ \E e \in Wants(t) : lock[e] = u

(* Postgres aborts one of two requests that wait for each other. The       *)
(* transaction is dead: on /mcp even the audit row fails, and nothing is   *)
(* committed. No cycle is longer, since a request that holds a lock and    *)
(* wants another holds production or its backup and wants the other one.   *)
DeadlockVictim(t) ==
    /\ \E u \in Request : WaitsFor(t, u) /\ WaitsFor(u, t)
    /\ Discard(t)

(* The server dies or the database connection is lost.                     *)
Crash(t) == ~At(t, "idle") /\ Discard(t)

-----------------------------------------------------------------------------
Edit(t) == EditLoad(t) \/ EditCompute(t) \/ EditRefused(t) \/ EditReload(t) \/ EditSave(t)

Promote(t) == \/ PromoteConnections(t) \/ PromoteLoadStaging(t)
              \/ PromoteLoadProduction(t) \/ PromoteLoadPrevious(t)
              \/ PromoteSavePrevious(t) \/ PromoteSaveProduction(t)

Revert(t) == RevertLoadProduction(t) \/ RevertLoadStaging(t) \/ RevertSaveStaging(t)

Undo(t) == \/ UndoLoadPrevious(t) \/ UndoLoadProduction(t)
           \/ UndoSaveProduction(t) \/ UndoClearPrevious(t)

Connections(t) == \/ ConnectionInsert(t) \/ ConnectionScanStaging(t)
                  \/ ConnectionScanProduction(t) \/ ConnectionDelete(t)

Restore(t) == RestoreLoad(t) \/ RestoreSave(t)

(* The steps a request takes by itself once it has begun.                  *)
Run(t) == \/ Edit(t) \/ Promote(t) \/ Revert(t) \/ Undo(t) \/ Connections(t)
          \/ Restore(t) \/ Commit(t) \/ Rollback(t)

(* No request is running and none may start: the service is idle.          *)
Quiet == (\A t \in Request : At(t, "idle")) /\ UNCHANGED vars

Next == \/ \E t \in Request : Begin(t) \/ Run(t) \/ DeadlockVictim(t) \/ Crash(t)
        \/ Quiet

Spec == Init /\ [][Next]_vars

(* The event loop runs every request that is not blocked, Postgres grants  *)
(* a row lock to the requests that queue for it in turn, and its deadlock  *)
(* detector always ends a deadlock. Clients need not send anything.        *)
Fairness == /\ \A t \in Request : SF_vars(Run(t))
            /\ WF_vars(\E t \in Request : DeadlockVictim(t))

FairSpec == Spec /\ Fairness

-----------------------------------------------------------------------------
(* Properties.                                                             *)

Steps == {"idle", "done", "failed",
          "edit_load", "edit_compute", "edit_reload", "edit_save",
          "promote_connections", "promote_load_staging", "promote_load_production",
          "promote_load_previous", "promote_save_previous", "promote_save_production",
          "revert_load_production", "revert_load_staging", "revert_save_staging",
          "undo_load_previous", "undo_load_production", "undo_save_production",
          "undo_clear_previous", "connection_insert", "connection_scan_staging",
          "connection_scan_production", "connection_delete",
          "restore_load", "restore_save"}

Tx == [call : Call \cup {NoCall}, pc : Steps, given : Nat \cup {NoVersion},
       seen : [Env -> Row \cup {NoRow}], expect : Nat \cup {NoVersion},
       known : SUBSET Conn, cand : Payload, target : SUBSET Conn,
       text : SUBSET Conn, buf : [Env -> Row \cup {NoRow}], add : SUBSET Conn, drop : SUBSET Conn]

(* Type correctness: a committed row is never half a row.                  *)
TypeOK ==
    /\ reg \in [Env -> Row]
    /\ conns \subseteq Conn
    /\ issued \subseteq Conn
    /\ lock \in [Env -> Request \cup {NoRequest}]
    /\ tx \in [Request -> Tx]

(* A row with an uncommitted write is locked by its writer, and the        *)
(* committed row under it cannot move: the write is its successor. This is *)
(* what SELECT ... FOR UPDATE before the comparison buys in save().        *)
ExclusiveWriters ==
    \A t \in Request, e \in Env :
        Written(t, e) => /\ lock[e] = t
                         /\ tx[t].buf[e].version = reg[e].version + 1

(* A loaded version number stands for the row it came from: as long as the *)
(* committed version is still the one a request loaded, so is the payload. *)
(* Without it a matching expected_version would prove nothing.             *)
VersionNamesRow ==
    \A t \in Request, e \in Env :
        tx[t].seen[e].version = reg[e].version => tx[t].seen[e] = reg[e]

(* Together: whatever requests and crashes interleave, comparing versions  *)
(* under FOR UPDATE is as good as comparing rows.                          *)
LockingDiscipline == ExclusiveWriters /\ VersionNamesRow

(* Every commit that touches a row moves its version by one, whatever ran  *)
(* in between: "version increments on every write".                        *)
VersionsCountCommits ==
    [][\A e \in Env : reg'[e] # reg[e] => reg'[e].version = reg[e].version + 1]_vars

(* An edit that named a version staging had reached by the time the tool   *)
(* loaded it replaces exactly the row it was computed from: no commit that *)
(* landed before the save is overwritten unseen. (A number ahead of the    *)
(* load is compared with the row of the save only, and may match one that  *)
(* the edit never saw.)                                                    *)
NoLostUpdate ==
    [][\A t \in Request :
          ( /\ tx[t].call.op \in EditOps
            /\ tx[t].given # NoVersion
            /\ tx[t].given <= tx[t].seen["staging"].version
            /\ Written(t, "staging")
            /\ reg'["staging"] = tx[t].buf["staging"] )
          => tx[t].seen["staging"] = reg["staging"]]_vars

RotatesForward ==
    reg'["previous_production"].payload = reg["production"].payload

RotatesBack ==
    /\ reg["previous_production"].payload.version # EmptyVersion
    /\ reg'["production"].payload = reg["previous_production"].payload
    /\ reg'["previous_production"].payload = EmptyRegistry

(* Production and its backup change together or not at all, and in one of  *)
(* two ways: the backup becomes the production being replaced (promote),   *)
(* or production becomes the backup and the slot is cleared (undo). Both   *)
(* are read at the commit, however long ago the request loaded its rows.   *)
RotationAtomic ==
    [][\/ UNCHANGED <<reg["production"], reg["previous_production"]>>
       \/ /\ reg'["production"] # reg["production"]
          /\ reg'["previous_production"] # reg["previous_production"]
          /\ RotatesForward \/ RotatesBack]_vars

(* Every stored registry resolves its references, although deletes skip    *)
(* the validator and life-cycle steps copy rows read some time ago.        *)
StoredWellFormed == \A e \in Env : WellFormed(reg[e].payload)

(* Production and staging point at connections that are there.             *)
BindingsResolve ==
    \A e \in {"staging", "production"} : Bindings(reg[e].payload) \subseteq conns

(* What the request about to commit looked at is still so: the registries  *)
(* it copies or scanned, and the connections it validated against. Nothing *)
(* else protects a binding: no lock ties the two tables. undo_promote and  *)
(* restore-registry look at no connection, and the scan of a delete whose  *)
(* argument is spelled in another way finds nothing.                       *)
StillSeen(t, e) == tx[t].seen[e] = reg[e]

Grounded(t) ==
    CASE tx[t].call.op = "delete"            -> StillSeen(t, "staging")
      [] tx[t].call.op \in {"put", "set_mapping", "import", "promote"}
                                             -> tx[t].known \subseteq conns
      [] tx[t].call.op = "revert"            -> StillSeen(t, "production")
      [] tx[t].call.op = "delete_connection" -> /\ tx[t].text = tx[t].target
                                                /\ StillSeen(t, "staging")
                                                /\ StillSeen(t, "production")
      [] tx[t].call.op \in {"undo", "restore"} -> FALSE
      [] OTHER                               -> TRUE

(* The commit of a request that stands on what it looked at leaves no      *)
(* binding without its connection: neither a delete_connection, which      *)
(* scans two rows and deletes from another table, nor an edit, a promote   *)
(* or a revert that began before a connection went.                        *)
GroundedKeepBindings ==
    [][\A t \in Request :
          BindingsResolve /\ Grounded(t) /\ Commit(t) => BindingsResolve']_vars

(* A request that has begun gets an answer: row locks are released, and    *)
(* a promote and an undo that lock the same two rows in opposite orders do *)
(* not wait for each other forever.                                        *)
EveryRequestFinishes == \A t \in Request : ~At(t, "idle") ~> At(t, "idle")
=============================================================================
