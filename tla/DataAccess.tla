------------------------------ MODULE DataAccess ------------------------------
(***************************************************************************)
(* Who may do what, and what is left of it: API tokens and UI sessions,    *)
(* the admin tools of the MCP server with their audit rows, the table of   *)
(* connections with its encrypted DSNs, the engine cache that instance     *)
(* queries go through, the start of the server, and the commands an        *)
(* operator runs beside it (bootstrap-admin, rotate-secret,                *)
(* force-revoke-all-tokens).                                               *)
(*                                                                         *)
(* A slot is one request at a time. A handler gives way at every           *)
(* statement; what it has written shows at its commit. Ids are never used  *)
(* again, so a token or a connection that is gone stays gone.              *)
(***************************************************************************)
EXTENDS Integers, FiniteSets, QueryLimits

CONSTANTS Token, Cookie, Conn, Slot,
          Nobody,      \* no token, no connection; an id that no row has
          Operator,    \* whom the bootstrap token and the commands belong to
          Traffic      \* bound: which kinds of requests come in one behaviour

ASSUME AccessAssumption ==
    /\ Nobody # Operator /\ {Nobody, Operator} \cap Token = {} /\ Nobody \notin Conn
    /\ Traffic \subseteq SUBSET {"tokens", "sessions", "connections", "queries", "rotation", "unknown"}

VARIABLES token,    \* Token -> its row of api_tokens
          cookie,   \* Cookie -> its row of ui_sessions
          conn,     \* Conn -> its row of connections
          audit,    \* the rows of audit_log whose outcome is ok
          pool,     \* Conn -> the engine cache of the server, and open engines
          server,   \* the server process: where its start is, and its key
          shell,    \* the operator's command
          secret,   \* the key that the operator holds for valid
          call,     \* Slot -> its request
          traffic,  \* the kinds of requests of this behaviour
          raced     \* history: bootstraps, first uses, and rows that missed the rotation

tables == <<token, cookie, conn, audit>>
vars == <<tables, pool, server, shell, secret, call, traffic, raced>>

Scope == {"read", "admin"}
TokenTools == {"mint_token", "revoke_token"}
ConnTools  == {"add_connection", "delete_connection"}
Tools      == TokenTools \cup ConnTools \cup {"query_sql"}
Needs(tool) == IF tool = "query_sql" THEN {"read", "admin"} ELSE {"admin"}

NoToken == [status |-> "none", scope |-> "read", by |-> Nobody]
NoShell == [pc |-> "idle", todo |-> {}, done |-> {}]
NoCall  == [pc |-> "idle", tool |-> "none", by |-> Nobody, on |-> Nobody,
            scope |-> "read", late |-> FALSE]
NoPool  == [k \in Conn |-> [cached |-> FALSE, open |-> 0]]
Processes == {"server", "shell"}

Init ==
    /\ token = [t \in Token |-> NoToken]
    /\ cookie = [s \in Cookie |-> [status |-> "none", of |-> Nobody]]
    /\ conn = [k \in Conn |-> [status |-> "none", key |-> "old"]]
    /\ audit = {}
    /\ pool = NoPool
    /\ server = [pc |-> "down", key |-> "old"]
    /\ shell = NoShell
    /\ secret = "old"
    /\ call = [c \in Slot |-> NoCall]
    /\ traffic \in Traffic
    /\ raced = [boot |-> FALSE, firstUse |-> {}, missed |-> {}]

-----------------------------------------------------------------------------
(* Helpers.                                                                *)

At(c, pc) == call[c].pc = pc
Goto(c, pc) == call' = [call EXCEPT ![c].pc = pc]
Answer(c) == call' = [call EXCEPT ![c] = NoCall]

Live(t) == token[t].status = "live"
Exists(k) == conn[k].status = "there"

(* Another request has inserted it and not committed yet.                  *)
InFlight(x) == \E c \in Slot : At(c, "commit") /\ call[c].on = x
Fresh(t) == token[t].status = "none" /\ ~InFlight(t)

(* A row that a rotation or a deletion has written is locked until it      *)
(* commits.                                                                *)
Deleting(k) == \E c \in Slot : At(c, "commit") /\ call[c].tool = "delete_connection"
                                               /\ call[c].on = k

-----------------------------------------------------------------------------
(* Start-up and bootstrap_admin_token_if_needed, which the server calls    *)
(* before it takes requests and the command bootstrap-admin calls too.     *)

(* The server starts, with the old key or the one it has been told.        *)
Start ==
    /\ server.pc = "down"
    /\ \E key \in {server.key, secret} : server' = [pc |-> "count", key |-> key]
    /\ UNCHANGED <<tables, pool, shell, secret, call, raced>>

(* The process is gone, and what only it knew: requests and engines.       *)
Stop ==
    /\ server.pc # "down"
    /\ server' = [server EXCEPT !.pc = "down"]
    /\ call' = [c \in Slot |-> NoCall]
    /\ pool' = NoPool
    /\ raced' = [raced EXCEPT !.firstUse = {}]
    /\ UNCHANGED <<tables, shell, secret>>

ShellBoot ==
    /\ shell.pc = "idle"
    /\ shell' = [shell EXCEPT !.pc = "count"]
    /\ UNCHANGED <<tables, pool, server, secret, call, raced>>

Serving == server.pc = "up"

PcOf(p) == IF p = "server" THEN server.pc ELSE shell.pc

Booting(p, pc) ==
    IF p = "server" THEN /\ server' = [server EXCEPT !.pc = pc] /\ UNCHANGED shell
                    ELSE /\ shell' = [shell EXCEPT !.pc = pc] /\ UNCHANGED server

Booted(p) == Booting(p, IF p = "server" THEN "up" ELSE "idle")

(* Mutant: only live tokens are counted.                                   *)
BootCountLive(p) ==
    /\ PcOf(p) = "count"
    /\ \/ /\ \E t \in Token : Live(t)
          /\ Booted(p)
          /\ UNCHANGED raced
       \/ /\ \A t \in Token : ~Live(t)
          /\ Booting(p, "insert")
          /\ raced' = [raced EXCEPT !.boot = @ \/ \E q \in Processes \ {p} : PcOf(q) = "insert"]
    /\ UNCHANGED <<tables, pool, secret, call>>

(* SELECT COUNT over all rows, revoked ones too.                           *)
BootCount(p) ==
    /\ PcOf(p) = "count"
    /\ \/ /\ \E t \in Token : token[t].status # "none"
          /\ Booted(p)
          /\ UNCHANGED raced
       \/ /\ \A t \in Token : token[t].status = "none"
          /\ Booting(p, "insert")
          /\ raced' = [raced EXCEPT !.boot = @ \/ \E q \in Processes \ {p} : PcOf(q) = "insert"]
    /\ UNCHANGED <<tables, pool, secret, call>>

BootInsert(p) ==
    /\ PcOf(p) = "insert"
    /\ \E t \in Token :
          /\ Fresh(t)
          /\ token' = [token EXCEPT ![t] = [status |-> "live", scope |-> "admin",
                                           by |-> Operator]]
    /\ Booted(p)
    /\ UNCHANGED <<cookie, conn, audit, pool, secret, call, raced>>

-----------------------------------------------------------------------------
(* The MCP dispatcher and its admin tools.                                 *)

(* tools/call: token, tool and argument, an id of no row among them.       *)
(* late says that the call came in after its token was revoked or the      *)
(* connection it names deleted.                                            *)
CallTool(c, t, tool, x) ==
    /\ Serving
    /\ At(c, "idle")
    /\ token[t].status # "none"
    /\ \/ x = Nobody /\ tool # "query_sql"
       \/ tool = "revoke_token" /\ x \in Token /\ token[x].status # "none"
       \/ tool \in {"delete_connection", "query_sql"} /\ x \in Conn /\ conn[x].status # "none"
    /\ call' = [call EXCEPT ![c] =
          [NoCall EXCEPT !.pc = "auth", !.tool = tool, !.by = t, !.on = x,
                         !.late = ~Live(t) \/ (tool = "query_sql" /\ ~Exists(x))]]
    /\ UNCHANGED <<tables, pool, server, shell, secret, raced>>

Row(c) == [by |-> call[c].by, tool |-> call[c].tool, on |-> call[c].on]

Permitted(c) == Live(call[c].by) /\ token[call[c].by].scope \in Needs(call[c].tool)

(* require_scope at the floor read, then the scope of the tool: 401, or    *)
(* FORBIDDEN with an audit row that nothing else goes with, or the handler.*)
Authenticate(c) ==
    /\ At(c, "auth")
    /\ \/ Permitted(c) /\ Goto(c, "tool")
       \/ ~Permitted(c) /\ Answer(c)
    /\ UNCHANGED <<tables, pool, server, shell, secret, raced>>

(* insert_token: the row shows at the commit.                              *)
ToolMint(c) ==
    /\ At(c, "tool")
    /\ call[c].tool = "mint_token"
    /\ \E t \in Token, s \in Scope :
          /\ Fresh(t)
          /\ call' = [call EXCEPT ![c] = [@ EXCEPT !.pc = "commit", !.on = t, !.scope = s]]
    /\ UNCHANGED <<tables, pool, server, shell, secret, raced>>

(* revoke_token answers FALSE for one that is revoked or was never there;  *)
(* that is ok too.                                                         *)
ToolRevoke(c) ==
    /\ At(c, "tool")
    /\ call[c].tool = "revoke_token"
    /\ Goto(c, "commit")
    /\ UNCHANGED <<tables, pool, server, shell, secret, raced>>

(* register_connection after its probe: INSERT, encrypted with the key     *)
(* that this server was started with.                                      *)
ToolAdd(c) ==
    /\ At(c, "tool")
    /\ call[c].tool = "add_connection"
    /\ \E k \in Conn :
          /\ conn[k].status = "none"
          /\ ~InFlight(k)
          /\ call' = [call EXCEPT ![c] = [@ EXCEPT !.pc = "commit", !.on = k]]
    /\ UNCHANGED <<tables, pool, server, shell, secret, raced>>

(* After the scan of staging and production, which may refuse (ToolRaises) *)
(* and is modelled in RegistryTxn. A DELETE of no row is ok too.           *)
ToolDelete(c) ==
    /\ At(c, "tool")
    /\ call[c].tool = "delete_connection"
    /\ ~Deleting(call[c].on)
    /\ call[c].on \notin shell.done
    /\ Goto(c, "commit")
    /\ UNCHANGED <<tables, pool, server, shell, secret, raced>>

(* query_sql looks its connection up, then once more in a pool of its own, *)
(* which decrypts the DSN and is disposed at the end.                      *)
ToolQuery(c) ==
    /\ At(c, "tool")
    /\ call[c].tool = "query_sql"
    /\ Exists(call[c].on)
    /\ Goto(c, "open")
    /\ UNCHANGED <<tables, pool, server, shell, secret, raced>>

Readable(k) == Exists(k) /\ conn[k].key = server.key

ToolQueryOpen(c) ==
    /\ At(c, "open")
    /\ Readable(call[c].on)
    /\ Goto(c, "commit")
    /\ UNCHANGED <<tables, pool, server, shell, secret, raced>>

(* Mutant: the handler raises after its INSERT, which the dispatcher       *)
(* commits with the audit row of the error.                                *)
ToolRaisesLate(c) ==
    /\ At(c, "commit")
    /\ call[c].tool = "add_connection"
    /\ conn' = [conn EXCEPT ![call[c].on] = [status |-> "there", key |-> server.key]]
    /\ Answer(c)
    /\ UNCHANGED <<token, cookie, audit, pool, server, shell, secret, raced>>

(* The handler raises: the probe fails, the connection is in use or not    *)
(* there or not readable with this key. An audit row of the error commits. *)
ToolRaises(c) ==
    /\ \/ At(c, "tool") /\ call[c].tool \in {"add_connection", "delete_connection"}
       \/ At(c, "tool") /\ call[c].tool = "query_sql" /\ ~Exists(call[c].on)
       \/ At(c, "open") /\ ~Readable(call[c].on)
    /\ Answer(c)
    /\ UNCHANGED <<tables, pool, server, shell, secret, raced>>

(* A statement fails (a label that is taken, a lost connection): nothing   *)
(* more of the transaction can succeed, its audit row included.            *)
StatementFails(c) ==
    /\ call[c].pc \in {"auth", "tool", "open", "commit"}
    /\ Answer(c)
    /\ UNCHANGED <<tables, pool, server, shell, secret, raced>>

Effect(c) ==
    LET x == call[c].on
    IN CASE call[c].tool = "mint_token" ->
              /\ token' = [token EXCEPT ![x] = [status |-> "live", scope |-> call[c].scope,
                                               by |-> call[c].by]]
              /\ UNCHANGED <<conn, raced>>
         [] call[c].tool = "revoke_token" ->
              /\ token' = [t \in Token |-> IF t = x /\ Live(t)
                              THEN [token[t] EXCEPT !.status = "revoked"] ELSE token[t]]
              /\ UNCHANGED <<conn, raced>>
         [] call[c].tool = "add_connection" ->
              /\ conn' = [conn EXCEPT ![x] = [status |-> "there", key |-> server.key]]
              /\ raced' = IF shell.pc = "rotate" \/ server.key # secret
                          THEN [raced EXCEPT !.missed = @ \cup {x}] ELSE raced
              /\ UNCHANGED token
         [] call[c].tool = "delete_connection" ->
              /\ conn' = [k \in Conn |-> IF k = x THEN [conn[k] EXCEPT !.status = "deleted"]
                                          ELSE conn[k]]
              /\ UNCHANGED <<token, raced>>
         [] OTHER -> UNCHANGED <<token, conn, raced>>

(* The handler has returned: its audit row and its effect commit together. *)
AuditAndCommit(c) ==
    /\ At(c, "commit")
    /\ Effect(c)
    /\ audit' = audit \cup {Row(c)}
    /\ Answer(c)
    /\ UNCHANGED <<cookie, pool, server, shell, secret>>

-----------------------------------------------------------------------------
(* UI sessions.                                                            *)

Login(c, t) ==
    /\ Serving
    /\ At(c, "idle")
    /\ token[t].status # "none"
    /\ call' = [call EXCEPT ![c] = [NoCall EXCEPT !.pc = "login", !.by = t, !.late = ~Live(t)]]
    /\ UNCHANGED <<tables, pool, server, shell, secret, raced>>

LoginLookup(c) ==
    /\ At(c, "login")
    /\ \/ Live(call[c].by) /\ Goto(c, "session")
       \/ ~Live(call[c].by) /\ Answer(c)
    /\ UNCHANGED <<tables, pool, server, shell, secret, raced>>

(* The token may have been revoked meanwhile.                              *)
LoginInsert(c) ==
    /\ At(c, "session")
    /\ \E s \in Cookie :
          /\ cookie[s].status = "none"
          /\ cookie' = [cookie EXCEPT ![s] = [status |-> "live", of |-> call[c].by]]
    /\ Answer(c)
    /\ UNCHANGED <<token, conn, audit, pool, server, shell, secret, raced>>

(* Logout is one UPDATE and its commit; a session also runs out.           *)
LogoutOrExpire(s) ==
    /\ cookie[s].status = "live"
    /\ cookie' = [cookie EXCEPT ![s].status = "over"]
    /\ UNCHANGED <<token, conn, audit, pool, server, shell, secret, call, raced>>

(* Mutant: the session's own columns are all that is looked at.            *)
OpensAlone(s) == cookie[s].status = "live"

(* _resolve_session: the session, joined with its token.                   *)
Opens(s) == cookie[s].status = "live" /\ Live(cookie[s].of)

(* A REST request under a cookie.                                          *)
Visit(c, s) ==
    /\ Serving
    /\ At(c, "idle")
    /\ cookie[s].status # "none"
    /\ call' = [call EXCEPT ![c] = [NoCall EXCEPT !.pc = "resolve", !.by = cookie[s].of, !.on = s,
                  !.late = cookie[s].status # "live" \/ ~Live(cookie[s].of)]]
    /\ UNCHANGED <<tables, pool, server, shell, secret, raced>>

Resolve(c) ==
    /\ At(c, "resolve")
    /\ \/ Opens(call[c].on) /\ Goto(c, "visit")
       \/ ~Opens(call[c].on) /\ Answer(c)
    /\ UNCHANGED <<tables, pool, server, shell, secret, raced>>

VisitEnds(c) ==
    /\ At(c, "visit")
    /\ Answer(c)
    /\ UNCHANGED <<tables, pool, server, shell, secret, raced>>

-----------------------------------------------------------------------------
(* Instance queries, through the engine cache of the server.               *)

(* Production maps the object type to this connection (GroundedKeepBindings*)
(* of RegistryTxn says when it still exists). Whoever asks is served: the  *)
(* route makes its dependency on a token or session, _read_dep, and does   *)
(* not use it, so only the connection can make a query late.               *)
Query(c, k) ==
    /\ Serving
    /\ At(c, "idle")
    /\ conn[k].status # "none"
    /\ call' = [call EXCEPT ![c] = [NoCall EXCEPT !.pc = "meta", !.on = k, !.late = ~Exists(k)]]
    /\ UNCHANGED <<tables, pool, server, shell, secret, raced>>

(* get_by_id, for the dialect and before the cache is asked.               *)
QueryMeta(c) ==
    /\ At(c, "meta")
    /\ \/ Exists(call[c].on) /\ Goto(c, "pool")
       \/ ~Exists(call[c].on) /\ Answer(c)
    /\ UNCHANGED <<tables, pool, server, shell, secret, raced>>

(* _get_or_create: an engine that is there, or the row once more.          *)
PoolLookup(c) ==
    LET k == call[c].on
    IN /\ At(c, "pool")
       /\ \/ pool[k].cached /\ Goto(c, "read")
          \/ ~pool[k].cached /\ Exists(k) /\ Goto(c, "decrypt")
          \/ ~pool[k].cached /\ ~Exists(k) /\ Answer(c)
       /\ raced' = IF ~pool[k].cached /\ \E d \in Slot : At(d, "decrypt") /\ call[d].on = k
                   THEN [raced EXCEPT !.firstUse = @ \cup {k}] ELSE raced
       /\ UNCHANGED <<tables, pool, server, shell, secret>>

(* Mutant: the engine is made and not remembered.                          *)
PoolCreateUncached(c) ==
    /\ At(c, "decrypt")
    /\ Readable(call[c].on)
    /\ pool' = [pool EXCEPT ![call[c].on].open = @ + 1]
    /\ Goto(c, "read")
    /\ UNCHANGED <<tables, server, shell, secret, raced>>

(* The DSN is read and decrypted and its engine overwrites the cache.      *)
PoolCreate(c) ==
    /\ At(c, "decrypt")
    /\ \/ /\ Readable(call[c].on)
          /\ pool' = [pool EXCEPT ![call[c].on] = [cached |-> TRUE, open |-> @.open + 1]]
          /\ Goto(c, "read")
       \/ /\ ~Readable(call[c].on)
          /\ Answer(c)
          /\ UNCHANGED pool
    /\ UNCHANGED <<tables, server, shell, secret, raced>>

QueryRead(c) ==
    /\ At(c, "read")
    /\ Answer(c)
    /\ UNCHANGED <<tables, pool, server, shell, secret, raced>>

-----------------------------------------------------------------------------
(* The operator's commands.                                                *)

(* rotate-secret lists the connections,                                    *)
RotateList ==
    /\ shell.pc = "idle"
    /\ secret = "old"
    /\ shell' = [pc |-> "rotate", todo |-> {k \in Conn : Exists(k)}, done |-> {}]
    /\ UNCHANGED <<tables, pool, server, secret, call, raced>>

(* Mutant: each row is committed by itself.                                *)
RotateRowAlone(k) ==
    /\ shell.pc = "rotate"
    /\ k \in shell.todo
    /\ ~Deleting(k)
    /\ Exists(k)
    /\ shell' = [shell EXCEPT !.todo = @ \ {k}]
    /\ conn' = [conn EXCEPT ![k].key = "new"]
    /\ UNCHANGED <<token, cookie, audit, pool, server, secret, call, raced>>

(* decrypts each DSN and updates its row. One that was deleted is not      *)
(* found (ShellFails), or not updated when it went between the two; the    *)
(* rows that it has updated are locked (done),                             *)
RotateRow(k) ==
    /\ shell.pc = "rotate"
    /\ k \in shell.todo
    /\ ~Deleting(k)
    /\ shell' = [shell EXCEPT !.todo = @ \ {k}, !.done = IF Exists(k) THEN @ \cup {k} ELSE @]
    /\ UNCHANGED <<tables, pool, server, secret, call, raced>>

(* and commits: "restart the server with the new ONTO_SECRET_KEY".         *)
RotateCommit ==
    /\ shell.pc = "rotate"
    /\ shell.todo = {}
    /\ conn' = [k \in Conn |-> IF k \in shell.done THEN [conn[k] EXCEPT !.key = "new"]
                               ELSE conn[k]]
    /\ secret' = "new"
    /\ shell' = NoShell
    /\ UNCHANGED <<token, cookie, audit, pool, server, call, raced>>

(* A command dies, or a row that was listed is gone: nothing is committed. *)
ShellFails ==
    /\ shell.pc # "idle"
    /\ shell' = NoShell
    /\ UNCHANGED <<tables, pool, server, secret, call, raced>>

(* force-revoke-all-tokens: one UPDATE.                                    *)
ForceRevokeAll ==
    /\ shell.pc = "idle"
    /\ \E t \in Token : Live(t)
    /\ token' = [t \in Token |-> IF Live(t) THEN [token[t] EXCEPT !.status = "forced"]
                                 ELSE token[t]]
    /\ UNCHANGED <<cookie, conn, audit, pool, server, shell, secret, call, raced>>

-----------------------------------------------------------------------------
Handler(c) ==
    \/ Authenticate(c) \/ ToolMint(c) \/ ToolRevoke(c) \/ ToolAdd(c) \/ ToolDelete(c)
    \/ ToolQuery(c) \/ ToolQueryOpen(c) \/ ToolRaises(c) \/ AuditAndCommit(c)
    \/ LoginLookup(c) \/ LoginInsert(c) \/ Resolve(c) \/ VisitEnds(c)
    \/ QueryMeta(c) \/ PoolLookup(c) \/ PoolCreate(c) \/ QueryRead(c)
    \/ StatementFails(c)

Called == (IF "tokens" \in traffic THEN TokenTools ELSE {})
          \cup (IF "connections" \in traffic THEN ConnTools ELSE {})
          \cup (IF "queries" \in traffic THEN {"query_sql"} ELSE {})

Client(c) ==
    \/ \E t \in Token, tool \in Called, x \in Token \cup Conn \cup {Nobody} :
          /\ x = Nobody /\ tool \in {"revoke_token", "delete_connection"} => "unknown" \in traffic
          /\ CallTool(c, t, tool, x)
    \/ /\ "sessions" \in traffic
       /\ \/ \E t \in Token : Login(c, t)
          \/ \E s \in Cookie : Visit(c, s)
    \/ "queries" \in traffic /\ \E k \in Conn : Query(c, k)

Shell ==
    \/ "tokens" \in traffic /\ (ShellBoot \/ ForceRevokeAll)
    \/ "rotation" \in traffic /\ RotateList
    \/ RotateCommit \/ ShellFails \/ \E k \in Conn : RotateRow(k)

Next ==
    /\ \/ Start \/ Stop \/ Shell
       \/ \E p \in Processes : BootCount(p) \/ BootInsert(p)
       \/ \E c \in Slot : Client(c) \/ Handler(c)
       \/ \E s \in Cookie : LogoutOrExpire(s)
    /\ UNCHANGED traffic

Spec == Init /\ [][Next]_vars

-----------------------------------------------------------------------------
(* Properties.                                                             *)

Pcs == {"idle", "auth", "tool", "open", "commit", "login", "session", "resolve", "visit",
        "meta", "pool", "decrypt", "read"}

(* The types; an engine is cached or open only while the server is up.     *)
TypeOK ==
    /\ token \in [Token -> [status : {"none", "live", "revoked", "forced"}, scope : Scope,
                            by : Token \cup {Nobody, Operator}]]
    /\ cookie \in [Cookie -> [status : {"none", "live", "over"},
                              of : Token \cup {Nobody}]]
    /\ conn \in [Conn -> [status : {"none", "there", "deleted"}, key : {"old", "new"}]]
    /\ audit \subseteq [by : Token, tool : Tools, on : Token \cup Conn \cup {Nobody}]
    /\ pool \in [Conn -> [cached : BOOLEAN, open : Nat]]
    /\ server \in [pc : {"down", "count", "insert", "up"}, key : {"old", "new"}]
    /\ shell \in [pc : {"idle", "count", "insert", "rotate"}, todo : SUBSET Conn, done : SUBSET Conn]
    /\ secret \in {"old", "new"}
    /\ call \in [Slot -> [pc : Pcs, tool : Tools \cup {"none"}, by : Token \cup {Nobody},
                          on : Token \cup Conn \cup Cookie \cup {Nobody}, scope : Scope,
                          late : BOOLEAN]]
    /\ raced \in [boot : BOOLEAN, firstUse : SUBSET Conn, missed : SUBSET Conn]
    /\ server.pc # "up" => pool = NoPool /\ call = [c \in Slot |-> NoCall]

Logged(tool, x) == {row \in audit : row.tool = tool /\ row.on = x}

(* What the admin tools did is in the audit log, and what the log calls ok *)
(* was done, by a token of scope admin: effect and row are in one commit,  *)
(* whichever handlers raise, statements fail or servers stop.              *)
EffectsAreAudited ==
    /\ \A t \in Token :
          /\ token[t].by \in Token => {row.by : row \in Logged("mint_token", t)} = {token[t].by}
          /\ token[t].status = "revoked" => Logged("revoke_token", t) # {}
          /\ token[t].status \in {"none", "live"} => Logged("revoke_token", t) = {}
    /\ \A k \in Conn :
          /\ conn[k].status # "none" <=> Cardinality(Logged("add_connection", k)) = 1
          /\ conn[k].status = "deleted" <=> Logged("delete_connection", k) # {}
    /\ \A row \in audit :
          /\ token[row.by].scope \in Needs(row.tool)
          /\ row.tool = "mint_token" => token[row.on].by = row.by

(* A tool call, login or page that comes in after its token was revoked or *)
(* its session ended has no effect and is not served; nor does query_sql   *)
(* or an instance query read the database of a connection that was deleted *)
(* before, cached engine or not. Instance queries take no token or         *)
(* session, so a revoked one stops none of them (data_routes.py:20).       *)
WithdrawnMeansOut ==
    \A c \in Slot : call[c].late => call[c].pc \notin {"open", "commit", "session", "visit", "read"}

(* "If api_tokens is empty, mint an admin token": once, for all starts and *)
(* commands that do not overlap, and never again once there was a token.   *)
BootstrapOnce ==
    raced.boot \/ Cardinality({t \in Token : token[t].by = Operator}) <= 1

(* The key that rotate-secret tells the operator reads every row, but for  *)
(* those that a server with the old key inserted while it ran or since.    *)
SecretReadsAll ==
    \A k \in Conn \ raced.missed : Exists(k) => conn[k].key = secret

(* No engine is left open that the cache does not know, unless two first   *)
(* uses of a connection overlapped.                                        *)
EnginesAreCached ==
    /\ TypeOK
    /\ \A k \in Conn \ raced.firstUse : pool[k].open = IF pool[k].cached THEN 1 ELSE 0

(* A query_sql that is about to answer delivers what its statement asks    *)
(* for up to the cap and calls the answer truncated exactly when rows were *)
(* cut off, whatever the statement, its own limit, max_rows and the table. *)
CapIsExact ==
    \A c \in Slot : At(c, "commit") /\ call[c].tool = "query_sql" => EveryCapIsExact

(* A reader of instances that turns pages while has_more says so meets     *)
(* every row once, whatever the page size and the number of rows.          *)
PagesPartition == \A c \in Slot : At(c, "read") => EveryPagingPartitions
=============================================================================
