--------------------------- MODULE DataAccessProofs ---------------------------
(***************************************************************************)
(* Theorems about DataAccess, for any number of tokens, sessions,          *)
(* connections and requests at once, and about the row caps and pages of   *)
(* QueryLimits, for every value of the settings and every number of rows.  *)
(*                                                                         *)
(* Rows of the tables only move forward (Forward): what exists never was   *)
(* not, what is withdrawn stays so. A request keeps what it has looked up  *)
(* (SlotOK) through every such move. From there: the audit log agrees with *)
(* the tables (Audited), bootstraps (BootedOnce), the rotation (Rotated)   *)
(* and the engine cache (CachedOnce), each with an invariant of its own.   *)
(***************************************************************************)
EXTENDS DataAccess, FiniteSetTheorems, TLAPS

TokenRow  == [status : {"none", "live", "revoked", "forced"}, scope : Scope,
              by : Token \cup {Nobody, Operator}]
CookieRow == [status : {"none", "live", "over"}, of : Token \cup {Nobody}]
ConnRow   == [status : {"none", "there", "deleted"}, key : {"old", "new"}]
AuditRow  == [by : Token, tool : Tools, on : Token \cup Conn \cup {Nobody}]
Engine    == [cached : BOOLEAN, open : Nat]
Server    == [pc : {"down", "count", "insert", "up"}, key : {"old", "new"}]
ShellRun  == [pc : {"idle", "count", "insert", "rotate"}, todo : SUBSET Conn, done : SUBSET Conn]
Call      == [pc : Pcs, tool : Tools \cup {"none"}, by : Token \cup {Nobody},
              on : Token \cup Conn \cup Cookie \cup {Nobody}, scope : Scope, late : BOOLEAN]
Races     == [boot : BOOLEAN, firstUse : SUBSET Conn, missed : SUBSET Conn]

Idle == [c \in Slot |-> NoCall]

(* What a request has looked up and may rely on.                           *)
Asks(r) ==
    r.pc \in {"auth", "tool", "open", "commit"} =>
       /\ r.tool \in Tools
       /\ r.by \in Token /\ token[r.by].status # "none"
       /\ r.tool = "revoke_token" =>
             r.on = Nobody \/ (r.on \in Token /\ token[r.on].status # "none")
       /\ r.tool \in {"delete_connection", "query_sql"} =>
             \/ r.on = Nobody /\ r.tool = "delete_connection"
             \/ r.on \in Conn /\ conn[r.on].status # "none"

Runs(r) ==
    /\ r.pc \in {"tool", "open", "commit"} => token[r.by].scope \in Needs(r.tool)
    /\ r.pc = "open" => r.tool = "query_sql"
    /\ r.pc = "commit" =>
          /\ r.tool = "mint_token" => r.on \in Token /\ token[r.on].status = "none"
          /\ r.tool = "add_connection" => r.on \in Conn /\ conn[r.on].status = "none"

Browses(r) ==
    /\ r.pc \in {"login", "session"} => r.by \in Token /\ token[r.by].status # "none"
    /\ r.pc \in {"resolve", "visit"} => r.on \in Cookie /\ cookie[r.on].status # "none"
    /\ r.pc \in {"meta", "pool", "decrypt", "read"} => r.on \in Conn /\ conn[r.on].status # "none"

(* A late request gets no further than the look-up that turns it away.     *)
Late(r) ==
    r.late =>
       /\ r.pc \in {"auth", "tool", "login", "resolve", "meta"}
       /\ r.pc = "auth" => ~Live(r.by) \/ (r.tool = "query_sql" /\ ~Exists(r.on))
       /\ r.pc = "tool" => r.tool = "query_sql" /\ ~Exists(r.on)
       /\ r.pc = "login" => ~Live(r.by)
       /\ r.pc = "resolve" => ~Opens(r.on)
       /\ r.pc = "meta" => ~Exists(r.on)

SlotOK(r) == Asks(r) /\ Runs(r) /\ Browses(r) /\ Late(r)

Inserts(c) == call[c].pc = "commit" /\ call[c].tool \in {"mint_token", "add_connection"}

(* No two requests are about to insert the same row; sessions have owners; *)
(* a row that was never inserted is blank.                                 *)
RowsOK ==
    /\ \A c, d \in Slot : Inserts(c) /\ Inserts(d) /\ call[c].on = call[d].on
                          /\ call[c].tool = call[d].tool => c = d
    /\ \A s \in Cookie : cookie[s].status # "none" =>
          cookie[s].of \in Token /\ token[cookie[s].of].status # "none"
    /\ \A t \in Token : token[t].status = "none" => token[t].by = Nobody

SlotsOK == \A c \in Slot : SlotOK(call[c])

(* Tables and audit log, row by row.                                       *)
TokenAudited(t) ==
    /\ token[t].by \in Token => {row.by : row \in Logged("mint_token", t)} = {token[t].by}
    /\ token[t].status = "revoked" => Logged("revoke_token", t) # {}
    /\ token[t].status \in {"none", "live"} => Logged("revoke_token", t) = {}

ConnAudited(k) ==
    /\ conn[k].status = "none" => Logged("add_connection", k) = {}
    /\ conn[k].status # "none" => \E row \in audit : Logged("add_connection", k) = {row}
    /\ conn[k].status = "deleted" <=> Logged("delete_connection", k) # {}

RowAudited(row) ==
    /\ token[row.by].status # "none" /\ token[row.by].scope \in Needs(row.tool)
    /\ row.tool = "mint_token" => row.on \in Token /\ token[row.on].by = row.by

Audited == /\ \A t \in Token : TokenAudited(t)
           /\ \A k \in Conn : ConnAudited(k)
           /\ \A row \in audit : RowAudited(row)

(* Between the count and the insert of a bootstrap there is no token.      *)
BootedOnce ==
    ~raced.boot =>
       /\ \A t, u \in Token : token[t].by = Operator /\ token[u].by = Operator => t = u
       /\ server.pc = "insert" \/ shell.pc = "insert" => \A t \in Token : token[t].status = "none"
       /\ ~(server.pc = "insert" /\ shell.pc = "insert")

(* Until a rotation commits there is one key; what it has listed is all.   *)
Rotated ==
    /\ secret = "old" => server.key = "old" /\ \A k \in Conn : Exists(k) => conn[k].key = "old"
    /\ shell.pc = "rotate" => /\ secret = "old"
                              /\ \A k \in Conn \ raced.missed :
                                    Exists(k) => k \in shell.todo \cup shell.done
    /\ \A k \in Conn \ raced.missed : Exists(k) => conn[k].key = secret

FirstUse(c, k) == call[c].pc = "decrypt" /\ call[c].on = k

(* One first use at a time, and only while nothing is cached.              *)
CachedOnce ==
    \A k \in Conn \ raced.firstUse :
       /\ pool[k].open = IF pool[k].cached THEN 1 ELSE 0
       /\ \A c, d \in Slot : FirstUse(c, k) /\ FirstUse(d, k) => c = d
       /\ \A c \in Slot : FirstUse(c, k) => ~pool[k].cached

CoreInv == TypeOK /\ SlotsOK /\ RowsOK
AccessInv == CoreInv /\ Audited /\ BootedOnce /\ Rotated /\ CachedOnce

-----------------------------------------------------------------------------
(* Types, and one request's record.                                        *)

LEMMA TypeParts ==
    TypeOK <=> /\ token \in [Token -> TokenRow] /\ cookie \in [Cookie -> CookieRow]
               /\ conn \in [Conn -> ConnRow] /\ audit \subseteq AuditRow
               /\ pool \in [Conn -> Engine] /\ server \in Server /\ shell \in ShellRun
               /\ secret \in {"old", "new"} /\ call \in [Slot -> Call] /\ raced \in Races
               /\ server.pc # "up" => pool = NoPool /\ call = Idle
BY Zenon DEF TypeOK, TokenRow, CookieRow, ConnRow, AuditRow, Engine, Server, ShellRun, Call, Races, Idle

LEMMA TypePartsNext ==
    TypeOK' <=> /\ token' \in [Token -> TokenRow] /\ cookie' \in [Cookie -> CookieRow]
                /\ conn' \in [Conn -> ConnRow] /\ audit' \subseteq AuditRow
                /\ pool' \in [Conn -> Engine] /\ server' \in Server /\ shell' \in ShellRun
                /\ secret' \in {"old", "new"} /\ call' \in [Slot -> Call] /\ raced' \in Races
                /\ server'.pc # "up" => pool' = NoPool /\ call' = Idle
BY Zenon DEF TypeOK, TokenRow, CookieRow, ConnRow, AuditRow, Engine, Server, ShellRun, Call, Races, Idle, NoPool

LEMMA NoCallFacts ==
    /\ NoCall \in Call /\ NoCall.pc = "idle" /\ NoCall.late = FALSE
    /\ SlotOK(NoCall)
BY DEF NoCall, Call, Pcs, Scope, SlotOK, Asks, Runs, Browses, Late

LEMMA CallAt ==
    ASSUME NEW r \in Call, NEW pc \in Pcs
    PROVE  LET q == [r EXCEPT !.pc = pc]
           IN /\ q \in Call /\ q.pc = pc /\ q.tool = r.tool /\ q.by = r.by /\ q.on = r.on
              /\ q.scope = r.scope /\ q.late = r.late
BY DEF Call

LEMMA Busy ==
    ASSUME TypeOK, NEW c \in Slot, call[c].pc # "idle"
    PROVE  server.pc = "up"
<1>1. server.pc # "up" => call = Idle
  BY TypeParts
<1>. QED
  BY <1>1, NoCallFacts DEF Idle

(* The request of one slot is somewhere else.                              *)
Moved(c) ==
    \E r \in Call :
       /\ call' = [call EXCEPT ![c] = r]
       /\ SlotOK(r)
       /\ r.pc = "commit" /\ r.tool \in {"mint_token", "add_connection"} => ~InFlight(r.on)
       /\ r.pc # "decrypt"

LEMMA AnswerMoves ==
    ASSUME NEW c \in Slot, Answer(c)
    PROVE  Moved(c)
BY NoCallFacts DEF Answer, Moved

LEMMA GotoMoves ==
    ASSUME TypeOK, NEW c \in Slot, NEW pc \in Pcs, Goto(c, pc)
    PROVE  \E r \in Call : /\ call' = [call EXCEPT ![c] = r]
                           /\ r.pc = pc /\ r.tool = call[c].tool /\ r.by = call[c].by
                           /\ r.on = call[c].on /\ r.late = call[c].late
<1> DEFINE r == [call[c] EXCEPT !.pc = pc]
<1>1. call \in [Slot -> Call]
  BY TypeParts
<1>2. call[c] \in Call
  BY <1>1
<1>3. /\ r \in Call /\ r.pc = pc /\ r.tool = call[c].tool /\ r.by = call[c].by
      /\ r.on = call[c].on /\ r.late = call[c].late
  BY <1>2, CallAt
<1>4. call' = [call EXCEPT ![c] = r]
  BY <1>1 DEF Goto
<1>. QED
  BY <1>3, <1>4

(* The statements of the dispatcher and its tools that write no table.     *)
LEMMA ToolSteps ==
    ASSUME TypeOK, SlotsOK, NEW c \in Slot,
           \/ Authenticate(c) \/ ToolMint(c) \/ ToolRevoke(c) \/ ToolAdd(c) \/ ToolDelete(c)
           \/ ToolQuery(c) \/ ToolQueryOpen(c) \/ ToolRaises(c) \/ StatementFails(c)
    PROVE  Moved(c)
<1>0. call[c] \in Call /\ SlotOK(call[c])
  BY TypeParts DEF SlotsOK
<1>p. {"tool", "open", "commit"} \subseteq Pcs
  BY DEF Pcs
<1>1. CASE Authenticate(c)
  <2>1. CASE Answer(c)
    BY <2>1, AnswerMoves
  <2>2. CASE Permitted(c) /\ Goto(c, "tool")
    <3>1. PICK r \in Call : /\ call' = [call EXCEPT ![c] = r]
                            /\ r.pc = "tool" /\ r.tool = call[c].tool /\ r.by = call[c].by
                            /\ r.on = call[c].on /\ r.late = call[c].late
      BY <1>p, <2>2, GotoMoves
    <3>2. SlotOK(r)
      BY <1>0, <1>1, <2>2, <3>1
         DEF Authenticate, At, Permitted, SlotOK, Asks, Runs, Browses, Late
    <3>. QED
      BY <3>1, <3>2 DEF Moved
  <2>. QED
    BY <1>1, <2>1, <2>2 DEF Authenticate
<1>2. CASE ToolMint(c)
  <2>1. PICK t \in Token, s \in Scope :
           /\ Fresh(t)
           /\ call' = [call EXCEPT ![c] = [@ EXCEPT !.pc = "commit", !.on = t, !.scope = s]]
    BY <1>2 DEF ToolMint
  <2> DEFINE r == [[[call[c] EXCEPT !.pc = "commit"] EXCEPT !.on = t] EXCEPT !.scope = s]
  <2>2. /\ r \in Call /\ r.pc = "commit" /\ r.tool = call[c].tool /\ r.by = call[c].by /\ r.on = t
        /\ r.late = call[c].late
    BY <1>0, <1>p DEF Call
  <2>3. call \in [Slot -> Call]
    BY TypeParts
  <2>4. call' = [call EXCEPT ![c] = r]
    BY <2>1, <2>3
  <2> HIDE DEF r
  <2>5. SlotOK(r)
    BY <1>0, <1>2, <2>1, <2>2 DEF ToolMint, At, Fresh, SlotOK, Asks, Runs, Browses, Late
  <2>. QED
    BY <2>1, <2>2, <2>4, <2>5 DEF Moved, Fresh
<1>3. CASE ToolAdd(c)
  <2>1. PICK k \in Conn :
           /\ conn[k].status = "none" /\ ~InFlight(k)
           /\ call' = [call EXCEPT ![c] = [@ EXCEPT !.pc = "commit", !.on = k]]
    BY <1>3 DEF ToolAdd
  <2> DEFINE r == [[call[c] EXCEPT !.pc = "commit"] EXCEPT !.on = k]
  <2>2. /\ r \in Call /\ r.pc = "commit" /\ r.tool = call[c].tool /\ r.by = call[c].by /\ r.on = k
        /\ r.late = call[c].late
    BY <1>0, <1>p DEF Call
  <2>3. call \in [Slot -> Call]
    BY TypeParts
  <2>4. call' = [call EXCEPT ![c] = r]
    BY <2>1, <2>3
  <2> HIDE DEF r
  <2>5. SlotOK(r)
    BY <1>0, <1>3, <2>1, <2>2 DEF ToolAdd, At, SlotOK, Asks, Runs, Browses, Late
  <2>. QED
    BY <2>1, <2>2, <2>4, <2>5 DEF Moved
<1>4. CASE ToolRevoke(c) \/ ToolDelete(c) \/ ToolQueryOpen(c)
  <2>1. PICK r \in Call : /\ call' = [call EXCEPT ![c] = r]
                          /\ r.pc = "commit" /\ r.tool = call[c].tool /\ r.by = call[c].by
                          /\ r.on = call[c].on /\ r.late = call[c].late
    BY <1>p, <1>4, GotoMoves DEF ToolRevoke, ToolDelete, ToolQueryOpen
  <2>2. /\ call[c].pc \in {"tool", "open"} /\ ~call[c].late
        /\ call[c].tool \in {"revoke_token", "delete_connection", "query_sql"}
    BY <1>0, <1>4 DEF ToolRevoke, ToolDelete, ToolQueryOpen, At, SlotOK, Runs, Late
  <2>3. SlotOK(r)
    BY <1>0, <2>1, <2>2 DEF SlotOK, Asks, Runs, Browses, Late
  <2>. QED
    BY <2>1, <2>2, <2>3 DEF Moved
<1>5. CASE ToolQuery(c)
  <2>1. PICK r \in Call : /\ call' = [call EXCEPT ![c] = r]
                          /\ r.pc = "open" /\ r.tool = call[c].tool /\ r.by = call[c].by
                          /\ r.on = call[c].on /\ r.late = call[c].late
    BY <1>p, <1>5, GotoMoves DEF ToolQuery
  <2>2. SlotOK(r)
    BY <1>0, <1>5, <2>1 DEF ToolQuery, At, SlotOK, Asks, Runs, Browses, Late
  <2>. QED
    BY <2>1, <2>2 DEF Moved
<1>6. CASE ToolRaises(c) \/ StatementFails(c)
  BY <1>6, AnswerMoves DEF ToolRaises, StatementFails
<1>. QED
  BY <1>1, <1>2, <1>3, <1>4, <1>5, <1>6

(* Those of sessions and instance queries, but for the first use of an     *)
(* engine.                                                                 *)
LEMMA BrowserSteps ==
    ASSUME TypeOK, SlotsOK, NEW c \in Slot,
           \/ LoginLookup(c) \/ LoginInsert(c) \/ Resolve(c) \/ VisitEnds(c)
           \/ QueryMeta(c) \/ QueryRead(c)
    PROVE  Moved(c)
<1>0. call[c] \in Call /\ SlotOK(call[c])
  BY TypeParts DEF SlotsOK
<1>p. {"session", "visit", "pool"} \subseteq Pcs
  BY DEF Pcs
<1>1. CASE Answer(c)
  BY <1>1, AnswerMoves
<1>2. CASE LoginLookup(c) /\ Live(call[c].by) /\ Goto(c, "session")
  <2>1. PICK r \in Call : /\ call' = [call EXCEPT ![c] = r]
                          /\ r.pc = "session" /\ r.tool = call[c].tool /\ r.by = call[c].by
                          /\ r.on = call[c].on /\ r.late = call[c].late
    BY <1>p, <1>2, GotoMoves
  <2>2. SlotOK(r)
    BY <1>0, <1>2, <2>1 DEF LoginLookup, At, SlotOK, Asks, Runs, Browses, Late
  <2>. QED
    BY <2>1, <2>2 DEF Moved
<1>3. CASE Resolve(c) /\ Opens(call[c].on) /\ Goto(c, "visit")
  <2>1. PICK r \in Call : /\ call' = [call EXCEPT ![c] = r]
                          /\ r.pc = "visit" /\ r.tool = call[c].tool /\ r.by = call[c].by
                          /\ r.on = call[c].on /\ r.late = call[c].late
    BY <1>p, <1>3, GotoMoves
  <2>2. SlotOK(r)
    BY <1>0, <1>3, <2>1 DEF Resolve, At, SlotOK, Asks, Runs, Browses, Late
  <2>. QED
    BY <2>1, <2>2 DEF Moved
<1>4. CASE QueryMeta(c) /\ Exists(call[c].on) /\ Goto(c, "pool")
  <2>1. PICK r \in Call : /\ call' = [call EXCEPT ![c] = r]
                          /\ r.pc = "pool" /\ r.tool = call[c].tool /\ r.by = call[c].by
                          /\ r.on = call[c].on /\ r.late = call[c].late
    BY <1>p, <1>4, GotoMoves
  <2>2. SlotOK(r)
    BY <1>0, <1>4, <2>1 DEF QueryMeta, At, SlotOK, Asks, Runs, Browses, Late
  <2>. QED
    BY <2>1, <2>2 DEF Moved
<1>. QED
  BY <1>1, <1>2, <1>3, <1>4 DEF LoginLookup, LoginInsert, Resolve, VisitEnds, QueryMeta, QueryRead

(* A request comes in.                                                     *)
LEMMA ClientSteps ==
    ASSUME TypeOK, SlotsOK, RowsOK, NEW c \in Slot, Client(c)
    PROVE  Moved(c) /\ Serving /\ UNCHANGED <<tables, pool, server, shell, secret, raced>>
<1>0. call \in [Slot -> Call] /\ cookie \in [Cookie -> CookieRow]
  BY TypeParts
<1>p. {"auth", "login", "resolve", "meta"} \subseteq Pcs
  BY DEF Pcs
<1>1. ASSUME NEW t \in Token, NEW tool \in Called, NEW x \in Token \cup Conn \cup {Nobody},
             CallTool(c, t, tool, x)
      PROVE  Moved(c) /\ Serving /\ UNCHANGED <<tables, pool, server, shell, secret, raced>>
  <2>1. tool \in Tools
    BY DEF Called, Tools, TokenTools, ConnTools
  <2>2. PICK late \in BOOLEAN : late = (~Live(t) \/ (tool = "query_sql" /\ ~Exists(x)))
    OBVIOUS
  <2> DEFINE r == [NoCall EXCEPT !.pc = "auth", !.tool = tool, !.by = t, !.on = x, !.late = late]
  <2>3. call' = [call EXCEPT ![c] = r]
    BY <1>1, <2>2, Zenon DEF CallTool
  <2>4. /\ r \in Call /\ r.pc = "auth" /\ r.tool = tool /\ r.by = t /\ r.on = x /\ r.late = late
    BY <1>p, <2>1 DEF Call, NoCall, Scope
  <2> HIDE DEF r
  <2>5. /\ token[t].status # "none"
        /\ tool = "revoke_token" => x = Nobody \/ (x \in Token /\ token[x].status # "none")
        /\ tool \in {"delete_connection", "query_sql"} =>
              \/ x = Nobody /\ tool = "delete_connection"
              \/ x \in Conn /\ conn[x].status # "none"
        /\ Serving /\ UNCHANGED <<tables, pool, server, shell, secret, raced>>
    BY <1>1 DEF CallTool
  <2>6. SlotOK(r)
    BY <2>1, <2>2, <2>4, <2>5 DEF SlotOK, Asks, Runs, Browses, Late
  <2>. QED
    BY <2>3, <2>4, <2>5, <2>6 DEF Moved
<1>2. ASSUME NEW t \in Token, Login(c, t)
      PROVE  Moved(c) /\ Serving /\ UNCHANGED <<tables, pool, server, shell, secret, raced>>
  <2>1. PICK late \in BOOLEAN : late = ~Live(t)
    OBVIOUS
  <2> DEFINE r == [NoCall EXCEPT !.pc = "login", !.by = t, !.late = late]
  <2>2. call' = [call EXCEPT ![c] = r]
    BY <1>2, <2>1, Zenon DEF Login
  <2>3. r \in Call /\ r.pc = "login" /\ r.by = t /\ r.late = late
    BY <1>p DEF Call, NoCall, Scope
  <2> HIDE DEF r
  <2>4. SlotOK(r)
    BY <1>2, <2>1, <2>3 DEF Login, SlotOK, Asks, Runs, Browses, Late
  <2>. QED
    BY <1>2, <2>2, <2>3, <2>4 DEF Moved, Login
<1>3. ASSUME NEW s \in Cookie, Visit(c, s)
      PROVE  Moved(c) /\ Serving /\ UNCHANGED <<tables, pool, server, shell, secret, raced>>
  <2>1. PICK late \in BOOLEAN : late = (cookie[s].status # "live" \/ ~Live(cookie[s].of))
    OBVIOUS
  <2>2. PICK by \in Token \cup {Nobody} : by = cookie[s].of
    BY <1>0 DEF CookieRow
  <2> DEFINE r == [NoCall EXCEPT !.pc = "resolve", !.by = by, !.on = s, !.late = late]
  <2>3. call' = [call EXCEPT ![c] = r]
    BY <1>3, <2>1, <2>2, Zenon DEF Visit
  <2>4. r \in Call /\ r.pc = "resolve" /\ r.on = s /\ r.late = late
    BY <1>p DEF Call, NoCall, Scope
  <2> HIDE DEF r
  <2>5. SlotOK(r)
    BY <1>3, <2>1, <2>4 DEF Visit, SlotOK, Asks, Runs, Browses, Late, Opens
  <2>. QED
    BY <1>3, <2>3, <2>4, <2>5 DEF Moved, Visit
<1>4. ASSUME NEW k \in Conn, Query(c, k)
      PROVE  Moved(c) /\ Serving /\ UNCHANGED <<tables, pool, server, shell, secret, raced>>
  <2>1. PICK late \in BOOLEAN : late = ~Exists(k)
    OBVIOUS
  <2> DEFINE r == [NoCall EXCEPT !.pc = "meta", !.on = k, !.late = late]
  <2>2. call' = [call EXCEPT ![c] = r]
    BY <1>4, <2>1, Zenon DEF Query
  <2>3. r \in Call /\ r.pc = "meta" /\ r.on = k /\ r.late = late
    BY <1>p DEF Call, NoCall, Scope
  <2> HIDE DEF r
  <2>4. SlotOK(r)
    BY <1>4, <2>1, <2>3 DEF Query, SlotOK, Asks, Runs, Browses, Late
  <2>. QED
    BY <1>4, <2>2, <2>3, <2>4 DEF Moved, Query
<1>. QED
  BY <1>1, <1>2, <1>3, <1>4, Zenon DEF Client

(* The first use of a connection, and the uses that find its engine.       *)
LEMMA PoolSteps ==
    ASSUME TypeOK, SlotsOK, NEW c \in Slot, PoolLookup(c) \/ PoolCreate(c)
    PROVE  \E r \in Call :
              /\ call' = [call EXCEPT ![c] = r]
              /\ SlotOK(r)
              /\ r.pc \in {"idle", "read", "decrypt"}
              /\ r.pc = "decrypt" => /\ PoolLookup(c) /\ r.on = call[c].on
                                     /\ ~pool[call[c].on].cached
<1>0. call[c] \in Call /\ SlotOK(call[c])
  BY TypeParts DEF SlotsOK
<1>p. {"read", "decrypt"} \subseteq Pcs
  BY DEF Pcs
<1>1. call[c].pc \in {"pool", "decrypt"}
  BY DEF PoolLookup, PoolCreate, At
<1>2. CASE Answer(c)
  BY <1>2, NoCallFacts DEF Answer
<1>3. CASE Goto(c, "read")
  <2>1. PICK r \in Call : /\ call' = [call EXCEPT ![c] = r]
                          /\ r.pc = "read" /\ r.tool = call[c].tool /\ r.by = call[c].by
                          /\ r.on = call[c].on /\ r.late = call[c].late
    BY <1>p, <1>3, GotoMoves
  <2>2. SlotOK(r)
    BY <1>0, <1>1, <2>1 DEF SlotOK, Asks, Runs, Browses, Late
  <2>. QED
    BY <2>1, <2>2
<1>4. CASE PoolLookup(c) /\ ~pool[call[c].on].cached /\ Goto(c, "decrypt")
  <2>1. PICK r \in Call : /\ call' = [call EXCEPT ![c] = r]
                          /\ r.pc = "decrypt" /\ r.tool = call[c].tool /\ r.by = call[c].by
                          /\ r.on = call[c].on /\ r.late = call[c].late
    BY <1>p, <1>4, GotoMoves
  <2>2. SlotOK(r)
    BY <1>0, <1>1, <2>1 DEF SlotOK, Asks, Runs, Browses, Late
  <2>. QED
    BY <1>4, <2>1, <2>2
<1>5. \/ Answer(c) \/ Goto(c, "read")
      \/ PoolLookup(c) /\ ~pool[call[c].on].cached /\ Goto(c, "decrypt")
  BY Zenon DEF PoolLookup, PoolCreate
<1>. QED
  BY <1>2, <1>3, <1>4, <1>5

-----------------------------------------------------------------------------
(* Rows only move forward, and requests keep what they looked up.          *)

Forward ==
    /\ \A t \in Token : token[t].status # "none" =>
          /\ token'[t].status # "none"
          /\ token'[t].scope = token[t].scope /\ token'[t].by = token[t].by
          /\ token'[t].status = "live" => token[t].status = "live"
    /\ \A k \in Conn : conn[k].status # "none" =>
          /\ conn'[k].status # "none"
          /\ conn'[k].status = "there" => conn[k].status = "there"
    /\ \A s \in Cookie : cookie[s].status # "none" =>
          /\ cookie'[s].status # "none" /\ cookie'[s].of = cookie[s].of
          /\ cookie'[s].status = "live" => cookie[s].status = "live"

LEMMA SlotForward ==
    ASSUME Forward, RowsOK, NEW r, SlotOK(r),
           r.pc = "commit" /\ r.tool = "mint_token" => token'[r.on].status = "none",
           r.pc = "commit" /\ r.tool = "add_connection" => conn'[r.on].status = "none"
    PROVE  /\ Asks(r)' /\ Runs(r)' /\ Browses(r)' /\ Late(r)'
<1>1. Asks(r) /\ Runs(r) /\ Browses(r) /\ Late(r)
  BY DEF SlotOK
<1>2. Asks(r)'
  BY <1>1 DEF Asks, Forward
<1>3. Runs(r)'
  <2>1. ASSUME r.pc \in {"tool", "open", "commit"}
        PROVE  token'[r.by].scope \in Needs(r.tool)
    <3>1. r.by \in Token /\ token[r.by].status # "none" /\ token[r.by].scope \in Needs(r.tool)
      BY <1>1, <2>1 DEF Asks, Runs
    <3>. QED
      BY <3>1 DEF Forward
  <2>. QED
    BY <1>1, <2>1 DEF Runs
<1>4. Browses(r)'
  BY <1>1 DEF Browses, Forward
<1>5. Late(r)'
  <2> SUFFICES ASSUME r.late  PROVE Late(r)'
    BY DEF Late
  <2>1. /\ r.pc \in {"auth", "tool", "login", "resolve", "meta"}
        /\ r.pc = "auth" => ~Live(r.by) \/ (r.tool = "query_sql" /\ ~Exists(r.on))
        /\ r.pc = "tool" => r.tool = "query_sql" /\ ~Exists(r.on)
        /\ r.pc = "login" => ~Live(r.by)
        /\ r.pc = "resolve" => ~Opens(r.on)
        /\ r.pc = "meta" => ~Exists(r.on)
    BY <1>1 DEF Late
  <2>2. \A t \in Token : token[t].status # "none" /\ ~Live(t) => ~Live(t)'
    BY DEF Forward, Live
  <2>3. \A k \in Conn : conn[k].status # "none" /\ ~Exists(k) => ~Exists(k)'
    BY DEF Forward, Exists
  <2>4. \A s \in Cookie : cookie[s].status # "none" /\ ~Opens(s) => ~Opens(s)'
    <3> SUFFICES ASSUME NEW s \in Cookie, cookie[s].status # "none", ~Opens(s), Opens(s)'
                 PROVE  FALSE
      OBVIOUS
    <3>1. cookie[s].of \in Token /\ token[cookie[s].of].status # "none"
      BY DEF RowsOK
    <3>2. cookie'[s].status = "live" /\ token'[cookie'[s].of].status = "live"
      BY DEF Opens, Live
    <3>3. cookie[s].status = "live" /\ cookie'[s].of = cookie[s].of
      BY <3>2 DEF Forward
    <3>4. token[cookie[s].of].status = "live"
      BY <3>1, <3>2, <3>3 DEF Forward
    <3>. QED
      BY <3>3, <3>4 DEF Opens, Live
  <2>5. r.pc \in {"auth", "login"} => r.by \in Token /\ token[r.by].status # "none"
    BY <1>1 DEF Asks, Browses
  <2>6. (r.pc \in {"auth", "tool"} /\ r.tool = "query_sql") \/ r.pc = "meta" =>
           r.on \in Conn /\ conn[r.on].status # "none"
    BY <1>1 DEF Asks, Browses
  <2>7. r.pc = "resolve" => r.on \in Cookie /\ cookie[r.on].status # "none"
    BY <1>1 DEF Browses
  <2>. QED
    BY <2>1, <2>2, <2>3, <2>4, <2>5, <2>6, <2>7 DEF Late
<1>. QED
  BY <1>2, <1>3, <1>4, <1>5

LEMMA SlotNext ==
    ASSUME NEW c \in Slot, NEW r, call'[c] = r,
           Asks(r)', Runs(r)', Browses(r)', Late(r)'
    PROVE  SlotOK(call[c])'
<1>1. Asks(call[c])'
  BY Zenon DEF Asks
<1>2. Runs(call[c])'
  BY Zenon DEF Runs
<1>3. Browses(call[c])'
  BY Zenon DEF Browses
<1>4. Late(call[c])'
  BY Zenon DEF Late, Live, Exists, Opens
<1>. QED
  BY <1>1, <1>2, <1>3, <1>4 DEF SlotOK

(* A slot moves on; the tables stay.                                       *)
LEMMA QuietCore ==
    ASSUME CoreInv, NEW c \in Slot, NEW r \in Call,
           call' = [call EXCEPT ![c] = r], SlotOK(r),
           r.pc = "commit" /\ r.tool \in {"mint_token", "add_connection"} => ~InFlight(r.on),
           token' = token, conn' = conn, cookie' = cookie
    PROVE  SlotsOK' /\ RowsOK' /\ call' \in [Slot -> Call]
<1>1. call \in [Slot -> Call] /\ SlotsOK /\ RowsOK
  BY TypeParts DEF CoreInv
<1>2. call' \in [Slot -> Call] /\ call'[c] = r /\ \A d \in Slot : d # c => call'[d] = call[d]
  BY <1>1
<1>3. ASSUME NEW q, SlotOK(q)
      PROVE  SlotOK(q)'
  <2>1. Asks(q)' /\ Runs(q)'
    BY <1>3 DEF SlotOK, Asks, Runs
  <2>2. Browses(q)' /\ Late(q)'
    BY <1>3 DEF SlotOK, Browses, Late, Live, Exists, Opens
  <2>. QED
    BY <2>1, <2>2 DEF SlotOK
<1>4. SlotsOK'
  <2> SUFFICES ASSUME NEW d \in Slot  PROVE SlotOK(call[d])'
    BY DEF SlotsOK
  <2>1. PICK q : q = call'[d]
    OBVIOUS
  <2>2. SlotOK(q)
    BY <1>1, <1>2, <2>1 DEF SlotsOK
  <2>3. Asks(q)' /\ Runs(q)' /\ Browses(q)' /\ Late(q)'
    BY <1>3, <2>2 DEF SlotOK
  <2>. QED
    BY <2>1, <2>3, SlotNext
<1>5. ASSUME NEW d \in Slot, NEW e \in Slot, Inserts(d)', Inserts(e)',
             call'[d].on = call'[e].on, call'[d].tool = call'[e].tool
      PROVE  d = e
  <2>1. ASSUME NEW g \in Slot, g # c, Inserts(g)', Inserts(c)', call'[g].on = r.on  PROVE FALSE
    <3>1. call[g].pc = "commit" /\ call[g].on = r.on
      BY <1>2, <2>1 DEF Inserts
    <3>2. InFlight(r.on)
      BY <3>1 DEF InFlight, At
    <3>3. ~InFlight(r.on)
      BY <1>2, <2>1 DEF Inserts
    <3>. QED
      BY <3>2, <3>3
  <2>2. CASE d = c \/ e = c
    BY <1>2, <1>5, <2>1, <2>2
  <2>3. CASE d # c /\ e # c
    BY <1>1, <1>2, <1>5, <2>3 DEF RowsOK, Inserts
  <2>. QED
    BY <2>2, <2>3
<1>6. RowsOK'
  BY <1>1, <1>5 DEF RowsOK
<1>. QED
  BY <1>2, <1>4, <1>6

(* Tables move forward while the slots stay, but for one that ends.        *)
LEMMA ForwardCore ==
    ASSUME CoreInv, Forward, NEW done \in SUBSET Slot,
           call' = [c \in Slot |-> IF c \in done THEN NoCall ELSE call[c]],
           \A c \in Slot \ done : call[c].pc = "commit" =>
              /\ call[c].tool = "mint_token" => token'[call[c].on].status = "none"
              /\ call[c].tool = "add_connection" => conn'[call[c].on].status = "none",
           \A t \in Token : token'[t].status = "none" => token'[t].by = Nobody,
           \A s \in Cookie : cookie[s].status = "none" /\ cookie'[s].status # "none" =>
              cookie'[s].of \in Token /\ token'[cookie'[s].of].status # "none"
    PROVE  SlotsOK' /\ RowsOK' /\ call' \in [Slot -> Call]
<1>1. call \in [Slot -> Call] /\ SlotsOK /\ RowsOK
  BY TypeParts DEF CoreInv
<1>2. call' \in [Slot -> Call]
  BY <1>1, NoCallFacts
<1>3. ASSUME NEW c \in Slot
      PROVE  SlotOK(call[c])'
  <2>1. CASE c \in done
    <3>1. call'[c] = NoCall
      BY <2>1
    <3>2. Asks(NoCall)' /\ Runs(NoCall)' /\ Browses(NoCall)' /\ Late(NoCall)'
      BY NoCallFacts DEF Asks, Runs, Browses, Late
    <3>. QED
      BY <3>1, <3>2, SlotNext
  <2>2. CASE c \notin done
    <3>1. call'[c] = call[c] /\ SlotOK(call[c])
      BY <1>1, <2>2 DEF SlotsOK
    <3>2. PICK r : r = call[c]
      OBVIOUS
    <3>3. Asks(r)' /\ Runs(r)' /\ Browses(r)' /\ Late(r)'
      BY <1>1, <2>2, <3>1, <3>2, SlotForward
    <3>. QED
      BY <3>1, <3>2, <3>3, SlotNext
  <2>. QED
    BY <2>1, <2>2
<1>4. \A c \in Slot : Inserts(c)' => c \notin done /\ Inserts(c) /\ call'[c] = call[c]
  BY NoCallFacts DEF Inserts
<1>5. \A s \in Cookie : cookie'[s].status # "none" =>
         cookie'[s].of \in Token /\ token'[cookie'[s].of].status # "none"
  BY <1>1 DEF RowsOK, Forward
<1>. QED
  BY <1>1, <1>2, <1>3, <1>4, <1>5 DEF SlotsOK, RowsOK

-----------------------------------------------------------------------------
(* A commit, tool by tool.                                                 *)

Minted(c) ==
    /\ call[c].tool = "mint_token" /\ call[c].on \in Token /\ token[call[c].on].status = "none"
    /\ token' = [token EXCEPT ![call[c].on] = [status |-> "live", scope |-> call[c].scope,
                                               by |-> call[c].by]]
    /\ conn' = conn /\ raced' = raced

Revoked(c) ==
    /\ call[c].tool = "revoke_token" /\ call[c].on \in Token /\ token[call[c].on].status # "none"
    /\ \/ Live(call[c].on) /\ token' = [token EXCEPT ![call[c].on].status = "revoked"]
       \/ ~Live(call[c].on) /\ token' = token
    /\ conn' = conn /\ raced' = raced

Added(c) ==
    /\ call[c].tool = "add_connection" /\ call[c].on \in Conn /\ conn[call[c].on].status = "none"
    /\ conn' = [conn EXCEPT ![call[c].on] = [status |-> "there", key |-> server.key]]
    /\ \/ /\ shell.pc = "rotate" \/ server.key # secret
          /\ raced' = [raced EXCEPT !.missed = @ \cup {call[c].on}]
       \/ /\ shell.pc # "rotate" /\ server.key = secret
          /\ raced' = raced
    /\ token' = token

Deleted(c) ==
    /\ call[c].tool = "delete_connection" /\ call[c].on \in Conn /\ conn[call[c].on].status # "none"
    /\ conn' = [conn EXCEPT ![call[c].on].status = "deleted"]
    /\ token' = token /\ raced' = raced

(* Nothing is written: a query, or a tool that was given an id of no row.  *)
Queried(c) ==
    /\ \/ call[c].tool = "query_sql" /\ call[c].on \in Conn
       \/ call[c].tool \in {"revoke_token", "delete_connection"} /\ call[c].on = Nobody
    /\ token' = token /\ conn' = conn /\ raced' = raced

LEMMA CommitKinds ==
    ASSUME CoreInv, NEW c \in Slot, AuditAndCommit(c)
    PROVE  /\ server.pc = "up" /\ call[c].pc = "commit"
           /\ call[c].tool \in Tools /\ call[c].by \in Token /\ token[call[c].by].status # "none"
           /\ token[call[c].by].scope \in Needs(call[c].tool)
           /\ call[c].on \in Token \cup Conn \cup {Nobody} /\ call[c].scope \in Scope
           /\ call' = [call EXCEPT ![c] = NoCall] /\ audit' = audit \cup {Row(c)}
           /\ UNCHANGED <<cookie, pool, server, shell, secret>>
           /\ Minted(c) \/ Revoked(c) \/ Added(c) \/ Deleted(c) \/ Queried(c)
<1>1. /\ call[c].pc = "commit" /\ audit' = audit \cup {Row(c)}
      /\ call' = [call EXCEPT ![c] = NoCall]
      /\ UNCHANGED <<cookie, pool, server, shell, secret>> /\ Effect(c)
  BY DEF AuditAndCommit, At, Answer
<1>2. /\ call[c] \in Call /\ Asks(call[c]) /\ Runs(call[c]) /\ token \in [Token -> TokenRow]
  BY TypeParts DEF CoreInv, SlotsOK, SlotOK
<1>3. call[c].scope \in Scope
  BY <1>2 DEF Call
<1>4. /\ call[c].tool \in Tools /\ call[c].by \in Token /\ token[call[c].by].status # "none"
      /\ token[call[c].by].scope \in Needs(call[c].tool)
  BY <1>1, <1>2 DEF Asks, Runs
<1>5. server.pc = "up"
  BY <1>1, Busy DEF CoreInv
<1>6. CASE call[c].tool = "mint_token"
  <2>1. Minted(c) /\ call[c].on \in Token
    BY <1>1, <1>2, <1>6 DEF Effect, Runs, Minted
  <2>. QED
    BY <1>1, <1>3, <1>4, <1>5, <2>1
<1>7. CASE call[c].tool = "revoke_token"
  <2>1. call[c].on = Nobody \/ (call[c].on \in Token /\ token[call[c].on].status # "none")
    BY <1>1, <1>2, <1>7 DEF Asks
  <2>2. /\ token' = [t \in Token |-> IF t = call[c].on /\ Live(t)
                       THEN [token[t] EXCEPT !.status = "revoked"] ELSE token[t]]
        /\ conn' = conn /\ raced' = raced
    BY <1>1, <1>7 DEF Effect
  <2>3. CASE call[c].on \in Token /\ Live(call[c].on)
    <3>1. token' = [token EXCEPT ![call[c].on].status = "revoked"]
      BY <1>2, <2>2, <2>3
    <3>. QED
      BY <1>1, <1>3, <1>4, <1>5, <1>7, <2>1, <2>2, <2>3, <3>1, AccessAssumption DEF Revoked
  <2>4. CASE ~(call[c].on \in Token /\ Live(call[c].on))
    <3>1. \A t \in Token : ~(t = call[c].on /\ Live(t))
      BY <2>4
    <3>2. token' = token
      BY <1>2, <2>2, <3>1
    <3>. QED
      BY <1>1, <1>3, <1>4, <1>5, <1>7, <2>1, <2>2, <2>4, <3>2 DEF Revoked, Queried
  <2>. QED
    BY <2>3, <2>4
<1>8. CASE call[c].tool = "add_connection"
  <2>1. call[c].on \in Conn /\ conn[call[c].on].status = "none"
    BY <1>1, <1>2, <1>8 DEF Runs
  <2>2. Added(c)
    BY <1>1, <1>8, <2>1 DEF Effect, Added
  <2>. QED
    BY <1>1, <1>3, <1>4, <1>5, <2>1, <2>2
<1>9. CASE call[c].tool = "delete_connection"
  <2>1. call[c].on = Nobody \/ (call[c].on \in Conn /\ conn[call[c].on].status # "none")
    BY <1>1, <1>2, <1>9 DEF Asks
  <2>2. /\ conn' = [k \in Conn |-> IF k = call[c].on THEN [conn[k] EXCEPT !.status = "deleted"]
                                    ELSE conn[k]]
        /\ token' = token /\ raced' = raced
    BY <1>1, <1>9 DEF Effect
  <2>3. conn \in [Conn -> ConnRow]
    BY TypeParts DEF CoreInv
  <2>4. CASE call[c].on = Nobody
    <3>1. \A k \in Conn : k # call[c].on
      BY <2>4, AccessAssumption
    <3>2. conn' = conn
      BY <2>2, <2>3, <3>1
    <3>. QED
      BY <1>1, <1>3, <1>4, <1>5, <1>9, <2>2, <2>4, <3>2 DEF Queried
  <2>5. CASE call[c].on \in Conn /\ conn[call[c].on].status # "none"
    <3>1. conn' = [conn EXCEPT ![call[c].on].status = "deleted"]
      BY <2>2, <2>3, <2>5
    <3>2. Deleted(c)
      BY <1>9, <2>2, <2>5, <3>1 DEF Deleted
    <3>. QED
      BY <1>1, <1>3, <1>4, <1>5, <2>5, <3>2
  <2>. QED
    BY <2>1, <2>4, <2>5
<1>10. CASE call[c].tool = "query_sql"
  <2>1. Queried(c)
    BY <1>1, <1>2, <1>10 DEF Effect, Asks, Queried
  <2>. QED
    BY <1>1, <1>3, <1>4, <1>5, <2>1 DEF Queried
<1>. QED
  BY <1>4, <1>6, <1>7, <1>8, <1>9, <1>10 DEF Tools, TokenTools, ConnTools

LEMMA CommitForward ==
    ASSUME CoreInv, NEW c \in Slot, AuditAndCommit(c)
    PROVE  /\ Forward
           /\ token' \in [Token -> TokenRow] /\ conn' \in [Conn -> ConnRow] /\ raced' \in Races
           /\ \A t \in Token : token'[t].status = "none" => token'[t].by = Nobody
           /\ \A t \in Token : token[t].status = "none" /\ token'[t].status # "none" =>
                 call[c].tool = "mint_token" /\ call[c].on = t
           /\ \A k \in Conn : conn[k].status = "none" /\ conn'[k].status # "none" =>
                 call[c].tool = "add_connection" /\ call[c].on = k
<1>1. /\ token \in [Token -> TokenRow] /\ conn \in [Conn -> ConnRow] /\ raced \in Races
      /\ server.key \in {"old", "new"} /\ call[c].by \in Token /\ call[c].scope \in Scope
      /\ cookie' = cookie
      /\ \A t \in Token : token[t].status = "none" => token[t].by = Nobody
      /\ Minted(c) \/ Revoked(c) \/ Added(c) \/ Deleted(c) \/ Queried(c)
  BY TypeParts, CommitKinds DEF CoreInv, RowsOK, Server
<1>2. CASE Minted(c)
  <2>1. [status |-> "live", scope |-> call[c].scope, by |-> call[c].by] \in TokenRow
    BY <1>1 DEF TokenRow
  <2>. QED
    BY <1>1, <1>2, <2>1 DEF Minted, Forward
<1>3. CASE Revoked(c)
  <2>1. CASE token' = token
    BY <1>1, <1>3, <2>1 DEF Revoked, Forward
  <2>2. CASE Live(call[c].on) /\ token' = [token EXCEPT ![call[c].on].status = "revoked"]
    <3>1. \A t \in Token : /\ t # call[c].on => token'[t] = token[t]
                           /\ t = call[c].on => /\ token'[t].status = "revoked"
                                                /\ token'[t].scope = token[t].scope
                                                /\ token'[t].by = token[t].by
      BY <1>1, <2>2 DEF TokenRow
    <3>2. token' \in [Token -> TokenRow]
      BY <1>1, <2>2 DEF TokenRow
    <3>3. Forward
      BY <1>1, <1>3, <3>1 DEF Forward, Revoked
    <3>. QED
      BY <1>1, <1>3, <3>1, <3>2, <3>3 DEF Revoked
  <2>. QED
    BY <1>3, <2>1, <2>2 DEF Revoked
<1>4. CASE Added(c)
  <2>1. [status |-> "there", key |-> server.key] \in ConnRow
    BY <1>1 DEF ConnRow
  <2>2. raced' \in Races
    BY <1>1, <1>4 DEF Added, Races
  <2>. QED
    BY <1>1, <1>4, <2>1, <2>2 DEF Added, Forward
<1>5. CASE Deleted(c)
  <2>1. \A k \in Conn : /\ k # call[c].on => conn'[k] = conn[k]
                        /\ k = call[c].on => conn'[k].status = "deleted"
    BY <1>1, <1>5 DEF ConnRow, Deleted
  <2>2. conn' \in [Conn -> ConnRow]
    BY <1>1, <1>5 DEF ConnRow, Deleted
  <2>3. Forward
    BY <1>1, <1>5, <2>1 DEF Forward, Deleted
  <2>. QED
    BY <1>1, <1>5, <2>1, <2>2, <2>3 DEF Deleted
<1>6. CASE Queried(c)
  BY <1>1, <1>6 DEF Queried, Forward
<1>. QED
  BY <1>1, <1>2, <1>3, <1>4, <1>5, <1>6

LEMMA CommitCore ==
    ASSUME CoreInv, NEW c \in Slot, AuditAndCommit(c)
    PROVE  CoreInv'
<1>1. TypeOK /\ SlotsOK /\ RowsOK
  BY DEF CoreInv
<1>2. ASSUME NEW d \in Slot \ {c}, call[d].pc = "commit"
      PROVE  /\ call[d].tool = "mint_token" => token'[call[d].on].status = "none"
             /\ call[d].tool = "add_connection" => conn'[call[d].on].status = "none"
  <2>1. /\ call[d].tool = "mint_token" =>
              call[d].on \in Token /\ token[call[d].on].status = "none"
        /\ call[d].tool = "add_connection" =>
              call[d].on \in Conn /\ conn[call[d].on].status = "none"
    BY <1>1, <1>2 DEF SlotsOK, SlotOK, Runs
  <2>2. ASSUME call[c].tool = call[d].tool, call[d].tool \in {"mint_token", "add_connection"}
        PROVE  call[c].on # call[d].on
    BY <1>1, <1>2, <2>2, CommitKinds DEF RowsOK, Inserts
  <2>. QED
    BY <2>1, <2>2, CommitForward
<1>3. call' = [d \in Slot |-> IF d \in {c} THEN NoCall ELSE call[d]]
  BY <1>1, CommitKinds, TypeParts
<1>4. SlotsOK' /\ RowsOK' /\ call' \in [Slot -> Call]
  <2>1. cookie' = cookie /\ {c} \in SUBSET Slot
    BY CommitKinds
  <2>. QED
    BY <1>2, <1>3, <2>1, CommitForward, ForwardCore
<1>5. Row(c) \in AuditRow
  BY CommitKinds DEF Row, AuditRow
<1>6. TypeOK'
  BY <1>1, <1>4, <1>5, TypeParts, TypePartsNext, CommitKinds, CommitForward
<1>. QED
  BY <1>4, <1>6 DEF CoreInv

-----------------------------------------------------------------------------
(* Every step is of one of these kinds.                                    *)

Quiet == /\ \E c \in Slot : Moved(c)
         /\ server.pc = "up"
         /\ UNCHANGED <<tables, pool, server, shell, secret, raced>>

Operation == \/ Start \/ Stop \/ ShellBoot \/ ForceRevokeAll
             \/ RotateList \/ RotateCommit \/ ShellFails

Kind == \/ Quiet \/ Operation
        \/ \E c \in Slot : LoginInsert(c) \/ PoolLookup(c) \/ PoolCreate(c) \/ AuditAndCommit(c)
        \/ \E p \in Processes : BootCount(p) \/ BootInsert(p)
        \/ \E k \in Conn : RotateRow(k)
        \/ \E s \in Cookie : LogoutOrExpire(s)

LEMMA StepKinds ==
    ASSUME CoreInv, Next
    PROVE  Kind
<1>0. TypeOK /\ SlotsOK /\ RowsOK
  BY DEF CoreInv
<1>1. ASSUME NEW c \in Slot, Client(c)
      PROVE  Quiet
  BY <1>0, <1>1, ClientSteps DEF Quiet, Serving
<1>2. ASSUME NEW c \in Slot,
             \/ Authenticate(c) \/ ToolMint(c) \/ ToolRevoke(c) \/ ToolAdd(c) \/ ToolDelete(c)
             \/ ToolQuery(c) \/ ToolQueryOpen(c) \/ ToolRaises(c) \/ StatementFails(c)
      PROVE  Quiet
  <2>1. Moved(c)
    BY <1>0, <1>2, ToolSteps
  <2>2. call[c].pc # "idle" /\ UNCHANGED <<tables, pool, server, shell, secret, raced>>
    BY <1>2 DEF Authenticate, ToolMint, ToolRevoke, ToolAdd, ToolDelete, ToolQuery, ToolQueryOpen,
                ToolRaises, StatementFails, At
  <2>. QED
    BY <1>0, <2>1, <2>2, Busy DEF Quiet
<1>3. ASSUME NEW c \in Slot,
             \/ LoginLookup(c) \/ Resolve(c) \/ VisitEnds(c) \/ QueryMeta(c) \/ QueryRead(c)
      PROVE  Quiet
  <2>1. Moved(c)
    BY <1>0, <1>3, BrowserSteps
  <2>2. call[c].pc # "idle" /\ UNCHANGED <<tables, pool, server, shell, secret, raced>>
    BY <1>3 DEF LoginLookup, Resolve, VisitEnds, QueryMeta, QueryRead, At
  <2>. QED
    BY <1>0, <2>1, <2>2, Busy DEF Quiet
<1>4. ASSUME NEW c \in Slot, Handler(c)
      PROVE  Kind
  BY <1>2, <1>3, <1>4, Zenon DEF Handler, Kind
<1>. QED
  BY <1>1, <1>4, Zenon DEF Next, Kind, Shell, Operation

(* The rows that the steps of the operator and of sessions write.          *)
LEMMA OtherForward ==
    ASSUME CoreInv,
           \/ \E p \in Processes : BootInsert(p)
           \/ ForceRevokeAll \/ RotateCommit
           \/ \E c \in Slot : LoginInsert(c)
           \/ \E s \in Cookie : LogoutOrExpire(s)
    PROVE  /\ Forward
           /\ token' \in [Token -> TokenRow] /\ conn' \in [Conn -> ConnRow]
           /\ cookie' \in [Cookie -> CookieRow]
           /\ \A t \in Token : token'[t].status = "none" => token'[t].by = Nobody
           /\ \A t \in Token : token[t].status = "none" /\ token'[t].status # "none" => ~InFlight(t)
           /\ \A k \in Conn : conn[k].status = "none" => conn'[k].status = "none"
           /\ \A s \in Cookie : cookie[s].status = "none" /\ cookie'[s].status # "none" =>
                 cookie'[s].of \in Token /\ token'[cookie'[s].of].status # "none"
<1>0. /\ token \in [Token -> TokenRow] /\ conn \in [Conn -> ConnRow]
      /\ cookie \in [Cookie -> CookieRow]
      /\ \A t \in Token : token[t].status = "none" => token[t].by = Nobody
  BY TypeParts DEF CoreInv, RowsOK
<1>1. ASSUME NEW p \in Processes, BootInsert(p)
      PROVE  /\ token' \in [Token -> TokenRow] /\ conn' = conn /\ cookie' = cookie
             /\ \E t \in Token : /\ token[t].status = "none" /\ ~InFlight(t)
                                 /\ token'[t].status = "live"
                                 /\ \A u \in Token : u # t => token'[u] = token[u]
  <2>1. PICK t \in Token :
           /\ Fresh(t)
           /\ token' = [token EXCEPT ![t] = [status |-> "live", scope |-> "admin", by |-> Operator]]
    BY <1>1 DEF BootInsert
  <2>2. [status |-> "live", scope |-> "admin", by |-> Operator] \in TokenRow
    BY DEF TokenRow, Scope
  <2>3. token' \in [Token -> TokenRow] /\ token'[t].status = "live"
        /\ \A u \in Token : u # t => token'[u] = token[u]
    BY <1>0, <2>1, <2>2
  <2>4. conn' = conn /\ cookie' = cookie
    BY <1>1 DEF BootInsert
  <2>. QED
    BY <2>1, <2>3, <2>4 DEF Fresh
<1>2. CASE \E p \in Processes : BootInsert(p)
  BY <1>0, <1>1, <1>2 DEF Forward
<1>3. CASE ForceRevokeAll
  <2>1. token' = [t \in Token |-> IF Live(t) THEN [token[t] EXCEPT !.status = "forced"] ELSE token[t]]
    BY <1>3 DEF ForceRevokeAll
  <2>2. ASSUME NEW t \in Token
        PROVE  /\ token'[t] \in TokenRow
               /\ token'[t].scope = token[t].scope /\ token'[t].by = token[t].by
               /\ Live(t) => token'[t].status = "forced"
               /\ ~Live(t) => token'[t] = token[t]
    <3>1. token[t] \in TokenRow
      BY <1>0
    <3>2. [token[t] EXCEPT !.status = "forced"] \in TokenRow
          /\ [token[t] EXCEPT !.status = "forced"].scope = token[t].scope
          /\ [token[t] EXCEPT !.status = "forced"].by = token[t].by
          /\ [token[t] EXCEPT !.status = "forced"].status = "forced"
      BY <3>1 DEF TokenRow
    <3>. QED
      BY <2>1, <3>1, <3>2
  <2>3. token' \in [Token -> TokenRow] /\ conn' = conn /\ cookie' = cookie
    BY <1>3, <2>1, <2>2 DEF ForceRevokeAll
  <2>. QED
    BY <1>0, <2>2, <2>3 DEF Forward, Live
<1>4. CASE RotateCommit
  <2>1. conn' = [k \in Conn |-> IF k \in shell.done THEN [conn[k] EXCEPT !.key = "new"] ELSE conn[k]]
    BY <1>4 DEF RotateCommit
  <2>2. ASSUME NEW k \in Conn
        PROVE  conn'[k] \in ConnRow /\ conn'[k].status = conn[k].status
    <3>1. conn[k] \in ConnRow
      BY <1>0
    <3>2. [conn[k] EXCEPT !.key = "new"] \in ConnRow
          /\ [conn[k] EXCEPT !.key = "new"].status = conn[k].status
      BY <3>1 DEF ConnRow
    <3>. QED
      BY <2>1, <3>1, <3>2
  <2>3. token' = token /\ conn' \in [Conn -> ConnRow] /\ cookie' = cookie
    BY <1>4, <2>1, <2>2 DEF RotateCommit
  <2>. QED
    BY <1>0, <2>2, <2>3 DEF Forward
<1>5. ASSUME NEW c \in Slot, LoginInsert(c)
      PROVE  /\ Forward /\ token' = token /\ conn' = conn /\ cookie' \in [Cookie -> CookieRow]
             /\ \A s \in Cookie : cookie[s].status = "none" /\ cookie'[s].status # "none" =>
                   cookie'[s].of \in Token /\ token[cookie'[s].of].status # "none"
  <2>1. PICK s \in Cookie :
           /\ cookie[s].status = "none"
           /\ cookie' = [cookie EXCEPT ![s] = [status |-> "live", of |-> call[c].by]]
    BY <1>5 DEF LoginInsert
  <2>2. call[c].by \in Token /\ token[call[c].by].status # "none"
    BY <1>5 DEF LoginInsert, At, CoreInv, SlotsOK, SlotOK, Browses
  <2>3. [status |-> "live", of |-> call[c].by] \in CookieRow
    BY <2>2 DEF CookieRow
  <2>4. token' = token /\ conn' = conn
    BY <1>5 DEF LoginInsert
  <2>. QED
    BY <1>0, <2>1, <2>2, <2>3, <2>4 DEF Forward
<1>6. ASSUME NEW s \in Cookie, LogoutOrExpire(s)
      PROVE  /\ Forward /\ token' = token /\ conn' = conn /\ cookie' \in [Cookie -> CookieRow]
             /\ \A q \in Cookie : cookie[q].status = "none" => cookie'[q].status = "none"
  <2>1. /\ cookie[s].status = "live" /\ cookie' = [cookie EXCEPT ![s].status = "over"]
        /\ token' = token /\ conn' = conn
    BY <1>6 DEF LogoutOrExpire
  <2>2. /\ cookie' \in [Cookie -> CookieRow]
        /\ cookie'[s].status = "over" /\ cookie'[s].of = cookie[s].of
        /\ \A q \in Cookie : q # s => cookie'[q] = cookie[q]
    BY <1>0, <2>1 DEF CookieRow
  <2>. QED
    BY <2>1, <2>2 DEF Forward
<1>7. CASE \E c \in Slot : LoginInsert(c)
  BY <1>0, <1>5, <1>7
<1>8. CASE \E s \in Cookie : LogoutOrExpire(s)
  BY <1>0, <1>6, <1>8
<1>. QED
  BY <1>2, <1>3, <1>4, <1>7, <1>8

LEMMA OtherCore ==
    ASSUME CoreInv,
           \/ \E p \in Processes : BootInsert(p)
           \/ ForceRevokeAll \/ RotateCommit
           \/ \E c \in Slot : LoginInsert(c)
           \/ \E s \in Cookie : LogoutOrExpire(s)
    PROVE  SlotsOK' /\ RowsOK' /\ call' \in [Slot -> Call]
<1>1. call \in [Slot -> Call] /\ SlotsOK
  BY TypeParts DEF CoreInv
<1>2. \E done \in SUBSET Slot :
         call' = [c \in Slot |-> IF c \in done THEN NoCall ELSE call[c]]
  <2>1. CASE \E c \in Slot : LoginInsert(c)
    <3>1. PICK c \in Slot : call' = [call EXCEPT ![c] = NoCall]
      BY <2>1 DEF LoginInsert, Answer
    <3>. WITNESS {c} \in SUBSET Slot
    <3>. QED
      BY <1>1, <3>1
  <2>2. CASE call' = call
    <3>. WITNESS {} \in SUBSET Slot
    <3>. QED
      BY <1>1, <2>2
  <2>. QED
    BY <2>1, <2>2 DEF BootInsert, ForceRevokeAll, RotateCommit, LogoutOrExpire
<1>3. ASSUME NEW c \in Slot, call[c].pc = "commit"
      PROVE  /\ call[c].tool = "mint_token" => token'[call[c].on].status = "none"
             /\ call[c].tool = "add_connection" => conn'[call[c].on].status = "none"
  <2>1. InFlight(call[c].on)
    BY <1>3 DEF InFlight, At
  <2>2. /\ call[c].tool = "mint_token" =>
              call[c].on \in Token /\ token[call[c].on].status = "none"
        /\ call[c].tool = "add_connection" =>
              call[c].on \in Conn /\ conn[call[c].on].status = "none"
    BY <1>1, <1>3 DEF SlotsOK, SlotOK, Runs
  <2>. QED
    BY <2>1, <2>2, OtherForward
<1>4. PICK done \in SUBSET Slot :
         call' = [c \in Slot |-> IF c \in done THEN NoCall ELSE call[c]]
  BY <1>2
<1>. QED
  BY <1>3, <1>4, OtherForward, ForwardCore

(* Requests and rows are what they were, where no table and no call moved.  *)
LEMMA SameRowsSameSlots ==
    ASSUME SlotsOK, RowsOK, UNCHANGED <<token, cookie, conn, call>>
    PROVE  SlotsOK' /\ RowsOK'
<1>1. ASSUME NEW c \in Slot
      PROVE  SlotOK(call[c])'
  <2>1. Asks(call[c])' /\ Runs(call[c])'
    BY DEF SlotsOK, SlotOK, Asks, Runs
  <2>2. Browses(call[c])'
    BY DEF SlotsOK, SlotOK, Browses
  <2>3. Late(call[c])'
    BY DEF SlotsOK, SlotOK, Late, Live, Exists, Opens
  <2>. QED
    BY <2>1, <2>2, <2>3 DEF SlotOK
<1>2. RowsOK'
  BY DEF RowsOK, Inserts
<1>. QED
  BY <1>1, <1>2 DEF SlotsOK

(* The steps that write only the server, the shell or the pool.            *)
LEMMA ServerShellTypes ==
    ASSUME TypeOK
    PROVE  /\ Start => server' \in Server /\ server'.pc # "up" /\ server.pc # "up"
           /\ Stop => server' \in Server /\ raced' \in Races
           /\ ShellBoot \/ RotateList \/ RotateCommit \/ ShellFails \/ (\E k \in Conn : RotateRow(k))
                 => shell' \in ShellRun
           /\ \A p \in Processes : BootCount(p) \/ BootInsert(p) =>
                 /\ server' \in Server /\ shell' \in ShellRun /\ raced' \in Races
                 /\ server' = server \/ (server.pc # "up" /\ server'.key = server.key)
<1>0. /\ server \in Server /\ shell \in ShellRun /\ raced \in Races /\ secret \in {"old", "new"}
  BY TypeParts
<1>1. Start => server' \in Server /\ server'.pc # "up" /\ server.pc # "up"
  BY <1>0 DEF Start, Server
<1>2. Stop => server' \in Server /\ raced' \in Races
  BY <1>0 DEF Stop, Server, Races
<1>3. ShellBoot \/ RotateList \/ RotateCommit \/ ShellFails \/ (\E k \in Conn : RotateRow(k))
         => shell' \in ShellRun
  <2>1. NoShell \in ShellRun
    BY DEF NoShell, ShellRun
  <2>2. ShellBoot => shell' \in ShellRun
    BY <1>0 DEF ShellBoot, ShellRun
  <2>3. RotateList => shell' \in ShellRun
    BY DEF RotateList, ShellRun
  <2>4. ASSUME NEW k \in Conn, RotateRow(k)  PROVE shell' \in ShellRun
    <3>1. PICK done \in SUBSET Conn :
             shell' = [shell EXCEPT !.todo = @ \ {k}, !.done = done]
      <4>1. CASE Exists(k)
        <5>1. shell.done \cup {k} \in SUBSET Conn
          BY <1>0 DEF ShellRun
        <5>2. shell' = [shell EXCEPT !.todo = @ \ {k}, !.done = shell.done \cup {k}]
          BY <1>0, <2>4, <4>1 DEF RotateRow, ShellRun
        <5>. QED
          BY <5>1, <5>2
      <4>2. CASE ~Exists(k)
        <5>1. shell.done \in SUBSET Conn
          BY <1>0 DEF ShellRun
        <5>2. shell' = [shell EXCEPT !.todo = @ \ {k}, !.done = shell.done]
          BY <1>0, <2>4, <4>2 DEF RotateRow, ShellRun
        <5>. QED
          BY <5>1, <5>2
      <4>. QED
        BY <4>1, <4>2
    <3>. QED
      BY <1>0, <3>1 DEF ShellRun
  <2>. QED
    BY <2>1, <2>2, <2>3, <2>4 DEF RotateCommit, ShellFails
<1>4. ASSUME NEW p \in Processes, BootCount(p) \/ BootInsert(p)
      PROVE  /\ server' \in Server /\ shell' \in ShellRun /\ raced' \in Races
             /\ server' = server \/ (server.pc # "up" /\ server'.key = server.key)
  <2>1. raced' \in Races
    <3>1. \A b \in BOOLEAN : [raced EXCEPT !.boot = b] \in Races
      BY <1>0 DEF Races
    <3>2. (raced.boot \/ \E q \in Processes \ {p} : PcOf(q) = "insert") \in BOOLEAN
      BY <1>0 DEF Races
    <3>3. \/ raced' = raced
          \/ raced' = [raced EXCEPT !.boot =
                          raced.boot \/ \E q \in Processes \ {p} : PcOf(q) = "insert"]
      BY <1>4 DEF BootCount, BootInsert
    <3>. QED
      BY <1>0, <3>1, <3>2, <3>3
  <2>2. PICK pc \in {"insert", "idle", "up"} :
           Booting(p, pc) /\ (p = "server" => pc # "idle") /\ (p = "shell" => pc # "up")
    BY <1>4 DEF BootCount, BootInsert, Booted, Processes
  <2>3. CASE p = "server"
    <3>1. server' = [server EXCEPT !.pc = pc] /\ shell' = shell /\ server.pc # "up"
      BY <1>4, <2>2, <2>3 DEF Booting, BootCount, BootInsert, PcOf
    <3>. QED
      BY <1>0, <2>1, <2>2, <2>3, <3>1 DEF Server
  <2>4. CASE p = "shell"
    <3>1. shell' = [shell EXCEPT !.pc = pc] /\ server' = server
      BY <2>2, <2>4 DEF Booting
    <3>. QED
      BY <1>0, <2>1, <2>2, <2>4, <3>1 DEF ShellRun
  <2>. QED
    BY <2>3, <2>4 DEF Processes
<1>. QED
  BY <1>1, <1>2, <1>3, <1>4

LEMMA CoreStep ==
    ASSUME CoreInv, Kind
    PROVE  CoreInv'
<1>0. /\ TypeOK /\ SlotsOK /\ RowsOK
      /\ token \in [Token -> TokenRow] /\ cookie \in [Cookie -> CookieRow]
      /\ conn \in [Conn -> ConnRow] /\ audit \subseteq AuditRow
      /\ pool \in [Conn -> Engine] /\ server \in Server /\ shell \in ShellRun
      /\ secret \in {"old", "new"} /\ call \in [Slot -> Call] /\ raced \in Races
      /\ server.pc # "up" => pool = NoPool /\ call = Idle
  BY TypeParts DEF CoreInv
<1>1. CASE Quiet
  <2>1. PICK c \in Slot, r \in Call :
           /\ call' = [call EXCEPT ![c] = r] /\ SlotOK(r)
           /\ r.pc = "commit" /\ r.tool \in {"mint_token", "add_connection"} => ~InFlight(r.on)
    BY <1>1 DEF Quiet, Moved
  <2>2. SlotsOK' /\ RowsOK' /\ call' \in [Slot -> Call]
    BY <1>1, <2>1, QuietCore DEF Quiet, tables
  <2>. QED
    BY <1>0, <1>1, <2>2, TypePartsNext DEF Quiet, tables, CoreInv
<1>2. ASSUME NEW c \in Slot, PoolLookup(c) \/ PoolCreate(c)
      PROVE  CoreInv'
  <2>1. PICK r \in Call : /\ call' = [call EXCEPT ![c] = r] /\ SlotOK(r)
                          /\ r.pc \in {"idle", "read", "decrypt"}
    BY <1>0, <1>2, PoolSteps
  <2>2. UNCHANGED <<tables, server, shell, secret>>
    BY <1>2 DEF PoolLookup, PoolCreate
  <2>3. SlotsOK' /\ RowsOK' /\ call' \in [Slot -> Call]
    BY <2>1, <2>2, QuietCore DEF tables
  <2>4. call[c].pc \in {"pool", "decrypt"}
    BY <1>2 DEF PoolLookup, PoolCreate, At
  <2>5. server.pc = "up" /\ call[c].on \in Conn
    BY <1>0, <2>4, Busy DEF SlotsOK, SlotOK, Browses
  <2>6. pool' \in [Conn -> Engine]
    <3>1. pool[call[c].on] \in Engine
      BY <1>0, <2>5
    <3>2. [cached |-> TRUE, open |-> pool[call[c].on].open + 1] \in Engine
      BY <3>1 DEF Engine
    <3>. QED
      BY <1>0, <1>2, <2>5, <3>2 DEF PoolLookup, PoolCreate
  <2>7. raced' \in Races
    <3>1. [raced EXCEPT !.firstUse = @ \cup {call[c].on}] \in Races
      BY <1>0, <2>5 DEF Races
    <3>. QED
      BY <1>0, <1>2, <3>1 DEF PoolLookup, PoolCreate
  <2>. QED
    BY <1>0, <2>2, <2>3, <2>5, <2>6, <2>7, TypePartsNext DEF tables, CoreInv
<1>3. ASSUME NEW c \in Slot, AuditAndCommit(c)
      PROVE  CoreInv'
  BY <1>3, CommitCore
<1>4. ASSUME NEW p \in Processes, BootInsert(p)
      PROVE  CoreInv'
  <2>1. SlotsOK' /\ RowsOK' /\ call' \in [Slot -> Call]
    BY <1>4, OtherCore
  <2>2. /\ server' \in Server /\ shell' \in ShellRun /\ raced' \in Races
        /\ server' = server \/ server.pc # "up"
    BY <1>0, <1>4, ServerShellTypes
  <2>3. token' \in [Token -> TokenRow]
    BY <1>4, OtherForward
  <2>4. UNCHANGED <<cookie, conn, audit, pool, secret, call>>
    BY <1>4 DEF BootInsert
  <2>. QED
    BY <1>0, <2>1, <2>2, <2>3, <2>4, TypePartsNext DEF CoreInv
<1>5. ASSUME \/ ForceRevokeAll \/ RotateCommit \/ \E c \in Slot : LoginInsert(c)
             \/ \E s \in Cookie : LogoutOrExpire(s)
      PROVE  CoreInv'
  <2>1. SlotsOK' /\ RowsOK' /\ call' \in [Slot -> Call]
    BY <1>5, OtherCore
  <2>2. /\ token' \in [Token -> TokenRow] /\ conn' \in [Conn -> ConnRow]
        /\ cookie' \in [Cookie -> CookieRow]
    BY <1>5, OtherForward
  <2>3. /\ UNCHANGED <<audit, pool, server, raced>>
        /\ secret' \in {"old", "new"} /\ shell' \in ShellRun
    BY <1>0, <1>5, ServerShellTypes
       DEF ForceRevokeAll, RotateCommit, LoginInsert, LogoutOrExpire
  <2>4. server.pc # "up" => call' = Idle
    <3>1. CASE call' = call
      BY <1>0, <3>1
    <3>2. ASSUME NEW c \in Slot, LoginInsert(c)  PROVE server.pc = "up"
      BY <1>0, <3>2, Busy DEF LoginInsert, At
    <3>. QED
      BY <1>5, <3>1, <3>2 DEF ForceRevokeAll, RotateCommit, LogoutOrExpire
  <2>. QED
    BY <1>0, <2>1, <2>2, <2>3, <2>4, TypePartsNext DEF CoreInv
<1>6. CASE Stop
  <2>1. /\ call' = Idle /\ pool' = NoPool /\ token' = token /\ cookie' = cookie /\ conn' = conn
        /\ audit' = audit /\ shell' = shell /\ secret' = secret
    BY <1>6 DEF Stop, tables, Idle
  <2>2. Forward
    BY <2>1 DEF Forward
  <2>3. SlotsOK' /\ RowsOK' /\ call' \in [Slot -> Call]
    <3>1. call' = [c \in Slot |-> IF c \in Slot THEN NoCall ELSE call[c]]
      BY <2>1 DEF Idle
    <3>2. Slot \in SUBSET Slot
      OBVIOUS
    <3>3. /\ \A t \in Token : token'[t].status = "none" => token'[t].by = Nobody
          /\ \A s \in Cookie : cookie[s].status = "none" /\ cookie'[s].status # "none" =>
               cookie'[s].of \in Token /\ token'[cookie'[s].of].status # "none"
      BY <1>0, <2>1 DEF RowsOK
    <3>. QED
      BY <2>2, <3>1, <3>2, <3>3, ForwardCore
  <2>4. NoPool \in [Conn -> Engine]
    BY DEF NoPool, Engine
  <2>5. server' \in Server /\ raced' \in Races
    BY <1>0, <1>6, ServerShellTypes
  <2>. QED
    BY <1>0, <2>1, <2>3, <2>4, <2>5, TypePartsNext DEF CoreInv
<1>7. ASSUME UNCHANGED <<tables, pool, secret, call>>,
             server' \in Server, shell' \in ShellRun, raced' \in Races,
             server' = server \/ server.pc # "up"
      PROVE  CoreInv'
  <2>0. call' = call /\ token' = token /\ cookie' = cookie /\ conn' = conn
    BY <1>7 DEF tables
  <2>1. SlotsOK' /\ RowsOK'
    BY <1>0, <2>0, SameRowsSameSlots
  <2>. QED
    BY <1>0, <1>7, <2>1, TypePartsNext DEF tables, CoreInv
<1>8. CASE Start
  BY <1>0, <1>7, <1>8, ServerShellTypes DEF Start
<1>9. CASE ShellBoot \/ RotateList \/ ShellFails \/ \E k \in Conn : RotateRow(k)
  <2>1. shell' \in ShellRun
    BY <1>0, <1>9, ServerShellTypes
  <2>. QED
    BY <1>0, <1>7, <1>9, <2>1 DEF ShellBoot, RotateList, ShellFails, RotateRow
<1>10. ASSUME NEW p \in Processes, BootCount(p)
       PROVE  CoreInv'
  <2>1. /\ server' \in Server /\ shell' \in ShellRun /\ raced' \in Races
        /\ server' = server \/ server.pc # "up"
    BY <1>0, <1>10, ServerShellTypes
  <2>. QED
    BY <1>7, <1>10, <2>1 DEF BootCount
<1>. QED
  BY <1>1, <1>2, <1>3, <1>4, <1>5, <1>6, <1>8, <1>9, <1>10, Zenon DEF Kind, Operation

-----------------------------------------------------------------------------
(* The audit log agrees with the tables.                                   *)

LEMMA LoggedAfter ==
    ASSUME NEW row, audit' = audit \cup {row}, NEW tool, NEW x
    PROVE  Logged(tool, x)' = IF row.tool = tool /\ row.on = x THEN Logged(tool, x) \cup {row}
                              ELSE Logged(tool, x)
BY DEF Logged

(* A step that logs nothing, and revokes and deletes nothing.              *)
LEMMA UnloggedStep ==
    ASSUME Audited, RowsOK, Forward, audit' = audit,
           \A t \in Token : token'[t].status = "revoked" => token[t].status = "revoked",
           \A t \in Token : token'[t].status \in {"none", "live"} =>
                               token[t].status \in {"none", "live"},
           \A t \in Token : token'[t].by \in Token => token'[t].by = token[t].by,
           \A k \in Conn : conn'[k].status = conn[k].status,
           audit \subseteq AuditRow
    PROVE  Audited'
<1>1. \A tool, x : Logged(tool, x)' = Logged(tool, x)
  BY DEF Logged
<1>2. ASSUME NEW t \in Token  PROVE TokenAudited(t)'
  BY <1>1 DEF Audited, TokenAudited
<1>3. ASSUME NEW k \in Conn  PROVE ConnAudited(k)'
  BY <1>1 DEF Audited, ConnAudited
<1>4. ASSUME NEW row \in audit  PROVE RowAudited(row)'
  <2>1. row.by \in Token /\ RowAudited(row)
    BY DEF AuditRow, Audited
  <2>2. row.tool = "mint_token" => token[row.on].status # "none"
    <3> SUFFICES ASSUME row.tool = "mint_token", token[row.on].status = "none"  PROVE FALSE
      OBVIOUS
    <3>1. row.on \in Token /\ token[row.on].by = row.by
      BY <2>1 DEF RowAudited
    <3>2. token[row.on].by = Nobody
      BY <3>1 DEF RowsOK
    <3>. QED
      BY <2>1, <3>1, <3>2, AccessAssumption
  <2>. QED
    BY <2>1, <2>2 DEF RowAudited, Forward
<1>. QED
  BY <1>2, <1>3, <1>4, Zenon DEF Audited

LEMMA CommitAudited ==
    ASSUME CoreInv, Audited, NEW c \in Slot, AuditAndCommit(c)
    PROVE  Audited'
<1>0. /\ token \in [Token -> TokenRow] /\ conn \in [Conn -> ConnRow] /\ audit \subseteq AuditRow
      /\ RowsOK
  BY TypeParts DEF CoreInv
<1>1. /\ call[c].tool \in Tools /\ call[c].by \in Token /\ token[call[c].by].status # "none"
      /\ token[call[c].by].scope \in Needs(call[c].tool) /\ audit' = audit \cup {Row(c)}
      /\ Minted(c) \/ Revoked(c) \/ Added(c) \/ Deleted(c) \/ Queried(c)
      /\ call[c].on \in Token \cup Conn \cup {Nobody}
  BY CommitKinds
<1>2. /\ Forward
      /\ \A t \in Token : token[t].status = "none" /\ token'[t].status # "none" =>
            call[c].tool = "mint_token" /\ call[c].on = t
      /\ \A k \in Conn : conn[k].status = "none" /\ conn'[k].status # "none" =>
            call[c].tool = "add_connection" /\ call[c].on = k
  BY CommitForward
<1>3. Row(c).by = call[c].by /\ Row(c).tool = call[c].tool /\ Row(c).on = call[c].on
  BY DEF Row
<1>4. PICK row : row = Row(c)
  OBVIOUS
<1>5. \A tool, x : Logged(tool, x)' = IF row.tool = tool /\ row.on = x
                                     THEN Logged(tool, x) \cup {row} ELSE Logged(tool, x)
  BY <1>1, <1>4, LoggedAfter
<1>6. row.by = call[c].by /\ row.tool = call[c].tool /\ row.on = call[c].on
  BY <1>3, <1>4
<1>7. \A t \in Token : token[t].by \notin Token => Logged("mint_token", t) = {}
  <2> SUFFICES ASSUME NEW t \in Token, token[t].by \notin Token, NEW q \in Logged("mint_token", t)
               PROVE  FALSE
    OBVIOUS
  <2>1. q \in audit /\ q.tool = "mint_token" /\ q.on = t /\ q.by \in Token
    BY <1>0 DEF Logged, AuditRow
  <2>. QED
    BY <2>1 DEF Audited, RowAudited
<1>8. Nobody \notin Token /\ Nobody \notin Conn
  BY AccessAssumption
<1>9. ASSUME NEW t \in Token
      PROVE  TokenAudited(t)'
  <2>0. TokenAudited(t)
    BY DEF Audited
  <2>1. CASE Minted(c) /\ t = call[c].on
    <3>1. token[t].status = "none" /\ token[t].by = Nobody
      BY <1>0, <2>1 DEF Minted, RowsOK
    <3>2. token'[t].status = "live" /\ token'[t].by = call[c].by
      BY <1>0, <2>1 DEF Minted
    <3>m. row.tool = "mint_token" /\ row.on = t
      BY <1>6, <2>1 DEF Minted
    <3>n. Logged("mint_token", t)' = Logged("mint_token", t) \cup {row}
      BY <1>5, <3>m
    <3>o. Logged("mint_token", t) = {}
      BY <1>7, <1>8, <3>1
    <3>3. Logged("mint_token", t)' = {row}
      BY <3>n, <3>o
    <3>p. Logged("revoke_token", t)' = Logged("revoke_token", t)
      BY <1>5, <3>m
    <3>4. Logged("revoke_token", t)' = {}
      BY <2>0, <3>1, <3>p DEF TokenAudited
    <3>5. {q.by : q \in Logged("mint_token", t)'} = {token'[t].by}
      BY <1>6, <3>2, <3>3
    <3>. QED
      BY <3>2, <3>4, <3>5 DEF TokenAudited
  <2>2. CASE Revoked(c) /\ t = call[c].on
    <3>m. row.tool = "revoke_token" /\ row.on = t
      BY <1>6, <2>2 DEF Revoked
    <3>n. Logged("revoke_token", t)' = Logged("revoke_token", t) \cup {row}
      BY <1>5, <3>m
    <3>o. Logged("mint_token", t)' = Logged("mint_token", t)
      BY <1>5, <3>m
    <3>1. Logged("revoke_token", t)' # {} /\ Logged("mint_token", t)' = Logged("mint_token", t)
      BY <3>n, <3>o
    <3>2. token'[t].by = token[t].by
      BY <1>2, <2>2 DEF Revoked, Forward
    <3>3. token'[t].status \notin {"none", "live"}
      <4>1. token[t].status # "none"
        BY <2>2 DEF Revoked
      <4>2. CASE Live(t)
        BY <1>0, <2>2, <4>2 DEF Revoked, TokenRow
      <4>3. CASE ~Live(t)
        BY <2>2, <4>1, <4>3 DEF Revoked, Live
      <4>. QED
        BY <4>2, <4>3
    <3>. QED
      BY <2>0, <3>1, <3>2, <3>3 DEF TokenAudited
  <2>3. CASE ~(Minted(c) /\ t = call[c].on) /\ ~(Revoked(c) /\ t = call[c].on)
    <3>1. token'[t] = token[t]
      BY <1>0, <1>1, <2>3 DEF Minted, Revoked, Added, Deleted, Queried
    <3>2. /\ Logged("mint_token", t)' = Logged("mint_token", t)
          /\ Logged("revoke_token", t)' = Logged("revoke_token", t)
      BY <1>1, <1>5, <1>6, <1>8, <2>3 DEF Minted, Revoked, Added, Deleted, Queried
    <3>. QED
      BY <2>0, <3>1, <3>2 DEF TokenAudited
  <2>. QED
    BY <2>1, <2>2, <2>3
<1>10. ASSUME NEW k \in Conn
       PROVE  ConnAudited(k)'
  <2>0. ConnAudited(k)
    BY DEF Audited
  <2>1. CASE Added(c) /\ k = call[c].on
    <3>1. conn[k].status = "none" /\ conn'[k].status = "there"
      BY <1>0, <2>1 DEF Added
    <3>m. row.tool = "add_connection" /\ row.on = k
      BY <1>6, <2>1 DEF Added
    <3>n. Logged("add_connection", k)' = Logged("add_connection", k) \cup {row}
      BY <1>5, <3>m
    <3>o. Logged("delete_connection", k)' = Logged("delete_connection", k)
      BY <1>5, <3>m
    <3>2. Logged("add_connection", k)' = {row} /\ row \in audit'
      BY <1>1, <1>4, <2>0, <3>1, <3>n DEF ConnAudited
    <3>3. Logged("delete_connection", k)' = {}
      BY <2>0, <3>1, <3>o DEF ConnAudited
    <3>. QED
      BY <3>1, <3>2, <3>3 DEF ConnAudited
  <2>2. CASE Deleted(c) /\ k = call[c].on
    <3>1. conn[k].status # "none" /\ conn'[k].status = "deleted"
      BY <1>0, <2>2 DEF Deleted, ConnRow
    <3>m. row.tool = "delete_connection" /\ row.on = k
      BY <1>6, <2>2 DEF Deleted
    <3>n. Logged("delete_connection", k)' = Logged("delete_connection", k) \cup {row}
      BY <1>5, <3>m
    <3>o. Logged("add_connection", k)' = Logged("add_connection", k)
      BY <1>5, <3>m
    <3>2. Logged("add_connection", k)' = Logged("add_connection", k) /\ audit \subseteq audit'
      BY <1>1, <3>o
    <3>3. Logged("delete_connection", k)' # {}
      BY <3>n
    <3>. QED
      BY <2>0, <3>1, <3>2, <3>3 DEF ConnAudited
  <2>3. CASE ~(Added(c) /\ k = call[c].on) /\ ~(Deleted(c) /\ k = call[c].on)
    <3>1. conn'[k] = conn[k] /\ audit \subseteq audit'
      BY <1>0, <1>1, <2>3 DEF Minted, Revoked, Added, Deleted, Queried
    <3>2. /\ Logged("add_connection", k)' = Logged("add_connection", k)
          /\ Logged("delete_connection", k)' = Logged("delete_connection", k)
      BY <1>1, <1>5, <1>6, <1>8, <2>3 DEF Minted, Revoked, Added, Deleted, Queried
    <3>. QED
      BY <2>0, <3>1, <3>2 DEF ConnAudited
  <2>. QED
    BY <2>1, <2>2, <2>3
<1>11. ASSUME NEW q \in audit'
       PROVE  RowAudited(q)'
  <2>1. CASE q \in audit
    <3>1. q.by \in Token /\ RowAudited(q)
      BY <1>0, <2>1 DEF AuditRow, Audited
    <3>2. q.tool = "mint_token" => token[q.on].status # "none"
      BY <1>0, <1>8, <3>1 DEF RowAudited, RowsOK
    <3>. QED
      BY <1>2, <3>1, <3>2 DEF RowAudited, Forward
  <2>2. CASE q = row
    <3>1. token'[q.by].status # "none" /\ token'[q.by].scope \in Needs(q.tool)
      BY <1>1, <1>2, <1>6, <2>2 DEF Forward
    <3>2. q.tool = "mint_token" => q.on \in Token /\ token'[q.on].by = q.by
      BY <1>0, <1>1, <1>6, <2>2 DEF Minted, Revoked, Added, Deleted, Queried
    <3>. QED
      BY <3>1, <3>2 DEF RowAudited
  <2>. QED
    BY <1>1, <1>4, <2>1, <2>2
<1>. QED
  BY <1>9, <1>10, <1>11, Zenon DEF Audited

LEMMA AuditStep ==
    ASSUME CoreInv, Audited, Kind
    PROVE  Audited'
<1>0. /\ token \in [Token -> TokenRow] /\ conn \in [Conn -> ConnRow] /\ audit \subseteq AuditRow
      /\ RowsOK
  BY TypeParts DEF CoreInv
<1>1. ASSUME token' = token, conn' = conn, audit' = audit
      PROVE  Audited'
  BY <1>1 DEF Audited, TokenAudited, ConnAudited, RowAudited, Logged
<1>2. CASE Quiet
  BY <1>1, <1>2 DEF Quiet, tables
<1>3. ASSUME NEW c \in Slot, LoginInsert(c) \/ PoolLookup(c) \/ PoolCreate(c)
      PROVE  Audited'
  BY <1>1, <1>3 DEF LoginInsert, PoolLookup, PoolCreate, tables
<1>4. ASSUME NEW c \in Slot, AuditAndCommit(c)
      PROVE  Audited'
  BY <1>4, CommitAudited
<1>5. CASE Start \/ Stop \/ ShellBoot \/ RotateList \/ ShellFails \/ \E k \in Conn : RotateRow(k)
  <2>1. UNCHANGED tables
    BY <1>5, Zenon DEF Start, Stop, ShellBoot, RotateList, ShellFails, RotateRow, tables
  <2>. QED
    BY <1>1, <2>1 DEF tables
<1>6. ASSUME NEW p \in Processes, BootCount(p)
      PROVE  Audited'
  BY <1>1, <1>6 DEF BootCount, tables
<1>7. ASSUME NEW s \in Cookie, LogoutOrExpire(s)
      PROVE  Audited'
  BY <1>1, <1>7 DEF LogoutOrExpire
<1>8. ASSUME NEW p \in Processes, BootInsert(p)
      PROVE  Audited'
  <2>1. PICK t \in Token :
           /\ token[t].status = "none"
           /\ token' = [token EXCEPT ![t] = [status |-> "live", scope |-> "admin", by |-> Operator]]
    BY <1>8 DEF BootInsert, Fresh
  <2>2. audit' = audit /\ conn' = conn
    BY <1>8 DEF BootInsert
  <2>3. Forward
    BY <1>8, OtherForward
  <2>4. \A u \in Token : /\ u # t => token'[u] = token[u]
                         /\ u = t => token'[u].status = "live" /\ token'[u].by = Operator
    BY <1>0, <2>1
  <2>. QED
    BY <1>0, <2>1, <2>2, <2>3, <2>4, AccessAssumption, UnloggedStep
<1>9. CASE ForceRevokeAll
  <2>1. /\ token' = [t \in Token |-> IF Live(t) THEN [token[t] EXCEPT !.status = "forced"]
                                     ELSE token[t]]
        /\ audit' = audit /\ conn' = conn
    BY <1>9 DEF ForceRevokeAll
  <2>2. Forward
    BY <1>9, OtherForward
  <2>3. \A t \in Token : /\ ~Live(t) => token'[t] = token[t]
                         /\ Live(t) => token'[t].status = "forced" /\ token'[t].by = token[t].by
    BY <1>0, <2>1 DEF TokenRow
  <2>. QED
    BY <1>0, <2>1, <2>2, <2>3, UnloggedStep
<1>10. CASE RotateCommit
  <2>1. /\ conn' = [k \in Conn |-> IF k \in shell.done THEN [conn[k] EXCEPT !.key = "new"]
                                   ELSE conn[k]]
        /\ audit' = audit /\ token' = token
    BY <1>10 DEF RotateCommit
  <2>2. Forward
    BY <1>10, OtherForward
  <2>3. \A k \in Conn : conn'[k].status = conn[k].status
    BY <1>0, <2>1 DEF ConnRow
  <2>. QED
    BY <1>0, <2>1, <2>2, <2>3, UnloggedStep
<1>. QED
  BY <1>2, <1>3, <1>4, <1>5, <1>6, <1>7, <1>8, <1>9, <1>10, Zenon DEF Kind, Operation

-----------------------------------------------------------------------------
(* Bootstraps.                                                             *)

(* A step that moves no process to its insert and bootstraps no token.     *)
LEMMA BootFrame ==
    ASSUME BootedOnce, raced'.boot = raced.boot,
           server'.pc = "insert" => server.pc = "insert",
           shell'.pc = "insert" => shell.pc = "insert",
           server.pc = "insert" \/ shell.pc = "insert" =>
              \A t \in Token : token[t].status = "none" => token'[t].status = "none",
           \A t \in Token : token'[t].by = Operator => token[t].by = Operator
    PROVE  BootedOnce'
BY DEF BootedOnce

LEMMA BootStep ==
    ASSUME CoreInv, BootedOnce, Kind
    PROVE  BootedOnce'
<1>0. /\ TypeOK /\ token \in [Token -> TokenRow] /\ server \in Server /\ shell \in ShellRun
      /\ raced \in Races
      /\ \A t \in Token : token[t].status = "none" => token[t].by = Nobody
  BY TypeParts DEF CoreInv, RowsOK
<1>1. ASSUME token' = token, raced'.boot = raced.boot, server' = server, shell' = shell
      PROVE  BootedOnce'
  BY <1>1, BootFrame
<1>2. CASE Quiet
  BY <1>1, <1>2 DEF Quiet, tables
<1>3. ASSUME NEW c \in Slot, LoginInsert(c) \/ PoolLookup(c) \/ PoolCreate(c)
      PROVE  BootedOnce'
  <2>1. raced' = raced \/ raced' = [raced EXCEPT !.firstUse = @ \cup {call[c].on}]
    BY <1>3 DEF LoginInsert, PoolLookup, PoolCreate
  <2>2. raced'.boot = raced.boot
    BY <1>0, <2>1 DEF Races
  <2>3. token' = token /\ server' = server /\ shell' = shell
    BY <1>3 DEF LoginInsert, PoolLookup, PoolCreate, tables
  <2>. QED
    BY <1>1, <2>2, <2>3
<1>4. ASSUME NEW c \in Slot, AuditAndCommit(c)
      PROVE  BootedOnce'
  <2>1. /\ server' = server /\ shell' = shell
        /\ call[c].by \in Token /\ token[call[c].by].status # "none"
        /\ Minted(c) \/ Revoked(c) \/ Added(c) \/ Deleted(c) \/ Queried(c)
    BY <1>4, CommitKinds
  <2>2. raced'.boot = raced.boot
    BY <1>0, <2>1 DEF Minted, Revoked, Added, Deleted, Queried, Races
  <2>3. Forward
    BY <1>4, CommitForward
  <2>4. ASSUME NEW t \in Token, token'[t].by = Operator
        PROVE  token[t].by = Operator
    <3>1. CASE Minted(c) /\ t = call[c].on
      <4>1. token'[t].by = call[c].by
        BY <1>0, <3>1 DEF Minted
      <4>. QED
        BY <2>1, <2>4, <4>1, AccessAssumption
    <3>2. CASE ~(Minted(c) /\ t = call[c].on)
      <4>1. token[t].status = "none" => token'[t].status = "none"
        BY <1>4, <2>1, <3>2, CommitForward DEF Revoked, Added, Deleted, Queried
      <4>2. token'[t].status = "none" => token'[t].by = Nobody
        BY <1>4, CommitForward
      <4>. QED
        BY <2>3, <2>4, <4>1, <4>2, AccessAssumption DEF Forward
    <3>. QED
      BY <3>1, <3>2
  <2>5. CASE raced.boot
    BY <2>2, <2>5 DEF BootedOnce
  <2>6. CASE ~raced.boot
    <3>1. ~(server.pc = "insert" \/ shell.pc = "insert")
      BY <2>1, <2>6 DEF BootedOnce
    <3>. QED
      BY <2>1, <2>2, <2>4, <3>1, BootFrame
  <2>. QED
    BY <2>5, <2>6
<1>5. CASE Start
  <2>1. server'.pc = "count" /\ UNCHANGED <<token, shell, raced>>
    BY <1>5, AccessAssumption DEF Start, tables
  <2>. QED
    BY <2>1, BootFrame
<1>6. CASE Stop
  <2>1. server'.pc = "down" /\ raced'.boot = raced.boot /\ UNCHANGED <<token, shell>>
    BY <1>0, <1>6 DEF Stop, tables, Server, Races
  <2>. QED
    BY <2>1, BootFrame
<1>7. CASE ShellBoot \/ RotateList \/ RotateCommit \/ ShellFails \/ \E k \in Conn : RotateRow(k)
  <2>1. shell'.pc # "insert"
    <3>1. CASE ShellBoot
      BY <1>0, <3>1 DEF ShellBoot, ShellRun
    <3>2. CASE RotateList \/ RotateCommit \/ ShellFails
      BY <3>2 DEF RotateList, RotateCommit, ShellFails, NoShell
    <3>3. ASSUME NEW k \in Conn, RotateRow(k)
          PROVE  shell'.pc # "insert"
      BY <1>0, <3>3 DEF RotateRow, ShellRun
    <3>. QED
      BY <1>7, <3>1, <3>2, <3>3
  <2>2. UNCHANGED <<token, server, raced>>
    BY <1>7, Zenon DEF ShellBoot, RotateList, RotateCommit, ShellFails, RotateRow, tables
  <2>. QED
    BY <2>1, <2>2, BootFrame
<1>8. CASE ForceRevokeAll
  <2>1. /\ token' = [t \in Token |-> IF Live(t) THEN [token[t] EXCEPT !.status = "forced"]
                                     ELSE token[t]]
        /\ UNCHANGED <<server, shell, raced>>
    BY <1>8 DEF ForceRevokeAll
  <2>2. \A t \in Token : token'[t].by = token[t].by
                        /\ (token[t].status = "none" => token'[t].status = "none")
    BY <1>0, <2>1 DEF TokenRow, Live
  <2>. QED
    BY <2>1, <2>2, BootFrame
<1>9. ASSUME NEW s \in Cookie, LogoutOrExpire(s)
      PROVE  BootedOnce'
  BY <1>1, <1>9 DEF LogoutOrExpire
<1>10. ASSUME NEW p \in Processes, BootCount(p)
       PROVE  BootedOnce'
  <2>1. token' = token
    BY <1>10 DEF BootCount, tables
  <2>2. CASE Booted(p) /\ raced' = raced
    <3>1. /\ server'.pc = "insert" => server.pc = "insert"
          /\ shell'.pc = "insert" => shell.pc = "insert"
      BY <1>0, <1>10, <2>2 DEF Booted, Booting, Processes, Server, ShellRun
    <3>. QED
      BY <2>1, <2>2, <3>1, BootFrame
  <2>3. CASE /\ \A t \in Token : token[t].status = "none"
             /\ Booting(p, "insert")
             /\ raced' = [raced EXCEPT !.boot = @ \/ \E q \in Processes \ {p} : PcOf(q) = "insert"]
    <3>1. PICK b \in BOOLEAN : b <=> raced.boot \/ \E q \in Processes \ {p} : PcOf(q) = "insert"
      OBVIOUS
    <3>2. raced'.boot <=> b
      BY <1>0, <2>3, <3>1 DEF Races
    <3>3. ~b => ~raced.boot /\ \A q \in Processes \ {p} : PcOf(q) # "insert"
      BY <3>1
    <3>4. ~b => ~(server'.pc = "insert" /\ shell'.pc = "insert")
      BY <1>0, <2>3, <3>3 DEF Booting, PcOf, Processes, Server, ShellRun
    <3>. QED
      BY <2>1, <2>3, <3>2, <3>3, <3>4 DEF BootedOnce
  <2>. QED
    BY <1>10, <2>2, <2>3 DEF BootCount
<1>11. ASSUME NEW p \in Processes, BootInsert(p)
       PROVE  BootedOnce'
  <2>1. PICK t \in Token :
           /\ token[t].status = "none"
           /\ token' = [token EXCEPT ![t] = [status |-> "live", scope |-> "admin", by |-> Operator]]
    BY <1>11 DEF BootInsert, Fresh
  <2>2. PcOf(p) = "insert" /\ Booted(p) /\ raced' = raced
    BY <1>11 DEF BootInsert
  <2>3. CASE raced.boot
    BY <2>2, <2>3 DEF BootedOnce
  <2>4. CASE ~raced.boot
    <3>1. \A u \in Token : token[u].status = "none" /\ token[u].by # Operator
      BY <1>0, <2>2, <2>4, AccessAssumption DEF BootedOnce, PcOf, Processes
    <3>2. \A u \in Token : token'[u].by = Operator => u = t
      BY <1>0, <2>1, <3>1
    <3>3. ~(server.pc = "insert" /\ shell.pc = "insert")
      BY <2>4 DEF BootedOnce
    <3>4. server'.pc # "insert" /\ shell'.pc # "insert"
      BY <1>0, <2>2, <3>3 DEF Booted, Booting, PcOf, Processes, Server, ShellRun
    <3>. QED
      BY <3>2, <3>4 DEF BootedOnce
  <2>. QED
    BY <2>3, <2>4
<1>. QED
  BY <1>2, <1>3, <1>4, <1>5, <1>6, <1>7, <1>8, <1>9, <1>10, <1>11, Zenon DEF Kind, Operation

-----------------------------------------------------------------------------
(* The rotation of the key.                                                *)

(* A step that writes no row of the connections and lists none.            *)
LEMMA RotateFrame ==
    ASSUME Rotated, conn' = conn, secret' = secret,
           raced.missed \subseteq raced'.missed,
           secret = "old" => server'.key = "old",
           shell'.pc = "rotate" => shell' = shell
    PROVE  Rotated'
BY DEF Rotated, Exists

LEMMA RotateStep ==
    ASSUME CoreInv, Rotated, Kind
    PROVE  Rotated'
<1>0. /\ TypeOK /\ conn \in [Conn -> ConnRow] /\ server \in Server /\ shell \in ShellRun
      /\ raced \in Races /\ secret \in {"old", "new"}
  BY TypeParts DEF CoreInv
<1>1. ASSUME conn' = conn, secret' = secret, raced' = raced, server'.key = server.key,
             shell'.pc = "rotate" => shell' = shell
      PROVE  Rotated'
  BY <1>1, RotateFrame DEF Rotated
<1>2. CASE Quiet
  BY <1>1, <1>2 DEF Quiet, tables
<1>3. ASSUME NEW c \in Slot, LoginInsert(c) \/ PoolLookup(c) \/ PoolCreate(c)
      PROVE  Rotated'
  <2>1. raced' = raced \/ raced' = [raced EXCEPT !.firstUse = @ \cup {call[c].on}]
    BY <1>3 DEF LoginInsert, PoolLookup, PoolCreate
  <2>2. raced'.missed = raced.missed
    BY <1>0, <2>1 DEF Races
  <2>3. UNCHANGED <<conn, secret, server, shell>>
    BY <1>3 DEF LoginInsert, PoolLookup, PoolCreate, tables
  <2>. QED
    BY <2>2, <2>3, RotateFrame DEF Rotated
<1>4. ASSUME NEW c \in Slot, AuditAndCommit(c)
      PROVE  Rotated'
  <2>1. /\ server' = server /\ shell' = shell /\ secret' = secret
        /\ Minted(c) \/ Revoked(c) \/ Added(c) \/ Deleted(c) \/ Queried(c)
    BY <1>4, CommitKinds
  <2>2. CASE Minted(c) \/ Revoked(c) \/ Queried(c)
    BY <1>1, <2>1, <2>2 DEF Minted, Revoked, Queried
  <2>3. CASE Deleted(c)
    <3>1. \A k \in Conn : /\ Exists(k)' => Exists(k)
                          /\ conn'[k].key = conn[k].key
      BY <1>0, <2>3 DEF Deleted, Exists, ConnRow
    <3>2. raced' = raced
      BY <2>3 DEF Deleted
    <3>. QED
      BY <2>1, <3>1, <3>2 DEF Rotated
  <2>4. CASE Added(c)
    <3> DEFINE x == call[c].on
    <3>1. /\ \A k \in Conn : k # x => conn'[k] = conn[k]
          /\ conn'[x] = [status |-> "there", key |-> server.key]
      BY <1>0, <2>4 DEF Added
    <3>2. CASE raced' = [raced EXCEPT !.missed = @ \cup {x}]
      <4>1. raced'.missed = raced.missed \cup {x}
        BY <1>0, <3>2 DEF Races
      <4>. QED
        BY <2>1, <3>1, <4>1 DEF Rotated, Exists
    <3>3. CASE shell.pc # "rotate" /\ server.key = secret /\ raced' = raced
      BY <2>1, <3>1, <3>3 DEF Rotated, Exists
    <3>. QED
      BY <2>4, <3>2, <3>3 DEF Added
  <2>. QED
    BY <2>1, <2>2, <2>3, <2>4
<1>5. CASE Start
  <2>1. server'.key \in {server.key, secret} /\ UNCHANGED <<conn, secret, shell, raced>>
    BY <1>5 DEF Start, tables
  <2>. QED
    BY <2>1, RotateFrame DEF Rotated
<1>6. CASE Stop
  <2>1. server'.key = server.key /\ raced'.missed = raced.missed /\ UNCHANGED <<conn, secret, shell>>
    BY <1>0, <1>6 DEF Stop, tables, Server, Races
  <2>. QED
    BY <2>1, RotateFrame DEF Rotated
<1>7. CASE ShellBoot \/ ShellFails
  <2>1. shell'.pc # "rotate"
    BY <1>0, <1>7 DEF ShellBoot, ShellFails, ShellRun, NoShell
  <2>. QED
    BY <1>1, <1>7, <2>1 DEF ShellBoot, ShellFails, tables
<1>8. CASE ForceRevokeAll
  BY <1>1, <1>8 DEF ForceRevokeAll
<1>9. ASSUME NEW s \in Cookie, LogoutOrExpire(s)
      PROVE  Rotated'
  BY <1>1, <1>9 DEF LogoutOrExpire
<1>10. ASSUME NEW p \in Processes, BootCount(p) \/ BootInsert(p)
       PROVE  Rotated'
  <2>1. UNCHANGED <<conn, secret>>
    BY <1>10 DEF BootCount, BootInsert, tables
  <2>2. raced'.missed = raced.missed
    <3>1. CASE raced' = raced
      BY <3>1
    <3>2. CASE raced' = [raced EXCEPT !.boot = @ \/ \E q \in Processes \ {p} : PcOf(q) = "insert"]
      BY <1>0, <3>2 DEF Races
    <3>. QED
      BY <1>10, <3>1, <3>2 DEF BootCount, BootInsert
  <2>3. \E pc \in {"up", "idle", "insert"} : Booting(p, pc)
    BY <1>10, Zenon DEF BootCount, BootInsert, Booted
  <2>4. server'.key = server.key /\ (shell'.pc = "rotate" => shell' = shell)
    BY <1>0, <2>3 DEF Booting, Server, ShellRun
  <2>. QED
    BY <2>1, <2>2, <2>4, RotateFrame DEF Rotated
<1>11. CASE RotateList
  <2>1. /\ secret = "old" /\ UNCHANGED <<conn, secret, server, raced>>
        /\ shell' = [pc |-> "rotate", todo |-> {k \in Conn : Exists(k)}, done |-> {}]
    BY <1>11 DEF RotateList, tables
  <2>2. \A k \in Conn : Exists(k)' => k \in shell'.todo
    BY <2>1 DEF Exists
  <2>. QED
    BY <2>1, <2>2 DEF Rotated, Exists
<1>12. ASSUME NEW k \in Conn, RotateRow(k)
       PROVE  Rotated'
  <2>1. UNCHANGED <<conn, secret, server, raced>> /\ shell.pc = "rotate"
    BY <1>12 DEF RotateRow, tables
  <2>2. /\ shell'.todo = shell.todo \ {k}
        /\ shell'.done = IF Exists(k) THEN shell.done \cup {k} ELSE shell.done
    BY <1>0, <1>12 DEF RotateRow, ShellRun
  <2>3. ASSUME NEW i \in Conn, i \notin raced.missed, Exists(i)
        PROVE  i \in shell'.todo \cup shell'.done
    BY <2>1, <2>2, <2>3 DEF Rotated
  <2>. QED
    BY <2>1, <2>3 DEF Rotated, Exists
<1>13. CASE RotateCommit
  <2>1. /\ shell.pc = "rotate" /\ shell.todo = {} /\ secret' = "new" /\ raced' = raced
        /\ conn' = [k \in Conn |-> IF k \in shell.done THEN [conn[k] EXCEPT !.key = "new"]
                                   ELSE conn[k]]
        /\ shell'.pc = "idle"
    BY <1>13 DEF RotateCommit, NoShell
  <2>2. ASSUME NEW k \in Conn, k \notin raced.missed, Exists(k)'
        PROVE  conn'[k].key = "new"
    <3>1. Exists(k)
      BY <1>0, <2>1, <2>2 DEF Exists, ConnRow
    <3>2. k \in shell.done
      BY <2>1, <2>2, <3>1 DEF Rotated
    <3>. QED
      BY <1>0, <2>1, <3>2 DEF ConnRow
  <2>. QED
    BY <2>1, <2>2 DEF Rotated
<1>. QED
  BY <1>2, <1>3, <1>4, <1>5, <1>6, <1>7, <1>8, <1>9, <1>10, <1>11, <1>12, <1>13, Zenon
     DEF Kind, Operation

-----------------------------------------------------------------------------
(* The engine cache.                                                       *)

(* A step that opens no engine and sends no request to a first use.        *)
LEMMA CacheFrame ==
    ASSUME CachedOnce, pool' = pool, raced.firstUse \subseteq raced'.firstUse,
           \A c \in Slot : call'[c].pc = "decrypt" => call'[c] = call[c]
    PROVE  CachedOnce'
<1> SUFFICES ASSUME NEW k \in Conn, k \notin raced'.firstUse
             PROVE  /\ pool'[k].open = IF pool'[k].cached THEN 1 ELSE 0
                    /\ \A c, d \in Slot : FirstUse(c, k)' /\ FirstUse(d, k)' => c = d
                    /\ \A c \in Slot : FirstUse(c, k)' => ~pool'[k].cached
  BY DEF CachedOnce
<1>1. \A c \in Slot : FirstUse(c, k)' => FirstUse(c, k)
  BY DEF FirstUse
<1>. QED
  BY <1>1 DEF CachedOnce

LEMMA OneMoves ==
    ASSUME call \in [Slot -> Call], NEW c \in Slot, NEW r \in Call, r.pc # "decrypt",
           call' = [call EXCEPT ![c] = r]
    PROVE  \A d \in Slot : call'[d].pc = "decrypt" => call'[d] = call[d]
OBVIOUS

LEMMA CacheStep ==
    ASSUME CoreInv, CachedOnce, Kind
    PROVE  CachedOnce'
<1>0. /\ TypeOK /\ SlotsOK /\ call \in [Slot -> Call] /\ pool \in [Conn -> Engine]
      /\ raced \in Races
      /\ NoCall \in Call /\ NoCall.pc = "idle"
  BY TypeParts, NoCallFacts DEF CoreInv
<1>1. ASSUME call' = call, pool' = pool, raced'.firstUse = raced.firstUse
      PROVE  CachedOnce'
  BY <1>1, CacheFrame
<1>2. CASE Quiet
  <2>1. PICK c \in Slot, r \in Call : call' = [call EXCEPT ![c] = r] /\ r.pc # "decrypt"
    BY <1>2 DEF Quiet, Moved
  <2>. QED
    BY <1>0, <1>2, <2>1, OneMoves, CacheFrame DEF Quiet
<1>3. ASSUME NEW c \in Slot, LoginInsert(c) \/ AuditAndCommit(c)
      PROVE  CachedOnce'
  <2>1. call' = [call EXCEPT ![c] = NoCall] /\ pool' = pool
    BY <1>3 DEF LoginInsert, AuditAndCommit, Answer
  <2>2. raced'.firstUse = raced.firstUse
    <3>1. CASE LoginInsert(c)
      BY <3>1 DEF LoginInsert
    <3>2. CASE AuditAndCommit(c)
      <4>1. raced' = raced \/ raced' = [raced EXCEPT !.missed = @ \cup {call[c].on}]
        BY <3>2, CommitKinds DEF Minted, Revoked, Added, Deleted, Queried
      <4>. QED
        BY <1>0, <4>1 DEF Races
    <3>. QED
      BY <1>3, <3>1, <3>2
  <2>. QED
    BY <1>0, <2>1, <2>2, OneMoves, CacheFrame
<1>4. ASSUME NEW c \in Slot, PoolLookup(c)
      PROVE  CachedOnce'
  <2>1. PICK r \in Call : /\ call' = [call EXCEPT ![c] = r]
                          /\ r.pc = "decrypt" => (r.on = call[c].on /\ ~pool[call[c].on].cached)
    BY <1>0, <1>4, PoolSteps
  <2>2. pool' = pool /\ call[c].pc = "pool"
    BY <1>4 DEF PoolLookup, At
  <2>3. raced.firstUse \subseteq raced'.firstUse
    BY <1>0, <1>4 DEF PoolLookup, Races
  <2>4. CASE r.pc # "decrypt"
    BY <1>0, <2>1, <2>2, <2>3, <2>4, OneMoves, CacheFrame
  <2>5. CASE r.pc = "decrypt"
    <3>0. PICK x : x = call[c].on
      OBVIOUS
    <3>1. \A d \in Slot : d # c => call'[d] = call[d]
      BY <1>0, <2>1
    <3>2. call'[c].pc = "decrypt" /\ call'[c].on = x /\ ~pool[x].cached
      BY <1>0, <2>1, <2>5, <3>0
    <3>3. x \notin raced'.firstUse => \A d \in Slot : ~FirstUse(d, x)
      BY <1>0, <1>4, <3>0, <3>2 DEF PoolLookup, At, FirstUse, Races
    <3>4. ASSUME NEW k \in Conn, k \notin raced'.firstUse
          PROVE  /\ pool'[k].open = IF pool'[k].cached THEN 1 ELSE 0
                 /\ \A d, e \in Slot : FirstUse(d, k)' /\ FirstUse(e, k)' => d = e
                 /\ \A d \in Slot : FirstUse(d, k)' => ~pool'[k].cached
      <4>0. k \notin raced.firstUse
        BY <2>3, <3>4
      <4>1. \A d \in Slot : FirstUse(d, k)' => FirstUse(d, k) \/ (d = c /\ k = x)
        BY <3>1, <3>2 DEF FirstUse
      <4>2. CASE k = x
        BY <2>2, <3>2, <3>3, <3>4, <4>0, <4>1, <4>2 DEF CachedOnce
      <4>3. CASE k # x
        BY <2>2, <4>0, <4>1, <4>3 DEF CachedOnce
      <4>. QED
        BY <4>2, <4>3
    <3>. QED
      BY <3>4 DEF CachedOnce
  <2>. QED
    BY <2>4, <2>5
<1>5. ASSUME NEW c \in Slot, PoolCreate(c)
      PROVE  CachedOnce'
  <2>1. PICK r \in Call : call' = [call EXCEPT ![c] = r] /\ r.pc # "decrypt"
    <3>1. ~PoolLookup(c)
      BY <1>5 DEF PoolLookup, PoolCreate, At
    <3>. QED
      BY <1>0, <1>5, <3>1, PoolSteps
  <2>2. raced' = raced /\ call[c].pc = "decrypt"
    BY <1>5 DEF PoolCreate, At
  <2>3. CASE pool' = pool
    BY <1>0, <2>1, <2>2, <2>3, OneMoves, CacheFrame
  <2>4. CASE pool' = [pool EXCEPT ![call[c].on] = [cached |-> TRUE, open |-> @.open + 1]]
    <3>0. PICK x : x = call[c].on
      OBVIOUS
    <3>1. x \in Conn
      BY <1>0, <2>2, <3>0 DEF SlotsOK, SlotOK, Browses
    <3>2. /\ \A k \in Conn : k # x => pool'[k] = pool[k]
          /\ pool'[x] = [cached |-> TRUE, open |-> pool[x].open + 1]
      BY <1>0, <2>4, <3>0, <3>1
    <3>3. \A k \in Conn, d \in Slot : FirstUse(d, k)' => FirstUse(d, k) /\ d # c
      BY <1>0, <2>1 DEF FirstUse
    <3>4. FirstUse(c, x)
      BY <2>2, <3>0 DEF FirstUse
    <3>5. ASSUME NEW k \in Conn, k \notin raced'.firstUse
          PROVE  /\ pool'[k].open = IF pool'[k].cached THEN 1 ELSE 0
                 /\ \A d, e \in Slot : FirstUse(d, k)' /\ FirstUse(e, k)' => d = e
                 /\ \A d \in Slot : FirstUse(d, k)' => ~pool'[k].cached
      <4>0. k \notin raced.firstUse
        BY <2>2, <3>5
      <4>1. CASE k = x
        <5>1. pool[x].open = 0
          BY <3>4, <4>0, <4>1 DEF CachedOnce
        <5>2. \A d \in Slot : ~FirstUse(d, x)'
          BY <3>1, <3>3, <3>4, <4>0, <4>1 DEF CachedOnce
        <5>. QED
          BY <3>2, <4>1, <5>1, <5>2
      <4>2. CASE k # x
        BY <3>2, <3>3, <4>0, <4>2 DEF CachedOnce
      <4>. QED
        BY <4>1, <4>2
    <3>. QED
      BY <3>5 DEF CachedOnce
  <2>. QED
    BY <1>5, <2>3, <2>4 DEF PoolCreate
<1>6. CASE Stop
  <2>1. /\ call' = [c \in Slot |-> NoCall] /\ pool' = NoPool
    BY <1>6 DEF Stop
  <2>. QED
    BY <1>0, <2>1 DEF NoPool, CachedOnce, FirstUse
<1>7. CASE \/ Start \/ ShellBoot \/ ForceRevokeAll \/ RotateList \/ RotateCommit \/ ShellFails
           \/ (\E k \in Conn : RotateRow(k)) \/ \E s \in Cookie : LogoutOrExpire(s)
  <2>1. UNCHANGED <<call, pool, raced>>
    BY <1>7, Zenon DEF Start, ShellBoot, ForceRevokeAll, RotateList, RotateCommit, ShellFails,
                       RotateRow, LogoutOrExpire
  <2>. QED
    BY <1>1, <2>1
<1>8. ASSUME NEW p \in Processes, BootCount(p) \/ BootInsert(p)
      PROVE  CachedOnce'
  <2>1. UNCHANGED <<call, pool>>
    BY <1>8 DEF BootCount, BootInsert
  <2>2. raced'.firstUse = raced.firstUse
    <3>1. CASE raced' = raced
      BY <3>1
    <3>2. CASE raced' = [raced EXCEPT !.boot = @ \/ \E q \in Processes \ {p} : PcOf(q) = "insert"]
      BY <1>0, <3>2 DEF Races
    <3>. QED
      BY <1>8, <3>1, <3>2 DEF BootCount, BootInsert
  <2>. QED
    BY <1>1, <2>1, <2>2
<1>. QED
  BY <1>2, <1>3, <1>4, <1>5, <1>6, <1>7, <1>8, Zenon DEF Kind, Operation

-----------------------------------------------------------------------------
(* All of it, in every reachable state.                                    *)

LEMMA StartsOK == Init => AccessInv
<1> SUFFICES ASSUME Init  PROVE AccessInv
  OBVIOUS
<1>1. TypeOK
  BY AccessAssumption DEF Init, TypeOK, NoToken, NoShell, NoCall, NoPool, Scope, Pcs
<1>2. SlotsOK
  BY NoCallFacts DEF Init, SlotsOK
<1>3. RowsOK
  BY DEF Init, RowsOK, Inserts, NoCall, NoToken
<1>4. \A tool, x : Logged(tool, x) = {}
  BY DEF Init, Logged
<1>5. Audited
  <2>1. ASSUME NEW t \in Token  PROVE TokenAudited(t)
    BY <1>4, AccessAssumption DEF Init, TokenAudited, NoToken
  <2>2. ASSUME NEW k \in Conn  PROVE ConnAudited(k)
    BY <1>4 DEF Init, ConnAudited
  <2>3. audit = {}
    BY DEF Init
  <2>. QED
    BY <2>1, <2>2, <2>3 DEF Audited
<1>6. BootedOnce
  BY AccessAssumption DEF Init, BootedOnce, NoToken, NoShell
<1>7. Rotated
  BY DEF Init, Rotated, Exists, NoShell
<1>8. CachedOnce
  BY DEF Init, CachedOnce, FirstUse, NoCall, NoPool
<1>. QED
  BY <1>1, <1>2, <1>3, <1>5, <1>6, <1>7, <1>8 DEF AccessInv, CoreInv

LEMMA IdlesOK ==
    ASSUME AccessInv, UNCHANGED vars
    PROVE  AccessInv'
<1>0. UNCHANGED <<token, cookie, conn, audit, pool, server, shell, secret, call, raced>>
  BY DEF vars, tables
<1>1. TypeOK'
  BY <1>0, TypeParts, TypePartsNext DEF AccessInv, CoreInv
<1>2. SlotsOK' /\ RowsOK'
  BY <1>0, SameRowsSameSlots DEF AccessInv, CoreInv
<1>3. Audited'
  BY <1>0 DEF AccessInv, Audited, TokenAudited, ConnAudited, RowAudited, Logged
<1>4. BootedOnce' /\ Rotated' /\ CachedOnce'
  BY <1>0 DEF AccessInv, BootedOnce, Rotated, CachedOnce, Exists, FirstUse
<1>. QED
  BY <1>1, <1>2, <1>3, <1>4 DEF AccessInv, CoreInv

LEMMA Inductive == Spec => []AccessInv
<1>1. Init => AccessInv
  BY StartsOK
<1>2. AccessInv /\ [Next]_vars => AccessInv'
  <2> SUFFICES ASSUME AccessInv, [Next]_vars  PROVE AccessInv'
    OBVIOUS
  <2>1. CASE Next
    <3>1. CoreInv /\ Kind
      BY <2>1, StepKinds DEF AccessInv
    <3>2. CoreInv'
      BY <3>1, CoreStep
    <3>3. Audited' /\ BootedOnce' /\ Rotated' /\ CachedOnce'
      BY <3>1, AuditStep, BootStep, RotateStep, CacheStep DEF AccessInv
    <3>. QED
      BY <3>2, <3>3 DEF AccessInv
  <2>2. CASE UNCHANGED vars
    BY <2>2, IdlesOK
  <2>. QED
    BY <2>1, <2>2
<1>. QED
  BY <1>1, <1>2, PTL DEF Spec

-----------------------------------------------------------------------------
(* The theorems.                                                           *)

(* The audit log and the tables agree, whichever handlers raise and        *)
(* whichever commits are lost: the effect of an admin tool and its audit   *)
(* row are in one commit (the dispatcher of mcp_server.py).                *)
THEOREM EveryEffectIsAudited == Spec => []EffectsAreAudited
<1>1. AccessInv => EffectsAreAudited
  <2> SUFFICES ASSUME AccessInv  PROVE EffectsAreAudited
    OBVIOUS
  <2>1. \A t \in Token :
          /\ token[t].by \in Token => {row.by : row \in Logged("mint_token", t)} = {token[t].by}
          /\ token[t].status = "revoked" => Logged("revoke_token", t) # {}
          /\ token[t].status \in {"none", "live"} => Logged("revoke_token", t) = {}
    BY DEF AccessInv, Audited, TokenAudited
  <2>2. ASSUME NEW k \in Conn
        PROVE  /\ conn[k].status # "none" <=> Cardinality(Logged("add_connection", k)) = 1
               /\ conn[k].status = "deleted" <=> Logged("delete_connection", k) # {}
    <3>0. ConnAudited(k)
      BY DEF AccessInv, Audited
    <3>1. CASE conn[k].status = "none"
      <4>1. Cardinality(Logged("add_connection", k)) = 0
        BY <3>0, <3>1, FS_EmptySet DEF ConnAudited
      <4>. QED
        BY <3>0, <3>1, <4>1 DEF ConnAudited
    <3>2. CASE conn[k].status # "none"
      <4>1. PICK row : Logged("add_connection", k) = {row}
        BY <3>0, <3>2 DEF ConnAudited
      <4>2. Cardinality(Logged("add_connection", k)) = 1
        BY <4>1, FS_Singleton
      <4>. QED
        BY <3>0, <3>2, <4>2 DEF ConnAudited
    <3>. QED
      BY <3>1, <3>2
  <2>3. \A row \in audit :
          /\ token[row.by].scope \in Needs(row.tool)
          /\ row.tool = "mint_token" => token[row.on].by = row.by
    BY DEF AccessInv, Audited, RowAudited
  <2>. QED
    BY <2>1, <2>2, <2>3, Zenon DEF EffectsAreAudited
<1>. QED
  BY <1>1, Inductive, PTL

(* A tool call, login or page that came in after its token was revoked or  *)
(* its session ended never gets past the look-up that turns it away:       *)
(* require_scope, the login, the session's join with its token. Nor does a *)
(* query of a connection that was deleted before: its metadata are read    *)
(* before the engine cache is asked. The instance route asks for no token, *)
(* so of its queries the theorem says no more than that.                   *)
THEOREM WithdrawnStaysOut == Spec => []WithdrawnMeansOut
<1>1. AccessInv => WithdrawnMeansOut
  BY DEF AccessInv, CoreInv, SlotsOK, SlotOK, Late, WithdrawnMeansOut
<1>. QED
  BY <1>1, Inductive, PTL

(* Starts and bootstrap commands that do not overlap mint one token        *)
(* between them, because the count is over revoked rows too.               *)
THEOREM BootstrapsOnce == Spec => []BootstrapOnce
<1>1. AccessInv => BootstrapOnce
  <2> SUFFICES ASSUME AccessInv, ~raced.boot
               PROVE  Cardinality({t \in Token : token[t].by = Operator}) <= 1
    BY DEF BootstrapOnce
  <2> DEFINE Bootstrapped == {t \in Token : token[t].by = Operator}
  <2>1. \A t, u \in Bootstrapped : t = u
    BY DEF AccessInv, BootedOnce
  <2>2. CASE Bootstrapped = {}
    BY <2>2, FS_EmptySet
  <2>3. CASE Bootstrapped # {}
    <3>1. PICK t : t \in Bootstrapped
      BY <2>3
    <3>2. Bootstrapped = {t}
      BY <2>1, <3>1
    <3>3. Cardinality({t}) = 1
      BY FS_Singleton
    <3>. QED
      BY <3>2, <3>3
  <2>. QED
    BY <2>2, <2>3
<1>. QED
  BY <1>1, Inductive, PTL

(* After a rotation the new key reads every row that existed when it       *)
(* listed them and every row added with it; before, the old one does.      *)
THEOREM SecretAlwaysReads == Spec => []SecretReadsAll
<1>1. AccessInv => SecretReadsAll
  BY DEF AccessInv, Rotated, SecretReadsAll
<1>. QED
  BY <1>1, Inductive, PTL

(* Every engine that is open is the one the cache holds, as long as first  *)
(* uses of a connection do not overlap.                                    *)
THEOREM EnginesStayCached == Spec => []EnginesAreCached
<1>1. AccessInv => EnginesAreCached
  BY DEF AccessInv, CoreInv, CachedOnce, EnginesAreCached
<1>. QED
  BY <1>1, Inductive, PTL

(* The cap that a query runs under is a positive number within the         *)
(* setting.                                                                *)
LEMMA EffectiveRowsInRange ==
    ASSUME NEW asked \in Nat
    PROVE  EffectiveRows(asked) \in Nat \ {0} /\ EffectiveRows(asked) <= RowsCap
BY LimitsAssumption DEF EffectiveRows, Least

(* Probing with one row more tells exactly whether rows were cut off.      *)
LEMMA OneQuery ==
    ASSUME NEW form \in Forms, NEW limit \in Limits,
           NEW n \in Nat, NEW rows \in Nat, NEW asked \in Nat
    PROVE  CapHolds(form, limit, n, rows, asked)
<1> DEFINE cap == EffectiveRows(asked)
           wanted == Wanted(limit, n, rows)
           fetched == Fetched(form, limit, n, rows, cap)
<1>1. cap \in Nat \ {0} /\ cap <= RowsCap /\ RowsCap \in Nat
  BY EffectiveRowsInRange, LimitsAssumption
<1>2. wanted \in Nat
  BY DEF Wanted, Least
<1>3. fetched \in Nat
  BY <1>1, <1>2 DEF Fetched, Least
<1> HIDE DEF cap, wanted
<1>4. Delivered(fetched, cap) <= RowsCap
  <2> HIDE DEF fetched
  <2> QED BY <1>1, <1>3 DEF Delivered, Truncated
<1>5. ASSUME ~(form = "select" /\ limit = "unread")
      PROVE  /\ Delivered(fetched, cap) = Least(wanted, cap)
             /\ Truncated(fetched, cap) <=> wanted > cap
  <2>1. fetched = wanted \/ fetched = Least(cap + 1, wanted)
    BY <1>5 DEF fetched, Fetched, wanted
  <2> HIDE DEF fetched
  <2>2. CASE wanted > cap
    <3>1. fetched > cap
      BY <2>1, <2>2, <1>1, <1>2 DEF Least
    <3>2. ~(wanted < cap)
      BY <2>2, <1>1, <1>2
    <3> QED BY <3>1, <3>2, <2>2 DEF Delivered, Truncated, Least
  <2>3. CASE ~(wanted > cap)
    <3>1. fetched = wanted /\ ~(fetched > cap)
      BY <2>1, <2>3, <1>1, <1>2 DEF Least
    <3>2. Least(wanted, cap) = wanted
      BY <2>3, <1>1, <1>2 DEF Least
    <3> QED BY <3>1, <3>2, <2>3 DEF Delivered, Truncated
  <2> QED BY <2>2, <2>3
<1> QED BY <1>4, <1>5 DEF CapHolds, cap, wanted, fetched

(* No numbers defeat the probe.                                            *)
LEMMA EveryCap == EveryCapIsExact
<1> SUFFICES ASSUME NEW form \in Forms, NEW limit \in Limits,
                    NEW n \in 0..MaxRows, NEW rows \in 0..MaxRows, NEW asked \in 0..MaxRows
             PROVE  CapHolds(form, limit, n, rows, asked)
  BY DEF EveryCapIsExact
<1>1. n \in Nat /\ rows \in Nat /\ asked \in Nat
  BY LimitsAssumption
<1> QED BY <1>1, OneQuery

(* query_sql delivers what is asked for up to the cap, and truncated is    *)
(* exact, in every state that the server gets to.                          *)
THEOREM CapIsAlwaysExact == Spec => []CapIsExact
<1>1. CapIsExact
  BY EveryCap DEF CapIsExact
<1> QED BY <1>1, PTL

-----------------------------------------------------------------------------

(* Multiplying by a page size, which is positive, keeps the order.         *)
LEMMA Multiples ==
    ASSUME NEW size \in Nat \ {0}, NEW a \in Int, NEW b \in Int, a <= b
    PROVE  /\ a * size \in Int /\ b * size \in Int
           /\ a * size <= b * size
           /\ (a + 1) * size = a * size + size
OBVIOUS

(* Every row has its page.                                                 *)
LEMMA SomePage ==
    ASSUME NEW size \in Nat \ {0}, NEW r \in Nat \ {0}
    PROVE  \E page \in 1..r : (page - 1) * size < r /\ r <= (page - 1) * size + size
<1> DEFINE q == (r - 1) \div size
<1>1. q \in Nat /\ q * size <= r - 1 /\ r - 1 < q * size + size
  OBVIOUS
<1>2. q <= r - 1
  BY <1>1
<1>3. q + 1 \in 1..r /\ (q + 1) - 1 = q
  BY <1>1, <1>2
<1> HIDE DEF q
<1>4. ((q + 1) - 1) * size < r /\ r <= ((q + 1) - 1) * size + size
  BY <1>1, <1>3
<1> QED BY <1>3, <1>4

(* No numbers defeat the offsets.                                          *)
LEMMA EveryPaging == EveryPagingPartitions
<1> SUFFICES ASSUME NEW asked \in 0..MaxRows, NEW total \in 0..MaxRows,
                    NEW r \in 1..total
             PROVE  \E page \in 1..total :
                       /\ PageOf(r, page, PageSize(asked), total)
                       /\ \A other \in 1..total :
                             PageOf(r, other, PageSize(asked), total) => other = page
  BY DEF EveryPagingPartitions
<1> DEFINE size == PageSize(asked)
<1>1. size \in Nat \ {0} /\ total \in Nat /\ r \in Nat \ {0} /\ r <= total
  BY LimitsAssumption DEF PageSize, Least, Greatest
<1> HIDE DEF size
<1>2. PICK page \in 1..r : (page - 1) * size < r /\ r <= (page - 1) * size + size
  BY <1>1, SomePage
<1>3. page \in 1..total
  BY <1>1, <1>2
<1>4. r \in RowsOf(page, size, total)
  BY <1>1, <1>2 DEF RowsOf, Offset
<1>5. ASSUME NEW earlier \in 1..(page - 1)
      PROVE  HasMore(earlier, size, total)
  <2>1. earlier * size <= (page - 1) * size
    BY <1>1, <1>2, <1>5, Multiples
  <2>2. earlier * size \in Int /\ (page - 1) * size \in Int
    BY <1>1, <1>2
  <2> QED BY <2>1, <2>2, <1>1, <1>2 DEF HasMore
<1>6. ASSUME NEW other \in 1..total, r \in RowsOf(other, size, total)
      PROVE  other = page
  <2>1. (other - 1) * size < r /\ r <= (other - 1) * size + size
    BY <1>6 DEF RowsOf, Offset
  <2>2. (other - 1) * size \in Int /\ (page - 1) * size \in Int
    BY <1>1, <1>2
  <2>3. CASE other < page
    <3>1. (other - 1) + 1 <= page - 1 /\ other - 1 \in Int /\ page - 1 \in Int
      BY <2>3, <1>2
    <3>2. (other - 1) * size + size <= (page - 1) * size
      <4>1. ((other - 1) + 1) * size <= (page - 1) * size
        BY <3>1, <1>1, Multiples
      <4> QED BY <4>1, <3>1, <1>1, Multiples
    <3> QED BY <3>2, <2>1, <2>2, <1>1, <1>2
  <2>4. CASE page < other
    <3>1. (page - 1) + 1 <= other - 1 /\ other - 1 \in Int /\ page - 1 \in Int
      BY <2>4, <1>2
    <3>2. (page - 1) * size + size <= (other - 1) * size
      <4>1. ((page - 1) + 1) * size <= (other - 1) * size
        BY <3>1, <1>1, Multiples
      <4> QED BY <4>1, <3>1, <1>1, Multiples
    <3> QED BY <3>2, <2>1, <2>2, <1>1, <1>2
  <2> QED BY <2>3, <2>4, <1>2
<1>7. PageOf(r, page, size, total)
  BY <1>4, <1>5 DEF PageOf
<1>8. \A other \in 1..total : PageOf(r, other, size, total) => other = page
  BY <1>6 DEF PageOf
<1> QED BY <1>3, <1>7, <1>8 DEF size

(* Turning pages meets every row on exactly one page, in every state.      *)
THEOREM PagesAlwaysPartition == Spec => []PagesPartition
<1>1. PagesPartition
  BY EveryPaging DEF PagesPartition
<1> QED BY <1>1, PTL
=============================================================================
