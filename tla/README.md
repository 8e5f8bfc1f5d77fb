# A TLA+ model of the Onto Platform backend

The Onto Platform (`src/onto_platform/`) keeps an *ontology registry*: object,
link, interface and action types, shared properties, and the database
connections their instances are read from. Editors change a staging copy
through MCP tools, administrators promote it to production, revert it or undo
the last promote, documents are ingested into staging by an LLM agent, and
operators chat with that agent. The service is one asyncio process in front of
Postgres. Its correctness lives in what several requests, one event loop and
one transactional database do to the same rows, and that is what these modules
model.

Contents: [inventory](#inventory), [plan](#plan), [modules](#modules),
[runs](#runs), [fairness](#fairness), [refinements](#refinements),
[proofs](#proofs), [what disagrees with the documents](#disagreements),
[what is left out](#left-out).

## Inventory

The components, their state, how they interact, and what makes them correct.

**Registry store and life cycle** (`registry/store.py`, `registry/lifecycle.py`).
State: the three rows `staging`, `production`, `previous_production` of the table
`registries`, each a payload and a version. Operations: `load` (a plain SELECT),
`save` (SELECT ... FOR UPDATE, compare with the expected version, UPDATE),
`promote_staging_to_production`, `revert_staging_to_production`, `undo_promote`.
Callers hold one transaction per request and commit it. Hard: loads take no
lock, saves happen many statements later, promote and undo lock the same two
rows in opposite orders, a request can die between two saves.
Correct when: the pair production/backup rotates atomically, no versioned edit
is lost, versions stand for rows, nobody waits forever.

**Registry edits and validator** (`registry/crud.py`, `imports.py`,
`refs_scan.py`, `validator.py`, `checks/*`). Pure functions from a registry to a
registry or an error. Deletes are refused while something refers to the
definition and are not validated; everything else is validated. Correct when:
what is stored keeps every promise of the validator over any sequence of edits,
the scan for referrers and the reference check agree, the cycle search agrees
with reachability.

**MCP server, REST routes, command line** (`mcp_server.py`, `mcp_tools_*.py`,
`api_routes.py`, `cli.py`). No state of their own. They decide when a transaction
commits: the MCP dispatcher commits after success *and* after an exception (to
keep its audit row), REST and the command line only after success.

**Tokens and UI sessions** (`auth.py`, `token_store.py`, `ui_auth.py`,
`bootstrap.py`), **audit** (`audit.py`). State: `api_tokens`, `ui_sessions`,
`audit_log`. A UI session is opened with a token and joined with it at every
request. Correct when: no tool call, login or page is served to a revoked token or a
session of one, there is one bootstrap token, the log and what was done agree. (The
instance route asks for neither; see [disagreements](#disagreements).)

**Connections** (`connections/store.py`, `probe.py`, `pool.py`). State: the table
`connections` with encrypted DSNs; in memory, the pool's engine per connection
id. A registry's asset mappings point at connections; `delete_connection` scans
staging and production before it deletes; `rotate-secret` re-encrypts every DSN
beside a running server. Correct when: a commit that stands on what its request
looked at leaves no stored binding without its connection, the pool never serves a
deleted one, the operator's key reads every row.

**Bound queries** (`connections/sql_gate.py`, `data_query.py`, `masking.py`,
`query_builder.py`, `dialect_engine.py`, `data_routes.py`, `mcp_tools_read.py`).
Stateless: gate, limit, run read-only, mask. Correct when: truncation is
reported exactly when rows were dropped, pages partition the rows, restricted
columns are masked.

**Ingestion** (`ingestion/*`, `mcp_tools_ingestion.py`). State: tables
`ingestion_jobs` and `ingestion_uploads`; in memory, the worker's running tasks.
A job goes queued → extracting → agent_running → validating → imported, or to
failed or cancelled; it reads staging once, runs the agent on a working copy and
saves with the version it read. Hard: cancellation from two places, time-outs
from two places, the save of staging and the final status in two transactions,
restarts. Correct when: a terminal status is final and true, an upload belongs
to one job, staging changes only under a job that says so. The last is not the case:
the exceptions are named (`OnlyStopsHideImports`), and one is shown by a run.

**Chat** (`chat/orchestrator.py`, `http.py`, `recovery.py`, `sse.py`). State:
tables `chat_sessions` and `chat_messages`; in memory, `_running` (session →
turn) and the event bus. A turn is an ingestion job. Cancel restores the staging
of the session's start; a sweep at start-up cancels old sessions. Hard: checks
of `_running` before awaits, a cancel next to other writers of staging, row
locks of foreign keys, lost in-memory state, streams that open before, during and
after a turn. Correct when: one turn per session, every started turn ends with
one terminal event, a session ends once and as a whole, a cancel undoes the
session's changes and nobody else's.

**Others**: `neo4j_syncer.py` (one-shot export), extractors (pure parsing), the
React interface under `ui/`, migrations and scripts.

`PROJECT.json` lists every component with its status, and under "hazards" what
in this code a test would hardly reach, each at its line, with the properties
that cover it.

## Plan

Done, in order of what matters most:

1. **Registry core**: `RegistryPayload`, `RegistryTxn`, the abstract
   `RegistryAtomic`, the refinement, the first theorems.
2. **Ingestion**: `IngestionJobs`, the jobs with everything that happens to
   them, and `IngestionAgent`, one run of the agent.
3. **Event stream**: `TurnStream`, the bus, the streaming route and the page.
4. **Chat sessions**: `ChatSessions`, and what they promise, `SessionLife`.
5. **Registry rules**: `RegistryRules`, the validator, the cycle search and the
   referrer scan against what they are for.
6. **Access to data**: `DataAccess`, tokens, sessions, audit, connections, the
   pool and the commands; `QueryLimits`, row caps and pages.

7. **Proofs**: every safety invariant and action property that a run checks, and both
   refinements, as theorems for every value of the constants.

Left: proofs that need fewer hypotheses. The refinement of `RegistryAtomic` is proved
for life-cycle requests over REST; what the same requests over MCP still promise
(each of the two rows is one that was current) has no abstract module yet.
`GroundedKeepBindings` says of each commit by itself when it is harmless; a condition on
the requests as they arrive, from which the bindings of all rows resolve for ever,
is open. Properties that could be strengthened from the inductive invariants: that a
subscriber of a closed turn receives its last event last, and that a job's final
row agrees with the reason its task ended.

## Modules

| Module | What it is |
|---|---|
| `RegistryPayload` | A registry as a value, and the pure edits: put, remove, bind, merge, import; well-formedness, validity, referrers. |
| `RegistryTxn` | The three rows, the connections table, and every request that writes them, one SQL statement per step. |
| `RegistryAtomic` | The promise: each request that commits is one atomic step. |
| `RegistryRefinement` | `RegistryTxn` with a history variable, and the claim that it implements `RegistryAtomic`. |
| `RegistryTxnProofs` | Theorems about `RegistryTxn`: types, locks, versions, lost updates. |
| `RegistryRefinementProofs` | Theorems about `RegistryTxn` and its refinement: rotation, stored rows, bindings, `RegistryAtomic`. |
| `RegistryRules` | Definitions with their fields, the checkers of `validate()`, the cycle search step by step, the referrer scan. |
| `RegistryRulesProofs` | Theorems about `RegistryRules`. |
| `IngestionJobs` | Uploads, job rows, the task of each job, and what cancels, times out or kills it. |
| `IngestionJobsProofs` | Theorems about `IngestionJobs`. |
| `IngestionAgent` | One run of the agent on its working registry, and the import of the result; uses `RegistryPayload`. |
| `IngestionAgentProofs` | Theorems about `IngestionAgent`. |
| `SessionLife` | The promise of chat sessions: one copy, one end, and only a rollback takes anything out of staging. |
| `ChatSessions` | Sessions, their requests and turns statement by statement with row locks, the sweep and restarts; implements `SessionLife`. |
| `ChatSessionsProofs` | Theorems about `ChatSessions`, the refinement of `SessionLife` among them. |
| `TurnStream` | The event bus of one chat turn, its streaming responses, and the busy flag of the page. |
| `TurnStreamProofs` | Theorems about `TurnStream`. |
| `DataAccess` | Tokens, UI sessions, audit rows, connections, the engine cache, the start of the server, the operator's commands. |
| `QueryLimits` | Row caps and pages as operators. |
| `DataAccessProofs` | Theorems about `DataAccess` and `QueryLimits`. |
| `MC...` | Small instances for TLC, one per component. |

`RegistryTxn` and `RegistryRules` look at the same edits from two sides: the first
interleaves them and knows of a definition its connection and its references
only; the second runs one at a time and knows the fields. `ChatSessions` keeps of
a turn's job that it reads staging once and imports on top of exactly that, which
is what `IngestionJobs` shows (`ImportFollowsItsRead`); what a page sees of the
turn is `TurnStream`. `DataAccess` leaves the scan of `delete_connection` to
`RegistryTxn`.

### RegistryPayload

A definition is reduced to that by which a change of one can make another invalid:
`conn`, the connection its asset mapping reads from (or none); `refs`, the RIDs it
refers to; `sort`, of a shared property its data type and of an interface its
category; and `agrees`, which sort it asks of some of `refs`: a property that inherits
from a shared one has that one's type, an interface the category of those it
extends. A registry is a version string and a definition or nothing per RID. The
version string is one of the sentinel `"__empty__"`, `""` and anything else,
because those are what `undo_promote` and `import_into_registry` compare it with;
put tools keep the string of the registry they edit. `WellFormed` has the checks of
`validate` between definitions: references resolve (`Resolved`, of `checks/refs.py`),
inherited types and extended categories match (`Agreeing`, of
`checks/property_backing.py` and `checks/interface_category.py`), and no interface
extends itself in a circle (`Acyclic`). The checks of single definitions are in
`RegistryRules`, so here clients are assumed to send definitions that pass them
(`Definition`), and whole registries in any state (`Incoming`).

### RegistryTxn

`reg` and `conns` are what is committed, `lock` the row locks, `tx[t]` the handler
running in slot `t` with its local variables: `given` is the argument
`expected_version`, `seen` the snapshots `load` returned, `expect` what the save
will compare with, `known` the connection ids read, `cand` the candidate
registry, and `buf`, `add`, `drop` its uncommitted writes. `pc` is the next
statement. `Given` are the numbers a client may name: with `BlindEdits` none, or any
from the version that staging has when the call arrives up to the bound, those that
staging has yet to reach among them (older ones are covered too, as others commit
before the call's first statement); without, that version only. `target` is the
connection a request is about and `text` the stored ids that its argument equals as a
string: `delete_connection` compares the string with the bindings and deletes what
`uuid.UUID()` reads in it, so `Spellings` lets the two differ. Each action is one
statement with the Python that runs up to the next await; between two of them any
other request may run. `Begin` is a client's call; `Load` and `Save` are `RegistryStore.load` and `.save`; the names after
that follow the code (`EditReload` is the second load in `_save`, and so on).

What the code takes from Postgres is stated as what it relies on: a plain SELECT
sees the last committed row; FOR UPDATE waits for the lock, then sees the last
committed row; locks go at the end of the transaction; one transaction of a
deadlock is aborted, and everything it tries afterwards fails, so that even the
MCP dispatcher commits nothing. `Crash` is the loss of the process or of its
database connection at any point; it needs no restart action, since nothing of a
request survives in memory.

`Commits` is the rule that differs by surface: a handler that raised still
commits on MCP. `Call` therefore carries the surface, and each run chooses its
calls.

### RegistryAtomic

Three rows and `past`, the payloads each has held. `Edit`, `Promote`, `Revert` and
`Undo` are one step each. The rows a step overwrites are the current ones; the
rows it only copies from may be earlier ones, which is exactly what plain SELECTs
allow: a promote may publish a staging that was current when it looked, never a
production that was not the one it backed up. With `BlindEdits = FALSE`, clients that
pass the version of staging they have read, an edit starts from the current staging.

### RegistryRules

A definition is a record with what any checker looks at: `refs`, pairs of the
field and the RID it names; `props` with the columns or expressions behind each
property and the shared property it inherits from; `keys` and `names`, the
properties that primary keys and cross-property rules mention; the interface's
`category` and which category-specific fields it carries (`shape`); `conn`. Each
checker is a set of findings, named as in `checks/`. `Expected` is the table of
the fields that `check_refs` follows, and `Scanned` those of `find_referrers`: two
lists in the code, kept equal by hand.

The recursive `visit()` of the cycle search is a state machine, its call stack the
variable `path`, its colours `color`. Dictionaries come in any order, so `Enter`
and `Follow` choose. `Decide` is `_validate_or_raise`. `menu` is the family of
definitions that clients send in one behaviour.

### IngestionJobs

`job` and `upload` are the two tables, `writer` stands for the row `staging`: who
wrote each of its versions. `task[j]` is the asyncio task of a job: `pc` is the
await at which it is suspended, `ok` says that the statement it awaits has
committed and its answer is on the way, `stop` that `task.cancel()` was called.
`Marks` lists the status updates of `run_one_job` by their place in the code, with
the status and error code each writes and what follows; `Commit` and `Proceed` are
the two halves of each. That split is what the questions here are about: a
cancellation, a time-out, a lost connection or a restart may fall before the
commit, or between the commit and its answer.

`Interrupted` raises CancelledError where the task is suspended: the two try
blocks that catch it (`Cancellable`) write "cancelled", anywhere else the task
dies. `Done` is what the caller makes of it: the callback of the worker, or
`wait_for` in `run_turn_worker`, which turns a CancelledError that came out into a
time-out and leaves a normal return alone. REST and chat start a task, MCP does
not (`Accept`). `RestCancel` cancels the task, `McpCancel` updates the row.

What the agent produces and whether it validates is a free choice here;
`IngestionAgent` looks inside.

### IngestionAgent

The loop of `run_agent`: ask, dispatch the calls one by one, ask again, up to
`MaxSteps`; then `ImportWorking`, which is `import_into_registry` of the working
registry over the staging that the job started from, validated; the validator may
refuse it (`pc = "invalid"`). `Edits` is what one call of a tool can do, from the
operators of `RegistryPayload`. The model answers anything: any number of calls up to
`MaxCalls`, calls that fail, a final message, an error. `DispatchRaises` is the call
whose arguments cannot be summarised for the report: `_summarize_args` raises, is
called again by the handler of that failure, and the run ends. Jobs start from
stagings that are valid and from one that is not (bound to a connection deleted
since).

### SessionLife and ChatSessions

`row` is the table `chat_sessions`, `running` the orchestrator's `_running`,
`call[c]` the request in slot `c` or, once `start_turn` has answered, the task of
its turn. Staging is its version and the set of the writes it holds, each named by
its author, so that one can tell whose write a cancel took out.

Row locks are modelled where handlers meet. `save_session` and `cancel_session`
update the session's row, which they hold until the commit (`updater`); the INSERT
of a message refers to that row and shares its key (`sharers`); a DELETE waits
until nobody else shares it; the save of staging holds staging's row (`writer`).
Hence `Deadlocked`: a `start_turn` that has inserted its message waits to update
the row that a save has updated, and the save waits to delete the row whose key
the message shares. Postgres ends one of them.

`Request` looks at `_running` when the request arrives; the task is registered
only by `TurnRegister`, after the commit of `start_turn`. Between the two other
requests get through: `overlapped` records which sessions and tokens ever had
requests that overlapped, since what the code guarantees differs. `TurnEnd`
removes the session's entry whoever's turn is there. `Sweep` is the start-up's
cancel of idle sessions, one step each as nothing runs beside it.

`SessionLife` knows of none of this: a session takes its copy, is opened, and ends
once.

### TurnStream

Turns share nothing in the bus, so one turn stands for all. `bus` is its
`_TurnState`, `queue[c]` the queue of a subscription, `handler[c]` the streaming
response, `busy[c]` the page's flag. Since a put on an unbounded queue does not
suspend, `subscribe` up to its first get is one step, and so are `publish` and
`close`. `Heartbeat` models what `asyncio.wait_for` does to the generator it awaits:
it cancels `__anext__`, the CancelledError ends the generator, and the next
`__anext__` raises StopAsyncIteration (`Exhausted`). The page closes its EventSource
on the error and does not open another.

### DataAccess

`token`, `cookie`, `conn` and `audit` are the tables, with the audit rows of
outcome "ok"; `pool[k]` says whether the server's cache has an engine for a
connection and how many engines were opened; `server` is where the process is in
its start and the key it was started with; `shell` is the operator's command;
`secret` is the key that `rotate-secret` told the operator to use. A request takes
one step per statement. What a tool has written shows at `AuditAndCommit`, which
is the commit at the end of the dispatcher; a handler that raises commits only the
row of the error, and a statement that fails takes the whole transaction with it,
as the audit INSERT then fails too. `query_sql` uses a pool of its own that is
disposed at once; instance queries use the cache (`QueryMeta` to `QueryRead`). They
carry no token or session, since their route asks for none. `revoke_token` and
`delete_connection` of an id that no row has (`Nobody`) do nothing, and are audited
as ok.

`call[c].late` marks a tool call, login or page that came in after its token or
session was withdrawn, and a query whose connection was; `raced` marks the overlaps
that three of the properties except.

### QueryLimits

Numbers only. A statement is its form, whether its own limit is absent, a number or
something `_ensure_limit` cannot read, and the number of rows it has without one.
`Fetched` is what the rewritten statement returns, `Truncated` and `Delivered` what
`query_sql` makes of it. `PageSize`, `Offset`, `RowsOf` and `HasMore` are those of
the instance query.

## Runs

Every module has one type invariant, `TypeOK`. Where a run has a deeper invariant of
the same module, `TypeOK` is that invariant's first conjunct. Every property is
paired in `PROJECT.json` with a mutant: a definition of the model changed the way a
plausible bug in that code would change it, under which TLC reports the property
violated.

| Run | Checks | What it shows |
|---|---|---|
| `RegistryEditors` | `TypeOK`, `LockingDiscipline`, `StoredWellFormed`, `NoLostUpdate` | Two requests at once from every surface (imports apart), with MCP promotes and undos that commit half their work, restore-registry, and edits that name any version: writers exclude each other, a version stands for its row, stored rows pass the checks between definitions, and an edit that named a version staging had reached at its load overwrites what it was computed from and nothing else. |
| `RegistryAtomic` | `RotationAtomic`, `GroundedKeepBindings`, `ImplementsAtomic`, `EveryRequestFinishes` | Imports and connection tools over MCP and the life cycle over REST implement `RegistryAtomic`; production and its backup rotate together; a commit that stands on what its request looked at breaks no binding; every request ends, also a promote and an undo that deadlock. |
| `IngestionOutcomes` | `ImportedMeansCommitted`, `OnlyStopsHideImports`, `ImportFollowsItsRead`, `OutcomesStand` | Two jobs of any origin beside an editor, both cancellations, time-outs, lost connections and restarts: a job that says "imported" wrote the version it names, on what its agent read; only two things hide from a job's row that it wrote staging, `cancel_ingestion_job` and the wall clock of a chat turn; a final status stays, again with named exceptions. |
| `IngestionCancelled` | `CancelledLeavesStaging`, expected violated | See [disagreements](#disagreements). |
| `IngestionEnds` | `JobsEnd`, `UploadsStay` | Jobs of REST and chat end in a terminal status; an upload stays with the job that took it. |
| `AgentRun` | `WorkingStaysValid`, `RefusedOnlyByRevived`, `OnlyImportWrites`, `WholeTurnWritten`, `RunEnds` | Whatever the language model answers, the working registry stays valid and the loop ends; its import writes all of it, and is refused exactly when a merge revives a definition that does not fit what the agent has put anew. |
| `StreamEvents` | `SubscribersMissNothing`, `ReceivedInOrder`, `StreamsEnd` | Replay and live events join without loss, duplicate or reordering; every stream ends. |
| `ChatSessions` | `TypeOK`, `SequentialCallsAreSafe`, `MarkedTurnsRun`, `CapKept`, `ImplementsLife` | Requests that do not overlap never run a turn in a session that has ended; the mark of a turn goes with the turn; the cap holds; every interleaving implements `SessionLife`. |
| `ChatEnds` | `CallsEnd` | Three requests at once on one session: whatever locks they wait for, each ends. |
| `ChatCancel` | `CancelSparesOthers`, expected violated | See [disagreements](#disagreements). |
| `DataAccess` | `EffectsAreAudited`, `WithdrawnMeansOut`, `BootstrapOnce`, `SecretReadsAll`, `EnginesAreCached`, `CapIsExact`, `PagesPartition` | What a tool did and its audit row stand or fall together; no tool call, login or page of a withdrawn token or session is served, and no query of a connection deleted before; one bootstrap token; the operator's key reads every row; no engine is lost; the row cap and pages. |
| `RegistryRules` | `StoredIsSound`, `ValidatorIsExact`, `CyclesAreReal`, `DeletesAreExact`, `PutsAreAnswered` | Over every sequence of puts, bindings and deletes, the validator refuses exactly what is unsound, reports real cycles, and ends; deletes are refused exactly when they would break a reference. |

**Bounds.** `MaxVersion` caps the writes of a row and `MaxTurns` the turns of a
session; both are guards of the step that would go past them. What they must
let happen:

* *Registry.* `RegistryEditors` has two RIDs, so that one definition can refer to
  the other and ask it to be of a sort, and two requests: a lost update takes two, and
  locks are taken by pairs. Its `MaxVersion = 2` lets a client name a version two
  ahead. Imports are left to the other run, since they are a put with another
  candidate (`restore-registry` brings the upload in here); that they too store only
  what passes the checks is proved. `RegistryAtomic` has one object type, one connection and `MaxVersion = 3`: a
  promote, an undo of it and an edit next to either, or a binding that is promoted
  and then gone from staging, by a revert to the production of before, next to a
  deletion. References are left out of it, as they are the other run's question.
* *Ingestion.* Two jobs compete for staging, and `MaxVersion` 2 lets each win
  once. `IngestionEnds` leaves out what can end a task without a status: MCP
  submissions, which nothing runs, cancellation over REST outside the two `try`
  blocks, faults and restarts. `IngestionCancelled` needs one job.
* *Agent.* Three steps of up to two calls, enough to add a definition and one that
  refers to it, to delete an heir and put what it inherits from with another type, and
  to run into the cap; four stagings, one with such an heir and one bound to a
  connection that has been deleted.
* *Streams.* Three subscribers, so that one can come before, one during and one
  after the turn's clean-up; a turn publishes its start and one final event.
* *Chat.* Two sessions of one token with a cap of one, two slots, one turn: the
  smallest in which a creation meets a creation, a save meets a turn and a session
  is cancelled after another has written. `ChatEnds` trades the second session for a
  third slot, since a cycle of lock waits with a bystander needs three.
* *Data access.* `Traffic` is what comes in during one behaviour: tokens and
  sessions, or connections, queries and the rotation, which share no state beyond
  the audit log; or tokens, or connections, with calls that name an id of no row.
  `DefaultRows = 2`, `RowsCap = 3` and rows up to 7 put the limits below, at and above
  each of the two and give pages that divide the rows and pages that do not.
* *Rules.* `Wide` is all 512 ways in which three interfaces extend each other, `Deep`
  one definition of each kind in the forms that separate the checkers.

Symmetry is used in runs without liveness only. Deadlock is checked in all runs;
where everything may have ended, a step named `Quiet`, `Over` or `Finished` says so,
and is enabled only when nothing is under way.

## Fairness

Nothing is assumed of clients, faults, crashes or restarts. What is assumed:

* *Registry*: `SF` on each request's own steps. A request waiting for a row is
  enabled whenever the row is free; Postgres queues the waiters of a row, so one
  that could go on again and again is not passed over for ever. `WF` on
  `DeadlockVictim`: the deadlock detector runs after `deadlock_timeout`.
* *Chat*: `SF` on each handler, for the same reason.
* *Ingestion jobs*: `WF` on each task. The loop resumes a task whose await is
  answered, and every await is answered: statements, extraction in a thread, and
  an agent whose calls have time-outs.
* *Agent*: `WF` on the run: every call of the language model returns or raises
  within `request_timeout_s`.
* *Streams*: `WF` on the turn's worker (which has a wall clock), on the delayed
  clean-up and on each streaming response.
* *Rules*: `WF` on the steps of `validate()`, a synchronous function.

## Refinements

* `RegistryTxn` implements `RegistryAtomic`: `RegistryRefinement` adds the history
  variable `past`, the payloads each row has held, and instantiates the abstract
  module with the committed rows. Every SQL statement maps to a stutter but
  the commit, which maps to one `Edit`, `Promote`, `Revert` or `Undo`. That this holds with
  unlocked reads is the point: the versions checked under FOR UPDATE pin the row
  that is overwritten, and what is merely copied was current at some time (`past`).
* `ChatSessions` implements `SessionLife`: `life` is the status column, `copy` the
  snapshot in the row or, before the INSERT, in the creating request, `kept` the
  writes that staging holds. Only a cancel's commit, or the sweep's, is a `RollBack`.
  Requests that overlap are included; what they break is stated elsewhere
  (`overlapped`).

## Proofs

TLC checks the instances above. The theorems hold for any number of requests,
sessions, tokens, jobs, definitions and rows, and for any bounds. `PROJECT.json` lists
them with the property each one states. They rest on the assumptions in the modules,
which TLC evaluates in the runs and which only say that the constants are what their
comments say: names of different things are different (`JobsAssumption`,
`AccessAssumption`, `Absent \notin Rid` in `RulesAssumption`), limits are numbers, the
definitions that clients may send have the fields of their kind (`MenusAssumption`).

Each proof has the same shape: an inductive invariant that says what the property
leaves unsaid, checked with TLC first; lemmas that sort the actions by what they
change, so that an invariant is proved once per kind of step; and one temporal step
at the end. Three theorems have one of two hypotheses. Each names a case in which the
code really does not keep the property:

| Hypothesis | Theorems | Without it |
|---|---|---|
| `ApiRotations`: life-cycle requests come over REST, nothing is restored | `RotationIsAtomic`, `RegistryIsAtomic` | The dispatcher of `/mcp` commits what a failed promote or undo has written, one row of the two. |
| `SoundRestores`: files given to restore-registry are well formed | `StoredIsWellFormed` | restore-registry stores a file that nothing validates. |

How the records are written matters to the prover. `tlapm` 1.4.5 encodes
`[f EXCEPT ![c].a = x, ![c].b = y]`, two paths through one index, in a way that is
inconsistent for SMT, and misreads an `@` in a nested EXCEPT. No module uses either: several
fields of one record change through one path, `![c] = [@ EXCEPT !.a = x, !.b = y]`, whose
inner expressions name the record in full. To rule out that a leaf is proved from
contradictory facts, each was also tried with `FALSE` as its goal: only the cases that
cannot occur and the ends of proofs by contradiction are proved.

**`RegistryTxnProofs`.** `StepKinds` sorts the many actions into four kinds by what
they change: they read, they buffer a write under a lock, they commit, or they
discard; or nothing changes. Each invariant of rows and locks is then proved per kind
and not per action.
`TypeCorrect` is inductive as it stands. `LockingDiscipline` is not: that a loaded
version names its row must survive a commit by another request, which needs that
no request has seen a version above the committed one (`SeenBefore`); `RowsInv` is
the conjunction that is inductive. `VersionsCount` follows, and states as an action
property that a step that changes a row moves its version by exactly one.
`NoUpdateIsLost` needs in addition `EditInv`: between its load and its save an edit
that named a version still expects that version and holds the snapshot it
computed from. If the number was not ahead of that snapshot, versions only grow, so
the compare under FOR UPDATE can succeed only while staging has the snapshot's
version, and `RowsInv` identifies the row that is overwritten with the row that was
read. If it was ahead, nothing follows, and the property says nothing.

**`RegistryRefinementProofs`.** `FlowOK` says, for each place in each handler, what it
has loaded, computed and buffered there: a promote about to save production has
buffered the loaded production as the backup, and so on. It is a statement about each
request alone, so no step of another request can disturb it. A commit then is known
by the operation it ends (`CommitIsAtomic`): which rows it writes, with what, and
that the rows it overwrites are those it loaded (`SavedOverLoaded`, from the versions
compared under FOR UPDATE and `RowsInv`). `RotationIsAtomic` and `RegistryIsAtomic` follow,
the latter with `PastInductive`: whatever a request has loaded is among the payloads
the row has held, which is what lets an unlocked read map to the abstract step's
choice; that careful clients' edits start from the current staging takes `CarefulInv`,
that the number they name is one staging has had. `StoredIsWellFormed` needs that everything in a
request's hands is well formed (`Sound`): deletes skip the validator, so it takes the
lemma that removing a definition nobody refers to breaks nothing (`RemovalIsSound`).
`BindingsStand` needs no hypothesis on the calls. `AllVouched` says what each request
in progress can vouch for: what it computed or copied binds only to the connections
it read or to those of a row it loaded, and what it is about to delete is, if its
argument was spelled as bindings are, bound by neither row it scanned. That is about
each request alone and survives every other step; at the commit,
`GroundedCommitKeepsBindings` adds that what was loaded is still there.

**`RegistryRulesProofs`.** `ChecksExact`: the checkers that look at a definition at a
time find something exactly when a promise other than freedom from cycles is broken.
The search needs an invariant. `PathOK` ties the colours to the stack: what is in
progress is on it, once, each frame a parent of the one below. `Ordered` is the
argument: as long as no cycle was found, the finished interfaces extend only
finished ones, and every non-empty set of them has a member that extends none of
the set. So when every interface is finished there is no cycle, and `FoundOK` gives
the converse, that a cycle which is reported is one. Acyclicity is stated by sets and
not by paths, which spares an induction. For deletes, `RemovalIsSound` and
`ReferrersBreak`: removing what nothing refers to breaks no promise, and removing what
something refers to does.

**`IngestionJobsProofs`.** A job is its row, its task, the versions it has written and
whether it was cancelled over MCP. `WritesOnce` says at which awaits the save may have
been committed and that it was one save; `Candid` what the row may say meanwhile;
`Settled` which final rows the task can still touch. Neither is inductive alone: that
the row says "validating" while the save is under way rests on what the cancellations
and time-outs can reach. The theorems on outcomes and uploads are action properties,
proved from the same invariant.

**`IngestionAgentProofs`.** `RunInv` says that the result is the base until the import,
which is what `OnlyImportsWrite` and `WholeTurnIsWritten` state. `MergeIsValid` says when
a valid registry merged over the valid staging it came from is valid again: always, but
for a definition that comes back and asks a sort of one that has changed it. What
comes back brings what it refers to, as either copy has it; and no circle of
interfaces can close, as one would lie in either copy (`MergeIsAcyclic`).
`OnlyRevivedRefuse` is that with `WorkingIsValid`.

**`TurnStreamProofs`.** `BusOK`: the buffer is the whole log until the clean-up drops it.
`StreamsOK`: a subscription either has the whole log, received or waiting, or was
opened after the clean-up and waits for nothing. The order of what a browser sees
follows since it is always a beginning of the log.

**`ChatSessionsProofs`.** `TypeOK` splits into `TypesOK` and `LocksOK`: who updates or
shares a session's row is a handler of that session between its first and last
statement on it. The latter is inductive only together with the former.
`MarksAreTurns`, the mark of a turn goes with its turn, is inductive on top of
them; its cases are the ends of turns that meet another turn's mark, and the
deletes that leave a mark to its turn. `CapIsKept` needs `CountStands`: while a
token's creations do not overlap, at most one of them is between its count and its
INSERT, and the count still stands there. Cardinalities come from
`FiniteSetTheorems`, for which `Session` is assumed finite.
`SequentialIsSafe` needs `OneAtATime`: of a session whose requests never overlapped, at
most one request or turn is anywhere past its arrival, and the row is as that one
found it. `LifeIsImplemented` is the refinement of `SessionLife`, one lemma per kind of
step: a save or cancel that has claimed the row keeps it until its commit
(`ClaimsStand`, from the row's lock), so the commit that ends a session is the only
one; and the copy is the creating request's, later the row's, and never changes.

**`DataAccessProofs`.** Rows of the tables only move forward (`Forward`): what exists
never was not, what was withdrawn stays withdrawn. What a request has looked up
therefore still holds at its later statements (`SlotOK`), and `WithdrawnStaysOut` is a
part of that; of the instance route, which looks up no token, it has the connection
only. The others add an invariant each. `Audited` names the one row that stands
for each effect; since an insert in flight excludes another of the same id, none is
logged twice. `BootedOnce`: between the count and the insert of a bootstrap there is no
token. `Rotated`: until the rotation commits there is one key, and what it has listed
and what it has missed is all there is. `CachedOnce`: while first uses of a
connection do not overlap, at most one request is between its look-up and its engine,
and nothing is cached meanwhile. `CapIsAlwaysExact` and `PagesAlwaysPartition`: probing
with LIMIT cap+1 tells truncation exactly, and following `has_more` meets every row on
one page, for every cap, limit, page size and number of rows.

Only model-checked are the liveness properties (`EveryRequestFinishes`, `JobsEnd`,
`RunEnds`, `StreamsEnd`, `CallsEnd`, `PutsAreAnswered`): temporal reasoning under fairness
needs ENABLED, which is out of the prover's reach, as is induction over data. The
violations in `ChatCancel` and `IngestionCancelled` are counterexamples, which TLC finds.

## Disagreements

**Shown by a run.** `ChatCancel`: `orchestrator.py` documents `StaleStagingError` as
"Raised when a Cancel rollback would clobber concurrent staging changes."
`cancel_session` loads staging immediately before it saves the snapshot, and passes the
version it has just read as the expected one. So the save is stale only if somebody
commits between these two statements; whatever was written between the session's
start and its cancel is rolled back silently.

`IngestionCancelled`: the design of the backbone
(`docs/superpowers/specs/2026-04-25-ontology-platform-backbone-design.md:635`) says that
"cancellation requires no rollback — staging is unchanged regardless of where in the
pipeline the cancellation lands." `cancel_ingestion_job` updates every row that is not
terminal. A job says "validating" until after its import is committed
(`workers.py:218`), so a cancellation then leaves a row that says "cancelled" and a
staging that the job has changed; the worker's next update overwrites the row with
"imported", unless a restart or a lost connection comes first.

**Met while modelling.** These follow from the code and are kept out of the
properties, each at the place named.

*Registry.*
* `mcp_tools_editor.py:61` compares the client's `expected_version` only at the save, with
  whatever staging is then. A client whose tool loads version v and that names v+1
  overwrites a commit v+1 that the edit never saw, although
  `2026-04-25-ontology-platform-backbone-design.md:120` calls the parameter "the
  optimistic-concurrency mechanism — multi-writer-safe without explicit locking." It
  is in the model (`Given`), and `NoLostUpdate` excepts it: the property is stated for
  numbers that staging had reached at the load. A client that names none can overwrite
  what commits between the two loads of `_save`.
* `mcp_tools_admin.py:183` describes `delete_connection` as "Delete a connection. Refuses if
  any AssetMapping in either env still references it." Three things get past it. The
  bindings are compared with the argument as a string (:202) and the row is deleted by
  `uuid.UUID()` of it (:206): another spelling of a bound id, with capitals, braces or
  without hyphens, is deleted. A binding that commits between the scan and the commit is
  not seen. The backup is not scanned, so an undo (or a restore) brings a binding
  back. The first two are in the model and excepted by `Grounded`, which asks that a
  deletion was spelled as bindings are and that what it scanned still stands; of the
  commits of undo and restore `GroundedKeepBindings` says nothing.
* `mcp_server.py:196` commits the session of a handler that raised. An MCP promote
  that finds production stale after it has saved the backup therefore commits the
  backup alone. `RotationAtomic` covers REST.
* `lifecycle.py:59`: `undo_promote` recognises an empty backup by its version string,
  which put tools carry along: a production built by put tools alone cannot be
  restored.
* Undo restores its backup without validating it: its connections may be gone.
* A revert copies a production that another promote may have replaced meanwhile.
* `imports.py:20`: a merge can only add and replace. What the agent deleted from its
  copy is still in staging after the import. If it inherits from a shared property, or
  extends an interface, that the agent has put anew with another type or category, it
  no longer fits, and the import of a copy that was valid fails with
  VALIDATION_FAILED: `RefusedOnlyByRevived` says that this is the only way.
* `edited_object_types`, `edits` and `link_requirements` name RIDs that neither
  `check_refs` nor `find_referrers` looks at.

*Ingestion.*
* `2026-04-25-ontology-platform-backbone-design.md:664` says of WALL_CLOCK_TIMEOUT "Worker's
  outer guard fired and the agent task was cancelled. Staging is unchanged.", and
  `2026-04-28-onto-platform-ui-redesign-design.md:425` tells the page after turn_error "do NOT
  refetch (staging didn't commit)". The wall clock of a chat turn can fall between the
  commit of staging and the job's last update: the row then says WALL_CLOCK_TIMEOUT, the
  page gets turn_error, and staging has changed. This is the second exception of
  `OnlyStopsHideImports`; the first is that of `IngestionCancelled`.
* A job submitted over MCP is given to no worker and stays queued.
* A cancellation over REST that falls outside the two `try` blocks ends the task and
  leaves the row in a status that is not terminal.
* `cancel_ingestion_job` over MCP updates the row only; the worker's next
  `set_status` overwrites it.
* `create_job` passes over uploads that another job has taken.
* `ingestion_max_concurrent` is read nowhere: tasks are not bounded.

*Chat.*
* Between the commit of `start_turn` and the registration in `_running`, a second turn, a
  save or a cancel of the same session gets through.
* `start_turn` and a save or cancel can wait for each other's locks on the session's
  row; Postgres ends one of them, and the client sees an error.
* A session left `cancelling` is never swept at start-up. It can still be saved or
  cancelled by its owner.
* Cancelling two sessions in turn can bring the first one's writes back: the second's
  snapshot may hold them. The sweep cancels in no specified order.
* A creation that is counted together with another passes the cap with it.
* After one idle heartbeat interval the stream ends without the turn's end
  (`wait_for` cancels the generator's `__anext__`): the page, which closes its
  EventSource on error, stays busy. So it does when a statement after the job raises
  (`orchestrator.py:321`), as the stream is then closed without `turn_complete` or
  `turn_error`.
* A subscriber that registers as the delayed clean-up fires makes a state of the bus
  that nothing drops.

*Access.*
* `data_routes.py:20` makes the dependency that checks a session or token, `_read_dep`, and
  no route uses it: `list_instances` (:22-31) depends on the database session only, and
  answers whoever asks. `2026-04-25-ontology-platform-backbone-design.md:751` says "All
  `/api/*` and `/admin/*` (except `/admin/login` itself) accept either a session cookie OR a
  bearer token", and :146 of `revoke_token` "Subsequent uses of the token fail with
  `UNAUTHORIZED`": a request to this route under a revoked token still gets rows.
  `DataAccess.Query` has no token, as the code asks for none, and `WithdrawnMeansOut`
  states of these queries only that the connection is there.
* `_ensure_limit` says that it will "inject or shrink LIMIT to (cap+1)". A SELECT
  whose own limit is an expression or a FETCH FIRST has it replaced by cap+1, which
  may be more than it asked for: `CapIsExact` states only the upper bound for those.
  A negative `max_rows` is outside the modelled domain.
* Pages without `sort_field` have no ORDER BY.
* The bootstrap counts revoked tokens too: after force-revoke-all-tokens no start of
  the server mints a new one. Two servers that start together mint two.
* The pool's `invalidate` and the store's `update_dsn` (but for the rotation) have no
  caller; engines of deleted connections stay open, though nothing reaches them.
  Two first uses that overlap open two engines and lose one. The pool is not
  disposed at shutdown.
* Rows that a server with the old key inserts during or after a rotation cannot be
  read with the new key.
* After a failed statement the audit row of the error fails too: such a request
  leaves no trace.

## Left out

* **Extractors**: pure parsing of files by libraries.
* **Graph sync**: one-shot statements to Neo4j.
* **Migrations, scripts, deployment, seed data**: the seeded rows are the initial
  state of `RegistryTxn`, the rest is not part of the running service.
* **The SQL gate and masking**: syntax trees of sqlglot. They decide per statement
  and keep nothing; what can go wrong in them is a matter of SQL, not of states.
* **`compute_diff`, read-only routes and tools**: they read one committed row each.
* **The pages of the interface** other than the chat stream: no authoritative state.
* **Data**: names, labels, texts, timestamps, logs, prompts, file contents, password
  and token hashes, the encryption itself. A DSN is the key it can be read with, a token its
  identity and scopes.
* **`expected_version` numbers above `MaxVersion`**: staging never reaches them, so the
  save refuses them as it does any that do not match.
