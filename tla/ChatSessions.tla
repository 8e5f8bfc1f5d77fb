----------------------------- MODULE ChatSessions -----------------------------
(***************************************************************************)
(* Chat sessions: the rows of chat_sessions, the handlers that create,     *)
(* save and cancel a session and start a turn in it, the task of a turn,   *)
(* and the sweep of orphaned sessions when the server starts.              *)
(*                                                                         *)
(* A slot is one request at a time, and the task its start_turn leaves     *)
(* behind. A handler gives way at every statement. PostgreSQL's row locks  *)
(* are modelled where handlers meet: an UPDATE of a session's row holds    *)
(* it until the commit, an INSERT that refers to the row shares its key,   *)
(* and a DELETE waits until nobody else shares it.                         *)
(*                                                                         *)
(* Staging is the set of the writes it holds, each named by its author and *)
(* its version. What a turn's job does besides reading and importing is in *)
(* IngestionJobs, what its page sees in TurnStream.                        *)
(***************************************************************************)
EXTENDS Naturals, FiniteSets

CONSTANTS Session, Token, Slot,
          Nobody,        \* no slot
          Editor,        \* everyone else who writes staging
          MaxSessions,   \* chat_max_concurrent_sessions_per_token
          MaxTurns,      \* bound: turn indexes of a session stay below it
          MaxVersion,    \* bound: no edit of staging beyond this version
          Restarts       \* whether the server restarts

ASSUME ChatAssumption ==
    /\ IsFiniteSet(Session)
    /\ Nobody \notin Slot
    /\ Editor \notin Session
    /\ {MaxSessions, MaxTurns, MaxVersion} \subseteq Nat
    /\ Restarts \in BOOLEAN

VARIABLES staging,   \* its version and the writes it holds
          writer,    \* the slot that holds staging's row for its commit
          row,       \* Session -> its row of chat_sessions
          updater,   \* Session -> the slot that has updated the row
          sharers,   \* Session -> the slots that share its key
          running,   \* ChatSessionOrchestrator._running
          call,      \* Slot -> its request, or the task of its turn
          overlapped \* sessions and tokens whose requests ever overlapped

locks == <<writer, updater, sharers>>
vars == <<staging, locks, row, running, call, overlapped>>

NoRow == [status |-> "none", owner |-> Nobody, pre |-> {}, turns |-> 0]
Idle  == [pc |-> "idle", session |-> Nobody, by |-> Nobody, saw |-> 0,
          index |-> 0, copy |-> {}]

Creating == {"load", "insert"}
Ending   == {"save", "save_delete", "cancel", "cancel_write", "cancel_delete"}
Starting == {"turn", "message", "touch", "register"}
Working  == {"job", "import", "closing"}

There(s) == row[s].status \in {"active", "cancelling"}

Init ==
    /\ staging = [version |-> 1, holds |-> {}]
    /\ writer = Nobody
    /\ row = [s \in Session |-> NoRow]
    /\ updater = [s \in Session |-> Nobody]
    /\ sharers = [s \in Session |-> {}]
    /\ running = [s \in Session |-> Nobody]
    /\ call = [c \in Slot |-> Idle]
    /\ overlapped = {}

-----------------------------------------------------------------------------
(* Requests.                                                               *)

At(c, p) == call[c].pc = p
Goto(c, p) == call' = [call EXCEPT ![c].pc = p]
Answer(c) == call' = [call EXCEPT ![c] = Idle]

Mine(c) == row[call[c].session].owner = call[c].by

(* The end of c's transaction: its locks are gone.                         *)
Release(c) ==
    /\ updater' = [s \in Session |-> IF updater[s] = c THEN Nobody ELSE updater[s]]
    /\ sharers' = [s \in Session |-> sharers[s] \ {c}]
    /\ writer' = IF writer = c THEN Nobody ELSE writer

Arrive(c, pc, s, t) ==
    call' = [call EXCEPT ![c] = [Idle EXCEPT !.pc = pc, !.session = s, !.by = t]]

(* A request for the same session, or a creation by the same token, is on  *)
(* its way.                                                                *)
Busy(x) ==
    \E c \in Slot : \/ call[c].pc \in Ending \cup Starting /\ call[c].session = x
                    \/ call[c].pc \in Creating /\ call[c].by = x

(* Mutant: _running is not looked at.                                      *)
RequestUnchecked(c, pc, s, t) ==
    /\ At(c, "idle")
    /\ There(s)
    /\ pc = "turn" => row[s].turns < MaxTurns
    /\ Arrive(c, pc, s, t)
    /\ overlapped' = overlapped \cup {x \in {s} : Busy(x)}
    /\ UNCHANGED <<staging, locks, row, running>>

(* A request to save a session, to cancel it or to start a turn in it. One *)
(* for a session that is gone changes nothing, and so does one that finds  *)
(* a turn registered in memory (TURN_IN_FLIGHT). The row comes later.      *)
Request(c, pc, s, t) ==
    /\ At(c, "idle")
    /\ There(s)
    /\ running[s] = Nobody
    /\ pc = "turn" => row[s].turns < MaxTurns
    /\ Arrive(c, pc, s, t)
    /\ overlapped' = overlapped \cup {x \in {s} : Busy(x)}
    /\ UNCHANGED <<staging, locks, row, running>>

-----------------------------------------------------------------------------
(* create_session.                                                         *)

ActiveOf(t) == {s \in Session : row[s].status = "active" /\ row[s].owner = t}

(* Mutant: > instead of >=.                                                *)
CreateCountOneMore(c, s, t) ==
    /\ At(c, "idle")
    /\ row[s].status = "none"
    /\ \A d \in Slot : ~(call[d].pc \in Creating /\ call[d].session = s)
    /\ Cardinality(ActiveOf(t)) <= MaxSessions
    /\ Arrive(c, "load", s, t)
    /\ overlapped' = overlapped \cup {x \in {t} : Busy(x)}
    /\ UNCHANGED <<staging, locks, row, running>>

(* POST /chat/sessions: the count, and TOO_MANY_SESSIONS or further. The   *)
(* session's id is drawn by the INSERT.                                    *)
CreateCount(c, s, t) ==
    /\ At(c, "idle")
    /\ row[s].status = "none"
    /\ \A d \in Slot : ~(call[d].pc \in Creating /\ call[d].session = s)
    /\ Cardinality(ActiveOf(t)) < MaxSessions
    /\ Arrive(c, "load", s, t)
    /\ overlapped' = overlapped \cup {x \in {t} : Busy(x)}
    /\ UNCHANGED <<staging, locks, row, running>>

CreateLoad(c) ==
    /\ At(c, "load")
    /\ call' = [call EXCEPT ![c] = [@ EXCEPT !.pc = "insert", !.copy = staging.holds]]
    /\ UNCHANGED <<staging, locks, row, running, overlapped>>

CreateInsert(c) ==
    /\ At(c, "insert")
    /\ row' = [row EXCEPT ![call[c].session] =
                 [status |-> "active", owner |-> call[c].by,
                  pre |-> call[c].copy, turns |-> 0]]
    /\ Answer(c)
    /\ UNCHANGED <<staging, locks, running, overlapped>>

-----------------------------------------------------------------------------
(* save_session and cancel_session.                                        *)

(* UPDATE ... RETURNING: waits for another update of the row, and finds    *)
(* what that one left. Without a row, or for a stranger, the transaction   *)
(* is given up. cancel_session then loads staging for its version.         *)
Claim(c, from, next) ==
    LET s == call[c].session IN
    /\ At(c, from)
    /\ updater[s] = Nobody
    /\ IF There(s) /\ Mine(c)
         THEN /\ updater' = [updater EXCEPT ![s] = c]
              /\ call' = [call EXCEPT ![c] = [@ EXCEPT !.pc = next, !.saw = staging.version]]
         ELSE Answer(c) /\ UNCHANGED updater
    /\ UNCHANGED <<staging, writer, row, sharers, running, overlapped>>

(* DELETE and COMMIT.                                                      *)
Delete(c, how) ==
    LET s == call[c].session IN
    /\ sharers[s] \subseteq {c}
    /\ row' = [row EXCEPT ![s] = [NoRow EXCEPT !.status = how]]
    /\ Release(c)
    /\ Answer(c)

SaveDelete(c) ==
    /\ At(c, "save_delete")
    /\ Delete(c, "saved")
    /\ UNCHANGED <<staging, running, overlapped>>

(* Mutant: the stale cancel raises without ending its transaction.         *)
CancelWriteKeepsLocks(c) ==
    /\ At(c, "cancel_write")
    /\ writer = Nobody
    /\ IF staging.version = call[c].saw
         THEN /\ writer' = c
              /\ Goto(c, "cancel_delete")
         ELSE Answer(c) /\ UNCHANGED writer
    /\ UNCHANGED <<staging, row, updater, sharers, running, overlapped>>

(* Mutant: the rollback is committed before the session is deleted.        *)
CancelWriteCommits(c) ==
    /\ At(c, "cancel_write")
    /\ writer = Nobody
    /\ staging' = [version |-> staging.version + 1,
                   holds |-> row[call[c].session].pre]
    /\ Goto(c, "cancel_delete")
    /\ UNCHANGED <<locks, row, running, overlapped>>

(* RegistryStore.save takes staging's row and compares the version it      *)
(* finds with the one that was just loaded. A stale cancel is committed as *)
(* 'cancelling' and answered STALE_STAGING.                                *)
CancelWrite(c) ==
    /\ At(c, "cancel_write")
    /\ writer = Nobody
    /\ IF staging.version = call[c].saw
         THEN /\ writer' = c
              /\ Goto(c, "cancel_delete")
              /\ UNCHANGED <<row, updater, sharers>>
         ELSE /\ row' = [row EXCEPT ![call[c].session].status = "cancelling"]
              /\ Release(c)
              /\ Answer(c)
    /\ UNCHANGED <<staging, running, overlapped>>

CancelDelete(c) ==
    /\ At(c, "cancel_delete")
    /\ staging' = [version |-> staging.version + 1,
                   holds |-> row[call[c].session].pre]
    /\ Delete(c, "cancelled")
    /\ UNCHANGED <<running, overlapped>>

-----------------------------------------------------------------------------
(* start_turn, and the task that submit_turn creates for it.               *)

(* SELECT: only an active session of the caller takes a turn; the next     *)
(* turn_index is read.                                                     *)
TurnRead(c) ==
    LET s == call[c].session IN
    /\ At(c, "turn")
    /\ IF row[s].status = "active" /\ Mine(c)
         THEN call' = [call EXCEPT ![c] = [@ EXCEPT !.pc = "message", !.index = row[s].turns]]
         ELSE Answer(c)
    /\ UNCHANGED <<staging, locks, row, running, overlapped>>

(* INSERT of the user's message: refused when the session is gone.         *)
TurnMessage(c) ==
    LET s == call[c].session IN
    /\ At(c, "message")
    /\ IF There(s)
         THEN /\ sharers' = [sharers EXCEPT ![s] = @ \cup {c}]
              /\ Goto(c, "touch")
         ELSE Answer(c) /\ UNCHANGED sharers
    /\ UNCHANGED <<staging, writer, row, updater, running, overlapped>>

(* UPDATE of last_turn_at, which waits for another update, then the job,   *)
(* its uploads and COMMIT.                                                 *)
TurnCommit(c) ==
    LET s == call[c].session IN
    /\ At(c, "touch")
    /\ updater[s] = Nobody
    /\ row' = [row EXCEPT ![s].turns = IF @ > call[c].index THEN @ ELSE @ + 1]
    /\ Release(c)
    /\ Goto(c, "register")
    /\ UNCHANGED <<staging, running, overlapped>>

(* Only now the turn is in _running; the request is answered, the task     *)
(* begins.                                                                 *)
TurnRegister(c) ==
    /\ At(c, "register")
    /\ running' = [running EXCEPT ![call[c].session] = c]
    /\ Goto(c, "job")
    /\ UNCHANGED <<staging, locks, row, overlapped>>

(* The job loads staging, and at its end imports on top of exactly that.   *)
JobRead(c) ==
    /\ At(c, "job")
    /\ call' = [call EXCEPT ![c] = [@ EXCEPT !.pc = "import", !.saw = staging.version]]
    /\ UNCHANGED <<staging, locks, row, running, overlapped>>

Add(author) ==
    staging' = [version |-> staging.version + 1,
                holds |-> staging.holds \cup {<<author, staging.version + 1>>}]

JobImport(c) ==
    /\ At(c, "import")
    /\ writer = Nobody
    /\ IF call[c].saw = staging.version
         THEN Add(call[c].session) ELSE UNCHANGED staging
    /\ Goto(c, "closing")
    /\ UNCHANGED <<locks, row, running, overlapped>>

(* Mutant: the exception leaves run_turn_worker without its finally.       *)
JobFailsOut(c) ==
    /\ call[c].pc \in {"job", "import"}
    /\ Answer(c)
    /\ UNCHANGED <<staging, locks, row, running, overlapped>>

(* A job may fail, be cancelled or time out anywhere.                      *)
JobFails(c) ==
    /\ call[c].pc \in {"job", "import"}
    /\ Goto(c, "closing")
    /\ UNCHANGED <<staging, locks, row, running, overlapped>>

(* The assistant's message (without a session it raises), and, finally,    *)
(* _running.pop(session), whoever's turn is there.                         *)
TurnEnd(c) ==
    /\ At(c, "closing")
    /\ running' = [running EXCEPT ![call[c].session] = Nobody]
    /\ Answer(c)
    /\ UNCHANGED <<staging, locks, row, overlapped>>

-----------------------------------------------------------------------------
(* The database, the other writers, and restarts.                          *)

(* d shares the key of a row that c has updated and wants to delete, and   *)
(* waits to update it: PostgreSQL ends one of the two with an error.       *)
Deadlocked(c, d) ==
    /\ call[c].pc \in {"save_delete", "cancel_delete"}
    /\ At(d, "touch")
    /\ d \in sharers[call[c].session]

DeadlockVictim(c) ==
    /\ \E d \in Slot : Deadlocked(c, d) \/ Deadlocked(d, c)
    /\ Release(c)
    /\ Answer(c)
    /\ UNCHANGED <<staging, row, running, overlapped>>

Edit ==
    /\ writer = Nobody
    /\ staging.version < MaxVersion
    /\ Add(Editor)
    /\ UNCHANGED <<locks, row, running, call, overlapped>>

(* Everything in memory is lost, open transactions are rolled back.        *)
Restart ==
    /\ Restarts
    /\ writer' = Nobody
    /\ updater' = [s \in Session |-> Nobody]
    /\ sharers' = [s \in Session |-> {}]
    /\ running' = [s \in Session |-> Nobody]
    /\ call' = [c \in Slot |-> Idle]
    /\ UNCHANGED <<staging, row, overlapped>>

(* Before the server takes requests, cancel_session is called for every    *)
(* active session that has been idle long enough, here any; one that fails *)
(* is left. With nothing in memory this is one step per session.           *)
Sweep(s) ==
    /\ Restarts
    /\ \A c \in Slot : At(c, "idle")
    /\ row[s].status = "active"
    /\ staging' = [version |-> staging.version + 1, holds |-> row[s].pre]
    /\ row' = [row EXCEPT ![s] = [NoRow EXCEPT !.status = "cancelled"]]
    /\ UNCHANGED <<locks, running, call, overlapped>>

-----------------------------------------------------------------------------
Handler(c) ==
    \/ CreateLoad(c) \/ CreateInsert(c)
    \/ Claim(c, "save", "save_delete") \/ SaveDelete(c)
    \/ Claim(c, "cancel", "cancel_write") \/ CancelWrite(c) \/ CancelDelete(c)
    \/ TurnRead(c) \/ TurnMessage(c) \/ TurnCommit(c) \/ TurnRegister(c)
    \/ JobRead(c) \/ JobImport(c) \/ JobFails(c) \/ TurnEnd(c)
    \/ DeadlockVictim(c)

Next ==
    \/ \E c \in Slot, s \in Session, t \in Token :
          \/ CreateCount(c, s, t)
          \/ \E pc \in {"save", "cancel", "turn"} : Request(c, pc, s, t)
    \/ \E c \in Slot : Handler(c)
    \/ Edit \/ Restart
    \/ \E s \in Session : Sweep(s)

Spec == Init /\ [][Next]_vars

(* Handlers and tasks run; requests, edits and restarts may never come.    *)
(* PostgreSQL queues those who wait for a row: a waiter that could go on   *)
(* again and again is not passed over for ever.                            *)
FairSpec == Spec /\ \A c \in Slot : SF_vars(Handler(c))

-----------------------------------------------------------------------------
(* Properties.                                                             *)

Writes == (Session \cup {Editor}) \X Nat

(* The types; a request is for a session; who may hold the locks of its    *)
(* row.                                                                    *)
TypeOK ==
    /\ staging \in [version : Nat, holds : SUBSET Writes]
    /\ writer \in Slot \cup {Nobody}
    /\ row \in [Session -> [status : {"none", "active", "cancelling", "saved", "cancelled"},
                          owner : Token \cup {Nobody}, pre : SUBSET Writes, turns : Nat]]
    /\ running \in [Session -> Slot \cup {Nobody}]
    /\ call \in [Slot -> [pc : {"idle"} \cup Creating \cup Ending \cup Starting \cup Working,
                         session : Session \cup {Nobody}, by : Token \cup {Nobody},
                         saw : Nat, index : Nat, copy : SUBSET Writes]]
    /\ overlapped \subseteq Session \cup Token
    /\ updater \in [Session -> Slot \cup {Nobody}]
    /\ sharers \in [Session -> SUBSET Slot]
    /\ \A c \in Slot : At(c, "idle") \/ call[c].session \in Session
    /\ \A c \in Slot, s \in Session :
          /\ updater[s] = c => /\ call[c].session = s
                               /\ call[c].pc \in {"save_delete", "cancel_write", "cancel_delete"}
          /\ c \in sharers[s] => call[c].session = s /\ At(c, "touch")

TurnsOf(s) == {c \in Slot : call[c].pc \in Working /\ call[c].session = s}

(* _running is only looked at when a request arrives and only set after    *)
(* start_turn has committed. Between requests that do not overlap that is  *)
(* enough: one turn at a time, never in a session that was saved, rolled   *)
(* back or left 'cancelling', and its answer goes under its own index.     *)
SequentialCallsAreSafe ==
    \A s \in Session \ overlapped :
       /\ Cardinality(TurnsOf(s)) <= 1
       /\ \A c \in TurnsOf(s) : /\ row[s].status = "active"
                                /\ row[s].turns = call[c].index + 1

(* A session is never blocked by the mark of a turn that is no longer      *)
(* there, whichever turn of it ended first and however it ended.           *)
MarkedTurnsRun ==
    \A s \in Session : running[s] # Nobody => running[s] \in TurnsOf(s)

(* The cap on a token's sessions is a count followed by an INSERT: it      *)
(* holds while the token's creations do not overlap.                       *)
CapKept == \A t \in Token \ overlapped : Cardinality(ActiveOf(t)) <= MaxSessions

CopyFor(s) ==
    IF There(s) THEN row[s].pre
    ELSE UNION {call[c].copy : c \in {d \in Slot : At(d, "insert") /\ call[d].session = s}}

Life == INSTANCE SessionLife WITH
           life <- [s \in Session |-> row[s].status],
           copy <- [s \in Session |-> CopyFor(s)],
           kept <- staging.holds

(* Saves, cancels, deadlocks, crashes and sweeps in any order: a session   *)
(* ends once, as a whole, and only its rollback takes anything out of      *)
(* staging.                                                                *)
ImplementsLife == Life!Spec

(* No request and no turn waits for ever, also when start_turn and a save  *)
(* or cancel of the same session wait for each other's lock.               *)
CallsEnd == \A c \in Slot : ~At(c, "idle") ~> At(c, "idle")

-----------------------------------------------------------------------------
(* What the documents say and the code does not do.                        *)

(* "StaleStagingError: Raised when a Cancel rollback would clobber         *)
(* concurrent staging changes." A cancel that is answered 204 has removed  *)
(* nothing but what its own session wrote.                                 *)
CancelSparesOthers ==
    [][\A s \in Session :
          There(s) /\ row'[s].status = "cancelled" =>
             \A w \in staging.holds \ staging'.holds : w[1] = s]_vars
=============================================================================
