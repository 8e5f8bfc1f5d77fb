------------------------ MODULE IngestionJobsProofs ------------------------
(***************************************************************************)
(* Theorems about IngestionJobs, for any number of jobs and uploads and    *)
(* whatever may happen to them: what an imported job has written, that     *)
(* staging never changes behind a job's back, and which outcomes stand.    *)
(***************************************************************************)
EXTENDS IngestionJobs, SequenceTheorems, TLAPS

(* The status updates that fail a job once its files are read.             *)
LateFailures == {"timeout", "step_cap", "llm_error", "stale", "invalid"}

(* Where the save may have been committed.                                 *)
Late == {"save", "imported", "returned", "killed", "turn_timeout", "ended"}

(* A job by its row r, its task t, the versions w that it has written, and *)
(* whether cancel_ingestion_job was called for it. The versions:           *)
WritesOnce(t, w) ==
    /\ t.pc \notin Late => w = {}
    /\ t.pc = "save" => w = IF t.ok THEN {t.start + 1} ELSE {}
    /\ t.pc = "imported" => w = {t.start + 1}

(* What it says of them:                                                   *)
Candid(r, t, w, called) ==
    /\ r.status = "imported" =>
          w = {r.after} /\ t.pc \in Late \ {"save"} /\ (t.pc = "imported" => t.ok)
    /\ (t.pc = "validating" /\ t.ok) \/ t.pc = "save" \/ (t.pc = "imported" /\ ~t.ok) =>
          r.status = "validating" \/ (r.status = "cancelled" /\ called)
    /\ t.pc = "imported" /\ t.ok => r.status = "imported"
    /\ w # {} => \/ r.status \in {"validating", "imported"}
                 \/ r.status = "cancelled" /\ called
                 \/ r.error = "WALL_CLOCK_TIMEOUT" /\ r.origin = "chat"

(* And which of its outcomes the task can still touch.                     *)
Settled(r, t) ==
    /\ r.status \in Terminal => r.finished
    /\ r.status = "failed" =>
          \/ t.pc \in {"returned", "killed", "turn_timeout", "ended"}
          \/ t.pc \in LateFailures /\ t.ok
          \/ t.pc = "bad_file" /\ t.ok /\ r.error = "EXTRACTION_FAILED"
          \/ t.pc \in {"extraction_error", "cancelled"} /\ r.error = "EXTRACTION_FAILED"
    /\ t.timer \/ t.pc = "turn_timeout" => r.origin = "chat"
    /\ r.status = "absent" => t.pc = "none" /\ ~t.timer

Sane(r, t, w, called) == WritesOnce(t, w) /\ Candid(r, t, w, called) /\ Settled(r, t)

JobsInv ==
    /\ TypeOK
    /\ \A j \in Job : Sane(job[j], task[j], Imports(j), j \in told)

-----------------------------------------------------------------------------
(* Lemmas.                                                                 *)

LEMMA MarksDomain ==
  DOMAIN Marks = {"extracting", "bad_file", "extraction_error", "cancelled", "agent_running",
                  "timeout", "step_cap", "llm_error", "validating", "stale", "invalid",
                  "imported", "turn_timeout"}
BY DEF Marks

(* What the status updates write, and where they lead.                     *)
LEMMA MarksAre ==
  ASSUME NEW p \in DOMAIN Marks
  PROVE  /\ Marks[p].status \in Statuses \ {"absent", "queued"} /\ Marks[p].error \in Errors
         /\ Marks[p].next \in {"extract", "load", "save", "returned"}
         /\ Marks[p].next = "save" <=> p = "validating"
         /\ Marks[p].status = "imported" <=> p = "imported"
         /\ Marks[p].status = "validating" <=> p = "validating"
         /\ Marks[p].status = "failed" <=>
               p \in LateFailures \cup {"bad_file", "extraction_error", "turn_timeout"}
         /\ Marks[p].status = "cancelled" <=> p = "cancelled"
         /\ p \in {"bad_file", "extraction_error"} => Marks[p].error = "EXTRACTION_FAILED"
         /\ p = "turn_timeout" => Marks[p].error = "WALL_CLOCK_TIMEOUT"
<1>1. Marks[p].error \in Errors
  BY DEF Errors
<1>. QED BY <1>1, MarksDomain DEF Marks, Update, Statuses, Terminal, LateFailures

LEMMA ErrorsAre ==
  "none" \in Errors /\ \A p \in DOMAIN Marks : Marks[p].error \in Errors
<1>1. "extracting" \in DOMAIN Marks /\ Marks["extracting"].error = "none"
  BY MarksDomain DEF Marks, Update
<1>. QED BY <1>1 DEF Errors

LEMMA WrittenIs ==
  ASSUME NEW r \in JobRow, NEW p \in DOMAIN Marks
  PROVE  LET q == Written(r, Marks[p]) IN
         /\ q \in JobRow /\ q.status = Marks[p].status /\ q.origin = r.origin
         /\ q.error = IF Marks[p].error = "none" THEN r.error ELSE Marks[p].error
         /\ q.finished <=> r.finished \/ Marks[p].status \in Terminal
         /\ q.after = r.after
BY MarksAre DEF Written, JobRow

LEMMA ImportsGrow ==
  ASSUME TypeOK, NEW x \in Job \cup {Editor}, writer' = Append(writer, x), NEW j \in Job
  PROVE  Imports(j)' = IF x = j THEN Imports(j) \cup {Version + 1} ELSE Imports(j)
<1>1. /\ writer \in Seq(Job \cup {Editor}) /\ Len(writer) \in Nat
      /\ Len(writer') = Len(writer) + 1
      /\ \A v \in 1..Len(writer) : writer'[v] = writer[v]
      /\ writer'[Len(writer) + 1] = x
  BY DEF TypeOK
<1>2. 1..Len(writer') = 1..Len(writer) \cup {Len(writer) + 1}
  BY <1>1
<1>. QED BY <1>1, <1>2 DEF Imports, Version

(* Only one job is concerned.                                              *)
Apart(j) ==
    \A k \in Job \ {j} : /\ job'[k] = job[k] /\ task'[k] = task[k]
                         /\ Imports(k)' = Imports(k) /\ (k \in told' <=> k \in told)

SaneAt(j) == Sane(job[j], task[j], Imports(j), j \in told)

LEMMA Elsewhere ==
  ASSUME JobsInv, NEW j \in Job, Apart(j), SaneAt(j)'
  PROVE  \A k \in Job : SaneAt(k)'
<1>1. ASSUME NEW k \in Job \ {j} PROVE SaneAt(k)'
  BY <1>1 DEF JobsInv, Apart, SaneAt
<1>. QED BY <1>1

LEMMA GotoSets ==
  ASSUME TypeOK, NEW j \in Job, NEW p, Goto(j, p)
  PROVE  /\ task'[j].pc = p /\ ~task'[j].ok /\ task'[j].start = task[j].start
         /\ task'[j].stop = task[j].stop /\ task'[j].timer = task[j].timer
         /\ \A k \in Job \ {j} : task'[k] = task[k]
         /\ p \in Points => task' \in [Job -> TaskState]
<1>1. /\ task \in [Job -> TaskState] /\ task[j] \in TaskState
      /\ task' = [task EXCEPT ![j] = [@ EXCEPT !.pc = p, !.ok = FALSE]]
  BY DEF TypeOK, Goto
<1>2. /\ task'[j] = [task[j] EXCEPT !.pc = p, !.ok = FALSE]
      /\ \A k \in Job \ {j} : task'[k] = task[k]
  BY <1>1
<1>3. ASSUME p \in Points
      PROVE  task' \in [Job -> TaskState]
  <2>1. [task[j] EXCEPT !.pc = p, !.ok = FALSE] \in TaskState
    BY <1>1, <1>3 DEF TaskState
  <2>. QED BY <1>1, <2>1
<1>4. /\ task'[j].pc = p /\ ~task'[j].ok /\ task'[j].start = task[j].start
      /\ task'[j].stop = task[j].stop /\ task'[j].timer = task[j].timer
  BY <1>1, <1>2 DEF TaskState
<1>. QED BY <1>2, <1>3, <1>4

-----------------------------------------------------------------------------
(* Steps of a task that change nothing but the task.                       *)

Alone(j) == \A k \in Job \ {j} : task'[k] = task[k]

LEMMA Moves ==
  ASSUME JobsInv, NEW j \in Job, UNCHANGED <<Rows, told>>, running' \subseteq Job,
         task' \in [Job -> TaskState], Alone(j),
         task'[j].ok => task'[j].pc \in DOMAIN Marks \cup {"save"},
         Sane(job[j], task'[j], Imports(j), j \in told)
  PROVE  TypeOK' /\ Apart(j) /\ SaneAt(j)'
<1>1. \A k \in Job : Imports(k)' = Imports(k)
  BY DEF Rows, Imports, Version
<1>2. \A k \in Job : task'[k].ok => task'[k].pc \in DOMAIN Marks \cup {"save"}
  BY DEF JobsInv, TypeOK, Alone
<1>3. TypeOK'
  BY <1>2 DEF JobsInv, TypeOK, Rows
<1>. QED BY <1>1, <1>3 DEF Rows, Alone, Apart, SaneAt

LEMMA TaskIs ==
  ASSUME JobsInv, NEW j \in Job
  PROVE  /\ TypeOK /\ task[j] \in TaskState /\ job[j] \in JobRow
         /\ Sane(job[j], task[j], Imports(j), j \in told)
         /\ task[j].ok => task[j].pc \in DOMAIN Marks \cup {"save"}
BY DEF JobsInv, TypeOK

(* A new place, with no statement in flight.                               *)
LEMMA GotoMoves ==
  ASSUME JobsInv, NEW j \in Job, NEW p \in Points, Goto(j, p), UNCHANGED <<Rows, told>>,
         running' \subseteq Job,
         Sane(job[j], task'[j], Imports(j), j \in told)
  PROVE  TypeOK' /\ Apart(j) /\ SaneAt(j)'
<1>1. ~task'[j].ok /\ task' \in [Job -> TaskState] /\ Alone(j)
  BY TaskIs, GotoSets DEF Alone
<1>. QED BY <1>1, Moves

LEMMA BeforeTheSave ==
  ASSUME JobsInv, NEW j \in Job, Submit(j) \/ Start(j) \/ Extract(j) \/ Agent(j)
  PROVE  TypeOK' /\ Apart(j) /\ SaneAt(j)'
<1>1. PICK p \in {"created", "extracting", "agent_running", "bad_file", "extraction_error",
                  "validating", "timeout", "step_cap", "llm_error"} :
        /\ Goto(j, p) /\ UNCHANGED <<Rows, told>> /\ running' \subseteq Job
        /\ task[j].pc \in {"accepted", "created", "extract", "agent"}
  BY TaskIs DEF Submit, Start, Extract, Agent, Resumes, At, TypeOK
<1>2. p \in Points
  BY MarksDomain DEF Points
<1>3. /\ task'[j].pc = p /\ ~task'[j].ok /\ task'[j].timer = task[j].timer
  BY <1>1, TaskIs, GotoSets
<1>4. Sane(job[j], task[j], Imports(j), j \in told)
  BY TaskIs
<1>5. Imports(j) = {} /\ job[j].status \notin {"imported", "failed", "absent"}
  BY <1>1, <1>4 DEF Sane, WritesOnce, Candid, Settled, Late, LateFailures
<1>6. Sane(job[j], task'[j], Imports(j), j \in told)
  BY <1>1, <1>3, <1>4, <1>5 DEF Sane, WritesOnce, Candid, Settled, Late, LateFailures
<1>. QED BY <1>1, <1>2, <1>6, GotoMoves

LEMMA LoadMoves ==
  ASSUME JobsInv, NEW j \in Job, Load(j)
  PROVE  TypeOK' /\ Apart(j) /\ SaneAt(j)'
<1>1. /\ task \in [Job -> TaskState] /\ Version \in Nat
  BY TaskIs DEF TypeOK, Version
<1>2. task' \in [Job -> TaskState] /\ Alone(j)
      /\ task'[j].pc = "agent" /\ task'[j].ok = task[j].ok /\ task'[j].timer = task[j].timer
  <2>1. /\ task' = [task EXCEPT ![j] = [@ EXCEPT !.pc = "agent", !.start = Version]]
        /\ task[j] \in TaskState
    BY <1>1 DEF Load
  <2>2. "agent" \in Points
    BY DEF Points
  <2>3. PICK r : r = [task[j] EXCEPT !.pc = "agent", !.start = Version]
    OBVIOUS
  <2>4. r \in TaskState /\ r.pc = "agent" /\ r.ok = task[j].ok /\ r.timer = task[j].timer
    BY <1>1, <2>1, <2>2, <2>3 DEF TaskState
  <2>5. task' = [task EXCEPT ![j] = r]
    BY <2>1, <2>3
  <2>. QED BY <1>1, <2>4, <2>5 DEF Alone
<1>3. task[j].pc = "load" /\ ~task[j].ok
  BY TaskIs, MarksDomain DEF Load, Resumes, At
<1>4. Sane(job[j], task'[j], Imports(j), j \in told)
  BY <1>2, <1>3, TaskIs DEF Sane, WritesOnce, Candid, Settled, Late, LateFailures
<1>. QED BY <1>2, <1>3, <1>4, Moves, TaskIs DEF Load, TypeOK

LEMMA NextMarks ==
  \A p \in DOMAIN Marks : Marks[p].next = CASE p = "extracting" -> "extract"
                                            [] p = "agent_running" -> "load"
                                            [] p = "validating" -> "save"
                                            [] OTHER -> "returned"
BY DEF Marks, Update

LEMMA ProceedMoves ==
  ASSUME JobsInv, NEW j \in Job, Proceed(j)
  PROVE  TypeOK' /\ Apart(j) /\ SaneAt(j)'
<1> DEFINE p == IF At(j, "save") THEN "imported" ELSE Marks[task[j].pc].next
<1>1. /\ Goto(j, p) /\ UNCHANGED <<Rows, told>> /\ running' \subseteq Job
  BY TaskIs DEF Proceed, TypeOK
<1>2. task[j].ok /\ task[j].pc \in DOMAIN Marks \cup {"save"}
  BY TaskIs DEF Proceed
<1>3. \/ task[j].pc = "save" /\ p = "imported"
      \/ task[j].pc = "validating" /\ p = "save"
      \/ task[j].pc = "imported" /\ p = "returned"
      \/ task[j].pc \in {"extracting", "agent_running"} /\ p \in {"extract", "load"}
      \/ task[j].pc \in DOMAIN Marks \ {"imported"} /\ p = "returned"
  <2>1. CASE task[j].pc = "save"
    BY <2>1 DEF At
  <2>2. CASE task[j].pc \in DOMAIN Marks /\ task[j].pc # "save"
    <3>1. p = Marks[task[j].pc].next
      BY <2>2 DEF At
    <3>. QED BY <2>2, <3>1, MarksDomain, NextMarks
  <2>. QED BY <1>2, <2>1, <2>2
<1>4. p \in Points
  BY <1>3, MarksDomain DEF Points
<1> HIDE DEF p
<1>5. task'[j].pc = p /\ ~task'[j].ok /\ task'[j].start = task[j].start
      /\ task'[j].timer = task[j].timer
  BY <1>1, TaskIs, GotoSets
<1>6. Sane(job[j], task[j], Imports(j), j \in told)
  BY TaskIs
<1>7. Sane(job[j], task'[j], Imports(j), j \in told)
  <2>1. WritesOnce(task'[j], Imports(j))
    BY <1>2, <1>3, <1>5, <1>6, MarksDomain DEF Sane, WritesOnce, Late
  <2>2. Candid(job[j], task'[j], Imports(j), j \in told)
    BY <1>2, <1>3, <1>5, <1>6, MarksDomain DEF Sane, Candid, Late
  <2>3. Settled(job[j], task'[j])
    BY <1>2, <1>3, <1>5, <1>6, MarksDomain DEF Sane, Settled, LateFailures
  <2>. QED BY <2>1, <2>2, <2>3 DEF Sane
<1>. QED BY <1>1, <1>4, <1>7, GotoMoves

LEMMA SaveRefusedMoves ==
  ASSUME JobsInv, NEW j \in Job, SaveRefused(j)
  PROVE  TypeOK' /\ Apart(j) /\ SaneAt(j)'
<1>1. PICK p \in {"stale", "invalid"} :
        /\ Goto(j, p) /\ UNCHANGED <<Rows, told>> /\ running' \subseteq Job
        /\ task[j].pc = "save" /\ ~task[j].ok
  BY TaskIs DEF SaveRefused, Resumes, At, TypeOK
<1>2. p \in Points
  BY MarksDomain DEF Points
<1>3. task'[j].pc = p /\ ~task'[j].ok /\ task'[j].timer = task[j].timer
  BY <1>1, TaskIs, GotoSets
<1>4. Sane(job[j], task'[j], Imports(j), j \in told)
  BY <1>1, <1>3, TaskIs DEF Sane, WritesOnce, Candid, Settled, Late, LateFailures
<1>. QED BY <1>1, <1>2, <1>4, GotoMoves

(* CancelledError and broken connections.                                  *)
LEMMA BreaksMove ==
  ASSUME JobsInv, NEW j \in Job, Interrupted(j) \/ Fault(j)
  PROVE  TypeOK' /\ Apart(j) /\ SaneAt(j)'
<1>1. task \in [Job -> TaskState] /\ task[j] \in TaskState
  BY TaskIs DEF TypeOK
<1>2. /\ UNCHANGED <<Rows, told>> /\ running' \subseteq Job /\ Alone(j)
      /\ task' \in [Job -> TaskState]
      /\ ~task'[j].ok /\ task'[j].timer \in {task[j].timer, FALSE}
      /\ \/ task'[j].pc = "killed"
         \/ task'[j].pc = "cancelled" /\ task[j].pc \in Cancellable
         \/ task'[j].pc = "extraction_error" /\ task[j].pc \in Extracting
      /\ task[j].pc \notin Over
  <2>1. CASE Interrupted(j)
    <3>1. PICK p : p = IF task[j].pc \in Cancellable THEN "cancelled" ELSE "killed"
      OBVIOUS
    <3>2. PICK r : r = [task[j] EXCEPT !.stop = FALSE, !.ok = FALSE, !.pc = p]
      OBVIOUS
    <3>3. task' = [task EXCEPT ![j] = r]
      BY <2>1, <3>1, <3>2, Zenon DEF Interrupted
    <3>4. p \in Points
      BY <3>1, MarksDomain DEF Points
    <3>5. r \in TaskState /\ r.pc = p /\ ~r.ok /\ r.timer = task[j].timer
      BY <1>1, <3>2, <3>4 DEF TaskState
    <3>6. UNCHANGED <<Rows, told>> /\ running' \subseteq Job /\ task[j].pc \notin Over
      BY <2>1, TaskIs DEF Interrupted, TypeOK
    <3>. QED BY <1>1, <3>1, <3>3, <3>5, <3>6 DEF Alone
  <2>2. CASE Fault(j)
    <3>1. PICK p : p = IF task[j].pc \in Extracting THEN "extraction_error" ELSE "killed"
      OBVIOUS
    <3>2. PICK b \in BOOLEAN : b = (task[j].timer /\ task[j].pc \in Extracting)
      BY <1>1 DEF TaskState
    <3>3. PICK r : r = [task[j] EXCEPT !.ok = FALSE, !.pc = p, !.timer = b]
      OBVIOUS
    <3>4. task' = [task EXCEPT ![j] = r]
      BY <2>2, <3>1, <3>2, <3>3, Zenon DEF Fault
    <3>5. p \in Points
      BY <3>1, MarksDomain DEF Points
    <3>6. r \in TaskState /\ r.pc = p /\ ~r.ok /\ r.timer = b
      BY <1>1, <3>2, <3>3, <3>5 DEF TaskState
    <3>7. b \in {task[j].timer, FALSE}
      BY <1>1, <3>2 DEF TaskState
    <3>8. UNCHANGED <<Rows, told>> /\ running' \subseteq Job /\ task[j].pc \notin Over
      BY <2>2, TaskIs DEF Fault, TypeOK
    <3>. QED BY <1>1, <3>1, <3>4, <3>6, <3>7, <3>8 DEF Alone
  <2>. QED BY <2>1, <2>2
<1>3. Sane(job[j], task[j], Imports(j), j \in told)
  BY TaskIs
<1>4. Sane(job[j], task'[j], Imports(j), j \in told)
  <2>1. WritesOnce(task'[j], Imports(j))
    BY <1>2, <1>3 DEF Sane, WritesOnce, Late, Cancellable, Extracting
  <2>2. Candid(job[j], task'[j], Imports(j), j \in told)
    BY <1>2, <1>3 DEF Sane, Candid, Late, Cancellable, Extracting
  <2>3. Settled(job[j], task'[j])
    BY <1>2, <1>3 DEF Sane, Settled, LateFailures, Cancellable, Extracting, Over
  <2>. QED BY <2>1, <2>2, <2>3 DEF Sane
<1>. QED BY <1>2, <1>4, Moves

LEMMA DoneMoves ==
  ASSUME JobsInv, NEW j \in Job, Done(j)
  PROVE  TypeOK' /\ Apart(j) /\ SaneAt(j)'
<1>1. task \in [Job -> TaskState] /\ task[j] \in TaskState
      /\ task[j].pc \in {"returned", "killed"} /\ ~task[j].ok
      /\ Sane(job[j], task[j], Imports(j), j \in told)
  BY TaskIs, MarksDomain DEF TypeOK, Done
<1>2. /\ UNCHANGED <<Rows, told>> /\ running' \subseteq Job /\ Alone(j)
      /\ task' \in [Job -> TaskState] /\ ~task'[j].ok
      /\ \/ task'[j].pc = "turn_timeout" /\ task[j].timer
         \/ task'[j].pc = "ended" /\ task'[j].timer = task[j].timer
  <2>1. CASE /\ task[j].timer
             /\ task' = [task EXCEPT ![j] = [@ EXCEPT !.pc = "turn_timeout", !.timer = FALSE]]
    BY <1>1, <2>1, TaskIs, MarksDomain DEF Done, Alone, TaskState, Points, TypeOK
  <2>2. CASE Goto(j, "ended")
    <3>1. "ended" \in Points
      BY DEF Points
    <3>. QED BY <2>2, <3>1, TaskIs, GotoSets DEF Done, Alone, TypeOK
  <2>. QED BY <2>1, <2>2 DEF Done
<1>3. Sane(job[j], task'[j], Imports(j), j \in told)
  BY <1>1, <1>2 DEF Sane, WritesOnce, Candid, Settled, Late, LateFailures
<1>. QED BY <1>2, <1>3, Moves

(* The task is asked to stop, by a user or by the wall clock of its turn.  *)
LEMMA StopsMove ==
  ASSUME JobsInv, NEW j \in Job, RestCancel(j) \/ WallClock(j)
  PROVE  TypeOK' /\ Apart(j) /\ SaneAt(j)'
<1>1. task \in [Job -> TaskState] /\ task[j] \in TaskState
  BY TaskIs DEF TypeOK
<1>2. /\ UNCHANGED <<Rows, told>> /\ running' \subseteq Job /\ Alone(j)
      /\ task' \in [Job -> TaskState] /\ task'[j].ok = task[j].ok /\ task'[j].pc = task[j].pc
      /\ task'[j].start = task[j].start
      /\ \/ task'[j].timer = task[j].timer
         \/ job[j].origin = "chat" /\ task[j].pc # "none"
  <2>1. CASE RestCancel(j)
    <3>1. PICK b \in BOOLEAN : task' = [task EXCEPT ![j].stop = b]
      BY <2>1 DEF RestCancel
    <3> DEFINE s == [task[j] EXCEPT !.stop = b]
    <3>2. /\ s \in TaskState /\ s.ok = task[j].ok /\ s.pc = task[j].pc
          /\ s.start = task[j].start /\ s.timer = task[j].timer
      <4>1. CASE b = TRUE
        BY <1>1, <4>1 DEF TaskState
      <4>2. CASE b = FALSE
        BY <1>1, <4>2 DEF TaskState
      <4>. QED BY <4>1, <4>2
    <3>3. task' = [task EXCEPT ![j] = s]
      BY <3>1
    <3> HIDE DEF s
    <3>4. task' \in [Job -> TaskState] /\ task'[j] = s /\ Alone(j)
      BY <1>1, <3>2, <3>3 DEF Alone
    <3>. QED BY <2>1, <3>2, <3>4, TaskIs DEF RestCancel, TypeOK
  <2>2. CASE WallClock(j)
    BY <1>1, <2>2, TaskIs DEF WallClock, Over, Alone, TaskState, TypeOK
  <2>. QED BY <2>1, <2>2
<1>3. Sane(job[j], task'[j], Imports(j), j \in told)
  BY <1>2, TaskIs DEF Sane, WritesOnce, Candid, Settled
<1>. QED BY <1>2, <1>3, TaskIs, Moves

-----------------------------------------------------------------------------
(* Steps that write rows.                                                  *)

LEMMA RowStep ==
  ASSUME JobsInv, NEW j \in Job, writer' = writer, UNCHANGED running,
         upload' \in [Upload -> {"absent", "orphan", "deleted"} \cup Job],
         job' \in [Job -> JobRow], \A k \in Job \ {j} : job'[k] = job[k],
         task' \in [Job -> TaskState], Alone(j),
         task'[j].ok => task'[j].pc \in DOMAIN Marks \cup {"save"},
         told' \in {told, told \cup {j}},
         Sane(job'[j], task'[j], Imports(j), j \in told')
  PROVE  TypeOK' /\ Apart(j) /\ SaneAt(j)'
<1>1. \A k \in Job : Imports(k)' = Imports(k)
  BY DEF Imports, Version
<1>2. \A k \in Job : task'[k].ok => task'[k].pc \in DOMAIN Marks \cup {"save"}
  BY DEF JobsInv, TypeOK, Alone
<1>3. TypeOK'
  BY <1>2 DEF JobsInv, TypeOK
<1>. QED BY <1>1, <1>3 DEF Alone, Apart, SaneAt

LEMMA AcceptWrites ==
  ASSUME JobsInv, NEW j \in Job, NEW origin \in Origins, Accept(j, origin)
  PROVE  TypeOK' /\ Apart(j) /\ SaneAt(j)'
<1>1. /\ task \in [Job -> TaskState] /\ job \in [Job -> JobRow]
      /\ upload \in [Upload -> {"absent", "orphan", "deleted"} \cup Job]
      /\ job[j].status = "absent" /\ ~task[j].ok /\ task[j].pc = "none" /\ ~task[j].timer
      /\ Sane(job[j], task[j], Imports(j), j \in told)
  BY TaskIs, MarksDomain DEF TypeOK, Accept, Sane, Settled
<1>2. upload' \in [Upload -> {"absent", "orphan", "deleted"} \cup Job]
  BY <1>1 DEF Accept, Attach
<1>3. /\ job' \in [Job -> JobRow] /\ \A k \in Job \ {j} : job'[k] = job[k]
      /\ job'[j].status = "queued"
  <2>1. /\ job' = [job EXCEPT ![j] = [@ EXCEPT !.status = "queued", !.origin = origin]]
        /\ job[j] \in JobRow
    BY <1>1 DEF Accept
  <2>2. "queued" \in Statuses /\ origin \in Origins \cup {"none"}
    BY DEF Statuses
  <2>3. PICK r : r = [job[j] EXCEPT !.status = "queued", !.origin = origin]
    OBVIOUS
  <2>4. r \in JobRow /\ r.status = "queued"
    BY <2>1, <2>2, <2>3 DEF JobRow
  <2>5. job' = [job EXCEPT ![j] = r]
    BY <2>1, <2>3
  <2>. QED BY <1>1, <2>4, <2>5
<1>4. /\ task' \in [Job -> TaskState] /\ Alone(j) /\ ~task'[j].ok /\ ~task'[j].timer
      /\ task'[j].pc \in {"none", "accepted"}
  BY <1>1 DEF Accept, TaskState, Points, Alone
<1>5. Sane(job'[j], task'[j], Imports(j), j \in told')
  BY <1>1, <1>3, <1>4 DEF Sane, WritesOnce, Candid, Settled, Late, LateFailures, Terminal
<1>. QED BY <1>2, <1>3, <1>4, <1>5, RowStep DEF Accept

LEMMA McpCancelWrites ==
  ASSUME JobsInv, NEW j \in Job, McpCancel(j)
  PROVE  TypeOK' /\ Apart(j) /\ SaneAt(j)'
<1>1. /\ task \in [Job -> TaskState] /\ job \in [Job -> JobRow]
      /\ upload \in [Upload -> {"absent", "orphan", "deleted"} \cup Job]
      /\ Sane(job[j], task[j], Imports(j), j \in told)
  BY TaskIs DEF TypeOK
<1>2. /\ job' \in [Job -> JobRow] /\ \A k \in Job \ {j} : job'[k] = job[k]
      /\ job'[j].origin = job[j].origin /\ job'[j].error = job[j].error
      /\ \/ job'[j] = job[j]
         \/ /\ job[j].status \notin Terminal
            /\ job'[j].status = "cancelled" /\ job'[j].finished
  <2>1. CASE job[j].status \in Terminal
    BY <1>1, <2>1 DEF McpCancel
  <2>2. CASE job[j].status \notin Terminal
    <3>1. /\ job' = [job EXCEPT ![j] = [@ EXCEPT !.status = "cancelled", !.finished = TRUE]]
          /\ job[j] \in JobRow
      BY <1>1, <2>2 DEF McpCancel
    <3>2. "cancelled" \in Statuses
      BY DEF Statuses, Terminal
    <3>3. PICK r : r = [job[j] EXCEPT !.status = "cancelled", !.finished = TRUE]
      OBVIOUS
    <3>4. /\ r \in JobRow /\ r.status = "cancelled" /\ r.finished
          /\ r.origin = job[j].origin /\ r.error = job[j].error
      BY <3>1, <3>2, <3>3 DEF JobRow
    <3>5. job' = [job EXCEPT ![j] = r]
      BY <3>1, <3>3
    <3>. QED BY <1>1, <2>2, <3>4, <3>5
  <2>. QED BY <2>1, <2>2
<1>3. UNCHANGED <<writer, upload, task, running>> /\ told' = told \cup {j}
      /\ job[j].status # "absent"
  BY DEF McpCancel
<1>4. Sane(job'[j], task[j], Imports(j), TRUE)
  BY <1>1, <1>2, <1>3 DEF Sane, WritesOnce, Candid, Settled, Late, LateFailures, Terminal
<1>5. Sane(job'[j], task'[j], Imports(j), j \in told')
  BY <1>3, <1>4 DEF Sane, Candid
<1>. QED BY <1>1, <1>2, <1>3, <1>5, TaskIs, RowStep DEF Alone

LEMMA CommitWrites ==
  ASSUME JobsInv, NEW j \in Job, Commit(j)
  PROVE  TypeOK' /\ Apart(j) /\ SaneAt(j)'
<1> DEFINE p == task[j].pc
           r == job[j]
           q == job'[j]
<1>1. /\ task \in [Job -> TaskState] /\ job \in [Job -> JobRow] /\ r \in JobRow
      /\ upload \in [Upload -> {"absent", "orphan", "deleted"} \cup Job]
      /\ Sane(r, task[j], Imports(j), j \in told)
  BY TaskIs DEF TypeOK
<1>2. p \in DOMAIN Marks /\ ~task[j].ok /\ UNCHANGED <<writer, upload, running, told>>
  BY DEF Commit
<1>3. /\ task' \in [Job -> TaskState] /\ Alone(j) /\ task'[j].ok /\ task'[j].pc = p
      /\ task'[j].start = task[j].start /\ task'[j].timer = task[j].timer
  BY <1>1 DEF Commit, TaskState, Alone
<1>4. CASE p = "turn_timeout" /\ r.finished
  <2>1. job' = job
    BY <1>4 DEF Commit
  <2>2. Sane(q, task'[j], Imports(j), j \in told')
    BY <1>1, <1>2, <1>3, <1>4, <2>1 DEF Sane, WritesOnce, Candid, Settled, Late, LateFailures
  <2>. QED BY <1>1, <1>2, <1>3, <2>1, <2>2, RowStep
<1>5. CASE ~(p = "turn_timeout" /\ r.finished)
  <2> DEFINE w == Written(r, Marks[p])
  <2>1. /\ w \in JobRow /\ w.status = Marks[p].status /\ w.origin = r.origin
        /\ w.error = IF Marks[p].error = "none" THEN r.error ELSE Marks[p].error
        /\ w.finished <=> r.finished \/ Marks[p].status \in Terminal
        /\ w.after = r.after
    BY <1>1, <1>2, WrittenIs
  <2>2. job' = IF p = "imported"
                 THEN [job EXCEPT ![j] = [w EXCEPT !.after = task[j].start + 1]]
                 ELSE [job EXCEPT ![j] = w]
    BY <1>1, <1>5 DEF Commit
  <2> HIDE DEF w
  <2>3. /\ job' \in [Job -> JobRow] /\ \A k \in Job \ {j} : job'[k] = job[k]
        /\ q.status = w.status /\ q.origin = w.origin /\ q.error = w.error
        /\ q.finished = w.finished
        /\ p = "imported" => q.after = task[j].start + 1
    BY <1>1, <2>1, <2>2 DEF JobRow, TaskState
  <2>4. /\ q.status \notin {"absent", "queued"}
        /\ q.status = "imported" <=> p = "imported"
        /\ q.status = "validating" <=> p = "validating"
        /\ q.status = "failed" <=>
              p \in LateFailures \cup {"bad_file", "extraction_error", "turn_timeout"}
        /\ q.status = "cancelled" <=> p = "cancelled"
        /\ p \in {"bad_file", "extraction_error"} => q.error = "EXTRACTION_FAILED"
        /\ p = "turn_timeout" => q.error = "WALL_CLOCK_TIMEOUT"
        /\ q.status \in Terminal => q.finished
        /\ q.origin = r.origin
    BY <1>2, <2>1, <2>3, MarksAre
  <2>5. WritesOnce(task'[j], Imports(j))
    BY <1>1, <1>2, <1>3, MarksDomain DEF Sane, WritesOnce
  <2>6. Candid(q, task'[j], Imports(j), j \in told)
    BY <1>1, <1>2, <1>3, <2>3, <2>4, MarksDomain DEF Sane, WritesOnce, Candid, Settled, Late, LateFailures
  <2>7. Settled(q, task'[j])
    BY <1>1, <1>2, <1>3, <2>4, MarksDomain DEF Sane, Settled, LateFailures
  <2>8. Sane(q, task'[j], Imports(j), j \in told')
    BY <1>2, <2>5, <2>6, <2>7 DEF Sane
  <2>. QED BY <1>1, <1>2, <1>3, <2>3, <2>8, RowStep
<1>. QED BY <1>4, <1>5

(* The save.                                                               *)
LEMMA SaveWrites ==
  ASSUME JobsInv, NEW j \in Job, Save(j)
  PROVE  /\ TypeOK' /\ Apart(j) /\ SaneAt(j)'
         /\ Imports(j) = {} /\ Imports(j)' = {task[j].start + 1}
<1>1. /\ task \in [Job -> TaskState] /\ writer \in Seq(Job \cup {Editor})
      /\ Sane(job[j], task[j], Imports(j), j \in told) /\ TypeOK
  BY TaskIs DEF TypeOK
<1>2. /\ task' \in [Job -> TaskState] /\ Alone(j) /\ task'[j].ok /\ task'[j].pc = "save"
      /\ task'[j].start = task[j].start /\ task'[j].timer = task[j].timer
  BY <1>1 DEF Save, At, TaskState, Alone
<1>3. Imports(j) = {} /\ task[j].pc = "save" /\ ~task[j].ok
  BY <1>1 DEF Save, At, Sane, WritesOnce
<1>4. Imports(j)' = {task[j].start + 1}
  BY <1>1, <1>3, ImportsGrow DEF Save
<1>5. \A k \in Job \ {j} : Imports(k)' = Imports(k)
  BY <1>1, ImportsGrow DEF Save
<1>6. UNCHANGED <<upload, job, running, told>> /\ writer' \in Seq(Job \cup {Editor})
  BY <1>1 DEF Save
<1>7. TypeOK'
  BY <1>1, <1>2, <1>6 DEF TypeOK, Alone
<1>8. Sane(job[j], task'[j], Imports(j)', j \in told)
  BY <1>1, <1>2, <1>3, <1>4 DEF Sane, WritesOnce, Candid, Settled, Late, LateFailures
<1>. QED BY <1>2, <1>3, <1>4, <1>5, <1>6, <1>7, <1>8 DEF Apart, SaneAt, Alone

-----------------------------------------------------------------------------
(* The invariant and the theorems.                                         *)

LEMMA JobStep ==
  ASSUME JobsInv, NEW j \in Job, Work(j) \/ Outside(j)
  PROVE  TypeOK' /\ Apart(j) /\ SaneAt(j)'
<1>1. CASE Outside(j)
  BY <1>1, AcceptWrites, McpCancelWrites, StopsMove, BreaksMove DEF Outside
<1>. QED BY <1>1, BeforeTheSave, LoadMoves, ProceedMoves, SaveRefusedMoves, BreaksMove, DoneMoves,
            CommitWrites, SaveWrites DEF Work

LEMMA RestartStep ==
  ASSUME JobsInv, Restart
  PROVE  TypeOK' /\ \A j \in Job : SaneAt(j)'
<1>1. \A j \in Job : /\ task'[j] = [NoTask EXCEPT !.pc = IF At(j, "none") THEN "none" ELSE "ended"]
                     /\ job'[j] = job[j] /\ Imports(j)' = Imports(j)
  BY DEF Restart, Rows, Imports, Version
<1>2. ASSUME NEW j \in Job
      PROVE  /\ task'[j] \in TaskState /\ ~task'[j].ok /\ ~task'[j].timer
             /\ task'[j].pc = IF At(j, "none") THEN "none" ELSE "ended"
  <2>1. PICK p \in {"none", "ended"} :
          p = (IF At(j, "none") THEN "none" ELSE "ended") /\ task'[j] = [NoTask EXCEPT !.pc = p]
    BY <1>1
  <2>2. task'[j] = [pc |-> p, ok |-> FALSE, start |-> 0, stop |-> FALSE, timer |-> FALSE]
    BY <2>1 DEF NoTask
  <2>3. p \in Points
    BY <2>1 DEF Points
  <2>4. task'[j] \in TaskState
    BY <2>2, <2>3 DEF TaskState
  <2>. QED BY <2>1, <2>2, <2>4
<1>3. \A j \in Job : SaneAt(j)'
  <2> TAKE j \in Job
  <2>1. Sane(job[j], task[j], Imports(j), j \in told)
    BY TaskIs
  <2>2. Sane(job[j], task'[j], Imports(j), j \in told)
    BY <1>2, <2>1 DEF At, Sane, WritesOnce, Candid, Settled, Late, LateFailures
  <2>. QED BY <1>1, <2>2 DEF Restart, SaneAt
<1>4. task' \in [Job -> TaskState]
  <2>1. task' = [j \in Job |-> task'[j]]
    BY DEF Restart
  <2>. QED BY <1>2, <2>1
<1>5. TypeOK'
  BY <1>2, <1>4 DEF Restart, Rows, JobsInv, TypeOK
<1>. QED BY <1>3, <1>5

LEMMA UploadStep ==
  ASSUME JobsInv, DeleteOrphans \/ \E u \in Upload : Register(u)
  PROVE  TypeOK' /\ \A j \in Job : SaneAt(j)'
<1>1. TypeOK'
  BY DEF JobsInv, TypeOK, DeleteOrphans, Register
<1>2. UNCHANGED <<writer, job, task, told>>
  BY DEF DeleteOrphans, Register
<1>. QED BY <1>1, <1>2 DEF JobsInv, SaneAt, Imports, Version

LEMMA EditStep ==
  ASSUME JobsInv, EditStaging
  PROVE  TypeOK' /\ \A j \in Job : SaneAt(j)' /\ Imports(j)' = Imports(j)
<1>1. \A j \in Job : Imports(j)' = Imports(j)
  BY ImportsGrow, JobsAssumption DEF EditStaging, JobsInv
<1>2. TypeOK'
  BY DEF JobsInv, TypeOK, EditStaging
<1>. QED BY <1>1, <1>2 DEF JobsInv, SaneAt, EditStaging

LEMMA JobsInductive ==
  /\ Init => JobsInv
  /\ JobsInv /\ [Next]_vars => JobsInv'
<1>1. ASSUME Init PROVE JobsInv
  <2>1. NoRow \in JobRow /\ NoTask \in TaskState
    BY ErrorsAre DEF NoRow, NoTask, JobRow, TaskState, Statuses, Points
  <2>2. TypeOK
    BY <1>1, <2>1 DEF Init, TypeOK, NoTask
  <2>3. \A j \in Job : Imports(j) = {}
    BY <1>1 DEF Init, Imports, Version
  <2>4. \A j \in Job : Sane(job[j], task[j], Imports(j), j \in told)
    BY <1>1, <2>3 DEF Init, NoRow, NoTask, Sane, WritesOnce, Candid, Settled, Late, Terminal
  <2>. QED BY <2>2, <2>4 DEF JobsInv
<1>2. ASSUME JobsInv, [Next]_vars PROVE JobsInv'
  <2>1. CASE UNCHANGED vars
    BY <1>2, <2>1 DEF vars, JobsInv, TypeOK, Imports, Version
  <2>2. ASSUME NEW j \in Job, Work(j) \/ Outside(j) PROVE JobsInv'
    BY <1>2, <2>2, JobStep, Elsewhere DEF JobsInv, SaneAt
  <2>. QED BY <1>2, <2>1, <2>2, RestartStep, UploadStep, EditStep
           DEF Next, Quiet, JobsInv, SaneAt
<1>. QED BY <1>1, <1>2

(* A job that says "imported" has written the version it names and no      *)
(* other, although status and save are committed apart, and anything may   *)
(* cut the task off between them.                                          *)
THEOREM ImportedIsCommitted == Spec => []ImportedMeansCommitted
<1>1. JobsInv => ImportedMeansCommitted
  BY DEF JobsInv, Sane, Candid, ImportedMeansCommitted
<1>. QED BY <1>1, JobsInductive, PTL DEF Spec

(* A job that has changed staging says so, unless a user of /mcp cancelled *)
(* it or the wall clock of its chat turn cut it off: no failure, lost      *)
(* connection, restart or cancellation over REST hides an import.          *)
THEOREM OnlyTwoHideImports == Spec => []OnlyStopsHideImports
<1>1. JobsInv => OnlyStopsHideImports
  BY DEF JobsInv, Sane, Candid, OnlyStopsHideImports
<1>. QED BY <1>1, JobsInductive, PTL DEF Spec

(* Who writes what.                                                        *)
LEMMA OnlySavesImport ==
  ASSUME JobsInv, [Next]_vars, NEW j \in Job
  PROVE  Imports(j)' = Imports(j) \/ Save(j)
<1>1. ASSUME writer' = writer PROVE Imports(j)' = Imports(j)
  BY <1>1 DEF Imports, Version
<1>2. ASSUME NEW k \in Job \ {j}, Work(k) \/ Outside(k) PROVE Imports(j)' = Imports(j)
  BY <1>2, JobStep DEF Apart
<1>3. ASSUME Work(j) \/ Outside(j), ~Save(j) PROVE writer' = writer
  BY <1>3 DEF Work, Outside, Submit, Start, Commit, Proceed, Extract, Load, Agent, SaveRefused,
     Interrupted, Done, Accept, RestCancel, McpCancel, WallClock, Fault, Rows
<1>4. CASE EditStaging
  BY <1>4, EditStep
<1>5. CASE \/ UNCHANGED vars \/ \E u \in Upload : Register(u)
           \/ DeleteOrphans \/ Restart \/ Quiet
  BY <1>1, <1>5 DEF vars, Register, DeleteOrphans, Restart, Quiet, Rows
<1>. QED BY <1>1, <1>2, <1>3, <1>4, <1>5 DEF Next

(* No job writes staging twice, or over an edit that it has not seen: the  *)
(* version it writes follows the one that its agent started from.          *)
THEOREM ImportsAreCurrent == Spec => ImportFollowsItsRead
<1> DEFINE Follows == \A j \in Job :
                         Imports(j)' # Imports(j) => /\ Imports(j) = {}
                                                     /\ Imports(j)' = {task[j].start + 1}
<1>1. ASSUME JobsInv, [Next]_vars PROVE Follows
  BY <1>1, OnlySavesImport, SaveWrites
<1>2. JobsInv /\ [Next]_vars => [Follows]_vars
  BY <1>1
<1>. QED BY <1>2, JobsInductive, PTL DEF Spec, ImportFollowsItsRead

LEMMA OnlyCommitsTell ==
  ASSUME JobsInv, [Next]_vars, NEW j \in Job
  PROVE  \/ job'[j] = job[j] \/ Commit(j)
         \/ \E origin \in Origins : Accept(j, origin)
         \/ McpCancel(j) /\ job[j].status \notin Terminal
<1>1. ASSUME Work(j) \/ Outside(j), ~Commit(j)
      PROVE  job' = job \/ McpCancel(j) \/ \E origin \in Origins : Accept(j, origin)
  <2>1. CASE Work(j)
    BY <1>1, <2>1 DEF Work, Submit, Start, Proceed, Extract, Load, Agent, Save, SaveRefused,
       Interrupted, Done, Rows
  <2>. QED BY <1>1, <2>1 DEF Outside, RestCancel, WallClock, Fault, Rows
<1>2. ASSUME NEW k \in Job \ {j}, Work(k) \/ Outside(k) PROVE job'[j] = job[j]
  BY <1>2, JobStep DEF Apart
<1>3. McpCancel(j) /\ job[j].status \in Terminal => job' = job
  BY DEF McpCancel
<1>4. CASE \/ UNCHANGED vars \/ \E u \in Upload : Register(u)
           \/ DeleteOrphans \/ EditStaging \/ Restart \/ Quiet
  BY <1>4 DEF vars, Register, DeleteOrphans, EditStaging, Restart, Quiet, Rows
<1>. QED BY <1>1, <1>2, <1>3, <1>4 DEF Next

(* An imported job never changes again; a failed one may only be cancelled *)
(* while its task waits for the commit of the failure of a file.           *)
THEOREM OutcomesAreFinal == Spec => OutcomesStand
<1> DEFINE Stands(j) ==
              /\ job[j].status = "imported" => job'[j] = job[j]
              /\ job[j].status = "failed" =>
                   job'[j].status \in {"failed", "cancelled"}
              /\ job[j].status = "failed" /\ job'[j].status = "cancelled" =>
                   job[j].error = "EXTRACTION_FAILED"
<1>1. ASSUME JobsInv, [Next]_vars, NEW j \in Job PROVE Stands(j)
  <2>1. CASE job'[j] = job[j]
    BY <2>1
  <2>2. CASE Commit(j)
    <3>1. /\ job \in [Job -> JobRow] /\ job[j] \in JobRow
          /\ Candid(job[j], task[j], Imports(j), j \in told) /\ Settled(job[j], task[j])
      BY <1>1, TaskIs DEF TypeOK, Sane
    <3>2. task[j].pc \in DOMAIN Marks /\ ~task[j].ok
      BY <2>2 DEF Commit
    <3>3. CASE task[j].pc = "turn_timeout" /\ job[j].finished
      BY <2>2, <3>3 DEF Commit
    <3>4. CASE task[j].pc = "turn_timeout" /\ ~job[j].finished
      BY <3>1, <3>4 DEF Settled, Terminal
    <3>5. CASE task[j].pc # "turn_timeout"
      <4>1. job[j].status # "imported"
        BY <3>1, <3>2, <3>5, MarksDomain DEF Candid, Late
      <4>2. job[j].status = "failed" =>
               /\ task[j].pc \in {"extraction_error", "cancelled"}
               /\ job[j].error = "EXTRACTION_FAILED"
        BY <3>1, <3>2, <3>5, MarksDomain DEF Settled, LateFailures
      <4>3. ASSUME job[j].status = "failed"
            PROVE  job'[j].status = Marks[task[j].pc].status
        <5>1. job'[j] = Written(job[j], Marks[task[j].pc])
          BY <2>2, <3>1, <3>5, <4>2, <4>3 DEF Commit
        <5>. QED BY <3>1, <3>2, <5>1, WrittenIs
      <4>. QED BY <3>2, <4>1, <4>2, <4>3, MarksAre
    <3>. QED BY <3>3, <3>4, <3>5
  <2>3. CASE \E origin \in Origins : Accept(j, origin)
    BY <2>3 DEF Accept
  <2>4. CASE job[j].status \notin Terminal
    BY <2>4 DEF Terminal
  <2>. QED BY <1>1, <2>1, <2>2, <2>3, <2>4, OnlyCommitsTell
<1>2. JobsInv /\ [Next]_vars => [\A j \in Job : Stands(j)]_vars
  BY <1>1
<1>. QED BY <1>2, JobsInductive, PTL DEF Spec, OutcomesStand

(* An upload that a job has taken stays with it: no later submission takes *)
(* it, and no collection of orphans deletes it.                            *)
THEOREM UploadsAreKept == Spec => UploadsStay
<1> DEFINE Stay == \A u \in Upload : upload[u] \in Job => upload'[u] = upload[u]
<1>1. ASSUME JobsInv, [Next]_vars PROVE Stay
  <2>1. \A u \in Upload : upload[u] \in Job => upload[u] \notin {"absent", "orphan", "deleted"}
    BY JobsAssumption
  <2>2. upload \in [Upload -> {"absent", "orphan", "deleted"} \cup Job]
    BY <1>1 DEF JobsInv, TypeOK
  <2>3. CASE upload' = upload
    BY <2>3
  <2>4. CASE DeleteOrphans \/ \E u \in Upload : Register(u)
    BY <2>1, <2>2, <2>4 DEF DeleteOrphans, Register
  <2>5. ASSUME NEW j \in Job, NEW origin \in Origins, Accept(j, origin) PROVE Stay
    BY <2>1, <2>5 DEF Accept, Attach
  <2>6. ASSUME NEW j \in Job, Work(j) PROVE upload' = upload
    BY <2>6 DEF Work, Submit, Start, Commit, Proceed, Extract, Load, Agent, Save, SaveRefused,
       Interrupted, Done, Rows
  <2>7. ASSUME NEW j \in Job, RestCancel(j) \/ McpCancel(j) \/ WallClock(j) \/ Fault(j)
        PROVE  upload' = upload
    BY <2>7 DEF RestCancel, McpCancel, WallClock, Fault, Rows
  <2>8. CASE UNCHANGED vars \/ EditStaging \/ Restart \/ Quiet
    BY <2>8 DEF vars, EditStaging, Restart, Quiet, Rows
  <2>. QED BY <1>1, <2>3, <2>4, <2>5, <2>6, <2>7, <2>8 DEF Next, Outside
<1>2. JobsInv /\ [Next]_vars => [Stay]_vars
  BY <1>1
<1>. QED BY <1>2, JobsInductive, PTL DEF Spec, UploadsStay
=============================================================================
