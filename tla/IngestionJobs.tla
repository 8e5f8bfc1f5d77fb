---------------------------- MODULE IngestionJobs ----------------------------
(***************************************************************************)
(* Ingestion jobs: the rows of ingestion_jobs and ingestion_uploads, the   *)
(* asyncio task that runs a job, and everything that may happen to them    *)
(* meanwhile: two ways to cancel, the wall clock of a chat turn, edits of  *)
(* staging, lost database connections and restarts of the server.          *)
(*                                                                         *)
(* Each status update is a transaction of one statement. It takes effect   *)
(* at its COMMIT, and the task goes on when the answer arrives: ok is TRUE *)
(* in between. task.cancel() makes the task's next resumption raise        *)
(* CancelledError at the await where it is suspended, whether or not the   *)
(* statement it awaits has taken effect.                                   *)
(*                                                                         *)
(* Staging is reduced to who wrote each of its versions. What the agent    *)
(* makes of the files, and what the validator says, is a free choice.      *)
(***************************************************************************)
EXTENDS Naturals, Sequences, FiniteSets

CONSTANTS Job,          \* ids of jobs
          Upload,       \* ids of uploads
          Editor,       \* everyone else who writes staging
          Events,       \* what this instance lets happen to the jobs
          MaxVersion    \* bound: no edit of staging beyond this version

Origins == {"rest", "mcp", "chat"}

Event == Origins \cup {"edit", "rest_cancel", "mcp_cancel", "wall_clock",
                       "fault", "restart"}

ASSUME JobsAssumption ==
    /\ Editor \notin Job
    /\ Job \cap {"absent", "orphan", "deleted"} = {}
    /\ Events \subseteq Event
    /\ MaxVersion \in Nat

VARIABLES writer,   \* writer[v]: who wrote version v of staging
          upload,   \* Upload -> "absent", "orphan", "deleted" or its job
          job,      \* Job -> its row
          task,     \* Job -> the task that runs it
          running,  \* IngestionWorker._running
          told      \* jobs that cancel_ingestion_job was called for

vars == <<writer, upload, job, task, running, told>>

Terminal == {"imported", "failed", "cancelled"}

NoRow  == [origin |-> "none", status |-> "absent", error |-> "none",
           finished |-> FALSE, after |-> 0]
NoTask == [pc |-> "none", ok |-> FALSE, start |-> 0, stop |-> FALSE,
           timer |-> FALSE]

Init ==
    /\ writer = <<>>
    /\ upload = [u \in Upload |-> "absent"]
    /\ job = [j \in Job |-> NoRow]
    /\ task = [j \in Job |-> NoTask]
    /\ running = {}
    /\ told = {}

Version == Len(writer)

-----------------------------------------------------------------------------
(* Uploads and submission.                                                 *)

Register(u) ==
    /\ upload[u] = "absent"
    /\ upload' = [upload EXCEPT ![u] = "orphan"]
    /\ UNCHANGED <<writer, job, task, running, told>>

(* Of the orphans, those that are old enough.                              *)
DeleteOrphans ==
    /\ \E old \in SUBSET {u \in Upload : upload[u] = "orphan"} \ {{}} :
          upload' = [u \in Upload |-> IF u \in old THEN "deleted" ELSE upload[u]]
    /\ UNCHANGED <<writer, job, task, running, told>>

(* Mutant: without the condition job_id IS NULL.                           *)
AttachAny(j, ids) ==
    [u \in Upload |-> IF u \in ids /\ upload[u] \notin {"absent", "deleted"}
                        THEN j ELSE upload[u]]

(* UPDATE ... SET job_id = j WHERE id = u AND job_id IS NULL, for each id  *)
(* of the client's list: ids that match no such row are passed over. The   *)
(* rows stay locked until the commit, so the whole is atomic there.        *)
Attach(j, ids) ==
    [u \in Upload |-> IF u \in ids /\ upload[u] = "orphan" THEN j ELSE upload[u]]

(* The job's row and its uploads are committed. REST and chat go on to     *)
(* start a task, submit_ingestion_job does not.                            *)
Accept(j, origin) ==
    /\ origin \in Events
    /\ job[j].status = "absent"
    /\ \E ids \in SUBSET Upload : upload' = Attach(j, ids)
    /\ job' = [job EXCEPT ![j] = [@ EXCEPT !.status = "queued", !.origin = origin]]
    /\ task' = [task EXCEPT ![j].pc = IF origin = "mcp" THEN "none" ELSE "accepted"]
    /\ UNCHANGED <<writer, running, told>>

-----------------------------------------------------------------------------
(* run_one_job.                                                            *)

(* The status updates, by the place in the code: what is written, and what *)
(* follows once it is committed. set_status keeps an error code it is not  *)
(* given a new one for.                                                    *)
Update(status, error, next) == [status |-> status, error |-> error, next |-> next]

Marks == [
    extracting       |-> Update("extracting", "none", "extract"),
    bad_file         |-> Update("failed", "EXTRACTION_FAILED", "returned"),
    extraction_error |-> Update("failed", "EXTRACTION_FAILED", "returned"),
    cancelled        |-> Update("cancelled", "none", "returned"),
    agent_running    |-> Update("agent_running", "none", "load"),
    timeout          |-> Update("failed", "WALL_CLOCK_TIMEOUT", "returned"),
    step_cap         |-> Update("failed", "STEP_CAP_EXCEEDED", "returned"),
    llm_error        |-> Update("failed", "LLM_PROVIDER_ERROR", "returned"),
    validating       |-> Update("validating", "none", "save"),
    stale            |-> Update("failed", "STALE_VERSION", "returned"),
    invalid          |-> Update("failed", "VALIDATION_FAILED", "returned"),
    imported         |-> Update("imported", "none", "returned"),
    turn_timeout     |-> Update("failed", "WALL_CLOCK_TIMEOUT", "returned")]

At(j, p) == task[j].pc = p

(* The task is resumed with a result, not with CancelledError.             *)
Resumes(j, p) == At(j, p) /\ ~task[j].stop

Goto(j, p) == task' = [task EXCEPT ![j] = [@ EXCEPT !.pc = p, !.ok = FALSE]]

Rows == <<writer, upload, job>>

(* IngestionWorker.submit or create_task(run_turn_worker).                 *)
Submit(j) ==
    /\ At(j, "accepted")
    /\ Goto(j, "created")
    /\ running' = IF job[j].origin = "rest" THEN running \cup {j} ELSE running
    /\ UNCHANGED <<Rows, told>>

(* The task's first step: nothing of run_one_job ran before it.            *)
Start(j) ==
    /\ Resumes(j, "created")
    /\ Goto(j, "extracting")
    /\ UNCHANGED <<Rows, running, told>>

Written(row, u) ==
    [row EXCEPT !.status = u.status,
                !.error = IF u.error = "none" THEN @ ELSE u.error,
                !.finished = @ \/ u.status \in Terminal]

(* store.set_status, or the orchestrator's own UPDATE after a time-out,    *)
(* which leaves a finished job alone.                                      *)
Commit(j) ==
    LET p == task[j].pc IN
    /\ p \in DOMAIN Marks
    /\ ~task[j].ok
    /\ task' = [task EXCEPT ![j].ok = TRUE]
    /\ job' = CASE p = "turn_timeout" /\ job[j].finished -> job
                [] p = "imported" ->
                     [job EXCEPT ![j] = [Written(@, Marks[p]) EXCEPT
                                           !.after = task[j].start + 1]]
                [] OTHER -> [job EXCEPT ![j] = Written(@, Marks[p])]
    /\ UNCHANGED <<writer, upload, running, told>>

(* The answer to the commit.                                               *)
Proceed(j) ==
    /\ task[j].ok
    /\ ~task[j].stop
    /\ Goto(j, IF At(j, "save") THEN "imported" ELSE Marks[task[j].pc].next)
    /\ UNCHANGED <<Rows, running, told>>

(* The extractors read the files; one of them may fail, or something else. *)
Extract(j) ==
    /\ Resumes(j, "extract")
    /\ \E p \in {"agent_running", "bad_file", "extraction_error"} : Goto(j, p)
    /\ UNCHANGED <<Rows, running, told>>

Load(j) ==
    /\ Resumes(j, "load")
    /\ task' = [task EXCEPT ![j] = [@ EXCEPT !.pc = "agent", !.start = Version]]
    /\ UNCHANGED <<Rows, running, told>>

(* run_agent under its own wall clock. No caller passes a cancellation     *)
(* token, so the loop itself never stops early.                            *)
Agent(j) ==
    /\ Resumes(j, "agent")
    /\ \E p \in {"validating", "timeout", "step_cap", "llm_error"} : Goto(j, p)
    /\ UNCHANGED <<Rows, running, told>>

(* Mutant: the version is read again before the save.                      *)
SaveRereads(j) ==
    /\ At(j, "save")
    /\ ~task[j].ok
    /\ writer' = Append(writer, j)
    /\ task' = [task EXCEPT ![j].ok = TRUE]
    /\ UNCHANGED <<upload, job, running, told>>

(* Mutant: the session is closed without commit.                           *)
SaveUncommitted(j) ==
    /\ At(j, "save")
    /\ ~task[j].ok
    /\ Version = task[j].start
    /\ task' = [task EXCEPT ![j].ok = TRUE]
    /\ UNCHANGED <<writer, upload, job, running, told>>

(* import_into_registry and RegistryStore.save, on the version loaded.     *)
Save(j) ==
    /\ At(j, "save")
    /\ ~task[j].ok
    /\ Version = task[j].start
    /\ writer' = Append(writer, j)
    /\ task' = [task EXCEPT ![j].ok = TRUE]
    /\ UNCHANGED <<upload, job, running, told>>

SaveRefused(j) ==
    /\ Resumes(j, "save")
    /\ ~task[j].ok
    /\ \/ Version # task[j].start /\ Goto(j, "stale")
       \/ Goto(j, "invalid")
    /\ UNCHANGED <<Rows, running, told>>

-----------------------------------------------------------------------------
(* Exceptions.                                                             *)

(* The try blocks that catch CancelledError.                               *)
Extracting == {"extracting", "extract", "bad_file"}

(* Mutant: the try block of the save also catches it.                      *)
CancellableSave == Extracting \cup {"agent", "save"}

Cancellable == Extracting \cup {"agent"}

(* The run is over: run_one_job returned or raised.                        *)
Over == {"none", "accepted", "returned", "killed", "ended"}

(* CancelledError where the task is suspended.                             *)
Interrupted(j) ==
    /\ task[j].stop
    /\ task[j].pc \notin Over
    /\ task' = [task EXCEPT ![j] =
                  [@ EXCEPT !.stop = FALSE, !.ok = FALSE,
                            !.pc = IF task[j].pc \in Cancellable THEN "cancelled" ELSE "killed"]]
    /\ UNCHANGED <<Rows, running, told>>

(* A statement fails, its effect lost or not: the database connection is   *)
(* gone. Only the first try block catches it; what leaves run_one_job is   *)
(* then no TimeoutError, even if the wall clock had run out before.        *)
Fault(j) ==
    /\ "fault" \in Events
    /\ ~task[j].stop
    /\ task[j].pc \notin Over \cup {"created", "agent"}
    /\ task' = [task EXCEPT ![j] =
                  [@ EXCEPT !.ok = FALSE,
                            !.pc = IF task[j].pc \in Extracting THEN "extraction_error" ELSE "killed",
                            !.timer = task[j].timer /\ task[j].pc \in Extracting]]
    /\ UNCHANGED <<Rows, running, told>>

(* Mutant: a job stopped by the turn's wall clock is left as it is.        *)
DoneIgnoresTimer(j) ==
    /\ task[j].pc \in {"returned", "killed"}
    /\ Goto(j, "ended")
    /\ running' = running \ {j}
    /\ UNCHANGED <<Rows, told>>

(* What the callers of run_one_job make of its end. wait_for turns a       *)
(* CancelledError that came out into TimeoutError; when run_one_job caught *)
(* it and returned, there is none.                                         *)
Done(j) ==
    /\ task[j].pc \in {"returned", "killed"}
    /\ \/ /\ At(j, "killed") /\ task[j].timer
          /\ task' = [task EXCEPT ![j] = [@ EXCEPT !.pc = "turn_timeout", !.timer = FALSE]]
          /\ UNCHANGED running
       \/ /\ ~(At(j, "killed") /\ task[j].timer)
          /\ Goto(j, "ended")
          /\ running' = running \ {j}
    /\ UNCHANGED <<Rows, told>>

-----------------------------------------------------------------------------
(* What happens to a job from outside.                                     *)

(* POST .../jobs/{id}:cancel. A task stays in _running until its callback  *)
(* runs, and cancel() on a task that is over does nothing.                 *)
RestCancel(j) ==
    /\ "rest_cancel" \in Events
    /\ j \in running
    /\ task' = [task EXCEPT ![j].stop = task[j].pc \notin Over]
    /\ UNCHANGED <<Rows, running, told>>

(* Mutant: without the condition on the status.                            *)
McpCancelAny(j) ==
    /\ "mcp_cancel" \in Events
    /\ job[j].status # "absent"
    /\ job' = [job EXCEPT ![j] = [@ EXCEPT !.status = "cancelled", !.finished = TRUE]]
    /\ told' = told \cup {j}
    /\ UNCHANGED <<writer, upload, task, running>>

(* cancel_ingestion_job: one UPDATE, and the same answer whatever it did.  *)
McpCancel(j) ==
    /\ "mcp_cancel" \in Events
    /\ job[j].status # "absent"
    /\ job' = IF job[j].status \in Terminal THEN job
              ELSE [job EXCEPT ![j] = [@ EXCEPT !.status = "cancelled", !.finished = TRUE]]
    /\ told' = told \cup {j}
    /\ UNCHANGED <<writer, upload, task, running>>

(* chat_turn_max_wall_clock_s runs out: wait_for cancels, once.            *)
WallClock(j) ==
    /\ "wall_clock" \in Events
    /\ job[j].origin = "chat"
    /\ task[j].pc \notin Over \cup {"created", "turn_timeout"}
    /\ ~task[j].timer
    /\ task' = [task EXCEPT ![j] = [@ EXCEPT !.stop = TRUE, !.timer = TRUE]]
    /\ UNCHANGED <<Rows, running, told>>

EditStaging ==
    /\ "edit" \in Events
    /\ Version < MaxVersion
    /\ writer' = Append(writer, Editor)
    /\ UNCHANGED <<upload, job, task, running, told>>

(* Nothing but the database survives, and no start-up code looks at jobs.  *)
Restart ==
    /\ "restart" \in Events
    /\ task' = [j \in Job |-> [NoTask EXCEPT !.pc = IF At(j, "none") THEN "none" ELSE "ended"]]
    /\ running' = {}
    /\ UNCHANGED <<Rows, told>>

-----------------------------------------------------------------------------
(* The steps that the event loop and the database take by themselves.      *)
Work(j) == \/ Submit(j) \/ Start(j) \/ Commit(j) \/ Proceed(j) \/ Extract(j)
           \/ Load(j) \/ Agent(j) \/ Save(j) \/ SaveRefused(j)
           \/ Interrupted(j) \/ Done(j)

Outside(j) == \/ \E origin \in Origins : Accept(j, origin)
              \/ RestCancel(j) \/ McpCancel(j) \/ WallClock(j) \/ Fault(j)

(* No task is running: the server waits for requests.                      *)
Quiet == (\A j \in Job : task[j].pc \in {"none", "ended"}) /\ UNCHANGED vars

Next == \/ \E j \in Job : Work(j) \/ Outside(j)
        \/ \E u \in Upload : Register(u)
        \/ DeleteOrphans \/ EditStaging \/ Restart \/ Quiet

Spec == Init /\ [][Next]_vars

(* The event loop resumes every task whose await is answered, the database *)
(* answers, extractors end, and the agent is under a wall clock.           *)
FairSpec == Spec /\ \A j \in Job : WF_vars(Work(j))
-----------------------------------------------------------------------------
(* Properties.                                                             *)

Statuses == Terminal \cup {"absent", "queued", "extracting", "agent_running",
                           "validating"}

Errors == {Marks[p].error : p \in DOMAIN Marks}

Points == DOMAIN Marks \cup {"none", "accepted", "created", "extract", "load",
                             "agent", "save", "returned", "killed", "ended"}

JobRow == [origin : Origins \cup {"none"}, status : Statuses, error : Errors,
           finished : BOOLEAN, after : Nat]

TaskState == [pc : Points, ok : BOOLEAN, start : Nat, stop : BOOLEAN,
              timer : BOOLEAN]

(* Type correctness. A statement in flight belongs to a status update or   *)
(* to the save, so that every answer has somewhere to go.                  *)
TypeOK ==
    /\ writer \in Seq(Job \cup {Editor})
    /\ upload \in [Upload -> {"absent", "orphan", "deleted"} \cup Job]
    /\ job \in [Job -> JobRow]
    /\ task \in [Job -> TaskState]
    /\ \A j \in Job : task[j].ok => task[j].pc \in DOMAIN Marks \cup {"save"}
    /\ running \subseteq Job
    /\ told \subseteq Job

Imports(j) == {v \in 1..Version : writer[v] = j}

(* A job that says "imported" names the one version of staging it wrote:   *)
(* the status, set in a later transaction than the save, never gets ahead  *)
(* of it, whatever cancellations, faults and restarts fell in between.     *)
ImportedMeansCommitted ==
    /\ TypeOK
    /\ \A j \in Job : job[j].status = "imported" => Imports(j) = {job[j].after}

(* Where a row does not admit that its job wrote staging: it says imported *)
(* or, on its way there or dead, validating, unless one of two things      *)
(* overtook it. One is cancel_ingestion_job, which does not look at the    *)
(* worker; the other the wall clock of its chat turn, between the save and *)
(* the last update. No failure that the worker reports, no cancellation    *)
(* over REST and no lost connection or restart hides an import. That there *)
(* are two exceptions contradicts what the design says of cancellation     *)
(* (CancelledLeavesStaging) and of turn_error.                             *)
OnlyStopsHideImports ==
    \A j \in Job : Imports(j) # {} =>
        \/ job[j].status \in {"validating", "imported"}
        \/ job[j].status = "cancelled" /\ j \in told
        \/ job[j].error = "WALL_CLOCK_TIMEOUT" /\ job[j].origin = "chat"

(* What the design says of cancellation, and the code does not keep:       *)
(* "staging is unchanged regardless of where in the pipeline the           *)
(* cancellation lands".                                                    *)
CancelledLeavesStaging ==
    \A j \in Job : job[j].status = "cancelled" => Imports(j) = {}

(* No job writes staging twice or over an edit it has not seen: the        *)
(* version it writes directly follows the one its agent started from.      *)
ImportFollowsItsRead ==
    [][\A j \in Job :
          Imports(j)' # Imports(j) => /\ Imports(j) = {}
                                      /\ Imports(j)' = {task[j].start + 1}]_vars

(* "Already-imported or failed jobs cannot be cancelled": nothing changes  *)
(* an imported job any more. A failed one may still become "cancelled" if  *)
(* the task is cancelled while it waits for the commit of the failure of a *)
(* file, and nothing else; only a cancelled one may be overwritten.        *)
OutcomesStand ==
    [][\A j \in Job :
          /\ job[j].status = "imported" => job'[j] = job[j]
          /\ job[j].status = "failed" =>
               job'[j].status \in {"failed", "cancelled"}
          /\ job[j].status = "failed" /\ job'[j].status = "cancelled" =>
               job[j].error = "EXTRACTION_FAILED"]_vars

(* An upload that a job has taken stays with it: two submissions that name *)
(* the same upload do not take it from each other, and the collection of   *)
(* orphans does not delete it.                                             *)
UploadsStay ==
    [][\A u \in Upload : upload[u] \in Job => upload'[u] = upload[u]]_vars

(* Every job that got a task ends in a terminal status, also when a chat   *)
(* turn's wall clock cuts it off, as long as nobody cancels it and no      *)
(* server or connection dies.                                              *)
JobsEnd ==
    \A j \in Job : job[j].status # "absent" ~> job[j].status \in Terminal
=============================================================================
