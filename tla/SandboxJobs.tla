----------------------------- MODULE SandboxJobs -----------------------------
(***************************************************************************)
(* service/sandbox/async_jobs.py, core/sandbox/command_jobs.py and the     *)
(* command executor of service/sandbox/commands.py: the asynchronous       *)
(* commands that one Agent Run starts in its sandbox container, and the    *)
(* command runtime that executes them under a runtime lease.               *)
(*                                                                         *)
(* The lease is used as FencedResource promises it, and RuntimeLease       *)
(* provides it: one acquisition at a time owns the row, an acquisition     *)
(* that lost it never owns it again, and a transaction that asserts it     *)
(* fails from then on.  A process that acquires again is another Owner.    *)
(* The Run is reduced to what its supervisor does to it here (AgentRuns    *)
(* models that supervisor).  A transaction is one step; Docker calls and   *)
(* the worker threads that make them take steps of their own.              *)
(***************************************************************************)
EXTENDS Naturals, FiniteSets

CONSTANTS
    Job,         \* commands the Run may start
    NoJob,
    Owner,       \* acquisitions of the "sandbox-command-runtime" lease
    Nobody,
    Mortal,      \* acquisitions whose process may crash or shut down
    Faults,      \* which faults happen, see FaultsAssumption
    BatchLimit,  \* max_sandbox_commands_per_batch
    Capacity,    \* max_concurrent_sandbox_jobs
    MaxAttempt   \* bound on the Attempts of the Run, for TLC

ASSUME JobAssumption == NoJob \notin Job /\ Nobody \notin Owner
ASSUME MortalAssumption == Mortal \subseteq Owner
ASSUME LimitAssumption ==
    BatchLimit \in Nat \ {0} /\ Capacity \in Nat \ {0} /\ MaxAttempt \in Nat

\* overlap: an acquisition loses its lease while its process still works;
\* db_error: a transaction fails; inspect_error: a status check fails although the
\* container runs; kill_fails: a termination call fails; late_launch: exec_start
\* takes effect after the termination script gave up waiting for the marker, or
\* after a restart of the container;
\* recancel: the driver is stopped while a task is still terminating its command.
ASSUME FaultsAssumption ==
    Faults \subseteq {"overlap", "db_error", "inspect_error", "kill_fails",
                      "late_launch", "recancel"}

VARIABLES
    run,        \* the owning AgentRun, its open Attempt and context.wait_reference_id
    job,        \* sandbox_async_jobs
    container,  \* the container of the Run's binding: Docker's state and our row
    command,    \* per job: its process in the container
    task,       \* per job: _execute_owned_job, in the process of the job's owner
    late,       \* jobs whose worker thread is inside exec_start, unattended
    holder,     \* the acquisition that owns the lease
    driver      \* per acquisition: where _runtime_loop is

vars == <<run, job, container, command, task, late, holder, driver>>
hostVars == <<container, command, late>>

Settled == {"completed", "failed", "canceled", "recovery_required"}
Deliverable == {"completed", "failed", "canceled"}
JobStatus == {"absent", "queued", "running"} \cup Settled

\* "suspended" and "resumed": WAITING for, and QUEUED by, a tool recovery.
RunStatus == {"queued", "running", "waiting", "suspended", "resumed", "ended"}

Phase == {"none", "starting", "launching", "executing", "returned", "killing",
          "aborting", "failing"}
Stage == {"out", "acquired", "recovering", "killing", "marking", "serving",
          "canceling", "stopping", "done"}

\* ending: the commands of the Run have been cancelled, and it is about to end.
RunRow == [status : RunStatus, attempt : Nat, wait : Nat, ending : BOOLEAN]

JobRow == [status : JobStatus, attempt : Nat, owner : Owner \cup {Nobody},
           cancel : BOOLEAN, disposition : {"none", "delivered", "discarded"}]

\* todo, current, verdict: the jobs a driver still has to go through, the one it is
\* at, and what _recover_stale_jobs will make of it.
Driver == [stage : Stage, todo : SUBSET Job, current : Job \cup {NoJob},
           verdict : {"failed", "recovery_required"}]

TypeOK ==
    /\ run \in RunRow
    /\ job \in [Job -> JobRow]
    /\ container \in [up : BOOLEAN, status : {"running", "down"}, generation : {1, 2}]
    /\ command \in [Job -> {"none", "alive", "ended"}]
    /\ task \in [Job -> Phase]
    /\ late \subseteq Job
    /\ holder \in Owner \cup {Nobody}
    /\ driver \in [Owner -> Driver]

Init ==
    /\ run = [status |-> "queued", attempt |-> 0, wait |-> 0, ending |-> FALSE]
    /\ job = [j \in Job |->
                [status |-> "absent", attempt |-> 0, owner |-> Nobody,
                 cancel |-> FALSE, disposition |-> "none"]]
    /\ container = [up |-> TRUE, status |-> "running", generation |-> 1]
    /\ command = [j \in Job |-> "none"]
    /\ task = [j \in Job |-> "none"]
    /\ late = {}
    /\ holder = Nobody
    /\ driver = [o \in Owner |->
                   [stage |-> "out", todo |-> {}, current |-> NoJob,
                    verdict |-> "failed"]]

-----------------------------------------------------------------------------
(* Rows.                                                                   *)

\* The generation that the Run and its jobs are bound to is 1; 2 is any later one.
Current == container.status = "running" /\ container.generation = 1

Undelivered == {j \in Job : job[j].status # "absent" /\ job[j].disposition = "none"}

\* The batch that the Run waits for.
Batch == {j \in Undelivered : job[j].attempt = run.wait}

AwaitsJobs == run.status = "waiting"

\* _finish_locked_job, for every job of J
Settle(J, status) ==
    [j \in Job |-> IF j \in J THEN [job[j] EXCEPT !.status = status] ELSE job[j]]

\* discard_pending_job_continuations
Discard ==
    [j \in Job |-> IF j \in Undelivered
                   THEN [job[j] EXCEPT !.disposition = "discarded"] ELSE job[j]]

\* _request_cancellation: a queued job ends at once.
RequestCancellation(J) ==
    [j \in Job |->
       CASE j \in J /\ job[j].status = "queued" ->
              [job[j] EXCEPT !.cancel = TRUE, !.status = "canceled"]
         [] j \in J /\ job[j].status = "running" -> [job[j] EXCEPT !.cancel = TRUE]
         [] OTHER -> job[j]]

\* _queue_job_continuation, for the jobs as they are in rows
QueueContinuation(rows) ==
    /\ job' = [j \in Job |-> IF j \in Batch
                             THEN [rows[j] EXCEPT !.disposition = "delivered"]
                             ELSE rows[j]]
    /\ run' = [run EXCEPT !.status = "queued", !.wait = 0]

-----------------------------------------------------------------------------
(* The Run, its agent and its operator.                                    *)

\* _claim and _build_context: a batch that an earlier Attempt left behind becomes
\* the wait of this one.
StartAttempt ==
    /\ run.status \in {"queued", "resumed"}
    /\ ~run.ending
    /\ run.attempt < MaxAttempt
    /\ \A j \in Job : job[j].status # "recovery_required"
    /\ \E w \in 0..run.attempt :
          /\ {job[j].attempt : j \in Undelivered} = {w} \ {0}
          /\ run' = [run EXCEPT !.status = "running", !.attempt = @ + 1, !.wait = w]
    /\ UNCHANGED <<job, hostVars, task, holder, driver>>

\* execute_async_command: the agent's turn may dispatch commands and then ends in a wait for
\* them; one that found an earlier batch to wait for never gets as far as a tool.
MayDispatch == run.status = "running" /\ run.wait \in {0, run.attempt}

\* create_async_job
CreateJob(j) ==
    /\ MayDispatch
    /\ job[j].status = "absent"
    /\ Current
    /\ \A i \in Undelivered : job[i].attempt = run.attempt
    /\ Cardinality(Undelivered) < BatchLimit
    /\ job' = [job EXCEPT ![j].status = "queued", ![j].attempt = run.attempt]
    /\ run' = [run EXCEPT !.wait = run.attempt]
    /\ UNCHANGED <<hostVars, task, holder, driver>>

\* cancel_sandbox_async_job, called by the agent in its turn
CancelJob(j) ==
    /\ run.status = "running"
    /\ job[j].status \in {"queued", "running"}
    /\ job' = RequestCancellation({j})
    /\ UNCHANGED <<run, hostVars, task, holder, driver>>

\* _finish_run: the Run waits for its batch, or ends and discards what it is owed.
FinishAttempt ==
    /\ run.status = "running"
    /\ ~run.ending
    /\ \/ /\ run.wait # 0
          /\ run' = [run EXCEPT !.status = "waiting"]
          /\ UNCHANGED job
       \/ /\ run.wait = 0
          /\ run' = [run EXCEPT !.status = "ended"]
          /\ job' = Discard
    /\ UNCHANGED <<hostVars, task, holder, driver>>

\* _requeue_interrupted_run, after a shutdown, a lost lease or a crash; whatever
\* the Run was about to do to its jobs is forgotten.
InterruptAttempt ==
    /\ run.status = "running"
    /\ run' = [run EXCEPT !.status = "queued", !.wait = 0, !.ending = FALSE]
    /\ UNCHANGED <<job, hostVars, task, holder, driver>>

\* _fail_run, _wait_for_tool_recovery and _cancel_persisted_run first cancel the
\* commands of the Run, in a transaction of their own,
CancelRunJobs ==
    /\ run.status # "ended"
    /\ ~run.ending
    /\ job' = RequestCancellation(Job)
    /\ run' = [run EXCEPT !.ending = TRUE]
    /\ UNCHANGED <<hostVars, task, holder, driver>>

\* and then end or suspend it.
EndRun ==
    /\ run.ending
    /\ \E status \in {"ended"} \cup (IF run.status = "running" THEN {"suspended"} ELSE {}) :
          run' = [run EXCEPT !.status = status, !.wait = 0, !.ending = FALSE]
    /\ job' = Discard
    /\ UNCHANGED <<hostVars, task, holder, driver>>

\* The supervisor stops between the two; a cancellation command will be repeated.
AbandonEnding ==
    /\ run.ending
    /\ run.status # "running"
    /\ run' = [run EXCEPT !.ending = FALSE]
    /\ UNCHANGED <<job, hostVars, task, holder, driver>>

\* resolve_invocation queues a suspended Run again.
ResumeRun ==
    /\ run.status = "suspended"
    /\ ~run.ending
    /\ run' = [run EXCEPT !.status = "resumed"]
    /\ UNCHANGED <<job, hostVars, task, holder, driver>>

\* resolve_recovery_required_job: an operator confirms what is true, that the
\* command has terminated.
ResolveJob(j) ==
    LET rows == Settle({j}, "failed") IN
    /\ run.status \notin {"running", "queued"}
    /\ job[j].status = "recovery_required"
    /\ command[j] # "alive" /\ j \notin late
    /\ IF AwaitsJobs /\ Batch # {} /\ \A i \in Batch : rows[i].status \in Deliverable
       THEN QueueContinuation(rows)
       ELSE job' = rows /\ UNCHANGED run
    /\ UNCHANGED <<hostVars, task, holder, driver>>

-----------------------------------------------------------------------------
(* The container, which may stop and start behind our back, and the        *)
(* status monitor that writes what it sees.                                *)

ContainerStops ==
    /\ container.up
    /\ container' = [container EXCEPT !.up = FALSE]
    /\ command' = [j \in Job |-> IF command[j] = "alive" THEN "ended" ELSE command[j]]
    /\ UNCHANGED <<run, job, task, late, holder, driver>>

ContainerStarts ==
    /\ ~container.up
    /\ "late_launch" \in Faults \/ \A j \in Job : task[j] # "launching"
    /\ container' = [container EXCEPT !.up = TRUE]
    /\ UNCHANGED <<run, job, command, task, late, holder, driver>>

\* save_sandbox_container_status: a row that becomes RUNNING is a new generation.
ObserveStatus ==
    /\ (container.status = "running") # container.up
    /\ container' = IF container.up
                    THEN [container EXCEPT !.status = "running", !.generation = 2]
                    ELSE [container EXCEPT !.status = "down"]
    /\ UNCHANGED <<run, job, command, task, late, holder, driver>>

\* A failed inspection counts as a stopped container.
InspectFails ==
    /\ "inspect_error" \in Faults
    /\ container.status = "running"
    /\ container' = [container EXCEPT !.status = "down"]
    /\ UNCHANGED <<run, job, command, task, late, holder, driver>>

\* The process of a command ends by itself.
CommandEnds(j) ==
    /\ command[j] = "alive"
    /\ command' = [command EXCEPT ![j] = "ended"]
    /\ UNCHANGED <<run, job, container, task, late, holder, driver>>

-----------------------------------------------------------------------------
(* The task of a claimed job: _execute_owned_job down to the worker thread *)
(* that talks to Docker.                                                   *)

Owns(o) == holder = o

RowIsOwned(o, j) == job[j].status = "running" /\ job[j].owner = o

\* finish_owned_job: a settled job is left alone.
FinishOwned(o, j, status) ==
    job' = IF RowIsOwned(o, j) THEN Settle({j}, status) ELSE job

\* assert_owned, then the checks of execute_sandbox_container_command; an
\* inspection that finds the container gone also writes the row.
StartTask(j) ==
    /\ task[j] = "starting"
    /\ \/ /\ ~Owns(job[j].owner)
          /\ task' = [task EXCEPT ![j] = "none"]
          /\ UNCHANGED container
       \/ /\ Owns(job[j].owner)
          /\ Current /\ container.up
          /\ task' = [task EXCEPT ![j] = "launching"]
          /\ UNCHANGED container
       \/ /\ Owns(job[j].owner)
          /\ ~(Current /\ container.up)
          /\ task' = [task EXCEPT ![j] = "failing"]
          /\ container' = IF Current THEN [container EXCEPT !.status = "down"]
                                     ELSE container
    /\ UNCHANGED <<run, job, command, late, holder, driver>>

\* exec_start in the worker thread
Launch(j) ==
    /\ task[j] = "launching"
    /\ IF container.up
       THEN /\ command' = [command EXCEPT ![j] = "alive"]
            /\ task' = [task EXCEPT ![j] = "executing"]
       ELSE /\ task' = [task EXCEPT ![j] = "killing"]
            /\ UNCHANGED command
    /\ UNCHANGED <<run, job, container, late, holder, driver>>

\* An exec_start that was under way when its task gave up.
LateLaunch(j) ==
    /\ j \in late
    /\ container.up
    /\ command' = [command EXCEPT ![j] = "alive"]
    /\ late' = late \ {j}
    /\ UNCHANGED <<run, job, container, task, holder, driver>>

CommandReturns(j) ==
    /\ task[j] = "executing"
    /\ command[j] = "ended"
    /\ task' = [task EXCEPT ![j] = "returned"]
    /\ UNCHANGED <<run, job, hostVars, holder, driver>>

\* timeout_seconds passed, or the stream broke.
Timeout(j) ==
    /\ task[j] \in {"launching", "executing"}
    /\ task' = [task EXCEPT ![j] = "killing"]
    /\ UNCHANGED <<run, job, hostVars, holder, driver>>

\* The marker file names the process of a command from its start to its end.
HasMarker(j) == command[j] = "alive"

\* The termination script waits for the marker for a while and kills what it names.
Terminated(j) == [command EXCEPT ![j] = IF HasMarker(j) THEN "ended" ELSE @]

\* _terminate_container_command by the task itself.  A command that has no marker
\* yet is not found by the script; its thread checks the cancel flag before, not
\* during, exec_start.  A failed termination surfaces as the RuntimeError that
\* execute_sandbox_container_command makes of every other exception.
Kill(j) ==
    /\ task[j] \in {"killing", "aborting"}
    /\ \/ /\ command' = Terminated(j)
          /\ task' = [task EXCEPT ![j] = IF @ = "killing" THEN "failing" ELSE "none"]
          /\ \/ UNCHANGED late
             \/ /\ "late_launch" \in Faults
                /\ command[j] = "none"
                /\ late' = late \cup {j}
       \/ /\ "kill_fails" \in Faults \/ ~container.up
          /\ task' = [task EXCEPT ![j] = "failing"]
          /\ UNCHANGED <<command, late>>
    /\ UNCHANGED <<run, job, container, holder, driver>>

\* _stat and finish_owned_job
FinishTask(j) ==
    /\ \/ /\ task[j] = "returned" /\ Owns(job[j].owner)
          /\ \E status \in {"completed", "failed"} : FinishOwned(job[j].owner, j, status)
       \/ /\ task[j] = "failing" /\ Owns(job[j].owner)
          /\ FinishOwned(job[j].owner, j, "failed")
       \/ /\ task[j] \in {"returned", "failing"}
          /\ ~Owns(job[j].owner) \/ "db_error" \in Faults
          /\ UNCHANGED job
    /\ task' = [task EXCEPT ![j] = "none"]
    /\ UNCHANGED <<run, hostVars, holder, driver>>

-----------------------------------------------------------------------------
(* The driver of an acquisition: _runtime_loop.                            *)

SetDriver(o, d) == driver' = [driver EXCEPT ![o] = d]
Enter(o, stage) == SetDriver(o, [driver[o] EXCEPT !.stage = stage, !.todo = {}])

Tasks(o) == {j \in Job : task[j] # "none" /\ job[j].owner = o}

\* task.cancel() for every task of J: only a task inside the command executor has
\* something to terminate, and one that is already terminating does not wait.
Canceled(J) ==
    [j \in Job |-> IF j \notin J THEN task[j]
                   ELSE IF task[j] \in {"launching", "executing"} THEN "aborting"
                   ELSE "none"]

MayCancel(J) ==
    "recancel" \in Faults \/ \A j \in J : task[j] \notin {"killing", "aborting"}

Acquire(o) ==
    /\ driver[o].stage = "out"
    /\ holder \in Owner => driver[holder].stage = "done" \/ "overlap" \in Faults
    /\ holder' = o
    /\ Enter(o, "acquired")
    /\ UNCHANGED <<run, job, hostVars, task>>

\* Mutant: the jobs of this acquisition are listed, not those of the others.
ListStaleOwn(o) ==
    /\ driver[o].stage = "acquired"
    /\ Owns(o)
    /\ SetDriver(o, [driver[o] EXCEPT !.stage = "recovering",
                       !.todo = {j \in Job : RowIsOwned(o, j)}])
    /\ UNCHANGED <<run, job, hostVars, task, holder>>

\* list_stale_running_jobs
ListStale(o) ==
    /\ driver[o].stage = "acquired"
    /\ Owns(o)
    /\ SetDriver(o, [driver[o] EXCEPT !.stage = "recovering",
                       !.todo = {j \in Job : job[j].status = "running" /\ job[j].owner # o}])
    /\ UNCHANGED <<run, job, hostVars, task, holder>>

\* Mutant: the command is failed without a look at the container.
CheckBindingNever(o, j) ==
    /\ driver[o].stage = "recovering"
    /\ j \in driver[o].todo
    /\ SetDriver(o, [driver[o] EXCEPT !.stage = "marking", !.current = j,
                                      !.verdict = "failed"])
    /\ UNCHANGED <<run, job, hostVars, task, holder>>

\* is_job_container_binding_current decides whether there is something to kill.
CheckBinding(o, j) ==
    /\ driver[o].stage = "recovering"
    /\ j \in driver[o].todo
    /\ SetDriver(o, [driver[o] EXCEPT !.stage = IF Current THEN "killing" ELSE "marking",
                                      !.current = j, !.verdict = "failed"])
    /\ UNCHANGED <<run, job, hostVars, task, holder>>

\* terminate_sandbox_container_command
KillStale(o) ==
    LET j == driver[o].current IN
    /\ driver[o].stage = "killing"
    /\ \/ /\ container.up /\ container.generation = 1
          /\ command' = Terminated(j)
          /\ SetDriver(o, [driver[o] EXCEPT !.stage = "marking"])
       \/ /\ ~container.up \/ container.generation # 1 \/ "kill_fails" \in Faults
          /\ SetDriver(o, [driver[o] EXCEPT !.stage = "marking",
                                            !.verdict = "recovery_required"])
          /\ UNCHANGED command
    /\ UNCHANGED <<run, job, container, task, late, holder>>

\* fail_stale_running_job
MarkStale(o) ==
    LET j == driver[o].current IN
    /\ driver[o].stage = "marking"
    /\ Owns(o)
    /\ job' = IF job[j].status = "running" /\ job[j].owner # o
              THEN Settle({j}, driver[o].verdict) ELSE job
    /\ SetDriver(o, [driver[o] EXCEPT !.stage = "recovering", !.todo = @ \ {j},
                                      !.current = NoJob])
    /\ UNCHANGED <<run, hostVars, task, holder>>

EndRecovery(o) ==
    /\ driver[o].stage = "recovering"
    /\ driver[o].todo = {}
    /\ Enter(o, "serving")
    /\ UNCHANGED <<run, job, hostVars, task, holder>>

\* A lease check or a transaction fails during the recovery.
RecoveryFails(o) ==
    /\ driver[o].stage \in {"acquired", "recovering", "killing", "marking"}
    /\ ~Owns(o) \/ "db_error" \in Faults
    /\ Enter(o, "done")
    /\ UNCHANGED <<run, job, hostVars, task, holder>>

\* One iteration of _run_owned_jobs is the next five transactions in this order;
\* they are independent of each other, and any order is allowed here.
Serves(o) == driver[o].stage = "serving" /\ Owns(o)

CancelOrphaned(o) ==
    LET J == {j \in Job : job[j].status = "queued" /\ run.status = "ended"} IN
    /\ Serves(o)
    /\ J # {}
    /\ job' = Settle(J, "canceled")
    /\ UNCHANGED <<run, hostVars, task, holder, driver>>

FailUnavailable(o) ==
    LET J == {j \in Job : job[j].status = "queued" /\ ~Current} IN
    /\ Serves(o)
    /\ J # {}
    /\ job' = Settle(J, "failed")
    /\ UNCHANGED <<run, hostVars, task, holder, driver>>

\* _cancel_requested_jobs: list, cancel the tasks,
BeginCancels(o) ==
    LET J == {j \in Job : RowIsOwned(o, j) /\ job[j].cancel} IN
    /\ Serves(o)
    /\ J # {}
    /\ MayCancel(J)
    /\ task' = Canceled(J)
    /\ SetDriver(o, [driver[o] EXCEPT !.stage = "canceling", !.todo = J])
    /\ UNCHANGED <<run, job, hostVars, holder>>

\* wait for them, and settle what they left open.
FinishCanceled(o, j) ==
    /\ driver[o].stage = "canceling"
    /\ j \in driver[o].todo
    /\ \A i \in driver[o].todo : task[i] = "none"
    /\ Owns(o)
    /\ FinishOwned(o, j, "canceled")
    /\ SetDriver(o, [driver[o] EXCEPT !.todo = @ \ {j}])
    /\ UNCHANGED <<run, hostVars, task, holder>>

EndCancels(o) ==
    /\ driver[o].stage = "canceling"
    /\ driver[o].todo = {}
    /\ Enter(o, "serving")
    /\ UNCHANGED <<run, job, hostVars, task, holder>>

\* Mutant: the first result of the batch resumes the Run.
ResumeWaitingEarly(o) ==
    /\ Serves(o)
    /\ AwaitsJobs
    /\ \E j \in Batch : job[j].status \in Deliverable
    /\ QueueContinuation(job)
    /\ UNCHANGED <<hostVars, task, holder, driver>>

\* resume_waiting_runs_with_finished_jobs
ResumeWaiting(o) ==
    /\ Serves(o)
    /\ AwaitsJobs
    /\ Batch # {} /\ \A j \in Batch : job[j].status \in Deliverable
    /\ QueueContinuation(job)
    /\ UNCHANGED <<hostVars, task, holder, driver>>

\* Mutant: the Run need not wait yet.
ClaimableEarly ==
    {j \in Undelivered : job[j].status = "queued" /\ ~job[j].cancel /\ Current}

Claimable ==
    {j \in Batch : job[j].status = "queued" /\ ~job[j].cancel /\ AwaitsJobs /\ Current}

\* claim_queued_jobs and a task for each; the transaction may commit and its
\* acknowledgement be lost, and then no task is made (ClaimFails).
ClaimJobs(o) ==
    LET free == Capacity - Cardinality(Tasks(o)) IN
    /\ Serves(o)
    /\ \E J \in SUBSET Claimable :
          /\ J # {}
          /\ Cardinality(J) <= free
          /\ J = Claimable \/ Cardinality(J) = free
          /\ job' = [j \in Job |-> IF j \in J
                        THEN [job[j] EXCEPT !.status = "running", !.owner = o]
                        ELSE job[j]]
          /\ task' = [j \in Job |-> IF j \in J THEN "starting" ELSE task[j]]
    /\ UNCHANGED <<run, hostVars, holder, driver>>

\* Acquisitions are bounded by Owner: a process stops only while one is left.
MayStop(o) == o \in Mortal /\ \E p \in Owner \ {o} : driver[p].stage = "out"

\* The finally block of _run_owned_jobs: on a shutdown, a failed lease check or a
\* failed transaction all tasks are cancelled,
Stop(o, J) ==
    /\ driver[o].stage \in {"serving", "canceling"}
    /\ MayCancel(Tasks(o))
    /\ task' = Canceled(Tasks(o))
    /\ SetDriver(o, [driver[o] EXCEPT !.stage = "stopping", !.todo = J])

BeginStop(o) ==
    /\ MayStop(o) \/ ~Owns(o) \/ "db_error" \in Faults
    /\ Stop(o, Tasks(o))
    /\ UNCHANGED <<run, job, hostVars, holder>>

ClaimFails(o) ==
    /\ "db_error" \in Faults
    /\ Serves(o)
    /\ Claimable # {}
    /\ job' = [j \in Job |-> IF j \in Claimable
                  THEN [job[j] EXCEPT !.status = "running", !.owner = o] ELSE job[j]]
    /\ Stop(o, Tasks(o))
    /\ UNCHANGED <<run, hostVars, holder>>

\* awaited, and what they left open is failed.
FinishStopped(o, j) ==
    /\ driver[o].stage = "stopping"
    /\ j \in driver[o].todo
    /\ Tasks(o) = {}
    /\ Owns(o)
    /\ FinishOwned(o, j, "failed")
    /\ SetDriver(o, [driver[o] EXCEPT !.todo = @ \ {j}])
    /\ UNCHANGED <<run, hostVars, task, holder>>

EndStop(o) ==
    /\ driver[o].stage = "stopping"
    /\ Tasks(o) = {}
    /\ driver[o].todo = {} \/ ~Owns(o) \/ "db_error" \in Faults
    /\ Enter(o, "done")
    /\ UNCHANGED <<run, job, hostVars, task, holder>>

\* The process is gone with its tasks and threads; commands go on in the container.
Crash(o) ==
    /\ MayStop(o)
    /\ driver[o].stage \notin {"out", "done"}
    /\ Enter(o, "done")
    /\ task' = [j \in Job |-> IF job[j].owner = o THEN "none" ELSE task[j]]
    /\ late' = {j \in late : job[j].owner # o}
    /\ UNCHANGED <<run, job, container, command, holder>>

-----------------------------------------------------------------------------

RunStep ==
    \/ StartAttempt \/ FinishAttempt \/ InterruptAttempt
    \/ CancelRunJobs \/ EndRun \/ AbandonEnding \/ ResumeRun
    \/ \E j \in Job : CreateJob(j) \/ CancelJob(j) \/ ResolveJob(j)

HostStep ==
    \/ ContainerStops \/ ContainerStarts \/ ObserveStatus \/ InspectFails
    \/ \E j \in Job : CommandEnds(j) \/ LateLaunch(j)

TaskStep(j) ==
    StartTask(j) \/ Launch(j) \/ CommandReturns(j) \/ Timeout(j) \/ Kill(j) \/ FinishTask(j)

RecoveryStep(o) ==
    \/ ListStale(o) \/ (\E j \in Job : CheckBinding(o, j)) \/ KillStale(o) \/ MarkStale(o)
    \/ EndRecovery(o) \/ RecoveryFails(o)

CancelStep(o) ==
    BeginCancels(o) \/ (\E j \in Job : FinishCanceled(o, j)) \/ EndCancels(o)

StopStep(o) == (\E j \in Job : FinishStopped(o, j)) \/ EndStop(o)

DriverStep(o) ==
    \/ Acquire(o) \/ RecoveryStep(o)
    \/ CancelOrphaned(o) \/ FailUnavailable(o) \/ CancelStep(o)
    \/ ResumeWaiting(o) \/ ClaimJobs(o) \/ ClaimFails(o)
    \/ BeginStop(o) \/ StopStep(o) \/ Crash(o)

Next ==
    \/ RunStep
    \/ HostStep
    \/ \E j \in Job : TaskStep(j)
    \/ \E o \in Owner : DriverStep(o)

Spec == Init /\ [][Next]_vars

\* The runtime keeps acquiring, recovering and polling, its tasks make progress (a
\* command is bounded by its timeout), a driver that lost its lease notices, and
\* the status monitor looks.  The Run, its operator and the commands need not act.
Fairness ==
    /\ \A o \in Owner :
          /\ WF_vars(Acquire(o)) /\ WF_vars(RecoveryStep(o))
          /\ WF_vars(CancelOrphaned(o)) /\ WF_vars(FailUnavailable(o))
          /\ WF_vars(CancelStep(o)) /\ WF_vars(ResumeWaiting(o)) /\ WF_vars(ClaimJobs(o))
          /\ WF_vars(~Owns(o) /\ BeginStop(o)) /\ WF_vars(StopStep(o))
    /\ \A j \in Job : WF_vars(TaskStep(j))
    /\ WF_vars(ObserveStatus)

FairSpec == Spec /\ Fairness

-----------------------------------------------------------------------------
(* Properties.                                                             *)

\* A Run continues with all the results of its batch or with none, and only with
\* final ones (resume_waiting_runs_with_finished_jobs, resolve_recovery_required_job).
BatchDeliveredTogether ==
    \A i, j \in Job :
        /\ job[i].disposition = "delivered"
        /\ job[j].attempt = job[i].attempt
        => job[j].disposition = "delivered" /\ job[j].status \in Deliverable

\* A row is RUNNING only while its Run waits for the batch it belongs to, unless it is
\* marked for cancellation: no Run goes on, ends or starts another Attempt beside a row
\* of its own that is still to be settled and that nobody cancelled.  This is about
\* rows; what becomes of the command in the container is DeliveredCommandHasStopped.
RunningJobIsAwaited ==
    \A j \in Job :
        job[j].status = "running" =>
            \/ job[j].cancel
            \/ AwaitsJobs /\ job[j].attempt = run.wait /\ job[j].disposition = "none"

\* The table SANDBOX_ASYNC_JOB_STATUS_TRANSITIONS (schema/sandbox/async_jobs.py:23):
\* no result, cancellation, shutdown or recovery overwrites one that came first.
Transitions ==
    [absent |-> {"queued"},
     queued |-> {"running", "failed", "canceled"},
     running |-> Settled,
     completed |-> {}, failed |-> {}, canceled |-> {},
     recovery_required |-> {"failed"}]

StatusFollowsTable ==
    [][ \A j \in Job : job'[j].status # job[j].status =>
            job'[j].status \in Transitions[job[j].status] ]_vars

\* When a Run is given the result of a command, the command has stopped: a command
\* whose end is uncertain goes to recovery instead (README.md:98).
DeliveredCommandHasStopped ==
    \A j \in Job : job[j].disposition = "delivered" => command[j] # "alive"

\* A Run that waits for its commands continues or ends, across process stops and
\* container restarts, unless a command needs an operator.
WaitingRunIsResumed ==
    AwaitsJobs ~> (~AwaitsJobs \/ \E j \in Job : job[j].status = "recovery_required")

=============================================================================
