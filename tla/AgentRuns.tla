----------------------------- MODULE AgentRuns ------------------------------
(***************************************************************************)
(* service/agent/supervisor.py with delegation.py, the cancellation        *)
(* requests of repository.py and the tool journal of tool_invocations.py:  *)
(* the Runs of one Session, their Attempts, and the supervisor processes   *)
(* that execute them.                                                      *)
(*                                                                         *)
(* A database transaction is one step.  What a process keeps in memory     *)
(* (its tasks, its fencing token, the command it is working on) is         *)
(* separate, so every await between two transactions is a point where the  *)
(* other processes may run, where the lease may expire, and where the      *)
(* process may stop.  Wall-clock time is abstracted to the event that the  *)
(* lease expires, which may happen at any moment.                          *)
(***************************************************************************)
EXTENDS Naturals

CONSTANTS
    Root,        \* foreground Runs of the primary agent: user requests and
                 \* system events, all in its main Context
    Child,       \* Runs that create_child_run may add
    NoRun,       \* None
    Supervisor,  \* processes with an AgentRuntimeSupervisor each
    Nobody,      \* owner of the lease before the first renewal, and an owner that
                 \* no process has any more
    Faults,      \* which faults happen: "db_error", "stale_renewal"
    Sweep,       \* session cancellations an operator may request
    MaxStops,    \* bound on the crashes and shutdowns of each process, a function
    Restarted,   \* processes that are started again after they stopped
    MaxToken,    \* bound on the fencing token
    MaxCalls     \* bound on the tool calls of each Run, a function

Run == Root \cup Child

ASSUME RunAssumption ==
    /\ Root \cap Child = {} /\ Run \cap Sweep = {}
    /\ NoRun \notin Run \cup Sweep
    /\ "tool_recovery" \notin Run \cup {NoRun}
ASSUME SupervisorAssumption == Nobody \notin Supervisor
ASSUME StopsAssumption == MaxStops \in [Supervisor -> Nat]
ASSUME RestartedAssumption == Restarted \subseteq Supervisor
ASSUME FaultsAssumption == Faults \subseteq {"db_error", "stale_renewal"}

VARIABLES
    run,       \* agent_runs with the latest row of agent_run_attempts
    journal,   \* agent_tool_invocations: the unsettled call of each Run
    calls,     \* tool calls started by each Run
    commands,  \* unpublished outbox commands: AGENT_RUN_CANCEL by its Run,
               \* AGENT_SESSION_CANCEL by its sweep
    requested, \* sweeps requested so far
    lease,     \* the "runtime-supervisor" row of runtime_leases
    sup,       \* per process: the AgentRuntimeSupervisor object
    task       \* per process and Run: the asyncio task of _execute_claimed

vars == <<run, journal, calls, commands, requested, lease, sup, task>>
commandVars == <<commands, requested>>
toolVars == <<journal, calls>>

Terminal == {"succeeded", "failed", "canceled"}
Status == {"absent", "queued", "running", "waiting"} \cup Terminal
Trigger == {"request", "child_run_completion", "tool_recovery"}

\* The open Attempt of a Run; NoAttempt: none is RUNNING.  A process starts at most
\* one Attempt of a Run under one token before that Attempt ends, so owner and
\* token tell the Attempts that can meet apart.
Attempt == [running : BOOLEAN, owner : Supervisor \cup {Nobody}, token : Nat]
NoAttempt == [running |-> FALSE, owner |-> Nobody, token |-> 0]

RunRow == [status : Status,
           wait : Run \cup {NoRun, "tool_recovery"},
           parent : Run \cup {NoRun},
           disposition : {"none", "delivered", "discarded"},
           cancel : BOOLEAN,
           trigger : Trigger,
           attempt : Attempt]

\* Where a task stands; "aborting" and "yielding" follow its cancellation.
\* wait: context.wait_reference_id; call: the tool call it has open.
Phase == {"none", "claimed", "reconciling", "running", "calling", "called",
          "waiting", "failing", "failed", "recovering", "suspending",
          "aborting", "yielding"}
Task == [phase : Phase, token : Nat, wait : Run \cup {NoRun}, call : Nat]
NoTask == [phase |-> "none", token |-> 0, wait |-> NoRun, call |-> 0]

\* What the driver (_loop) of a process is doing.
Stage == {"idle", "renewing", "recovering", "stopping", "canceling",
          "requesting", "closing"}
Sup == [state : {"up", "stopping", "down"}, token : Nat, recovered : Nat,
        stage : Stage, todo : SUBSET Run, current : Run \cup {NoRun},
        command : Run \cup Sweep \cup {NoRun}, stale : BOOLEAN, stops : Nat]

\* __init__: a supervisor that has just been constructed.
Fresh(stops) ==
    [state |-> "up", token |-> 0, recovered |-> 0, stage |-> "idle", todo |-> {},
     current |-> NoRun, command |-> NoRun, stale |-> FALSE, stops |-> stops]

TypeOK ==
    /\ run \in [Run -> RunRow]
    /\ journal \in [Run -> {"clear", "running", "recovery_required"}]
    /\ calls \in [Run -> Nat]
    /\ commands \subseteq Run \cup Sweep
    /\ requested \subseteq Sweep
    /\ lease \in [owner : Supervisor \cup {Nobody}, token : Nat, live : BOOLEAN]
    /\ sup \in [Supervisor -> Sup]
    /\ task \in [Supervisor -> [Run -> Task]]

Init ==
    /\ run = [r \in Run |->
                [status |-> "absent", wait |-> NoRun, parent |-> NoRun,
                 disposition |-> "none", cancel |-> FALSE, trigger |-> "request",
                 attempt |-> NoAttempt]]
    /\ journal = [r \in Run |-> "clear"]
    /\ calls = [r \in Run |-> 0]
    /\ commands = {}
    /\ requested = {}
    /\ lease = [owner |-> Nobody, token |-> 0, live |-> FALSE]
    /\ sup = [s \in Supervisor |-> Fresh(0)]
    /\ task = [s \in Supervisor |-> [r \in Run |-> NoTask]]

-----------------------------------------------------------------------------
(* What a process keeps in memory.                                         *)

SetSup(s, q) == sup' = [sup EXCEPT ![s] = q]

SetTask(s, r, t) == task' = [task EXCEPT ![s][r] = t]
Goto(s, r, phase) == SetTask(s, r, [task[s][r] EXCEPT !.phase = phase])
At(s, r, phases) == task[s][r].phase \in phases

-----------------------------------------------------------------------------
(* Rows and what the transactions do to them.                              *)

Done(rows, r) == rows[r].status \in Terminal
Open(rows) == {r \in Run : rows[r].status \in {"queued", "running", "waiting"}}
Undelivered(rows, p) ==
    {c \in Run : rows[c].parent = p /\ rows[c].disposition = "none"}

\* The same AgentContext: foreground Runs of a Session share the main one.
SameContext(r) == IF r \in Root THEN Root ELSE {r}

\* run_admission_block_reason, as far as Runs and tool calls decide it.
Admitted == \A r \in Run : journal[r] # "recovery_required"

SetRun(rows, r, row) == [rows EXCEPT ![r] = row]

\* Every status a Run takes, but RUNNING, closes its Attempt.
SetStatus(rows, r, status, wait) ==
    SetRun(rows, r, [rows[r] EXCEPT !.status = status, !.wait = wait,
                                    !.attempt = NoAttempt])

\* discard_pending_child_continuations
Discard(rows, p) ==
    [r \in Run |-> IF r \in Undelivered(rows, p)
                   THEN [rows[r] EXCEPT !.disposition = "discarded"]
                   ELSE rows[r]]

\* queue_parent_continuation: only the parent that waits for this very child.
Deliver(rows, c) ==
    LET p == rows[c].parent IN
    IF /\ p # NoRun
       /\ rows[c].disposition = "none"
       /\ rows[p].status = "waiting"
       /\ rows[p].wait = c
    THEN [rows EXCEPT ![p].status = "queued",
                      ![p].wait = NoRun,
                      ![p].trigger = "child_run_completion",
                      ![c].disposition = "delivered"]
    ELSE rows

\* Mutant: the parent that starts to wait does not look for an earlier result.
DeliverFinishedNever(rows, p) == rows

\* queue_parent_from_finished_wait_reference
DeliverFinished(rows, p) ==
    LET c == rows[p].wait IN
    IF c \in Undelivered(rows, p) /\ Done(rows, c) THEN Deliver(rows, c) ELSE rows

\* Mutant: queued children are forgotten.
CancelableRunning(p) ==
    {c \in Undelivered(run, p) : run[c].status = "running" /\ ~run[c].cancel}

\* request_undelivered_child_cancellations: the Runs it marks.
Cancelable(p) ==
    {c \in Undelivered(run, p) : run[c].status \notin Terminal /\ ~run[c].cancel}

Mark(rows, R) == [r \in Run |-> IF r \in R THEN [rows[r] EXCEPT !.cancel = TRUE]
                                ELSE rows[r]]

RequestCancels(R) ==
    /\ run' = Mark(run, R)
    /\ commands' = commands \cup R
    /\ UNCHANGED requested

-----------------------------------------------------------------------------
(* Requests from operators, the orchestrator and the agents' own tools.    *)

\* enqueue_chat_run and enqueue_system_run; the latter ignores recoveries.
EnqueueRun(r) ==
    /\ r \in Root
    /\ run[r].status = "absent"
    /\ run' = SetRun(run, r, [run[r] EXCEPT !.status = "queued"])
    /\ UNCHANGED <<toolVars, commandVars, lease, sup, task>>

\* request_all_run_cancellations, request_session_cancellation
RequestSessionCancel(sweep) ==
    LET R == {r \in Open(run) : ~run[r].cancel} IN
    /\ sweep \notin requested
    /\ R # {}
    /\ run' = Mark(run, R)
    /\ commands' = commands \cup {sweep}
    /\ requested' = requested \cup {sweep}
    /\ UNCHANGED <<toolVars, lease, sup, task>>

\* request_foreground_interrupt
RequestInterrupt(r) ==
    /\ r \in Root
    /\ run[r].status = "running"
    /\ ~run[r].cancel
    /\ RequestCancels({r})
    /\ UNCHANGED <<toolVars, lease, sup, task>>

\* cancel_child_run
RequestChildCancel(r) ==
    /\ run[r].parent # NoRun
    /\ r \in Open(run)
    /\ ~run[r].cancel
    /\ RequestCancels({r})
    /\ UNCHANGED <<toolVars, lease, sup, task>>

\* resolve_invocation with the recovery Runs it queues when none is left.
Resolve(r) ==
    LET remaining == {q \in Run \ {r} : journal[q] = "recovery_required"}
        resumed == {q \in Run : /\ run[q].status = "waiting"
                                /\ run[q].wait = "tool_recovery"
                                /\ ~run[q].cancel}
    IN
    /\ journal[r] = "recovery_required"
    /\ ~ \E q \in Run : \/ run[q].status = "running"
                        \/ /\ run[q].status = "queued"
                           /\ run[q].trigger # "tool_recovery"
    /\ journal' = [journal EXCEPT ![r] = "clear"]
    /\ IF remaining = {}
       THEN run' = [q \in Run |-> IF q \in resumed
                      THEN [run[q] EXCEPT !.status = "queued", !.wait = NoRun,
                                          !.trigger = "tool_recovery"]
                      ELSE run[q]]
       ELSE UNCHANGED run
    /\ UNCHANGED <<calls, commandVars, lease, sup, task>>

-----------------------------------------------------------------------------
(* The lease and the driver loop of a supervisor.                          *)

\* _require_supervisor_lease
Leads(s) == lease.live /\ lease.owner = s /\ lease.token = sup[s].token

\* The Attempt a task was started for is still RUNNING.
OwnAttempt(s, r) ==
    run[r].attempt = [running |-> TRUE, owner |-> s, token |-> task[s][r].token]

\* _require_attempt_lease for the attempt a task executes
Fenced(s, r) ==
    /\ Leads(s)
    /\ run[r].status = "running"
    /\ OwnAttempt(s, r)
    /\ task[s][r].token = lease.token

Tasks(s) == {r \in Run : task[s][r].phase # "none"}

\* The driver is between two statements and no task it cancelled is still ending.
Idle(s) ==
    /\ sup[s].state = "up"
    /\ sup[s].stage = "idle"
    /\ \A r \in Run : task[s][r].phase \notin {"aborting", "yielding"}

\* expires_at passes.  A renewal that read the clock before this moment is judged
\* by that reading (fault "stale_renewal": the row lock is granted only now).
Expire ==
    /\ lease.live
    /\ lease.token < MaxToken
    /\ lease' = [lease EXCEPT !.live = FALSE]
    /\ sup' = [s \in Supervisor |->
                 [sup[s] EXCEPT !.stale = sup[s].stage = "renewing"]]
    /\ UNCHANGED <<run, toolVars, commandVars, task>>

\* _renew_lease up to the row lock; a step of its own only where it matters.
BeginRenew(s) ==
    /\ Idle(s)
    /\ "stale_renewal" \in Faults
    /\ SetSup(s, [sup[s] EXCEPT !.stage = "renewing", !.stale = FALSE])
    /\ UNCHANGED <<run, toolVars, commandVars, lease, task>>

\* _renew_lease holds the row lock.
Renewing(s) ==
    IF "stale_renewal" \in Faults
    THEN sup[s].state = "up" /\ sup[s].stage = "renewing"
    ELSE Idle(s)

\* task.cancel() by _yield_active_runs or stop(): an open tool call is journaled
\* first (invoke_tool), then the handler in _execute_claimed requeues the Run.
\* A task that was already ending leaves without a handler.
Canceled(t) ==
    CASE t.phase \in {"calling", "called"} -> [t EXCEPT !.phase = "aborting"]
      [] t.phase \in {"none", "failing", "failed", "recovering", "suspending",
                      "yielding"} -> NoTask
      [] t.phase = "aborting" -> t
      [] OTHER -> [t EXCEPT !.phase = "yielding"]

YieldAll(s) == task' = [task EXCEPT ![s] = [r \in Run |-> Canceled(task[s][r])]]

\* Mutant: its own lease is extended under the old token after it expired.
RenewKeepsExpired(s) ==
    /\ Renewing(s)
    /\ lease.owner = s
    /\ lease' = [lease EXCEPT !.live = TRUE]
    /\ SetSup(s, [sup[s] EXCEPT !.stage = "idle", !.token = lease.token])
    /\ UNCHANGED <<run, toolVars, commandVars, task>>

\* The lease is extended, and the token kept.
RenewKeeps(s) ==
    /\ Renewing(s)
    /\ lease.owner = s
    /\ lease.live \/ sup[s].stale
    /\ lease' = [lease EXCEPT !.live = TRUE]
    /\ SetSup(s, [sup[s] EXCEPT !.stage = "idle", !.token = lease.token])
    /\ IF sup[s].recovered \notin {0, lease.token}
       THEN YieldAll(s)
       ELSE UNCHANGED task
    /\ UNCHANGED <<run, toolVars, commandVars>>

\* The lease had expired: taken over, or taken again, under the next token.
RenewTakes(s) ==
    /\ Renewing(s)
    /\ ~lease.live /\ ~sup[s].stale
    /\ lease' = [owner |-> s, token |-> lease.token + 1, live |-> TRUE]
    /\ SetSup(s, [sup[s] EXCEPT !.stage = "idle", !.token = lease.token + 1])
    /\ IF sup[s].recovered # 0 THEN YieldAll(s) ELSE UNCHANGED task
    /\ UNCHANGED <<run, toolVars, commandVars>>

\* Another process holds it: forget the token and yield every active Run.
RenewRefused(s) ==
    /\ Renewing(s)
    /\ lease.owner # s
    /\ lease.live \/ sup[s].stale
    /\ SetSup(s, [sup[s] EXCEPT !.stage = "idle", !.token = 0])
    /\ YieldAll(s)
    /\ UNCHANGED <<run, toolVars, commandVars, lease>>

\* _requeue_interrupted_run
Requeue(rows, r) == SetStatus(rows, r, "queued", NoRun)

\* Mutant: a process recovers when it takes the lease first, not each time.
BeginRecoverOnce(s) ==
    /\ Idle(s)
    /\ Tasks(s) = {}
    /\ sup[s].token # 0 /\ sup[s].recovered = 0
    /\ Leads(s)
    /\ SetSup(s, [sup[s] EXCEPT !.stage = "recovering",
                              !.todo = {r \in Run : run[r].attempt.running}])
    /\ UNCHANGED <<run, toolVars, commandVars, lease, task>>

\* _recover_interrupted_attempts: list the attempts, then requeue one by one.
BeginRecover(s) ==
    /\ Idle(s)
    /\ Tasks(s) = {}
    /\ sup[s].token # 0 /\ sup[s].token # sup[s].recovered
    /\ Leads(s)
    /\ SetSup(s, [sup[s] EXCEPT !.stage = "recovering",
                              !.todo = {r \in Run : run[r].attempt.running}])
    /\ UNCHANGED <<run, toolVars, commandVars, lease, task>>

RecoverRun(s, r) ==
    /\ sup[s].stage = "recovering"
    /\ r \in sup[s].todo
    /\ Leads(s)
    /\ run' = IF run[r].status = "running" /\ run[r].attempt.running
              THEN Requeue(run, r) ELSE run
    /\ SetSup(s, [sup[s] EXCEPT !.todo = @ \ {r}])
    /\ UNCHANGED <<toolVars, commandVars, lease, task>>

EndRecover(s) ==
    /\ sup[s].stage = "recovering"
    /\ sup[s].todo = {}
    /\ SetSup(s, [sup[s] EXCEPT !.stage = "idle", !.recovered = sup[s].token])
    /\ UNCHANGED <<run, toolVars, commandVars, lease, task>>

\* The driver is ready for outbox commands and queued Runs.
Ready(s) == Idle(s) /\ sup[s].token # 0 /\ sup[s].token = sup[s].recovered

\* _claim
Claim(s, r) ==
    /\ Ready(s)
    /\ Leads(s)
    /\ run[r].status = "queued"
    /\ ~run[r].cancel
    /\ Admitted
    /\ r \in Root => \A q \in Root \ {r} : run[q].status \notin {"running", "waiting"}
    /\ task[s][r].phase = "none"
    /\ run' = SetRun(run, r, [run[r] EXCEPT !.status = "running",
                                  !.attempt = [running |-> TRUE, owner |-> s,
                                               token |-> sup[s].token]])
    /\ SetTask(s, r, [NoTask EXCEPT !.phase = "claimed", !.token = sup[s].token])
    /\ UNCHANGED <<toolVars, commandVars, lease, sup>>

-----------------------------------------------------------------------------
(* Cancellation commands: _cancel_session_runs, _cancel_single_run.        *)

\* The Runs a command is about; a sweep takes whatever is open now.
Selected(command) == IF command \in Sweep THEN Open(run) ELSE {command}

\* Mutant: the command is marked published before it is carried out.
BeginCancelPublished(s, command) ==
    /\ Ready(s)
    /\ command \in commands
    /\ command \in Sweep => Leads(s)
    /\ SetSup(s, [sup[s] EXCEPT !.stage = "stopping", !.command = command,
                              !.todo = Selected(command)])
    /\ commands' = commands \ {command}
    /\ UNCHANGED <<run, toolVars, requested, lease, task>>

BeginCancel(s, command) ==
    /\ Ready(s)
    /\ command \in commands
    /\ command \in Sweep => Leads(s)
    /\ SetSup(s, [sup[s] EXCEPT !.stage = "stopping", !.command = command,
                              !.todo = Selected(command)])
    /\ UNCHANGED <<run, toolVars, commandVars, lease, task>>

\* The tasks of the selected Runs are cancelled and awaited.  Their handlers run
\* the same _cancel_persisted_run that the driver runs next.
StopTasks(s) ==
    /\ sup[s].stage = "stopping"
    /\ SetSup(s, [sup[s] EXCEPT !.stage = "canceling"])
    /\ task' = [task EXCEPT ![s] = [r \in Run |->
                  IF r \notin sup[s].todo THEN task[s][r]
                  ELSE IF task[s][r].phase \in {"calling", "called"}
                       THEN [task[s][r] EXCEPT !.phase = "aborting"]
                       ELSE NoTask]]
    /\ UNCHANGED <<run, toolVars, commandVars, lease>>

\* _cancel_persisted_run, one Run after the other: a first lease check,
BeginCancelRun(s, r) ==
    /\ sup[s].stage = "canceling"
    /\ r \in sup[s].todo
    /\ \A q \in sup[s].todo : task[s][q].phase = "none"
    /\ Leads(s)
    /\ SetSup(s, [sup[s] EXCEPT !.stage = "requesting", !.current = r])
    /\ UNCHANGED <<run, toolVars, commandVars, lease, task>>

\* cancel requests for its children, without a lease check,
CancelChildren(s) ==
    /\ sup[s].stage = "requesting"
    /\ RequestCancels(Cancelable(sup[s].current))
    /\ SetSup(s, [sup[s] EXCEPT !.stage = "closing"])
    /\ UNCHANGED <<toolVars, lease, task>>

\* Mutant: the parent of a cancelled child is never resumed.
CancelRunAlone(s) ==
    LET r == sup[s].current IN
    /\ sup[s].stage = "closing"
    /\ Leads(s)
    /\ run' = IF Done(run, r) THEN run
              ELSE Mark(SetStatus(Discard(run, r), r, "canceled", NoRun), {r})
    /\ SetSup(s, [sup[s] EXCEPT !.stage = "canceling", !.current = NoRun,
                              !.todo = @ \ {r}])
    /\ UNCHANGED <<toolVars, commandVars, lease, task>>

\* and the Run itself; a sweep does not resume the parent, which it cancels too.
CancelRun(s) ==
    LET r == sup[s].current
        ended == Mark(SetStatus(Discard(run, r), r, "canceled", NoRun), {r})
    IN
    /\ sup[s].stage = "closing"
    /\ Leads(s)
    /\ run' = IF Done(run, r) THEN run
              ELSE IF sup[s].command \in Sweep THEN ended
              ELSE Deliver(ended, r)
    /\ SetSup(s, [sup[s] EXCEPT !.stage = "canceling", !.current = NoRun,
                              !.todo = @ \ {r}])
    /\ UNCHANGED <<toolVars, commandVars, lease, task>>

\* _mark_outbox_published
EndCancel(s) ==
    /\ sup[s].stage = "canceling"
    /\ sup[s].todo = {}
    /\ commands' = commands \ {sup[s].command}
    /\ SetSup(s, [sup[s] EXCEPT !.stage = "idle", !.command = NoRun])
    /\ UNCHANGED <<run, toolVars, requested, lease, task>>

\* A lease check fails (or the database does): the exception ends the iteration,
\* and the command stays in the outbox.
DriverFails(s) ==
    /\ sup[s].stage \in {"recovering", "canceling", "requesting", "closing"}
    /\ \A r \in Run : task[s][r].phase # "aborting"
    /\ ~Leads(s) \/ "db_error" \in Faults
    /\ SetSup(s, [sup[s] EXCEPT !.stage = "idle", !.todo = {},
                              !.current = NoRun, !.command = NoRun])
    /\ UNCHANGED <<run, toolVars, commandVars, lease, task>>

-----------------------------------------------------------------------------
(* A task: _execute_claimed.                                               *)

\* _build_context: a child whose result is still owed becomes the wait.  With two of
\* them it raises (Raise); OneResultOwed says that this never happens.
BuildContext(s, r) ==
    /\ At(s, r, {"claimed"})
    /\ \E c \in Run \cup {NoRun} :
          /\ Undelivered(run, r) = {c} \ {NoRun}
          /\ SetTask(s, r, [task[s][r] EXCEPT !.phase = "reconciling", !.wait = c])
    /\ UNCHANGED <<run, toolVars, commandVars, lease, sup>>

\* Mutant: calls that the last process left open are not marked.
ReconcileMarked(s, r) ==
    /\ At(s, r, {"reconciling"})
    /\ Fenced(s, r)
    /\ Goto(s, r, IF \E q \in SameContext(r) : journal[q] = "recovery_required"
                  THEN "recovering"
                  ELSE IF task[s][r].wait # NoRun THEN "waiting" ELSE "running")
    /\ UNCHANGED <<run, toolVars, commandVars, lease, sup>>

\* reconcile_run_invocations: calls the last process left open are ambiguous, and
\* an ambiguous call in the Context suspends the Run.
Reconcile(s, r) ==
    /\ At(s, r, {"reconciling"})
    /\ Fenced(s, r)
    /\ journal' = [q \in Run |->
                     IF q \in SameContext(r) /\ journal[q] = "running"
                     THEN "recovery_required" ELSE journal[q]]
    /\ Goto(s, r, IF \E q \in SameContext(r) : journal[q] # "clear" THEN "recovering"
                  ELSE IF task[s][r].wait # NoRun THEN "waiting"
                  ELSE "running")
    /\ UNCHANGED <<run, calls, commandVars, lease, sup>>

\* _start_invocation
StartCall(s, r) ==
    /\ At(s, r, {"running"})
    /\ Fenced(s, r)
    /\ calls[r] < MaxCalls[r]
    /\ calls' = [calls EXCEPT ![r] = @ + 1]
    /\ journal' = [journal EXCEPT ![r] = "running"]
    /\ SetTask(s, r, [task[s][r] EXCEPT !.phase = "calling", !.call = calls[r] + 1])
    /\ UNCHANGED <<run, commandVars, lease, sup>>

\* start_subagent_task: create_child_run asks for a running parent, not for the
\* attempt that called it.  Only the primary agent has specialists.
CreateChild(s, r, c) ==
    /\ r \in Root
    /\ At(s, r, {"calling"})
    /\ run[r].status = "running"
    /\ Undelivered(run, r) = {}
    /\ Admitted
    /\ c \in Child
    /\ run[c].status = "absent"
    /\ run' = SetRun(run, c, [run[c] EXCEPT !.status = "queued", !.parent = r])
    /\ SetTask(s, r, [task[s][r] EXCEPT !.phase = "called", !.wait = c])
    /\ UNCHANGED <<toolVars, commandVars, lease, sup>>

\* Any other tool, and a delegation that is refused, returns a result.
CallReturns(s, r) ==
    /\ At(s, r, {"calling"})
    /\ Goto(s, r, "called")
    /\ UNCHANGED <<run, toolVars, commandVars, lease, sup>>

\* The journal row of the task's own call, if it is still RUNNING.
OwnCallOpen(s, r) == journal[r] = "running" /\ task[s][r].call = calls[r]

\* _complete_invocation; the wait the tool asked for ends the turn.
CompleteCall(s, r) ==
    /\ At(s, r, {"called"})
    /\ Fenced(s, r)
    /\ OwnCallOpen(s, r)
    /\ journal' = [journal EXCEPT ![r] = "clear"]
    /\ Goto(s, r, IF task[s][r].wait # NoRun THEN "waiting" ELSE "running")
    /\ UNCHANGED <<run, calls, commandVars, lease, sup>>

\* _mark_recovery_required checks no fence.
MarkAmbiguous(s, r) ==
    /\ journal' = IF OwnCallOpen(s, r)
                  THEN [journal EXCEPT ![r] = "recovery_required"] ELSE journal
    /\ UNCHANGED calls

\* The operation raises, or its result cannot be committed under the fence.
CallFails(s, r) ==
    /\ At(s, r, {"calling", "called"})
    /\ MarkAmbiguous(s, r)
    /\ Goto(s, r, "recovering")
    /\ UNCHANGED <<run, commandVars, lease, sup>>

\* _finish_run, not waiting
Finish(s, r) ==
    /\ At(s, r, {"running"})
    /\ Fenced(s, r)
    /\ run' = Deliver(SetStatus(Discard(run, r), r, "succeeded", NoRun), r)
    /\ SetTask(s, r, NoTask)
    /\ UNCHANGED <<toolVars, commandVars, lease, sup>>

\* _finish_run, waiting: the child may have finished before its parent waits.
FinishWaiting(s, r) ==
    /\ At(s, r, {"waiting"})
    /\ Fenced(s, r)
    /\ run' = DeliverFinished(SetStatus(run, r, "waiting", task[s][r].wait), r)
    /\ SetTask(s, r, NoTask)
    /\ UNCHANGED <<toolVars, commandVars, lease, sup>>

\* The model or the context raises; with "db_error" any transaction may.
Raise(s, r) ==
    /\ \/ At(s, r, {"claimed", "running"})
       \/ At(s, r, {"reconciling", "waiting"}) /\ "db_error" \in Faults
    /\ Goto(s, r, "failing")
    /\ UNCHANGED <<run, toolVars, commandVars, lease, sup>>

\* _fail_run and _wait_for_tool_recovery first ask for the cancellation of the
\* children the Run still waits for, before any lease check.
AskChildren(s, r) ==
    /\ At(s, r, {"failing", "recovering"})
    /\ Goto(s, r, IF At(s, r, {"failing"}) THEN "failed" ELSE "suspending")
    /\ RequestCancels(Cancelable(r))
    /\ UNCHANGED <<toolVars, lease, sup>>

FailRun(s, r) ==
    /\ At(s, r, {"failed"})
    /\ Fenced(s, r)
    /\ run' = Deliver(SetStatus(Discard(run, r), r, "failed", NoRun), r)
    /\ SetTask(s, r, NoTask)
    /\ UNCHANGED <<toolVars, commandVars, lease, sup>>

WaitForToolRecovery(s, r) ==
    /\ At(s, r, {"suspending"})
    /\ Fenced(s, r)
    /\ run' = SetStatus(Discard(run, r), r, "waiting", "tool_recovery")
    /\ SetTask(s, r, NoTask)
    /\ UNCHANGED <<toolVars, commandVars, lease, sup>>

\* A fenced transaction raises _ExecutionLeaseLost, or the database fails in the
\* handler of an exception: the task ends and writes nothing.
TaskEnds(s, r) ==
    /\ \/ At(s, r, {"reconciling", "running", "waiting", "failed", "suspending"})
          /\ ~Fenced(s, r)
       \/ At(s, r, {"failed", "suspending", "yielding"}) /\ "db_error" \in Faults
    /\ SetTask(s, r, NoTask)
    /\ UNCHANGED <<run, toolVars, commandVars, lease, sup>>

\* A cancelled task journals its open call, then runs its handler; when the driver
\* is cancelling the Run the handler does what the driver does next.
AbortCall(s, r) ==
    /\ At(s, r, {"aborting"})
    /\ MarkAmbiguous(s, r)
    /\ IF sup[s].stage = "canceling" THEN SetTask(s, r, NoTask)
                                     ELSE Goto(s, r, "yielding")
    /\ UNCHANGED <<run, commandVars, lease, sup>>

\* _requeue_interrupted_run in the handler, under the supervisor's present token.
YieldTask(s, r) ==
    /\ At(s, r, {"yielding"})
    /\ run' = IF /\ Leads(s)
                 /\ run[r].status = "running"
                 /\ OwnAttempt(s, r)
              THEN Requeue(run, r) ELSE run
    /\ SetTask(s, r, NoTask)
    /\ UNCHANGED <<toolVars, commandVars, lease, sup>>

-----------------------------------------------------------------------------
(* Process life.  A process stops only while the bound on tokens leaves    *)
(* its lease a successor.                                                  *)

MayStop(s) ==
    /\ sup[s].stops < MaxStops[s]
    /\ lease.owner = s => lease.token < MaxToken

StopDriver(s, state, stops) ==
    SetSup(s, [sup[s] EXCEPT !.state = state, !.stage = "idle", !.todo = {},
                              !.current = NoRun, !.command = NoRun, !.stops = stops])

\* stop()
Shutdown(s) ==
    /\ MayStop(s)
    /\ sup[s].state = "up"
    /\ StopDriver(s, "stopping", sup[s].stops)
    /\ YieldAll(s)
    /\ UNCHANGED <<run, toolVars, commandVars, lease>>

\* The process is gone with all its memory, its owner_id included: what it leaves of
\* the lease is a row that nobody renews or releases.
Exit(s) ==
    /\ MayStop(s)
    /\ \/ sup[s].state = "up"
       \/ sup[s].state = "stopping" /\ Tasks(s) = {}
    /\ StopDriver(s, "down", sup[s].stops + 1)
    /\ task' = [task EXCEPT ![s] = [r \in Run |-> NoTask]]
    /\ lease' = IF lease.owner = s THEN [lease EXCEPT !.owner = Nobody] ELSE lease
    /\ UNCHANGED <<run, toolVars, commandVars>>

\* The process is started again (restart: always); the new AgentRuntimeSupervisor
\* draws a new owner_id, so the row it finds is another owner's.
Restart(s) ==
    /\ s \in Restarted
    /\ sup[s].state = "down"
    /\ SetSup(s, Fresh(sup[s].stops))
    /\ UNCHANGED <<run, toolVars, commandVars, lease, task>>

-----------------------------------------------------------------------------

DriverStep(s) ==
    \/ BeginRenew(s) \/ RenewKeeps(s) \/ RenewTakes(s) \/ RenewRefused(s)
    \/ BeginRecover(s) \/ (\E r \in Run : RecoverRun(s, r)) \/ EndRecover(s)
    \/ (\E command \in commands : BeginCancel(s, command))
    \/ StopTasks(s) \/ (\E r \in Run : BeginCancelRun(s, r))
    \/ CancelChildren(s) \/ CancelRun(s) \/ EndCancel(s) \/ DriverFails(s)

TaskStep(s, r) ==
    \/ BuildContext(s, r) \/ Reconcile(s, r)
    \/ StartCall(s, r) \/ (\E c \in Child : CreateChild(s, r, c))
    \/ CallReturns(s, r) \/ CompleteCall(s, r) \/ CallFails(s, r)
    \/ Finish(s, r) \/ FinishWaiting(s, r)
    \/ Raise(s, r) \/ AskChildren(s, r) \/ FailRun(s, r) \/ WaitForToolRecovery(s, r)
    \/ TaskEnds(s, r) \/ AbortCall(s, r) \/ YieldTask(s, r)

Request(r) ==
    EnqueueRun(r) \/ RequestInterrupt(r) \/ RequestChildCancel(r) \/ Resolve(r)

Next ==
    \/ \E sweep \in Sweep : RequestSessionCancel(sweep)
    \/ \E r \in Run : Request(r)
    \/ Expire
    \/ \E s \in Supervisor :
          \/ DriverStep(s)
          \/ \E r \in Run : Claim(s, r) \/ TaskStep(s, r)
          \/ Shutdown(s) \/ Exit(s) \/ Restart(s)

Spec == Init /\ [][Next]_vars

\* A live process keeps polling (_loop wakes every half second) and its tasks keep
\* running; every iteration of _loop begins with a renewal, so a process whose
\* iterations keep failing still renews; a shutdown ends, the lease of a process that
\* is gone runs out, and the process is started again (docker-compose restarts each of
\* them, restart: always).  Operators need not act.
Fairness ==
    /\ \A s \in Supervisor :
          /\ WF_vars(DriverStep(s))
          /\ SF_vars(RenewTakes(s) \/ RenewRefused(s))
          /\ \A r \in Run : WF_vars(Claim(s, r)) /\ WF_vars(TaskStep(s, r))
    /\ \A s \in Supervisor :
          /\ WF_vars(sup[s].state = "stopping" /\ Exit(s))
          /\ WF_vars(Restart(s))
    /\ WF_vars(lease.owner = Nobody /\ Expire)

FairSpec == Spec /\ Fairness

-----------------------------------------------------------------------------
(* Safety.                                                                 *)

\* A Run that waits for a child waits for its own child, whose result is still
\* owed and still to come: no completion is lost between the child that ends and
\* the parent that starts to wait.  Only a sweep, which will cancel the parent
\* too, leaves a wait on a child that has ended.
WaitWillBeAnswered ==
    \A r \in Run :
        LET c == run[r].wait IN
        c \in Run => /\ c \in Undelivered(run, r)
                     /\ run[c].status # "absent"
                     /\ Done(run, c) => commands \cap Sweep # {}

\* A Run is owed at most one child result, so get_undelivered_child_run_id never
\* finds two, even when a deposed Attempt and its successor both delegate.
OneResultOwed ==
    \A r \in Run : \A c, d \in Undelivered(run, r) : c = d

\* When a Run ends, every child result has been delivered to it or discarded, in
\* the transaction that ends it.
EndedRunIsOwedNothing == \A r \in Run : Done(run, r) => Undelivered(run, r) = {}

\* A result is delivered only after the child ended.
DeliveredRunIsDone ==
    \A c \in Run : run[c].disposition = "delivered" => Done(run, c)

\* uq_agent_foreground_active is never violated by a claim.
OneForegroundRun ==
    \A q, r \in {p \in Root : run[p].status \in {"running", "waiting"}} : q = r

\* The model never runs on a Context with an unsettled tool call.
RunsOnSettledJournal ==
    \A s \in Supervisor, r \in Run :
        task[s][r].phase = "running" /\ Fenced(s, r) =>
            \A q \in SameContext(r) : journal[q] = "clear"

\* A Run that is marked RUNNING under the current lease is driven by a task of the
\* process that holds it; nothing else would ever finish it.
RunningRunIsDriven ==
    \A r \in Run : \A s \in Supervisor :
        /\ run[r].status = "running"
        /\ Leads(s) /\ Ready(s)
        => task[s][r].phase # "none"

\* A child whose parent no longer wants the result has been told to stop.
DiscardedChildIsCanceled ==
    \A c \in Run : run[c].disposition = "discarded" =>
                       Done(run, c) \/ run[c].cancel

-----------------------------------------------------------------------------
(* Action and liveness properties.                                         *)

\* A cancellation that was accepted is carried out, across lease changes and
\* process stops: the outbox command is repeated until it was.
CancellationIsHonoured == \A r \in Run : run[r].cancel ~> Done(run, r)

\* An accepted Run is worked on until it ends or waits for something: no queued Run
\* starves and no RUNNING one is stranded, across lease changes and process stops,
\* unless an ambiguous call holds the Session back.
AcceptedRunProceeds ==
    \A r \in Run : run[r].status \in {"queued", "running"} ~>
                      Done(run, r) \/ run[r].status = "waiting" \/ ~Admitted

\* A parent that waits for a specialist continues or ends, unless a call becomes
\* ambiguous: then the Session waits for its operator.
WaitingParentContinues ==
    \A r \in Run : run[r].wait \in Run ~> run[r].wait \notin Run \/ ~Admitted

=============================================================================
