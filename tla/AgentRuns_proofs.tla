-------------------------- MODULE AgentRuns_proofs --------------------------
(***************************************************************************)
(* Proofs about AgentRuns: type correctness, then the bookkeeping of       *)
(* delegation (what a Run is owed, what was delivered) and the rule of one *)
(* foreground Run, for any number of processes, Runs and faults.           *)
(***************************************************************************)
EXTENDS AgentRuns, TLAPS

Rows == [Run -> RunRow]
Wait == Run \cup {NoRun, "tool_recovery"}

-----------------------------------------------------------------------------
(* The helpers keep to the types.                                          *)

LEMMA StageNames ==
    /\ "idle" \in Stage /\ "renewing" \in Stage /\ "recovering" \in Stage
    /\ "stopping" \in Stage /\ "canceling" \in Stage /\ "requesting" \in Stage
    /\ "closing" \in Stage
BY DEF Stage

LEMMA PhaseNames ==
    /\ "none" \in Phase /\ "claimed" \in Phase /\ "reconciling" \in Phase
    /\ "running" \in Phase /\ "calling" \in Phase /\ "called" \in Phase
    /\ "waiting" \in Phase /\ "failing" \in Phase /\ "failed" \in Phase
    /\ "recovering" \in Phase /\ "suspending" \in Phase /\ "aborting" \in Phase
    /\ "yielding" \in Phase
BY DEF Phase

LEMMA StatusNames ==
    /\ "queued" \in Status /\ "running" \in Status /\ "waiting" \in Status
    /\ "succeeded" \in Status /\ "failed" \in Status /\ "canceled" \in Status
    /\ "tool_recovery" \in Trigger
BY DEF Status, Terminal, Trigger

LEMMA SetRunRows ==
    ASSUME NEW rows \in Rows, NEW r \in Run, NEW row \in RunRow
    PROVE  SetRun(rows, r, row) \in Rows
BY DEF SetRun, Rows

LEMMA NoAttemptType == NoAttempt \in Attempt
BY DEF Attempt, NoAttempt

LEMMA SetStatusRows ==
    ASSUME NEW rows \in Rows, NEW r \in Run, NEW status \in Status, NEW wait \in Wait
    PROVE  SetStatus(rows, r, status, wait) \in Rows
<1>1. [rows[r] EXCEPT !.status = status, !.wait = wait, !.attempt = NoAttempt] \in RunRow
  BY NoAttemptType DEF Rows, RunRow, Wait
<1> QED
  BY <1>1, SetRunRows DEF SetStatus

LEMMA DiscardRows ==
    ASSUME NEW rows \in Rows, NEW p \in Run
    PROVE  Discard(rows, p) \in Rows
BY DEF Discard, Rows, RunRow

LEMMA DeliverRows ==
    ASSUME NEW rows \in Rows, NEW c \in Run
    PROVE  Deliver(rows, c) \in Rows
BY DEF Deliver, Rows, RunRow, Status, Trigger

LEMMA DeliverFinishedRows ==
    ASSUME NEW rows \in Rows, NEW p \in Run
    PROVE  DeliverFinished(rows, p) \in Rows
<1>1. CASE rows[p].wait \in Undelivered(rows, p) /\ Done(rows, rows[p].wait)
  <2>1. rows[p].wait \in Run
    BY <1>1 DEF Undelivered
  <2> QED
    BY <1>1, <2>1, DeliverRows DEF DeliverFinished
<1>2. CASE ~(rows[p].wait \in Undelivered(rows, p) /\ Done(rows, rows[p].wait))
  BY <1>2 DEF DeliverFinished
<1> QED
  BY <1>1, <1>2

LEMMA MarkRows ==
    ASSUME NEW rows \in Rows, NEW R
    PROVE  Mark(rows, R) \in Rows
BY DEF Mark, Rows, RunRow

LEMMA RequestCancelsType ==
    ASSUME TypeOK, NEW R \in SUBSET Run, RequestCancels(R)
    PROVE  /\ run' \in Rows
           /\ commands' \subseteq Run \cup Sweep
           /\ requested' \subseteq Sweep
BY MarkRows DEF TypeOK, Rows, RequestCancels

LEMMA SetSupType ==
    ASSUME TypeOK, NEW s \in Supervisor, NEW q \in Sup, SetSup(s, q)
    PROVE  sup' \in [Supervisor -> Sup]
BY DEF TypeOK, SetSup

LEMMA SetTaskType ==
    ASSUME TypeOK, NEW s \in Supervisor, NEW r \in Run, NEW t \in Task, SetTask(s, r, t)
    PROVE  task' \in [Supervisor -> [Run -> Task]]
BY DEF TypeOK, SetTask

LEMMA GotoType ==
    ASSUME TypeOK, NEW s \in Supervisor, NEW r \in Run, NEW phase \in Phase,
           Goto(s, r, phase)
    PROVE  task' \in [Supervisor -> [Run -> Task]]
<1>1. [task[s][r] EXCEPT !.phase = phase] \in Task
  BY DEF TypeOK, Task
<1> QED
  BY <1>1, SetTaskType DEF Goto

LEMMA NoTaskType == NoTask \in Task
BY DEF NoTask, Task, Phase

LEMMA CanceledType ==
    ASSUME NEW t \in Task
    PROVE  Canceled(t) \in Task
BY DEF Canceled, Task, NoTask, Phase

LEMMA YieldAllType ==
    ASSUME TypeOK, NEW s \in Supervisor, YieldAll(s)
    PROVE  task' \in [Supervisor -> [Run -> Task]]
BY CanceledType DEF TypeOK, YieldAll

LEMMA InitType == Init => TypeOK
BY SupervisorAssumption, RunAssumption
   DEF Init, Fresh, TypeOK, Rows, RunRow, Status, Terminal, Trigger, Attempt, NoAttempt,
       Sup, Stage, Task, NoTask, Phase

-----------------------------------------------------------------------------
(* Every action keeps to the types.                                        *)

LEMMA EnqueueRunType ==
    ASSUME TypeOK, NEW r \in Run, EnqueueRun(r)
    PROVE  TypeOK'
<1>1. run[r] \in RunRow
  BY DEF TypeOK
<1>2. [run[r] EXCEPT !.status = "queued"] \in RunRow
  BY <1>1, StatusNames DEF RunRow
<1> QED
  BY <1>2, SetRunRows DEF TypeOK, Rows, EnqueueRun, toolVars, commandVars

LEMMA RequestSessionCancelType ==
    ASSUME TypeOK, NEW sweep \in Sweep, RequestSessionCancel(sweep)
    PROVE  TypeOK'
<1> QED
  BY MarkRows DEF TypeOK, Rows, RequestSessionCancel, toolVars

LEMMA RequestInterruptType ==
    ASSUME TypeOK, NEW r \in Run, RequestInterrupt(r)
    PROVE  TypeOK'
<1> QED
  BY RequestCancelsType DEF TypeOK, Rows, RequestInterrupt, toolVars

LEMMA RequestChildCancelType ==
    ASSUME TypeOK, NEW r \in Run, RequestChildCancel(r)
    PROVE  TypeOK'
<1> QED
  BY RequestCancelsType DEF TypeOK, Rows, RequestChildCancel, toolVars

LEMMA ResolveType ==
    ASSUME TypeOK, NEW r \in Run, Resolve(r)
    PROVE  TypeOK'
<1> DEFINE resumed(q) == [run[q] EXCEPT !.status = "queued", !.wait = NoRun,
                                        !.trigger = "tool_recovery"]
<1>1. ASSUME NEW q \in Run
      PROVE  resumed(q) \in RunRow /\ run[q] \in RunRow
  <2>1. run[q] \in RunRow
    BY DEF TypeOK
  <2> QED
    BY <2>1, StatusNames DEF RunRow
<1>2. UNCHANGED <<calls, commands, requested, lease, sup, task>>
  BY DEF Resolve, commandVars
<1>3. journal' \in [Run -> {"clear", "running", "recovery_required"}]
  BY DEF TypeOK, Resolve
<1>4. \/ UNCHANGED run
      \/ \E R \in SUBSET Run :
            run' = [q \in Run |-> IF q \in R THEN resumed(q) ELSE run[q]]
  BY DEF Resolve
<1> HIDE DEF resumed
<1>5. run' \in [Run -> RunRow]
  BY <1>1, <1>4 DEF TypeOK
<1> QED
  BY <1>2, <1>3, <1>5 DEF TypeOK

LEMMA ExpireType ==
    ASSUME TypeOK, Expire
    PROVE  TypeOK'
<1>1. ASSUME NEW s \in Supervisor
      PROVE  [sup[s] EXCEPT !.stale = sup[s].stage = "renewing"] \in Sup
  <2>1. sup[s] \in Sup
    BY DEF TypeOK
  <2> QED
    BY <2>1 DEF Sup
<1> QED
  BY <1>1 DEF TypeOK, Expire, toolVars, commandVars

LEMMA BeginRenewType ==
    ASSUME TypeOK, NEW s \in Supervisor, BeginRenew(s)
    PROVE  TypeOK'
<1>1. sup[s] \in Sup
  BY DEF TypeOK
<1>2. [sup[s] EXCEPT !.stage = "renewing", !.stale = FALSE] \in Sup
  BY <1>1, StageNames DEF Sup
<1> QED
  BY <1>1, <1>2, SetSupType DEF TypeOK, Rows, BeginRenew, toolVars, commandVars

LEMMA RenewKeepsType ==
    ASSUME TypeOK, NEW s \in Supervisor, RenewKeeps(s)
    PROVE  TypeOK'
<1>1. sup[s] \in Sup /\ lease.token \in Nat
  BY DEF TypeOK
<1>2. [sup[s] EXCEPT !.stage = "idle", !.token = lease.token] \in Sup
  BY <1>1, StageNames DEF Sup
<1> QED
  BY <1>1, <1>2, SetSupType, YieldAllType DEF TypeOK, Rows, RenewKeeps, toolVars, commandVars

LEMMA RenewTakesType ==
    ASSUME TypeOK, NEW s \in Supervisor, RenewTakes(s)
    PROVE  TypeOK'
<1>1. sup[s] \in Sup /\ lease.token \in Nat
  BY DEF TypeOK
<1>2. lease.token + 1 \in Nat
  BY <1>1
<1>3. [sup[s] EXCEPT !.stage = "idle", !.token = lease.token + 1] \in Sup
  BY <1>1, <1>2, StageNames DEF Sup
<1> QED
  BY <1>2, <1>3, SetSupType, YieldAllType DEF TypeOK, Rows, RenewTakes, toolVars, commandVars

LEMMA RenewRefusedType ==
    ASSUME TypeOK, NEW s \in Supervisor, RenewRefused(s)
    PROVE  TypeOK'
<1>1. sup[s] \in Sup
  BY DEF TypeOK
<1>2. [sup[s] EXCEPT !.stage = "idle", !.token = 0] \in Sup
  BY <1>1, StageNames DEF Sup
<1> QED
  BY <1>1, <1>2, SetSupType, YieldAllType DEF TypeOK, Rows, RenewRefused, toolVars, commandVars

LEMMA BeginRecoverType ==
    ASSUME TypeOK, NEW s \in Supervisor, BeginRecover(s)
    PROVE  TypeOK'
<1>1. sup[s] \in Sup
  BY DEF TypeOK
<1>2. [sup[s] EXCEPT !.stage = "recovering",
                   !.todo = {r \in Run : run[r].attempt.running}] \in Sup
  BY <1>1, StageNames DEF Sup
<1> QED
  BY <1>1, <1>2, SetSupType DEF TypeOK, Rows, BeginRecover, toolVars, commandVars

LEMMA RecoverRunType ==
    ASSUME TypeOK, NEW s \in Supervisor, NEW r \in Run, RecoverRun(s, r)
    PROVE  TypeOK'
<1>1. sup[s] \in Sup /\ run \in Rows
  BY DEF TypeOK, Rows
<1>2. [sup[s] EXCEPT !.todo = @ \ {r}] \in Sup
  BY <1>1, StageNames DEF Sup
<1>3. Requeue(run, r) \in Rows
  BY <1>1, SetStatusRows DEF Requeue, Status, Wait
<1> QED
  BY <1>1, <1>2, <1>3, SetSupType DEF TypeOK, Rows, RecoverRun, toolVars, commandVars

LEMMA EndRecoverType ==
    ASSUME TypeOK, NEW s \in Supervisor, EndRecover(s)
    PROVE  TypeOK'
<1>1. sup[s] \in Sup
  BY DEF TypeOK
<1>2. [sup[s] EXCEPT !.stage = "idle", !.recovered = sup[s].token] \in Sup
  BY <1>1, StageNames DEF Sup
<1> QED
  BY <1>1, <1>2, SetSupType DEF TypeOK, Rows, EndRecover, toolVars, commandVars

LEMMA ClaimType ==
    ASSUME TypeOK, NEW s \in Supervisor, NEW r \in Run, Claim(s, r)
    PROVE  TypeOK'
<1>1. sup[s] \in Sup /\ run[r] \in RunRow
  BY DEF TypeOK, Rows
<1>2. [run[r] EXCEPT !.status = "running",
                   !.attempt = [running |-> TRUE, owner |-> s, token |-> sup[s].token]]
         \in RunRow
  <2>1. [running |-> TRUE, owner |-> s, token |-> sup[s].token] \in Attempt
    BY <1>1 DEF Attempt, Sup
  <2> QED
    BY <1>1, <2>1, StatusNames DEF RunRow
<1>3. [NoTask EXCEPT !.phase = "claimed", !.token = sup[s].token] \in Task
  BY <1>1, PhaseNames DEF Task, NoTask, Sup
<1> QED
  BY <1>1, <1>2, <1>3, SetRunRows, SetTaskType DEF TypeOK, Rows, Claim, toolVars, commandVars

LEMMA BeginCancelType ==
    ASSUME TypeOK, NEW s \in Supervisor, NEW command \in commands, BeginCancel(s, command)
    PROVE  TypeOK'
<1>1. sup[s] \in Sup /\ command \in Run \cup Sweep
  BY DEF TypeOK
<1>2. Selected(command) \in SUBSET Run
  BY <1>1 DEF Selected, Open
<1>3. [sup[s] EXCEPT !.stage = "stopping", !.command = command,
                   !.todo = Selected(command)] \in Sup
  BY <1>1, <1>2, StageNames DEF Sup
<1> QED
  BY <1>3, SetSupType DEF TypeOK, Rows, BeginCancel, toolVars, commandVars

LEMMA StopTasksType ==
    ASSUME TypeOK, NEW s \in Supervisor, StopTasks(s)
    PROVE  TypeOK'
<1>1. sup[s] \in Sup
  BY DEF TypeOK
<1>2. [sup[s] EXCEPT !.stage = "canceling"] \in Sup
  BY <1>1, StageNames DEF Sup
<1>3. ASSUME NEW r \in Run
      PROVE  task[s][r] \in Task /\ [task[s][r] EXCEPT !.phase = "aborting"] \in Task
  <2>1. task[s][r] \in Task
    BY DEF TypeOK
  <2> QED
    BY <2>1, PhaseNames DEF Task
<1> QED
  BY <1>1, <1>2, <1>3, SetSupType, NoTaskType DEF TypeOK, Rows, StopTasks, toolVars, commandVars

LEMMA BeginCancelRunType ==
    ASSUME TypeOK, NEW s \in Supervisor, NEW r \in Run, BeginCancelRun(s, r)
    PROVE  TypeOK'
<1>1. sup[s] \in Sup
  BY DEF TypeOK
<1>2. [sup[s] EXCEPT !.stage = "requesting", !.current = r] \in Sup
  BY <1>1, StageNames DEF Sup
<1> QED
  BY <1>1, <1>2, SetSupType DEF TypeOK, Rows, BeginCancelRun, toolVars, commandVars

LEMMA CancelChildrenType ==
    ASSUME TypeOK, NEW s \in Supervisor, CancelChildren(s)
    PROVE  TypeOK'
<1>1. sup[s] \in Sup
  BY DEF TypeOK
<1>2. [sup[s] EXCEPT !.stage = "closing"] \in Sup
  BY <1>1, StageNames DEF Sup
<1>3. Cancelable(sup[s].current) \in SUBSET Run
  BY <1>1 DEF Cancelable, Undelivered
<1> QED
  BY <1>1, <1>2, <1>3, SetSupType, RequestCancelsType DEF TypeOK, Rows, CancelChildren, toolVars

LEMMA EndCancelType ==
    ASSUME TypeOK, NEW s \in Supervisor, EndCancel(s)
    PROVE  TypeOK'
<1>1. sup[s] \in Sup
  BY DEF TypeOK
<1>2. [sup[s] EXCEPT !.stage = "idle", !.command = NoRun] \in Sup
  BY <1>1, StageNames DEF Sup
<1> QED
  BY <1>1, <1>2, SetSupType DEF TypeOK, Rows, EndCancel, toolVars

LEMMA DriverFailsType ==
    ASSUME TypeOK, NEW s \in Supervisor, DriverFails(s)
    PROVE  TypeOK'
<1>1. sup[s] \in Sup
  BY DEF TypeOK
<1>2. [sup[s] EXCEPT !.stage = "idle", !.todo = {},
                   !.current = NoRun, !.command = NoRun] \in Sup
  BY <1>1, StageNames DEF Sup
<1> QED
  BY <1>1, <1>2, SetSupType DEF TypeOK, Rows, DriverFails, toolVars, commandVars

LEMMA BuildContextType ==
    ASSUME TypeOK, NEW s \in Supervisor, NEW r \in Run, BuildContext(s, r)
    PROVE  TypeOK'
<1>1. task[s][r] \in Task
  BY DEF TypeOK, Rows
<1>2. \A c \in Run \cup {NoRun} :
         [task[s][r] EXCEPT !.phase = "reconciling", !.wait = c] \in Task
  BY <1>1, PhaseNames DEF Task
<1> QED
  BY <1>1, <1>2, SetTaskType DEF TypeOK, Rows, BuildContext, toolVars, commandVars

LEMMA ReconcileType ==
    ASSUME TypeOK, NEW s \in Supervisor, NEW r \in Run, Reconcile(s, r)
    PROVE  TypeOK'
<1> QED
  BY GotoType DEF TypeOK, Rows, Reconcile, Phase, commandVars

LEMMA StartCallType ==
    ASSUME TypeOK, NEW s \in Supervisor, NEW r \in Run, StartCall(s, r)
    PROVE  TypeOK'
<1>1. task[s][r] \in Task /\ calls[r] \in Nat
  BY DEF TypeOK, Rows
<1>2. calls[r] + 1 \in Nat
  BY <1>1
<1>3. [task[s][r] EXCEPT !.phase = "calling", !.call = calls[r] + 1] \in Task
  BY <1>1, <1>2, PhaseNames DEF Task
<1> QED
  BY <1>2, <1>3, SetTaskType DEF TypeOK, Rows, StartCall, commandVars

LEMMA CreateChildType ==
    ASSUME TypeOK, NEW s \in Supervisor, NEW r \in Run, NEW c \in Child,
           CreateChild(s, r, c)
    PROVE  TypeOK'
<1>1. c \in Run
  BY DEF Run
<1>2. task[s][r] \in Task /\ run[c] \in RunRow
  BY <1>1 DEF TypeOK
<1>3. [run[c] EXCEPT !.status = "queued", !.parent = r] \in RunRow
  BY <1>2, StatusNames DEF RunRow
<1>4. [task[s][r] EXCEPT !.phase = "called", !.wait = c] \in Task
  BY <1>1, <1>2, PhaseNames DEF Task
<1> QED
  BY <1>1, <1>3, <1>4, SetRunRows, SetTaskType
     DEF TypeOK, Rows, CreateChild, toolVars, commandVars

LEMMA CallReturnsType ==
    ASSUME TypeOK, NEW s \in Supervisor, NEW r \in Run, CallReturns(s, r)
    PROVE  TypeOK'
<1> QED
  BY GotoType DEF TypeOK, Rows, CallReturns, Phase, toolVars, commandVars

LEMMA CompleteCallType ==
    ASSUME TypeOK, NEW s \in Supervisor, NEW r \in Run, CompleteCall(s, r)
    PROVE  TypeOK'
<1> QED
  BY GotoType DEF TypeOK, Rows, CompleteCall, Phase, commandVars

LEMMA CallFailsType ==
    ASSUME TypeOK, NEW s \in Supervisor, NEW r \in Run, CallFails(s, r)
    PROVE  TypeOK'
<1> QED
  BY GotoType DEF TypeOK, Rows, CallFails, Phase, MarkAmbiguous, commandVars

LEMMA FinishType ==
    ASSUME TypeOK, NEW s \in Supervisor, NEW r \in Run, Finish(s, r)
    PROVE  TypeOK'
<1>1. run \in Rows
  BY DEF TypeOK, Rows
<1>2. Deliver(SetStatus(Discard(run, r), r, "succeeded", NoRun), r) \in Rows
  BY <1>1, DiscardRows, SetStatusRows, DeliverRows DEF Status, Terminal, Wait
<1> QED
  BY <1>1, <1>2, SetTaskType, NoTaskType DEF TypeOK, Rows, Finish, toolVars, commandVars

LEMMA FinishWaitingType ==
    ASSUME TypeOK, NEW s \in Supervisor, NEW r \in Run, FinishWaiting(s, r)
    PROVE  TypeOK'
<1>1. task[s][r] \in Task /\ run \in Rows
  BY DEF TypeOK, Rows
<1>2. task[s][r].wait \in Wait
  BY <1>1 DEF Task, Wait
<1>3. SetStatus(run, r, "waiting", task[s][r].wait) \in Rows
  BY <1>1, <1>2, StatusNames, SetStatusRows
<1>4. DeliverFinished(SetStatus(run, r, "waiting", task[s][r].wait), r) \in Rows
  BY <1>3, DeliverFinishedRows
<1> QED
  BY <1>4, SetTaskType, NoTaskType DEF TypeOK, Rows, FinishWaiting, toolVars, commandVars

LEMMA RaiseType ==
    ASSUME TypeOK, NEW s \in Supervisor, NEW r \in Run, Raise(s, r)
    PROVE  TypeOK'
<1> QED
  BY GotoType DEF TypeOK, Rows, Raise, Phase, toolVars, commandVars

LEMMA AskChildrenType ==
    ASSUME TypeOK, NEW s \in Supervisor, NEW r \in Run, AskChildren(s, r)
    PROVE  TypeOK'
<1>2. Cancelable(r) \in SUBSET Run
  BY DEF Cancelable, Undelivered
<1> QED
  BY <1>2, GotoType, RequestCancelsType DEF TypeOK, Rows, AskChildren, Phase, toolVars

LEMMA FailRunType ==
    ASSUME TypeOK, NEW s \in Supervisor, NEW r \in Run, FailRun(s, r)
    PROVE  TypeOK'
<1>1. run \in Rows
  BY DEF TypeOK, Rows
<1>2. Deliver(SetStatus(Discard(run, r), r, "failed", NoRun), r) \in Rows
  BY <1>1, DiscardRows, SetStatusRows, DeliverRows DEF Status, Terminal, Wait
<1> QED
  BY <1>1, <1>2, SetTaskType, NoTaskType DEF TypeOK, Rows, FailRun, toolVars, commandVars

LEMMA WaitForToolRecoveryType ==
    ASSUME TypeOK, NEW s \in Supervisor, NEW r \in Run, WaitForToolRecovery(s, r)
    PROVE  TypeOK'
<1>1. run \in Rows
  BY DEF TypeOK, Rows
<1>2. SetStatus(Discard(run, r), r, "waiting", "tool_recovery") \in Rows
  BY <1>1, DiscardRows, SetStatusRows DEF Status, Wait
<1> QED
  BY <1>1, <1>2, SetTaskType, NoTaskType DEF TypeOK, Rows, WaitForToolRecovery, toolVars, commandVars

LEMMA TaskEndsType ==
    ASSUME TypeOK, NEW s \in Supervisor, NEW r \in Run, TaskEnds(s, r)
    PROVE  TypeOK'
<1> QED
  BY SetTaskType, NoTaskType DEF TypeOK, Rows, TaskEnds, toolVars, commandVars

LEMMA AbortCallType ==
    ASSUME TypeOK, NEW s \in Supervisor, NEW r \in Run, AbortCall(s, r)
    PROVE  TypeOK'
<1> QED
  BY SetTaskType, NoTaskType, GotoType DEF TypeOK, Rows, AbortCall, Phase, MarkAmbiguous, commandVars

LEMMA YieldTaskType ==
    ASSUME TypeOK, NEW s \in Supervisor, NEW r \in Run, YieldTask(s, r)
    PROVE  TypeOK'
<1>1. run \in Rows
  BY DEF TypeOK, Rows
<1>2. Requeue(run, r) \in Rows
  BY <1>1, SetStatusRows DEF Requeue, Status, Wait
<1> QED
  BY <1>1, <1>2, SetTaskType, NoTaskType DEF TypeOK, Rows, YieldTask, toolVars, commandVars

LEMMA ShutdownType ==
    ASSUME TypeOK, NEW s \in Supervisor, Shutdown(s)
    PROVE  TypeOK'
<1>1. sup[s] \in Sup
  BY DEF TypeOK
<1>2. [sup[s] EXCEPT !.state = "stopping", !.stage = "idle", !.todo = {},
                   !.current = NoRun, !.command = NoRun, !.stops = sup[s].stops] \in Sup
  BY <1>1, StageNames DEF Sup
<1> QED
  BY <1>1, <1>2, SetSupType, YieldAllType DEF TypeOK, Rows, Shutdown, StopDriver, toolVars, commandVars

LEMMA ExitType ==
    ASSUME TypeOK, NEW s \in Supervisor, Exit(s)
    PROVE  TypeOK'
<1>1. sup[s] \in Sup
  BY DEF TypeOK
<1>2. [sup[s] EXCEPT !.state = "down", !.stage = "idle", !.todo = {},
                   !.current = NoRun, !.command = NoRun, !.stops = sup[s].stops + 1] \in Sup
  <2>1. ASSUME NEW n \in Nat
        PROVE  [sup[s] EXCEPT !.state = "down", !.stage = "idle", !.todo = {},
                          !.current = NoRun, !.command = NoRun, !.stops = n] \in Sup
    BY <1>1, StageNames DEF Sup
  <2>2. sup[s].stops + 1 \in Nat
    BY <1>1 DEF Sup
  <2> QED
    BY <2>1, <2>2
<1>3. /\ SetSup(s, [sup[s] EXCEPT !.state = "down", !.stage = "idle", !.todo = {},
                       !.current = NoRun, !.command = NoRun, !.stops = sup[s].stops + 1])
      /\ task' = [task EXCEPT ![s] = [r \in Run |-> NoTask]]
      /\ UNCHANGED <<run, journal, calls, commands, requested>>
  BY DEF Exit, StopDriver, toolVars, commandVars
<1>4. sup' \in [Supervisor -> Sup]
  BY <1>2, <1>3 DEF TypeOK, SetSup
<1>5. task' \in [Supervisor -> [Run -> Task]]
  BY <1>3, NoTaskType DEF TypeOK
<1>6. lease' \in [owner : Supervisor \cup {Nobody}, token : Nat, live : BOOLEAN]
  BY DEF Exit, TypeOK
<1> QED
  BY <1>3, <1>4, <1>5, <1>6 DEF TypeOK

LEMMA FreshType ==
    ASSUME NEW n \in Nat
    PROVE  Fresh(n) \in Sup
BY StageNames DEF Fresh, Sup

LEMMA RestartType ==
    ASSUME TypeOK, NEW s \in Supervisor, Restart(s)
    PROVE  TypeOK'
<1>1. Fresh(sup[s].stops) \in Sup
  BY FreshType DEF TypeOK, Sup
<1> QED
  BY <1>1, SetSupType DEF TypeOK, Rows, Restart, toolVars, commandVars

LEMMA CancelRunType ==
    ASSUME TypeOK, NEW s \in Supervisor, sup[s].current \in Run, CancelRun(s)
    PROVE  TypeOK'
<1> DEFINE r == sup[s].current
           ended == Mark(SetStatus(Discard(run, r), r, "canceled", NoRun), {r})
<1>1. sup[s] \in Sup /\ run \in Rows /\ r \in Run
  BY DEF TypeOK, Rows
<1>2. [sup[s] EXCEPT !.stage = "canceling", !.current = NoRun, !.todo = @ \ {r}] \in Sup
  BY <1>1, StageNames DEF Sup
<1>3. NoRun \in Wait
  BY DEF Wait
<1>4. ended \in Rows
  BY <1>1, <1>3, StatusNames, DiscardRows, SetStatusRows, MarkRows
<1>5. Deliver(ended, r) \in Rows
  BY <1>1, <1>4, DeliverRows
<1>6. run' = run \/ run' = ended \/ run' = Deliver(ended, r)
  BY DEF CancelRun
<1>7. SetSup(s, [sup[s] EXCEPT !.stage = "canceling", !.current = NoRun, !.todo = @ \ {r}])
  BY DEF CancelRun
<1>8. UNCHANGED <<journal, calls, commands, requested, lease, task>>
  BY DEF CancelRun, toolVars, commandVars
<1> HIDE DEF r, ended
<1> QED
  BY <1>2, <1>4, <1>5, <1>6, <1>7, <1>8, SetSupType DEF TypeOK, Rows

-----------------------------------------------------------------------------
(* CancelRun works on a Run: TypeOK is inductive together with CurrentIsRun. *)

CurrentIsRun ==
    \A s \in Supervisor :
        sup[s].stage \in {"requesting", "closing"} => sup[s].current \in Run

TypeInv == TypeOK /\ CurrentIsRun

LEMMA InitTypeInv == Init => TypeInv
BY InitType DEF Init, Fresh, TypeInv, CurrentIsRun

\* A process that stops, or is started, has nothing at hand.
LEMMA StoppedDriver ==
    ASSUME TypeOK, NEW s \in Supervisor, Shutdown(s) \/ Exit(s) \/ Restart(s)
    PROVE  \E q \in Sup : SetSup(s, q) /\ q.stage = "idle" /\ q.command = NoRun
<1>1. sup[s] \in Sup /\ sup[s].stops \in Nat
  BY DEF TypeOK, Sup
<1>2. ASSUME NEW state \in {"up", "stopping", "down"}, NEW n \in Nat,
             StopDriver(s, state, n)
      PROVE  \E q \in Sup : SetSup(s, q) /\ q.stage = "idle" /\ q.command = NoRun
  <2> DEFINE q == [sup[s] EXCEPT !.state = state, !.stage = "idle", !.todo = {},
                                 !.current = NoRun, !.command = NoRun, !.stops = n]
  <2>1. q \in Sup /\ q.stage = "idle" /\ q.command = NoRun
    BY <1>1, StageNames DEF Sup
  <2>2. SetSup(s, q)
    BY <1>2 DEF StopDriver
  <2> QED
    BY <2>1, <2>2
<1>3. CASE Restart(s)
  <2>1. Fresh(sup[s].stops) \in Sup
    BY <1>1, FreshType
  <2>2. SetSup(s, Fresh(sup[s].stops))
    BY <1>3 DEF Restart
  <2> QED
    BY <2>1, <2>2 DEF Fresh
<1> QED
  BY <1>1, <1>2, <1>3 DEF Shutdown, Exit

LEMMA NextTypeOK ==
    ASSUME TypeInv, [Next]_vars
    PROVE  TypeOK'
<1> USE DEF TypeInv
<1>1. CASE UNCHANGED vars
  BY <1>1 DEF TypeOK, vars
<1>2. ASSUME NEW sweep \in Sweep, RequestSessionCancel(sweep)
      PROVE  TypeOK'
  BY <1>2, RequestSessionCancelType
<1>3. ASSUME NEW r \in Run, Request(r)
      PROVE  TypeOK'
  BY <1>3, EnqueueRunType, RequestInterruptType, RequestChildCancelType, ResolveType
     DEF Request
<1>4. CASE Expire
  BY <1>4, ExpireType
<1>5. ASSUME NEW s \in Supervisor, DriverStep(s)
      PROVE  TypeOK'
  <2>1. CASE CancelRun(s)
    BY <2>1, CancelRunType DEF CurrentIsRun, CancelRun
  <2> QED
    BY <1>5, <2>1, BeginRenewType, RenewKeepsType, RenewTakesType, RenewRefusedType,
       BeginRecoverType, RecoverRunType, EndRecoverType, BeginCancelType, StopTasksType,
       BeginCancelRunType, CancelChildrenType, EndCancelType, DriverFailsType
       DEF DriverStep
<1>6. ASSUME NEW s \in Supervisor, NEW r \in Run, Claim(s, r) \/ TaskStep(s, r)
      PROVE  TypeOK'
  BY <1>6, ClaimType, BuildContextType, ReconcileType, StartCallType, CreateChildType,
     CallReturnsType, CompleteCallType, CallFailsType, FinishType, FinishWaitingType,
     RaiseType, AskChildrenType, FailRunType, WaitForToolRecoveryType, TaskEndsType,
     AbortCallType, YieldTaskType
     DEF TaskStep
<1>7. ASSUME NEW s \in Supervisor, Shutdown(s) \/ Exit(s) \/ Restart(s)
      PROVE  TypeOK'
  BY <1>7, ShutdownType, ExitType, RestartType
<1> QED
  BY <1>1, <1>2, <1>3, <1>4, <1>5, <1>6, <1>7 DEF Next

LEMMA SetSupCurrent ==
    ASSUME TypeInv, NEW s \in Supervisor, NEW q, SetSup(s, q),
           q.stage \in {"requesting", "closing"} => q.current \in Run
    PROVE  CurrentIsRun'
BY DEF TypeInv, TypeOK, CurrentIsRun, SetSup

LEMMA DriverCurrent ==
    ASSUME TypeInv, NEW s \in Supervisor, DriverStep(s)
    PROVE  CurrentIsRun'
<1>1. sup[s] \in Sup
  BY DEF TypeInv, TypeOK
<1>2. CurrentIsRun
  BY DEF TypeInv
<1> QED
  <2>1. CASE BeginRenew(s)
    BY <1>1, <1>2, <2>1, SetSupCurrent DEF BeginRenew, Sup, CurrentIsRun
  <2>2. CASE RenewKeeps(s)
    BY <1>1, <1>2, <2>2, SetSupCurrent DEF RenewKeeps, Sup, CurrentIsRun
  <2>3. CASE RenewTakes(s)
    BY <1>1, <1>2, <2>3, SetSupCurrent DEF RenewTakes, Sup, CurrentIsRun
  <2>4. CASE RenewRefused(s)
    BY <1>1, <1>2, <2>4, SetSupCurrent DEF RenewRefused, Sup, CurrentIsRun
  <2>5. CASE BeginRecover(s)
    BY <1>1, <1>2, <2>5, SetSupCurrent DEF BeginRecover, Sup, CurrentIsRun
  <2>6. ASSUME NEW r \in Run, RecoverRun(s, r)
       PROVE  CurrentIsRun'
    BY <1>1, <1>2, <2>6, SetSupCurrent DEF RecoverRun, Sup, CurrentIsRun
  <2>7. CASE EndRecover(s)
    BY <1>1, <1>2, <2>7, SetSupCurrent DEF EndRecover, Sup, CurrentIsRun
  <2>8. ASSUME NEW command \in commands, BeginCancel(s, command)
       PROVE  CurrentIsRun'
    BY <1>1, <1>2, <2>8, SetSupCurrent DEF BeginCancel, Sup, CurrentIsRun
  <2>9. CASE StopTasks(s)
    BY <1>1, <1>2, <2>9, SetSupCurrent DEF StopTasks, Sup, CurrentIsRun
  <2>10. ASSUME NEW r \in Run, BeginCancelRun(s, r)
       PROVE  CurrentIsRun'
    BY <1>1, <1>2, <2>10, SetSupCurrent DEF BeginCancelRun, Sup, CurrentIsRun
  <2>11. CASE CancelChildren(s)
    BY <1>1, <1>2, <2>11, SetSupCurrent DEF CancelChildren, Sup, CurrentIsRun
  <2>12. CASE CancelRun(s)
    BY <1>1, <1>2, <2>12, SetSupCurrent DEF CancelRun, Sup, CurrentIsRun
  <2>13. CASE EndCancel(s)
    BY <1>1, <1>2, <2>13, SetSupCurrent DEF EndCancel, Sup, CurrentIsRun
  <2>14. CASE DriverFails(s)
    BY <1>1, <1>2, <2>14, SetSupCurrent DEF DriverFails, Sup, CurrentIsRun
  <2> QED
    BY <2>1, <2>2, <2>3, <2>4, <2>5, <2>6, <2>7, <2>8, <2>9, <2>10, <2>11, <2>12, <2>13, <2>14 DEF DriverStep

LEMMA NextCurrent ==
    ASSUME TypeInv, [Next]_vars
    PROVE  CurrentIsRun'
<1>1. ASSUME UNCHANGED sup
      PROVE  CurrentIsRun'
  BY <1>1 DEF TypeInv, CurrentIsRun
<1>2. CASE Expire
  <2>1. \A s \in Supervisor :
           sup'[s].stage = sup[s].stage /\ sup'[s].current = sup[s].current
    BY <1>2 DEF TypeInv, TypeOK, Sup, Expire
  <2> QED
    BY <2>1 DEF TypeInv, CurrentIsRun
<1>3. ASSUME NEW s \in Supervisor, Shutdown(s) \/ Exit(s) \/ Restart(s)
      PROVE  CurrentIsRun'
  <2>1. sup[s] \in Sup
    BY DEF TypeInv, TypeOK
  <2> QED
    BY <1>3, <2>1, SetSupCurrent DEF Shutdown, Exit, Restart, StopDriver, Sup, Fresh
<1>4. ASSUME NEW sweep \in Sweep, RequestSessionCancel(sweep)
      PROVE  UNCHANGED sup
  BY <1>4 DEF RequestSessionCancel
<1>5. ASSUME NEW r \in Run, Request(r)
      PROVE  UNCHANGED sup
  BY <1>5 DEF Request, EnqueueRun, RequestInterrupt, RequestChildCancel, Resolve
<1>6. ASSUME NEW s \in Supervisor, NEW r \in Run, Claim(s, r) \/ TaskStep(s, r)
      PROVE  UNCHANGED sup
  BY <1>6 DEF Claim, TaskStep, BuildContext, Reconcile, StartCall, CreateChild,
     CallReturns, CompleteCall, CallFails, Finish, FinishWaiting, Raise, AskChildren,
     FailRun, WaitForToolRecovery, TaskEnds, AbortCall, YieldTask
<1>7. CASE UNCHANGED vars
  BY <1>1, <1>7 DEF vars
<1> QED
  BY <1>1, <1>2, <1>3, <1>4, <1>5, <1>6, <1>7, DriverCurrent DEF Next

\* Every variable of the supervisors keeps its type, for any number of processes,
\* Runs and faults, and whatever the bounds.
THEOREM TypeCorrect == Spec => []TypeOK
<1>1. Init => TypeInv
  BY InitTypeInv
<1>2. TypeInv /\ [Next]_vars => TypeInv'
  BY NextTypeOK, NextCurrent DEF TypeInv
<1>3. TypeInv => TypeOK
  BY DEF TypeInv
<1> QED
  BY <1>1, <1>2, <1>3, PTL DEF Spec

-----------------------------------------------------------------------------
(* The ledger of a Session: which results are owed, delivered or dropped,  *)
(* and which foreground Run is at work.  It is stated of any rows, so that *)
(* a transaction made of several helpers can be followed helper by helper. *)

Front(rows) == {r \in Root : rows[r].status \in {"running", "waiting"}}

Ledger(rows) ==
    /\ \A p \in Run : \A c, d \in Undelivered(rows, p) : c = d
    /\ \A p \in Run : Done(rows, p) => Undelivered(rows, p) = {}
    /\ \A c \in Run : rows[c].disposition = "delivered" => Done(rows, c)
    /\ \A q, r \in Front(rows) : q = r

LEMMA LedgerMeaning ==
    Ledger(run) <=> /\ OneResultOwed
                    /\ EndedRunIsOwedNothing
                    /\ DeliveredRunIsDone
                    /\ OneForegroundRun
BY DEF Ledger, Front, OneResultOwed, EndedRunIsOwedNothing, DeliveredRunIsDone,
       OneForegroundRun

\* A change that ends no Run, brings none to the front, makes no child and takes
\* back no disposition, and delivers only results of Runs that ended.
Quiet(rows, new) ==
    \A r \in Run :
        /\ new[r].parent = rows[r].parent
        /\ rows[r].disposition # "none" => new[r].disposition = rows[r].disposition
        /\ new[r].disposition = "delivered" =>
               rows[r].disposition = "delivered" \/ Done(rows, r)
        /\ Done(new, r) <=> Done(rows, r)
        /\ new[r].status \in {"running", "waiting"} =>
               rows[r].status \in {"running", "waiting"}

LEMMA QuietKeepsLedger ==
    ASSUME NEW rows, NEW new, Ledger(rows), Quiet(rows, new)
    PROVE  Ledger(new)
<1>1. \A p \in Run : Undelivered(new, p) \subseteq Undelivered(rows, p)
  BY DEF Quiet, Undelivered
<1>2. Front(new) \subseteq Front(rows)
  BY DEF Quiet, Front, Run
<1>3. \A c \in Run : new[c].disposition = "delivered" => Done(new, c)
  BY DEF Quiet, Ledger
<1>4. \A p \in Run : Done(new, p) => Undelivered(new, p) = {}
  BY <1>1 DEF Quiet, Ledger
<1> QED
  BY <1>1, <1>2, <1>3, <1>4 DEF Ledger

\* The end of a Run: what it was owed is dropped with it.
LEMMA EndKeepsLedger ==
    ASSUME NEW rows \in Rows, Ledger(rows), NEW r \in Run, ~Done(rows, r),
           NEW status \in Terminal
    PROVE  /\ Ledger(SetStatus(Discard(rows, r), r, status, NoRun))
           /\ Done(SetStatus(Discard(rows, r), r, status, NoRun), r)
<1> DEFINE new == SetStatus(Discard(rows, r), r, status, NoRun)
<1>1. /\ new[r].status = status
      /\ \A q \in Run : /\ new[q].parent = rows[q].parent
                        /\ q # r => new[q].status = rows[q].status
                        /\ new[q].disposition =
                             IF q \in Undelivered(rows, r) THEN "discarded"
                                                           ELSE rows[q].disposition
  BY DEF SetStatus, SetRun, Discard, Rows, RunRow
<1> HIDE DEF new
<1>2. Done(new, r) /\ \A q \in Run \ {r} : Done(new, q) <=> Done(rows, q)
  BY <1>1 DEF Done
<1>3. Undelivered(new, r) = {}
  BY <1>1 DEF Undelivered
<1>4. \A p \in Run : Undelivered(new, p) \subseteq Undelivered(rows, p)
  BY <1>1 DEF Undelivered
<1>5. Front(new) \subseteq Front(rows)
  BY <1>1 DEF Front, Run, Terminal
<1>6. \A c \in Run : new[c].disposition = "delivered" => Done(new, c)
  BY <1>1, <1>2 DEF Ledger
<1>7. \A p \in Run : Done(new, p) => Undelivered(new, p) = {}
  BY <1>2, <1>3, <1>4 DEF Ledger
<1>8. Ledger(new)
  BY <1>4, <1>5, <1>6, <1>7 DEF Ledger
<1> QED
  BY <1>2, <1>8 DEF new

LEMMA DeliverKeepsLedger ==
    ASSUME NEW rows \in Rows, Ledger(rows), NEW c \in Run, Done(rows, c)
    PROVE  Ledger(Deliver(rows, c))
<1>1. Quiet(rows, Deliver(rows, c))
  BY DEF Quiet, Deliver, Done, Rows, RunRow, Terminal
<1> QED
  BY <1>1, QuietKeepsLedger

LEMMA DeliverFinishedKeepsLedger ==
    ASSUME NEW rows \in Rows, Ledger(rows), NEW p \in Run
    PROVE  Ledger(DeliverFinished(rows, p))
<1>1. CASE rows[p].wait \in Undelivered(rows, p) /\ Done(rows, rows[p].wait)
  <2>1. rows[p].wait \in Run
    BY <1>1 DEF Undelivered
  <2> QED
    BY <1>1, <2>1, DeliverKeepsLedger DEF DeliverFinished
<1>2. CASE ~(rows[p].wait \in Undelivered(rows, p) /\ Done(rows, rows[p].wait))
  BY <1>2 DEF DeliverFinished
<1> QED
  BY <1>1, <1>2

LEMMA MarkKeepsLedger ==
    ASSUME NEW rows \in Rows, Ledger(rows), NEW R
    PROVE  Ledger(Mark(rows, R)) /\ \A r \in Run : Done(Mark(rows, R), r) <=> Done(rows, r)
<1>1. Quiet(rows, Mark(rows, R))
  BY DEF Quiet, Mark, Done, Rows, RunRow
<1> QED
  BY <1>1, QuietKeepsLedger DEF Quiet

\* A Run that was at work goes back to the queue or starts to wait.
LEMMA SetStatusKeepsLedger ==
    ASSUME NEW rows \in Rows, Ledger(rows), NEW r \in Run, rows[r].status = "running",
           NEW status \in {"queued", "waiting"}, NEW wait
    PROVE  Ledger(SetStatus(rows, r, status, wait))
<1>1. Quiet(rows, SetStatus(rows, r, status, wait))
  BY DEF Quiet, SetStatus, SetRun, Done, Rows, RunRow, Terminal
<1> QED
  BY <1>1, QuietKeepsLedger

LEMMA DiscardKeepsLedger ==
    ASSUME NEW rows \in Rows, Ledger(rows), NEW p \in Run
    PROVE  /\ Ledger(Discard(rows, p))
           /\ \A r \in Run : Discard(rows, p)[r].status = rows[r].status
<1>1. Quiet(rows, Discard(rows, p)) /\ \A r \in Run : Discard(rows, p)[r].status = rows[r].status
  BY DEF Quiet, Discard, Undelivered, Done, Rows, RunRow
<1> QED
  BY <1>1, QuietKeepsLedger

-----------------------------------------------------------------------------
(* Every step keeps the ledger.                                            *)

LEMMA RequestsKeepLedger ==
    ASSUME TypeInv, Ledger(run), NEW r \in Run, Request(r)
    PROVE  Ledger(run')
<1>1. run \in Rows
  BY DEF TypeInv, TypeOK, Rows
<1>2. CASE EnqueueRun(r)
  <2>1. Quiet(run, run')
    BY <1>1, <1>2 DEF EnqueueRun, Quiet, SetRun, Done, Rows, RunRow, Terminal
  <2> QED
    BY <2>1, QuietKeepsLedger
<1>3. CASE RequestInterrupt(r) \/ RequestChildCancel(r)
  BY <1>1, <1>3, MarkKeepsLedger DEF RequestInterrupt, RequestChildCancel, RequestCancels
<1>4. CASE Resolve(r)
  <2>1. ASSUME NEW q \in Run
        PROVE  \/ run'[q] = run[q]
               \/ /\ run[q].status = "waiting"
                  /\ run'[q] = [run[q] EXCEPT !.status = "queued", !.wait = NoRun,
                                             !.trigger = "tool_recovery"]
    BY <1>4 DEF Resolve
  <2>2. \A q \in Run : run[q] \in RunRow
    BY <1>1 DEF Rows
  <2>3. ASSUME NEW q \in Run
        PROVE  /\ run'[q].parent = run[q].parent
               /\ run'[q].disposition = run[q].disposition
               /\ \/ run'[q].status = run[q].status
                  \/ run[q].status = "waiting" /\ run'[q].status = "queued"
    <3>1. run[q] \in RunRow
      BY <2>2
    <3>2. CASE run'[q] = run[q]
      BY <3>2
    <3>3. CASE /\ run[q].status = "waiting"
               /\ run'[q] = [run[q] EXCEPT !.status = "queued", !.wait = NoRun,
                                          !.trigger = "tool_recovery"]
      BY <3>1, <3>3 DEF RunRow
    <3> QED
      BY <2>1, <3>2, <3>3
  <2>4. Quiet(run, run')
    BY <2>3 DEF Quiet, Done, Terminal
  <2> QED
    BY <2>4, QuietKeepsLedger
<1> QED
  BY <1>2, <1>3, <1>4 DEF Request

LEMMA DriverKeepsLedger ==
    ASSUME TypeInv, Ledger(run), NEW s \in Supervisor, DriverStep(s)
    PROVE  Ledger(run')
<1>1. run \in Rows
  BY DEF TypeInv, TypeOK, Rows
<1>2. ASSUME UNCHANGED run
      PROVE  Ledger(run')
  BY <1>2
<1>3. ASSUME NEW r \in Run, RecoverRun(s, r)
      PROVE  Ledger(run')
  BY <1>1, <1>3, SetStatusKeepsLedger DEF RecoverRun, Requeue
<1>4. CASE CancelChildren(s)
  BY <1>1, <1>4, MarkKeepsLedger DEF CancelChildren, RequestCancels
<1>5. CASE CancelRun(s)
  <2> DEFINE r == sup[s].current
             closed == SetStatus(Discard(run, r), r, "canceled", NoRun)
             ended == Mark(closed, {r})
  <2>1. r \in Run
    BY <1>5 DEF TypeInv, CurrentIsRun, CancelRun
  <2>2. run' = run \/ (~Done(run, r) /\ (run' = ended \/ run' = Deliver(ended, r)))
    BY <1>5 DEF CancelRun
  <2>3. CASE run' = run
    BY <2>3
  <2>4. CASE ~Done(run, r) /\ (run' = ended \/ run' = Deliver(ended, r))
    <3>1. Ledger(closed) /\ Done(closed, r)
      BY <1>1, <2>1, <2>4, EndKeepsLedger DEF Terminal
    <3>2. closed \in Rows
      BY <1>1, <2>1, StatusNames, DiscardRows, SetStatusRows DEF Wait
    <3>3. Ledger(ended) /\ Done(ended, r) /\ ended \in Rows
      BY <2>1, <3>1, <3>2, MarkKeepsLedger, MarkRows
    <3>4. Ledger(Deliver(ended, r))
      BY <2>1, <3>3, DeliverKeepsLedger
    <3> QED
      BY <2>4, <3>3, <3>4
  <2> QED
    BY <2>2, <2>3, <2>4
<1> QED
  BY <1>2, <1>3, <1>4, <1>5
     DEF DriverStep, BeginRenew, RenewKeeps, RenewTakes, RenewRefused, BeginRecover,
         EndRecover, BeginCancel, StopTasks, BeginCancelRun, EndCancel, DriverFails

LEMMA EndOfTaskKeepsLedger ==
    ASSUME TypeInv, Ledger(run), NEW s \in Supervisor, NEW r \in Run,
           NEW status \in {"succeeded", "failed"}, Fenced(s, r),
           run' = Deliver(SetStatus(Discard(run, r), r, status, NoRun), r)
    PROVE  Ledger(run')
<1> DEFINE ended == SetStatus(Discard(run, r), r, status, NoRun)
<1>1. run \in Rows /\ ~Done(run, r)
  BY DEF TypeInv, TypeOK, Rows, Fenced, Done, Terminal
<1>2. Ledger(ended) /\ Done(ended, r)
  BY <1>1, EndKeepsLedger DEF Terminal
<1>3. ended \in Rows
  BY <1>1, StatusNames, DiscardRows, SetStatusRows DEF Wait
<1> QED
  BY <1>2, <1>3, DeliverKeepsLedger

LEMMA ClaimKeepsLedger ==
    ASSUME TypeInv, Ledger(run), NEW s \in Supervisor, NEW r \in Run, Claim(s, r)
    PROVE  Ledger(run')
<1>1. run \in Rows
  BY DEF TypeInv, TypeOK, Rows
<1>2. \A q \in Run : /\ run'[q].parent = run[q].parent
                     /\ run'[q].disposition = run[q].disposition
                     /\ Done(run', q) <=> Done(run, q)
                     /\ q # r => run'[q].status = run[q].status
  BY <1>1 DEF Claim, SetRun, Done, Rows, RunRow, Terminal
<1>3. \A p \in Run : Undelivered(run', p) = Undelivered(run, p)
  BY <1>2 DEF Undelivered
<1>4. \A p, q \in Front(run') : p = q
  <2>1. CASE r \in Root
    BY <1>2, <2>1 DEF Claim, Front, Run
  <2>2. CASE r \notin Root
    BY <1>2, <2>2 DEF Front, Run, Ledger
  <2> QED
    BY <2>1, <2>2
<1> QED
  BY <1>2, <1>3, <1>4 DEF Ledger

\* The guard of create_child_run keeps the number of owed results at one.
LEMMA CreateChildKeepsLedger ==
    ASSUME TypeInv, Ledger(run), NEW s \in Supervisor, NEW r \in Run, NEW c \in Child,
           CreateChild(s, r, c)
    PROVE  Ledger(run')
<1>1. run \in Rows /\ c \in Run
  BY DEF TypeInv, TypeOK, Rows, Run
<1>2. /\ run'[c].parent = r /\ run'[c].status = "queued"
      /\ \A q \in Run : /\ run'[q].disposition = run[q].disposition
                        /\ q # c => run'[q] = run[q]
                        /\ Done(run', q) <=> Done(run, q)
  BY <1>1 DEF CreateChild, SetRun, Done, Rows, RunRow, Terminal
<1>3. Undelivered(run', r) \subseteq {c}
  BY <1>1, <1>2 DEF Undelivered, CreateChild
<1>4. \A p \in Run \ {r} : Undelivered(run', p) \subseteq Undelivered(run, p)
  BY <1>2 DEF Undelivered
<1>5. ~Done(run, r)
  BY DEF CreateChild, Done, Terminal
<1>6. \A p \in Run : \A d, e \in Undelivered(run', p) : d = e
  BY <1>3, <1>4 DEF Ledger
<1>7. \A p \in Run : Done(run', p) => Undelivered(run', p) = {}
  BY <1>2, <1>4, <1>5 DEF Ledger
<1>8. \A q \in Run : run'[q].disposition = "delivered" => Done(run', q)
  BY <1>2 DEF Ledger
<1>9. Front(run') \subseteq Front(run)
  BY <1>1, <1>2 DEF Front, Run
<1> QED
  BY <1>6, <1>7, <1>8, <1>9 DEF Ledger

LEMMA TasksKeepLedger ==
    ASSUME TypeInv, Ledger(run), NEW s \in Supervisor, NEW r \in Run, TaskStep(s, r)
    PROVE  Ledger(run')
<1>1. run \in Rows
  BY DEF TypeInv, TypeOK, Rows
<1>2. ASSUME UNCHANGED run
      PROVE  Ledger(run')
  BY <1>2
<1>3. CASE Finish(s, r)
  BY <1>3, EndOfTaskKeepsLedger DEF Finish
<1>4. CASE FailRun(s, r)
  BY <1>4, EndOfTaskKeepsLedger DEF FailRun
<1>5. CASE FinishWaiting(s, r)
  <2> DEFINE waiting == SetStatus(run, r, "waiting", task[s][r].wait)
  <2>1. run[r].status = "running" /\ task[s][r].wait \in Wait
    BY <1>5 DEF FinishWaiting, Fenced, TypeInv, TypeOK, Task, Wait
  <2>2. Ledger(waiting) /\ waiting \in Rows
    BY <1>1, <2>1, StatusNames, SetStatusKeepsLedger, SetStatusRows
  <2> QED
    BY <1>5, <2>2, DeliverFinishedKeepsLedger DEF FinishWaiting
<1>6. CASE WaitForToolRecovery(s, r)
  <2>1. Discard(run, r) \in Rows /\ Ledger(Discard(run, r))
    BY <1>1, DiscardRows, DiscardKeepsLedger
  <2>2. Discard(run, r)[r].status = "running"
    BY <1>1, <1>6, DiscardKeepsLedger DEF WaitForToolRecovery, Fenced
  <2> QED
    BY <1>6, <2>1, <2>2, SetStatusKeepsLedger DEF WaitForToolRecovery
<1>7. CASE AskChildren(s, r)
  BY <1>1, <1>7, MarkKeepsLedger DEF AskChildren, RequestCancels
<1>8. CASE YieldTask(s, r)
  BY <1>1, <1>8, SetStatusKeepsLedger DEF YieldTask, Requeue
<1> QED
  BY <1>2, <1>3, <1>4, <1>5, <1>6, <1>7, <1>8, CreateChildKeepsLedger
     DEF TaskStep, BuildContext, Reconcile, StartCall, CallReturns, CompleteCall,
         CallFails, Raise, TaskEnds, AbortCall

LEMMA NextLedger ==
    ASSUME TypeInv, Ledger(run), [Next]_vars
    PROVE  Ledger(run')
<1>1. CASE UNCHANGED vars
  BY <1>1 DEF vars
<1>2. ASSUME NEW sweep \in Sweep, RequestSessionCancel(sweep)
      PROVE  Ledger(run')
  BY <1>2, MarkKeepsLedger DEF RequestSessionCancel, TypeInv, TypeOK, Rows
<1>3. CASE Expire
  BY <1>3 DEF Expire
<1>4. ASSUME NEW s \in Supervisor, Shutdown(s) \/ Exit(s) \/ Restart(s)
      PROVE  Ledger(run')
  BY <1>4 DEF Shutdown, Exit, Restart
<1> QED
  BY <1>1, <1>2, <1>3, <1>4, RequestsKeepLedger, DriverKeepsLedger, ClaimKeepsLedger,
     TasksKeepLedger DEF Next

\* The ledger is inductive on top of the types.
THEOREM LedgerInvariant == Spec => [](TypeInv /\ Ledger(run))
<1>1. Init => TypeInv /\ Ledger(run)
  <2> SUFFICES ASSUME Init
               PROVE  Ledger(run)
    BY InitTypeInv
  <2>1. \A r \in Run : /\ run[r].status = "absent" /\ run[r].parent = NoRun
                       /\ run[r].disposition = "none"
    BY DEF Init
  <2>2. \A p \in Run : Undelivered(run, p) = {}
    BY <2>1, RunAssumption DEF Undelivered
  <2>3. Front(run) = {}
    BY <2>1 DEF Front, Run
  <2> QED
    BY <2>1, <2>2, <2>3 DEF Ledger
<1>2. TypeInv /\ Ledger(run) /\ [Next]_vars => (TypeInv /\ Ledger(run))'
  <2>1. ASSUME TypeInv, Ledger(run), [Next]_vars
        PROVE  TypeInv' /\ Ledger(run')
    BY <2>1, NextTypeOK, NextCurrent, NextLedger DEF TypeInv
  <2>2. Ledger(run)' <=> Ledger(run')
    BY DEF Ledger, Undelivered, Done, Front
  <2> QED
    BY <2>1, <2>2
<1> QED
  BY <1>1, <1>2, PTL DEF Spec

\* A Run is owed at most one child result, even when a deposed Attempt and its
\* successor both delegate (the guard of create_child_run, delegation.py 66-71).
THEOREM OneResultOwedAlways == Spec => []OneResultOwed
BY LedgerInvariant, LedgerMeaning, PTL

\* No Run ends while a child result is still owed to it: each one was delivered or
\* discarded by the time the Run is terminal.
THEOREM EndedRunIsOwedNothingAlways == Spec => []EndedRunIsOwedNothing
BY LedgerInvariant, LedgerMeaning, PTL

\* A result is delivered only after its Run ended, and a Run that ended stays so.
THEOREM DeliveredRunIsDoneAlways == Spec => []DeliveredRunIsDone
BY LedgerInvariant, LedgerMeaning, PTL

\* No two foreground Runs of a Session are at work, whichever process claims and
\* whatever it believes about its lease.
THEOREM OneForegroundRunAlways == Spec => []OneForegroundRun
BY LedgerInvariant, LedgerMeaning, PTL

-----------------------------------------------------------------------------
(* The Context of a Run at work.  A task that holds the Attempt of its Run *)
(* under the newest token has no unsettled call in the Context but its     *)
(* own, whatever processes whose lease is gone still write.                *)

\* What remains of Fenced when the lease has expired: no successor has it yet.
Own(s, r) ==
    /\ run[r].status = "running"
    /\ OwnAttempt(s, r)
    /\ task[s][r].token = lease.token

Working == {"running", "calling", "called"}

Settled(s, r) ==
    \A q \in SameContext(r) :
        journal[q] = "clear" \/ (q = r /\ task[s][r].phase # "running")

SettledContexts ==
    /\ \A s \in Supervisor, r \in Run : task[s][r].token <= lease.token
    /\ \A s \in Supervisor, r \in Run :
          Own(s, r) /\ task[s][r].phase \in Working => Settled(s, r)

WorkInv == TypeInv /\ Ledger(run) /\ SettledContexts

\* No Run gets an Attempt; the ones at work keep theirs.
KeepsAttempts(rows, new) ==
    \A r \in Run : new[r].status = "running" =>
        rows[r].status = "running" /\ new[r].attempt = rows[r].attempt

LEMMA SetStatusKeepsAttempts ==
    ASSUME NEW rows \in Rows, NEW r \in Run, NEW status \in Status \ {"running"}, NEW wait
    PROVE  KeepsAttempts(rows, SetStatus(rows, r, status, wait))
BY DEF KeepsAttempts, SetStatus, SetRun, Rows, RunRow

LEMMA DiscardKeepsAttempts ==
    ASSUME NEW rows \in Rows, NEW p \in Run
    PROVE  KeepsAttempts(rows, Discard(rows, p))
BY DEF KeepsAttempts, Discard, Rows, RunRow

LEMMA DeliverKeepsAttempts ==
    ASSUME NEW rows \in Rows, NEW c \in Run
    PROVE  KeepsAttempts(rows, Deliver(rows, c))
BY DEF KeepsAttempts, Deliver, Rows, RunRow

LEMMA DeliverFinishedKeepsAttempts ==
    ASSUME NEW rows \in Rows, NEW p \in Run
    PROVE  KeepsAttempts(rows, DeliverFinished(rows, p))
<1>1. CASE rows[p].wait \in Undelivered(rows, p) /\ Done(rows, rows[p].wait)
  <2>1. rows[p].wait \in Run
    BY <1>1 DEF Undelivered
  <2> QED
    BY <1>1, <2>1, DeliverKeepsAttempts DEF DeliverFinished
<1>2. CASE ~(rows[p].wait \in Undelivered(rows, p) /\ Done(rows, rows[p].wait))
  BY <1>2 DEF DeliverFinished, KeepsAttempts
<1> QED
  BY <1>1, <1>2

LEMMA MarkKeepsAttempts ==
    ASSUME NEW rows \in Rows, NEW R
    PROVE  KeepsAttempts(rows, Mark(rows, R))
BY DEF KeepsAttempts, Mark, Rows, RunRow

LEMMA KeepsAttemptsTransitive ==
    ASSUME NEW a, NEW b, NEW c, KeepsAttempts(a, b), KeepsAttempts(b, c)
    PROVE  KeepsAttempts(a, c)
BY DEF KeepsAttempts

\* A Run that ends, in whatever way, leaves the other Attempts alone.
LEMMA EndKeepsAttempts ==
    ASSUME NEW rows \in Rows, NEW r \in Run, NEW status \in Status \ {"running"},
           NEW wait \in Wait
    PROVE  /\ SetStatus(Discard(rows, r), r, status, wait) \in Rows
           /\ KeepsAttempts(rows, SetStatus(Discard(rows, r), r, status, wait))
<1>1. Discard(rows, r) \in Rows /\ KeepsAttempts(rows, Discard(rows, r))
  BY DiscardRows, DiscardKeepsAttempts
<1> QED
  BY <1>1, SetStatusRows, SetStatusKeepsAttempts, KeepsAttemptsTransitive

LEMMA RequestsKeepAttempts ==
    ASSUME TypeInv, NEW r \in Run, Request(r)
    PROVE  KeepsAttempts(run, run')
<1>1. run \in Rows
  BY DEF TypeInv, TypeOK, Rows
<1>2. CASE EnqueueRun(r)
  BY <1>1, <1>2 DEF EnqueueRun, KeepsAttempts, SetRun, Rows, RunRow
<1>3. CASE RequestInterrupt(r) \/ RequestChildCancel(r)
  BY <1>1, <1>3, MarkKeepsAttempts DEF RequestInterrupt, RequestChildCancel, RequestCancels
<1>4. CASE Resolve(r)
  <2>1. ASSUME NEW q \in Run
        PROVE  \/ run'[q] = run[q]
               \/ run'[q] = [run[q] EXCEPT !.status = "queued", !.wait = NoRun,
                                           !.trigger = "tool_recovery"]
    BY <1>4 DEF Resolve
  <2>2. \A q \in Run : run[q] \in RunRow
    BY <1>1 DEF Rows
  <2> QED
    BY <2>1, <2>2 DEF KeepsAttempts, RunRow
<1> QED
  BY <1>2, <1>3, <1>4 DEF Request

LEMMA DriverKeepsAttempts ==
    ASSUME TypeInv, NEW s \in Supervisor, DriverStep(s)
    PROVE  KeepsAttempts(run, run')
<1>1. run \in Rows
  BY DEF TypeInv, TypeOK, Rows
<1>2. ASSUME UNCHANGED run
      PROVE  KeepsAttempts(run, run')
  BY <1>2 DEF KeepsAttempts
<1>3. ASSUME NEW r \in Run, RecoverRun(s, r)
      PROVE  KeepsAttempts(run, run')
  BY <1>1, <1>2, <1>3, SetStatusKeepsAttempts, StatusNames DEF RecoverRun, Requeue
<1>4. CASE CancelChildren(s)
  BY <1>1, <1>4, MarkKeepsAttempts DEF CancelChildren, RequestCancels
<1>5. CASE CancelRun(s)
  <2> DEFINE r == sup[s].current
             closed == SetStatus(Discard(run, r), r, "canceled", NoRun)
             ended == Mark(closed, {r})
  <2>1. r \in Run
    BY <1>5 DEF TypeInv, CurrentIsRun, CancelRun
  <2>2. run' = run \/ run' = ended \/ run' = Deliver(ended, r)
    BY <1>5 DEF CancelRun
  <2>3. closed \in Rows /\ KeepsAttempts(run, closed)
    BY <1>1, <2>1, StatusNames, EndKeepsAttempts DEF Wait
  <2>4. ended \in Rows /\ KeepsAttempts(run, ended)
    BY <2>3, MarkRows, MarkKeepsAttempts, KeepsAttemptsTransitive
  <2>5. KeepsAttempts(run, Deliver(ended, r))
    BY <2>1, <2>4, DeliverKeepsAttempts, KeepsAttemptsTransitive
  <2> QED
    BY <1>2, <2>2, <2>4, <2>5
<1> QED
  BY <1>2, <1>3, <1>4, <1>5
     DEF DriverStep, BeginRenew, RenewKeeps, RenewTakes, RenewRefused, BeginRecover,
         EndRecover, BeginCancel, StopTasks, BeginCancelRun, EndCancel, DriverFails

LEMMA TasksKeepAttempts ==
    ASSUME TypeInv, NEW s \in Supervisor, NEW r \in Run, TaskStep(s, r)
    PROVE  KeepsAttempts(run, run')
<1>1. run \in Rows
  BY DEF TypeInv, TypeOK, Rows
<1>2. ASSUME UNCHANGED run
      PROVE  KeepsAttempts(run, run')
  BY <1>2 DEF KeepsAttempts
<1>3. ASSUME NEW status \in {"succeeded", "failed"},
             run' = Deliver(SetStatus(Discard(run, r), r, status, NoRun), r)
      PROVE  KeepsAttempts(run, run')
  BY <1>1, <1>3, StatusNames, EndKeepsAttempts, DeliverKeepsAttempts,
     KeepsAttemptsTransitive DEF Wait
<1>4. CASE Finish(s, r) \/ FailRun(s, r)
  BY <1>3, <1>4 DEF Finish, FailRun
<1>5. CASE FinishWaiting(s, r)
  <2> DEFINE waiting == SetStatus(run, r, "waiting", task[s][r].wait)
  <2>1. task[s][r].wait \in Wait
    BY DEF TypeInv, TypeOK, Task, Wait
  <2>2. waiting \in Rows /\ KeepsAttempts(run, waiting)
    BY <1>1, <2>1, StatusNames, SetStatusKeepsAttempts, SetStatusRows
  <2> QED
    BY <1>5, <2>2, DeliverFinishedKeepsAttempts, KeepsAttemptsTransitive DEF FinishWaiting
<1>6. CASE WaitForToolRecovery(s, r)
  BY <1>1, <1>6, StatusNames, EndKeepsAttempts DEF WaitForToolRecovery, Wait
<1>7. CASE AskChildren(s, r)
  BY <1>1, <1>7, MarkKeepsAttempts DEF AskChildren, RequestCancels
<1>8. CASE YieldTask(s, r)
  BY <1>1, <1>2, <1>8, SetStatusKeepsAttempts, StatusNames DEF YieldTask, Requeue
<1>9. ASSUME NEW c \in Child, CreateChild(s, r, c)
      PROVE  KeepsAttempts(run, run')
  BY <1>1, <1>9 DEF CreateChild, KeepsAttempts, SetRun, Rows, RunRow, Run
<1> QED
  BY <1>2, <1>4, <1>5, <1>6, <1>7, <1>8, <1>9
     DEF TaskStep, BuildContext, Reconcile, StartCall, CallReturns, CompleteCall,
         CallFails, Raise, TaskEnds, AbortCall

\* Most steps: the lease keeps its token, no call becomes unsettled, and no task
\* goes back to work.
LEMMA QuietKeepsContexts ==
    ASSUME SettledContexts, KeepsAttempts(run, run'), lease'.token = lease.token,
           \A q \in Run : journal[q] = "clear" => journal'[q] = "clear",
           \A s \in Supervisor, r \in Run :
              \/ task'[s][r] = NoTask
              \/ /\ task'[s][r].token = task[s][r].token
                 /\ \/ task'[s][r].phase \notin Working
                    \/ task'[s][r].phase = task[s][r].phase
                    \/ task[s][r].phase = "calling" /\ task'[s][r].phase = "called",
           lease.token \in Nat
    PROVE  SettledContexts'
<1>1. ASSUME NEW s \in Supervisor, NEW r \in Run
      PROVE  task'[s][r].token <= lease'.token
  BY DEF SettledContexts, NoTask
<1>2. ASSUME NEW s \in Supervisor, NEW r \in Run, Own(s, r)',
             task'[s][r].phase \in Working
      PROVE  Settled(s, r)'
  <2>1. /\ task[s][r].phase \in Working
        /\ task'[s][r].phase = "running" <=> task[s][r].phase = "running"
        /\ task'[s][r].token = task[s][r].token
    BY <1>2 DEF Working, NoTask
  <2>2. Own(s, r)
    BY <1>2, <2>1 DEF Own, OwnAttempt, KeepsAttempts
  <2>3. Settled(s, r)
    BY <2>1, <2>2 DEF SettledContexts
  <2>4. SameContext(r) \subseteq Run
    BY DEF SameContext, Run
  <2> QED
    BY <2>1, <2>3, <2>4 DEF Settled
<1> QED
  BY <1>1, <1>2 DEF SettledContexts

LEMMA RequestsKeepContexts ==
    ASSUME WorkInv, NEW r \in Run, Request(r)
    PROVE  SettledContexts'
<1>1. KeepsAttempts(run, run')
  BY RequestsKeepAttempts DEF WorkInv
<1>2. UNCHANGED <<lease, task>>
  BY DEF Request, EnqueueRun, RequestInterrupt, RequestChildCancel, Resolve
<1>3. \A q \in Run : journal[q] = "clear" => journal'[q] = "clear"
  BY DEF Request, EnqueueRun, RequestInterrupt, RequestChildCancel, Resolve, toolVars,
         WorkInv, TypeInv, TypeOK
<1> QED
  BY <1>1, <1>2, <1>3, QuietKeepsContexts DEF WorkInv, TypeInv, TypeOK

LEMMA CanceledRests ==
    ASSUME NEW t \in Task
    PROVE  \/ Canceled(t) = NoTask
           \/ Canceled(t).token = t.token /\ Canceled(t).phase \notin Working
BY DEF Canceled, NoTask, Working, Task, Phase

\* A takeover leaves every Attempt with an older token.
LEMMA TakeoverKeepsContexts ==
    ASSUME WorkInv, NEW s \in Supervisor, RenewTakes(s)
    PROVE  SettledContexts'
<1>1. lease.token \in Nat /\ \A t \in Supervisor, r \in Run : task[t][r] \in Task
  BY DEF WorkInv, TypeInv, TypeOK
<1>2. ASSUME NEW t \in Supervisor, NEW r \in Run
      PROVE  task'[t][r].token <= lease.token
  <2>1. task'[t][r] = task[t][r] \/ task'[t][r] = Canceled(task[t][r])
    BY DEF RenewTakes, YieldAll, WorkInv, TypeInv, TypeOK
  <2>2. Canceled(task[t][r]).token \in {0, task[t][r].token}
    BY <1>1, CanceledRests DEF NoTask
  <2> QED
    BY <1>1, <2>1, <2>2 DEF WorkInv, SettledContexts
<1>3. lease'.token = lease.token + 1
  BY DEF RenewTakes
<1>4. \A t \in Supervisor, r \in Run : task'[t][r].token \in Nat
  BY NextTypeOK DEF WorkInv, TypeInv, TypeOK, Task, Next, DriverStep
<1>5. \A t \in Supervisor, r \in Run : ~Own(t, r)'
  BY <1>1, <1>2, <1>3, <1>4 DEF Own
<1> QED
  BY <1>1, <1>2, <1>3, <1>4, <1>5 DEF SettledContexts

LEMMA DriverKeepsContexts ==
    ASSUME WorkInv, NEW s \in Supervisor, DriverStep(s)
    PROVE  SettledContexts'
<1>1. KeepsAttempts(run, run')
  BY DriverKeepsAttempts DEF WorkInv
<1>2. UNCHANGED journal
  BY DEF DriverStep, BeginRenew, RenewKeeps, RenewTakes, RenewRefused, BeginRecover,
         RecoverRun, EndRecover, BeginCancel, StopTasks, BeginCancelRun, CancelChildren,
         CancelRun, EndCancel, DriverFails, toolVars
<1>3. ASSUME lease'.token = lease.token,
             \/ UNCHANGED task
             \/ YieldAll(s)
             \/ StopTasks(s)
      PROVE  SettledContexts'
  <2>1. ASSUME NEW t \in Supervisor, NEW r \in Run
        PROVE  \/ task'[t][r] = NoTask
               \/ /\ task'[t][r].token = task[t][r].token
                  /\ \/ task'[t][r].phase \notin Working
                     \/ task'[t][r].phase = task[t][r].phase
    <3>1. task[t][r] \in Task /\ task \in [Supervisor -> [Run -> Task]]
      BY DEF WorkInv, TypeInv, TypeOK
    <3>2. CASE UNCHANGED task
      BY <3>2
    <3>3. CASE YieldAll(s)
      BY <3>1, <3>3, CanceledRests DEF YieldAll
    <3>4. CASE StopTasks(s)
      BY <3>1, <3>4 DEF StopTasks, Working, Task
    <3> QED
      BY <1>3, <3>2, <3>3, <3>4
  <2> QED
    BY <1>1, <1>2, <1>3, <2>1, QuietKeepsContexts DEF WorkInv, TypeInv, TypeOK
<1>4. ASSUME UNCHANGED <<lease, task>>
      PROVE  SettledContexts'
  BY <1>3, <1>4
<1>5. CASE RenewKeeps(s)
  <2>1. lease'.token = lease.token
    BY <1>5 DEF RenewKeeps, WorkInv, TypeInv, TypeOK
  <2> QED
    BY <1>3, <1>5, <2>1 DEF RenewKeeps
<1>6. CASE RenewRefused(s)
  BY <1>3, <1>6 DEF RenewRefused
<1>7. CASE StopTasks(s)
  BY <1>3, <1>7 DEF StopTasks
<1> QED
  BY <1>4, <1>5, <1>6, <1>7, TakeoverKeepsContexts
     DEF DriverStep, BeginRenew, BeginRecover, RecoverRun, EndRecover, BeginCancel,
         BeginCancelRun, CancelChildren, CancelRun, EndCancel, DriverFails

\* A claimed Run is not at work yet, and its Attempt is nobody else's.
LEMMA ClaimKeepsContexts ==
    ASSUME WorkInv, NEW s \in Supervisor, NEW r \in Run, Claim(s, r)
    PROVE  SettledContexts'
<1>1. /\ lease.token \in Nat /\ run \in Rows
      /\ task \in [Supervisor -> [Run -> Task]] /\ sup[s].token = lease.token
  BY DEF WorkInv, TypeInv, TypeOK, Rows, Claim, Leads
<1>2. UNCHANGED <<lease, journal>>
  BY DEF Claim, toolVars
<1>3. /\ task'[s][r].token = lease.token /\ task'[s][r].phase = "claimed"
      /\ \A t \in Supervisor, q \in Run :
            t # s \/ q # r => task'[t][q] = task[t][q]
  BY <1>1 DEF Claim, SetTask, NoTask
<1>4. /\ run'[r].attempt.owner = s
      /\ \A q \in Run \ {r} : run'[q] = run[q]
  BY <1>1 DEF Claim, SetRun, Rows, RunRow
<1>5. ASSUME NEW t \in Supervisor, NEW q \in Run, Own(t, q)', task'[t][q].phase \in Working
      PROVE  Settled(t, q)'
  <2>1. q # r
    <3>1. CASE t = s
      BY <1>3, <1>5, <3>1 DEF Working
    <3>2. CASE t # s
      BY <1>4, <1>5, <3>2 DEF Own, OwnAttempt
    <3> QED
      BY <3>1, <3>2
  <2>2. task'[t][q] = task[t][q] /\ run'[q] = run[q]
    BY <1>3, <1>4, <2>1
  <2>3. Own(t, q)
    BY <1>2, <1>5, <2>2 DEF Own, OwnAttempt
  <2>4. Settled(t, q)
    BY <1>5, <2>2, <2>3 DEF WorkInv, SettledContexts
  <2> QED
    BY <1>2, <2>2, <2>4 DEF Settled
<1>6. \A t \in Supervisor, q \in Run : task'[t][q].token <= lease'.token
  BY <1>1, <1>2, <1>3 DEF WorkInv, SettledContexts
<1> QED
  BY <1>5, <1>6 DEF SettledContexts

LEMMA FencedIsOwn ==
    ASSUME NEW s \in Supervisor, NEW r \in Run, Fenced(s, r)
    PROVE  Own(s, r)
BY DEF Fenced, Own

\* Two tasks at work in one Context work for the same Run, under the same Attempt.
LEMMA OneAtWork ==
    ASSUME WorkInv, NEW s \in Supervisor, NEW r \in Run, NEW t \in Supervisor,
           NEW q \in Run, Own(s, r), Own(t, q), r \in SameContext(q)
    PROVE  q = r /\ t = s
<1>1. q = r
  <2>1. CASE q \in Root
    <3>1. q \in Front(run) /\ r \in Front(run)
      BY <2>1 DEF Own, Front, SameContext
    <3> QED
      BY <3>1 DEF WorkInv, Ledger
  <2>2. CASE q \notin Root
    BY <2>2 DEF SameContext
  <2> QED
    BY <2>1, <2>2
<1>2. run[r].attempt.owner = s /\ run[q].attempt.owner = t
  BY DEF Own, OwnAttempt
<1> QED
  BY <1>1, <1>2

LEMMA ReconcileKeepsContexts ==
    ASSUME WorkInv, NEW s \in Supervisor, NEW r \in Run, Reconcile(s, r)
    PROVE  SettledContexts'
<1>1. UNCHANGED <<run, lease>>
  BY DEF Reconcile
<1>2. \A q \in Run : journal[q] = "clear" <=> journal'[q] = "clear"
  BY DEF Reconcile
<1>3. /\ task'[s][r].token = task[s][r].token
      /\ \A t \in Supervisor, q \in Run :
            t # s \/ q # r => task'[t][q] = task[t][q]
  BY DEF Reconcile, Goto, SetTask, WorkInv, TypeInv, TypeOK, Task
<1>4. task'[s][r].phase \in Working => \A q \in SameContext(r) : journal[q] = "clear"
  BY DEF Reconcile, Goto, SetTask, WorkInv, TypeInv, TypeOK, Task, Working
<1>5. \A q \in Run : SameContext(q) \subseteq Run
  BY DEF SameContext, Run
<1>6. ASSUME NEW t \in Supervisor, NEW q \in Run, Own(t, q)', task'[t][q].phase \in Working
      PROVE  Settled(t, q)'
  <2>1. CASE t = s /\ q = r
    BY <1>2, <1>4, <1>5, <1>6, <2>1 DEF Settled
  <2>2. CASE t # s \/ q # r
    <3>1. Own(t, q) /\ task[t][q].phase \in Working
      BY <1>1, <1>3, <1>6, <2>2 DEF Own, OwnAttempt
    <3>2. Settled(t, q)
      BY <3>1 DEF WorkInv, SettledContexts
    <3> QED
      BY <1>2, <1>3, <1>5, <2>2, <3>2 DEF Settled
  <2> QED
    BY <2>1, <2>2
<1>7. \A t \in Supervisor, q \in Run : task'[t][q].token <= lease'.token
  BY <1>1, <1>3 DEF WorkInv, SettledContexts
<1> QED
  BY <1>6, <1>7 DEF SettledContexts

\* The call that starts is the task's own; nobody else is at work in the Context.
LEMMA StartCallKeepsContexts ==
    ASSUME WorkInv, NEW s \in Supervisor, NEW r \in Run, StartCall(s, r)
    PROVE  SettledContexts'
<1>1. UNCHANGED <<run, lease>>
  BY DEF StartCall
<1>2. \A q \in Run \ {r} : journal'[q] = journal[q]
  BY DEF StartCall, WorkInv, TypeInv, TypeOK
<1>3. /\ task'[s][r].token = task[s][r].token /\ task'[s][r].phase = "calling"
      /\ \A t \in Supervisor, q \in Run :
            t # s \/ q # r => task'[t][q] = task[t][q]
  BY DEF StartCall, SetTask, WorkInv, TypeInv, TypeOK, Task
<1>4. Own(s, r) /\ task[s][r].phase = "running"
  BY FencedIsOwn DEF StartCall, At
<1>5. \A q \in Run : SameContext(q) \subseteq Run
  BY DEF SameContext, Run
<1>6. Settled(s, r)
  BY <1>4 DEF WorkInv, SettledContexts, Working
<1>7. ASSUME NEW t \in Supervisor, NEW q \in Run, Own(t, q)', task'[t][q].phase \in Working
      PROVE  Settled(t, q)'
  <2>1. CASE t = s /\ q = r
    BY <1>2, <1>3, <1>5, <1>6, <2>1 DEF Settled
  <2>2. CASE t # s \/ q # r
    <3>1. Own(t, q) /\ task[t][q].phase \in Working
      BY <1>1, <1>3, <1>7, <2>2 DEF Own, OwnAttempt
    <3>2. Settled(t, q)
      BY <3>1 DEF WorkInv, SettledContexts
    <3>3. r \notin SameContext(q)
      BY <1>4, <2>2, <3>1, OneAtWork
    <3> QED
      BY <1>2, <1>3, <1>5, <2>2, <3>2, <3>3 DEF Settled
  <2> QED
    BY <2>1, <2>2
<1>8. \A t \in Supervisor, q \in Run : task'[t][q].token <= lease'.token
  BY <1>1, <1>3 DEF WorkInv, SettledContexts
<1> QED
  BY <1>7, <1>8 DEF SettledContexts

LEMMA CompleteCallKeepsContexts ==
    ASSUME WorkInv, NEW s \in Supervisor, NEW r \in Run, CompleteCall(s, r)
    PROVE  SettledContexts'
<1>1. UNCHANGED <<run, lease>>
  BY DEF CompleteCall
<1>2. journal'[r] = "clear" /\ \A q \in Run \ {r} : journal'[q] = journal[q]
  BY DEF CompleteCall, WorkInv, TypeInv, TypeOK
<1>3. /\ task'[s][r].token = task[s][r].token
      /\ \A t \in Supervisor, q \in Run :
            t # s \/ q # r => task'[t][q] = task[t][q]
  BY DEF CompleteCall, Goto, SetTask, WorkInv, TypeInv, TypeOK, Task
<1>4. Own(s, r) /\ task[s][r].phase \in Working
  BY FencedIsOwn DEF CompleteCall, At, Working
<1>5. \A q \in Run : SameContext(q) \subseteq Run
  BY DEF SameContext, Run
<1>6. Settled(s, r)
  BY <1>4 DEF WorkInv, SettledContexts
<1>7. ASSUME NEW t \in Supervisor, NEW q \in Run, Own(t, q)', task'[t][q].phase \in Working
      PROVE  Settled(t, q)'
  <2>1. CASE t = s /\ q = r
    BY <1>2, <1>5, <1>6, <2>1 DEF Settled
  <2>2. CASE t # s \/ q # r
    <3>1. Own(t, q) /\ task[t][q].phase \in Working
      BY <1>1, <1>3, <1>7, <2>2 DEF Own, OwnAttempt
    <3>2. Settled(t, q)
      BY <3>1 DEF WorkInv, SettledContexts
    <3> QED
      BY <1>2, <1>3, <1>5, <2>2, <3>2 DEF Settled
  <2> QED
    BY <2>1, <2>2
<1>8. \A t \in Supervisor, q \in Run : task'[t][q].token <= lease'.token
  BY <1>1, <1>3 DEF WorkInv, SettledContexts
<1> QED
  BY <1>7, <1>8 DEF SettledContexts

LEMMA TasksKeepContexts ==
    ASSUME WorkInv, NEW s \in Supervisor, NEW r \in Run, TaskStep(s, r)
    PROVE  SettledContexts'
<1>1. KeepsAttempts(run, run')
  BY TasksKeepAttempts DEF WorkInv
<1>2. task[s][r] \in Task /\ task \in [Supervisor -> [Run -> Task]]
  BY DEF WorkInv, TypeInv, TypeOK
<1>3. ASSUME UNCHANGED lease,
             \A q \in Run : journal[q] = "clear" => journal'[q] = "clear",
             NEW t, SetTask(s, r, t),
             \/ t = NoTask
             \/ /\ t.token = task[s][r].token
                /\ \/ t.phase \notin Working
                   \/ task[s][r].phase = "calling" /\ t.phase = "called"
      PROVE  SettledContexts'
  <2>1. ASSUME NEW u \in Supervisor, NEW q \in Run
        PROVE  \/ task'[u][q] = NoTask
               \/ /\ task'[u][q].token = task[u][q].token
                  /\ \/ task'[u][q].phase \notin Working
                     \/ task'[u][q].phase = task[u][q].phase
                     \/ task[u][q].phase = "calling" /\ task'[u][q].phase = "called"
    BY <1>2, <1>3 DEF SetTask
  <2> QED
    BY <1>1, <1>3, <2>1, QuietKeepsContexts DEF WorkInv, TypeInv, TypeOK
<1>4. ASSUME NEW phase \in Phase
      PROVE  /\ [task[s][r] EXCEPT !.phase = phase].token = task[s][r].token
             /\ [task[s][r] EXCEPT !.phase = phase].phase = phase
  BY <1>2 DEF Task
<1>5. ASSUME UNCHANGED <<journal, lease>>, SetTask(s, r, NoTask)
      PROVE  SettledContexts'
  BY <1>3, <1>5
<1>6. ASSUME NEW phase \in Phase, Goto(s, r, phase), UNCHANGED <<journal, lease>>,
             phase \notin Working \/ (At(s, r, {"calling"}) /\ phase = "called")
      PROVE  SettledContexts'
  BY <1>3, <1>4, <1>6 DEF Goto, At
<1>7. CASE BuildContext(s, r)
  <2>1. PICK c \in Run \cup {NoRun} :
           SetTask(s, r, [task[s][r] EXCEPT !.phase = "reconciling", !.wait = c])
    BY <1>7 DEF BuildContext
  <2>2. /\ [task[s][r] EXCEPT !.phase = "reconciling", !.wait = c].token = task[s][r].token
        /\ [task[s][r] EXCEPT !.phase = "reconciling", !.wait = c].phase = "reconciling"
    BY <1>2 DEF Task
  <2> QED
    BY <1>3, <1>7, <2>1, <2>2 DEF BuildContext, toolVars, Working
<1>8. ASSUME NEW c \in Child, CreateChild(s, r, c)
      PROVE  SettledContexts'
  <2>1. /\ [task[s][r] EXCEPT !.phase = "called", !.wait = c].token = task[s][r].token
        /\ [task[s][r] EXCEPT !.phase = "called", !.wait = c].phase = "called"
    BY <1>2 DEF Task
  <2> QED
    BY <1>3, <1>8, <2>1 DEF CreateChild, toolVars, At
<1>9. CASE CallReturns(s, r)
  BY <1>6, <1>9, PhaseNames DEF CallReturns, toolVars
<1>10. ASSUME MarkAmbiguous(s, r)
       PROVE  \A q \in Run : journal[q] = "clear" => journal'[q] = "clear"
  BY <1>10 DEF MarkAmbiguous, OwnCallOpen, WorkInv, TypeInv, TypeOK
<1>11. CASE CallFails(s, r)
  <2>1. Goto(s, r, "recovering") /\ UNCHANGED lease /\ MarkAmbiguous(s, r)
    BY <1>11 DEF CallFails
  <2> QED
    BY <1>3, <1>4, <1>10, <2>1, PhaseNames DEF Goto, Working
<1>12. CASE AbortCall(s, r)
  <2>1. /\ SetTask(s, r, NoTask) \/ Goto(s, r, "yielding")
        /\ UNCHANGED lease /\ MarkAmbiguous(s, r)
    BY <1>12 DEF AbortCall
  <2>2. CASE SetTask(s, r, NoTask)
    BY <1>3, <1>10, <2>1, <2>2
  <2>3. CASE Goto(s, r, "yielding")
    BY <1>3, <1>4, <1>10, <2>1, <2>3, PhaseNames DEF Goto, Working
  <2> QED
    BY <2>1, <2>2, <2>3
<1>13. CASE Raise(s, r)
  BY <1>6, <1>13, PhaseNames DEF Raise, toolVars, Working
<1>14. CASE AskChildren(s, r)
  <2>1. Goto(s, r, "failed") \/ Goto(s, r, "suspending")
    BY <1>14 DEF AskChildren
  <2> QED
    BY <1>6, <1>14, <2>1, PhaseNames DEF AskChildren, toolVars, Working
<1> QED
  BY <1>5, <1>7, <1>8, <1>9, <1>11, <1>12, <1>13, <1>14, ReconcileKeepsContexts,
     StartCallKeepsContexts, CompleteCallKeepsContexts
     DEF TaskStep, Finish, FinishWaiting, FailRun, WaitForToolRecovery, TaskEnds,
         YieldTask, toolVars

LEMMA NextContexts ==
    ASSUME WorkInv, [Next]_vars
    PROVE  SettledContexts'
<1>1. ASSUME UNCHANGED <<run, journal>>, lease'.token = lease.token,
             \/ UNCHANGED task
             \/ \E s \in Supervisor : YieldAll(s)
             \/ \E s \in Supervisor : task' = [task EXCEPT ![s] = [r \in Run |-> NoTask]]
      PROVE  SettledContexts'
  <2>1. KeepsAttempts(run, run')
    BY <1>1 DEF KeepsAttempts
  <2>2. ASSUME NEW t \in Supervisor, NEW r \in Run
        PROVE  \/ task'[t][r] = NoTask
               \/ /\ task'[t][r].token = task[t][r].token
                  /\ \/ task'[t][r].phase \notin Working
                     \/ task'[t][r].phase = task[t][r].phase
    <3>1. task[t][r] \in Task /\ task \in [Supervisor -> [Run -> Task]]
      BY DEF WorkInv, TypeInv, TypeOK
    <3>2. CASE UNCHANGED task
      BY <3>2
    <3>3. ASSUME NEW s \in Supervisor, YieldAll(s)
          PROVE  \/ task'[t][r] = NoTask
                 \/ /\ task'[t][r].token = task[t][r].token
                    /\ \/ task'[t][r].phase \notin Working
                       \/ task'[t][r].phase = task[t][r].phase
      BY <3>1, <3>3, CanceledRests DEF YieldAll
    <3>4. ASSUME NEW s \in Supervisor, task' = [task EXCEPT ![s] = [q \in Run |-> NoTask]]
          PROVE  task'[t][r] = NoTask \/ task'[t][r] = task[t][r]
      BY <3>1, <3>4
    <3> QED
      BY <1>1, <3>2, <3>3, <3>4
  <2> QED
    BY <1>1, <2>1, <2>2, QuietKeepsContexts DEF WorkInv, TypeInv, TypeOK
<1>2. CASE UNCHANGED vars
  BY <1>1, <1>2 DEF vars
<1>3. CASE Expire
  BY <1>1, <1>3 DEF Expire, toolVars, WorkInv, TypeInv, TypeOK
<1>4. ASSUME NEW s \in Supervisor, Shutdown(s) \/ Exit(s) \/ Restart(s)
      PROVE  SettledContexts'
  <2>1. /\ UNCHANGED <<run, journal>>
        /\ \/ YieldAll(s)
           \/ task' = [task EXCEPT ![s] = [r \in Run |-> NoTask]]
           \/ UNCHANGED task
    BY <1>4 DEF Shutdown, Exit, Restart, toolVars
  <2>2. lease'.token = lease.token
    BY <1>4 DEF Shutdown, Exit, Restart, WorkInv, TypeInv, TypeOK
  <2> QED
    BY <1>1, <2>1, <2>2
<1>5. ASSUME NEW sweep \in Sweep, RequestSessionCancel(sweep)
      PROVE  SettledContexts'
  <2>1. KeepsAttempts(run, run')
    BY <1>5, MarkKeepsAttempts DEF RequestSessionCancel, WorkInv, TypeInv, TypeOK, Rows
  <2> QED
    BY <1>5, <2>1, QuietKeepsContexts
       DEF RequestSessionCancel, toolVars, WorkInv, TypeInv, TypeOK
<1> QED
  BY <1>2, <1>3, <1>4, <1>5, RequestsKeepContexts, DriverKeepsContexts,
     ClaimKeepsContexts, TasksKeepContexts DEF Next

\* Types, the ledger and the settled Contexts are inductive together.
LEMMA WorkInvariant == Spec => []WorkInv
<1>1. Init => SettledContexts
  BY DEF Init, SettledContexts, NoTask, Working
<1>2. WorkInv /\ [Next]_vars => SettledContexts'
  BY NextContexts
<1> QED
  BY <1>1, <1>2, LedgerInvariant, PTL DEF Spec, WorkInv

\* Under the current lease the model never runs on a Context with an unsettled tool
\* call: reconcile_run_invocations finds what the last process left, one foreground
\* Run keeps the others out of the main Context, and a deposed process can make a
\* call ambiguous but cannot open one (tool_invocations.py 130-174, 415-500).
THEOREM RunsOnSettledJournalAlways == Spec => []RunsOnSettledJournal
<1>1. WorkInv => RunsOnSettledJournal
  BY FencedIsOwn DEF WorkInv, SettledContexts, Settled, RunsOnSettledJournal, Working
<1> QED
  BY <1>1, WorkInvariant, PTL

-----------------------------------------------------------------------------
(* Waits.  A Run that waits for a child is owed the result of that child,  *)
(* and so is the task that will make it wait.                              *)

WaitRows(rows) ==
    /\ \A r \in Run : rows[r].status = "absent" =>
          rows[r].parent = NoRun /\ rows[r].disposition = "none"
    /\ \A r \in Run : rows[r].parent \in Run =>
          rows[rows[r].parent].status # "absent"
    /\ \A r \in Run : rows[r].wait \in Run =>
          rows[r].status = "waiting" /\ rows[r].wait \in Undelivered(rows, r)

\* The child has ended, and nothing resumed the Run that waits for it.
Stale(rows, r) == rows[r].wait \in Run /\ Done(rows, rows[r].wait)

TaskWaits ==
    \A s \in Supervisor, r \in Run :
        run[r].status = "running" /\ OwnAttempt(s, r) /\ task[s][r].wait \in Run =>
            task[s][r].wait \in Undelivered(run, r)

\* What nearly every transaction does to the rows: parents stay, what ended stays
\* ended, a Run at work is still owed what it was owed, and no wait becomes stale.
Orderly(rows, new) ==
    \A r \in Run :
        /\ rows[r].status # "absent" =>
              new[r].status # "absent" /\ new[r].parent = rows[r].parent
        /\ Done(rows, r) => Done(new, r)
        /\ new[r].status = "running" => Undelivered(rows, r) \subseteq Undelivered(new, r)
        /\ Stale(new, r) => Stale(rows, r)

\* The same, but a Run that ends may leave its parent waiting.
OrderlyButFor(rows, new, c) ==
    \A r \in Run :
        /\ rows[r].status # "absent" =>
              new[r].status # "absent" /\ new[r].parent = rows[r].parent
        /\ Done(rows, r) => Done(new, r)
        /\ new[r].status = "running" => Undelivered(rows, r) \subseteq Undelivered(new, r)
        /\ Stale(new, r) => Stale(rows, r) \/ new[r].wait = c

LEMMA RunsAreNotNames == NoRun \notin Run /\ "tool_recovery" \notin Run
BY RunAssumption

LEMMA OrderlyReflexive ==
    ASSUME NEW rows
    PROVE  Orderly(rows, rows)
BY DEF Orderly

LEMMA MarkIsOrderly ==
    ASSUME NEW rows \in Rows, WaitRows(rows), NEW R
    PROVE  WaitRows(Mark(rows, R)) /\ Orderly(rows, Mark(rows, R))
<1> DEFINE new == Mark(rows, R)
<1>1. \A r \in Run : /\ new[r].status = rows[r].status /\ new[r].parent = rows[r].parent
                     /\ new[r].disposition = rows[r].disposition
                     /\ new[r].wait = rows[r].wait
  BY DEF Mark, Rows, RunRow
<1> HIDE DEF new
<1>2. \A r \in Run : Undelivered(new, r) = Undelivered(rows, r)
  BY <1>1 DEF Undelivered
<1> QED
  BY <1>1, <1>2 DEF WaitRows, Orderly, Stale, Done, new

\* A Run takes another status, and waits for no child.
LEMMA SetStatusIsOrderly ==
    ASSUME NEW rows \in Rows, WaitRows(rows), NEW r \in Run,
           rows[r].status \notin Terminal \cup {"absent"},
           NEW status \in Status \ {"absent"}, NEW wait, wait \notin Run
    PROVE  /\ WaitRows(SetStatus(rows, r, status, wait))
           /\ status \notin Terminal => Orderly(rows, SetStatus(rows, r, status, wait))
           /\ OrderlyButFor(rows, SetStatus(rows, r, status, wait), r)
<1> DEFINE new == SetStatus(rows, r, status, wait)
<1>1. /\ new[r].status = status /\ new[r].wait = wait
      /\ \A q \in Run : /\ new[q].parent = rows[q].parent
                        /\ new[q].disposition = rows[q].disposition
      /\ \A q \in Run \ {r} : new[q].status = rows[q].status /\ new[q].wait = rows[q].wait
  BY DEF SetStatus, SetRun, Rows, RunRow
<1> HIDE DEF new
<1>2. \A q \in Run : Undelivered(new, q) = Undelivered(rows, q)
  BY <1>1 DEF Undelivered
<1>3. WaitRows(new)
  BY <1>1, <1>2 DEF WaitRows, Status, Terminal
<1> QED
  BY <1>1, <1>2, <1>3 DEF WaitRows, Orderly, OrderlyButFor, Stale, Done, new

\* A Run that ends, or is suspended, drops what it is owed.
LEMMA EndIsOrderly ==
    ASSUME NEW rows \in Rows, WaitRows(rows), NEW r \in Run,
           rows[r].status \notin Terminal \cup {"absent"},
           NEW status \in Status \ {"absent", "running"}, NEW wait, wait \notin Run
    PROVE  /\ WaitRows(SetStatus(Discard(rows, r), r, status, wait))
           /\ status \notin Terminal =>
                 Orderly(rows, SetStatus(Discard(rows, r), r, status, wait))
           /\ OrderlyButFor(rows, SetStatus(Discard(rows, r), r, status, wait), r)
<1> DEFINE new == SetStatus(Discard(rows, r), r, status, wait)
<1>1. /\ new[r].status = status /\ new[r].wait = wait
      /\ \A q \in Run : /\ new[q].parent = rows[q].parent
                        /\ q \notin Undelivered(rows, r) =>
                              new[q].disposition = rows[q].disposition
      /\ \A q \in Run \ {r} : new[q].status = rows[q].status /\ new[q].wait = rows[q].wait
  BY DEF SetStatus, SetRun, Discard, Rows, RunRow
<1> HIDE DEF new
<1>2. \A q \in Run \ {r} : Undelivered(rows, q) \subseteq Undelivered(new, q)
  BY <1>1 DEF Undelivered
<1>3. \A q \in Undelivered(rows, r) : rows[q].status # "absent"
  BY RunsAreNotNames DEF Undelivered, WaitRows
<1>4. WaitRows(new)
  BY <1>1, <1>2, <1>3 DEF WaitRows, Status, Terminal
<1> QED
  BY <1>1, <1>2, <1>4 DEF WaitRows, Orderly, OrderlyButFor, Stale, Done, new

\* queue_parent_continuation takes the wait of the parent and keeps the others.
LEMMA DeliverIsOrderly ==
    ASSUME NEW rows \in Rows, WaitRows(rows), NEW c \in Run, rows[c].status # "absent"
    PROVE  /\ WaitRows(Deliver(rows, c))
           /\ Orderly(rows, Deliver(rows, c))
           /\ \A r \in Run : Deliver(rows, c)[r].wait \in {rows[r].wait, NoRun} \ {c}
<1> DEFINE new == Deliver(rows, c)
           p == rows[c].parent
<1>1. CASE ~ (/\ p # NoRun /\ rows[c].disposition = "none"
              /\ rows[p].status = "waiting" /\ rows[p].wait = c)
  <2>1. new = rows
    BY <1>1 DEF Deliver
  <2>2. \A r \in Run : rows[r].wait # c
    BY <1>1, RunsAreNotNames DEF Undelivered, WaitRows
  <2> QED
    BY <2>1, <2>2 DEF Orderly
<1>2. CASE /\ p # NoRun /\ rows[c].disposition = "none"
           /\ rows[p].status = "waiting" /\ rows[p].wait = c
  <2>1. p \in Run
    BY <1>2 DEF Rows, RunRow
  <2>2. /\ new[p].status = "queued" /\ new[p].wait = NoRun
        /\ \A q \in Run : new[q].parent = rows[q].parent
        /\ \A q \in Run \ {c} : new[q].disposition = rows[q].disposition
        /\ \A q \in Run \ {p} : new[q].status = rows[q].status /\ new[q].wait = rows[q].wait
    BY <1>2, <2>1 DEF Deliver, Rows, RunRow
  <2> HIDE DEF new
  <2>3. \A q \in Run \ {p} : Undelivered(rows, q) \subseteq Undelivered(new, q)
    BY <2>2 DEF Undelivered
  <2>4. WaitRows(new)
    BY <2>1, <2>2, <2>3, RunsAreNotNames DEF WaitRows
  <2>5. Orderly(rows, new)
    BY <1>2, <2>1, <2>2, <2>3, RunsAreNotNames DEF WaitRows, Orderly, Stale, Done, Terminal
  <2>6. \A r \in Run : new[r].wait \in {rows[r].wait, NoRun} \ {c}
    BY <2>1, <2>2, RunsAreNotNames DEF Undelivered, WaitRows
  <2> QED
    BY <2>4, <2>5, <2>6 DEF new
<1> QED
  BY <1>1, <1>2

\* A Run ends and its parent is told.
LEMMA EndAndDeliverIsOrderly ==
    ASSUME NEW rows \in Rows, WaitRows(rows), NEW r \in Run, NEW ended \in Rows,
           WaitRows(ended), OrderlyButFor(rows, ended, r), ended[r].status # "absent"
    PROVE  WaitRows(Deliver(ended, r)) /\ Orderly(rows, Deliver(ended, r))
<1> DEFINE new == Deliver(ended, r)
<1>1. /\ WaitRows(new) /\ Orderly(ended, new)
      /\ \A q \in Run : new[q].wait \in {ended[q].wait, NoRun} \ {r}
  BY DeliverIsOrderly
<1> HIDE DEF new
<1>2. ASSUME NEW q \in Run, Stale(new, q)
      PROVE  Stale(rows, q)
  <2>1. Stale(ended, q) /\ ended[q].wait # r
    BY <1>1, <1>2, RunsAreNotNames DEF Orderly, Stale
  <2> QED
    BY <2>1 DEF OrderlyButFor
<1>3. ASSUME NEW q \in Run, new[q].status = "running"
      PROVE  Undelivered(rows, q) \subseteq Undelivered(new, q)
  <2>1. ended[q].status = "running"
    BY <1>3 DEF new, Deliver, Rows, RunRow
  <2> QED
    BY <1>1, <1>3, <2>1 DEF Orderly, OrderlyButFor
<1> QED
  BY <1>1, <1>2, <1>3 DEF Orderly, OrderlyButFor, new

\* A cancellation is about Runs that exist, and of a sweep that was requested.
Canceling(s) == sup[s].stage \in {"stopping", "canceling", "requesting", "closing"}

CancelsKnown ==
    /\ \A r \in commands \cap Run : run[r].status # "absent"
    /\ \A s \in Supervisor :
          /\ Canceling(s) => \A r \in sup[s].todo : run[r].status # "absent"
          /\ sup[s].stage \in {"requesting", "closing"} => sup[s].current \in sup[s].todo
          /\ sup[s].command \in Sweep => sup[s].command \in requested
    /\ commands \cap Sweep \subseteq requested

WaitInv ==
    /\ WorkInv
    /\ WaitRows(run)
    /\ TaskWaits
    /\ CancelsKnown
    /\ \A r \in Run : Stale(run, r) => requested # {}

LEMMA RequestIsOrderly ==
    ASSUME WaitInv, NEW r \in Run, Request(r)
    PROVE  WaitRows(run') /\ Orderly(run, run')
<1>1. run \in Rows /\ WaitRows(run)
  BY DEF WaitInv, WorkInv, TypeInv, TypeOK, Rows
<1>2. CASE EnqueueRun(r)
  <2>1. /\ run'[r].status = "queued"
        /\ \A q \in Run : /\ run'[q].parent = run[q].parent
                          /\ run'[q].disposition = run[q].disposition
                          /\ run'[q].wait = run[q].wait
        /\ \A q \in Run \ {r} : run'[q].status = run[q].status
    BY <1>1, <1>2 DEF EnqueueRun, SetRun, Rows, RunRow
  <2>2. \A q \in Run : Undelivered(run', q) = Undelivered(run, q)
    BY <2>1 DEF Undelivered
  <2>3. run[r].status = "absent"
    BY <1>2 DEF EnqueueRun
  <2>4. WaitRows(run')
    BY <1>1, <2>1, <2>2, <2>3 DEF WaitRows
  <2> QED
    BY <2>1, <2>2, <2>3, <2>4 DEF Orderly, Stale, Done, Terminal
<1>3. CASE RequestInterrupt(r) \/ RequestChildCancel(r)
  BY <1>1, <1>3, MarkIsOrderly DEF RequestInterrupt, RequestChildCancel, RequestCancels
<1>4. CASE Resolve(r)
  <2>1. ASSUME NEW q \in Run
        PROVE  \/ run'[q] = run[q]
               \/ /\ run[q].status = "waiting" /\ run[q].wait = "tool_recovery"
                  /\ run'[q] = [run[q] EXCEPT !.status = "queued", !.wait = NoRun,
                                             !.trigger = "tool_recovery"]
    BY <1>4 DEF Resolve
  <2>2. ASSUME NEW q \in Run
        PROVE  /\ run'[q].parent = run[q].parent
               /\ run'[q].disposition = run[q].disposition
               /\ \/ run'[q].status = run[q].status /\ run'[q].wait = run[q].wait
                  \/ /\ run[q].status = "waiting" /\ run'[q].status = "queued"
                     /\ run'[q].wait = NoRun
    <3>1. run[q] \in RunRow
      BY <1>1 DEF Rows
    <3> QED
      BY <2>1, <3>1 DEF RunRow
  <2>3. \A q \in Run : Undelivered(run', q) = Undelivered(run, q)
    BY <2>2 DEF Undelivered
  <2>4. \A q \in Run : Done(run', q) <=> Done(run, q)
    BY <2>2 DEF Done, Terminal
  <2>5. \A q \in Run : run'[q].status = "absent" <=> run[q].status = "absent"
    BY <2>2
  <2>6. \A q \in Run : run'[q].wait \in Run =>
           run'[q].wait = run[q].wait /\ run'[q].status = run[q].status
    BY <2>2, RunsAreNotNames
  <2>7. WaitRows(run')
    BY <1>1, <2>2, <2>3, <2>5, <2>6 DEF WaitRows
  <2> QED
    BY <2>2, <2>3, <2>4, <2>5, <2>6, <2>7 DEF Orderly, Stale
<1> QED
  BY <1>2, <1>3, <1>4 DEF Request

LEMMA ClaimIsOrderly ==
    ASSUME WaitInv, NEW s \in Supervisor, NEW r \in Run, Claim(s, r)
    PROVE  WaitRows(run') /\ Orderly(run, run')
<1>1. run \in Rows /\ WaitRows(run)
  BY DEF WaitInv, WorkInv, TypeInv, TypeOK, Rows
<1>2. /\ run'[r].status = "running" /\ run[r].status = "queued"
      /\ \A q \in Run : /\ run'[q].parent = run[q].parent
                        /\ run'[q].disposition = run[q].disposition
                        /\ run'[q].wait = run[q].wait
      /\ \A q \in Run \ {r} : run'[q].status = run[q].status
  BY <1>1 DEF Claim, SetRun, Rows, RunRow
<1>3. \A q \in Run : Undelivered(run', q) = Undelivered(run, q)
  BY <1>2 DEF Undelivered
<1>4. \A q \in Run : Done(run', q) <=> Done(run, q)
  BY <1>2 DEF Done, Terminal
<1>5. WaitRows(run')
  BY <1>1, <1>2, <1>3 DEF WaitRows
<1> QED
  BY <1>2, <1>3, <1>4, <1>5 DEF Orderly, Stale

LEMMA CreateChildIsOrderly ==
    ASSUME WaitInv, NEW s \in Supervisor, NEW r \in Run, NEW c \in Child,
           CreateChild(s, r, c)
    PROVE  /\ WaitRows(run') /\ Orderly(run, run')
           /\ c \in Undelivered(run', r)
<1>1. run \in Rows /\ WaitRows(run) /\ c \in Run
  BY DEF WaitInv, WorkInv, TypeInv, TypeOK, Rows, Run
<1>2. /\ run'[c].status = "queued" /\ run[c].status = "absent"
      /\ run[r].status = "running" /\ run'[c].parent = r /\ run[c].parent = NoRun
      /\ run[c].disposition = "none"
      /\ \A q \in Run : /\ run'[q].disposition = run[q].disposition
                        /\ run'[q].wait = run[q].wait
      /\ \A q \in Run \ {c} :
            run'[q].status = run[q].status /\ run'[q].parent = run[q].parent
  BY <1>1 DEF CreateChild, SetRun, Rows, RunRow, WaitRows
<1>3. \A q \in Run : Undelivered(run, q) \subseteq Undelivered(run', q)
  BY <1>2, RunsAreNotNames DEF Undelivered
<1>4. \A q \in Run : Done(run', q) <=> Done(run, q)
  BY <1>2 DEF Done, Terminal
<1>5. WaitRows(run')
  BY <1>1, <1>2, <1>3 DEF WaitRows
<1>6. c \in Undelivered(run', r)
  BY <1>1, <1>2 DEF Undelivered
<1> QED
  BY <1>2, <1>3, <1>4, <1>5, <1>6 DEF Orderly, Stale

\* A Run starts to wait for the child its task waits for, if that still runs.
LEMMA FinishWaitingIsOrderly ==
    ASSUME WaitInv, NEW s \in Supervisor, NEW r \in Run, FinishWaiting(s, r)
    PROVE  WaitRows(run') /\ Orderly(run, run')
<1> DEFINE w == task[s][r].wait
           rows == SetStatus(run, r, "waiting", w)
<1>1. /\ run \in Rows /\ WaitRows(run) /\ w \in Run \cup {NoRun} /\ w \in Wait
      /\ task[s][r] \in Task
  BY DEF WaitInv, WorkInv, TypeInv, TypeOK, Rows, Task, Wait
<1>2. run[r].status = "running" /\ OwnAttempt(s, r)
  BY DEF FinishWaiting, Fenced
<1>3. w \in Run => w \in Undelivered(run, r)
  BY <1>2 DEF WaitInv, TaskWaits
<1>4. rows \in Rows
  BY <1>1, SetStatusRows, StatusNames
<1>5. /\ rows[r].status = "waiting" /\ rows[r].wait = w
      /\ \A q \in Run : /\ rows[q].parent = run[q].parent
                        /\ rows[q].disposition = run[q].disposition
      /\ \A q \in Run \ {r} : rows[q].status = run[q].status /\ rows[q].wait = run[q].wait
  BY <1>1 DEF SetStatus, SetRun, Rows, RunRow
<1> HIDE DEF rows
<1>6. \A q \in Run : Undelivered(rows, q) = Undelivered(run, q)
  BY <1>5 DEF Undelivered
<1>7. \A q \in Run : Done(rows, q) <=> Done(run, q)
  BY <1>2, <1>5 DEF Done, Terminal
<1>8. WaitRows(rows)
  BY <1>1, <1>2, <1>3, <1>5, <1>6 DEF WaitRows
<1>9. run' = DeliverFinished(rows, r)
  BY DEF FinishWaiting, rows
<1>10. CASE w \in Undelivered(rows, r) /\ Done(rows, w)
  <2>1. w \in Run /\ rows[w].status # "absent"
    BY <1>10 DEF Undelivered, Done, Terminal
  <2>2. run' = Deliver(rows, w)
    BY <1>5, <1>9, <1>10 DEF DeliverFinished
  <2>3. /\ WaitRows(run') /\ Orderly(rows, run')
        /\ \A q \in Run : run'[q].wait \in {rows[q].wait, NoRun} \ {w}
    BY <1>4, <1>8, <2>1, <2>2, DeliverIsOrderly
  <2>4. ASSUME NEW q \in Run, Stale(run', q)
        PROVE  Stale(run, q)
    <3>1. Stale(rows, q) /\ q # r
      BY <1>5, <2>3, <2>4, RunsAreNotNames DEF Orderly, Stale
    <3> QED
      BY <1>5, <1>7, <3>1 DEF Stale
  <2>5. ASSUME NEW q \in Run, run[q].status # "absent"
        PROVE  run'[q].status # "absent" /\ run'[q].parent = run[q].parent
    <3>1. rows[q].status # "absent"
      BY <1>5, <2>5
    <3> QED
      BY <1>5, <2>3, <3>1 DEF Orderly
  <2>6. ASSUME NEW q \in Run, run'[q].status = "running"
        PROVE  Undelivered(run, q) \subseteq Undelivered(run', q)
    BY <1>6, <2>3, <2>6 DEF Orderly
  <2> QED
    BY <1>7, <2>3, <2>4, <2>5, <2>6 DEF Orderly
<1>11. CASE ~(w \in Undelivered(rows, r) /\ Done(rows, w))
  <2>1. run' = rows
    BY <1>5, <1>9, <1>11 DEF DeliverFinished
  <2>2. ~Stale(rows, r)
    BY <1>3, <1>5, <1>6, <1>11 DEF Stale
  <2> QED
    BY <1>2, <1>5, <1>6, <1>7, <1>8, <2>1, <2>2 DEF Orderly, Stale
<1> QED
  BY <1>10, <1>11

LEMMA TaskIsOrderly ==
    ASSUME WaitInv, NEW s \in Supervisor, NEW r \in Run, TaskStep(s, r)
    PROVE  WaitRows(run') /\ Orderly(run, run')
<1>1. run \in Rows /\ WaitRows(run)
  BY DEF WaitInv, WorkInv, TypeInv, TypeOK, Rows
<1>2. ASSUME UNCHANGED run
      PROVE  WaitRows(run') /\ Orderly(run, run')
  BY <1>1, <1>2, OrderlyReflexive
<1>3. ASSUME NEW status \in {"succeeded", "failed"}, Fenced(s, r),
             run' = Deliver(SetStatus(Discard(run, r), r, status, NoRun), r)
      PROVE  WaitRows(run') /\ Orderly(run, run')
  <2> DEFINE ended == SetStatus(Discard(run, r), r, status, NoRun)
  <2>1. run[r].status \notin Terminal \cup {"absent"}
    BY <1>3 DEF Fenced, Terminal
  <2>2. status \in Status \ {"absent", "running"}
    BY <1>3 DEF Status, Terminal
  <2>3. WaitRows(ended) /\ OrderlyButFor(run, ended, r)
    BY <1>1, <2>1, <2>2, RunsAreNotNames, EndIsOrderly
  <2>4. ended \in Rows
    BY <1>1, <2>2, EndKeepsAttempts DEF Wait
  <2>5. ended[r].status # "absent"
    BY <2>1, <2>3 DEF OrderlyButFor
  <2> HIDE DEF ended
  <2>6. WaitRows(Deliver(ended, r)) /\ Orderly(run, Deliver(ended, r))
    BY <1>1, <2>3, <2>4, <2>5, EndAndDeliverIsOrderly
  <2> QED
    BY <1>3, <2>6 DEF ended
<1>4. CASE Finish(s, r) \/ FailRun(s, r)
  BY <1>3, <1>4 DEF Finish, FailRun
<1>5. CASE WaitForToolRecovery(s, r)
  <2>1. run[r].status \notin Terminal \cup {"absent"}
    BY <1>5 DEF WaitForToolRecovery, Fenced, Terminal
  <2>2. "waiting" \in Status \ {"absent", "running"} /\ "waiting" \notin Terminal
    BY DEF Status, Terminal
  <2> QED
    BY <1>1, <1>5, <2>1, <2>2, RunsAreNotNames, EndIsOrderly DEF WaitForToolRecovery
<1>6. CASE AskChildren(s, r)
  BY <1>1, <1>6, MarkIsOrderly DEF AskChildren, RequestCancels
<1>7. CASE YieldTask(s, r)
  <2>1. "queued" \in Status \ {"absent"} /\ "queued" \notin Terminal
    BY DEF Status, Terminal
  <2>2. run' = run \/ (run[r].status = "running" /\ run' = SetStatus(run, r, "queued", NoRun))
    BY <1>7 DEF YieldTask, Requeue
  <2>3. CASE run[r].status = "running" /\ run' = SetStatus(run, r, "queued", NoRun)
    <3>1. run[r].status \notin Terminal \cup {"absent"}
      BY <2>3 DEF Terminal
    <3> QED
      BY <1>1, <2>1, <2>3, <3>1, RunsAreNotNames, SetStatusIsOrderly
  <2> QED
    BY <1>2, <2>2, <2>3
<1> QED
  BY <1>2, <1>4, <1>5, <1>6, <1>7, FinishWaitingIsOrderly, CreateChildIsOrderly
     DEF TaskStep, BuildContext, Reconcile, StartCall, CallReturns, CompleteCall,
         CallFails, Raise, TaskEnds, AbortCall

\* A sweep ends a Run and leaves its parent waiting; nothing else the driver does.
LEMMA DriverIsOrderly ==
    ASSUME WaitInv, NEW s \in Supervisor, DriverStep(s)
    PROVE  /\ WaitRows(run')
           /\ \/ Orderly(run, run')
              \/ /\ CancelRun(s) /\ sup[s].command \in Sweep
                 /\ OrderlyButFor(run, run', sup[s].current)
<1>1. run \in Rows /\ WaitRows(run)
  BY DEF WaitInv, WorkInv, TypeInv, TypeOK, Rows
<1>2. ASSUME UNCHANGED run
      PROVE  WaitRows(run') /\ Orderly(run, run')
  BY <1>1, <1>2, OrderlyReflexive
<1>3. ASSUME NEW r \in Run, RecoverRun(s, r)
      PROVE  WaitRows(run') /\ Orderly(run, run')
  <2>1. "queued" \in Status \ {"absent"} /\ "queued" \notin Terminal
    BY DEF Status, Terminal
  <2>2. run' = run \/ (run[r].status = "running" /\ run' = SetStatus(run, r, "queued", NoRun))
    BY <1>3 DEF RecoverRun, Requeue
  <2>3. CASE run[r].status = "running" /\ run' = SetStatus(run, r, "queued", NoRun)
    <3>1. run[r].status \notin Terminal \cup {"absent"}
      BY <2>3 DEF Terminal
    <3> QED
      BY <1>1, <2>1, <2>3, <3>1, RunsAreNotNames, SetStatusIsOrderly
  <2> QED
    BY <1>2, <2>2, <2>3
<1>4. CASE CancelChildren(s)
  BY <1>1, <1>4, MarkIsOrderly DEF CancelChildren, RequestCancels
<1>5. CASE CancelRun(s)
  <2> DEFINE r == sup[s].current
             closed == SetStatus(Discard(run, r), r, "canceled", NoRun)
             ended == Mark(closed, {r})
  <2>1. r \in Run
    BY <1>5 DEF WaitInv, WorkInv, TypeInv, CurrentIsRun, CancelRun
  <2>2. \/ run' = run
        \/ /\ ~Done(run, r)
           /\ \/ sup[s].command \in Sweep /\ run' = ended
              \/ run' = Deliver(ended, r)
    BY <1>5 DEF CancelRun
  <2>3. CASE ~Done(run, r) /\ run[r].status # "absent"
    <3>1. run[r].status \notin Terminal \cup {"absent"}
      BY <2>3 DEF Done
    <3>2. "canceled" \in Status \ {"absent", "running"}
      BY DEF Status, Terminal
    <3>3. WaitRows(closed) /\ OrderlyButFor(run, closed, r) /\ closed \in Rows
      BY <1>1, <2>1, <3>1, <3>2, RunsAreNotNames, EndIsOrderly, EndKeepsAttempts DEF Wait
    <3> HIDE DEF closed
    <3>4. WaitRows(ended) /\ Orderly(closed, ended) /\ ended \in Rows
      BY <3>3, MarkIsOrderly, MarkRows
    <3>5. \A q \in Run : ended[q].wait = closed[q].wait /\ ended[q].status = closed[q].status
      BY <3>3 DEF Mark, Rows, RunRow
    <3> HIDE DEF ended
    <3>6. OrderlyButFor(run, ended, r)
      BY <3>3, <3>4, <3>5 DEF Orderly, OrderlyButFor
    <3>7. ended[r].status # "absent"
      BY <2>1, <3>1, <3>6 DEF OrderlyButFor
    <3>8. WaitRows(Deliver(ended, r)) /\ Orderly(run, Deliver(ended, r))
      BY <1>1, <2>1, <3>4, <3>6, <3>7, EndAndDeliverIsOrderly
    <3>9. CASE sup[s].command \in Sweep /\ run' = ended
      BY <1>5, <3>4, <3>6, <3>9
    <3>10. CASE run' = Deliver(ended, r)
      BY <3>8, <3>10
    <3> QED
      BY <1>2, <2>2, <3>9, <3>10 DEF closed, ended
  <2>4. run[r].status # "absent"
    BY <1>5 DEF WaitInv, CancelsKnown, Canceling, CancelRun
  <2> QED
    BY <1>2, <2>2, <2>3, <2>4
<1> QED
  BY <1>2, <1>3, <1>4, <1>5
     DEF DriverStep, BeginRenew, RenewKeeps, RenewTakes, RenewRefused, BeginRecover,
         EndRecover, BeginCancel, StopTasks, BeginCancelRun, EndCancel, DriverFails

\* What a step does to the rows, the one that is not orderly included.
LEMMA NextIsOrderly ==
    ASSUME WaitInv, [Next]_vars
    PROVE  /\ WaitRows(run')
           /\ \/ Orderly(run, run')
              \/ \E s \in Supervisor :
                    /\ CancelRun(s) /\ sup[s].command \in Sweep
                    /\ OrderlyButFor(run, run', sup[s].current)
<1>1. run \in Rows /\ WaitRows(run)
  BY DEF WaitInv, WorkInv, TypeInv, TypeOK, Rows
<1>2. ASSUME UNCHANGED run
      PROVE  WaitRows(run') /\ Orderly(run, run')
  BY <1>1, <1>2, OrderlyReflexive
<1>3. ASSUME NEW sweep \in Sweep, RequestSessionCancel(sweep)
      PROVE  WaitRows(run') /\ Orderly(run, run')
  BY <1>1, <1>3, MarkIsOrderly DEF RequestSessionCancel
<1> QED
  BY <1>2, <1>3, RequestIsOrderly, ClaimIsOrderly, TaskIsOrderly, DriverIsOrderly
     DEF Next, vars, Expire, Shutdown, Exit, Restart

\* Runs that exist go on existing.
LEMMA RunsStay ==
    ASSUME WaitInv, [Next]_vars
    PROVE  /\ WaitRows(run')
           /\ \A r \in Run : run[r].status # "absent" => run'[r].status # "absent"
BY NextIsOrderly DEF Orderly, OrderlyButFor

LEMMA CancelableExists ==
    ASSUME WaitRows(run), NEW p \in Run
    PROVE  \A c \in Cancelable(p) : c \in Run /\ run[c].status # "absent"
BY RunsAreNotNames DEF Cancelable, Undelivered, WaitRows

LEMMA SetSupKeepsCancels ==
    ASSUME WaitInv, [Next]_vars, NEW s \in Supervisor, NEW q \in Sup, SetSup(s, q),
           q.stage \in {"stopping", "canceling", "requesting", "closing"} =>
               \A r \in q.todo : run[r].status # "absent",
           q.stage \in {"requesting", "closing"} => q.current \in q.todo,
           q.command \in Sweep => q.command \in requested,
           UNCHANGED requested,
           \A r \in commands' : r \in commands \/ (r \in Run /\ run[r].status # "absent")
    PROVE  CancelsKnown'
<1>1. \A r \in Run : run[r].status # "absent" => run'[r].status # "absent"
  BY RunsStay
<1>2. /\ commands \subseteq Run \cup Sweep /\ sup \in [Supervisor -> Sup]
      /\ q.todo \subseteq Run
      /\ \A t \in Supervisor : sup[t].todo \subseteq Run
  BY DEF WaitInv, WorkInv, TypeInv, TypeOK, Sup
<1>3. \A r \in commands' \cap Run : run'[r].status # "absent"
  BY <1>1, <1>2 DEF WaitInv, CancelsKnown
<1>4. commands' \cap Sweep \subseteq requested'
  BY RunAssumption DEF WaitInv, CancelsKnown
<1>5. sup'[s] = q /\ \A t \in Supervisor \ {s} : sup'[t] = sup[t]
  BY <1>2 DEF SetSup
<1>6. ASSUME NEW t \in Supervisor
      PROVE  /\ Canceling(t)' => \A r \in sup'[t].todo : run'[r].status # "absent"
             /\ sup'[t].stage \in {"requesting", "closing"} =>
                   sup'[t].current \in sup'[t].todo
             /\ sup'[t].command \in Sweep => sup'[t].command \in requested'
  <2>1. CASE t = s
    BY <1>1, <1>2, <1>5, <2>1 DEF Canceling
  <2>2. CASE t # s
    BY <1>1, <1>2, <1>5, <2>2 DEF WaitInv, CancelsKnown, Canceling
  <2> QED
    BY <2>1, <2>2
<1> QED
  BY <1>3, <1>4, <1>6 DEF CancelsKnown

LEMMA DriverKeepsCancels ==
    ASSUME WaitInv, [Next]_vars, NEW s \in Supervisor, DriverStep(s)
    PROVE  CancelsKnown'
<1>1. /\ sup[s] \in Sup /\ run \in Rows /\ WaitRows(run) /\ lease.token \in Nat
      /\ commands \subseteq Run \cup Sweep
  BY DEF WaitInv, WorkInv, TypeInv, TypeOK, Rows
<1>2. /\ Canceling(s) => \A r \in sup[s].todo : run[r].status # "absent"
      /\ sup[s].stage \in {"requesting", "closing"} => sup[s].current \in sup[s].todo
      /\ sup[s].command \in Sweep => sup[s].command \in requested
      /\ \A r \in commands \cap Run : run[r].status # "absent"
      /\ commands \cap Sweep \subseteq requested
  BY DEF WaitInv, CancelsKnown
<1>0. [sup[s] EXCEPT !.stage = "idle", !.token = lease.token + 1] \in Sup
  <2>1. lease.token + 1 \in Nat
    BY <1>1
  <2> QED
    BY <1>1, <2>1, StageNames DEF Sup
<1> USE <1>1, <1>2, StageNames DEF Sup, Canceling
<1>3. CASE BeginRenew(s)
  BY <1>3, SetSupKeepsCancels DEF BeginRenew, commandVars
<1>4. CASE RenewKeeps(s)
  BY <1>4, SetSupKeepsCancels DEF RenewKeeps, commandVars
<1>5. CASE RenewTakes(s)
  BY <1>5, <1>0, SetSupKeepsCancels DEF RenewTakes, commandVars
<1>6. CASE RenewRefused(s)
  BY <1>6, SetSupKeepsCancels DEF RenewRefused, commandVars
<1>7. CASE BeginRecover(s)
  BY <1>7, SetSupKeepsCancels DEF BeginRecover, commandVars
<1>8. ASSUME NEW r \in Run, RecoverRun(s, r)
      PROVE  CancelsKnown'
  BY <1>8, SetSupKeepsCancels DEF RecoverRun, commandVars
<1>9. CASE EndRecover(s)
  BY <1>9, SetSupKeepsCancels DEF EndRecover, commandVars
<1>10. ASSUME NEW command \in commands, BeginCancel(s, command)
       PROVE  CancelsKnown'
  <2> DEFINE q == [sup[s] EXCEPT !.stage = "stopping", !.command = command,
                                 !.todo = Selected(command)]
  <2>1. /\ Selected(command) \subseteq Run
        /\ \A r \in Selected(command) : run[r].status # "absent"
    BY DEF Selected, Open
  <2>2. q \in Sup
    BY <2>1
  <2>3. /\ q.stage = "stopping" /\ q.todo = Selected(command) /\ q.command = command
    OBVIOUS
  <2>4. SetSup(s, q) /\ UNCHANGED <<commands, requested>>
    BY <1>10 DEF BeginCancel, commandVars
  <2> HIDE DEF q
  <2> QED
    BY <2>1, <2>2, <2>3, <2>4, SetSupKeepsCancels
<1>11. CASE StopTasks(s)
  BY <1>11, SetSupKeepsCancels DEF StopTasks, commandVars
<1>12. ASSUME NEW r \in Run, BeginCancelRun(s, r)
       PROVE  CancelsKnown'
  BY <1>12, SetSupKeepsCancels DEF BeginCancelRun, commandVars
<1>13. CASE CancelChildren(s)
  <2>1. sup[s].current \in Run
    BY <1>13 DEF CancelChildren
  <2>2. \A c \in Cancelable(sup[s].current) : c \in Run /\ run[c].status # "absent"
    BY <2>1, CancelableExists
  <2> QED
    BY <1>13, <2>2, SetSupKeepsCancels DEF CancelChildren, RequestCancels
<1>14. CASE CancelRun(s)
  BY <1>14, SetSupKeepsCancels DEF CancelRun, commandVars
<1>15. CASE EndCancel(s)
  BY <1>15, RunAssumption, SetSupKeepsCancels DEF EndCancel
<1>16. CASE DriverFails(s)
  <2> DEFINE q == [sup[s] EXCEPT !.stage = "idle", !.todo = {},
                                 !.current = NoRun, !.command = NoRun]
  <2>1. q \in Sup /\ q.stage = "idle" /\ q.command = NoRun
    OBVIOUS
  <2>2. SetSup(s, q) /\ UNCHANGED <<commands, requested>>
    BY <1>16 DEF DriverFails, commandVars
  <2> HIDE DEF q
  <2> QED
    BY <2>1, <2>2, RunAssumption, SetSupKeepsCancels
<1> QED
  BY <1>3, <1>4, <1>5, <1>6, <1>7, <1>8, <1>9, <1>10, <1>11, <1>12, <1>13, <1>14, <1>15,
     <1>16 DEF DriverStep

LEMMA NextCancels ==
    ASSUME WaitInv, [Next]_vars
    PROVE  CancelsKnown'
<1>1. \A r \in Run : run[r].status # "absent" => run'[r].status # "absent"
  BY RunsStay
<1>2. /\ commands \subseteq Run \cup Sweep
      /\ \A t \in Supervisor : sup[t] \in Sup /\ sup[t].todo \subseteq Run
      /\ WaitRows(run)
  BY DEF WaitInv, WorkInv, TypeInv, TypeOK, Sup
<1>3. ASSUME UNCHANGED sup, requested \subseteq requested',
             commands' \cap Sweep \subseteq requested',
             \A r \in commands' \cap Run : r \in commands \/ run[r].status # "absent"
      PROVE  CancelsKnown'
  BY <1>1, <1>2, <1>3 DEF WaitInv, CancelsKnown, Canceling
<1>4. ASSUME NEW R \in SUBSET Run, RequestCancels(R), UNCHANGED sup,
             \A r \in R : run[r].status # "absent"
      PROVE  CancelsKnown'
  <2>1. commands' = commands \cup R /\ requested' = requested
    BY <1>4 DEF RequestCancels
  <2>2. commands' \cap Sweep \subseteq requested'
    BY <2>1, RunAssumption DEF WaitInv, CancelsKnown
  <2> QED
    BY <1>3, <1>4, <2>1, <2>2
<1>5. ASSUME UNCHANGED <<commands, requested, sup>>
      PROVE  CancelsKnown'
  <2>1. commands \cap Sweep \subseteq requested
    BY DEF WaitInv, CancelsKnown
  <2> QED
    BY <1>3, <1>5, <2>1
<1>6. ASSUME NEW sweep \in Sweep, RequestSessionCancel(sweep)
      PROVE  CancelsKnown'
  <2>1. /\ commands' = commands \cup {sweep} /\ requested' = requested \cup {sweep}
        /\ UNCHANGED sup /\ sweep \notin Run
    BY <1>6, RunAssumption DEF RequestSessionCancel
  <2>2. commands \cap Sweep \subseteq requested
    BY DEF WaitInv, CancelsKnown
  <2> QED
    BY <1>3, <2>1, <2>2
<1>7. ASSUME NEW r \in Run, Request(r)
      PROVE  CancelsKnown'
  BY <1>4, <1>5, <1>7
     DEF Request, EnqueueRun, RequestInterrupt, RequestChildCancel, Resolve, commandVars, Open
<1>8. CASE Expire
  <2>1. UNCHANGED <<commands, requested, run>>
    BY <1>8 DEF Expire, commandVars
  <2>2. \A t \in Supervisor :
           /\ sup'[t].stage = sup[t].stage /\ sup'[t].todo = sup[t].todo
           /\ sup'[t].current = sup[t].current /\ sup'[t].command = sup[t].command
    BY <1>2, <1>8 DEF Expire, Sup
  <2> QED
    BY <2>1, <2>2 DEF WaitInv, CancelsKnown, Canceling
<1>9. ASSUME NEW s \in Supervisor, Shutdown(s) \/ Exit(s) \/ Restart(s)
      PROVE  CancelsKnown'
  <2>1. UNCHANGED <<commands, requested>>
    BY <1>9 DEF Shutdown, Exit, Restart, commandVars
  <2>2. PICK q \in Sup : SetSup(s, q) /\ q.stage = "idle" /\ q.command = NoRun
    BY <1>2, <1>9, StoppedDriver DEF WaitInv, WorkInv, TypeInv
  <2>3. SetSup(s, q) /\ UNCHANGED <<commands, requested>>
    BY <2>1, <2>2
  <2> QED
    BY <2>2, <2>3, RunAssumption, SetSupKeepsCancels
<1>10. ASSUME NEW s \in Supervisor, NEW r \in Run, Claim(s, r) \/ TaskStep(s, r)
       PROVE  CancelsKnown'
  <2>1. CASE AskChildren(s, r)
    BY <1>2, <1>4, <2>1, CancelableExists DEF AskChildren, Cancelable, Undelivered
  <2> QED
    BY <1>5, <1>10, <2>1
       DEF Claim, TaskStep, BuildContext, Reconcile, StartCall, CreateChild, CallReturns,
           CompleteCall, CallFails, Finish, FinishWaiting, Raise, FailRun,
           WaitForToolRecovery, TaskEnds, AbortCall, YieldTask, commandVars
<1>11. CASE UNCHANGED vars
  BY <1>5, <1>11 DEF vars
<1> QED
  BY <1>6, <1>7, <1>8, <1>9, <1>10, <1>11, DriverKeepsCancels DEF Next

\* A task that keeps its wait keeps being owed the result, while it owns its Run.
LEMMA QuietKeepsTaskWaits ==
    ASSUME WaitInv, KeepsAttempts(run, run'),
           \A r \in Run : run'[r].status = "running" =>
               Undelivered(run, r) \subseteq Undelivered(run', r),
           \A s \in Supervisor, r \in Run :
              \/ task'[s][r].wait = NoRun
              \/ /\ task'[s][r].wait = task[s][r].wait
                 /\ task'[s][r].token = task[s][r].token
    PROVE  TaskWaits'
<1>1. ASSUME NEW s \in Supervisor, NEW r \in Run, run'[r].status = "running",
             OwnAttempt(s, r)', task'[s][r].wait \in Run
      PROVE  task'[s][r].wait \in Undelivered(run', r)
  <2>1. /\ task'[s][r].wait = task[s][r].wait
        /\ task'[s][r].token = task[s][r].token
    BY <1>1, RunsAreNotNames
  <2>2. run[r].status = "running" /\ run'[r].attempt = run[r].attempt
    BY <1>1 DEF KeepsAttempts
  <2>3. OwnAttempt(s, r)
    BY <1>1, <2>1, <2>2 DEF OwnAttempt
  <2>4. task[s][r].wait \in Undelivered(run, r)
    BY <1>1, <2>1, <2>2, <2>3 DEF WaitInv, TaskWaits
  <2> QED
    BY <1>1, <2>1, <2>4
<1>2. \A r \in Run : Undelivered(run, r)' = Undelivered(run', r)
  BY DEF Undelivered
<1> QED
  BY <1>1, <1>2 DEF TaskWaits

LEMMA CanceledWait ==
    ASSUME NEW t \in Task
    PROVE  \/ Canceled(t).wait = NoRun
           \/ Canceled(t).wait = t.wait /\ Canceled(t).token = t.token
BY DEF Canceled, NoTask, Task

LEMMA ClaimKeepsTaskWaits ==
    ASSUME WaitInv, NEW s \in Supervisor, NEW r \in Run, Claim(s, r)
    PROVE  TaskWaits'
<1>1. run \in Rows /\ task \in [Supervisor -> [Run -> Task]]
  BY DEF WaitInv, WorkInv, TypeInv, TypeOK, Rows
<1>2. /\ task'[s][r].wait = NoRun
      /\ \A t \in Supervisor, q \in Run : t # s \/ q # r => task'[t][q] = task[t][q]
  BY <1>1 DEF Claim, SetTask, NoTask
<1>3. /\ run'[r].attempt.owner = s
      /\ \A q \in Run \ {r} : run'[q] = run[q]
  BY <1>1 DEF Claim, SetRun, Rows, RunRow
<1>4. \A q \in Run : Undelivered(run, q) \subseteq Undelivered(run', q)
  BY <1>1 DEF Undelivered, Claim, SetRun, Rows, RunRow
<1>5. ASSUME NEW t \in Supervisor, NEW q \in Run, run'[q].status = "running",
             OwnAttempt(t, q)', task'[t][q].wait \in Run
      PROVE  task'[t][q].wait \in Undelivered(run', q)
  <2>1. q # r
    BY <1>2, <1>3, <1>5, RunsAreNotNames DEF OwnAttempt
  <2>2. task'[t][q] = task[t][q] /\ run'[q] = run[q]
    BY <1>2, <1>3, <2>1
  <2>3. task[t][q].wait \in Undelivered(run, q)
    BY <1>5, <2>2 DEF WaitInv, TaskWaits, OwnAttempt
  <2> QED
    BY <1>4, <2>2, <2>3
<1>6. \A q \in Run : Undelivered(run, q)' = Undelivered(run', q)
  BY DEF Undelivered
<1> QED
  BY <1>5, <1>6 DEF TaskWaits

LEMMA CreateChildKeepsTaskWaits ==
    ASSUME WaitInv, NEW s \in Supervisor, NEW r \in Run, NEW c \in Child,
           CreateChild(s, r, c)
    PROVE  TaskWaits'
<1>1. task \in [Supervisor -> [Run -> Task]]
  BY DEF WaitInv, WorkInv, TypeInv, TypeOK
<1>2. /\ task'[s][r].wait = c
      /\ \A t \in Supervisor, q \in Run : t # s \/ q # r => task'[t][q] = task[t][q]
  BY <1>1 DEF CreateChild, SetTask, Task
<1>3. Orderly(run, run') /\ c \in Undelivered(run', r)
  BY CreateChildIsOrderly
<1>4. KeepsAttempts(run, run')
  BY TasksKeepAttempts DEF TaskStep, WaitInv, WorkInv
<1>5. ASSUME NEW t \in Supervisor, NEW q \in Run, run'[q].status = "running",
             OwnAttempt(t, q)', task'[t][q].wait \in Run
      PROVE  task'[t][q].wait \in Undelivered(run', q)
  <2>1. CASE t = s /\ q = r
    BY <1>2, <1>3, <2>1
  <2>2. CASE t # s \/ q # r
    <3>1. task'[t][q] = task[t][q]
      BY <1>2, <2>2
    <3>2. run[q].status = "running" /\ run'[q].attempt = run[q].attempt
      BY <1>4, <1>5 DEF KeepsAttempts
    <3>3. task[t][q].wait \in Undelivered(run, q)
      BY <1>5, <3>1, <3>2 DEF WaitInv, TaskWaits, OwnAttempt
    <3> QED
      BY <1>3, <1>5, <3>1, <3>3 DEF Orderly
  <2> QED
    BY <2>1, <2>2
<1>6. \A q \in Run : Undelivered(run, q)' = Undelivered(run', q)
  BY DEF Undelivered
<1> QED
  BY <1>5, <1>6 DEF TaskWaits

LEMMA BuildContextKeepsTaskWaits ==
    ASSUME WaitInv, NEW s \in Supervisor, NEW r \in Run, BuildContext(s, r)
    PROVE  TaskWaits'
<1>1. task \in [Supervisor -> [Run -> Task]]
  BY DEF WaitInv, WorkInv, TypeInv, TypeOK
<1>2. PICK c \in Run \cup {NoRun} :
         /\ Undelivered(run, r) = {c} \ {NoRun}
         /\ SetTask(s, r, [task[s][r] EXCEPT !.phase = "reconciling", !.wait = c])
  BY DEF BuildContext
<1>3. /\ task'[s][r].wait = c
      /\ \A t \in Supervisor, q \in Run : t # s \/ q # r => task'[t][q] = task[t][q]
  BY <1>1, <1>2 DEF SetTask, Task
<1>4. UNCHANGED run
  BY DEF BuildContext
<1>5. ASSUME NEW t \in Supervisor, NEW q \in Run, run'[q].status = "running",
             OwnAttempt(t, q)', task'[t][q].wait \in Run
      PROVE  task'[t][q].wait \in Undelivered(run, q)
  <2>1. CASE t = s /\ q = r
    BY <1>2, <1>3, <1>5, <2>1, RunsAreNotNames
  <2>2. CASE t # s \/ q # r
    BY <1>3, <1>4, <1>5, <2>2 DEF WaitInv, TaskWaits, OwnAttempt
  <2> QED
    BY <2>1, <2>2
<1>6. \A q \in Run : Undelivered(run, q)' = Undelivered(run, q)
  BY <1>4 DEF Undelivered
<1> QED
  BY <1>5, <1>6 DEF TaskWaits

LEMMA TasksKeepTaskWaits ==
    ASSUME WaitInv, NEW s \in Supervisor, NEW r \in Run, TaskStep(s, r)
    PROVE  TaskWaits'
<1>1. KeepsAttempts(run, run') /\ Orderly(run, run')
  BY TasksKeepAttempts, TaskIsOrderly DEF WaitInv, WorkInv
<1>2. task[s][r] \in Task /\ task \in [Supervisor -> [Run -> Task]]
  BY DEF WaitInv, WorkInv, TypeInv, TypeOK
<1>3. ASSUME NEW t, SetTask(s, r, t),
             t.wait = NoRun \/ (t.wait = task[s][r].wait /\ t.token = task[s][r].token)
      PROVE  TaskWaits'
  <2>1. ASSUME NEW u \in Supervisor, NEW q \in Run
        PROVE  \/ task'[u][q].wait = NoRun
               \/ /\ task'[u][q].wait = task[u][q].wait
                  /\ task'[u][q].token = task[u][q].token
    BY <1>2, <1>3 DEF SetTask
  <2> QED
    BY <1>1, <2>1, QuietKeepsTaskWaits DEF Orderly
<1>4. ASSUME SetTask(s, r, NoTask)
      PROVE  TaskWaits'
  BY <1>3, <1>4 DEF NoTask
<1>5. ASSUME NEW phase, Goto(s, r, phase)
      PROVE  TaskWaits'
  BY <1>2, <1>3, <1>5 DEF Goto, Task
<1>6. CASE StartCall(s, r)
  <2>1. SetTask(s, r, [task[s][r] EXCEPT !.phase = "calling", !.call = calls[r] + 1])
    BY <1>6 DEF StartCall
  <2> QED
    BY <1>2, <1>3, <2>1 DEF Task
<1>7. CASE BuildContext(s, r) \/ \E c \in Child : CreateChild(s, r, c)
  BY <1>7, BuildContextKeepsTaskWaits, CreateChildKeepsTaskWaits
<1> QED
  BY <1>4, <1>5, <1>6, <1>7
     DEF TaskStep, Reconcile, CallReturns, CompleteCall, CallFails, Finish, FinishWaiting,
         Raise, AskChildren, FailRun, WaitForToolRecovery, TaskEnds, AbortCall, YieldTask

LEMMA NextTaskWaits ==
    ASSUME WaitInv, [Next]_vars
    PROVE  TaskWaits'
<1>1. task \in [Supervisor -> [Run -> Task]] /\ run \in Rows /\ WaitRows(run)
  BY DEF WaitInv, WorkInv, TypeInv, TypeOK, Rows
<1>2. ASSUME KeepsAttempts(run, run'),
             \A r \in Run : run'[r].status = "running" =>
                 Undelivered(run, r) \subseteq Undelivered(run', r),
             \/ UNCHANGED task
             \/ \E s \in Supervisor : YieldAll(s)
             \/ \E s \in Supervisor : StopTasks(s)
             \/ \E s \in Supervisor : task' = [task EXCEPT ![s] = [r \in Run |-> NoTask]]
      PROVE  TaskWaits'
  <2>1. ASSUME NEW t \in Supervisor, NEW r \in Run
        PROVE  \/ task'[t][r].wait = NoRun
               \/ /\ task'[t][r].wait = task[t][r].wait
                  /\ task'[t][r].token = task[t][r].token
    <3>1. CASE UNCHANGED task
      BY <3>1
    <3>2. ASSUME NEW s \in Supervisor, YieldAll(s)
          PROVE  \/ task'[t][r].wait = NoRun
                 \/ /\ task'[t][r].wait = task[t][r].wait
                    /\ task'[t][r].token = task[t][r].token
      BY <1>1, <3>2, CanceledWait DEF YieldAll
    <3>3. ASSUME NEW s \in Supervisor, StopTasks(s)
          PROVE  \/ task'[t][r].wait = NoRun
                 \/ /\ task'[t][r].wait = task[t][r].wait
                    /\ task'[t][r].token = task[t][r].token
      BY <1>1, <3>3 DEF StopTasks, NoTask, Task
    <3>4. ASSUME NEW s \in Supervisor, task' = [task EXCEPT ![s] = [q \in Run |-> NoTask]]
          PROVE  \/ task'[t][r].wait = NoRun
                 \/ /\ task'[t][r].wait = task[t][r].wait
                    /\ task'[t][r].token = task[t][r].token
      BY <1>1, <3>4 DEF NoTask
    <3> QED
      BY <1>2, <3>1, <3>2, <3>3, <3>4
  <2> QED
    BY <1>2, <2>1, QuietKeepsTaskWaits
<1>3. ASSUME UNCHANGED run
      PROVE  /\ KeepsAttempts(run, run')
             /\ \A r \in Run : Undelivered(run, r) \subseteq Undelivered(run', r)
  BY <1>3 DEF KeepsAttempts
<1>4. CASE UNCHANGED vars
  BY <1>2, <1>3, <1>4 DEF vars
<1>5. CASE Expire
  BY <1>2, <1>3, <1>5 DEF Expire
<1>6. ASSUME NEW s \in Supervisor, Shutdown(s) \/ Exit(s) \/ Restart(s)
      PROVE  TaskWaits'
  BY <1>2, <1>3, <1>6 DEF Shutdown, Exit, Restart
<1>7. ASSUME NEW sweep \in Sweep, RequestSessionCancel(sweep)
      PROVE  TaskWaits'
  <2>1. KeepsAttempts(run, run') /\ Orderly(run, run')
    BY <1>1, <1>7, MarkKeepsAttempts, MarkIsOrderly DEF RequestSessionCancel
  <2> QED
    BY <1>2, <1>7, <2>1 DEF RequestSessionCancel, Orderly
<1>8. ASSUME NEW r \in Run, Request(r)
      PROVE  TaskWaits'
  <2>1. KeepsAttempts(run, run') /\ Orderly(run, run')
    BY <1>8, RequestsKeepAttempts, RequestIsOrderly DEF WaitInv, WorkInv
  <2>2. UNCHANGED task
    BY <1>8 DEF Request, EnqueueRun, RequestInterrupt, RequestChildCancel, Resolve
  <2> QED
    BY <1>2, <2>1, <2>2 DEF Orderly
<1>9. ASSUME NEW s \in Supervisor, DriverStep(s)
      PROVE  TaskWaits'
  <2>1. KeepsAttempts(run, run')
    BY <1>9, DriverKeepsAttempts DEF WaitInv, WorkInv
  <2>2. \A r \in Run : run'[r].status = "running" =>
           Undelivered(run, r) \subseteq Undelivered(run', r)
    BY <1>9, DriverIsOrderly DEF Orderly, OrderlyButFor
  <2>3. \/ UNCHANGED task
        \/ YieldAll(s)
        \/ StopTasks(s)
    BY <1>9 DEF DriverStep, BeginRenew, RenewKeeps, RenewTakes, RenewRefused, BeginRecover,
         RecoverRun, EndRecover, BeginCancel, BeginCancelRun, CancelChildren, CancelRun,
         EndCancel, DriverFails
  <2> QED
    BY <1>2, <2>1, <2>2, <2>3
<1> QED
  BY <1>4, <1>5, <1>6, <1>7, <1>8, <1>9, ClaimKeepsTaskWaits, TasksKeepTaskWaits DEF Next

LEMMA RequestedGrows ==
    ASSUME [Next]_vars
    PROVE  requested \subseteq requested'
<1>1. ASSUME NEW s \in Supervisor, DriverStep(s)
      PROVE  UNCHANGED requested
  BY <1>1 DEF DriverStep, BeginRenew, RenewKeeps, RenewTakes, RenewRefused, BeginRecover,
         RecoverRun, EndRecover, BeginCancel, StopTasks, BeginCancelRun, CancelChildren,
         CancelRun, EndCancel, DriverFails, RequestCancels, commandVars
<1>2. ASSUME NEW s \in Supervisor, NEW r \in Run, TaskStep(s, r)
      PROVE  UNCHANGED requested
  BY <1>2 DEF TaskStep, BuildContext, Reconcile, StartCall, CreateChild, CallReturns,
         CompleteCall, CallFails, Finish, FinishWaiting, Raise, AskChildren, FailRun,
         WaitForToolRecovery, TaskEnds, AbortCall, YieldTask, RequestCancels, commandVars
<1>3. ASSUME NEW r \in Run, Request(r)
      PROVE  UNCHANGED requested
  BY <1>3 DEF Request, EnqueueRun, RequestInterrupt, RequestChildCancel, Resolve,
         RequestCancels, commandVars
<1>4. ASSUME NEW sweep \in Sweep, RequestSessionCancel(sweep)
      PROVE  requested \subseteq requested'
  BY <1>4 DEF RequestSessionCancel
<1> QED
  BY <1>1, <1>2, <1>3, <1>4
     DEF Next, vars, Claim, Expire, Shutdown, Exit, Restart, commandVars

LEMMA NextStale ==
    ASSUME WaitInv, [Next]_vars
    PROVE  \A r \in Run : Stale(run', r) => requested' # {}
<1>1. requested \subseteq requested'
  BY RequestedGrows
<1>2. CASE Orderly(run, run')
  BY <1>1, <1>2 DEF Orderly, WaitInv
<1>3. ASSUME NEW s \in Supervisor, sup[s].command \in Sweep
      PROVE  requested' # {}
  BY <1>1, <1>3 DEF WaitInv, CancelsKnown
<1> QED
  BY <1>2, <1>3, NextIsOrderly

LEMMA InitWaitInv == Init => TaskWaits /\ WaitRows(run) /\ CancelsKnown
                             /\ \A r \in Run : Stale(run, r) => requested # {}
BY RunAssumption DEF Init, Fresh, TaskWaits, WaitRows, CancelsKnown, Canceling, Stale, NoAttempt,
   OwnAttempt

LEMMA WaitInvariant == Spec => []WaitInv
<1>1. WaitInv /\ [Next]_vars => /\ TaskWaits' /\ WaitRows(run)' /\ CancelsKnown'
                                /\ (\A r \in Run : Stale(run, r) => requested # {})'
  <2> SUFFICES ASSUME WaitInv, [Next]_vars
               PROVE  /\ TaskWaits' /\ WaitRows(run)' /\ CancelsKnown'
                      /\ (\A r \in Run : Stale(run, r) => requested # {})'
    OBVIOUS
  <2>1. WaitRows(run)' <=> WaitRows(run')
    BY DEF WaitRows, Undelivered
  <2>2. \A r \in Run : Stale(run, r)' <=> Stale(run', r)
    BY DEF Stale, Done
  <2> QED
    BY <2>1, <2>2, NextTaskWaits, NextIsOrderly, NextCancels, NextStale
<1> QED
  BY <1>1, InitWaitInv, WorkInvariant, PTL DEF Spec, WaitInv

-----------------------------------------------------------------------------
(* A sweep leaves parents waiting, but only parents it will cancel too.    *)

Sweeping(s) == Canceling(s) /\ sup[s].command \in Sweep

\* The rest of a sweep: with a child its parent, and every Run whose wait is stale.
SweepCovers(s) ==
    /\ sup[s].command \in commands
    /\ \A c \in sup[s].todo :
          run[c].parent \in Run /\ ~Done(run, run[c].parent) =>
              run[c].parent \in sup[s].todo
    /\ \A r \in Run : Stale(run, r) => r \in sup[s].todo

SweepInv ==
    /\ \A r \in Run : Stale(run, r) => commands \cap Sweep # {}
    /\ \A s \in Supervisor : Sweeping(s) => SweepCovers(s)

\* Steps that leave the driver where it is.
LEMMA BesideSweep ==
    ASSUME WaitInv, SweepInv, Orderly(run, run'), commands \subseteq commands',
           \A s \in Supervisor : /\ sup'[s].stage = sup[s].stage
                                 /\ sup'[s].todo = sup[s].todo
                                 /\ sup'[s].command = sup[s].command
    PROVE  SweepInv'
<1>1. \A r \in Run : (Stale(run, r)' <=> Stale(run', r)) /\ (Stale(run', r) => Stale(run, r))
  BY DEF Stale, Done, Orderly
<1>2. ASSUME NEW s \in Supervisor, Sweeping(s)'
      PROVE  SweepCovers(s)'
  <2>1. Sweeping(s) /\ SweepCovers(s)
    BY <1>2 DEF SweepInv, Sweeping, Canceling
  <2>2. \A c \in sup[s].todo : c \in Run /\ run[c].status # "absent"
    BY <2>1 DEF WaitInv, WorkInv, TypeInv, TypeOK, Sup, CancelsKnown, Sweeping
  <2>3. \A c \in sup[s].todo : run'[c].parent = run[c].parent
    BY <2>2 DEF Orderly
  <2>4. \A c \in sup[s].todo : run'[c].parent \in Run /\ ~Done(run', run'[c].parent) =>
           run'[c].parent \in sup[s].todo
    BY <2>1, <2>3 DEF SweepCovers, Orderly
  <2> QED
    BY <1>1, <2>1, <2>4 DEF SweepCovers, Done
<1> QED
  BY <1>1, <1>2 DEF SweepInv

\* Steps after which the driver is at no sweep.
LEMMA OutsideSweep ==
    ASSUME SweepInv, Orderly(run, run'), commands \cap Sweep \subseteq commands',
           \A s \in Supervisor : ~Sweeping(s)'
    PROVE  SweepInv'
BY DEF SweepInv, Stale, Done, Orderly

OneDriver == \A s, t \in Supervisor : s = t

\* The sweep ends a Run: its parent, if it waits, is still ahead.
LEMMA CancelRunKeepsSweep ==
    ASSUME WaitInv, SweepInv, OneDriver, [Next]_vars, NEW s \in Supervisor, CancelRun(s)
    PROVE  SweepInv'
<1> DEFINE r == sup[s].current
<1>1. /\ sup'[s].todo = sup[s].todo \ {r} /\ sup'[s].command = sup[s].command
      /\ sup'[s].stage = "canceling" /\ sup[s].stage = "closing"
      /\ UNCHANGED commands /\ DriverStep(s)
  BY DEF CancelRun, SetSup, WaitInv, WorkInv, TypeInv, TypeOK, Sup, commandVars, DriverStep
<1>2. /\ r \in sup[s].todo /\ r \in Run /\ sup[s].todo \subseteq Run
      /\ \A c \in sup[s].todo : run[c].status # "absent"
  BY <1>1 DEF WaitInv, WorkInv, TypeInv, TypeOK, Sup, CurrentIsRun, CancelsKnown, Canceling
<1>3. /\ WaitRows(run')
      /\ \/ Orderly(run, run')
         \/ sup[s].command \in Sweep /\ OrderlyButFor(run, run', r)
  BY <1>1, DriverIsOrderly
<1>4. Done(run', r)
  <2> DEFINE closed == SetStatus(Discard(run, r), r, "canceled", NoRun)
             ended == Mark(closed, {r})
  <2>1. run \in Rows
    BY DEF WaitInv, WorkInv, TypeInv, TypeOK, Rows
  <2>2. closed[r].status = "canceled" /\ closed \in Rows
    <3>1. Discard(run, r) \in Rows
      BY <1>2, <2>1, DiscardRows
    <3>2. closed \in Rows
      BY <1>2, <3>1, StatusNames, SetStatusRows DEF Wait
    <3>3. closed[r].status = "canceled"
      BY <1>2, <3>1 DEF SetStatus, SetRun, Rows, RunRow
    <3> QED
      BY <3>2, <3>3
  <2> HIDE DEF closed
  <2>3. ended[r].status = "canceled" /\ ended \in Rows
    BY <1>2, <2>2, MarkRows DEF Mark, Rows, RunRow
  <2> HIDE DEF ended
  <2>4. Deliver(ended, r)[r].status = "canceled"
    BY <1>2, <2>3 DEF Deliver, Rows, RunRow
  <2>5. (run' = run /\ Done(run, r)) \/ run' = ended \/ run' = Deliver(ended, r)
    BY DEF CancelRun, ended, closed
  <2> QED
    BY <2>3, <2>4, <2>5 DEF Done, Terminal
<1>5. \A q \in Run : Stale(run, q)' <=> Stale(run', q)
  BY DEF Stale, Done
<1>6. CASE sup[s].command \notin Sweep
  <2>1. Orderly(run, run')
    BY <1>3, <1>6
  <2>2. \A t \in Supervisor : ~Sweeping(t)'
    BY <1>1, <1>6 DEF OneDriver, Sweeping
  <2> QED
    BY <1>1, <2>1, <2>2, OutsideSweep
<1>7. CASE sup[s].command \in Sweep
  <2>1. SweepCovers(s)
    BY <1>1, <1>7 DEF SweepInv, Sweeping, Canceling
  <2>3. \A c \in Run : run[c].status # "absent" =>
           /\ run'[c].parent = run[c].parent
           /\ Done(run, c) => Done(run', c)
    BY <1>3 DEF Orderly, OrderlyButFor
  <2>4. ASSUME NEW c \in sup[s].todo \ {r}, run'[c].parent \in Run, ~Done(run', run'[c].parent)
        PROVE  run'[c].parent \in sup[s].todo \ {r}
    <3>1. c \in Run /\ run'[c].parent = run[c].parent
      BY <1>2, <2>3, <2>4
    <3>2. ~Done(run, run[c].parent)
      BY <1>3, <2>4, <3>1 DEF Orderly, OrderlyButFor
    <3> QED
      BY <1>4, <2>1, <2>4, <3>1, <3>2 DEF SweepCovers
  <2>5. ASSUME NEW q \in Run, Stale(run', q)
        PROVE  q \in sup[s].todo \ {r}
    <3>1. q # r /\ ~Done(run', q) /\ run'[q].wait \in Undelivered(run', q)
      BY <1>3, <1>4, <2>5 DEF Stale, WaitRows, Done, Terminal
    <3>2. CASE Stale(run, q)
      BY <2>1, <3>1, <3>2 DEF SweepCovers
    <3>3. CASE run'[q].wait = r
      <4>1. run'[r].parent = q
        BY <3>1, <3>3 DEF Undelivered
      <4>2. run[r].parent = q
        BY <1>2, <2>3, <4>1
      <4>3. ~Done(run, q)
        BY <1>3, <3>1 DEF Orderly, OrderlyButFor
      <4> QED
        BY <1>2, <2>1, <3>1, <4>2, <4>3 DEF SweepCovers
    <3> QED
      BY <1>3, <2>5, <3>2, <3>3 DEF Orderly, OrderlyButFor
  <2>6. SweepCovers(s)'
    BY <1>1, <1>5, <2>1, <2>4, <2>5 DEF SweepCovers, Done
  <2>7. \A q \in Run : Stale(run', q) => commands' \cap Sweep # {}
    BY <1>1, <1>7, <2>1 DEF SweepCovers
  <2> QED
    BY <1>5, <2>6, <2>7 DEF SweepInv, OneDriver
<1> QED
  BY <1>6, <1>7

\* A sweep takes everything that is open.
LEMMA BeginCancelKeepsSweep ==
    ASSUME WaitInv, SweepInv, OneDriver, NEW s \in Supervisor, NEW command \in commands,
           BeginCancel(s, command)
    PROVE  SweepInv'
<1>1. /\ sup'[s].todo = Selected(command) /\ sup'[s].command = command
      /\ UNCHANGED <<run, commands>>
  BY DEF BeginCancel, SetSup, WaitInv, WorkInv, TypeInv, TypeOK, Sup, commandVars
<1>2. \A q \in Run : Stale(run, q)' <=> Stale(run, q)
  BY <1>1 DEF Stale, Done
<1>3. WaitRows(run) /\ run \in Rows
  BY DEF WaitInv, WorkInv, TypeInv, TypeOK, Rows
<1>4. CASE command \notin Sweep
  BY <1>1, <1>2, <1>4 DEF SweepInv, Sweeping, OneDriver
<1>5. CASE command \in Sweep
  <2>1. Selected(command) = Open(run)
    BY <1>5 DEF Selected
  <2>2. \A q \in Run : q \in Open(run) <=> run[q].status # "absent" /\ ~Done(run, q)
    BY <1>3 DEF Open, Done, Terminal, Rows, RunRow, Status
  <2>3. \A c \in Open(run) : run[c].parent \in Run /\ ~Done(run, run[c].parent) =>
           run[c].parent \in Open(run)
    BY <1>3, <2>2 DEF WaitRows, Open
  <2>4. \A q \in Run : Stale(run, q) => q \in Open(run)
    BY <1>3 DEF Stale, WaitRows, Open
  <2>5. SweepCovers(s)'
    BY <1>1, <1>2, <2>1, <2>3, <2>4 DEF SweepCovers, Done
  <2> QED
    BY <1>1, <1>2, <2>5 DEF SweepInv, OneDriver
<1> QED
  BY <1>4, <1>5

LEMMA DriverKeepsSweep ==
    ASSUME WaitInv, SweepInv, OneDriver, [Next]_vars, NEW s \in Supervisor, DriverStep(s)
    PROVE  SweepInv'
<1>1. sup[s] \in Sup /\ sup \in [Supervisor -> Sup] /\ commands \subseteq Run \cup Sweep
  BY DEF WaitInv, WorkInv, TypeInv, TypeOK
<1>2. ASSUME ~CancelRun(s)
      PROVE  Orderly(run, run')
  BY <1>2, DriverIsOrderly
<1>4. ASSUME ~CancelRun(s), NEW q, SetSup(s, q), commands \subseteq commands',
             q.stage \in {"stopping", "canceling", "requesting", "closing"},
             Canceling(s), q.todo = sup[s].todo, q.command = sup[s].command
      PROVE  SweepInv'
  <2>1. Orderly(run, run')
    BY <1>2, <1>4
  <2>2. /\ sup'[s].stage \in {"stopping", "canceling", "requesting", "closing"}
        /\ sup'[s].todo = sup[s].todo /\ sup'[s].command = sup[s].command
    BY <1>1, <1>4 DEF SetSup
  <2>3. \A r \in Run : (Stale(run, r)' <=> Stale(run', r)) /\ (Stale(run', r) => Stale(run, r))
    BY <2>1 DEF Stale, Done, Orderly
  <2>4. ASSUME Sweeping(s)'
        PROVE  SweepCovers(s)'
    <3>1. Sweeping(s) /\ SweepCovers(s)
      BY <1>4, <2>2, <2>4 DEF SweepInv, Sweeping, Canceling
    <3>2. \A c \in sup[s].todo : c \in Run /\ run[c].status # "absent"
      BY <3>1 DEF WaitInv, WorkInv, TypeInv, TypeOK, Sup, CancelsKnown, Sweeping
    <3>3. \A c \in sup[s].todo : run'[c].parent = run[c].parent
      BY <2>1, <3>2 DEF Orderly
    <3>4. \A c \in sup[s].todo : run'[c].parent \in Run /\ ~Done(run', run'[c].parent) =>
             run'[c].parent \in sup[s].todo
      BY <2>1, <3>1, <3>3 DEF SweepCovers, Orderly
    <3> QED
      BY <1>4, <2>2, <2>3, <3>1, <3>4 DEF SweepCovers, Done
  <2> QED
    BY <1>4, <2>3, <2>4 DEF SweepInv, OneDriver
<1>5. ASSUME \/ BeginRenew(s) \/ RenewKeeps(s) \/ RenewTakes(s) \/ RenewRefused(s)
             \/ BeginRecover(s) \/ EndRecover(s) \/ DriverFails(s)
             \/ \E r \in Run : RecoverRun(s, r)
      PROVE  SweepInv'
  <2>1. ~CancelRun(s) \/ UNCHANGED run
    <3>1. CASE \E r \in Run : RecoverRun(s, r)
      BY <3>1 DEF RecoverRun, CancelRun
    <3>2. CASE ~ \E r \in Run : RecoverRun(s, r)
      BY <1>5, <3>2 DEF BeginRenew, RenewKeeps, RenewTakes, RenewRefused, BeginRecover,
             EndRecover, DriverFails
    <3> QED
      BY <3>1, <3>2
  <2>2. Orderly(run, run')
    BY <1>2, <2>1, OrderlyReflexive
  <2>3. UNCHANGED commands /\ sup'[s].stage \in {"idle", "renewing", "recovering"}
    <3>1. CASE \E r \in Run : RecoverRun(s, r)
      BY <1>1, <3>1 DEF RecoverRun, SetSup, Sup, commandVars
    <3>2. CASE BeginRenew(s)
      BY <1>1, <3>2 DEF BeginRenew, SetSup, Sup, commandVars
    <3>3. CASE RenewKeeps(s)
      BY <1>1, <3>3 DEF RenewKeeps, SetSup, Sup, commandVars
    <3>4. CASE RenewTakes(s)
      BY <1>1, <3>4 DEF RenewTakes, SetSup, Sup, commandVars
    <3>5. CASE RenewRefused(s)
      BY <1>1, <3>5 DEF RenewRefused, SetSup, Sup, commandVars
    <3>6. CASE BeginRecover(s)
      BY <1>1, <3>6 DEF BeginRecover, SetSup, Sup, commandVars
    <3>7. CASE EndRecover(s)
      BY <1>1, <3>7 DEF EndRecover, SetSup, Sup, commandVars
    <3>8. CASE DriverFails(s)
      BY <1>1, <3>8 DEF DriverFails, SetSup, Sup, commandVars
    <3> QED
      BY <1>5, <3>1, <3>2, <3>3, <3>4, <3>5, <3>6, <3>7, <3>8
  <2>4. \A t \in Supervisor : ~Sweeping(t)'
    BY <2>3 DEF OneDriver, Sweeping, Canceling
  <2> QED
    BY <2>2, <2>3, <2>4, OutsideSweep
<1>6. CASE StopTasks(s)
  <2>1. ~CancelRun(s)
    BY <1>6 DEF StopTasks, CancelRun
  <2> QED
    BY <1>1, <1>4, <1>6, <2>1 DEF StopTasks, Canceling, Sup, commandVars
<1>7. ASSUME NEW r \in Run, BeginCancelRun(s, r)
      PROVE  SweepInv'
  <2>1. ~CancelRun(s)
    BY <1>7 DEF BeginCancelRun, CancelRun
  <2> QED
    BY <1>1, <1>4, <1>7, <2>1 DEF BeginCancelRun, Canceling, Sup, commandVars
<1>8. CASE CancelChildren(s)
  <2>1. ~CancelRun(s)
    BY <1>8 DEF CancelChildren, CancelRun
  <2> QED
    BY <1>1, <1>4, <1>8, <2>1 DEF CancelChildren, RequestCancels, Canceling, Sup
<1>9. CASE EndCancel(s)
  <2>1. /\ UNCHANGED run /\ commands' = commands \ {sup[s].command}
        /\ sup'[s].stage = "idle" /\ sup[s].todo = {} /\ Canceling(s)
    BY <1>1, <1>9 DEF EndCancel, SetSup, Sup, Canceling
  <2>2. \A t \in Supervisor : ~Sweeping(t)'
    BY <2>1 DEF OneDriver, Sweeping, Canceling
  <2>3. \A r \in Run : Stale(run, r)' <=> Stale(run, r)
    BY <2>1 DEF Stale, Done
  <2>4. CASE sup[s].command \in Sweep
    <3>1. \A r \in Run : ~Stale(run, r)
      BY <2>1, <2>4 DEF SweepInv, Sweeping, SweepCovers
    <3> QED
      BY <2>2, <2>3, <3>1 DEF SweepInv
  <2>5. CASE sup[s].command \notin Sweep
    <3>1. commands' \cap Sweep = commands \cap Sweep
      BY <2>1, <2>5
    <3> QED
      BY <2>2, <2>3, <3>1 DEF SweepInv
  <2> QED
    BY <2>4, <2>5
<1> QED
  BY <1>5, <1>6, <1>7, <1>8, <1>9, CancelRunKeepsSweep, BeginCancelKeepsSweep
     DEF DriverStep

LEMMA NextSweep ==
    ASSUME WaitInv, SweepInv, OneDriver, [Next]_vars
    PROVE  SweepInv'
<1>1. run \in Rows /\ WaitRows(run) /\ \A s \in Supervisor : sup[s] \in Sup
  BY DEF WaitInv, WorkInv, TypeInv, TypeOK, Rows
<1>2. ASSUME UNCHANGED sup, commands \subseteq commands', Orderly(run, run')
      PROVE  SweepInv'
  BY <1>2, BesideSweep
<1>3. CASE UNCHANGED vars
  BY <1>2, <1>3, OrderlyReflexive DEF vars
<1>4. CASE Expire
  <2>1. \A t \in Supervisor :
           /\ sup'[t].stage = sup[t].stage /\ sup'[t].todo = sup[t].todo
           /\ sup'[t].command = sup[t].command
    BY <1>1, <1>4 DEF Expire, Sup
  <2>2. Orderly(run, run') /\ UNCHANGED commands
    BY <1>4, OrderlyReflexive DEF Expire, commandVars
  <2> QED
    BY <2>1, <2>2, BesideSweep
<1>5. ASSUME NEW sweep \in Sweep, RequestSessionCancel(sweep)
      PROVE  SweepInv'
  <2>1. Orderly(run, run')
    BY <1>1, <1>5, MarkIsOrderly DEF RequestSessionCancel
  <2> QED
    BY <1>2, <1>5, <2>1 DEF RequestSessionCancel
<1>6. ASSUME NEW r \in Run, Request(r)
      PROVE  SweepInv'
  <2>1. UNCHANGED sup /\ commands \subseteq commands'
    BY <1>6 DEF Request, EnqueueRun, RequestInterrupt, RequestChildCancel, Resolve,
           RequestCancels, commandVars
  <2> QED
    BY <1>2, <1>6, <2>1, RequestIsOrderly
<1>7. ASSUME NEW s \in Supervisor, NEW r \in Run, Claim(s, r)
      PROVE  SweepInv'
  BY <1>2, <1>7, ClaimIsOrderly DEF Claim, commandVars
<1>8. ASSUME NEW s \in Supervisor, NEW r \in Run, TaskStep(s, r)
      PROVE  SweepInv'
  <2>1. UNCHANGED sup /\ commands \subseteq commands'
    BY <1>8 DEF TaskStep, BuildContext, Reconcile, StartCall, CreateChild, CallReturns,
         CompleteCall, CallFails, Finish, FinishWaiting, Raise, AskChildren, FailRun,
         WaitForToolRecovery, TaskEnds, AbortCall, YieldTask, RequestCancels, commandVars
  <2> QED
    BY <1>2, <1>8, <2>1, TaskIsOrderly
<1>9. ASSUME NEW s \in Supervisor, Shutdown(s) \/ Exit(s) \/ Restart(s)
      PROVE  SweepInv'
  <2>1. Orderly(run, run') /\ UNCHANGED commands
    BY <1>9, OrderlyReflexive DEF Shutdown, Exit, Restart, commandVars
  <2>2. sup'[s].stage = "idle"
    BY <1>9, StoppedDriver DEF WaitInv, WorkInv, TypeInv, TypeOK, SetSup
  <2>3. \A t \in Supervisor : ~Sweeping(t)'
    BY <2>2 DEF OneDriver, Sweeping, Canceling
  <2> QED
    BY <2>1, <2>3, OutsideSweep
<1> QED
  BY <1>3, <1>4, <1>5, <1>6, <1>7, <1>8, <1>9, DriverKeepsSweep DEF Next

LEMMA SweepInvariant ==
    ASSUME OneDriver
    PROVE  Spec => []SweepInv
<1>1. Init => SweepInv
  BY RunAssumption DEF Init, Fresh, SweepInv, Stale, Sweeping, Canceling
<1>2. WaitInv /\ SweepInv /\ [Next]_vars => SweepInv'
  BY NextSweep
<1> QED
  BY <1>1, <1>2, WaitInvariant, PTL DEF Spec

\* A wait is on the Run's own child, whose result is owed; and the child has not
\* ended, unless a session cancellation was requested.  No completion falls between
\* the child that ends (queue_parent_continuation) and the parent that starts to
\* wait (queue_parent_from_finished_wait_reference), for any number of processes.
THEOREM WaitsAreAnswerable ==
    Spec => [](\A r \in Run : run[r].wait \in Run =>
                  /\ run[r].wait \in Undelivered(run, r)
                  /\ run[run[r].wait].status # "absent"
                  /\ Done(run, run[r].wait) => requested # {})
<1>1. WaitInv => (\A r \in Run : run[r].wait \in Run =>
                     /\ run[r].wait \in Undelivered(run, r)
                     /\ run[run[r].wait].status # "absent"
                     /\ Done(run, run[r].wait) => requested # {})
  BY RunsAreNotNames DEF WaitInv, WaitRows, Undelivered, Stale
<1> QED
  BY <1>1, WaitInvariant, PTL

\* The whole of WaitWillBeAnswered where no session cancellation exists, with any
\* number of processes, and where one process does, with any cancellations: a sweep
\* that leaves a parent waiting for a child it ended is still in the outbox, and has
\* the parent ahead (_cancel_session_runs, supervisor.py 339-372).
THEOREM WaitWillBeAnsweredAlways ==
    ASSUME Sweep = {} \/ \A s, t \in Supervisor : s = t
    PROVE  Spec => []WaitWillBeAnswered
<1>1. CASE Sweep = {}
  <2>1. WaitInv => WaitWillBeAnswered
    BY <1>1, RunsAreNotNames
       DEF WaitInv, WorkInv, TypeInv, TypeOK, WaitRows, Undelivered, Stale, WaitWillBeAnswered
  <2> QED
    BY <2>1, WaitInvariant, PTL
<1>2. CASE \A s, t \in Supervisor : s = t
  <2>1. WaitInv /\ SweepInv => WaitWillBeAnswered
    BY RunsAreNotNames
       DEF WaitInv, SweepInv, WaitRows, Undelivered, Stale, WaitWillBeAnswered
  <2>2. Spec => []SweepInv
    BY <1>2, SweepInvariant DEF OneDriver
  <2> QED
    BY <2>1, <2>2, WaitInvariant, PTL
<1> QED
  BY <1>1, <1>2

-----------------------------------------------------------------------------
(* Children that nobody waits for any more.  With one process, whoever     *)
(* drops a result has asked before for the child to be cancelled, and no   *)
(* child is made in between.                                               *)

Stopped(rows, c) == Done(rows, c) \/ rows[c].cancel

\* What a task knows of the children of its Run.
Attended(rows, t, r) ==
    /\ t.phase \in {"failed", "suspending"} =>
          \A c \in Undelivered(rows, r) : Stopped(rows, c)
    /\ t.phase \in {"reconciling", "running", "calling", "called"} /\ t.wait = NoRun =>
          Undelivered(rows, r) = {}
    /\ t.phase \in {"running", "calling"} => t.wait = NoRun

ChildInv ==
    /\ \A c \in Run : run[c].disposition = "discarded" => Stopped(run, c)
    /\ \A s \in Supervisor, r \in Run : Attended(run, task[s][r], r)
    /\ \A s \in Supervisor :
          /\ sup[s].stage = "closing" =>
                \A c \in Undelivered(run, sup[s].current) : Stopped(run, c)
          /\ sup[s].stage \in {"requesting", "closing"} =>
                task[s][sup[s].current].phase = "none"

\* Rows that change without a new child, and without dropping one that runs on.
Calm(rows, new) ==
    \A r \in Run :
        /\ Stopped(rows, r) => Stopped(new, r)
        /\ Undelivered(new, r) \subseteq Undelivered(rows, r)
        /\ new[r].disposition = "discarded" =>
              rows[r].disposition = "discarded" \/ Stopped(new, r)

LEMMA CalmReflexive ==
    ASSUME NEW rows
    PROVE  Calm(rows, rows)
BY DEF Calm

LEMMA CalmTransitive ==
    ASSUME NEW a, NEW b, NEW c, Calm(a, b), Calm(b, c)
    PROVE  Calm(a, c)
BY DEF Calm

LEMMA MarkIsCalm ==
    ASSUME NEW rows \in Rows, NEW R
    PROVE  Calm(rows, Mark(rows, R))
<1> DEFINE new == Mark(rows, R)
<1>1. \A r \in Run : /\ new[r].status = rows[r].status /\ new[r].parent = rows[r].parent
                     /\ new[r].disposition = rows[r].disposition
                     /\ rows[r].cancel => new[r].cancel
  BY DEF Mark, Rows, RunRow
<1> HIDE DEF new
<1> QED
  BY <1>1 DEF Calm, Stopped, Done, Undelivered, new

LEMMA SetStatusIsCalm ==
    ASSUME NEW rows \in Rows, NEW r \in Run, ~Done(rows, r), NEW status, NEW wait
    PROVE  Calm(rows, SetStatus(rows, r, status, wait))
<1> DEFINE new == SetStatus(rows, r, status, wait)
<1>1. /\ \A q \in Run : /\ new[q].parent = rows[q].parent
                        /\ new[q].disposition = rows[q].disposition
                        /\ new[q].cancel = rows[q].cancel
      /\ \A q \in Run \ {r} : new[q].status = rows[q].status
  BY DEF SetStatus, SetRun, Rows, RunRow
<1> HIDE DEF new
<1> QED
  BY <1>1 DEF Calm, Stopped, Done, Undelivered, new

LEMMA DiscardIsCalm ==
    ASSUME NEW rows \in Rows, NEW r \in Run,
           \A c \in Undelivered(rows, r) : Stopped(rows, c)
    PROVE  /\ Calm(rows, Discard(rows, r))
           /\ \A q \in Run : Done(Discard(rows, r), q) <=> Done(rows, q)
<1> DEFINE new == Discard(rows, r)
<1>1. \A q \in Run : /\ new[q].status = rows[q].status /\ new[q].parent = rows[q].parent
                     /\ new[q].cancel = rows[q].cancel
                     /\ \/ new[q].disposition = rows[q].disposition
                        \/ q \in Undelivered(rows, r) /\ new[q].disposition = "discarded"
  BY DEF Discard, Rows, RunRow
<1> HIDE DEF new
<1> QED
  BY <1>1 DEF Calm, Stopped, Done, Undelivered, new

LEMMA DeliverIsCalm ==
    ASSUME NEW rows \in Rows, NEW c \in Run
    PROVE  Calm(rows, Deliver(rows, c))
<1> DEFINE new == Deliver(rows, c)
<1>1. \A q \in Run : /\ new[q].parent = rows[q].parent
                     /\ new[q].cancel = rows[q].cancel
                     /\ Done(rows, q) => Done(new, q)
                     /\ new[q].disposition \in {rows[q].disposition, "delivered"}
  BY DEF Deliver, Rows, RunRow, Done, Terminal
<1> HIDE DEF new
<1> QED
  BY <1>1 DEF Calm, Stopped, Undelivered, new

LEMMA DeliverFinishedIsCalm ==
    ASSUME NEW rows \in Rows, NEW p \in Run
    PROVE  Calm(rows, DeliverFinished(rows, p))
<1>1. CASE rows[p].wait \in Undelivered(rows, p) /\ Done(rows, rows[p].wait)
  <2>1. rows[p].wait \in Run
    BY <1>1 DEF Undelivered
  <2> QED
    BY <1>1, <2>1, DeliverIsCalm DEF DeliverFinished
<1>2. CASE ~(rows[p].wait \in Undelivered(rows, p) /\ Done(rows, rows[p].wait))
  BY <1>2, CalmReflexive DEF DeliverFinished
<1> QED
  BY <1>1, <1>2

\* A Run ends whose children were all asked to stop.
LEMMA EndIsCalm ==
    ASSUME NEW rows \in Rows, NEW r \in Run, ~Done(rows, r), NEW status, NEW wait,
           \A c \in Undelivered(rows, r) : Stopped(rows, c)
    PROVE  Calm(rows, SetStatus(Discard(rows, r), r, status, wait))
<1>1. /\ Discard(rows, r) \in Rows /\ Calm(rows, Discard(rows, r))
      /\ ~Done(Discard(rows, r), r)
  BY DiscardRows, DiscardIsCalm
<1>2. Calm(Discard(rows, r), SetStatus(Discard(rows, r), r, status, wait))
  BY <1>1, SetStatusIsCalm
<1> QED
  BY <1>1, <1>2, CalmTransitive

LEMMA CalmKeepsChildren ==
    ASSUME TypeInv, ChildInv, Calm(run, run'),
           \A s \in Supervisor, r \in Run :
              task'[s][r] = task[s][r] \/ Attended(run', task'[s][r], r),
           \A s \in Supervisor : sup'[s].stage \in {"requesting", "closing"} =>
              /\ \/ sup'[s].stage = sup[s].stage /\ sup'[s].current = sup[s].current
                 \/ sup'[s].stage = "requesting"
                 \/ \A c \in Undelivered(run', sup'[s].current) : Stopped(run', c)
              /\ task'[s][sup'[s].current].phase = "none"
              /\ sup'[s].current \in Run
    PROVE  ChildInv'
<1>1. \A c \in Run : run'[c].disposition = "discarded" => Stopped(run', c)
  BY DEF ChildInv, Calm
<1>2. ASSUME NEW s \in Supervisor, NEW r \in Run
      PROVE  Attended(run', task'[s][r], r)
  <2>1. Attended(run, task[s][r], r)
    BY DEF ChildInv
  <2>2. /\ Undelivered(run', r) \subseteq Undelivered(run, r)
        /\ Undelivered(run', r) \subseteq Run
        /\ \A c \in Run : Stopped(run, c) => Stopped(run', c)
    BY DEF Calm, Undelivered
  <2>3. CASE task'[s][r] = task[s][r]
    BY <2>1, <2>2, <2>3 DEF Attended
  <2> QED
    BY <2>3
<1>3. ASSUME NEW s \in Supervisor, sup'[s].stage = "closing",
             NEW c \in Undelivered(run', sup'[s].current)
      PROVE  Stopped(run', c)
  <2>1. CASE sup'[s].stage = sup[s].stage /\ sup'[s].current = sup[s].current
    <3>1. sup[s].current \in Run /\ sup[s].stage = "closing"
      BY <1>3, <2>1
    <3>2. c \in Undelivered(run, sup[s].current) /\ c \in Run
      BY <1>3, <2>1, <3>1 DEF Calm, Undelivered
    <3> QED
      BY <3>1, <3>2 DEF ChildInv, Calm
  <2> QED
    BY <1>3, <2>1
<1>4. /\ \A r \in Run : Undelivered(run, r)' = Undelivered(run', r)
      /\ \A c \in Run : Stopped(run, c)' <=> Stopped(run', c)
  BY DEF Undelivered, Stopped, Done
<1>5. \A s \in Supervisor, r \in Run :
         Attended(run, task[s][r], r)' <=> Attended(run', task'[s][r], r)
  BY <1>4 DEF Attended, Undelivered, Stopped, Done
<1>6. \A s \in Supervisor : sup'[s].stage = "closing" =>
         \A c \in Undelivered(run, sup[s].current)' : Stopped(run, c)'
  BY <1>3 DEF Undelivered, Stopped, Done
<1> QED
  BY <1>1, <1>2, <1>4, <1>5, <1>6 DEF ChildInv

\* Steps of anything but a driver: no driver moves on.
LEMMA TaskChangeKeepsChildren ==
    ASSUME TypeInv, ChildInv, Calm(run, run'),
           \A s \in Supervisor : sup'[s].stage = sup[s].stage /\ sup'[s].current = sup[s].current,
           \A s \in Supervisor, r \in Run :
              \/ task'[s][r] = task[s][r]
              \/ /\ Attended(run', task'[s][r], r)
                 /\ \/ sup[s].stage = "idle"
                    \/ task[s][r].phase # "none"
    PROVE  ChildInv'
<1>1. ASSUME NEW s \in Supervisor, sup'[s].stage \in {"requesting", "closing"}
      PROVE  task'[s][sup'[s].current].phase = "none" /\ sup'[s].current \in Run
  <2>1. /\ sup[s].stage \in {"requesting", "closing"} /\ sup'[s].current = sup[s].current
        /\ sup[s].current \in Run /\ task[s][sup[s].current].phase = "none"
    BY <1>1 DEF ChildInv, TypeInv, CurrentIsRun
  <2>2. sup[s].stage # "idle"
    BY <2>1
  <2> QED
    BY <2>1, <2>2
<1>2. \A s \in Supervisor, r \in Run :
         task'[s][r] = task[s][r] \/ Attended(run', task'[s][r], r)
  OBVIOUS
<1> QED
  BY <1>1, <1>2, CalmKeepsChildren

LEMMA NoTaskAttends ==
    ASSUME NEW rows, NEW t, NEW r,
           t.phase \in {"none", "claimed", "waiting", "failing", "recovering", "aborting",
                        "yielding"}
    PROVE  Attended(rows, t, r)
BY DEF Attended

LEMMA RequestIsCalm ==
    ASSUME TypeInv, NEW r \in Run, Request(r)
    PROVE  Calm(run, run')
<1>1. run \in Rows
  BY DEF TypeInv, TypeOK, Rows
<1>2. CASE EnqueueRun(r)
  <2>1. /\ \A q \in Run : /\ run'[q].parent = run[q].parent
                          /\ run'[q].disposition = run[q].disposition
                          /\ run'[q].cancel = run[q].cancel
        /\ \A q \in Run \ {r} : run'[q].status = run[q].status
        /\ run[r].status = "absent"
    BY <1>1, <1>2 DEF EnqueueRun, SetRun, Rows, RunRow
  <2> QED
    BY <2>1 DEF Calm, Stopped, Done, Undelivered, Terminal
<1>3. CASE RequestInterrupt(r) \/ RequestChildCancel(r)
  BY <1>1, <1>3, MarkIsCalm DEF RequestInterrupt, RequestChildCancel, RequestCancels
<1>4. CASE Resolve(r)
  <2>1. ASSUME NEW q \in Run
        PROVE  \/ run'[q] = run[q]
               \/ /\ run[q].status = "waiting"
                  /\ run'[q] = [run[q] EXCEPT !.status = "queued", !.wait = NoRun,
                                             !.trigger = "tool_recovery"]
    BY <1>4 DEF Resolve
  <2>2. ASSUME NEW q \in Run
        PROVE  /\ run'[q].parent = run[q].parent
               /\ run'[q].disposition = run[q].disposition
               /\ run'[q].cancel = run[q].cancel
               /\ run'[q].status = run[q].status \/ run[q].status = "waiting"
    <3>1. run[q] \in RunRow
      BY <1>1 DEF Rows
    <3> QED
      BY <2>1, <3>1 DEF RunRow
  <2> QED
    BY <2>2 DEF Calm, Stopped, Done, Undelivered, Terminal
<1> QED
  BY <1>2, <1>3, <1>4 DEF Request

LEMMA ClaimIsCalm ==
    ASSUME TypeInv, NEW s \in Supervisor, NEW r \in Run, Claim(s, r)
    PROVE  Calm(run, run')
<1>1. run \in Rows
  BY DEF TypeInv, TypeOK, Rows
<1>2. /\ \A q \in Run : /\ run'[q].parent = run[q].parent
                        /\ run'[q].disposition = run[q].disposition
                        /\ run'[q].cancel = run[q].cancel
      /\ \A q \in Run \ {r} : run'[q].status = run[q].status
      /\ run[r].status = "queued"
  BY <1>1 DEF Claim, SetRun, Rows, RunRow
<1> QED
  BY <1>2 DEF Calm, Stopped, Done, Undelivered, Terminal

\* request_undelivered_child_cancellations leaves no child of the Run unasked.
LEMMA MarkedIsStopped ==
    ASSUME TypeInv, NEW p \in Run
    PROVE  \A c \in Undelivered(Mark(run, Cancelable(p)), p) :
              Stopped(Mark(run, Cancelable(p)), c)
<1> DEFINE new == Mark(run, Cancelable(p))
<1>1. \A c \in Run : /\ new[c].status = run[c].status /\ new[c].parent = run[c].parent
                     /\ new[c].disposition = run[c].disposition
                     /\ new[c].cancel <=> run[c].cancel \/ c \in Cancelable(p)
  BY DEF Mark, TypeInv, TypeOK, RunRow
<1> HIDE DEF new
<1> QED
  BY <1>1 DEF Cancelable, Undelivered, Stopped, Done, new

\* The only step that gives a Run a child: its one task knows.
LEMMA CreateChildKeepsChildren ==
    ASSUME WaitInv, ChildInv, OneDriver, NEW s \in Supervisor, NEW r \in Run,
           NEW c \in Child, CreateChild(s, r, c)
    PROVE  ChildInv'
<1>1. /\ run \in Rows /\ WaitRows(run) /\ c \in Run /\ TypeInv
      /\ task \in [Supervisor -> [Run -> Task]]
  BY DEF WaitInv, WorkInv, TypeInv, TypeOK, Rows, Run
<1>2. /\ run'[c].parent = r /\ run[c].status = "absent" /\ run[c].parent = NoRun
      /\ \A q \in Run : /\ run'[q].disposition = run[q].disposition
                        /\ run'[q].cancel = run[q].cancel
      /\ \A q \in Run \ {c} :
            run'[q].status = run[q].status /\ run'[q].parent = run[q].parent
  BY <1>1 DEF CreateChild, SetRun, Rows, RunRow, WaitRows
<1>3. UNCHANGED sup /\ At(s, r, {"calling"})
  BY DEF CreateChild
<1>4. /\ task'[s][r].phase = "called" /\ task'[s][r].wait = c
      /\ \A q \in Run \ {r} : task'[s][q] = task[s][q]
      /\ task[s][r].phase = "calling"
  BY <1>1 DEF CreateChild, SetTask, Task, At
<1>5. \A q \in Run \ {r} : Undelivered(run', q) \subseteq Undelivered(run, q)
  BY <1>2 DEF Undelivered
<1>6. \A q \in Run : Stopped(run, q) => Stopped(run', q)
  BY <1>2 DEF Stopped, Done, Terminal
<1>7. \A q \in Run : run'[q].disposition = "discarded" => Stopped(run', q)
  BY <1>2, <1>6 DEF ChildInv
<1>8. ASSUME NEW q \in Run
      PROVE  Attended(run', task'[s][q], q)
  <2>1. CASE q = r
    BY <1>1, <1>4, <2>1, RunsAreNotNames DEF Attended
  <2>2. CASE q # r
    <3>1. Attended(run, task[s][q], q) /\ task'[s][q] = task[s][q]
      BY <1>4, <2>2 DEF ChildInv
    <3>2. \A d \in Undelivered(run', q) : d \in Run /\ d \in Undelivered(run, q)
      BY <1>5, <2>2 DEF Undelivered
    <3> QED
      BY <1>6, <3>1, <3>2 DEF Attended
  <2> QED
    BY <2>1, <2>2
<1>9. ASSUME sup[s].stage \in {"requesting", "closing"}
      PROVE  /\ task'[s][sup[s].current].phase = "none"
             /\ sup[s].stage = "closing" =>
                   \A d \in Undelivered(run', sup[s].current) : Stopped(run', d)
  <2>1. sup[s].current \in Run /\ task[s][sup[s].current].phase = "none"
    BY <1>1, <1>9 DEF TypeInv, CurrentIsRun, ChildInv
  <2>2. sup[s].current # r
    BY <1>4, <2>1
  <2>3. \A d \in Undelivered(run', sup[s].current) :
           d \in Run /\ d \in Undelivered(run, sup[s].current)
    BY <1>5, <2>1, <2>2 DEF Undelivered
  <2> QED
    BY <1>4, <1>6, <2>1, <2>2, <2>3 DEF ChildInv
<1>10. \A q \in Run : Attended(run, task[s][q], q)' <=> Attended(run', task'[s][q], q)
  BY DEF Attended, Undelivered, Stopped, Done
<1>11. sup[s].stage \in {"requesting", "closing"} =>
          /\ (task[s][sup[s].current].phase = "none")'
          /\ sup[s].stage = "closing" =>
                (\A d \in Undelivered(run, sup[s].current) : Stopped(run, d))'
  BY <1>3, <1>9 DEF Undelivered, Stopped, Done
<1>12. \A q \in Run : Stopped(run, q)' <=> Stopped(run', q)
  BY DEF Stopped, Done
<1> QED
  BY <1>3, <1>7, <1>8, <1>10, <1>11, <1>12 DEF ChildInv, OneDriver

LEMMA TasksKeepChildren ==
    ASSUME WaitInv, ChildInv, OneDriver, NEW s \in Supervisor, NEW r \in Run, TaskStep(s, r)
    PROVE  ChildInv'
<1>1. /\ run \in Rows /\ TypeInv /\ task[s][r] \in Task
      /\ task \in [Supervisor -> [Run -> Task]]
  BY DEF WaitInv, WorkInv, TypeInv, TypeOK, Rows
<1>2. /\ Attended(run, task[s][r], r)
      /\ \A c \in Undelivered(run, r) : c \in Run
  BY DEF ChildInv, Undelivered
<1>3. ASSUME Calm(run, run'), UNCHANGED sup, NEW t, SetTask(s, r, t),
             Attended(run', t, r), task[s][r].phase # "none"
      PROVE  ChildInv'
  <2>1. \A u \in Supervisor, q \in Run :
           task'[u][q] = task[u][q] \/ (task'[u][q] = t /\ u = s /\ q = r)
    BY <1>1, <1>3 DEF SetTask
  <2> QED
    BY <1>1, <1>3, <2>1, TaskChangeKeepsChildren
<1>4. ASSUME UNCHANGED run
      PROVE  Calm(run, run')
  BY <1>4, CalmReflexive
<1>5. ASSUME Calm(run, run'), UNCHANGED sup, SetTask(s, r, NoTask), task[s][r].phase # "none"
      PROVE  ChildInv'
  BY <1>3, <1>5, NoTaskAttends DEF NoTask
<1>6. ASSUME NEW phase \in {"waiting", "failing", "recovering", "aborting", "yielding"},
             Calm(run, run'), UNCHANGED sup, Goto(s, r, phase), task[s][r].phase # "none"
      PROVE  ChildInv'
  BY <1>1, <1>3, <1>6, NoTaskAttends DEF Goto, Task
<1>7. CASE BuildContext(s, r)
  <2>1. PICK c \in Run \cup {NoRun} :
           /\ Undelivered(run, r) = {c} \ {NoRun}
           /\ SetTask(s, r, [task[s][r] EXCEPT !.phase = "reconciling", !.wait = c])
    BY <1>7 DEF BuildContext
  <2>2. Attended(run', [task[s][r] EXCEPT !.phase = "reconciling", !.wait = c], r)
    BY <1>1, <1>7, <2>1 DEF Attended, Task, BuildContext
  <2> QED
    BY <1>3, <1>4, <1>7, <2>1, <2>2 DEF BuildContext, At
<1>8. CASE Reconcile(s, r)
  <2>1. /\ UNCHANGED <<run, sup>> /\ task[s][r].phase = "reconciling"
        /\ \/ Goto(s, r, "recovering")
           \/ Goto(s, r, "waiting")
           \/ task[s][r].wait = NoRun /\ Goto(s, r, "running")
    BY <1>8 DEF Reconcile, At
  <2>2. CASE task[s][r].wait = NoRun /\ Goto(s, r, "running")
    <3>1. Attended(run', [task[s][r] EXCEPT !.phase = "running"], r)
      BY <1>1, <1>2, <2>1, <2>2 DEF Attended, Task
    <3> QED
      BY <1>3, <1>4, <2>1, <2>2, <3>1 DEF Goto
  <2> QED
    BY <1>4, <1>6, <2>1, <2>2
<1>9. CASE StartCall(s, r)
  <2>1. Attended(run', [task[s][r] EXCEPT !.phase = "calling", !.call = calls[r] + 1], r)
    BY <1>1, <1>2, <1>9 DEF Attended, Task, StartCall, At
  <2> QED
    BY <1>3, <1>4, <1>9, <2>1 DEF StartCall, At
<1>10. CASE CallReturns(s, r)
  <2>1. Attended(run', [task[s][r] EXCEPT !.phase = "called"], r)
    BY <1>1, <1>2, <1>10 DEF Attended, Task, CallReturns, At
  <2> QED
    BY <1>3, <1>4, <1>10, <2>1 DEF CallReturns, At, Goto
<1>11. CASE CompleteCall(s, r)
  <2>1. /\ UNCHANGED <<run, sup>> /\ task[s][r].phase = "called"
        /\ \/ Goto(s, r, "waiting")
           \/ task[s][r].wait = NoRun /\ Goto(s, r, "running")
    BY <1>11 DEF CompleteCall, At
  <2>2. CASE task[s][r].wait = NoRun /\ Goto(s, r, "running")
    <3>1. Attended(run', [task[s][r] EXCEPT !.phase = "running"], r)
      BY <1>1, <1>2, <2>1, <2>2 DEF Attended, Task
    <3> QED
      BY <1>3, <1>4, <2>1, <2>2, <3>1 DEF Goto
  <2> QED
    BY <1>4, <1>6, <2>1, <2>2
<1>12. CASE AskChildren(s, r)
  <2>1. /\ run' = Mark(run, Cancelable(r)) /\ UNCHANGED sup /\ task[s][r].phase # "none"
        /\ Goto(s, r, "failed") \/ Goto(s, r, "suspending")
    BY <1>12 DEF AskChildren, RequestCancels, At
  <2>2. \A c \in Undelivered(run', r) : Stopped(run', c)
    BY <1>1, <2>1, MarkedIsStopped
  <2>3. Calm(run, run')
    BY <1>1, <2>1, MarkIsCalm
  <2>4. ASSUME NEW phase \in {"failed", "suspending"}, Goto(s, r, phase)
        PROVE  ChildInv'
    <3>1. Attended(run', [task[s][r] EXCEPT !.phase = phase], r)
      BY <1>1, <2>2, <2>4 DEF Attended, Task
    <3> QED
      BY <1>3, <2>1, <2>3, <2>4, <3>1 DEF Goto
  <2> QED
    BY <2>1, <2>4
<1>13. ASSUME NEW status, NEW wait, Fenced(s, r),
              \A c \in Undelivered(run, r) : Stopped(run, c)
       PROVE  /\ Calm(run, SetStatus(Discard(run, r), r, status, wait))
              /\ status \in Status \ {"running"} /\ wait \in Wait =>
                    Calm(run, Deliver(SetStatus(Discard(run, r), r, status, wait), r))
  <2>1. ~Done(run, r)
    BY <1>13 DEF Fenced, Done, Terminal
  <2>2. Calm(run, SetStatus(Discard(run, r), r, status, wait))
    BY <1>1, <1>13, <2>1, EndIsCalm
  <2>3. status \in Status \ {"running"} /\ wait \in Wait =>
           SetStatus(Discard(run, r), r, status, wait) \in Rows
    BY <1>1, EndKeepsAttempts
  <2> QED
    BY <2>2, <2>3, DeliverIsCalm, CalmTransitive
<1>14. CASE Finish(s, r)
  <2>1. Undelivered(run, r) = {} /\ Fenced(s, r) /\ task[s][r].phase # "none"
    BY <1>2, <1>14 DEF Finish, At, Attended
  <2>2. Calm(run, run')
    BY <1>13, <1>14, <2>1, StatusNames DEF Finish, Wait
  <2> QED
    BY <1>5, <1>14, <2>1, <2>2 DEF Finish
<1>15. CASE FailRun(s, r) \/ WaitForToolRecovery(s, r)
  <2>1. /\ \A c \in Undelivered(run, r) : Stopped(run, c)
        /\ Fenced(s, r) /\ task[s][r].phase # "none"
        /\ UNCHANGED sup /\ SetTask(s, r, NoTask)
    BY <1>2, <1>15 DEF FailRun, WaitForToolRecovery, At, Attended
  <2>2. Calm(run, run')
    BY <1>13, <1>15, <2>1, StatusNames DEF FailRun, WaitForToolRecovery, Wait
  <2> QED
    BY <1>5, <2>1, <2>2
<1>16. CASE FinishWaiting(s, r)
  <2> DEFINE rows == SetStatus(run, r, "waiting", task[s][r].wait)
  <2>1. ~Done(run, r) /\ task[s][r].wait \in Wait
    BY <1>1, <1>16 DEF FinishWaiting, Fenced, Done, Terminal, Task, Wait
  <2>2. rows \in Rows /\ Calm(run, rows)
    BY <1>1, <2>1, SetStatusRows, SetStatusIsCalm, StatusNames
  <2>3. Calm(run, run')
    BY <1>16, <2>2, DeliverFinishedIsCalm, CalmTransitive DEF FinishWaiting
  <2> QED
    BY <1>5, <1>16, <2>3 DEF FinishWaiting, At
<1>17. CASE YieldTask(s, r)
  <2>1. Calm(run, run')
    <3>1. CASE run[r].status = "running"
      BY <1>1, <1>4, <1>17, <3>1, SetStatusIsCalm DEF YieldTask, Requeue, Done, Terminal
    <3>2. CASE run[r].status # "running"
      BY <1>4, <1>17, <3>2 DEF YieldTask
    <3> QED
      BY <3>1, <3>2
  <2> QED
    BY <1>5, <1>17, <2>1 DEF YieldTask, At
<1>18. CASE CallFails(s, r) \/ Raise(s, r) \/ TaskEnds(s, r) \/ AbortCall(s, r)
  <2>1. /\ UNCHANGED <<run, sup>> /\ task[s][r].phase # "none"
        /\ \/ Goto(s, r, "recovering") \/ Goto(s, r, "failing") \/ Goto(s, r, "yielding")
           \/ SetTask(s, r, NoTask)
    BY <1>18 DEF CallFails, Raise, TaskEnds, AbortCall, At
  <2> QED
    BY <1>4, <1>5, <1>6, <2>1
<1> QED
  BY <1>7, <1>8, <1>9, <1>10, <1>11, <1>12, <1>14, <1>15, <1>16, <1>17, <1>18,
     CreateChildKeepsChildren DEF TaskStep

LEMMA CanceledAttends ==
    ASSUME NEW t \in Task, NEW rows, NEW r
    PROVE  Attended(rows, Canceled(t), r)
<1>1. Canceled(t).phase \in {"none", "claimed", "waiting", "failing", "recovering",
                             "aborting", "yielding"}
  BY DEF Canceled, NoTask, Task, Phase
<1> QED
  BY <1>1, NoTaskAttends

\* The driver asks the children of a Run to stop before it drops their results.
LEMMA CancelStepsKeepChildren ==
    ASSUME WaitInv, ChildInv, OneDriver, NEW s \in Supervisor,
           CancelChildren(s) \/ CancelRun(s) \/ \E r \in Run : BeginCancelRun(s, r)
    PROVE  ChildInv'
<1>1. /\ run \in Rows /\ TypeInv /\ sup[s] \in Sup /\ sup \in [Supervisor -> Sup]
  BY DEF WaitInv, WorkInv, TypeInv, TypeOK, Rows
<1>2. UNCHANGED task
  BY DEF CancelChildren, CancelRun, BeginCancelRun
<1>3. CASE CancelChildren(s)
  <2>1. /\ sup[s].current \in Run /\ task[s][sup[s].current].phase = "none"
        /\ sup'[s].current = sup[s].current /\ sup'[s].stage = "closing"
        /\ run' = Mark(run, Cancelable(sup[s].current))
    BY <1>1, <1>3
       DEF CancelChildren, TypeInv, CurrentIsRun, ChildInv, SetSup, Sup, RequestCancels
  <2>2. Calm(run, run') /\ \A c \in Undelivered(run', sup[s].current) : Stopped(run', c)
    BY <1>1, <2>1, MarkIsCalm, MarkedIsStopped
  <2> QED
    BY <1>1, <1>2, <2>1, <2>2, CalmKeepsChildren DEF OneDriver
<1>4. CASE CancelRun(s)
  <2> DEFINE r == sup[s].current
             closed == SetStatus(Discard(run, r), r, "canceled", NoRun)
             ended == Mark(closed, {r})
  <2>1. /\ r \in Run /\ sup'[s].stage = "canceling"
        /\ \A c \in Undelivered(run, r) : Stopped(run, c)
    BY <1>1, <1>4 DEF CancelRun, TypeInv, CurrentIsRun, ChildInv, SetSup, Sup
  <2>2. CASE Done(run, r)
    <3>1. Calm(run, run')
      BY <1>4, <2>2, CalmReflexive DEF CancelRun
    <3> QED
      BY <1>1, <1>2, <2>1, <3>1, CalmKeepsChildren DEF OneDriver
  <2>3. CASE ~Done(run, r)
    <3>1. Calm(run, closed) /\ closed \in Rows
      BY <1>1, <2>1, <2>3, EndIsCalm, EndKeepsAttempts, StatusNames DEF Wait
    <3>2. Calm(run, ended) /\ ended \in Rows
      BY <3>1, MarkIsCalm, MarkRows, CalmTransitive
    <3>3. Calm(run, Deliver(ended, r))
      BY <2>1, <3>2, DeliverIsCalm, CalmTransitive
    <3>4. Calm(run, run')
      BY <1>4, <2>3, <3>2, <3>3 DEF CancelRun
    <3> QED
      BY <1>1, <1>2, <2>1, <3>4, CalmKeepsChildren DEF OneDriver
  <2> QED
    BY <2>2, <2>3
<1>5. ASSUME NEW r \in Run, BeginCancelRun(s, r)
      PROVE  ChildInv'
  <2>1. /\ task[s][r].phase = "none" /\ sup'[s].current = r
        /\ sup'[s].stage = "requesting" /\ Calm(run, run')
    BY <1>1, <1>5, CalmReflexive DEF BeginCancelRun, SetSup, Sup
  <2> QED
    BY <1>1, <1>2, <2>1, CalmKeepsChildren DEF OneDriver
<1> QED
  BY <1>3, <1>4, <1>5

LEMMA DriverKeepsChildren ==
    ASSUME WaitInv, ChildInv, OneDriver, NEW s \in Supervisor, DriverStep(s)
    PROVE  ChildInv'
<1>1. /\ run \in Rows /\ TypeInv /\ sup[s] \in Sup /\ sup \in [Supervisor -> Sup]
      /\ task \in [Supervisor -> [Run -> Task]]
  BY DEF WaitInv, WorkInv, TypeInv, TypeOK, Rows
<1>2. ASSUME Calm(run, run'), sup'[s].stage \notin {"requesting", "closing"},
             UNCHANGED task \/ YieldAll(s) \/ StopTasks(s)
      PROVE  ChildInv'
  <2>1. ASSUME NEW t \in Supervisor, NEW r \in Run
        PROVE  task'[t][r] = task[t][r] \/ Attended(run', task'[t][r], r)
    <3>1. CASE UNCHANGED task
      BY <3>1
    <3>2. CASE YieldAll(s)
      BY <1>1, <3>2, CanceledAttends DEF YieldAll
    <3>3. CASE StopTasks(s)
      <4>1. \/ task'[t][r] = task[t][r]
            \/ task'[t][r].phase \in {"aborting", "none"}
        BY <1>1, <3>3 DEF StopTasks, NoTask, Task
      <4> QED
        BY <4>1, NoTaskAttends
    <3> QED
      BY <1>2, <3>1, <3>2, <3>3
  <2> QED
    BY <1>1, <1>2, <2>1, CalmKeepsChildren DEF OneDriver
<1>3. CASE BeginRenew(s)
  BY <1>1, <1>2, <1>3, CalmReflexive DEF BeginRenew, SetSup, Sup
<1>4. CASE RenewKeeps(s)
  BY <1>1, <1>2, <1>4, CalmReflexive DEF RenewKeeps, SetSup, Sup
<1>5. CASE RenewTakes(s)
  BY <1>1, <1>2, <1>5, CalmReflexive DEF RenewTakes, SetSup, Sup
<1>6. CASE RenewRefused(s)
  BY <1>1, <1>2, <1>6, CalmReflexive DEF RenewRefused, SetSup, Sup
<1>7. CASE BeginRecover(s)
  BY <1>1, <1>2, <1>7, CalmReflexive DEF BeginRecover, SetSup, Sup
<1>8. ASSUME NEW r \in Run, RecoverRun(s, r)
      PROVE  ChildInv'
  <2>1. Calm(run, run')
    <3>1. CASE run[r].status = "running"
      BY <1>1, <1>8, <3>1, CalmReflexive, SetStatusIsCalm
         DEF RecoverRun, Requeue, Done, Terminal
    <3>2. CASE run[r].status # "running"
      BY <1>8, <3>2, CalmReflexive DEF RecoverRun
    <3> QED
      BY <3>1, <3>2
  <2> QED
    BY <1>1, <1>2, <1>8, <2>1 DEF RecoverRun, SetSup, Sup
<1>9. CASE EndRecover(s)
  BY <1>1, <1>2, <1>9, CalmReflexive DEF EndRecover, SetSup, Sup
<1>10. ASSUME NEW command \in commands, BeginCancel(s, command)
       PROVE  ChildInv'
  BY <1>1, <1>2, <1>10, CalmReflexive DEF BeginCancel, SetSup, Sup
<1>11. CASE StopTasks(s)
  <2>1. sup'[s].stage = "canceling" /\ UNCHANGED run
    BY <1>1, <1>11 DEF StopTasks, SetSup, Sup
  <2> QED
    BY <1>2, <1>11, <2>1, CalmReflexive
<1>12. CASE EndCancel(s)
  BY <1>1, <1>2, <1>12, CalmReflexive DEF EndCancel, SetSup, Sup
<1>13. CASE DriverFails(s)
  BY <1>1, <1>2, <1>13, CalmReflexive DEF DriverFails, SetSup, Sup
<1> QED
  BY <1>3, <1>4, <1>5, <1>6, <1>7, <1>8, <1>9, <1>10, <1>11, <1>12, <1>13,
     CancelStepsKeepChildren DEF DriverStep

LEMMA NextChildren ==
    ASSUME WaitInv, ChildInv, OneDriver, [Next]_vars
    PROVE  ChildInv'
<1>1. /\ run \in Rows /\ TypeInv /\ \A s \in Supervisor : sup[s] \in Sup
      /\ task \in [Supervisor -> [Run -> Task]] /\ sup \in [Supervisor -> Sup]
  BY DEF WaitInv, WorkInv, TypeInv, TypeOK, Rows
<1>2. CASE UNCHANGED vars
  BY <1>1, <1>2, CalmReflexive, TaskChangeKeepsChildren DEF vars
<1>3. CASE Expire
  <2>1. \A t \in Supervisor :
           sup'[t].stage = sup[t].stage /\ sup'[t].current = sup[t].current
    BY <1>1, <1>3 DEF Expire, Sup
  <2> QED
    BY <1>1, <1>3, <2>1, CalmReflexive, TaskChangeKeepsChildren DEF Expire
<1>4. ASSUME NEW sweep \in Sweep, RequestSessionCancel(sweep)
      PROVE  ChildInv'
  <2>1. Calm(run, run')
    BY <1>1, <1>4, MarkIsCalm DEF RequestSessionCancel
  <2> QED
    BY <1>1, <1>4, <2>1, TaskChangeKeepsChildren DEF RequestSessionCancel
<1>5. ASSUME NEW r \in Run, Request(r)
      PROVE  ChildInv'
  <2>1. Calm(run, run') /\ UNCHANGED <<sup, task>>
    BY <1>1, <1>5, RequestIsCalm
       DEF Request, EnqueueRun, RequestInterrupt, RequestChildCancel, Resolve
  <2> QED
    BY <1>1, <2>1, TaskChangeKeepsChildren
<1>6. ASSUME NEW s \in Supervisor, NEW r \in Run, Claim(s, r)
      PROVE  ChildInv'
  <2>1. Calm(run, run') /\ UNCHANGED sup /\ sup[s].stage = "idle"
    BY <1>1, <1>6, ClaimIsCalm DEF Claim, Ready, Idle
  <2>2. /\ task'[s][r].phase = "claimed"
        /\ \A t \in Supervisor, q \in Run : t # s \/ q # r => task'[t][q] = task[t][q]
    BY <1>1, <1>6 DEF Claim, SetTask, NoTask
  <2>3. Attended(run', task'[s][r], r)
    BY <2>2, NoTaskAttends
  <2> QED
    BY <1>1, <2>1, <2>2, <2>3, TaskChangeKeepsChildren
<1>7. ASSUME NEW s \in Supervisor, Shutdown(s) \/ Exit(s) \/ Restart(s)
      PROVE  ChildInv'
  <2>1. UNCHANGED run /\ sup'[s].stage = "idle"
    BY <1>1, <1>7, StoppedDriver DEF SetSup, TypeInv, Shutdown, Exit, Restart
  <2>2. ASSUME NEW t \in Supervisor, NEW q \in Run
        PROVE  task'[t][q] = task[t][q] \/ Attended(run', task'[t][q], q)
    <3>1. CASE YieldAll(s)
      BY <1>1, <3>1, CanceledAttends DEF YieldAll
    <3>2. CASE task' = [task EXCEPT ![s] = [r \in Run |-> NoTask]]
      BY <1>1, <3>2, NoTaskAttends DEF NoTask
    <3> QED
      BY <1>7, <3>1, <3>2 DEF Shutdown, Exit, Restart
  <2> QED
    BY <1>1, <2>1, <2>2, CalmReflexive, CalmKeepsChildren DEF OneDriver
<1> QED
  BY <1>2, <1>3, <1>4, <1>5, <1>6, <1>7, DriverKeepsChildren, TasksKeepChildren DEF Next

\* With one supervisor process, which may crash, shut down and be started again any
\* number of times and meet every fault, no result is dropped of a child that was not
\* told to stop: each path that drops results asks first, and the child a Run has made is
\* the one it waits for
\* (request_undelivered_child_cancellations, supervisor.py 717-760, 1180-1210,
\* 1274-1300).  A deposed process makes it false: it can still make a child.
THEOREM DiscardedChildIsCanceledAlways ==
    ASSUME \A s, t \in Supervisor : s = t
    PROVE  Spec => []DiscardedChildIsCanceled
<1>1. Init => ChildInv
  BY RunAssumption DEF Init, Fresh, ChildInv, Attended, NoTask
<1>2. WaitInv /\ ChildInv /\ [Next]_vars => ChildInv'
  BY NextChildren DEF OneDriver
<1>3. ChildInv => DiscardedChildIsCanceled
  BY DEF ChildInv, DiscardedChildIsCanceled, Stopped
<1> QED
  BY <1>1, <1>2, <1>3, WaitInvariant, PTL DEF Spec
-----------------------------------------------------------------------------
(* Who drives a RUNNING Run.  While one process reigns (it holds the lease *)
(* and has recovered what its predecessor left), each RUNNING Run has its  *)
(* Attempt of this reign, and a task of it, unless a cancellation has just *)
(* stopped that task.                                                      *)

Reign(s) == Leads(s) /\ sup[s].state = "up" /\ sup[s].recovered = sup[s].token

Driven(s) ==
    /\ sup[s].stage # "renewing" /\ ~sup[s].stale
    /\ sup[s].recovered <= lease.token /\ sup[s].token <= lease.token
    /\ lease.owner = s => sup[s].token = lease.token
    /\ sup[s].state = "down" => lease.owner # s
    /\ sup[s].stage = "recovering" => \A r \in Run : task[s][r].phase = "none"
    /\ sup[s].stage = "recovering" /\ Leads(s) =>
          \A r \in Run : run[r].status = "running" => r \in sup[s].todo
    /\ Canceling(s) =>
          \A r \in Run : task[s][r].phase = "aborting" =>
                            sup[s].stage = "canceling" /\ r \in sup[s].todo
    /\ Reign(s) =>
          \A r \in Run :
             /\ task[s][r].phase # "none" => task[s][r].token = lease.token
             /\ run[r].status = "running" =>
                   /\ run[r].attempt = [running |-> TRUE, owner |-> s, token |-> lease.token]
                   /\ task[s][r].phase # "none" \/ (Canceling(s) /\ r \in sup[s].todo)

DrivenInv ==
    /\ \A r \in Run : run[r].status = "running" => run[r].attempt.running
    /\ \A s \in Supervisor : Driven(s)

NoFaults == Faults = {}

\* What a process believes stays true while others act, and when its lease ends.
LEMMA OthersKeepDriven ==
    ASSUME TypeInv, NEW s \in Supervisor, Driven(s), KeepsAttempts(run, run'),
           sup'[s] = sup[s], task'[s] = task[s], lease'.token \in Nat,
           lease'.token >= lease.token,
           \/ lease' = lease
           \/ lease'.owner # s
           \/ ~lease'.live /\ lease'.owner = lease.owner /\ lease'.token = lease.token
    PROVE  Driven(s)'
<1>1. /\ lease.token \in Nat /\ sup[s].recovered \in Nat /\ sup[s].token \in Nat
      /\ Canceling(s)' <=> Canceling(s)
  BY DEF TypeInv, TypeOK, Sup, Canceling
<1>2. Leads(s)' => Leads(s) /\ lease' = lease
  BY DEF Leads, Driven
<1>3. Reign(s)' => Reign(s) /\ lease' = lease
  BY <1>2 DEF Reign
<1>4. \A r \in Run : run'[r].status = "running" =>
         run[r].status = "running" /\ run'[r].attempt = run[r].attempt
  BY DEF KeepsAttempts
<1>5. sup'[s].recovered <= lease'.token /\ sup'[s].token <= lease'.token
  BY <1>1 DEF Driven
<1>6. /\ lease'.owner = s => sup'[s].token = lease'.token
      /\ sup'[s].state = "down" => lease'.owner # s
  BY DEF Driven
<1>7. sup[s].stage = "recovering" /\ Leads(s)' =>
         \A r \in Run : run'[r].status = "running" => r \in sup[s].todo
  BY <1>2, <1>4 DEF Driven
<1>8. ASSUME Reign(s)', NEW r \in Run
      PROVE  /\ task[s][r].phase # "none" => task[s][r].token = lease'.token
             /\ run'[r].status = "running" =>
                   /\ run'[r].attempt = [running |-> TRUE, owner |-> s, token |-> lease'.token]
                   /\ task[s][r].phase # "none" \/ (Canceling(s) /\ r \in sup[s].todo)
  BY <1>3, <1>4, <1>8 DEF Driven
<1> QED
  BY <1>1, <1>5, <1>6, <1>7, <1>8 DEF Driven

\* A task step: it keeps its Attempt, ends it, or is not the reigning process's.
LEMMA TaskKeepsDriven ==
    ASSUME TypeInv, NEW s \in Supervisor, Driven(s), KeepsAttempts(run, run'),
           UNCHANGED <<sup, lease>>,
           \A r \in Run :
              /\ task[s][r].phase = "none" => task'[s][r].phase = "none"
              /\ \/ task'[s][r].phase = "none"
                 \/ /\ task'[s][r].token = task[s][r].token
                    /\ task'[s][r].phase = "aborting" => task[s][r].phase = "aborting"
              /\ \/ task'[s][r].phase # "none"
                 \/ task[s][r].phase = "none"
                 \/ Reign(s) => run'[r].status # "running"
                 \/ Canceling(s) /\ r \in sup[s].todo
    PROVE  Driven(s)'
<1>1. Canceling(s)' <=> Canceling(s)
  BY DEF Canceling
<1>2. (Leads(s)' <=> Leads(s)) /\ (Reign(s)' <=> Reign(s))
  BY DEF Leads, Reign
<1>3. \A r \in Run : run'[r].status = "running" =>
         run[r].status = "running" /\ run'[r].attempt = run[r].attempt
  BY DEF KeepsAttempts
<1>4. ASSUME Reign(s), NEW r \in Run
      PROVE  /\ task'[s][r].phase # "none" => task'[s][r].token = lease.token
             /\ run'[r].status = "running" =>
                   /\ run'[r].attempt = [running |-> TRUE, owner |-> s, token |-> lease.token]
                   /\ task'[s][r].phase # "none" \/ (Canceling(s) /\ r \in sup[s].todo)
  BY <1>3, <1>4 DEF Driven
<1> QED
  BY <1>1, <1>2, <1>3, <1>4 DEF Driven

\* The transaction that closes the Attempt of a task leaves the Run not running.
LEMMA TasksKeepDriven ==
    ASSUME NoFaults, TypeInv, NEW s \in Supervisor, Driven(s), NEW r \in Run, TaskStep(s, r)
    PROVE  Driven(s)'
<1>1. /\ run \in Rows /\ task[s][r] \in Task /\ task \in [Supervisor -> [Run -> Task]]
  BY DEF TypeInv, TypeOK, Rows
<1>2. KeepsAttempts(run, run')
  BY TasksKeepAttempts
<1>3. UNCHANGED <<sup, lease>> /\ task[s][r].phase # "none"
  BY DEF TaskStep, BuildContext, Reconcile, StartCall, CreateChild,
     CallReturns, CompleteCall, CallFails, Finish, FinishWaiting, Raise, AskChildren,
     FailRun, WaitForToolRecovery, TaskEnds, AbortCall, YieldTask, At
<1>4. ASSUME NEW t, SetTask(s, r, t), t.token = task[s][r].token,
             t.phase # "none", t.phase # "aborting"
      PROVE  Driven(s)'
  <2>1. \A q \in Run : task'[s][q] = task[s][q] \/ (q = r /\ task'[s][q] = t)
    BY <1>1, <1>4 DEF SetTask
  <2> QED
    BY <1>2, <1>3, <1>4, <2>1, TaskKeepsDriven
<1>5. ASSUME SetTask(s, r, NoTask),
             \/ Reign(s) => run'[r].status # "running"
             \/ Canceling(s) /\ r \in sup[s].todo
      PROVE  Driven(s)'
  <2>1. \A q \in Run : task'[s][q] = task[s][q] \/ (q = r /\ task'[s][q].phase = "none")
    BY <1>1, <1>5 DEF SetTask, NoTask
  <2> QED
    BY <1>2, <1>3, <1>5, <2>1, TaskKeepsDriven
<1>6. ASSUME NEW phase \in Phase \ {"none", "aborting"}, Goto(s, r, phase)
      PROVE  Driven(s)'
  BY <1>1, <1>4, <1>6 DEF Goto, Task
<1>7. CASE BuildContext(s, r)
  BY <1>1, <1>4, <1>7 DEF BuildContext, Task
<1>8. CASE Reconcile(s, r) \/ CallReturns(s, r) \/ CompleteCall(s, r) \/ CallFails(s, r)
           \/ Raise(s, r) \/ AskChildren(s, r)
  BY <1>6, <1>8, PhaseNames
     DEF Reconcile, CallReturns, CompleteCall, CallFails, Raise, AskChildren
<1>9. CASE StartCall(s, r)
  BY <1>1, <1>4, <1>9 DEF StartCall, Task
<1>10. ASSUME NEW c \in Child, CreateChild(s, r, c)
       PROVE  Driven(s)'
  BY <1>1, <1>4, <1>10 DEF CreateChild, Task
<1>11. ASSUME NEW rows \in Rows, NEW status \in Status \ {"running"}, NEW wait
       PROVE  SetStatus(rows, r, status, wait)[r].status # "running"
  BY <1>11 DEF SetStatus, SetRun, Rows, RunRow
<1>12. ASSUME NEW status \in Status \ {"running"}, NEW wait \in Wait
       PROVE  /\ SetStatus(Discard(run, r), r, status, wait)[r].status # "running"
              /\ Deliver(SetStatus(Discard(run, r), r, status, wait), r)[r].status # "running"
  <2> DEFINE rows == SetStatus(Discard(run, r), r, status, wait)
  <2>1. rows \in Rows
    BY <1>1, <1>12, EndKeepsAttempts
  <2>2. rows[r].status # "running"
    BY <1>1, <1>11, <1>12, DiscardRows
  <2> HIDE DEF rows
  <2>3. Deliver(rows, r)[r].status # "running"
    BY <2>1, <2>2, DeliverKeepsAttempts DEF KeepsAttempts
  <2> QED
    BY <2>2, <2>3 DEF rows
<1>13. CASE Finish(s, r) \/ FailRun(s, r) \/ WaitForToolRecovery(s, r)
  <2>1. run'[r].status # "running" /\ SetTask(s, r, NoTask)
    BY <1>12, <1>13, StatusNames DEF Finish, FailRun, WaitForToolRecovery, Wait
  <2> QED
    BY <1>5, <2>1
<1>14. CASE FinishWaiting(s, r)
  <2> DEFINE rows == SetStatus(run, r, "waiting", task[s][r].wait)
  <2>1. rows \in Rows /\ rows[r].status # "running"
    BY <1>1, <1>11, SetStatusRows, StatusNames DEF Task, Wait
  <2>2. run' = DeliverFinished(rows, r) /\ SetTask(s, r, NoTask)
    BY <1>14 DEF FinishWaiting
  <2> HIDE DEF rows
  <2>3. run'[r].status # "running"
    BY <2>1, <2>2, DeliverFinishedKeepsAttempts DEF KeepsAttempts
  <2> QED
    BY <1>5, <2>2, <2>3
<1>15. CASE TaskEnds(s, r)
  <2>1. ~Fenced(s, r) /\ UNCHANGED run /\ SetTask(s, r, NoTask)
    BY <1>15 DEF TaskEnds, NoFaults
  <2>2. Reign(s) => run[r].status # "running"
    BY <1>3, <2>1 DEF Driven, Fenced, OwnAttempt, Reign
  <2> QED
    BY <1>5, <2>1, <2>2
<1>16. CASE AbortCall(s, r)
  <2>1. CASE sup[s].stage = "canceling"
    <3>1. SetTask(s, r, NoTask) /\ Canceling(s) /\ r \in sup[s].todo
      BY <1>16, <2>1 DEF AbortCall, At, Driven, Canceling
    <3> QED
      BY <1>5, <3>1
  <2>2. CASE sup[s].stage # "canceling"
    BY <1>6, <1>16, <2>2, PhaseNames DEF AbortCall
  <2> QED
    BY <2>1, <2>2
<1>17. CASE YieldTask(s, r)
  <2>1. Reign(s) => run'[r].status # "running"
    <3>1. CASE run[r].status # "running"
      BY <1>17, <3>1 DEF YieldTask
    <3>2. CASE run[r].status = "running" /\ Reign(s)
      <4>1. Leads(s) /\ OwnAttempt(s, r)
        BY <1>3, <3>2 DEF Driven, Reign, OwnAttempt
      <4>2. run' = Requeue(run, r)
        BY <1>17, <3>2, <4>1 DEF YieldTask
      <4> QED
        BY <1>1, <1>11, <4>2, StatusNames DEF Requeue
    <3> QED
      BY <3>1, <3>2
  <2> QED
    BY <1>5, <1>17, <2>1 DEF YieldTask
<1> QED
  BY <1>7, <1>8, <1>9, <1>10, <1>13, <1>14, <1>15, <1>16, <1>17 DEF TaskStep

\* A claim makes the Run of this reign, with its task.
LEMMA ClaimKeepsDriven ==
    ASSUME TypeInv, NEW s \in Supervisor, Driven(s), NEW r \in Run, Claim(s, r)
    PROVE  Driven(s)'
<1>1. /\ run \in Rows /\ task \in [Supervisor -> [Run -> Task]]
      /\ Leads(s) /\ sup[s].stage = "idle" /\ UNCHANGED <<sup, lease>>
  BY DEF TypeInv, TypeOK, Rows, Claim, Ready, Idle
<1>2. /\ run'[r].attempt = [running |-> TRUE, owner |-> s, token |-> lease.token]
      /\ \A q \in Run \ {r} : run'[q] = run[q]
  BY <1>1 DEF Claim, SetRun, Rows, RunRow, Leads
<1>3. /\ task'[s][r].phase = "claimed" /\ task'[s][r].token = lease.token
      /\ \A q \in Run \ {r} : task'[s][q] = task[s][q]
  BY <1>1 DEF Claim, SetTask, NoTask, Leads
<1>4. ~Canceling(s) /\ ~Canceling(s)' /\ (Reign(s)' <=> Reign(s))
  BY <1>1 DEF Canceling, Reign, Leads
<1> QED
  BY <1>1, <1>2, <1>3, <1>4 DEF Driven

\* No other process claims a Run under a lease that this one holds.
LEMMA OneLeader ==
    ASSUME NEW s \in Supervisor, NEW t \in Supervisor, Leads(s), Leads(t)
    PROVE  s = t
BY DEF Leads

\* What the driver changes in its own record: not its tasks.
LEMMA DriverMoveKeepsDriven ==
    ASSUME TypeInv, NEW s \in Supervisor, Driven(s), KeepsAttempts(run, run'),
           UNCHANGED <<lease, task>>, NEW q, SetSup(s, q),
           q.state = sup[s].state, q.token = sup[s].token, ~q.stale, q.stage # "renewing",
           q.recovered = sup[s].recovered,
           q.stage = "recovering" =>
              /\ \A r \in Run : task[s][r].phase = "none"
              /\ Leads(s) => \A r \in Run : run'[r].status = "running" => r \in q.todo,
           q.stage \in {"stopping", "canceling", "requesting", "closing"} =>
              \A r \in Run : task[s][r].phase = "aborting" =>
                                q.stage = "canceling" /\ r \in q.todo,
           Reign(s) => \A r \in Run :
              run'[r].status = "running" /\ task[s][r].phase = "none" =>
                 /\ q.stage \in {"stopping", "canceling", "requesting", "closing"}
                 /\ r \in q.todo
    PROVE  Driven(s)'
<1>1. sup'[s] = q
  BY DEF SetSup, TypeInv, TypeOK
<1>2. /\ (Leads(s)' <=> Leads(s)) /\ (Reign(s)' <=> Reign(s))
      /\ Canceling(s)' <=> q.stage \in {"stopping", "canceling", "requesting", "closing"}
  BY <1>1 DEF Leads, Reign, Canceling
<1>3. \A r \in Run : run'[r].status = "running" =>
         run[r].status = "running" /\ run'[r].attempt = run[r].attempt
  BY DEF KeepsAttempts
<1>4. ASSUME Reign(s), NEW r \in Run
      PROVE  /\ task[s][r].phase # "none" => task[s][r].token = lease.token
             /\ run'[r].status = "running" =>
                   /\ run'[r].attempt = [running |-> TRUE, owner |-> s, token |-> lease.token]
                   /\ \/ task[s][r].phase # "none"
                      \/ Canceling(s)' /\ r \in q.todo
  BY <1>2, <1>3, <1>4 DEF Driven
<1> QED
  BY <1>1, <1>2, <1>4 DEF Driven

\* Renewing: what counts is the token, and that an expired lease takes a new one.
LEMMA RenewalKeepsDriven ==
    ASSUME NoFaults, TypeInv, NEW s \in Supervisor, Driven(s),
           BeginRenew(s) \/ RenewKeeps(s) \/ RenewTakes(s) \/ RenewRefused(s)
    PROVE  Driven(s)'
<1>1. /\ sup[s] \in Sup /\ sup \in [Supervisor -> Sup] /\ lease.token \in Nat
      /\ task \in [Supervisor -> [Run -> Task]] /\ Driven(s)
      /\ ~BeginRenew(s) /\ sup[s].recovered \in Nat
  BY DEF TypeInv, TypeOK, Sup, BeginRenew, NoFaults
<1>2. CASE RenewKeeps(s)
  <2>1. /\ lease.owner = s /\ lease.live /\ sup[s].token = lease.token
        /\ Leads(s) /\ UNCHANGED run /\ Idle(s)
    BY <1>1, <1>2 DEF RenewKeeps, Leads, Driven, Renewing, NoFaults
  <2>2. lease'.owner = s /\ lease'.token = lease.token /\ lease'.live
    BY <1>1, <1>2, <2>1 DEF RenewKeeps, TypeInv, TypeOK
  <2>3. /\ sup'[s].stage = "idle" /\ sup'[s].token = lease.token
        /\ sup'[s].state = sup[s].state /\ sup'[s].recovered = sup[s].recovered
        /\ sup'[s].todo = sup[s].todo /\ sup'[s].stale = sup[s].stale
    BY <1>1, <1>2 DEF RenewKeeps, SetSup, Sup
  <2>4. Reign(s) => UNCHANGED task
    BY <1>2, <2>1 DEF RenewKeeps, Reign
  <2>5. (Leads(s)' <=> Leads(s)) /\ (Reign(s)' <=> Reign(s)) /\ ~Canceling(s)'
    BY <2>1, <2>2, <2>3 DEF Leads, Reign, Canceling
  <2>6. ~Canceling(s)
    BY <2>1 DEF Idle, Canceling
  <2>7. Reign(s) => \A r \in Run :
           /\ task[s][r].phase # "none" => task[s][r].token = lease.token
           /\ run[r].status = "running" =>
                 /\ run[r].attempt = [running |-> TRUE, owner |-> s, token |-> lease.token]
                 /\ task[s][r].phase # "none"
    BY <2>6 DEF Driven
  <2>8. ~sup'[s].stale /\ sup'[s].recovered <= lease'.token
    BY <2>2, <2>3 DEF Driven
  <2> QED
    BY <2>1, <2>2, <2>3, <2>4, <2>5, <2>7, <2>8, SMTT(15), ZenonT(25) DEF Driven
<1>3. CASE RenewTakes(s)
  <2>1. lease'.owner = s /\ lease'.token = lease.token + 1
    BY <1>3 DEF RenewTakes
  <2>2. /\ sup'[s].stage = "idle" /\ sup'[s].token = lease.token + 1
        /\ sup'[s].recovered = sup[s].recovered /\ ~sup'[s].stale
        /\ sup'[s].state = "up"
    BY <1>1, <1>3 DEF RenewTakes, Renewing, Idle, SetSup, Sup, Driven
  <2>3. sup[s].recovered <= lease.token
    BY DEF Driven
  <2>4. ~Reign(s)' /\ ~Canceling(s)' /\ sup'[s].recovered <= lease'.token
        /\ sup'[s].token <= lease'.token
    BY <1>1, <2>1, <2>2, <2>3 DEF Reign, Canceling
  <2> QED
    BY <2>1, <2>2, <2>4 DEF Driven
<1>4. CASE RenewRefused(s)
  <2>1. lease.owner # s /\ UNCHANGED lease
    BY <1>4 DEF RenewRefused
  <2>2. /\ sup'[s].stage = "idle" /\ sup'[s].recovered = sup[s].recovered
        /\ ~sup'[s].stale /\ sup'[s].token <= lease.token
    BY <1>1, <1>4 DEF RenewRefused, SetSup, Sup, Driven
  <2>3. ~Reign(s)' /\ ~Canceling(s)'
    BY <2>1, <2>2 DEF Reign, Leads, Canceling
  <2> QED
    BY <2>1, <2>2, <2>3 DEF Driven
<1> QED
  BY <1>1, <1>2, <1>3, <1>4

LEMMA DriverKeepsDriven ==
    ASSUME NoFaults, TypeInv, DrivenInv, NEW s \in Supervisor, DriverStep(s)
    PROVE  Driven(s)'
<1>1. /\ sup[s] \in Sup /\ run \in Rows /\ Driven(s) /\ KeepsAttempts(run, run')
      /\ ~sup[s].stale /\ sup[s].stage # "renewing"
      /\ sup \in [Supervisor -> Sup] /\ task \in [Supervisor -> [Run -> Task]]
  BY DriverKeepsAttempts DEF TypeInv, TypeOK, Rows, DrivenInv, Driven
<1>2. Reign(s) => \A r \in Run : run'[r].status = "running" /\ task[s][r].phase = "none" =>
                     Canceling(s) /\ r \in sup[s].todo
  BY <1>1 DEF Driven, KeepsAttempts
<1>3. CASE BeginRecover(s)
  <2> DEFINE q == [sup[s] EXCEPT !.stage = "recovering",
                                 !.todo = {r \in Run : run[r].attempt.running}]
  <2>1. /\ q.state = sup[s].state /\ q.token = sup[s].token /\ ~q.stale
        /\ q.stage = "recovering" /\ q.recovered = sup[s].recovered
        /\ q.todo = {r \in Run : run[r].attempt.running}
    BY <1>1 DEF Sup
  <2>2. UNCHANGED <<run, lease, task>> /\ SetSup(s, q) /\ ~Canceling(s)
    BY <1>3 DEF BeginRecover, Idle, Canceling
  <2>3. \A r \in Run : task[s][r].phase = "none"
    BY <1>3 DEF BeginRecover, Tasks
  <2>4. \A r \in Run : run'[r].status = "running" => r \in q.todo
    BY <2>1, <2>2 DEF DrivenInv
  <2>5. ~Reign(s)
    BY <1>3 DEF BeginRecover, Reign
  <2> HIDE DEF q
  <2> QED
    BY <1>1, <2>1, <2>2, <2>3, <2>4, <2>5, DriverMoveKeepsDriven
<1>4. ASSUME NEW r \in Run, RecoverRun(s, r)
      PROVE  Driven(s)'
  <2> DEFINE q == [sup[s] EXCEPT !.todo = @ \ {r}]
  <2>1. /\ q.state = sup[s].state /\ q.token = sup[s].token /\ ~q.stale
        /\ q.stage = "recovering" /\ q.recovered = sup[s].recovered
        /\ q.todo = sup[s].todo \ {r}
    BY <1>1, <1>4 DEF Sup, RecoverRun
  <2>2. UNCHANGED <<lease, task>> /\ SetSup(s, q) /\ ~Canceling(s)
        /\ sup[s].stage = "recovering" /\ Leads(s)
    BY <1>4 DEF RecoverRun, Canceling
  <2>3. run'[r].status # "running"
    BY <1>1, <1>4, StatusNames DEF RecoverRun, Requeue, SetStatus, SetRun, DrivenInv, Rows, RunRow
  <2>4. /\ \A p \in Run : task[s][p].phase = "none"
        /\ \A p \in Run : run[p].status = "running" => p \in sup[s].todo
    BY <1>1, <2>2 DEF Driven
  <2>5. \A p \in Run : run'[p].status = "running" => p \in q.todo
    BY <1>1, <2>1, <2>3, <2>4 DEF KeepsAttempts
  <2> HIDE DEF q
  <2> QED
    BY <1>1, <1>2, <2>1, <2>2, <2>4, <2>5, DriverMoveKeepsDriven
<1>5. CASE EndRecover(s)
  <2>1. /\ sup'[s] = [sup[s] EXCEPT !.stage = "idle", !.recovered = sup[s].token]
        /\ UNCHANGED <<run, lease, task>> /\ sup[s].stage = "recovering"
        /\ sup[s].todo = {}
    BY <1>1, <1>5 DEF EndRecover, SetSup
  <2>2. /\ sup'[s].stage = "idle" /\ sup'[s].recovered = sup[s].token
        /\ sup'[s].token = sup[s].token /\ ~sup'[s].stale /\ sup'[s].todo = {}
        /\ sup'[s].state = sup[s].state
    BY <1>1, <2>1 DEF Sup
  <2>3. /\ \A r \in Run : task[s][r].phase = "none"
        /\ Leads(s) => \A r \in Run : run[r].status # "running"
    BY <1>1, <2>1 DEF Driven
  <2>4. (Leads(s)' <=> Leads(s)) /\ ~Canceling(s)' /\ sup[s].token <= lease.token
    BY <1>1, <2>1, <2>2 DEF Leads, Canceling, Driven
  <2>5. /\ lease.owner = s => sup[s].token = lease.token
        /\ sup[s].state = "down" => lease.owner # s
    BY <1>1 DEF Driven
  <2>6. Reign(s)' => Leads(s)
    BY <2>4 DEF Reign
  <2> QED
    BY <2>1, <2>2, <2>3, <2>4, <2>5, <2>6 DEF Driven
<1>6. ASSUME NEW command \in commands, BeginCancel(s, command)
      PROVE  Driven(s)'
  <2> DEFINE q == [sup[s] EXCEPT !.stage = "stopping", !.command = command,
                                 !.todo = Selected(command)]
  <2>1. /\ q.state = sup[s].state /\ q.token = sup[s].token /\ ~q.stale
        /\ q.stage = "stopping" /\ q.recovered = sup[s].recovered
    BY <1>1 DEF Sup
  <2>2. UNCHANGED <<run, lease, task>> /\ SetSup(s, q) /\ ~Canceling(s)
        /\ \A r \in Run : task[s][r].phase # "aborting"
    BY <1>6 DEF BeginCancel, Ready, Idle, Canceling
  <2> HIDE DEF q
  <2> QED
    BY <1>1, <1>2, <2>1, <2>2, DriverMoveKeepsDriven
<1>7. CASE StopTasks(s)
  <2>1. /\ sup'[s] = [sup[s] EXCEPT !.stage = "canceling"]
        /\ UNCHANGED <<run, lease>> /\ Canceling(s)
        /\ sup[s].stage = "stopping"
    BY <1>1, <1>7 DEF StopTasks, SetSup, Canceling
  <2>2. /\ sup'[s].stage = "canceling" /\ sup'[s].recovered = sup[s].recovered
        /\ sup'[s].token = sup[s].token /\ ~sup'[s].stale /\ sup'[s].todo = sup[s].todo
        /\ sup'[s].state = sup[s].state
    BY <1>1, <2>1 DEF Sup
  <2>3. \A r \in Run :
           \/ task'[s][r] = task[s][r] /\ r \notin sup[s].todo
           \/ /\ r \in sup[s].todo
              /\ \/ task'[s][r] = NoTask
                 \/ task'[s][r] = [task[s][r] EXCEPT !.phase = "aborting"]
                    /\ task[s][r].phase # "none"
    BY <1>1, <1>7 DEF StopTasks
  <2>4. \A r \in Run :
           \/ task'[s][r] = task[s][r]
           \/ /\ r \in sup[s].todo
              /\ \/ task'[s][r].phase = "none"
                 \/ task'[s][r].token = task[s][r].token /\ task[s][r].phase # "none"
    <3>1. \A r \in Run : [task[s][r] EXCEPT !.phase = "aborting"].token = task[s][r].token
      BY <1>1 DEF Task
    <3>2. ASSUME NEW r \in Run, r \in sup[s].todo, task'[s][r] = NoTask
          PROVE  task'[s][r].phase = "none"
      BY <3>2 DEF NoTask
    <3>3. ASSUME NEW r \in Run, task'[s][r] = [task[s][r] EXCEPT !.phase = "aborting"]
          PROVE  task'[s][r].token = task[s][r].token
      BY <3>1, <3>3
    <3> QED
      BY <2>3, <3>2, <3>3
  <2>5. \A r \in Run : task'[s][r].phase = "aborting" => r \in sup[s].todo
    BY <1>1, <2>1, <2>3 DEF Driven
  <2>6. (Leads(s)' <=> Leads(s)) /\ (Reign(s)' <=> Reign(s)) /\ Canceling(s)'
    BY <2>1, <2>2 DEF Leads, Reign, Canceling
  <2>7. Reign(s) => \A r \in Run :
           /\ task'[s][r].phase # "none" => task'[s][r].token = lease.token
           /\ run[r].status = "running" =>
                 /\ run[r].attempt = [running |-> TRUE, owner |-> s, token |-> lease.token]
                 /\ task'[s][r].phase # "none" \/ r \in sup[s].todo
    BY <1>1, <2>4 DEF Driven
  <2> QED
    BY <1>1, <2>1, <2>2, <2>5, <2>6, <2>7 DEF Driven
<1>8. ASSUME NEW r \in Run, BeginCancelRun(s, r)
      PROVE  Driven(s)'
  <2> DEFINE q == [sup[s] EXCEPT !.stage = "requesting", !.current = r]
  <2>1. /\ q.state = sup[s].state /\ q.token = sup[s].token /\ ~q.stale
        /\ q.stage = "requesting" /\ q.recovered = sup[s].recovered
        /\ q.todo = sup[s].todo
    BY <1>1 DEF Sup
  <2>2. UNCHANGED <<run, lease, task>> /\ SetSup(s, q) /\ Canceling(s)
        /\ \A p \in sup[s].todo : task[s][p].phase = "none"
    BY <1>8 DEF BeginCancelRun, Canceling
  <2>3. \A p \in Run : task[s][p].phase # "aborting"
    BY <1>1, <2>2 DEF Driven
  <2> HIDE DEF q
  <2> QED
    BY <1>1, <1>2, <2>1, <2>2, <2>3, DriverMoveKeepsDriven
<1>9. CASE CancelChildren(s)
  <2> DEFINE q == [sup[s] EXCEPT !.stage = "closing"]
  <2>1. /\ q.state = sup[s].state /\ q.token = sup[s].token /\ ~q.stale
        /\ q.stage = "closing" /\ q.recovered = sup[s].recovered
        /\ q.todo = sup[s].todo
    BY <1>1 DEF Sup
  <2>2. UNCHANGED <<lease, task>> /\ SetSup(s, q)
        /\ Canceling(s) /\ sup[s].stage = "requesting"
    BY <1>9 DEF CancelChildren, Canceling
  <2>3. \A p \in Run : task[s][p].phase # "aborting"
    BY <1>1, <2>2 DEF Driven
  <2> HIDE DEF q
  <2> QED
    BY <1>1, <1>2, <2>1, <2>2, <2>3, DriverMoveKeepsDriven
<1>10. CASE CancelRun(s)
  <2> DEFINE r == sup[s].current
             q == [sup[s] EXCEPT !.stage = "canceling", !.current = NoRun, !.todo = @ \ {r}]
             closed == SetStatus(Discard(run, r), r, "canceled", NoRun)
             ended == Mark(closed, {r})
  <2>1. /\ q.state = sup[s].state /\ q.token = sup[s].token /\ ~q.stale
        /\ q.stage = "canceling" /\ q.recovered = sup[s].recovered
        /\ q.todo = sup[s].todo \ {r}
    BY <1>1 DEF Sup
  <2>2. UNCHANGED <<lease, task>> /\ SetSup(s, q) /\ Canceling(s)
        /\ sup[s].stage = "closing" /\ r \in Run
    BY <1>10 DEF CancelRun, Canceling, TypeInv, CurrentIsRun
  <2>3. \A p \in Run : task[s][p].phase # "aborting"
    BY <1>1, <2>2 DEF Driven
  <2>4. run'[r].status # "running"
    <3>1. closed \in Rows /\ closed[r].status # "running"
      <4>1. Discard(run, r) \in Rows
        BY <1>1, <2>2, DiscardRows
      <4>2. closed \in Rows
        BY <1>1, <2>2, StatusNames, EndKeepsAttempts DEF Wait
      <4>3. closed[r].status = "canceled"
        BY <2>2, <4>1 DEF SetStatus, SetRun, Rows, RunRow
      <4> QED
        BY <4>2, <4>3
    <3>2. ended \in Rows /\ ended[r].status # "running"
      BY <2>2, <3>1, MarkRows, MarkKeepsAttempts DEF KeepsAttempts
    <3>3. Deliver(ended, r)[r].status # "running"
      BY <2>2, <3>2, DeliverKeepsAttempts DEF KeepsAttempts
    <3>4. Done(run, r) => run[r].status # "running"
      BY DEF Done, Terminal
    <3> QED
      BY <1>10, <3>2, <3>3, <3>4 DEF CancelRun
  <2>5. Reign(s) => \A p \in Run :
           run'[p].status = "running" /\ task[s][p].phase = "none" => p \in q.todo
    BY <1>2, <2>1, <2>4
  <2> HIDE DEF q, r
  <2> QED
    BY <1>1, <2>1, <2>2, <2>3, <2>5, DriverMoveKeepsDriven
<1>11. CASE EndCancel(s)
  <2> DEFINE q == [sup[s] EXCEPT !.stage = "idle", !.command = NoRun]
  <2>1. /\ q.state = sup[s].state /\ q.token = sup[s].token /\ ~q.stale
        /\ q.stage = "idle" /\ q.recovered = sup[s].recovered
    BY <1>1 DEF Sup
  <2>2. UNCHANGED <<lease, task>> /\ SetSup(s, q) /\ sup[s].todo = {}
    BY <1>11 DEF EndCancel
  <2> HIDE DEF q
  <2> QED
    BY <1>1, <1>2, <2>1, <2>2, DriverMoveKeepsDriven
<1>12. CASE DriverFails(s)
  <2> DEFINE q == [sup[s] EXCEPT !.stage = "idle", !.todo = {},
                                 !.current = NoRun, !.command = NoRun]
  <2>1. /\ q.state = sup[s].state /\ q.token = sup[s].token /\ ~q.stale
        /\ q.stage = "idle" /\ q.recovered = sup[s].recovered
    BY <1>1 DEF Sup
  <2>2. UNCHANGED <<lease, task>> /\ SetSup(s, q) /\ ~Reign(s)
    BY <1>12 DEF DriverFails, NoFaults, Reign
  <2> HIDE DEF q
  <2> QED
    BY <1>1, <2>1, <2>2, DriverMoveKeepsDriven
<1> QED
  BY <1>1, <1>3, <1>4, <1>5, <1>6, <1>7, <1>8, <1>9, <1>10, <1>11, <1>12,
     RenewalKeepsDriven DEF DriverStep

\* No step of another process takes a Run from the one that reigns.
LEMMA DriverLeavesOthersDriven ==
    ASSUME TypeInv, NEW s \in Supervisor, NEW t \in Supervisor \ {s}, Driven(t), DriverStep(s)
    PROVE  Driven(t)'
<1>1. sup \in [Supervisor -> Sup] /\ task \in [Supervisor -> [Run -> Task]]
      /\ lease.token \in Nat /\ KeepsAttempts(run, run')
  BY DriverKeepsAttempts DEF TypeInv, TypeOK
<1>2. sup'[t] = sup[t] /\ task'[t] = task[t]
  BY <1>1 DEF DriverStep, BeginRenew, RenewKeeps, RenewTakes, RenewRefused, BeginRecover,
              RecoverRun, EndRecover, BeginCancel, StopTasks, BeginCancelRun,
              CancelChildren, CancelRun, EndCancel, DriverFails, SetSup, YieldAll
<1>3. CASE RenewTakes(s)
  <2>1. lease'.owner # t /\ lease'.token = lease.token + 1
    BY <1>3 DEF RenewTakes
  <2> QED
    BY <1>1, <1>2, <2>1, OthersKeepDriven
<1>4. CASE RenewKeeps(s)
  <2>1. lease'.owner # t /\ lease'.token = lease.token
    BY <1>4 DEF RenewKeeps, TypeInv, TypeOK
  <2> QED
    BY <1>1, <1>2, <2>1, OthersKeepDriven
<1>5. CASE UNCHANGED lease
  BY <1>1, <1>2, <1>5, OthersKeepDriven
<1> QED
  BY <1>3, <1>4, <1>5
     DEF DriverStep, BeginRenew, RenewRefused, BeginRecover,
         RecoverRun, EndRecover, BeginCancel, StopTasks, BeginCancelRun,
         CancelChildren, CancelRun, EndCancel, DriverFails

LEMMA NextDriven ==
    ASSUME NoFaults, TypeInv, DrivenInv, [Next]_vars
    PROVE  DrivenInv'
<1>1. /\ sup \in [Supervisor -> Sup] /\ task \in [Supervisor -> [Run -> Task]]
      /\ lease.token \in Nat /\ \A s \in Supervisor : Driven(s)
  BY DEF TypeInv, TypeOK, DrivenInv
<1>2. ASSUME KeepsAttempts(run, run'), \A s \in Supervisor : Driven(s)'
      PROVE  DrivenInv'
  BY <1>2 DEF KeepsAttempts, DrivenInv
<1>3. ASSUME KeepsAttempts(run, run'), UNCHANGED <<lease, sup, task>>
      PROVE  DrivenInv'
  BY <1>1, <1>2, <1>3, OthersKeepDriven
<1>4. CASE UNCHANGED vars
  BY <1>3, <1>4 DEF vars, KeepsAttempts
<1>5. CASE Expire
  <2>1. KeepsAttempts(run, run') /\ UNCHANGED task
    BY <1>5 DEF Expire, KeepsAttempts
  <2>2. \A s \in Supervisor : sup'[s] = sup[s]
    <3>1. \A q \in Sup : ~q.stale => [q EXCEPT !.stale = FALSE] = q
      BY DEF Sup
    <3>2. ASSUME NEW s \in Supervisor
          PROVE  /\ sup[s] \in Sup /\ ~sup[s].stale
                 /\ sup'[s] = [sup[s] EXCEPT !.stale = FALSE]
      <4>1. /\ sup'[s] = [sup[s] EXCEPT !.stale = (sup[s].stage = "renewing")]
            /\ sup[s].stage # "renewing" /\ sup[s] \in Sup /\ ~sup[s].stale
        BY <1>1, <1>5 DEF Expire, Driven
      <4>2. (sup[s].stage = "renewing") = FALSE
        BY <4>1
      <4> QED
        BY <4>1, <4>2
    <3> QED
      BY <3>1, <3>2
  <2>3. ~lease'.live /\ lease'.owner = lease.owner /\ lease'.token = lease.token
    BY <1>5 DEF Expire, TypeInv, TypeOK
  <2> QED
    BY <1>1, <1>2, <2>1, <2>2, <2>3, OthersKeepDriven
<1>6. ASSUME NEW sweep \in Sweep, RequestSessionCancel(sweep)
      PROVE  DrivenInv'
  BY <1>3, <1>6, MarkKeepsAttempts DEF RequestSessionCancel, TypeInv, TypeOK, Rows
<1>7. ASSUME NEW r \in Run, Request(r)
      PROVE  DrivenInv'
  <2>1. UNCHANGED <<lease, sup, task>>
    BY <1>7 DEF Request, EnqueueRun, RequestInterrupt, RequestChildCancel, Resolve
  <2> QED
    BY <1>3, <1>7, <2>1, RequestsKeepAttempts
<1>8. ASSUME NEW s \in Supervisor, DriverStep(s)
      PROVE  DrivenInv'
  BY <1>1, <1>2, <1>8, DriverKeepsAttempts, DriverKeepsDriven, DriverLeavesOthersDriven
<1>9. ASSUME NEW s \in Supervisor, NEW r \in Run, TaskStep(s, r)
      PROVE  DrivenInv'
  <2>1. KeepsAttempts(run, run')
    BY <1>9, TasksKeepAttempts
  <2>2. \A t \in Supervisor \ {s} : task'[t] = task[t]
    BY <1>1, <1>9 DEF TaskStep, BuildContext, Reconcile, StartCall, CreateChild,
       CallReturns, CompleteCall, CallFails, Finish, FinishWaiting, Raise, AskChildren,
       FailRun, WaitForToolRecovery, TaskEnds, AbortCall, YieldTask, Goto, SetTask
  <2>3. UNCHANGED <<sup, lease>>
    BY <1>9 DEF TaskStep, BuildContext, Reconcile, StartCall, CreateChild,
       CallReturns, CompleteCall, CallFails, Finish, FinishWaiting, Raise, AskChildren,
       FailRun, WaitForToolRecovery, TaskEnds, AbortCall, YieldTask
  <2>4. ASSUME NEW t \in Supervisor \ {s}
        PROVE  Driven(t)'
    BY <1>1, <2>1, <2>2, <2>3, OthersKeepDriven
  <2> QED
    BY <1>1, <1>2, <1>9, <2>1, <2>4, TasksKeepDriven
<1>10. ASSUME NEW s \in Supervisor, NEW r \in Run, Claim(s, r)
       PROVE  DrivenInv'
  <2>1. /\ Leads(s) /\ UNCHANGED <<sup, lease>> /\ run \in Rows
        /\ \A t \in Supervisor \ {s} : task'[t] = task[t]
    BY <1>1, <1>10 DEF Claim, SetTask, TypeInv, TypeOK, Rows
  <2>2. /\ run'[r].attempt.running
        /\ \A q \in Run \ {r} : run'[q] = run[q]
    BY <1>10, <2>1 DEF Claim, SetRun, Rows, RunRow
  <2>3. ASSUME NEW t \in Supervisor \ {s}
        PROVE  Driven(t)'
    <3>1. ~Leads(t) /\ ~Leads(t)' /\ (Canceling(t)' <=> Canceling(t))
      BY <2>1, OneLeader DEF Leads, Canceling
    <3> QED
      BY <1>1, <2>1, <3>1 DEF Driven, Reign
  <2>4. \A q \in Run : run'[q].status = "running" => run'[q].attempt.running
    BY <2>2 DEF DrivenInv
  <2> QED
    BY <1>1, <1>10, <2>3, <2>4, ClaimKeepsDriven DEF DrivenInv
<1>11. ASSUME NEW s \in Supervisor, Shutdown(s) \/ Exit(s)
       PROVE  DrivenInv'
  <2>1. PICK state \in {"stopping", "down"}, n \in Nat : StopDriver(s, state, n)
    BY <1>1, <1>11 DEF Shutdown, Exit, Sup
  <2>2. UNCHANGED run /\ KeepsAttempts(run, run')
    BY <1>11 DEF Shutdown, Exit, KeepsAttempts
  <2>3. \A t \in Supervisor \ {s} : sup'[t] = sup[t] /\ task'[t] = task[t]
    BY <1>1, <1>11, <2>1 DEF StopDriver, SetSup, Shutdown, Exit, YieldAll
  <2>4. /\ lease'.token = lease.token /\ lease'.live = lease.live
        /\ lease' = lease \/ lease'.owner = Nobody
    BY <1>11 DEF Shutdown, Exit, TypeInv, TypeOK
  <2>5. \A t \in Supervisor \ {s} : Driven(t)'
    BY <1>1, <2>2, <2>3, <2>4, OthersKeepDriven, SupervisorAssumption
  <2>6. /\ sup'[s].state = state /\ sup'[s].stage = "idle"
        /\ sup'[s].recovered = sup[s].recovered /\ sup'[s].token = sup[s].token
        /\ sup'[s].stale = sup[s].stale
    BY <1>1, <2>1 DEF StopDriver, SetSup, Sup
  <2>7. state = "down" => lease'.owner # s
    <3>1. CASE Exit(s)
      BY <3>1, SupervisorAssumption DEF Exit, TypeInv, TypeOK
    <3>2. CASE Shutdown(s)
      <4>1. sup'[s].state = "stopping"
        BY <1>1, <3>2 DEF Shutdown, StopDriver, SetSup, Sup
      <4> QED
        BY <2>6, <4>1
    <3> QED
      BY <1>11, <3>1, <3>2
  <2>8. Driven(s)'
    <3>1. ~Reign(s)' /\ ~Canceling(s)'
      BY <2>6 DEF Reign, Canceling
    <3>2. lease'.owner = s => lease.owner = s
      BY <2>4, SupervisorAssumption
    <3> QED
      BY <1>1, <2>2, <2>4, <2>6, <2>7, <3>1, <3>2 DEF Driven
  <2> QED
    BY <1>2, <2>2, <2>5, <2>8
<1>12. ASSUME NEW s \in Supervisor, Restart(s)
       PROVE  DrivenInv'
  <2>1. UNCHANGED <<run, lease, task>> /\ KeepsAttempts(run, run')
    BY <1>12 DEF Restart, KeepsAttempts
  <2>2. \A t \in Supervisor \ {s} : sup'[t] = sup[t]
    BY <1>1, <1>12 DEF Restart, SetSup
  <2>3. \A t \in Supervisor \ {s} : Driven(t)'
    BY <1>1, <2>1, <2>2, OthersKeepDriven
  <2>4. /\ sup'[s].state = "up" /\ sup'[s].stage = "idle" /\ sup'[s].recovered = 0
        /\ sup'[s].token = 0 /\ ~sup'[s].stale
    BY <1>1, <1>12 DEF Restart, SetSup, Fresh
  <2>5. lease.owner # s
    BY <1>1, <1>12 DEF Driven, Restart
  <2>6. Driven(s)'
    <3>1. ~Leads(s)' /\ ~Reign(s)' /\ ~Canceling(s)'
      BY <2>1, <2>4, <2>5 DEF Leads, Reign, Canceling
    <3> QED
      BY <1>1, <2>1, <2>4, <2>5, <3>1 DEF Driven
  <2> QED
    BY <1>2, <2>1, <2>3, <2>6
<1> QED
  BY <1>4, <1>5, <1>6, <1>7, <1>8, <1>9, <1>10, <1>11, <1>12 DEF Next

\* Without database errors and stale renewals, no RUNNING Run is left without a task
\* in the process that has recovered and holds the lease, for any number of
\* processes, takeovers, crashes, restarts and cancellations: a new token always means a new
\* recovery (supervisor.py, _renew_lease and _recover_interrupted_attempts).
THEOREM RunningRunIsDrivenAlways ==
    ASSUME Faults = {}
    PROVE  Spec => []RunningRunIsDriven
<1>1. Init => DrivenInv
  BY SupervisorAssumption, StageNames
     DEF Init, Fresh, DrivenInv, Driven, Leads, Reign, Canceling, NoTask
<1>2. TypeInv /\ DrivenInv /\ [Next]_vars => DrivenInv'
  BY NextDriven DEF NoFaults
<1>3. DrivenInv => RunningRunIsDriven
  BY DEF DrivenInv, Driven, RunningRunIsDriven, Ready, Idle, Reign, Canceling
<1>4. WaitInv => TypeInv
  BY DEF WaitInv, WorkInv
<1> QED
  BY <1>1, <1>2, <1>3, <1>4, WaitInvariant, PTL DEF Spec

=============================================================================
