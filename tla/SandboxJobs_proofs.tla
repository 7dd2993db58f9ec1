------------------------- MODULE SandboxJobs_proofs -------------------------
(***************************************************************************)
(* Proofs about SandboxJobs, for any number of commands and acquisitions   *)
(* and under every fault: type correctness, that no settled command is     *)
(* settled again, that a batch is delivered as a whole, and that no        *)
(* command runs that its Run does not wait for or that was not cancelled.  *)
(***************************************************************************)
EXTENDS SandboxJobs, TLAPS

Rows == [Job -> JobRow]

-----------------------------------------------------------------------------
(* The helpers keep to the types.                                          *)

LEMMA StatusNames ==
    /\ {"absent", "queued", "running"} \subseteq JobStatus
    /\ Settled \subseteq JobStatus
    /\ {"completed", "failed", "canceled", "recovery_required"} \subseteq Settled
    /\ {"queued", "running", "waiting", "suspended", "resumed", "ended"} \subseteq RunStatus
BY DEF JobStatus, Settled, RunStatus

LEMMA PhaseNames ==
    /\ "none" \in Phase /\ "starting" \in Phase /\ "launching" \in Phase
    /\ "executing" \in Phase /\ "returned" \in Phase /\ "killing" \in Phase
    /\ "aborting" \in Phase /\ "failing" \in Phase
BY DEF Phase

LEMMA StageNames ==
    /\ "out" \in Stage /\ "acquired" \in Stage /\ "recovering" \in Stage
    /\ "killing" \in Stage /\ "marking" \in Stage /\ "serving" \in Stage
    /\ "canceling" \in Stage /\ "stopping" \in Stage /\ "done" \in Stage
BY DEF Stage

LEMMA SettleRows ==
    ASSUME job \in Rows, NEW J, NEW status \in JobStatus
    PROVE  Settle(J, status) \in Rows
BY DEF Settle, Rows, JobRow

LEMMA DiscardRows ==
    ASSUME job \in Rows
    PROVE  Discard \in Rows
BY DEF Discard, Rows, JobRow

LEMMA RequestCancellationRows ==
    ASSUME job \in Rows, NEW J
    PROVE  RequestCancellation(J) \in Rows
<1>1. SUFFICES ASSUME NEW j \in Job
               PROVE  RequestCancellation(J)[j] \in JobRow
  BY DEF RequestCancellation, Rows
<1>2. job[j] \in JobRow
  BY DEF Rows
<1>3. /\ [job[j] EXCEPT !.cancel = TRUE, !.status = "canceled"] \in JobRow
      /\ [job[j] EXCEPT !.cancel = TRUE] \in JobRow
  BY <1>2, StatusNames DEF JobRow
<1> QED
  BY <1>2, <1>3 DEF RequestCancellation

LEMMA QueueContinuationTypes ==
    ASSUME TypeOK, NEW rows \in Rows, QueueContinuation(rows)
    PROVE  job' \in Rows /\ run' \in RunRow
<1>1. job' \in Rows
  BY DEF QueueContinuation, Rows, JobRow
<1>2. run' \in RunRow
  BY StatusNames DEF QueueContinuation, TypeOK, RunRow
<1> QED
  BY <1>1, <1>2

LEMMA FinishOwnedRows ==
    ASSUME job \in Rows, NEW o, NEW j, NEW status \in Settled, FinishOwned(o, j, status)
    PROVE  job' \in Rows
BY SettleRows, StatusNames DEF FinishOwned

LEMMA SetDriverType ==
    ASSUME TypeOK, NEW o \in Owner, NEW d \in Driver, SetDriver(o, d)
    PROVE  driver' \in [Owner -> Driver]
BY DEF SetDriver, TypeOK

LEMMA EnterType ==
    ASSUME TypeOK, NEW o \in Owner, NEW stage \in Stage, Enter(o, stage)
    PROVE  driver' \in [Owner -> Driver]
<1>0. driver[o] \in Driver
  BY DEF TypeOK
<1>1. [driver[o] EXCEPT !.stage = stage, !.todo = {}] \in Driver
  BY <1>0 DEF Driver
<1> QED
  BY <1>1, SetDriverType DEF Enter

LEMMA CanceledType ==
    ASSUME TypeOK, NEW J
    PROVE  Canceled(J) \in [Job -> Phase]
BY PhaseNames DEF Canceled, TypeOK

-----------------------------------------------------------------------------
(* Every action keeps to the types.                                        *)

LEMMA InitType == Init => TypeOK
BY JobAssumption, StatusNames, PhaseNames, StageNames
   DEF Init, TypeOK, RunRow, JobRow, Driver

LEMMA RunStepType ==
    ASSUME TypeOK, RunStep
    PROVE  TypeOK'
<1> USE DEF TypeOK
<1>0. job \in Rows
  BY DEF Rows
<1>1. CASE StartAttempt
  <2>1. PICK w \in 0..run.attempt :
              run' = [run EXCEPT !.status = "running", !.attempt = @ + 1, !.wait = w]
    BY <1>1 DEF StartAttempt
  <2>2. run.attempt \in Nat /\ run.attempt + 1 \in Nat /\ w \in Nat /\ run.ending \in BOOLEAN
    BY DEF RunRow
  <2>3. "running" \in RunStatus
    BY StatusNames
  <2>4. run' = [status |-> "running", attempt |-> run.attempt + 1, wait |-> w,
                ending |-> run.ending]
    BY <2>1 DEF RunRow
  <2>5. run' \in RunRow
    BY <2>2, <2>3, <2>4 DEF RunRow
  <2> QED
    BY <1>1, <2>5 DEF StartAttempt, hostVars
<1>2. CASE FinishAttempt
  BY <1>0, <1>2, StatusNames, DiscardRows DEF FinishAttempt, hostVars, RunRow, Rows
<1>3. CASE InterruptAttempt
  BY <1>3, StatusNames DEF InterruptAttempt, hostVars, RunRow
<1>4. CASE CancelRunJobs
  BY <1>0, <1>4, RequestCancellationRows DEF CancelRunJobs, hostVars, RunRow, Rows
<1>5. CASE EndRun
  <2>1. PICK status \in {"ended", "suspended"} :
              run' = [run EXCEPT !.status = status, !.wait = 0, !.ending = FALSE]
    BY <1>5 DEF EndRun
  <2>2. run' \in RunRow
    BY <2>1, StatusNames DEF RunRow
  <2> QED
    BY <1>0, <1>5, <2>2, DiscardRows DEF EndRun, hostVars, Rows
<1>6. CASE AbandonEnding
  BY <1>6 DEF AbandonEnding, hostVars, RunRow
<1>7. CASE ResumeRun
  BY <1>7, StatusNames DEF ResumeRun, hostVars, RunRow
<1>8. ASSUME NEW j \in Job, CreateJob(j)
      PROVE  TypeOK'
  <2>a. job[j] \in JobRow /\ run.attempt \in Nat /\ "queued" \in JobStatus
    BY StatusNames DEF RunRow
  <2>0. [job[j] EXCEPT !.status = "queued", !.attempt = run.attempt] \in JobRow
    BY <2>a DEF JobRow
  <2>1. job' \in [Job -> JobRow]
    BY <1>8, <2>0 DEF CreateJob, MayDispatch
  <2>2. run' \in RunRow
    BY <1>8 DEF CreateJob, MayDispatch, RunRow
  <2> QED
    BY <1>8, <2>1, <2>2 DEF CreateJob, MayDispatch, hostVars
<1>9. ASSUME NEW j \in Job, CancelJob(j)
      PROVE  TypeOK'
  BY <1>0, <1>9, RequestCancellationRows DEF CancelJob, hostVars, Rows
<1>10. ASSUME NEW j \in Job, ResolveJob(j)
       PROVE  TypeOK'
  <2>1. Settle({j}, "failed") \in Rows
    BY <1>0, SettleRows, StatusNames
  <2>2. job' \in Rows /\ run' \in RunRow
    BY <1>10, <2>1, QueueContinuationTypes DEF ResolveJob
  <2> QED
    BY <1>10, <2>2 DEF ResolveJob, hostVars, Rows
<1> QED
  BY <1>1, <1>2, <1>3, <1>4, <1>5, <1>6, <1>7, <1>8, <1>9, <1>10 DEF RunStep

LEMMA HostStepType ==
    ASSUME TypeOK, HostStep
    PROVE  TypeOK'
<1> USE DEF TypeOK
<1>1. CASE ContainerStops
  BY <1>1 DEF ContainerStops
<1>2. CASE ContainerStarts
  BY <1>2 DEF ContainerStarts
<1>3. CASE ObserveStatus
  BY <1>3 DEF ObserveStatus
<1>4. CASE InspectFails
  BY <1>4 DEF InspectFails
<1>5. ASSUME NEW j \in Job, CommandEnds(j) \/ LateLaunch(j)
      PROVE  TypeOK'
  BY <1>5 DEF CommandEnds, LateLaunch
<1> QED
  BY <1>1, <1>2, <1>3, <1>4, <1>5 DEF HostStep

LEMMA TaskStepType ==
    ASSUME TypeOK, NEW j \in Job, TaskStep(j)
    PROVE  TypeOK'
<1> USE DEF TypeOK
<1>0. job \in Rows
  BY DEF Rows
<1>1. CASE StartTask(j)
  BY <1>1, PhaseNames DEF StartTask
<1>2. CASE Launch(j)
  BY <1>2, PhaseNames DEF Launch
<1>3. CASE CommandReturns(j)
  BY <1>3, PhaseNames DEF CommandReturns, hostVars
<1>4. CASE Timeout(j)
  BY <1>4, PhaseNames DEF Timeout, hostVars
<1>5. CASE Kill(j)
  <2>1. /\ command' \in [Job -> {"none", "alive", "ended"}]
        /\ task' \in [Job -> Phase]
    BY <1>5, PhaseNames DEF Kill, Terminated, HasMarker
  <2>2. late' \subseteq Job
    BY <1>5 DEF Kill, Terminated, HasMarker
  <2> QED
    BY <1>5, <2>1, <2>2 DEF Kill, Terminated, HasMarker
<1>6. CASE FinishTask(j)
  <2>1. job' \in Rows
    BY <1>0, <1>6, FinishOwnedRows, StatusNames DEF FinishTask
  <2> QED
    BY <1>6, <2>1, PhaseNames DEF FinishTask, hostVars, Rows
<1> QED
  BY <1>1, <1>2, <1>3, <1>4, <1>5, <1>6 DEF TaskStep

LEMMA RecoveryStepType ==
    ASSUME TypeOK, NEW o \in Owner, RecoveryStep(o)
    PROVE  TypeOK'
<1>0. driver[o] \in Driver /\ job \in Rows
  BY DEF TypeOK, Rows
<1>1. CASE ListStale(o)
  <2> DEFINE d == [driver[o] EXCEPT !.stage = "recovering",
                     !.todo = {j \in Job : job[j].status = "running" /\ job[j].owner # o}]
  <2>1. d \in Driver /\ SetDriver(o, d)
    BY <1>0, <1>1, StageNames DEF ListStale, Driver
  <2>2. driver' \in [Owner -> Driver]
    BY <2>1, SetDriverType
  <2> QED
    BY <1>1, <2>2 DEF ListStale, TypeOK, hostVars
<1>2. ASSUME NEW j \in Job, CheckBinding(o, j)
      PROVE  TypeOK'
  <2> DEFINE d == [driver[o] EXCEPT !.stage = IF Current THEN "killing" ELSE "marking",
                                    !.current = j, !.verdict = "failed"]
  <2>1. d \in Driver /\ SetDriver(o, d)
    BY <1>0, <1>2, StageNames DEF CheckBinding, Driver
  <2>2. driver' \in [Owner -> Driver]
    BY <2>1, SetDriverType
  <2> QED
    BY <1>2, <2>2 DEF CheckBinding, TypeOK, hostVars
<1>3. CASE KillStale(o)
  <2>1. /\ [driver[o] EXCEPT !.stage = "marking"] \in Driver
        /\ [driver[o] EXCEPT !.stage = "marking", !.verdict = "recovery_required"] \in Driver
    BY <1>0, StageNames DEF Driver
  <2>2. driver' \in [Owner -> Driver]
    BY <1>3, <2>1, SetDriverType DEF KillStale, Terminated, HasMarker
  <2> QED
    BY <1>3, <2>2 DEF KillStale, Terminated, HasMarker, TypeOK
<1>4. CASE MarkStale(o)
  <2> DEFINE d == [driver[o] EXCEPT !.stage = "recovering",
                     !.todo = @ \ {driver[o].current}, !.current = NoJob]
  <2>1. d \in Driver /\ SetDriver(o, d)
    BY <1>0, <1>4, StageNames DEF MarkStale, Driver
  <2>2. driver' \in [Owner -> Driver]
    BY <2>1, SetDriverType
  <2>3. driver[o].verdict \in JobStatus
    BY <1>0, StatusNames DEF Driver
  <2>4. job' \in Rows
    BY <1>0, <1>4, <2>3, SettleRows DEF MarkStale
  <2> QED
    BY <1>4, <2>2, <2>4 DEF MarkStale, TypeOK, hostVars, Rows
<1>5. CASE EndRecovery(o) \/ RecoveryFails(o)
  <2>1. driver' \in [Owner -> Driver]
    BY <1>5, EnterType, StageNames DEF EndRecovery, RecoveryFails
  <2> QED
    BY <1>5, <2>1 DEF EndRecovery, RecoveryFails, TypeOK, hostVars
<1> QED
  BY <1>1, <1>2, <1>3, <1>4, <1>5 DEF RecoveryStep

LEMMA CancelStepType ==
    ASSUME TypeOK, NEW o \in Owner, CancelStep(o)
    PROVE  TypeOK'
<1>0. driver[o] \in Driver /\ job \in Rows
  BY DEF TypeOK, Rows
<1>1. CASE BeginCancels(o)
  <2> DEFINE J == {j \in Job : RowIsOwned(o, j) /\ job[j].cancel}
             d == [driver[o] EXCEPT !.stage = "canceling", !.todo = J]
  <2>1. d \in Driver /\ SetDriver(o, d)
    BY <1>0, <1>1, StageNames DEF BeginCancels, Driver
  <2>2. driver' \in [Owner -> Driver]
    BY <2>1, SetDriverType
  <2>3. task' \in [Job -> Phase]
    BY <1>1, CanceledType DEF BeginCancels
  <2> QED
    BY <1>1, <2>2, <2>3 DEF BeginCancels, TypeOK, hostVars
<1>2. ASSUME NEW j \in Job, FinishCanceled(o, j)
      PROVE  TypeOK'
  <2>1. [driver[o] EXCEPT !.todo = @ \ {j}] \in Driver
    BY <1>0 DEF Driver
  <2>2. driver' \in [Owner -> Driver]
    BY <1>2, <2>1, SetDriverType DEF FinishCanceled
  <2>3. job' \in Rows
    BY <1>0, <1>2, FinishOwnedRows, StatusNames DEF FinishCanceled
  <2> QED
    BY <1>2, <2>2, <2>3 DEF FinishCanceled, TypeOK, hostVars, Rows
<1>3. CASE EndCancels(o)
  <2>1. driver' \in [Owner -> Driver]
    BY <1>3, EnterType, StageNames DEF EndCancels
  <2> QED
    BY <1>3, <2>1 DEF EndCancels, TypeOK, hostVars
<1> QED
  BY <1>1, <1>2, <1>3 DEF CancelStep

LEMMA StopType ==
    ASSUME TypeOK, NEW o \in Owner, NEW J \in SUBSET Job, Stop(o, J)
    PROVE  task' \in [Job -> Phase] /\ driver' \in [Owner -> Driver]
<1>0. driver[o] \in Driver /\ "stopping" \in Stage
  BY StageNames DEF TypeOK
<1>1. [driver[o] EXCEPT !.stage = "stopping", !.todo = J] \in Driver
  BY <1>0 DEF Driver
<1> QED
  BY <1>1, SetDriverType, CanceledType DEF Stop

LEMMA StopStepType ==
    ASSUME TypeOK, NEW o \in Owner, StopStep(o)
    PROVE  TypeOK'
<1>0. driver[o] \in Driver /\ job \in Rows
  BY DEF TypeOK, Rows
<1>1. ASSUME NEW j \in Job, FinishStopped(o, j)
      PROVE  TypeOK'
  <2>1. [driver[o] EXCEPT !.todo = @ \ {j}] \in Driver
    BY <1>0 DEF Driver
  <2>2. driver' \in [Owner -> Driver]
    BY <1>1, <2>1, SetDriverType DEF FinishStopped
  <2>3. job' \in Rows
    BY <1>0, <1>1, FinishOwnedRows, StatusNames DEF FinishStopped
  <2> QED
    BY <1>1, <2>2, <2>3 DEF FinishStopped, TypeOK, hostVars, Rows
<1>2. CASE EndStop(o)
  <2>1. driver' \in [Owner -> Driver]
    BY <1>2, EnterType, StageNames DEF EndStop
  <2> QED
    BY <1>2, <2>1 DEF EndStop, TypeOK, hostVars
<1> QED
  BY <1>1, <1>2 DEF StopStep

LEMMA ClaimedRow ==
    ASSUME job \in Rows, NEW o \in Owner, NEW j \in Job
    PROVE  [job[j] EXCEPT !.status = "running", !.owner = o] \in JobRow
BY StatusNames DEF Rows, JobRow

LEMMA ServiceType ==
    ASSUME TypeOK, NEW o \in Owner,
           CancelOrphaned(o) \/ FailUnavailable(o) \/ ResumeWaiting(o) \/ ClaimJobs(o)
    PROVE  TypeOK'
<1>0. job \in Rows
  BY DEF TypeOK, Rows
<1>1. CASE CancelOrphaned(o)
  BY <1>0, <1>1, SettleRows, StatusNames DEF CancelOrphaned, TypeOK, hostVars, Rows
<1>2. CASE FailUnavailable(o)
  BY <1>0, <1>2, SettleRows, StatusNames DEF FailUnavailable, TypeOK, hostVars, Rows
<1>3. CASE ResumeWaiting(o)
  BY <1>0, <1>3, QueueContinuationTypes DEF ResumeWaiting, TypeOK, hostVars, Rows
<1>4. CASE ClaimJobs(o)
  <2>0. PICK J \in SUBSET Claimable :
              job' = [j \in Job |-> IF j \in J
                        THEN [job[j] EXCEPT !.status = "running", !.owner = o]
                        ELSE job[j]]
    BY <1>4 DEF ClaimJobs
  <2>1. job' \in Rows
    <3>1. \A j \in Job : job[j] \in JobRow
      BY <1>0 DEF Rows
    <3>2. \A j \in Job : [job[j] EXCEPT !.status = "running", !.owner = o] \in JobRow
      BY <1>0, ClaimedRow
    <3> QED
      BY <2>0, <3>1, <3>2 DEF Rows
  <2>2. task' \in [Job -> Phase]
    BY <1>4, PhaseNames DEF ClaimJobs, TypeOK
  <2> QED
    BY <1>4, <2>1, <2>2 DEF ClaimJobs, TypeOK, hostVars, Rows
<1> QED
  BY <1>1, <1>2, <1>3, <1>4

LEMMA DriverStepType ==
    ASSUME TypeOK, NEW o \in Owner, DriverStep(o)
    PROVE  TypeOK'
<1>1. CASE Acquire(o)
  <2>1. driver' \in [Owner -> Driver]
    BY <1>1, EnterType, StageNames DEF Acquire
  <2> QED
    BY <1>1, <2>1 DEF Acquire, TypeOK, hostVars
<1>2. CASE ClaimFails(o)
  <2>1. task' \in [Job -> Phase] /\ driver' \in [Owner -> Driver]
    BY <1>2, StopType DEF ClaimFails, Tasks
  <2>2. job' \in [Job -> JobRow]
    BY <1>2, ClaimedRow DEF ClaimFails, TypeOK, Rows
  <2> QED
    BY <1>2, <2>1, <2>2 DEF ClaimFails, TypeOK, hostVars
<1>3. CASE BeginStop(o)
  <2>1. task' \in [Job -> Phase] /\ driver' \in [Owner -> Driver]
    BY <1>3, StopType DEF BeginStop, Tasks
  <2> QED
    BY <1>3, <2>1 DEF BeginStop, TypeOK, hostVars
<1>4. CASE Crash(o)
  <2>1. driver' \in [Owner -> Driver]
    BY <1>4, EnterType, StageNames DEF Crash
  <2> QED
    BY <1>4, <2>1, PhaseNames DEF Crash, TypeOK
<1> QED
  BY <1>1, <1>2, <1>3, <1>4, RecoveryStepType, CancelStepType, StopStepType, ServiceType
     DEF DriverStep

LEMMA NextType ==
    ASSUME TypeOK, [Next]_vars
    PROVE  TypeOK'
<1>1. CASE UNCHANGED vars
  BY <1>1 DEF vars, TypeOK
<1> QED
  BY <1>1, RunStepType, HostStepType, TaskStepType, DriverStepType DEF Next

\* Rows, tasks, drivers and the container keep their types, for any number of
\* commands and acquisitions, whatever fails.
THEOREM TypeCorrect == Spec => []TypeOK
<1>1. Init => TypeOK
  BY InitType
<1>2. TypeOK /\ [Next]_vars => TypeOK'
  BY NextType
<1> QED
  BY <1>1, <1>2, PTL DEF Spec

-----------------------------------------------------------------------------
(* What a step may do to the row of a command.                             *)

Moves(r, s) ==
    \/ s.status = r.status
    \/ r.status # "absent" /\ s.status # "absent" /\ s.status \in Transitions[r.status]

\* The row keeps its Attempt and its disposition, and follows the table.
RowStep(r, s) == s.attempt = r.attempt /\ s.disposition = r.disposition /\ Moves(r, s)

RowsStep == \A j \in Job : RowStep(job[j], job'[j])

\* Every command that is owed is marked, and no row changes otherwise.
Marked(J, how) ==
    \A j \in Job : /\ job'[j].attempt = job[j].attempt
                   /\ job'[j].disposition = IF j \in J THEN how ELSE job[j].disposition
                   /\ Moves(job[j], job'[j])

Delivers ==
    /\ AwaitsJobs /\ Batch # {}
    /\ Marked(Batch, "delivered")
    /\ \A j \in Batch : job'[j].status \in Deliverable
    /\ run'.status = "queued" /\ run'.attempt = run.attempt

Discards ==
    /\ Marked(Undelivered, "discarded")
    /\ run'.status # "running" /\ run'.attempt = run.attempt

Starts == /\ \A j \in Job : RowStep(job[j], job'[j])
          /\ run'.attempt = run.attempt + 1

Keeps == /\ RowsStep
         /\ run'.attempt = run.attempt
         /\ run'.status = "running" => run.status = "running"

LEMMA SameRows ==
    ASSUME job' = job
    PROVE  RowsStep
BY DEF RowsStep, RowStep, Moves

LEMMA SettleSteps ==
    ASSUME job \in Rows, NEW J, NEW status \in Settled, job' = Settle(J, status),
           \A j \in Job \cap J : \/ job[j].status = "running"
                                 \/ job[j].status = "queued" /\ status \in {"failed", "canceled"}
    PROVE  RowsStep
<1>1. SUFFICES ASSUME NEW j \in Job
               PROVE  RowStep(job[j], job'[j])
  BY DEF RowsStep
<1>2. job[j] \in JobRow
  BY DEF Rows
<1>3. CASE j \notin J
  BY <1>2, <1>3 DEF Settle, RowStep, Moves
<1>4. CASE j \in J
  <2>1. job'[j] = [job[j] EXCEPT !.status = status]
    BY <1>4 DEF Settle
  <2>2. /\ job'[j].status = status
        /\ job'[j].attempt = job[j].attempt /\ job'[j].disposition = job[j].disposition
    BY <1>2, <2>1 DEF JobRow
  <2>3. status # "absent"
    BY DEF Settled
  <2> QED
    BY <1>4, <2>2, <2>3 DEF RowStep, Moves, Transitions
<1> QED
  BY <1>3, <1>4

LEMMA CancelSteps ==
    ASSUME job \in Rows, NEW J, job' = RequestCancellation(J)
    PROVE  RowsStep
<1>1. SUFFICES ASSUME NEW j \in Job
               PROVE  RowStep(job[j], job'[j])
  BY DEF RowsStep
<1>2. job[j] \in JobRow
  BY DEF Rows
<1>3. CASE j \in J /\ job[j].status = "queued"
  <2>1. job'[j] = [job[j] EXCEPT !.cancel = TRUE, !.status = "canceled"]
    BY <1>3 DEF RequestCancellation
  <2> QED
    BY <1>2, <1>3, <2>1 DEF RowStep, Moves, Transitions, JobRow
<1>4. CASE j \in J /\ job[j].status = "running"
  <2>1. job'[j] = [job[j] EXCEPT !.cancel = TRUE]
    BY <1>4 DEF RequestCancellation
  <2> QED
    BY <1>2, <2>1 DEF RowStep, Moves, JobRow
<1>5. CASE ~(j \in J /\ job[j].status \in {"queued", "running"})
  BY <1>5 DEF RequestCancellation, RowStep, Moves
<1> QED
  BY <1>3, <1>4, <1>5

LEMMA FinishOwnedSteps ==
    ASSUME job \in Rows, NEW o, NEW j \in Job, NEW status \in Settled, FinishOwned(o, j, status)
    PROVE  RowsStep
<1>1. CASE RowIsOwned(o, j)
  BY <1>1, SettleSteps DEF FinishOwned, RowIsOwned
<1>2. CASE ~RowIsOwned(o, j)
  BY <1>2, SameRows DEF FinishOwned
<1> QED
  BY <1>1, <1>2

\* ClaimJobs and ClaimFails
LEMMA ClaimSteps ==
    ASSUME job \in Rows, NEW o, NEW J \in SUBSET Claimable,
           job' = [j \in Job |-> IF j \in J
                      THEN [job[j] EXCEPT !.status = "running", !.owner = o] ELSE job[j]]
    PROVE  RowsStep
<1>1. SUFFICES ASSUME NEW j \in Job
               PROVE  RowStep(job[j], job'[j])
  BY DEF RowsStep
<1>2. job[j] \in JobRow
  BY DEF Rows
<1>3. CASE j \in J
  <2>1. job'[j] = [job[j] EXCEPT !.status = "running", !.owner = o]
    BY <1>3
  <2>2. job[j].status = "queued"
    BY <1>3 DEF Claimable
  <2>3. job'[j].status = "running"
    BY <1>2, <2>1 DEF JobRow
  <2>4. job'[j].attempt = job[j].attempt
    BY <1>2, <2>1 DEF JobRow
  <2>5. job'[j].disposition = job[j].disposition
    BY <1>2, <2>1 DEF JobRow
  <2>6. "running" \in Transitions["queued"]
    BY DEF Transitions
  <2>7. Moves(job[j], job'[j])
    BY <2>2, <2>3, <2>6 DEF Moves
  <2> QED
    BY <2>4, <2>5, <2>7 DEF RowStep
<1>4. CASE j \notin J
  BY <1>4 DEF RowStep, Moves
<1> QED
  BY <1>3, <1>4

LEMMA DiscardMarks ==
    ASSUME job \in Rows, job' = Discard
    PROVE  Marked(Undelivered, "discarded")
<1>1. ASSUME NEW j \in Job
      PROVE  /\ job'[j].attempt = job[j].attempt /\ job'[j].status = job[j].status
             /\ job'[j].disposition = IF j \in Undelivered THEN "discarded"
                                      ELSE job[j].disposition
  <2>1. job[j] \in JobRow
    BY DEF Rows
  <2> QED
    BY <2>1 DEF Discard, JobRow
<1> QED
  BY <1>1 DEF Marked, Moves

LEMMA QueueContinuationDelivers ==
    ASSUME TypeOK, NEW rows \in Rows, QueueContinuation(rows),
           AwaitsJobs, Batch # {}, \A j \in Batch : rows[j].status \in Deliverable,
           \A j \in Job : RowStep(job[j], rows[j])
    PROVE  Delivers
<1>1. ASSUME NEW j \in Job
      PROVE  /\ job'[j].attempt = rows[j].attempt /\ job'[j].status = rows[j].status
             /\ job'[j].disposition = IF j \in Batch THEN "delivered"
                                      ELSE rows[j].disposition
  <2>1. rows[j] \in JobRow
    BY DEF Rows
  <2> QED
    BY <2>1 DEF QueueContinuation, JobRow
<1>2. Marked(Batch, "delivered")
  BY <1>1 DEF Marked, Moves, RowStep
<1>3. run'.status = "queued" /\ run'.attempt = run.attempt
  BY DEF QueueContinuation, TypeOK, RunRow
<1>4. \A j \in Batch : job'[j].status \in Deliverable
  BY <1>1 DEF Batch, Undelivered
<1> QED
  BY <1>2, <1>3, <1>4 DEF Delivers

LEMMA QuietSteps ==
    ASSUME run' = run, RowsStep
    PROVE  Keeps
BY DEF Keeps

\* Every step starts an Attempt, creates a command, delivers a batch, discards what
\* is owed, or leaves Attempts and dispositions alone; and every one of them but
\* the creation of a command follows the table.
LEMMA StepKinds ==
    ASSUME TypeOK, [Next]_vars
    PROVE  Keeps \/ Starts \/ Delivers \/ Discards \/ \E j \in Job : CreateJob(j)
<1>0. /\ job \in Rows /\ run \in RunRow
      /\ \A j \in Job : job[j] \in JobRow
  BY DEF TypeOK, Rows
<1>1. CASE run' = run /\ job' = job
  BY <1>1, SameRows, QuietSteps
<1>2. CASE RunStep
  <2>1. CASE StartAttempt
    BY <1>0, <2>1, SameRows DEF StartAttempt, Starts, RowsStep, RunRow
  <2>2. CASE FinishAttempt
    <3>1. CASE job' = job /\ run' = [run EXCEPT !.status = "waiting"]
      BY <1>0, <3>1, SameRows DEF Keeps, RunRow
    <3>2. CASE job' = Discard /\ run' = [run EXCEPT !.status = "ended"]
      BY <1>0, <3>2, DiscardMarks DEF Discards, RunRow
    <3> QED
      BY <2>2, <3>1, <3>2 DEF FinishAttempt
  <2>3. CASE InterruptAttempt
    BY <1>0, <2>3, SameRows DEF InterruptAttempt, Keeps, RunRow
  <2>4. CASE CancelRunJobs
    BY <1>0, <2>4, CancelSteps DEF CancelRunJobs, Keeps, RunRow
  <2>5. CASE EndRun
    <3>1. PICK status \in {"ended", "suspended"} :
                run' = [run EXCEPT !.status = status, !.wait = 0, !.ending = FALSE]
      BY <2>5 DEF EndRun
    <3>2. run'.status # "running" /\ run'.attempt = run.attempt
      BY <1>0, <3>1 DEF RunRow
    <3> QED
      BY <1>0, <2>5, <3>2, DiscardMarks DEF EndRun, Discards
  <2>6. CASE AbandonEnding
    BY <1>0, <2>6, SameRows DEF AbandonEnding, Keeps, RunRow
  <2>7. CASE ResumeRun
    BY <1>0, <2>7, SameRows DEF ResumeRun, Keeps, RunRow
  <2>8. ASSUME NEW j \in Job, CancelJob(j)
        PROVE  Keeps
    BY <1>0, <2>8, CancelSteps, QuietSteps DEF CancelJob
  <2>9. ASSUME NEW j \in Job, ResolveJob(j)
        PROVE  Keeps \/ Delivers
    <3> DEFINE rows == Settle({j}, "failed")
    <3>1. rows \in Rows
      BY <1>0, SettleRows, StatusNames
    <3>2. \A i \in Job : RowStep(job[i], rows[i])
      <4>1. SUFFICES ASSUME NEW i \in Job
                     PROVE  RowStep(job[i], rows[i])
        OBVIOUS
      <4>2. CASE i # j
        BY <4>2 DEF Settle, RowStep, Moves
      <4>3. CASE i = j
        <5>1. rows[i] = [job[i] EXCEPT !.status = "failed"] /\ job[i].status = "recovery_required"
          BY <2>9, <4>3 DEF Settle, ResolveJob
        <5> QED
          BY <1>0, <5>1 DEF RowStep, Moves, Transitions, JobRow
      <4> QED
        BY <4>2, <4>3
    <3>3. CASE QueueContinuation(rows)
      <4>1. AwaitsJobs /\ Batch # {} /\ \A i \in Batch : rows[i].status \in Deliverable
        <5>1. \/ AwaitsJobs /\ Batch # {} /\ \A i \in Batch : rows[i].status \in Deliverable
              \/ run' = run
          BY <2>9 DEF ResolveJob
        <5>2. CASE run' = run
          <6>1. \/ AwaitsJobs /\ Batch # {} /\ \A i \in Batch : rows[i].status \in Deliverable
                \/ run'.status = "queued"
            BY <1>0, <3>3 DEF QueueContinuation, RunRow
          <6> QED
            BY <2>9, <5>2, <6>1 DEF ResolveJob
        <5> QED
          BY <5>1, <5>2
      <4> QED
        BY <3>1, <3>2, <3>3, <4>1, QueueContinuationDelivers
    <3>4. CASE job' = rows /\ run' = run
      BY <3>2, <3>4, QuietSteps DEF RowsStep
    <3> QED
      BY <2>9, <3>3, <3>4 DEF ResolveJob
  <2> QED
    BY <1>2, <2>1, <2>2, <2>3, <2>4, <2>5, <2>6, <2>7, <2>8, <2>9 DEF RunStep
<1>3. CASE HostStep
  BY <1>1, <1>3 DEF HostStep, ContainerStops, ContainerStarts, ObserveStatus, InspectFails,
                    CommandEnds, LateLaunch
<1>4. ASSUME NEW j \in Job, TaskStep(j)
      PROVE  Keeps
  <2>1. CASE FinishTask(j)
    <3>1. \/ \E status \in {"completed", "failed"} : FinishOwned(job[j].owner, j, status)
          \/ job' = job
      BY <2>1 DEF FinishTask
    <3>2. RowsStep
      BY <1>0, <3>1, FinishOwnedSteps, StatusNames, SameRows
    <3> QED
      BY <2>1, <3>2, QuietSteps DEF FinishTask
  <2>2. CASE run' = run /\ job' = job
    BY <2>2, SameRows, QuietSteps
  <2> QED
    BY <1>4, <2>1, <2>2 DEF TaskStep, StartTask, Launch, CommandReturns, Timeout, Kill, Terminated, HasMarker
<1>5. ASSUME NEW o \in Owner, DriverStep(o)
      PROVE  Keeps \/ Delivers
  <2>1. CASE MarkStale(o)
    <3> DEFINE j == driver[o].current
    <3>1. driver[o].verdict \in {"failed", "recovery_required"}
      BY DEF TypeOK, Driver
    <3>2. CASE job' = job
      BY <2>1, <3>2, SameRows, QuietSteps DEF MarkStale
    <3>3. CASE job[j].status = "running" /\ job' = Settle({j}, driver[o].verdict)
      <4>1. driver[o].verdict \in Settled
        BY <3>1 DEF Settled
      <4>2. RowsStep
        BY <1>0, <3>3, <4>1, SettleSteps
      <4> QED
        BY <2>1, <4>2, QuietSteps DEF MarkStale
    <3> QED
      BY <2>1, <3>2, <3>3 DEF MarkStale
  <2>2. CASE CancelOrphaned(o)
    BY <1>0, <2>2, SettleSteps, StatusNames, QuietSteps DEF CancelOrphaned
  <2>3. CASE FailUnavailable(o)
    BY <1>0, <2>3, SettleSteps, StatusNames, QuietSteps DEF FailUnavailable
  <2>4. ASSUME NEW j \in Job, FinishCanceled(o, j)
        PROVE  Keeps
    BY <1>0, <2>4, FinishOwnedSteps, StatusNames, QuietSteps DEF FinishCanceled
  <2>5. ASSUME NEW j \in Job, FinishStopped(o, j)
        PROVE  Keeps
    BY <1>0, <2>5, FinishOwnedSteps, StatusNames, QuietSteps DEF FinishStopped
  <2>6. CASE ResumeWaiting(o)
    <3>1. \A j \in Job : RowStep(job[j], job[j])
      BY DEF RowStep, Moves
    <3> QED
      BY <1>0, <2>6, <3>1, QueueContinuationDelivers DEF ResumeWaiting
  <2>7. CASE ClaimJobs(o)
    BY <1>0, <2>7, ClaimSteps, QuietSteps DEF ClaimJobs
  <2>8. CASE ClaimFails(o)
    BY <1>0, <2>8, ClaimSteps, QuietSteps DEF ClaimFails
  <2>9. CASE run' = run /\ job' = job
    BY <2>9, SameRows, QuietSteps
  <2> QED
    BY <1>5, <2>1, <2>2, <2>3, <2>4, <2>5, <2>6, <2>7, <2>8, <2>9
       DEF DriverStep, RecoveryStep, CancelStep, StopStep, Acquire, ListStale, CheckBinding,
           KillStale, EndRecovery, RecoveryFails, BeginCancels, EndCancels, BeginStop, EndStop,
           Crash, hostVars
<1>6. CASE UNCHANGED vars
  BY <1>1, <1>6 DEF vars
<1> QED
  BY <1>2, <1>3, <1>4, <1>5, <1>6 DEF Next

-----------------------------------------------------------------------------
(* The table of transitions.                                               *)

LEMMA StepFollowsTable ==
    ASSUME TypeOK, [Next]_vars, NEW j \in Job, job'[j].status # job[j].status
    PROVE  job'[j].status \in Transitions[job[j].status]
<1>1. CASE \E i \in Job : CreateJob(i)
  <2>1. PICK i \in Job : CreateJob(i)
    BY <1>1
  <2>2. job' = [job EXCEPT ![i].status = "queued", ![i].attempt = run.attempt]
    BY <2>1 DEF CreateJob, MayDispatch
  <2>3. i = j
    BY <2>2 DEF TypeOK, JobRow
  <2>4. job'[j].status = "queued" /\ job[j].status = "absent"
    BY <2>1, <2>2, <2>3 DEF CreateJob, MayDispatch, TypeOK, JobRow
  <2> QED
    BY <2>4 DEF Transitions
<1>2. CASE Keeps \/ Starts
  BY <1>2 DEF Keeps, Starts, RowsStep, RowStep, Moves
<1>3. CASE Delivers \/ Discards
  BY <1>3 DEF Delivers, Discards, Marked, Moves
<1> QED
  BY <1>1, <1>2, <1>3, StepKinds

\* No result, cancellation, shutdown or recovery overwrites one that came first,
\* for any number of commands and acquisitions, whatever fails.
THEOREM StatusFollowsTableAlways == Spec => StatusFollowsTable
<1>1. TypeOK /\ [Next]_vars => [\A j \in Job : job'[j].status # job[j].status =>
                                   job'[j].status \in Transitions[job[j].status]]_vars
  BY StepFollowsTable
<1> QED
  BY <1>1, TypeCorrect, PTL DEF Spec, StatusFollowsTable

-----------------------------------------------------------------------------
(* The delivery of a batch.  One step delivers all the commands that are   *)
(* owed under the Attempt the Run waits for.  That this is the whole batch *)
(* rests on two facts: the commands of one Attempt are delivered or        *)
(* discarded together, and a running Attempt has no such commands, so that *)
(* it can still create some.                                               *)

Exists(j) == job[j].status # "absent"

DeliveryInv ==
    /\ run.status = "running" => run.attempt > 0
    /\ \A j \in Job : ~Exists(j) => job[j].attempt = 0 /\ job[j].disposition = "none"
    /\ \A j \in Job : Exists(j) => job[j].attempt > 0 /\ job[j].attempt <= run.attempt
    /\ \A j \in Job : job[j].disposition # "none" /\ run.status = "running" =>
                         job[j].attempt < run.attempt
    /\ \A i, j \in Job : Exists(i) /\ Exists(j) /\ job[i].attempt = job[j].attempt =>
                            job[i].disposition = job[j].disposition
    /\ \A j \in Job : job[j].disposition = "delivered" => job[j].status \in Deliverable

LEMMA InitDelivery == Init => DeliveryInv
BY DEF Init, DeliveryInv, Exists

\* A status that can be delivered is final.
LEMMA DeliverableIsFinal ==
    ASSUME NEW r, NEW s, Moves(r, s), r.status \in Deliverable
    PROVE  s.status = r.status
BY DEF Moves, Deliverable, Transitions

LEMMA DeliveryStep ==
    ASSUME TypeOK, TypeOK', DeliveryInv, [Next]_vars
    PROVE  DeliveryInv'
<1>0. /\ run.attempt \in Nat /\ run'.attempt \in Nat
      /\ \A j \in Job : job[j].attempt \in Nat /\ job'[j].attempt \in Nat
  BY DEF TypeOK, RunRow, JobRow
<1>1. CASE Keeps
  <2>1. \A j \in Job : /\ job'[j].attempt = job[j].attempt
                       /\ job'[j].disposition = job[j].disposition
                       /\ Exists(j)' <=> Exists(j)
                       /\ job[j].status \in Deliverable => job'[j].status = job[j].status
    BY <1>1, DeliverableIsFinal DEF Keeps, RowsStep, RowStep, Moves, Exists
  <2>2. run'.attempt = run.attempt /\ (run'.status = "running" => run.status = "running")
    BY <1>1 DEF Keeps
  <2> QED
    BY <1>0, <2>1, <2>2 DEF DeliveryInv
<1>2. CASE Starts
  <2>1. \A j \in Job : /\ job'[j].attempt = job[j].attempt
                       /\ job'[j].disposition = job[j].disposition
                       /\ Exists(j)' <=> Exists(j)
                       /\ job[j].status \in Deliverable => job'[j].status = job[j].status
    BY <1>2, DeliverableIsFinal DEF Starts, RowStep, Moves, Exists
  <2>2. run'.attempt = run.attempt + 1
    BY <1>2 DEF Starts
  <2>3. \A j \in Job : job[j].attempt <= run.attempt
    BY <1>0 DEF DeliveryInv
  <2> QED
    BY <1>0, <2>1, <2>2, <2>3 DEF DeliveryInv
<1>3. CASE Delivers
  <2>1. \A j \in Job : /\ job'[j].attempt = job[j].attempt
                       /\ job'[j].disposition = IF j \in Batch THEN "delivered"
                                                ELSE job[j].disposition
                       /\ Exists(j)' <=> Exists(j)
                       /\ job[j].status \in Deliverable => job'[j].status = job[j].status
    BY <1>3, DeliverableIsFinal DEF Delivers, Marked, Moves, Exists
  <2>2. run'.attempt = run.attempt /\ run'.status # "running"
    BY <1>3 DEF Delivers
  <2>3. \A j \in Job : Exists(j) /\ job[j].attempt = run.wait => j \in Batch
    <3>1. PICK b \in Job : Exists(b) /\ job[b].disposition = "none" /\ job[b].attempt = run.wait
      BY <1>3 DEF Delivers, Batch, Undelivered, Exists
    <3> QED
      BY <3>1 DEF DeliveryInv, Batch, Undelivered, Exists
  <2>4. \A j \in Batch : Exists(j) /\ job[j].attempt = run.wait
    BY DEF Batch, Undelivered, Exists
  <2>5. \A j \in Job : job'[j].disposition = "delivered" => job'[j].status \in Deliverable
    BY <1>3, <2>1 DEF Delivers, DeliveryInv
  <2>6. \A i, j \in Job : Exists(i) /\ Exists(j) /\ job[i].attempt = job[j].attempt =>
                             job'[i].disposition = job'[j].disposition
    BY <2>1, <2>3, <2>4 DEF DeliveryInv
  <2>7. \A j \in Job : ~Exists(j) => job'[j].disposition = job[j].disposition
    BY <2>1, <2>4
  <2> QED
    BY <1>0, <2>1, <2>2, <2>5, <2>6, <2>7 DEF DeliveryInv
<1>4. CASE Discards
  <2>1. \A j \in Job : /\ job'[j].attempt = job[j].attempt
                       /\ job'[j].disposition = IF j \in Undelivered THEN "discarded"
                                                ELSE job[j].disposition
                       /\ Exists(j)' <=> Exists(j)
                       /\ job[j].status \in Deliverable => job'[j].status = job[j].status
    BY <1>4, DeliverableIsFinal DEF Discards, Marked, Moves, Exists
  <2>2. run'.attempt = run.attempt /\ run'.status # "running"
    BY <1>4 DEF Discards
  <2>3. \A j \in Job : j \in Undelivered <=> Exists(j) /\ job[j].disposition = "none"
    BY DEF Undelivered, Exists
  <2> QED
    BY <1>0, <2>1, <2>2, <2>3 DEF DeliveryInv
<1>5. ASSUME NEW c \in Job, CreateJob(c)
      PROVE  DeliveryInv'
  <2>1. /\ run.status = "running" /\ job[c].status = "absent"
        /\ job' = [job EXCEPT ![c].status = "queued", ![c].attempt = run.attempt]
        /\ run'.status = "running" /\ run'.attempt = run.attempt
    BY <1>5 DEF CreateJob, MayDispatch, TypeOK, RunRow
  <2>2. /\ job'[c].status = "queued" /\ job'[c].attempt = run.attempt
        /\ job'[c].disposition = "none"
    BY <2>1 DEF TypeOK, JobRow, DeliveryInv, Exists
  <2>3. \A j \in Job \ {c} : job'[j] = job[j]
    BY <2>1 DEF TypeOK
  <2>4. \A j \in Job : Exists(j)' <=> Exists(j) \/ j = c
    BY <2>2, <2>3 DEF Exists
  <2>5. run.attempt > 0
    BY <2>1 DEF DeliveryInv
  <2>6. \A j \in Job : ~Exists(j)' => job'[j].attempt = 0 /\ job'[j].disposition = "none"
    BY <2>3, <2>4 DEF DeliveryInv
  <2>7. \A j \in Job : Exists(j)' => job'[j].attempt > 0 /\ job'[j].attempt <= run'.attempt
    <3>1. SUFFICES ASSUME NEW j \in Job, Exists(j)'
                   PROVE  job'[j].attempt > 0 /\ job'[j].attempt <= run'.attempt
      OBVIOUS
    <3>2. CASE j = c
      BY <1>0, <2>1, <2>2, <2>5, <3>2
    <3>3. CASE j # c
      <4>1. Exists(j) /\ job'[j] = job[j]
        BY <2>3, <2>4, <3>1, <3>3
      <4> QED
        BY <2>1, <4>1 DEF DeliveryInv
    <3> QED
      BY <3>2, <3>3
  <2>8. \A j \in Job : job'[j].disposition # "none" => job'[j].attempt < run'.attempt
    <3>1. SUFFICES ASSUME NEW j \in Job, job'[j].disposition # "none"
                   PROVE  job'[j].attempt < run'.attempt
      OBVIOUS
    <3>2. j # c
      BY <2>2, <3>1
    <3>3. job'[j] = job[j]
      BY <2>3, <3>2
    <3> QED
      BY <2>1, <3>1, <3>3 DEF DeliveryInv
  <2>9. \A i, j \in Job : Exists(i)' /\ Exists(j)' /\ job'[i].attempt = job'[j].attempt =>
                             job'[i].disposition = job'[j].disposition
    <3>1. SUFFICES ASSUME NEW i \in Job, NEW j \in Job, Exists(i)', Exists(j)',
                          job'[i].attempt = job'[j].attempt
                   PROVE  job'[i].disposition = job'[j].disposition
      OBVIOUS
    <3>2. CASE i # c /\ j # c
      BY <2>3, <2>4, <3>1, <3>2 DEF DeliveryInv
    <3>3. CASE i = c \/ j = c
      <4>1. job'[i].attempt = run'.attempt /\ job'[j].attempt = run'.attempt
        BY <2>1, <2>2, <3>1, <3>3
      <4>2. job'[i].disposition = "none" /\ job'[j].disposition = "none"
        BY <1>0, <2>8, <4>1
      <4> QED
        BY <4>2
    <3> QED
      BY <3>2, <3>3
  <2>10. \A j \in Job : job'[j].disposition = "delivered" => job'[j].status \in Deliverable
    BY <2>2, <2>3 DEF DeliveryInv
  <2> QED
    BY <2>1, <2>5, <2>6, <2>7, <2>8, <2>9, <2>10 DEF DeliveryInv
<1> QED
  BY <1>1, <1>2, <1>3, <1>4, <1>5, StepKinds

\* A Run continues with all the results of a batch or with none, and only with
\* final ones, for any number of commands, acquisitions and Attempts, whatever fails.
THEOREM BatchDeliveredTogetherAlways == Spec => []BatchDeliveredTogether
<1>1. TypeOK /\ DeliveryInv => BatchDeliveredTogether
  <2> SUFFICES ASSUME TypeOK, DeliveryInv, NEW i \in Job, NEW j \in Job,
                      job[i].disposition = "delivered", job[j].attempt = job[i].attempt
               PROVE  job[j].disposition = "delivered" /\ job[j].status \in Deliverable
    BY DEF BatchDeliveredTogether
  <2>1. Exists(i) /\ job[i].attempt > 0
    BY DEF DeliveryInv
  <2>2. Exists(j)
    BY <2>1 DEF DeliveryInv
  <2> QED
    BY <2>1, <2>2 DEF DeliveryInv
<1>2. Init => DeliveryInv
  BY InitDelivery
<1>3. TypeOK /\ TypeOK' /\ DeliveryInv /\ [Next]_vars => DeliveryInv'
  BY DeliveryStep
<1> QED
  BY <1>1, <1>2, <1>3, TypeCorrect, PTL DEF Spec

-----------------------------------------------------------------------------
(* Commands that run.  A command is claimed only for a Run that waits for  *)
(* it, and the Run stops waiting in two ways only: with the whole batch    *)
(* settled, or after a cancellation of all its commands.  The second is    *)
(* two transactions; between them the Run is "ending", its running         *)
(* commands have been told to stop and, while it waits, nothing is left to *)
(* claim.                                                                  *)

AwaitedRow(r) ==
    r.status = "running" =>
        \/ r.cancel
        \/ AwaitsJobs /\ r.attempt = run.wait /\ r.disposition = "none"

AwaitInv ==
    /\ \A j \in Job : AwaitedRow(job[j])
    /\ run.ending => \A j \in Job : /\ job[j].status = "running" => job[j].cancel
                                    /\ AwaitsJobs => job[j].status # "queued"

\* A row that runs now ran before, with its cancellation kept, or has been claimed.
Continues(r, s) ==
    /\ s.status = "running" => /\ r.status = "running" /\ (r.cancel => s.cancel)
                               /\ s.attempt = r.attempt /\ s.disposition = r.disposition
    /\ s.status = "queued" => r.status = "queued"

RowsContinue == \A j \in Job : Continues(job[j], job'[j])

LEMMA InitAwaits == Init => AwaitInv
BY DEF Init, AwaitInv, AwaitedRow

LEMMA SameContinue ==
    ASSUME job' = job
    PROVE  RowsContinue
BY DEF RowsContinue, Continues

LEMMA SettleContinues ==
    ASSUME job \in Rows, NEW J, NEW status \in Settled, NEW j \in Job
    PROVE  Continues(job[j], Settle(J, status)[j])
<1>1. job[j] \in JobRow
  BY DEF Rows
<1>2. CASE j \in J
  <2>1. Settle(J, status)[j] = [job[j] EXCEPT !.status = status]
    BY <1>2 DEF Settle
  <2>2. Settle(J, status)[j].status = status
    BY <1>1, <2>1 DEF JobRow
  <2>3. status # "running" /\ status # "queued"
    BY DEF Settled
  <2> QED
    BY <2>2, <2>3 DEF Continues
<1>3. CASE j \notin J
  BY <1>3 DEF Settle, Continues
<1> QED
  BY <1>2, <1>3

LEMMA SettledContinue ==
    ASSUME job \in Rows, NEW J, NEW status \in Settled, job' = Settle(J, status)
    PROVE  RowsContinue
BY SettleContinues DEF RowsContinue

LEMMA FinishOwnedContinues ==
    ASSUME job \in Rows, NEW o, NEW j, NEW status \in Settled, FinishOwned(o, j, status)
    PROVE  RowsContinue
BY SettledContinue, SameContinue DEF FinishOwned

LEMMA CancelContinues ==
    ASSUME job \in Rows, NEW J, job' = RequestCancellation(J)
    PROVE  /\ RowsContinue
           /\ \A j \in Job \cap J : /\ job'[j].status # "queued"
                                    /\ job'[j].status = "running" => job'[j].cancel
<1>1. SUFFICES ASSUME NEW j \in Job
               PROVE  /\ Continues(job[j], job'[j])
                      /\ j \in J => /\ job'[j].status # "queued"
                                    /\ job'[j].status = "running" => job'[j].cancel
  BY DEF RowsContinue
<1>2. job[j] \in JobRow
  BY DEF Rows
<1>3. CASE j \in J /\ job[j].status = "queued"
  <2>1. job'[j] = [job[j] EXCEPT !.cancel = TRUE, !.status = "canceled"]
    BY <1>3 DEF RequestCancellation
  <2> QED
    BY <1>2, <2>1 DEF JobRow, Continues
<1>4. CASE j \in J /\ job[j].status = "running"
  <2>1. job'[j] = [job[j] EXCEPT !.cancel = TRUE]
    BY <1>4 DEF RequestCancellation
  <2> QED
    BY <1>2, <1>4, <2>1 DEF JobRow, Continues
<1>5. CASE ~(j \in J /\ job[j].status \in {"queued", "running"})
  BY <1>5 DEF RequestCancellation, Continues
<1> QED
  BY <1>3, <1>4, <1>5

LEMMA DiscardContinues ==
    ASSUME job \in Rows, job' = Discard, NEW j \in Job
    PROVE  job'[j].status = job[j].status /\ job'[j].cancel = job[j].cancel
<1>1. job[j] \in JobRow
  BY DEF Rows
<1> QED
  BY <1>1 DEF Discard, JobRow

\* The steps of tasks and drivers that leave the Run alone.
LEMMA QuietAwaits ==
    ASSUME AwaitInv, run' = run, RowsContinue
    PROVE  AwaitInv'
BY DEF AwaitInv, AwaitedRow, RowsContinue, Continues, AwaitsJobs

LEMMA ClaimAwaits ==
    ASSUME TypeOK, AwaitInv, run' = run, NEW o, NEW J \in SUBSET Claimable,
           job' = [j \in Job |-> IF j \in J
                      THEN [job[j] EXCEPT !.status = "running", !.owner = o] ELSE job[j]]
    PROVE  AwaitInv'
<1>1. ASSUME NEW j \in Job, j \in J
      PROVE  /\ job'[j].status = "running" /\ job'[j].attempt = run.wait
             /\ job'[j].disposition = "none" /\ AwaitsJobs /\ ~run.ending
  <2>1. job[j] \in JobRow
    BY DEF TypeOK
  <2>2. job'[j] = [job[j] EXCEPT !.status = "running", !.owner = o]
    BY <1>1
  <2>3. /\ job[j].status = "queued" /\ AwaitsJobs
        /\ job[j].attempt = run.wait /\ job[j].disposition = "none"
    BY <1>1 DEF Claimable, Batch, Undelivered
  <2>4. job'[j].status = "running"
    BY <2>1, <2>2 DEF JobRow
  <2>5. job'[j].attempt = job[j].attempt /\ job'[j].disposition = job[j].disposition
    BY <2>1, <2>2 DEF JobRow
  <2>6. ~run.ending
    BY <2>3 DEF AwaitInv
  <2> QED
    BY <2>3, <2>4, <2>5, <2>6
<1>2. \A j \in Job : j \notin J => job'[j] = job[j]
  OBVIOUS
<1>3. \A j \in Job : AwaitedRow(job[j])'
  BY <1>1, <1>2 DEF AwaitInv, AwaitedRow, AwaitsJobs
<1>4. run.ending => \A j \in Job : j \notin J
  BY <1>1
<1>5. run'.ending => \A j \in Job : /\ job'[j].status = "running" => job'[j].cancel
                                    /\ AwaitsJobs' => job'[j].status # "queued"
  BY <1>2, <1>4 DEF AwaitInv, AwaitsJobs
<1> QED
  BY <1>3, <1>5 DEF AwaitInv

LEMMA DeliveryAwaits ==
    ASSUME TypeOK, AwaitInv, NEW rows \in Rows, QueueContinuation(rows),
           \A j \in Batch : rows[j].status \in Deliverable,
           \A j \in Job : Continues(job[j], rows[j])
    PROVE  AwaitInv'
<1>1. run'.status = "queued" /\ run'.ending = run.ending
  BY DEF QueueContinuation, TypeOK, RunRow
<1>2. ASSUME NEW j \in Job
      PROVE  job'[j].status = "running" => job'[j].cancel
  <2>1. rows[j] \in JobRow
    BY DEF Rows
  <2>2. /\ job'[j].status = rows[j].status /\ job'[j].cancel = rows[j].cancel
    BY <2>1 DEF QueueContinuation, JobRow
  <2>3. CASE j \in Batch
    BY <2>2, <2>3 DEF Deliverable
  <2>4. CASE j \notin Batch
    <3>1. SUFFICES ASSUME job'[j].status = "running"
                   PROVE  rows[j].cancel
      BY <2>2
    <3>2. job[j].status = "running" /\ (job[j].cancel => rows[j].cancel)
      BY <2>2, <3>1 DEF Continues
    <3>3. ~(job[j].attempt = run.wait /\ job[j].disposition = "none")
      BY <2>4, <3>2 DEF Batch, Undelivered
    <3> QED
      BY <3>2, <3>3 DEF AwaitInv, AwaitedRow
  <2> QED
    BY <2>3, <2>4
<1> QED
  BY <1>1, <1>2 DEF AwaitInv, AwaitedRow, AwaitsJobs

LEMMA RunStepAwaits ==
    ASSUME TypeOK, AwaitInv, RunStep
    PROVE  AwaitInv'
<1>0. /\ job \in Rows /\ run \in RunRow
      /\ \A j \in Job : job[j] \in JobRow
  BY DEF TypeOK, Rows
<1>1. CASE StartAttempt
  <2>1. job' = job /\ run'.ending = FALSE /\ run.status # "waiting"
    BY <1>0, <1>1 DEF StartAttempt, RunRow
  <2> QED
    BY <2>1 DEF AwaitInv, AwaitedRow, AwaitsJobs
<1>2. CASE FinishAttempt
  <2>1. run'.ending = FALSE /\ run.status # "waiting"
    BY <1>0, <1>2 DEF FinishAttempt, RunRow
  <2>2. \A j \in Job : job'[j].status = job[j].status /\ job'[j].cancel = job[j].cancel
    BY <1>0, <1>2, DiscardContinues DEF FinishAttempt
  <2> QED
    BY <2>1, <2>2 DEF AwaitInv, AwaitedRow, AwaitsJobs
<1>3. CASE InterruptAttempt
  <2>1. job' = job /\ run'.ending = FALSE /\ run.status # "waiting"
    BY <1>0, <1>3 DEF InterruptAttempt, RunRow
  <2> QED
    BY <2>1 DEF AwaitInv, AwaitedRow, AwaitsJobs
<1>4. CASE CancelRunJobs
  <2>1. \A j \in Job : /\ job'[j].status # "queued"
                       /\ job'[j].status = "running" => job'[j].cancel
    BY <1>0, <1>4, CancelContinues DEF CancelRunJobs
  <2> QED
    BY <2>1 DEF AwaitInv, AwaitedRow
<1>5. CASE EndRun
  <2>1. run'.ending = FALSE /\ run.ending
    BY <1>0, <1>5 DEF EndRun, RunRow
  <2>2. \A j \in Job : job'[j].status = job[j].status /\ job'[j].cancel = job[j].cancel
    BY <1>0, <1>5, DiscardContinues DEF EndRun
  <2> QED
    BY <2>1, <2>2 DEF AwaitInv, AwaitedRow
<1>6. CASE AbandonEnding
  <2>1. job' = job /\ run.ending /\ run'.ending = FALSE
    BY <1>0, <1>6 DEF AbandonEnding, RunRow
  <2> QED
    BY <2>1 DEF AwaitInv, AwaitedRow
<1>7. CASE ResumeRun
  <2>1. job' = job /\ run'.ending = FALSE /\ run.status # "waiting"
    BY <1>0, <1>7 DEF ResumeRun, RunRow
  <2> QED
    BY <2>1 DEF AwaitInv, AwaitedRow, AwaitsJobs
<1>8. ASSUME NEW c \in Job, CreateJob(c)
      PROVE  AwaitInv'
  <2>1. /\ run'.status = "running" /\ run.status = "running" /\ run'.ending = run.ending
        /\ job' = [job EXCEPT ![c].status = "queued", ![c].attempt = run.attempt]
    BY <1>0, <1>8 DEF CreateJob, MayDispatch, RunRow
  <2>2. job'[c].status = "queued"
    BY <1>0, <2>1 DEF JobRow, Rows
  <2>3. \A j \in Job \ {c} : job'[j] = job[j]
    BY <1>0, <2>1 DEF Rows
  <2> QED
    BY <2>1, <2>2, <2>3 DEF AwaitInv, AwaitedRow, AwaitsJobs
<1>9. ASSUME NEW j \in Job, CancelJob(j)
      PROVE  AwaitInv'
  BY <1>0, <1>9, CancelContinues, QuietAwaits DEF CancelJob
<1>10. ASSUME NEW j \in Job, ResolveJob(j)
       PROVE  AwaitInv'
  <2> DEFINE rows == Settle({j}, "failed")
  <2>1. rows \in Rows
    BY <1>0, SettleRows, StatusNames
  <2>2. \A i \in Job : Continues(job[i], rows[i])
    BY <1>0, SettleContinues, StatusNames
  <2>3. CASE QueueContinuation(rows) /\ \A i \in Batch : rows[i].status \in Deliverable
    BY <2>1, <2>2, <2>3, DeliveryAwaits
  <2>4. CASE job' = rows /\ run' = run
    BY <2>2, <2>4, QuietAwaits DEF RowsContinue
  <2> QED
    BY <1>10, <2>3, <2>4 DEF ResolveJob
<1> QED
  BY <1>1, <1>2, <1>3, <1>4, <1>5, <1>6, <1>7, <1>8, <1>9, <1>10 DEF RunStep

LEMMA DriverStepAwaits ==
    ASSUME TypeOK, AwaitInv, NEW o \in Owner, DriverStep(o)
    PROVE  AwaitInv'
<1>0. job \in Rows
  BY DEF TypeOK, Rows
<1>1. CASE MarkStale(o)
  <2>1. driver[o].verdict \in Settled
    BY DEF TypeOK, Driver, Settled
  <2>2. RowsContinue
    BY <1>0, <1>1, <2>1, SettledContinue, SameContinue DEF MarkStale
  <2> QED
    BY <1>1, <2>2, QuietAwaits DEF MarkStale
<1>2. CASE CancelOrphaned(o)
  BY <1>0, <1>2, SettledContinue, StatusNames, QuietAwaits DEF CancelOrphaned
<1>3. CASE FailUnavailable(o)
  BY <1>0, <1>3, SettledContinue, StatusNames, QuietAwaits DEF FailUnavailable
<1>4. ASSUME NEW j \in Job, FinishCanceled(o, j)
      PROVE  AwaitInv'
  BY <1>0, <1>4, FinishOwnedContinues, StatusNames, QuietAwaits DEF FinishCanceled
<1>5. ASSUME NEW j \in Job, FinishStopped(o, j)
      PROVE  AwaitInv'
  BY <1>0, <1>5, FinishOwnedContinues, StatusNames, QuietAwaits DEF FinishStopped
<1>6. CASE ResumeWaiting(o)
  <2>1. \A j \in Job : Continues(job[j], job[j])
    BY DEF Continues
  <2> QED
    BY <1>0, <1>6, <2>1, DeliveryAwaits DEF ResumeWaiting
<1>7. CASE ClaimJobs(o)
  BY <1>7, ClaimAwaits DEF ClaimJobs
<1>8. CASE ClaimFails(o)
  BY <1>8, ClaimAwaits DEF ClaimFails
<1>9. CASE run' = run /\ job' = job
  BY <1>9, SameContinue, QuietAwaits
<1> QED
  BY <1>1, <1>2, <1>3, <1>4, <1>5, <1>6, <1>7, <1>8, <1>9
     DEF DriverStep, RecoveryStep, CancelStep, StopStep, Acquire, ListStale, CheckBinding,
         KillStale, EndRecovery, RecoveryFails, BeginCancels, EndCancels, BeginStop, EndStop,
         Crash, hostVars

LEMMA AwaitStep ==
    ASSUME TypeOK, AwaitInv, [Next]_vars
    PROVE  AwaitInv'
<1>0. job \in Rows
  BY DEF TypeOK, Rows
<1>1. CASE run' = run /\ job' = job
  BY <1>1, SameContinue, QuietAwaits
<1>2. CASE HostStep
  BY <1>1, <1>2 DEF HostStep, ContainerStops, ContainerStarts, ObserveStatus, InspectFails,
                    CommandEnds, LateLaunch
<1>3. ASSUME NEW j \in Job, TaskStep(j)
      PROVE  AwaitInv'
  <2>1. CASE FinishTask(j)
    <3>1. \/ \E status \in {"completed", "failed"} : FinishOwned(job[j].owner, j, status)
          \/ job' = job
      BY <2>1 DEF FinishTask
    <3>2. RowsContinue
      BY <1>0, <3>1, FinishOwnedContinues, StatusNames, SameContinue
    <3> QED
      BY <2>1, <3>2, QuietAwaits DEF FinishTask
  <2> QED
    BY <1>1, <1>3, <2>1 DEF TaskStep, StartTask, Launch, CommandReturns, Timeout, Kill, Terminated, HasMarker
<1>4. CASE UNCHANGED vars
  BY <1>1, <1>4 DEF vars
<1> QED
  BY <1>2, <1>3, <1>4, RunStepAwaits, DriverStepAwaits DEF Next

\* A row is RUNNING only while its Run waits for its batch, unless it is marked for
\* cancellation, for any number of commands, acquisitions and Attempts, whatever
\* fails.
THEOREM RunningJobIsAwaitedAlways == Spec => []RunningJobIsAwaited
<1>1. AwaitInv => RunningJobIsAwaited
  BY DEF AwaitInv, AwaitedRow, RunningJobIsAwaited
<1>2. Init => AwaitInv
  BY InitAwaits
<1>3. TypeOK /\ AwaitInv /\ [Next]_vars => AwaitInv'
  BY AwaitStep
<1> QED
  BY <1>1, <1>2, <1>3, TypeCorrect, PTL DEF Spec

-----------------------------------------------------------------------------
(* Commands that have stopped.  A command lives only under a running row,  *)
(* in a container the row still names, and it lives with a task that will  *)
(* see to its end or as the orphan of a process that is gone.  Whoever     *)
(* settles a running row has first seen the end of its command: the task   *)
(* itself, the driver that waited for its tasks, or the next acquisition,  *)
(* which kills what may still run and finds nothing to kill in a container *)
(* that went down.                                                         *)

Present(o) == driver[o].stage \notin {"out", "done"}

Tended(j) ==
    \/ task[j] \in {"executing", "killing", "aborting"}
    \/ task[j] = "none" /\ driver[job[j].owner].stage = "done"

CommandInv ==
    /\ late = {}
    /\ \A o \in Owner : Present(o) => holder = o
    /\ \A j \in Job : command[j] = "alive" => container.up /\ Current
    /\ \A j \in Job : task[j] = "launching" /\ container.up => Current
    /\ \A j \in Job : task[j] # "none" =>
          /\ job[j].status = "running" /\ job[j].owner \in Owner
          /\ driver[job[j].owner].stage \in {"serving", "canceling", "stopping"}
    /\ \A j \in Job : command[j] = "alive" =>
          /\ job[j].status = "running" /\ job[j].owner \in Owner
          /\ Tended(j)
    /\ \A o \in Owner : driver[o].stage \in {"killing", "marking"} => driver[o].current \in Job
    /\ \A o \in Owner : driver[o].stage = "marking" => command[driver[o].current] # "alive"

\* Database errors may happen; the other faults each make the property false.
FewFaults == Faults \subseteq {"db_error"}

LEMMA FewFaultsExclude ==
    ASSUME FewFaults
    PROVE  /\ "overlap" \notin Faults /\ "inspect_error" \notin Faults
           /\ "kill_fails" \notin Faults /\ "late_launch" \notin Faults
           /\ "recancel" \notin Faults
BY DEF FewFaults

\* A row that runs goes on running, under the same owner.
KeepsRunning(rows) ==
    \A j \in Job : job[j].status = "running" =>
        rows[j].status = "running" /\ rows[j].owner = job[j].owner

LEMMA QuietKeepsCommands ==
    ASSUME CommandInv, UNCHANGED <<hostVars, task, holder, driver>>, KeepsRunning(job')
    PROVE  CommandInv'
<1>1. UNCHANGED <<command, container, late>>
  BY DEF hostVars
<1>2. \A j \in Job : job[j].status = "running" =>
         job'[j].status = "running" /\ job'[j].owner = job[j].owner
  BY DEF KeepsRunning
<1>3. ASSUME NEW j \in Job, command[j] = "alive"
      PROVE  job'[j].status = "running" /\ job'[j].owner \in Owner /\ Tended(j)'
  BY <1>2, <1>3 DEF CommandInv, Tended
<1>4. ASSUME NEW j \in Job, task[j] # "none"
      PROVE  /\ job'[j].status = "running" /\ job'[j].owner \in Owner
             /\ driver[job'[j].owner].stage \in {"serving", "canceling", "stopping"}
  BY <1>2, <1>4 DEF CommandInv
<1> QED
  BY <1>1, <1>3, <1>4 DEF CommandInv, Present, Current

LEMMA RunStepKeepsRunning ==
    ASSUME TypeOK, RunStep
    PROVE  KeepsRunning(job')
<1>0. \A j \in Job : job[j] \in JobRow
  BY DEF TypeOK
<1>1. CASE job' = job
  BY <1>1 DEF KeepsRunning
<1>2. CASE job' = Discard
  <2>1. \A j \in Job : job'[j] = job[j] \/ job'[j] = [job[j] EXCEPT !.disposition = "discarded"]
    BY <1>2 DEF Discard
  <2> QED
    BY <1>0, <2>1 DEF KeepsRunning, JobRow
<1>3. ASSUME NEW J, job' = RequestCancellation(J)
      PROVE  KeepsRunning(job')
  <2>1. \A j \in Job : job[j].status = "running" =>
           job'[j] = job[j] \/ job'[j] = [job[j] EXCEPT !.cancel = TRUE]
    BY <1>3 DEF RequestCancellation
  <2> QED
    BY <1>0, <2>1 DEF KeepsRunning, JobRow
<1>4. ASSUME NEW j \in Job, CreateJob(j)
      PROVE  KeepsRunning(job')
  <2>1. \A i \in Job \ {j} : job'[i] = job[i]
    BY <1>4 DEF CreateJob, TypeOK
  <2>2. job[j].status = "absent"
    BY <1>4 DEF CreateJob
  <2> QED
    BY <2>1, <2>2 DEF KeepsRunning
<1>5. ASSUME NEW j \in Job, ResolveJob(j)
      PROVE  KeepsRunning(job')
  <2> DEFINE rows == Settle({j}, "failed")
  <2>1. /\ \A i \in Job \ {j} : rows[i] = job[i]
        /\ job[j].status = "recovery_required"
    BY <1>5 DEF Settle, ResolveJob
  <2>2. \A i \in Job \ {j} : \/ job'[i] = rows[i]
                             \/ job'[i] = [rows[i] EXCEPT !.disposition = "delivered"]
    BY <1>5 DEF ResolveJob, QueueContinuation
  <2> HIDE DEF rows
  <2>3. \A i \in Job \ {j} :
           job'[i].status = job[i].status /\ job'[i].owner = job[i].owner
    <3>1. SUFFICES ASSUME NEW i \in Job \ {j}
                   PROVE  job'[i].status = job[i].status /\ job'[i].owner = job[i].owner
      OBVIOUS
    <3>2. rows[i] = job[i] /\ job[i] \in JobRow
      BY <1>0, <2>1
    <3>3. job'[i] = job[i] \/ job'[i] = [job[i] EXCEPT !.disposition = "delivered"]
      BY <2>2, <3>2
    <3> QED
      BY <3>2, <3>3 DEF JobRow
  <2> QED
    BY <2>1, <2>3 DEF KeepsRunning
<1> QED
  BY <1>1, <1>2, <1>3, <1>4, <1>5
     DEF RunStep, StartAttempt, FinishAttempt, InterruptAttempt, CancelRunJobs, EndRun,
         AbandonEnding, ResumeRun, CancelJob

\* The host's steps end commands, and a container that starts again is another one.
LEMMA HostKeepsCommands ==
    ASSUME FewFaults, TypeOK, CommandInv, HostStep
    PROVE  CommandInv'
<1>1. /\ UNCHANGED <<job, task, holder, driver>>
      /\ container \in [up : BOOLEAN, status : {"running", "down"}, generation : {1, 2}]
      /\ command \in [Job -> {"none", "alive", "ended"}]
  BY DEF HostStep, ContainerStops, ContainerStarts, ObserveStatus, InspectFails,
         CommandEnds, LateLaunch, TypeOK
<1>2. /\ ~InspectFails /\ \A j \in Job : ~LateLaunch(j)
      /\ ~("late_launch" \in Faults)
  BY FewFaultsExclude DEF InspectFails, LateLaunch, CommandInv
<1>3. \A j \in Job : Tended(j)' <=> Tended(j)
  BY <1>1 DEF Tended
<1>4. ASSUME \A j \in Job : command'[j] = "alive" =>
                command[j] = "alive" /\ container'.up /\ Current',
             \A j \in Job : task[j] = "launching" /\ container'.up => Current',
             late' = late
      PROVE  CommandInv'
  BY <1>1, <1>3, <1>4 DEF CommandInv, Present
<1>5. CASE ContainerStops
  <2>1. ~container'.up /\ \A j \in Job : command'[j] # "alive"
    BY <1>1, <1>5 DEF ContainerStops
  <2> QED
    BY <1>4, <1>5, <2>1 DEF ContainerStops
<1>6. CASE ContainerStarts
  <2>1. /\ \A j \in Job : command'[j] # "alive"
        /\ \A j \in Job : task[j] # "launching"
    BY <1>2, <1>6 DEF ContainerStarts, CommandInv
  <2> QED
    BY <1>4, <1>6, <2>1 DEF ContainerStarts
<1>7. CASE ObserveStatus
  <2>1. CASE container.up
    <3>1. ~Current /\ container'.up
      BY <1>1, <1>7, <2>1 DEF ObserveStatus, Current
    <3>2. \A j \in Job : command[j] # "alive" /\ task[j] # "launching"
      BY <2>1, <3>1 DEF CommandInv
    <3> QED
      BY <1>4, <1>7, <3>2 DEF ObserveStatus
  <2>2. CASE ~container.up
    <3>1. ~container'.up
      BY <1>1, <1>7, <2>2 DEF ObserveStatus
    <3>2. \A j \in Job : command[j] # "alive"
      BY <2>2 DEF CommandInv
    <3> QED
      BY <1>4, <1>7, <3>1, <3>2 DEF ObserveStatus
  <2> QED
    BY <2>1, <2>2
<1>8. ASSUME NEW j \in Job, CommandEnds(j)
      PROVE  CommandInv'
  <2>1. UNCHANGED <<container, late>>
        /\ \A i \in Job : command'[i] = "alive" => command[i] = "alive"
    BY <1>1, <1>8 DEF CommandEnds
  <2> QED
    BY <1>4, <2>1 DEF CommandInv, Current
<1> QED
  BY <1>2, <1>5, <1>6, <1>7, <1>8 DEF HostStep

\* While a task exists its process serves; nobody recovers.
LEMMA NoRecoveryBesideTask ==
    ASSUME TypeOK, CommandInv, NEW j \in Job, task[j] # "none", NEW o \in Owner
    PROVE  driver[o].stage \notin {"killing", "marking", "recovering", "acquired"}
<1>1. /\ job[j].owner \in Owner
      /\ driver[job[j].owner].stage \in {"serving", "canceling", "stopping"}
  BY DEF CommandInv
<1>2. holder = job[j].owner
  BY <1>1 DEF CommandInv, Present
<1>3. Present(o) => o = job[j].owner
  BY <1>2 DEF CommandInv
<1> QED
  BY <1>1, <1>3 DEF Present

LEMMA TaskMoveKeepsCommands ==
    ASSUME TypeOK, CommandInv, NEW j \in Job, task[j] # "none",
           UNCHANGED <<holder, driver, late, container>>,
           \A i \in Job \ {j} :
              task'[i] = task[i] /\ command'[i] = command[i] /\ job'[i] = job[i],
           task'[j] = "launching" => Current,
           job'[j] = job[j] \/ task'[j] = "none",
           command'[j] = "alive" =>
              /\ container.up /\ Current /\ job'[j] = job[j]
              /\ task'[j] \in {"executing", "killing", "aborting"}
    PROVE  CommandInv'
<1>1. \A o \in Owner : driver[o].stage \notin {"killing", "marking"}
  BY NoRecoveryBesideTask
<1>2. /\ job[j].status = "running" /\ job[j].owner \in Owner
      /\ driver[job[j].owner].stage \in {"serving", "canceling", "stopping"}
  BY DEF CommandInv
<1>3. ASSUME NEW i \in Job, command'[i] = "alive"
      PROVE  /\ job'[i].status = "running" /\ job'[i].owner \in Owner /\ Tended(i)'
             /\ container.up /\ Current
  <2>1. CASE i = j
    BY <1>2, <1>3, <2>1 DEF Tended
  <2>2. CASE i # j
    <3>1. command[i] = "alive" /\ task'[i] = task[i] /\ job'[i] = job[i]
      BY <1>3, <2>2
    <3> QED
      BY <3>1 DEF CommandInv, Tended
  <2> QED
    BY <2>1, <2>2
<1>4. ASSUME NEW i \in Job, task'[i] # "none"
      PROVE  /\ job'[i].status = "running" /\ job'[i].owner \in Owner
             /\ driver[job'[i].owner].stage \in {"serving", "canceling", "stopping"}
  <2>1. CASE i = j
    BY <1>2, <1>4, <2>1
  <2>2. CASE i # j
    BY <1>4, <2>2 DEF CommandInv
  <2> QED
    BY <2>1, <2>2
<1>5. Current' <=> Current
  BY DEF Current
<1>6. \A i \in Job : task'[i] = "launching" /\ container.up => Current
  BY DEF CommandInv
<1>7. late = {} /\ \A o \in Owner : Present(o)' => holder' = o
  BY DEF CommandInv, Present
<1> QED
  BY <1>1, <1>3, <1>4, <1>5, <1>6, <1>7 DEF CommandInv

LEMMA TaskKeepsCommands ==
    ASSUME FewFaults, TypeOK, CommandInv, NEW j \in Job, TaskStep(j)
    PROVE  CommandInv'
<1>1. /\ task \in [Job -> Phase] /\ command \in [Job -> {"none", "alive", "ended"}]
      /\ job \in [Job -> JobRow]
      /\ container \in [up : BOOLEAN, status : {"running", "down"}, generation : {1, 2}]
  BY DEF TypeOK
<1>2. /\ command[j] = "alive" => container.up /\ Current
      /\ command[j] = "alive" => task[j] \in {"none", "executing", "killing", "aborting"}
      /\ late = {} /\ "late_launch" \notin Faults /\ "kill_fails" \notin Faults
  BY FewFaultsExclude DEF CommandInv, Tended
<1>3. CASE StartTask(j)
  <2>1. /\ task[j] = "starting" /\ UNCHANGED <<job, command, late, holder, driver>>
        /\ \A i \in Job \ {j} : task'[i] = task[i]
    BY <1>1, <1>3 DEF StartTask
  <2>2. command[j] # "alive"
    BY <1>2, <2>1
  <2>3. CASE UNCHANGED container
    <3>1. task'[j] = "launching" => Current
      BY <1>1, <1>3 DEF StartTask
    <3> QED
      BY <2>1, <2>2, <2>3, <3>1, TaskMoveKeepsCommands
  <2>4. CASE ~UNCHANGED container
    <3>1. ~container.up /\ ~container'.up /\ task'[j] = "failing"
      BY <1>1, <1>3, <2>4 DEF StartTask
    <3>2. /\ \A i \in Job : command[i] # "alive"
          /\ \A o \in Owner : driver[o].stage \notin {"killing", "marking"}
      BY <2>1, <3>1, NoRecoveryBesideTask DEF CommandInv
    <3>3. \A i \in Job : task'[i] # "none" => task[i] # "none"
      BY <2>1
    <3> QED
      BY <2>1, <3>1, <3>2, <3>3 DEF CommandInv, Present
  <2> QED
    BY <2>3, <2>4
<1>4. CASE Launch(j)
  <2>1. /\ task[j] = "launching" /\ UNCHANGED <<job, container, late, holder, driver>>
        /\ \A i \in Job \ {j} : task'[i] = task[i] /\ command'[i] = command[i]
    BY <1>1, <1>4 DEF Launch
  <2>2. container.up => Current
    BY <2>1 DEF CommandInv
  <2>3. /\ task'[j] # "launching"
        /\ \/ container.up /\ command'[j] = "alive" /\ task'[j] = "executing"
           \/ command'[j] = command[j]
    BY <1>1, <1>4 DEF Launch
  <2> QED
    BY <1>2, <2>1, <2>2, <2>3, TaskMoveKeepsCommands
<1>5. CASE CommandReturns(j)
  BY <1>1, <1>2, <1>5, TaskMoveKeepsCommands DEF CommandReturns, hostVars
<1>6. CASE Timeout(j)
  BY <1>1, <1>2, <1>6, TaskMoveKeepsCommands DEF Timeout, hostVars
<1>7. CASE Kill(j)
  <2>1. /\ task[j] # "none" /\ UNCHANGED <<job, container, late, holder, driver>>
        /\ \A i \in Job \ {j} : task'[i] = task[i] /\ command'[i] = command[i]
        /\ task'[j] # "launching"
    BY <1>1, <1>2, <1>7 DEF Kill, Terminated
  <2>2. command'[j] # "alive"
    BY <1>1, <1>2, <1>7 DEF Kill, Terminated, HasMarker
  <2> QED
    BY <2>1, <2>2, TaskMoveKeepsCommands
<1>8. CASE FinishTask(j)
  <2>1. /\ task[j] \in {"returned", "failing"} /\ task'[j] = "none"
        /\ \A i \in Job \ {j} : task'[i] = task[i]
        /\ UNCHANGED <<container, command, late, holder, driver>>
    BY <1>1, <1>8 DEF FinishTask, hostVars
  <2>2. \A i \in Job \ {j} : job'[i] = job[i]
    BY <1>1, <1>8 DEF FinishTask, FinishOwned, Settle
  <2>3. command[j] # "alive"
    BY <1>2, <2>1
  <2> QED
    BY <2>1, <2>2, <2>3, TaskMoveKeepsCommands
<1> QED
  BY <1>3, <1>4, <1>5, <1>6, <1>7, <1>8 DEF TaskStep

\* A step of the acquisition that holds the lease.
LEMMA DriverMoveKeepsCommands ==
    ASSUME TypeOK, CommandInv, NEW o \in Owner, Present(o),
           UNCHANGED <<container, late, holder>>,
           \A p \in Owner \ {o} : driver'[p] = driver[p],
           driver'[o].stage # "out",
           \A j \in Job : task'[j] # "none" =>
              /\ task[j] # "none"
              /\ task'[j] = "launching" => task[j] = "launching"
              /\ job'[j].status = "running" /\ job'[j].owner = job[j].owner
              /\ job[j].owner = o =>
                    driver'[o].stage \in {"serving", "canceling", "stopping"},
           \A j \in Job : command'[j] = "alive" =>
              /\ command[j] = "alive"
              /\ job'[j].status = "running" /\ job'[j].owner = job[j].owner
              /\ \/ task'[j] = task[j]
                 \/ task'[j] = "aborting"
                 \/ task'[j] = "none" /\ driver'[o].stage = "done" /\ job[j].owner = o,
           driver'[o].stage \in {"killing", "marking"} => driver'[o].current \in Job,
           driver'[o].stage = "marking" => command'[driver'[o].current] # "alive"
    PROVE  CommandInv'
<1>1. holder = o /\ \A p \in Owner \ {o} : ~Present(p)
  BY DEF CommandInv
<1>2. \A p \in Owner : Present(p)' => holder' = p
  BY <1>1 DEF Present
<1>3. ASSUME NEW j \in Job, task'[j] # "none"
      PROVE  /\ job'[j].status = "running" /\ job'[j].owner \in Owner
             /\ driver'[job'[j].owner].stage \in {"serving", "canceling", "stopping"}
             /\ task'[j] = "launching" /\ container.up => Current
  <2>1. /\ job[j].owner \in Owner /\ job'[j].owner = job[j].owner
        /\ driver[job[j].owner].stage \in {"serving", "canceling", "stopping"}
    BY <1>3 DEF CommandInv
  <2>2. job[j].owner = o
    BY <1>1, <2>1 DEF Present
  <2> QED
    BY <1>3, <2>1, <2>2 DEF CommandInv
<1>4. ASSUME NEW j \in Job, command'[j] = "alive"
      PROVE  /\ container.up /\ Current /\ job'[j].status = "running"
             /\ job'[j].owner \in Owner /\ Tended(j)'
  <2>1. /\ container.up /\ Current /\ job[j].owner \in Owner /\ Tended(j)
        /\ job'[j].owner = job[j].owner /\ job'[j].status = "running"
    BY <1>4 DEF CommandInv
  <2>2. CASE task'[j] = task[j]
    <3>1. driver[job[j].owner].stage = "done" => driver'[job[j].owner].stage = "done"
      BY <2>1 DEF Present
    <3> QED
      BY <2>1, <2>2, <3>1 DEF Tended
  <2>3. CASE task'[j] = "aborting"
    BY <2>1, <2>3 DEF Tended
  <2>4. CASE task'[j] = "none" /\ driver'[o].stage = "done" /\ job[j].owner = o
    BY <2>1, <2>4 DEF Tended
  <2> QED
    BY <1>4, <2>1, <2>2, <2>3, <2>4
<1>5. Current' <=> Current
  BY DEF Current
<1>6. \A p \in Owner \ {o} : driver'[p].stage \notin {"killing", "marking"}
  BY <1>1 DEF Present
<1> QED
  BY <1>2, <1>3, <1>4, <1>5, <1>6 DEF CommandInv

LEMMA SetDriverMoves ==
    ASSUME TypeOK, NEW o \in Owner, NEW d, SetDriver(o, d)
    PROVE  driver'[o] = d /\ \A p \in Owner \ {o} : driver'[p] = driver[p]
BY DEF SetDriver, TypeOK

\* The owner of a command that lives without a task is gone.
LEMMA OwnerTends ==
    ASSUME CommandInv, NEW o \in Owner, Present(o), NEW j \in Job,
           command[j] = "alive", job[j].owner = o
    PROVE  task[j] \in {"executing", "killing", "aborting"}
BY DEF CommandInv, Tended, Present

\* Cancelled tasks terminate what they started.
LEMMA CancelingKeepsCommands ==
    ASSUME FewFaults, TypeOK, CommandInv, NEW o \in Owner, Present(o),
           UNCHANGED <<hostVars, holder>>, NEW J \in SUBSET Job, MayCancel(J),
           \A j \in J : job[j].owner = o,
           task' = Canceled(J), KeepsRunning(job'),
           \A p \in Owner \ {o} : driver'[p] = driver[p],
           driver'[o].stage \in {"canceling", "stopping"}
    PROVE  CommandInv'
<1>1. \A j \in J : task[j] \notin {"killing", "aborting"}
  BY FewFaultsExclude DEF MayCancel
<1>2. UNCHANGED <<container, command, late>>
  BY DEF hostVars
<1>3. \A j \in Job : /\ j \notin J => task'[j] = task[j]
                     /\ j \in J => task'[j] \in {"aborting", "none"}
                     /\ j \in J /\ task[j] = "executing" => task'[j] = "aborting"
                     /\ task'[j] # "none" => task[j] # "none"
  BY DEF Canceled
<1>4. ASSUME NEW j \in Job, command'[j] = "alive"
      PROVE  /\ command[j] = "alive" /\ job[j].status = "running"
             /\ task'[j] = task[j] \/ task'[j] = "aborting"
  <2>1. command[j] = "alive" /\ job[j].status = "running"
    BY <1>2, <1>4 DEF CommandInv
  <2>2. j \in J => task[j] \in {"executing", "killing", "aborting"}
    BY <2>1, OwnerTends
  <2> QED
    BY <1>1, <1>3, <2>1, <2>2
<1>5. \A j \in Job : task[j] # "none" => job[j].status = "running"
  BY DEF CommandInv
<1>6. \A j \in Job : job[j].status = "running" =>
         job'[j].status = "running" /\ job'[j].owner = job[j].owner
  BY DEF KeepsRunning
<1>7. /\ driver'[o].stage # "out" /\ driver'[o].stage \notin {"killing", "marking"}
      /\ driver'[o].stage \in {"serving", "canceling", "stopping"}
  OBVIOUS
<1>8. \A j \in Job : task'[j] # "none" =>
         /\ task[j] # "none"
         /\ task'[j] = "launching" => task[j] = "launching"
         /\ job'[j].status = "running" /\ job'[j].owner = job[j].owner
  BY <1>3, <1>5, <1>6
<1>9. \A j \in Job : command'[j] = "alive" =>
         /\ command[j] = "alive"
         /\ job'[j].status = "running" /\ job'[j].owner = job[j].owner
         /\ task'[j] = task[j] \/ task'[j] = "aborting"
  BY <1>4, <1>6
<1> QED
  BY <1>2, <1>7, <1>8, <1>9, DriverMoveKeepsCommands

\* What a driver that waited for its tasks settles has no command left.
LEMMA FinishKeepsCommands ==
    ASSUME TypeOK, CommandInv, NEW o \in Owner, Present(o),
           UNCHANGED <<hostVars, task, holder>>, NEW j \in Job,
           job[j].owner = o => task[j] = "none",
           NEW status, FinishOwned(o, j, status),
           \A p \in Owner \ {o} : driver'[p] = driver[p],
           driver'[o].stage = driver[o].stage,
           driver[o].stage \in {"serving", "canceling", "stopping"}
    PROVE  CommandInv'
<1>1. UNCHANGED <<container, command, late>>
  BY DEF hostVars
<1>2. job[j].owner = o => command[j] # "alive"
  BY OwnerTends
<1>3. \A i \in Job : job'[i] = job[i] \/ (i = j /\ job[j].owner = o)
  BY DEF FinishOwned, Settle, RowIsOwned, TypeOK
<1>4. \A i \in Job : task'[i] # "none" => job'[i] = job[i] /\ job[i].status = "running"
  BY <1>3 DEF CommandInv
<1>5. \A i \in Job : command'[i] = "alive" => job'[i] = job[i] /\ job[i].status = "running"
  BY <1>1, <1>2, <1>3 DEF CommandInv
<1>6. /\ driver'[o].stage # "out" /\ driver'[o].stage \notin {"killing", "marking"}
      /\ driver'[o].stage \in {"serving", "canceling", "stopping"}
  OBVIOUS
<1> QED
  BY <1>1, <1>4, <1>5, <1>6, DriverMoveKeepsCommands

LEMMA RecoveryKeepsCommands ==
    ASSUME FewFaults, TypeOK, CommandInv, NEW o \in Owner, RecoveryStep(o)
    PROVE  CommandInv'
<1>1. /\ Present(o) /\ UNCHANGED <<container, late, holder, task>>
      /\ driver[o] \in Driver /\ command \in [Job -> {"none", "alive", "ended"}]
      /\ job \in [Job -> JobRow]
  BY DEF RecoveryStep, ListStale, CheckBinding, KillStale, MarkStale, EndRecovery,
         RecoveryFails, Present, hostVars, TypeOK
<1>2. driver[o].stage \in {"acquired", "recovering", "killing", "marking"}
  BY DEF RecoveryStep, ListStale, CheckBinding, KillStale, MarkStale, EndRecovery,
         RecoveryFails
<1>3. \A j \in Job : task[j] = "none"
  BY <1>2, NoRecoveryBesideTask
<1>4. \A j \in Job : command[j] = "alive" => job[j].status = "running"
  BY DEF CommandInv
<1>5. ASSUME NEW d, SetDriver(o, d), d.stage # "out",
             d.stage \in {"killing", "marking"} => d.current \in Job,
             d.stage = "marking" => command'[d.current] # "alive",
             \A j \in Job : command'[j] = "alive" =>
                command[j] = "alive" /\ job'[j] = job[j]
      PROVE  CommandInv'
  <2>1. driver'[o] = d /\ \A p \in Owner \ {o} : driver'[p] = driver[p]
    BY <1>5, SetDriverMoves
  <2> QED
    BY <1>1, <1>3, <1>4, <1>5, <2>1, DriverMoveKeepsCommands
<1>6. CASE ListStale(o)
  <2>1. [driver[o] EXCEPT !.stage = "recovering",
                     !.todo = {j \in Job : job[j].status = "running" /\ job[j].owner # o}].stage
           = "recovering"
    BY <1>1 DEF Driver
  <2> QED
    BY <1>5, <1>6, <2>1 DEF ListStale, hostVars
<1>7. ASSUME NEW j \in Job, CheckBinding(o, j)
      PROVE  CommandInv'
  <2> DEFINE d == [driver[o] EXCEPT !.stage = IF Current THEN "killing" ELSE "marking",
                                    !.current = j, !.verdict = "failed"]
  <2>1. /\ d.stage \in {"killing", "marking"} /\ d.current = j
        /\ d.stage = "marking" => ~Current
    BY <1>1 DEF Driver
  <2>2. UNCHANGED <<job, command>> /\ SetDriver(o, d)
    BY <1>7 DEF CheckBinding, hostVars
  <2>3. ~Current => command[j] # "alive"
    BY DEF CommandInv
  <2> HIDE DEF d
  <2> QED
    BY <1>5, <2>1, <2>2, <2>3
<1>8. CASE KillStale(o)
  <2> DEFINE j == driver[o].current
  <2>1. j \in Job /\ UNCHANGED job
    BY <1>8 DEF CommandInv, KillStale
  <2>2. \/ command' = Terminated(j) /\ SetDriver(o, [driver[o] EXCEPT !.stage = "marking"])
        \/ /\ command[j] # "alive" /\ UNCHANGED command
           /\ SetDriver(o, [driver[o] EXCEPT !.stage = "marking",
                                             !.verdict = "recovery_required"])
    BY <1>8, <2>1, FewFaultsExclude DEF KillStale, CommandInv, Current
  <2>3. command'[j] # "alive" /\ \A i \in Job : command'[i] = "alive" => command[i] = "alive"
    BY <1>1, <2>1, <2>2 DEF Terminated, HasMarker
  <2>4. ASSUME NEW d \in {[driver[o] EXCEPT !.stage = "marking"],
                          [driver[o] EXCEPT !.stage = "marking",
                                            !.verdict = "recovery_required"]}
        PROVE  d.stage = "marking" /\ d.current = j
    BY <1>1, <2>4 DEF Driver
  <2> QED
    BY <1>5, <2>1, <2>2, <2>3, <2>4
<1>9. CASE MarkStale(o)
  <2> DEFINE j == driver[o].current
             d == [driver[o] EXCEPT !.stage = "recovering", !.todo = @ \ {j}, !.current = NoJob]
  <2>1. /\ j \in Job /\ command[j] # "alive" /\ UNCHANGED command /\ SetDriver(o, d)
        /\ \A i \in Job \ {j} : job'[i] = job[i]
    BY <1>1, <1>9 DEF MarkStale, CommandInv, hostVars, Settle
  <2>2. d.stage = "recovering"
    BY <1>1 DEF Driver
  <2> HIDE DEF d
  <2> QED
    BY <1>5, <2>1, <2>2
<1>10. ASSUME NEW stage \in {"serving", "done"}, Enter(o, stage), UNCHANGED <<job, command>>
       PROVE  CommandInv'
  <2>1. [driver[o] EXCEPT !.stage = stage, !.todo = {}].stage = stage
    BY <1>1 DEF Driver
  <2> QED
    BY <1>5, <1>10, <2>1 DEF Enter
<1> QED
  BY <1>6, <1>7, <1>8, <1>9, <1>10
     DEF RecoveryStep, EndRecovery, RecoveryFails, hostVars

\* A new acquisition finds the last one done, its tasks with it.
LEMMA AcquireKeepsCommands ==
    ASSUME FewFaults, TypeOK, CommandInv, NEW o \in Owner, Acquire(o)
    PROVE  CommandInv'
<1>1. /\ driver[o].stage = "out" /\ holder' = o
      /\ UNCHANGED <<job, container, command, late, task>>
      /\ driver'[o] = [driver[o] EXCEPT !.stage = "acquired", !.todo = {}]
      /\ \A p \in Owner \ {o} : driver'[p] = driver[p]
  BY SetDriverMoves DEF Acquire, Enter, hostVars
<1>2. driver'[o].stage = "acquired"
  BY <1>1 DEF TypeOK, Driver
<1>3. holder \in Owner => driver[holder].stage = "done"
  BY FewFaultsExclude DEF Acquire
<1>4. \A p \in Owner : ~Present(p)
  BY <1>3 DEF CommandInv, Present
<1>5. \A j \in Job : task[j] = "none"
  BY <1>4 DEF CommandInv, Present
<1>6. ASSUME NEW j \in Job, command[j] = "alive"
      PROVE  Tended(j)'
  <2>1. job[j].owner \in Owner /\ driver[job[j].owner].stage = "done"
    BY <1>5, <1>6 DEF CommandInv, Tended
  <2>2. job[j].owner # o
    BY <1>1, <2>1
  <2> QED
    BY <1>1, <1>5, <2>1, <2>2 DEF Tended
<1>7. \A p \in Owner : Present(p)' => holder' = p
  BY <1>1, <1>4 DEF Present
<1>8. \A p \in Owner : driver'[p].stage \notin {"killing", "marking"}
  BY <1>1, <1>2, <1>4 DEF Present
<1> QED
  BY <1>1, <1>5, <1>6, <1>7, <1>8 DEF CommandInv, Current

\* Only queued commands are claimed: they have no process yet.
LEMMA ClaimKeepsRunning ==
    ASSUME TypeOK, NEW o, NEW J \in SUBSET Claimable,
           job' = [j \in Job |-> IF j \in J
                      THEN [job[j] EXCEPT !.status = "running", !.owner = o] ELSE job[j]]
    PROVE  /\ KeepsRunning(job')
           /\ \A j \in J : job[j].status = "queued" /\ job'[j].status = "running"
                           /\ job'[j].owner = o
           /\ \A j \in Job \ J : job'[j] = job[j]
<1>1. \A j \in J : j \in Job /\ job[j].status = "queued" /\ job[j] \in JobRow
  BY DEF Claimable, Batch, Undelivered, TypeOK
<1>2. \A j \in J : job'[j] = [job[j] EXCEPT !.status = "running", !.owner = o]
  BY <1>1
<1>3. \A j \in J : job'[j].status = "running" /\ job'[j].owner = o
  BY <1>1, <1>2 DEF JobRow
<1>4. \A j \in Job \ J : job'[j] = job[j]
  OBVIOUS
<1>5. KeepsRunning(job')
  BY <1>1, <1>4 DEF KeepsRunning
<1> QED
  BY <1>1, <1>3, <1>4, <1>5

LEMMA ClaimKeepsCommands ==
    ASSUME TypeOK, CommandInv, NEW o \in Owner, ClaimJobs(o)
    PROVE  CommandInv'
<1>1. PICK J \in SUBSET Claimable :
         /\ job' = [j \in Job |-> IF j \in J
                       THEN [job[j] EXCEPT !.status = "running", !.owner = o] ELSE job[j]]
         /\ task' = [j \in Job |-> IF j \in J THEN "starting" ELSE task[j]]
  BY DEF ClaimJobs
<1>2. /\ KeepsRunning(job')
      /\ \A j \in J : job[j].status = "queued" /\ job'[j].status = "running"
                      /\ job'[j].owner = o
      /\ \A j \in Job \ J : job'[j] = job[j]
  BY <1>1, ClaimKeepsRunning
<1>3. UNCHANGED <<container, command, late, holder, driver>> /\ driver[o].stage = "serving"
  BY DEF ClaimJobs, Serves, hostVars
<1>4. \A j \in J : j \in Job
  BY DEF Claimable, Batch, Undelivered
<1>5. ASSUME NEW j \in Job, command[j] = "alive"
      PROVE  job'[j].status = "running" /\ job'[j].owner \in Owner /\ Tended(j)'
  <2>1. job[j].status = "running" /\ job[j].owner \in Owner /\ Tended(j)
    BY <1>5 DEF CommandInv
  <2>2. j \notin J
    BY <1>2, <2>1
  <2> QED
    BY <1>1, <1>2, <1>3, <2>1, <2>2 DEF Tended
<1>6. ASSUME NEW j \in Job, task'[j] # "none"
      PROVE  /\ job'[j].status = "running" /\ job'[j].owner \in Owner
             /\ driver[job'[j].owner].stage \in {"serving", "canceling", "stopping"}
             /\ task'[j] = "launching" /\ container.up => Current
  BY <1>1, <1>2, <1>3, <1>6 DEF CommandInv
<1> QED
  BY <1>3, <1>5, <1>6 DEF CommandInv, Present, Current

LEMMA DriverKeepsCommands ==
    ASSUME FewFaults, TypeOK, CommandInv, NEW o \in Owner, DriverStep(o)
    PROVE  CommandInv'
<1>0. /\ \A j \in Job : job[j] \in JobRow
      /\ driver[o] \in Driver
  BY DEF TypeOK
<1>1. ASSUME NEW stage \in Stage, NEW todo,
             SetDriver(o, [driver[o] EXCEPT !.stage = stage, !.todo = todo])
      PROVE  /\ driver'[o].stage = stage
             /\ \A p \in Owner \ {o} : driver'[p] = driver[p]
  <2> DEFINE d == [driver[o] EXCEPT !.stage = stage, !.todo = todo]
  <2>1. d.stage = stage
    BY <1>0 DEF Driver
  <2>2. SetDriver(o, d)
    BY <1>1
  <2> HIDE DEF d
  <2> QED
    BY <2>1, <2>2, SetDriverMoves
<1>2. CASE CancelOrphaned(o) \/ FailUnavailable(o)
  <2>1. PICK J \in SUBSET Job :
           /\ \A j \in J : job[j].status = "queued"
           /\ job' = Settle(J, "canceled") \/ job' = Settle(J, "failed")
    BY <1>2 DEF CancelOrphaned, FailUnavailable
  <2>2. \A j \in Job \ J : job'[j] = job[j]
    BY <2>1 DEF Settle
  <2>3. KeepsRunning(job')
    BY <2>1, <2>2 DEF KeepsRunning
  <2> QED
    BY <1>2, <2>3, QuietKeepsCommands DEF CancelOrphaned, FailUnavailable
<1>3. CASE ResumeWaiting(o)
  <2>1. \A j \in Job : job'[j] = job[j] \/ job'[j] = [job[j] EXCEPT !.disposition = "delivered"]
    BY <1>3 DEF ResumeWaiting, QueueContinuation
  <2>2. KeepsRunning(job')
    BY <1>0, <2>1 DEF KeepsRunning, JobRow
  <2> QED
    BY <1>3, <2>2, QuietKeepsCommands DEF ResumeWaiting
<1>4. CASE BeginCancels(o)
  <2> DEFINE J == {j \in Job : RowIsOwned(o, j) /\ job[j].cancel}
  <2>1. /\ Present(o) /\ UNCHANGED <<job, hostVars, holder>> /\ MayCancel(J)
        /\ task' = Canceled(J)
        /\ SetDriver(o, [driver[o] EXCEPT !.stage = "canceling", !.todo = J])
    BY <1>4 DEF BeginCancels, Present, Serves
  <2>2. KeepsRunning(job') /\ \A j \in J : job[j].owner = o
    BY <2>1 DEF KeepsRunning, RowIsOwned
  <2> HIDE DEF J
  <2>3. J \in SUBSET Job
    BY DEF J
  <2> QED
    BY <1>1, <2>1, <2>2, <2>3, StageNames, CancelingKeepsCommands
<1>5. CASE BeginStop(o) \/ ClaimFails(o)
  <2>1. /\ Stop(o, Tasks(o)) /\ UNCHANGED <<hostVars, holder>>
        /\ Present(o) /\ KeepsRunning(job')
    <3>1. CASE BeginStop(o)
      BY <3>1 DEF BeginStop, Stop, Present, KeepsRunning
    <3>2. CASE ClaimFails(o)
      <4>1. KeepsRunning(job')
        BY <3>2, ClaimKeepsRunning DEF ClaimFails
      <4> QED
        BY <3>2, <4>1 DEF ClaimFails, Stop, Present
    <3> QED
      BY <1>5, <3>1, <3>2
  <2>2. /\ MayCancel(Tasks(o)) /\ task' = Canceled(Tasks(o))
        /\ SetDriver(o, [driver[o] EXCEPT !.stage = "stopping", !.todo = Tasks(o)])
    BY <2>1 DEF Stop
  <2>3. Tasks(o) \in SUBSET Job /\ \A j \in Tasks(o) : job[j].owner = o
    BY DEF Tasks
  <2> QED
    BY <1>1, <2>1, <2>2, <2>3, StageNames, CancelingKeepsCommands
<1>6. ASSUME NEW j \in Job, FinishCanceled(o, j) \/ FinishStopped(o, j)
      PROVE  CommandInv'
  <2>1. /\ UNCHANGED <<hostVars, task, holder>>
        /\ driver[o].stage \in {"canceling", "stopping"}
        /\ job[j].owner = o => task[j] = "none"
        /\ FinishOwned(o, j, "canceled") \/ FinishOwned(o, j, "failed")
        /\ SetDriver(o, [driver[o] EXCEPT !.todo = @ \ {j}])
    BY <1>6 DEF FinishCanceled, FinishStopped, Tasks
  <2>2. /\ driver'[o].stage = driver[o].stage
        /\ \A p \in Owner \ {o} : driver'[p] = driver[p]
    BY <1>0, <2>1, SetDriverMoves DEF Driver
  <2>3. Present(o)
    BY <2>1 DEF Present
  <2> QED
    BY <2>1, <2>2, <2>3, FinishKeepsCommands
<1>7. CASE EndCancels(o) \/ EndStop(o)
  <2>1. /\ UNCHANGED <<job, container, command, late, task, holder>> /\ Present(o)
        /\ \/ Enter(o, "serving")
           \/ Enter(o, "done") /\ \A j \in Job : job[j].owner = o => task[j] = "none"
    BY <1>7 DEF EndCancels, EndStop, Present, hostVars, Tasks
  <2>2. /\ \A p \in Owner \ {o} : driver'[p] = driver[p]
        /\ \/ driver'[o].stage = "serving"
           \/ /\ driver'[o].stage = "done"
              /\ \A j \in Job : job[j].owner = o => task[j] = "none"
    BY <1>1, <2>1, StageNames DEF Enter
  <2>3. \A j \in Job : /\ task[j] # "none" => job[j].status = "running"
                       /\ command[j] = "alive" => job[j].status = "running"
    BY DEF CommandInv
  <2> QED
    BY <2>1, <2>2, <2>3, DriverMoveKeepsCommands
<1>8. CASE Crash(o)
  <2>1. /\ UNCHANGED <<job, container, command, holder>> /\ Present(o) /\ Enter(o, "done")
        /\ \A j \in Job : IF job[j].owner = o THEN task'[j] = "none" ELSE task'[j] = task[j]
    BY <1>8 DEF Crash, Present
  <2>2. UNCHANGED late
    BY <1>8 DEF Crash, CommandInv
  <2>3. driver'[o].stage = "done" /\ \A p \in Owner \ {o} : driver'[p] = driver[p]
    BY <1>1, <2>1, StageNames DEF Enter
  <2>4. \A j \in Job : /\ task[j] # "none" => job[j].status = "running"
                       /\ command[j] = "alive" => job[j].status = "running"
    BY DEF CommandInv
  <2> QED
    BY <2>1, <2>2, <2>3, <2>4, DriverMoveKeepsCommands
<1> QED
  BY <1>2, <1>3, <1>4, <1>5, <1>6, <1>7, <1>8,
     RecoveryKeepsCommands, AcquireKeepsCommands, ClaimKeepsCommands
     DEF DriverStep, CancelStep, StopStep

LEMMA NextCommands ==
    ASSUME FewFaults, TypeOK, CommandInv, [Next]_vars
    PROVE  CommandInv'
<1>1. CASE RunStep
  <2>1. UNCHANGED <<hostVars, task, holder, driver>>
    BY <1>1 DEF RunStep, StartAttempt, FinishAttempt, InterruptAttempt, CancelRunJobs,
       EndRun, AbandonEnding, ResumeRun, CreateJob, CancelJob, ResolveJob
  <2> QED
    BY <1>1, <2>1, RunStepKeepsRunning, QuietKeepsCommands
<1>2. CASE UNCHANGED vars
  BY <1>2, QuietKeepsCommands DEF vars, hostVars, KeepsRunning
<1> QED
  BY <1>1, <1>2, HostKeepsCommands, TaskKeepsCommands, DriverKeepsCommands DEF Next

\* When a Run is given the result of a command, the command has stopped: for any
\* number of commands and acquisitions, across crashes, shutdowns, database errors
\* and restarts of the container (async_jobs.py, fail_stale_running_job and the
\* finally block of _run_owned_jobs).  Excluded are the faults that take the
\* evidence away: an overlap of two processes, a status check that fails, a kill
\* that fails, a launch that comes late, and a driver stopped amid a termination.
THEOREM DeliveredCommandHasStoppedAlways ==
    ASSUME Faults \subseteq {"db_error"}
    PROVE  Spec => []DeliveredCommandHasStopped
<1>1. Init => CommandInv
  BY DEF Init, CommandInv, Present
<1>2. TypeOK /\ CommandInv /\ [Next]_vars => CommandInv'
  BY NextCommands DEF FewFaults
<1>3. CommandInv /\ DeliveryInv => DeliveredCommandHasStopped
  BY DEF CommandInv, DeliveryInv, DeliveredCommandHasStopped, Deliverable
<1>4. Init => DeliveryInv
  BY InitDelivery
<1>5. TypeOK /\ TypeOK' /\ DeliveryInv /\ [Next]_vars => DeliveryInv'
  BY DeliveryStep
<1> QED
  BY <1>1, <1>2, <1>3, <1>4, <1>5, TypeCorrect, PTL DEF Spec

=============================================================================
