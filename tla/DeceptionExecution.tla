------------------------- MODULE DeceptionExecution -------------------------
(***************************************************************************)
(* service/deception/environments.py and executions.py: the environments,  *)
(* their revisions and the executors that apply a revision's steps to a    *)
(* sandbox container, roll them back, and recover what another process     *)
(* left half done; composed with the containers (SandboxContainers).       *)
(*                                                                         *)
(* An executor works under the lease "deception-revision:<id>", which      *)
(* FencedResource describes: it is held by one executor at a time, and a   *)
(* crashed executor's lease can be taken over (the recovery waits longer   *)
(* than the lease lives).  Every transaction is a step, and so is every    *)
(* call of Docker or of a command in the container.  A request that is     *)
(* refused changes nothing and is not a step.                              *)
(***************************************************************************)
EXTENDS SandboxContainers

CONSTANTS
    Env,        \* deception environments, each with its Console session
    Rev,        \* revision ids, 1..MaxRevision
    Steps,      \* steps of a revision
    Node,       \* processes that execute revisions
    Mortal,     \* nodes that may crash
    MaxCrashes  \* bound on the crashes of a node, for TLC

INSTANCE DeceptionLifecycle

ASSUME NodeAssumption == Node \subseteq Actor /\ Mortal \subseteq Node /\ Env \subseteq Session
ASSUME RevAssumption == Rev \subseteq Nat /\ Nothing \notin Rev
ASSUME StepsAssumption == Steps \in Nat \ {0} /\ MaxCrashes \in Nat

\* docker_error: a Docker call or a status inspection fails; exits: a container
\* exits by itself; command_fails: an apply, verify or rollback command fails;
\* cancel_provision: the executor is canceled inside _provision_initial_revision,
\* or dies between the creation of the container and its binding; bind_race: an
\* operator removes a container that an environment is about to bind, or creates an
\* environment with it; commands: a Run's command looks at its container.
ASSUME FaultsAssumption ==
    Faults \subseteq {"docker_error", "exits", "command_fails", "cancel_provision",
                      "bind_race", "commands"}

VARIABLES
    env,        \* deception_environments
    rev,        \* deception_revisions
    step,       \* deception_revision_steps: the status, per revision and sequence
    effect,     \* per container: the steps whose apply command is in effect
    exec,       \* per node: the executor, which holds its revision's lease
    todo,       \* per node: interrupted revisions its startup has still to recover
    crashes     \* per node: how often it crashed

envVars == <<env, rev, step>>
execVars == <<effect, exec, todo, crashes>>
vars == <<boxVars, envVars, execVars>>

RevisionStatus == {"absent", "planned", "pending_approval", "executing", "applied",
                   "rolling_back", "rolled_back", "failed", "recovery_required", "rejected"}
StepStatus == {"pending", "applying", "applied", "verifying", "verified", "rolling_back",
               "rolled_back", "failed", "rollback_failed"}

\* Where an executor is.  "claimed" to "started": up to the end of
\* _provision_initial_revision; "failing", "failed": _fail_claimed_revision before and
\* after the deletion; "ready" to "verifying": _apply_and_verify of step exec.step, or
\* _complete after the last; "rollback" to "settling": _rollback.
Stage == {"idle", "dead", "claimed", "created", "bound", "started", "failing", "failed",
          "ready", "begun", "ran", "applied", "verifying",
          "rollback", "rolling", "marked", "undone", "releasing", "settling"}

\* ok: how the last command or deletion went; failed: some step was not rolled back.
Executor == [at : Stage, rev : Rev \cup {Nothing}, box : Box \cup {Nothing}, gen : Nat,
             step : 1..(Steps + 1), ok : BOOLEAN, failed : BOOLEAN]
NoExecutor == [at |-> "idle", rev |-> Nothing, box |-> Nothing, gen |-> 0, step |-> 1,
               ok |-> TRUE, failed |-> FALSE]

NoEnvironment == [status |-> "absent", applied |-> Nothing, active |-> Nothing,
                  box |-> Nothing, platform |-> TRUE]

TypeOK ==
    /\ BoxTypeOK
    /\ \A c \in Box : box[c].rev \in Rev \cup {Nothing}
    /\ env \in [Env -> Lifecycle \cup {NoEnvironment}]
    /\ rev \in [Rev -> [env : Env \cup {Nothing}, kind : {"initial", "adaptive"},
                        status : RevisionStatus, box : Box \cup {Nothing}]]
    /\ step \in [Rev -> [1..Steps -> StepStatus]]
    /\ effect \in [Box -> SUBSET (Rev \X (1..Steps))]
    /\ exec \in [Node -> Executor]
    /\ todo \in [Node -> SUBSET (Rev \X {"executing", "rolling_back"})]
    /\ crashes \in [Node -> 0..MaxCrashes]

Init ==
    /\ BoxInit
    /\ env = [e \in Env |-> NoEnvironment]
    /\ rev = [r \in Rev |-> [env |-> Nothing, kind |-> "initial", status |-> "absent",
                             box |-> Nothing]]
    /\ step = [r \in Rev |-> [k \in 1..Steps |-> "pending"]]
    /\ effect = [c \in Box |-> {}]
    /\ exec = [n \in Node |-> NoExecutor]
    /\ todo = [n \in Node |-> {}]
    /\ crashes = [n \in Node |-> 0]

-----------------------------------------------------------------------------
(* Containers outside of a revision.                                       *)

Bound(c) == \E e \in Env : env[e].box = c

\* The container page: create_sandbox_container without a revision.
CreateOperatorBox(c) ==
    /\ Actor # Node
    /\ CreateBox(c, Nothing)
    /\ UNCHANGED <<envVars, execVars>>

Provisioning(c) == box[c].rev # Nothing /\ rev[box[c].rev].status = "executing"

\* Requests of an operator; remove_sandbox_container refuses a bound container.
OperatorBegins(a, kind, c) ==
    /\ a \notin Node /\ kind # "delete"
    /\ kind = "start" => docker[c].boots < MaxGen /\ box[c].gen < MaxGen
    /\ kind = "remove" => ~Bound(c) /\ ("bind_race" \in Faults \/ ~Provisioning(c))
    /\ BeginMutation(a, kind, c)
    /\ UNCHANGED <<envVars, execVars>>

\* A container that is gone takes what was applied to it along.
DockerIsCalled(a) ==
    /\ CallDocker(a)
    /\ effect' = [c \in Box |-> IF docker'[c].status = "none" THEN {} ELSE effect[c]]
    /\ UNCHANGED <<envVars, exec, todo, crashes>>

OperatorFinishes(a) ==
    /\ a \notin Node
    /\ FinishMutation(a) \/ FinishRemoval(a)
    /\ UNCHANGED <<envVars, execVars>>

MonitorSteps ==
    /\ LoadSnapshots \/ \E c \in Box : SyncStatus(c) \/ ContainerExits(c) \/ SaveNoted(c)
    /\ UNCHANGED <<envVars, execVars>>

SessionSteps ==
    /\ \/ \E s \in Session : AdmitRun(s) \/ \E c \in Box : s \notin Env /\ SelectBox(s, c)
       \/ \E r \in agentRun : EndRun(r) \/ \E inspectable \in BOOLEAN : ObserveDown(r, inspectable)
    /\ UNCHANGED <<envVars, execVars>>

-----------------------------------------------------------------------------
(* environments.py.                                                        *)

\* set_environment_session_sandbox_container, in the caller's transaction
SelectForEnvironment(e, c, g) ==
    selected' = [selected EXCEPT ![e] = [box |-> c, gen |-> g]]

\* The row of an environment that is created, with container c or with none.
NewEnvironment(c) == [NoEnvironment EXCEPT !.status = "draft", !.box = c, !.platform = c = Nothing]

\* create_deception_environment, platform managed.
CreateEnvironment(e) ==
    /\ env[e].status = "absent"
    /\ env' = [env EXCEPT ![e] = NewEnvironment(Nothing)]
    /\ UNCHANGED <<boxVars, rev, step, execVars>>

\* create_deception_environment with a container that is running and not bound; the
\* container's row is locked, its advisory lock is not taken.
AdoptBox(e, c) ==
    /\ env[e].status = "absent"
    /\ box[c].status = "running" /\ ~Bound(c)
    /\ \/ "bind_race" \in Faults
       \/ /\ ~Provisioning(c)
          /\ ~\E a \in Actor : op[a].kind = "remove" /\ op[a].box = c
    /\ env' = [env EXCEPT ![e] = NewEnvironment(c)]
    /\ SelectForEnvironment(e, c, box[c].gen)
    /\ UNCHANGED <<box, docker, mutex, op, seen, noted, agentRun, bootOf, rev, step, execVars>>

\* _requires_approval, and the manual mode of the environment; risky: what either says
\* of the request.  An initial revision is never asked for.
RequiresApproval(kind, risky) == kind = "adaptive" /\ risky

\* The revision that is written for environment e.
NewRevision(e, risky) ==
    [env |-> e, kind |-> PlannedKind(env[e]), box |-> env[e].box,
     status |-> IF RequiresApproval(PlannedKind(env[e]), risky)
                THEN "pending_approval" ELSE "planned"]

\* plan_deception_revision: the next version.
PlanRevision(e, r, risky) ==
    /\ CanPlan(env[e])
    /\ rev[r].status = "absent" /\ \A q \in Rev : q < r => rev[q].status # "absent"
    /\ env[e].box # Nothing => box[env[e].box].status = "running"
    /\ rev' = [rev EXCEPT ![r] = NewRevision(e, risky)]
    /\ env' = [env EXCEPT ![e] = Planned(@, r)]
    /\ UNCHANGED <<boxVars, step, execVars>>

\* decide_deception_revision
DecideRevision(r, approve) ==
    LET e == rev[r].env IN
    /\ rev[r].status = "pending_approval"
    /\ IsActive(env[e], r)
    /\ rev' = [rev EXCEPT ![r].status = IF approve THEN "planned" ELSE "rejected"]
    /\ env' = IF approve THEN env ELSE [env EXCEPT ![e] = Baseline(@)]
    /\ UNCHANGED <<boxVars, step, execVars>>

\* set_deception_environment_status
SetEnvironmentStatus(e, status) ==
    /\ status \in Allowed(env[e].status)
    /\ env' = [env EXCEPT ![e].status = status]
    /\ UNCHANGED <<boxVars, rev, step, execVars>>

-----------------------------------------------------------------------------
(* The executor: claims and recovery.                                      *)

LeaseFree(r) == ~\E n \in Node : exec[n].rev = r
At(n, stage) == exec' = [exec EXCEPT ![n].at = stage]
EnvOf(n) == rev[exec[n].rev].env

\* container_generation of a claim
Generation(c) == IF c = Nothing THEN 0 ELSE box[c].gen

\* The executor is through; its startup's listing is rid of the revision.
Done(n) ==
    /\ exec' = [exec EXCEPT ![n] = NoExecutor]
    /\ todo' = [todo EXCEPT ![n] = {t \in @ : t[1] # exec[n].rev}]

\* The executor of n is given revision r and the container that was resolved for it.
Given(n, r, c, stage) ==
    exec' = [exec EXCEPT ![n] = [NoExecutor EXCEPT
        !.at = stage, !.rev = r, !.box = c, !.gen = Generation(c)]]

\* _resolve_execution_container: the container of the revision or of its environment,
\* {Nothing} when there is none yet; no answer when it raises.
Resolved(r) ==
    LET e == rev[r].env
        known == ({rev[r].box, env[e].box} \cup {c \in Box : box[c].rev = r}) \ {Nothing}
    IN  IF known = {} THEN {Nothing}
        ELSE {c \in known : /\ known = {c}
                            /\ IF rev[r].kind = "initial" /\ env[e].platform
                               THEN box[c].rev = r ELSE env[e].box = c}

\* execute_deception_revision: _claim_revision under the revision's lease.
Claim(n, r) ==
    LET e == rev[r].env IN
    /\ exec[n].at = "idle" /\ todo[n] = {} /\ LeaseFree(r)
    /\ rev[r].status = "planned" /\ IsActive(env[e], r)
    /\ \A k \in 1..Steps : step[r][k] = "pending"
    /\ rev[r].kind = "initial" <=> env[e].applied = Nothing
    /\ \E c \in Resolved(r) :
         /\ IF c = Nothing THEN rev[r].kind = "initial"
            ELSE env[e].box # Nothing /\ box[c].status = "running"
         /\ rev' = [rev EXCEPT ![r].status = "executing",
                                ![r].box = IF c = Nothing THEN @ ELSE c]
         /\ Given(n, r, c, IF c = Nothing THEN "claimed" ELSE "ready")
    /\ env' = [env EXCEPT ![e] = Resumed(@)]
    /\ UNCHANGED <<boxVars, step, effect, todo, crashes>>

\* _claim_rollback_recovery
RecoveryClaimed(n, r) ==
    LET e == rev[r].env IN
    /\ rev[r].status = "recovery_required" /\ CanRecover(env[e], r)
    /\ \E c \in Resolved(r) : Given(n, r, c, "rollback")
    /\ rev' = [rev EXCEPT ![r].status = "rolling_back"]
    /\ env' = [env EXCEPT ![e] = Resumed(@)]

\* recover_deception_revision_rollback: it does not wait for the revision's lease, and
\* what it claims goes to _rollback.
ClaimRecovery(n, r) ==
    /\ exec[n].at = "idle" /\ todo[n] = {} /\ LeaseFree(r)
    /\ RecoveryClaimed(n, r)
    /\ UNCHANGED <<boxVars, step, effect, todo, crashes>>

\* The process dies; its database session goes with it, and its leases run out.
Crash(n) ==
    /\ n \in Mortal /\ exec[n].at # "dead" /\ crashes[n] < MaxCrashes
    /\ exec[n].at = "created" => "cancel_provision" \in Faults
    /\ crashes' = [crashes EXCEPT ![n] = @ + 1]
    /\ exec' = [exec EXCEPT ![n] = [NoExecutor EXCEPT !.at = "dead"]]
    /\ todo' = [todo EXCEPT ![n] = {}]
    /\ mutex' = [c \in Box |-> IF mutex[c] = n THEN Nothing ELSE mutex[c]]
    /\ op' = [op EXCEPT ![n] = NoOp]
    /\ UNCHANGED <<box, docker, seen, noted, selected, agentRun, bootOf, envVars, effect>>

\* Mutant: interrupted rollbacks are not listed.
ListingOfExecuting == {t \in Rev \X {"executing"} : rev[t[1]].status = t[2]}

\* The revisions that recover_interrupted_deception_revisions selects.
Listing == {t \in Rev \X {"executing", "rolling_back"} : rev[t[1]].status = t[2]}

\* recover_interrupted_deception_revisions, at startup: the listing is made once, and
\* only if no other node is at its own recovery.
Boot(n) ==
    /\ exec[n].at = "dead"
    /\ At(n, "idle")
    /\ todo' = [todo EXCEPT ![n] = IF \E m \in Node : todo[m] # {} THEN {} ELSE Listing]
    /\ UNCHANGED <<boxVars, envVars, effect, crashes>>

\* _restore_unstarted_revision: nothing was executed and the container still runs.
Restorable(r, c) ==
    /\ rev[r].status = "executing"
    /\ \A k \in 1..Steps : step[r][k] = "pending"
    /\ c # Nothing => env[rev[r].env].box = c /\ box[c].status = "running"

\* _mark_interrupted_recovery_required
MarkRecoveryRequired(r) ==
    /\ rev' = [rev EXCEPT ![r].status = "recovery_required"]
    /\ env' = [env EXCEPT ![rev[r].env] = Stuck(@)]

\* _recover_interrupted_revision.  The wait for the lease outlasts a dead holder's
\* lease; a live holder keeps it and the revision is left to it.
Recover(n) ==
    \E t \in todo[n] : LET r == t[1]  e == rev[r].env IN
    /\ exec[n].at = "idle"
    /\ IF ~LeaseFree(r) \/ env[e].active # r
       THEN /\ todo' = [todo EXCEPT ![n] = @ \ {t}]
            /\ UNCHANGED <<selected, env, rev, exec>>
       ELSE IF Resolved(r) = {}
       THEN /\ todo' = [todo EXCEPT ![n] = @ \ {t}]
            /\ MarkRecoveryRequired(r)
            /\ UNCHANGED <<selected, exec>>
       ELSE \E c \in Resolved(r) :
            IF t[2] = "executing" /\ Restorable(r, c)
            THEN /\ todo' = [todo EXCEPT ![n] = @ \ {t}]
                 /\ rev' = [rev EXCEPT ![r].status = "planned"]
                 /\ env' = [env EXCEPT ![e] = Resumed(@)]
                 /\ IF c = Nothing THEN UNCHANGED selected
                    ELSE SelectForEnvironment(e, c, box[c].gen)
                 /\ UNCHANGED exec
            ELSE Given(n, r, c, "rollback") /\ UNCHANGED <<selected, todo, env, rev>>
    /\ UNCHANGED <<box, docker, mutex, op, seen, noted, agentRun, bootOf, step, effect, crashes>>

-----------------------------------------------------------------------------
(* _provision_initial_revision and _fail_claimed_revision.                 *)

\* create_sandbox_container for the revision; a failure has nothing to clean up.
Provision(n) ==
    /\ exec[n].at = "claimed"
    /\ \/ \E c \in Box :
            /\ CreateBox(c, exec[n].rev)
            /\ exec' = [exec EXCEPT ![n].at = "created", ![n].box = c]
       \/ "docker_error" \in Faults /\ At(n, "failing") /\ UNCHANGED boxVars
    /\ UNCHANGED <<envVars, effect, todo, crashes>>

\* uq_deception_environment_container: a second environment with the container fails.
BoundElsewhere(e, c) == \E d \in Env \ {e} : env[d].box = c

\* _bind_initial_container
BindBox(n) ==
    LET r == exec[n].rev  e == EnvOf(n)  c == exec[n].box IN
    /\ exec[n].at = "created"
    /\ IF /\ rev[r].status = "executing" /\ env[e].active = r
          /\ env[e].box = Nothing /\ box[c].rev = r /\ ~BoundElsewhere(e, c)
       THEN /\ env' = [env EXCEPT ![e].box = c]
            /\ rev' = [rev EXCEPT ![r].box = c]
            /\ At(n, "bound")
       ELSE At(n, "failing") /\ UNCHANGED <<env, rev>>
    /\ UNCHANGED <<boxVars, step, effect, todo, crashes>>

\* start_sandbox_container takes the container's lock, or refuses.
StartBox(n) ==
    LET c == exec[n].box IN
    /\ exec[n].at = "bound"
    /\ \/ BeginMutation(n, "start", c) /\ UNCHANGED exec
       \/ /\ op[n].stage = "out" /\ mutex[c] = Nothing /\ ~Mutable("start", c)
          /\ At(n, "failing") /\ UNCHANGED boxVars
    /\ UNCHANGED <<envVars, effect, todo, crashes>>

BoxStarted(n) ==
    /\ exec[n].at = "bound" /\ FinishMutation(n)
    /\ exec' = [exec EXCEPT
         ![n].at = IF op[n].ok /\ box'[exec[n].box].status = "running" THEN "started"
                   ELSE "failing",
         ![n].gen = box'[exec[n].box].gen]
    /\ UNCHANGED <<envVars, effect, todo, crashes>>

\* _bind_initial_session_container
BindSession(n) ==
    LET r == exec[n].rev  e == EnvOf(n)  c == exec[n].box IN
    /\ exec[n].at = "started"
    /\ IF /\ rev[r].status = "executing" /\ env[e].active = r
          /\ env[e].box = c /\ rev[r].box = c /\ box[c].rev = r /\ box[c].status = "running"
       THEN SelectForEnvironment(e, c, box[c].gen) /\ At(n, "ready")
       ELSE At(n, "failing") /\ UNCHANGED selected
    /\ UNCHANGED <<box, docker, mutex, op, seen, noted, agentRun, bootOf, envVars, effect, todo, crashes>>

\* delete_revision_sandbox_container: the container belongs to the active revision.
Deletable(n) ==
    LET c == exec[n].box  l == env[EnvOf(n)] IN
    l.active = exec[n].rev /\ l.box \in {Nothing, c} /\ box[c].rev = exec[n].rev

\* Mutant: a deletion that failed is taken for done.
DeletedAnyway(n, ok) ==
    exec' = [exec EXCEPT ![n].at = IF @ = "failing" THEN "failed" ELSE "settling", ![n].ok = TRUE]

\* The deletion returns: to _fail_claimed_revision or to _rollback.
Deleted(n, ok) ==
    exec' = [exec EXCEPT ![n].at = IF @ = "failing" THEN "failed" ELSE "settling",
                         ![n].ok = ok, ![n].failed = @ \/ ~ok]

\* Its first half, under the container's lock.
DeleteBox(n) ==
    LET c == exec[n].box IN
    /\ exec[n].at \in {"failing", "releasing"} /\ op[n].stage = "out"
    /\ IF c = Nothing THEN Deleted(n, TRUE) /\ UNCHANGED boxVars
       ELSE /\ mutex[c] = Nothing
            /\ IF box[c].status = "removed" THEN Deleted(n, TRUE) /\ UNCHANGED boxVars
               ELSE IF Deletable(n) /\ ~HasNonterminalRun(c)
               THEN BeginMutation(n, "delete", c) /\ UNCHANGED exec
               ELSE Deleted(n, FALSE) /\ UNCHANGED boxVars
    /\ UNCHANGED <<envVars, effect, todo, crashes>>

\* Its last transaction: the row and the environment let go of each other.
BoxDeleted(n) ==
    LET c == exec[n].box  e == EnvOf(n)  ok == op[n].ok /\ Deletable(n) IN
    /\ op[n].stage = "acted" /\ op[n].kind = "delete"
    /\ Released(n)
    /\ IF ok THEN RemoveRow(c) /\ env' = [env EXCEPT ![e].box = Nothing]
       ELSE UNCHANGED <<box, selected, env>>
    /\ Deleted(n, ok)
    /\ UNCHANGED <<docker, seen, noted, agentRun, bootOf, rev, step, effect, todo, crashes>>

\* The claim as it was before provisioning goes to _rollback.
GiveUp(n) == exec' = [exec EXCEPT ![n].at = "rollback", ![n].box = Nothing]

\* The last transaction of _fail_claimed_revision, or its refusal.
SettleFailure(n) ==
    LET r == exec[n].rev  e == EnvOf(n)  c == exec[n].box IN
    /\ exec[n].at = "failed"
    /\ IF ~IsActive(env[e], r) \/ (~exec[n].ok /\ BoundElsewhere(e, c))
       THEN GiveUp(n) /\ UNCHANGED <<rev, env, todo>>
       ELSE /\ IF exec[n].ok
               THEN /\ rev' = [rev EXCEPT ![r].status = "failed"]
                    /\ env' = [env EXCEPT ![e] = Baseline(@)]
               ELSE /\ rev' = [rev EXCEPT ![r].status = "recovery_required", ![r].box = c]
                    /\ env' = [env EXCEPT ![e] = Stuck([@ EXCEPT !.box = c])]
            /\ Done(n)
    /\ UNCHANGED <<boxVars, step, effect, crashes>>

-----------------------------------------------------------------------------
(* _apply_and_verify and _complete.                                        *)

SetStep(n, k, status) == step' = [step EXCEPT ![exec[n].rev][k] = status]

\* copy_reference_bundle_to_container fails before the first step of an initial revision.
CopyFails(n) ==
    /\ exec[n].at = "ready" /\ exec[n].step = 1
    /\ rev[exec[n].rev].kind = "initial" /\ "docker_error" \in Faults
    /\ At(n, "rollback")
    /\ UNCHANGED <<boxVars, envVars, effect, todo, crashes>>

BeginStep(n) ==
    /\ exec[n].at = "ready" /\ exec[n].step <= Steps
    /\ SetStep(n, exec[n].step, "applying")
    /\ At(n, "begun")
    /\ UNCHANGED <<boxVars, env, rev, effect, todo, crashes>>

\* What a command meets that execute_sandbox_container_command lets through.
RowFits(n) == box[exec[n].box].status = "running" /\ box[exec[n].box].gen = exec[n].gen
Reachable(n) == RowFits(n) /\ docker[exec[n].box].status = "running"

\* The command raises: the row does not fit, or its state is observed, saved and found
\* not to be running (in one step here; with a late save in ObserveDown and SaveNoted).
CommandRaises(n) ==
    /\ exec[n].box = Nothing \/ ~Reachable(n)
    /\ IF exec[n].box # Nothing /\ RowFits(n)
       THEN SaveObserved(exec[n].box, "running", TRUE) ELSE UNCHANGED <<box, selected, bootOf>>
    /\ UNCHANGED <<docker, mutex, op, seen, noted, agentRun>>

\* The apply command: done, failed with or without effect, or not run at all.
Apply(n) ==
    LET c == exec[n].box  done == effect[c] \cup {<<exec[n].rev, exec[n].step>>} IN
    /\ exec[n].at = "begun"
    /\ \/ /\ Reachable(n)
          /\ \/ effect' = [effect EXCEPT ![c] = done] /\ exec' = [exec EXCEPT ![n].at = "ran"]
             \/ /\ "command_fails" \in Faults
                /\ \E left \in {effect[c], done} : effect' = [effect EXCEPT ![c] = left]
                /\ exec' = [exec EXCEPT ![n].at = "ran", ![n].ok = FALSE]
          /\ UNCHANGED boxVars
       \/ CommandRaises(n) /\ At(n, "rollback") /\ UNCHANGED effect
    /\ UNCHANGED <<envVars, todo, crashes>>

RecordApply(n) ==
    /\ exec[n].at = "ran"
    /\ SetStep(n, exec[n].step, IF exec[n].ok THEN "applied" ELSE "failed")
    /\ At(n, IF exec[n].ok THEN "applied" ELSE "rollback")
    /\ UNCHANGED <<boxVars, env, rev, effect, todo, crashes>>

BeginVerify(n) ==
    /\ exec[n].at = "applied"
    /\ SetStep(n, exec[n].step, "verifying")
    /\ At(n, "verifying")
    /\ UNCHANGED <<boxVars, env, rev, effect, todo, crashes>>

\* The verify command changes nothing in the container; its outcome is recorded.
Verify(n) ==
    /\ exec[n].at = "verifying"
    /\ \/ /\ Reachable(n)
          /\ SetStep(n, exec[n].step, "verified")
          /\ exec' = [exec EXCEPT ![n].at = "ready", ![n].step = @ + 1]
          /\ UNCHANGED boxVars
       \/ /\ Reachable(n) /\ "command_fails" \in Faults
          /\ SetStep(n, exec[n].step, "failed")
          /\ At(n, "rollback")
          /\ UNCHANGED boxVars
       \/ CommandRaises(n) /\ At(n, "rollback") /\ UNCHANGED step
    /\ UNCHANGED <<env, rev, effect, todo, crashes>>

\* _complete, or its refusal.
Complete(n) ==
    LET r == exec[n].rev  e == EnvOf(n)  c == exec[n].box IN
    /\ exec[n].at = "ready" /\ exec[n].step > Steps
    /\ IF /\ rev[r].status = "executing" /\ CanApply(env[e], r)
          /\ \A k \in 1..Steps : step[r][k] = "verified"
          /\ env[e].box = c /\ rev[r].box = c
       THEN /\ rev' = [rev EXCEPT ![r].status = "applied"]
            /\ env' = [env EXCEPT ![e] = Applied(@, r)]
            /\ box' = IF rev[r].kind = "initial" THEN [box EXCEPT ![c].rev = Nothing] ELSE box
            /\ Done(n)
       ELSE At(n, "rollback") /\ UNCHANGED <<rev, env, box, todo>>
    /\ UNCHANGED <<docker, mutex, op, seen, noted, selected, agentRun, bootOf, step, effect, crashes>>

\* CancelledError: _rollback runs shielded, with the claim as it was before provisioning
\* if that has not returned.
Cancel(n) ==
    /\ op[n].stage = "out"
    /\ \/ /\ exec[n].at \in {"claimed", "created", "bound", "started", "failing", "failed"}
          /\ "cancel_provision" \in Faults
          /\ GiveUp(n)
       \/ /\ exec[n].at \in {"ready", "begun", "ran", "applied", "verifying"}
          /\ At(n, "rollback")
    /\ UNCHANGED <<boxVars, envVars, effect, todo, crashes>>

-----------------------------------------------------------------------------
(* _rollback: the steps that were begun, from the last to the first.       *)

BeginRollback(n) ==
    LET r == exec[n].rev  e == EnvOf(n) IN
    /\ exec[n].at = "rollback"
    /\ IF env[e].active = r /\ rev[r].status \in {"executing", "rolling_back", "recovery_required"}
       THEN /\ rev' = [rev EXCEPT ![r].status = "rolling_back"]
            /\ env' = [env EXCEPT ![e] = Resumed(@)]
            /\ exec' = [exec EXCEPT ![n].at = "rolling", ![n].step = Steps + 1,
                                    ![n].ok = TRUE, ![n].failed = FALSE]
            /\ UNCHANGED todo
       ELSE Done(n) /\ UNCHANGED <<rev, env>>
    /\ UNCHANGED <<boxVars, step, effect, crashes>>

\* Mutant: a step whose command was not seen to end is taken for not begun.
ToUndoIfEnded(n) == {k \in 1..Steps : /\ k < exec[n].step
                               /\ step[exec[n].rev][k] \notin {"pending", "applying", "rolled_back"}}

\* The steps below exec.step that are not as if they had never begun.
ToUndo(n) == {k \in 1..Steps : /\ k < exec[n].step
                               /\ step[exec[n].rev][k] \notin {"pending", "rolled_back"}}

MarkStep(n) ==
    /\ exec[n].at = "rolling"
    /\ \E k \in ToUndo(n) :
         /\ \A j \in ToUndo(n) : j <= k
         /\ SetStep(n, k, "rolling_back")
         /\ exec' = [exec EXCEPT ![n].at = "marked", ![n].step = k]
    /\ UNCHANGED <<boxVars, env, rev, effect, todo, crashes>>

\* The rollback command.
Undo(n) ==
    LET c == exec[n].box  undone == effect[c] \ {<<exec[n].rev, exec[n].step>>} IN
    /\ exec[n].at = "marked"
    /\ \/ /\ c # Nothing /\ Reachable(n)
          /\ \/ /\ effect' = [effect EXCEPT ![c] = undone]
                /\ exec' = [exec EXCEPT ![n].at = "undone", ![n].ok = TRUE]
             \/ /\ "command_fails" \in Faults
                /\ \E left \in {effect[c], undone} : effect' = [effect EXCEPT ![c] = left]
                /\ exec' = [exec EXCEPT ![n].at = "undone", ![n].ok = FALSE]
          /\ UNCHANGED boxVars
       \/ /\ CommandRaises(n)
          /\ exec' = [exec EXCEPT ![n].at = "undone", ![n].ok = FALSE]
          /\ UNCHANGED effect
    /\ UNCHANGED <<envVars, todo, crashes>>

RecordUndo(n) ==
    /\ exec[n].at = "undone"
    /\ SetStep(n, exec[n].step, IF exec[n].ok THEN "rolled_back" ELSE "rollback_failed")
    /\ exec' = [exec EXCEPT ![n].at = "rolling", ![n].failed = @ \/ ~exec[n].ok]
    /\ UNCHANGED <<boxVars, env, rev, effect, todo, crashes>>

\* All steps were gone through; the platform's container is let go if none failed.
StepsUndone(n) ==
    /\ exec[n].at = "rolling" /\ ToUndo(n) = {}
    /\ At(n, IF ~exec[n].failed /\ ReleasesContainer(env[EnvOf(n)]) /\ exec[n].box # Nothing
             THEN "releasing" ELSE "settling")
    /\ UNCHANGED <<boxVars, envVars, effect, todo, crashes>>

\* The last transaction of _rollback.
SettleRollback(n) ==
    LET r == exec[n].rev  e == EnvOf(n) IN
    /\ exec[n].at = "settling"
    /\ rev' = [rev EXCEPT ![r].status = IF exec[n].failed THEN "recovery_required" ELSE "rolled_back"]
    /\ env' = [env EXCEPT ![e] = IF exec[n].failed THEN Stuck(@) ELSE Baseline(@)]
    /\ Done(n)
    /\ UNCHANGED <<boxVars, step, effect, crashes>>

-----------------------------------------------------------------------------

\* What the executor of n does by itself once a revision is claimed or found.
ExecutorSteps(n) ==
    \/ Recover(n)
    \/ Provision(n) \/ BindBox(n) \/ StartBox(n) \/ BoxStarted(n) \/ BindSession(n)
    \/ DeleteBox(n) \/ BoxDeleted(n) \/ SettleFailure(n)
    \/ CopyFails(n) \/ BeginStep(n) \/ Apply(n) \/ RecordApply(n) \/ BeginVerify(n)
    \/ Verify(n) \/ Complete(n)
    \/ BeginRollback(n) \/ MarkStep(n) \/ Undo(n) \/ RecordUndo(n) \/ StepsUndone(n)
    \/ SettleRollback(n)

Next ==
    \/ \E c \in Box : CreateOperatorBox(c)
    \/ \E a \in Actor : \/ \E c \in Box, kind \in Mutation : OperatorBegins(a, kind, c)
                        \/ DockerIsCalled(a) \/ OperatorFinishes(a)
    \/ MonitorSteps \/ SessionSteps
    \/ \E e \in Env : \/ CreateEnvironment(e)
                      \/ \E c \in Box : AdoptBox(e, c)
                      \/ \E r \in Rev, risky \in BOOLEAN : PlanRevision(e, r, risky)
                      \/ \E status \in Stable : SetEnvironmentStatus(e, status)
    \/ \E r \in Rev, approve \in BOOLEAN : DecideRevision(r, approve)
    \/ \E n \in Node : \/ \E r \in Rev : Claim(n, r) \/ ClaimRecovery(n, r)
                       \/ Crash(n) \/ Boot(n) \/ Cancel(n) \/ ExecutorSteps(n)

Spec == Init /\ [][Next]_vars

\* A process runs on, what it asks of Docker is answered, and one that died is started
\* again.  Waiters for a container's lock are served in turn by the database.
Fairness ==
    \A n \in Node : /\ WF_vars(Boot(n))
                    /\ SF_vars(ExecutorSteps(n))
                    /\ \A a \in Actor : WF_vars(DockerIsCalled(a) \/ OperatorFinishes(a))

FairSpec == Spec /\ Fairness

-----------------------------------------------------------------------------

\* The row of every environment has a shape that the decisions accept: no order of
\* failures, crashes and operators leaves one that each later operation refuses.
EnvironmentShape == \A e \in Env : env[e].status # "absent" => Shape(env[e])

\* The steps of the revisions of e that were applied.
AppliedSteps(e) == {t \in Rev \X (1..Steps) : rev[t[1]].env = e /\ rev[t[1]].status = "applied"}

\* When no revision of an environment is under way, its container holds what its applied
\* revisions put there and nothing of the others, whatever went wrong in between.
BaselineRestored ==
    \A e \in Env : env[e].active = Nothing /\ env[e].box # Nothing =>
        effect[env[e].box] = AppliedSteps(e)

\* A revision that failed or was rolled back has given back the container that was
\* created for it.
NothingLeftBehind ==
    \A c \in Box : box[c].rev # Nothing /\ rev[box[c].rev].status \in {"failed", "rolled_back"} =>
        box[c].status = "removed" \/ docker[c].status = "none"

\* A revision that is executing or rolling back does not stay so: it ends, is planned
\* again or asks for an operator, whichever process dies meanwhile.
RevisionsSettle ==
    \A r \in Rev : rev[r].status \in {"executing", "rolling_back"} ~>
                   rev[r].status \notin {"executing", "rolling_back"}

=============================================================================
