------------------------ MODULE DetectionDeployment ------------------------
(***************************************************************************)
(* service/detection: rules and their versions, the change requests an     *)
(* operator approves, the deployment of an approved change to its target   *)
(* sensors and its rollback (deployment.py), the refresh that brings every *)
(* sensor to the bundle of the active rules (sensor_bundles.py), and the   *)
(* collector's notes on a sensor's state (sensors.py), together with the   *)
(* sensor itself: the adapter's desired bundle and the bundle Zeek runs    *)
(* (sandbox/zeek).                                                         *)
(*                                                                         *)
(* Every job works under the one lease "detection.bundle-mutation" (see    *)
(* RuntimeLease) and asserts it in each of its transactions and before and *)
(* after each HTTP request.  So one job at a time does anything, and of a  *)
(* job that crashed or lost the lease no more is left than the request it  *)
(* may have under way; the reconcilers schedule it again from what the     *)
(* database says.  A transaction and the request that follows it are one   *)
(* step, the answer is another.  A call that is refused is not a step.     *)
(***************************************************************************)
EXTENDS Naturals, FiniteSets, Sequences

CONSTANTS
    Rule,         \* detection rules
    Builtin,      \* the rules active from the start, in version 1
    Sensor,       \* managed host sensors
    Scope,        \* per rule: the sensors it applies to
    TargetSets,   \* the sets of sensors a change may be asked for
    Refreshed,    \* the sensors that have been refreshed at the start
    Nothing,      \* no sensor, no bundle
    MaxVersion, MaxChanges, MaxCapture, MaxUpsets   \* bounds for TLC

ASSUME RuleAssumption == Builtin \subseteq Rule /\ Scope \in [Rule -> SUBSET Sensor]
                         /\ Refreshed \subseteq Sensor
                         /\ TargetSets \subseteq SUBSET Sensor /\ {} \notin TargetSets
ASSUME NothingAssumption == Nothing \notin Sensor
ASSUME BoundsAssumption ==
    /\ MaxVersion \in Nat \ {0} /\ {MaxChanges, MaxCapture, MaxUpsets} \subseteq Nat

VARIABLES
    versions,   \* per rule: how many versions it has (0: the rule does not exist)
    active,     \* per rule: active_version_id, 0 for none
    capture,    \* per sensor: the ports and artifacts its bundle covers, as a number
    change,     \* detection_rule_change_requests, in the order of their submission
    sensor,     \* managed_host_sensors
    box,        \* per sensor: what its adapter and Zeek do
    polled,     \* per sensor: the active bundle a slow collection cycle has read, not saved
    job,        \* the job that holds the lease
    late,       \* a request on its way whose sender is gone
    upsets      \* how many interruptions, errors, slow collections and changes of
                \* capture there were

dbVars == <<versions, active, capture, change>>
vars == <<dbVars, sensor, box, polled, job, late, upsets>>

-----------------------------------------------------------------------------
(* Bundles: what a sensor runs, named by the hash of its content.          *)

Bundle == [rules : [Rule -> 0..MaxVersion], capture : 0..MaxCapture]
BundleOrNone == Bundle \cup {Nothing}

\* build_effective_bundles: the active rules that apply to s, with rule r in version v.
EffectiveBundle(s, r, v) ==
    [rules |-> [q \in Rule |-> IF q = r THEN v ELSE IF s \in Scope[q] THEN active[q] ELSE 0],
     capture |-> capture[s]]

\* current_sensor_bundle
CurrentBundle(s) ==
    [rules |-> [q \in Rule |-> IF s \in Scope[q] THEN active[q] ELSE 0],
     capture |-> capture[s]]

-----------------------------------------------------------------------------

\* "rejected" is REJECTED or CHANGES_REQUESTED, "deploying" of a deployment is DEPLOYING
\* or HEALTH_CHECK: nothing in the code tells them apart.
ChangeStatus == {"pending_approval", "rejected", "deploying", "rolling_back", "active",
                 "failed", "recovery_required", "superseded"}
DeploymentStatus == {"pending", "deploying", "active", "rolling_back", "rolled_back",
                     "rollback_failed", "failed"}
Deployment == [status : DeploymentStatus, previous : BundleOrNone]

\* plan: the approved bundle of each target sensor (the manifest), from the submission;
\* runs: the deployments, from the approval.
Change == [rule : Rule, version : 0..MaxVersion, status : ChangeStatus,
           plan : UNION {[T -> Bundle] : T \in SUBSET Sensor},
           runs : UNION {[T -> Deployment] : T \in SUBSET Sensor}]

SensorRow == [active : BundleOrNone, desired : BundleOrNone,
              status : {"pending", "healthy", "degraded"}]
SensorBox == [desired : BundleOrNone, active : BundleOrNone, error : BOOLEAN]

\* Where the job is: about to take up the next deployment or rollback, waiting for the
\* answer to a request, observing the sensor's health, or having failed at it.
Stage == {"idle", "deploy", "wait", "observe", "error", "abort", "undo"}
\* way: what the bundle under way is for; todo: deployments still to be handled;
\* failed: a rollback has failed.
Job == [change : 0..MaxChanges, at : Sensor \cup {Nothing}, stage : Stage,
        way : {"deploy", "undo", "refresh", "restore"}, goal : BundleOrNone,
        back : BundleOrNone, todo : SUBSET Sensor, failed : BOOLEAN]
NoJob == [change |-> 0, at |-> Nothing, stage |-> "idle", way |-> "deploy", goal |-> Nothing,
          back |-> Nothing, todo |-> {}, failed |-> FALSE]
LeaseFree == job.stage = "idle"

TypeOK ==
    /\ versions \in [Rule -> 0..MaxVersion]
    /\ active \in [Rule -> 0..MaxVersion]
    /\ \A r \in Rule : active[r] <= versions[r]
    /\ capture \in [Sensor -> 0..MaxCapture]
    /\ change \in Seq(Change) /\ Len(change) <= MaxChanges
    /\ sensor \in [Sensor -> SensorRow]
    /\ box \in [Sensor -> SensorBox]
    /\ polled \in [Sensor -> {{}} \cup {{b} : b \in BundleOrNone}]
    /\ job \in Job
    /\ late \subseteq Sensor \X BundleOrNone
    /\ upsets \in 0..MaxUpsets

\* seed_builtin_detection_rules has run and the sensors are configured; the others than
\* Refreshed have no bundle yet.
Init ==
    /\ versions = [r \in Rule |-> IF r \in Builtin THEN 1 ELSE 0]
    /\ active = versions
    /\ capture = [s \in Sensor |-> 0]
    /\ change = <<>>
    /\ sensor = [s \in Sensor |->
           IF s \in Refreshed
           THEN [active |-> CurrentBundle(s), desired |-> CurrentBundle(s), status |-> "healthy"]
           ELSE [active |-> Nothing, desired |-> Nothing, status |-> "pending"]]
    /\ box = [s \in Sensor |-> [desired |-> sensor[s].active, active |-> sensor[s].active,
                               error |-> FALSE]]
    /\ polled = [s \in Sensor |-> {}]
    /\ job = NoJob
    /\ late = {}
    /\ upsets = 0

Upset == upsets < MaxUpsets /\ upsets' = upsets + 1

-----------------------------------------------------------------------------
(* rules.py.                                                               *)

\* create_rule and create_rule_version, for a content the validator accepts: others can
\* not be submitted.  validate_rule_version repeats the validation of the same content.
CreateVersion(r) ==
    /\ versions[r] < MaxVersion
    /\ versions' = [versions EXCEPT ![r] = @ + 1]
    /\ UNCHANGED <<active, capture, change, sensor, box, polled, job, late, upsets>>

Unresolved == {"pending_approval", "deploying", "rolling_back", "recovery_required"}
Executing == {"deploying", "rolling_back"}

\* ACTIVATE, REPLACE and ROLLBACK take a version the rule does not run; DISABLE none.
CanSubmit(r, v, targets) ==
    /\ \A c \in DOMAIN change : change[c].rule = r => change[c].status \notin Unresolved
    /\ v # active[r] /\ v \in 0..versions[r]
    /\ v # 0 => targets \subseteq Scope[r]

\* submit_rule_change: the bundles are built and kept with the request.
SubmitChange(r, v, targets) ==
    /\ Len(change) < MaxChanges
    /\ CanSubmit(r, v, targets)
    /\ change' = Append(change, [rule |-> r, version |-> v, status |-> "pending_approval",
                     plan |-> [s \in targets |-> EffectiveBundle(s, r, v)], runs |-> <<>>])
    /\ UNCHANGED <<versions, active, capture, sensor, box, polled, job, late, upsets>>

\* decide_rule_change, REJECT or REQUEST_CHANGES, when the lease is free.
RejectChange(c) ==
    /\ LeaseFree
    /\ change[c].status = "pending_approval"
    /\ change' = [change EXCEPT ![c].status = "rejected"]
    /\ UNCHANGED <<versions, active, capture, sensor, box, polled, job, late, upsets>>

\* Mutant: the bundles of the submission are not compared with those of now.
ApprovableUnchecked(c) ==
    /\ change[c].status = "pending_approval"
    /\ \A d \in DOMAIN change : change[d].status \notin Executing \cup {"recovery_required"}

\* No change is under way, and the bundles are still those the operator was shown.
Approvable(c) ==
    /\ change[c].status = "pending_approval"
    /\ \A d \in DOMAIN change : change[d].status \notin Executing \cup {"recovery_required"}
    /\ change[c].plan = [s \in DOMAIN change[c].plan |->
                             EffectiveBundle(s, change[c].rule, change[c].version)]

\* decide_rule_change, APPROVE.
ApproveChange(c) ==
    LET plan == change[c].plan IN
    /\ LeaseFree
    /\ Approvable(c)
    /\ change' = [change EXCEPT ![c].status = "deploying",
                     ![c].runs = [s \in DOMAIN plan |->
                                    [status |-> "pending", previous |-> sensor[s].active]]]
    /\ sensor' = [s \in Sensor |-> IF s \in DOMAIN plan
                                   THEN [sensor[s] EXCEPT !.desired = plan[s]] ELSE sensor[s]]
    /\ UNCHANGED <<versions, active, capture, box, polled, job, late, upsets>>

\* The ports or the artifacts of the environments on the sensor's host change.
CaptureChanges(s) ==
    /\ capture[s] < MaxCapture /\ Upset
    /\ capture' = [capture EXCEPT ![s] = @ + 1]
    /\ UNCHANGED <<versions, active, change, sensor, box, polled, job, late>>

-----------------------------------------------------------------------------
(* The job that holds the lease.                                           *)

Goto(stage) == job' = [job EXCEPT !.stage = stage]
Finish == job' = NoJob

\* What becomes of a request whose sender is gone or gave up.
Abandoned ==
    \/ late' = late
    \/ late = {} /\ job.stage = "wait" /\ late' = {<<job.at, job.goal>>}

\* The process dies and its lease runs out, or it cannot renew the lease.
Interrupt ==
    /\ ~LeaseFree
    /\ Upset
    /\ Finish
    /\ Abandoned
    /\ UNCHANGED <<dbVars, sensor, box, polled>>

\* The adapter carries out PUT and POST activate, or POST rollback: it writes the desired
\* bundle.  That a bundle is staged and validated first shows when it is refused.
RequestArrives ==
    /\ job.stage = "wait"
    /\ box' = [box EXCEPT ![job.at].desired = job.goal]
    /\ Goto("observe")
    /\ UNCHANGED <<dbVars, sensor, polled, late, upsets>>

LateRequestArrives ==
    /\ late # {}
    /\ \E m \in late : box' = [box EXCEPT ![m[1]].desired = m[2]]
    /\ late' = {}
    /\ UNCHANGED <<dbVars, sensor, polled, job, upsets>>

\* The bundle is refused or the request times out.
RequestFails ==
    /\ job.stage = "wait"
    /\ Upset
    /\ Goto("error")
    /\ Abandoned
    /\ UNCHANGED <<dbVars, sensor, box, polled>>

\* /v1/health and the match of observe_sensor_bundle; the result is then recorded.
Healthy(s, bundle) ==
    box[s].active = bundle /\ box[s].desired = bundle /\ ~box[s].error
Observed == job.stage = "observe" /\ Healthy(job.at, job.goal)

\* The deadline of observe_sensor_bundle passes: the sensor has been told another bundle
\* since, or has nothing to run and an error to report (Nothing, after a bundle that did
\* not start), or it is slow.
ObservationFails ==
    /\ job.stage = "observe"
    /\ ~Healthy(job.at, job.goal)
    /\ \/ box[job.at].desired \notin {job.goal} \ {box[job.at].active} /\ upsets' = upsets
       \/ Upset
    /\ Goto("error")
    /\ UNCHANGED <<dbVars, sensor, box, polled, late>>

-----------------------------------------------------------------------------
(* deployment.py.                                                          *)

SetRun(c, s, status) == change' = [change EXCEPT ![c].runs[s].status = status]
Runs(c, statuses) == {s \in DOMAIN change[c].runs : change[c].runs[s].status \in statuses}

\* _load_incomplete_deployments
Incomplete(c) == Runs(c, {"pending", "deploying"})

\* Mutant: a sensor already activated keeps the bundle.
UndoableUnlessActive(c) == Runs(c, {"deploying", "rolling_back", "rollback_failed"})
\* _rollback_change_deployments
Undoable(c) == Runs(c, {"deploying", "active", "rolling_back", "rollback_failed"})

\* _deployment_is_verified_active: the health kept with an ACTIVE deployment is that of its
\* bundle, which _complete_activation saw to.
VerifiedActive(c, s) == change[c].runs[s].status = "active"

\* _all_deployments_active
AllActive(c) == \A s \in DOMAIN change[c].runs : VerifiedActive(c, s)

\* Mutant: a change is not scheduled again when its deployment was interrupted.
ScheduledOnce(c) ==
    change[c].status \in Executing /\ Runs(c, {"pending"}) = DOMAIN change[c].plan
\* _schedule_deploying_changes, _change_is_executable
Scheduled(c) == change[c].status \in Executing

\* A reconciler schedules the change, and _deploy_change takes the lease; the beginning of
\* _deploy_change_owned.
StartDeployment(c) ==
    /\ LeaseFree /\ Scheduled(c)
    /\ \/ /\ change[c].status = "rolling_back"
          /\ job' = [NoJob EXCEPT !.change = c, !.stage = "undo", !.todo = Undoable(c)]
       \/ /\ change[c].status = "deploying"
          /\ job' = [NoJob EXCEPT !.change = c, !.todo = Incomplete(c),
                        !.stage = IF Incomplete(c) # {} \/ AllActive(c) THEN "deploy" ELSE "abort"]
    /\ UNCHANGED <<dbVars, sensor, box, polled, late, upsets>>

\* _claim_deployment_target, and the request that follows.
ClaimDeployment(s) ==
    LET c == job.change IN
    /\ job.stage = "deploy" /\ s \in job.todo
    /\ SetRun(c, s, "deploying")
    /\ job' = [job EXCEPT !.stage = "wait", !.way = "deploy", !.at = s, !.todo = @ \ {s},
                          !.goal = change[c].plan[s]]
    /\ UNCHANGED <<versions, active, capture, sensor, box, polled, late, upsets>>

Verified(s, bundle) ==
    sensor' = [sensor EXCEPT ![s] = [active |-> bundle, desired |-> bundle,
                                     status |-> "healthy"]]

\* _complete_activation
CompleteActivation ==
    /\ Observed /\ job.way = "deploy"
    /\ SetRun(job.change, job.at, "active")
    /\ Verified(job.at, job.goal)
    /\ Goto("deploy")
    /\ UNCHANGED <<versions, active, capture, box, polled, late, upsets>>

\* Mutant: the change that was active before is left as it is.
ActivatedAlongside(c) == [change EXCEPT ![c].status = "active"]
\* The change is ACTIVE, and those of the rule that were are SUPERSEDED.
Activated(c) ==
    [d \in DOMAIN change |->
        IF d = c THEN [change[d] EXCEPT !.status = "active"]
        ELSE IF change[d].rule = change[c].rule /\ change[d].status = "active"
             THEN [change[d] EXCEPT !.status = "superseded"] ELSE change[d]]

\* _activate_change; every deployment is verified by now.
ActivateChange ==
    LET c == job.change IN
    /\ job.stage = "deploy" /\ job.todo = {} /\ AllActive(c)
    /\ change' = Activated(c)
    /\ active' = [active EXCEPT ![change[c].rule] = change[c].version]
    /\ Finish
    /\ UNCHANGED <<versions, capture, sensor, box, polled, late, upsets>>

\* _begin_change_rollback; the deployments to roll back are selected next.
BeginRollback ==
    LET c == job.change IN
    /\ job.stage = "abort" \/ (job.stage = "error" /\ job.way = "deploy")
    /\ change' = [change EXCEPT ![c].status = "rolling_back"]
    /\ job' = [job EXCEPT !.stage = "undo", !.todo = Undoable(c)]
    /\ UNCHANGED <<versions, active, capture, sensor, box, polled, late, upsets>>

\* _claim_rollback_target, and the request that follows.
ClaimRollback(s) ==
    LET c == job.change IN
    /\ job.stage = "undo" /\ s \in job.todo
    /\ SetRun(c, s, "rolling_back")
    /\ job' = [job EXCEPT !.stage = "wait", !.way = "undo", !.at = s, !.todo = @ \ {s},
                          !.goal = change[c].runs[s].previous]
    /\ UNCHANGED <<versions, active, capture, sensor, box, polled, late, upsets>>

\* The end of _rollback_deployment.
CompleteRollback ==
    /\ Observed /\ job.way = "undo"
    /\ SetRun(job.change, job.at, "rolled_back")
    /\ Verified(job.at, job.goal)
    /\ Goto("undo")
    /\ UNCHANGED <<versions, active, capture, box, polled, late, upsets>>

\* _record_rollback_failure
RecordRollbackFailure ==
    /\ job.stage = "error" /\ job.way = "undo"
    /\ SetRun(job.change, job.at, "rollback_failed")
    /\ sensor' = [sensor EXCEPT ![job.at].status = "degraded"]
    /\ job' = [job EXCEPT !.stage = "undo", !.failed = TRUE]
    /\ UNCHANGED <<versions, active, capture, box, polled, late, upsets>>

\* rollback_errors holds this attempt's failures; one that an earlier attempt noted was
\* tried again.
RollbackOutcome == IF job.failed THEN "recovery_required" ELSE "failed"

\* _finish_change_rollback
FinishRollback ==
    LET c == job.change
        pending == Runs(c, {"pending"}) IN
    /\ job.stage = "undo" /\ job.todo = {}
    /\ change' = [change EXCEPT
           ![c].status = RollbackOutcome,
           ![c].runs = [s \in DOMAIN @ |-> IF s \in pending
                                           THEN [@[s] EXCEPT !.status = "failed"] ELSE @[s]]]
    /\ sensor' = [s \in Sensor |->
           IF s \in pending /\ sensor[s].desired = change[c].plan[s]
           THEN [sensor[s] EXCEPT !.desired = sensor[s].active] ELSE sensor[s]]
    /\ Finish
    /\ UNCHANGED <<versions, active, capture, box, polled, late, upsets>>

-----------------------------------------------------------------------------
(* sensor_bundles.py and sensors.py.                                       *)

\* Mutant: a sensor whose state is in doubt is not refreshed if its row has the bundle.
RunsBundleByHash(s) == sensor[s].active = CurrentBundle(s)
\* The early return of _refresh_owned.
RunsBundle(s) == sensor[s].active = CurrentBundle(s) /\ sensor[s].status = "healthy"

\* _refresh, and _refresh_owned up to its first request.  (It is scheduled for every sensor
\* every few seconds; when nothing is to be changed, there is no step.)
StartRefresh(s) ==
    LET bundle == CurrentBundle(s) IN
    /\ LeaseFree
    /\ RunsBundle(s) => sensor[s].desired # bundle
    /\ sensor' = [sensor EXCEPT ![s].desired = bundle]
    /\ job' = IF RunsBundle(s) THEN job
              ELSE [NoJob EXCEPT !.at = s, !.stage = "wait", !.way = "refresh",
                                 !.goal = bundle, !.back = sensor[s].active]
    /\ UNCHANGED <<dbVars, box, polled, late, upsets>>

\* The end of _refresh_owned.
CompleteRefresh ==
    /\ Observed /\ job.way = "refresh"
    /\ Verified(job.at, job.goal)
    /\ Finish
    /\ UNCHANGED <<dbVars, box, polled, late, upsets>>

\* A refresh that failed goes back to the bundle it found: _rollback_refresh.
RestoreRefresh ==
    /\ job.stage = "error" /\ job.way = "refresh"
    /\ job' = [job EXCEPT !.stage = "wait", !.way = "restore", !.goal = job.back]
    /\ UNCHANGED <<dbVars, sensor, box, polled, late, upsets>>

\* The failure is noted, and the bundle the sensor runs if it could be restored; the
\* desired bundle is still the one StartRefresh has set.
EndRestore ==
    /\ job.way = "restore" /\ (Observed \/ job.stage = "error")
    /\ sensor' = [sensor EXCEPT ![job.at].status = "degraded",
                                ![job.at].active = IF Observed THEN job.goal ELSE @]
    /\ Finish
    /\ UNCHANGED <<dbVars, box, polled, late, upsets>>

\* _collect_sensor: the row and the adapter's health are read and the row is written.  A
\* bundle that the control plane does not know of is an issue of the sensor.  (The events
\* of the cycle are the subject of SensorEvents.)
Collected(s, bundle) ==
    sensor' = [sensor EXCEPT ![s].active = bundle, ![s].status = "healthy"]
Issue(s) == sensor' = [sensor EXCEPT ![s].status = "degraded"]

Collect(s) ==
    /\ polled[s] = {}
    /\ IF box[s].active \in {sensor[s].active, sensor[s].desired}
       THEN Collected(s, box[s].active) ELSE Issue(s)
    /\ UNCHANGED <<dbVars, box, polled, job, late, upsets>>

\* A slow cycle: the row is written later, without another look at the bundle ...
CollectSlowly(s) ==
    /\ polled[s] = {}
    /\ Upset
    /\ box[s].active \in {sensor[s].active, sensor[s].desired}
    /\ polled' = [polled EXCEPT ![s] = {box[s].active}]
    /\ UNCHANGED <<dbVars, sensor, box, job, late>>

\* ... or the cycle fails: _mark_sensor_issue.
EndCollect(s) ==
    /\ polled[s] # {}
    /\ polled' = [polled EXCEPT ![s] = {}]
    /\ (\E bundle \in polled[s] : Collected(s, bundle)) \/ Issue(s)
    /\ UNCHANGED <<dbVars, box, job, late, upsets>>

-----------------------------------------------------------------------------
(* sensor-entrypoint.sh: the loop that runs Zeek with the desired bundle.  *)

SwitchBundle(s) ==
    /\ box[s].desired # box[s].active
    /\ box' = [box EXCEPT ![s].active = box[s].desired, ![s].error = FALSE]
    /\ UNCHANGED <<dbVars, sensor, polled, job, late, upsets>>

\* Zeek does not start with the bundle, or exits: nothing runs until the next round.
ZeekStops(s) ==
    /\ box[s].desired # Nothing /\ ~box[s].error
    /\ Upset
    /\ box' = [box EXCEPT ![s].active = Nothing, ![s].error = TRUE]
    /\ UNCHANGED <<dbVars, sensor, polled, job, late>>

-----------------------------------------------------------------------------

RuleSteps ==
    \/ \E r \in Rule : CreateVersion(r)
    \/ \E r \in Rule, v \in 0..MaxVersion, targets \in TargetSets :
           SubmitChange(r, v, targets)
    \/ \E c \in DOMAIN change : ApproveChange(c) \/ RejectChange(c)
    \/ \E s \in Sensor : CaptureChanges(s)

\* What the holder of the lease does next.
JobStep ==
    \/ \E s \in job.todo : ClaimDeployment(s) \/ ClaimRollback(s)
    \/ RequestArrives \/ ObservationFails
    \/ CompleteActivation \/ ActivateChange
    \/ BeginRollback \/ CompleteRollback \/ RecordRollbackFailure \/ FinishRollback
    \/ CompleteRefresh \/ RestoreRefresh \/ EndRestore

Next ==
    \/ RuleSteps
    \/ \E c \in DOMAIN change : StartDeployment(c)
    \/ \E s \in Sensor : StartRefresh(s)
    \/ JobStep \/ RequestFails \/ Interrupt \/ LateRequestArrives
    \/ \E s \in Sensor : Collect(s) \/ CollectSlowly(s) \/ EndCollect(s)
    \/ \E s \in Sensor : SwitchBundle(s) \/ ZeekStops(s)

Spec == Init /\ [][Next]_vars

\* The reconcilers come round for ever, and wait for the lease by trying again at
\* intervals; holders that do nothing but finish leave it free again and again, hence
\* strong fairness.  The adapter answers, its loop runs, and the collector polls.
Fairness ==
    /\ WF_vars(JobStep)
    /\ \A c \in 1..MaxChanges : SF_vars(c \in DOMAIN change /\ StartDeployment(c))
    /\ \A s \in Sensor : SF_vars(StartRefresh(s)) /\ WF_vars(SwitchBundle(s))
    /\ \A s \in Sensor : WF_vars(Collect(s)) /\ WF_vars(EndCollect(s))
    /\ WF_vars(LateRequestArrives)

FairSpec == Spec /\ Fairness

-----------------------------------------------------------------------------
(* Properties.                                                             *)

\* decide_rule_change approves nothing while another change is deployed, rolled back or
\* waits for recovery, whoever decides and on whichever process.
OneChangeUnderWay ==
    Cardinality({c \in DOMAIN change : change[c].status \in Executing \cup {"recovery_required"}}) <= 1

\* What a change that is over says of its sensors is so for each of its deployments, also
\* after attempts on several processes: all activated, all rolled back or never begun, or
\* one not rolled back.
ChangesEndAsRecorded ==
    \A c \in DOMAIN change :
        LET status == change[c].status IN
        /\ status \in {"active", "superseded"} =>
               DOMAIN change[c].runs = DOMAIN change[c].plan /\ AllActive(c)
        /\ status = "failed" => Runs(c, {"rolled_back", "failed"}) = DOMAIN change[c].plan
        /\ status = "recovery_required" => Runs(c, {"rollback_failed"}) # {}

\* A rule runs in the version its one ACTIVE change has deployed (none: as it was seeded).
RulesRunTheirChange ==
    \A r \in Rule :
        LET current == {c \in DOMAIN change : change[c].rule = r /\ change[c].status = "active"} IN
        /\ Cardinality(current) <= 1
        /\ \A c \in current : active[r] = change[c].version
        /\ current = {} => active[r] = IF r \in Builtin THEN 1 ELSE 0

\* While a change is deployed, from its approval to its activation or the start of its
\* rollback, the bundles planned for it hold what every other rule runs in: activating
\* them takes back no other change (decide_rule_change compares the plan again).
DeploymentsKeepOtherRules ==
    \A c \in DOMAIN change : change[c].status = "deploying" =>
        \A s \in DOMAIN change[c].plan :
            change[c].plan[s].rules = EffectiveBundle(s, change[c].rule, change[c].version).rules

\* A change under way ends, whatever crashes, losses of the lease and errors there were.
UnderWay == \E c \in DOMAIN change : change[c].status \in Executing
ChangesEnd == []<>~UnderWay

\* Once nobody changes the rules any more, every sensor comes to run the bundle of the
\* active rules, and the control plane knows it.
SensorsConverge ==
    \A s \in Sensor : <>[](box[s].active = CurrentBundle(s) /\ sensor[s].active = CurrentBundle(s))

=============================================================================
