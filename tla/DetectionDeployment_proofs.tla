--------------------- MODULE DetectionDeployment_proofs ---------------------
(***************************************************************************)
(* Proofs about DetectionDeployment, for any rules, sensors, scopes and    *)
(* bounds: one change is under way at a time, what a change that is over   *)
(* says of its sensors is so, a rule runs what its active change says, and *)
(* no deployment takes back another rule.                                  *)
(*                                                                         *)
(* The argument is about the job that holds the lease.  A job stops at any *)
(* point and the next one begins from the rows, so the invariant says of   *)
(* each stage what the rows are (JobDrives), and of a rollback what is     *)
(* left of it: every deployment that is not back yet is still to be        *)
(* handled, under way, or noted as failed (UndoLeavesNone).                *)
(***************************************************************************)
EXTENDS DetectionDeployment, SequenceTheorems, FiniteSetTheorems, TLAPS

-----------------------------------------------------------------------------
(* The inductive invariant.                                                *)

InWork(c) == change[c].status \in Executing \cup {"recovery_required"}

UniqueInWork == \A c, d \in DOMAIN change : InWork(c) /\ InWork(d) => c = d

VersionsExist == \A c \in DOMAIN change : change[c].version <= versions[change[c].rule]

\* RulesRunTheirChange without the count.
RunsRule(c, r) == change[c].rule = r /\ change[c].status = "active"
RulesFollowChanges ==
    \A r \in Rule :
        /\ \A c, d \in DOMAIN change : RunsRule(c, r) /\ RunsRule(d, r) => c = d
        /\ \A c \in DOMAIN change : RunsRule(c, r) => active[r] = change[c].version
        /\ (\A c \in DOMAIN change : ~RunsRule(c, r)) =>
               active[r] = IF r \in Builtin THEN 1 ELSE 0

\* The rules.
Book == UniqueInWork /\ VersionsExist /\ RulesFollowChanges /\ DeploymentsKeepOtherRules

RunsArePlanned ==
    \A c \in DOMAIN change : change[c].status \notin {"pending_approval", "rejected"} =>
        DOMAIN change[c].runs = DOMAIN change[c].plan

\* What the changes have to show for their status.
Shown == RunsArePlanned /\ ChangesEndAsRecorded

Asking == job.stage \in {"wait", "observe", "error"}
Deploys == job.stage \in {"deploy", "abort"} \/ (Asking /\ job.way = "deploy")
Undoes == job.stage = "undo" \/ (Asking /\ job.way = "undo")
Undone == {"pending", "rolled_back", "failed"}

JobDrives ==
    LET c == job.change IN
    /\ Deploys => c \in DOMAIN change /\ change[c].status = "deploying"
    /\ Undoes => c \in DOMAIN change /\ change[c].status = "rolling_back"
    /\ Deploys \/ Undoes => /\ job.todo \subseteq DOMAIN change[c].runs
                            /\ Asking => job.at \in DOMAIN change[c].runs \ job.todo
    /\ Asking => job.at \in Sensor

UndoLeavesNone ==
    Undoes => \A s \in DOMAIN change[job.change].runs :
        \/ change[job.change].runs[s].status \in Undone
        \/ s \in job.todo
        \/ Asking /\ s = job.at
        \/ job.failed /\ change[job.change].runs[s].status = "rollback_failed"

FailureIsNoted ==
    job.failed => /\ Undoes
                  /\ \E s \in DOMAIN change[job.change].runs \ job.todo :
                         /\ change[job.change].runs[s].status = "rollback_failed"
                         /\ Asking => s # job.at

\* What the job at hand relies on.
Work == JobDrives /\ UndoLeavesNone /\ FailureIsNoted

IInv == TypeOK /\ Book /\ Shown /\ Work

-----------------------------------------------------------------------------
(* The rows.                                                               *)

Plans == UNION {[T -> Bundle] : T \in SUBSET Sensor}
Deployments == UNION {[T -> Deployment] : T \in SUBSET Sensor}

\* A function on the places of a sequence is a sequence of its length.
LEMMA SamePlaces ==
    ASSUME NEW S, NEW s \in Seq(S), NEW R, NEW f \in [DOMAIN s -> R]
    PROVE  f \in Seq(R) /\ Len(f) = Len(s) /\ DOMAIN f = DOMAIN s
<1>1. DOMAIN s = 1..Len(s) /\ Len(s) \in Nat
  BY LenProperties
<1>2. f \in Seq(R)
  BY <1>1, SeqDef
<1> QED
  BY <1>1, <1>2, LenProperties

\* The maps of a change from its sensors.
LEMMA SensorMaps ==
    ASSUME NEW X
    PROVE  /\ \A f \in UNION {[T -> X] : T \in SUBSET Sensor} :
                  DOMAIN f \subseteq Sensor /\ f \in [DOMAIN f -> X] /\ \A s \in DOMAIN f : f[s] \in X
           /\ \A T \in SUBSET Sensor : \A f \in [T -> X] :
                  f \in UNION {[U -> X] : U \in SUBSET Sensor}
           /\ <<>> \in UNION {[T -> X] : T \in SUBSET Sensor}
<1>1. <<>> \in [{} -> X]
  BY SMT
<1> QED
  BY <1>1

\* The changes and their parts.
LEMMA ChangeRows ==
    ASSUME TypeOK
    PROVE  /\ change \in Seq(Change) /\ DOMAIN change = 1..Len(change) /\ Len(change) \in Nat
           /\ DOMAIN change \subseteq 0..MaxChanges
           /\ \A c \in DOMAIN change :
                  /\ change[c] \in Change
                  /\ change[c].plan \in Plans /\ DOMAIN change[c].plan \subseteq Sensor
                  /\ \A s \in DOMAIN change[c].plan : change[c].plan[s] \in Bundle
                  /\ change[c].runs \in Deployments /\ DOMAIN change[c].runs \subseteq Sensor
                  /\ change[c].runs \in [DOMAIN change[c].runs -> Deployment]
                  /\ \A s \in DOMAIN change[c].runs : change[c].runs[s] \in Deployment
<1>1. change \in Seq(Change) /\ Len(change) <= MaxChanges /\ MaxChanges \in Nat
  BY BoundsAssumption DEF TypeOK
<1>2. DOMAIN change = 1..Len(change) /\ Len(change) \in Nat
  BY <1>1, LenProperties
<1>3. DOMAIN change \subseteq 0..MaxChanges
  BY <1>1, <1>2
<1>4. \A c \in DOMAIN change : change[c] \in Change
  BY <1>1, <1>2, ElementOfSeq
<1>5. \A c \in DOMAIN change : change[c].plan \in Plans /\ change[c].runs \in Deployments
  BY <1>4 DEF Change, Plans, Deployments
<1>6. \A c \in DOMAIN change : /\ DOMAIN change[c].plan \subseteq Sensor
                               /\ \A s \in DOMAIN change[c].plan : change[c].plan[s] \in Bundle
  BY <1>5, SensorMaps DEF Plans
<1>7. \A c \in DOMAIN change :
          /\ DOMAIN change[c].runs \subseteq Sensor
          /\ change[c].runs \in [DOMAIN change[c].runs -> Deployment]
          /\ \A s \in DOMAIN change[c].runs : change[c].runs[s] \in Deployment
  BY <1>5, SensorMaps DEF Deployments
<1> QED
  BY <1>1, <1>2, <1>3, <1>4, <1>5, <1>6, <1>7

\* SetRun changes the status of one deployment.
LEMMA SetRunMoves ==
    ASSUME TypeOK, NEW c \in DOMAIN change, NEW s \in DOMAIN change[c].runs,
           NEW new \in DeploymentStatus, SetRun(c, s, new)
    PROVE  /\ change' \in Seq(Change) /\ Len(change') = Len(change)
           /\ DOMAIN change' = DOMAIN change
           /\ \A d \in DOMAIN change :
                  /\ change'[d].status = change[d].status /\ change'[d].rule = change[d].rule
                  /\ change'[d].version = change[d].version /\ change'[d].plan = change[d].plan
                  /\ DOMAIN change'[d].runs = DOMAIN change[d].runs
                  /\ d # c => change'[d] = change[d]
           /\ \A t \in DOMAIN change[c].runs :
                  change'[c].runs[t].status = IF t = s THEN new ELSE change[c].runs[t].status
<1> DEFINE run == [change[c].runs[s] EXCEPT !.status = new]
           runs == [change[c].runs EXCEPT ![s] = run]
           row == [change[c] EXCEPT !.runs = runs]
<1>1. change[c] \in Change /\ change[c].runs \in [DOMAIN change[c].runs -> Deployment]
      /\ change[c].runs[s] \in Deployment /\ DOMAIN change[c].runs \subseteq Sensor
  BY ChangeRows
<1>2. run \in Deployment /\ run.status = new
  BY <1>1 DEF Deployment
<1>3. /\ runs \in [DOMAIN change[c].runs -> Deployment]
      /\ \A t \in DOMAIN change[c].runs :
             runs[t].status = IF t = s THEN new ELSE change[c].runs[t].status
  BY <1>1, <1>2
<1>4. runs \in Deployments
  BY <1>1, <1>3, SensorMaps DEF Deployments
<1>5. /\ row \in Change /\ row.runs = runs
      /\ row.status = change[c].status /\ row.rule = change[c].rule
      /\ row.version = change[c].version /\ row.plan = change[c].plan
  BY <1>1, <1>4 DEF Change, Deployments
<1>6. change' = [change EXCEPT ![c] = row]
  BY DEF SetRun
<1> HIDE DEF row
<1>7. \A d \in DOMAIN change : change[d] \in Change
  BY ChangeRows
<1>8. change' \in [DOMAIN change -> Change]
  BY <1>5, <1>6, <1>7
<1>9. change' \in Seq(Change) /\ Len(change') = Len(change) /\ DOMAIN change' = DOMAIN change
  BY <1>8, SamePlaces, ChangeRows
<1>10. change'[c] = row /\ \A d \in DOMAIN change : d # c => change'[d] = change[d]
  BY <1>6
<1> QED
  BY <1>3, <1>5, <1>9, <1>10

\* The row of one change moves.
LEMMA RowMoves ==
    ASSUME TypeOK, NEW c \in DOMAIN change, NEW row \in Change,
           change' = [change EXCEPT ![c] = row]
    PROVE  /\ change' \in Seq(Change) /\ Len(change') = Len(change)
           /\ DOMAIN change' = DOMAIN change
           /\ change'[c] = row /\ \A d \in DOMAIN change : d # c => change'[d] = change[d]
<1>1. \A d \in DOMAIN change : change[d] \in Change
  BY ChangeRows
<1>2. change' \in [DOMAIN change -> Change]
  BY <1>1
<1>3. change \in Seq(Change)
  BY ChangeRows
<1>4. change' \in Seq(Change) /\ Len(change') = Len(change) /\ DOMAIN change' = DOMAIN change
  BY ONLY <1>2, <1>3, SamePlaces
<1> QED
  BY <1>4

\* The status of one change moves, and its deployments.
Moved(c, new, runs) ==
    /\ change' \in Seq(Change) /\ Len(change') = Len(change)
    /\ DOMAIN change' = DOMAIN change
    /\ \A d \in DOMAIN change :
           /\ change'[d].rule = change[d].rule
           /\ change'[d].version = change[d].version /\ change'[d].plan = change[d].plan
           /\ d # c => change'[d] = change[d]
    /\ change'[c].status = new /\ change'[c].runs = runs

\* Such a step is one of a row with another status and other deployments.
LEMMA StatusMoves ==
    ASSUME TypeOK, NEW c \in DOMAIN change, NEW new \in ChangeStatus,
           NEW runs \in Deployments, NEW row,
           row = [change[c] EXCEPT !.status = new, !.runs = runs],
           change' = [change EXCEPT ![c] = row]
    PROVE  Moved(c, new, runs)
<1>1. change[c] \in Change
  BY ChangeRows
<1>2. /\ row \in Change /\ row.status = new /\ row.runs = runs /\ row.rule = change[c].rule
      /\ row.version = change[c].version /\ row.plan = change[c].plan
  BY <1>1 DEF Change, Deployments
<1>3. /\ change' \in Seq(Change) /\ Len(change') = Len(change)
      /\ DOMAIN change' = DOMAIN change
      /\ change'[c] = row /\ \A d \in DOMAIN change : d # c => change'[d] = change[d]
  BY <1>2, RowMoves
<1> QED
  BY <1>2, <1>3 DEF Moved

\* A change whose status moves with its deployments left as they are.
LEMMA OnlyStatusMoves ==
    ASSUME TypeOK, NEW c \in DOMAIN change, NEW new \in ChangeStatus,
           change' = [change EXCEPT ![c].status = new]
    PROVE  Moved(c, new, change[c].runs)
<1> DEFINE row == [change[c] EXCEPT !.status = new]
<1>1. change[c] \in Change /\ change[c].runs \in Deployments
  BY ChangeRows
<1>2. row = [change[c] EXCEPT !.status = new, !.runs = change[c].runs]
  BY <1>1 DEF Change
<1>3. change' = [change EXCEPT ![c] = row]
  OBVIOUS
<1> HIDE DEF row
<1> QED
  BY <1>1, <1>2, <1>3, StatusMoves

\* A set of equal elements has at most one.
LEMMA AtMostOne == ASSUME NEW S, \A x, y \in S : x = y PROVE Cardinality(S) <= 1
<1>1. CASE S = {}
  BY <1>1, FS_EmptySet
<1>2. CASE S # {}
  <2>1. PICK x : x \in S
    BY <1>2
  <2>2. S = {x}
    BY <2>1
  <2>3. Cardinality({x}) = 1
    BY FS_Singleton
  <2> QED
    BY <2>2, <2>3
<1> QED
  BY <1>1, <1>2

\* The bundles a change is planned with.
LEMMA BundleTypes ==
    ASSUME TypeOK, NEW s \in Sensor
    PROVE  /\ CurrentBundle(s) \in Bundle
           /\ \A r \in Rule, v \in 0..MaxVersion : EffectiveBundle(s, r, v) \in Bundle
<1>1. 0 \in 0..MaxVersion
  BY BoundsAssumption
<1> QED
  BY <1>1, RuleAssumption DEF TypeOK, CurrentBundle, EffectiveBundle, Bundle

\* The rows of the sensors, and the parts of the job.
LEMMA RowTypes ==
    ASSUME TypeOK
    PROVE  /\ \A s \in Sensor :
                  /\ sensor[s] \in SensorRow /\ box[s] \in SensorBox
                  /\ {sensor[s].active, sensor[s].desired, box[s].active, box[s].desired}
                         \subseteq BundleOrNone
           /\ Nothing \in BundleOrNone /\ Bundle \subseteq BundleOrNone
           /\ NoJob \in Job /\ job \in Job
           /\ job.goal \in BundleOrNone /\ job.back \in BundleOrNone
           /\ job.todo \subseteq Sensor /\ job.stage \in Stage
<1>1. 0 \in 0..MaxChanges
  BY BoundsAssumption
<1>2. NoJob \in Job
  BY <1>1 DEF NoJob, Job, Stage, BundleOrNone
<1>3. job \in Job
  BY DEF TypeOK
<1>4. /\ job.goal \in BundleOrNone /\ job.back \in BundleOrNone
      /\ job.todo \subseteq Sensor /\ job.stage \in Stage
  BY <1>3 DEF Job
<1>5. \A s \in Sensor :
          /\ sensor[s] \in SensorRow /\ box[s] \in SensorBox
          /\ {sensor[s].active, sensor[s].desired, box[s].active, box[s].desired}
                 \subseteq BundleOrNone
  BY DEF TypeOK, SensorRow, SensorBox
<1> QED
  BY <1>2, <1>3, <1>4, <1>5 DEF BundleOrNone

\* An upset counts within its bound.
LEMMA UpsetsBounded ==
    ASSUME TypeOK, Upset
    PROVE  upsets' \in 0..MaxUpsets
BY BoundsAssumption DEF TypeOK, Upset

-----------------------------------------------------------------------------
(* Types.                                                                  *)

\* The seeded rules and the configured sensors have the types.
LEMMA InitTypeOK == Init => TypeOK
<1> SUFFICES ASSUME Init PROVE TypeOK
  OBVIOUS
<1>1. MaxVersion \in Nat \ {0} /\ MaxCapture \in Nat /\ MaxUpsets \in Nat /\ MaxChanges \in Nat
  BY BoundsAssumption
<1>2. versions \in [Rule -> 0..MaxVersion] /\ active = versions
  BY <1>1 DEF Init
<1>3. \A r \in Rule : active[r] <= versions[r]
  BY <1>2
<1>4. capture \in [Sensor -> 0..MaxCapture]
  BY <1>1 DEF Init
<1>5. change \in Seq(Change) /\ Len(change) <= MaxChanges
  BY <1>1 DEF Init
<1>6. \A s \in Sensor : CurrentBundle(s) \in Bundle
  BY <1>1, <1>2, <1>4 DEF CurrentBundle, Bundle
<1>7. sensor \in [Sensor -> SensorRow]
  BY <1>6 DEF Init, SensorRow, BundleOrNone
<1>8. box \in [Sensor -> SensorBox]
  BY <1>7 DEF Init, SensorRow, SensorBox
<1>9. polled \in [Sensor -> {{}} \cup {{b} : b \in BundleOrNone}]
  BY DEF Init
<1>10. job \in Job
  BY <1>1 DEF Init, NoJob, Job, Stage, BundleOrNone
<1>11. late \subseteq Sensor \X BundleOrNone /\ upsets \in 0..MaxUpsets
  BY <1>1 DEF Init
<1> QED
  BY <1>2, <1>3, <1>4, <1>5, <1>7, <1>8, <1>9, <1>10, <1>11 DEF TypeOK

\* A change that is submitted.
LEMMA SubmittedRow ==
    ASSUME TypeOK, NEW r \in Rule, NEW v \in 0..MaxVersion, NEW targets \in TargetSets,
           SubmitChange(r, v, targets)
    PROVE  \E row \in Change :
               /\ row.rule = r /\ row.version = v /\ row.status = "pending_approval"
               /\ change' = Append(change, row)
               /\ change' \in Seq(Change) /\ Len(change') = Len(change) + 1
               /\ DOMAIN change' = DOMAIN change \cup {Len(change) + 1}
               /\ Len(change) + 1 \notin DOMAIN change
               /\ \A c \in DOMAIN change : change'[c] = change[c]
               /\ change'[Len(change) + 1] = row
<1> DEFINE plan == [s \in targets |-> EffectiveBundle(s, r, v)]
           row == [rule |-> r, version |-> v, status |-> "pending_approval",
                   plan |-> plan, runs |-> <<>>]
<1>1. targets \subseteq Sensor
  BY RuleAssumption
<1>2. \A s \in targets : EffectiveBundle(s, r, v) \in Bundle
  BY <1>1, BundleTypes
<1>3. plan \in [targets -> Bundle]
  BY <1>2
<1>4. plan \in Plans /\ <<>> \in Deployments
  BY <1>1, <1>3, SensorMaps DEF Plans, Deployments
<1> HIDE DEF plan
<1>5. /\ row \in Change /\ row.rule = r /\ row.version = v
      /\ row.status = "pending_approval"
  BY <1>4 DEF Change, ChangeStatus, Plans, Deployments
<1>6. change' = Append(change, row)
  BY DEF SubmitChange, plan
<1> HIDE DEF row
<1>7. change \in Seq(Change) /\ DOMAIN change = 1..Len(change) /\ Len(change) \in Nat
  BY ChangeRows
<1>8. /\ change' \in Seq(Change) /\ Len(change') = Len(change) + 1
      /\ \A c \in 1..Len(change) : change'[c] = change[c]
      /\ change'[Len(change) + 1] = row
  BY <1>5, <1>6, <1>7, AppendProperties
<1>9. DOMAIN change' = 1..Len(change) + 1
  BY <1>8, LenProperties
<1>10. DOMAIN change' = DOMAIN change \cup {Len(change) + 1} /\ Len(change) + 1 \notin DOMAIN change
  BY <1>7, <1>9
<1> QED
  BY <1>5, <1>6, <1>7, <1>8, <1>10

\* The approval of a change gives it its deployments, all of them still to be made.
LEMMA ApprovedRow ==
    ASSUME TypeOK, NEW c \in DOMAIN change, ApproveChange(c)
    PROVE  \E runs \in Deployments :
               Moved(c, "deploying", runs) /\ DOMAIN runs = DOMAIN change[c].plan
<1> DEFINE runs == [s \in DOMAIN change[c].plan |->
                       [status |-> "pending", previous |-> sensor[s].active]]
<1>1. DOMAIN change[c].plan \subseteq Sensor
  BY ChangeRows
<1>2. \A s \in DOMAIN change[c].plan : sensor[s].active \in BundleOrNone
  BY <1>1, RowTypes
<1>3. runs \in [DOMAIN change[c].plan -> Deployment]
  BY <1>2 DEF Deployment, DeploymentStatus
<1>4. runs \in Deployments
  BY <1>1, <1>3, SensorMaps DEF Deployments
<1>5. change' = [change EXCEPT ![c] = [change[c] EXCEPT !.status = "deploying", !.runs = runs]]
  BY DEF ApproveChange
<1>6. DOMAIN runs = DOMAIN change[c].plan /\ "deploying" \in ChangeStatus
  BY DEF ChangeStatus
<1> HIDE DEF runs
<1>7. Moved(c, "deploying", runs)
  BY <1>4, <1>5, <1>6, StatusMoves
<1> QED
  BY <1>4, <1>6, <1>7

\* The end of a rollback: the deployments that were never begun fail.
LEMMA FinishedRow ==
    ASSUME TypeOK, job.change \in DOMAIN change, FinishRollback
    PROVE  \E runs \in Deployments :
               /\ Moved(job.change, RollbackOutcome, runs)
               /\ DOMAIN runs = DOMAIN change[job.change].runs
               /\ \A s \in DOMAIN runs :
                      runs[s].status = IF change[job.change].runs[s].status = "pending"
                                       THEN "failed" ELSE change[job.change].runs[s].status
<1> DEFINE old == change[job.change].runs
           runs == [s \in DOMAIN old |-> IF s \in Runs(job.change, {"pending"})
                                         THEN [old[s] EXCEPT !.status = "failed"] ELSE old[s]]
<1>1. /\ DOMAIN old \subseteq Sensor /\ \A s \in DOMAIN old : old[s] \in Deployment
      /\ change[job.change] \in Change
  BY ChangeRows
<1>2. \A s \in DOMAIN old : s \in Runs(job.change, {"pending"}) <=> old[s].status = "pending"
  BY DEF Runs
<1>3. \A s \in DOMAIN old :
          /\ runs[s] \in Deployment
          /\ runs[s].status = IF old[s].status = "pending" THEN "failed" ELSE old[s].status
  BY <1>1, <1>2 DEF Deployment, DeploymentStatus
<1>4. runs \in Deployments
  <2>1. runs \in [DOMAIN old -> Deployment] /\ DOMAIN old \in SUBSET Sensor
    BY <1>1, <1>3
  <2> QED
    BY ONLY <2>1, SensorMaps DEF Deployments
<1>5. change' = [change EXCEPT ![job.change] =
                    [change[job.change] EXCEPT !.status = RollbackOutcome, !.runs = runs]]
  BY <1>1 DEF FinishRollback, Change
<1>6. DOMAIN runs = DOMAIN old /\ RollbackOutcome \in ChangeStatus
  BY DEF RollbackOutcome, ChangeStatus
<1> HIDE DEF runs
<1>7. Moved(job.change, RollbackOutcome, runs)
  BY <1>4, <1>5, <1>6, StatusMoves
<1> QED
  BY <1>3, <1>4, <1>6, <1>7

\* The activation of a change: the other rows of its rule that were active are superseded.
LEMMA ActivatedRows ==
    ASSUME TypeOK, NEW c \in DOMAIN change, change' = Activated(c)
    PROVE  /\ change' \in Seq(Change) /\ Len(change') = Len(change)
           /\ DOMAIN change' = DOMAIN change
           /\ \A d \in DOMAIN change :
                  /\ change'[d].rule = change[d].rule /\ change'[d].version = change[d].version
                  /\ change'[d].plan = change[d].plan /\ change'[d].runs = change[d].runs
                  /\ change'[d].status =
                         IF d = c THEN "active"
                         ELSE IF change[d].rule = change[c].rule /\ change[d].status = "active"
                              THEN "superseded" ELSE change[d].status
<1> DEFINE f == Activated(c)
<1>1. \A d \in DOMAIN change : change[d] \in Change
  BY ChangeRows
<1>2. \A d \in DOMAIN change :
          /\ f[d] \in Change
          /\ f[d].rule = change[d].rule /\ f[d].version = change[d].version
          /\ f[d].plan = change[d].plan /\ f[d].runs = change[d].runs
          /\ f[d].status =
                 IF d = c THEN "active"
                 ELSE IF change[d].rule = change[c].rule /\ change[d].status = "active"
                      THEN "superseded" ELSE change[d].status
  <2> TAKE d \in DOMAIN change
  <2>1. change[d] \in Change
    BY <1>1
  <2>2. f[d] = IF d = c THEN [change[d] EXCEPT !.status = "active"]
               ELSE IF change[d].rule = change[c].rule /\ change[d].status = "active"
                    THEN [change[d] EXCEPT !.status = "superseded"] ELSE change[d]
    BY DEF Activated
  <2> QED
    BY <2>1, <2>2 DEF Change, ChangeStatus
<1>3. f \in [DOMAIN change -> Change]
  BY <1>2 DEF Activated
<1>4. change \in Seq(Change)
  BY ChangeRows
<1>5. f \in Seq(Change) /\ Len(f) = Len(change) /\ DOMAIN f = DOMAIN change
  BY ONLY <1>3, <1>4, SamePlaces
<1>6. change' = f
  OBVIOUS
<1> HIDE DEF f
<1> QED
  BY <1>2, <1>5, <1>6

\* A step that leaves the changes as they are.
LEMMA RestTypeOK ==
    ASSUME TypeOK, UNCHANGED <<versions, active, capture, change>>,
           sensor' \in [Sensor -> SensorRow], box' \in [Sensor -> SensorBox],
           polled' \in [Sensor -> {{}} \cup {{b} : b \in BundleOrNone}],
           job' \in Job, late' \subseteq Sensor \X BundleOrNone,
           UNCHANGED upsets \/ Upset
    PROVE  TypeOK'
<1>1. upsets' \in 0..MaxUpsets
  BY UpsetsBounded DEF TypeOK
<1> QED
  BY <1>1 DEF TypeOK

\* The ways the job moves.
LEMMA JobMoves ==
    ASSUME TypeOK
    PROVE  /\ \A stage \in Stage : [job EXCEPT !.stage = stage] \in Job
           /\ \A c \in 0..MaxChanges, todo \in SUBSET Sensor, stage \in Stage :
                  [NoJob EXCEPT !.change = c, !.stage = stage, !.todo = todo] \in Job
           /\ \A todo \in SUBSET Sensor : [job EXCEPT !.stage = "undo", !.todo = todo] \in Job
           /\ [job EXCEPT !.stage = "undo", !.failed = TRUE] \in Job
           /\ \A s \in Sensor, way \in {"deploy", "undo"}, goal \in BundleOrNone :
                  [job EXCEPT !.stage = "wait", !.way = way, !.at = s, !.todo = @ \ {s},
                              !.goal = goal] \in Job
           /\ \A s \in Sensor, goal, back \in BundleOrNone :
                  [NoJob EXCEPT !.at = s, !.stage = "wait", !.way = "refresh",
                                !.goal = goal, !.back = back] \in Job
           /\ [job EXCEPT !.stage = "wait", !.way = "restore", !.goal = job.back] \in Job
<1>1. job \in Job /\ NoJob \in Job
  BY RowTypes
<1> QED
  BY <1>1, SMTT(15), ZenonT(25) DEF Job, Stage

\* The rules, the requests and the decisions of the operators.
LEMMA RuleStepsTypeOK == ASSUME TypeOK, Work, RuleSteps PROVE TypeOK'
<1> USE DEF TypeOK, dbVars
<1>1. ASSUME NEW r \in Rule, CreateVersion(r) PROVE TypeOK'
  <2>1. versions[r] + 1 \in 0..MaxVersion
    BY <1>1, BoundsAssumption DEF CreateVersion
  <2>2. versions' \in [Rule -> 0..MaxVersion] /\ \A q \in Rule : active'[q] <= versions'[q]
    BY <1>1, <2>1 DEF CreateVersion
  <2> QED
    BY <1>1, <2>2 DEF CreateVersion
<1>2. ASSUME NEW r \in Rule, NEW v \in 0..MaxVersion, NEW targets \in TargetSets,
             SubmitChange(r, v, targets)
      PROVE  TypeOK'
  <2>1. change' \in Seq(Change) /\ Len(change') = Len(change) + 1
    BY <1>2, SubmittedRow
  <2>2. Len(change') <= MaxChanges
    BY <1>2, <2>1, BoundsAssumption, ChangeRows DEF SubmitChange
  <2> QED
    BY <1>2, <2>1, <2>2 DEF SubmitChange
<1>3. ASSUME NEW c \in DOMAIN change, ApproveChange(c) PROVE TypeOK'
  <2>1. change' \in Seq(Change) /\ Len(change') = Len(change)
    BY <1>3, ApprovedRow DEF Moved
  <2>2. \A s \in DOMAIN change[c].plan : change[c].plan[s] \in BundleOrNone
    BY ChangeRows, RowTypes
  <2>3. \A s \in DOMAIN change[c].plan : \A t \in Sensor :
            [sensor[t] EXCEPT !.desired = change[c].plan[s]] \in SensorRow
    BY <2>2 DEF SensorRow
  <2>4. sensor' \in [Sensor -> SensorRow]
    BY <1>3, <2>3 DEF ApproveChange
  <2> QED
    BY <1>3, <2>1, <2>4 DEF ApproveChange
<1>4. ASSUME NEW c \in DOMAIN change, RejectChange(c) PROVE TypeOK'
  <2>1. change' \in Seq(Change) /\ Len(change') = Len(change)
    BY <1>4, OnlyStatusMoves DEF RejectChange, ChangeStatus, Moved
  <2> QED
    BY <1>4, <2>1 DEF RejectChange
<1>5. ASSUME NEW s \in Sensor, CaptureChanges(s) PROVE TypeOK'
  <2>1. capture[s] + 1 \in 0..MaxCapture
    BY <1>5, BoundsAssumption DEF CaptureChanges
  <2>2. capture' \in [Sensor -> 0..MaxCapture]
    BY <1>5, <2>1 DEF CaptureChanges
  <2>3. upsets' \in 0..MaxUpsets
    BY <1>5, UpsetsBounded DEF CaptureChanges
  <2> QED
    BY <1>5, <2>2, <2>3 DEF CaptureChanges
<1> QED
  BY <1>1, <1>2, <1>3, <1>4, <1>5 DEF RuleSteps

\* The deployment of a change and its rollback.
LEMMA JobStepTypeOK == ASSUME TypeOK, RunsArePlanned, Work, VersionsExist, JobStep PROVE TypeOK'
<1> DEFINE c == job.change
<1>1. Deploys \/ Undoes => /\ c \in DOMAIN change
                           /\ job.todo \subseteq DOMAIN change[c].runs
                           /\ Asking => job.at \in DOMAIN change[c].runs
                           /\ DOMAIN change[c].runs = DOMAIN change[c].plan
  BY DEF Work, JobDrives, RunsArePlanned
<1>2. Asking => job.at \in Sensor
  BY DEF Work, JobDrives
<1>3. sensor \in [Sensor -> SensorRow] /\ box \in [Sensor -> SensorBox]
      /\ active \in [Rule -> 0..MaxVersion] /\ \A r \in Rule : active[r] <= versions[r]
  BY DEF TypeOK
<1>4. \A s \in Sensor, bundle \in BundleOrNone :
          Verified(s, bundle) => sensor' \in [Sensor -> SensorRow]
  BY <1>3 DEF Verified, SensorRow
<1>5. job' = NoJob => job' \in Job
  BY RowTypes
<1>6. ASSUME NEW s \in job.todo, ClaimDeployment(s) PROVE TypeOK'
  <2>1. c \in DOMAIN change /\ s \in DOMAIN change[c].runs /\ s \in DOMAIN change[c].plan
    BY <1>1, <1>6 DEF ClaimDeployment, Deploys
  <2>2. s \in Sensor /\ change[c].plan[s] \in BundleOrNone
    BY <2>1, ChangeRows, RowTypes
  <2>3. job' \in Job
    BY <1>6, <2>2, JobMoves DEF ClaimDeployment
  <2>4. change' \in Seq(Change) /\ Len(change') = Len(change)
    BY <1>6, <2>1, SetRunMoves DEF ClaimDeployment, DeploymentStatus
  <2> QED
    BY <1>6, <2>3, <2>4 DEF ClaimDeployment, TypeOK
<1>7. ASSUME NEW s \in job.todo, ClaimRollback(s) PROVE TypeOK'
  <2>1. c \in DOMAIN change /\ s \in DOMAIN change[c].runs
    BY <1>1, <1>7 DEF ClaimRollback, Undoes
  <2>2. s \in Sensor /\ change[c].runs[s] \in Deployment
    BY <2>1, ChangeRows
  <2>3. change[c].runs[s].previous \in BundleOrNone
    BY <2>2 DEF Deployment
  <2>4. job' \in Job
    BY <1>7, <2>2, <2>3, JobMoves DEF ClaimRollback
  <2>5. change' \in Seq(Change) /\ Len(change') = Len(change)
    BY <1>7, <2>1, SetRunMoves DEF ClaimRollback, DeploymentStatus
  <2> QED
    BY <1>7, <2>4, <2>5 DEF ClaimRollback, TypeOK
<1>8. CASE RequestArrives
  <2>1. job' \in Job
    BY <1>8, JobMoves DEF RequestArrives, Goto, Stage
  <2>2. [box[job.at] EXCEPT !.desired = job.goal] \in SensorBox
    BY <1>2, <1>3, <1>8, RowTypes DEF RequestArrives, Asking, SensorBox
  <2>3. box' \in [Sensor -> SensorBox]
    BY <1>3, <1>8, <2>2 DEF RequestArrives
  <2> QED
    BY <1>8, <2>1, <2>3 DEF RequestArrives, TypeOK, dbVars
<1>9. CASE ObservationFails
  <2>1. job' \in Job
    BY <1>9, JobMoves DEF ObservationFails, Goto, Stage
  <2>2. upsets' \in 0..MaxUpsets
    BY <1>9, UpsetsBounded DEF ObservationFails, TypeOK
  <2> QED
    BY <1>9, <2>1, <2>2 DEF ObservationFails, TypeOK, dbVars
<1>10. CASE CompleteActivation \/ CompleteRollback \/ RecordRollbackFailure
  <2>1. Asking /\ (Deploys \/ Undoes)
    BY <1>10 DEF CompleteActivation, CompleteRollback, RecordRollbackFailure, Observed,
                Asking, Deploys, Undoes
  <2>2. c \in DOMAIN change /\ job.at \in DOMAIN change[c].runs /\ job.at \in Sensor
    BY <1>1, <1>2, <2>1
  <2>3. \E new \in DeploymentStatus : SetRun(c, job.at, new)
    BY <1>10 DEF CompleteActivation, CompleteRollback, RecordRollbackFailure, DeploymentStatus
  <2>4. change' \in Seq(Change) /\ Len(change') = Len(change)
    BY <2>2, <2>3, SetRunMoves
  <2>5. job' \in Job
    BY <1>10, JobMoves DEF CompleteActivation, CompleteRollback, RecordRollbackFailure, Goto, Stage
  <2>6. [sensor[job.at] EXCEPT !.status = "degraded"] \in SensorRow
    BY <1>3, <2>2 DEF SensorRow
  <2>7. sensor' \in [Sensor -> SensorRow]
    BY <1>3, <1>4, <1>10, <2>2, <2>6, RowTypes
       DEF CompleteActivation, CompleteRollback, RecordRollbackFailure
  <2> QED
    BY <1>10, <2>4, <2>5, <2>7
       DEF CompleteActivation, CompleteRollback, RecordRollbackFailure, TypeOK
<1>11. CASE ActivateChange
  <2>1. c \in DOMAIN change
    BY <1>1, <1>11 DEF ActivateChange, Deploys
  <2>2. change' \in Seq(Change) /\ Len(change') = Len(change)
    BY <1>11, <2>1, ActivatedRows DEF ActivateChange
  <2>3. change[c] \in Change /\ change[c].version <= versions[change[c].rule]
    BY <2>1, ChangeRows DEF VersionsExist
  <2>4. change[c].rule \in Rule /\ change[c].version \in 0..MaxVersion
    BY <2>3 DEF Change
  <2>5. active' = [active EXCEPT ![change[c].rule] = change[c].version]
    BY <1>11 DEF ActivateChange
  <2>6. active' \in [Rule -> 0..MaxVersion] /\ \A r \in Rule : active'[r] <= versions[r]
    BY <1>3, <2>3, <2>4, <2>5
  <2> QED
    BY <1>5, <1>11, <2>2, <2>6 DEF ActivateChange, Finish, TypeOK
<1>12. CASE BeginRollback
  <2>1. c \in DOMAIN change
    BY <1>1, <1>12 DEF BeginRollback, Deploys, Asking
  <2>2. change' \in Seq(Change) /\ Len(change') = Len(change)
    BY <1>12, <2>1, OnlyStatusMoves DEF BeginRollback, ChangeStatus, Moved
  <2>3. Undoable(c) \in SUBSET Sensor
    BY <2>1, ChangeRows DEF Undoable, Runs
  <2>4. job' \in Job
    BY <1>12, <2>3, JobMoves DEF BeginRollback
  <2> QED
    BY <1>12, <2>2, <2>4 DEF BeginRollback, TypeOK
<1>13. CASE FinishRollback
  <2>1. c \in DOMAIN change
    BY <1>1, <1>13 DEF FinishRollback, Undoes
  <2>2. change' \in Seq(Change) /\ Len(change') = Len(change)
    BY <1>13, <2>1, FinishedRow DEF Moved
  <2>3. \A s \in Sensor : [sensor[s] EXCEPT !.desired = sensor[s].active] \in SensorRow
    BY <1>3 DEF SensorRow
  <2>4. sensor' \in [Sensor -> SensorRow]
    BY <1>3, <1>13, <2>3 DEF FinishRollback
  <2> QED
    BY <1>5, <1>13, <2>2, <2>4 DEF FinishRollback, Finish, TypeOK
<1>14. CASE CompleteRefresh
  <2>1. job.at \in Sensor
    BY <1>2, <1>14 DEF CompleteRefresh, Observed, Asking
  <2>2. sensor' \in [Sensor -> SensorRow]
    BY <1>4, <1>14, <2>1, RowTypes DEF CompleteRefresh
  <2> QED
    BY <1>5, <1>14, <2>2 DEF CompleteRefresh, Finish, TypeOK, dbVars
<1>15. CASE RestoreRefresh
  <2>1. job' \in Job
    BY <1>15, JobMoves DEF RestoreRefresh
  <2> QED
    BY <1>15, <2>1 DEF RestoreRefresh, TypeOK, dbVars
<1>16. CASE EndRestore
  <2>1. job.at \in Sensor
    BY <1>2, <1>16 DEF EndRestore, Observed, Asking
  <2>2. \A bundle \in BundleOrNone :
            [active |-> bundle, desired |-> sensor[job.at].desired, status |-> "degraded"] \in SensorRow
    BY <2>1, RowTypes DEF SensorRow
  <2>3. sensor' = [sensor EXCEPT ![job.at] =
            [sensor[job.at] EXCEPT !.status = "degraded",
                                   !.active = IF Observed THEN job.goal ELSE @]]
    BY <1>3, <1>16, <2>1 DEF EndRestore, SensorRow
  <2>4. [sensor[job.at] EXCEPT !.status = "degraded",
                               !.active = IF Observed THEN job.goal ELSE @] \in SensorRow
    BY <1>3, <2>1, RowTypes DEF SensorRow
  <2>5. sensor' \in [Sensor -> SensorRow]
    BY <1>3, <2>3, <2>4
  <2> QED
    BY <1>5, <1>16, <2>5 DEF EndRestore, Finish, TypeOK, dbVars
<1> QED
  BY <1>6, <1>7, <1>8, <1>9, <1>10, <1>11, <1>12, <1>13, <1>14, <1>15, <1>16 DEF JobStep

-----------------------------------------------------------------------------
(* The rules.                                                              *)

\* The rules of a planned bundle do not depend on what the sensor captures.
RulesIn(s, r, v) ==
    [q \in Rule |-> IF q = r THEN v ELSE IF s \in Scope[q] THEN active[q] ELSE 0]
KeepsOthers(c) ==
    \A s \in DOMAIN change[c].plan :
        change[c].plan[s].rules = RulesIn(s, change[c].rule, change[c].version)

\* DeploymentsKeepOtherRules, change by change.
LEMMA PlansKeepOthers ==
    /\ DeploymentsKeepOtherRules <=>
           \A c \in DOMAIN change : change[c].status = "deploying" => KeepsOthers(c)
    /\ DeploymentsKeepOtherRules' <=>
           \A c \in DOMAIN change' : change'[c].status = "deploying" => KeepsOthers(c)'
BY DEF DeploymentsKeepOtherRules, KeepsOthers, EffectiveBundle, RulesIn

\* A step that decides nothing leaves the rules' part of the invariant as it is.
LEMMA SameBook ==
    ASSUME Book, active' = active, \A r \in Rule : versions[r] <= versions'[r],
           versions \in [Rule -> Nat], versions' \in [Rule -> Nat],
           DOMAIN change' = DOMAIN change,
           \A c \in DOMAIN change :
               /\ change[c].rule \in Rule /\ change[c].version \in Nat
               /\ change'[c].status = change[c].status /\ change'[c].rule = change[c].rule
               /\ change'[c].version = change[c].version /\ change'[c].plan = change[c].plan
    PROVE  Book'
<1>1. UniqueInWork'
  BY DEF Book, UniqueInWork, InWork
<1>2. VersionsExist'
  BY DEF Book, VersionsExist
<1>3. RulesFollowChanges'
  BY DEF Book, RulesFollowChanges, RunsRule
<1>4. \A c \in DOMAIN change : KeepsOthers(c) => KeepsOthers(c)'
  BY DEF KeepsOthers, RulesIn
<1>5. DeploymentsKeepOtherRules'
  BY <1>4, PlansKeepOthers DEF Book
<1> QED
  BY <1>1, <1>2, <1>3, <1>5 DEF Book

\* The status of one change moves, without activating it.
LEMMA StatusBook ==
    ASSUME Book, UNCHANGED <<active, versions>>, NEW c \in DOMAIN change,
           DOMAIN change' = DOMAIN change,
           \A d \in DOMAIN change :
               /\ change'[d].rule = change[d].rule
               /\ change'[d].version = change[d].version /\ change'[d].plan = change[d].plan
               /\ d # c => change'[d] = change[d],
           change[c].status # "active", change'[c].status # "active",
           InWork(c)' => InWork(c) \/ \A d \in DOMAIN change : ~InWork(d),
           change'[c].status = "deploying" => KeepsOthers(c)
    PROVE  Book'
<1>1. UniqueInWork'
  <2> SUFFICES ASSUME NEW d \in DOMAIN change, InWork(c)', InWork(d)', d # c PROVE FALSE
    BY DEF Book, UniqueInWork, InWork
  <2>1. InWork(d)
    BY DEF InWork
  <2> QED
    BY <2>1 DEF Book, UniqueInWork
<1>2. VersionsExist'
  BY DEF Book, VersionsExist
<1>3. \A d \in DOMAIN change, r \in Rule : RunsRule(d, r)' <=> RunsRule(d, r)
  BY DEF RunsRule
<1>4. RulesFollowChanges'
  BY <1>3 DEF Book, RulesFollowChanges
<1>5. \A d \in DOMAIN change : KeepsOthers(d) => KeepsOthers(d)'
  BY DEF KeepsOthers, RulesIn
<1>6. DeploymentsKeepOtherRules'
  BY <1>5, PlansKeepOthers DEF Book
<1> QED
  BY <1>1, <1>2, <1>4, <1>6 DEF Book

\* A change that is activated: it was the one under way, so none is deployed any more.
LEMMA ActivateBook ==
    ASSUME TypeOK, Book, NEW c \in DOMAIN change, change[c].status = "deploying",
           change' = Activated(c), versions' = versions,
           active' = [active EXCEPT ![change[c].rule] = change[c].version]
    PROVE  Book'
<1>1. /\ DOMAIN change' = DOMAIN change
      /\ \A d \in DOMAIN change :
             /\ change'[d].rule = change[d].rule /\ change'[d].version = change[d].version
             /\ change'[d].plan = change[d].plan
             /\ change'[d].status =
                    IF d = c THEN "active"
                    ELSE IF change[d].rule = change[c].rule /\ change[d].status = "active"
                         THEN "superseded" ELSE change[d].status
  BY ActivatedRows
<1>2. \A d \in DOMAIN change : ~InWork(d)'
  <2> SUFFICES ASSUME NEW d \in DOMAIN change, InWork(d)' PROVE FALSE
    OBVIOUS
  <2>1. d # c /\ InWork(d) /\ InWork(c)
    BY <1>1 DEF InWork, Executing
  <2> QED
    BY <2>1 DEF Book, UniqueInWork
<1>3. UniqueInWork'
  BY <1>1, <1>2 DEF UniqueInWork
<1>4. VersionsExist'
  BY <1>1 DEF Book, VersionsExist
<1>5. RulesFollowChanges'
  <2>1. change[c].rule \in Rule /\ active \in [Rule -> 0..MaxVersion]
    BY ChangeRows DEF TypeOK, Change
  <2>2. ASSUME NEW r \in Rule, r # change[c].rule
        PROVE  /\ \A d \in DOMAIN change : RunsRule(d, r)' <=> RunsRule(d, r)
               /\ active'[r] = active[r]
    BY <1>1, <2>1, <2>2 DEF RunsRule
  <2>3. /\ \A d \in DOMAIN change : RunsRule(d, change[c].rule)' <=> d = c
        /\ active'[change[c].rule] = change[c].version
    BY <1>1, <2>1 DEF RunsRule
  <2> QED
    BY <1>1, <2>2, <2>3 DEF Book, RulesFollowChanges
<1>6. DeploymentsKeepOtherRules'
  BY <1>1, <1>2, PlansKeepOthers DEF InWork, Executing
<1> QED
  BY <1>3, <1>4, <1>5, <1>6 DEF Book

\* What a rule change asks of SameBook.
LEMMA BookTypes ==
    ASSUME TypeOK
    PROVE  /\ versions \in [Rule -> Nat] /\ \A r \in Rule : versions[r] <= versions[r] + 1
           /\ \A r \in Rule : versions[r] <= versions[r]
           /\ \A c \in DOMAIN change : change[c].rule \in Rule /\ change[c].version \in Nat
<1>1. versions \in [Rule -> 0..MaxVersion]
  BY DEF TypeOK
<1>2. \A c \in DOMAIN change : change[c].rule \in Rule /\ change[c].version \in 0..MaxVersion
  BY ChangeRows DEF Change
<1> QED
  BY <1>1, <1>2

\* A change that is submitted decides nothing.
LEMMA SubmitBook ==
    ASSUME TypeOK, Book, NEW r \in Rule, NEW v \in 0..MaxVersion, NEW targets \in TargetSets,
           SubmitChange(r, v, targets)
    PROVE  Book'
<1>1. UNCHANGED <<versions, active>> /\ v \in 0..versions[r]
  BY DEF SubmitChange, CanSubmit
<1>2. PICK row \in Change :
          /\ row.rule = r /\ row.version = v /\ row.status = "pending_approval"
          /\ change' = Append(change, row)
          /\ change' \in Seq(Change) /\ Len(change') = Len(change) + 1
          /\ DOMAIN change' = DOMAIN change \cup {Len(change) + 1}
          /\ Len(change) + 1 \notin DOMAIN change
          /\ \A c \in DOMAIN change : change'[c] = change[c]
          /\ change'[Len(change) + 1] = row
  BY SubmittedRow, SMTT(15), ZenonT(25)
<1>3. PICK new : new = Len(change) + 1
  OBVIOUS
<1>4. /\ DOMAIN change' = DOMAIN change \cup {new} /\ new \notin DOMAIN change
      /\ \A c \in DOMAIN change : change'[c] = change[c]
      /\ change'[new].rule = r /\ change'[new].version = v
      /\ change'[new].status = "pending_approval"
  BY <1>2, <1>3
<1>5. \A c \in DOMAIN change : InWork(c)' <=> InWork(c)
  BY <1>4 DEF InWork
<1>6. UniqueInWork'
  BY <1>4, <1>5 DEF Book, UniqueInWork, InWork, Executing
<1>7. VersionsExist'
  <2>1. v <= versions[r]
    BY <1>1, BookTypes
  <2> QED
    BY <1>1, <1>4, <2>1 DEF Book, VersionsExist
<1>8. RulesFollowChanges'
  <2> SUFFICES ASSUME NEW q \in Rule
               PROVE  /\ \A c, d \in DOMAIN change' : RunsRule(c, q)' /\ RunsRule(d, q)' => c = d
                      /\ \A c \in DOMAIN change' : RunsRule(c, q)' => active'[q] = change'[c].version
                      /\ (\A c \in DOMAIN change' : ~RunsRule(c, q)') =>
                             active'[q] = IF q \in Builtin THEN 1 ELSE 0
    BY DEF RulesFollowChanges
  <2>1. /\ \A c, d \in DOMAIN change : RunsRule(c, q) /\ RunsRule(d, q) => c = d
        /\ \A c \in DOMAIN change : RunsRule(c, q) => active[q] = change[c].version
        /\ (\A c \in DOMAIN change : ~RunsRule(c, q)) =>
               active[q] = IF q \in Builtin THEN 1 ELSE 0
    BY DEF Book, RulesFollowChanges
  <2>2. \A c \in DOMAIN change' : RunsRule(c, q)' => c \in DOMAIN change /\ RunsRule(c, q)
    BY <1>4 DEF RunsRule
  <2>3. \A c \in DOMAIN change : RunsRule(c, q) => RunsRule(c, q)' /\ c \in DOMAIN change'
    BY <1>4 DEF RunsRule
  <2> QED
    BY <1>1, <1>4, <2>1, <2>2, <2>3
<1>9. \A c \in DOMAIN change : KeepsOthers(c) => KeepsOthers(c)'
  BY <1>1, <1>4 DEF KeepsOthers, RulesIn
<1>10. DeploymentsKeepOtherRules'
  BY <1>4, <1>9, PlansKeepOthers DEF Book
<1> QED
  BY <1>6, <1>7, <1>8, <1>10 DEF Book

\* An approval finds no change under way, and the bundles of now.
LEMMA ApproveBook == ASSUME TypeOK, Book, NEW c \in DOMAIN change, ApproveChange(c) PROVE Book'
<1>1. /\ UNCHANGED <<active, versions>>
      /\ change[c].status = "pending_approval"
      /\ \A d \in DOMAIN change : ~InWork(d)
  BY DEF ApproveChange, Approvable, InWork
<1>2. /\ DOMAIN change' = DOMAIN change /\ change'[c].status = "deploying"
      /\ \A d \in DOMAIN change :
             /\ change'[d].rule = change[d].rule
             /\ change'[d].version = change[d].version /\ change'[d].plan = change[d].plan
             /\ d # c => change'[d] = change[d]
  BY ApprovedRow DEF Moved
<1>3. KeepsOthers(c)
  <2>1. change[c].plan = [s \in DOMAIN change[c].plan |->
                             EffectiveBundle(s, change[c].rule, change[c].version)]
    BY DEF ApproveChange, Approvable
  <2>2. \A s \in DOMAIN change[c].plan :
            change[c].plan[s] = EffectiveBundle(s, change[c].rule, change[c].version)
    BY <2>1
  <2>3. \A s \in DOMAIN change[c].plan :
            EffectiveBundle(s, change[c].rule, change[c].version).rules
            = RulesIn(s, change[c].rule, change[c].version)
    BY DEF EffectiveBundle, RulesIn
  <2> HIDE <2>1
  <2> QED
    BY <2>2, <2>3 DEF KeepsOthers
<1> QED
  BY <1>1, <1>2, <1>3, StatusBook

\* Every step keeps the rules' part.
LEMMA NextBook == ASSUME IInv, [Next]_vars PROVE Book'
<1> DEFINE c == job.change
<1>1. TypeOK /\ Book /\ JobDrives
  BY DEF IInv, Work
<1>2. UNCHANGED <<versions, active, change>> => Book'
  BY <1>1, BookTypes, SameBook
<1>3. ASSUME NEW r \in Rule, CreateVersion(r) PROVE Book'
  <2>1. UNCHANGED <<active, change>> /\ versions' = [versions EXCEPT ![r] = @ + 1]
    BY <1>3 DEF CreateVersion
  <2>2. /\ versions \in [Rule -> Nat] /\ versions' \in [Rule -> Nat]
        /\ \A q \in Rule : versions[q] <= versions'[q]
    BY <1>1, <2>1, BookTypes
  <2> QED
    BY <1>1, <2>1, <2>2, BookTypes, SameBook
<1>4. ASSUME NEW d \in DOMAIN change, RejectChange(d) PROVE Book'
  <2>1. /\ UNCHANGED <<active, versions>>
        /\ change[d].status = "pending_approval"
        /\ change' = [change EXCEPT ![d].status = "rejected"]
    BY <1>4 DEF RejectChange
  <2>2. /\ DOMAIN change' = DOMAIN change /\ change'[d].status = "rejected"
        /\ \A e \in DOMAIN change :
               /\ change'[e].rule = change[e].rule
               /\ change'[e].version = change[e].version /\ change'[e].plan = change[e].plan
               /\ e # d => change'[e] = change[e]
    BY <1>1, <2>1, OnlyStatusMoves DEF ChangeStatus, Moved
  <2>3. ~InWork(d)'
    BY <2>2 DEF InWork, Executing
  <2> QED
    BY <1>1, <2>1, <2>2, <2>3, StatusBook
<1>5. ASSUME RuleSteps PROVE Book'
  <2>1. ASSUME NEW s \in Sensor, CaptureChanges(s) PROVE Book'
    BY <1>2, <2>1 DEF CaptureChanges
  <2> QED
    BY <1>1, <1>3, <1>4, <1>5, <2>1, SubmitBook, ApproveBook DEF RuleSteps
<1>6. ASSUME NEW s, NEW new \in DeploymentStatus, SetRun(c, s, new), c \in DOMAIN change,
             s \in DOMAIN change[c].runs, UNCHANGED <<versions, active>>
      PROVE  Book'
  <2>1. /\ DOMAIN change' = DOMAIN change
        /\ \A d \in DOMAIN change :
               /\ change'[d].status = change[d].status /\ change'[d].rule = change[d].rule
               /\ change'[d].version = change[d].version /\ change'[d].plan = change[d].plan
    BY <1>1, <1>6, SetRunMoves
  <2> QED
    BY <1>1, <1>6, <2>1, BookTypes, SameBook
<1>7. ASSUME NEW s \in job.todo, ClaimDeployment(s) \/ ClaimRollback(s) PROVE Book'
  <2>1. c \in DOMAIN change /\ s \in DOMAIN change[c].runs
    BY <1>1, <1>7 DEF ClaimDeployment, ClaimRollback, JobDrives, Deploys, Undoes
  <2>2. \E new \in DeploymentStatus : SetRun(c, s, new)
    BY <1>7 DEF ClaimDeployment, ClaimRollback, DeploymentStatus
  <2> QED
    BY <1>6, <1>7, <2>1, <2>2 DEF ClaimDeployment, ClaimRollback
<1>8. ASSUME CompleteActivation \/ CompleteRollback \/ RecordRollbackFailure PROVE Book'
  <2>1. c \in DOMAIN change /\ job.at \in DOMAIN change[c].runs
    BY <1>1, <1>8 DEF CompleteActivation, CompleteRollback, RecordRollbackFailure, Observed,
                     JobDrives, Deploys, Undoes, Asking
  <2>2. \E new \in DeploymentStatus : SetRun(c, job.at, new)
    BY <1>8 DEF CompleteActivation, CompleteRollback, RecordRollbackFailure, DeploymentStatus
  <2> QED
    BY <1>6, <1>8, <2>1, <2>2 DEF CompleteActivation, CompleteRollback, RecordRollbackFailure
<1>9. ASSUME ActivateChange PROVE Book'
  <2>1. c \in DOMAIN change /\ change[c].status = "deploying"
    BY <1>1, <1>9 DEF ActivateChange, JobDrives, Deploys
  <2> QED
    BY <1>1, <1>9, <2>1, ActivateBook DEF ActivateChange
<1>10. ASSUME NEW new \in {"rolling_back", "failed", "recovery_required"},
              InWork(c), change[c].status # "active", c \in DOMAIN change,
              NEW runs, Moved(c, new, runs), UNCHANGED <<versions, active>>
       PROVE  Book'
  <2>1. /\ DOMAIN change' = DOMAIN change /\ change'[c].status = new
        /\ \A d \in DOMAIN change :
               /\ change'[d].rule = change[d].rule
               /\ change'[d].version = change[d].version /\ change'[d].plan = change[d].plan
               /\ d # c => change'[d] = change[d]
    BY <1>1, <1>10 DEF Moved
  <2> QED
    BY <1>1, <1>10, <2>1, StatusBook
<1>11. ASSUME BeginRollback PROVE Book'
  <2>1. c \in DOMAIN change /\ change[c].status = "deploying"
    BY <1>1, <1>11 DEF BeginRollback, JobDrives, Deploys, Asking
  <2>2. /\ DOMAIN change' = DOMAIN change /\ change'[c].status = "rolling_back"
        /\ \A d \in DOMAIN change :
               /\ change'[d].rule = change[d].rule
               /\ change'[d].version = change[d].version /\ change'[d].plan = change[d].plan
               /\ d # c => change'[d] = change[d]
    BY <1>1, <1>11, <2>1, OnlyStatusMoves DEF ChangeStatus, BeginRollback, Moved
  <2>3. InWork(c) /\ UNCHANGED <<active, versions>>
    BY <1>11, <2>1 DEF InWork, Executing, BeginRollback
  <2> QED
    BY <1>1, <2>1, <2>2, <2>3, StatusBook
<1>12. ASSUME FinishRollback PROVE Book'
  <2>1. c \in DOMAIN change /\ change[c].status = "rolling_back"
    BY <1>1, <1>12 DEF FinishRollback, JobDrives, Undoes
  <2>2. InWork(c) /\ UNCHANGED <<active, versions>>
    BY <1>12, <2>1 DEF InWork, Executing, FinishRollback
  <2>3. RollbackOutcome \in {"rolling_back", "failed", "recovery_required"}
    BY DEF RollbackOutcome
  <2> QED
    BY <1>1, <1>10, <1>12, <2>1, <2>2, <2>3, FinishedRow
<1>13. ASSUME JobStep PROVE Book'
  <2>1. RequestArrives \/ ObservationFails \/ CompleteRefresh \/ RestoreRefresh \/ EndRestore
        => UNCHANGED <<versions, active, change>>
    BY DEF RequestArrives, ObservationFails, CompleteRefresh, RestoreRefresh, EndRestore, dbVars
  <2> QED
    BY <1>2, <1>7, <1>8, <1>9, <1>11, <1>12, <1>13, <2>1 DEF JobStep
<1>14. ASSUME NEW d \in DOMAIN change, StartDeployment(d) PROVE Book'
  BY <1>2, <1>14 DEF StartDeployment, dbVars
<1>15. ASSUME NEW s \in Sensor,
              \/ StartRefresh(s) \/ Collect(s) \/ CollectSlowly(s) \/ EndCollect(s)
              \/ SwitchBundle(s) \/ ZeekStops(s)
       PROVE  Book'
  BY <1>2, <1>15 DEF StartRefresh, Collect, CollectSlowly, EndCollect, SwitchBundle, ZeekStops, dbVars
<1>16. ASSUME RequestFails \/ Interrupt \/ LateRequestArrives PROVE Book'
  BY <1>2, <1>16 DEF RequestFails, Interrupt, LateRequestArrives, dbVars
<1>17. ASSUME UNCHANGED vars PROVE Book'
  BY <1>2, <1>17 DEF vars, dbVars
<1> QED
  BY <1>5, <1>13, <1>14, <1>15, <1>16, <1>17 DEF Next

-----------------------------------------------------------------------------
(* What the changes have to show for their status.                         *)

ToldRuns(c) == change[c].status \notin {"pending_approval", "rejected"} =>
                   DOMAIN change[c].runs = DOMAIN change[c].plan
ToldActive(c) == change[c].status \in {"active", "superseded"} =>
    DOMAIN change[c].runs = DOMAIN change[c].plan
    /\ \A s \in DOMAIN change[c].runs : change[c].runs[s].status = "active"
ToldFailed(c) == change[c].status = "failed" =>
    \A s \in DOMAIN change[c].plan :
        s \in DOMAIN change[c].runs /\ change[c].runs[s].status \in {"rolled_back", "failed"}
ToldStuck(c) == change[c].status = "recovery_required" =>
    \E s \in DOMAIN change[c].runs : change[c].runs[s].status = "rollback_failed"
Told(c) == ToldRuns(c) /\ ToldActive(c) /\ ToldFailed(c) /\ ToldStuck(c)

\* Shown, change by change.
LEMMA ShownIsTold ==
    /\ Shown <=> \A c \in DOMAIN change : Told(c)
    /\ Shown' <=> \A c \in DOMAIN change' : Told(c)'
<1>1. Shown <=> \A c \in DOMAIN change : Told(c)
  BY DEF Shown, RunsArePlanned, ChangesEndAsRecorded, AllActive, VerifiedActive, Runs,
         Told, ToldRuns, ToldActive, ToldFailed, ToldStuck
<1>2. Shown' <=> \A c \in DOMAIN change' : Told(c)'
  BY DEF Shown, RunsArePlanned, ChangesEndAsRecorded, AllActive, VerifiedActive, Runs,
         Told, ToldRuns, ToldActive, ToldFailed, ToldStuck
<1> QED
  BY <1>1, <1>2

\* One row moves, to one that is told.
LEMMA OneIsTold ==
    ASSUME Shown, NEW c \in DOMAIN change, DOMAIN change' = DOMAIN change,
           \A d \in DOMAIN change : d # c => change'[d] = change[d],
           Told(c)'
    PROVE  Shown'
<1>1. ASSUME NEW d \in DOMAIN change, d # c PROVE Told(d)'
  <2>1. Told(d) /\ change'[d] = change[d]
    BY <1>1, ShownIsTold
  <2> QED
    BY <2>1 DEF Told, ToldRuns, ToldActive, ToldFailed, ToldStuck
<1>2. \A d \in DOMAIN change : Told(d)'
  BY <1>1
<1> QED
  BY <1>2, ShownIsTold

\* The rollback ends with every deployment back or never made, or with a noted failure.
LEMMA FinishShown ==
    ASSUME TypeOK, Shown, Work, FinishRollback
    PROVE  Shown'
<1> DEFINE c == job.change
<1>1. /\ Undoes /\ ~Asking /\ job.todo = {}
      /\ c \in DOMAIN change /\ change[c].status = "rolling_back"
  BY DEF FinishRollback, Undoes, Asking, Work, JobDrives
<1>2. DOMAIN change[c].runs = DOMAIN change[c].plan
  BY <1>1, ShownIsTold DEF Told, ToldRuns
<1>3. PICK runs \in Deployments :
          /\ Moved(c, RollbackOutcome, runs)
          /\ DOMAIN runs = DOMAIN change[c].runs
          /\ \A s \in DOMAIN runs :
                 runs[s].status = IF change[c].runs[s].status = "pending"
                                  THEN "failed" ELSE change[c].runs[s].status
  BY <1>1, FinishedRow
<1>4. PICK k : k = c
  OBVIOUS
<1>5. PICK outcome : outcome = RollbackOutcome
  OBVIOUS
<1>6. Moved(k, outcome, runs)
  BY <1>3, <1>4, <1>5
<1>7. /\ DOMAIN change' = DOMAIN change
      /\ \A d \in DOMAIN change : d # k => change'[d] = change[d]
      /\ change'[k].plan = change[k].plan
      /\ change'[k].status = outcome /\ change'[k].runs = runs
  BY <1>1, <1>4, <1>6 DEF Moved
<1>8. \A s \in DOMAIN runs : \/ runs[s].status \in {"rolled_back", "failed"}
                             \/ job.failed
  BY <1>1, <1>3 DEF Work, UndoLeavesNone, Undone
<1>9. job.failed => \E s \in DOMAIN runs : runs[s].status = "rollback_failed"
  BY <1>1, <1>3 DEF Work, FailureIsNoted
<1>10. Told(k)'
  BY <1>2, <1>3, <1>7, <1>8, <1>9, <1>4, <1>5
     DEF RollbackOutcome, Told, ToldRuns, ToldActive, ToldFailed, ToldStuck
<1> QED
  BY <1>1, <1>7, <1>10, <1>4, OneIsTold

\* Every step keeps what the changes have to show.
LEMMA NextShown == ASSUME IInv, [Next]_vars PROVE Shown'
<1> USE DEF Told, ToldRuns, ToldActive, ToldFailed, ToldStuck
<1>1. TypeOK /\ Shown /\ Work
  BY DEF IInv
<1>2. UNCHANGED change => Shown'
  BY <1>1, ShownIsTold
<1>3. ASSUME NEW r \in Rule, NEW v \in 0..MaxVersion, NEW targets \in TargetSets,
             SubmitChange(r, v, targets)
      PROVE  Shown'
  <2>1. /\ DOMAIN change' = DOMAIN change \cup {Len(change) + 1}
        /\ \A d \in DOMAIN change : change'[d] = change[d]
        /\ change'[Len(change) + 1].status = "pending_approval"
    BY <1>1, <1>3, SubmittedRow
  <2> QED
    BY <1>1, <2>1, ShownIsTold
<1>4. ASSUME NEW c \in DOMAIN change, ApproveChange(c) PROVE Shown'
  <2>1. PICK runs \in Deployments :
            Moved(c, "deploying", runs) /\ DOMAIN runs = DOMAIN change[c].plan
    BY <1>1, <1>4, ApprovedRow
  <2>2. /\ DOMAIN change' = DOMAIN change
        /\ \A d \in DOMAIN change : d # c => change'[d] = change[d]
        /\ change'[c].plan = change[c].plan
        /\ change'[c].status = "deploying" /\ change'[c].runs = runs
    BY <2>1 DEF Moved
  <2>3. Told(c)'
    BY <2>1, <2>2
  <2> QED
    BY <1>1, <2>2, <2>3, OneIsTold
<1>5. ASSUME NEW c \in DOMAIN change, NEW new \in {"rejected", "rolling_back"},
             change' = [change EXCEPT ![c].status = new],
             new = "rolling_back" => change[c].status = "deploying"
      PROVE  Shown'
  <2>1. /\ DOMAIN change' = DOMAIN change
        /\ \A d \in DOMAIN change : d # c => change'[d] = change[d]
        /\ change'[c].plan = change[c].plan
        /\ change'[c].status = new /\ change'[c].runs = change[c].runs
    BY <1>1, <1>5, OnlyStatusMoves DEF ChangeStatus, Moved
  <2>2. Told(c)'
    BY <1>1, <1>5, <2>1, ShownIsTold
  <2> QED
    BY <1>1, <2>1, <2>2, OneIsTold
<1>6. ASSUME RuleSteps PROVE Shown'
  BY <1>2, <1>3, <1>4, <1>5, <1>6 DEF RuleSteps, CreateVersion, RejectChange, CaptureChanges
<1>7. ASSUME NEW c \in DOMAIN change, NEW s \in DOMAIN change[c].runs,
             NEW new \in DeploymentStatus, SetRun(c, s, new),
             change[c].status \in {"deploying", "rolling_back"}
      PROVE  Shown'
  <2>1. /\ DOMAIN change' = DOMAIN change
        /\ \A d \in DOMAIN change : d # c => change'[d] = change[d]
        /\ change'[c].status = change[c].status /\ change'[c].plan = change[c].plan
        /\ DOMAIN change'[c].runs = DOMAIN change[c].runs
    BY <1>1, <1>7, SetRunMoves
  <2>2. Told(c)'
    BY <1>1, <1>7, <2>1, ShownIsTold
  <2> QED
    BY <1>1, <2>1, <2>2, OneIsTold
<1>8. ASSUME NEW s \in job.todo, ClaimDeployment(s) \/ ClaimRollback(s) PROVE Shown'
  <2>1. /\ job.change \in DOMAIN change /\ s \in DOMAIN change[job.change].runs
        /\ change[job.change].status \in {"deploying", "rolling_back"}
    BY <1>1, <1>8 DEF ClaimDeployment, ClaimRollback, Work, JobDrives, Deploys, Undoes
  <2>2. \E new \in DeploymentStatus : SetRun(job.change, s, new)
    BY <1>8 DEF ClaimDeployment, ClaimRollback, DeploymentStatus
  <2> QED
    BY <1>7, <2>1, <2>2
<1>9. ASSUME CompleteActivation \/ CompleteRollback \/ RecordRollbackFailure PROVE Shown'
  <2>1. /\ job.change \in DOMAIN change /\ job.at \in DOMAIN change[job.change].runs
        /\ change[job.change].status \in {"deploying", "rolling_back"}
    BY <1>1, <1>9 DEF CompleteActivation, CompleteRollback, RecordRollbackFailure, Observed,
                     Work, JobDrives, Deploys, Undoes, Asking
  <2>2. \E new \in DeploymentStatus : SetRun(job.change, job.at, new)
    BY <1>9 DEF CompleteActivation, CompleteRollback, RecordRollbackFailure, DeploymentStatus
  <2> QED
    BY <1>7, <2>1, <2>2
<1>10. ASSUME ActivateChange PROVE Shown'
  <2>1. job.change \in DOMAIN change /\ change[job.change].status = "deploying"
    BY <1>1, <1>10 DEF ActivateChange, Work, JobDrives, Deploys
  <2> PICK c : c = job.change
    OBVIOUS
  <2>2. /\ DOMAIN change' = DOMAIN change
        /\ \A d \in DOMAIN change :
               /\ change'[d].plan = change[d].plan /\ change'[d].runs = change[d].runs
               /\ change'[d].status =
                      IF d = c THEN "active"
                      ELSE IF change[d].rule = change[c].rule /\ change[d].status = "active"
                           THEN "superseded" ELSE change[d].status
    BY <1>1, <1>10, <2>1, ActivatedRows DEF ActivateChange
  <2>3. \A s \in DOMAIN change[c].runs : change[c].runs[s].status = "active"
    BY <1>10 DEF ActivateChange, AllActive, VerifiedActive
  <2>4. ASSUME NEW d \in DOMAIN change PROVE Told(d)'
    BY <1>1, <2>1, <2>2, <2>3, ShownIsTold
  <2> QED
    BY <2>2, <2>4, ShownIsTold
<1>11. ASSUME BeginRollback PROVE Shown'
  <2>1. job.change \in DOMAIN change /\ change[job.change].status = "deploying"
    BY <1>1, <1>11 DEF BeginRollback, Work, JobDrives, Deploys, Asking
  <2> QED
    BY <1>5, <1>11, <2>1 DEF BeginRollback
<1>12. ASSUME JobStep PROVE Shown'
  <2>1. RequestArrives \/ ObservationFails \/ CompleteRefresh \/ RestoreRefresh \/ EndRestore
        => UNCHANGED change
    BY DEF RequestArrives, ObservationFails, CompleteRefresh, RestoreRefresh, EndRestore, dbVars
  <2> QED
    BY <1>1, <1>2, <1>8, <1>9, <1>10, <1>11, <1>12, <2>1, FinishShown DEF JobStep
<1>13. ASSUME NEW d \in DOMAIN change, StartDeployment(d) PROVE Shown'
  BY <1>2, <1>13 DEF StartDeployment, dbVars
<1>14. ASSUME NEW s \in Sensor,
              \/ StartRefresh(s) \/ Collect(s) \/ CollectSlowly(s) \/ EndCollect(s)
              \/ SwitchBundle(s) \/ ZeekStops(s)
       PROVE  Shown'
  BY <1>2, <1>14 DEF StartRefresh, Collect, CollectSlowly, EndCollect, SwitchBundle, ZeekStops, dbVars
<1>15. ASSUME RequestFails \/ Interrupt \/ LateRequestArrives PROVE Shown'
  BY <1>2, <1>15 DEF RequestFails, Interrupt, LateRequestArrives, dbVars
<1>16. ASSUME UNCHANGED vars PROVE Shown'
  BY <1>2, <1>16 DEF vars, dbVars
<1> QED
  BY <1>6, <1>12, <1>13, <1>14, <1>15, <1>16 DEF Next

-----------------------------------------------------------------------------
(* The job.                                                                *)

\* No job, or a refresh, relies on nothing.
LEMMA FreeWork ==
    ASSUME ~job'.failed,
           \/ job'.stage = "idle"
           \/ job'.way \in {"refresh", "restore"} /\ job'.at \in Sensor
              /\ job'.stage \in {"wait", "observe", "error"}
    PROVE  Work'
BY DEF Work, JobDrives, UndoLeavesNone, FailureIsNoted, Deploys, Undoes, Asking

\* A step of others leaves the rows the job relies on.
LEMMA SameWork ==
    ASSUME Work, job' = job, DOMAIN change \subseteq DOMAIN change',
           \A d \in DOMAIN change : change'[d] = change[d]
    PROVE  Work'
<1>1. Deploys \/ Undoes => job.change \in DOMAIN change
  BY DEF Work, JobDrives
<1>2. /\ Deploys' <=> Deploys
      /\ Undoes' <=> Undoes
      /\ Asking' <=> Asking
  BY DEF Deploys, Undoes, Asking
<1>3. job.failed => Undoes
  BY DEF Work, FailureIsNoted
<1>4. CASE ~Deploys /\ ~Undoes
  BY <1>2, <1>3, <1>4 DEF Work, JobDrives, UndoLeavesNone, FailureIsNoted
<1>5. CASE Deploys \/ Undoes
  <2>1. job'.change \in DOMAIN change' /\ change'[job'.change] = change[job.change]
    BY <1>1, <1>5
  <2> QED
    BY <1>2, <2>1 DEF Work, JobDrives, UndoLeavesNone, FailureIsNoted
<1> QED
  BY <1>4, <1>5

\* The answer to a request, or its loss.
LEMMA AskWork ==
    ASSUME TypeOK, Work, Asking, change' = change, NEW stage \in {"wait", "observe", "error"},
           job' = [job EXCEPT !.stage = stage]
    PROVE  Work'
<1>1. job \in Job
  BY RowTypes
<1>2. /\ job'.change = job.change /\ job'.at = job.at /\ job'.way = job.way
      /\ job'.todo = job.todo /\ job'.failed = job.failed /\ job'.stage = stage
  BY <1>1 DEF Job
<1>3. Asking' /\ (Deploys' <=> Deploys) /\ (Undoes' <=> Undoes)
  BY <1>2 DEF Deploys, Undoes, Asking
<1> QED
  BY <1>2, <1>3 DEF Work, JobDrives, UndoLeavesNone, FailureIsNoted

\* A rollback begins with every deployment that may have reached its sensor.
LEMMA UndoBegins ==
    ASSUME TypeOK, NEW c \in DOMAIN change, c \in DOMAIN change',
           change'[c].status = "rolling_back", change'[c].runs = change[c].runs,
           job'.change = c, job'.stage = "undo", job'.todo = Undoable(c), ~job'.failed
    PROVE  Work'
<1>1. Undoes' /\ ~Deploys' /\ ~Asking'
  BY DEF Undoes, Deploys, Asking
<1>2. \A s \in DOMAIN change[c].runs : change[c].runs[s].status \in DeploymentStatus
  BY ChangeRows DEF Deployment
<1>3. \A s \in DOMAIN change[c].runs :
          change[c].runs[s].status \in Undone \/ s \in Undoable(c)
  BY <1>2 DEF Undone, Undoable, Runs, DeploymentStatus
<1>4. Undoable(c) \subseteq DOMAIN change[c].runs
  BY DEF Undoable, Runs
<1> QED
  BY <1>1, <1>3, <1>4 DEF Work, JobDrives, UndoLeavesNone, FailureIsNoted, Undone

\* A deployment or a rollback of one sensor is asked for.
LEMMA ClaimWork ==
    ASSUME TypeOK, Work, NEW s \in job.todo, ClaimDeployment(s) \/ ClaimRollback(s)
    PROVE  Work'
<1> PICK c : c = job.change
  OBVIOUS
<1>1. /\ job \in Job /\ c \in DOMAIN change /\ job.todo \subseteq DOMAIN change[c].runs
      /\ s \in Sensor /\ s \in DOMAIN change[c].runs
  BY RowTypes DEF ClaimDeployment, ClaimRollback, Work, JobDrives, Deploys, Undoes
<1>2. /\ job'.change = c /\ job'.at = s /\ job'.stage = "wait" /\ job'.todo = job.todo \ {s}
      /\ job'.failed = job.failed
  BY <1>1, SMTT(15), ZenonT(25) DEF ClaimDeployment, ClaimRollback, Job
<1>3. /\ DOMAIN change' = DOMAIN change /\ change'[c].status = change[c].status
      /\ DOMAIN change'[c].runs = DOMAIN change[c].runs
      /\ \A t \in DOMAIN change[c].runs :
             t # s => change'[c].runs[t].status = change[c].runs[t].status
  <2>1. \E new \in DeploymentStatus : SetRun(c, s, new)
    BY DEF ClaimDeployment, ClaimRollback, DeploymentStatus
  <2> QED
    BY <1>1, <2>1, SetRunMoves
<1>4. ~Asking /\ Asking'
  BY <1>2 DEF ClaimDeployment, ClaimRollback, Asking
<1>5. CASE ClaimDeployment(s)
  <2>1. job'.way = "deploy"
    BY <1>1, <1>5 DEF ClaimDeployment, Job
  <2>2. Deploys' /\ ~Undoes' /\ Deploys /\ ~Undoes
    BY <1>2, <1>5, <2>1 DEF ClaimDeployment, Deploys, Undoes, Asking
  <2> QED
    BY <1>1, <1>2, <1>3, <2>2 DEF Work, JobDrives, UndoLeavesNone, FailureIsNoted
<1>6. CASE ClaimRollback(s)
  <2>1. job'.way = "undo"
    BY <1>1, <1>6 DEF ClaimRollback, Job
  <2>2. Undoes' /\ ~Deploys' /\ Undoes /\ ~Deploys
    BY <1>2, <1>6, <2>1 DEF ClaimRollback, Deploys, Undoes, Asking
  <2>3. JobDrives'
    BY <1>1, <1>2, <1>3, <2>2 DEF Work, JobDrives
  <2>4. UndoLeavesNone'
    BY <1>1, <1>2, <1>3, <1>4, <2>2 DEF Work, UndoLeavesNone, Undone
  <2>5. FailureIsNoted'
    BY <1>1, <1>2, <1>3, <1>4, <2>2 DEF Work, FailureIsNoted
  <2> QED
    BY <2>3, <2>4, <2>5 DEF Work
<1> QED
  BY <1>5, <1>6

\* The outcome for one sensor is recorded, and the job goes on with the others.
LEMMA OutcomeWork ==
    ASSUME TypeOK, Work, CompleteActivation \/ CompleteRollback \/ RecordRollbackFailure
    PROVE  Work'
<1> PICK c, s : c = job.change /\ s = job.at
  OBVIOUS
<1>1. job \in Job /\ Asking /\ (Deploys \/ Undoes)
  BY RowTypes DEF CompleteActivation, CompleteRollback, RecordRollbackFailure, Observed,
                  Asking, Deploys, Undoes
<1>2. /\ c \in DOMAIN change /\ job.todo \subseteq DOMAIN change[c].runs
      /\ s \in DOMAIN change[c].runs \ job.todo
  BY <1>1 DEF Work, JobDrives
<1>3. /\ job'.change = c /\ job'.todo = job.todo
      /\ job'.stage = IF CompleteActivation THEN "deploy" ELSE "undo"
      /\ job'.failed = (job.failed \/ RecordRollbackFailure)
  BY <1>1 DEF CompleteActivation, CompleteRollback, RecordRollbackFailure, Goto, Job
<1>4. \E new \in DeploymentStatus :
          /\ SetRun(c, s, new)
          /\ CompleteRollback => new = "rolled_back"
          /\ RecordRollbackFailure => new = "rollback_failed"
  BY DEF CompleteActivation, CompleteRollback, RecordRollbackFailure, DeploymentStatus, Observed
<1>5. /\ DOMAIN change' = DOMAIN change /\ change'[c].status = change[c].status
      /\ DOMAIN change'[c].runs = DOMAIN change[c].runs
      /\ \A t \in DOMAIN change[c].runs :
             t # s => change'[c].runs[t].status = change[c].runs[t].status
      /\ CompleteRollback => change'[c].runs[s].status = "rolled_back"
      /\ RecordRollbackFailure => change'[c].runs[s].status = "rollback_failed"
  BY <1>2, <1>4, SetRunMoves
<1>6. ~Asking'
  BY <1>3 DEF Asking
<1>7. CASE CompleteActivation
  <2>1. Deploys' /\ ~Undoes' /\ Deploys /\ ~Undoes /\ ~RecordRollbackFailure
    BY <1>3, <1>6, <1>7 DEF CompleteActivation, RecordRollbackFailure, Observed, Deploys, Undoes, Asking
  <2> QED
    BY <1>2, <1>3, <1>5, <1>6, <2>1 DEF Work, JobDrives, UndoLeavesNone, FailureIsNoted
<1>8. CASE CompleteRollback \/ RecordRollbackFailure
  <2>1. Undoes' /\ ~Deploys' /\ Undoes /\ ~Deploys
    BY <1>3, <1>6, <1>8
       DEF CompleteActivation, CompleteRollback, RecordRollbackFailure, Observed, Deploys, Undoes, Asking
  <2>2. JobDrives'
    BY <1>2, <1>3, <1>5, <1>6, <2>1 DEF Work, JobDrives
  <2>3. UndoLeavesNone'
    <3>1. ASSUME NEW t \in DOMAIN change[c].runs
          PROVE  \/ change'[c].runs[t].status \in Undone
                 \/ t \in job'.todo
                 \/ job'.failed /\ change'[c].runs[t].status = "rollback_failed"
      <4>1. CASE t = s
        BY <1>3, <1>5, <1>8, <4>1 DEF Undone
      <4>2. CASE t # s
        <5>1. \/ change[c].runs[t].status \in Undone
              \/ t \in job.todo
              \/ job.failed /\ change[c].runs[t].status = "rollback_failed"
          BY <2>1, <4>2 DEF Work, UndoLeavesNone
        <5> QED
          BY <1>3, <1>5, <4>2, <5>1
      <4> QED
        BY <4>1, <4>2
    <3> QED
      BY <1>3, <1>5, <3>1 DEF UndoLeavesNone, Undone
  <2>4. FailureIsNoted'
    <3>1. CASE RecordRollbackFailure
      BY <1>2, <1>3, <1>5, <1>6, <2>1, <3>1 DEF FailureIsNoted
    <3>2. CASE ~RecordRollbackFailure
      BY <1>1, <1>2, <1>3, <1>5, <1>6, <2>1, <3>2 DEF Work, FailureIsNoted
    <3> QED
      BY <3>1, <3>2
  <2> QED
    BY <2>2, <2>3, <2>4 DEF Work
<1> QED
  BY <1>7, <1>8

\* Every step leaves the job what it relies on.
LEMMA NextWork == ASSUME IInv, [Next]_vars PROVE Work'
<1>1. TypeOK /\ Work /\ job \in Job
  BY RowTypes DEF IInv
<1>2. LeaseFree => ~job.failed
  BY <1>1 DEF LeaseFree, Work, FailureIsNoted, Undoes, Asking
<1>3. job' = NoJob => Work'
  BY FreeWork DEF NoJob
<1>4. UNCHANGED <<change, job>> => Work'
  BY <1>1, SameWork
<1>5. job' = job /\ LeaseFree => Work'
  BY <1>2, FreeWork DEF LeaseFree
<1>6. ASSUME NEW r \in Rule, NEW v \in 0..MaxVersion, NEW targets \in TargetSets,
             SubmitChange(r, v, targets)
      PROVE  Work'
  <2>1. /\ DOMAIN change' = DOMAIN change \cup {Len(change) + 1}
        /\ \A d \in DOMAIN change : change'[d] = change[d]
    BY <1>1, <1>6, SubmittedRow
  <2> QED
    BY <1>1, <1>6, <2>1, SameWork DEF SubmitChange
<1>7. ASSUME RuleSteps PROVE Work'
  <2>1. ASSUME NEW r \in Rule, CreateVersion(r) PROVE Work'
    BY <1>4, <2>1 DEF CreateVersion
  <2>2. ASSUME NEW d \in DOMAIN change, ApproveChange(d) \/ RejectChange(d) PROVE Work'
    BY <1>5, <2>2 DEF ApproveChange, RejectChange
  <2>3. ASSUME NEW s \in Sensor, CaptureChanges(s) PROVE Work'
    BY <1>4, <2>3 DEF CaptureChanges
  <2> QED
    BY <1>6, <1>7, <2>1, <2>2, <2>3 DEF RuleSteps
<1>8. ASSUME NEW d \in DOMAIN change, StartDeployment(d) PROVE Work'
  <2>1. change' = change /\ d \in 0..MaxChanges /\ NoJob \in Job
    BY <1>1, <1>8, ChangeRows, RowTypes DEF StartDeployment, dbVars
  <2>2. CASE change[d].status = "rolling_back"
    <3>1. /\ job'.change = d /\ job'.stage = "undo" /\ job'.todo = Undoable(d) /\ ~job'.failed
      BY <1>8, <2>2 DEF StartDeployment, NoJob
    <3> QED
      BY <1>1, <2>1, <2>2, <3>1, UndoBegins
  <2>3. CASE change[d].status = "deploying"
    <3>1. /\ job'.change = d /\ job'.stage \in {"deploy", "abort"} /\ job'.todo = Incomplete(d)
          /\ ~job'.failed
      BY <1>8, <2>3 DEF StartDeployment, NoJob
    <3>2. Incomplete(d) \subseteq DOMAIN change[d].runs
      BY DEF Incomplete, Runs
    <3>3. Deploys' /\ ~Undoes' /\ ~Asking'
      BY <3>1 DEF Deploys, Undoes, Asking
    <3> QED
      BY <2>1, <2>3, <3>1, <3>2, <3>3 DEF Work, JobDrives, UndoLeavesNone, FailureIsNoted
  <2> QED
    BY <1>8, <2>2, <2>3 DEF StartDeployment
<1>9. ASSUME NEW s \in Sensor, StartRefresh(s) PROVE Work'
  <2>1. CASE RunsBundle(s)
    BY <1>5, <1>9, <2>1 DEF StartRefresh
  <2>2. CASE ~RunsBundle(s)
    <3>1. /\ job'.stage = "wait" /\ job'.way = "refresh" /\ job'.at = s /\ ~job'.failed
      BY <1>9, <2>2 DEF StartRefresh, NoJob
    <3> QED
      BY <3>1, FreeWork
  <2> QED
    BY <2>1, <2>2
<1>10. ASSUME RequestArrives \/ RequestFails \/ ObservationFails PROVE Work'
  <2>1. Asking /\ change' = change
    BY <1>10 DEF RequestArrives, RequestFails, ObservationFails, Asking, dbVars
  <2>2. \E stage \in {"wait", "observe", "error"} : job' = [job EXCEPT !.stage = stage]
    BY <1>10 DEF RequestArrives, RequestFails, ObservationFails, Goto
  <2> QED
    BY <1>1, <2>1, <2>2, AskWork
<1>11. ASSUME BeginRollback PROVE Work'
  <2>1. /\ Deploys /\ ~Undoes
    BY <1>11 DEF BeginRollback, Deploys, Undoes, Asking
  <2>2. /\ ~job.failed /\ job.change \in DOMAIN change
    BY <1>1, <2>1 DEF Work, JobDrives, FailureIsNoted
  <2> PICK c : c = job.change
    OBVIOUS
  <2>3. change' = [change EXCEPT ![c].status = "rolling_back"]
    BY <1>11 DEF BeginRollback
  <2>4. Moved(c, "rolling_back", change[c].runs)
    BY <1>1, <2>2, <2>3, OnlyStatusMoves DEF ChangeStatus
  <2>5. /\ c \in DOMAIN change' /\ change'[c].status = "rolling_back"
        /\ change'[c].runs = change[c].runs
    BY <2>2, <2>4 DEF Moved
  <2>6. job'.change = c /\ job'.stage = "undo" /\ job'.todo = Undoable(c) /\ ~job'.failed
    BY <1>1, <1>11, <2>2 DEF BeginRollback, Job
  <2> QED
    BY <1>1, <2>2, <2>5, <2>6, UndoBegins
<1>12. ASSUME RestoreRefresh PROVE Work'
  <2>1. ~Undoes /\ Asking
    BY <1>12 DEF RestoreRefresh, Undoes, Asking
  <2>2. ~job.failed /\ job.at \in Sensor
    BY <1>1, <2>1 DEF Work, JobDrives, FailureIsNoted
  <2>3. /\ job'.stage = "wait" /\ job'.way = "restore" /\ job'.at = job.at
        /\ job'.failed = job.failed
    BY <1>1, <1>12 DEF RestoreRefresh, Job
  <2> QED
    BY <2>2, <2>3, FreeWork
<1>13. ASSUME JobStep PROVE Work'
  <2>1. ActivateChange \/ FinishRollback \/ CompleteRefresh \/ EndRestore => job' = NoJob
    BY DEF ActivateChange, FinishRollback, CompleteRefresh, EndRestore, Finish
  <2> QED
    BY <1>1, <1>3, <1>10, <1>11, <1>12, <1>13, <2>1, ClaimWork, OutcomeWork DEF JobStep
<1>14. ASSUME NEW s \in Sensor,
              Collect(s) \/ CollectSlowly(s) \/ EndCollect(s) \/ SwitchBundle(s) \/ ZeekStops(s)
       PROVE  Work'
  BY <1>4, <1>14 DEF Collect, CollectSlowly, EndCollect, SwitchBundle, ZeekStops, dbVars
<1>15. ASSUME Interrupt \/ LateRequestArrives PROVE Work'
  BY <1>3, <1>4, <1>15 DEF Interrupt, LateRequestArrives, Finish, dbVars
<1>16. ASSUME UNCHANGED vars PROVE Work'
  BY <1>4, <1>16 DEF vars, dbVars
<1> QED
  BY <1>7, <1>8, <1>9, <1>10, <1>13, <1>14, <1>15, <1>16 DEF Next

-----------------------------------------------------------------------------
(* The theorems.                                                           *)

\* The invariant holds before the first change ...
LEMMA InitIInv == Init => IInv
<1> SUFFICES ASSUME Init PROVE IInv
  OBVIOUS
<1>1. TypeOK
  BY InitTypeOK
<1>2. DOMAIN change = {}
  BY DEF Init
<1>3. \A r \in Rule : active[r] = IF r \in Builtin THEN 1 ELSE 0
  BY DEF Init
<1>4. Book
  BY <1>2, <1>3 DEF Book, UniqueInWork, VersionsExist, RulesFollowChanges, DeploymentsKeepOtherRules
<1>5. Shown
  BY <1>2 DEF Shown, RunsArePlanned, ChangesEndAsRecorded
<1>6. Work
  BY DEF Init, NoJob, Work, JobDrives, UndoLeavesNone, FailureIsNoted, Deploys, Undoes, Asking
<1> QED
  BY <1>1, <1>4, <1>5, <1>6 DEF IInv

\* The requests, the collector and the sensors keep the types.
LEMMA NextTypeOK == ASSUME IInv, [Next]_vars PROVE TypeOK'
<1>1. TypeOK /\ Shown /\ Book /\ Work
  BY DEF IInv
<1>2. /\ sensor \in [Sensor -> SensorRow] /\ box \in [Sensor -> SensorBox]
      /\ polled \in [Sensor -> {{}} \cup {{b} : b \in BundleOrNone}]
      /\ job \in Job /\ late \subseteq Sensor \X BundleOrNone
  BY <1>1 DEF TypeOK
<1>3. Asking => job.at \in Sensor
  BY <1>1 DEF Work, JobDrives
<1>4. ASSUME NEW s \in Sensor, NEW bundle \in BundleOrNone
      PROVE  /\ Collected(s, bundle) => sensor' \in [Sensor -> SensorRow]
             /\ Issue(s) => sensor' \in [Sensor -> SensorRow]
             /\ [sensor EXCEPT ![s].desired = bundle] \in [Sensor -> SensorRow]
  BY <1>2 DEF Collected, Issue, SensorRow
<1>5. ASSUME JobStep PROVE TypeOK'
  BY <1>1, <1>5, JobStepTypeOK DEF Shown, Book
<1>6. ASSUME RuleSteps PROVE TypeOK'
  BY <1>1, <1>6, RuleStepsTypeOK
<1>7. ASSUME NEW c \in DOMAIN change, StartDeployment(c) PROVE TypeOK'
  <2>1. Undoable(c) \in SUBSET Sensor /\ Incomplete(c) \in SUBSET Sensor /\ c \in 0..MaxChanges
    BY <1>1, ChangeRows DEF Undoable, Incomplete, Runs
  <2>2. \E todo \in SUBSET Sensor, stage \in {"undo", "deploy", "abort"} :
            job' = [NoJob EXCEPT !.change = c, !.stage = stage, !.todo = todo]
    <3>1. CASE change[c].status = "rolling_back"
      <4>1. job' = [NoJob EXCEPT !.change = c, !.stage = "undo", !.todo = Undoable(c)]
        BY <1>7, <3>1 DEF StartDeployment
      <4> QED
        BY <2>1, <4>1
    <3>2. CASE change[c].status = "deploying"
      <4>1. PICK stage \in {"deploy", "abort"} :
                job' = [NoJob EXCEPT !.change = c, !.todo = Incomplete(c), !.stage = stage]
        BY <1>7, <3>2 DEF StartDeployment
      <4>2. job' = [NoJob EXCEPT !.change = c, !.stage = stage, !.todo = Incomplete(c)]
        BY <4>1 DEF NoJob
      <4> QED
        BY <2>1, <4>2
    <3> QED
      BY <1>7, <3>1, <3>2 DEF StartDeployment
  <2>3. job' \in Job
    <3>1. PICK todo \in SUBSET Sensor, stage \in {"undo", "deploy", "abort"} :
              job' = [NoJob EXCEPT !.change = c, !.stage = stage, !.todo = todo]
      BY <2>2
    <3>2. stage \in Stage
      BY DEF Stage
    <3>3. [NoJob EXCEPT !.change = c, !.stage = stage, !.todo = todo] \in Job
      BY <1>1, <2>1, <3>2, JobMoves
    <3> QED
      BY <3>1, <3>3
  <2> QED
    BY <1>1, <1>2, <1>7, <2>3, RestTypeOK DEF StartDeployment, dbVars
<1>8. ASSUME NEW s \in Sensor, StartRefresh(s) PROVE TypeOK'
  <2>1. CurrentBundle(s) \in BundleOrNone /\ sensor[s].active \in BundleOrNone
    BY <1>1, BundleTypes, RowTypes
  <2>2. job' \in Job /\ sensor' \in [Sensor -> SensorRow]
    BY <1>1, <1>2, <1>4, <1>8, <2>1, JobMoves DEF StartRefresh
  <2> QED
    BY <1>1, <1>2, <1>8, <2>2, RestTypeOK DEF StartRefresh, dbVars
<1>9. Abandoned /\ (job.stage = "wait" => job.at \in Sensor)
      => late' \subseteq Sensor \X BundleOrNone
  BY <1>1, <1>2, RowTypes DEF Abandoned
<1>10. ASSUME RequestFails \/ Interrupt PROVE TypeOK'
  <2>1. late' \subseteq Sensor \X BundleOrNone
    BY <1>3, <1>9, <1>10 DEF RequestFails, Interrupt, Asking
  <2>2. job' \in Job
    BY <1>1, <1>10, JobMoves, RowTypes DEF RequestFails, Interrupt, Finish, Goto, Stage
  <2> QED
    BY <1>1, <1>2, <1>10, <2>1, <2>2, RestTypeOK DEF RequestFails, Interrupt, dbVars
<1>11. ASSUME LateRequestArrives PROVE TypeOK'
  <2>1. PICK m \in late : box' = [box EXCEPT ![m[1]].desired = m[2]]
    BY <1>11 DEF LateRequestArrives
  <2>2. m[1] \in Sensor /\ m[2] \in BundleOrNone
    BY <1>2
  <2>3. box' \in [Sensor -> SensorBox]
    BY <1>2, <2>1, <2>2 DEF SensorBox
  <2> QED
    BY <1>1, <1>2, <1>11, <2>3, RestTypeOK DEF LateRequestArrives, dbVars
<1>12. ASSUME NEW s \in Sensor, Collect(s) \/ CollectSlowly(s) \/ EndCollect(s) PROVE TypeOK'
  <2>1. box[s].active \in BundleOrNone /\ polled[s] \subseteq BundleOrNone
    BY <1>1, <1>2, RowTypes
  <2>2. sensor' \in [Sensor -> SensorRow]
    BY <1>2, <1>4, <1>12, <2>1 DEF Collect, CollectSlowly, EndCollect
  <2>3. polled' \in [Sensor -> {{}} \cup {{b} : b \in BundleOrNone}]
    BY <1>2, <1>12, <2>1 DEF Collect, CollectSlowly, EndCollect
  <2> QED
    BY <1>1, <1>2, <1>12, <2>2, <2>3, RestTypeOK DEF Collect, CollectSlowly, EndCollect, dbVars
<1>13. ASSUME NEW s \in Sensor, SwitchBundle(s) \/ ZeekStops(s) PROVE TypeOK'
  <2>1. box[s].desired \in BundleOrNone /\ Nothing \in BundleOrNone
    BY <1>1, RowTypes
  <2>2. box' \in [Sensor -> SensorBox]
    BY <1>2, <1>13, <2>1 DEF SwitchBundle, ZeekStops, SensorBox
  <2> QED
    BY <1>1, <1>2, <1>13, <2>2, RestTypeOK DEF SwitchBundle, ZeekStops, dbVars
<1>14. ASSUME UNCHANGED vars PROVE TypeOK'
  BY <1>1, <1>14 DEF TypeOK, vars, dbVars
<1> QED
  BY <1>5, <1>6, <1>7, <1>8, <1>10, <1>11, <1>12, <1>13, <1>14 DEF Next

\* ... and every step keeps it.
LEMMA NextIInv == IInv /\ [Next]_vars => IInv'
<1> SUFFICES ASSUME IInv, [Next]_vars PROVE IInv'
  OBVIOUS
<1> QED
  BY NextTypeOK, NextBook, NextShown, NextWork DEF IInv

\* The invariant of a deployment, its rollback and the refreshes holds in every state.
THEOREM Invariance == Spec => []IInv
BY InitIInv, NextIInv, PTL DEF Spec

\* The types of the rules, changes, sensors and jobs.
THEOREM TypeCorrect == Spec => []TypeOK
<1>1. IInv => TypeOK
  BY DEF IInv
<1> QED
  BY <1>1, Invariance, PTL

\* At most one change is under way or waits for recovery: decide_rule_change looks at the
\* others under the lease, and nothing but an approval puts one under way.
THEOREM OneChangeUnderWayAlways == Spec => []OneChangeUnderWay
<1>1. IInv => OneChangeUnderWay
  <2> SUFFICES ASSUME IInv PROVE OneChangeUnderWay
    OBVIOUS
  <2> DEFINE S == {c \in DOMAIN change : change[c].status \in Executing \cup {"recovery_required"}}
  <2>1. \A c, d \in S : c = d
    BY DEF IInv, Book, UniqueInWork, InWork
  <2> HIDE DEF S
  <2>2. Cardinality(S) <= 1
    BY <2>1, AtMostOne
  <2> QED
    BY <2>2 DEF S, OneChangeUnderWay
<1> QED
  BY <1>1, Invariance, PTL

\* What a change that is over says of its sensors is so: _finish_change_rollback and
\* _activate_change look at every deployment, whichever process made it.
THEOREM ChangesEndAsRecordedAlways == Spec => []ChangesEndAsRecorded
<1>1. IInv => ChangesEndAsRecorded
  BY DEF IInv, Shown
<1> QED
  BY <1>1, Invariance, PTL

\* A rule runs in the version its one active change has deployed.
THEOREM RulesRunTheirChangeAlways == Spec => []RulesRunTheirChange
<1>1. IInv => RulesRunTheirChange
  <2> SUFFICES ASSUME IInv, NEW r \in Rule
               PROVE  LET S == {c \in DOMAIN change : change[c].rule = r /\ change[c].status = "active"}
                      IN  /\ Cardinality(S) <= 1
                          /\ \A c \in S : active[r] = change[c].version
                          /\ S = {} => active[r] = IF r \in Builtin THEN 1 ELSE 0
    BY DEF RulesRunTheirChange
  <2> DEFINE S == {c \in DOMAIN change : change[c].rule = r /\ change[c].status = "active"}
  <2>1. /\ \A c, d \in S : c = d
        /\ \A c \in S : active[r] = change[c].version
        /\ S = {} => active[r] = IF r \in Builtin THEN 1 ELSE 0
    BY DEF IInv, Book, RulesFollowChanges, RunsRule
  <2> HIDE DEF S
  <2>2. Cardinality(S) <= 1
    BY <2>1, AtMostOne
  <2> QED
    BY <2>1, <2>2 DEF S
<1> QED
  BY <1>1, Invariance, PTL

\* While a change is deployed its planned bundles hold what every other rule runs in: an
\* approval compares the bundles of the submission with those of now, and one change at a
\* time is under way.
THEOREM DeploymentsKeepOtherRulesAlways == Spec => []DeploymentsKeepOtherRules
<1>1. IInv => DeploymentsKeepOtherRules
  BY DEF IInv, Book
<1> QED
  BY <1>1, Invariance, PTL
=============================================================================
