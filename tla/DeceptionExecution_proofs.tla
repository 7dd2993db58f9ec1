---------------------- MODULE DeceptionExecution_proofs ----------------------
(***************************************************************************)
(* Proofs about DeceptionExecution: first what the containers keep (locks, *)
(* selections, generations, Runs) under every step of the composition, and *)
(* then what the environments, revisions and executors keep.               *)
(***************************************************************************)
EXTENDS DeceptionExecution, TLAPS, FiniteSetTheorems

\* Rows have all their fields, which the type invariant of the module leaves open.
Rows == [status : Status \cup {"absent"}, gen : Nat, rev : Rev \cup {Nothing}]

BoxTypeInv ==
    /\ BoxTypeOK
    /\ box \in [Box -> Rows]
    /\ \A a \in Actor : op[a].stage # "out" => op[a].box \in Box /\ op[a].kind \in Mutation

AtStep == {"begun", "ran", "applied", "verifying", "marked", "undone"}

\* Executors start and delete containers, operators do the rest.
NodeMutation == {"start", "delete"}

\* What an executor has in hand exists: its revision, the step it is at, the container
\* it has just created; a mutation of its own is the one its stage asks for.
WellFormed ==
    /\ \A r \in Rev : rev[r].status # "absent" => rev[r].env \in Env
    /\ \A n \in Node :
          /\ exec[n].at \in {"idle", "dead"} <=> exec[n].rev = Nothing
          /\ exec[n].rev # Nothing => rev[exec[n].rev].status # "absent"
          /\ exec[n].at \in AtStep => exec[n].step <= Steps
          /\ exec[n].at \in {"created", "bound", "started"} => exec[n].box \in Box
          /\ \A t \in todo[n] : rev[t[1]].status # "absent"
          /\ op[n].stage # "out" =>
                /\ op[n].kind \in NodeMutation /\ op[n].box = exec[n].box
                /\ IF op[n].kind = "start" THEN exec[n].at = "bound"
                   ELSE exec[n].at \in {"failing", "releasing"}

TypeInv == TypeOK /\ BoxTypeInv /\ WellFormed

-----------------------------------------------------------------------------
(* The containers' part of a step.  What executors and environments do to  *)
(* the containers is one of the operations of SandboxContainers or one of  *)
(* the five below.                                                         *)

\* delete_revision_sandbox_container ends.
Deletion(a) ==
    LET c == op[a].box IN
    /\ op[a].stage = "acted" /\ op[a].kind = "delete"
    /\ Released(a)
    /\ \/ op[a].ok /\ RemoveRow(c)
       \/ UNCHANGED <<box, selected>>
    /\ UNCHANGED <<docker, seen, noted, agentRun, bootOf>>

\* The Console session of an environment is given a running container.
Selection(s, c) ==
    /\ box[c].status = "running"
    /\ selected' = [selected EXCEPT ![s] = [box |-> c, gen |-> box[c].gen]]
    /\ UNCHANGED <<box, docker, mutex, op, seen, noted, agentRun, bootOf>>

\* An executor's command finds a container down whose row is RUNNING.
FoundDown(c) ==
    /\ box[c].status = "running" /\ docker[c].status # "running"
    /\ SaveStatus(c, Observed(c))
    /\ UNCHANGED <<docker, mutex, op, seen, noted, agentRun>>

\* The container becomes the environment's for good.
Settlement(c) ==
    /\ box' = [box EXCEPT ![c].rev = Nothing]
    /\ UNCHANGED <<docker, mutex, op, seen, noted, selected, agentRun, bootOf>>

\* A process dies amid a mutation.
Abandonment(n) ==
    /\ mutex' = [c \in Box |-> IF mutex[c] = n THEN Nothing ELSE mutex[c]]
    /\ op' = [op EXCEPT ![n] = NoOp]
    /\ UNCHANGED <<box, docker, seen, noted, selected, agentRun, bootOf>>

BoxStep ==
    \/ \E c \in Box, r \in Rev \cup {Nothing} : CreateBox(c, r)
    \/ \E a \in Actor, kind \in Mutation, c \in Box :
          (a \in Node => kind \in NodeMutation) /\ BeginMutation(a, kind, c)
    \/ \E a \in Actor : CallDocker(a) \/ FinishMutation(a) \/ FinishRemoval(a) \/ Deletion(a)
    \/ LoadSnapshots
    \/ \E c \in Box : SyncStatus(c) \/ ContainerExits(c) \/ SaveNoted(c)
    \/ \E s \in Session : AdmitRun(s)
    \/ \E s \in Session, c \in Box : SelectBox(s, c)
    \/ \E r \in agentRun : EndRun(r)
    \/ \E r \in agentRun, inspectable \in BOOLEAN : ObserveDown(r, inspectable)
    \/ \E s \in Session, c \in Box : Selection(s, c)
    \/ \E c \in Box : FoundDown(c) \/ Settlement(c)
    \/ \E n \in Node : Abandonment(n)
LEMMA ResolvedBox ==
    ASSUME TypeInv, NEW r \in Rev, rev[r].status # "absent", NEW c \in Resolved(r)
    PROVE  c \in Box \cup {Nothing}
BY RevAssumption DEF TypeInv, TypeOK, BoxTypeOK, WellFormed, Resolved, Lifecycle, NoEnvironment

\* Every step of the composition is a step of the containers or leaves them alone.
LEMMA StepIsBoxStep ==
    ASSUME TypeInv, [Next]_vars
    PROVE  BoxStep \/ UNCHANGED boxVars
<1> USE NodeAssumption, RevAssumption DEF TypeInv, TypeOK
<1>1. CASE \E c \in Box : CreateOperatorBox(c)
  BY <1>1 DEF CreateOperatorBox, BoxStep
<1>2. CASE \E a \in Actor : \E c \in Box, kind \in Mutation : OperatorBegins(a, kind, c)
  BY <1>2 DEF OperatorBegins, BoxStep
<1>3. CASE \E a \in Actor : DockerIsCalled(a) \/ OperatorFinishes(a)
  BY <1>3 DEF DockerIsCalled, OperatorFinishes, BoxStep
<1>4. CASE MonitorSteps
  BY <1>4 DEF MonitorSteps, BoxStep
<1>5. CASE SessionSteps
  BY <1>5 DEF SessionSteps, BoxStep
<1>6. ASSUME NEW e \in Env, NEW c \in Box, AdoptBox(e, c)
      PROVE  BoxStep
  BY <1>6 DEF AdoptBox, SelectForEnvironment, Selection, BoxStep
<1>7. ASSUME NEW n \in Node, Crash(n)
      PROVE  BoxStep
  BY <1>7 DEF Crash, Abandonment, BoxStep
<1>8. ASSUME NEW n \in Node, ExecutorSteps(n)
      PROVE  BoxStep \/ UNCHANGED boxVars
  <2>0. exec[n].box \in Box \cup {Nothing} /\ exec[n].rev \in Rev \cup {Nothing} /\ n \in Actor
    BY DEF Executor
  <2>1. CASE Recover(n)
    <3> PICK t \in todo[n] : LET r == t[1]  e == rev[r].env IN
          /\ UNCHANGED <<box, docker, mutex, op, seen, noted, agentRun, bootOf>>
          /\ \/ UNCHANGED selected
             \/ \E c \in Resolved(r) : /\ c # Nothing /\ Restorable(r, c)
                                       /\ SelectForEnvironment(e, c, box[c].gen)
      BY <2>1 DEF Recover
    <3>0. t \in Rev \X {"executing", "rolling_back"}
      OBVIOUS
    <3>1. t[1] \in Rev /\ rev[t[1]].status # "absent" /\ rev[t[1]].env \in Env
      BY <3>0 DEF WellFormed
    <3>2. CASE UNCHANGED selected
      BY <3>2 DEF boxVars
    <3>3. ASSUME NEW c \in Resolved(t[1]), c # Nothing, Restorable(t[1], c),
                 SelectForEnvironment(rev[t[1]].env, c, box[c].gen)
          PROVE  BoxStep
      <4>1. c \in Box /\ rev[t[1]].env \in Session
        BY <3>1, <3>3, ResolvedBox
      <4> QED
        BY <3>3, <4>1 DEF Restorable, SelectForEnvironment, Selection, BoxStep
    <3> QED
      BY <3>2, <3>3
  <2>2. CASE Provision(n)
    BY <2>0, <2>2 DEF Provision, BoxStep
  <2>3. CASE StartBox(n)
    BY <2>0, <2>3 DEF StartBox, BoxStep, WellFormed, NodeMutation, Mutation
  <2>4. CASE BoxStarted(n)
    BY <2>0, <2>4 DEF BoxStarted, BoxStep
  <2>5. CASE BindSession(n)
    <3>1. exec[n].box \in Box /\ EnvOf(n) \in Session
      BY <2>0, <2>5 DEF BindSession, WellFormed, EnvOf
    <3>2. CASE UNCHANGED selected
      BY <2>5, <3>2 DEF BindSession, boxVars
    <3>3. CASE ~UNCHANGED selected
      <4>1. Selection(EnvOf(n), exec[n].box)
        BY <2>5, <3>3 DEF BindSession, Selection, SelectForEnvironment
      <4> QED
        BY <3>1, <4>1 DEF BoxStep
    <3> QED
      BY <3>2, <3>3
  <2>6. CASE DeleteBox(n)
    BY <2>0, <2>6 DEF DeleteBox, BoxStep, NodeMutation, Mutation
  <2>7. CASE BoxDeleted(n)
    <3>1. Deletion(n)
      <4>1. op[n].box = exec[n].box
        BY <2>7, NodeAssumption DEF BoxDeleted, WellFormed
      <4> QED
        BY <2>7, <4>1 DEF BoxDeleted, Deletion
    <3> QED
      BY <2>0, <3>1 DEF BoxStep
  <2>8. CASE Complete(n)
    <3>1. CASE exec[n].box \in Box
      BY <2>8, <3>1 DEF Complete, Settlement, BoxStep, boxVars
    <3>2. CASE exec[n].box \notin Box
      BY <2>8, <3>2 DEF Complete, boxVars, BoxTypeInv
    <3> QED
      BY <3>1, <3>2
  <2>9. ASSUME CommandRaises(n)
        PROVE  BoxStep \/ UNCHANGED boxVars
    <3>1. CASE exec[n].box \in Box /\ RowFits(n)
      BY <2>9, <3>1 DEF CommandRaises, RowFits, Reachable, SaveObserved, Observed, Exists,
                        FoundDown, BoxStep, boxVars
    <3>2. CASE ~(exec[n].box \in Box /\ RowFits(n))
      BY <2>0, <2>9, <3>2 DEF CommandRaises, boxVars
    <3> QED
      BY <3>1, <3>2
  <2>10. CASE Apply(n) \/ Verify(n) \/ Undo(n)
    BY <2>9, <2>10 DEF Apply, Verify, Undo
  <2>11. CASE \/ BindBox(n) \/ SettleFailure(n) \/ CopyFails(n) \/ BeginStep(n) \/ RecordApply(n)
              \/ BeginVerify(n) \/ BeginRollback(n) \/ MarkStep(n) \/ RecordUndo(n)
              \/ StepsUndone(n) \/ SettleRollback(n)
    BY <2>11 DEF BindBox, SettleFailure, CopyFails, BeginStep, RecordApply, BeginVerify,
                 BeginRollback, MarkStep, RecordUndo, StepsUndone, SettleRollback
  <2> QED
    BY <1>8, <2>1, <2>2, <2>3, <2>4, <2>5, <2>6, <2>7, <2>8, <2>10, <2>11 DEF ExecutorSteps
<1>9. CASE \E n \in Node : \/ \E r \in Rev : Claim(n, r) \/ ClaimRecovery(n, r)
                           \/ Boot(n) \/ Cancel(n)
  BY <1>9 DEF Claim, ClaimRecovery, Boot, Cancel
<1>10. CASE \E e \in Env : \/ CreateEnvironment(e)
                           \/ \E r \in Rev, risky \in BOOLEAN : PlanRevision(e, r, risky)
                           \/ \E status \in Stable : SetEnvironmentStatus(e, status)
  BY <1>10 DEF CreateEnvironment, PlanRevision, SetEnvironmentStatus
<1>11. CASE \E r \in Rev, approve \in BOOLEAN : DecideRevision(r, approve)
  BY <1>11 DEF DecideRevision
<1>12. CASE UNCHANGED vars
  BY <1>12 DEF vars
<1> QED
  BY <1>1, <1>2, <1>3, <1>4, <1>5, <1>6, <1>7, <1>8, <1>9, <1>10, <1>11, <1>12 DEF Next
-----------------------------------------------------------------------------
(* Type correctness.                                                       *)

\* What saving a status does to the rows, whatever it does to generations.
LEMMA Saved ==
    ASSUME BoxTypeInv, NEW c \in Box, NEW status \in Status, SaveStatus(c, status)
    PROVE  /\ box' \in [Box -> Rows]
           /\ \A d \in Box : d # c => box'[d] = box[d]
           /\ box'[c].status = status /\ box'[c].rev = box[c].rev
           /\ box'[c].gen = GenerationAfter(c, status)
           /\ GenerationAfter(c, status) \in {box[c].gen, box[c].gen + 1}
           /\ selected' \in [Session -> [box : Box \cup {Nothing}, gen : Nat]]
           /\ bootOf' \in [Box -> [0..(MaxGen + 1) -> SUBSET Nat]]
<1>1. box[c] \in Rows /\ docker[c].boots \in Nat
  BY DEF BoxTypeInv, BoxTypeOK
<1>2. GenerationAfter(c, status) \in {box[c].gen, box[c].gen + 1}
  BY DEF GenerationAfter
<1>3. GenerationAfter(c, status) \in Nat
  BY <1>1, <1>2 DEF Rows
<1>4. box' = [box EXCEPT ![c].status = status, ![c].gen = GenerationAfter(c, status)]
  BY DEF SaveStatus
<1>5. /\ box' \in [Box -> Rows]
      /\ \A d \in Box : d # c => box'[d] = box[d]
      /\ box'[c].status = status /\ box'[c].rev = box[c].rev
      /\ box'[c].gen = GenerationAfter(c, status)
  BY <1>1, <1>3, <1>4 DEF BoxTypeInv, Rows
<1>6. selected' \in [Session -> [box : Box \cup {Nothing}, gen : Nat]]
  BY <1>3 DEF SaveStatus, WithGeneration, WithoutBinding, Unselected, BoxTypeInv, BoxTypeOK
<1>7. bootOf' \in [Box -> [0..(MaxGen + 1) -> SUBSET Nat]]
  <2>1. bootOf \in [Box -> [0..(MaxGen + 1) -> SUBSET Nat]]
    BY DEF BoxTypeInv, BoxTypeOK
  <2>2. ASSUME NEW g
        PROVE  [bootOf EXCEPT ![c][g] = @ \cup {docker[c].boots}]
                 \in [Box -> [0..(MaxGen + 1) -> SUBSET Nat]]
    <3>1. [bootOf[c] EXCEPT ![g] = @ \cup {docker[c].boots}] \in [0..(MaxGen + 1) -> SUBSET Nat]
      BY <1>1, <2>1
    <3> QED
      BY <2>1, <3>1
  <2> QED
    BY <2>1, <2>2 DEF SaveStatus
<1> QED
  BY <1>2, <1>5, <1>6, <1>7

LEMMA ObservedIsStatus ==
    ASSUME BoxTypeInv, NEW c \in Box
    PROVE  Observed(c) \in Status \ {"removed"}
BY DEF BoxTypeInv, BoxTypeOK, Observed, Exists, Status, DockerStatus

\* Saving what was observed, or that nothing could be.
LEMMA SavedObserved ==
    ASSUME BoxTypeInv, NEW c \in Box, NEW read, NEW inspectable, SaveObserved(c, read, inspectable)
    PROVE  \/ UNCHANGED <<box, selected, bootOf>>
           \/ SaveStatus(c, "error")
           \/ SaveStatus(c, Observed(c))
BY DEF SaveObserved

\* A mutation that ends, and the monitor, save one status or leave the rows alone.
LEMMA FinishSaves ==
    ASSUME BoxTypeInv, NEW a \in Actor, FinishMutation(a)
    PROVE  LET c == op[a].box IN
           \/ UNCHANGED <<box, selected, bootOf>>
           \/ SaveStatus(c, "error")
           \/ op[a].kind \in {"start", "resume"} /\ SaveStatus(c, Observed(c))
           \/ op[a].kind = "stop" /\ SaveStatus(c, "stopped")
           \/ op[a].kind = "pause" /\ SaveStatus(c, "paused")
BY SavedObserved DEF FinishMutation, BoxTypeInv, BoxTypeOK

LEMMA SyncSaves ==
    ASSUME BoxTypeInv, NEW c \in Box, SyncStatus(c)
    PROVE  \/ UNCHANGED <<box, selected, bootOf>>
           \/ mutex[c] = Nothing /\ SaveStatus(c, "error")
           \/ mutex[c] = Nothing /\ SaveStatus(c, Observed(c))
BY SavedObserved DEF SyncStatus
\* What a call of Docker does: it is noted, and at most its own container changes.
LEMMA Called ==
    ASSUME BoxTypeInv, NEW a \in Actor, CallDocker(a)
    PROVE  /\ op[a].stage = "checked" /\ op[a].box \in Box /\ op[a].kind \in Mutation
           /\ op'[a] = [kind |-> op[a].kind, box |-> op[a].box, stage |-> "acted", ok |-> op'[a].ok]
           /\ op'[a].stage = "acted" /\ op'[a].ok \in BOOLEAN /\ (op'[a].ok => op[a].ok)
           /\ op' = [op EXCEPT ![a] = op'[a]]
           /\ \A b \in Actor : b # a => op'[b] = op[b]
           /\ \A b \in Actor : op'[b].kind = op[b].kind /\ op'[b].box = op[b].box
           /\ \/ UNCHANGED docker /\ ~op'[a].ok
              \/ /\ docker' = [docker EXCEPT ![op[a].box] = Effect(op[a].kind, @)]
                 /\ Accepts(op[a].kind, docker[op[a].box])
           /\ UNCHANGED <<box, mutex, seen, noted, selected, agentRun, bootOf>>
<1> DEFINE Op == [kind : Mutation \cup {"none"}, box : Box \cup {Nothing},
                  stage : {"out", "checked", "acted"}, ok : BOOLEAN]
<1>1. /\ op \in [Actor -> Op] /\ op[a] \in Op
      /\ op[a] = [kind |-> op[a].kind, box |-> op[a].box, stage |-> op[a].stage, ok |-> op[a].ok]
  BY DEF BoxTypeInv, BoxTypeOK
<1>2. op[a].stage = "checked" /\ op[a].box \in Box /\ op[a].kind \in Mutation
  BY DEF CallDocker, BoxTypeInv
<1>3. ASSUME NEW x, op' = [op EXCEPT ![a] = x], x.kind = op[a].kind, x.box = op[a].box
      PROVE  /\ op'[a] = x /\ op' = [op EXCEPT ![a] = op'[a]]
             /\ \A b \in Actor : b # a => op'[b] = op[b]
             /\ \A b \in Actor : op'[b].kind = op[b].kind /\ op'[b].box = op[b].box
  BY <1>1, <1>3
<1>4. CASE /\ Accepts(op[a].kind, docker[op[a].box])
           /\ docker' = [docker EXCEPT ![op[a].box] = Effect(op[a].kind, @)]
           /\ op' = [op EXCEPT ![a].stage = "acted"]
  <2> DEFINE x == [op[a] EXCEPT !.stage = "acted"]
  <2>1. x = [kind |-> op[a].kind, box |-> op[a].box, stage |-> "acted", ok |-> op[a].ok]
    BY <1>1
  <2>2. op' = [op EXCEPT ![a] = x]
    BY <1>4
  <2>3. /\ x.kind = op[a].kind /\ x.box = op[a].box /\ x.stage = "acted"
        /\ x.ok = op[a].ok /\ op[a].ok \in BOOLEAN
    BY <1>1, <2>1
  <2> HIDE DEF x
  <2>4. /\ op'[a] = x /\ op' = [op EXCEPT ![a] = op'[a]]
        /\ \A b \in Actor : b # a => op'[b] = op[b]
        /\ \A b \in Actor : op'[b].kind = op[b].kind /\ op'[b].box = op[b].box
    BY <1>3, <2>2, <2>3
  <2> QED
    BY <1>2, <2>1, <2>3, <2>4, <1>4 DEF CallDocker
<1>5. CASE op' = [op EXCEPT ![a].stage = "acted", ![a].ok = FALSE] /\ UNCHANGED docker
  <2> DEFINE x == [op[a] EXCEPT !.stage = "acted", !.ok = FALSE]
  <2>1. x = [kind |-> op[a].kind, box |-> op[a].box, stage |-> "acted", ok |-> FALSE]
    <3>1. x \in Op
      BY <1>1
    <3>2. x.kind = op[a].kind /\ x.box = op[a].box /\ x.stage = "acted" /\ x.ok = FALSE
      BY <1>1
    <3> HIDE DEF x
    <3>3. x = [kind |-> x.kind, box |-> x.box, stage |-> x.stage, ok |-> x.ok]
      BY <3>1
    <3> QED
      BY <3>2, <3>3
  <2>2. op' = [op EXCEPT ![a] = x]
    BY <1>5
  <2>3. x.kind = op[a].kind /\ x.box = op[a].box /\ x.stage = "acted" /\ x.ok = FALSE
    BY <2>1
  <2> HIDE DEF x
  <2>4. /\ op'[a] = x /\ op' = [op EXCEPT ![a] = op'[a]]
        /\ \A b \in Actor : b # a => op'[b] = op[b]
        /\ \A b \in Actor : op'[b].kind = op[b].kind /\ op'[b].box = op[b].box
    BY <1>3, <2>2, <2>3
  <2> QED
    BY <1>2, <2>1, <2>3, <2>4, <1>5 DEF CallDocker
<1> QED
  BY <1>4, <1>5 DEF CallDocker

LEMMA BoxStepTypes ==
    ASSUME BoxTypeInv, BoxStep
    PROVE  BoxTypeInv'
<1> DEFINE Ops == [kind : Mutation \cup {"none"}, box : Box \cup {Nothing},
                   stage : {"out", "checked", "acted"}, ok : BOOLEAN]
           Selections == [Session -> [box : Box \cup {Nothing}, gen : Nat]]
           Boots == [Box -> [0..(MaxGen + 1) -> SUBSET Nat]]
<1>0. /\ \A c \in Box : box[c] \in Rows /\ box[c].status \in Status \cup {"absent"} /\ box[c].gen \in Nat
      /\ box \in [Box -> Rows]
      /\ docker \in [Box -> [status : DockerStatus, boots : Nat]]
      /\ mutex \in [Box -> Actor \cup {Nothing}] /\ op \in [Actor -> Ops]
      /\ seen \in [Box -> Status \cup {Nothing}] /\ noted \in [Box -> Status \cup {Nothing}]
      /\ selected \in Selections /\ agentRun \subseteq [session : Session, box : Box, gen : Nat]
      /\ bootOf \in Boots
      /\ \A a \in Actor : op[a].stage # "out" => op[a].box \in Box /\ op[a].kind \in Mutation
  BY DEF BoxTypeInv, BoxTypeOK, Rows
<1>00. ASSUME /\ box' \in [Box -> Rows]
              /\ docker' \in [Box -> [status : DockerStatus, boots : Nat]]
              /\ mutex' \in [Box -> Actor \cup {Nothing}] /\ op' \in [Actor -> Ops]
              /\ seen' \in [Box -> Status \cup {Nothing}] /\ noted' \in [Box -> Status \cup {Nothing}]
              /\ selected' \in Selections /\ agentRun' \subseteq [session : Session, box : Box, gen : Nat]
              /\ bootOf' \in Boots
              /\ \A a \in Actor : op'[a].stage # "out" => op'[a].box \in Box /\ op'[a].kind \in Mutation
       PROVE  BoxTypeInv'
  <2>1. \A c \in Box : box'[c].status \in Status \cup {"absent"} /\ box'[c].gen \in Nat
    BY <1>00 DEF Rows
  <2> QED
    BY <1>00, <2>1 DEF BoxTypeInv, BoxTypeOK
<1>1. ASSUME NEW c \in Box, NEW r \in Rev \cup {Nothing}, CreateBox(c, r)
      PROVE  BoxTypeInv'
  <2>1. NewBox(r) \in Rows
    BY <1>1 DEF NewBox, Rows, Status
  <2>2. box' \in [Box -> Rows]
    BY <1>0, <1>1, <2>1 DEF CreateBox
  <2>3. docker' \in [Box -> [status : DockerStatus, boots : Nat]]
    <3>1. docker' = [docker EXCEPT ![c].status = "created"]
      BY <1>1 DEF CreateBox, DockerCreates
    <3>2. [docker[c] EXCEPT !.status = "created"] \in [status : DockerStatus, boots : Nat]
      <4>1. docker[c] \in [status : DockerStatus, boots : Nat] /\ "created" \in DockerStatus
        BY <1>0 DEF DockerStatus
      <4> QED
        BY <4>1
    <3> QED
      BY <1>0, <3>1, <3>2
  <2> QED
    BY <1>0, <1>00, <1>1, <2>2, <2>3 DEF CreateBox
<1>2. ASSUME NEW a \in Actor, NEW kind \in Mutation, NEW c \in Box, BeginMutation(a, kind, c)
      PROVE  BoxTypeInv'
  <2>1. op' \in [Actor -> Ops] /\ mutex' \in [Box -> Actor \cup {Nothing}]
    BY <1>0, <1>2 DEF BeginMutation
  <2>2. \A b \in Actor : op'[b].stage # "out" => op'[b].box \in Box /\ op'[b].kind \in Mutation
    BY <1>0, <1>2 DEF BeginMutation
  <2> QED
    BY <1>0, <1>00, <1>2, <2>1, <2>2 DEF BeginMutation
<1>3. ASSUME NEW a \in Actor, CallDocker(a)
      PROVE  BoxTypeInv'
  <2>1. ASSUME NEW d \in [status : DockerStatus, boots : Nat], NEW kind
        PROVE  Effect(kind, d) \in [status : DockerStatus, boots : Nat]
    <3>1. \A s \in DockerStatus : [d EXCEPT !.status = s] \in [status : DockerStatus, boots : Nat]
      OBVIOUS
    <3>2. [status |-> "running", boots |-> d.boots + 1] \in [status : DockerStatus, boots : Nat]
      BY DEF DockerStatus
    <3> QED
      BY <3>1, <3>2 DEF Effect, Gone, DockerStatus
  <2>2. docker' \in [Box -> [status : DockerStatus, boots : Nat]]
    <3>1. CASE UNCHANGED docker
      BY <1>0, <3>1
    <3>2. CASE docker' = [docker EXCEPT ![op[a].box] = Effect(op[a].kind, @)]
      <4>1. op[a].box \in Box
        BY <1>0, <1>3 DEF CallDocker
      <4>2. Effect(op[a].kind, docker[op[a].box]) \in [status : DockerStatus, boots : Nat]
        BY <1>0, <2>1, <4>1
      <4> QED
        BY <1>0, <3>2, <4>2
    <3> QED
      BY <1>3, <3>1, <3>2 DEF CallDocker
  <2>3. op' \in [Actor -> Ops]
    <3>1. /\ op'[a] = [kind |-> op[a].kind, box |-> op[a].box, stage |-> "acted", ok |-> op'[a].ok]
          /\ op'[a].ok \in BOOLEAN /\ op' = [op EXCEPT ![a] = op'[a]]
          /\ op[a].box \in Box /\ op[a].kind \in Mutation
      BY <1>3, Called
    <3>2. op'[a] \in [kind : Mutation \cup {"none"}, box : Box \cup {Nothing},
                      stage : {"out", "checked", "acted"}, ok : BOOLEAN]
      BY <3>1
    <3> QED
      BY <1>0, <3>1, <3>2
  <2>4. \A b \in Actor : op'[b].stage # "out" => op'[b].box \in Box /\ op'[b].kind \in Mutation
    BY <1>0, <1>3, Called
  <2> QED
    BY <1>0, <1>00, <1>3, <2>2, <2>3, <2>4 DEF CallDocker
<1>4. ASSUME NEW a \in Actor, op[a].stage # "out", Released(a)
      PROVE  /\ mutex' \in [Box -> Actor \cup {Nothing}]
             /\ op' \in [Actor -> Ops]
             /\ \A b \in Actor : op'[b].stage # "out" => op'[b].box \in Box /\ op'[b].kind \in Mutation
  BY <1>0, <1>4 DEF Released, NoOp
<1>5. ASSUME NEW a \in Actor, FinishMutation(a)
      PROVE  BoxTypeInv'
  <2>1. /\ box' \in [Box -> Rows]
        /\ selected' \in Selections /\ bootOf' \in Boots
    <3>1. op[a].box \in Box
      BY <1>0, <1>5 DEF FinishMutation
    <3>2. \/ UNCHANGED <<box, selected, bootOf>>
          \/ \E status \in Status : SaveStatus(op[a].box, status)
      BY <1>5, <3>1, FinishSaves, ObservedIsStatus DEF Status
    <3>3. CASE UNCHANGED <<box, selected, bootOf>>
      BY <1>0, <3>3
    <3>4. ASSUME NEW status \in Status, SaveStatus(op[a].box, status)
          PROVE  box' \in [Box -> Rows] /\ selected' \in Selections /\ bootOf' \in Boots
      BY <3>1, <3>4, Saved
    <3> QED
      BY <3>2, <3>3, <3>4
  <2>2. Released(a) /\ op[a].stage # "out" /\ UNCHANGED <<docker, seen, noted, agentRun>>
    BY <1>5 DEF FinishMutation
  <2> QED
    BY <1>0, <1>00, <1>4, <2>1, <2>2
<1>6. ASSUME NEW c \in Box, RemoveRow(c)
      PROVE  /\ box' \in [Box -> Rows]
             /\ selected' \in Selections
  <2>1. box' \in [Box -> Rows]
    <3>1. [box[c] EXCEPT !.status = "removed"] \in Rows
      BY <1>0 DEF Rows, Status
    <3> QED
      BY <1>0, <1>6, <3>1 DEF RemoveRow
  <2>2. selected' \in Selections
    BY <1>0, <1>6 DEF RemoveRow, WithoutBinding, Unselected
  <2> QED
    BY <2>1, <2>2
<1>7. ASSUME NEW a \in Actor, FinishRemoval(a) \/ Deletion(a)
      PROVE  BoxTypeInv'
  <2>1. op[a].stage # "out" /\ op[a].box \in Box /\ Released(a)
    BY <1>0, <1>7 DEF FinishRemoval, Deletion
  <2> QED
    BY <1>0, <1>00, <1>4, <1>6, <1>7, <2>1 DEF FinishRemoval, Deletion
<1>8. CASE LoadSnapshots
  <2>1. seen' \in [Box -> Status \cup {Nothing}]
    BY <1>0, <1>8 DEF LoadSnapshots
  <2> QED
    BY <1>0, <1>00, <1>8, <2>1 DEF LoadSnapshots
<1>9. ASSUME NEW c \in Box, SyncStatus(c)
      PROVE  BoxTypeInv'
  <2>1. /\ box' \in [Box -> Rows]
        /\ selected' \in Selections /\ bootOf' \in Boots
    <3>1. \/ UNCHANGED <<box, selected, bootOf>>
          \/ \E status \in Status : SaveStatus(c, status)
      BY <1>9, SyncSaves, ObservedIsStatus DEF Status
    <3>2. CASE UNCHANGED <<box, selected, bootOf>>
      BY <1>0, <3>2
    <3>3. ASSUME NEW status \in Status, SaveStatus(c, status)
          PROVE  box' \in [Box -> Rows] /\ selected' \in Selections /\ bootOf' \in Boots
      BY <3>3, Saved
    <3> QED
      BY <3>1, <3>2, <3>3
  <2> QED
    BY <1>0, <1>00, <1>9, <2>1 DEF SyncStatus
<1>10. ASSUME NEW c \in Box, ContainerExits(c)
       PROVE  BoxTypeInv'
  <2>0. docker[c] \in [status : DockerStatus, boots : Nat] /\ "exited" \in DockerStatus
    BY <1>0 DEF DockerStatus
  <2>1. [docker[c] EXCEPT !.status = "exited"] \in [status : DockerStatus, boots : Nat]
    BY <2>0
  <2>2. docker' \in [Box -> [status : DockerStatus, boots : Nat]]
    BY <1>0, <1>10, <2>1 DEF ContainerExits
  <2> QED
    BY <1>0, <1>00, <1>10, <2>2 DEF ContainerExits
<1>11. ASSUME NEW c \in Box, SaveNoted(c)
       PROVE  BoxTypeInv'
  <2>1. /\ box' \in [Box -> Rows]
        /\ selected' \in Selections /\ bootOf' \in Boots
    BY <1>0, <1>11, Saved DEF SaveNoted
  <2> QED
    BY <1>0, <1>00, <1>11, <2>1 DEF SaveNoted
<1>12. ASSUME NEW s \in Session, AdmitRun(s)
       PROVE  BoxTypeInv'
  <2>1. agentRun' \subseteq [session : Session, box : Box, gen : Nat]
    BY <1>0, <1>12 DEF AdmitRun
  <2> QED
    BY <1>0, <1>00, <1>12, <2>1 DEF AdmitRun
<1>13. ASSUME NEW s \in Session, NEW c \in Box, SelectBox(s, c) \/ Selection(s, c)
       PROVE  BoxTypeInv'
  <2>0. [box |-> c, gen |-> box[c].gen] \in [box : Box \cup {Nothing}, gen : Nat]
    BY <1>0
  <2>1. selected' \in Selections
    BY <1>0, <1>13, <2>0 DEF SelectBox, Selection
  <2> QED
    BY <1>0, <1>00, <1>13, <2>1 DEF SelectBox, Selection
<1>14. ASSUME NEW r \in agentRun, EndRun(r)
       PROVE  BoxTypeInv'
  BY <1>0, <1>00, <1>14 DEF EndRun
<1>15. ASSUME NEW r \in agentRun, NEW inspectable \in BOOLEAN, ObserveDown(r, inspectable)
       PROVE  BoxTypeInv'
  <2>1. r.box \in Box
    BY <1>0
  <2>2. noted' \in [Box -> Status \cup {Nothing}]
    BY <1>0, <1>15, <2>1, ObservedIsStatus DEF ObserveDown, Status
  <2> QED
    BY <1>0, <1>00, <1>15, <2>2 DEF ObserveDown
<1>16. ASSUME NEW c \in Box, FoundDown(c)
       PROVE  BoxTypeInv'
  <2>1. /\ box' \in [Box -> Rows]
        /\ selected' \in Selections /\ bootOf' \in Boots
    BY <1>0, <1>16, Saved, ObservedIsStatus DEF FoundDown
  <2> QED
    BY <1>0, <1>00, <1>16, <2>1 DEF FoundDown
<1>17. ASSUME NEW c \in Box, Settlement(c)
       PROVE  BoxTypeInv'
  <2>1. box' \in [Box -> Rows]
    BY <1>0, <1>17 DEF Settlement, Rows
  <2> QED
    BY <1>0, <1>00, <1>17, <2>1 DEF Settlement
<1>18. ASSUME NEW n \in Node, Abandonment(n)
       PROVE  BoxTypeInv'
  <2>1. mutex' \in [Box -> Actor \cup {Nothing}] /\ op' \in [Actor -> Ops]
    BY <1>0, <1>18, NodeAssumption DEF Abandonment, NoOp
  <2>2. \A a \in Actor : op'[a].stage # "out" => op'[a].box \in Box /\ op'[a].kind \in Mutation
    BY <1>0, <1>18, NodeAssumption DEF Abandonment, NoOp
  <2> QED
    BY <1>0, <1>00, <1>18, <2>1, <2>2 DEF Abandonment
<1> QED
  BY <1>1, <1>2, <1>3, <1>5, <1>7, <1>8, <1>9, <1>10, <1>11, <1>12, <1>13, <1>14,
     <1>15, <1>16, <1>17, <1>18 DEF BoxStep
-----------------------------------------------------------------------------
(* Selections.                                                             *)

LEMMA SaveKeepsSelections ==
    ASSUME BoxTypeInv, SelectionIsLive, NEW c \in Box, NEW status \in Status, SaveStatus(c, status)
    PROVE  SelectionIsLive'
<1> SUFFICES ASSUME NEW s \in Session, selected'[s].box # Nothing
             PROVE  Current(selected[s].box, selected[s].gen)'
  BY DEF SelectionIsLive
<1>1. /\ \A d \in Box : d # c => box'[d] = box[d]
      /\ box'[c].status = status /\ box'[c].gen = GenerationAfter(c, status)
  BY Saved
<1>2. selected \in [Session -> [box : Box \cup {Nothing}, gen : Nat]]
  BY DEF BoxTypeInv, BoxTypeOK
<1>3. selected[s].box # Nothing => Current(selected[s].box, selected[s].gen)
  BY DEF SelectionIsLive
<1>4. CASE selected[s].box = c
  <2>1. status = "running" /\ selected'[s] = [box |-> c, gen |-> GenerationAfter(c, status)]
    BY <1>2, <1>4 DEF SaveStatus, WithGeneration, WithoutBinding, Unselected
  <2> QED
    BY <1>1, <2>1 DEF Current
<1>5. CASE selected[s].box # c
  <2>1. selected'[s] = selected[s]
    BY <1>2, <1>5 DEF SaveStatus, WithGeneration, WithoutBinding
  <2>2. selected[s].box \in Box
    BY <1>2, <2>1
  <2> QED
    BY <1>1, <1>3, <1>5, <2>1, <2>2 DEF Current
<1> QED
  BY <1>4, <1>5

LEMMA StepKeepsSelections ==
    ASSUME BoxTypeInv, SelectionIsLive, BoxStep \/ UNCHANGED boxVars
    PROVE  SelectionIsLive'
<1>0. /\ selected \in [Session -> [box : Box \cup {Nothing}, gen : Nat]]
      /\ box \in [Box -> Rows]
      /\ \A c \in Box : box[c] \in Rows
      /\ \A a \in Actor : op[a].stage # "out" => op[a].box \in Box
      /\ Nothing \notin Box
  BY BoxAssumption DEF BoxTypeInv, BoxTypeOK
<1>1. ASSUME UNCHANGED <<box, selected>>
      PROVE  SelectionIsLive'
  BY <1>1 DEF SelectionIsLive, Current
<1>2. ASSUME NEW c \in Box, NEW r \in Rev \cup {Nothing}, CreateBox(c, r)
      PROVE  SelectionIsLive'
  BY <1>0, <1>2 DEF CreateBox, SelectionIsLive, Current
<1>3. ASSUME NEW a \in Actor, FinishMutation(a)
      PROVE  SelectionIsLive'
  <2>1. op[a].box \in Box
    BY <1>0, <1>3 DEF FinishMutation
  <2> QED
    BY <1>1, <1>3, <2>1, FinishSaves, SaveKeepsSelections, ObservedIsStatus DEF Status
<1>4. ASSUME NEW c \in Box, RemoveRow(c)
      PROVE  SelectionIsLive'
  <2>1. \A s \in Session : selected'[s] = IF selected[s].box = c THEN Unselected ELSE selected[s]
    BY <1>0, <1>4 DEF RemoveRow, WithoutBinding
  <2>2. \A d \in Box : d # c => box'[d] = box[d]
    BY <1>0, <1>4 DEF RemoveRow
  <2> QED
    BY <1>0, <2>1, <2>2 DEF SelectionIsLive, Current, Unselected
<1>5. ASSUME NEW a \in Actor, FinishRemoval(a) \/ Deletion(a)
      PROVE  SelectionIsLive'
  <2>1. op[a].box \in Box
    BY <1>0, <1>5 DEF FinishRemoval, Deletion
  <2> QED
    BY <1>1, <1>4, <1>5, <2>1 DEF FinishRemoval, Deletion
<1>6. ASSUME NEW c \in Box, SyncStatus(c) \/ SaveNoted(c) \/ FoundDown(c)
      PROVE  SelectionIsLive'
  <2>1. \/ UNCHANGED <<box, selected>>
        \/ \E status \in Status : SaveStatus(c, status)
    <3>1. CASE SyncStatus(c)
      BY <3>1, SyncSaves, ObservedIsStatus DEF Status
    <3>2. CASE SaveNoted(c)
      <4>1. noted[c] # Nothing => noted[c] \in Status
        BY DEF BoxTypeInv, BoxTypeOK
      <4> QED
        BY <3>2, <4>1 DEF SaveNoted
    <3>3. CASE FoundDown(c)
      BY <3>3, ObservedIsStatus DEF FoundDown
    <3> QED
      BY <1>6, <3>1, <3>2, <3>3
  <2> QED
    BY <1>1, <2>1, SaveKeepsSelections
<1>7. ASSUME NEW s \in Session, NEW c \in Box, SelectBox(s, c) \/ Selection(s, c)
      PROVE  SelectionIsLive'
  <2>1. /\ selected' = [selected EXCEPT ![s] = [box |-> c, gen |-> box[c].gen]]
        /\ box' = box /\ box[c].status = "running"
    BY <1>7 DEF SelectBox, Selectable, Selection
  <2> QED
    BY <1>0, <2>1 DEF SelectionIsLive, Current
<1>8. ASSUME NEW c \in Box, Settlement(c)
      PROVE  SelectionIsLive'
  <2>1. selected' = selected
        /\ \A d \in Box : box'[d].status = box[d].status /\ box'[d].gen = box[d].gen
    BY <1>0, <1>8 DEF Settlement, Rows
  <2> QED
    BY <1>0, <2>1 DEF SelectionIsLive, Current
<1>9. CASE \/ \E a \in Actor, kind \in Mutation, c \in Box : BeginMutation(a, kind, c)
           \/ \E a \in Actor : CallDocker(a)
           \/ LoadSnapshots
           \/ \E c \in Box : ContainerExits(c)
           \/ \E s \in Session : AdmitRun(s)
           \/ \E r \in agentRun : EndRun(r) \/ \E inspectable \in BOOLEAN : ObserveDown(r, inspectable)
           \/ \E n \in Node : Abandonment(n)
  BY <1>1, <1>9 DEF BeginMutation, CallDocker, LoadSnapshots, ContainerExits, AdmitRun, EndRun,
                    ObserveDown, Abandonment
<1> QED
  BY <1>1, <1>2, <1>3, <1>5, <1>6, <1>7, <1>8, <1>9 DEF BoxStep, boxVars

-----------------------------------------------------------------------------
(* Locks.  An advisory lock is held exactly during a mutation, and rows    *)
(* that somebody has read exist; a start waits on a row that is down.      *)

Under(a) == op[a].stage # "out"

LockInv ==
    /\ \A a \in Actor : Under(a) =>
          mutex[op[a].box] = a /\ (a \in Node => op[a].kind \in NodeMutation)
    /\ \A c \in Box : mutex[c] # Nothing => Under(mutex[c]) /\ op[mutex[c]].box = c

LEMMA StepKeepsLocks ==
    ASSUME BoxTypeInv, LockInv, BoxStep \/ UNCHANGED boxVars
    PROVE  LockInv'
<1>0. /\ mutex \in [Box -> Actor \cup {Nothing}]
      /\ op \in [Actor -> [kind : Mutation \cup {"none"}, box : Box \cup {Nothing},
                           stage : {"out", "checked", "acted"}, ok : BOOLEAN]]
      /\ \A a \in Actor : Under(a) => op[a].box \in Box
      /\ Nothing \notin Box /\ Nothing \notin Actor /\ Node \subseteq Actor
  BY BoxAssumption, ActorAssumption, NodeAssumption DEF BoxTypeInv, BoxTypeOK, Under
<1>1. ASSUME UNCHANGED <<mutex, op>>
      PROVE  LockInv'
  BY <1>1 DEF LockInv, Under
<1>2. ASSUME NEW a \in Actor, NEW kind \in Mutation, NEW c \in Box, BeginMutation(a, kind, c),
             a \in Node => kind \in NodeMutation
      PROVE  LockInv'
  <2>1. /\ ~Under(a) /\ mutex[c] = Nothing
        /\ op'[a] = [kind |-> kind, box |-> c, stage |-> "checked", ok |-> TRUE]
        /\ \A b \in Actor : b # a => op'[b] = op[b]
        /\ mutex'[c] = a /\ \A d \in Box : d # c => mutex'[d] = mutex[d]
    BY <1>0, <1>2 DEF BeginMutation, Under
  <2> QED
    BY <1>0, <1>2, <2>1 DEF LockInv, Under
<1>3. ASSUME NEW a \in Actor, CallDocker(a)
      PROVE  LockInv'
  <2>1. /\ Under(a) /\ op'[a].stage = "acted" /\ mutex' = mutex
        /\ \A b \in Actor : b # a => op'[b] = op[b]
        /\ \A b \in Actor : op'[b].kind = op[b].kind /\ op'[b].box = op[b].box
    <3>1. op[a].stage = "checked" /\ op'[a].stage = "acted" /\ mutex' = mutex
      BY <1>3, Called
    <3> QED
      BY <1>3, <3>1, Called DEF Under
  <2> QED
    BY <1>0, <2>1 DEF LockInv, Under
<1>4. ASSUME NEW a \in Actor, Under(a), Released(a)
      PROVE  LockInv'
  <2>1. /\ op'[a].stage = "out" /\ op[a].box \in Box
        /\ \A b \in Actor : b # a => op'[b] = op[b]
        /\ mutex'[op[a].box] = Nothing /\ \A d \in Box : d # op[a].box => mutex'[d] = mutex[d]
    BY <1>0, <1>4 DEF Released, NoOp
  <2> QED
    BY <1>0, <1>4, <2>1 DEF LockInv, Under
<1>5. ASSUME NEW a \in Actor, FinishMutation(a) \/ FinishRemoval(a) \/ Deletion(a)
      PROVE  LockInv'
  <2>1. Under(a) /\ Released(a)
    BY <1>5 DEF FinishMutation, FinishRemoval, Deletion, Under
  <2> QED
    BY <1>4, <2>1
<1>6. ASSUME NEW n \in Node, Abandonment(n)
      PROVE  LockInv'
  <2>1. /\ op'[n].stage = "out"
        /\ \A b \in Actor : b # n => op'[b] = op[b]
        /\ \A d \in Box : mutex'[d] = IF mutex[d] = n THEN Nothing ELSE mutex[d]
    BY <1>0, <1>6 DEF Abandonment, NoOp
  <2> QED
    BY <1>0, <2>1 DEF LockInv, Under
<1>7. CASE \/ \E c \in Box, r \in Rev \cup {Nothing} : CreateBox(c, r)
           \/ LoadSnapshots
           \/ \E c \in Box : SyncStatus(c) \/ ContainerExits(c) \/ SaveNoted(c)
           \/ \E s \in Session : AdmitRun(s)
           \/ \E s \in Session, c \in Box : SelectBox(s, c) \/ Selection(s, c)
           \/ \E r \in agentRun : EndRun(r) \/ \E inspectable \in BOOLEAN : ObserveDown(r, inspectable)
           \/ \E c \in Box : FoundDown(c) \/ Settlement(c)
  BY <1>1, <1>7 DEF CreateBox, LoadSnapshots, SyncStatus, ContainerExits, SaveNoted, AdmitRun,
                    SelectBox, Selection, EndRun, ObserveDown, FoundDown, Settlement
<1> QED
  BY <1>1, <1>2, <1>3, <1>5, <1>6, <1>7 DEF BoxStep, boxVars

\* Rows that a mutation, the monitor, a command or a Run has read.
ReadInv ==
    /\ \A a \in Actor : Under(a) =>
          /\ box[op[a].box].status # "absent"
          /\ op[a].kind = "start" => box[op[a].box].status \in {"created", "stopped"}
          /\ op[a].kind = "resume" => box[op[a].box].status = "paused"
    /\ \A c \in Box : seen[c] # Nothing \/ noted[c] # Nothing => box[c].status # "absent"
    /\ \A r \in agentRun : box[r.box].status # "absent" /\ r.gen <= box[r.box].gen

LEMMA SaveKeepsRead ==
    ASSUME BoxTypeInv, LockInv, ReadInv, NEW c \in Box, NEW status \in Status, SaveStatus(c, status),
           \/ mutex[c] = Nothing /\ UNCHANGED op
           \/ box[c].status = "running" /\ UNCHANGED op
           \/ Under(mutex[c]) /\ mutex[c] \in Actor /\ op[mutex[c]].box = c /\ Released(mutex[c]),
           \A d \in Box : (seen'[d] # Nothing => seen[d] # Nothing)
                          /\ (noted'[d] # Nothing => noted[d] # Nothing),
           agentRun' = agentRun
    PROVE  ReadInv'
<1>0. /\ op \in [Actor -> [kind : Mutation \cup {"none"}, box : Box \cup {Nothing},
                           stage : {"out", "checked", "acted"}, ok : BOOLEAN]]
      /\ \A a \in Actor : Under(a) => op[a].box \in Box
      /\ \A r \in agentRun : r.box \in Box /\ r.gen \in Nat
      /\ Nothing \notin Actor
      /\ \A d \in Box : box[d].gen \in Nat
      /\ "absent" \notin Status
  BY ActorAssumption DEF BoxTypeInv, BoxTypeOK, Under, Status
<1>1. /\ \A d \in Box : d # c => box'[d] = box[d]
      /\ box'[c].status = status /\ box'[c].gen \in {box[c].gen, box[c].gen + 1}
  BY Saved
<1>2. \A a \in Actor : Under(a)' => op'[a] = op[a] /\ (op[a].box = c => box[c].status = "running")
  <2>1. CASE (mutex[c] = Nothing \/ box[c].status = "running") /\ UNCHANGED op
    BY <1>0, <2>1 DEF LockInv, Under
  <2>2. CASE mutex[c] \in Actor /\ Released(mutex[c]) /\ op[mutex[c]].box = c
    BY <1>0, <2>2 DEF Released, NoOp, Under, LockInv
  <2> QED
    BY <2>1, <2>2
<1>3. \A a \in Actor : Under(a)' =>
          /\ box'[op'[a].box].status # "absent"
          /\ op'[a].kind = "start" => box'[op'[a].box].status \in {"created", "stopped"}
          /\ op'[a].kind = "resume" => box'[op'[a].box].status = "paused"
  BY <1>0, <1>1, <1>2 DEF ReadInv, Under
<1>4. \A d \in Box : seen'[d] # Nothing \/ noted'[d] # Nothing => box'[d].status # "absent"
  BY <1>0, <1>1 DEF ReadInv
<1>5. \A r \in agentRun' : box'[r.box].status # "absent" /\ r.gen <= box'[r.box].gen
  <2> SUFFICES ASSUME NEW r \in agentRun
               PROVE  box'[r.box].status # "absent" /\ r.gen <= box'[r.box].gen
    OBVIOUS
  <2>1. r.box \in Box /\ r.gen \in Nat /\ box[r.box].status # "absent" /\ r.gen <= box[r.box].gen
    BY <1>0 DEF ReadInv
  <2> QED
    BY <1>0, <1>1, <2>1
<1> QED
  BY <1>3, <1>4, <1>5 DEF ReadInv
LEMMA StepKeepsRead ==
    ASSUME BoxTypeInv, LockInv, ReadInv, BoxStep \/ UNCHANGED boxVars
    PROVE  ReadInv'
<1>0. /\ op \in [Actor -> [kind : Mutation \cup {"none"}, box : Box \cup {Nothing},
                           stage : {"out", "checked", "acted"}, ok : BOOLEAN]]
      /\ \A a \in Actor : Under(a) => op[a].box \in Box /\ mutex[op[a].box] = a
      /\ \A r \in agentRun : r.box \in Box /\ r.gen \in Nat /\ r.session \in Session
      /\ Nothing \notin Actor /\ Nothing \notin Box /\ Node \subseteq Actor
      /\ box \in [Box -> Rows] /\ \A d \in Box : box[d].gen \in Nat
      /\ seen \in [Box -> Status \cup {Nothing}] /\ noted \in [Box -> Status \cup {Nothing}]
  BY ActorAssumption, BoxAssumption, NodeAssumption DEF BoxTypeInv, BoxTypeOK, Under, LockInv
\* Rows and readers only fall away.
<1>1. ASSUME \A d \in Box : box'[d].status = box[d].status /\ box'[d].gen = box[d].gen,
             \A a \in Actor : Under(a)' => Under(a) /\ op'[a].box = op[a].box /\ op'[a].kind = op[a].kind,
             \A d \in Box : (seen'[d] # Nothing \/ noted'[d] # Nothing) => box[d].status # "absent",
             \A r \in agentRun' : r \in agentRun
      PROVE  ReadInv'
  BY <1>0, <1>1 DEF ReadInv
<1>2. ASSUME NEW c \in Box, NEW r \in Rev \cup {Nothing}, CreateBox(c, r)
      PROVE  ReadInv'
  <2>1. /\ box[c].status = "absent" /\ \A d \in Box : d # c => box'[d] = box[d]
        /\ UNCHANGED <<op, seen, noted, agentRun>>
    BY <1>0, <1>2 DEF CreateBox
  <2>2. /\ \A a \in Actor : Under(a) => op[a].box # c
        /\ seen[c] = Nothing /\ noted[c] = Nothing
        /\ \A q \in agentRun : q.box # c
    BY <2>1 DEF ReadInv
  <2> QED
    BY <1>0, <2>1, <2>2 DEF ReadInv, Under
<1>3. ASSUME NEW a \in Actor, NEW kind \in Mutation, NEW c \in Box, BeginMutation(a, kind, c)
      PROVE  ReadInv'
  <2>1. /\ op'[a] = [kind |-> kind, box |-> c, stage |-> "checked", ok |-> TRUE]
        /\ \A b \in Actor : b # a => op'[b] = op[b]
        /\ UNCHANGED <<box, seen, noted, agentRun>> /\ Mutable(kind, c)
    BY <1>0, <1>3 DEF BeginMutation
  <2> QED
    BY <1>0, <2>1 DEF ReadInv, Under, Mutable, Live
<1>4. ASSUME NEW a \in Actor, CallDocker(a)
      PROVE  ReadInv'
  <2>1. /\ op[a].stage = "checked" /\ UNCHANGED <<box, seen, noted, agentRun>>
        /\ \A b \in Actor : b # a => op'[b] = op[b]
        /\ \A b \in Actor : op'[b].kind = op[b].kind /\ op'[b].box = op[b].box
    BY <1>4, Called
  <2> QED
    BY <1>0, <1>1, <2>1 DEF ReadInv, Under
<1>5. ASSUME NEW a \in Actor, Under(a), Released(a)
      PROVE  /\ op[a].box \in Box /\ mutex[op[a].box] = a
             /\ \A b \in Actor : Under(b)' => b # a /\ op'[b] = op[b] /\ op[b].box # op[a].box
  <2>1. \A b \in Actor : Under(b)' => b # a /\ op'[b] = op[b]
    BY <1>0, <1>5 DEF Released, NoOp, Under
  <2> QED
    BY <1>0, <1>5, <2>1 DEF Under
<1>6. ASSUME NEW a \in Actor, FinishMutation(a)
      PROVE  ReadInv'
  <2>1. Under(a) /\ Released(a) /\ UNCHANGED <<seen, noted, agentRun>>
    BY <1>6 DEF FinishMutation, Under
  <2>2. CASE UNCHANGED <<box, selected, bootOf>>
    BY <1>0, <1>1, <1>5, <2>1, <2>2 DEF ReadInv, Under
  <2>3. ASSUME NEW status \in Status, SaveStatus(op[a].box, status)
        PROVE  ReadInv'
    BY <1>5, <2>1, <2>3, SaveKeepsRead
  <2> QED
    BY <1>5, <1>6, <2>1, <2>2, <2>3, FinishSaves, ObservedIsStatus DEF Status
<1>7. ASSUME NEW a \in Actor, FinishRemoval(a) \/ Deletion(a)
      PROVE  ReadInv'
  <2>1. Under(a) /\ Released(a) /\ UNCHANGED <<seen, noted, agentRun>>
        /\ (box' = box \/ box' = [box EXCEPT ![op[a].box].status = "removed"])
    BY <1>7 DEF FinishRemoval, Deletion, RemoveRow, Under
  <2>2. /\ \A d \in Box : d # op[a].box => box'[d] = box[d]
        /\ box'[op[a].box].status \in {box[op[a].box].status, "removed"}
        /\ box'[op[a].box].gen = box[op[a].box].gen
    BY <1>0, <1>5, <2>1 DEF Rows
  <2>3. \A b \in Actor : Under(b)' => op'[b] = op[b] /\ Under(b) /\ box'[op[b].box] = box[op[b].box]
    BY <1>0, <1>5, <2>1, <2>2 DEF Under
  <2>4. \A d \in Box : box[d].status # "absent" => box'[d].status # "absent"
    BY <2>2
  <2>5. \A d \in Box : box'[d].gen = box[d].gen
    BY <2>2
  <2> QED
    BY <1>0, <2>1, <2>3, <2>4, <2>5 DEF ReadInv
<1>8. CASE LoadSnapshots
  BY <1>0, <1>1, <1>8 DEF LoadSnapshots, Under, ReadInv
<1>9. ASSUME NEW c \in Box, SyncStatus(c)
      PROVE  ReadInv'
  <2>1. UNCHANGED <<op, noted, agentRun>> /\ \A d \in Box : seen'[d] # Nothing => seen[d] # Nothing
    BY <1>0, <1>9 DEF SyncStatus
  <2>2. CASE UNCHANGED <<box, selected, bootOf>>
    BY <1>1, <2>1, <2>2 DEF ReadInv, Under
  <2>3. ASSUME NEW status \in Status, SaveStatus(c, status), mutex[c] = Nothing
        PROVE  ReadInv'
    BY <2>1, <2>3, SaveKeepsRead
  <2> QED
    BY <1>9, <2>2, <2>3, SyncSaves, ObservedIsStatus DEF Status
<1>10. ASSUME NEW c \in Box, SaveNoted(c)
       PROVE  ReadInv'
  <2>1. UNCHANGED <<op, seen, agentRun>> /\ \A d \in Box : noted'[d] # Nothing => noted[d] # Nothing
    BY <1>0, <1>10 DEF SaveNoted
  <2>2. CASE UNCHANGED <<box, selected, bootOf>>
    BY <1>1, <2>1, <2>2 DEF ReadInv, Under
  <2>3. CASE SaveStatus(c, noted[c]) /\ mutex[c] = Nothing
    BY <1>0, <1>10, <2>1, <2>3, SaveKeepsRead DEF SaveNoted
  <2> QED
    BY <1>10, <2>2, <2>3 DEF SaveNoted, Saves
<1>11. ASSUME NEW c \in Box, FoundDown(c)
       PROVE  ReadInv'
  BY <1>11, ObservedIsStatus, SaveKeepsRead DEF FoundDown
<1>12. ASSUME NEW s \in Session, AdmitRun(s)
       PROVE  ReadInv'
  <2>1. /\ UNCHANGED <<box, op, seen, noted>> /\ selected[s].box # Nothing
        /\ box[selected[s].box].status = "running" /\ box[selected[s].box].gen = selected[s].gen
        /\ agentRun' = agentRun \cup {[session |-> s, box |-> selected[s].box, gen |-> selected[s].gen]}
    BY <1>12 DEF AdmitRun, Current
  <2>2. selected[s].gen <= box[selected[s].box].gen
    BY <1>0, <2>1 DEF BoxTypeInv, BoxTypeOK
  <2> QED
    BY <1>0, <2>1, <2>2 DEF ReadInv, Under
<1>13. ASSUME NEW r \in agentRun, NEW inspectable \in BOOLEAN, ObserveDown(r, inspectable)
       PROVE  ReadInv'
  <2>1. /\ UNCHANGED <<box, op, seen, agentRun>> /\ box[r.box].status = "running"
        /\ \A d \in Box : d # r.box => noted'[d] = noted[d]
    BY <1>0, <1>13 DEF ObserveDown, Current
  <2> QED
    BY <1>0, <1>1, <2>1 DEF ReadInv, Under
<1>14. ASSUME NEW c \in Box, Settlement(c)
       PROVE  ReadInv'
  <2>1. \A d \in Box : box'[d].status = box[d].status /\ box'[d].gen = box[d].gen
    BY <1>0, <1>14 DEF Settlement, Rows
  <2> QED
    BY <1>0, <1>1, <1>14, <2>1 DEF Settlement, ReadInv, Under
<1>15. ASSUME NEW n \in Node, Abandonment(n)
       PROVE  ReadInv'
  <2>1. \A b \in Actor : Under(b)' => Under(b) /\ op'[b] = op[b]
    BY <1>0, <1>15 DEF Abandonment, NoOp, Under
  <2> QED
    BY <1>0, <1>1, <1>15, <2>1 DEF Abandonment, ReadInv
<1>16. CASE \/ \E c \in Box : ContainerExits(c)
            \/ \E s \in Session, c \in Box : SelectBox(s, c) \/ Selection(s, c)
            \/ \E r \in agentRun : EndRun(r)
            \/ UNCHANGED boxVars
  <2>1. UNCHANGED <<box, op, seen, noted>> /\ \A r \in agentRun' : r \in agentRun
    BY <1>16 DEF ContainerExits, SelectBox, Selection, EndRun, boxVars
  <2> QED
    BY <1>1, <2>1 DEF ReadInv, Under
<1> QED
  BY <1>2, <1>3, <1>4, <1>6, <1>7, <1>8, <1>9, <1>10, <1>11, <1>12, <1>13, <1>14, <1>15, <1>16
     DEF BoxStep
-----------------------------------------------------------------------------
(* Runs.  A container that a Run is bound to is not paused and is about to *)
(* be resumed at most; Docker has a RUNNING row's container paused only    *)
(* while the pause is under way, so that no command sees it so.            *)

RunInv ==
    /\ \A a \in Actor : Under(a) /\ op[a].kind # "resume" => ~HasNonterminalRun(op[a].box)
    /\ \A c \in Box :
          /\ box[c].status = "running" => docker[c].status # "created"
          /\ box[c].status = "running" /\ docker[c].status = "paused" =>
                mutex[c] # Nothing /\ op[mutex[c]].kind = "pause"
          /\ HasNonterminalRun(c) => docker[c].status # "paused"
          /\ noted[c] \in {Nothing, "stopped", "error"}

\* A new generation has no Runs.
LEMMA SaveAddsNoRun ==
    ASSUME BoxTypeInv, ReadInv, NEW c \in Box, NEW status \in Status, SaveStatus(c, status),
           agentRun' = agentRun
    PROVE  \A d \in Box : HasNonterminalRun(d)' => HasNonterminalRun(d)
<1> SUFFICES ASSUME NEW d \in Box, NEW r \in agentRun, r.box = d, r.gen = box'[d].gen
             PROVE  HasNonterminalRun(d)
  BY DEF HasNonterminalRun
<1>1. /\ \A e \in Box : e # c => box'[e] = box[e]
      /\ box'[c].gen \in {box[c].gen, box[c].gen + 1}
  BY Saved
<1>2. r.gen \in Nat /\ box[d].gen \in Nat /\ r.gen <= box[d].gen
  BY DEF BoxTypeInv, BoxTypeOK, ReadInv
<1>3. r.gen = box[d].gen
  BY <1>1, <1>2
<1> QED
  BY <1>3 DEF HasNonterminalRun

LEMMA SaveKeepsRuns ==
    ASSUME BoxTypeInv, LockInv, ReadInv, RunInv,
           NEW c \in Box, NEW status \in Status, SaveStatus(c, status),
           status = "running" => docker[c].status = "running",
           \/ UNCHANGED <<op, mutex>>
           \/ Under(mutex[c]) /\ mutex[c] \in Actor /\ op[mutex[c]].box = c /\ Released(mutex[c]),
           \A d \in Box : noted'[d] \in {noted[d], Nothing},
           docker' = docker, agentRun' = agentRun
    PROVE  RunInv'
<1>0. /\ mutex \in [Box -> Actor \cup {Nothing}]
      /\ op \in [Actor -> [kind : Mutation \cup {"none"}, box : Box \cup {Nothing},
                           stage : {"out", "checked", "acted"}, ok : BOOLEAN]]
      /\ \A a \in Actor : Under(a) => op[a].box \in Box
  BY DEF BoxTypeInv, BoxTypeOK, Under
<1>1. /\ \A d \in Box : d # c => box'[d] = box[d]
      /\ box'[c].status = status
  BY Saved
<1>2. \A d \in Box : HasNonterminalRun(d)' => HasNonterminalRun(d)
  BY SaveAddsNoRun
<1>3. /\ \A a \in Actor : Under(a)' => Under(a) /\ op'[a] = op[a]
      /\ \A d \in Box : d # c => mutex'[d] = mutex[d] /\ (mutex[d] # Nothing => op'[mutex[d]] = op[mutex[d]])
  <2>1. CASE UNCHANGED <<op, mutex>>
    BY <2>1 DEF Under
  <2>2. CASE Under(mutex[c]) /\ mutex[c] \in Actor /\ op[mutex[c]].box = c /\ Released(mutex[c])
    <3>1. \A a \in Actor : a # mutex[c] => op'[a] = op[a]
      BY <1>0, <2>2 DEF Released
    <3>2. op'[mutex[c]].stage = "out"
      BY <1>0, <2>2 DEF Released, NoOp
    <3>3. \A d \in Box : d # c => mutex'[d] = mutex[d]
      BY <1>0, <2>2 DEF Released
    <3>4. \A d \in Box : d # c /\ mutex[d] # Nothing => mutex[d] \in Actor /\ mutex[d] # mutex[c]
      BY <1>0, <2>2 DEF LockInv
    <3> QED
      BY <3>1, <3>2, <3>3, <3>4 DEF Under
  <2> QED
    BY <2>1, <2>2
<1>4. (\A a \in Actor : Under(a) /\ op[a].kind # "resume" => ~HasNonterminalRun(op[a].box))'
  <2> SUFFICES ASSUME NEW a \in Actor, Under(a)', op'[a].kind # "resume",
                      NEW r \in agentRun', r.box = op'[a].box, r.gen = box'[op'[a].box].gen
               PROVE  FALSE
    BY DEF HasNonterminalRun
  <2>1. op'[a] = op[a] /\ Under(a) /\ op[a].box \in Box /\ op[a].kind # "resume"
    BY <1>0, <1>3
  <2>2. \A d \in Box : d = r.box => HasNonterminalRun(d)
    <3> SUFFICES ASSUME NEW d \in Box, d = r.box
                 PROVE  HasNonterminalRun(d)
      OBVIOUS
    <3>1. HasNonterminalRun(d)'
      BY <2>1 DEF HasNonterminalRun
    <3> QED
      BY <1>2, <3>1
  <2>3. HasNonterminalRun(op[a].box)
    BY <2>1, <2>2
  <2> QED
    BY <2>1, <2>3 DEF RunInv
<1>5. (\A d \in Box :
          /\ box[d].status = "running" => docker[d].status # "created"
          /\ box[d].status = "running" /\ docker[d].status = "paused" =>
                mutex[d] # Nothing /\ op[mutex[d]].kind = "pause"
          /\ HasNonterminalRun(d) => docker[d].status # "paused"
          /\ noted[d] \in {Nothing, "stopped", "error"})'
  <2> SUFFICES ASSUME NEW d \in Box
               PROVE  /\ box'[d].status = "running" => docker'[d].status # "created"
                      /\ box'[d].status = "running" /\ docker'[d].status = "paused" =>
                            mutex'[d] # Nothing /\ op'[mutex'[d]].kind = "pause"
                      /\ HasNonterminalRun(d)' => docker'[d].status # "paused"
                      /\ noted'[d] \in {Nothing, "stopped", "error"}
    OBVIOUS
  <2> QED
    BY <1>1, <1>2, <1>3 DEF RunInv
<1> QED
  BY <1>4, <1>5 DEF RunInv

LEMMA ObservedRuns ==
    ASSUME BoxTypeInv, NEW c \in Box
    PROVE  Observed(c) = "running" => docker[c].status = "running"
BY DEF BoxTypeInv, BoxTypeOK, Observed, Exists, DockerStatus
LEMMA StepKeepsRuns ==
    ASSUME BoxTypeInv, LockInv, ReadInv, RunInv, BoxStep \/ UNCHANGED boxVars
    PROVE  RunInv'
<1>0. /\ op \in [Actor -> [kind : Mutation \cup {"none"}, box : Box \cup {Nothing},
                           stage : {"out", "checked", "acted"}, ok : BOOLEAN]]
      /\ mutex \in [Box -> Actor \cup {Nothing}]
      /\ \A a \in Actor : Under(a) => op[a].box \in Box /\ mutex[op[a].box] = a
      /\ \A c \in Box : mutex[c] # Nothing => mutex[c] \in Actor /\ Under(mutex[c])
                                              /\ op[mutex[c]].box = c
      /\ agentRun \subseteq [session : Session, box : Box, gen : Nat]
      /\ Nothing \notin Actor /\ Nothing \notin Box /\ Node \subseteq Actor
      /\ box \in [Box -> Rows] /\ docker \in [Box -> [status : DockerStatus, boots : Nat]]
      /\ noted \in [Box -> Status \cup {Nothing}]
  BY ActorAssumption, BoxAssumption, NodeAssumption DEF BoxTypeInv, BoxTypeOK, Under, LockInv
<1>00. ASSUME \A d \in Box : /\ noted'[d] \in {Nothing, "stopped", "error"}
                             /\ box'[d].status = "running" => docker'[d].status # "created"
                             /\ box'[d].status = "running" /\ docker'[d].status = "paused" =>
                                   mutex'[d] # Nothing /\ op'[mutex'[d]].kind = "pause",
              \A a \in Actor : Under(a)' /\ op'[a].kind # "resume" =>
                 op'[a].box \in Box /\ \A r \in agentRun' : r.box = op'[a].box => r.gen # box'[r.box].gen,
              \A r \in agentRun' : r.gen = box'[r.box].gen => docker'[r.box].status # "paused"
       PROVE  RunInv'
  <2>1. (\A a \in Actor : Under(a) /\ op[a].kind # "resume" => ~HasNonterminalRun(op[a].box))'
    <3> SUFFICES ASSUME NEW a \in Actor, Under(a)', op'[a].kind # "resume",
                        NEW r \in agentRun', r.box = op'[a].box, r.gen = box'[op'[a].box].gen
                 PROVE  FALSE
      BY DEF HasNonterminalRun
    <3> QED
      BY <1>00
  <2>2. (\A d \in Box : HasNonterminalRun(d) => docker[d].status # "paused")'
    BY <1>00 DEF HasNonterminalRun
  <2> QED
    BY <1>00, <2>1, <2>2 DEF RunInv
<1>000. /\ \A a \in Actor : Under(a) /\ op[a].kind # "resume" =>
              \A r \in agentRun : r.box = op[a].box => r.gen # box[r.box].gen
        /\ \A r \in agentRun : r.box \in Box /\ (r.gen = box[r.box].gen => docker[r.box].status # "paused")
  BY <1>0 DEF RunInv, HasNonterminalRun
\* Nothing but Docker's running containers, what was noted and ended Runs changes.
<1>1. ASSUME \A d \in Box : box'[d].status = box[d].status /\ box'[d].gen = box[d].gen,
             \A d \in Box : docker'[d].status # docker[d].status => docker'[d].status = "exited",
             UNCHANGED <<mutex, op>>, \A r \in agentRun' : r \in agentRun,
             \A d \in Box : noted'[d] \in {noted[d], Nothing, "stopped", "error"}
      PROVE  RunInv'
  <2>1. \A d \in Box : noted'[d] \in {Nothing, "stopped", "error"}
    BY <1>0, <1>1 DEF RunInv
  <2>2. \A d \in Box :
           /\ box'[d].status = "running" => docker'[d].status # "created"
           /\ box'[d].status = "running" /\ docker'[d].status = "paused" =>
                 mutex'[d] # Nothing /\ op'[mutex'[d]].kind = "pause"
    BY <1>0, <1>1 DEF RunInv
  <2>3. \A a \in Actor : Under(a)' /\ op'[a].kind # "resume" =>
           op'[a].box \in Box /\ \A r \in agentRun' : r.box = op'[a].box => r.gen # box'[r.box].gen
    BY <1>0, <1>000, <1>1 DEF Under
  <2>4. \A r \in agentRun' : r.gen = box'[r.box].gen => docker'[r.box].status # "paused"
    BY <1>000, <1>1
  <2> QED
    BY <1>00, <2>1, <2>2, <2>3, <2>4
<1>2. ASSUME NEW c \in Box, NEW r \in Rev \cup {Nothing}, CreateBox(c, r)
      PROVE  RunInv'
  <2>1. /\ box[c].status = "absent" /\ box'[c].status = "created" /\ docker'[c].status = "created"
        /\ \A d \in Box : d # c => box'[d] = box[d] /\ docker'[d] = docker[d]
        /\ UNCHANGED <<mutex, op, noted, agentRun>>
    BY <1>0, <1>2 DEF CreateBox, DockerCreates, NewBox
  <2>2. \A q \in agentRun : q.box # c
    BY <2>1 DEF ReadInv
  <2> QED
    BY <1>0, <1>00, <1>000, <2>1, <2>2 DEF RunInv, Under
<1>3. ASSUME NEW a \in Actor, NEW kind \in Mutation, NEW c \in Box, BeginMutation(a, kind, c)
      PROVE  RunInv'
  <2>1. /\ ~Under(a) /\ mutex[c] = Nothing
        /\ op'[a] = [kind |-> kind, box |-> c, stage |-> "checked", ok |-> TRUE]
        /\ \A b \in Actor : b # a => op'[b] = op[b]
        /\ mutex'[c] = a /\ \A d \in Box : d # c => mutex'[d] = mutex[d]
        /\ UNCHANGED <<box, docker, noted, agentRun>>
    BY <1>0, <1>3 DEF BeginMutation, Under
  <2>2. kind # "resume" => \A r \in agentRun : r.box = c => r.gen # box[r.box].gen
    BY <1>3 DEF BeginMutation, Mutable, HasNonterminalRun
  <2>3. \A d \in Box : mutex[d] # Nothing => mutex'[d] = mutex[d] /\ op'[mutex[d]] = op[mutex[d]]
    BY <1>0, <2>1
  <2>4. \A b \in Actor : Under(b)' /\ op'[b].kind # "resume" =>
           op'[b].box \in Box /\ \A r \in agentRun' : r.box = op'[b].box => r.gen # box'[r.box].gen
    <3> SUFFICES ASSUME NEW b \in Actor, Under(b)', op'[b].kind # "resume"
                 PROVE  op'[b].box \in Box
                        /\ \A r \in agentRun : r.box = op'[b].box => r.gen # box[r.box].gen
      BY <2>1
    <3>1. CASE b = a
      BY <2>1, <2>2, <3>1
    <3>2. CASE b # a
      BY <1>0, <1>000, <2>1, <3>2 DEF Under
    <3> QED
      BY <3>1, <3>2
  <2> QED
    BY <1>0, <1>00, <1>000, <2>1, <2>3, <2>4 DEF RunInv
<1>4. ASSUME NEW a \in Actor, CallDocker(a)
      PROVE  RunInv'
  <2>1. /\ op[a].stage = "checked" /\ op[a].box \in Box /\ UNCHANGED <<box, mutex, noted, agentRun>>
        /\ op'[a].stage = "acted" /\ \A b \in Actor : b # a => op'[b] = op[b]
        /\ \A b \in Actor : op'[b].kind = op[b].kind /\ op'[b].box = op[b].box
    BY <1>4, Called
  <2>2. /\ Under(a) /\ \A b \in Actor : Under(b)' <=> Under(b)
        /\ mutex[op[a].box] = a
    BY <1>0, <2>1 DEF Under
  <2>3. /\ \A d \in Box : d # op[a].box => docker'[d] = docker[d]
        /\ \/ docker'[op[a].box].status = docker[op[a].box].status
           \/ docker'[op[a].box].status \notin {"created", "paused"}
           \/ docker'[op[a].box].status = "paused" /\ op[a].kind = "pause"
    <3>1. ASSUME docker' = [docker EXCEPT ![op[a].box] = Effect(op[a].kind, @)]
          PROVE  /\ \A d \in Box : d # op[a].box => docker'[d] = docker[d]
                 /\ docker'[op[a].box] = Effect(op[a].kind, docker[op[a].box])
      BY <1>0, <2>1, <3>1
    <3>2. ASSUME NEW d \in [status : DockerStatus, boots : Nat], NEW kind
          PROVE  \/ Effect(kind, d).status = d.status
                 \/ Effect(kind, d).status \notin {"created", "paused"}
                 \/ Effect(kind, d).status = "paused" /\ kind = "pause"
      BY <3>2 DEF Effect, Gone
    <3>3. UNCHANGED docker \/ docker' = [docker EXCEPT ![op[a].box] = Effect(op[a].kind, @)]
      BY <1>4, Called
    <3>4. docker[op[a].box] \in [status : DockerStatus, boots : Nat]
      BY <1>0, <2>1
    <3> QED
      BY <3>1, <3>2, <3>3, <3>4
  <2>4. op[a].kind = "pause" => \A r \in agentRun : r.box = op[a].box => r.gen # box[r.box].gen
    BY <1>000, <2>2
  <2>5. \A b \in Actor : Under(b)' /\ op'[b].kind # "resume" =>
           op'[b].box \in Box /\ \A r \in agentRun' : r.box = op'[b].box => r.gen # box'[r.box].gen
    BY <1>0, <1>000, <2>1, <2>2
  <2>6. \A r \in agentRun' : r.gen = box'[r.box].gen => docker'[r.box].status # "paused"
    BY <1>000, <2>1, <2>3, <2>4
  <2>7. \A d \in Box : /\ noted'[d] \in {Nothing, "stopped", "error"}
                       /\ box'[d].status = "running" => docker'[d].status # "created"
                       /\ box'[d].status = "running" /\ docker'[d].status = "paused" =>
                             mutex'[d] # Nothing /\ op'[mutex'[d]].kind = "pause"
    BY <1>0, <2>1, <2>2, <2>3 DEF RunInv
  <2> QED
    BY <1>00, <2>5, <2>6, <2>7
<1>5. ASSUME NEW a \in Actor, FinishMutation(a)
      PROVE  RunInv'
  <2>1. /\ Under(a) /\ Released(a) /\ UNCHANGED <<docker, seen, noted, agentRun>>
        /\ op[a].box \in Box /\ mutex[op[a].box] = a
    BY <1>0, <1>5 DEF FinishMutation, Under
  <2>2. ASSUME NEW status \in Status, SaveStatus(op[a].box, status),
               status = "running" => docker[op[a].box].status = "running"
        PROVE  RunInv'
    BY <2>1, <2>2, SaveKeepsRuns
  <2>3. CASE \E status \in {"error", "stopped", "paused"} : SaveStatus(op[a].box, status)
    BY <2>2, <2>3 DEF Status
  <2>4. CASE SaveStatus(op[a].box, Observed(op[a].box))
    BY <2>1, <2>2, <2>4, ObservedIsStatus, ObservedRuns
  <2>5. CASE UNCHANGED <<box, selected, bootOf>> /\ op[a].kind # "pause"
    <3>1. \A b \in Actor : Under(b)' => b # a /\ op'[b] = op[b] /\ Under(b)
      BY <1>0, <2>1 DEF Released, NoOp, Under
    <3>2. \A d \in Box : d # op[a].box => mutex'[d] = mutex[d] /\ (mutex[d] # Nothing => op'[mutex[d]] = op[mutex[d]])
      BY <1>0, <2>1 DEF Released
    <3>3. ~(box[op[a].box].status = "running" /\ docker[op[a].box].status = "paused")
      BY <2>1, <2>5 DEF RunInv
    <3> QED
      BY <1>0, <1>00, <1>000, <2>1, <2>5, <3>1, <3>2, <3>3 DEF RunInv
  <2>6. op[a].kind = "pause" => SaveStatus(op[a].box, "error") \/ SaveStatus(op[a].box, "paused")
    BY <1>0, <1>5 DEF FinishMutation
  <2> QED
    BY <1>5, <2>3, <2>4, <2>5, <2>6, FinishSaves
<1>6. ASSUME NEW a \in Actor, FinishRemoval(a) \/ Deletion(a)
      PROVE  RunInv'
  <2>1. /\ Under(a) /\ Released(a) /\ UNCHANGED <<docker, noted, agentRun>>
        /\ op[a].box \in Box /\ mutex[op[a].box] = a /\ op[a].kind # "pause"
        /\ box' = box \/ box' = [box EXCEPT ![op[a].box].status = "removed"]
    BY <1>0, <1>6 DEF FinishRemoval, Deletion, RemoveRow, Under
  <2>2. /\ \A d \in Box : d # op[a].box => box'[d] = box[d]
        /\ box'[op[a].box].status \in {box[op[a].box].status, "removed"}
        /\ \A d \in Box : box'[d].gen = box[d].gen
    BY <1>0, <2>1 DEF Rows
  <2>3. \A b \in Actor : Under(b)' => b # a /\ op'[b] = op[b] /\ Under(b)
    BY <1>0, <2>1 DEF Released, NoOp, Under
  <2>4. \A d \in Box : d # op[a].box =>
           mutex'[d] = mutex[d] /\ (mutex[d] # Nothing => op'[mutex[d]] = op[mutex[d]])
    BY <1>0, <2>1 DEF Released
  <2>5. ~(box[op[a].box].status = "running" /\ docker[op[a].box].status = "paused")
    BY <2>1 DEF RunInv
  <2>6. \A d \in Box : /\ noted'[d] \in {Nothing, "stopped", "error"}
                       /\ box'[d].status = "running" => docker'[d].status # "created"
                       /\ box'[d].status = "running" /\ docker'[d].status = "paused" =>
                             mutex'[d] # Nothing /\ op'[mutex'[d]].kind = "pause"
    BY <2>1, <2>2, <2>4, <2>5 DEF RunInv
  <2>7. \A b \in Actor : Under(b)' /\ op'[b].kind # "resume" =>
           op'[b].box \in Box /\ \A r \in agentRun' : r.box = op'[b].box => r.gen # box'[r.box].gen
    BY <1>0, <1>000, <2>1, <2>2, <2>3
  <2>8. \A r \in agentRun' : r.gen = box'[r.box].gen => docker'[r.box].status # "paused"
    BY <1>000, <2>1, <2>2
  <2> QED
    BY <1>00, <2>6, <2>7, <2>8
<1>7. ASSUME NEW c \in Box, SyncStatus(c)
      PROVE  RunInv'
  <2>1. UNCHANGED <<docker, mutex, op, noted, agentRun>>
    BY <1>7 DEF SyncStatus
  <2>2. CASE UNCHANGED <<box, selected, bootOf>>
    BY <1>1, <2>1, <2>2
  <2>3. ASSUME NEW status \in Status, SaveStatus(c, status),
               status = "running" => docker[c].status = "running"
        PROVE  RunInv'
    BY <2>1, <2>3, SaveKeepsRuns
  <2> QED
    BY <1>7, <2>2, <2>3, SyncSaves, ObservedIsStatus, ObservedRuns DEF Status
<1>8. ASSUME NEW c \in Box, ContainerExits(c)
      PROVE  RunInv'
  <2>1. \A d \in Box : docker'[d].status \in {docker[d].status, "exited"}
    BY <1>0, <1>8 DEF ContainerExits
  <2> QED
    BY <1>1, <1>8, <2>1 DEF ContainerExits
<1>9. ASSUME NEW c \in Box, SaveNoted(c)
      PROVE  RunInv'
  <2>1. /\ UNCHANGED <<docker, mutex, op, agentRun>>
        /\ noted[c] \in Status \ {"running"} /\ \A d \in Box : noted'[d] \in {noted[d], Nothing}
    BY <1>0, <1>9 DEF SaveNoted, RunInv, Status
  <2>2. CASE UNCHANGED <<box, selected, bootOf>>
    BY <1>1, <2>1, <2>2
  <2>3. CASE SaveStatus(c, noted[c])
    BY <2>1, <2>3, SaveKeepsRuns
  <2> QED
    BY <1>9, <2>2, <2>3 DEF SaveNoted
<1>10. ASSUME NEW s \in Session, AdmitRun(s)
       PROVE  RunInv'
  <2>1. /\ selected[s].box # Nothing /\ selected[s].box \in Box
        /\ mutex[selected[s].box] = Nothing /\ box[selected[s].box].status = "running"
        /\ agentRun' = agentRun \cup {[session |-> s, box |-> selected[s].box, gen |-> selected[s].gen]}
        /\ UNCHANGED <<box, docker, mutex, op, noted>>
    BY <1>10 DEF AdmitRun, Current, BoxTypeInv, BoxTypeOK
  <2>2. \A a \in Actor : Under(a) => op[a].box # selected[s].box
    BY <1>0, <2>1
  <2>3. docker[selected[s].box].status # "paused"
    BY <2>1 DEF RunInv
  <2>4. \A a \in Actor : Under(a)' /\ op'[a].kind # "resume" =>
           op'[a].box \in Box /\ \A r \in agentRun' : r.box = op'[a].box => r.gen # box'[r.box].gen
    BY <1>0, <1>000, <2>1, <2>2 DEF Under
  <2>5. \A r \in agentRun' : r.gen = box'[r.box].gen => docker'[r.box].status # "paused"
    BY <1>000, <2>1, <2>3
  <2> QED
    BY <1>00, <2>1, <2>4, <2>5 DEF RunInv
<1>11. ASSUME NEW r \in agentRun, NEW inspectable \in BOOLEAN, ObserveDown(r, inspectable)
       PROVE  RunInv'
  <2>1. /\ r.box \in Box /\ box[r.box].status = "running" /\ r.gen = box[r.box].gen
        /\ UNCHANGED <<box, docker, mutex, op, agentRun>>
        /\ noted'[r.box] = (IF inspectable THEN Observed(r.box) ELSE "error")
        /\ noted'[r.box] # "running"
        /\ \A d \in Box : d # r.box => noted'[d] = noted[d]
    BY <1>0, <1>11 DEF ObserveDown, Current
  <2>2. docker[r.box].status \notin {"created", "paused"}
    BY <1>000, <2>1 DEF RunInv
  <2>3. Observed(r.box) \in {"running", "error", "stopped"}
    BY <1>0, <2>1, <2>2 DEF Observed, Exists, DockerStatus
  <2>4. \A d \in Box : noted'[d] \in {noted[d], Nothing, "stopped", "error"}
    BY <2>1, <2>3
  <2> QED
    BY <1>1, <2>1, <2>4
<1>12. ASSUME NEW c \in Box, FoundDown(c)
       PROVE  RunInv'
  BY <1>12, SaveKeepsRuns, ObservedIsStatus, ObservedRuns DEF FoundDown
<1>13. ASSUME NEW n \in Node, Abandonment(n)
       PROVE  RunInv'
  <2>1. /\ \A b \in Actor : Under(b)' => b # n /\ op'[b] = op[b] /\ Under(b)
        /\ \A d \in Box : mutex'[d] = IF mutex[d] = n THEN Nothing ELSE mutex[d]
        /\ \A b \in Actor : b # n => op'[b] = op[b]
        /\ UNCHANGED <<box, docker, noted, agentRun>>
    BY <1>0, <1>13 DEF Abandonment, NoOp, Under
  <2>2. Under(n) => op[n].kind # "pause"
    BY <1>0, <1>13 DEF LockInv, NodeMutation
  <2>3. \A d \in Box : mutex[d] = n => ~(box[d].status = "running" /\ docker[d].status = "paused")
    BY <1>0, <2>2 DEF RunInv
  <2>4. \A d \in Box : /\ noted'[d] \in {Nothing, "stopped", "error"}
                       /\ box'[d].status = "running" => docker'[d].status # "created"
                       /\ box'[d].status = "running" /\ docker'[d].status = "paused" =>
                             mutex'[d] # Nothing /\ op'[mutex'[d]].kind = "pause"
    BY <1>0, <2>1, <2>3 DEF RunInv
  <2> QED
    BY <1>0, <1>00, <1>000, <2>1, <2>4
<1>14. ASSUME NEW c \in Box, Settlement(c)
       PROVE  RunInv'
  <2>1. \A d \in Box : box'[d].status = box[d].status /\ box'[d].gen = box[d].gen
    BY <1>0, <1>14 DEF Settlement, Rows
  <2> QED
    BY <1>1, <1>14, <2>1 DEF Settlement
<1>15. CASE \/ LoadSnapshots
            \/ \E s \in Session, c \in Box : SelectBox(s, c) \/ Selection(s, c)
            \/ \E r \in agentRun : EndRun(r)
            \/ UNCHANGED boxVars
  <2>1. UNCHANGED <<box, docker, op, mutex, noted>> /\ \A r \in agentRun' : r \in agentRun
    BY <1>15 DEF LoadSnapshots, SelectBox, Selection, EndRun, boxVars
  <2> QED
    BY <1>1, <2>1
<1> QED
  BY <1>2, <1>3, <1>4, <1>5, <1>6, <1>7, <1>8, <1>9, <1>10, <1>11, <1>12, <1>13, <1>14, <1>15
     DEF BoxStep
\* What of Docker's containers a step can change, and the operation that does it.
LEMMA StepSparesRuns ==
    ASSUME BoxTypeInv, LockInv, ReadInv, RunInv, BoxStep \/ UNCHANGED boxVars
    PROVE  \A r \in agentRun :
             r.gen = box[r.box].gen /\ docker'[r.box] # docker[r.box] => ContainerExits(r.box)
<1> SUFFICES ASSUME NEW r \in agentRun, r.gen = box[r.box].gen, docker'[r.box] # docker[r.box]
             PROVE  ContainerExits(r.box)
  OBVIOUS
<1>0. /\ r.box \in Box /\ box[r.box].status # "absent" /\ HasNonterminalRun(r.box)
      /\ docker \in [Box -> [status : DockerStatus, boots : Nat]]
  BY DEF BoxTypeInv, BoxTypeOK, ReadInv, HasNonterminalRun
<1>1. ASSUME NEW c \in Box, NEW q \in Rev \cup {Nothing}, CreateBox(c, q)
      PROVE  FALSE
  <2>1. box[c].status = "absent" /\ \A d \in Box : d # c => docker'[d] = docker[d]
    BY <1>0, <1>1 DEF CreateBox, DockerCreates
  <2> QED
    BY <1>0, <2>1
<1>2. ASSUME NEW a \in Actor, CallDocker(a)
      PROVE  FALSE
  <2>1. op[a].box \in Box /\ Under(a)
    BY <1>2, Called DEF Under
  <2>2. /\ docker' = [docker EXCEPT ![op[a].box] = Effect(op[a].kind, @)]
        /\ Accepts(op[a].kind, docker[op[a].box])
    BY <1>2, Called
  <2>3. op[a].box = r.box
    BY <1>0, <2>1, <2>2
  <2>4. op[a].kind = "resume" /\ docker[op[a].box].status # "paused"
    BY <1>0, <2>1, <2>3 DEF RunInv
  <2> QED
    BY <2>2, <2>4 DEF Accepts
<1>3. ASSUME NEW c \in Box, ContainerExits(c)
      PROVE  ContainerExits(r.box)
  <2>1. \A d \in Box : d # c => docker'[d] = docker[d]
    BY <1>0, <1>3 DEF ContainerExits
  <2> QED
    BY <1>0, <1>3, <2>1
<1>4. docker' # docker
  OBVIOUS
<1> QED
  BY <1>1, <1>2, <1>3, <1>4 DEF BoxStep, boxVars, BeginMutation, FinishMutation, FinishRemoval,
     Deletion, LoadSnapshots, SyncStatus, SaveNoted, AdmitRun, SelectBox, EndRun, ObserveDown,
     Selection, FoundDown, Settlement, Abandonment

-----------------------------------------------------------------------------
(* Generations.  A generation that the row has not reached names no boot,  *)
(* and the boot of the current one cannot change while the row, Docker or  *)
(* a mutation could let the row come to RUNNING without a new generation.  *)

Pinned(c) ==
    \/ box[c].status \in {"running", "paused"}
    \/ docker[c].status = "paused"
    \/ mutex[c] # Nothing /\ op[mutex[c]].kind = "pause"

BootInv ==
    \A c \in Box :
       /\ box[c].status = "absent" => box[c].gen = 0
       /\ \A g \in 0..(MaxGen + 1) : box[c].gen < g => bootOf[c][g] = {}
       /\ \A g \in 0..(MaxGen + 1) : \A b, d \in bootOf[c][g] : b = d
       /\ Pinned(c) => \A g \in 0..(MaxGen + 1) : g = box[c].gen => bootOf[c][g] \subseteq {docker[c].boots}

\* A row that only stops being pinned.
LEMMA BootsKept ==
    ASSUME BootInv, NEW c \in Box,
           box'[c].gen = box[c].gen, bootOf'[c] = bootOf[c],
           box'[c].status = "absent" => box[c].status = "absent",
           Pinned(c)' => Pinned(c) /\ docker'[c].boots = docker[c].boots
    PROVE  /\ box'[c].status = "absent" => box'[c].gen = 0
           /\ \A g \in 0..(MaxGen + 1) : box'[c].gen < g => bootOf'[c][g] = {}
           /\ \A g \in 0..(MaxGen + 1) : \A b, d \in bootOf'[c][g] : b = d
           /\ Pinned(c)' => \A g \in 0..(MaxGen + 1) :
                               g = box'[c].gen => bootOf'[c][g] \subseteq {docker'[c].boots}
BY DEF BootInv

LEMMA SaveKeepsBoots ==
    ASSUME BoxTypeInv, BootInv, NEW c \in Box, NEW status \in Status, SaveStatus(c, status),
           status = "paused" => Pinned(c),
           docker' = docker,
           \A d \in Box : mutex'[d] # Nothing =>
                             mutex'[d] = mutex[d] /\ (d # c => op'[mutex[d]] = op[mutex[d]]),
           mutex'[c] # Nothing => op'[mutex'[c]] = op[mutex[c]]
    PROVE  BootInv'
<1>0. /\ docker \in [Box -> [status : DockerStatus, boots : Nat]]
      /\ bootOf \in [Box -> [0..(MaxGen + 1) -> SUBSET Nat]]
      /\ \A d \in Box : box[d].gen \in Nat
      /\ MaxGen \in Nat
  BY GenAssumption DEF BoxTypeInv, BoxTypeOK
<1>1. /\ \A d \in Box : d # c => box'[d] = box[d]
      /\ box'[c].status = status /\ box'[c].gen = GenerationAfter(c, status)
      /\ GenerationAfter(c, status) \in {box[c].gen, box[c].gen + 1}
      /\ status # "absent"
  BY Saved DEF Status
<1>2. SUFFICES ASSUME NEW d \in Box
      PROVE  /\ box'[d].status = "absent" => box'[d].gen = 0
             /\ \A g \in 0..(MaxGen + 1) : box'[d].gen < g => bootOf'[d][g] = {}
             /\ \A g \in 0..(MaxGen + 1) : \A b, e \in bootOf'[d][g] : b = e
             /\ Pinned(d)' => \A g \in 0..(MaxGen + 1) :
                                 g = box'[d].gen => bootOf'[d][g] \subseteq {docker'[d].boots}
  BY DEF BootInv
<1>3. CASE d # c
  <2>1. bootOf'[d] = bootOf[d]
    BY <1>0, <1>3 DEF SaveStatus
  <2>2. Pinned(d)' => Pinned(d)
    BY <1>1, <1>3 DEF Pinned
  <2> QED
    BY <1>1, <1>3, <2>1, <2>2, BootsKept
<1>4. CASE d = c /\ status # "running"
  <2>1. bootOf'[d] = bootOf[d] /\ box'[d].gen = box[d].gen
    BY <1>1, <1>4 DEF SaveStatus, GenerationAfter
  <2>2. Pinned(d)' => Pinned(d)
    BY <1>1, <1>4 DEF Pinned
  <2> QED
    BY <1>1, <1>4, <2>1, <2>2, BootsKept
<1>5. CASE d = c /\ status = "running"
  <2>1. \A g \in 0..(MaxGen + 1) : bootOf'[c][g] =
           IF g = GenerationAfter(c, status) THEN bootOf[c][g] \cup {docker[c].boots} ELSE bootOf[c][g]
    BY <1>0, <1>5 DEF SaveStatus
  <2>2. ASSUME NEW g \in 0..(MaxGen + 1), g = GenerationAfter(c, status)
        PROVE  bootOf[c][g] \subseteq {docker[c].boots}
    <3>1. CASE box[c].status \in {"running", "paused"}
      BY <2>2, <3>1 DEF BootInv, Pinned, GenerationAfter
    <3>2. CASE box[c].status \notin {"running", "paused"}
      <4>1. g = box[c].gen + 1
        BY <1>5, <2>2, <3>2 DEF GenerationAfter
      <4>2. box[c].gen < g
        BY <1>0, <4>1
      <4>3. bootOf[c][g] = {}
        BY <4>2 DEF BootInv
      <4> QED
        BY <4>3
    <3> QED
      BY <3>1, <3>2
  <2>3. \A g \in 0..(MaxGen + 1) : g = GenerationAfter(c, status) => bootOf'[c][g] = {docker[c].boots}
    BY <2>1, <2>2
  <2>4. \A g \in 0..(MaxGen + 1) : GenerationAfter(c, status) < g => bootOf'[c][g] = {}
    <3> SUFFICES ASSUME NEW g \in 0..(MaxGen + 1), GenerationAfter(c, status) < g
                 PROVE  bootOf'[c][g] = {}
      OBVIOUS
    <3>1. box[c].gen < g /\ g # GenerationAfter(c, status)
      BY <1>0, <1>1
    <3>2. bootOf[c][g] = {}
      BY <3>1 DEF BootInv
    <3> QED
      BY <2>1, <3>1, <3>2
  <2>5. \A g \in 0..(MaxGen + 1) : \A b, e \in bootOf'[c][g] : b = e
    <3>1. \A g \in 0..(MaxGen + 1) : \A b, e \in bootOf[c][g] : b = e
      BY DEF BootInv
    <3>2. SUFFICES ASSUME NEW g \in 0..(MaxGen + 1)
                   PROVE  \A b, e \in bootOf'[c][g] : b = e
      OBVIOUS
    <3>3. CASE g = GenerationAfter(c, status)
      <4>1. bootOf'[c][g] = {docker[c].boots}
        BY <2>3, <3>3
      <4> QED
        BY <4>1
    <3>4. CASE g # GenerationAfter(c, status)
      <4>1. bootOf'[c][g] = bootOf[c][g]
        BY <2>1, <3>4
      <4> QED
        BY <3>1, <4>1
    <3> QED
      BY <3>3, <3>4
  <2> QED
    BY <1>1, <1>5, <2>3, <2>4, <2>5
<1> QED
  BY <1>3, <1>4, <1>5

LEMMA StepKeepsBoots ==
    ASSUME BoxTypeInv, LockInv, ReadInv, RunInv, BootInv, BoxStep \/ UNCHANGED boxVars
    PROVE  BootInv'
<1>0. /\ op \in [Actor -> [kind : Mutation \cup {"none"}, box : Box \cup {Nothing},
                           stage : {"out", "checked", "acted"}, ok : BOOLEAN]]
      /\ mutex \in [Box -> Actor \cup {Nothing}]
      /\ \A a \in Actor : Under(a) => op[a].box \in Box /\ mutex[op[a].box] = a
      /\ \A c \in Box : mutex[c] # Nothing => mutex[c] \in Actor /\ Under(mutex[c])
                                              /\ op[mutex[c]].box = c
      /\ Nothing \notin Actor /\ Nothing \notin Box /\ Node \subseteq Actor
      /\ box \in [Box -> Rows] /\ docker \in [Box -> [status : DockerStatus, boots : Nat]]
      /\ noted \in [Box -> Status \cup {Nothing}]
  BY ActorAssumption, BoxAssumption, NodeAssumption DEF BoxTypeInv, BoxTypeOK, Under, LockInv
\* No row comes to be pinned, and no boot changes under one that stays so.
<1>00. ASSUME bootOf' = bootOf,
              \A c \in Box : /\ box'[c].gen = box[c].gen
                             /\ box'[c].status = "absent" => box[c].status = "absent"
                             /\ Pinned(c)' => Pinned(c) /\ docker'[c].boots = docker[c].boots
       PROVE  BootInv'
  <2> SUFFICES ASSUME NEW c \in Box
      PROVE  /\ box'[c].status = "absent" => box'[c].gen = 0
             /\ \A g \in 0..(MaxGen + 1) : box'[c].gen < g => bootOf'[c][g] = {}
             /\ \A g \in 0..(MaxGen + 1) : \A b, d \in bootOf'[c][g] : b = d
             /\ Pinned(c)' => \A g \in 0..(MaxGen + 1) :
                                 g = box'[c].gen => bootOf'[c][g] \subseteq {docker'[c].boots}
    BY DEF BootInv
  <2> QED
    BY <1>00, BootsKept
<1>1. ASSUME NEW c \in Box, NEW r \in Rev \cup {Nothing}, CreateBox(c, r)
      PROVE  BootInv'
  <2>1. /\ box[c].status = "absent" /\ box'[c].status = "created" /\ docker'[c].status = "created"
        /\ box'[c].gen = 0
        /\ \A d \in Box : d # c => box'[d] = box[d] /\ docker'[d] = docker[d]
        /\ UNCHANGED <<mutex, op, bootOf>>
    BY <1>0, <1>1 DEF CreateBox, DockerCreates, NewBox
  <2>2. mutex[c] = Nothing
    BY <1>0, <2>1 DEF ReadInv
  <2>3. box[c].gen = 0
    BY <2>1 DEF BootInv
  <2>4. ~Pinned(c)'
    BY <2>1, <2>2 DEF Pinned
  <2>5. \A d \in Box : d # c => (Pinned(d)' <=> Pinned(d))
    BY <2>1 DEF Pinned
  <2>6. \A d \in Box : /\ box'[d].gen = box[d].gen
                       /\ box'[d].status = "absent" => box[d].status = "absent"
                       /\ Pinned(d)' => Pinned(d) /\ docker'[d].boots = docker[d].boots
    BY <2>1, <2>3, <2>4, <2>5
  <2> QED
    BY <1>00, <2>1, <2>6
<1>2. ASSUME NEW a \in Actor, NEW kind \in Mutation, NEW c \in Box, BeginMutation(a, kind, c)
      PROVE  BootInv'
  <2>1. /\ ~Under(a) /\ op'[a].kind = kind
        /\ \A b \in Actor : b # a => op'[b] = op[b]
        /\ mutex'[c] = a /\ \A d \in Box : d # c => mutex'[d] = mutex[d]
        /\ UNCHANGED <<box, docker, bootOf>>
    BY <1>0, <1>2 DEF BeginMutation, Under
  <2>2. kind = "pause" => box[c].status = "running"
    BY <1>2 DEF BeginMutation, Mutable
  <2>3. \A d \in Box : Pinned(d)' => Pinned(d)
    <3> SUFFICES ASSUME NEW d \in Box, Pinned(d)'
                 PROVE  Pinned(d)
      OBVIOUS
    <3>1. CASE d = c
      BY <2>1, <2>2, <3>1 DEF Pinned
    <3>2. CASE d # c
      BY <1>0, <2>1, <3>2 DEF Pinned
    <3> QED
      BY <3>1, <3>2
  <2> QED
    BY <1>00, <2>1, <2>3
<1>3. ASSUME NEW a \in Actor, CallDocker(a)
      PROVE  BootInv'
  <2>1. /\ op[a].stage = "checked" /\ op[a].box \in Box /\ UNCHANGED <<box, mutex, bootOf>>
        /\ \A b \in Actor : op'[b].kind = op[b].kind /\ op'[b].box = op[b].box
    BY <1>3, Called
  <2>2. Under(a) /\ mutex[op[a].box] = a
    BY <1>0, <2>1 DEF Under
  <2>3. UNCHANGED docker \/ docker' = [docker EXCEPT ![op[a].box] = Effect(op[a].kind, @)]
    BY <1>3, Called
  <2>4. CASE UNCHANGED docker
    <3>1. \A d \in Box : Pinned(d)' => Pinned(d)
      BY <1>0, <2>1, <2>4 DEF Pinned
    <3> QED
      BY <1>00, <2>1, <2>4, <3>1
  <2>5. CASE docker' = [docker EXCEPT ![op[a].box] = Effect(op[a].kind, @)]
    <3>1. /\ \A d \in Box : d # op[a].box => docker'[d] = docker[d]
          /\ docker'[op[a].box] = Effect(op[a].kind, docker[op[a].box])
      BY <1>0, <2>1, <2>5
    <3>2. ASSUME NEW d \in [status : DockerStatus, boots : Nat], NEW kind
          PROVE  /\ Effect(kind, d).status = "paused" => kind = "pause" \/ d.status = "paused"
                 /\ \/ Effect(kind, d).boots = d.boots
                    \/ kind = "start" /\ Effect(kind, d).status = "running"
      BY <3>2 DEF Effect, Gone
    <3>3. /\ docker'[op[a].box].status = "paused" =>
                op[a].kind = "pause" \/ docker[op[a].box].status = "paused"
          /\ \/ docker'[op[a].box].boots = docker[op[a].box].boots
             \/ op[a].kind = "start" /\ docker'[op[a].box].status = "running"
      BY <1>0, <2>1, <3>1, <3>2
    <3>4. op[a].kind = "start" => box[op[a].box].status \in {"created", "stopped"}
      BY <2>2 DEF ReadInv
    <3>5. a # Nothing
      BY <1>0
    <3>6. \A d \in Box : Pinned(d)' => Pinned(d) /\ docker'[d].boots = docker[d].boots
      <4> SUFFICES ASSUME NEW d \in Box, Pinned(d)'
                   PROVE  Pinned(d) /\ docker'[d].boots = docker[d].boots
        OBVIOUS
      <4>1. CASE d # op[a].box
        BY <1>0, <2>1, <3>1, <4>1 DEF Pinned
      <4>2. CASE d = op[a].box
        BY <2>1, <2>2, <3>3, <3>4, <3>5, <4>2 DEF Pinned
      <4> QED
        BY <4>1, <4>2
    <3> QED
      BY <1>00, <2>1, <3>6
  <2> QED
    BY <2>3, <2>4, <2>5
\* The lock is given back.
<1>4. ASSUME NEW a \in Actor, Under(a), Released(a)
      PROVE  /\ op[a].box \in Box /\ mutex'[op[a].box] = Nothing
             /\ \A d \in Box : mutex'[d] # Nothing =>
                   mutex'[d] = mutex[d] /\ op'[mutex'[d]] = op[mutex[d]]
             /\ op[a].kind = "pause" => Pinned(op[a].box)
  <2>1. op[a].box \in Box /\ mutex[op[a].box] = a /\ a # Nothing
    BY <1>0, <1>4
  <2>2. /\ mutex'[op[a].box] = Nothing /\ \A d \in Box : d # op[a].box => mutex'[d] = mutex[d]
        /\ \A b \in Actor : b # a => op'[b] = op[b]
    BY <1>0, <1>4, <2>1 DEF Released
  <2>3. \A d \in Box : d # op[a].box => mutex[d] # a
    BY <1>0
  <2> QED
    BY <1>0, <2>1, <2>2, <2>3 DEF Pinned
<1>5. ASSUME NEW a \in Actor, FinishMutation(a)
      PROVE  BootInv'
  <2>1. Under(a) /\ Released(a) /\ UNCHANGED docker /\ op[a].box \in Box
    BY <1>0, <1>5 DEF FinishMutation, Under
  <2>2. ASSUME NEW status \in Status, SaveStatus(op[a].box, status),
               status = "paused" => Pinned(op[a].box)
        PROVE  BootInv'
    BY <1>4, <2>1, <2>2, SaveKeepsBoots
  <2>3. CASE UNCHANGED <<box, selected, bootOf>>
    <3>1. \A d \in Box : Pinned(d)' => Pinned(d)
      BY <1>4, <2>1, <2>3 DEF Pinned
    <3> QED
      BY <1>00, <2>1, <2>3, <3>1
  <2>4. CASE SaveStatus(op[a].box, Observed(op[a].box))
    <3>1. Observed(op[a].box) = "paused" => Pinned(op[a].box)
      BY <1>0, <2>1 DEF Observed, Exists, DockerStatus, Pinned
    <3> QED
      BY <2>1, <2>2, <2>4, <3>1, ObservedIsStatus
  <2>5. CASE SaveStatus(op[a].box, "error") \/ SaveStatus(op[a].box, "stopped")
    BY <2>2, <2>5 DEF Status
  <2>6. CASE SaveStatus(op[a].box, "paused") /\ op[a].kind = "pause"
    BY <1>4, <2>1, <2>2, <2>6 DEF Status
  <2> QED
    BY <1>5, <2>3, <2>4, <2>5, <2>6, FinishSaves
<1>6. ASSUME NEW a \in Actor, FinishRemoval(a) \/ Deletion(a)
      PROVE  BootInv'
  <2>1. /\ Under(a) /\ Released(a) /\ UNCHANGED <<docker, bootOf>> /\ op[a].box \in Box
        /\ box' = box \/ box' = [box EXCEPT ![op[a].box].status = "removed"]
    BY <1>0, <1>6 DEF FinishRemoval, Deletion, RemoveRow, Under
  <2>2. \A d \in Box : box'[d].gen = box[d].gen /\ box'[d].status \in {box[d].status, "removed"}
    BY <1>0, <2>1 DEF Rows
  <2>3. \A d \in Box : Pinned(d)' => Pinned(d)
    BY <1>4, <2>1, <2>2 DEF Pinned
  <2> QED
    BY <1>00, <2>1, <2>2, <2>3
<1>7. ASSUME NEW c \in Box, SyncStatus(c)
      PROVE  BootInv'
  <2>1. UNCHANGED <<docker, mutex, op>>
    BY <1>7 DEF SyncStatus
  <2>2. CASE UNCHANGED <<box, selected, bootOf>>
    BY <1>00, <2>1, <2>2 DEF Pinned
  <2>3. ASSUME NEW status \in Status, SaveStatus(c, status), status = "paused" => Pinned(c)
        PROVE  BootInv'
    BY <2>1, <2>3, SaveKeepsBoots
  <2>4. Observed(c) = "paused" => Pinned(c)
    BY <1>0 DEF Observed, Exists, DockerStatus, Pinned
  <2> QED
    BY <1>7, <2>2, <2>3, <2>4, SyncSaves, ObservedIsStatus DEF Status
<1>8. ASSUME NEW c \in Box, ContainerExits(c)
      PROVE  BootInv'
  <2>1. /\ \A d \in Box : docker'[d].status \in {docker[d].status, "exited"} /\ docker'[d].boots = docker[d].boots
        /\ UNCHANGED <<box, mutex, op, bootOf>>
    BY <1>0, <1>8 DEF ContainerExits
  <2>2. \A d \in Box : Pinned(d)' => Pinned(d)
    BY <2>1 DEF Pinned
  <2> QED
    BY <1>00, <2>1, <2>2
<1>9. ASSUME NEW c \in Box, SaveNoted(c)
      PROVE  BootInv'
  <2>1. UNCHANGED <<docker, mutex, op>> /\ noted[c] \in Status /\ noted[c] # "paused"
    BY <1>0, <1>9 DEF SaveNoted, RunInv
  <2>2. CASE UNCHANGED <<box, selected, bootOf>>
    BY <1>00, <2>1, <2>2 DEF Pinned
  <2>3. CASE SaveStatus(c, noted[c])
    BY <2>1, <2>3, SaveKeepsBoots
  <2> QED
    BY <1>9, <2>2, <2>3 DEF SaveNoted
<1>10. ASSUME NEW c \in Box, FoundDown(c)
       PROVE  BootInv'
  <2>1. Observed(c) = "paused" => Pinned(c)
    BY <1>0 DEF Observed, Exists, DockerStatus, Pinned
  <2> QED
    BY <1>10, <2>1, ObservedIsStatus, SaveKeepsBoots DEF FoundDown
<1>11. ASSUME NEW c \in Box, Settlement(c)
       PROVE  BootInv'
  <2>1. \A d \in Box : box'[d].status = box[d].status /\ box'[d].gen = box[d].gen
    BY <1>0, <1>11 DEF Settlement, Rows
  <2> QED
    BY <1>00, <1>11, <2>1 DEF Settlement, Pinned
<1>12. ASSUME NEW n \in Node, Abandonment(n)
       PROVE  BootInv'
  <2>1. /\ \A d \in Box : mutex'[d] = IF mutex[d] = n THEN Nothing ELSE mutex[d]
        /\ \A b \in Actor : b # n => op'[b] = op[b]
        /\ UNCHANGED <<box, docker, bootOf>>
    BY <1>0, <1>12 DEF Abandonment
  <2>2. \A d \in Box : Pinned(d)' => Pinned(d)
    BY <1>0, <2>1 DEF Pinned
  <2> QED
    BY <1>00, <2>1, <2>2
<1>13. CASE \/ LoadSnapshots
            \/ \E s \in Session : AdmitRun(s)
            \/ \E s \in Session, c \in Box : SelectBox(s, c) \/ Selection(s, c)
            \/ \E r \in agentRun : EndRun(r) \/ \E inspectable \in BOOLEAN : ObserveDown(r, inspectable)
            \/ UNCHANGED boxVars
  <2>1. UNCHANGED <<box, docker, mutex, op, bootOf>>
    BY <1>13 DEF LoadSnapshots, AdmitRun, SelectBox, Selection, EndRun, ObserveDown, boxVars
  <2> QED
    BY <1>00, <2>1 DEF Pinned
<1> QED
  BY <1>1, <1>2, <1>3, <1>5, <1>6, <1>7, <1>8, <1>9, <1>10, <1>11, <1>12, <1>13 DEF BoxStep

-----------------------------------------------------------------------------
(* Executors.  Every way in which the code moves one on, field by field.   *)

Ex(at, r, c, gen, k, ok, failed) ==
    [at |-> at, rev |-> r, box |-> c, gen |-> gen, step |-> k, ok |-> ok, failed |-> failed]

Becomes(n, x) ==
    /\ exec' \in [Node -> Executor] /\ exec'[n] = x
    /\ \A m \in Node : m # n => exec'[m] = exec[m]

LEMMA ExecutorRecord ==
    ASSUME NEW x \in Executor
    PROVE  x = Ex(x.at, x.rev, x.box, x.gen, x.step, x.ok, x.failed)
BY DEF Executor, Ex

LEMMA NoExecutorRecord ==
    /\ NoExecutor \in Executor
    /\ NoExecutor = Ex("idle", Nothing, Nothing, 0, 1, TRUE, FALSE)
<1>1. 1 \in 1..(Steps + 1)
  BY StepsAssumption
<1> QED
  BY <1>1 DEF NoExecutor, Executor, Stage, Ex

LEMMA Becoming ==
    ASSUME exec \in [Node -> Executor], NEW n \in Node, NEW x \in Executor,
           exec' = [exec EXCEPT ![n] = x]
    PROVE  Becomes(n, Ex(x.at, x.rev, x.box, x.gen, x.step, x.ok, x.failed))
<1>1. Becomes(n, x)
  BY DEF Becomes
<1> QED
  BY <1>1, ExecutorRecord

LEMMA AtBecomes ==
    ASSUME exec \in [Node -> Executor], NEW n \in Node, NEW s \in Stage, At(n, s)
    PROVE  LET x == exec[n] IN Becomes(n, Ex(s, x.rev, x.box, x.gen, x.step, x.ok, x.failed))
<1> DEFINE x == exec[n]  y == [x EXCEPT !.at = s]
<1>0. x \in Executor
  OBVIOUS
<1>1. y \in Executor /\ exec' = [exec EXCEPT ![n] = y]
  BY <1>0 DEF At, Executor
<1>2. y.at = s /\ y.rev = x.rev /\ y.box = x.box /\ y.gen = x.gen /\ y.step = x.step
      /\ y.ok = x.ok /\ y.failed = x.failed
  BY <1>0 DEF Executor
<1> HIDE DEF y
<1> QED
  BY <1>1, <1>2, Becoming

LEMMA DoneBecomes ==
    ASSUME exec \in [Node -> Executor], NEW n \in Node, Done(n)
    PROVE  Becomes(n, Ex("idle", Nothing, Nothing, 0, 1, TRUE, FALSE))
BY NoExecutorRecord DEF Done, Becomes

LEMMA GivenBecomes ==
    ASSUME exec \in [Node -> Executor], NEW n \in Node, NEW r \in Rev, NEW c \in Box \cup {Nothing},
           NEW s \in Stage, Given(n, r, c, s), Generation(c) \in Nat
    PROVE  Becomes(n, Ex(s, r, c, Generation(c), 1, TRUE, FALSE))
<1> DEFINE x == NoExecutor
           y == [x EXCEPT !.at = s, !.rev = r, !.box = c, !.gen = Generation(c)]
<1>0. /\ x \in Executor /\ x.step = 1 /\ x.ok = TRUE /\ x.failed = FALSE
      /\ exec' = [exec EXCEPT ![n] = y]
  BY NoExecutorRecord DEF Given, Ex
<1> HIDE DEF x
<1>1. y \in Executor
  BY <1>0 DEF Executor
<1>2. y.at = s /\ y.rev = r /\ y.box = c /\ y.gen = Generation(c) /\ y.step = x.step
      /\ y.ok = x.ok /\ y.failed = x.failed
  BY <1>0 DEF Executor
<1>3. exec' = [exec EXCEPT ![n] = y]
  BY <1>0
<1> HIDE DEF y
<1> QED
  BY <1>0, <1>1, <1>2, <1>3, Becoming

LEMMA CrashBecomes ==
    ASSUME exec \in [Node -> Executor], NEW n \in Node,
           exec' = [exec EXCEPT ![n] = [NoExecutor EXCEPT !.at = "dead"]]
    PROVE  Becomes(n, Ex("dead", Nothing, Nothing, 0, 1, TRUE, FALSE))
<1> DEFINE x == NoExecutor  y == [x EXCEPT !.at = "dead"]
<1>0. /\ x \in Executor /\ x.rev = Nothing /\ x.box = Nothing /\ x.gen = 0 /\ x.step = 1
      /\ x.ok = TRUE /\ x.failed = FALSE /\ exec' = [exec EXCEPT ![n] = y]
  BY NoExecutorRecord DEF Ex
<1> HIDE DEF x
<1>1. y \in Executor
  BY <1>0 DEF Executor, Stage
<1>2. y.at = "dead" /\ y.rev = x.rev /\ y.box = x.box /\ y.gen = x.gen /\ y.step = x.step
      /\ y.ok = x.ok /\ y.failed = x.failed
  BY <1>0 DEF Executor
<1>3. exec' = [exec EXCEPT ![n] = y]
  BY <1>0
<1> HIDE DEF y
<1> QED
  BY <1>0, <1>1, <1>2, <1>3, Becoming

\* The remaining moves set a stage and some fields of the executor as it was.
LEMMA MovesBecome ==
    ASSUME exec \in [Node -> Executor], NEW n \in Node, NEW s \in Stage
    PROVE  LET x == exec[n] IN
      /\ \A c \in Box \cup {Nothing} : exec' = [exec EXCEPT ![n].at = s, ![n].box = c] =>
            Becomes(n, Ex(s, x.rev, c, x.gen, x.step, x.ok, x.failed))
      /\ \A g \in Nat : exec' = [exec EXCEPT ![n].at = s, ![n].gen = g] =>
            Becomes(n, Ex(s, x.rev, x.box, g, x.step, x.ok, x.failed))
      /\ \A b \in BOOLEAN : exec' = [exec EXCEPT ![n].at = s, ![n].ok = b] =>
            Becomes(n, Ex(s, x.rev, x.box, x.gen, x.step, b, x.failed))
      /\ \A b \in BOOLEAN : exec' = [exec EXCEPT ![n].at = s, ![n].failed = b] =>
            Becomes(n, Ex(s, x.rev, x.box, x.gen, x.step, x.ok, b))
      /\ \A b, f \in BOOLEAN : exec' = [exec EXCEPT ![n].at = s, ![n].ok = b, ![n].failed = f] =>
            Becomes(n, Ex(s, x.rev, x.box, x.gen, x.step, b, f))
      /\ \A k \in 1..(Steps + 1) : exec' = [exec EXCEPT ![n].at = s, ![n].step = k] =>
            Becomes(n, Ex(s, x.rev, x.box, x.gen, k, x.ok, x.failed))
      /\ \A k \in 1..(Steps + 1) :
            exec' = [exec EXCEPT ![n].at = s, ![n].step = k, ![n].ok = TRUE, ![n].failed = FALSE] =>
               Becomes(n, Ex(s, x.rev, x.box, x.gen, k, TRUE, FALSE))
<1> DEFINE x == exec[n]
<1>0. x \in Executor
  OBVIOUS
<1>00. ASSUME NEW y \in Executor, exec' = [exec EXCEPT ![n] = y],
              NEW r, NEW c, NEW g, NEW k, NEW b, NEW f,
              y.at = s /\ y.rev = r /\ y.box = c /\ y.gen = g /\ y.step = k /\ y.ok = b /\ y.failed = f
       PROVE  Becomes(n, Ex(s, r, c, g, k, b, f))
  BY <1>00, Becoming
<1>1. ASSUME NEW c \in Box \cup {Nothing}, exec' = [exec EXCEPT ![n].at = s, ![n].box = c]
      PROVE  Becomes(n, Ex(s, x.rev, c, x.gen, x.step, x.ok, x.failed))
  <2> DEFINE y == [x EXCEPT !.at = s, !.box = c]
  <2>1. y \in Executor /\ exec' = [exec EXCEPT ![n] = y]
    BY <1>0, <1>1 DEF Executor
  <2>2. y.at = s /\ y.rev = x.rev /\ y.box = c /\ y.gen = x.gen /\ y.step = x.step
        /\ y.ok = x.ok /\ y.failed = x.failed
    BY <1>0 DEF Executor
  <2> HIDE DEF y
  <2> QED
    BY <2>1, <2>2, <1>00
<1>2. ASSUME NEW g \in Nat, exec' = [exec EXCEPT ![n].at = s, ![n].gen = g]
      PROVE  Becomes(n, Ex(s, x.rev, x.box, g, x.step, x.ok, x.failed))
  <2> DEFINE y == [x EXCEPT !.at = s, !.gen = g]
  <2>1. y \in Executor /\ exec' = [exec EXCEPT ![n] = y]
    BY <1>0, <1>2 DEF Executor
  <2>2. y.at = s /\ y.rev = x.rev /\ y.box = x.box /\ y.gen = g /\ y.step = x.step
        /\ y.ok = x.ok /\ y.failed = x.failed
    BY <1>0, <1>2 DEF Executor
  <2> HIDE DEF y
  <2> QED
    BY <2>1, <2>2, <1>00
<1>3. ASSUME NEW b \in BOOLEAN, exec' = [exec EXCEPT ![n].at = s, ![n].ok = b]
      PROVE  Becomes(n, Ex(s, x.rev, x.box, x.gen, x.step, b, x.failed))
  <2> DEFINE y == [x EXCEPT !.at = s, !.ok = b]
  <2>1. y \in Executor /\ exec' = [exec EXCEPT ![n] = y]
    BY <1>0, <1>3 DEF Executor
  <2>2. y.at = s /\ y.rev = x.rev /\ y.box = x.box /\ y.gen = x.gen /\ y.step = x.step
        /\ y.ok = b /\ y.failed = x.failed
    BY <1>0, <1>3 DEF Executor
  <2> HIDE DEF y
  <2> QED
    BY <2>1, <2>2, <1>00
<1>4. ASSUME NEW b \in BOOLEAN, exec' = [exec EXCEPT ![n].at = s, ![n].failed = b]
      PROVE  Becomes(n, Ex(s, x.rev, x.box, x.gen, x.step, x.ok, b))
  <2> DEFINE y == [x EXCEPT !.at = s, !.failed = b]
  <2>1. y \in Executor /\ exec' = [exec EXCEPT ![n] = y]
    BY <1>0, <1>4 DEF Executor
  <2>2. y.at = s /\ y.rev = x.rev /\ y.box = x.box /\ y.gen = x.gen /\ y.step = x.step
        /\ y.ok = x.ok /\ y.failed = b
    BY <1>0, <1>4 DEF Executor
  <2> HIDE DEF y
  <2> QED
    BY <2>1, <2>2, <1>00
<1>5. ASSUME NEW b \in BOOLEAN, NEW f \in BOOLEAN, exec' = [exec EXCEPT ![n].at = s, ![n].ok = b, ![n].failed = f]
      PROVE  Becomes(n, Ex(s, x.rev, x.box, x.gen, x.step, b, f))
  <2> DEFINE y == [x EXCEPT !.at = s, !.ok = b, !.failed = f]
  <2>1. y \in Executor /\ exec' = [exec EXCEPT ![n] = y]
    BY <1>0, <1>5 DEF Executor
  <2>2. y.at = s /\ y.rev = x.rev /\ y.box = x.box /\ y.gen = x.gen /\ y.step = x.step
        /\ y.ok = b /\ y.failed = f
    BY <1>0, <1>5 DEF Executor
  <2> HIDE DEF y
  <2> QED
    BY <2>1, <2>2, <1>00
<1>6. ASSUME NEW k \in 1..(Steps + 1), exec' = [exec EXCEPT ![n].at = s, ![n].step = k]
      PROVE  Becomes(n, Ex(s, x.rev, x.box, x.gen, k, x.ok, x.failed))
  <2> DEFINE y == [x EXCEPT !.at = s, !.step = k]
  <2>1. y \in Executor /\ exec' = [exec EXCEPT ![n] = y]
    BY <1>0, <1>6 DEF Executor
  <2>2. y.at = s /\ y.rev = x.rev /\ y.box = x.box /\ y.gen = x.gen /\ y.step = k
        /\ y.ok = x.ok /\ y.failed = x.failed
    BY <1>0, <1>6 DEF Executor
  <2> HIDE DEF y
  <2> QED
    BY <2>1, <2>2, <1>00
<1>7. ASSUME NEW k \in 1..(Steps + 1), exec' = [exec EXCEPT ![n].at = s, ![n].step = k, ![n].ok = TRUE, ![n].failed = FALSE]
      PROVE  Becomes(n, Ex(s, x.rev, x.box, x.gen, k, TRUE, FALSE))
  <2> DEFINE y == [x EXCEPT !.at = s, !.step = k, !.ok = TRUE, !.failed = FALSE]
  <2>1. y \in Executor /\ exec' = [exec EXCEPT ![n] = y]
    BY <1>0, <1>7 DEF Executor
  <2>2. y.at = s /\ y.rev = x.rev /\ y.box = x.box /\ y.gen = x.gen /\ y.step = k
        /\ y.ok = TRUE /\ y.failed = FALSE
    BY <1>0, <1>7 DEF Executor
  <2> HIDE DEF y
  <2> QED
    BY <2>1, <2>2, <1>00
<1> QED
  BY <1>1, <1>2, <1>3, <1>4, <1>5, <1>6, <1>7

-----------------------------------------------------------------------------
(* Rows of environments and revisions, field by field.                     *)

Row(status, applied, active, c, platform) ==
    [status |-> status, applied |-> applied, active |-> active, box |-> c, platform |-> platform]

EnvRows == Lifecycle \cup {NoEnvironment}
RevRows == [env : Env \cup {Nothing}, kind : {"initial", "adaptive"},
            status : RevisionStatus, box : Box \cup {Nothing}]

EnvBecomes(e, l) ==
    env' \in [Env -> EnvRows] /\ env'[e] = l /\ \A d \in Env : d # e => env'[d] = env[d]

RevBecomes(r, s, c) ==
    /\ rev' \in [Rev -> RevRows]
    /\ rev'[r].status = s /\ rev'[r].box = c /\ rev'[r].env = rev[r].env /\ rev'[r].kind = rev[r].kind
    /\ \A q \in Rev : q # r => rev'[q] = rev[q]

StepBecomes(r, k, s) ==
    /\ step' \in [Rev -> [1..Steps -> StepStatus]]
    /\ step'[r][k] = s
    /\ \A q \in Rev : \A j \in 1..Steps : q # r \/ j # k => step'[q][j] = step[q][j]

LEMMA LifecycleRecords ==
    ASSUME NEW l \in EnvRows, NEW r \in Rev
    PROVE  LET moving == IF l.applied = Nothing THEN "building" ELSE "adapting" IN
           /\ l = Row(l.status, l.applied, l.active, l.box, l.platform)
           /\ Planned(l, r) = Row(moving, l.applied, r, l.box, l.platform)
           /\ Resumed(l) = Row(moving, l.applied, l.active, l.box, l.platform)
           /\ Baseline(l) = Row(IF l.applied = Nothing THEN "draft" ELSE "active",
                                l.applied, Nothing, l.box, l.platform)
           /\ Stuck(l) = Row("recovery_required", l.applied, l.active, l.box, l.platform)
           /\ Applied(l, r) = Row("active", r, Nothing, l.box, l.platform)
           /\ \A s \in EnvironmentStatus :
                 [l EXCEPT !.status = s] = Row(s, l.applied, l.active, l.box, l.platform)
           /\ \A c \in Box \cup {Nothing} :
                 /\ [l EXCEPT !.box = c] = Row(l.status, l.applied, l.active, c, l.platform)
                 /\ Stuck([l EXCEPT !.box = c]) = Row("recovery_required", l.applied, l.active, c, l.platform)
<1> DEFINE Wide == [status : EnvironmentStatus \cup {"absent"}, applied : Rev \cup {Nothing},
                    active : Rev \cup {Nothing}, box : Box \cup {Nothing}, platform : BOOLEAN]
<1>0. l \in Wide
  <2>1. NoEnvironment \in Wide
    BY DEF NoEnvironment
  <2>2. ASSUME NEW x \in Lifecycle
        PROVE  x \in Wide
    BY <2>2 DEF Lifecycle
  <2> QED
    BY <2>1, <2>2 DEF EnvRows
<1>1. ASSUME NEW x \in Wide
      PROVE  x = Row(x.status, x.applied, x.active, x.box, x.platform)
  BY <1>1 DEF Row
<1>2. ASSUME NEW x \in Wide, NEW s \in EnvironmentStatus
      PROVE  /\ [x EXCEPT !.status = s] \in Wide
             /\ [x EXCEPT !.status = s] = Row(s, x.applied, x.active, x.box, x.platform)
  <2> DEFINE y == [x EXCEPT !.status = s]
  <2>1. y \in Wide
    BY <1>2
  <2>2. y.status = s /\ y.applied = x.applied /\ y.active = x.active /\ y.box = x.box
        /\ y.platform = x.platform
    BY <1>2
  <2> HIDE DEF y
  <2>3. y = Row(s, x.applied, x.active, x.box, x.platform)
    BY <1>1, <2>1, <2>2
  <2> QED
    BY <2>1, <2>3 DEF y
<1>3. ASSUME NEW x \in Wide, NEW s \in EnvironmentStatus, NEW a \in Rev \cup {Nothing}
      PROVE  [x EXCEPT !.status = s, !.active = a] = Row(s, x.applied, a, x.box, x.platform)
  <2> DEFINE y == [x EXCEPT !.status = s, !.active = a]
  <2>1. y \in Wide
    BY <1>3
  <2>2. y.status = s /\ y.applied = x.applied /\ y.active = a /\ y.box = x.box
        /\ y.platform = x.platform
    BY <1>3
  <2> HIDE DEF y
  <2>3. y = Row(s, x.applied, a, x.box, x.platform)
    BY <1>1, <2>1, <2>2
  <2> QED
    BY <2>3 DEF y
<1>4. Applied(l, r) = Row("active", r, Nothing, l.box, l.platform)
  <2> DEFINE y == [l EXCEPT !.status = "active", !.applied = r, !.active = Nothing]
  <2>1. y \in Wide
    BY <1>0 DEF EnvironmentStatus, Stable
  <2>2. y.status = "active" /\ y.applied = r /\ y.active = Nothing /\ y.box = l.box
        /\ y.platform = l.platform
    BY <1>0
  <2> HIDE DEF y
  <2>3. y = Row("active", r, Nothing, l.box, l.platform)
    BY <1>1, <2>1, <2>2
  <2> QED
    BY <2>3 DEF y, Applied
<1>5. ASSUME NEW c \in Box \cup {Nothing}
      PROVE  /\ [l EXCEPT !.box = c] \in Wide
             /\ [l EXCEPT !.box = c] = Row(l.status, l.applied, l.active, c, l.platform)
  <2> DEFINE y == [l EXCEPT !.box = c]
  <2>1. y \in Wide
    BY <1>0, <1>5
  <2>2. y.status = l.status /\ y.applied = l.applied /\ y.active = l.active /\ y.box = c
        /\ y.platform = l.platform
    BY <1>0, <1>5
  <2> HIDE DEF y
  <2>3. y = Row(l.status, l.applied, l.active, c, l.platform)
    BY <1>1, <2>1, <2>2
  <2> QED
    BY <2>1, <2>3 DEF y
<1>6. ASSUME NEW c \in Box \cup {Nothing}
      PROVE  Stuck([l EXCEPT !.box = c]) = Row("recovery_required", l.applied, l.active, c, l.platform)
  <2> DEFINE y == [l EXCEPT !.box = c]
  <2>1. y \in Wide /\ y = Row(l.status, l.applied, l.active, c, l.platform)
    BY <1>5
  <2>2. y.applied = l.applied /\ y.active = l.active /\ y.box = c /\ y.platform = l.platform
    BY <2>1 DEF Row
  <2> HIDE DEF y
  <2>3. Stuck(y) = Row("recovery_required", l.applied, l.active, c, l.platform)
    BY <1>2, <2>1, <2>2 DEF Stuck, EnvironmentStatus, Transitioning
  <2> QED
    BY <2>3 DEF y
<1>7. {"building", "adapting", "draft", "active", "recovery_required"} \subseteq EnvironmentStatus
  BY DEF EnvironmentStatus, Stable, Transitioning
<1>8. /\ Planned(l, r) = Row(IF l.applied = Nothing THEN "building" ELSE "adapting", l.applied, r, l.box, l.platform)
      /\ Baseline(l) = Row(IF l.applied = Nothing THEN "draft" ELSE "active",
                           l.applied, Nothing, l.box, l.platform)
  BY <1>0, <1>3, <1>7 DEF Planned, Baseline
<1>9. /\ Resumed(l) = Row(IF l.applied = Nothing THEN "building" ELSE "adapting", l.applied, l.active, l.box, l.platform)
      /\ Stuck(l) = Row("recovery_required", l.applied, l.active, l.box, l.platform)
  BY <1>0, <1>2, <1>7 DEF Resumed, Stuck
<1> QED
  BY <1>0, <1>1, <1>2, <1>4, <1>5, <1>6, <1>8, <1>9

\* A row with a status of its own is a row, whatever its other fields.
LEMMA RowIsLifecycle ==
    ASSUME NEW s \in EnvironmentStatus, NEW applied \in Rev \cup {Nothing},
           NEW active \in Rev \cup {Nothing}, NEW c \in Box \cup {Nothing}, NEW platform \in BOOLEAN
    PROVE  Row(s, applied, active, c, platform) \in Lifecycle
BY DEF Row, Lifecycle

LEMMA RevisionBecomes ==
    ASSUME rev \in [Rev -> RevRows], NEW r \in Rev, NEW s \in RevisionStatus
    PROVE  /\ rev' = [rev EXCEPT ![r].status = s] => RevBecomes(r, s, rev[r].box)
           /\ \A c \in Box \cup {Nothing} :
                 rev' = [rev EXCEPT ![r].status = s, ![r].box = c] => RevBecomes(r, s, c)
           /\ \A c \in Box \cup {Nothing} :
                 rev' = [rev EXCEPT ![r].box = c] => RevBecomes(r, rev[r].status, c)
<1>1. ASSUME rev' = [rev EXCEPT ![r].status = s]
      PROVE  RevBecomes(r, s, rev[r].box)
  BY <1>1 DEF RevBecomes, RevRows
<1>2. ASSUME NEW c \in Box \cup {Nothing}, rev' = [rev EXCEPT ![r].status = s, ![r].box = c]
      PROVE  RevBecomes(r, s, c)
  <2> DEFINE x == rev[r]  y == [x EXCEPT !.status = s, !.box = c]
  <2>0. x \in RevRows
    OBVIOUS
  <2>1. y \in RevRows /\ rev' = [rev EXCEPT ![r] = y]
    BY <1>2, <2>0 DEF RevRows
  <2>2. y.status = s /\ y.box = c /\ y.env = x.env /\ y.kind = x.kind
    BY <2>0 DEF RevRows
  <2> HIDE DEF y
  <2> QED
    BY <2>1, <2>2 DEF RevBecomes
<1>3. ASSUME NEW c \in Box \cup {Nothing}, rev' = [rev EXCEPT ![r].box = c]
      PROVE  RevBecomes(r, rev[r].status, c)
  BY <1>3 DEF RevBecomes, RevRows
<1> QED
  BY <1>1, <1>2, <1>3

LEMMA StepOf ==
    ASSUME step \in [Rev -> [1..Steps -> StepStatus]], NEW n \in Node, exec[n].rev \in Rev,
           NEW k \in 1..Steps, NEW s \in StepStatus, SetStep(n, k, s)
    PROVE  StepBecomes(exec[n].rev, k, s)
<1> DEFINE r == exec[n].rev
<1>1. [step[r] EXCEPT ![k] = s] \in [1..Steps -> StepStatus]
  OBVIOUS
<1>2. step' = [step EXCEPT ![r] = [step[r] EXCEPT ![k] = s]]
  BY DEF SetStep
<1> QED
  BY <1>1, <1>2 DEF StepBecomes

-----------------------------------------------------------------------------
(* Type correctness of the environments, revisions and executors.          *)

LEMMA TypesOf ==
    ASSUME TypeInv
    PROVE  /\ env \in [Env -> EnvRows] /\ rev \in [Rev -> RevRows]
           /\ step \in [Rev -> [1..Steps -> StepStatus]]
           /\ effect \in [Box -> SUBSET (Rev \X (1..Steps))]
           /\ exec \in [Node -> Executor]
           /\ todo \in [Node -> SUBSET (Rev \X {"executing", "rolling_back"})]
           /\ crashes \in [Node -> 0..MaxCrashes]
           /\ BoxTypeInv /\ WellFormed
BY DEF TypeInv, TypeOK, EnvRows, RevRows

LEMMA TypesFramed ==
    ASSUME BoxTypeInv', WellFormed',
           env' \in [Env -> EnvRows], rev' \in [Rev -> RevRows],
           step' \in [Rev -> [1..Steps -> StepStatus]],
           effect' \in [Box -> SUBSET (Rev \X (1..Steps))],
           exec' \in [Node -> Executor],
           todo' \in [Node -> SUBSET (Rev \X {"executing", "rolling_back"})],
           crashes' \in [Node -> 0..MaxCrashes]
    PROVE  TypeInv'
<1>1. \A c \in Box : box'[c].rev \in Rev \cup {Nothing}
  BY DEF BoxTypeInv, Rows
<1> QED
  BY <1>1 DEF TypeInv, TypeOK, BoxTypeInv, EnvRows, RevRows

\* Revisions are neither lost nor given to another environment.
RevisionsKept ==
    \A r \in Rev : \/ rev'[r] = rev[r]
                   \/ rev[r].status # "absent" /\ rev'[r].status # "absent" /\ rev'[r].env = rev[r].env

\* One executor moves and the others do not.
LEMMA ExecutorTypes ==
    ASSUME TypeInv, BoxTypeInv', NEW n \in Node, NEW x, Becomes(n, x),
           x.at \in {"idle", "dead"} <=> x.rev = Nothing,
           x.rev # Nothing => rev[x.rev].status # "absent",
           x.at \in AtStep => x.step <= Steps,
           x.at \in {"created", "bound", "started"} => x.box \in Box,
           env' \in [Env -> EnvRows], rev' \in [Rev -> RevRows], RevisionsKept,
           step' \in [Rev -> [1..Steps -> StepStatus]],
           effect' \in [Box -> SUBSET (Rev \X (1..Steps))],
           todo' \in [Node -> SUBSET (Rev \X {"executing", "rolling_back"})],
           \A m \in Node : todo'[m] \subseteq todo[m] \/ todo'[m] \subseteq Listing,
           crashes' \in [Node -> 0..MaxCrashes],
           \A m \in Node : m # n => op'[m] = op[m],
           op'[n].stage # "out" =>
              /\ op'[n].kind \in NodeMutation /\ op'[n].box = x.box
              /\ IF op'[n].kind = "start" THEN x.at = "bound" ELSE x.at \in {"failing", "releasing"}
    PROVE  TypeInv'
<1>0. exec' \in [Node -> Executor] /\ exec'[n] = x /\ \A m \in Node : m # n => exec'[m] = exec[m]
  BY DEF Becomes
<1>1. \A r \in Rev : rev[r].status # "absent" => rev'[r].status # "absent"
  BY DEF RevisionsKept
<1>2. \A r \in Rev : rev'[r].status # "absent" => rev'[r].env \in Env
  BY TypesOf DEF RevisionsKept, WellFormed
<1>3. ASSUME NEW m \in Node, NEW t \in todo'[m]
      PROVE  rev'[t[1]].status # "absent"
  <2>0. t \in Rev \X {"executing", "rolling_back"}
    OBVIOUS
  <2>1. t[1] \in Rev /\ (t \in todo[m] \/ t \in Listing)
    BY <2>0
  <2>2. rev[t[1]].status # "absent"
    BY <2>1, TypesOf DEF WellFormed, Listing
  <2> QED
    BY <1>1, <2>1, <2>2
<1>4. ASSUME NEW m \in Node
      PROVE  /\ exec'[m].at \in {"idle", "dead"} <=> exec'[m].rev = Nothing
             /\ exec'[m].rev # Nothing => rev'[exec'[m].rev].status # "absent"
             /\ exec'[m].at \in AtStep => exec'[m].step <= Steps
             /\ exec'[m].at \in {"created", "bound", "started"} => exec'[m].box \in Box
             /\ op'[m].stage # "out" =>
                   /\ op'[m].kind \in NodeMutation /\ op'[m].box = exec'[m].box
                   /\ IF op'[m].kind = "start" THEN exec'[m].at = "bound"
                      ELSE exec'[m].at \in {"failing", "releasing"}
  <2>1. exec'[m].rev \in Rev \cup {Nothing}
    BY <1>0 DEF Executor
  <2>2. CASE m = n
    BY <1>0, <1>1, <2>1, <2>2
  <2>3. CASE m # n
    <3>1. exec'[m] = exec[m] /\ op'[m] = op[m] /\ WellFormed
      BY <1>0, <2>3, TypesOf
    <3>2. exec[m].rev # Nothing => rev'[exec[m].rev].status # "absent"
      BY <1>1, <2>1, <3>1 DEF WellFormed
    <3> QED
      BY <3>1, <3>2 DEF WellFormed
  <2> QED
    BY <2>2, <2>3
<1>5. WellFormed'
  BY <1>2, <1>3, <1>4 DEF WellFormed
<1> QED
  BY <1>0, <1>5, TypesFramed

\* No executor moves; a node's mutation at most gets its answer from Docker.
LEMMA OthersTypes ==
    ASSUME TypeInv, BoxTypeInv', env' \in [Env -> EnvRows], rev' \in [Rev -> RevRows], UNCHANGED step,
           \A r \in Rev : rev'[r] = rev[r] \/ (rev'[r].status # "absent" /\ rev'[r].env \in Env),
           effect' \in [Box -> SUBSET (Rev \X (1..Steps))], UNCHANGED <<exec, todo, crashes>>,
           \A m \in Node : /\ op'[m].stage # "out" => op[m].stage # "out"
                           /\ op'[m].kind = op[m].kind /\ op'[m].box = op[m].box
    PROVE  TypeInv'
<1>1. \A r \in Rev : rev[r].status # "absent" => rev'[r].status # "absent"
  OBVIOUS
<1>2. \A r \in Rev : rev'[r].status # "absent" => rev'[r].env \in Env
  BY TypesOf DEF WellFormed
<1>3. \A m \in Node : /\ exec[m].rev \in Rev \cup {Nothing} /\ todo[m] \subseteq Rev \X {"executing", "rolling_back"}
                      /\ exec[m].rev # Nothing => rev[exec[m].rev].status # "absent"
                      /\ \A t \in todo[m] : rev[t[1]].status # "absent"
  BY TypesOf DEF WellFormed, Executor
<1>4. \A m \in Node : exec[m].rev # Nothing => rev'[exec[m].rev].status # "absent"
  BY <1>1, <1>3
<1>5. \A m \in Node : \A t \in todo[m] : rev'[t[1]].status # "absent"
  <2> SUFFICES ASSUME NEW m \in Node, NEW t \in todo[m]
               PROVE  rev'[t[1]].status # "absent"
    OBVIOUS
  <2>1. t[1] \in Rev
    BY <1>3
  <2> QED
    BY <1>1, <1>3, <2>1
<1>6. WellFormed'
  BY <1>2, <1>4, <1>5, TypesOf DEF WellFormed
<1> QED
  BY <1>6, TypesOf, TypesFramed

\* What is known of an executor that has a revision in hand.
LEMMA AtWork ==
    ASSUME TypeInv, NEW n \in Node, exec[n].at \notin {"idle", "dead"}
    PROVE  /\ exec[n] \in Executor /\ exec[n].rev \in Rev /\ exec[n].rev # Nothing
           /\ rev[exec[n].rev].status # "absent"
           /\ EnvOf(n) \in Env /\ EnvOf(n) = rev[exec[n].rev].env
           /\ exec[n].box \in Box \cup {Nothing} /\ exec[n].gen \in Nat
           /\ exec[n].step \in 1..(Steps + 1) /\ exec[n].ok \in BOOLEAN /\ exec[n].failed \in BOOLEAN
           /\ exec[n].at \in AtStep => exec[n].step \in 1..Steps
           /\ exec[n].at \in {"created", "bound", "started"} => exec[n].box \in Box
           /\ exec[n].at \notin {"bound", "failing", "releasing"} => op[n].stage = "out"
           /\ env[EnvOf(n)] \in EnvRows
           /\ n \in Actor /\ Nothing \notin Rev /\ Nothing \notin Box
<1>1. exec[n] \in Executor
  BY TypesOf
<1>2. /\ exec[n].rev \in Rev \cup {Nothing} /\ exec[n].box \in Box \cup {Nothing} /\ exec[n].gen \in Nat
      /\ exec[n].step \in 1..(Steps + 1) /\ exec[n].ok \in BOOLEAN /\ exec[n].failed \in BOOLEAN
  BY <1>1 DEF Executor
<1>3. exec[n].rev # Nothing /\ rev[exec[n].rev].status # "absent"
  BY <1>2, TypesOf DEF WellFormed
<1>4. EnvOf(n) \in Env /\ EnvOf(n) = rev[exec[n].rev].env
  BY <1>2, <1>3, TypesOf DEF WellFormed, EnvOf
<1>5. exec[n].at \in AtStep => exec[n].step \in 1..Steps
  BY <1>2, TypesOf, StepsAssumption DEF WellFormed
<1>6. /\ exec[n].at \in {"created", "bound", "started"} => exec[n].box \in Box
      /\ exec[n].at \notin {"bound", "failing", "releasing"} => op[n].stage = "out"
  <2>1. n \in Actor
    BY NodeAssumption
  <2>2. op[n].stage # "out" => exec[n].at \in {"bound", "failing", "releasing"}
    BY <2>1, TypesOf DEF WellFormed
  <2> QED
    BY <2>2, TypesOf DEF WellFormed
<1> QED
  BY <1>1, <1>2, <1>3, <1>4, <1>5, <1>6, TypesOf, NodeAssumption, RevAssumption, BoxAssumption

\* A step of n that sets its stage, and a status of its current step.
LEMMA AtTypes ==
    ASSUME TypeInv, BoxTypeInv', NEW n \in Node, exec[n].at \notin {"idle", "dead"},
           NEW s \in Stage \ {"idle", "dead"}, At(n, s),
           s \in AtStep => exec[n].step <= Steps,
           s \in {"created", "bound", "started"} => exec[n].box \in Box,
           env' \in [Env -> EnvRows], rev' \in [Rev -> RevRows], RevisionsKept,
           step' \in [Rev -> [1..Steps -> StepStatus]],
           effect' \in [Box -> SUBSET (Rev \X (1..Steps))],
           UNCHANGED <<todo, crashes>>, \A m \in Node : m # n => op'[m] = op[m],
           op'[n].stage = "out"
    PROVE  TypeInv'
<1> DEFINE x == exec[n]
           y == Ex(s, x.rev, x.box, x.gen, x.step, x.ok, x.failed)
<1>1. Becomes(n, y)
  BY AtBecomes, TypesOf
<1>2. y.at = s /\ y.rev = x.rev /\ y.box = x.box /\ y.step = x.step
  BY DEF Ex
<1> HIDE DEF y
<1> QED
  BY <1>1, <1>2, ExecutorTypes, AtWork, TypesOf

LEMMA SetStepTypes ==
    ASSUME TypeInv, NEW n \in Node, exec[n].at \notin {"idle", "dead"},
           NEW k \in 1..Steps, NEW s \in StepStatus, SetStep(n, k, s)
    PROVE  step' \in [Rev -> [1..Steps -> StepStatus]]
BY StepOf, AtWork, TypesOf DEF StepBecomes

LEMMA EnvRowFields ==
    ASSUME NEW l \in EnvRows
    PROVE  /\ l.applied \in Rev \cup {Nothing} /\ l.active \in Rev \cup {Nothing}
           /\ l.box \in Box \cup {Nothing} /\ l.platform \in BOOLEAN
           /\ l.status \in EnvironmentStatus \/ l = NoEnvironment
           /\ l.status \in EnvironmentStatus \cup {"absent"}
           /\ l.active # Nothing => l.status \in EnvironmentStatus
           /\ l.status = "absent" => l = NoEnvironment
<1>1. CASE l \in Lifecycle
  BY <1>1 DEF Lifecycle, EnvironmentStatus, Stable, Transitioning
<1>2. CASE l = NoEnvironment
  BY <1>2 DEF NoEnvironment
<1> QED
  BY <1>1, <1>2 DEF EnvRows

\* The rows that a transaction of an executor writes.
LEMMA RowsWritten ==
    ASSUME TypeInv, NEW r \in Rev, rev[r].status # "absent"
    PROVE  LET e == rev[r].env IN
           /\ \A s \in RevisionStatus \ {"absent"} : \A c \in Box \cup {Nothing} :
                 \/ rev' = [rev EXCEPT ![r].status = s]
                 \/ rev' = [rev EXCEPT ![r].status = s, ![r].box = c]
                 \/ rev' = [rev EXCEPT ![r].box = c]
                 => rev' \in [Rev -> RevRows] /\ RevisionsKept
           /\ \A l \in {Planned(env[e], r), Resumed(env[e]), Baseline(env[e]), Stuck(env[e]), Applied(env[e], r)} :
                 env' = [env EXCEPT ![e] = l] => env' \in [Env -> EnvRows]
           /\ \A c \in Box \cup {Nothing} :
                 env' = [env EXCEPT ![e] = Stuck([@ EXCEPT !.box = c])] => env' \in [Env -> EnvRows]
           /\ \A c \in Box \cup {Nothing} :
                 (c = Nothing \/ env[e].active = r) /\ env' = [env EXCEPT ![e].box = c] => env' \in [Env -> EnvRows]
<1> DEFINE e == rev[r].env
<1>0. /\ env \in [Env -> EnvRows] /\ rev \in [Rev -> RevRows] /\ e \in Env /\ env[e] \in EnvRows
      /\ r # Nothing /\ Lifecycle \subseteq EnvRows
  BY TypesOf, RevAssumption DEF WellFormed, EnvRows
<1>1. ASSUME NEW s \in RevisionStatus \ {"absent"}, NEW c \in Box \cup {Nothing},
             \/ rev' = [rev EXCEPT ![r].status = s]
             \/ rev' = [rev EXCEPT ![r].status = s, ![r].box = c]
             \/ rev' = [rev EXCEPT ![r].box = c]
      PROVE  rev' \in [Rev -> RevRows] /\ RevisionsKept
  <2>1. \E t \in RevisionStatus \ {"absent"}, d \in Box \cup {Nothing} : RevBecomes(r, t, d)
    <3>1. rev[r].box \in Box \cup {Nothing} /\ rev[r].status \in RevisionStatus \ {"absent"}
      BY <1>0 DEF RevRows
    <3>2. CASE rev' = [rev EXCEPT ![r].status = s]
      BY <1>0, <3>1, <3>2, RevisionBecomes
    <3>3. CASE rev' = [rev EXCEPT ![r].status = s, ![r].box = c]
      BY <1>0, <3>3, RevisionBecomes
    <3>4. CASE rev' = [rev EXCEPT ![r].box = c]
      BY <1>0, <3>1, <3>4, RevisionBecomes
    <3> QED
      BY <1>1, <3>2, <3>3, <3>4
  <2> QED
    BY <2>1 DEF RevBecomes, RevisionsKept
<1>2. /\ env[e].applied \in Rev \cup {Nothing} /\ env[e].active \in Rev \cup {Nothing}
      /\ env[e].box \in Box \cup {Nothing} /\ env[e].platform \in BOOLEAN
      /\ env[e].status \in EnvironmentStatus \cup {"absent"}
      /\ env[e].active = r => env[e].status \in EnvironmentStatus
      /\ {"building", "adapting", "draft", "active", "recovery_required"} \subseteq EnvironmentStatus
  BY <1>0, EnvRowFields DEF EnvironmentStatus, Stable, Transitioning
<1>3. \A l \in {Planned(env[e], r), Resumed(env[e]), Baseline(env[e]), Stuck(env[e]), Applied(env[e], r)} :
         l \in Lifecycle
  <2> DEFINE x == env[e]  moving == IF x.applied = Nothing THEN "building" ELSE "adapting"
             settled == IF x.applied = Nothing THEN "draft" ELSE "active"
  <2>1. moving \in EnvironmentStatus /\ settled \in EnvironmentStatus
    BY <1>2
  <2>2. Row(moving, x.applied, r, x.box, x.platform) \in Lifecycle
    BY <1>2, <2>1, RowIsLifecycle
  <2>3. Row(moving, x.applied, x.active, x.box, x.platform) \in Lifecycle
    BY <1>2, <2>1, RowIsLifecycle
  <2>4. Row(settled, x.applied, Nothing, x.box, x.platform) \in Lifecycle
    BY <1>2, <2>1, RowIsLifecycle
  <2>5. Row("recovery_required", x.applied, x.active, x.box, x.platform) \in Lifecycle
    BY <1>2, RowIsLifecycle
  <2>6. Row("active", r, Nothing, x.box, x.platform) \in Lifecycle
    BY <1>2, RowIsLifecycle
  <2> QED
    BY <1>0, <2>2, <2>3, <2>4, <2>5, <2>6, LifecycleRecords
<1>4. ASSUME NEW c \in Box \cup {Nothing}
      PROVE  Stuck([env[e] EXCEPT !.box = c]) \in Lifecycle
  <2>1. Row("recovery_required", env[e].applied, env[e].active, c, env[e].platform) \in Lifecycle
    BY <1>2, RowIsLifecycle
  <2> QED
    BY <1>0, <2>1, LifecycleRecords
<1>5. ASSUME NEW c \in Box \cup {Nothing}, c = Nothing \/ env[e].active = r
      PROVE  [env[e] EXCEPT !.box = c] \in EnvRows
  <2>1. [env[e] EXCEPT !.box = c] = Row(env[e].status, env[e].applied, env[e].active, c, env[e].platform)
    BY <1>0, LifecycleRecords
  <2>2. CASE env[e].status \in EnvironmentStatus
    BY <1>0, <1>2, <2>1, <2>2, RowIsLifecycle
  <2>3. CASE env[e].status \notin EnvironmentStatus
    <3>1. env[e] = NoEnvironment
      BY <1>0, <2>3 DEF EnvRows, Lifecycle
    <3>2. c = Nothing
      BY <1>2, <1>5, <2>3
    <3> QED
      BY <2>1, <3>1, <3>2 DEF Row, NoEnvironment, EnvRows
  <2> QED
    BY <2>2, <2>3
<1> QED
  BY <1>0, <1>1, <1>3, <1>4, <1>5

LEMMA GivenTypes ==
    ASSUME TypeInv, BoxTypeInv', NEW n \in Node, exec[n].at = "idle",
           NEW r \in Rev, rev[r].status # "absent", NEW d \in Resolved(r),
           NEW s \in {"claimed", "ready", "rollback"}, Given(n, r, d, s),
           env' \in [Env -> EnvRows], rev' \in [Rev -> RevRows], RevisionsKept,
           UNCHANGED <<op, step, effect, todo, crashes>>
    PROVE  TypeInv'
<1>1. /\ s \in Stage /\ s \notin AtStep /\ s \notin {"created", "bound", "started", "idle", "dead"}
      /\ r # Nothing
  BY RevAssumption DEF Stage, AtStep
<1>2. d \in Box \cup {Nothing}
  BY ResolvedBox
<1>3. Generation(d) \in Nat
  BY <1>2, TypesOf DEF Generation, BoxTypeInv, BoxTypeOK
<1> DEFINE y == Ex(s, r, d, Generation(d), 1, TRUE, FALSE)
<1>4. Becomes(n, y)
  BY <1>1, <1>2, <1>3, GivenBecomes, TypesOf
<1>5. y.at = s /\ y.rev = r
  BY DEF Ex
<1>6. op[n].stage = "out"
  BY NodeAssumption, TypesOf DEF WellFormed
<1> HIDE DEF y
<1>7. y.at \in {"idle", "dead"} <=> y.rev = Nothing
  BY <1>1, <1>5
<1>8. /\ y.rev # Nothing => rev[y.rev].status # "absent"
      /\ y.at \in AtStep => y.step <= Steps
      /\ y.at \in {"created", "bound", "started"} => y.box \in Box
  BY <1>1, <1>5
<1> QED
  BY <1>4, <1>6, <1>7, <1>8, ExecutorTypes, TypesOf

LEMMA ExecutorStepTypes ==
    ASSUME TypeInv, BoxTypeInv', NEW n \in Node, ExecutorSteps(n) \/ Cancel(n)
    PROVE  TypeInv'
<1> DEFINE x == exec[n]  r == x.rev  c == x.box
<1>0. /\ env \in [Env -> EnvRows] /\ rev \in [Rev -> RevRows]
      /\ step \in [Rev -> [1..Steps -> StepStatus]]
      /\ effect \in [Box -> SUBSET (Rev \X (1..Steps))]
      /\ exec \in [Node -> Executor]
      /\ todo \in [Node -> SUBSET (Rev \X {"executing", "rolling_back"})]
      /\ crashes \in [Node -> 0..MaxCrashes] /\ op \in [Actor -> [kind : Mutation \cup {"none"}, box : Box \cup {Nothing},
                         stage : {"out", "checked", "acted"}, ok : BOOLEAN]]
      /\ Node \subseteq Actor /\ n \in Actor /\ (UNCHANGED rev => RevisionsKept)
      /\ \A d \in Box : box[d].gen \in Nat /\ (box'[d].gen \in Nat)
  BY TypesOf, NodeAssumption DEF BoxTypeInv, BoxTypeOK, RevisionsKept
<1>00. /\ {"claimed", "created", "bound", "started", "failing", "failed", "ready", "begun", "ran",
           "applied", "verifying", "rollback", "rolling", "marked", "undone", "releasing",
           "settling"} \subseteq Stage \ {"idle", "dead"}
       /\ AtStep = {"begun", "ran", "applied", "verifying", "marked", "undone"}
  BY DEF Stage, AtStep
<1>1. CASE Provision(n)
  <2>1. x.at = "claimed" /\ UNCHANGED <<envVars, effect, todo, crashes, op>>
    BY <1>1 DEF Provision, CreateBox, boxVars
  <2>2. CASE At(n, "failing")
    BY <1>0, <1>00, <2>1, <2>2, AtTypes, AtWork DEF envVars
  <2>3. ASSUME NEW d \in Box, exec' = [exec EXCEPT ![n].at = "created", ![n].box = d]
        PROVE  TypeInv'
    <3> DEFINE y == Ex("created", x.rev, d, x.gen, x.step, x.ok, x.failed)
    <3>1. Becomes(n, y)
      BY <1>0, <1>00, <2>3, MovesBecome
    <3>2. y.at = "created" /\ y.rev = x.rev /\ y.box = d
      BY DEF Ex
    <3> HIDE DEF y
    <3> QED
      BY <1>0, <1>00, <2>1, <3>1, <3>2, ExecutorTypes, AtWork DEF envVars
  <2> QED
    BY <1>1, <2>2, <2>3 DEF Provision
<1>2. CASE BindBox(n)
  <2>1. x.at = "created" /\ UNCHANGED <<boxVars, step, effect, todo, crashes>>
    BY <1>2 DEF BindBox
  <2>2. /\ env' \in [Env -> EnvRows] /\ rev' \in [Rev -> RevRows] /\ RevisionsKept
        /\ At(n, "bound") \/ At(n, "failing")
    <3>1. CASE UNCHANGED <<env, rev>>
      BY <1>0, <1>00, <1>2, <3>1 DEF BindBox
    <3>2. CASE /\ env' = [env EXCEPT ![EnvOf(n)].box = c] /\ env[EnvOf(n)].active = r
               /\ rev' = [rev EXCEPT ![r].box = c] /\ At(n, "bound")
      <4>1. /\ x.rev \in Rev /\ rev[x.rev].status # "absent" /\ c \in Box \cup {Nothing}
            /\ EnvOf(n) = rev[r].env /\ "executing" \in RevisionStatus \ {"absent"}
        BY <2>1, AtWork DEF RevisionStatus
      <4> QED
        BY <3>2, <4>1, RowsWritten
    <3> QED
      BY <1>2, <3>1, <3>2 DEF BindBox
  <2> QED
    BY <1>0, <1>00, <2>1, <2>2, AtTypes, AtWork DEF boxVars
<1>3. CASE StartBox(n)
  <2>1. x.at = "bound" /\ UNCHANGED <<envVars, effect, todo, crashes>>
    BY <1>3 DEF StartBox
  <2>2. CASE At(n, "failing") /\ UNCHANGED boxVars /\ op[n].stage = "out"
    BY <1>0, <1>00, <2>1, <2>2, AtTypes, AtWork DEF boxVars, envVars
  <2>3. CASE BeginMutation(n, "start", c) /\ UNCHANGED exec
    <3>1. /\ op'[n].kind = "start" /\ op'[n].box = c
          /\ \A m \in Node : m # n => op'[m] = op[m]
      BY <1>0, <1>00, <2>3 DEF BeginMutation
    <3>2. Becomes(n, x)
      BY <1>0, <1>00, <2>3 DEF Becomes
    <3> QED
      BY <1>0, <1>00, <2>1, <3>1, <3>2, ExecutorTypes, AtWork DEF envVars, NodeMutation
  <2> QED
    BY <1>3, <2>2, <2>3 DEF StartBox
<1>4. ASSUME Released(n)
      PROVE  op'[n].stage = "out" /\ \A m \in Node : m # n => op'[m] = op[m]
  BY <1>0, <1>00, <1>4 DEF Released, NoOp
<1>5. CASE BoxStarted(n)
  <2>1. /\ x.at = "bound" /\ Released(n) /\ UNCHANGED <<envVars, effect, todo, crashes>>
        /\ \E s \in {"started", "failing"} : exec' = [exec EXCEPT ![n].at = s, ![n].gen = box'[x.box].gen]
    BY <1>5 DEF BoxStarted, FinishMutation
  <2>2. PICK s \in {"started", "failing"} : exec' = [exec EXCEPT ![n].at = s, ![n].gen = box'[x.box].gen]
    BY <2>1
  <2>3. x.box \in Box /\ s \in Stage
    BY <2>1, AtWork DEF Stage
  <2> DEFINE y == Ex(s, x.rev, x.box, box'[x.box].gen, x.step, x.ok, x.failed)
  <2>4. Becomes(n, y)
    BY <1>0, <1>00, <2>2, <2>3, MovesBecome
  <2>5. y.at = s /\ y.rev = x.rev /\ y.box = x.box
    BY DEF Ex
  <2> HIDE DEF y
  <2> QED
    <3>1. y.at \notin {"idle", "dead"} /\ y.at \notin AtStep /\ y.rev # Nothing /\ y.box \in Box
          /\ rev[y.rev].status # "absent"
      BY <1>00, <2>1, <2>3, <2>5, AtWork
    <3>2. env' = env /\ rev' = rev /\ step' = step /\ effect' = effect /\ todo' = todo /\ crashes' = crashes
      BY <2>1 DEF envVars
    <3>3. /\ env' \in [Env -> EnvRows] /\ rev' \in [Rev -> RevRows] /\ RevisionsKept
          /\ step' \in [Rev -> [1..Steps -> StepStatus]]
          /\ effect' \in [Box -> SUBSET (Rev \X (1..Steps))]
          /\ todo' \in [Node -> SUBSET (Rev \X {"executing", "rolling_back"})]
          /\ crashes' \in [Node -> 0..MaxCrashes]
          /\ \A m \in Node : todo'[m] \subseteq todo[m]
      BY <1>0, <3>2
    <3>4. op'[n].stage = "out" /\ \A m \in Node : m # n => op'[m] = op[m]
      BY <1>4, <2>1
    <3> QED
      BY <2>4, <3>1, <3>3, <3>4, ExecutorTypes
<1>6. CASE BindSession(n)
  <2>1. /\ x.at = "started" /\ UNCHANGED <<op, envVars, effect, todo, crashes>>
        /\ At(n, "ready") \/ At(n, "failing")
    BY <1>6 DEF BindSession
  <2> QED
    BY <1>0, <1>00, <2>1, AtTypes, AtWork DEF envVars
\* A deletion that ends.
<1>7. ASSUME x.at \in {"failing", "releasing"}, NEW ok \in BOOLEAN, Deleted(n, ok)
      PROVE  \E s \in {"failed", "settling"} : LET y == Ex(s, x.rev, x.box, x.gen, x.step, ok, x.failed \/ ~ok) IN
               Becomes(n, y) /\ y.at = s /\ y.rev = x.rev
  <2>1. PICK s \in {"failed", "settling"} :
           exec' = [exec EXCEPT ![n].at = s, ![n].ok = ok, ![n].failed = x.failed \/ ~ok]
    BY <1>0, <1>00, <1>7 DEF Deleted
  <2>2. s \in Stage /\ (x.failed \/ ~ok) \in BOOLEAN
    BY DEF Stage
  <2>3. Becomes(n, Ex(s, x.rev, x.box, x.gen, x.step, ok, x.failed \/ ~ok))
    BY <1>0, <1>00, <2>1, <2>2, MovesBecome
  <2> QED
    BY <2>3 DEF Ex
<1>8. CASE DeleteBox(n)
  <2>1. x.at \in {"failing", "releasing"} /\ op[n].stage = "out" /\ UNCHANGED <<envVars, effect, todo, crashes>>
    BY <1>8 DEF DeleteBox
  <2>2. CASE BeginMutation(n, "delete", c) /\ UNCHANGED exec
    <3>1. /\ op'[n].kind = "delete" /\ op'[n].box = c
          /\ \A m \in Node : m # n => op'[m] = op[m]
      BY <1>0, <1>00, <2>2 DEF BeginMutation
    <3>2. Becomes(n, x)
      BY <1>0, <1>00, <2>2 DEF Becomes
    <3> QED
      BY <1>0, <1>00, <2>1, <3>1, <3>2, ExecutorTypes, AtWork DEF envVars, NodeMutation
  <2>3. ASSUME NEW ok \in BOOLEAN, Deleted(n, ok), UNCHANGED boxVars
        PROVE  TypeInv'
    <3>1. PICK s \in {"failed", "settling"} : LET y == Ex(s, x.rev, x.box, x.gen, x.step, ok, x.failed \/ ~ok) IN
                 Becomes(n, y) /\ y.at = s /\ y.rev = x.rev
      BY <1>7, <2>1, <2>3
    <3> DEFINE y == Ex(s, x.rev, x.box, x.gen, x.step, ok, x.failed \/ ~ok)
    <3>2. Becomes(n, y) /\ y.at = s /\ y.rev = x.rev
      BY <3>1
    <3> HIDE DEF y
    <3> QED
      BY <1>0, <1>00, <2>1, <2>3, <3>2, ExecutorTypes, AtWork DEF envVars, boxVars
  <2> QED
    BY <1>8, <2>2, <2>3 DEF DeleteBox
<1>9. CASE BoxDeleted(n)
  <2>1. /\ op[n].stage = "acted" /\ op[n].kind = "delete" /\ Released(n)
        /\ UNCHANGED <<rev, step, effect, todo, crashes>>
    BY <1>9 DEF BoxDeleted
  <2>2. x.at \in {"failing", "releasing"}
    BY <1>0, <1>00, <2>1, TypesOf DEF WellFormed
  <2>3. PICK ok \in BOOLEAN : Deleted(n, ok) /\ (env' = env \/ env' = [env EXCEPT ![EnvOf(n)].box = Nothing])
    BY <1>9 DEF BoxDeleted
  <2>4. PICK s \in {"failed", "settling"} : LET y == Ex(s, x.rev, x.box, x.gen, x.step, ok, x.failed \/ ~ok) IN
               Becomes(n, y) /\ y.at = s /\ y.rev = x.rev
    BY <1>7, <2>2, <2>3
  <2> DEFINE y == Ex(s, x.rev, x.box, x.gen, x.step, ok, x.failed \/ ~ok)
  <2>5. Becomes(n, y) /\ y.at = s /\ y.rev = x.rev
    BY <2>4
  <2>6. env' \in [Env -> EnvRows]
    <3>1. /\ x.rev \in Rev /\ rev[x.rev].status # "absent" /\ EnvOf(n) = rev[x.rev].env
          /\ env \in [Env -> EnvRows]
      BY <1>0, <1>00, <2>2, AtWork
    <3> QED
      BY <2>3, <3>1, RowsWritten
  <2> HIDE DEF y
  <2> QED
    BY <1>0, <1>00, <1>4, <2>1, <2>2, <2>5, <2>6, ExecutorTypes, AtWork 
\* The executor gives up on provisioning, or is through with its revision.
<1>10. ASSUME x.at \notin {"idle", "dead", "bound", "failing", "releasing"} \/ op[n].stage = "out",
              x.at \notin {"idle", "dead"}, GiveUp(n), UNCHANGED <<boxVars, envVars, effect, todo, crashes>>
       PROVE  TypeInv'
  <2> DEFINE y == Ex("rollback", x.rev, Nothing, x.gen, x.step, x.ok, x.failed)
  <2>1. Becomes(n, y)
    BY <1>0, <1>00, <1>10, MovesBecome DEF GiveUp
  <2>2. y.at = "rollback" /\ y.rev = x.rev /\ op'[n].stage = "out"
    BY <1>0, <1>10, AtWork DEF Ex, boxVars
  <2> HIDE DEF y
  <2> QED
    BY <1>0, <1>00, <1>10, <2>1, <2>2, ExecutorTypes, AtWork DEF boxVars, envVars
<1>11. ASSUME x.at \notin {"idle", "dead", "bound", "failing", "releasing"}, Done(n), UNCHANGED <<op, step, effect, crashes>>,
              env' \in [Env -> EnvRows], rev' \in [Rev -> RevRows], RevisionsKept
       PROVE  TypeInv'
  <2> DEFINE y == Ex("idle", Nothing, Nothing, 0, 1, TRUE, FALSE)
  <2>1. Becomes(n, y)
    BY <1>0, <1>11, DoneBecomes
  <2>2. y.at = "idle" /\ y.rev = Nothing
    BY DEF Ex
  <2>3. op'[n].stage = "out" /\ \A m \in Node : m # n => op'[m] = op[m]
    BY <1>0, <1>11, AtWork
  <2>4. todo' \in [Node -> SUBSET (Rev \X {"executing", "rolling_back"})]
        /\ \A m \in Node : todo'[m] \subseteq todo[m]
    BY <1>0, <1>11 DEF Done
  <2> HIDE DEF y
  <2> QED
    BY <1>0, <1>00, <1>11, <2>1, <2>2, <2>3, <2>4, ExecutorTypes
\* What a transaction of the executor writes is typed.
<1>12. ASSUME x.at \notin {"idle", "dead"}
       PROVE  LET e == EnvOf(n) IN
              /\ \A s \in RevisionStatus \ {"absent"} : \A d \in Box \cup {Nothing} :
                    \/ rev' = [rev EXCEPT ![r].status = s]
                    \/ rev' = [rev EXCEPT ![r].status = s, ![r].box = d]
                    => rev' \in [Rev -> RevRows] /\ RevisionsKept
              /\ \A l \in {Resumed(env[e]), Baseline(env[e]), Stuck(env[e]), Applied(env[e], r)} :
                    env' = [env EXCEPT ![e] = l] => env' \in [Env -> EnvRows]
              /\ \A d \in Box \cup {Nothing} :
                    env' = [env EXCEPT ![e] = Stuck([@ EXCEPT !.box = d])] => env' \in [Env -> EnvRows]
  <2>1. x.rev \in Rev /\ rev[x.rev].status # "absent" /\ EnvOf(n) = rev[x.rev].env
    BY <1>12, AtWork
  <2> QED
    BY <2>1, RowsWritten
<1>120. {"failed", "recovery_required", "applied", "rolling_back", "rolled_back", "executing"}
           \subseteq RevisionStatus \ {"absent"}
  BY DEF RevisionStatus
<1>13. CASE SettleFailure(n)
  <2>1. x.at = "failed" /\ UNCHANGED <<boxVars, step, effect, crashes>> /\ UNCHANGED op /\ x.box \in Box \cup {Nothing}
    BY <1>13, AtWork DEF SettleFailure, boxVars
  <2>2. CASE GiveUp(n) /\ UNCHANGED <<rev, env, todo>>
    BY <1>10, <2>1, <2>2 DEF envVars
  <2>3. ASSUME Done(n),
               \/ /\ rev' = [rev EXCEPT ![r].status = "failed"]
                  /\ env' = [env EXCEPT ![EnvOf(n)] = Baseline(@)]
               \/ /\ rev' = [rev EXCEPT ![r].status = "recovery_required", ![r].box = c]
                  /\ env' = [env EXCEPT ![EnvOf(n)] = Stuck([@ EXCEPT !.box = c])]
        PROVE  TypeInv'
    <3>1. env' \in [Env -> EnvRows] /\ rev' \in [Rev -> RevRows] /\ RevisionsKept
      BY <1>12, <1>120, <2>1, <2>3
    <3> QED
      BY <1>11, <2>1, <2>3, <3>1
  <2> QED
    BY <1>13, <2>2, <2>3 DEF SettleFailure
<1>14. CASE CopyFails(n) \/ StepsUndone(n)
  <2>1. /\ x.at \in {"ready", "rolling"} /\ UNCHANGED <<boxVars, envVars, effect, todo, crashes>>
        /\ \E s \in {"rollback", "releasing", "settling"} : At(n, s)
    BY <1>14 DEF CopyFails, StepsUndone
  <2> QED
    BY <1>0, <1>00, <2>1, AtTypes, AtWork DEF boxVars, envVars
\* One that writes the status of a step.
<1>15. ASSUME x.at \notin {"idle", "dead", "bound", "failing", "releasing"},
              NEW k \in 1..Steps, NEW s \in StepStatus, SetStep(n, k, s)
       PROVE  step' \in [Rev -> [1..Steps -> StepStatus]]
  BY <1>15, SetStepTypes
<1>16. CASE BeginStep(n) \/ RecordApply(n) \/ BeginVerify(n)
  <2>1. /\ x.at \in {"ready", "ran", "applied"} /\ UNCHANGED <<boxVars, env, rev, effect, todo, crashes>>
        /\ UNCHANGED op /\ x.step \in 1..Steps
        /\ \E s \in {"applying", "applied", "failed", "verifying"} : SetStep(n, x.step, s)
        /\ \E s \in {"begun", "applied", "rollback", "verifying"} : At(n, s)
    <3>1. CASE BeginStep(n)
      BY <3>1, AtWork DEF BeginStep, boxVars
    <3>2. CASE RecordApply(n) \/ BeginVerify(n)
      BY <1>00, <3>2, AtWork DEF RecordApply, BeginVerify, boxVars
    <3> QED
      BY <1>16, <3>1, <3>2
  <2>2. step' \in [Rev -> [1..Steps -> StepStatus]]
    BY <1>15, <2>1 DEF StepStatus
  <2>3. PICK s \in {"begun", "applied", "rollback", "verifying"} : At(n, s)
    BY <2>1
  <2>4. /\ s \in Stage \ {"idle", "dead"} /\ s \notin {"created", "bound", "started"}
        /\ x.step <= Steps /\ x.at \notin {"idle", "dead"}
    BY <1>00, <2>1, StepsAssumption
  <2>5. op'[n].stage = "out" /\ \A m \in Node : op'[m] = op[m]
    BY <1>0, <2>1, AtWork
  <2>6. /\ env' \in [Env -> EnvRows] /\ rev' \in [Rev -> RevRows] /\ RevisionsKept
        /\ effect' \in [Box -> SUBSET (Rev \X (1..Steps))]
    BY <1>0, <2>1
  <2> QED
    BY <2>1, <2>2, <2>3, <2>4, <2>5, <2>6, AtTypes
<1>17. ASSUME CommandRaises(n)
       PROVE  UNCHANGED op
  BY <1>17 DEF CommandRaises
<1>18. CASE Apply(n)
  <2>1. x.at = "begun" /\ UNCHANGED <<envVars, todo, crashes>> /\ UNCHANGED op
    BY <1>17, <1>18 DEF Apply, boxVars
  <2>2. effect' \in [Box -> SUBSET (Rev \X (1..Steps))]
    <3>1. <<x.rev, x.step>> \in Rev \X (1..Steps)
      BY <1>00, <2>1, AtWork
    <3>2. \/ UNCHANGED effect
          \/ \E left : effect' = [effect EXCEPT ![c] = left] /\ left \in {effect[c], effect[c] \cup {<<x.rev, x.step>>}}
      BY <1>18 DEF Apply
    <3>3. ASSUME NEW left, effect' = [effect EXCEPT ![c] = left], left \in {effect[c], effect[c] \cup {<<x.rev, x.step>>}}
          PROVE  effect' \in [Box -> SUBSET (Rev \X (1..Steps))]
      BY <1>0, <3>1, <3>3
    <3> QED
      BY <1>0, <3>2, <3>3
  <2>3. CASE At(n, "rollback")
    BY <1>0, <1>00, <2>1, <2>2, <2>3, AtTypes, AtWork DEF envVars
  <2>4. CASE \E b \in BOOLEAN : exec' = [exec EXCEPT ![n].at = "ran", ![n].ok = b]
    <3>1. PICK b \in BOOLEAN : exec' = [exec EXCEPT ![n].at = "ran", ![n].ok = b]
      BY <2>4
    <3> DEFINE y == Ex("ran", x.rev, x.box, x.gen, x.step, b, x.failed)
    <3>2. Becomes(n, y)
      BY <1>0, <1>00, <3>1, MovesBecome
    <3>3. y.at = "ran" /\ y.rev = x.rev /\ y.step = x.step
      BY DEF Ex
    <3> HIDE DEF y
    <3>4. x.step <= Steps /\ op'[n].stage = "out"
      BY <1>00, <2>1, AtWork, TypesOf DEF WellFormed
    <3> QED
      BY <1>0, <1>00, <2>1, <2>2, <3>2, <3>3, <3>4, ExecutorTypes, AtWork DEF envVars
  <2>5. CASE exec' = [exec EXCEPT ![n].at = "ran"]
    BY <1>0, <1>00, <2>1, <2>2, <2>5, AtTypes, AtWork, TypesOf DEF envVars, At, WellFormed
  <2> QED
    BY <1>18, <2>3, <2>4, <2>5 DEF Apply
<1>19. CASE Verify(n)
  <2>1. x.at = "verifying" /\ UNCHANGED <<env, rev, effect, todo, crashes>> /\ UNCHANGED op /\ x.step \in 1..Steps
    BY <1>00, <1>17, <1>19, AtWork DEF Verify, boxVars
  <2>2. step' \in [Rev -> [1..Steps -> StepStatus]]
    <3>1. UNCHANGED step \/ \E s \in {"verified", "failed"} : SetStep(n, x.step, s)
      BY <1>19 DEF Verify
    <3> QED
      BY <1>0, <1>15, <2>1, <3>1 DEF StepStatus
  <2>3. CASE At(n, "rollback")
    BY <1>0, <1>00, <2>1, <2>2, <2>3, AtTypes, AtWork
  <2>4. CASE exec' = [exec EXCEPT ![n].at = "ready", ![n].step = @ + 1]
    <3>1. x.step + 1 \in 1..(Steps + 1) /\ exec' = [exec EXCEPT ![n].at = "ready", ![n].step = x.step + 1]
      BY <1>0, <2>1, <2>4, StepsAssumption
    <3> DEFINE y == Ex("ready", x.rev, x.box, x.gen, x.step + 1, x.ok, x.failed)
    <3>2. Becomes(n, y)
      BY <1>0, <1>00, <3>1, MovesBecome
    <3>3. y.at = "ready" /\ y.rev = x.rev
      BY DEF Ex
    <3> HIDE DEF y
    <3> QED
      BY <1>0, <1>00, <2>1, <2>2, <3>2, <3>3, ExecutorTypes, AtWork
  <2> QED
    BY <1>19, <2>3, <2>4 DEF Verify
<1>20. CASE Complete(n)
  <2>1. x.at = "ready" /\ UNCHANGED <<op, step, effect, crashes>>
    BY <1>20 DEF Complete
  <2>2. CASE At(n, "rollback") /\ UNCHANGED <<rev, env, todo>>
    BY <1>0, <1>00, <2>1, <2>2, AtTypes, AtWork
  <2>3. ASSUME Done(n), rev' = [rev EXCEPT ![r].status = "applied"],
               env' = [env EXCEPT ![EnvOf(n)] = Applied(@, r)]
        PROVE  TypeInv'
    <3>1. env' \in [Env -> EnvRows] /\ rev' \in [Rev -> RevRows] /\ RevisionsKept
      BY <1>12, <1>120, <2>1, <2>3
    <3> QED
      BY <1>11, <2>1, <2>3, <3>1
  <2> QED
    BY <1>20, <2>2, <2>3 DEF Complete
<1>21. CASE BeginRollback(n)
  <2>1. x.at = "rollback" /\ UNCHANGED <<boxVars, step, effect, crashes>> /\ UNCHANGED op
    BY <1>21 DEF BeginRollback, boxVars
  <2>2. CASE Done(n) /\ UNCHANGED <<rev, env>>
    BY <1>0, <1>11, <2>1, <2>2
  <2>3. ASSUME exec' = [exec EXCEPT ![n].at = "rolling", ![n].step = Steps + 1, ![n].ok = TRUE, ![n].failed = FALSE],
               rev' = [rev EXCEPT ![r].status = "rolling_back"], env' = [env EXCEPT ![EnvOf(n)] = Resumed(@)],
               UNCHANGED todo
        PROVE  TypeInv'
    <3>1. env' \in [Env -> EnvRows] /\ rev' \in [Rev -> RevRows] /\ RevisionsKept
      BY <1>12, <1>120, <2>1, <2>3
    <3>0. Steps + 1 \in 1..(Steps + 1)
      BY StepsAssumption
    <3> DEFINE y == Ex("rolling", x.rev, x.box, x.gen, Steps + 1, TRUE, FALSE)
    <3>2. Becomes(n, y)
      BY <1>0, <1>00, <2>3, <3>0, MovesBecome
    <3>3. y.at = "rolling" /\ y.rev = x.rev
      BY DEF Ex
    <3> HIDE DEF y
    <3> QED
      BY <1>0, <1>00, <2>1, <2>3, <3>1, <3>2, <3>3, ExecutorTypes, AtWork
  <2> QED
    BY <1>21, <2>2, <2>3 DEF BeginRollback
<1>22. CASE MarkStep(n)
  <2>1. x.at = "rolling" /\ UNCHANGED <<boxVars, env, rev, effect, todo, crashes>> /\ UNCHANGED op
    BY <1>22 DEF MarkStep, boxVars
  <2>2. PICK k \in ToUndo(n) : SetStep(n, k, "rolling_back") /\ exec' = [exec EXCEPT ![n].at = "marked", ![n].step = k]
    BY <1>22 DEF MarkStep
  <2>3. k \in 1..Steps /\ k \in 1..(Steps + 1) /\ k <= Steps
    BY StepsAssumption DEF ToUndo
  <2>4. step' \in [Rev -> [1..Steps -> StepStatus]]
    BY <1>15, <2>1, <2>2, <2>3 DEF StepStatus
  <2> DEFINE y == Ex("marked", x.rev, x.box, x.gen, k, x.ok, x.failed)
  <2>5. Becomes(n, y)
    BY <1>0, <1>00, <2>2, <2>3, MovesBecome
  <2>6. y.at = "marked" /\ y.rev = x.rev /\ y.step = k
    BY DEF Ex
  <2> HIDE DEF y
  <2> QED
    BY <1>0, <1>00, <2>1, <2>3, <2>4, <2>5, <2>6, ExecutorTypes, AtWork
<1>23. CASE Undo(n)
  <2>1. x.at = "marked" /\ UNCHANGED <<envVars, todo, crashes>> /\ UNCHANGED op
    BY <1>17, <1>23 DEF Undo, boxVars
  <2>2. effect' \in [Box -> SUBSET (Rev \X (1..Steps))]
    <3>1. \/ UNCHANGED effect
          \/ \E left : effect' = [effect EXCEPT ![c] = left] /\ left \in {effect[c], effect[c] \ {<<x.rev, x.step>>}}
      BY <1>23 DEF Undo
    <3>2. ASSUME NEW left, effect' = [effect EXCEPT ![c] = left], left \in {effect[c], effect[c] \ {<<x.rev, x.step>>}}
          PROVE  effect' \in [Box -> SUBSET (Rev \X (1..Steps))]
      BY <1>0, <3>2
    <3> QED
      BY <1>0, <3>1, <3>2
  <2>3. PICK b \in BOOLEAN : exec' = [exec EXCEPT ![n].at = "undone", ![n].ok = b]
    BY <1>23 DEF Undo
  <2> DEFINE y == Ex("undone", x.rev, x.box, x.gen, x.step, b, x.failed)
  <2>4. Becomes(n, y)
    BY <1>0, <1>00, <2>3, MovesBecome
  <2>5. y.at = "undone" /\ y.rev = x.rev /\ y.step = x.step
    BY DEF Ex
  <2>6. x.step <= Steps /\ op'[n].stage = "out"
    BY <1>00, <2>1, AtWork, TypesOf DEF WellFormed
  <2> HIDE DEF y
  <2> QED
    BY <1>0, <1>00, <2>1, <2>2, <2>4, <2>5, <2>6, ExecutorTypes, AtWork DEF envVars
<1>24. CASE RecordUndo(n)
  <2>1. /\ x.at = "undone" /\ UNCHANGED <<boxVars, env, rev, effect, todo, crashes>> /\ UNCHANGED op
        /\ x.step \in 1..Steps
        /\ \E s \in {"rolled_back", "rollback_failed"} : SetStep(n, x.step, s)
    BY <1>00, <1>24, AtWork DEF RecordUndo, boxVars
  <2>2. step' \in [Rev -> [1..Steps -> StepStatus]]
    BY <1>15, <2>1 DEF StepStatus
  <2>3. exec' = [exec EXCEPT ![n].at = "rolling", ![n].failed = x.failed \/ ~x.ok] /\ (x.failed \/ ~x.ok) \in BOOLEAN
    BY <1>0, <1>24 DEF RecordUndo
  <2> DEFINE y == Ex("rolling", x.rev, x.box, x.gen, x.step, x.ok, x.failed \/ ~x.ok)
  <2>4. Becomes(n, y)
    BY <1>0, <1>00, <2>3, MovesBecome
  <2>5. y.at = "rolling" /\ y.rev = x.rev
    BY DEF Ex
  <2> HIDE DEF y
  <2> QED
    BY <1>0, <1>00, <2>1, <2>2, <2>4, <2>5, ExecutorTypes, AtWork
<1>25. CASE SettleRollback(n)
  <2>1. /\ x.at = "settling" /\ UNCHANGED <<boxVars, step, effect, crashes>> /\ UNCHANGED op /\ Done(n)
        /\ \E s \in {"recovery_required", "rolled_back"} : rev' = [rev EXCEPT ![r].status = s]
        /\ \E l \in {Stuck(env[EnvOf(n)]), Baseline(env[EnvOf(n)])} : env' = [env EXCEPT ![EnvOf(n)] = l]
    BY <1>25 DEF SettleRollback, boxVars
  <2>2. env' \in [Env -> EnvRows] /\ rev' \in [Rev -> RevRows] /\ RevisionsKept
    BY <1>12, <1>120, <2>1
  <2> QED
    BY <1>11, <2>1, <2>2
<1>26. CASE Cancel(n)
  <2>1. op[n].stage = "out" /\ UNCHANGED <<boxVars, envVars, effect, todo, crashes>>
    BY <1>26 DEF Cancel
  <2>2. CASE x.at \in {"claimed", "created", "bound", "started", "failing", "failed"} /\ GiveUp(n)
    BY <1>10, <2>1, <2>2
  <2>3. CASE x.at \in {"ready", "begun", "ran", "applied", "verifying"} /\ At(n, "rollback")
    BY <1>0, <1>00, <2>1, <2>3, AtTypes DEF boxVars, envVars
  <2> QED
    BY <1>26, <2>2, <2>3 DEF Cancel
<1>27. CASE Recover(n)
  <2>0. x.at = "idle" /\ op[n].stage = "out" /\ UNCHANGED <<op, step, effect, crashes>>
    BY <1>0, <1>27, TypesOf DEF Recover, WellFormed
  <2>1. PICK t \in todo[n] : LET q == t[1]  e == rev[q].env IN
          \/ todo' = [todo EXCEPT ![n] = @ \ {t}] /\ UNCHANGED <<env, rev, exec>>
          \/ todo' = [todo EXCEPT ![n] = @ \ {t}] /\ MarkRecoveryRequired(q) /\ UNCHANGED exec
          \/ /\ todo' = [todo EXCEPT ![n] = @ \ {t}] /\ UNCHANGED exec
             /\ rev' = [rev EXCEPT ![q].status = "planned"]
             /\ env' = [env EXCEPT ![e] = Resumed(@)]
          \/ \E d \in Resolved(q) : Given(n, q, d, "rollback") /\ UNCHANGED <<todo, env, rev>>
    BY <1>27 DEF Recover
  <2>2. t \in Rev \X {"executing", "rolling_back"}
    BY <1>0
  <2>3. t[1] \in Rev /\ rev[t[1]].status # "absent"
    BY <2>2, TypesOf DEF WellFormed
  <2>4. ASSUME todo' = [todo EXCEPT ![n] = @ \ {t}]
        PROVE  todo' \in [Node -> SUBSET (Rev \X {"executing", "rolling_back"})] /\ \A m \in Node : todo'[m] \subseteq todo[m]
    BY <1>0, <2>4
  <2>5. ASSUME todo' = [todo EXCEPT ![n] = @ \ {t}], UNCHANGED exec,
               env' \in [Env -> EnvRows], rev' \in [Rev -> RevRows], RevisionsKept
        PROVE  TypeInv'
    <3>1. Becomes(n, x) /\ x.rev = Nothing
      BY <1>0, <2>0, <2>5, TypesOf DEF Becomes, WellFormed
    <3> QED
      BY <1>0, <1>00, <2>0, <2>4, <2>5, <3>1, ExecutorTypes
  <2>6. CASE MarkRecoveryRequired(t[1]) /\ todo' = [todo EXCEPT ![n] = @ \ {t}] /\ UNCHANGED exec
    <3>1. env' \in [Env -> EnvRows] /\ rev' \in [Rev -> RevRows] /\ RevisionsKept
      BY <1>120, <2>3, <2>6, RowsWritten DEF MarkRecoveryRequired
    <3> QED
      BY <2>5, <2>6, <3>1
  <2>7. CASE /\ todo' = [todo EXCEPT ![n] = @ \ {t}] /\ UNCHANGED exec
             /\ rev' = [rev EXCEPT ![t[1]].status = "planned"]
             /\ env' = [env EXCEPT ![rev[t[1]].env] = Resumed(@)]
    <3>0. "planned" \in RevisionStatus \ {"absent"}
      BY DEF RevisionStatus
    <3>1. env' \in [Env -> EnvRows] /\ rev' \in [Rev -> RevRows] /\ RevisionsKept
      BY <2>3, <2>7, <3>0, RowsWritten
    <3> QED
      BY <2>5, <2>7, <3>1
  <2>8. ASSUME NEW d \in Resolved(t[1]), Given(n, t[1], d, "rollback"), UNCHANGED <<todo, env, rev>>
        PROVE  TypeInv'
    BY <1>0, <1>00, <2>0, <2>3, <2>8, GivenTypes, TypesOf
  <2> QED
    BY <1>0, <2>1, <2>5, <2>6, <2>7, <2>8
<1> QED
  BY <1>1, <1>2, <1>3, <1>5, <1>6, <1>8, <1>9, <1>13, <1>14, <1>16, <1>18, <1>19, <1>20, <1>21,
     <1>22, <1>23, <1>24, <1>25, <1>26, <1>27 DEF ExecutorSteps

LEMMA StepTypes ==
    ASSUME TypeInv, [Next]_vars
    PROVE  TypeInv'
<1>0. BoxTypeInv'
  <2>1. CASE BoxStep
    BY <2>1, BoxStepTypes, TypesOf
  <2>2. CASE UNCHANGED boxVars
    BY <2>2, TypesOf DEF BoxTypeInv, BoxTypeOK, boxVars
  <2> QED
    BY <2>1, <2>2, StepIsBoxStep
<1>1. /\ env \in [Env -> EnvRows] /\ rev \in [Rev -> RevRows]
      /\ step \in [Rev -> [1..Steps -> StepStatus]]
      /\ effect \in [Box -> SUBSET (Rev \X (1..Steps))]
      /\ exec \in [Node -> Executor]
      /\ todo \in [Node -> SUBSET (Rev \X {"executing", "rolling_back"})]
      /\ crashes \in [Node -> 0..MaxCrashes]
      /\ op \in [Actor -> [kind : Mutation \cup {"none"}, box : Box \cup {Nothing},
                           stage : {"out", "checked", "acted"}, ok : BOOLEAN]]
      /\ Node \subseteq Actor /\ (UNCHANGED rev => RevisionsKept)
  BY TypesOf, NodeAssumption DEF BoxTypeInv, BoxTypeOK, RevisionsKept
\* Containers, operators, the monitor and sessions.
<1>2. ASSUME env' = env, rev' = rev, step' = step, effect' \in [Box -> SUBSET (Rev \X (1..Steps))],
             UNCHANGED <<exec, todo, crashes>>,
             \A m \in Node : /\ op'[m].stage # "out" => op[m].stage # "out"
                             /\ op'[m].kind = op[m].kind /\ op'[m].box = op[m].box
      PROVE  TypeInv'
  BY <1>0, <1>1, <1>2, OthersTypes
<1>3. CASE \E c \in Box : CreateOperatorBox(c)
  BY <1>1, <1>2, <1>3 DEF CreateOperatorBox, CreateBox, envVars, execVars
<1>4. ASSUME NEW a \in Actor, NEW c \in Box, NEW kind \in Mutation, OperatorBegins(a, kind, c)
      PROVE  TypeInv'
  <2>1. \A m \in Node : op'[m] = op[m]
    BY <1>1, <1>4 DEF OperatorBegins, BeginMutation
  <2> QED
    BY <1>1, <1>2, <1>4, <2>1 DEF OperatorBegins, envVars, execVars
<1>5. ASSUME NEW a \in Actor, DockerIsCalled(a)
      PROVE  TypeInv'
  <2>1. /\ op[a].stage = "checked" /\ \A b \in Actor : b # a => op'[b] = op[b]
        /\ \A b \in Actor : op'[b].kind = op[b].kind /\ op'[b].box = op[b].box
    BY <1>5, Called, TypesOf DEF DockerIsCalled
  <2>2. effect' \in [Box -> SUBSET (Rev \X (1..Steps))]
    BY <1>1, <1>5 DEF DockerIsCalled
  <2> QED
    BY <1>1, <1>2, <1>5, <2>1, <2>2 DEF DockerIsCalled, envVars
<1>6. ASSUME NEW a \in Actor, OperatorFinishes(a)
      PROVE  TypeInv'
  <2>1. Released(a) /\ a \notin Node /\ UNCHANGED <<envVars, execVars>>
    BY <1>6 DEF OperatorFinishes, FinishMutation, FinishRemoval
  <2>2. \A m \in Node : op'[m] = op[m]
    BY <1>1, <2>1 DEF Released
  <2> QED
    BY <1>1, <1>2, <2>1, <2>2 DEF envVars, execVars
<1>7. CASE MonitorSteps \/ SessionSteps \/ UNCHANGED vars
  <2>1. UNCHANGED op /\ UNCHANGED <<envVars, execVars>>
    BY <1>7 DEF MonitorSteps, SessionSteps, LoadSnapshots, SyncStatus, ContainerExits, SaveNoted,
                AdmitRun, SelectBox, EndRun, ObserveDown, vars, boxVars
  <2> QED
    BY <1>1, <1>2, <2>1 DEF envVars, execVars
\* Requests.
<1>8. ASSUME env' \in [Env -> EnvRows], rev' \in [Rev -> RevRows],
             \A r \in Rev : rev'[r] = rev[r] \/ (rev'[r].status # "absent" /\ rev'[r].env \in Env),
             step' = step, UNCHANGED op, UNCHANGED execVars
      PROVE  TypeInv'
  BY <1>0, <1>1, <1>8, OthersTypes DEF execVars
<1>9. ASSUME NEW c \in Box \cup {Nothing}
      PROVE  NewEnvironment(c) \in Lifecycle
  <2> DEFINE l == NoEnvironment  y == [l EXCEPT !.status = "draft", !.box = c, !.platform = c = Nothing]
             Wide == [status : EnvironmentStatus \cup {"absent"}, applied : Rev \cup {Nothing},
                      active : Rev \cup {Nothing}, box : Box \cup {Nothing}, platform : BOOLEAN]
  <2>1. l \in Wide
    BY DEF NoEnvironment
  <2>2. NewEnvironment(c) = y
    BY DEF NewEnvironment
  <2> HIDE DEF l
  <2>3. y \in Wide /\ y.status = "draft"
    BY <1>9, <2>1 DEF EnvironmentStatus, Stable
  <2> HIDE DEF y
  <2> QED
    BY <2>2, <2>3 DEF Lifecycle, EnvironmentStatus, Stable
<1>10. ASSUME NEW e \in Env, \/ CreateEnvironment(e)
                             \/ \E c \in Box : AdoptBox(e, c)
                             \/ \E status \in Stable : SetEnvironmentStatus(e, status)
       PROVE  TypeInv'
  <2>1. rev' = rev /\ step' = step /\ UNCHANGED op /\ UNCHANGED execVars
    BY <1>10 DEF CreateEnvironment, AdoptBox, SetEnvironmentStatus, boxVars
  <2>2. CASE \E c \in Box \cup {Nothing} : env' = [env EXCEPT ![e] = NewEnvironment(c)]
    BY <1>1, <1>8, <1>9, <2>1, <2>2 DEF EnvRows
  <2>3. ASSUME NEW status \in Stable, SetEnvironmentStatus(e, status)
        PROVE  TypeInv'
    <3> DEFINE l == env[e]
    <3>0. l \in EnvRows /\ env' = [env EXCEPT ![e] = [l EXCEPT !.status = status]]
      BY <1>1, <2>3 DEF SetEnvironmentStatus
    <3>00. l.status # "absent"
      BY <2>3 DEF SetEnvironmentStatus, Allowed
    <3>1. l \in Lifecycle
      BY <3>0, <3>00 DEF EnvRows, NoEnvironment
    <3> HIDE DEF l
    <3>2. [l EXCEPT !.status = status] \in Lifecycle
      BY <3>1 DEF Lifecycle, EnvironmentStatus
    <3>3. env' \in [Env -> EnvRows]
      BY <1>1, <3>0, <3>2 DEF EnvRows
    <3> QED
      BY <1>1, <1>8, <2>1, <3>3
  <2> QED
    BY <1>10, <2>2, <2>3 DEF CreateEnvironment, AdoptBox
<1>11. ASSUME NEW e \in Env, NEW r \in Rev, NEW risky \in BOOLEAN, PlanRevision(e, r, risky)
       PROVE  TypeInv'
  <2>1. /\ step' = step /\ UNCHANGED op /\ UNCHANGED execVars
        /\ env' = [env EXCEPT ![e] = Planned(@, r)] /\ rev' = [rev EXCEPT ![r] = NewRevision(e, risky)]
    BY <1>11 DEF PlanRevision, boxVars
  <2> DEFINE l == env[e]
  <2>2. l \in EnvRows
    BY <1>1
  <2>3. NewRevision(e, risky) \in RevRows /\ NewRevision(e, risky).status # "absent"
        /\ NewRevision(e, risky).env = e
    BY <2>2, EnvRowFields DEF NewRevision, RevRows, PlannedKind, RevisionStatus
  <2>4. Planned(l, r) \in Lifecycle
    <3> DEFINE moving == IF l.applied = Nothing THEN "building" ELSE "adapting"
    <3>1. moving \in EnvironmentStatus
      BY DEF EnvironmentStatus, Transitioning
    <3>2. Row(moving, l.applied, r, l.box, l.platform) \in Lifecycle
      BY <2>2, <3>1, EnvRowFields, RowIsLifecycle
    <3> QED
      BY <2>2, <3>2, LifecycleRecords
  <2>5. env' \in [Env -> EnvRows]
    BY <1>1, <2>1, <2>4 DEF EnvRows
  <2>6. rev' \in [Rev -> RevRows] /\ \A q \in Rev : rev'[q] = rev[q] \/ (rev'[q].status # "absent" /\ rev'[q].env \in Env)
    BY <1>1, <2>1, <2>3
  <2> QED
    BY <1>8, <2>1, <2>5, <2>6
<1>12. ASSUME NEW r \in Rev, NEW approve \in BOOLEAN, DecideRevision(r, approve)
       PROVE  TypeInv'
  <2>1. /\ step' = step /\ UNCHANGED op /\ UNCHANGED execVars /\ rev[r].status # "absent"
        /\ \E s \in {"planned", "rejected"} : rev' = [rev EXCEPT ![r].status = s]
        /\ env' = env \/ env' = [env EXCEPT ![rev[r].env] = Baseline(@)]
    BY <1>12 DEF DecideRevision, boxVars
  <2>2. {"planned", "rejected"} \subseteq RevisionStatus \ {"absent"}
    BY DEF RevisionStatus
  <2>3. env' \in [Env -> EnvRows]
    BY <1>1, <2>1, RowsWritten
  <2>4. rev' \in [Rev -> RevRows] /\ RevisionsKept
    BY <2>1, <2>2, RowsWritten
  <2>5. \A q \in Rev : rev'[q] = rev[q] \/ (rev'[q].status # "absent" /\ rev'[q].env \in Env)
    BY <2>4, TypesOf DEF RevisionsKept, WellFormed
  <2> QED
    BY <1>8, <2>1, <2>3, <2>4, <2>5
\* Executors.
<1>13. ASSUME NEW n \in Node, NEW r \in Rev, Claim(n, r) \/ ClaimRecovery(n, r)
       PROVE  TypeInv'
  <2>1. /\ exec[n].at = "idle" /\ UNCHANGED <<op, step, effect, todo, crashes>>
        /\ rev[r].status # "absent"
        /\ env' = [env EXCEPT ![rev[r].env] = Resumed(@)]
        /\ \E d \in Resolved(r) :
             /\ \E s \in {"claimed", "ready", "rollback"} : Given(n, r, d, s)
             /\ \/ rev' = [rev EXCEPT ![r].status = "rolling_back"]
                \/ rev' = [rev EXCEPT ![r].status = "executing", ![r].box = IF d = Nothing THEN @ ELSE d]
    BY <1>13 DEF Claim, ClaimRecovery, RecoveryClaimed, boxVars
  <2>2. PICK d \in Resolved(r) :
             /\ \E s \in {"claimed", "ready", "rollback"} : Given(n, r, d, s)
             /\ \/ rev' = [rev EXCEPT ![r].status = "rolling_back"]
                \/ rev' = [rev EXCEPT ![r].status = "executing", ![r].box = IF d = Nothing THEN @ ELSE d]
    BY <2>1
  <2>3. {"executing", "rolling_back"} \subseteq RevisionStatus \ {"absent"}
    BY DEF RevisionStatus
  <2>4. (IF d = Nothing THEN rev[r].box ELSE d) \in Box \cup {Nothing}
    BY <1>1, <2>1, ResolvedBox DEF RevRows
  <2>5. env' \in [Env -> EnvRows]
    BY <2>1, RowsWritten
  <2>6. rev' \in [Rev -> RevRows] /\ RevisionsKept
    <3>1. CASE rev' = [rev EXCEPT ![r].status = "rolling_back"]
      BY <2>1, <2>3, <3>1, RowsWritten
    <3>2. CASE rev' = [rev EXCEPT ![r].status = "executing", ![r].box = IF d = Nothing THEN @ ELSE d]
      <4> DEFINE c == IF d = Nothing THEN rev[r].box ELSE d
      <4>1. rev' = [rev EXCEPT ![r].status = "executing", ![r].box = c]
        BY <1>1, <3>2
      <4>2. c \in Box \cup {Nothing}
        BY <2>4
      <4> HIDE DEF c
      <4> QED
        BY <2>1, <2>3, <4>1, <4>2, RowsWritten
    <3> QED
      BY <2>2, <3>1, <3>2
  <2> QED
    BY <1>0, <2>1, <2>2, <2>5, <2>6, GivenTypes
<1>14. ASSUME NEW n \in Node, Crash(n) \/ Boot(n)
       PROVE  TypeInv'
  <2>1. UNCHANGED <<envVars, effect>>
    BY <1>14 DEF Crash, Boot
  <2>2. CASE Crash(n)
    <3> DEFINE y == Ex("dead", Nothing, Nothing, 0, 1, TRUE, FALSE)
    <3>1. Becomes(n, y)
      BY <1>1, <2>2, CrashBecomes DEF Crash
    <3>2. y.at = "dead" /\ y.rev = Nothing
      BY DEF Ex
    <3>3. op'[n].stage = "out" /\ \A m \in Node : m # n => op'[m] = op[m]
      BY <1>1, <2>2 DEF Crash, NoOp
    <3>4. /\ crashes' \in [Node -> 0..MaxCrashes]
          /\ todo' \in [Node -> SUBSET (Rev \X {"executing", "rolling_back"})]
          /\ \A m \in Node : todo'[m] \subseteq todo[m]
      <4>1. crashes[n] + 1 \in 0..MaxCrashes
        BY <1>1, <2>2, StepsAssumption DEF Crash
      <4> QED
        BY <1>1, <2>2, <4>1 DEF Crash
    <3>5. y.at \notin AtStep /\ y.at \notin {"created", "bound", "started"}
      BY <3>2 DEF AtStep
    <3> HIDE DEF y
    <3> QED
      BY <1>0, <1>1, <2>1, <3>1, <3>2, <3>3, <3>4, <3>5, ExecutorTypes DEF envVars
  <2>3. CASE Boot(n)
    <3> DEFINE x == exec[n]  y == Ex("idle", x.rev, x.box, x.gen, x.step, x.ok, x.failed)
    <3>1. Becomes(n, y)
      BY <1>1, <2>3, AtBecomes DEF Boot, Stage
    <3>2. y.at = "idle" /\ y.rev = Nothing
      BY <2>3, TypesOf DEF Ex, Boot, WellFormed
    <3>3. op'[n].stage = "out" /\ UNCHANGED <<op, crashes>>
      BY <1>1, <2>3, TypesOf DEF Boot, WellFormed, boxVars
    <3>4. Listing \subseteq Rev \X {"executing", "rolling_back"}
      BY DEF Listing
    <3>5. /\ todo' \in [Node -> SUBSET (Rev \X {"executing", "rolling_back"})]
          /\ \A m \in Node : todo'[m] \subseteq todo[m] \/ todo'[m] \subseteq Listing
      BY <1>1, <2>3, <3>4 DEF Boot
    <3>6. y.at \notin AtStep /\ y.at \notin {"created", "bound", "started"}
      BY <3>2 DEF AtStep
    <3> HIDE DEF y
    <3> QED
      BY <1>0, <1>1, <2>1, <3>1, <3>2, <3>3, <3>5, <3>6, ExecutorTypes DEF envVars
  <2> QED
    BY <1>14, <2>2, <2>3
<1> QED
  BY <1>0, <1>3, <1>4, <1>5, <1>6, <1>7, <1>10, <1>11, <1>12, <1>13, <1>14, ExecutorStepTypes DEF Next

LEMMA InitTypes ==
    ASSUME Init
    PROVE  TypeInv
<1>1. BoxTypeInv
  BY DEF Init, BoxInit, BoxTypeInv, BoxTypeOK, Rows, Unselected, NoOp, DockerStatus
<1>2. WellFormed
  BY NodeAssumption DEF Init, BoxInit, WellFormed, NoExecutor, NoOp, AtStep
<1>3. TypeOK
  <2>1. exec \in [Node -> Executor]
    BY NoExecutorRecord DEF Init
  <2>2. rev \in [Rev -> RevRows] /\ step \in [Rev -> [1..Steps -> StepStatus]]
        /\ env \in [Env -> EnvRows]
    BY DEF Init, RevRows, RevisionStatus, StepStatus, EnvRows
  <2>3. \A c \in Box : box[c].rev \in Rev \cup {Nothing}
    BY DEF Init, BoxInit
  <2>4. /\ effect \in [Box -> SUBSET (Rev \X (1..Steps))]
        /\ todo \in [Node -> SUBSET (Rev \X {"executing", "rolling_back"})]
        /\ crashes \in [Node -> 0..MaxCrashes]
    BY StepsAssumption DEF Init
  <2> QED
    BY <1>1, <2>1, <2>2, <2>3, <2>4 DEF TypeOK, BoxTypeInv, EnvRows, RevRows
<1> QED
  BY <1>1, <1>2, <1>3 DEF TypeInv

\* Every variable keeps its type, for any number of containers, environments, revisions,
\* processes and operators and under every fault.
THEOREM TypeCorrect == Spec => []TypeOK
<1>1. Init => TypeInv
  BY InitTypes
<1>2. TypeInv /\ [Next]_vars => TypeInv'
  BY StepTypes
<1>3. TypeInv => TypeOK
  BY DEF TypeInv
<1> QED
  BY <1>1, <1>2, <1>3, PTL DEF Spec

-----------------------------------------------------------------------------
(* What the containers keep, under the whole composition.                  *)

ContainerInv == TypeInv /\ LockInv /\ ReadInv /\ RunInv /\ BootInv

LEMMA InitContainers ==
    ASSUME Init
    PROVE  ContainerInv /\ SelectionIsLive
<1>1. LockInv /\ ReadInv /\ RunInv
  BY DEF Init, BoxInit, LockInv, ReadInv, RunInv, Under, NoOp, HasNonterminalRun
<1>2. BootInv
  BY DEF Init, BoxInit, BootInv, Pinned
<1>3. SelectionIsLive
  BY DEF Init, BoxInit, SelectionIsLive, Unselected
<1> QED
  BY <1>1, <1>2, <1>3, InitTypes DEF ContainerInv

LEMMA StepContainers ==
    ASSUME ContainerInv, [Next]_vars
    PROVE  ContainerInv' /\ (SelectionIsLive => SelectionIsLive')
<1>1. BoxStep \/ UNCHANGED boxVars
  BY StepIsBoxStep DEF ContainerInv
<1>2. TypeInv' /\ LockInv' /\ ReadInv' /\ RunInv' /\ BootInv'
  BY <1>1, StepTypes, StepKeepsLocks, StepKeepsRead, StepKeepsRuns, StepKeepsBoots, TypesOf
     DEF ContainerInv
<1>3. SelectionIsLive => SelectionIsLive'
  BY <1>1, StepKeepsSelections, TypesOf DEF ContainerInv
<1> QED
  BY <1>2, <1>3 DEF ContainerInv

\* No selection of a chat session or of an environment points at a container that is
\* not running or has opened another generation: for any number of containers, sessions
\* and actors, under every fault, and whoever changes the row (status.py,
\* clear_session_sandbox_container_bindings, set_environment_session_sandbox_container).
THEOREM SelectionIsLiveAlways == Spec => []SelectionIsLive
<1> DEFINE Inv == ContainerInv /\ SelectionIsLive
<1>1. Init => Inv
  BY InitContainers
<1>2. Inv /\ [Next]_vars => Inv'
  BY StepContainers
<1>3. Inv => SelectionIsLive
  OBVIOUS
<1> QED
  BY <1>1, <1>2, <1>3, PTL DEF Spec

\* A generation never stands for two boots of a container, for any number of concurrent
\* mutations, monitors and commands, failed calls of Docker and crashed executors
\* (status.py, save_sandbox_container_status: a row that comes to RUNNING opens a new
\* generation unless it was only paused).
THEOREM GenerationNamesOneBootAlways == Spec => []GenerationNamesOneBoot
<1>1. Init => ContainerInv
  BY InitContainers
<1>2. ContainerInv /\ [Next]_vars => ContainerInv'
  BY StepContainers
<1>3. ContainerInv => GenerationNamesOneBoot
  <2> SUFFICES ASSUME ContainerInv, NEW c \in Box, NEW g \in 0..(MaxGen + 1)
               PROVE  Cardinality(bootOf[c][g]) <= 1
    BY DEF GenerationNamesOneBoot
  <2>1. \A b, d \in bootOf[c][g] : b = d
    BY DEF ContainerInv, BootInv
  <2>2. CASE bootOf[c][g] = {}
    BY <2>2, FS_EmptySet
  <2>3. ASSUME NEW b \in bootOf[c][g]
        PROVE  Cardinality(bootOf[c][g]) <= 1
    <3>1. bootOf[c][g] = {b}
      BY <2>1
    <3>2. Cardinality({b}) = 1
      BY FS_Singleton
    <3> QED
      BY <3>1, <3>2
  <2> QED
    BY <2>2, <2>3
<1> QED
  BY <1>1, <1>2, <1>3, PTL DEF Spec

\* While a Run is bound to the current generation of a container and is not over, no
\* operation of the platform reaches that container in Docker: no stop, pause, removal or
\* restart by an operator, an environment or a recovery (lifecycle.py,
\* _has_nonterminal_agent_run under the container's lock).
THEOREM RunsKeepTheirBootAlways == Spec => RunsKeepTheirBoot
<1> DEFINE Spares == \A r \in agentRun :
         r.gen = box[r.box].gen /\ docker'[r.box] # docker[r.box] => ContainerExits(r.box)
<1>1. Init => ContainerInv
  BY InitContainers
<1>2. ContainerInv /\ [Next]_vars => ContainerInv'
  BY StepContainers
<1>3. ContainerInv /\ [Next]_vars => [Spares]_boxVars
  <2> SUFFICES ASSUME ContainerInv, [Next]_vars
               PROVE  Spares
    OBVIOUS
  <2> HIDE DEF Spares
  <2>1. BoxStep \/ UNCHANGED boxVars
    BY StepIsBoxStep DEF ContainerInv
  <2> QED
    BY <2>1, StepSparesRuns, TypesOf DEF ContainerInv, Spares
<1> QED
  BY <1>1, <1>2, <1>3, PTL DEF Spec, RunsKeepTheirBoot
-----------------------------------------------------------------------------
(* Environments, their revisions and containers, and the executors.        *)

Provisional == {"claimed", "created", "bound", "started", "failing", "failed"}
Applying == {"ready", "begun", "ran", "applied", "verifying"}
Undoing == {"rolling", "marked", "undone", "releasing", "settling"}
UnderWay == {"planned", "pending_approval", "executing", "rolling_back", "recovery_required"}

\* The statuses of a revision of which nothing is left in a container.
Clean == {"absent", "planned", "pending_approval", "rejected", "failed", "rolled_back"}

\* The lease of a revision has one holder.
Leases ==
    \A n, m \in Node : exec[n].rev = exec[m].rev /\ exec[n].rev # Nothing => n = m

EnvFits(e) ==
    LET l == env[e] IN
    /\ l.status # "absent" => Shape(l)
    /\ l.active # Nothing => rev[l.active].env = e /\ rev[l.active].status \in UnderWay
    /\ l.box # Nothing => box[l.box].status \notin {"absent", "removed"}

RevFits(r) ==
    LET v == rev[r]  l == env[v.env] IN
    /\ v.status \in UnderWay => l.active = r /\ v.kind = PlannedKind(l)
    /\ v.status = "pending_approval" => v.kind = "adaptive"
    /\ v.status # "absent" => l.status # "absent"
    /\ v.status = "applied" => l.applied # Nothing

\* A container that was created for a revision and exists: the revision is under way
\* and its environment has it, or is about to.
Awaited(c, r) ==
    \/ env[rev[r].env].box = c
    \/ \E n \in Node : exec[n].rev = r /\ exec[n].at = "created" /\ exec[n].box = c

BoxFits(c) ==
    LET r == box[c].rev IN
    /\ box[c].status = "absent" => r = Nothing
    /\ r # Nothing =>
       /\ rev[r].status # "absent" /\ rev[r].kind = "initial" /\ env[rev[r].env].platform
       /\ docker[c].status # "none" => rev[r].status \in UnderWay /\ Awaited(c, r)

RowInv ==
    /\ \A e \in Env : EnvFits(e)
    /\ \A r \in Rev : RevFits(r)
    /\ \A c \in Box : BoxFits(c)
    /\ \A e, d \in Env : env[e].box = env[d].box /\ env[e].box # Nothing => e = d

\* An operator removes what no environment has or is about to have, and deletes nothing.
RemovalInv ==
    \A a \in Actor : Under(a) =>
        /\ op[a].kind = "remove" => ~Bound(op[a].box) /\ ~Provisioning(op[a].box)
        /\ op[a].kind = "delete" => a \in Node

\* A container that is gone holds nothing.
GoneInv ==
    /\ \A a \in Actor : Under(a) /\ op[a].stage = "acted" /\ op[a].ok /\ op[a].kind \in {"remove", "delete"} =>
          docker[op[a].box].status = "none"
    /\ \A c \in Box : docker[c].status = "none" => effect[c] = {}

\* The steps of a revision and what is in effect of them.
StepsFit(r) ==
    LET v == rev[r]  l == env[v.env] IN
    /\ \A c \in Box, k \in 1..Steps : <<r, k>> \in effect[c] =>
          v.status # "absent" /\ l.box = c /\ step[r][k] \notin {"pending", "rolled_back"}
    /\ v.status \in Clean => \A k \in 1..Steps : step[r][k] \in {"pending", "rolled_back"}
    /\ v.status = "executing" => \A k \in 1..Steps : step[r][k] = "verified" =>
          l.box # Nothing /\ <<r, k>> \in effect[l.box]
    /\ v.status = "applied" => \A k \in 1..Steps :
          l.box # Nothing /\ <<r, k>> \in effect[l.box]

StepInv == \A r \in Rev : StepsFit(r)

\* What an executor with a revision in hand knows at each stage.
ProvisionalFits(x, v, l, steps) ==
    /\ v.status = "executing" /\ l.applied = Nothing /\ l.platform
    /\ \A k \in 1..Steps : steps[k] = "pending"
    /\ x.at \notin {"failing", "failed"} => x.ok
    /\ x.at = "claimed" => l.box = Nothing /\ x.box = Nothing
    /\ x.at \in {"bound", "started", "failing"} => l.box = x.box
    /\ x.at = "failed" => IF x.ok THEN l.box = Nothing ELSE x.box # Nothing /\ l.box = x.box

ApplyingFits(n) ==
    LET x == exec[n]  r == x.rev  c == x.box IN
    /\ rev[r].status = "executing"
    /\ c # Nothing /\ env[rev[r].env].box = c
    /\ x.at # "ran" => x.ok
    /\ x.at \in {"begun", "ran"} => step[r][x.step] = "applying"
    /\ x.at = "applied" => step[r][x.step] = "applied"
    /\ x.at = "verifying" => step[r][x.step] = "verifying"
    /\ x.at \in {"applied", "verifying"} \/ (x.at = "ran" /\ x.ok) => <<r, x.step>> \in effect[c]

UndoingFits(n) ==
    LET x == exec[n]  r == x.rev  l == env[rev[r].env] IN
    /\ rev[r].status = "rolling_back"
    /\ l.box \in {Nothing, x.box}
    /\ x.at \in {"marked", "undone"} => step[r][x.step] = "rolling_back"
    /\ x.at = "undone" /\ x.ok => \A d \in Box : <<r, x.step>> \notin effect[d]
    /\ x.at = "releasing" => ReleasesContainer(l)
    /\ ~x.failed =>
         /\ \A k \in 1..Steps :
               k > x.step \/ (x.at = "rolling" /\ k = x.step) \/ x.at \in {"releasing", "settling"} =>
                  step[r][k] \in {"pending", "rolled_back"}
         /\ x.at = "settling" => ~ReleasesContainer(l)

Sound(n) ==
    LET x == exec[n]  r == x.rev  e == rev[r].env  c == x.box IN
    /\ x.at \in Provisional => ProvisionalFits(x, rev[r], env[e], step[r])
    /\ x.at = "created" =>
          /\ env[e].box = Nothing /\ ~Bound(c)
          /\ box[c].rev = r /\ box[c].status \notin {"absent", "removed"}
    /\ x.at \in Applying => ApplyingFits(n)
    /\ x.at = "rollback" /\ env[e].active = r => env[e].box \in {Nothing, c}
    /\ x.at \in Undoing => UndoingFits(n)

ExecInv == \A n \in Node : Sound(n)

\* Nothing is canceled amid the provisioning, and no operator's request meets a
\* container that is about to be bound.
NoRace == "cancel_provision" \notin Faults /\ "bind_race" \notin Faults

\* What the others leave to the executor of m.
Spared(m) ==
    LET x == exec[m]  r == x.rev  e == rev[r].env  c == x.box IN
    /\ exec'[m] = x
    /\ r \in Rev =>
         /\ rev'[r].env = e
         /\ env'[e].active = r => env[e].active = r /\ env'[e].box = env[e].box
         /\ x.at # "rollback" => rev'[r] = rev[r] /\ env'[e] = env[e] /\ step'[r] = step[r]
         /\ \A k \in 1..Steps, d \in Box : <<r, k>> \in effect'[d] => <<r, k>> \in effect[d]
         /\ x.at \in Applying => \A k \in 1..Steps : <<r, k>> \in effect[c] => <<r, k>> \in effect'[c]
         /\ x.at = "created" =>
              /\ box'[c].rev = box[c].rev /\ box'[c].status \notin {"absent", "removed"}
              /\ \A f \in Env : env'[f].box # c

LEMMA SparedStaysSound ==
    ASSUME TypeInv, NEW m \in Node, Sound(m), Spared(m)
    PROVE  Sound(m)'
<1> DEFINE x == exec[m]  r == x.rev  e == rev[r].env  c == x.box
<1>0. exec'[m] = x
  BY DEF Spared
<1>1. CASE x.at \in {"idle", "dead"}
  BY <1>0, <1>1 DEF Sound, Provisional, Applying, Undoing
<1>2. CASE x.at \notin {"idle", "dead"}
  <2>0. /\ r \in Rev /\ e \in Env /\ x.step \in 1..(Steps + 1)
        /\ x.at \in {"begun", "ran", "applied", "verifying", "marked", "undone"} => x.step \in 1..Steps
    BY <1>2, AtWork DEF AtStep
  <2>1. rev'[r].env = e
    BY <2>0 DEF Spared
  <2>2. ASSUME x.at # "rollback"
        PROVE  rev'[r] = rev[r] /\ env'[e] = env[e] /\ step'[r] = step[r]
    BY <2>0, <2>2 DEF Spared
  <2>3. x.at \in Provisional => ProvisionalFits(exec'[m], rev'[r], env'[e], step'[r])
    BY <1>0, <2>2 DEF Sound, Provisional
  <2>4. x.at = "created" => env'[e].box = Nothing /\ (\A f \in Env : env'[f].box # c)
                            /\ box'[c].rev = r /\ box'[c].status \notin {"absent", "removed"}
    BY <2>0, <2>2 DEF Sound, Spared
  <2>5. ASSUME x.at \in Applying
        PROVE  ApplyingFits(m)'
    <3>1. ApplyingFits(m)
      BY <2>5 DEF Sound
    <3>2. rev'[r] = rev[r] /\ env'[e] = env[e] /\ step'[r] = step[r]
      BY <2>2, <2>5 DEF Applying
    <3>3. \A k \in 1..Steps : <<r, k>> \in effect[c] => <<r, k>> \in effect'[c]
      BY <2>0, <2>5 DEF Spared
    <3> QED
      BY <1>0, <2>0, <3>1, <3>2, <3>3 DEF ApplyingFits
  <2>6. x.at = "rollback" /\ env'[e].active = r => env'[e].box \in {Nothing, c}
    BY <2>0 DEF Sound, Spared
  <2>7. ASSUME x.at \in Undoing
        PROVE  UndoingFits(m)'
    <3>1. UndoingFits(m)
      BY <2>7 DEF Sound
    <3>2. rev'[r] = rev[r] /\ env'[e] = env[e] /\ step'[r] = step[r]
      BY <2>2, <2>7 DEF Undoing
    <3>3. \A k \in 1..Steps, d \in Box : <<r, k>> \in effect'[d] => <<r, k>> \in effect[d]
      BY <2>0 DEF Spared
    <3> QED
      BY <1>0, <2>0, <3>1, <3>2, <3>3 DEF UndoingFits
  <2> QED
    BY <1>0, <2>1, <2>3, <2>4, <2>5, <2>6, <2>7 DEF Sound, Bound
<1> QED
  BY <1>1, <1>2

\* A transaction on the row of e and on revision q, which is under way in e before or
\* after it or both; q is Nothing when it is on no revision.
OnRow(e, q) ==
    /\ \A d \in Env : d # e => env'[d] = env[d]
    /\ \A r \in Rev : r # q => rev'[r] = rev[r]
    /\ env[e].active \in {Nothing, q} /\ env'[e].active \in {Nothing, q}
    /\ env[e].status # "absent" =>
          env'[e].status # "absent" /\ env'[e].platform = env[e].platform
    /\ env[e].applied # Nothing => env'[e].applied # Nothing /\ env'[e].box = env[e].box
    /\ q # Nothing =>
          /\ q \in Rev /\ rev'[q].env = e /\ rev'[q].status # "absent"
          /\ rev[q].status # "absent" => rev[q].env = e /\ rev'[q].kind = rev[q].kind

\* What the new rows have to fulfil by themselves.
RowFitsIn(e, q) ==
    /\ env'[e].status # "absent" => Shape(env'[e])
    /\ env'[e].active # Nothing => rev'[q].status \in UnderWay
    /\ q # Nothing =>
          /\ rev'[q].status \in UnderWay => env'[e].active = q /\ rev'[q].kind = PlannedKind(env'[e])
          /\ rev'[q].status = "pending_approval" => rev'[q].kind = "adaptive"
          /\ rev'[q].status = "applied" => env'[e].applied # Nothing
          /\ env'[e].status # "absent"
    /\ env'[e].box \notin {Nothing, env[e].box} =>
          /\ box[env'[e].box].status \notin {"absent", "removed"}
          /\ \A d \in Env \ {e} : env[d].box # env'[e].box

\* No container that an environment has or gets is lost.
BoundStay == \A e \in Env : LET c == env'[e].box IN
    c # Nothing /\ box[c].status \notin {"absent", "removed"} =>
        box'[c].status \notin {"absent", "removed"}

LEMMA RowsKept ==
    ASSUME TypeInv, RowInv, NEW e \in Env, NEW q \in Rev \cup {Nothing},
           OnRow(e, q), RowFitsIn(e, q), BoundStay
    PROVE  /\ \A d \in Env : EnvFits(d)'
           /\ \A r \in Rev : RevFits(r)'
           /\ \A d, f \in Env : env'[d].box = env'[f].box /\ env'[d].box # Nothing => d = f
<1>0. /\ \A d \in Env : EnvFits(d)
      /\ \A r \in Rev : RevFits(r)
      /\ \A d, f \in Env : env[d].box = env[f].box /\ env[d].box # Nothing => d = f
  BY DEF RowInv
<1>00. /\ \A d \in Env : env[d] \in EnvRows /\ env[d].active \in Rev \cup {Nothing}
       /\ \A r \in Rev : rev[r].status # "absent" => rev[r].env \in Env
       /\ Nothing \notin Rev
  <2>1. \A d \in Env : env[d] \in EnvRows
    BY TypesOf
  <2> QED
    BY <2>1, EnvRowFields, TypesOf, RevAssumption DEF WellFormed
<1>1. ASSUME NEW d \in Env
      PROVE  EnvFits(d)'
  <2>1. CASE d = e
    <3>1. env'[e].status # "absent" => Shape(env'[e])
      BY DEF RowFitsIn
    <3>2. env'[e].active # Nothing => rev'[env'[e].active].env = e /\ rev'[env'[e].active].status \in UnderWay
      BY DEF RowFitsIn, OnRow
    <3>3. env'[e].box # Nothing => box'[env'[e].box].status \notin {"absent", "removed"}
      BY <1>0 DEF RowFitsIn, BoundStay, EnvFits
    <3> QED
      BY <2>1, <3>1, <3>2, <3>3 DEF EnvFits
  <2>2. CASE d # e
    <3>1. env'[d] = env[d]
      BY <2>2 DEF OnRow
    <3>2. ASSUME env[d].active # Nothing
          PROVE  rev'[env[d].active] = rev[env[d].active]
      <4>1. env[d].active \in Rev /\ rev[env[d].active].env = d /\ rev[env[d].active].status # "absent"
        BY <1>0, <1>00, <3>2 DEF EnvFits, UnderWay
      <4>2. env[d].active # q
        BY <2>2, <3>2, <4>1 DEF OnRow
      <4> QED
        BY <4>1, <4>2 DEF OnRow
    <3>3. env[d].box # Nothing => box'[env[d].box].status \notin {"absent", "removed"}
      BY <1>0, <3>1 DEF BoundStay, EnvFits
    <3> QED
      BY <1>0, <3>1, <3>2, <3>3 DEF EnvFits
  <2> QED
    BY <2>1, <2>2
<1>2. ASSUME NEW r \in Rev
      PROVE  RevFits(r)'
  <2>1. CASE r = q
    BY <1>00, <2>1 DEF OnRow, RowFitsIn, RevFits
  <2>2. CASE r # q
    <3>1. rev'[r] = rev[r]
      BY <2>2 DEF OnRow
    <3>2. CASE rev[r].env # e
      <4>1. rev[r].status # "absent" => env'[rev[r].env] = env[rev[r].env]
        BY <1>00, <3>2 DEF OnRow
      <4> QED
        BY <1>0, <3>1, <4>1 DEF RevFits, UnderWay
    <3>3. CASE rev[r].env = e
      <4>1. rev[r].status \notin UnderWay
        BY <1>0, <1>00, <2>2, <3>3 DEF RevFits, OnRow
      <4> QED
        BY <1>0, <3>1, <3>3, <4>1 DEF RevFits, OnRow, UnderWay
    <3> QED
      BY <3>2, <3>3
  <2> QED
    BY <2>1, <2>2
<1>3. ASSUME NEW d \in Env, NEW f \in Env, env'[d].box = env'[f].box, env'[d].box # Nothing
      PROVE  d = f
  BY <1>0, <1>3 DEF OnRow, RowFitsIn
<1> QED
  BY <1>1, <1>2, <1>3

RevisionInv == Leases /\ RowInv /\ RemovalInv /\ GoneInv /\ StepInv /\ ExecInv

\* A step of the executor of n, which has revision q of e in hand before or after it:
\* nobody else's executor, revision or effects change,
ByExecutor(n, e, q, y) ==
    /\ Becomes(n, y) /\ y.rev \in {Nothing, q}
    /\ exec[n].rev = q \/ (exec[n].rev = Nothing /\ (q = Nothing \/ LeaseFree(q)))
    /\ UNCHANGED <<env, rev>> \/ (e \in Env /\ OnRow(e, q) /\ RowFitsIn(e, q))
    /\ \A r \in Rev : r # q => step'[r] = step[r]
    /\ \A r \in Rev, k \in 1..Steps, c \in Box :
          r # q => (<<r, k>> \in effect'[c] <=> <<r, k>> \in effect[c])
    /\ \A c \in Box : docker[c].status = "none" => effect'[c] = effect[c]

\* and of the containers at most one is created for q, bound to e or let go by it.
BoxesByExecutor(n, e, q) ==
    /\ \A c \in Box :
          docker'[c] = docker[c] \/ (box[c].status = "absent" /\ docker'[c].status # "none")
    /\ \A c \in Box : \/ box'[c].rev = box[c].rev
                      \/ box'[c].rev = q /\ box[c].status = "absent"
                      \/ box'[c].rev = Nothing /\ box[c].rev = q
    /\ \A c \in Box : box'[c].status = "absent" => box'[c] = box[c]
    /\ \A c \in Box : box[c].status \notin {"absent", "removed"} =>
          \/ box'[c].status \notin {"absent", "removed"}
          \/ e \in Env /\ env[e].box = c /\ env'[e].box = Nothing
    /\ env'[e].box \notin {Nothing, env[e].box} =>
          q # Nothing /\ box[env'[e].box].rev = q /\ rev[q].status = "executing"
    /\ env'[e].box # env[e].box => env[e].box = Nothing \/ docker[env[e].box].status = "none"
    /\ q # Nothing /\ rev'[q].status = "executing" =>
          rev[q].status = "executing" \/ \A c \in Box : box[c].rev = q => Bound(c)
    /\ \A a \in Actor : a # n => op'[a] = op[a]
    /\ op'[n].stage # "acted" /\ (op'[n].stage # "out" => op'[n].kind \in NodeMutation)

\* What follows for everybody but n and q.
LEMMA OthersKept ==
    ASSUME TypeInv, RevisionInv, NEW n \in Node, NEW e, NEW q \in Rev \cup {Nothing}, NEW y,
           ByExecutor(n, e, q, y), BoxesByExecutor(n, e, q), NEW m \in Node, m # n
    PROVE  Sound(m)'
<1> DEFINE x == exec[m]  r == x.rev  d == rev[r].env  c == x.box
<1>0. exec'[m] = x /\ Sound(m) /\ exec[n].rev \in {q, Nothing}
  BY DEF ByExecutor, Becomes, RevisionInv, ExecInv
<1>00. \A f \in Env, g \in Env : env[f].box = env[g].box /\ env[f].box # Nothing => f = g
  BY DEF RevisionInv, RowInv
<1>1. CASE r = Nothing
  BY <1>0, <1>1, RevAssumption, SparedStaysSound DEF Spared
<1>2. CASE r # Nothing
  <2>0. x.at \notin {"idle", "dead"}
    BY <1>2, TypesOf DEF WellFormed
  <2>1. /\ r \in Rev /\ d \in Env /\ rev[r].status # "absent" /\ x.box \in Box \cup {Nothing}
        /\ x.at = "created" => c \in Box
        /\ env[d] \in EnvRows
    BY <2>0, AtWork
  <2>2. r # q
    BY <1>0, <1>2 DEF ByExecutor, LeaseFree, RevisionInv, Leases
  <2>3. rev'[r] = rev[r] /\ step'[r] = step[r]
    BY <2>1, <2>2 DEF ByExecutor, OnRow
  <2>4. env'[d].active = r => env'[d] = env[d]
    BY <2>1, <2>2, <1>2 DEF ByExecutor, OnRow
  <2>5. ASSUME x.at # "rollback"
        PROVE  env'[d] = env[d]
    <3>1. rev[r].status \in UnderWay
      BY <1>0, <2>0, <2>5, TypesOf
         DEF Sound, ProvisionalFits, ApplyingFits, UndoingFits, Provisional, Applying, Undoing,
             UnderWay, Executor, Stage
    <3>2. env[d].active = r
      BY <2>1, <3>1 DEF RevisionInv, RowInv, RevFits
    <3> QED
      BY <1>2, <2>1, <2>2, <3>2 DEF ByExecutor, OnRow
  <2>6. \A k \in 1..Steps, b \in Box : <<r, k>> \in effect'[b] <=> <<r, k>> \in effect[b]
    BY <2>1, <2>2 DEF ByExecutor
  <2>7. ASSUME x.at \in Applying, NEW k \in 1..Steps, <<r, k>> \in effect[c]
        PROVE  <<r, k>> \in effect'[c]
    <3>1. c \in Box
      BY <1>0, <2>1, <2>7 DEF Sound, ApplyingFits
    <3> QED
      BY <2>6, <2>7, <3>1
  <2>8. ASSUME x.at = "created"
        PROVE  /\ box'[c].rev = box[c].rev
               /\ box'[c].status \notin {"absent", "removed"}
               /\ \A f \in Env : env'[f].box # c
    <3>1. /\ c \in Box /\ box[c].rev = r /\ box[c].status \notin {"absent", "removed"} /\ ~Bound(c)
      BY <1>0, <2>1, <2>8 DEF Sound
    <3>2. box'[c].rev = box[c].rev
      BY <1>2, <2>2, <3>1 DEF BoxesByExecutor
    <3>3. box'[c].status \notin {"absent", "removed"}
      BY <3>1 DEF BoxesByExecutor, Bound
    <3>4. ASSUME NEW f \in Env, env'[f].box = c
          PROVE  FALSE
      <4>1. env[f].box # c /\ c # Nothing
        BY <3>1, BoxAssumption DEF Bound
      <4>2. f = e
        BY <3>4, <4>1 DEF ByExecutor, OnRow
      <4> QED
        BY <2>2, <3>1, <3>4, <4>1, <4>2 DEF BoxesByExecutor
    <3> QED
      BY <3>2, <3>3, <3>4
  <2>9. /\ rev'[r].env = d
        /\ env'[d].active = r => env[d].active = r /\ env'[d].box = env[d].box
        /\ x.at # "rollback" => rev'[r] = rev[r] /\ env'[d] = env[d] /\ step'[r] = step[r]
    BY <2>3, <2>4, <2>5
  <2>10. Spared(m)
    BY <1>0, <2>6, <2>7, <2>8, <2>9 DEF Spared
  <2> QED
    BY <1>0, <2>10, SparedStaysSound
<1> QED
  BY <1>1, <1>2

LEMMA LeasesKept ==
    ASSUME Leases, NEW n \in Node, NEW e, NEW q, NEW y, ByExecutor(n, e, q, y)
    PROVE  Leases'
BY DEF Leases, ByExecutor, Becomes, LeaseFree

LEMMA GoneKept ==
    ASSUME TypeInv, ReadInv, GoneInv, NEW n \in Node, NEW e, NEW q, NEW y,
           ByExecutor(n, e, q, y), BoxesByExecutor(n, e, q)
    PROVE  GoneInv'
<1>1. ASSUME NEW a \in Actor, Under(a)', op'[a].stage = "acted", op'[a].ok,
             op'[a].kind \in {"remove", "delete"}
      PROVE  docker'[op'[a].box].status = "none"
  <2>1. op'[a] = op[a]
    BY <1>1 DEF BoxesByExecutor
  <2>2. op[a].box \in Box /\ box[op[a].box].status # "absent" /\ docker[op[a].box].status = "none"
    BY <1>1, <2>1, TypesOf DEF Under, ReadInv, GoneInv, BoxTypeInv
  <2> QED
    BY <2>1, <2>2 DEF BoxesByExecutor
<1>2. ASSUME NEW c \in Box, docker'[c].status = "none"
      PROVE  effect'[c] = {}
  BY <1>2 DEF BoxesByExecutor, ByExecutor, GoneInv
<1> QED
  BY <1>1, <1>2 DEF GoneInv

LEMMA RemovalKept ==
    ASSUME TypeInv, ReadInv, RemovalInv, NEW n \in Node, NEW e, NEW q \in Rev \cup {Nothing}, NEW y,
           ByExecutor(n, e, q, y), BoxesByExecutor(n, e, q)
    PROVE  RemovalInv'
<1>0. ASSUME NEW a \in Actor, Under(a)', op'[a].kind = "delete"
      PROVE  a \in Node
  BY <1>0 DEF BoxesByExecutor, RemovalInv, Under
<1> SUFFICES ASSUME NEW a \in Actor, Under(a)', op'[a].kind = "remove"
             PROVE  /\ \A f \in Env : env'[f].box # op'[a].box
                    /\ LET w == box'[op'[a].box].rev IN w = Nothing \/ rev'[w].status # "executing"
  BY <1>0 DEF RemovalInv, Bound, Provisioning
<1> DEFINE c == op[a].box
<1>1. a # n /\ op'[a] = op[a]
  BY DEF BoxesByExecutor, Under, NodeMutation
<1>2. /\ c \in Box /\ box[c].status # "absent" /\ c # Nothing
      /\ \A f \in Env : env[f].box # c
      /\ box[c].rev = Nothing \/ rev[box[c].rev].status # "executing"
  BY <1>1, TypesOf, BoxAssumption DEF Under, ReadInv, BoxTypeInv, RemovalInv, Bound, Provisioning
<1>3. ASSUME NEW f \in Env, env'[f].box = c
      PROVE  FALSE
  <2>1. f = e /\ env'[e].box # env[e].box
    BY <1>2, <1>3 DEF ByExecutor, OnRow
  <2>2. box[c].rev = q /\ rev[q].status = "executing"
    BY <1>2, <1>3, <2>1 DEF BoxesByExecutor
  <2>3. q # Nothing
    BY <1>2, <1>3, <2>1, <2>2 DEF ByExecutor, OnRow, BoxesByExecutor, RowFitsIn
  <2> QED
    BY <1>2, <2>2, <2>3
<1>4. ASSUME box'[c].rev # Nothing, rev'[box'[c].rev].status = "executing"
      PROVE  FALSE
  <2>1. box'[c].rev = box[c].rev
    BY <1>2, <1>4 DEF BoxesByExecutor
  <2>2. box[c].rev \in Rev
    BY <1>4, <2>1, <1>2, TypesOf DEF BoxTypeInv, Rows
  <2>3. CASE box[c].rev = q
    BY <1>2, <1>4, <2>1, <2>3 DEF BoxesByExecutor, Bound
  <2>4. CASE box[c].rev # q
    BY <1>2, <1>4, <2>1, <2>2, <2>4 DEF ByExecutor, OnRow
  <2> QED
    BY <2>3, <2>4
<1> QED
  BY <1>1, <1>3, <1>4

LEMMA BoundStaysBound ==
    ASSUME RowInv, NEW n \in Node, NEW e, NEW q, NEW y,
           ByExecutor(n, e, q, y), BoxesByExecutor(n, e, q), TypeInv'
    PROVE  BoundStay
<1> SUFFICES ASSUME NEW f \in Env, env'[f].box # Nothing,
                    box[env'[f].box].status \notin {"absent", "removed"}
             PROVE  box'[env'[f].box].status \notin {"absent", "removed"}
  BY DEF BoundStay
<1> DEFINE c == env'[f].box
<1>1. c \in Box
  <2>1. env'[f] \in EnvRows
    BY DEF TypeInv, TypeOK, EnvRows
  <2> QED
    BY <2>1, EnvRowFields
<1>2. CASE box'[c].status \notin {"absent", "removed"}
  BY <1>2
<1>3. CASE e \in Env /\ env[e].box = c /\ env'[e].box = Nothing
  <2>1. f # e
    BY <1>3
  <2>2. env'[f] = env[f]
    BY <2>1 DEF ByExecutor, OnRow
  <2> QED
    BY <1>3, <2>1, <2>2 DEF RowInv
<1> QED
  BY <1>1, <1>2, <1>3 DEF BoxesByExecutor

LEMMA BoxesKept ==
    ASSUME TypeInv, RowInv, NEW n \in Node, NEW e, NEW q \in Rev \cup {Nothing}, NEW y,
           ByExecutor(n, e, q, y), BoxesByExecutor(n, e, q), NEW c \in Box, box'[c].rev # q
    PROVE  BoxFits(c)'
<1> DEFINE r == box[c].rev
<1>0. BoxFits(c) /\ \A w \in Rev : RevFits(w)
  BY DEF RowInv
<1>1. CASE box'[c].rev = Nothing
  BY <1>1 DEF BoxFits
<1>2. CASE box'[c].rev # Nothing
  <2>1. box'[c].rev = r
    BY <1>2 DEF BoxesByExecutor
  <2>2. /\ r \in Rev /\ rev[r].status # "absent" /\ rev[r].kind = "initial"
        /\ env[rev[r].env].platform /\ rev[r].env \in Env /\ box[c].status # "absent"
        /\ docker[c].status # "none" => rev[r].status \in UnderWay /\ Awaited(c, r)
    BY <1>0, <1>2, <2>1, TypesOf DEF BoxFits, WellFormed, BoxTypeInv, Rows
  <2>3. rev'[r] = rev[r]
    BY <2>1, <2>2 DEF ByExecutor, OnRow
  <2>4. docker'[c] = docker[c] /\ box'[c].status # "absent"
    BY <2>2 DEF BoxesByExecutor
  <2>5. env'[rev[r].env].platform
    BY <1>0, <2>2 DEF ByExecutor, OnRow, RevFits
  <2>6. ASSUME docker[c].status # "none"
        PROVE  rev[r].status \in UnderWay /\
               \/ env'[rev[r].env].box = c
               \/ \E m \in Node : exec'[m].rev = r /\ exec'[m].at = "created" /\ exec'[m].box = c
    <3>1. rev[r].status \in UnderWay /\ env[rev[r].env].active = r
      BY <1>0, <2>2, <2>6 DEF RevFits
    <3>2. env'[rev[r].env] = env[rev[r].env]
      BY <1>2, <2>1, <2>2, <3>1 DEF ByExecutor, OnRow
    <3>3. ASSUME NEW m \in Node, exec[m].rev = r, exec[m].at = "created", exec[m].box = c
          PROVE  exec'[m] = exec[m]
      BY <1>2, <2>1, <3>3 DEF ByExecutor, Becomes
    <3> QED
      BY <2>2, <2>6, <3>1, <3>2, <3>3 DEF Awaited
  <2> QED
    BY <1>2, <2>1, <2>2, <2>3, <2>4, <2>5, <2>6 DEF BoxFits, Awaited
<1> QED
  BY <1>1, <1>2

LEMMA StepsKept ==
    ASSUME TypeInv, RowInv, GoneInv, StepInv, NEW n \in Node, NEW e, NEW q \in Rev \cup {Nothing}, NEW y,
           ByExecutor(n, e, q, y), BoxesByExecutor(n, e, q), NEW r \in Rev, r # q
    PROVE  StepsFit(r)'
<1> DEFINE d == rev[r].env
<1>0. StepsFit(r) /\ RevFits(r)
  BY DEF StepInv, RowInv
<1>1. rev'[r] = rev[r] /\ step'[r] = step[r]
  BY DEF ByExecutor, OnRow
<1>2. \A k \in 1..Steps, c \in Box : <<r, k>> \in effect'[c] <=> <<r, k>> \in effect[c]
  BY DEF ByExecutor
<1>3. CASE env'[d] = env[d]
  <2>1. rev[r].status # "absent" => env[d].box \in Box \cup {Nothing}
    <3>1. rev[r].status # "absent" => env[d] \in EnvRows
      BY TypesOf DEF WellFormed
    <3> QED
      BY <3>1, EnvRowFields
  <2> QED
    BY <1>0, <1>1, <1>2, <1>3, <2>1 DEF StepsFit
<1>4. CASE rev[r].status = "absent"
  BY <1>0, <1>1, <1>2, <1>4 DEF StepsFit
<1>5. CASE env'[d] # env[d] /\ rev[r].status # "absent"
  <2>1. d \in Env /\ d = e /\ OnRow(e, q) /\ env[d] \in EnvRows /\ Nothing \notin Box
    BY <1>5, TypesOf, BoxAssumption DEF ByExecutor, OnRow, WellFormed
  <2>2. rev[r].status \notin UnderWay
    BY <1>0, <2>1, RevAssumption DEF OnRow, RevFits
  <2>3. rev[r].status = "applied" => env[d].applied # Nothing /\ env'[d].box = env[d].box /\ env[d].box \in Box \cup {Nothing}
    BY <1>0, <2>1, EnvRowFields DEF OnRow, RevFits
  <2>4. ASSUME NEW c \in Box, NEW k \in 1..Steps, <<r, k>> \in effect[c]
        PROVE  env'[d].box = c
    <3>1. env[d].box = c /\ docker[c].status # "none"
      BY <1>0, <2>4 DEF StepsFit, GoneInv
    <3> QED
      BY <2>1, <3>1 DEF BoxesByExecutor
  <2>5. rev[r].status # "executing"
    BY <2>2 DEF UnderWay
  <2> QED
    BY <1>0, <1>1, <1>2, <1>5, <2>3, <2>4, <2>5 DEF StepsFit
<1> QED
  BY <1>3, <1>4, <1>5

\* A step of the executor keeps the invariant if it does so for its revision, the
\* containers of that, and itself.
LEMMA ExecutorKeeps ==
    ASSUME TypeInv, TypeInv', ReadInv, RevisionInv, NEW n \in Node, NEW e,
           NEW q \in Rev \cup {Nothing}, NEW y,
           ByExecutor(n, e, q, y), BoxesByExecutor(n, e, q),
           \A c \in Box : box'[c].rev = q /\ q # Nothing => BoxFits(c)',
           q # Nothing => StepsFit(q)',
           Sound(n)'
    PROVE  RevisionInv'
<1>0. Leases /\ RowInv /\ RemovalInv /\ GoneInv /\ StepInv /\ ExecInv
  BY DEF RevisionInv
<1>1. Leases'
  BY <1>0, LeasesKept
<1>2. RemovalInv' /\ GoneInv'
  BY <1>0, RemovalKept, GoneKept
<1>3. BoundStay
  BY <1>0, BoundStaysBound
<1>4. \A c \in Box : BoxFits(c)'
  <2>1. \A c \in Box : box'[c].rev # q => BoxFits(c)'
    BY <1>0, BoxesKept
  <2>2. \A c \in Box : box'[c].rev = Nothing => BoxFits(c)'
    BY DEF BoxFits
  <2> QED
    BY <2>1, <2>2
<1>5. StepInv'
  <2>1. \A r \in Rev : r # q => StepsFit(r)'
    BY <1>0, StepsKept
  <2> QED
    BY <2>1, RevAssumption DEF StepInv
<1>6. ExecInv'
  <2>1. \A m \in Node : m # n => Sound(m)'
    BY OthersKept
  <2> QED
    BY <2>1 DEF ExecInv
<1>7. /\ \A d \in Env : EnvFits(d)'
      /\ \A r \in Rev : RevFits(r)'
      /\ \A d, f \in Env : env'[d].box = env'[f].box /\ env'[d].box # Nothing => d = f
  <2>1. CASE e \in Env /\ OnRow(e, q) /\ RowFitsIn(e, q)
    BY <1>0, <1>3, <2>1, RowsKept
  <2>2. CASE UNCHANGED <<env, rev>>
    <3>1. \A d \in Env : env[d].box # Nothing => box'[env[d].box].status \notin {"absent", "removed"}
      BY <1>0, <1>3, <2>2 DEF BoundStay, RowInv, EnvFits
    <3>2. \A d \in Env : EnvFits(d)'
      BY <1>0, <2>2, <3>1 DEF RowInv, EnvFits
    <3>3. \A r \in Rev : RevFits(r)'
      BY <1>0, <2>2 DEF RowInv, RevFits
    <3> QED
      BY <1>0, <2>2, <3>2, <3>3 DEF RowInv
  <2> QED
    BY <2>1, <2>2 DEF ByExecutor
<1>8. RowInv'
  BY <1>4, <1>7 DEF RowInv
<1> QED
  BY <1>1, <1>2, <1>5, <1>6, <1>8 DEF RevisionInv

-----------------------------------------------------------------------------
(* What operators, the monitor and chat sessions do to containers.         *)

\* They create containers for nobody, and remove those that nobody waits for.
Outside ==
    /\ UNCHANGED <<env, rev, step, effect, exec>>
    /\ \A c \in Box :
          /\ box'[c].rev = box[c].rev
          /\ box'[c].status = "absent" => box[c].status = "absent"
          /\ \/ docker'[c].status = "none" <=> docker[c].status = "none"
             \/ docker'[c].status # "none" /\ box[c].status = "absent"
          /\ box[c].status \notin {"absent", "removed"} =>
                \/ box'[c].status \notin {"absent", "removed"}
                \/ \E a \in Actor : Under(a) /\ op[a].box = c /\ op[a].kind = "remove"
    /\ \A a \in Actor :
          \/ op'[a] = op[a] \/ op'[a].stage = "out"
          \/ /\ op'[a].stage = "checked" /\ op'[a].kind # "delete"
             /\ op'[a].kind = "remove" => ~Bound(op'[a].box) /\ ~Provisioning(op'[a].box)

LEMMA OutsideKeeps ==
    ASSUME TypeInv, TypeInv', ReadInv, RevisionInv, Outside
    PROVE  RevisionInv'
<1>0. /\ Leases /\ RowInv /\ RemovalInv /\ GoneInv /\ StepInv /\ ExecInv
      /\ \A r \in Rev : RevFits(r)
      /\ \A c \in Box : BoxFits(c)
      /\ env' = env /\ rev' = rev /\ step' = step /\ effect' = effect /\ exec' = exec
  BY DEF RevisionInv, RowInv, Outside
<1>1. ASSUME NEW c \in Box, box[c].status \notin {"absent", "removed"}, Bound(c) \/ Provisioning(c)
      PROVE  box'[c].status \notin {"absent", "removed"}
  BY <1>0, <1>1 DEF Outside, RemovalInv
<1>2. Leases'
  BY <1>0 DEF Leases
<1>3. RowInv'
  <2>1. ASSUME NEW e \in Env
        PROVE  EnvFits(e)'
    <3>1. EnvFits(e) /\ (env[e].box # Nothing => env[e].box \in Box)
      <4>1. env[e] \in EnvRows
        BY TypesOf
      <4> QED
        BY <1>0, <4>1, EnvRowFields DEF RowInv
    <3>2. env[e].box # Nothing => box'[env[e].box].status \notin {"absent", "removed"}
      BY <1>1, <3>1 DEF EnvFits, Bound
    <3> QED
      BY <1>0, <3>1, <3>2 DEF EnvFits
  <2>2. \A r \in Rev : RevFits(r)'
    BY <1>0 DEF RevFits
  <2>3. \A c \in Box : BoxFits(c)'
    BY <1>0 DEF BoxFits, Awaited, Outside
  <2> QED
    BY <1>0, <2>1, <2>2, <2>3 DEF RowInv
<1>4. RemovalInv'
  <2>0. ASSUME NEW a \in Actor, Under(a)', op'[a].kind = "delete"
        PROVE  a \in Node
    BY <1>0, <2>0 DEF Outside, RemovalInv, Under
  <2> SUFFICES ASSUME NEW a \in Actor, Under(a)', op'[a].kind = "remove"
               PROVE  /\ \A f \in Env : env'[f].box # op'[a].box
                      /\ LET w == box'[op'[a].box].rev IN w = Nothing \/ rev'[w].status # "executing"
    BY <2>0 DEF RemovalInv, Bound, Provisioning
  <2>1. op'[a].box \in Box
    BY DEF TypeInv, BoxTypeInv, Under
  <2> QED
    BY <1>0, <2>1 DEF Outside, RemovalInv, Bound, Provisioning, Under
<1>5. GoneInv'
  <2>1. ASSUME NEW a \in Actor, Under(a)', op'[a].stage = "acted", op'[a].ok,
               op'[a].kind \in {"remove", "delete"}
        PROVE  docker'[op'[a].box].status = "none"
    <3>1. op'[a] = op[a]
      BY <2>1 DEF Outside
    <3>2. op[a].box \in Box /\ box[op[a].box].status # "absent" /\ docker[op[a].box].status = "none"
      BY <1>0, <2>1, <3>1, TypesOf DEF Under, ReadInv, GoneInv, BoxTypeInv
    <3> QED
      BY <3>1, <3>2 DEF Outside
  <2>2. \A c \in Box : docker'[c].status = "none" => effect'[c] = {}
    BY <1>0 DEF Outside, GoneInv
  <2> QED
    BY <2>1, <2>2 DEF GoneInv
<1>6. StepInv'
  BY <1>0 DEF StepInv, StepsFit
<1>7. ASSUME NEW m \in Node
      PROVE  Sound(m)'
  <2>0. Sound(m)
    BY <1>0 DEF ExecInv
  <2>1. exec[m].at = "created" =>
           /\ box'[exec[m].box].rev = box[exec[m].box].rev
           /\ box'[exec[m].box].status \notin {"absent", "removed"}
           /\ \A f \in Env : env'[f].box # exec[m].box
    <3> SUFFICES ASSUME exec[m].at = "created"
                 PROVE  /\ box'[exec[m].box].rev = box[exec[m].box].rev
                        /\ box'[exec[m].box].status \notin {"absent", "removed"}
                        /\ \A f \in Env : env'[f].box # exec[m].box
      OBVIOUS
    <3>1. exec[m].box \in Box /\ exec[m].rev # Nothing
      BY AtWork
    <3>2. Provisioning(exec[m].box)
      BY <2>0, <3>1 DEF Sound, Provisional, ProvisionalFits, Provisioning
    <3> QED
      BY <1>0, <1>1, <2>0, <3>1, <3>2 DEF Sound, Outside, Bound
  <2>2. Spared(m)
    BY <1>0, <2>1 DEF Spared
  <2> QED
    BY <2>0, <2>2, SparedStaysSound
<1> QED
  BY <1>2, <1>3, <1>4, <1>5, <1>6, <1>7 DEF RevisionInv, ExecInv

LEMMA SavesOutside ==
    ASSUME TypeInv, NEW c \in Box, NEW status \in Status \ {"removed"}, SaveStatus(c, status),
           UNCHANGED <<env, rev, step, effect, exec, docker>>,
           \A a \in Actor : op'[a] = op[a] \/ op'[a].stage = "out"
    PROVE  Outside
<1>1. /\ \A d \in Box : d # c => box'[d] = box[d]
      /\ box'[c].status = status /\ box'[c].rev = box[c].rev
  BY Saved, TypesOf
<1>2. \A d \in Box : /\ box'[d].rev = box[d].rev
                     /\ box'[d].status = "absent" => box[d].status = "absent"
                     /\ box[d].status \notin {"absent", "removed"} => box'[d].status \notin {"absent", "removed"}
  BY <1>1 DEF Status
<1> QED
  BY <1>2 DEF Outside

LEMMA OutsideSteps ==
    ASSUME ContainerInv, RevisionInv, NoRace,
           \/ \E c \in Box : CreateOperatorBox(c)
           \/ \E a \in Actor : \/ \E c \in Box, kind \in Mutation : OperatorBegins(a, kind, c)
                               \/ OperatorFinishes(a)
           \/ MonitorSteps \/ SessionSteps
           \/ UNCHANGED vars
    PROVE  Outside
<1>0. /\ TypeInv /\ BoxTypeInv /\ RunInv /\ \A c \in Box : BoxFits(c)
      /\ op \in [Actor -> [kind : Mutation \cup {"none"}, box : Box \cup {Nothing},
                           stage : {"out", "checked", "acted"}, ok : BOOLEAN]]
      /\ box \in [Box -> Rows] /\ docker \in [Box -> [status : DockerStatus, boots : Nat]]
  BY TypesOf DEF ContainerInv, RevisionInv, RowInv, BoxTypeInv, BoxTypeOK
<1>1. ASSUME UNCHANGED <<env, rev, step, effect, exec>>, box' = box,
             \A c \in Box : docker'[c].status = "none" <=> docker[c].status = "none",
             \A a \in Actor :
                \/ op'[a] = op[a] \/ op'[a].stage = "out"
                \/ /\ op'[a].stage = "checked" /\ op'[a].kind # "delete"
                   /\ op'[a].kind = "remove" => ~Bound(op'[a].box) /\ ~Provisioning(op'[a].box)
      PROVE  Outside
  BY <1>1 DEF Outside
<1>2. ASSUME NEW c \in Box, CreateOperatorBox(c)
      PROVE  Outside
  <2>1. /\ box[c].status = "absent" /\ UNCHANGED <<op, env, rev, step, effect, exec>>
        /\ box' = [box EXCEPT ![c] = NewBox(Nothing)]
        /\ docker' = [docker EXCEPT ![c].status = "created"]
    BY <1>2 DEF CreateOperatorBox, CreateBox, DockerCreates, envVars, execVars
  <2>2. /\ box'[c].rev = Nothing /\ box'[c].status = "created" /\ box[c].rev = Nothing
        /\ docker'[c].status = "created"
        /\ \A d \in Box : d # c => box'[d] = box[d] /\ docker'[d] = docker[d]
    BY <1>0, <2>1 DEF NewBox, BoxFits
  <2> QED
    BY <2>1, <2>2 DEF Outside
<1>3. ASSUME NEW a \in Actor, NEW c \in Box, NEW kind \in Mutation, OperatorBegins(a, kind, c)
      PROVE  Outside
  <2>1. /\ UNCHANGED <<env, rev, step, effect, exec, box, docker>>
        /\ op'[a].stage = "checked" /\ op'[a].kind = kind /\ op'[a].box = c
        /\ \A b \in Actor : b # a => op'[b] = op[b]
    BY <1>0, <1>3 DEF OperatorBegins, BeginMutation, envVars, execVars
  <2>2. kind # "delete" /\ (kind = "remove" => ~Bound(c) /\ ~Provisioning(c))
    BY <1>3 DEF OperatorBegins, NoRace
  <2> QED
    BY <1>1, <2>1, <2>2
<1>4. ASSUME NEW a \in Actor, OperatorFinishes(a)
      PROVE  Outside
  <2>0. UNCHANGED <<env, rev, step, effect, exec>>
    BY <1>4 DEF OperatorFinishes, envVars, execVars
  <2>1. ASSUME Released(a)
        PROVE  \A b \in Actor : op'[b] = op[b] \/ op'[b].stage = "out"
    BY <1>0, <2>1 DEF Released, NoOp
  <2>2. CASE FinishMutation(a)
    <3>1. /\ op[a].box \in Box /\ Released(a) /\ docker' = docker
      BY <1>0, <2>2 DEF FinishMutation, BoxTypeInv
    <3>2. CASE UNCHANGED <<box, selected, bootOf>>
      BY <1>1, <2>0, <2>1, <3>1, <3>2
    <3>3. ASSUME NEW status \in Status \ {"removed"}, SaveStatus(op[a].box, status)
          PROVE  Outside
      BY <1>0, <2>0, <2>1, <3>1, <3>3, SavesOutside
    <3>4. {"error", "stopped", "paused"} \subseteq Status \ {"removed"} /\ Observed(op[a].box) \in Status \ {"removed"}
      BY <1>0, <3>1, ObservedIsStatus DEF Status
    <3> QED
      BY <1>0, <2>2, <3>2, <3>3, <3>4, FinishSaves
  <2>3. CASE FinishRemoval(a)
    <3>1. /\ op[a].stage = "acted" /\ op[a].kind = "remove" /\ Released(a) /\ docker' = docker
          /\ box' = box \/ box' = [box EXCEPT ![op[a].box].status = "removed"]
      BY <2>3 DEF FinishRemoval, RemoveRow
    <3>2. CASE box' = box
      BY <1>1, <2>0, <2>1, <3>1, <3>2
    <3>3. CASE box' = [box EXCEPT ![op[a].box].status = "removed"]
      <4>1. Under(a) /\ op[a].box \in Box
        BY <1>0, <3>1 DEF Under, BoxTypeInv
      <4>2. /\ box'[op[a].box].status = "removed" /\ box'[op[a].box].rev = box[op[a].box].rev
            /\ \A d \in Box : d # op[a].box => box'[d] = box[d]
        BY <1>0, <3>3, <4>1 DEF Rows
      <4> QED
        BY <2>0, <2>1, <3>1, <4>1, <4>2 DEF Outside
    <3> QED
      BY <3>1, <3>2, <3>3
  <2> QED
    BY <1>4, <2>2, <2>3 DEF OperatorFinishes
<1>5. CASE MonitorSteps
  <2>0. UNCHANGED <<env, rev, step, effect, exec>>
    BY <1>5 DEF MonitorSteps, envVars, execVars
  <2>1. CASE LoadSnapshots
    BY <1>1, <2>0, <2>1 DEF LoadSnapshots
  <2>2. ASSUME NEW c \in Box, NEW status \in Status \ {"removed"}, SaveStatus(c, status), UNCHANGED <<op, docker>>
        PROVE  Outside
    BY <1>0, <2>0, <2>2, SavesOutside
  <2>3. ASSUME NEW c \in Box, SyncStatus(c)
        PROVE  Outside
    <3>1. UNCHANGED <<op, docker>> /\ "error" \in Status \ {"removed"} /\ Observed(c) \in Status \ {"removed"}
      BY <1>0, <2>3, ObservedIsStatus DEF SyncStatus, Status
    <3>2. CASE UNCHANGED <<box, selected, bootOf>>
      BY <1>1, <2>0, <3>1, <3>2
    <3> QED
      BY <1>0, <2>2, <2>3, <3>1, <3>2, SyncSaves
  <2>4. ASSUME NEW c \in Box, ContainerExits(c)
        PROVE  Outside
    <3>1. /\ UNCHANGED <<box, op>> /\ docker[c].status = "running"
          /\ docker' = [docker EXCEPT ![c].status = "exited"]
      BY <2>4 DEF ContainerExits
    <3>2. \A d \in Box : docker'[d].status = "none" <=> docker[d].status = "none"
      BY <1>0, <3>1
    <3> QED
      BY <1>1, <2>0, <3>1, <3>2
  <2>5. ASSUME NEW c \in Box, SaveNoted(c)
        PROVE  Outside
    <3>1. UNCHANGED <<op, docker>> /\ noted[c] \in Status \ {"removed"}
      BY <1>0, <2>5 DEF SaveNoted, RunInv, Status
    <3>2. CASE UNCHANGED <<box, selected, bootOf>>
      BY <1>1, <2>0, <3>1, <3>2
    <3> QED
      BY <2>2, <2>5, <3>1, <3>2 DEF SaveNoted
  <2> QED
    BY <1>5, <2>1, <2>3, <2>4, <2>5 DEF MonitorSteps
<1>6. CASE SessionSteps
  <2>1. UNCHANGED <<env, rev, step, effect, exec, box, docker, op>>
    BY <1>6 DEF SessionSteps, AdmitRun, SelectBox, EndRun, ObserveDown, envVars, execVars
  <2> QED
    BY <1>1, <2>1
<1>7. CASE UNCHANGED vars
  <2>1. UNCHANGED <<env, rev, step, effect, exec, box, docker, op>>
    BY <1>7 DEF vars, boxVars, envVars, execVars
  <2> QED
    BY <1>1, <2>1
<1> QED
  BY <1>2, <1>3, <1>4, <1>5, <1>6, <1>7

\* What a call of Docker does to the containers and to what is in effect in them.
LEMMA CalledOn ==
    ASSUME TypeInv, GoneInv, NEW a \in Actor, DockerIsCalled(a)
    PROVE  LET c == op[a].box IN
           /\ c \in Box /\ Under(a) /\ op'[a].stage = "acted"
           /\ UNCHANGED <<box, env, rev, step, exec>>
           /\ \A b \in Actor : op'[b].kind = op[b].kind /\ op'[b].box = op[b].box
           /\ \A b \in Actor : b # a => op'[b] = op[b]
           /\ \A d \in Box : docker[d].status = "none" => docker'[d].status = "none"
           /\ \A d \in Box : docker'[d].status = "none" =>
                 \/ docker[d].status = "none"
                 \/ d = c /\ op[a].kind \in {"remove", "delete"}
           /\ op'[a].ok /\ op[a].kind \in {"remove", "delete"} => docker'[c].status = "none"
           /\ \A d \in Box : effect'[d] = IF docker'[d].status = "none" THEN {} ELSE effect[d]
<1> DEFINE c == op[a].box
<1>0. /\ docker \in [Box -> [status : DockerStatus, boots : Nat]] /\ BoxTypeInv
      /\ CallDocker(a) /\ UNCHANGED <<env, rev, step, exec>>
      /\ \A d \in Box : effect'[d] = IF docker'[d].status = "none" THEN {} ELSE effect[d]
  BY TypesOf DEF DockerIsCalled, BoxTypeInv, BoxTypeOK, envVars
<1>1. /\ op[a].stage = "checked" /\ c \in Box /\ op[a].kind \in Mutation /\ op'[a].stage = "acted"
      /\ UNCHANGED box
      /\ \A b \in Actor : op'[b].kind = op[b].kind /\ op'[b].box = op[b].box
      /\ \A b \in Actor : b # a => op'[b] = op[b]
      /\ \/ UNCHANGED docker /\ ~op'[a].ok
         \/ docker' = [docker EXCEPT ![c] = Effect(op[a].kind, @)]
  BY <1>0, Called
<1>2. CASE UNCHANGED docker /\ ~op'[a].ok
  BY <1>0, <1>1, <1>2 DEF Under
<1>3. CASE docker' = [docker EXCEPT ![c] = Effect(op[a].kind, @)]
  <2>1. docker'[c] = Effect(op[a].kind, docker[c]) /\ \A d \in Box : d # c => docker'[d] = docker[d]
    BY <1>0, <1>1, <1>3
  <2>2. docker[c] \in [status : DockerStatus, boots : Nat]
    BY <1>0, <1>1
  <2>3. /\ docker[c].status = "none" => docker'[c].status = "none"
        /\ docker'[c].status = "none" => docker[c].status = "none" \/ op[a].kind \in {"remove", "delete"}
        /\ op[a].kind \in {"remove", "delete"} => docker'[c].status = "none"
    <3>1. CASE op[a].kind \in {"remove", "delete"}
      BY <2>1, <2>2, <3>1 DEF Effect, Gone
    <3>2. CASE op[a].kind \in Mutation \ {"remove", "delete"}
      <4>1. CASE op[a].kind = "start"
        BY <2>1, <2>2, <4>1 DEF Effect
      <4>2. CASE op[a].kind \in {"stop", "pause", "resume"}
        BY <2>1, <2>2, <4>2 DEF Effect
      <4> QED
        BY <3>2, <4>1, <4>2 DEF Mutation
    <3> QED
      BY <1>1, <3>1, <3>2
  <2> QED
    BY <1>0, <1>1, <2>1, <2>3 DEF Under
<1> QED
  BY <1>1, <1>2, <1>3

\* A container that an environment has and that goes was deleted by the executor of
\* the revision that is under way there.
LEMMA GoneIsDeleted ==
    ASSUME TypeInv, RevisionInv, NEW a \in Actor, Under(a), op[a].box \in Box,
           op[a].kind \in {"remove", "delete"}, NEW e \in Env, env[e].box = op[a].box
    PROVE  /\ a \in Node /\ exec[a].at \in {"failing", "releasing"}
           /\ exec[a].rev \in Rev /\ rev[exec[a].rev].env = e /\ env[e].active = exec[a].rev
           /\ env[e].applied = Nothing
           /\ rev[exec[a].rev].status = "executing" =>
                 \A k \in 1..Steps : step[exec[a].rev][k] = "pending"
<1> DEFINE x == exec[a]  r == x.rev  d == rev[r].env  c == x.box
<1>0. /\ RemovalInv /\ ExecInv /\ \A q \in Rev : RevFits(q)
      /\ \A f, g \in Env : env[f].box = env[g].box /\ env[f].box # Nothing => f = g
  BY DEF RevisionInv, RowInv
<1>1. op[a].kind = "delete" /\ a \in Node
  BY <1>0 DEF RemovalInv, Bound
<1>2. x.at \in {"failing", "releasing"} /\ c = op[a].box /\ c # Nothing
  BY <1>1, TypesOf, BoxAssumption DEF WellFormed, Under
<1>3. r \in Rev /\ d \in Env
  BY <1>1, <1>2, AtWork
<1>4. /\ env[d].box = c /\ env[d].applied = Nothing /\ rev[r].status \in UnderWay
      /\ rev[r].status = "executing" => \A k \in 1..Steps : step[r][k] = "pending"
  <2>1. Sound(a)
    BY <1>0, <1>1 DEF ExecInv
  <2>2. CASE x.at = "failing"
    BY <2>1, <2>2 DEF Sound, Provisional, ProvisionalFits, UnderWay
  <2>3. CASE x.at = "releasing"
    BY <2>1, <2>3 DEF Sound, Undoing, UndoingFits, ReleasesContainer, UnderWay
  <2> QED
    BY <1>2, <2>2, <2>3
<1>5. d = e
  BY <1>0, <1>2, <1>3, <1>4
<1>6. env[e].active = r
  BY <1>0, <1>3, <1>4, <1>5 DEF RevFits
<1> QED
  BY <1>1, <1>2, <1>3, <1>4, <1>5, <1>6

LEMMA DockerKeeps ==
    ASSUME TypeInv, RevisionInv, NEW a \in Actor, DockerIsCalled(a)
    PROVE  RevisionInv'
<1> DEFINE c == op[a].box
<1>0. /\ Leases /\ RowInv /\ RemovalInv /\ GoneInv /\ StepInv /\ ExecInv
      /\ \A r \in Rev : RevFits(r)
      /\ \A d \in Box : BoxFits(d)
  BY DEF RevisionInv, RowInv
<1>1. /\ c \in Box /\ Under(a) /\ op'[a].stage = "acted"
      /\ box' = box /\ env' = env /\ rev' = rev /\ step' = step /\ exec' = exec
      /\ \A b \in Actor : op'[b].kind = op[b].kind /\ op'[b].box = op[b].box
      /\ \A b \in Actor : b # a => op'[b] = op[b]
      /\ \A d \in Box : docker[d].status = "none" => docker'[d].status = "none"
      /\ \A d \in Box : docker'[d].status = "none" =>
            docker[d].status = "none" \/ (d = c /\ op[a].kind \in {"remove", "delete"})
      /\ op'[a].ok /\ op[a].kind \in {"remove", "delete"} => docker'[c].status = "none"
      /\ \A d \in Box : effect'[d] = IF docker'[d].status = "none" THEN {} ELSE effect[d]
  BY <1>0, CalledOn
<1>2. Leases'
  BY <1>0, <1>1 DEF Leases
<1>3. RowInv'
  <2>1. \A e \in Env : EnvFits(e)'
    BY <1>0, <1>1 DEF RowInv, EnvFits
  <2>2. \A r \in Rev : RevFits(r)'
    BY <1>0, <1>1 DEF RevFits
  <2>3. \A d \in Box : BoxFits(d)'
    BY <1>0, <1>1 DEF BoxFits, Awaited
  <2> QED
    BY <1>0, <1>1, <2>1, <2>2, <2>3 DEF RowInv
<1>4. RemovalInv'
  <2>1. \A b \in Actor : Under(b)' => Under(b)
    BY <1>1 DEF Under
  <2> QED
    BY <1>0, <1>1, <2>1 DEF RemovalInv, Bound, Provisioning
<1>5. GoneInv'
  <2>1. ASSUME NEW b \in Actor, Under(b)', op'[b].stage = "acted", op'[b].ok,
               op'[b].kind \in {"remove", "delete"}
        PROVE  docker'[op'[b].box].status = "none"
    <3>1. CASE b = a
      BY <1>1, <2>1, <3>1
    <3>2. CASE b # a
      <4>1. op'[b] = op[b] /\ Under(b) /\ op[b].box \in Box
        BY <1>1, <2>1, <3>2, TypesOf DEF Under, BoxTypeInv
      <4> QED
        BY <1>0, <1>1, <2>1, <4>1 DEF GoneInv
    <3> QED
      BY <3>1, <3>2
  <2>2. \A d \in Box : docker'[d].status = "none" => effect'[d] = {}
    BY <1>1
  <2> QED
    BY <2>1, <2>2 DEF GoneInv
\* What was in effect and is no longer was in a container of no environment, or in one
\* that the executor of its active revision deletes.
<1>6. ASSUME NEW e \in Env, env[e].box # Nothing,
             effect'[env[e].box] # effect[env[e].box]
      PROVE  /\ a \in Node /\ exec[a].at \in {"failing", "releasing"}
             /\ exec[a].rev \in Rev /\ rev[exec[a].rev].env = e /\ env[e].active = exec[a].rev
             /\ env[e].applied = Nothing
             /\ rev[exec[a].rev].status = "executing" =>
                   \A k \in 1..Steps : step[exec[a].rev][k] = "pending"
  <2>1. env[e].box \in Box
    <3>1. env[e] \in EnvRows
      BY TypesOf
    <3> QED
      BY <1>6, <3>1, EnvRowFields
  <2>2. env[e].box = c /\ op[a].kind \in {"remove", "delete"}
    BY <1>0, <1>1, <1>6, <2>1 DEF GoneInv
  <2> QED
    BY <1>1, <2>2, GoneIsDeleted
<1>7. ASSUME NEW r \in Rev
      PROVE  StepsFit(r)'
  <2> DEFINE e == rev[r].env
  <2>1. StepsFit(r) /\ RevFits(r)
    BY <1>0 DEF StepInv
  <2>2. \A k \in 1..Steps, d \in Box : <<r, k>> \in effect'[d] => <<r, k>> \in effect[d]
    BY <1>1
  <2>3. ASSUME rev[r].status = "executing", NEW k \in 1..Steps, step[r][k] = "verified"
        PROVE  env[e].box # Nothing /\ <<r, k>> \in effect'[env[e].box]
    <3>1. env[e].box # Nothing /\ <<r, k>> \in effect[env[e].box] /\ e \in Env /\ env[e].active = r
      BY <2>1, <2>3, TypesOf DEF StepsFit, RevFits, UnderWay, WellFormed
    <3>2. CASE effect'[env[e].box] = effect[env[e].box]
      BY <3>1, <3>2
    <3>3. CASE effect'[env[e].box] # effect[env[e].box]
      BY <1>6, <2>3, <3>1, <3>3
    <3> QED
      BY <3>2, <3>3
  <2>4. ASSUME rev[r].status = "applied", NEW k \in 1..Steps
        PROVE  env[e].box # Nothing /\ <<r, k>> \in effect'[env[e].box]
    <3>1. env[e].box # Nothing /\ <<r, k>> \in effect[env[e].box] /\ e \in Env /\ env[e].applied # Nothing
      BY <2>1, <2>4, TypesOf DEF StepsFit, RevFits, WellFormed
    <3> QED
      BY <1>6, <3>1
  <2> QED
    BY <1>1, <2>1, <2>2, <2>3, <2>4 DEF StepsFit
<1>8. ASSUME NEW m \in Node
      PROVE  Sound(m)'
  <2> DEFINE x == exec[m]  r == x.rev  e == rev[r].env
  <2>0. Sound(m)
    BY <1>0 DEF ExecInv
  <2>1. CASE r \notin Rev
    BY <1>1, <2>0, <2>1, SparedStaysSound DEF Spared
  <2>2. CASE r \in Rev
    <3>1. r # Nothing /\ x.at \notin {"idle", "dead"} /\ e \in Env
      BY <2>2, TypesOf, RevAssumption DEF WellFormed
    <3>2. ASSUME x.at \in Applying, NEW k \in 1..Steps, <<r, k>> \in effect[x.box]
          PROVE  <<r, k>> \in effect'[x.box]
      <4>1. env[e].box = x.box /\ x.box # Nothing /\ rev[r].status = "executing"
        BY <2>0, <3>2 DEF Sound, ApplyingFits
      <4>2. env[e].active = r
        BY <1>0, <2>2, <4>1 DEF RevFits, UnderWay
      <4>3. CASE effect'[env[e].box] = effect[env[e].box]
        BY <3>2, <4>1, <4>3
      <4>4. CASE effect'[env[e].box] # effect[env[e].box]
        <5>1. a \in Node /\ exec[a].at \in {"failing", "releasing"} /\ exec[a].rev = r
          BY <1>6, <3>1, <4>1, <4>2, <4>4
        <5> QED
          BY <1>0, <3>1, <3>2, <5>1 DEF Leases, Applying
      <4> QED
        BY <4>3, <4>4
    <3>3. x.at = "created" =>
            /\ box'[x.box].rev = box[x.box].rev /\ box'[x.box].status \notin {"absent", "removed"}
            /\ \A f \in Env : env'[f].box # x.box
      BY <1>1, <2>0 DEF Sound, Bound
    <3>4. \A k \in 1..Steps, d \in Box : <<r, k>> \in effect'[d] => <<r, k>> \in effect[d]
      BY <1>1
    <3>5. Spared(m)
      BY <1>1, <3>2, <3>3, <3>4 DEF Spared
    <3> QED
      BY <2>0, <3>5, SparedStaysSound
  <2> QED
    BY <2>1, <2>2
<1> QED
  BY <1>2, <1>3, <1>4, <1>5, <1>7, <1>8 DEF RevisionInv, ExecInv, StepInv

-----------------------------------------------------------------------------
(* Requests on the row of an environment.                                  *)

\* A request touches one environment and at most a revision that nobody executes yet;
\* it gives the environment a container only when it creates it.
Requested(e, q) ==
    /\ UNCHANGED <<box, docker, op, exec, step, effect>>
    /\ OnRow(e, q) /\ RowFitsIn(e, q)
    /\ env[e].status # "absent" => env'[e].box = env[e].box
    /\ env'[e].box \notin {Nothing, env[e].box} =>
          /\ ~Provisioning(env'[e].box)
          /\ ~\E a \in Actor : Under(a) /\ op[a].kind = "remove" /\ op[a].box = env'[e].box
    /\ q # Nothing =>
          /\ rev[q].status \in {"absent", "pending_approval"}
          /\ rev'[q].status \in {"planned", "pending_approval", "rejected"}

LEMMA RequestKeeps ==
    ASSUME TypeInv, TypeInv', RevisionInv, NEW e \in Env, NEW q \in Rev \cup {Nothing}, Requested(e, q)
    PROVE  RevisionInv'
<1>0. /\ Leases /\ RowInv /\ RemovalInv /\ GoneInv /\ StepInv /\ ExecInv
      /\ \A r \in Rev : RevFits(r) /\ StepsFit(r)
      /\ \A c \in Box : BoxFits(c)
      /\ box' = box /\ docker' = docker /\ op' = op /\ exec' = exec /\ step' = step /\ effect' = effect
  BY DEF RevisionInv, RowInv, StepInv, Requested
<1>00. /\ \A d \in Env : d # e => env'[d] = env[d]
       /\ \A r \in Rev : r # q => rev'[r] = rev[r]
       /\ env[e].active \in {Nothing, q} /\ env'[e].active \in {Nothing, q}
       /\ env[e].status # "absent" =>
             env'[e].status # "absent" /\ env'[e].platform = env[e].platform /\ env'[e].box = env[e].box
       /\ q # Nothing =>
             /\ q \in Rev /\ rev'[q].env = e /\ (rev[q].status # "absent" => rev[q].env = e)
             /\ rev[q].status \in {"absent", "pending_approval"}
             /\ rev'[q].status \in {"planned", "pending_approval", "rejected"}
       /\ \A d \in Env : env[d] \in EnvRows /\ (env[d].box # Nothing => env[d].status # "absent")
       /\ \A r \in Rev : rev[r].status # "absent" => rev[r].env \in Env
       /\ Nothing \notin Rev
  <2>1. \A d \in Env : env[d] \in EnvRows
    BY TypesOf
  <2>2. \A d \in Env : env[d].box # Nothing => env[d].status # "absent"
    BY <2>1, EnvRowFields DEF NoEnvironment
  <2> QED
    BY <2>1, <2>2, TypesOf, RevAssumption DEF Requested, OnRow, WellFormed
\* A revision that is under way, but for q, is in another environment.
<1>1. ASSUME NEW r \in Rev, r # q, rev[r].status \in UnderWay
      PROVE  rev[r].env \in Env /\ env'[rev[r].env] = env[rev[r].env] /\ rev'[r] = rev[r]
  <2>1. rev[r].env \in Env /\ env[rev[r].env].active = r
    BY <1>0, <1>00, <1>1 DEF RevFits, UnderWay
  <2> QED
    BY <1>00, <1>1, <2>1
<1>2. RowInv'
  <2>1. BoundStay
    BY <1>0 DEF BoundStay
  <2>2. /\ \A d \in Env : EnvFits(d)'
        /\ \A r \in Rev : RevFits(r)'
        /\ \A d, f \in Env : env'[d].box = env'[f].box /\ env'[d].box # Nothing => d = f
    BY <1>0, <2>1, RowsKept DEF Requested
  <2>3. ASSUME NEW c \in Box
        PROVE  BoxFits(c)'
    <3> DEFINE r == box[c].rev
    <3>1. CASE r = Nothing
      BY <1>0, <3>1 DEF BoxFits
    <3>2. CASE r # Nothing
      <4>1. /\ r \in Rev /\ rev[r].status # "absent" /\ rev[r].kind = "initial" /\ rev[r].env \in Env
            /\ env[rev[r].env].platform /\ env[rev[r].env].status # "absent"
            /\ box[c].status # "absent"
            /\ docker[c].status # "none" => rev[r].status \in UnderWay /\ Awaited(c, r)
        BY <1>0, <3>2, TypesOf DEF BoxFits, RevFits, WellFormed, BoxTypeInv, Rows
      <4>2. r # q
        BY <1>0, <1>00, <4>1 DEF RevFits
      <4>3. rev'[r] = rev[r] /\ env'[rev[r].env].platform
        BY <1>00, <4>1, <4>2
      <4>4. docker[c].status # "none" => rev[r].status \in UnderWay /\
               \/ env'[rev[r].env].box = c
               \/ \E n \in Node : exec[n].rev = r /\ exec[n].at = "created" /\ exec[n].box = c
        BY <1>1, <4>1, <4>2 DEF Awaited
      <4> QED
        BY <1>0, <3>2, <4>1, <4>3, <4>4 DEF BoxFits, Awaited
    <3> QED
      BY <3>1, <3>2
  <2> QED
    BY <2>2, <2>3 DEF RowInv
<1>3. RemovalInv'
  <2> SUFFICES ASSUME NEW a \in Actor, Under(a), op[a].kind = "remove"
               PROVE  /\ \A f \in Env : env'[f].box # op[a].box
                      /\ LET w == box[op[a].box].rev IN w = Nothing \/ rev'[w].status # "executing"
    BY <1>0 DEF RemovalInv, Bound, Provisioning, Under
  <2> DEFINE c == op[a].box
  <2>1. /\ c \in Box /\ c # Nothing /\ box[c].rev \in Rev \cup {Nothing}
        /\ \A f \in Env : env[f].box # c
        /\ box[c].rev = Nothing \/ rev[box[c].rev].status # "executing"
    BY <1>0, TypesOf, BoxAssumption DEF Under, BoxTypeInv, Rows, RemovalInv, Bound, Provisioning
  <2>2. \A f \in Env : env'[f].box # c
    BY <1>00, <2>1 DEF Requested
  <2>3. box[c].rev # Nothing => rev'[box[c].rev].status # "executing"
    BY <1>00, <2>1
  <2> QED
    BY <2>2, <2>3
<1>4. ASSUME NEW r \in Rev
      PROVE  StepsFit(r)'
  <2>1. CASE r = q
    <3>1. rev[r].status \in Clean /\ rev'[r].status \in Clean /\ rev'[r].status \notin {"executing", "applied"}
      BY <1>00, <2>1, RevAssumption DEF Clean
    <3>2. \A k \in 1..Steps : step[r][k] \in {"pending", "rolled_back"}
      BY <1>0, <3>1 DEF StepsFit
    <3>3. \A k \in 1..Steps, c \in Box : <<r, k>> \notin effect[c]
      BY <1>0, <3>2 DEF StepsFit
    <3> QED
      BY <1>0, <3>1, <3>2, <3>3 DEF StepsFit
  <2>2. CASE r # q
    <3>1. rev'[r] = rev[r] /\ StepsFit(r)
      BY <1>0, <1>00, <2>2
    <3>2. CASE rev[r].status = "absent"
      BY <1>0, <3>1, <3>2 DEF StepsFit
    <3>3. CASE rev[r].status # "absent"
      <4>1. rev[r].env \in Env /\ env[rev[r].env].status # "absent"
        BY <1>0, <1>00, <3>3 DEF RevFits
      <4>2. env'[rev[r].env].box = env[rev[r].env].box
        BY <1>00, <4>1
      <4> QED
        BY <1>0, <3>1, <4>2 DEF StepsFit
    <3> QED
      BY <3>2, <3>3
  <2> QED
    BY <2>1, <2>2
<1>5. ASSUME NEW m \in Node
      PROVE  Sound(m)'
  <2> DEFINE x == exec[m]  r == x.rev  d == rev[r].env
  <2>0. Sound(m)
    BY <1>0 DEF ExecInv
  <2>1. CASE r \notin Rev
    BY <1>0, <2>0, <2>1, SparedStaysSound DEF Spared
  <2>2. CASE r \in Rev
    <3>1. r # Nothing /\ x.at \notin {"idle", "dead"} /\ d \in Env /\ rev[r].status # "absent"
      BY <2>2, TypesOf, RevAssumption DEF WellFormed
    <3>2. rev'[r].env = d
      BY <1>00, <2>2, <3>1
    <3>3. env'[d].active = r => env[d].active = r /\ env'[d].box = env[d].box
      <4>1. CASE d # e
        BY <1>00, <3>1, <4>1
      <4>2. CASE d = e /\ r # q
        BY <1>00, <3>1, <4>2
      <4>3. CASE d = e /\ r = q
        <5>1. rev[r].status = "pending_approval"
          BY <1>00, <3>1, <4>3
        <5>2. env[d].active = r /\ env[d].status # "absent"
          BY <1>0, <2>2, <5>1 DEF RevFits, UnderWay
        <5> QED
          BY <1>00, <4>3, <5>2
      <4> QED
        BY <4>1, <4>2, <4>3
    <3>4. ASSUME x.at # "rollback"
          PROVE  rev'[r] = rev[r] /\ env'[d] = env[d]
      <4>1. rev[r].status \in {"executing", "rolling_back"}
        BY <2>0, <3>1, <3>4, TypesOf
           DEF Sound, ProvisionalFits, ApplyingFits, UndoingFits, Provisional, Applying, Undoing,
               Executor, Stage
      <4>2. r # q
        BY <1>00, <3>1, <4>1
      <4> QED
        BY <1>1, <2>2, <4>1, <4>2 DEF UnderWay
    <3>5. ASSUME x.at = "created"
          PROVE  \A f \in Env : env'[f].box # x.box
      <4>1. /\ ~Bound(x.box) /\ Provisioning(x.box) /\ x.box \in Box
        BY <2>0, <3>1, <3>5, AtWork DEF Sound, Provisional, ProvisionalFits, Provisioning
      <4> QED
        BY <1>00, <4>1, BoxAssumption DEF Bound, Requested
    <3>6. x.at = "created" => box[x.box].status \notin {"absent", "removed"}
      BY <2>0 DEF Sound
    <3>7. Spared(m)
      BY <1>0, <3>2, <3>3, <3>4, <3>5, <3>6 DEF Spared
    <3> QED
      BY <2>0, <3>7, SparedStaysSound
  <2> QED
    BY <2>1, <2>2
<1>6. Leases' /\ GoneInv'
  BY <1>0 DEF Leases, GoneInv, Under
<1> QED
  BY <1>2, <1>3, <1>4, <1>5, <1>6 DEF RevisionInv, ExecInv, StepInv

LEMMA NewRow ==
    ASSUME NEW c \in Box \cup {Nothing}
    PROVE  NewEnvironment(c) = Row("draft", Nothing, Nothing, c, c = Nothing)
<1> DEFINE l == NoEnvironment  y == [l EXCEPT !.status = "draft", !.box = c, !.platform = c = Nothing]
           Wide == [status : EnvironmentStatus \cup {"absent"}, applied : Rev \cup {Nothing},
                    active : Rev \cup {Nothing}, box : Box \cup {Nothing}, platform : BOOLEAN]
<1>1. l \in Wide /\ l.applied = Nothing /\ l.active = Nothing
  BY DEF NoEnvironment
<1>2. NewEnvironment(c) = y
  BY DEF NewEnvironment
<1> HIDE DEF l
<1>3. /\ y \in Wide /\ y.status = "draft" /\ y.box = c /\ y.platform = (c = Nothing)
      /\ y.applied = Nothing /\ y.active = Nothing
  BY <1>1 DEF EnvironmentStatus, Stable
<1> HIDE DEF y
<1>4. y = [status |-> y.status, applied |-> y.applied, active |-> y.active, box |-> y.box, platform |-> y.platform]
  BY <1>3
<1> QED
  BY <1>2, <1>3, <1>4 DEF Row

LEMMA RowFields ==
    ASSUME NEW s, NEW a, NEW r, NEW c, NEW p
    PROVE  LET l == Row(s, a, r, c, p) IN
           l.status = s /\ l.applied = a /\ l.active = r /\ l.box = c /\ l.platform = p
BY DEF Row

LEMMA RequestSteps ==
    ASSUME ContainerInv, RevisionInv, NoRace,
           \/ \E e \in Env : \/ CreateEnvironment(e)
                             \/ \E c \in Box : AdoptBox(e, c)
                             \/ \E r \in Rev, risky \in BOOLEAN : PlanRevision(e, r, risky)
                             \/ \E status \in Stable : SetEnvironmentStatus(e, status)
           \/ \E r \in Rev, approve \in BOOLEAN : DecideRevision(r, approve)
    PROVE  \E e \in Env, q \in Rev \cup {Nothing} : Requested(e, q)
<1>0. /\ TypeInv /\ env \in [Env -> EnvRows] /\ rev \in [Rev -> RevRows] /\ Nothing \notin Rev
      /\ Nothing \notin Box
      /\ \A e \in Env : EnvFits(e) /\ env[e] \in EnvRows
      /\ \A r \in Rev : RevFits(r)
  BY TypesOf, RevAssumption, BoxAssumption DEF ContainerInv, RevisionInv, RowInv
\* An environment is created with a container or without.
<1>1. ASSUME NEW e \in Env, NEW c \in Box \cup {Nothing}, env[e].status = "absent",
             env' = [env EXCEPT ![e] = NewEnvironment(c)],
             UNCHANGED <<box, docker, op, exec, rev, step, effect>>,
             c # Nothing => box[c].status \notin {"absent", "removed"} /\ ~Bound(c) /\ ~Provisioning(c),
             ~\E a \in Actor : Under(a) /\ op[a].kind = "remove" /\ op[a].box = c
      PROVE  Requested(e, Nothing)
  <2>1. env[e] = NoEnvironment
    BY <1>0, <1>1, EnvRowFields
  <2>2. /\ env'[e].status = "draft" /\ env'[e].applied = Nothing /\ env'[e].active = Nothing
        /\ env'[e].box = c /\ env'[e].platform = (c = Nothing)
        /\ \A d \in Env : d # e => env'[d] = env[d]
    BY <1>0, <1>1, NewRow, RowFields
  <2>3. env[e].active = Nothing /\ env[e].applied = Nothing
    BY <2>1 DEF NoEnvironment
  <2>4. OnRow(e, Nothing)
    BY <1>1, <2>2, <2>3 DEF OnRow
  <2>5. Shape(env'[e])
    BY <2>2 DEF Shape, Transitioning
  <2>6. RowFitsIn(e, Nothing)
    BY <1>1, <2>2, <2>5 DEF RowFitsIn, Bound
  <2> QED
    BY <1>1, <2>2, <2>4, <2>6 DEF Requested
<1>2. ASSUME NEW e \in Env, CreateEnvironment(e)
      PROVE  Requested(e, Nothing)
  <2>1. /\ env[e].status = "absent" /\ env' = [env EXCEPT ![e] = NewEnvironment(Nothing)]
        /\ UNCHANGED <<box, docker, op, exec, rev, step, effect>>
    BY <1>2 DEF CreateEnvironment, boxVars, execVars
  <2>2. \A a \in Actor : Under(a) => op[a].box # Nothing
    BY <1>0, TypesOf DEF BoxTypeInv, Under
  <2> QED
    BY <1>1, <2>1, <2>2
<1>3. ASSUME NEW e \in Env, NEW c \in Box, AdoptBox(e, c)
      PROVE  Requested(e, Nothing)
  <2>1. UNCHANGED <<box, docker, op, exec, rev, step, effect>>
    BY <1>3 DEF AdoptBox, execVars
  <2>2. ~Provisioning(c) /\ ~\E a \in Actor : op[a].kind = "remove" /\ op[a].box = c
    BY <1>3 DEF AdoptBox, NoRace
  <2> QED
    BY <1>0, <1>1, <1>3, <2>1, <2>2 DEF AdoptBox
<1>4. ASSUME NEW e \in Env, NEW r \in Rev, NEW risky \in BOOLEAN, PlanRevision(e, r, risky)
      PROVE  Requested(e, r)
  <2> DEFINE l == env[e]  v == NewRevision(e, risky)
             moving == IF l.applied = Nothing THEN "building" ELSE "adapting"
  <2>1. /\ UNCHANGED <<box, docker, op, exec, step, effect>> /\ CanPlan(l) /\ rev[r].status = "absent"
        /\ env' = [env EXCEPT ![e] = Planned(@, r)] /\ rev' = [rev EXCEPT ![r] = v]
    BY <1>4 DEF PlanRevision, boxVars, execVars
  <2>2. /\ env'[e].status = moving /\ env'[e].applied = l.applied /\ env'[e].active = r
        /\ env'[e].box = l.box /\ env'[e].platform = l.platform
        /\ \A d \in Env : d # e => env'[d] = env[d]
    <3>1. env'[e] = Planned(l, r) /\ \A d \in Env : d # e => env'[d] = env[d]
      BY <1>0, <2>1
    <3> QED
      BY <1>0, <3>1, LifecycleRecords, RowFields
  <2>3. /\ rev'[r].env = e /\ rev'[r].kind = PlannedKind(l)
        /\ rev'[r].status \in {"planned", "pending_approval"}
        /\ rev'[r].status = "pending_approval" => rev'[r].kind = "adaptive"
        /\ \A q \in Rev : q # r => rev'[q] = rev[q]
    BY <1>0, <2>1 DEF NewRevision, RequiresApproval
  <2>4. l.active = Nothing /\ Shape(l) /\ l.status # "absent"
    BY <2>1 DEF CanPlan
  <2>5. OnRow(e, r)
    BY <1>0, <2>1, <2>2, <2>3, <2>4 DEF OnRow
  <2>6. Shape(env'[e])
    BY <1>0, <2>2, <2>4 DEF Shape, Transitioning
  <2>7. RowFitsIn(e, r)
    BY <1>0, <2>2, <2>3, <2>6 DEF RowFitsIn, UnderWay, PlannedKind
  <2> QED
    BY <2>1, <2>2, <2>3, <2>5, <2>7 DEF Requested
<1>5. ASSUME NEW e \in Env, NEW status \in Stable, SetEnvironmentStatus(e, status)
      PROVE  Requested(e, Nothing)
  <2> DEFINE l == env[e]
  <2>1. /\ UNCHANGED <<box, docker, op, exec, rev, step, effect>> /\ status \in Allowed(l.status)
        /\ env' = [env EXCEPT ![e] = [l EXCEPT !.status = status]]
    BY <1>5 DEF SetEnvironmentStatus, boxVars, execVars
  <2>2. /\ env'[e].status = status /\ env'[e].applied = l.applied /\ env'[e].active = l.active
        /\ env'[e].box = l.box /\ env'[e].platform = l.platform
        /\ \A d \in Env : d # e => env'[d] = env[d]
    <3>0. \E r \in Rev \cup {Nothing} : TRUE
      BY <1>0
    <3>1. l = Row(l.status, l.applied, l.active, l.box, l.platform) /\ status \in EnvironmentStatus
      <4>1. CASE l \in Lifecycle
        BY <4>1 DEF Lifecycle, Row, EnvironmentStatus
      <4>2. CASE l = NoEnvironment
        BY <4>2 DEF NoEnvironment, Row, EnvironmentStatus
      <4> QED
        BY <1>0, <4>1, <4>2 DEF EnvRows
    <3>2. env'[e] = [l EXCEPT !.status = status] /\ \A d \in Env : d # e => env'[d] = env[d]
      BY <1>0, <2>1
    <3>3. [l EXCEPT !.status = status] = Row(status, l.applied, l.active, l.box, l.platform)
      BY <3>1 DEF Row
    <3> QED
      BY <3>2, <3>3, RowFields
  <2>3. /\ l.status \in {"draft", "active", "paused"} /\ status \in {"retired", "paused", "active"}
        /\ l.status = "draft" => status = "retired"
    BY <2>1 DEF Allowed
  <2>4. Shape(l) /\ l.active = Nothing
    BY <1>0, <2>3 DEF EnvFits, Shape, Transitioning
  <2>5. Shape(env'[e])
    BY <2>2, <2>3, <2>4 DEF Shape, Transitioning
  <2>6. OnRow(e, Nothing)
    BY <2>1, <2>2, <2>3, <2>4 DEF OnRow
  <2>7. RowFitsIn(e, Nothing)
    BY <2>2, <2>4, <2>5 DEF RowFitsIn
  <2> QED
    BY <2>1, <2>2, <2>6, <2>7 DEF Requested
<1>6. ASSUME NEW r \in Rev, NEW approve \in BOOLEAN, DecideRevision(r, approve)
      PROVE  rev[r].env \in Env /\ Requested(rev[r].env, r)
  <2> DEFINE e == rev[r].env  l == env[e]
  <2>1. /\ UNCHANGED <<box, docker, op, exec, step, effect>> /\ rev[r].status = "pending_approval"
        /\ IsActive(l, r) /\ rev' = [rev EXCEPT ![r].status = IF approve THEN "planned" ELSE "rejected"]
        /\ env' = IF approve THEN env ELSE [env EXCEPT ![e] = Baseline(@)]
    BY <1>6 DEF DecideRevision, boxVars, execVars
  <2>2. e \in Env /\ r # Nothing
    BY <1>0, <2>1, TypesOf DEF WellFormed
  <2>3. /\ rev'[r].status = IF approve THEN "planned" ELSE "rejected"
        /\ rev'[r].env = e /\ rev'[r].kind = rev[r].kind
        /\ \A q \in Rev : q # r => rev'[q] = rev[q]
    BY <1>0, <2>1 DEF RevRows
  <2>4. rev[r].kind = "adaptive" /\ l.active = r /\ PlannedKind(l) = "adaptive" /\ l.applied # Nothing
    BY <1>0, <2>1 DEF RevFits, UnderWay, PlannedKind
  <2>5. /\ env'[e].applied = l.applied /\ env'[e].box = l.box /\ env'[e].platform = l.platform
        /\ env'[e].active = (IF approve THEN r ELSE Nothing)
        /\ env'[e].status = (IF approve THEN l.status ELSE "active")
        /\ \A d \in Env : d # e => env'[d] = env[d]
    <3>1. CASE approve
      BY <1>0, <2>1, <2>4, <3>1
    <3>2. CASE ~approve
      <4>1. env'[e] = Baseline(l) /\ \A d \in Env : d # e => env'[d] = env[d]
        BY <1>0, <2>1, <2>2, <3>2
      <4> QED
        BY <1>0, <2>2, <2>4, <3>2, <4>1, LifecycleRecords, RowFields
    <3> QED
      BY <3>1, <3>2
  <2>6. l.status # "absent" /\ Shape(l)
    BY <1>0, <2>1, <2>2 DEF RevFits, EnvFits
  <2>7. Shape(env'[e])
    BY <2>2, <2>4, <2>5, <2>6 DEF Shape, Transitioning
  <2>8. env'[e].status # "absent"
    BY <2>5, <2>6
  <2>9. OnRow(e, r)
    BY <2>2, <2>3, <2>4, <2>5, <2>8, <2>1 DEF OnRow
  <2>10. RowFitsIn(e, r)
    BY <2>2, <2>3, <2>4, <2>5, <2>7, <2>8 DEF RowFitsIn, UnderWay, PlannedKind
  <2> QED
    BY <2>1, <2>2, <2>3, <2>5, <2>9, <2>10 DEF Requested
<1> QED
  BY <1>2, <1>3, <1>4, <1>5, <1>6

-----------------------------------------------------------------------------
(* The work of an executor on its revision.                                *)

\* What has to hold of an executor, stage by stage.
LEMMA SoundIn ==
    ASSUME NEW n \in Node, NEW y, exec'[n] = y
    PROVE  /\ y.at \in {"idle", "dead"} => Sound(n)'
           /\ y.at = "rollback" /\ env'[rev'[y.rev].env].box \in {Nothing, y.box} => Sound(n)'
           /\ y.at \in Applying /\ ApplyingFits(n)' => Sound(n)'
           /\ y.at \in Undoing /\ UndoingFits(n)' => Sound(n)'
           /\ y.at \in Provisional \ {"created"}
              /\ ProvisionalFits(y, rev'[y.rev], env'[rev'[y.rev].env], step'[y.rev]) => Sound(n)'
BY DEF Sound, Applying, Undoing, Provisional

\* No row of a container changes but in its status, and none is removed.
BoxesStay == \A c \in Box :
    /\ box'[c].rev = box[c].rev
    /\ box'[c].status = "absent" => box'[c] = box[c]
    /\ box[c].status \notin {"absent", "removed"} => box'[c].status \notin {"absent", "removed"}

LEMMA SavesStay ==
    ASSUME TypeInv, NEW c \in Box, NEW status \in Status \ {"removed"}, SaveStatus(c, status)
    PROVE  BoxesStay
<1>1. /\ \A d \in Box : d # c => box'[d] = box[d]
      /\ box'[c].status = status /\ box'[c].rev = box[c].rev
  BY Saved, TypesOf
<1> QED
  BY <1>1 DEF BoxesStay, Status

\* Nothing is written but steps and effects of the revision that n has in hand.
Works(n, y) ==
    /\ Becomes(n, y) /\ y.rev \in {Nothing, exec[n].rev}
    /\ UNCHANGED <<env, rev, docker>> /\ BoxesStay
    /\ \A a \in Actor : a # n => op'[a] = op[a]
    /\ op'[n].stage # "acted" /\ (op'[n].stage # "out" => op'[n].kind \in NodeMutation)
    /\ \A r \in Rev : r # exec[n].rev => step'[r] = step[r]
    /\ \A r \in Rev, k \in 1..Steps, c \in Box :
          r # exec[n].rev => (<<r, k>> \in effect'[c] <=> <<r, k>> \in effect[c])
    /\ \A c \in Box : docker[c].status = "none" => effect'[c] = effect[c]

LEMMA WorkKeeps ==
    ASSUME TypeInv, TypeInv', ReadInv, RevisionInv, NEW n \in Node, NEW y,
           NEW q \in Rev \cup {Nothing}, exec[n].rev = q, exec[n].at # "created", Works(n, y),
           q # Nothing => StepsFit(q)', Sound(n)'
    PROVE  RevisionInv'
<1> DEFINE e == rev[q].env
<1>0. /\ Nothing \notin Rev
      /\ \A c \in Box : BoxFits(c)
  BY TypesOf, RevAssumption DEF Executor, RevisionInv, RowInv
<1>1. ByExecutor(n, e, q, y)
  BY DEF ByExecutor, Works
<1>2. BoxesByExecutor(n, e, q)
  BY DEF BoxesByExecutor, Works, BoxesStay
<1>3. ASSUME NEW c \in Box, box'[c].rev = q, q # Nothing
      PROVE  BoxFits(c)'
  <2>1. /\ box[c].rev = q /\ env' = env /\ rev' = rev /\ docker' = docker
        /\ box'[c].status = "absent" => box[c].status = "absent"
    BY <1>3 DEF Works, BoxesStay
  <2>2. \A m \in Node : exec[m].at = "created" => exec'[m] = exec[m]
    BY DEF Works, Becomes
  <2> QED
    BY <1>0, <1>3, <2>1, <2>2 DEF BoxFits, Awaited
<1> QED
  BY <1>0, <1>1, <1>2, <1>3, ExecutorKeeps

\* A step that only moves the executor, within its stages or out of them.
LEMMA MoveKeeps ==
    ASSUME TypeInv, TypeInv', ReadInv, RevisionInv, NEW n \in Node, NEW y,
           NEW q \in Rev \cup {Nothing}, exec[n].rev = q, exec[n].at # "created", Becomes(n, y), y.rev \in {Nothing, exec[n].rev},
           UNCHANGED <<env, rev, docker, step, effect>>, BoxesStay,
           \A a \in Actor : a # n => op'[a] = op[a],
           op'[n].stage # "acted" /\ (op'[n].stage # "out" => op'[n].kind \in NodeMutation),
           Sound(n)'
    PROVE  RevisionInv'
<1>1. Works(n, y)
  BY DEF Works
<1>2. q # Nothing => StepsFit(q)'
  BY DEF RevisionInv, StepInv, StepsFit
<1> QED
  BY <1>1, <1>2, WorkKeeps

\* A command that is not let through at most saves what was observed.
LEMMA RaisedStays ==
    ASSUME TypeInv, NEW n \in Node, exec[n].box \in Box \cup {Nothing}, CommandRaises(n)
    PROVE  BoxesStay /\ UNCHANGED <<docker, op>>
<1> DEFINE c == exec[n].box
<1>1. UNCHANGED <<docker, op>>
  BY DEF CommandRaises
<1>2. CASE UNCHANGED <<box, selected, bootOf>>
  BY <1>1, <1>2 DEF BoxesStay
<1>3. CASE c \in Box /\ SaveObserved(c, "running", TRUE)
  BY <1>1, <1>2, <1>3, SavedObserved, SavesStay, ObservedIsStatus, TypesOf DEF Status
<1> QED
  BY <1>1, <1>2, <1>3 DEF CommandRaises

\* The fields of an executor that is built from its parts.
LEMMA ExFields ==
    ASSUME NEW s, NEW r, NEW c, NEW g, NEW k, NEW b, NEW f
    PROVE  LET y == Ex(s, r, c, g, k, b, f) IN
           /\ y.at = s /\ y.rev = r /\ y.box = c /\ y.gen = g /\ y.step = k /\ y.ok = b /\ y.failed = f
BY DEF Ex

\* One step of revision r is given status s; nothing else of its steps changes.
StepSet(r, j, s) ==
    /\ step'[r][j] = s
    /\ \A i \in 1..Steps : i # j => step'[r][i] = step[r][i]
    /\ \A q \in Rev : q # r => step'[q] = step[q]

LEMMA StepIsSet ==
    ASSUME TypeInv, NEW n \in Node, NEW r \in Rev, exec[n].rev = r,
           NEW j \in 1..Steps, NEW s \in StepStatus, SetStep(n, j, s)
    PROVE  StepSet(r, j, s)
<1>1. StepBecomes(r, j, s)
  BY StepOf, TypesOf
<1>2. ASSUME NEW q \in Rev, q # r
      PROVE  step'[q] = step[q]
  BY <1>2, TypesOf DEF SetStep
<1>3. /\ step'[r][j] = s
      /\ \A i \in 1..Steps : i # j => step'[r][i] = step[r][i]
  BY <1>1 DEF StepBecomes
<1> QED
  BY <1>2, <1>3 DEF StepSet

\* A step of a revision that is executed or rolled back is recorded.
LEMMA RecordKeeps ==
    ASSUME TypeInv, TypeInv', ReadInv, RevisionInv, NEW n \in Node, NEW r \in Rev, exec[n].rev = r,
           exec[n].at # "created", op[n].stage = "out",
           NEW j \in 1..Steps, NEW s, StepSet(r, j, s),
           NEW y, Becomes(n, y), y.rev = r, UNCHANGED <<env, rev, box, docker, op, effect>>,
           rev[r].status \in {"executing", "rolling_back"},
           s \in {"pending", "rolled_back"} => \A d \in Box : <<r, j>> \notin effect[d],
           s = "verified" => env[rev[r].env].box # Nothing /\ <<r, j>> \in effect[env[rev[r].env].box],
           Sound(n)'
    PROVE  RevisionInv'
<1>1. BoxesStay
  BY DEF BoxesStay
<1>2. Works(n, y)
  BY <1>1 DEF Works, StepSet
<1>3. StepsFit(r)
  BY DEF RevisionInv, StepInv
<1>4. StepsFit(r)'
  BY <1>3 DEF StepsFit, StepSet, Clean
<1> QED
  BY <1>2, <1>4, RevAssumption, WorkKeeps

\* What is known of an executor that applies the steps of its revision.
LEMMA AtApplying ==
    ASSUME TypeInv, RevisionInv, NEW n \in Node, exec[n].at \in Applying
    PROVE  \E r \in Rev, e \in Env, c \in Box, k \in 1..(Steps + 1) :
           /\ exec[n].rev = r /\ rev[r].env = e /\ exec[n].box = c /\ exec[n].step = k
           /\ exec[n].gen \in Nat /\ exec[n].ok \in BOOLEAN /\ exec[n].failed \in BOOLEAN
           /\ exec[n].at \in {"begun", "ran", "applied", "verifying"} => k \in 1..Steps
           /\ op[n].stage = "out" /\ r # Nothing /\ c # Nothing
           /\ rev[r].status = "executing" /\ env[e].box = c /\ env[e].active = r
           /\ exec[n].at # "ran" => exec[n].ok = TRUE
           /\ exec[n].at \in {"begun", "ran"} => step[r][k] = "applying"
           /\ exec[n].at = "applied" => step[r][k] = "applied"
           /\ exec[n].at = "verifying" => step[r][k] = "verifying"
           /\ exec[n].at \in {"applied", "verifying"} \/ (exec[n].at = "ran" /\ exec[n].ok) => <<r, k>> \in effect[c]
           /\ StepsFit(r)
<1>0. exec[n].at \notin {"idle", "dead", "bound", "failing", "releasing"}
  BY DEF Applying
<1>1. /\ ApplyingFits(n) /\ \A r \in Rev : StepsFit(r) /\ RevFits(r)
  BY DEF RevisionInv, ExecInv, Sound, StepInv, RowInv
<1>2. /\ exec[n].rev \in Rev /\ exec[n].rev # Nothing /\ rev[exec[n].rev].env \in Env
      /\ exec[n].box \in Box \cup {Nothing} /\ exec[n].gen \in Nat
      /\ exec[n].step \in 1..(Steps + 1) /\ exec[n].ok \in BOOLEAN /\ exec[n].failed \in BOOLEAN
      /\ exec[n].at \in {"begun", "ran", "applied", "verifying"} => exec[n].step \in 1..Steps
      /\ op[n].stage = "out"
  BY <1>0, AtWork DEF AtStep
<1>3. env[rev[exec[n].rev].env].active = exec[n].rev
  BY <1>1, <1>2 DEF ApplyingFits, RevFits, UnderWay
<1> QED
  BY <1>1, <1>2, <1>3 DEF ApplyingFits

LEMMA ApplyingFitsIn ==
    ASSUME NEW n \in Node, NEW y, exec'[n] = y, NEW r, NEW e, NEW c, NEW k,
           y.rev = r, y.box = c, y.step = k,
           rev'[r].status = "executing", rev'[r].env = e, env'[e].box = c, c # Nothing,
           y.at # "ran" => y.ok = TRUE,
           y.at \in {"begun", "ran"} => step'[r][k] = "applying",
           y.at = "applied" => step'[r][k] = "applied",
           y.at = "verifying" => step'[r][k] = "verifying",
           y.at \in {"applied", "verifying"} \/ (y.at = "ran" /\ y.ok) => <<r, k>> \in effect'[c]
    PROVE  ApplyingFits(n)'
BY DEF ApplyingFits

LEMMA ApplyingSteps ==
    ASSUME TypeInv, TypeInv', ReadInv, RevisionInv, NEW n \in Node, exec[n].at \in Applying,
           \/ CopyFails(n) \/ BeginStep(n) \/ Apply(n) \/ RecordApply(n) \/ BeginVerify(n)
           \/ Verify(n) \/ Cancel(n)
    PROVE  RevisionInv'
<1> PICK r \in Rev, e \in Env, c \in Box, k \in 1..(Steps + 1) :
           /\ exec[n].rev = r /\ rev[r].env = e /\ exec[n].box = c /\ exec[n].step = k
           /\ exec[n].gen \in Nat /\ exec[n].ok \in BOOLEAN /\ exec[n].failed \in BOOLEAN
           /\ exec[n].at \in {"begun", "ran", "applied", "verifying"} => k \in 1..Steps
           /\ op[n].stage = "out" /\ r # Nothing /\ c # Nothing
           /\ rev[r].status = "executing" /\ env[e].box = c /\ env[e].active = r
           /\ exec[n].at # "ran" => exec[n].ok = TRUE
           /\ exec[n].at \in {"begun", "ran"} => step[r][k] = "applying"
           /\ exec[n].at = "applied" => step[r][k] = "applied"
           /\ exec[n].at = "verifying" => step[r][k] = "verifying"
           /\ exec[n].at \in {"applied", "verifying"} \/ (exec[n].at = "ran" /\ exec[n].ok) => <<r, k>> \in effect[c]
           /\ StepsFit(r)
  BY AtApplying
<1> DEFINE x == exec[n]
<1>0. /\ x.at # "created" /\ exec \in [Node -> Executor] /\ effect \in [Box -> SUBSET (Rev \X (1..Steps))]
      /\ {"rollback", "begun", "ran", "applied", "verifying", "ready"} \subseteq Stage
  BY TypesOf DEF Applying, Stage
\* The executor turns to the rollback.
<1>1. ASSUME At(n, "rollback"), UNCHANGED <<env, rev, docker, op, step, effect>>, BoxesStay
      PROVE  RevisionInv'
  <2> DEFINE y == Ex("rollback", x.rev, x.box, x.gen, x.step, x.ok, x.failed)
  <2>1. Becomes(n, y)
    BY <1>0, <1>1, AtBecomes
  <2>2. y.at = "rollback" /\ y.rev = r /\ y.box = c
    BY ExFields
  <2> HIDE DEF y
  <2>3. exec'[n] = y
    BY <2>1 DEF Becomes
  <2>4. Sound(n)'
    BY <1>1, <2>2, <2>3, SoundIn
  <2> QED
    BY <1>0, <1>1, <2>1, <2>2, <2>4, MoveKeeps
\* It records a step and goes on with another stage.
<1>2. ASSUME k \in 1..Steps, NEW s \in StepStatus \ {"pending", "rolled_back"}, SetStep(n, k, s),
             NEW y, Becomes(n, y), y.rev = r, y.box = c, NEW i, y.step = i,
             UNCHANGED <<env, rev, box, docker, op, effect>>,
             s = "verified" => <<r, k>> \in effect[c],
             \/ y.at = "rollback"
             \/ y.at = "ready" /\ y.ok = TRUE
             \/ y.at = "begun" /\ y.ok = TRUE /\ i = k /\ s = "applying"
             \/ y.at = "applied" /\ y.ok = TRUE /\ i = k /\ s = "applied" /\ <<r, k>> \in effect[c]
             \/ y.at = "verifying" /\ y.ok = TRUE /\ i = k /\ s = "verifying" /\ <<r, k>> \in effect[c]
      PROVE  RevisionInv'
  <2>1. StepSet(r, k, s)
    BY <1>2, StepIsSet
  <2>2. exec'[n] = y
    BY <1>2 DEF Becomes
  <2>3. Sound(n)'
    <3>1. CASE y.at = "rollback"
      BY <1>2, <2>2, <3>1, SoundIn
    <3>2. CASE y.at # "rollback"
      <4>1. /\ rev'[r].status = "executing" /\ rev'[r].env = e /\ env'[e].box = c /\ c # Nothing
            /\ step'[r][k] = s /\ effect' = effect
        BY <1>2, <2>1 DEF StepSet
      <4>2. /\ y.at \in Applying /\ y.at # "ran" /\ y.ok = TRUE
            /\ y.at \in {"begun", "ran"} => step'[r][i] = "applying"
            /\ y.at = "applied" => step'[r][i] = "applied"
            /\ y.at = "verifying" => step'[r][i] = "verifying"
            /\ y.at \in {"applied", "verifying"} => <<r, i>> \in effect'[c]
        BY <1>2, <3>2, <4>1 DEF Applying
      <4>20. /\ y.at # "ran" => y.ok = TRUE
             /\ y.at \in {"applied", "verifying"} \/ (y.at = "ran" /\ y.ok) => <<r, i>> \in effect'[c]
        BY <4>2
      <4>21. y.rev = r /\ y.box = c /\ y.step = i
        BY <1>2
      <4>3. ApplyingFits(n)'
        BY <2>2, <4>1, <4>2, <4>20, <4>21, ApplyingFitsIn, ZenonT(40)
      <4> QED
        BY <2>2, <4>2, <4>3, SoundIn
    <3> QED
      BY <3>1, <3>2
  <2> QED
    BY <1>0, <1>2, <2>1, <2>3, RecordKeeps
<1>3. CASE CopyFails(n) \/ Cancel(n)
  <2>1. At(n, "rollback") /\ UNCHANGED <<env, rev, box, docker, op, step, effect>>
    BY <1>3 DEF CopyFails, Cancel, Applying, boxVars, envVars
  <2>2. BoxesStay
    BY <2>1 DEF BoxesStay
  <2> QED
    BY <1>1, <2>1, <2>2
<1>4. CASE BeginStep(n)
  <2>1. /\ x.at = "ready" /\ k \in 1..Steps /\ SetStep(n, k, "applying") /\ At(n, "begun")
        /\ UNCHANGED <<env, rev, box, docker, op, effect>>
    BY <1>4 DEF BeginStep, boxVars
  <2> DEFINE y == Ex("begun", x.rev, x.box, x.gen, x.step, x.ok, x.failed)
  <2>2. Becomes(n, y)
    BY <1>0, <2>1, AtBecomes
  <2>3. y.at = "begun" /\ y.rev = r /\ y.box = c /\ y.step = k /\ y.ok = TRUE
    BY <2>1, ExFields
  <2>4. "applying" \in StepStatus \ {"pending", "rolled_back"} /\ "begun" \in Applying
    BY DEF StepStatus, Applying
  <2> HIDE DEF y
  <2> QED
    BY <1>2, <2>1, <2>2, <2>3, <2>4
<1>5. CASE RecordApply(n) /\ x.ok
  <2>1. /\ x.at = "ran" /\ k \in 1..Steps /\ SetStep(n, k, "applied") /\ At(n, "applied")
        /\ UNCHANGED <<env, rev, box, docker, op, effect>>
    BY <1>5 DEF RecordApply, boxVars
  <2>0. x.ok = TRUE
    BY <1>5
  <2> DEFINE y == Ex("applied", x.rev, x.box, x.gen, x.step, x.ok, x.failed)
  <2>2. Becomes(n, y)
    BY <1>0, <2>1, AtBecomes
  <2>3. y.at = "applied" /\ y.rev = r /\ y.box = c /\ y.step = k /\ y.ok = TRUE
    BY <2>0, ExFields
  <2>4. "applied" \in StepStatus \ {"pending", "rolled_back"} /\ "applied" \in Applying
    BY DEF StepStatus, Applying
  <2> HIDE DEF y
  <2> QED
    BY <1>2, <1>5, <2>1, <2>2, <2>3, <2>4
<1>6. CASE BeginVerify(n)
  <2>1. /\ x.at = "applied" /\ k \in 1..Steps /\ SetStep(n, k, "verifying") /\ At(n, "verifying")
        /\ UNCHANGED <<env, rev, box, docker, op, effect>>
    BY <1>6 DEF BeginVerify, boxVars
  <2> DEFINE y == Ex("verifying", x.rev, x.box, x.gen, x.step, x.ok, x.failed)
  <2>2. Becomes(n, y)
    BY <1>0, <2>1, AtBecomes
  <2>3. y.at = "verifying" /\ y.rev = r /\ y.box = c /\ y.step = k /\ y.ok = TRUE
    BY <2>1, ExFields
  <2>4. "verifying" \in StepStatus \ {"pending", "rolled_back"} /\ "verifying" \in Applying
    BY DEF StepStatus, Applying
  <2> HIDE DEF y
  <2> QED
    BY <1>2, <2>1, <2>2, <2>3, <2>4
\* A step that failed is recorded as such.
<1>7. ASSUME k \in 1..Steps, SetStep(n, k, "failed"), At(n, "rollback"),
             UNCHANGED <<env, rev, box, docker, op, effect>>
      PROVE  RevisionInv'
  <2> DEFINE y == Ex("rollback", x.rev, x.box, x.gen, x.step, x.ok, x.failed)
  <2>1. Becomes(n, y)
    BY <1>0, <1>7, AtBecomes
  <2>2. y.at = "rollback" /\ y.rev = r /\ y.box = c /\ y.step = k
    BY ExFields
  <2>3. "failed" \in StepStatus \ {"pending", "rolled_back"}
    BY DEF StepStatus
  <2> HIDE DEF y
  <2> QED
    BY <1>2, <1>7, <2>1, <2>2, <2>3
<1>8. CASE RecordApply(n) /\ ~x.ok
  <2>1. /\ k \in 1..Steps /\ SetStep(n, k, "failed") /\ At(n, "rollback")
        /\ UNCHANGED <<env, rev, box, docker, op, effect>>
    BY <1>8 DEF RecordApply, boxVars
  <2> QED
    BY <1>7, <2>1
\* A command that raises leads to the rollback.
<1>9. ASSUME CommandRaises(n), At(n, "rollback"), UNCHANGED <<env, rev, step, effect>>
      PROVE  RevisionInv'
  <2>1. BoxesStay /\ UNCHANGED <<docker, op>>
    BY <1>9, RaisedStays
  <2> QED
    BY <1>1, <1>9, <2>1
<1>10. CASE Verify(n)
  <2>0. x.at = "verifying" /\ k \in 1..Steps /\ UNCHANGED <<env, rev, effect>>
    BY <1>10 DEF Verify
  <2>1. CASE CommandRaises(n) /\ At(n, "rollback") /\ UNCHANGED step
    BY <1>9, <2>0, <2>1
  <2>2. CASE SetStep(n, k, "failed") /\ At(n, "rollback") /\ UNCHANGED boxVars
    BY <1>7, <2>0, <2>2 DEF boxVars
  <2>3. CASE /\ SetStep(n, k, "verified") /\ UNCHANGED boxVars
             /\ exec' = [exec EXCEPT ![n].at = "ready", ![n].step = @ + 1]
    <3>1. k + 1 \in 1..(Steps + 1) /\ exec' = [exec EXCEPT ![n].at = "ready", ![n].step = k + 1]
      BY <1>0, <2>0, <2>3, StepsAssumption
    <3> DEFINE y == Ex("ready", x.rev, x.box, x.gen, k + 1, x.ok, x.failed)
    <3>2. Becomes(n, y)
      BY <1>0, <3>1, MovesBecome
    <3>3. y.at = "ready" /\ y.rev = r /\ y.box = c /\ y.ok = TRUE /\ y.step = k + 1
      BY <2>0, ExFields
    <3>4. "verified" \in StepStatus \ {"pending", "rolled_back"} /\ "ready" \in Applying
      BY DEF StepStatus, Applying
    <3> HIDE DEF y
    <3>5. UNCHANGED <<box, docker, op>>
      BY <2>3 DEF boxVars
    <3> QED
      BY <1>2, <2>0, <2>3, <3>2, <3>3, <3>4, <3>5
  <2> QED
    BY <1>10, <2>1, <2>2, <2>3 DEF Verify
<1>11. CASE Apply(n)
  <2>0. x.at = "begun" /\ k \in 1..Steps /\ UNCHANGED <<env, rev, step>> /\ x.ok = TRUE
    BY <1>11 DEF Apply, envVars
  <2>1. CASE CommandRaises(n) /\ At(n, "rollback") /\ UNCHANGED effect
    BY <1>9, <2>0, <2>1
  <2>2. ASSUME Reachable(n), UNCHANGED boxVars, NEW left, effect' = [effect EXCEPT ![c] = left], NEW b \in BOOLEAN,
               left \in {effect[c], effect[c] \cup {<<r, k>>}}, b => <<r, k>> \in left,
               exec' = [exec EXCEPT ![n].at = "ran", ![n].ok = b]
        PROVE  RevisionInv'
    <3> DEFINE y == Ex("ran", x.rev, x.box, x.gen, x.step, b, x.failed)
    <3>1. Becomes(n, y)
      BY <1>0, <2>2, MovesBecome
    <3>2. y.at = "ran" /\ y.rev = r /\ y.box = c /\ y.step = k /\ y.ok = b
      BY ExFields
    <3> HIDE DEF y
    <3>3. exec'[n] = y
      BY <3>1 DEF Becomes
    <3>4. /\ UNCHANGED <<box, docker, op>> /\ effect'[c] = left /\ docker[c].status = "running"
          /\ \A d \in Box : d # c => effect'[d] = effect[d]
      BY <1>0, <2>2 DEF boxVars, Reachable
    <3>5. BoxesStay
      BY <3>4 DEF BoxesStay
    <3>6. /\ \A d \in Box : docker[d].status = "none" => effect'[d] = effect[d]
          /\ \A q \in Rev, i \in 1..Steps, d \in Box : q # r => (<<q, i>> \in effect'[d] <=> <<q, i>> \in effect[d])
          /\ \A i \in 1..Steps, d \in Box : <<r, i>> \in effect[d] => <<r, i>> \in effect'[d]
          /\ \A i \in 1..Steps, d \in Box : <<r, i>> \in effect'[d] =>
                <<r, i>> \in effect[d] \/ (d = c /\ i = k)
      BY <2>0, <2>2, <3>4
    <3>7. Works(n, y)
      BY <2>0, <3>1, <3>2, <3>4, <3>5, <3>6 DEF Works
    <3>8. StepsFit(r)'
      BY <2>0, <3>6 DEF StepsFit, Clean
    <3>9. ASSUME NEW z, exec'[n] = z, z.at = "ran", z.rev = r, z.box = c, z.step = k,
                 z.ok => <<r, k>> \in effect'[c]
          PROVE  Sound(n)'
      <4>1. /\ rev'[r].status = "executing" /\ rev'[r].env = e /\ env'[e].box = c /\ c # Nothing
            /\ step'[r][k] = "applying"
        BY <2>0
      <4>2. /\ z.at # "ran" => z.ok = TRUE
            /\ z.at \in {"begun", "ran"} => step'[r][k] = "applying"
            /\ z.at = "applied" => step'[r][k] = "applied"
            /\ z.at = "verifying" => step'[r][k] = "verifying"
            /\ z.at \in {"applied", "verifying"} \/ (z.at = "ran" /\ z.ok) => <<r, k>> \in effect'[c]
        BY <3>9, <4>1
      <4>3. ApplyingFits(n)'
        <5>1. /\ exec'[n].at = "ran" /\ exec'[n].rev = r /\ exec'[n].box = c /\ exec'[n].step = k
              /\ exec'[n].ok => <<r, k>> \in effect'[c]
          BY <3>9
        <5> QED
          BY <4>1, <5>1 DEF ApplyingFits
      <4> QED
        BY <3>9, <4>3, SoundIn DEF Applying
    <3>10. y.ok => <<r, k>> \in effect'[c]
      BY <2>2, <3>2, <3>4
    <3>11. Sound(n)'
      BY <3>2, <3>3, <3>9, <3>10
    <3> QED
      BY <1>0, <3>7, <3>8, <3>11, WorkKeeps
  <2>3. CASE /\ Reachable(n) /\ UNCHANGED boxVars
             /\ effect' = [effect EXCEPT ![c] = effect[c] \cup {<<r, k>>}]
             /\ exec' = [exec EXCEPT ![n].at = "ran"]
    <3>1. exec' = [exec EXCEPT ![n].at = "ran", ![n].ok = TRUE]
      <4> DEFINE z == [x EXCEPT !.at = "ran"]  w == [x EXCEPT !.at = "ran", !.ok = TRUE]
      <4>1. z \in Executor /\ w \in Executor
        <5>1. "ran" \in Stage /\ x \in Executor
          BY <1>0 DEF Stage
        <5> QED
          BY <5>1 DEF Executor
      <4>2. /\ z.at = w.at /\ z.rev = w.rev /\ z.box = w.box /\ z.gen = w.gen /\ z.step = w.step
            /\ z.ok = w.ok /\ z.failed = w.failed
        BY <1>0, <2>0 DEF Executor
      <4>3. z = w
        <5> HIDE DEF z, w
        <5> QED
          BY <4>1, <4>2 DEF Executor
      <4> QED
        BY <2>3, <4>3
    <3> QED
      BY <2>2, <2>3, <3>1
  <2>4. CASE /\ Reachable(n) /\ UNCHANGED boxVars
             /\ \E left \in {effect[c], effect[c] \cup {<<r, k>>}} : effect' = [effect EXCEPT ![c] = left]
             /\ exec' = [exec EXCEPT ![n].at = "ran", ![n].ok = FALSE]
    BY <2>2, <2>4
  <2> QED
    BY <1>11, <2>1, <2>3, <2>4 DEF Apply
<1> QED
  BY <1>3, <1>4, <1>5, <1>6, <1>8, <1>10, <1>11

\* What is known of an executor that rolls its revision back.
LEMMA AtUndoing ==
    ASSUME TypeInv, RevisionInv, NEW n \in Node, exec[n].at \in Undoing
    PROVE  \E r \in Rev, e \in Env, c \in Box \cup {Nothing}, k \in 1..(Steps + 1), b \in BOOLEAN, f \in BOOLEAN :
           /\ exec[n].rev = r /\ rev[r].env = e /\ exec[n].box = c /\ exec[n].step = k
           /\ exec[n].gen \in Nat /\ exec[n].ok = b /\ exec[n].failed = f
           /\ exec[n].at \in {"marked", "undone"} => k \in 1..Steps
           /\ exec[n].at # "releasing" => op[n].stage = "out"
           /\ r # Nothing
           /\ rev[r].status = "rolling_back" /\ env[e].box \in {Nothing, c} /\ env[e].active = r
           /\ exec[n].at \in {"marked", "undone"} => step[r][k] = "rolling_back"
           /\ exec[n].at = "undone" /\ b => \A d \in Box : <<r, k>> \notin effect[d]
           /\ exec[n].at = "releasing" => ReleasesContainer(env[e])
           /\ ~f => \A i \in 1..Steps :
                 i > k \/ (exec[n].at = "rolling" /\ i = k) \/ exec[n].at \in {"releasing", "settling"} =>
                    step[r][i] \in {"pending", "rolled_back"}
           /\ ~f /\ exec[n].at = "settling" => ~ReleasesContainer(env[e])
           /\ StepsFit(r) /\ RevFits(r) /\ EnvFits(e)
<1>0. exec[n].at \notin {"idle", "dead", "bound", "failing"}
  BY DEF Undoing
<1>1. /\ UndoingFits(n) /\ (\A r \in Rev : StepsFit(r) /\ RevFits(r)) /\ \A e \in Env : EnvFits(e)
  BY DEF RevisionInv, ExecInv, Sound, StepInv, RowInv
<1>2. /\ exec[n].rev \in Rev /\ exec[n].rev # Nothing /\ rev[exec[n].rev].env \in Env
      /\ exec[n].box \in Box \cup {Nothing} /\ exec[n].gen \in Nat
      /\ exec[n].step \in 1..(Steps + 1) /\ exec[n].ok \in BOOLEAN /\ exec[n].failed \in BOOLEAN
      /\ exec[n].at \in {"marked", "undone"} => exec[n].step \in 1..Steps
      /\ exec[n].at # "releasing" => op[n].stage = "out"
  BY <1>0, AtWork DEF AtStep
<1>3. env[rev[exec[n].rev].env].active = exec[n].rev
  BY <1>1, <1>2 DEF UndoingFits, RevFits, UnderWay
<1>4. /\ rev[exec[n].rev].status = "rolling_back"
      /\ env[rev[exec[n].rev].env].box \in {Nothing, exec[n].box}
      /\ exec[n].at \in {"marked", "undone"} => step[exec[n].rev][exec[n].step] = "rolling_back"
      /\ exec[n].at = "undone" /\ exec[n].ok => \A d \in Box : <<exec[n].rev, exec[n].step>> \notin effect[d]
      /\ exec[n].at = "releasing" => ReleasesContainer(env[rev[exec[n].rev].env])
  BY <1>1 DEF UndoingFits
<1>5. /\ ~exec[n].failed => \A i \in 1..Steps :
            i > exec[n].step \/ (exec[n].at = "rolling" /\ i = exec[n].step) \/ exec[n].at \in {"releasing", "settling"} =>
               step[exec[n].rev][i] \in {"pending", "rolled_back"}
      /\ ~exec[n].failed /\ exec[n].at = "settling" => ~ReleasesContainer(env[rev[exec[n].rev].env])
  BY <1>1 DEF UndoingFits
<1>6. StepsFit(exec[n].rev) /\ RevFits(exec[n].rev) /\ EnvFits(rev[exec[n].rev].env)
  BY <1>1, <1>2
<1> QED
  BY <1>2, <1>3, <1>4, <1>5, <1>6

\* What has to be shown of an executor that is rolling back.
LEMMA UndoingFitsIn ==
    ASSUME NEW n \in Node, NEW s, NEW r, NEW e, NEW c, NEW k, NEW b \in BOOLEAN, NEW f \in BOOLEAN,
           exec'[n].at = s, exec'[n].rev = r, exec'[n].box = c, exec'[n].step = k,
           exec'[n].ok = b, exec'[n].failed = f, s \in Undoing,
           rev'[r].status = "rolling_back", rev'[r].env = e, env'[e].box \in {Nothing, c},
           s \in {"marked", "undone"} => step'[r][k] = "rolling_back",
           s = "undone" /\ b => \A d \in Box : <<r, k>> \notin effect'[d],
           s = "releasing" => ReleasesContainer(env'[e]),
           ~f => \A i \in 1..Steps :
                 i > k \/ (s = "rolling" /\ i = k) \/ s \in {"releasing", "settling"} =>
                    step'[r][i] \in {"pending", "rolled_back"},
           ~f /\ s = "settling" => ~ReleasesContainer(env'[e])
    PROVE  Sound(n)'
<1>1. UndoingFits(n)'
  BY DEF UndoingFits
<1> QED
  BY <1>1, SoundIn

LEMMA UndoingSteps ==
    ASSUME TypeInv, TypeInv', ReadInv, RevisionInv, NEW n \in Node, exec[n].at \in Undoing,
           MarkStep(n) \/ Undo(n) \/ RecordUndo(n) \/ StepsUndone(n)
    PROVE  RevisionInv'
<1> PICK r \in Rev, e \in Env, c \in Box \cup {Nothing}, k \in 1..(Steps + 1), b \in BOOLEAN, f \in BOOLEAN :
           /\ exec[n].rev = r /\ rev[r].env = e /\ exec[n].box = c /\ exec[n].step = k
           /\ exec[n].gen \in Nat /\ exec[n].ok = b /\ exec[n].failed = f
           /\ exec[n].at \in {"marked", "undone"} => k \in 1..Steps
           /\ exec[n].at # "releasing" => op[n].stage = "out"
           /\ r # Nothing
           /\ rev[r].status = "rolling_back" /\ env[e].box \in {Nothing, c} /\ env[e].active = r
           /\ exec[n].at \in {"marked", "undone"} => step[r][k] = "rolling_back"
           /\ exec[n].at = "undone" /\ b => \A d \in Box : <<r, k>> \notin effect[d]
           /\ exec[n].at = "releasing" => ReleasesContainer(env[e])
           /\ ~f => \A i \in 1..Steps :
                 i > k \/ (exec[n].at = "rolling" /\ i = k) \/ exec[n].at \in {"releasing", "settling"} =>
                    step[r][i] \in {"pending", "rolled_back"}
           /\ ~f /\ exec[n].at = "settling" => ~ReleasesContainer(env[e])
           /\ StepsFit(r) /\ RevFits(r) /\ EnvFits(e)
  BY AtUndoing
<1> DEFINE x == exec[n]
<1>0. /\ x.at # "created" /\ exec \in [Node -> Executor] /\ effect \in [Box -> SUBSET (Rev \X (1..Steps))]
      /\ {"rolling", "marked", "undone", "releasing", "settling"} \subseteq Stage /\ Nothing \notin Box
  BY TypesOf, BoxAssumption DEF Undoing, Stage
\* The executor records how a step stands.
<1>1. ASSUME op[n].stage = "out", NEW j \in 1..Steps, NEW s \in StepStatus \ {"pending", "verified"}, SetStep(n, j, s),
             NEW y, Becomes(n, y), y.rev = r,
             UNCHANGED <<env, rev, box, docker, op, effect>>,
             s = "rolled_back" => \A d \in Box : <<r, j>> \notin effect[d],
             Sound(n)'
      PROVE  RevisionInv'
  <2>1. StepSet(r, j, s)
    BY <1>1, StepIsSet
  <2>2. /\ s \in {"pending", "rolled_back"} => \A d \in Box : <<r, j>> \notin effect[d]
        /\ s = "verified" => env[rev[r].env].box # Nothing /\ <<r, j>> \in effect[env[rev[r].env].box]
        /\ rev[r].status \in {"executing", "rolling_back"}
    BY <1>1
  <2> QED
    BY <1>0, <1>1, <2>1, <2>2, RecordKeeps
<1>2. CASE MarkStep(n)
  <2>0. x.at = "rolling" /\ UNCHANGED <<env, rev, box, docker, op, effect>> /\ op[n].stage = "out"
    BY <1>2 DEF MarkStep, boxVars
  <2>00. \E i \in 1..Steps : /\ i \in ToUndo(n) /\ \A m \in ToUndo(n) : m <= i
                             /\ SetStep(n, i, "rolling_back")
                             /\ exec' = [exec EXCEPT ![n].at = "marked", ![n].step = i]
    BY <1>2 DEF MarkStep, ToUndo
  <2>10. PICK j \in 1..Steps : /\ j \in ToUndo(n) /\ \A m \in ToUndo(n) : m <= j
                             /\ SetStep(n, j, "rolling_back")
                             /\ exec' = [exec EXCEPT ![n].at = "marked", ![n].step = j]
    BY <2>00
  <2>1. j \in 1..(Steps + 1) /\ j < k
    BY <2>10, StepsAssumption DEF ToUndo
  <2> DEFINE y == Ex("marked", x.rev, x.box, x.gen, j, x.ok, x.failed)
  <2>2. Becomes(n, y)
    BY <1>0, <2>1, <2>10, MovesBecome
  <2>3. y.at = "marked" /\ y.rev = r /\ y.box = c /\ y.step = j /\ y.ok = b /\ y.failed = f
    BY ExFields
  <2> HIDE DEF y
  <2>4. "rolling_back" \in StepStatus \ {"pending", "verified"} /\ "marked" \in Undoing
    BY DEF StepStatus, Undoing
  <2>5. StepSet(r, j, "rolling_back")
    BY <2>4, <2>10, StepIsSet
  <2>6. ~f => \A i \in 1..Steps : i > j => step'[r][i] \in {"pending", "rolled_back"}
    <3>1. ASSUME ~f, NEW i \in 1..Steps, i > j
          PROVE  step[r][i] \in {"pending", "rolled_back"}
      <4>1. CASE i < k
        BY <3>1, <4>1, <2>10 DEF ToUndo
      <4>2. CASE i >= k
        BY <2>0, <3>1, <4>2
      <4> QED
        BY <3>1, <4>1, <4>2
    <3> QED
      BY <2>1, <2>5, <3>1 DEF StepSet
  <2>7. step'[r][j] = "rolling_back"
    BY <2>5 DEF StepSet
  <2>8. exec'[n] = y
    BY <2>2 DEF Becomes
  <2>9. ASSUME NEW t, t = "marked", t \in Undoing, exec'[n].at = t
        PROVE  Sound(n)'
    <3>1. /\ t \in {"marked", "undone"} => step'[r][j] = "rolling_back"
          /\ t = "undone" /\ b => \A d \in Box : <<r, j>> \notin effect'[d]
          /\ t = "releasing" => ReleasesContainer(env'[e])
          /\ ~f /\ t = "settling" => ~ReleasesContainer(env'[e])
      BY <2>7, <2>9
    <3>2. ~f => \A i \in 1..Steps :
                 i > j \/ (t = "rolling" /\ i = j) \/ t \in {"releasing", "settling"} =>
                    step'[r][i] \in {"pending", "rolled_back"}
      BY <2>6, <2>9
    <3>3. rev'[r].status = "rolling_back" /\ rev'[r].env = e /\ env'[e].box \in {Nothing, c}
      BY <2>0
    <3>4. exec'[n].rev = r /\ exec'[n].box = c /\ exec'[n].step = j /\ exec'[n].ok = b /\ exec'[n].failed = f
      BY <2>3, <2>8
    <3>5. exec'[n].at = t /\ t \in Undoing
      BY <2>9
    <3> QED
      BY <3>1, <3>2, <3>3, <3>4, <3>5, UndoingFitsIn
  <2> QED
    <3>1. Sound(n)'
      BY <2>3, <2>4, <2>8, <2>9
    <3> QED
      BY <1>1, <2>0, <2>2, <2>3, <2>4, <2>10, <3>1
<1>3. CASE RecordUndo(n)
  <2>0. x.at = "undone" /\ UNCHANGED <<env, rev, box, docker, op, effect>> /\ op[n].stage = "out" /\ k \in 1..Steps
    BY <1>3 DEF RecordUndo, boxVars
  <2> DEFINE s == IF b THEN "rolled_back" ELSE "rollback_failed"
             g == f \/ ~b
             y == Ex("rolling", x.rev, x.box, x.gen, x.step, x.ok, g)
  <2>1. /\ SetStep(n, k, s) /\ exec' = [exec EXCEPT ![n].at = "rolling", ![n].failed = g]
    BY <1>3 DEF RecordUndo
  <2>2. Becomes(n, y)
    BY <1>0, <2>1, MovesBecome
  <2>3. y.at = "rolling" /\ y.rev = r /\ y.box = c /\ y.step = k /\ y.ok = b /\ y.failed = g
    BY ExFields
  <2>4. s \in StepStatus \ {"pending", "verified"} /\ "rolling" \in Undoing /\ g \in BOOLEAN
    BY DEF StepStatus, Undoing
  <2>40. (s = "rolled_back" => b) /\ (~g => ~f /\ s = "rolled_back")
    OBVIOUS
  <2> HIDE DEF y, s, g
  <2>5. StepSet(r, k, s)
    BY <2>0, <2>1, <2>4, StepIsSet
  <2>6. ~g => \A i \in 1..Steps : i > k \/ i = k => step'[r][i] \in {"pending", "rolled_back"}
    <3>1. ASSUME ~g, NEW i \in 1..Steps, i > k
          PROVE  step'[r][i] \in {"pending", "rolled_back"}
      BY <2>0, <2>40, <2>5, <3>1 DEF StepSet
    <3>2. ~g => step'[r][k] \in {"pending", "rolled_back"}
      BY <2>0, <2>40, <2>5 DEF StepSet
    <3> QED
      BY <3>1, <3>2
  <2>7. s = "rolled_back" => \A d \in Box : <<r, k>> \notin effect[d]
    BY <2>0, <2>40
  <2>8. exec'[n] = y
    BY <2>2 DEF Becomes
  <2>9. Sound(n)'
    BY <2>0, <2>3, <2>4, <2>6, <2>8, UndoingFitsIn
  <2> QED
    BY <1>1, <2>0, <2>1, <2>2, <2>3, <2>4, <2>7, <2>9
<1>4. CASE StepsUndone(n)
  <2> DEFINE s == IF ~x.failed /\ ReleasesContainer(env[EnvOf(n)]) /\ x.box # Nothing THEN "releasing" ELSE "settling"
             y == Ex(s, x.rev, x.box, x.gen, x.step, x.ok, x.failed)
  <2>0. /\ x.at = "rolling" /\ ToUndo(n) = {} /\ At(n, s) /\ op[n].stage = "out"
        /\ UNCHANGED <<env, rev, box, docker, op, step, effect>>
    BY <1>4 DEF StepsUndone, boxVars, envVars
  <2>1. /\ s \in {"releasing", "settling"} /\ s \in Stage /\ s \in Undoing /\ s \notin {"marked", "undone", "rolling"}
        /\ s = "releasing" => ReleasesContainer(env[e])
    BY <1>0 DEF Undoing, EnvOf
  <2>2. ~f /\ s = "settling" => ~ReleasesContainer(env[e])
    BY DEF EnvOf, ReleasesContainer
  <2>3. y.at = s /\ y.rev = r /\ y.box = c /\ y.step = k /\ y.ok = b /\ y.failed = f
    BY ExFields
  <2> HIDE DEF s
  <2>4. Becomes(n, y)
    BY <1>0, <2>0, <2>1, AtBecomes
  <2> HIDE DEF y
  <2>5. exec'[n] = y
    BY <2>4 DEF Becomes
  <2>6. ~f => \A i \in 1..Steps : step'[r][i] \in {"pending", "rolled_back"}
    <3>1. ASSUME ~f, NEW i \in 1..Steps
          PROVE  step[r][i] \in {"pending", "rolled_back"}
      <4>1. CASE i < k
        BY <2>0, <3>1, <4>1 DEF ToUndo
      <4>2. CASE i >= k
        BY <2>0, <3>1, <4>2
      <4> QED
        BY <3>1, <4>1, <4>2
    <3> QED
      BY <2>0, <3>1
  <2>7. Sound(n)'
    <3>1. /\ s \in {"marked", "undone"} => step'[r][k] = "rolling_back"
          /\ s = "undone" /\ b => \A d \in Box : <<r, k>> \notin effect'[d]
          /\ s = "releasing" => ReleasesContainer(env'[e])
          /\ ~f /\ s = "settling" => ~ReleasesContainer(env'[e])
      BY <2>0, <2>1, <2>2
    <3>2. ~f => \A i \in 1..Steps :
                 i > k \/ (s = "rolling" /\ i = k) \/ s \in {"releasing", "settling"} =>
                    step'[r][i] \in {"pending", "rolled_back"}
      BY <2>6
    <3>3. rev'[r].status = "rolling_back" /\ rev'[r].env = e /\ env'[e].box \in {Nothing, c}
      BY <2>0
    <3>4. /\ exec'[n].at = s /\ exec'[n].rev = r /\ exec'[n].box = c /\ exec'[n].step = k
          /\ exec'[n].ok = b /\ exec'[n].failed = f
      BY <2>3, <2>5
    <3> QED
      BY <2>1, <3>1, <3>2, <3>3, <3>4, UndoingFitsIn
  <2>8. BoxesStay
    BY <2>0 DEF BoxesStay
  <2> QED
    BY <1>0, <2>0, <2>3, <2>4, <2>7, <2>8, MoveKeeps
<1>5. CASE Undo(n)
  <2>0. x.at = "marked" /\ k \in 1..Steps /\ UNCHANGED <<env, rev, step>> /\ op[n].stage = "out"
        /\ "undone" \in Undoing
    BY <1>5 DEF Undo, envVars, Undoing
  <2>1. ASSUME NEW g \in BOOLEAN, ~g, NEW t, t = "undone", t \in Undoing, t \in Stage, CommandRaises(n),
               exec' = [exec EXCEPT ![n].at = t, ![n].ok = g], UNCHANGED effect
        PROVE  RevisionInv'
    <3> DEFINE y == Ex(t, x.rev, x.box, x.gen, x.step, g, x.failed)
    <3>1. Becomes(n, y)
      BY <1>0, <2>1, MovesBecome
    <3>2. y.at = t /\ y.rev = r /\ y.box = c /\ y.step = k /\ y.ok = g /\ y.failed = f
      BY ExFields
    <3> HIDE DEF y
    <3>3. /\ exec'[n].at = t /\ exec'[n].rev = r /\ exec'[n].box = c /\ exec'[n].step = k
          /\ exec'[n].ok = g /\ exec'[n].failed = f
      BY <3>1, <3>2 DEF Becomes
    <3>4. BoxesStay /\ UNCHANGED <<docker, op>>
      BY <2>1, RaisedStays
    <3>5. Sound(n)'
      <4>1. /\ t \in {"marked", "undone"} => step'[r][k] = "rolling_back"
            /\ t = "undone" /\ g => \A d \in Box : <<r, k>> \notin effect'[d]
            /\ t = "releasing" => ReleasesContainer(env'[e])
            /\ ~f /\ t = "settling" => ~ReleasesContainer(env'[e])
            /\ rev'[r].status = "rolling_back" /\ rev'[r].env = e /\ env'[e].box \in {Nothing, c}
        BY <2>0, <2>1
      <4>2. ~f => \A i \in 1..Steps :
                 i > k \/ (t = "rolling" /\ i = k) \/ t \in {"releasing", "settling"} =>
                    step'[r][i] \in {"pending", "rolled_back"}
        BY <2>0, <2>1
      <4>3. t \in Undoing
        BY <2>1
      <4> QED
        BY <3>3, <4>1, <4>2, <4>3, UndoingFitsIn
    <3> QED
      BY <1>0, <2>0, <2>1, <3>1, <3>2, <3>4, <3>5, MoveKeeps
  <2>2. ASSUME c # Nothing, Reachable(n), UNCHANGED boxVars, NEW left, effect' = [effect EXCEPT ![c] = left], NEW g \in BOOLEAN,
               left \in {effect[c], effect[c] \ {<<r, k>>}}, g => left = effect[c] \ {<<r, k>>},
               exec' = [exec EXCEPT ![n].at = "undone", ![n].ok = g]
        PROVE  RevisionInv'
    <3> DEFINE y == Ex("undone", x.rev, x.box, x.gen, x.step, g, x.failed)
    <3>1. Becomes(n, y)
      BY <1>0, <2>2, MovesBecome
    <3>2. y.at = "undone" /\ y.rev = r /\ y.box = c /\ y.step = k /\ y.ok = g /\ y.failed = f
      BY ExFields
    <3> HIDE DEF y
    <3>3. exec'[n] = y
      BY <3>1 DEF Becomes
    <3>4. /\ UNCHANGED <<box, docker, op>> /\ effect'[c] = left /\ docker[c].status = "running"
          /\ \A d \in Box : d # c => effect'[d] = effect[d]
      BY <1>0, <2>2 DEF boxVars, Reachable
    <3>5. BoxesStay
      BY <3>4 DEF BoxesStay
    <3>6. /\ \A d \in Box : docker[d].status = "none" => effect'[d] = effect[d]
          /\ \A q \in Rev, i \in 1..Steps, d \in Box : q # r => (<<q, i>> \in effect'[d] <=> <<q, i>> \in effect[d])
          /\ \A i \in 1..Steps, d \in Box : <<r, i>> \in effect'[d] => <<r, i>> \in effect[d]
      BY <2>0, <2>2, <3>4
    <3>7. Works(n, y)
      BY <2>0, <3>1, <3>2, <3>4, <3>5, <3>6 DEF Works
    <3>8. StepsFit(r)'
      BY <2>0, <3>6 DEF StepsFit, Clean
    <3>9. g => \A d \in Box : <<r, k>> \notin effect'[d]
      <4>1. \A d \in Box : d # c => <<r, k>> \notin effect[d]
        BY <1>0, <2>0 DEF StepsFit
      <4> QED
        BY <2>2, <3>4, <4>1
    <3>10. Sound(n)'
      BY <2>0, <3>2, <3>3, <3>9, UndoingFitsIn
    <3> QED
      BY <1>0, <3>7, <3>8, <3>10, WorkKeeps
  <2>3. CASE /\ c # Nothing /\ Reachable(n) /\ UNCHANGED boxVars
             /\ effect' = [effect EXCEPT ![c] = effect[c] \ {<<r, k>>}]
             /\ exec' = [exec EXCEPT ![n].at = "undone", ![n].ok = TRUE]
    BY <2>2, <2>3
  <2>4. CASE /\ c # Nothing /\ Reachable(n) /\ UNCHANGED boxVars
             /\ \E left \in {effect[c], effect[c] \ {<<r, k>>}} : effect' = [effect EXCEPT ![c] = left]
             /\ exec' = [exec EXCEPT ![n].at = "undone", ![n].ok = FALSE]
    BY <2>2, <2>4
  <2> QED
    <3>1. CommandRaises(n) /\ exec' = [exec EXCEPT ![n].at = "undone", ![n].ok = FALSE] /\ UNCHANGED effect
          => RevisionInv'
      BY <1>0, <2>0, <2>1
    <3> QED
      BY <1>5, <2>3, <2>4, <3>1 DEF Undo
<1> QED
  BY <1>2, <1>3, <1>4, <1>5

-----------------------------------------------------------------------------
(* The provisioning of a container for an initial revision.                *)

\* An executor that provisions for revision r of environment e and has container c.
Provisions(n, r, e, c, b, f) ==
    LET at == exec[n].at IN
    /\ at \in Provisional
    /\ exec[n].rev = r /\ rev[r].env = e /\ exec[n].box = c /\ exec[n].ok = b /\ exec[n].failed = f
    /\ exec[n].gen \in Nat /\ exec[n].step \in 1..(Steps + 1)
    /\ n \in Actor /\ r # Nothing /\ Nothing \notin Box
    /\ at \notin {"bound", "failing"} => op[n].stage = "out"
    /\ at \in {"created", "bound", "started"} => c \in Box
    /\ rev[r].status = "executing" /\ rev[r].kind = "initial"
    /\ env[e].active = r /\ env[e].applied = Nothing /\ env[e].platform
    /\ Shape(env[e]) /\ env[e].status \in Transitioning /\ env[e] \in EnvRows
    /\ \A k \in 1..Steps : step[r][k] = "pending" /\ \A d \in Box : <<r, k>> \notin effect[d]
    /\ at \notin {"failing", "failed"} => b
    /\ at = "claimed" => env[e].box = Nothing /\ c = Nothing
    /\ at = "created" =>
          /\ env[e].box = Nothing /\ ~Bound(c)
          /\ box[c].rev = r /\ box[c].status \notin {"absent", "removed"}
    /\ at \in {"bound", "started", "failing"} => env[e].box = c
    /\ at = "failed" => IF b THEN env[e].box = Nothing ELSE c # Nothing /\ env[e].box = c
    /\ env[e].box # Nothing => box[env[e].box].status \notin {"absent", "removed"}

LEMMA AtProvisioning ==
    ASSUME TypeInv, RevisionInv, NEW n \in Node, exec[n].at \in Provisional
    PROVE  \E r \in Rev, e \in Env, c \in Box \cup {Nothing}, b \in BOOLEAN, f \in BOOLEAN :
              Provisions(n, r, e, c, b, f)
<1> DEFINE r == exec[n].rev  e == rev[r].env  c == exec[n].box
<1>0. exec[n].at \notin {"idle", "dead", "releasing"}
  BY DEF Provisional
<1>1. /\ Sound(n) /\ (\A q \in Rev : StepsFit(q) /\ RevFits(q)) /\ \A d \in Env : EnvFits(d)
  BY DEF RevisionInv, ExecInv, StepInv, RowInv
<1>2. /\ r \in Rev /\ r # Nothing /\ e \in Env /\ c \in Box \cup {Nothing} /\ exec[n].gen \in Nat
      /\ exec[n].step \in 1..(Steps + 1) /\ exec[n].ok \in BOOLEAN /\ exec[n].failed \in BOOLEAN
      /\ n \in Actor /\ Nothing \notin Box /\ env[e] \in EnvRows
      /\ exec[n].at \notin {"bound", "failing"} => op[n].stage = "out"
      /\ exec[n].at \in {"created", "bound", "started"} => c \in Box
  BY <1>0, AtWork
<1>3. /\ rev[r].status = "executing" /\ env[e].applied = Nothing /\ env[e].platform
      /\ \A k \in 1..Steps : step[r][k] = "pending"
      /\ exec[n].at \notin {"failing", "failed"} => exec[n].ok
      /\ exec[n].at = "claimed" => env[e].box = Nothing /\ c = Nothing
      /\ exec[n].at \in {"bound", "started", "failing"} => env[e].box = c
      /\ exec[n].at = "failed" => IF exec[n].ok THEN env[e].box = Nothing ELSE c # Nothing /\ env[e].box = c
  BY <1>1 DEF Sound, ProvisionalFits
<1>4. exec[n].at = "created" => /\ env[e].box = Nothing /\ ~Bound(c)
                                /\ box[c].rev = r /\ box[c].status \notin {"absent", "removed"}
  BY <1>1 DEF Sound
<1>5. env[e].active = r /\ rev[r].kind = "initial"
  BY <1>1, <1>2, <1>3 DEF RevFits, UnderWay, PlannedKind
<1>6. rev[r].status # "absent" /\ env[e].status # "absent"
  BY <1>1, <1>2, <1>3 DEF RevFits
<1>7. /\ Shape(env[e])
      /\ env[e].box # Nothing => box[env[e].box].status \notin {"absent", "removed"}
  BY <1>1, <1>2, <1>6 DEF EnvFits
<1>8. env[e].status \in Transitioning
  BY <1>2, <1>5, <1>7 DEF Shape
<1>9. \A k \in 1..Steps : \A d \in Box : <<r, k>> \notin effect[d]
  <2>1. StepsFit(r)
    BY <1>1, <1>2
  <2> QED
    BY <1>3, <2>1 DEF StepsFit
<1> QED
  BY <1>0, <1>2, <1>3, <1>4, <1>5, <1>7, <1>8, <1>9, ZenonT(40) DEF Provisions

\* The containers that were created for its revision and exist.
LEMMA ProvisionedBoxes ==
    ASSUME TypeInv, RevisionInv, NEW n \in Node, NEW r \in Rev, NEW e, NEW c, NEW b, NEW f,
           Provisions(n, r, e, c, b, f), NEW d \in Box, box[d].rev = r, docker[d].status # "none"
    PROVE  env[e].box = d \/ (exec[n].at = "created" /\ d = c)
<1>1. Awaited(d, r)
  BY DEF RevisionInv, RowInv, BoxFits, Provisions
<1>2. \A m \in Node : exec[m].rev = r => m = n
  BY DEF RevisionInv, Leases, Provisions
<1> QED
  BY <1>1, <1>2 DEF Awaited, Provisions

\* What has to be shown of it.
LEMMA ProvisionalIn ==
    ASSUME NEW n \in Node, NEW s, NEW r, NEW e, NEW c, NEW b,
           exec'[n].at = s, exec'[n].rev = r, exec'[n].box = c, exec'[n].ok = b, s \in Provisional,
           rev'[r].status = "executing", rev'[r].env = e, env'[e].applied = Nothing, env'[e].platform,
           \A k \in 1..Steps : step'[r][k] = "pending",
           s \notin {"failing", "failed"} => b,
           s = "claimed" => env'[e].box = Nothing /\ c = Nothing,
           s = "created" =>
             /\ env'[e].box = Nothing /\ \A d \in Env : env'[d].box # c
             /\ box'[c].rev = r /\ box'[c].status \notin {"absent", "removed"},
           s \in {"bound", "started", "failing"} => env'[e].box = c,
           s = "failed" => IF b THEN env'[e].box = Nothing ELSE c # Nothing /\ env'[e].box = c
    PROVE  Sound(n)'
<1>1. ProvisionalFits(exec'[n], rev'[r], env'[e], step'[r])
  BY DEF ProvisionalFits
<1> QED
  BY <1>1 DEF Sound, Provisional, Applying, Undoing, Bound

\* It only moves on, within the provisioning or out of it with a failure.
LEMMA ProvisionMoves ==
    ASSUME TypeInv, TypeInv', ReadInv, RevisionInv, NEW n \in Node,
           NEW r \in Rev, NEW e \in Env, NEW c \in Box \cup {Nothing}, NEW b \in BOOLEAN, NEW f \in BOOLEAN,
           Provisions(n, r, e, c, b, f), exec[n].at # "created",
           NEW s \in {"bound", "started", "failing", "failed"}, NEW g \in BOOLEAN, NEW y, Becomes(n, y),
           y.at = s, y.rev = r, y.box = c, y.ok = g,
           UNCHANGED <<env, rev, docker, step, effect>>, BoxesStay,
           \A a \in Actor : a # n => op'[a] = op[a],
           op'[n].stage # "acted" /\ (op'[n].stage # "out" => op'[n].kind \in NodeMutation),
           s \in {"bound", "started"} => g,
           s \in {"bound", "started", "failing"} => env[e].box = c,
           s = "failed" => IF g THEN env[e].box = Nothing ELSE c # Nothing /\ env[e].box = c
    PROVE  RevisionInv'
<1>1. /\ exec'[n].at = s /\ exec'[n].rev = r /\ exec'[n].box = c /\ exec'[n].ok = g
      /\ exec[n].rev = r /\ y.rev \in {Nothing, exec[n].rev}
  BY DEF Becomes, Provisions
<1>2. /\ rev'[r].status = "executing" /\ rev'[r].env = e /\ env'[e].applied = Nothing /\ env'[e].platform
      /\ \A k \in 1..Steps : step'[r][k] = "pending"
  BY DEF Provisions
<1>3. /\ s \in Provisional /\ s \notin {"claimed", "created"}
      /\ s \notin {"failing", "failed"} => g
      /\ s \in {"bound", "started", "failing"} => env'[e].box = c
      /\ s = "failed" => IF g THEN env'[e].box = Nothing ELSE c # Nothing /\ env'[e].box = c
  BY DEF Provisional
<1>4. Sound(n)'
  BY <1>1, <1>2, <1>3, ProvisionalIn
<1> QED
  BY <1>1, <1>4, MoveKeeps

LEMMA ProvisionSteps ==
    ASSUME TypeInv, TypeInv', ReadInv, RevisionInv, NEW n \in Node,
           NEW r \in Rev, NEW e \in Env, NEW c \in Box \cup {Nothing}, NEW b \in BOOLEAN, NEW f \in BOOLEAN,
           Provisions(n, r, e, c, b, f), Provision(n)
    PROVE  RevisionInv'
<1> DEFINE x == exec[n]
<1>0. /\ x.at = "claimed" /\ x.rev = r /\ x.box = c /\ x.ok = b /\ x.failed = f /\ c = Nothing /\ env[e].box = Nothing
      /\ op[n].stage = "out" /\ n \in Actor /\ UNCHANGED <<env, rev, step, effect>>
  BY DEF Provision, Provisions, envVars
<1>01. b
  BY DEF Provision, Provisions
<1>00. /\ exec \in [Node -> Executor] /\ "created" \in Stage /\ "failing" \in Stage
       /\ r # Nothing /\ Nothing \notin Box
  BY TypesOf DEF Stage, Provisions
<1>1. CASE At(n, "failing") /\ UNCHANGED boxVars
  <2> DEFINE y == Ex("failing", x.rev, x.box, x.gen, x.step, x.ok, x.failed)
  <2>1. Becomes(n, y)
    BY <1>00, <1>1, AtBecomes
  <2>2. y.at = "failing" /\ y.rev = r /\ y.box = c /\ y.ok = b
    BY <1>0, ExFields
  <2> HIDE DEF y
  <2>3. BoxesStay /\ UNCHANGED <<docker, op>>
    BY <1>1 DEF BoxesStay, boxVars
  <2> QED
    <3>1. /\ x.at # "created" /\ "failing" \in {"bound", "started", "failing", "failed"}
          /\ env[e].box = c
          /\ \A a \in Actor : a # n => op'[a] = op[a]
          /\ op'[n].stage # "acted" /\ (op'[n].stage # "out" => op'[n].kind \in NodeMutation)
          /\ UNCHANGED <<env, rev, docker, step, effect>>
      BY <1>0, <2>3
    <3> QED
      BY <2>1, <2>2, <2>3, <3>1, ProvisionMoves
<1>2. ASSUME NEW d \in Box, CreateBox(d, r), exec' = [exec EXCEPT ![n].at = "created", ![n].box = d]
      PROVE  RevisionInv'
  <2> DEFINE y == Ex("created", x.rev, d, x.gen, x.step, x.ok, x.failed)
  <2>1. Becomes(n, y)
    BY <1>00, <1>2, MovesBecome
  <2>2. y.at = "created" /\ y.rev = r /\ y.box = d /\ y.ok = b
    BY <1>0, ExFields
  <2> HIDE DEF y
  <2>3. exec'[n] = y
    BY <2>1 DEF Becomes
  <2>4. /\ box[d].status = "absent" /\ box'[d].status = "created" /\ box'[d].rev = r
        /\ docker'[d].status = "created" /\ UNCHANGED op
        /\ \A i \in Box : i # d => box'[i] = box[i] /\ docker'[i] = docker[i]
    BY <1>2, TypesOf DEF CreateBox, DockerCreates, NewBox, BoxTypeInv, BoxTypeOK
  <2>5. \A i \in Env : env[i].box # d
    <3>1. \A i \in Env : EnvFits(i)
      BY DEF RevisionInv, RowInv
    <3> QED
      BY <1>00, <2>4, <3>1 DEF EnvFits
  <2>6. Sound(n)'
    <3>1. /\ rev'[r].status = "executing" /\ rev'[r].env = e /\ env'[e].applied = Nothing /\ env'[e].platform
          /\ \A k \in 1..Steps : step'[r][k] = "pending"
      BY <1>0 DEF Provisions
    <3>2. /\ "created" \in Provisional /\ "created" \notin {"claimed", "failed", "bound", "started", "failing"}
          /\ env'[e].box = Nothing /\ (\A i \in Env : env'[i].box # d)
          /\ box'[d].rev = r /\ box'[d].status \notin {"absent", "removed"}
      BY <1>0, <2>4, <2>5 DEF Provisional
    <3>3. exec'[n].at = "created" /\ exec'[n].rev = r /\ exec'[n].box = d /\ exec'[n].ok = b
      BY <2>2, <2>3
    <3> QED
      BY <1>01, <3>1, <3>2, <3>3, ProvisionalIn, ZenonT(40)
  <2>7. ByExecutor(n, e, r, y)
    BY <1>0, <2>1, <2>2 DEF ByExecutor
  <2>8. BoxesByExecutor(n, e, r)
    BY <1>0, <2>4 DEF BoxesByExecutor
  <2>9. ASSUME NEW i \in Box, box'[i].rev = r
        PROVE  BoxFits(i)'
    <3>1. /\ rev'[r].status = "executing" /\ rev'[r].kind = "initial" /\ env'[rev'[r].env].platform
          /\ rev'[r].status # "absent" /\ rev'[r].status \in UnderWay
      BY <1>0 DEF Provisions, UnderWay
    <3>2. CASE i = d
      <4>1. Awaited(i, r)'
        BY <2>2, <2>3, <3>2 DEF Awaited
      <4> QED
        BY <2>4, <2>9, <3>1, <3>2, <4>1 DEF BoxFits
    <3>3. CASE i # d
      <4>1. docker'[i].status = "none" /\ box'[i].status # "absent"
        <5>1. box[i].rev = r /\ docker'[i] = docker[i] /\ box'[i] = box[i]
          BY <2>4, <2>9, <3>3
        <5>2. docker[i].status = "none"
          BY <1>0, <1>00, <5>1, ProvisionedBoxes
        <5>3. BoxFits(i)
          BY DEF RevisionInv, RowInv
        <5> QED
          BY <1>00, <5>1, <5>2, <5>3 DEF BoxFits
      <4> QED
        BY <2>9, <3>1, <4>1 DEF BoxFits
    <3> QED
      BY <3>2, <3>3
  <2>10. StepsFit(r)'
    <3>1. StepsFit(r)
      BY DEF RevisionInv, StepInv
    <3> QED
      BY <1>0, <3>1 DEF StepsFit
  <2> QED
    BY <2>6, <2>7, <2>8, <2>9, <2>10, ExecutorKeeps
<1> QED
  BY <1>0, <1>1, <1>2 DEF Provision

LEMMA BindSteps ==
    ASSUME TypeInv, TypeInv', ReadInv, RevisionInv, NEW n \in Node,
           NEW r \in Rev, NEW e \in Env, NEW c \in Box \cup {Nothing}, NEW b \in BOOLEAN, NEW f \in BOOLEAN,
           Provisions(n, r, e, c, b, f), BindBox(n)
    PROVE  RevisionInv'
<1> DEFINE x == exec[n]  l == env[e]
<1>0. /\ x.at = "created" /\ x.rev = r /\ x.box = c /\ x.ok = b /\ x.failed = f /\ c \in Box /\ EnvOf(n) = e
      /\ op[n].stage = "out" /\ n \in Actor /\ UNCHANGED <<boxVars, step, effect>>
      /\ rev[r].env = e /\ l.box = Nothing /\ box[c].rev = r /\ box[c].status \notin {"absent", "removed"}
      /\ \A d \in Env : env[d].box # c
  BY DEF BindBox, Provisions, Bound, EnvOf
<1>01. b
  BY <1>0 DEF Provisions
<1>02. /\ rev[r].status = "executing" /\ rev[r].kind = "initial" /\ l.active = r /\ l.applied = Nothing
       /\ l.platform /\ l.status \in Transitioning /\ l \in EnvRows
       /\ \A k \in 1..Steps : step[r][k] = "pending" /\ \A d \in Box : <<r, k>> \notin effect[d]
  BY DEF Provisions
<1>00. /\ exec \in [Node -> Executor] /\ "bound" \in Stage /\ r # Nothing /\ Nothing \notin Box
       /\ env \in [Env -> EnvRows] /\ rev \in [Rev -> RevRows]
  BY TypesOf DEF Stage, Provisions
<1>1. /\ env' = [env EXCEPT ![e].box = c] /\ rev' = [rev EXCEPT ![r].box = c] /\ At(n, "bound")
  <2>1. ~BoundElsewhere(e, c)
    BY <1>0 DEF BoundElsewhere
  <2> QED
    BY <1>0, <1>02, <2>1 DEF BindBox
<1>2. RevBecomes(r, "executing", c)
  <2>1. rev[r].status \in RevisionStatus
    BY <1>00 DEF RevRows
  <2> QED
    BY <1>0, <1>00, <1>02, <1>1, <2>1, RevisionBecomes
<1>3. /\ rev'[r].status = "executing" /\ rev'[r].env = e /\ rev'[r].kind = "initial"
      /\ \A q \in Rev : q # r => rev'[q] = rev[q]
  BY <1>0, <1>02, <1>2 DEF RevBecomes
<1>4. /\ env'[e].box = c /\ env'[e].active = r /\ env'[e].applied = Nothing /\ env'[e].platform = l.platform
      /\ env'[e].status = l.status /\ \A d \in Env : d # e => env'[d] = env[d]
  <2>1. env'[e] = [l EXCEPT !.box = c] /\ \A d \in Env : d # e => env'[d] = env[d]
    BY <1>00, <1>1
  <2>2. env'[e] = Row(l.status, l.applied, l.active, c, l.platform)
    <3> HIDE DEF l
    <3>1. [l EXCEPT !.box = c] = Row(l.status, l.applied, l.active, c, l.platform)
      BY <1>0, <1>02, LifecycleRecords
    <3> QED
      BY <2>1, <3>1
  <2> QED
    BY <2>1, <2>2, <1>02 DEF Row
<1>5. l.status \in {"building", "adapting", "recovery_required"} /\ Shape(l)
  BY <1>02 DEF Provisions, Transitioning
<1> DEFINE y == Ex("bound", x.rev, x.box, x.gen, x.step, x.ok, x.failed)
<1>6. Becomes(n, y)
  BY <1>00, <1>1, AtBecomes
<1>7. y.at = "bound" /\ y.rev = r /\ y.box = c /\ y.ok = b
  BY <1>0, ExFields
<1> HIDE DEF y
<1>8. exec'[n] = y
  BY <1>6 DEF Becomes
<1>9. OnRow(e, r)
  BY <1>0, <1>00, <1>02, <1>3, <1>4, <1>5 DEF OnRow
<1>10. RowFitsIn(e, r)
  <2>1. Shape(env'[e])
    BY <1>00, <1>02, <1>4, <1>5 DEF Shape, Transitioning
  <2>2. rev'[r].kind = PlannedKind(env'[e])
    BY <1>3, <1>4 DEF PlannedKind
  <2>3. /\ rev'[r].status \in UnderWay /\ rev'[r].status \notin {"pending_approval", "applied"}
        /\ env'[e].active = r /\ env'[e].status # "absent"
    BY <1>3, <1>4, <1>5 DEF UnderWay
  <2>4. /\ box[env'[e].box].status \notin {"absent", "removed"}
        /\ \A d \in Env \ {e} : env[d].box # env'[e].box
    BY <1>0, <1>4
  <2> QED
    BY <2>1, <2>2, <2>3, <2>4 DEF RowFitsIn
<1>11. ByExecutor(n, e, r, y)
  BY <1>0, <1>6, <1>7, <1>9, <1>10 DEF ByExecutor
<1>12. box' = box /\ docker' = docker /\ op' = op
  BY <1>0 DEF boxVars
<1>13. BoxesByExecutor(n, e, r)
  <2>1. /\ env'[e].box \notin {Nothing, env[e].box} =>
             r # Nothing /\ box[env'[e].box].rev = r /\ rev[r].status = "executing"
        /\ env'[e].box # env[e].box => env[e].box = Nothing \/ docker[env[e].box].status = "none"
        /\ r # Nothing /\ rev'[r].status = "executing" =>
             rev[r].status = "executing" \/ \A d \in Box : box[d].rev = r => Bound(d)
    BY <1>0, <1>00, <1>02, <1>4
  <2>2. op'[n].stage # "acted" /\ (op'[n].stage # "out" => op'[n].kind \in NodeMutation)
    BY <1>0, <1>12
  <2> QED
    BY <1>12, <2>1, <2>2 DEF BoxesByExecutor
<1>14. ASSUME NEW d \in Box, box'[d].rev = r
       PROVE  BoxFits(d)'
  <2>1. /\ rev'[r].status # "absent" /\ rev'[r].kind = "initial" /\ env'[rev'[r].env].platform
        /\ rev'[r].status \in UnderWay
    BY <1>02, <1>3, <1>4 DEF UnderWay
  <2>2. docker'[d].status # "none" => Awaited(d, r)'
    <3>1. docker[d].status # "none" => d = c
      BY <1>0, <1>00, <1>12, <1>14, ProvisionedBoxes
    <3>2. env'[rev'[r].env].box = c
      BY <1>3, <1>4
    <3> QED
      BY <1>12, <3>1, <3>2 DEF Awaited
  <2>3. BoxFits(d)
    BY DEF RevisionInv, RowInv
  <2>4. box'[d].status # "absent"
    BY <1>00, <1>12, <1>14, <2>3 DEF BoxFits
  <2> QED
    BY <1>14, <2>1, <2>2, <2>4 DEF BoxFits
<1>15. StepsFit(r)'
  <2>1. step' = step /\ effect' = effect
    BY <1>0
  <2> QED
    BY <1>02, <1>3, <2>1 DEF StepsFit, Clean
<1>16. Sound(n)'
  <2>1. /\ env'[e].applied = Nothing /\ env'[e].platform /\ env'[e].box = c
        /\ \A k \in 1..Steps : step'[r][k] = "pending"
        /\ rev'[r].status = "executing" /\ rev'[r].env = e
    BY <1>0, <1>02, <1>3, <1>4
  <2>3. "bound" \in Provisional /\ "bound" \notin {"claimed", "created", "failed", "failing"}
    BY DEF Provisional
  <2>2. exec'[n].at = "bound" /\ exec'[n].rev = r /\ exec'[n].box = c /\ exec'[n].ok = b
    BY <1>7, <1>8
  <2> QED
    <3>1. ASSUME NEW s, s = "bound", NEW g, exec'[n].ok = g, g
          PROVE  Sound(n)'
      <4>1. /\ exec'[n].at = s /\ exec'[n].rev = r /\ exec'[n].box = c /\ s \in Provisional
            /\ s \notin {"failing", "failed"} => g
            /\ s \notin {"claimed", "created", "failed"}
            /\ s \in {"bound", "started", "failing"} => env'[e].box = c
        BY <2>1, <2>2, <2>3, <3>1
      <4>2. exec'[n].ok = g
        BY <3>1
      <4> QED
        BY <2>1, <4>1, <4>2, ProvisionalIn
    <3> QED
      BY <1>01, <2>2, <3>1
<1> QED
  BY <1>11, <1>13, <1>14, <1>15, <1>16, ExecutorKeeps

LEMMA ReleasedOp ==
    ASSUME TypeInv, NEW n \in Node, Released(n)
    PROVE  /\ \A a \in Actor : a # n => op'[a] = op[a]
           /\ op'[n].stage = "out"
<1>1. op \in [Actor -> [kind : Mutation \cup {"none"}, box : Box \cup {Nothing},
                         stage : {"out", "checked", "acted"}, ok : BOOLEAN]]
      /\ n \in Actor
  BY TypesOf, NodeAssumption DEF BoxTypeInv, BoxTypeOK
<1> QED
  BY <1>1 DEF Released, NoOp

LEMMA BegunOp ==
    ASSUME TypeInv, NEW n \in Node, NEW kind, NEW c, BeginMutation(n, kind, c)
    PROVE  /\ \A a \in Actor : a # n => op'[a] = op[a]
           /\ op'[n].stage = "checked" /\ op'[n].kind = kind
           /\ BoxesStay /\ UNCHANGED docker
<1>1. op \in [Actor -> [kind : Mutation \cup {"none"}, box : Box \cup {Nothing},
                         stage : {"out", "checked", "acted"}, ok : BOOLEAN]]
      /\ n \in Actor
  BY TypesOf, NodeAssumption DEF BoxTypeInv, BoxTypeOK
<1> QED
  BY <1>1 DEF BeginMutation, BoxesStay

LEMMA StartSteps ==
    ASSUME TypeInv, TypeInv', ReadInv, RevisionInv, NEW n \in Node,
           NEW r \in Rev, NEW e \in Env, NEW c \in Box \cup {Nothing}, NEW b \in BOOLEAN, NEW f \in BOOLEAN,
           Provisions(n, r, e, c, b, f), StartBox(n) \/ BoxStarted(n)
    PROVE  RevisionInv'
<1> DEFINE x == exec[n]
<1>0. /\ x.at = "bound" /\ x.rev = r /\ x.box = c /\ x.ok = b /\ x.failed = f /\ c \in Box
      /\ env[e].box = c /\ UNCHANGED <<env, rev, step, effect>> /\ x.at # "created"
  BY DEF StartBox, BoxStarted, Provisions, envVars
<1>01. b
  BY <1>0 DEF Provisions
<1>00. exec \in [Node -> Executor] /\ "failing" \in Stage /\ "started" \in Stage
  BY TypesOf DEF Stage
\* It is at the start or past it.
<1>1. ASSUME NEW s \in {"bound", "started", "failing"}, NEW y, Becomes(n, y), y.at = s,
             y.rev = r, y.box = c, y.ok = b, BoxesStay, UNCHANGED docker,
             \A a \in Actor : a # n => op'[a] = op[a],
             op'[n].stage # "acted" /\ (op'[n].stage # "out" => op'[n].kind \in NodeMutation)
      PROVE  RevisionInv'
  <2>1. /\ s \in {"bound", "started", "failing", "failed"} /\ s # "failed"
        /\ UNCHANGED <<env, rev, docker, step, effect>> /\ exec[n].at # "created"
        /\ s \in {"bound", "started", "failing"} => env[e].box = c
    BY <1>0, <1>1
  <2>2. /\ s \in {"bound", "started"} => b
        /\ s = "failed" => IF b THEN env[e].box = Nothing ELSE c # Nothing /\ env[e].box = c
    BY <1>01, <2>1
  <2>3. b \in BOOLEAN
    OBVIOUS
  <2> QED
    BY <1>1, <2>1, <2>2, <2>3, ProvisionMoves
<1>2. CASE BeginMutation(n, "start", c) /\ UNCHANGED exec
  <2>1. Becomes(n, x)
    BY <1>00, <1>2 DEF Becomes
  <2> QED
    BY <1>0, <1>1, <1>2, <2>1, BegunOp DEF NodeMutation
<1>3. CASE op[n].stage = "out" /\ At(n, "failing") /\ UNCHANGED boxVars
  <2> DEFINE y == Ex("failing", x.rev, x.box, x.gen, x.step, x.ok, x.failed)
  <2>1. Becomes(n, y)
    BY <1>00, <1>3, AtBecomes
  <2>2. y.at = "failing" /\ y.rev = r /\ y.box = c /\ y.ok = b
    BY <1>0, ExFields
  <2> HIDE DEF y
  <2>3. BoxesStay /\ UNCHANGED <<docker, op>>
    BY <1>3 DEF BoxesStay, boxVars
  <2> QED
    BY <1>1, <1>3, <2>1, <2>2, <2>3
<1>4. CASE BoxStarted(n)
  <2>1. /\ FinishMutation(n) /\ Released(n) /\ UNCHANGED docker
        /\ \E s \in {"started", "failing"} : exec' = [exec EXCEPT ![n].at = s, ![n].gen = box'[x.box].gen]
    BY <1>4 DEF BoxStarted, FinishMutation
  <2>2. PICK s \in {"started", "failing"} : exec' = [exec EXCEPT ![n].at = s, ![n].gen = box'[x.box].gen]
    BY <2>1
  <2>3. box'[x.box].gen \in Nat /\ s \in Stage /\ n \in Actor /\ op[n].box \in Box
    <3>1. box'[c].gen \in Nat
      BY <1>0 DEF TypeInv, BoxTypeInv, Rows
    <3>2. n \in Actor /\ op[n].stage # "out"
      BY <2>1, NodeAssumption DEF FinishMutation
    <3>3. op[n].box \in Box
      BY <1>0, <3>2, TypesOf DEF WellFormed
    <3> QED
      BY <1>0, <1>00, <3>1, <3>2, <3>3
  <2>4. BoxesStay
    <3>1. CASE UNCHANGED <<box, selected, bootOf>>
      BY <3>1 DEF BoxesStay
    <3>2. \A status \in Status \ {"removed"} : SaveStatus(op[n].box, status) => BoxesStay
      BY <2>3, SavesStay
    <3>3. /\ {"error", "stopped", "paused"} \subseteq Status \ {"removed"}
          /\ Observed(op[n].box) \in Status \ {"removed"}
      BY <2>3, ObservedIsStatus, TypesOf DEF Status
    <3>4. \/ UNCHANGED <<box, selected, bootOf>>
          \/ \E status \in Status \ {"removed"} : SaveStatus(op[n].box, status)
      BY <2>1, <2>3, <3>3, FinishSaves, TypesOf
    <3> QED
      BY <3>1, <3>2, <3>4
  <2> DEFINE y == Ex(s, x.rev, x.box, box'[x.box].gen, x.step, x.ok, x.failed)
  <2>5. Becomes(n, y)
    BY <1>00, <2>2, <2>3, MovesBecome
  <2>6. y.at = s /\ y.rev = r /\ y.box = c /\ y.ok = b
    BY <1>0, ExFields
  <2> HIDE DEF y
  <2>7. (\A a \in Actor : a # n => op'[a] = op[a]) /\ op'[n].stage = "out"
    BY <2>1, ReleasedOp
  <2> QED
    BY <1>1, <2>1, <2>4, <2>5, <2>6, <2>7
<1> QED
  BY <1>0, <1>2, <1>3, <1>4 DEF StartBox

LEMMA SessionBindSteps ==
    ASSUME TypeInv, TypeInv', ReadInv, RevisionInv, NEW n \in Node,
           NEW r \in Rev, NEW e \in Env, NEW c \in Box \cup {Nothing}, NEW b \in BOOLEAN, NEW f \in BOOLEAN,
           Provisions(n, r, e, c, b, f), BindSession(n)
    PROVE  RevisionInv'
<1> DEFINE x == exec[n]
<1>0. /\ x.at = "started" /\ x.rev = r /\ x.box = c /\ x.ok = b /\ x.failed = f /\ c \in Box
      /\ env[e].box = c /\ rev[r].env = e /\ rev[r].status = "executing" /\ c # Nothing
      /\ op[n].stage = "out" /\ UNCHANGED <<box, docker, op, env, rev, step, effect>> /\ x.at # "created"
  BY DEF BindSession, Provisions, envVars
<1>01. b
  BY <1>0 DEF Provisions
<1>00. exec \in [Node -> Executor] /\ "failing" \in Stage /\ "ready" \in Stage
  BY TypesOf DEF Stage
<1>000. BoxesStay
  BY <1>0 DEF BoxesStay
<1>1. CASE At(n, "failing")
  <2> DEFINE y == Ex("failing", x.rev, x.box, x.gen, x.step, x.ok, x.failed)
  <2>1. Becomes(n, y)
    BY <1>00, <1>1, AtBecomes
  <2>2. y.at = "failing" /\ y.rev = r /\ y.box = c /\ y.ok = b
    BY <1>0, ExFields
  <2> HIDE DEF y
  <2>3. /\ "failing" \in {"bound", "started", "failing", "failed"}
        /\ \A a \in Actor : a # n => op'[a] = op[a]
        /\ op'[n].stage # "acted" /\ (op'[n].stage # "out" => op'[n].kind \in NodeMutation)
        /\ UNCHANGED <<env, rev, docker, step, effect>>
    BY <1>0
  <2> QED
    BY <1>0, <1>000, <2>1, <2>2, <2>3, ProvisionMoves
<1>2. CASE At(n, "ready")
  <2> DEFINE y == Ex("ready", x.rev, x.box, x.gen, x.step, x.ok, x.failed)
  <2>1. Becomes(n, y)
    BY <1>00, <1>2, AtBecomes
  <2>2. y.at = "ready" /\ y.rev = r /\ y.box = c /\ y.ok = b
    BY <1>0, ExFields
  <2> HIDE DEF y
  <2>3. exec'[n] = y
    BY <2>1 DEF Becomes
  <2>4. Sound(n)'
    <3>1. ASSUME NEW z, exec'[n] = z, z.at = "ready", z.rev = r, z.box = c, z.ok
          PROVE  Sound(n)'
      <4>1. rev'[r].status = "executing" /\ rev'[r].env = e /\ env'[e].box = c /\ c # Nothing
        BY <1>0
      <4>2. exec'[n].at = "ready" /\ exec'[n].rev = r /\ exec'[n].box = c /\ exec'[n].ok
        BY <3>1
      <4>3. ApplyingFits(n)'
        BY <4>1, <4>2 DEF ApplyingFits
      <4> QED
        BY <3>1, <4>3, SoundIn DEF Applying
    <3>2. y.ok
      BY <1>01, <2>2
    <3> QED
      BY <2>2, <2>3, <3>1, <3>2
  <2>5. /\ \A a \in Actor : a # n => op'[a] = op[a]
        /\ op'[n].stage # "acted" /\ (op'[n].stage # "out" => op'[n].kind \in NodeMutation)
    BY <1>0
  <2> QED
    BY <1>0, <1>000, <2>1, <2>2, <2>4, <2>5, MoveKeeps
<1> QED
  BY <1>1, <1>2 DEF BindSession

-----------------------------------------------------------------------------
(* The deletion of a revision's container.                                 *)

\* An executor that deletes container c of environment e, or finds none to delete.
Deletes(n, r, e, c, f) ==
    LET at == exec[n].at IN
    /\ at \in {"failing", "releasing"}
    /\ exec[n].rev = r /\ rev[r].env = e /\ exec[n].box = c /\ exec[n].failed = f
    /\ exec[n].gen \in Nat /\ exec[n].step \in 1..(Steps + 1)
    /\ n \in Actor /\ r # Nothing /\ Nothing \notin Box
    /\ rev[r].kind = "initial"
    /\ env[e].active = r /\ env[e].applied = Nothing /\ env[e].platform /\ env[e].box = c
    /\ Shape(env[e]) /\ env[e].status \in Transitioning /\ env[e] \in EnvRows
    /\ c # Nothing => c \in Box /\ box[c].status \notin {"absent", "removed"}
    /\ at = "failing" => rev[r].status = "executing" /\ \A k \in 1..Steps : step[r][k] = "pending"
    /\ at = "releasing" =>
          /\ rev[r].status = "rolling_back" /\ c # Nothing
          /\ ~f => \A k \in 1..Steps : step[r][k] \in {"pending", "rolled_back"}

LEMMA AtDeleting ==
    ASSUME TypeInv, RevisionInv, NEW n \in Node, exec[n].at \in {"failing", "releasing"}
    PROVE  \E r \in Rev, e \in Env, c \in Box \cup {Nothing}, f \in BOOLEAN : Deletes(n, r, e, c, f)
<1>1. CASE exec[n].at = "failing"
  <2>1. exec[n].at \in Provisional
    BY <1>1 DEF Provisional
  <2>2. PICK r \in Rev, e \in Env, c \in Box \cup {Nothing}, b \in BOOLEAN, f \in BOOLEAN :
           Provisions(n, r, e, c, b, f)
    BY <2>1, AtProvisioning
  <2>3. Deletes(n, r, e, c, f)
    BY <1>1, <2>2 DEF Provisions, Deletes
  <2> QED
    BY <2>3
<1>2. CASE exec[n].at = "releasing"
  <2>1. exec[n].at \in Undoing
    BY <1>2 DEF Undoing
  <2>2. PICK r \in Rev, e \in Env, c \in Box \cup {Nothing}, k \in 1..(Steps + 1), b \in BOOLEAN, f \in BOOLEAN :
           /\ exec[n].rev = r /\ rev[r].env = e /\ exec[n].box = c /\ exec[n].step = k
           /\ exec[n].gen \in Nat /\ exec[n].ok = b /\ exec[n].failed = f
           /\ exec[n].at \in {"marked", "undone"} => k \in 1..Steps
           /\ exec[n].at # "releasing" => op[n].stage = "out"
           /\ r # Nothing
           /\ rev[r].status = "rolling_back" /\ env[e].box \in {Nothing, c} /\ env[e].active = r
           /\ exec[n].at \in {"marked", "undone"} => step[r][k] = "rolling_back"
           /\ exec[n].at = "undone" /\ b => \A d \in Box : <<r, k>> \notin effect[d]
           /\ exec[n].at = "releasing" => ReleasesContainer(env[e])
           /\ ~f => \A i \in 1..Steps :
                 i > k \/ (exec[n].at = "rolling" /\ i = k) \/ exec[n].at \in {"releasing", "settling"} =>
                    step[r][i] \in {"pending", "rolled_back"}
           /\ ~f /\ exec[n].at = "settling" => ~ReleasesContainer(env[e])
           /\ StepsFit(r) /\ RevFits(r) /\ EnvFits(e)
    BY <2>1, AtUndoing
  <2>3. n \in Actor /\ Nothing \notin Box /\ env[e] \in EnvRows
    BY TypesOf, NodeAssumption, BoxAssumption
  <2>4. env[e].applied = Nothing /\ env[e].box = c /\ env[e].platform /\ c # Nothing /\ c \in Box
    BY <1>2, <2>2, <2>3 DEF ReleasesContainer
  <2>5. rev[r].kind = "initial" /\ env[e].status # "absent"
    BY <2>2, <2>4 DEF RevFits, UnderWay, PlannedKind
  <2>6. Shape(env[e]) /\ box[c].status \notin {"absent", "removed"}
    BY <2>2, <2>4, <2>5 DEF EnvFits
  <2>7. env[e].status \in Transitioning
    BY <2>2, <2>6 DEF Shape
  <2>8. ~f => \A i \in 1..Steps : step[r][i] \in {"pending", "rolled_back"}
    BY <1>2, <2>2
  <2>9. /\ exec[n].rev = r /\ rev[r].env = e /\ exec[n].box = c /\ exec[n].failed = f
        /\ exec[n].gen \in Nat /\ exec[n].step \in 1..(Steps + 1) /\ r # Nothing
        /\ env[e].active = r /\ rev[r].status = "rolling_back"
    BY <2>2
  <2>10. Deletes(n, r, e, c, f)
    BY <1>2, <2>3, <2>4, <2>5, <2>6, <2>7, <2>8, <2>9 DEF Deletes
  <2> QED
    BY <2>10
<1> QED
  BY <1>1, <1>2

LEMMA DeletedBecomes ==
    ASSUME TypeInv, NEW n \in Node, exec[n].at \in {"failing", "releasing"}, NEW g \in BOOLEAN, Deleted(n, g)
    PROVE  \E s, h, y :
              /\ s \in {"failed", "settling"} /\ h \in BOOLEAN
              /\ s = "failed" <=> exec[n].at = "failing"
              /\ h <=> exec[n].failed \/ ~g
              /\ Becomes(n, y)
              /\ y.at = s /\ y.rev = exec[n].rev /\ y.box = exec[n].box /\ y.step = exec[n].step
              /\ y.ok = g /\ y.failed = h
<1> DEFINE x == exec[n]  s == IF x.at = "failing" THEN "failed" ELSE "settling"  h == x.failed \/ ~g
           y == Ex(s, x.rev, x.box, x.gen, x.step, g, h)
<1>1. exec \in [Node -> Executor] /\ s \in Stage /\ h \in BOOLEAN /\ s \in {"failed", "settling"}
      /\ (s = "failed" <=> exec[n].at = "failing")
  BY TypesOf DEF Stage
<1>2. exec' = [exec EXCEPT ![n].at = s, ![n].ok = g, ![n].failed = h]
  BY <1>1 DEF Deleted
<1>3. h <=> exec[n].failed \/ ~g
  OBVIOUS
<1> HIDE DEF s, h
<1>4. Becomes(n, y)
  BY <1>1, <1>2, MovesBecome
<1>5. y.at = s /\ y.rev = exec[n].rev /\ y.box = exec[n].box /\ y.step = exec[n].step
      /\ y.ok = g /\ y.failed = h
  BY ExFields
<1> HIDE DEF y
<1> QED
  BY <1>1, <1>3, <1>4, <1>5

\* After the deletion the environment has the container only when it failed.
LEMMA DeletedIsSound ==
    ASSUME TypeInv, RevisionInv, NEW n \in Node,
           NEW r \in Rev, NEW e \in Env, NEW c \in Box \cup {Nothing}, NEW f \in BOOLEAN, Deletes(n, r, e, c, f),
           NEW g \in BOOLEAN, NEW s \in {"failed", "settling"}, NEW h \in BOOLEAN, NEW y, Becomes(n, y),
           s = "failed" <=> exec[n].at = "failing", h <=> f \/ ~g,
           y.at = s, y.rev = r, y.box = c, y.step = exec[n].step, y.ok = g, y.failed = h,
           UNCHANGED <<rev, step, effect>>,
           env'[e].applied = Nothing, env'[e].platform,
           IF g THEN env'[e].box = Nothing ELSE c # Nothing /\ env'[e].box = c
    PROVE  Sound(n)'
<1>1. /\ exec'[n].at = s /\ exec'[n].rev = r /\ exec'[n].box = c /\ exec'[n].ok = g /\ exec'[n].failed = h
      /\ exec'[n].step = exec[n].step /\ rev' = rev /\ step' = step /\ rev'[r].env = e
  BY DEF Becomes, Deletes
<1>2. CASE s = "failed"
  <2>1. /\ rev'[r].status = "executing" /\ \A k \in 1..Steps : step'[r][k] = "pending"
    BY <1>1, <1>2 DEF Deletes
  <2>2. /\ s \in Provisional /\ s \notin {"claimed", "created", "bound", "started", "failing"}
        /\ s \notin {"failing", "failed"} => g
    BY <1>2 DEF Provisional
  <2> QED
    BY <1>1, <2>1, <2>2, ProvisionalIn
<1>3. CASE s = "settling"
  <2> DEFINE k == exec[n].step
  <2>1. /\ rev'[r].status = "rolling_back" /\ env'[e].box \in {Nothing, c} /\ s \in Undoing
        /\ s \notin {"marked", "undone", "releasing"} /\ k \in 1..(Steps + 1)
    BY <1>1, <1>3 DEF Deletes, Undoing
  <2>2. ~h => ~f /\ g
    OBVIOUS
  <2>3. ~h => \A i \in 1..Steps : step'[r][i] \in {"pending", "rolled_back"}
    BY <1>1, <1>3, <2>2 DEF Deletes
  <2>4. ~h => ~ReleasesContainer(env'[e])
    BY <2>2 DEF ReleasesContainer
  <2>5. /\ s \in {"marked", "undone"} => step'[r][k] = "rolling_back"
        /\ s = "undone" /\ g => \A d \in Box : <<r, k>> \notin effect'[d]
        /\ s = "releasing" => ReleasesContainer(env'[e])
        /\ ~h /\ s = "settling" => ~ReleasesContainer(env'[e])
    BY <2>1, <2>4
  <2>6. ~h => \A i \in 1..Steps :
           i > k \/ (s = "rolling" /\ i = k) \/ s \in {"releasing", "settling"} =>
              step'[r][i] \in {"pending", "rolled_back"}
    BY <2>3
  <2>7. exec'[n].step = k
    BY <1>1
  <2> HIDE DEF k
  <2> QED
    BY <1>1, <2>1, <2>5, <2>6, <2>7, UndoingFitsIn
<1> QED
  BY <1>2, <1>3

LEMMA DeleteSteps ==
    ASSUME TypeInv, TypeInv', ReadInv, RevisionInv, NEW n \in Node,
           NEW r \in Rev, NEW e \in Env, NEW c \in Box \cup {Nothing}, NEW f \in BOOLEAN,
           Deletes(n, r, e, c, f), DeleteBox(n)
    PROVE  RevisionInv'
<1> DEFINE x == exec[n]
<1>0. /\ x.at \in {"failing", "releasing"} /\ x.at # "created" /\ x.rev = r /\ x.box = c /\ x.failed = f
      /\ op[n].stage = "out" /\ UNCHANGED <<env, rev, step, effect>> /\ n \in Actor
      /\ env[e].applied = Nothing /\ env[e].box = c /\ rev[r].env = e
      /\ c # Nothing => box[c].status # "removed"
  BY DEF DeleteBox, Deletes, envVars
<1>01. env[e].platform
  BY DEF Deletes
<1>1. ASSUME NEW g \in BOOLEAN, Deleted(n, g), UNCHANGED boxVars, g <=> c = Nothing
      PROVE  RevisionInv'
  <2> PICK s, h, y :
              /\ s \in {"failed", "settling"} /\ h \in BOOLEAN
              /\ s = "failed" <=> exec[n].at = "failing"
              /\ h <=> exec[n].failed \/ ~g
              /\ Becomes(n, y)
              /\ y.at = s /\ y.rev = exec[n].rev /\ y.box = exec[n].box /\ y.step = exec[n].step
              /\ y.ok = g /\ y.failed = h
    BY <1>0, <1>1, DeletedBecomes
  <2>1. /\ BoxesStay /\ UNCHANGED <<env, rev, docker, step, effect>>
        /\ \A a \in Actor : a # n => op'[a] = op[a]
        /\ op'[n].stage # "acted" /\ (op'[n].stage # "out" => op'[n].kind \in NodeMutation)
    BY <1>0, <1>1 DEF BoxesStay, boxVars
  <2>2. y.rev = r /\ y.box = c /\ (h <=> f \/ ~g)
    BY <1>0
  <2>3. /\ env'[e].applied = Nothing /\ env'[e].platform
        /\ IF g THEN env'[e].box = Nothing ELSE c # Nothing /\ env'[e].box = c
    BY <1>0, <1>01, <1>1
  <2>4. Sound(n)'
    BY <2>1, <2>2, <2>3, DeletedIsSound
  <2> QED
    BY <1>0, <2>1, <2>2, <2>4, MoveKeeps
<1>2. CASE BeginMutation(n, "delete", c) /\ UNCHANGED exec
  <2>1. /\ BoxesStay /\ UNCHANGED docker /\ op'[n].stage = "checked" /\ op'[n].kind = "delete"
        /\ \A a \in Actor : a # n => op'[a] = op[a]
    BY <1>2, BegunOp
  <2>2. Becomes(n, x)
    BY <1>2, TypesOf DEF Becomes
  <2>3. Sound(n)'
    <3>1. Spared(n)
      BY <1>0, <1>2 DEF Spared
    <3>2. Sound(n)
      BY DEF RevisionInv, ExecInv
    <3> QED
      BY <3>1, <3>2, SparedStaysSound
  <2> QED
    BY <1>0, <2>1, <2>2, <2>3, MoveKeeps DEF NodeMutation
<1>3. CASE Deleted(n, TRUE) /\ UNCHANGED boxVars /\ c = Nothing
  BY <1>1, <1>3
<1>4. CASE Deleted(n, FALSE) /\ UNCHANGED boxVars /\ c # Nothing
  BY <1>1, <1>4
<1> QED
  BY <1>0, <1>2, <1>3, <1>4 DEF DeleteBox

LEMMA DeletedSteps ==
    ASSUME TypeInv, TypeInv', ReadInv, RevisionInv, NEW n \in Node,
           NEW r \in Rev, NEW e \in Env, NEW c \in Box \cup {Nothing}, NEW f \in BOOLEAN,
           Deletes(n, r, e, c, f), BoxDeleted(n)
    PROVE  RevisionInv'
<1> DEFINE x == exec[n]  l == env[e]
<1>0. /\ x.at \in {"failing", "releasing"} /\ x.at # "created" /\ x.rev = r /\ x.box = c /\ x.failed = f
      /\ UNCHANGED <<docker, rev, step, effect>> /\ n \in Actor /\ EnvOf(n) = e
      /\ l.applied = Nothing /\ l.box = c /\ rev[r].env = e /\ l.active = r /\ rev[r].kind = "initial"
      /\ op[n].stage = "acted" /\ op[n].kind = "delete" /\ Released(n)
      /\ r # Nothing /\ Nothing \notin Box /\ l \in EnvRows
  BY DEF BoxDeleted, Deletes, EnvOf
<1>01. l.platform /\ Shape(l) /\ l.status \in {"building", "adapting", "recovery_required"}
  BY DEF Deletes, Transitioning
<1>02. c \in Box /\ op[n].box = c
  <2>1. op[n].box \in Box
    BY <1>0, TypesOf DEF BoxTypeInv
  <2> QED
    BY <1>0, <2>1, TypesOf DEF WellFormed
<1>03. op[n].ok \in BOOLEAN /\ Deletable(n) \in BOOLEAN
  BY <1>0, TypesOf DEF BoxTypeInv, BoxTypeOK, Deletable
<1>04. /\ \A a \in Actor : a # n => op'[a] = op[a]
       /\ op'[n].stage # "acted" /\ (op'[n].stage # "out" => op'[n].kind \in NodeMutation)
  BY <1>0, ReleasedOp
<1>05. rev[r].status \in {"executing", "rolling_back"}
  BY <1>0 DEF Deletes
<1>1. ASSUME NEW g \in BOOLEAN, g <=> op[n].ok /\ Deletable(n), Deleted(n, g)
      PROVE  RevisionInv'
  <2> PICK s, h, y :
              /\ s \in {"failed", "settling"} /\ h \in BOOLEAN
              /\ s = "failed" <=> exec[n].at = "failing"
              /\ h <=> exec[n].failed \/ ~g
              /\ Becomes(n, y)
              /\ y.at = s /\ y.rev = exec[n].rev /\ y.box = exec[n].box /\ y.step = exec[n].step
              /\ y.ok = g /\ y.failed = h
    BY <1>0, <1>1, DeletedBecomes
  <2>1. y.rev = r /\ y.box = c /\ (h <=> f \/ ~g)
    BY <1>0
  <2>2. CASE ~g
    <3>1. UNCHANGED <<box, env>>
      BY <1>1, <2>2 DEF BoxDeleted
    <3>2. /\ env'[e].applied = Nothing /\ env'[e].platform
          /\ IF g THEN env'[e].box = Nothing ELSE c # Nothing /\ env'[e].box = c
      BY <1>0, <1>01, <1>02, <2>2, <3>1
    <3>3. Sound(n)'
      BY <1>0, <2>1, <3>2, DeletedIsSound
    <3>4. BoxesStay
      BY <3>1 DEF BoxesStay
    <3> QED
      BY <1>0, <1>04, <2>1, <3>1, <3>3, <3>4, MoveKeeps
  <2>3. CASE g
    <3>1. RemoveRow(c) /\ env' = [env EXCEPT ![e].box = Nothing]
      BY <1>0, <1>1, <2>3 DEF BoxDeleted
    <3>2. docker[c].status = "none"
      <4>1. GoneInv /\ op[n].ok
        BY <1>1, <2>3 DEF RevisionInv
      <4> QED
        BY <1>0, <1>02, <4>1 DEF GoneInv, Under
    <3>3. /\ box'[c].status = "removed" /\ box'[c].rev = box[c].rev
          /\ \A d \in Box : d # c => box'[d] = box[d]
      BY <1>02, <3>1, TypesOf DEF RemoveRow, BoxTypeInv, BoxTypeOK
    <3>4. /\ env'[e].box = Nothing /\ env'[e].active = r /\ env'[e].applied = Nothing
          /\ env'[e].platform = l.platform /\ env'[e].status = l.status
          /\ \A d \in Env : d # e => env'[d] = env[d]
      <4>1. env'[e] = [l EXCEPT !.box = Nothing] /\ \A d \in Env : d # e => env'[d] = env[d]
        BY <3>1, TypesOf
      <4>2. env'[e] = Row(l.status, l.applied, l.active, Nothing, l.platform)
        BY <1>0, <4>1, LifecycleRecords
      <4> QED
        BY <1>0, <4>1, <4>2 DEF Row
    <3>5. Sound(n)'
      <4>1. /\ env'[e].applied = Nothing /\ env'[e].platform
            /\ IF g THEN env'[e].box = Nothing ELSE c # Nothing /\ env'[e].box = c
        BY <1>01, <2>3, <3>4
      <4> QED
        BY <1>0, <2>1, <4>1, DeletedIsSound
    <3>6. OnRow(e, r)
      <4>1. rev[r].status # "absent"
        BY <1>05
      <4> QED
        BY <1>0, <1>01, <3>4, <4>1 DEF OnRow
    <3>7. RowFitsIn(e, r)
      <4>1. Shape(env'[e])
        BY <1>0, <1>01, <3>4 DEF Shape, Transitioning
      <4>2. rev'[r].kind = PlannedKind(env'[e])
        BY <1>0, <3>4 DEF PlannedKind
      <4>3. /\ rev'[r].status \in UnderWay /\ rev'[r].status \notin {"pending_approval", "applied"}
            /\ env'[e].active = r /\ env'[e].status # "absent" /\ env'[e].box = Nothing
        BY <1>0, <1>01, <1>05, <3>4 DEF UnderWay
      <4> QED
        BY <4>1, <4>2, <4>3 DEF RowFitsIn
    <3>8. ByExecutor(n, e, r, y)
      BY <1>0, <2>1, <3>6, <3>7 DEF ByExecutor
    <3>9. BoxesByExecutor(n, e, r)
      <4>1. /\ env'[e].box \in {Nothing, env[e].box}
            /\ env'[e].box # env[e].box => env[e].box = Nothing \/ docker[env[e].box].status = "none"
            /\ rev'[r].status = "executing" => rev[r].status = "executing"
        BY <1>0, <3>2, <3>4
      <4>2. /\ \A d \in Box : box'[d].rev = box[d].rev
            /\ \A d \in Box : box'[d].status = "absent" => box'[d] = box[d]
            /\ \A d \in Box : box[d].status \notin {"absent", "removed"} =>
                  box'[d].status \notin {"absent", "removed"} \/ (env[e].box = d /\ env'[e].box = Nothing)
        BY <1>0, <3>3, <3>4
      <4>3. docker' = docker
        BY <1>0
      <4> QED
        BY <1>04, <4>1, <4>2, <4>3 DEF BoxesByExecutor
    <3>10. ASSUME NEW d \in Box, box'[d].rev = r
           PROVE  BoxFits(d)'
      <4>1. box[d].rev = r /\ docker' = docker /\ rev' = rev
        BY <1>0, <3>3, <3>10
      <4>2. docker[d].status = "none"
        <5>1. CASE d = c
          BY <3>2, <5>1
        <5>2. CASE d # c
          <6>1. ~Awaited(d, r)
            <7>1. \A m \in Node : exec[m].rev = r => m = n
              BY <1>0 DEF RevisionInv, Leases
            <7> QED
              BY <1>0, <5>2, <7>1 DEF Awaited
          <6>2. BoxFits(d)
            BY DEF RevisionInv, RowInv
          <6> QED
            BY <1>0, <4>1, <6>1, <6>2 DEF BoxFits
        <5> QED
          BY <5>1, <5>2
      <4>3. BoxFits(d)
        BY DEF RevisionInv, RowInv
      <4>4. box'[d].status # "absent"
        BY <1>0, <3>3, <4>1, <4>3 DEF BoxFits
      <4>5. rev'[r].status # "absent" /\ rev'[r].kind = "initial" /\ env'[rev'[r].env].platform
        BY <1>0, <1>01, <1>05, <3>4
      <4> QED
        BY <3>10, <4>1, <4>2, <4>4, <4>5 DEF BoxFits
    <3>11. StepsFit(r)'
      <4>1. StepsFit(r) /\ GoneInv
        BY DEF RevisionInv, StepInv
      <4>2. effect[c] = {}
        BY <1>02, <3>2, <4>1 DEF GoneInv
      <4>3. \A d \in Box, k \in 1..Steps : <<r, k>> \notin effect'[d]
        BY <1>0, <4>1, <4>2 DEF StepsFit
      <4>4. rev'[r].status = "executing" => \A k \in 1..Steps : step'[r][k] = "pending"
        BY <1>0 DEF Deletes
      <4>5. rev'[r].status \in {"executing", "rolling_back"}
        BY <1>0, <1>05
      <4> QED
        BY <4>3, <4>4, <4>5 DEF StepsFit, Clean
    <3> QED
      BY <1>0, <3>5, <3>8, <3>9, <3>10, <3>11, ExecutorKeeps
  <2> QED
    BY <2>2, <2>3
<1>2. Deleted(n, op[n].ok /\ Deletable(n))
  BY DEF BoxDeleted
<1> QED
  BY <1>03, <1>1, <1>2

-----------------------------------------------------------------------------
(* The transactions of an executor on the row of its environment.          *)

LEMMA ShapeOfRows ==
    ASSUME NEW l \in EnvRows, NEW r \in Rev, Shape(l), l.active = r, r # Nothing
    PROVE  /\ Shape(Resumed(l)) /\ Shape(Stuck(l))
           /\ ~ReleasesContainer(l) => Shape(Baseline(l))
           /\ l.box # Nothing => Shape(Applied(l, r))
<1> DEFINE moving == IF l.applied = Nothing THEN "building" ELSE "adapting"
           settled == IF l.applied = Nothing THEN "draft" ELSE "active"
<1>1. Shape(Row(moving, l.applied, l.active, l.box, l.platform))
  BY RowFields DEF Shape, Transitioning
<1>2. Shape(Row("recovery_required", l.applied, l.active, l.box, l.platform))
  BY RowFields DEF Shape, Transitioning
<1>3. ~ReleasesContainer(l) => Shape(Row(settled, l.applied, Nothing, l.box, l.platform))
  BY RowFields DEF Shape, Transitioning, ReleasesContainer
<1>4. l.box # Nothing => Shape(Row("active", r, Nothing, l.box, l.platform))
  BY RowFields DEF Shape, Transitioning
<1> QED
  BY <1>1, <1>2, <1>3, <1>4, LifecycleRecords

\* Revision q of e gets status t and the row of e new fields, but for its container.
Transaction(e, q, s, a, act, t) ==
    /\ env'[e] = Row(s, a, act, env[e].box, env[e].platform)
    /\ \A d \in Env : d # e => env'[d] = env[d]
    /\ rev'[q].status = t /\ rev'[q].env = rev[q].env /\ rev'[q].kind = rev[q].kind
    /\ \A r \in Rev : r # q => rev'[r] = rev[r]

\* What has to be shown of it.
TransactionFits(e, q, s, a, act, t) ==
    /\ env[e].active = q /\ rev[q].env = e /\ rev[q].status # "absent" /\ env[e].status # "absent"
    /\ act \in {Nothing, q} /\ s # "absent"
    /\ env[e].applied # Nothing => a # Nothing
    /\ Shape(env'[e])
    /\ act # Nothing <=> t \in UnderWay
    /\ t \in UnderWay => a = env[e].applied /\ rev[q].status \in UnderWay
    /\ t \notin {"pending_approval", "absent"}
    /\ t = "applied" => a # Nothing

\* No container changes but in losing its revision q, and those that keep it are kept.
BoxesIn(e, q, t) ==
    /\ docker' = docker
    /\ \A c \in Box : /\ box'[c].status = box[c].status
                      /\ box'[c].rev = box[c].rev \/ (box'[c].rev = Nothing /\ box[c].rev = q)
                      /\ box'[c].status = "absent" => box'[c] = box[c]
    /\ \A c \in Box : box'[c].rev = q => docker[c].status = "none" \/ (t \in UnderWay /\ env[e].box = c)
    /\ t = "executing" => rev[q].status = "executing" \/ \A c \in Box : box[c].rev = q => Bound(c)

\* How the steps of q have to stand.
StepsIn(e, q, t) ==
    /\ UNCHANGED <<step, effect>>
    /\ t \in Clean => \A k \in 1..Steps : step[q][k] \in {"pending", "rolled_back"}
    /\ t = "executing" => \A k \in 1..Steps : step[q][k] = "verified" =>
          env[e].box # Nothing /\ <<q, k>> \in effect[env[e].box]
    /\ t = "applied" => \A k \in 1..Steps :
          env[e].box # Nothing /\ <<q, k>> \in effect[env[e].box]

LEMMA TransactionKeeps ==
    ASSUME TypeInv, TypeInv', ReadInv, RevisionInv, NEW n \in Node, NEW e \in Env, NEW q \in Rev, q # Nothing,
           NEW y, Becomes(n, y), y.rev \in {Nothing, q},
           exec[n].rev = q \/ (exec[n].rev = Nothing /\ LeaseFree(q)),
           NEW s, NEW a, NEW act, NEW t,
           Transaction(e, q, s, a, act, t), TransactionFits(e, q, s, a, act, t),
           BoxesIn(e, q, t), StepsIn(e, q, t), op' = op, op[n].stage = "out",
           Sound(n)'
    PROVE  RevisionInv'
<1>1. /\ env'[e].status = s /\ env'[e].applied = a /\ env'[e].active = act
      /\ env'[e].box = env[e].box /\ env'[e].platform = env[e].platform
  BY RowFields DEF Transaction
<1>2. /\ rev'[q].env = e /\ rev'[q].status = t /\ rev'[q].kind = rev[q].kind /\ rev[q].env = e
      /\ env[e].active = q /\ t # "absent" /\ rev[q].status # "absent"
  BY DEF Transaction, TransactionFits
<1>3. OnRow(e, q)
  BY <1>1, <1>2 DEF OnRow, Transaction, TransactionFits
<1>4. RowFitsIn(e, q)
  <2>1. rev'[q].status \in UnderWay => rev'[q].kind = PlannedKind(env'[e])
    <3>1. RevFits(q)
      BY DEF RevisionInv, RowInv
    <3> QED
      BY <1>1, <1>2, <3>1 DEF RevFits, PlannedKind, TransactionFits
  <2> QED
    BY <1>1, <1>2, <2>1 DEF RowFitsIn, TransactionFits
<1>5. ByExecutor(n, e, q, y)
  BY <1>3, <1>4 DEF ByExecutor, StepsIn
<1>6. BoxesByExecutor(n, e, q)
  BY <1>1, <1>2 DEF BoxesByExecutor, BoxesIn
<1>7. ASSUME NEW c \in Box, box'[c].rev = q
      PROVE  BoxFits(c)'
  <2>1. box[c].rev = q /\ BoxFits(c) /\ docker' = docker /\ box'[c].status = box[c].status
    BY <1>7 DEF BoxesIn, RevisionInv, RowInv
  <2>2. /\ rev'[q].status # "absent" /\ rev'[q].kind = "initial" /\ env'[rev'[q].env].platform
        /\ box'[c].status # "absent"
    BY <1>1, <1>2, <2>1 DEF BoxFits
  <2>3. docker'[c].status # "none" => rev'[q].status \in UnderWay /\ env'[rev'[q].env].box = c
    BY <1>1, <1>2, <1>7, <2>1 DEF BoxesIn
  <2> QED
    BY <1>7, <2>2, <2>3 DEF BoxFits, Awaited
<1>8. StepsFit(q)'
  <2>1. StepsFit(q)
    BY DEF RevisionInv, StepInv
  <2>2. step' = step /\ effect' = effect
    BY DEF StepsIn
  <2> QED
    BY <1>1, <1>2, <2>1, <2>2 DEF StepsFit, StepsIn
<1> QED
  BY <1>5, <1>6, <1>7, <1>8, ExecutorKeeps

\* The containers that were created for a revision that nobody is about to bind one for.
LEMMA OwnBoxes ==
    ASSUME TypeInv, RevisionInv, NEW q \in Rev, q # Nothing,
           \A m \in Node : exec[m].rev = q => exec[m].at # "created",
           NEW c \in Box, box[c].rev = q
    PROVE  docker[c].status = "none" \/
              (env[rev[q].env].box = c /\ rev[q].status \in UnderWay /\ rev[q].kind = "initial" /\ env[rev[q].env].platform)
<1>1. BoxFits(c)
  BY DEF RevisionInv, RowInv
<1> QED
  BY <1>1 DEF BoxFits, Awaited

LEMMA DoneIsSound ==
    ASSUME TypeInv, NEW n \in Node, Done(n)
    PROVE  \E y : Becomes(n, y) /\ y.rev = Nothing /\ Sound(n)'
<1> DEFINE y == Ex("idle", Nothing, Nothing, 0, 1, TRUE, FALSE)
<1>1. Becomes(n, y)
  BY DoneBecomes, TypesOf
<1>2. y.at = "idle" /\ y.rev = Nothing
  BY DEF Ex
<1> HIDE DEF y
<1>3. exec'[n] = y
  BY <1>1 DEF Becomes
<1>4. Sound(n)'
  BY <1>2, <1>3, SoundIn
<1> QED
  BY <1>1, <1>2, <1>4

LEMMA SettleFailureSteps ==
    ASSUME TypeInv, TypeInv', ReadInv, RevisionInv, NEW n \in Node,
           NEW r \in Rev, NEW e \in Env, NEW c \in Box \cup {Nothing}, NEW b \in BOOLEAN, NEW f \in BOOLEAN,
           Provisions(n, r, e, c, b, f), SettleFailure(n)
    PROVE  RevisionInv'
<1> DEFINE x == exec[n]  l == env[e]
<1>0. /\ x.at = "failed" /\ x.rev = r /\ x.box = c /\ x.ok = b /\ EnvOf(n) = e /\ r # Nothing
      /\ op[n].stage = "out" /\ UNCHANGED <<box, docker, op, step, effect>>
      /\ rev[r].env = e /\ rev[r].status = "executing"
      /\ l.active = r /\ l.applied = Nothing /\ l.status # "absent" /\ l \in EnvRows
      /\ IsActive(l, r) /\ Shape(l)
  BY DEF SettleFailure, Provisions, EnvOf, IsActive, boxVars, Transitioning
<1>01. l.platform
  BY DEF Provisions
<1>02. IF b THEN l.box = Nothing ELSE c # Nothing /\ l.box = c
  BY <1>0 DEF Provisions
<1>03. ~(~b /\ BoundElsewhere(e, c))
  <2>1. \A d \in Env : env[d].box = env[e].box /\ env[d].box # Nothing => d = e
    BY DEF RevisionInv, RowInv
  <2> QED
    BY <1>02, <2>1 DEF BoundElsewhere
<1>04. /\ \A k \in 1..Steps : step[r][k] = "pending"
       /\ env \in [Env -> EnvRows] /\ rev \in [Rev -> RevRows]
  BY TypesOf DEF Provisions
<1>05. \A d \in Box : box[d].rev = r => docker[d].status = "none" \/ l.box = d
  BY <1>0, ProvisionedBoxes
<1>06. Done(n)
  BY <1>0, <1>03 DEF SettleFailure
<1>07. PICK y : Becomes(n, y) /\ y.rev = Nothing /\ Sound(n)'
  BY <1>06, DoneIsSound
<1>1. CASE b
  <2>1. /\ rev' = [rev EXCEPT ![r].status = "failed"] /\ env' = [env EXCEPT ![e] = Baseline(l)]
    BY <1>0, <1>03, <1>1 DEF SettleFailure
  <2>2. env'[e] = Row("draft", Nothing, Nothing, l.box, l.platform) /\ \A d \in Env : d # e => env'[d] = env[d]
    BY <1>0, <1>04, <2>1, LifecycleRecords
  <2>3. /\ rev'[r].status = "failed" /\ rev'[r].env = rev[r].env /\ rev'[r].kind = rev[r].kind
        /\ \A q \in Rev : q # r => rev'[q] = rev[q]
    BY <1>04, <2>1 DEF RevRows
  <2>4. Transaction(e, r, "draft", Nothing, Nothing, "failed")
    BY <2>2, <2>3 DEF Transaction
  <2>5. Shape(env'[e])
    <3>1. ~ReleasesContainer(l)
      BY <1>02, <1>1 DEF ReleasesContainer
    <3> QED
      BY <1>0, <1>04, <2>1, <3>1, ShapeOfRows
  <2>6. TransactionFits(e, r, "draft", Nothing, Nothing, "failed")
    BY <1>0, <2>5 DEF TransactionFits, UnderWay
  <2>7. BoxesIn(e, r, "failed")
    BY <1>0, <1>02, <1>05, <1>1, BoxAssumption DEF BoxesIn
  <2>8. StepsIn(e, r, "failed")
    BY <1>0, <1>04 DEF StepsIn
  <2> QED
    BY <1>0, <1>07, <2>4, <2>6, <2>7, <2>8, TransactionKeeps
<1>2. CASE ~b
  <2>1. /\ rev' = [rev EXCEPT ![r].status = "recovery_required", ![r].box = c]
        /\ env' = [env EXCEPT ![e] = Stuck([l EXCEPT !.box = c])]
    BY <1>0, <1>03, <1>2 DEF SettleFailure
  <2>2. env'[e] = Row("recovery_required", Nothing, r, l.box, l.platform) /\ \A d \in Env : d # e => env'[d] = env[d]
    BY <1>0, <1>02, <1>04, <1>2, <2>1, LifecycleRecords
  <2>3. RevBecomes(r, "recovery_required", c)
    BY <1>04, <2>1, RevisionBecomes DEF RevisionStatus
  <2>4. Transaction(e, r, "recovery_required", Nothing, r, "recovery_required")
    BY <2>2, <2>3 DEF Transaction, RevBecomes
  <2>5. Shape(env'[e])
    <3>1. env'[e] = Stuck(l)
      BY <1>0, <2>2, LifecycleRecords
    <3> QED
      BY <1>0, <3>1, ShapeOfRows
  <2>6. TransactionFits(e, r, "recovery_required", Nothing, r, "recovery_required")
    BY <1>0, <2>5 DEF TransactionFits, UnderWay
  <2>7. BoxesIn(e, r, "recovery_required")
    BY <1>0, <1>05 DEF BoxesIn, UnderWay
  <2>8. StepsIn(e, r, "recovery_required")
    BY <1>0 DEF StepsIn, Clean
  <2> QED
    BY <1>0, <1>07, <2>4, <2>6, <2>7, <2>8, TransactionKeeps
<1> QED
  BY <1>1, <1>2

LEMMA BeginRollbackSteps ==
    ASSUME TypeInv, TypeInv', ReadInv, RevisionInv, NEW n \in Node, BeginRollback(n)
    PROVE  RevisionInv'
<1> DEFINE x == exec[n]  r == x.rev  e == rev[r].env  c == x.box  l == env[e]
<1>0. /\ x.at = "rollback" /\ r \in Rev /\ r # Nothing /\ e \in Env /\ c \in Box \cup {Nothing} /\ EnvOf(n) = e
      /\ op[n].stage = "out" /\ UNCHANGED <<box, docker, op, step, effect>> /\ l \in EnvRows
      /\ rev[r].status # "absent"
  BY AtWork DEF BeginRollback, boxVars
<1>01. /\ env \in [Env -> EnvRows] /\ rev \in [Rev -> RevRows] /\ exec \in [Node -> Executor]
       /\ Steps + 1 \in 1..(Steps + 1) /\ "rolling" \in Stage
  BY TypesOf, StepsAssumption DEF Stage
<1>02. /\ RevFits(r) /\ EnvFits(e) /\ Sound(n) /\ \A m \in Node : exec[m].rev = r => m = n
  BY <1>0 DEF RevisionInv, RowInv, ExecInv, Leases
<1>1. CASE l.active = r /\ rev[r].status \in {"executing", "rolling_back", "recovery_required"}
  <2> DEFINE moving == IF l.applied = Nothing THEN "building" ELSE "adapting"
             y == Ex("rolling", x.rev, x.box, x.gen, Steps + 1, TRUE, FALSE)
  <2>1. /\ rev' = [rev EXCEPT ![r].status = "rolling_back"] /\ env' = [env EXCEPT ![e] = Resumed(l)]
        /\ exec' = [exec EXCEPT ![n].at = "rolling", ![n].step = Steps + 1,
                                ![n].ok = TRUE, ![n].failed = FALSE]
    BY <1>0, <1>1 DEF BeginRollback
  <2>2. env'[e] = Row(moving, l.applied, r, l.box, l.platform) /\ \A d \in Env : d # e => env'[d] = env[d]
    BY <1>0, <1>01, <1>1, <2>1, LifecycleRecords
  <2>3. /\ rev'[r].status = "rolling_back" /\ rev'[r].env = rev[r].env /\ rev'[r].kind = rev[r].kind
        /\ \A q \in Rev : q # r => rev'[q] = rev[q]
    BY <1>0, <1>01, <2>1 DEF RevRows
  <2>4. l.status # "absent" /\ Shape(l)
    BY <1>0, <1>02 DEF RevFits, EnvFits
  <2>5. Transaction(e, r, moving, l.applied, r, "rolling_back")
    BY <2>2, <2>3 DEF Transaction
  <2>6. Shape(env'[e])
    <3>1. env'[e] = Resumed(l)
      BY <1>0, <1>01, <2>1
    <3> QED
      BY <1>0, <1>1, <2>4, <3>1, ShapeOfRows
  <2>7. TransactionFits(e, r, moving, l.applied, r, "rolling_back")
    BY <1>0, <1>1, <2>4, <2>6 DEF TransactionFits, UnderWay
  <2>8. BoxesIn(e, r, "rolling_back")
    <3>1. \A d \in Box : box[d].rev = r => docker[d].status = "none" \/ l.box = d
      BY <1>0, <1>02, OwnBoxes
    <3> QED
      BY <1>0, <3>1 DEF BoxesIn, UnderWay
  <2>9. StepsIn(e, r, "rolling_back")
    BY <1>0 DEF StepsIn, Clean
  <2>10. Becomes(n, y)
    BY <1>01, <2>1, MovesBecome
  <2>11. /\ y.at = "rolling" /\ y.rev = r /\ y.box = c /\ y.step = Steps + 1 /\ ~y.failed
         /\ y.ok = TRUE /\ y.failed = FALSE
    BY DEF Ex
  <2> HIDE DEF y
  <2>12. Sound(n)'
    <3>1. env[e].box \in {Nothing, c}
      BY <1>0, <1>02, <1>1 DEF Sound
    <3>2. /\ rev'[r].status = "rolling_back" /\ rev'[r].env = e /\ env'[e].box \in {Nothing, c}
      <4>1. env'[e].box = l.box
        BY <2>2 DEF Row
      <4> QED
        BY <1>0, <2>3, <3>1, <4>1
    <3>3. exec'[n] = y
      BY <2>10 DEF Becomes
    <3>4. UndoingFits(n)'
      <4>1. /\ exec'[n].at = "rolling" /\ exec'[n].rev = r /\ exec'[n].box = c /\ exec'[n].step = Steps + 1
        BY <2>11, <3>3
      <4>2. \A k \in 1..Steps : ~(k > Steps + 1) /\ k # Steps + 1
        BY StepsAssumption
      <4> QED
        BY <3>2, <4>1, <4>2 DEF UndoingFits
    <3> QED
      BY <2>11, <3>3, <3>4, SoundIn DEF Undoing
  <2> HIDE DEF moving
  <2> QED
    BY <1>0, <2>5, <2>7, <2>8, <2>9, <2>10, <2>11, <2>12, TransactionKeeps
<1>2. CASE ~(l.active = r /\ rev[r].status \in {"executing", "rolling_back", "recovery_required"})
  <2>1. Done(n) /\ UNCHANGED <<rev, env>>
    BY <1>0, <1>2 DEF BeginRollback
  <2>2. PICK y : Becomes(n, y) /\ y.rev = Nothing /\ Sound(n)'
    BY <2>1, DoneIsSound
  <2>3. BoxesStay
    BY <1>0 DEF BoxesStay
  <2> QED
    BY <1>0, <2>1, <2>2, <2>3, MoveKeeps
<1> QED
  BY <1>1, <1>2

LEMMA SettleRollbackSteps ==
    ASSUME TypeInv, TypeInv', ReadInv, RevisionInv, NEW n \in Node, SettleRollback(n)
    PROVE  RevisionInv'
<1> DEFINE x == exec[n]  r == x.rev  e == rev[r].env  c == x.box  l == env[e]
<1>0. /\ x.at = "settling" /\ r \in Rev /\ r # Nothing /\ e \in Env /\ EnvOf(n) = e
      /\ op[n].stage = "out" /\ UNCHANGED <<box, docker, op, step, effect>> /\ l \in EnvRows
      /\ rev[r].status # "absent" /\ Done(n) /\ x.failed \in BOOLEAN
  BY AtWork DEF SettleRollback, boxVars
<1>01. env \in [Env -> EnvRows] /\ rev \in [Rev -> RevRows]
  BY TypesOf
<1>02. /\ RevFits(r) /\ EnvFits(e) /\ Sound(n) /\ \A m \in Node : exec[m].rev = r => m = n
  BY <1>0 DEF RevisionInv, RowInv, ExecInv, Leases
<1>03. /\ rev[r].status = "rolling_back"
       /\ ~x.failed => (\A k \in 1..Steps : step[r][k] \in {"pending", "rolled_back"}) /\ ~ReleasesContainer(l)
  BY <1>0, <1>02 DEF Sound, Undoing, UndoingFits
<1>04. l.active = r /\ l.status # "absent" /\ Shape(l) /\ rev[r].kind = PlannedKind(l)
  BY <1>0, <1>02, <1>03 DEF RevFits, EnvFits, UnderWay
<1>05. PICK y : Becomes(n, y) /\ y.rev = Nothing /\ Sound(n)'
  BY <1>0, DoneIsSound
<1>06. \A d \in Box : box[d].rev = r => docker[d].status = "none" \/
          (l.box = d /\ rev[r].kind = "initial" /\ l.platform)
  BY <1>0, <1>02, OwnBoxes
<1>1. CASE x.failed
  <2>1. /\ rev' = [rev EXCEPT ![r].status = "recovery_required"] /\ env' = [env EXCEPT ![e] = Stuck(l)]
    BY <1>0, <1>1 DEF SettleRollback
  <2>2. env'[e] = Row("recovery_required", l.applied, r, l.box, l.platform) /\ \A d \in Env : d # e => env'[d] = env[d]
    BY <1>0, <1>01, <1>04, <2>1, LifecycleRecords
  <2>3. /\ rev'[r].status = "recovery_required" /\ rev'[r].env = rev[r].env /\ rev'[r].kind = rev[r].kind
        /\ \A q \in Rev : q # r => rev'[q] = rev[q]
    BY <1>0, <1>01, <2>1 DEF RevRows
  <2>4. Transaction(e, r, "recovery_required", l.applied, r, "recovery_required")
    BY <2>2, <2>3 DEF Transaction
  <2>5. Shape(env'[e])
    <3>1. env'[e] = Stuck(l)
      BY <1>0, <1>01, <2>1
    <3> QED
      BY <1>0, <1>04, <3>1, ShapeOfRows
  <2>6. TransactionFits(e, r, "recovery_required", l.applied, r, "recovery_required")
    BY <1>0, <1>03, <1>04, <2>5 DEF TransactionFits, UnderWay
  <2>7. BoxesIn(e, r, "recovery_required")
    BY <1>0, <1>06 DEF BoxesIn, UnderWay
  <2>8. StepsIn(e, r, "recovery_required")
    BY <1>0 DEF StepsIn, Clean
  <2> QED
    BY <1>0, <1>05, <2>4, <2>6, <2>7, <2>8, TransactionKeeps
<1>2. CASE ~x.failed
  <2> DEFINE settled == IF l.applied = Nothing THEN "draft" ELSE "active"
  <2>1. /\ rev' = [rev EXCEPT ![r].status = "rolled_back"] /\ env' = [env EXCEPT ![e] = Baseline(l)]
    BY <1>0, <1>2 DEF SettleRollback
  <2>2. env'[e] = Row(settled, l.applied, Nothing, l.box, l.platform) /\ \A d \in Env : d # e => env'[d] = env[d]
    BY <1>0, <1>01, <1>04, <2>1, LifecycleRecords
  <2>3. /\ rev'[r].status = "rolled_back" /\ rev'[r].env = rev[r].env /\ rev'[r].kind = rev[r].kind
        /\ \A q \in Rev : q # r => rev'[q] = rev[q]
    BY <1>0, <1>01, <2>1 DEF RevRows
  <2>4. Transaction(e, r, settled, l.applied, Nothing, "rolled_back")
    BY <2>2, <2>3 DEF Transaction
  <2>5. Shape(env'[e])
    <3>1. env'[e] = Baseline(l)
      BY <1>0, <1>01, <2>1
    <3> QED
      BY <1>0, <1>03, <1>04, <1>2, <3>1, ShapeOfRows
  <2>6. TransactionFits(e, r, settled, l.applied, Nothing, "rolled_back")
    BY <1>0, <1>04, <2>5 DEF TransactionFits, UnderWay
  <2>7. BoxesIn(e, r, "rolled_back")
    <3>1. \A d \in Box : box[d].rev = r => docker[d].status = "none"
      BY <1>03, <1>04, <1>06, <1>2, BoxAssumption DEF ReleasesContainer, PlannedKind
    <3> QED
      BY <1>0, <3>1 DEF BoxesIn
  <2>8. StepsIn(e, r, "rolled_back")
    BY <1>0, <1>03, <1>2 DEF StepsIn
  <2> HIDE DEF settled
  <2> QED
    BY <1>0, <1>05, <2>4, <2>6, <2>7, <2>8, TransactionKeeps
<1> QED
  BY <1>1, <1>2

LEMMA CompleteSteps ==
    ASSUME TypeInv, TypeInv', ReadInv, RevisionInv, NEW n \in Node, Complete(n)
    PROVE  RevisionInv'
<1>00. exec[n].at \in Applying /\ exec[n].at = "ready"
  BY DEF Complete, Applying
<1> PICK r \in Rev, e \in Env, c \in Box, k \in 1..(Steps + 1) :
           /\ exec[n].rev = r /\ rev[r].env = e /\ exec[n].box = c /\ exec[n].step = k
           /\ exec[n].gen \in Nat /\ exec[n].ok \in BOOLEAN /\ exec[n].failed \in BOOLEAN
           /\ exec[n].at \in {"begun", "ran", "applied", "verifying"} => k \in 1..Steps
           /\ op[n].stage = "out" /\ r # Nothing /\ c # Nothing
           /\ rev[r].status = "executing" /\ env[e].box = c /\ env[e].active = r
           /\ exec[n].at # "ran" => exec[n].ok = TRUE
           /\ exec[n].at \in {"begun", "ran"} => step[r][k] = "applying"
           /\ exec[n].at = "applied" => step[r][k] = "applied"
           /\ exec[n].at = "verifying" => step[r][k] = "verifying"
           /\ exec[n].at \in {"applied", "verifying"} \/ (exec[n].at = "ran" /\ exec[n].ok) => <<r, k>> \in effect[c]
           /\ StepsFit(r)
  BY <1>00, AtApplying
<1> DEFINE x == exec[n]  l == env[e]
           Completes == /\ rev[r].status = "executing" /\ CanApply(env[e], r)
                        /\ \A i \in 1..Steps : step[r][i] = "verified"
                        /\ env[e].box = c /\ rev[r].box = c
<1>0. /\ x.at = "ready" /\ EnvOf(n) = e /\ UNCHANGED <<docker, op, step, effect>>
      /\ l \in EnvRows /\ env \in [Env -> EnvRows] /\ rev \in [Rev -> RevRows] /\ box \in [Box -> Rows]
      /\ exec \in [Node -> Executor] /\ "rollback" \in Stage
  BY TypesOf DEF Complete, EnvOf, BoxTypeInv, Stage
<1>1. CASE Completes
  <2>1. /\ rev' = [rev EXCEPT ![r].status = "applied"] /\ env' = [env EXCEPT ![e] = Applied(l, r)]
        /\ box' = IF rev[r].kind = "initial" THEN [box EXCEPT ![c].rev = Nothing] ELSE box
        /\ Done(n)
    BY <1>0, <1>1 DEF Complete
  <2>2. PICK y : Becomes(n, y) /\ y.rev = Nothing /\ Sound(n)'
    BY <2>1, DoneIsSound
  <2>3. env'[e] = Row("active", r, Nothing, l.box, l.platform) /\ \A d \in Env : d # e => env'[d] = env[d]
    BY <1>0, <2>1, LifecycleRecords
  <2>4. /\ rev'[r].status = "applied" /\ rev'[r].env = rev[r].env /\ rev'[r].kind = rev[r].kind
        /\ \A q \in Rev : q # r => rev'[q] = rev[q]
    BY <1>0, <2>1 DEF RevRows
  <2>5. Transaction(e, r, "active", r, Nothing, "applied")
    BY <2>3, <2>4 DEF Transaction
  <2>6. EnvFits(e) /\ RevFits(r) /\ BoxFits(c)
    BY DEF RevisionInv, RowInv
  <2>7. l.status # "absent" /\ Shape(l)
    BY <2>6 DEF RevFits, EnvFits
  <2>8. Shape(env'[e])
    <3>1. env'[e] = Applied(l, r)
      BY <1>0, <2>1
    <3> QED
      BY <1>0, <2>7, <3>1, ShapeOfRows
  <2>9. TransactionFits(e, r, "active", r, Nothing, "applied")
    BY <2>7, <2>8 DEF TransactionFits, UnderWay
  <2>10. \A i \in 1..Steps : <<r, i>> \in effect[c]
    BY <1>1 DEF StepsFit
  <2>11. box[c].rev \in {Nothing, r}
    <3> SUFFICES ASSUME box[c].rev # Nothing
                 PROVE  box[c].rev = r
      OBVIOUS
    <3> DEFINE q == box[c].rev
    <3>1. docker[c].status # "none"
      <4>1. 1 \in 1..Steps
        BY StepsAssumption
      <4> QED
        BY <2>10, <4>1 DEF RevisionInv, GoneInv
    <3>2. /\ q \in Rev /\ rev[q].status \in UnderWay /\ Awaited(c, q) /\ rev[q].status # "absent"
          /\ RevFits(q)
      BY <1>0, <2>6, <3>1 DEF BoxFits, Rows, RevisionInv, RowInv
    <3>3. rev[q].env \in Env /\ env[rev[q].env].active = q
      BY <3>2, TypesOf DEF WellFormed, RevFits
    <3>4. CASE env[rev[q].env].box = c
      <4>1. rev[q].env = e
        BY <3>3, <3>4 DEF RevisionInv, RowInv
      <4> QED
        BY <3>3, <4>1
    <3>5. ASSUME NEW m \in Node, exec[m].at = "created", exec[m].box = c
          PROVE  FALSE
      BY <3>5 DEF RevisionInv, ExecInv, Sound, Bound
    <3> QED
      BY <3>2, <3>4, <3>5 DEF Awaited
  <2>12. /\ box'[c].status = box[c].status
         /\ box'[c].rev = IF rev[r].kind = "initial" THEN Nothing ELSE box[c].rev
         /\ \A d \in Box : d # c => box'[d] = box[d]
         /\ rev[r].kind # "initial" => box' = box
    BY <1>0, <2>1 DEF Rows
  <2>13. BoxesIn(e, r, "applied")
    <3>1. box[c].status # "absent"
      BY <2>6 DEF EnvFits
    <3>2. \A m \in Node : exec[m].rev = r => exec[m].at # "created"
      BY <1>0 DEF RevisionInv, Leases
    <3>3. \A d \in Box : box[d].rev = r =>
             docker[d].status = "none" \/ (l.box = d /\ rev[r].kind = "initial")
      BY <3>2, OwnBoxes
    <3>4. \A d \in Box : box'[d].rev = r => docker[d].status = "none"
      BY <2>12, <3>3
    <3> QED
      BY <1>0, <2>11, <2>12, <3>1, <3>4 DEF BoxesIn
  <2>14. StepsIn(e, r, "applied")
    BY <1>0, <2>10 DEF StepsIn, Clean
  <2> QED
    BY <1>0, <2>2, <2>5, <2>9, <2>13, <2>14, TransactionKeeps
<1>2. CASE ~Completes
  <2>1. At(n, "rollback") /\ UNCHANGED <<rev, env, box>>
    BY <1>0, <1>2 DEF Complete
  <2> DEFINE y == Ex("rollback", x.rev, x.box, x.gen, x.step, x.ok, x.failed)
  <2>2. Becomes(n, y)
    BY <1>0, <2>1, AtBecomes
  <2>3. y.at = "rollback" /\ y.rev = r /\ y.box = c
    BY ExFields
  <2> HIDE DEF y
  <2>4. exec'[n] = y
    BY <2>2 DEF Becomes
  <2>5. Sound(n)'
    BY <2>1, <2>3, <2>4, SoundIn
  <2>6. BoxesStay
    BY <2>1 DEF BoxesStay
  <2> QED
    BY <1>0, <2>1, <2>2, <2>3, <2>5, <2>6, MoveKeeps
<1> QED
  BY <1>1, <1>2

\* The process of n dies or is started again.
LEMMA ProcessSteps ==
    ASSUME TypeInv, TypeInv', ReadInv, RevisionInv, NoRace, NEW n \in Node, Crash(n) \/ Boot(n)
    PROVE  RevisionInv'
<1>0. exec \in [Node -> Executor] /\ DOMAIN op = Actor /\ op = [a \in DOMAIN op |-> op[a]] /\ n \in Actor /\ exec[n].rev \in Rev \cup {Nothing}
  BY TypesOf, NodeAssumption DEF BoxTypeInv, BoxTypeOK, Executor
<1>1. ASSUME NEW y, Becomes(n, y), y.rev = Nothing, y.at \in {"idle", "dead"},
             exec[n].at # "created", UNCHANGED <<env, rev, box, docker, step, effect>>,
             \A a \in Actor : a # n => op'[a] = op[a],
             op'[n].stage = "out"
      PROVE  RevisionInv'
  <2>1. exec'[n] = y
    BY <1>1 DEF Becomes
  <2>2. Sound(n)'
    BY <1>1, <2>1, SoundIn
  <2>3. BoxesStay
    BY <1>1 DEF BoxesStay
  <2> QED
    BY <1>0, <1>1, <2>2, <2>3, MoveKeeps
<1>2. CASE Crash(n)
  <2> DEFINE y == Ex("dead", Nothing, Nothing, 0, 1, TRUE, FALSE)
  <2>1. /\ exec' = [exec EXCEPT ![n] = [NoExecutor EXCEPT !.at = "dead"]] /\ op' = [op EXCEPT ![n] = NoOp]
        /\ exec[n].at # "created" /\ UNCHANGED <<env, rev, box, docker, step, effect>>
    BY <1>2 DEF Crash, NoRace, envVars
  <2>2. Becomes(n, y)
    BY <1>0, <2>1, CrashBecomes
  <2>3. y.at = "dead" /\ y.rev = Nothing
    BY DEF Ex
  <2>4. (\A a \in Actor : a # n => op'[a] = op[a]) /\ op'[n].stage = "out"
    BY <1>0, <2>1 DEF NoOp
  <2> HIDE DEF y
  <2> QED
    BY <1>1, <2>1, <2>2, <2>3, <2>4
<1>3. CASE Boot(n)
  <2>0. "idle" \in Stage /\ exec[n].at = "dead" /\ At(n, "idle") /\ UNCHANGED <<env, rev, box, docker, op, step, effect>>
    BY <1>3 DEF Boot, Stage, boxVars, envVars
  <2> DEFINE y == Ex("idle", exec[n].rev, exec[n].box, exec[n].gen, exec[n].step, exec[n].ok, exec[n].failed)
  <2>1. Becomes(n, y)
    BY <1>0, <2>0, AtBecomes
  <2>2. exec[n].rev = Nothing /\ (op[n].stage # "out" => exec[n].at \in {"bound", "failing", "releasing"})
    BY <2>0, TypesOf DEF WellFormed
  <2>3. y.at = "idle" /\ y.rev = Nothing
    BY <2>2 DEF Ex
  <2>4. (\A a \in Actor : a # n => op'[a] = op[a]) /\ op'[n].stage = "out"
    BY <2>0, <2>2
  <2> HIDE DEF y
  <2> QED
    BY <1>1, <2>0, <2>1, <2>3, <2>4
<1> QED
  BY <1>2, <1>3

-----------------------------------------------------------------------------
(* A revision is claimed, by a request or by the recovery at startup.       *)

LEMMA ResolvedIsKnown ==
    ASSUME TypeInv, NEW r \in Rev, rev[r].status # "absent", NEW c \in Resolved(r)
    PROVE  /\ c \in Box \cup {Nothing}
           /\ env[rev[r].env].box \in {Nothing, c}
           /\ \A d \in Box : box[d].rev = r => d = c
<1>1. c \in Box \cup {Nothing}
  BY ResolvedBox
<1> DEFINE known == ({rev[r].box, env[rev[r].env].box} \cup {d \in Box : box[d].rev = r}) \ {Nothing}
<1>2. known \subseteq {c}
  BY DEF Resolved
<1>3. Nothing \notin Box
  BY BoxAssumption
<1> QED
  BY <1>1, <1>2, <1>3

\* What is known of the revision that an idle executor turns to.
Turned(n, r, e) ==
    /\ r # Nothing /\ exec[n].rev = Nothing /\ exec[n].at = "idle" /\ LeaseFree(r)
    /\ op[n].stage = "out" /\ UNCHANGED <<box, docker, op, step, effect>>
    /\ rev[r].env = e /\ rev[r].status \in UnderWay
    /\ env[e].active = r /\ env[e].status # "absent" /\ Shape(env[e]) /\ env[e] \in EnvRows
    /\ rev[r].kind = PlannedKind(env[e])
    /\ \A d \in Box : box[d].rev = r => docker[d].status = "none" \/ env[e].box = d

LEMMA TurnedIs ==
    ASSUME TypeInv, RevisionInv, NEW n \in Node, NEW r \in Rev, exec[n].at = "idle", LeaseFree(r),
           rev[r].status # "absent", env[rev[r].env].active = r,
           UNCHANGED <<box, docker, op, step, effect>>
    PROVE  rev[r].env \in Env /\ Turned(n, r, rev[r].env)
<1> DEFINE e == rev[r].env
<1>1. /\ e \in Env /\ r # Nothing /\ exec[n].rev = Nothing /\ op[n].stage = "out"
      /\ env[e] \in EnvRows
  BY TypesOf, RevAssumption, NodeAssumption DEF WellFormed
<1>2. EnvFits(e) /\ RevFits(r)
  BY <1>1 DEF RevisionInv, RowInv
<1>3. /\ rev[r].status \in UnderWay /\ env[e].status # "absent" /\ Shape(env[e])
      /\ rev[r].kind = PlannedKind(env[e])
  BY <1>1, <1>2 DEF EnvFits, RevFits
<1>4. \A d \in Box : box[d].rev = r => docker[d].status = "none" \/ env[e].box = d
  BY <1>1, OwnBoxes DEF LeaseFree
<1> QED
  BY <1>1, <1>3, <1>4 DEF Turned

\* The transactions that leave the revision under way.
LEMMA TurnKeeps ==
    ASSUME TypeInv, TypeInv', ReadInv, RevisionInv, NEW n \in Node, NEW r \in Rev, NEW e \in Env,
           Turned(n, r, e), NEW y, Becomes(n, y), y.rev \in {Nothing, r}, Sound(n)',
           NEW t, NEW s,
           t \in UnderWay \ {"pending_approval"},
           t = "planned" => \A k \in 1..Steps : step[r][k] = "pending",
           t = "executing" => /\ \A d \in Box : box[d].rev = r => Bound(d)
                              /\ \A k \in 1..Steps : step[r][k] = "pending",
           rev'[r].status = t, rev'[r].env = rev[r].env, rev'[r].kind = rev[r].kind,
           \A q \in Rev : q # r => rev'[q] = rev[q],
           env'[e] \in {Resumed(env[e]), Stuck(env[e])},
           \A d \in Env : d # e => env'[d] = env[d]
    PROVE  RevisionInv'
<1>1. r # Nothing /\ env[e] \in EnvRows /\ Shape(env[e]) /\ env[e].active = r
  BY DEF Turned
<1>2. PICK z : z # "absent" /\ env'[e] = Row(z, env[e].applied, r, env[e].box, env[e].platform)
  <2>1. CASE env'[e] = Resumed(env[e])
    <3> DEFINE moving == IF env[e].applied = Nothing THEN "building" ELSE "adapting"
    <3>1. env'[e] = Row(moving, env[e].applied, r, env[e].box, env[e].platform)
      BY <1>1, <2>1, LifecycleRecords
    <3> QED
      BY <3>1
  <2>2. CASE env'[e] = Stuck(env[e])
    <3>1. env'[e] = Row("recovery_required", env[e].applied, r, env[e].box, env[e].platform)
      BY <1>1, <2>2, LifecycleRecords
    <3> QED
      BY <3>1
  <2> QED
    BY <2>1, <2>2
<1>3. Transaction(e, r, z, env[e].applied, r, t)
  BY <1>2 DEF Transaction
<1>4. Shape(env'[e])
  BY <1>1, ShapeOfRows
<1>5. TransactionFits(e, r, z, env[e].applied, r, t)
  BY <1>1, <1>2, <1>4 DEF TransactionFits, Turned, UnderWay
<1>6. BoxesIn(e, r, t)
  BY DEF BoxesIn, Turned
<1>7. StepsIn(e, r, t)
  BY DEF StepsIn, Turned, Clean, UnderWay
<1>8. exec[n].rev = Nothing /\ LeaseFree(r) /\ op' = op /\ op[n].stage = "out"
  BY DEF Turned
<1> QED
  BY <1>1, <1>3, <1>5, <1>6, <1>7, <1>8, TransactionKeeps

LEMMA ClaimSteps ==
    ASSUME TypeInv, TypeInv', ReadInv, RevisionInv, NEW n \in Node, NEW r \in Rev, Claim(n, r)
    PROVE  RevisionInv'
<1> DEFINE e == rev[r].env  l == env[e]
<1>0. /\ exec[n].at = "idle" /\ LeaseFree(r) /\ rev[r].status = "planned" /\ IsActive(l, r)
      /\ \A k \in 1..Steps : step[r][k] = "pending"
      /\ UNCHANGED <<box, docker, op, step, effect>>
      /\ env' = [env EXCEPT ![e] = Resumed(l)]
  BY DEF Claim, boxVars
<1>1. e \in Env /\ Turned(n, r, e)
  BY <1>0, TurnedIs DEF IsActive
<1>2. PICK c \in Resolved(r) :
         /\ IF c = Nothing THEN rev[r].kind = "initial"
            ELSE env[e].box # Nothing /\ box[c].status = "running"
         /\ rev' = [rev EXCEPT ![r].status = "executing",
                                ![r].box = IF c = Nothing THEN @ ELSE c]
         /\ Given(n, r, c, IF c = Nothing THEN "claimed" ELSE "ready")
  BY DEF Claim
<1>3. /\ c \in Box \cup {Nothing} /\ env[e].box \in {Nothing, c}
      /\ \A d \in Box : box[d].rev = r => d = c
  BY <1>0, ResolvedIsKnown
<1>4. /\ env \in [Env -> EnvRows] /\ rev \in [Rev -> RevRows] /\ exec \in [Node -> Executor]
      /\ "executing" \in RevisionStatus /\ "claimed" \in Stage /\ "ready" \in Stage
      /\ Generation(c) \in Nat /\ Nothing \notin Box
  BY <1>3, TypesOf, BoxAssumption DEF RevisionStatus, Stage, Generation, BoxTypeInv, BoxTypeOK
<1>5. env'[e] = Resumed(l) /\ \A d \in Env : d # e => env'[d] = env[d]
  BY <1>0, <1>1, <1>4
<1>6. /\ rev'[r].status = "executing" /\ rev'[r].env = rev[r].env /\ rev'[r].kind = rev[r].kind
      /\ \A q \in Rev : q # r => rev'[q] = rev[q]
  <2>1. rev[r].box \in Box \cup {Nothing}
    BY <1>4 DEF RevRows
  <2> DEFINE f == IF c = Nothing THEN rev[r].box ELSE c
  <2>2. f \in Box \cup {Nothing} /\ rev' = [rev EXCEPT ![r].status = "executing", ![r].box = f]
    BY <1>2, <1>3, <1>4, <2>1
  <2> HIDE DEF f
  <2>3. RevBecomes(r, "executing", f)
    BY <1>4, <2>2, RevisionBecomes
  <2> QED
    BY <2>3 DEF RevBecomes
<1>7. ASSUME NEW d \in Box, box[d].rev = r
      PROVE  Bound(d)
  <2>1. d = c /\ c # Nothing
    BY <1>3, <1>4, <1>7
  <2>2. env[e].box # Nothing
    BY <1>2, <2>1
  <2> QED
    BY <1>1, <1>3, <2>1, <2>2 DEF Bound
<1>8. l \in EnvRows /\ Shape(l) /\ rev[r].kind = PlannedKind(l) /\ l.platform \in BOOLEAN
  BY <1>1, EnvRowFields DEF Turned
<1>9. PICK z : env'[e] = Row(z, l.applied, l.active, l.box, l.platform)
  BY <1>5, <1>8, LifecycleRecords
<1>10. env'[e].applied = l.applied /\ env'[e].box = l.box /\ env'[e].platform = l.platform
  BY <1>9, RowFields
<1>11. CASE c = Nothing
  <2> DEFINE y == Ex("claimed", r, c, Generation(c), 1, TRUE, FALSE)
  <2>1. Becomes(n, y)
    BY <1>2, <1>3, <1>4, <1>11, GivenBecomes
  <2>2. y.at = "claimed" /\ y.rev = r /\ y.box = Nothing
    BY <1>11 DEF Ex
  <2>20. y.ok = TRUE
    BY DEF Ex
  <2> HIDE DEF y
  <2>3. exec'[n] = y
    BY <2>1 DEF Becomes
  <2>4. l.applied = Nothing /\ l.box = Nothing
    BY <1>2, <1>3, <1>8, <1>11 DEF PlannedKind
  <2>5. l.platform
    BY <1>8, <2>4 DEF Shape
  <2>6. ProvisionalFits(y, rev'[r], env'[e], step'[r])
    <3>1. rev'[r].status = "executing" /\ env'[e].applied = Nothing /\ env'[e].box = Nothing
      BY <1>6, <1>10, <2>4
    <3>2. env'[e].platform
      BY <1>10, <2>5
    <3>3. \A k \in 1..Steps : step'[r][k] = "pending"
      BY <1>0
    <3> QED
      BY <2>2, <2>20, <3>1, <3>2, <3>3 DEF ProvisionalFits
  <2>7. Sound(n)'
    <3>1. rev'[y.rev].env = e
      BY <1>6, <2>2
    <3> QED
      BY <2>2, <2>3, <2>6, <3>1, SoundIn DEF Provisional
  <2> QED
    BY <1>0, <1>1, <1>5, <1>6, <1>7, <2>1, <2>2, <2>7, TurnKeeps DEF UnderWay
<1>12. CASE c # Nothing
  <2> DEFINE y == Ex("ready", r, c, Generation(c), 1, TRUE, FALSE)
  <2>1. Becomes(n, y)
    BY <1>2, <1>3, <1>4, <1>12, GivenBecomes
  <2>2. y.at = "ready" /\ y.rev = r /\ y.box = c /\ y.step = 1
    BY DEF Ex
  <2>20. y.ok = TRUE
    BY DEF Ex
  <2> HIDE DEF y
  <2>3. exec'[n] = y
    BY <2>1 DEF Becomes
  <2>4. env'[e].box = c
    BY <1>2, <1>3, <1>10, <1>12
  <2>5. ApplyingFits(n)'
    <3>1. exec'[n].at = "ready" /\ exec'[n].rev = r /\ exec'[n].box = c
      BY <2>2, <2>3
    <3>2. exec'[n].ok
      BY <2>3, <2>20
    <3>3. rev'[r].status = "executing" /\ rev'[r].env = e
      BY <1>6
    <3> QED
      BY <1>12, <2>4, <3>1, <3>2, <3>3 DEF ApplyingFits
  <2>6. Sound(n)'
    BY <2>2, <2>3, <2>5, SoundIn DEF Applying
  <2> QED
    BY <1>0, <1>1, <1>5, <1>6, <1>7, <2>1, <2>2, <2>6, TurnKeeps DEF UnderWay
<1> QED
  BY <1>11, <1>12

\* An executor that is given a revision in order to roll it back.
LEMMA GivenRollback ==
    ASSUME TypeInv, NEW n \in Node, NEW r \in Rev, rev[r].status # "absent",
           NEW c \in Resolved(r), Given(n, r, c, "rollback"),
           rev'[r].env = rev[r].env, env'[rev[r].env].box = env[rev[r].env].box
    PROVE  \E y : Becomes(n, y) /\ y.rev = r /\ Sound(n)'
<1> DEFINE y == Ex("rollback", r, c, Generation(c), 1, TRUE, FALSE)
<1>1. c \in Box \cup {Nothing} /\ env[rev[r].env].box \in {Nothing, c}
  BY ResolvedIsKnown
<1>2. exec \in [Node -> Executor] /\ "rollback" \in Stage /\ Generation(c) \in Nat
  BY <1>1, TypesOf DEF Stage, Generation, BoxTypeInv, BoxTypeOK
<1>3. Becomes(n, y)
  BY <1>1, <1>2, GivenBecomes
<1>4. y.at = "rollback" /\ y.rev = r /\ y.box = c
  BY DEF Ex
<1> HIDE DEF y
<1>5. exec'[n] = y
  BY <1>3 DEF Becomes
<1>6. Sound(n)'
  BY <1>1, <1>4, <1>5, SoundIn
<1> QED
  BY <1>3, <1>4, <1>6

LEMMA ClaimRecoverySteps ==
    ASSUME TypeInv, TypeInv', ReadInv, RevisionInv, NEW n \in Node, NEW r \in Rev, ClaimRecovery(n, r)
    PROVE  RevisionInv'
<1> DEFINE e == rev[r].env  l == env[e]
<1>0. /\ exec[n].at = "idle" /\ LeaseFree(r) /\ rev[r].status = "recovery_required" /\ l.active = r
      /\ UNCHANGED <<box, docker, op, step, effect>>
      /\ env' = [env EXCEPT ![e] = Resumed(l)] /\ rev' = [rev EXCEPT ![r].status = "rolling_back"]
  BY DEF ClaimRecovery, RecoveryClaimed, CanRecover, IsActive, boxVars
<1>1. e \in Env /\ Turned(n, r, e)
  BY <1>0, TurnedIs
<1>2. PICK c \in Resolved(r) : Given(n, r, c, "rollback")
  BY DEF ClaimRecovery, RecoveryClaimed
<1>3. env \in [Env -> EnvRows] /\ rev \in [Rev -> RevRows] /\ l \in EnvRows
  BY <1>1, TypesOf DEF Turned
<1>4. env'[e] = Resumed(l) /\ \A d \in Env : d # e => env'[d] = env[d]
  BY <1>0, <1>1, <1>3
<1>5. /\ rev'[r].status = "rolling_back" /\ rev'[r].env = rev[r].env /\ rev'[r].kind = rev[r].kind
      /\ \A q \in Rev : q # r => rev'[q] = rev[q]
  BY <1>0, <1>3 DEF RevRows
<1>6. env'[e].box = l.box
  <2>1. PICK z : env'[e] = Row(z, l.applied, l.active, l.box, l.platform)
    BY <1>3, <1>4, LifecycleRecords
  <2> QED
    BY <2>1, RowFields
<1>7. PICK y : Becomes(n, y) /\ y.rev = r /\ Sound(n)'
  BY <1>0, <1>2, <1>5, <1>6, GivenRollback
<1> QED
  BY <1>1, <1>4, <1>5, <1>7, TurnKeeps DEF UnderWay

LEMMA RecoverSteps ==
    ASSUME TypeInv, TypeInv', ReadInv, RevisionInv, NEW n \in Node, Recover(n)
    PROVE  RevisionInv'
<1> PICK t \in todo[n] : LET r == t[1]  e == rev[r].env IN
    IF ~LeaseFree(r) \/ env[e].active # r
       THEN UNCHANGED <<env, rev, exec>>
       ELSE IF Resolved(r) = {}
       THEN MarkRecoveryRequired(r) /\ UNCHANGED exec
       ELSE \E c \in Resolved(r) :
            IF t[2] = "executing" /\ Restorable(r, c)
            THEN /\ rev' = [rev EXCEPT ![r].status = "planned"]
                 /\ env' = [env EXCEPT ![e] = Resumed(@)]
                 /\ UNCHANGED exec
            ELSE Given(n, r, c, "rollback") /\ UNCHANGED <<env, rev>>
  BY DEF Recover
<1> DEFINE r == t[1]  e == rev[r].env  l == env[e]
<1>0. /\ exec[n].at = "idle" /\ UNCHANGED <<box, docker, op, step, effect>>
  BY DEF Recover
<1>1. t \in Rev \X {"executing", "rolling_back"}
  BY TypesOf
<1>2. r \in Rev /\ rev[r].status # "absent"
  BY <1>1, TypesOf DEF WellFormed
<1>3. /\ exec \in [Node -> Executor] /\ env \in [Env -> EnvRows] /\ rev \in [Rev -> RevRows]
      /\ exec[n].rev = Nothing /\ op[n].stage = "out"
  BY <1>0, NodeAssumption, TypesOf DEF WellFormed
\* The executor stays idle.
<1>4. ASSUME UNCHANGED exec
      PROVE  Becomes(n, exec[n]) /\ Sound(n)'
  <2>1. exec'[n] = exec[n]
    BY <1>4
  <2>2. Sound(n)'
    BY <1>0, <2>1, SoundIn
  <2> QED
    BY <1>3, <1>4, <2>2 DEF Becomes
<1>5. CASE UNCHANGED <<env, rev, exec>>
  <2>1. BoxesStay
    BY <1>0 DEF BoxesStay
  <2>2. Becomes(n, exec[n]) /\ Sound(n)' /\ exec[n].at # "created"
    BY <1>0, <1>4, <1>5
  <2>3. exec[n].rev \in {Nothing, exec[n].rev} /\ exec[n].rev \in Rev \cup {Nothing}
    BY <1>3
  <2> DEFINE y == exec[n]
  <2>4. Becomes(n, y) /\ y.rev \in {Nothing, exec[n].rev}
    BY <2>2
  <2> QED
    BY <1>0, <1>3, <1>5, <2>1, <2>2, <2>3, <2>4, MoveKeeps
<1>6. ASSUME LeaseFree(r), l.active = r
      PROVE  e \in Env /\ Turned(n, r, e) /\ l \in EnvRows
  <2>1. e \in Env /\ Turned(n, r, e)
    BY <1>0, <1>2, <1>6, TurnedIs
  <2> QED
    BY <2>1 DEF Turned
<1>7. ASSUME LeaseFree(r), l.active = r, NEW s \in {"planned", "recovery_required"},
             s = "planned" => \A k \in 1..Steps : step[r][k] = "pending",
             rev' = [rev EXCEPT ![r].status = s], NEW m \in {Resumed(l), Stuck(l)},
             env' = [env EXCEPT ![e] = m], UNCHANGED exec
      PROVE  RevisionInv'
  <2>1. env'[e] = m /\ \A d \in Env : d # e => env'[d] = env[d]
    BY <1>3, <1>6, <1>7
  <2>2. /\ rev'[r].status = s /\ rev'[r].env = rev[r].env /\ rev'[r].kind = rev[r].kind
        /\ \A q \in Rev : q # r => rev'[q] = rev[q]
    BY <1>2, <1>3, <1>7 DEF RevRows
  <2> DEFINE y == exec[n]
  <2>3. Becomes(n, y) /\ Sound(n)' /\ y.rev \in {Nothing, r}
    BY <1>3, <1>4, <1>7
  <2>4. s \in UnderWay \ {"pending_approval"} /\ s # "executing"
    BY DEF UnderWay
  <2> QED
    <3>1. /\ s = "planned" => \A k \in 1..Steps : step[r][k] = "pending"
          /\ env'[e] \in {Resumed(env[e]), Stuck(env[e])}
          /\ r \in Rev /\ e \in Env /\ Turned(n, r, e)
      BY <1>2, <1>6, <1>7, <2>1
    <3> HIDE DEF y, e, r
    <3> QED
      BY <2>1, <2>2, <2>3, <2>4, <3>1, TurnKeeps, SMTT(20)
<1>8. CASE LeaseFree(r) /\ l.active = r /\ MarkRecoveryRequired(r) /\ UNCHANGED exec
  <2>1. rev' = [rev EXCEPT ![r].status = "recovery_required"] /\ env' = [env EXCEPT ![e] = Stuck(l)]
    BY <1>8 DEF MarkRecoveryRequired
  <2> QED
    BY <1>7, <1>8, <2>1
<1>9. ASSUME LeaseFree(r), l.active = r, NEW c \in Resolved(r), Restorable(r, c),
             rev' = [rev EXCEPT ![r].status = "planned"],
             env' = [env EXCEPT ![e] = Resumed(l)], UNCHANGED exec
      PROVE  RevisionInv'
  BY <1>7, <1>9 DEF Restorable
<1>10. ASSUME LeaseFree(r), l.active = r, NEW c \in Resolved(r),
              Given(n, r, c, "rollback"), UNCHANGED <<env, rev>>
       PROVE  RevisionInv'
  <2>1. PICK y : Becomes(n, y) /\ y.rev = r /\ Sound(n)'
    BY <1>2, <1>10, GivenRollback
  <2>2. ByExecutor(n, e, r, y)
    BY <1>0, <1>3, <1>10, <2>1 DEF ByExecutor
  <2>3. BoxesByExecutor(n, e, r)
    BY <1>0, <1>3, <1>10 DEF BoxesByExecutor
  <2>4. ASSUME NEW d \in Box, box'[d].rev = r, r # Nothing
        PROVE  BoxFits(d)'
    <3>1. BoxFits(d) /\ \A m \in Node : exec[m].at = "created" => exec'[m] = exec[m]
      BY <1>0, <2>1 DEF RevisionInv, RowInv, Becomes
    <3> QED
      BY <1>0, <1>10, <3>1 DEF BoxFits, Awaited
  <2>5. StepsFit(r)'
    BY <1>0, <1>2, <1>10 DEF RevisionInv, StepInv, StepsFit
  <2> QED
    BY <1>2, <2>1, <2>2, <2>3, <2>4, <2>5, ExecutorKeeps
<1> QED
  BY <1>5, <1>8, <1>9, <1>10

-----------------------------------------------------------------------------
(* The invariant of the revisions, and what it says.                       *)

LEMMA InitRevisions ==
    ASSUME Init
    PROVE  RevisionInv
<1>0. /\ \A e \in Env : env[e] = NoEnvironment
      /\ \A r \in Rev : rev[r].status = "absent" /\ \A k \in 1..Steps : step[r][k] = "pending"
      /\ \A n \in Node : exec[n].at = "idle" /\ exec[n].rev = Nothing
      /\ \A c \in Box : effect[c] = {} /\ box[c].rev = Nothing
      /\ \A a \in Actor : op[a].stage = "out"
  BY DEF Init, BoxInit, NoOp, NoExecutor
<1>1. Leases
  BY <1>0 DEF Leases
<1>2. RowInv
  BY <1>0 DEF RowInv, EnvFits, RevFits, BoxFits, NoEnvironment, UnderWay
<1>3. RemovalInv /\ GoneInv
  BY <1>0 DEF RemovalInv, GoneInv, Under
<1>4. StepInv
  BY <1>0 DEF StepInv, StepsFit, Clean
<1>5. ExecInv
  BY <1>0 DEF ExecInv, Sound, Provisional, Applying, Undoing
<1> QED
  BY <1>1, <1>2, <1>3, <1>4, <1>5 DEF RevisionInv

\* What an executor does from one stage to the next.
LEMMA ExecutorStepKeeps ==
    ASSUME TypeInv, TypeInv', ReadInv, RevisionInv, NoRace, NEW n \in Node, ExecutorSteps(n) \/ Cancel(n)
    PROVE  RevisionInv'
<1>1. CASE Recover(n)
  BY <1>1, RecoverSteps
<1>2. CASE Provision(n) \/ BindBox(n) \/ StartBox(n) \/ BoxStarted(n) \/ BindSession(n) \/ SettleFailure(n)
  <2>1. exec[n].at \in Provisional
    BY <1>2 DEF Provision, BindBox, StartBox, BoxStarted, BindSession, SettleFailure, Provisional
  <2>2. PICK r \in Rev, e \in Env, c \in Box \cup {Nothing}, b \in BOOLEAN, f \in BOOLEAN :
           Provisions(n, r, e, c, b, f)
    BY <2>1, AtProvisioning
  <2>3. CASE Provision(n)
    BY <2>2, <2>3, ProvisionSteps
  <2>4. CASE BindBox(n)
    BY <2>2, <2>4, BindSteps
  <2>5. CASE StartBox(n) \/ BoxStarted(n)
    BY <2>2, <2>5, StartSteps
  <2>6. CASE BindSession(n)
    BY <2>2, <2>6, SessionBindSteps
  <2>7. CASE SettleFailure(n)
    BY <2>2, <2>7, SettleFailureSteps
  <2> QED
    BY <1>2, <2>3, <2>4, <2>5, <2>6, <2>7
<1>3. CASE DeleteBox(n) \/ BoxDeleted(n)
  <2>1. exec[n].at \in {"failing", "releasing"}
    BY <1>3, NodeAssumption, TypesOf DEF DeleteBox, BoxDeleted, WellFormed
  <2>2. PICK r \in Rev, e \in Env, c \in Box \cup {Nothing}, f \in BOOLEAN : Deletes(n, r, e, c, f)
    BY <2>1, AtDeleting
  <2>3. CASE DeleteBox(n)
    BY <2>2, <2>3, DeleteSteps
  <2>4. CASE BoxDeleted(n)
    BY <2>2, <2>4, DeletedSteps
  <2> QED
    BY <1>3, <2>3, <2>4
<1>4. CASE \/ CopyFails(n) \/ BeginStep(n) \/ Apply(n) \/ RecordApply(n) \/ BeginVerify(n)
           \/ Verify(n) \/ Cancel(n)
  <2>1. exec[n].at \in Applying
    BY <1>4 DEF CopyFails, BeginStep, Apply, RecordApply, BeginVerify, Verify, Cancel, NoRace, Applying
  <2> QED
    BY <1>4, <2>1, ApplyingSteps
<1>5. CASE Complete(n)
  BY <1>5, CompleteSteps
<1>6. CASE BeginRollback(n)
  BY <1>6, BeginRollbackSteps
<1>7. CASE MarkStep(n) \/ Undo(n) \/ RecordUndo(n) \/ StepsUndone(n)
  <2>1. exec[n].at \in Undoing
    BY <1>7 DEF MarkStep, Undo, RecordUndo, StepsUndone, Undoing
  <2> QED
    BY <1>7, <2>1, UndoingSteps
<1>8. CASE SettleRollback(n)
  BY <1>8, SettleRollbackSteps
<1> QED
  BY <1>1, <1>2, <1>3, <1>4, <1>5, <1>6, <1>7, <1>8 DEF ExecutorSteps

LEMMA StepRevisions ==
    ASSUME ContainerInv, RevisionInv, NoRace, [Next]_vars
    PROVE  RevisionInv'
<1>0. TypeInv /\ ReadInv /\ TypeInv'
  BY StepTypes DEF ContainerInv
<1>1. CASE \/ \E c \in Box : CreateOperatorBox(c)
           \/ \E a \in Actor : \/ \E c \in Box, kind \in Mutation : OperatorBegins(a, kind, c)
                               \/ OperatorFinishes(a)
           \/ MonitorSteps \/ SessionSteps
           \/ UNCHANGED vars
  BY <1>0, <1>1, OutsideSteps, OutsideKeeps
<1>2. CASE \E a \in Actor : DockerIsCalled(a)
  BY <1>0, <1>2, DockerKeeps
<1>3. CASE \/ \E e \in Env : \/ CreateEnvironment(e)
                             \/ \E c \in Box : AdoptBox(e, c)
                             \/ \E r \in Rev, risky \in BOOLEAN : PlanRevision(e, r, risky)
                             \/ \E status \in Stable : SetEnvironmentStatus(e, status)
           \/ \E r \in Rev, approve \in BOOLEAN : DecideRevision(r, approve)
  <2>1. PICK e \in Env, q \in Rev \cup {Nothing} : Requested(e, q)
    BY <1>3, RequestSteps
  <2> QED
    BY <1>0, <2>1, RequestKeeps
<1>4. CASE \E n \in Node : \E r \in Rev : Claim(n, r) \/ ClaimRecovery(n, r)
  BY <1>0, <1>4, ClaimSteps, ClaimRecoverySteps
<1>5. CASE \E n \in Node : Crash(n) \/ Boot(n)
  BY <1>0, <1>5, ProcessSteps
<1>6. CASE \E n \in Node : Cancel(n) \/ ExecutorSteps(n)
  BY <1>0, <1>6, ExecutorStepKeeps
<1> QED
  BY <1>1, <1>2, <1>3, <1>4, <1>5, <1>6 DEF Next

LEMMA RestoredBaselines ==
    ASSUME TypeInv, RevisionInv
    PROVE  BaselineRestored
<1> SUFFICES ASSUME NEW e \in Env, env[e].active = Nothing, env[e].box # Nothing
             PROVE  effect[env[e].box] = AppliedSteps(e)
  BY DEF BaselineRestored
<1> DEFINE c == env[e].box
<1>0. c \in Box /\ effect[c] \subseteq Rev \X (1..Steps)
  <2>1. env[e] \in EnvRows
    BY TypesOf
  <2>2. c \in Box
    BY <2>1, EnvRowFields
  <2> QED
    BY <2>2, TypesOf
<1>1. ASSUME NEW r \in Rev, NEW k \in 1..Steps, <<r, k>> \in effect[c]
      PROVE  rev[r].env = e /\ rev[r].status = "applied"
  <2>1. StepsFit(r) /\ RevFits(r) /\ rev[r].status \in RevisionStatus
    BY TypesOf DEF RevisionInv, StepInv, RowInv, RevRows
  <2>2. rev[r].status # "absent" /\ env[rev[r].env].box = c /\ step[r][k] \notin {"pending", "rolled_back"}
    BY <1>0, <1>1, <2>1 DEF StepsFit
  <2>3. rev[r].env = e
    BY <2>2, TypesOf DEF RevisionInv, RowInv, WellFormed
  <2>4. rev[r].status \notin UnderWay
    BY <2>1, <2>3, RevAssumption DEF RevFits
  <2>5. rev[r].status \notin Clean
    BY <2>1, <2>2 DEF StepsFit
  <2> QED
    BY <2>1, <2>3, <2>4, <2>5 DEF UnderWay, Clean, RevisionStatus
<1>2. ASSUME NEW r \in Rev, NEW k \in 1..Steps, rev[r].env = e, rev[r].status = "applied"
      PROVE  <<r, k>> \in effect[c]
  BY <1>2 DEF RevisionInv, StepInv, StepsFit
<1>3. effect[c] \subseteq AppliedSteps(e)
  <2> SUFFICES ASSUME NEW t \in effect[c]
               PROVE  t \in AppliedSteps(e)
    OBVIOUS
  <2>1. t \in Rev \X (1..Steps) /\ t = <<t[1], t[2]>>
    BY <1>0
  <2>2. rev[t[1]].env = e /\ rev[t[1]].status = "applied"
    BY <1>1, <2>1
  <2> QED
    BY <2>1, <2>2 DEF AppliedSteps
<1>4. AppliedSteps(e) \subseteq effect[c]
  <2> SUFFICES ASSUME NEW t \in AppliedSteps(e)
               PROVE  t \in effect[c]
    OBVIOUS
  <2>1. t \in Rev \X (1..Steps) /\ t = <<t[1], t[2]>> /\ rev[t[1]].env = e /\ rev[t[1]].status = "applied"
    BY DEF AppliedSteps
  <2> QED
    BY <1>2, <2>1
<1> QED
  BY <1>3, <1>4

\* No order of requests, failures, crashes and recoveries leaves an environment whose row
\* the decisions of lifecycle.py refuse (_validate_shape): for any number of environments,
\* revisions, containers and processes that execute and recover them.  An executor that
\* is canceled amid the provisioning and an operator's request that races with a binding
\* are left out, as in the run that checks it.
THEOREM EnvironmentShapeAlways ==
    ASSUME "cancel_provision" \notin Faults, "bind_race" \notin Faults
    PROVE  Spec => []EnvironmentShape
<1> DEFINE Inv == ContainerInv /\ RevisionInv
<1>0. NoRace
  BY DEF NoRace
<1>1. Init => Inv
  BY InitContainers, InitRevisions
<1>2. Inv /\ [Next]_vars => Inv'
  BY <1>0, StepContainers, StepRevisions
<1>3. Inv => EnvironmentShape
  BY DEF RevisionInv, RowInv, EnvFits, EnvironmentShape
<1> QED
  BY <1>1, <1>2, <1>3, PTL DEF Spec

\* When no revision of an environment is under way, its container holds what the applied
\* revisions put there and nothing of those that failed, were rejected or were rolled
\* back, whichever commands failed and whichever process died in between, for any number
\* of steps and processes (executions.py: _apply_and_verify, _complete, _rollback and the
\* recoveries).
THEOREM BaselineRestoredAlways ==
    ASSUME "cancel_provision" \notin Faults, "bind_race" \notin Faults
    PROVE  Spec => []BaselineRestored
<1> DEFINE Inv == ContainerInv /\ RevisionInv
<1>0. NoRace
  BY DEF NoRace
<1>1. Init => Inv
  BY InitContainers, InitRevisions
<1>2. Inv /\ [Next]_vars => Inv'
  BY <1>0, StepContainers, StepRevisions
<1>3. Inv => BaselineRestored
  BY RestoredBaselines DEF ContainerInv
<1> QED
  BY <1>1, <1>2, <1>3, PTL DEF Spec

\* A revision that failed or was rolled back leaves no container behind that was created
\* for it and still exists (_fail_claimed_revision and _rollback with
\* delete_revision_sandbox_container).
THEOREM NothingLeftBehindAlways ==
    ASSUME "cancel_provision" \notin Faults, "bind_race" \notin Faults
    PROVE  Spec => []NothingLeftBehind
<1> DEFINE Inv == ContainerInv /\ RevisionInv
<1>0. NoRace
  BY DEF NoRace
<1>1. Init => Inv
  BY InitContainers, InitRevisions
<1>2. Inv /\ [Next]_vars => Inv'
  BY <1>0, StepContainers, StepRevisions
<1>3. Inv => NothingLeftBehind
  BY DEF RevisionInv, RowInv, BoxFits, UnderWay, NothingLeftBehind
<1> QED
  BY <1>1, <1>2, <1>3, PTL DEF Spec

=============================================================================
