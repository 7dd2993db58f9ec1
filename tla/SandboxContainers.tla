------------------------- MODULE SandboxContainers -------------------------
(***************************************************************************)
(* service/sandbox/lifecycle.py, status.py, locking.py and the sandbox     *)
(* selection of Agent sessions: the rows of sandbox_containers beside the  *)
(* containers that Docker has on the managed hosts.                        *)
(*                                                                         *)
(* A mutation holds the container's advisory lock from its first read to   *)
(* its last transaction; it reads, calls Docker and saves in three steps.  *)
(* The status monitor reads all rows without a lock and takes the lock of  *)
(* one container at a time, if it is free.  A transaction is one step.     *)
(* Creation is serialized by the row lock on the host.  Composed with the  *)
(* deception environments in DeceptionExecution.                           *)
(***************************************************************************)
EXTENDS Naturals, FiniteSets

CONSTANTS
    Box,        \* containers, by row id
    Session,    \* Agent sessions that select a container
    Actor,      \* requests and runtimes that mutate containers
    Nothing,    \* no container, no revision, no status read
    Faults,     \* which faults happen, see DeceptionExecution
    MaxGen      \* bound on the starts and generations of a container, for TLC

ASSUME BoxAssumption == Nothing \notin Box
ASSUME ActorAssumption == Nothing \notin Actor
ASSUME GenAssumption == MaxGen \in Nat

VARIABLES
    box,        \* sandbox_containers: status, generation, provisioned_for_revision_id
    docker,     \* per container: what Docker has, and how often it was started
    mutex,      \* per container: the Actor that holds the advisory lock
    op,         \* per Actor: the mutation it is in
    seen,       \* per container: the status in the monitor's snapshot
    noted,      \* per container: what a command of a Run observed and has yet to save
    selected,   \* per session: selected_sandbox_container_id and generation
    agentRun,   \* nonterminal Agent Runs, by session, container and generation
    bootOf      \* history: the boots during which a generation was current

boxVars == <<box, docker, mutex, op, seen, noted, selected, agentRun, bootOf>>

Status == {"created", "running", "paused", "stopped", "error", "removed"}
DockerStatus == {"none", "created", "running", "paused", "exited"}
Mutation == {"start", "stop", "pause", "resume", "remove", "delete"}

Unselected == [box |-> Nothing, gen |-> 0]
NoOp == [kind |-> "none", box |-> Nothing, stage |-> "out", ok |-> TRUE]

BoxTypeOK ==
    /\ \A c \in Box : box[c].status \in Status \cup {"absent"} /\ box[c].gen \in Nat
    /\ docker \in [Box -> [status : DockerStatus, boots : Nat]]
    /\ mutex \in [Box -> Actor \cup {Nothing}]
    /\ op \in [Actor -> [kind : Mutation \cup {"none"}, box : Box \cup {Nothing},
                         stage : {"out", "checked", "acted"}, ok : BOOLEAN]]
    /\ seen \in [Box -> Status \cup {Nothing}]
    /\ noted \in [Box -> Status \cup {Nothing}]
    /\ selected \in [Session -> [box : Box \cup {Nothing}, gen : Nat]]
    /\ agentRun \subseteq [session : Session, box : Box, gen : Nat]
    /\ bootOf \in [Box -> [0..(MaxGen + 1) -> SUBSET Nat]]

BoxInit ==
    /\ box = [c \in Box |-> [status |-> "absent", gen |-> 0, rev |-> Nothing]]
    /\ docker = [c \in Box |-> [status |-> "none", boots |-> 0]]
    /\ mutex = [c \in Box |-> Nothing]
    /\ op = [a \in Actor |-> NoOp]
    /\ seen = [c \in Box |-> Nothing]
    /\ noted = [c \in Box |-> Nothing]
    /\ selected = [s \in Session |-> Unselected]
    /\ agentRun = {}
    /\ bootOf = [c \in Box |-> [g \in 0..(MaxGen + 1) |-> {}]]

-----------------------------------------------------------------------------
(* Rows.                                                                   *)

\* inspect_container_state_sync
Exists(c) == docker[c].status # "none"

\* docker_status_to_sandbox_status, and ERROR for a container that is gone.
Observed(c) ==
    CASE ~Exists(c)                   -> "error"
      [] docker[c].status = "running" -> "running"
      [] docker[c].status = "created" -> "created"
      [] docker[c].status = "paused"  -> "paused"
      [] docker[c].status = "exited"  -> "stopped"

Live(c) == box[c].status \notin {"absent", "removed"}

\* Mutant: only the first start opens a generation.
GenerationAfterFirstStart(c, status) ==
    IF status = "running" /\ box[c].status = "created" THEN box[c].gen + 1 ELSE box[c].gen

\* A row that comes to RUNNING opens a generation, unless it was only paused.
GenerationAfter(c, status) ==
    IF status = "running" /\ box[c].status \notin {"running", "paused"}
    THEN box[c].gen + 1 ELSE box[c].gen

\* clear_session_sandbox_container_bindings
WithoutBinding(c) ==
    [s \in Session |-> IF selected[s].box = c THEN Unselected ELSE selected[s]]

\* refresh_session_sandbox_container_generation
WithGeneration(c, g) ==
    [s \in Session |-> IF selected[s].box = c THEN [box |-> c, gen |-> g] ELSE selected[s]]

\* save_sandbox_container_status: the row and the sessions that selected it.
SaveStatus(c, status) ==
    /\ box' = [box EXCEPT ![c].status = status, ![c].gen = GenerationAfter(c, status)]
    /\ selected' = IF status = "running"
                   THEN WithGeneration(c, GenerationAfter(c, status)) ELSE WithoutBinding(c)
    /\ bootOf' = IF status = "running"
                 THEN [bootOf EXCEPT ![c][GenerationAfter(c, status)] = @ \cup {docker[c].boots}]
                 ELSE bootOf

\* sync_container_status_unlocked, given the status its caller has read: what is
\* observed is saved when it differs from that status, whatever the row says by now.
SaveObserved(c, read, inspectable) ==
    LET status == IF inspectable THEN Observed(c) ELSE "error"
    IN  IF inspectable /\ status = read THEN UNCHANGED <<box, selected, bootOf>>
        ELSE SaveStatus(c, status)

\* _has_nonterminal_agent_run
HasNonterminalRun(c) == \E r \in agentRun : r.box = c /\ r.gen = box[c].gen

\* Mutant: the Runs bound to the generation are not looked for.
MutableUnlessGone(kind, c) ==
    CASE kind = "start"  -> box[c].status \in {"created", "stopped"}
      [] kind = "resume" -> box[c].status = "paused"
      [] kind \in {"stop", "pause"} -> box[c].status = "running"
      [] OTHER -> Live(c)

\* What start, stop, pause, resume and remove ask of the row before they begin.
Mutable(kind, c) ==
    CASE kind = "start"  -> box[c].status \in {"created", "stopped"} /\ ~HasNonterminalRun(c)
      [] kind = "resume" -> box[c].status = "paused"
      [] kind \in {"stop", "pause"} -> box[c].status = "running" /\ ~HasNonterminalRun(c)
      [] OTHER -> Live(c) /\ ~HasNonterminalRun(c)

-----------------------------------------------------------------------------
(* Creation: Docker first, then the row; a transaction that fails after    *)
(* Docker's call removes the container again.                              *)

\* The row of a container that Docker has just created, for a revision or for Nothing.
NewBox(rev) == [status |-> "created", gen |-> 0, rev |-> rev]

\* create_container_sync
DockerCreates(c) == ~Exists(c) /\ docker' = [docker EXCEPT ![c].status = "created"]

CreateBox(c, rev) ==
    /\ box[c].status = "absent"
    /\ DockerCreates(c)
    /\ box' = [box EXCEPT ![c] = NewBox(rev)]
    /\ UNCHANGED <<mutex, op, seen, noted, selected, agentRun, bootOf>>

-----------------------------------------------------------------------------
(* A mutation under serialized_sandbox_container_mutation.                 *)

\* The lock is taken and the row has been read and found fit.
BeginMutation(a, kind, c) ==
    /\ op[a].stage = "out" /\ mutex[c] = Nothing
    /\ Mutable(kind, c)
    /\ mutex' = [mutex EXCEPT ![c] = a]
    /\ op' = [op EXCEPT ![a] = [kind |-> kind, box |-> c, stage |-> "checked", ok |-> TRUE]]
    /\ UNCHANGED <<box, docker, seen, noted, selected, agentRun, bootOf>>

\* remove_container_sync: one that is gone already is removed to no effect.
Gone(d) == [d EXCEPT !.status = "none"]

\* What Docker makes of the call.  A running container is started to no effect.
Effect(kind, d) ==
    CASE kind = "start" /\ d.status \in {"created", "exited"} ->
           [status |-> "running", boots |-> d.boots + 1]
      [] kind = "stop" /\ d.status \in {"running", "paused"} -> [d EXCEPT !.status = "exited"]
      [] kind = "pause" /\ d.status = "running" -> [d EXCEPT !.status = "paused"]
      [] kind = "resume" /\ d.status = "paused" -> [d EXCEPT !.status = "running"]
      [] kind \in {"remove", "delete"} -> Gone(d)
      [] OTHER -> d

\* Docker refuses what does not fit the state, except a redundant start, stop or remove.
Accepts(kind, d) ==
    CASE kind = "pause"  -> d.status = "running"
      [] kind = "resume" -> d.status = "paused"
      [] kind = "start"  -> d.status \notin {"none", "paused"}
      [] kind = "stop"   -> d.status # "none"
      [] OTHER -> TRUE

CallDocker(a) ==
    LET c == op[a].box IN
    /\ op[a].stage = "checked"
    /\ \/ /\ Accepts(op[a].kind, docker[c])
          /\ docker' = [docker EXCEPT ![c] = Effect(op[a].kind, @)]
          /\ op' = [op EXCEPT ![a].stage = "acted"]
       \/ /\ ~Accepts(op[a].kind, docker[c]) \/ "docker_error" \in Faults
          /\ op' = [op EXCEPT ![a].stage = "acted", ![a].ok = FALSE]
          /\ UNCHANGED docker
    /\ UNCHANGED <<box, mutex, seen, noted, selected, agentRun, bootOf>>

Released(a) ==
    /\ mutex' = [mutex EXCEPT ![op[a].box] = Nothing]
    /\ op' = [op EXCEPT ![a] = NoOp]

\* The row after start, stop, pause and resume.
FinishMutation(a) ==
    LET c == op[a].box IN
    /\ op[a].stage = "acted" /\ op[a].kind \in {"start", "stop", "pause", "resume"}
    /\ CASE ~op[a].ok -> SaveStatus(c, "error")
         [] op[a].ok /\ op[a].kind \in {"start", "resume"} ->
              \E inspectable \in {TRUE} \cup {"docker_error" \notin Faults} :
                SaveObserved(c, box[c].status, inspectable)
         [] op[a].ok /\ op[a].kind = "stop"  -> SaveStatus(c, "stopped")
         [] op[a].ok /\ op[a].kind = "pause" -> SaveStatus(c, "paused")
    /\ Released(a)
    /\ UNCHANGED <<docker, seen, noted, agentRun>>

\* _clear_sandbox_container_references and the terminal row of remove and delete
RemoveRow(c) ==
    /\ box' = [box EXCEPT ![c].status = "removed"]
    /\ selected' = WithoutBinding(c)

FinishRemoval(a) ==
    LET c == op[a].box IN
    /\ op[a].stage = "acted" /\ op[a].kind = "remove"
    /\ IF op[a].ok THEN RemoveRow(c) ELSE UNCHANGED <<box, selected>>
    /\ Released(a)
    /\ UNCHANGED <<docker, seen, noted, agentRun, bootOf>>

-----------------------------------------------------------------------------
(* The status monitor, and containers that exit by themselves.             *)

\* _load_container_status_snapshots: every row, removed ones included.
LoadSnapshots ==
    /\ seen = [c \in Box |-> Nothing]
    /\ seen' = [c \in Box |-> IF box[c].status = "absent" THEN Nothing ELSE box[c].status]
    /\ seen' # seen
    /\ UNCHANGED <<box, docker, mutex, op, noted, selected, agentRun, bootOf>>

\* sync_container_status: nothing is done for a container whose lock is taken.
SyncStatus(c) ==
    /\ seen[c] # Nothing
    /\ box[c].gen < MaxGen \/ box[c].status = "running"
    /\ seen' = [seen EXCEPT ![c] = Nothing]
    /\ IF mutex[c] # Nothing THEN UNCHANGED <<box, selected, bootOf>>
       ELSE \E inspectable \in {TRUE} \cup {"docker_error" \notin Faults} :
              SaveObserved(c, seen[c], inspectable)
    /\ UNCHANGED <<docker, mutex, op, noted, agentRun>>

ContainerExits(c) ==
    /\ "exits" \in Faults
    /\ docker[c].status = "running"
    /\ docker' = [docker EXCEPT ![c].status = "exited"]
    /\ UNCHANGED <<box, mutex, op, seen, noted, selected, agentRun, bootOf>>

-----------------------------------------------------------------------------
(* Sessions and Runs: their transactions take the container's lock too.    *)

\* _require_current_sandbox_binding
Current(c, g) == box[c].status = "running" /\ box[c].gen = g

\* resolve_sandbox_container_selection, read before the selection is saved: it also asks
\* that no environment has bound the container, which may no longer hold by then.
Selectable(c) == box[c].status = "running"

\* update_sandbox_selection of a chat session: the generation that was read is current.
SelectBox(s, c) ==
    /\ mutex[c] = Nothing
    /\ Selectable(c)
    /\ ~\E r \in agentRun : r.session = s
    /\ selected' = [selected EXCEPT ![s] = [box |-> c, gen |-> box[c].gen]]
    /\ UNCHANGED <<box, docker, mutex, op, seen, noted, agentRun, bootOf>>

\* enqueue_chat_run
AdmitRun(s) ==
    LET c == selected[s].box IN
    /\ c # Nothing
    /\ mutex[c] = Nothing
    /\ Current(c, selected[s].gen)
    /\ ~\E r \in agentRun : r.session = s
    /\ agentRun' = agentRun \cup
         {[session |-> s, box |-> c, gen |-> selected[s].gen]}
    /\ UNCHANGED <<box, docker, mutex, op, seen, noted, selected, bootOf>>

EndRun(r) ==
    /\ r \in agentRun
    /\ agentRun' = agentRun \ {r}
    /\ UNCHANGED <<box, docker, mutex, op, seen, noted, selected, bootOf>>

-----------------------------------------------------------------------------
(* Commands of Runs.  The row is checked and Docker asked without the      *)
(* container's lock; what was observed is saved later, under the lock if   *)
(* it is free then, over whatever the row has become.                      *)

\* execute_sandbox_container_command of a Run finds the container down, or cannot ask.
ObserveDown(r, inspectable) ==
    LET status == IF inspectable THEN Observed(r.box) ELSE "error" IN
    /\ "commands" \in Faults
    /\ inspectable \/ "docker_error" \in Faults
    /\ r \in agentRun /\ noted[r.box] = Nothing
    /\ Current(r.box, r.gen) /\ status # "running"
    /\ noted' = [noted EXCEPT ![r.box] = status]
    /\ UNCHANGED <<box, docker, mutex, op, seen, selected, agentRun, bootOf>>

\* The try-lock is granted and the row says something else than what was observed.
Saves(c) == mutex[c] = Nothing /\ box[c].status # noted[c]

\* save_observed_sandbox_container_status
SaveNoted(c) ==
    /\ noted[c] # Nothing
    /\ noted' = [noted EXCEPT ![c] = Nothing]
    /\ IF Saves(c) THEN SaveStatus(c, noted[c]) ELSE UNCHANGED <<box, selected, bootOf>>
    /\ UNCHANGED <<docker, mutex, op, seen, agentRun>>

-----------------------------------------------------------------------------

\* A session never points at a container that is not running, or at a generation
\* other than its row's, whatever mutation, monitor or environment changes the row.
SelectionIsLive ==
    \A s \in Session : selected[s].box # Nothing =>
        Current(selected[s].box, selected[s].gen)

\* What a generation stands for: the platform never lets two boots of a container
\* pass under one generation, whatever start is interrupted and whoever saves it,
\* so that a Run bound to a generation never reaches a restarted container.
GenerationNamesOneBoot ==
    \A c \in Box : \A g \in 0..(MaxGen + 1) : Cardinality(bootOf[c][g]) <= 1

\* While an Agent Run is bound to the current generation of a container and is not
\* over, nothing the platform does to Docker reaches that container.
RunsKeepTheirBoot ==
    [][\A r \in agentRun :
         r.gen = box[r.box].gen /\ docker'[r.box] # docker[r.box] => ContainerExits(r.box)]_boxVars

=============================================================================
