---------------------------- MODULE Investigation ----------------------------
(***************************************************************************)
(* One threat incident from its first event to its closure: investigation  *)
(* tasks, evidence and their review (service/threat/investigations.py),    *)
(* analyses and their versions (analysis_records.py, analysis.py,          *)
(* chains.py), reports (intelligence.py), the status of the incident       *)
(* (state.py) and the publication of its final reports, of which only the  *)
(* promise matters here: KnowledgePublication implements ReportOutbox.     *)
(*                                                                         *)
(* Every operation is one transaction under the incident's row lock and is *)
(* refused once the incident is closed.  Two things do not take that lock: *)
(* the delegation of a task to a specialist, which reads the task's status *)
(* and commits later (service/agent/delegation.py), and the publication.   *)
(* Events come from the correlation, the subject of SensorEvents: here     *)
(* each is material and is linked once.                                    *)
(***************************************************************************)
EXTENDS Naturals, Sequences, ReportOutbox

CONSTANTS
    Event, Task,
    Kind,          \* the kinds of analysis that a final report requires
    Risk,          \* the one an incident needs to be finalized
    MaxAnalyses,   \* bounds for TLC
    MaxReopened

ASSUME KindAssumption == Risk \in Kind
ASSUME AnalysesAssumption == MaxAnalyses \in Nat /\ MaxReopened \in Nat
ASSUME ReportAssumption == Report \subseteq Nat \ {0}

VARIABLES
    status,      \* of the incident
    linked,      \* the events of the incident
    task,        \* per task: its status, scope, dependencies and the events its evidence covers
    delegating,  \* the tasks whose delegation has read the task and not committed
    working,     \* the tasks that a specialist's Run is active for
    analyses,    \* analysis_records, in the order of their creation
    reports,     \* intelligence_reports, in the order of their versions; the last is current
    reopened,
    late,        \* history: events linked to the closed incident
    overtaken    \* history: tasks submitted while a delegation of theirs was under way

caseVars == <<status, linked, task, delegating, working, analyses, reports, reopened, late,
              overtaken>>

-----------------------------------------------------------------------------

Open == status # "closed"
NoTask == [status |-> "none", scope |-> {}, needs |-> {}, covered |-> {}]
Tasks == {t \in Task : task[t].status # "none"}
In(t, set) == task[t].status \in set

\* The events of the evidence an analysis may refer to.
Evidenced == UNION {task[t].covered : t \in Task}
Current == {a \in DOMAIN analyses : analyses[a].current}
CurrentOf(k) == {a \in Current : analyses[a].kind = k}
CoveredBy(snapshot) == UNION {analyses[a].covers : a \in snapshot}
CurrentReport == reports[Len(reports)]

CaseTypeOK ==
    /\ OutboxTypeOK
    /\ status \in {"open", "investigating", "engaging", "finalizing", "closed"}
    /\ linked \subseteq Event
    /\ task \in [Task -> [status : {"none", "queued", "active", "blocked", "review", "completed"},
                          scope : SUBSET Event, needs : SUBSET Task, covered : SUBSET Event]]
    /\ delegating \subseteq Task /\ working \subseteq Task
    /\ analyses \in Seq([kind : Kind, task : SUBSET Task, covers : SUBSET Event,
                         review : {"pending", "accepted", "changes"}, current : BOOLEAN])
    /\ reports \in Seq([final : BOOLEAN, snapshot : SUBSET Nat, material : SUBSET Event])
    /\ reopened \in 0..MaxReopened
    /\ late \subseteq Event /\ overtaken \subseteq Task

CaseInit ==
    /\ OutboxInit
    /\ status = "open" /\ linked = {}
    /\ task = [t \in Task |-> NoTask]
    /\ delegating = {} /\ working = {}
    /\ analyses = <<>> /\ reports = <<>>
    /\ reopened = 0 /\ late = {} /\ overtaken = {}

-----------------------------------------------------------------------------
(* Events.                                                                 *)

\* _correlate_behavior_signals: an event of a signal is linked, and an incident that was
\* being finalized is investigated again; a closed one gets the late events of a signal
\* that was its own.
LinkEvent(e) ==
    /\ e \notin linked
    /\ ~Open => linked # {}
    /\ linked' = linked \cup {e}
    /\ late' = IF Open THEN late ELSE late \cup {e}
    /\ status' = IF status = "finalizing" THEN "investigating" ELSE status
    /\ UNCHANGED <<outboxVars, task, delegating, working, analyses, reports, reopened,
                   overtaken>>

-----------------------------------------------------------------------------
(* Tasks and evidence.                                                     *)

UnchangedByTasks == UNCHANGED <<outboxVars, status, linked, delegating, working, reports,
                                reopened, late>>

\* create_investigation_task_in_session: a task with dependencies waits.
CreateTask(t, scope, needs) ==
    /\ Open /\ t \notin Tasks
    /\ scope \subseteq linked /\ needs \subseteq Tasks
    /\ task' = [task EXCEPT ![t] =
           [status |-> IF needs = {} THEN "active" ELSE "queued",
            scope |-> scope, needs |-> needs, covered |-> {}]]
    /\ UnchangedByTasks /\ UNCHANGED <<analyses, overtaken>>

\* activate_investigation_task
ActivateTask(t) ==
    /\ Open /\ In(t, {"queued", "blocked"})
    /\ \A d \in task[t].needs : In(d, {"completed"})
    /\ task' = [task EXCEPT ![t].status = "active"]
    /\ UnchangedByTasks /\ UNCHANGED <<analyses, overtaken>>

\* block_investigation_task
BlockTask(t) ==
    /\ Open /\ In(t, {"active"})
    /\ task' = [task EXCEPT ![t].status = "blocked"]
    /\ UnchangedByTasks /\ UNCHANGED <<analyses, overtaken>>

\* create_investigation_evidence
AddEvidence(t, events) ==
    /\ Open /\ In(t, {"active", "blocked"})
    /\ events # {} /\ events \subseteq task[t].scope
    /\ task' = [task EXCEPT ![t].covered = @ \cup events]
    /\ UnchangedByTasks /\ UNCHANGED <<analyses, overtaken>>

\* submit_investigation_task: each event of the scope has evidence of the task, and no
\* specialist is at work on it.
Covered(t) == task[t].scope \subseteq task[t].covered

SubmitTask(t) ==
    /\ Open /\ In(t, {"active", "blocked"}) /\ Covered(t) /\ t \notin working
    /\ task' = [task EXCEPT ![t].status = "review"]
    /\ overtaken' = IF t \in delegating THEN overtaken \cup {t} ELSE overtaken
    /\ UnchangedByTasks /\ UNCHANGED analyses

ProposalsOf(t) == {a \in DOMAIN analyses : analyses[a].task = {t} /\ analyses[a].review = "pending"}

\* _promote_task_analyses: of each kind the latest proposal becomes the current analysis.
Promoted(t) ==
    LET latest == {a \in ProposalsOf(t) : \A b \in ProposalsOf(t) :
                       analyses[b].kind = analyses[a].kind => b <= a}
        kinds == {analyses[a].kind : a \in latest}
    IN  [a \in DOMAIN analyses |->
            IF a \in latest THEN [analyses[a] EXCEPT !.review = "accepted", !.current = TRUE]
            ELSE IF a \in ProposalsOf(t)
                 THEN [analyses[a] EXCEPT !.review = "changes", !.current = FALSE]
                 ELSE [analyses[a] EXCEPT !.current = @ /\ analyses[a].kind \notin kinds]]

\* _activate_ready_dependents
WithDependents(t) ==
    LET done == {d \in Task : d = t \/ In(d, {"completed"})}
    IN  [d \in Task |->
            IF d = t THEN [task[t] EXCEPT !.status = "completed"]
            ELSE IF In(d, {"queued"}) /\ t \in task[d].needs /\ task[d].needs \subseteq done
                 THEN [task[d] EXCEPT !.status = "active"] ELSE task[d]]

\* review_investigation_task
AcceptTask(t) ==
    /\ Open /\ In(t, {"review"}) /\ Covered(t)
    /\ task' = WithDependents(t)
    /\ analyses' = Promoted(t)
    /\ UnchangedByTasks /\ UNCHANGED overtaken

ReturnTask(t) ==
    /\ Open /\ In(t, {"review"}) /\ Covered(t)
    /\ task' = [task EXCEPT ![t].status = "active"]
    /\ analyses' = [a \in DOMAIN analyses |->
           IF a \in ProposalsOf(t) THEN [analyses[a] EXCEPT !.review = "changes", !.current = FALSE]
           ELSE analyses[a]]
    /\ UnchangedByTasks /\ UNCHANGED overtaken

-----------------------------------------------------------------------------
(* Specialists.                                                            *)

UnchangedBySpecialists == UNCHANGED <<outboxVars, status, linked, task, analyses, reports,
                                      reopened, late, overtaken>>

\* create_child_run: it reads that the incident is open and the task active, without a
\* lock on either, and adds the specialist's Run when it commits.
BeginDelegation(t) ==
    /\ Open /\ In(t, {"active"}) /\ t \notin delegating \cup working
    /\ delegating' = delegating \cup {t}
    /\ UNCHANGED working /\ UnchangedBySpecialists

CommitDelegation(t) ==
    /\ t \in delegating
    /\ delegating' = delegating \ {t}
    /\ working' = working \cup {t}
    /\ UnchangedBySpecialists

SpecialistEnds(t) ==
    /\ t \in working
    /\ working' = working \ {t}
    /\ UNCHANGED delegating /\ UnchangedBySpecialists

-----------------------------------------------------------------------------
(* Analyses and reports.                                                   *)

UnchangedByAnalyses == UNCHANGED <<status, linked, task, delegating, working, reopened,
                                   late, overtaken>>

\* create_analysis_record by a user or the CSO: it replaces the current analysis.
RecordAnalysis(k, covers) ==
    /\ Open /\ Len(analyses) < MaxAnalyses
    /\ covers # {} /\ covers \subseteq Evidenced
    /\ analyses' = Append(
           [a \in DOMAIN analyses |->
               [analyses[a] EXCEPT !.current = @ /\ analyses[a].kind # k]],
           [kind |-> k, task |-> {}, covers |-> covers, review |-> "accepted", current |-> TRUE])
    /\ UnchangedByAnalyses /\ UNCHANGED <<outboxVars, reports>>

\* ... and by the specialist of a task: it waits for the task's review.
ProposeAnalysis(t, k, covers) ==
    /\ Open /\ In(t, {"active", "blocked"}) /\ Len(analyses) < MaxAnalyses
    /\ covers # {} /\ covers \subseteq Evidenced
    /\ analyses' = Append(analyses,
           [kind |-> k, task |-> {t}, covers |-> covers, review |-> "pending", current |-> FALSE])
    /\ UnchangedByAnalyses /\ UNCHANGED <<outboxVars, reports>>

\* create_intelligence_report, a draft or one for review: it refers to current analyses.
DraftReport(snapshot) ==
    /\ Open /\ Len(reports) + 1 \in Report
    /\ snapshot # {} /\ snapshot \subseteq Current
    /\ reports' = Append(reports, [final |-> FALSE, snapshot |-> snapshot, material |-> linked])
    /\ UnchangedByAnalyses /\ UNCHANGED <<outboxVars, analyses>>

\* ... and the final one: while the incident is being finalized, of every current analysis,
\* for every event; its publication is queued.
FinalReport ==
    /\ status = "finalizing" /\ Len(reports) + 1 \in Report
    /\ \A k \in Kind : CurrentOf(k) # {}
    /\ linked \subseteq CoveredBy(Current)
    /\ reports' = Append(reports, [final |-> TRUE, snapshot |-> Current, material |-> linked])
    /\ Queue(Len(reports) + 1)
    /\ UnchangedByAnalyses /\ UNCHANGED analyses

\* The publication of a report ends, at any time.
Publication(r) ==
    /\ Publish(r) \/ FailToPublish(r)
    /\ UNCHANGED caseVars

-----------------------------------------------------------------------------
(* The status of the incident.                                             *)

UnchangedByStatus == UNCHANGED <<outboxVars, linked, task, delegating, working, analyses,
                                 reports, overtaken>>

\* _finalizing_error is empty; a running revision of an environment, which only refuses,
\* is left out.
Finalizable ==
    /\ working = {}
    /\ \A t \in Task : ~In(t, {"active", "blocked", "review"})
    /\ linked \subseteq UNION {task[t].scope : t \in Tasks}
    /\ CurrentOf(Risk) # {}

\* Mutant: what came after the report is not compared with it.
ReportStandsIfFinal ==
    /\ reports # <<>>
    /\ CurrentReport.final /\ knowledge[Len(reports)] = "published"

\* _closure_error is empty.
ReportStands ==
    /\ reports # <<>>
    /\ CurrentReport.final /\ knowledge[Len(reports)] = "published"
    /\ CurrentReport.snapshot = Current
    /\ CurrentReport.material = linked
    /\ linked \subseteq CoveredBy(CurrentReport.snapshot)

Closable ==
    /\ Finalizable
    /\ \A t \in Tasks : In(t, {"completed"}) /\ Covered(t)
    /\ \A k \in Kind : CurrentOf(k) # {}
    /\ ReportStands

\* transition_threat_incident: THREAT_INCIDENT_STATUS_TRANSITIONS
MoveTo(next, from) ==
    /\ status \in from
    /\ status' = next
    /\ UnchangedByStatus

Investigate ==
    /\ MoveTo("investigating", {"open", "engaging", "finalizing", "closed"})
    /\ IF Open THEN UNCHANGED <<reopened, late>>
       ELSE reopened < MaxReopened /\ reopened' = reopened + 1 /\ late' = {}
Engage ==
    MoveTo("engaging", {"investigating"}) /\ UNCHANGED <<reopened, late>>
Finalize ==
    /\ Finalizable
    /\ MoveTo("finalizing", {"open", "investigating", "engaging"}) /\ UNCHANGED <<reopened, late>>
Close ==
    /\ Closable
    /\ MoveTo("closed", {"finalizing"}) /\ UNCHANGED <<reopened, late>>

-----------------------------------------------------------------------------

TaskStep(t) ==
    \/ \E scope \in SUBSET Event, needs \in SUBSET Task : CreateTask(t, scope, needs)
    \/ ActivateTask(t) \/ BlockTask(t)
    \/ \E events \in SUBSET Event : AddEvidence(t, events)
    \/ SubmitTask(t) \/ AcceptTask(t) \/ ReturnTask(t)
    \/ BeginDelegation(t) \/ CommitDelegation(t) \/ SpecialistEnds(t)
    \/ \E k \in Kind, covers \in SUBSET Event : ProposeAnalysis(t, k, covers)

\* What the analysts, the specialists and the users do.
CaseStep ==
    \/ \E e \in Event : LinkEvent(e)
    \/ \E t \in Task : TaskStep(t)
    \/ \E k \in Kind, covers \in SUBSET Event : RecordAnalysis(k, covers)
    \/ \E snapshot \in SUBSET DOMAIN analyses : DraftReport(snapshot)
    \/ Investigate \/ Engage \/ Finalize \/ Close

CaseNext == CaseStep \/ FinalReport \/ \E r \in Report : Publication(r)

CaseSpec == CaseInit /\ [][CaseNext]_<<outboxVars, caseVars>>

-----------------------------------------------------------------------------
(* Properties.                                                             *)

\* A closed case stands as it was closed: its tasks are done with evidence for each event
\* of theirs, no specialist works on them but one whose delegation was under way when its
\* task was submitted, and the current report is final, published and speaks for every
\* current analysis and every event, but for events that came after the closure.
ClosedCaseStands ==
    status = "closed" =>
        /\ \A t \in Tasks : In(t, {"completed"}) /\ Covered(t)
        /\ working \subseteq overtaken
        /\ reports # <<>> /\ CurrentReport.final
        /\ knowledge[Len(reports)] = "published"
        /\ CurrentReport.snapshot = Current
        /\ linked \ late \subseteq CoveredBy(CurrentReport.snapshot)
=============================================================================
