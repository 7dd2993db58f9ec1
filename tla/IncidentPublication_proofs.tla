--------------------- MODULE IncidentPublication_proofs ---------------------
(***************************************************************************)
(* Proofs about an incident, about the publication of its reports, and     *)
(* about the two together, for any events, tasks, kinds of analysis,       *)
(* reports, uploads and processes and any number of faults.                *)
(*                                                                         *)
(* The incident (Investigation): a closed case stands as it was closed.  A *)
(* closure is checked once, in its own transaction; three things go on     *)
(* after it without the incident's lock.  That they disturb nothing rests  *)
(* on what held before: a publication that is settled is not queued any    *)
(* more (CaseSettled), and a specialist that works on a task, or is about  *)
(* to, does so since the task was active or the task was submitted over a  *)
(* delegation under way (SpecialistsAccounted).                            *)
(*                                                                         *)
(* The publication (KnowledgePublication): a report that is marked as      *)
(* published is indexed, and the loops implement ReportOutbox, with any    *)
(* number of loops that have lost the lease and go on for a while.         *)
(*                                                                         *)
(* The two together (IncidentPublication): each step of the composition is *)
(* a step of each part or leaves it alone (SystemSteps), so both           *)
(* invariants hold of it, and what the parts promise each other is kept.   *)
(***************************************************************************)
EXTENDS IncidentPublication, SequenceTheorems, TLAPS

-----------------------------------------------------------------------------
(* The incident: the inductive invariant.                                  *)

CaseSettled ==
    /\ \A r \in Report : knowledge[r] = "published" => event[r] = "published"
    /\ reports # <<>> => Len(reports) \in Report

SpecialistsAccounted ==
    \A t \in delegating \cup working : In(t, {"active", "blocked"}) \/ t \in overtaken

CaseInv == CaseTypeOK /\ CaseSettled /\ SpecialistsAccounted /\ ClosedCaseStands

-----------------------------------------------------------------------------
(* The incident: type correctness.                                         *)

TaskRow == [status : {"none", "queued", "active", "blocked", "review", "completed"},
            scope : SUBSET Event, needs : SUBSET Task, covered : SUBSET Event]
Analysis == [kind : Kind, task : SUBSET Task, covers : SUBSET Event,
             review : {"pending", "accepted", "changes"}, current : BOOLEAN]
ReportRow == [final : BOOLEAN, snapshot : SUBSET Nat, material : SUBSET Event]

\* A function on the places of a sequence is a sequence.
LEMMA SamePlaces ==
    ASSUME NEW S, NEW s \in Seq(S), NEW R, NEW f \in [DOMAIN s -> R]
    PROVE  f \in Seq(R)
<1>1. DOMAIN s = 1..Len(s) /\ Len(s) \in Nat
  BY LenProperties
<1> QED
  BY <1>1, SeqDef

\* The analyses are rows of their type.
LEMMA AnalysisRows ==
    ASSUME CaseTypeOK
    PROVE  analyses \in Seq(Analysis) /\ \A a \in DOMAIN analyses : analyses[a] \in Analysis
<1>1. analyses \in Seq(Analysis)
  BY DEF CaseTypeOK, Analysis
<1> QED
  BY <1>1, ElementOfSeq, LenProperties

\* A task keeps its type whatever its status becomes.
LEMMA TaskRows ==
    ASSUME CaseTypeOK, NEW t \in Task,
           NEW new \in {"queued", "active", "blocked", "review", "completed"}
    PROVE  task[t] \in TaskRow /\ [task[t] EXCEPT !.status = new] \in TaskRow
<1>1. task[t] \in TaskRow
  BY DEF CaseTypeOK, TaskRow
<1> QED
  BY <1>1 DEF TaskRow

\* The rows of an incident keep their types.
LEMMA InitCaseTypeOK == CaseInit => CaseTypeOK
BY ReportAssumption, AnalysesAssumption
DEF CaseInit, CaseTypeOK, OutboxInit, OutboxTypeOK, NoTask

\* One step of the tasks: reviews rewrite the proposals of a task, submissions do not.
LEMMA TaskStepCaseTypeOK == ASSUME CaseTypeOK, NEW t \in Task, TaskStep(t) PROVE CaseTypeOK'
<1>0. analyses \in Seq(Analysis)
  BY AnalysisRows
<1> USE DEF CaseTypeOK, OutboxTypeOK, outboxVars, UnchangedByTasks, UnchangedBySpecialists,
            UnchangedByAnalyses
<1>1. ASSUME NEW scope \in SUBSET Event, NEW needs \in SUBSET Task, CreateTask(t, scope, needs)
      PROVE  CaseTypeOK'
  BY <1>1 DEF CreateTask
<1>2. CASE ActivateTask(t) \/ BlockTask(t)
  <2>1. task' \in [Task -> TaskRow]
    BY <1>2, TaskRows, SMTT(15), ZenonT(25) DEF ActivateTask, BlockTask
  <2> QED
    BY <1>2, <2>1 DEF ActivateTask, BlockTask, TaskRow
<1>3. ASSUME NEW events \in SUBSET Event, AddEvidence(t, events) PROVE CaseTypeOK'
  BY <1>3 DEF AddEvidence
<1>4. CASE SubmitTask(t)
  BY <1>4 DEF SubmitTask
<1>5. CASE AcceptTask(t)
  <2>1. task' \in [Task -> TaskRow]
    <3>1. \A d \in Task : \A new \in {"active", "completed"} :
              [task[d] EXCEPT !.status = new] \in TaskRow /\ task[d] \in TaskRow
      BY TaskRows
    <3> QED
      BY <1>5, <3>1 DEF AcceptTask, WithDependents
  <2>2. Promoted(t) \in [DOMAIN analyses -> Analysis]
    <3>1. \A a \in DOMAIN analyses : analyses[a] \in Analysis
      BY AnalysisRows
    <3> QED
      BY <3>1 DEF Promoted, Analysis
  <2> QED
    BY <1>0, <1>5, <2>1, <2>2, SamePlaces DEF AcceptTask, TaskRow, Analysis
<1>6. CASE ReturnTask(t)
  <2>1. analyses' \in [DOMAIN analyses -> Analysis]
    <3>1. \A a \in DOMAIN analyses : analyses[a] \in Analysis
      BY AnalysisRows
    <3> QED
      BY <1>6, <3>1 DEF ReturnTask, Analysis
  <2>2. task' \in [Task -> TaskRow]
    BY <1>6, TaskRows DEF ReturnTask
  <2>3. analyses' \in Seq(Analysis)
    BY ONLY <1>0, <2>1, SamePlaces
  <2> QED
    BY <1>6, <2>2, <2>3 DEF ReturnTask, TaskRow, Analysis
<1>7. CASE BeginDelegation(t) \/ CommitDelegation(t) \/ SpecialistEnds(t)
  BY <1>7 DEF BeginDelegation, CommitDelegation, SpecialistEnds
<1>8. ASSUME NEW k \in Kind, NEW covers \in SUBSET Event, ProposeAnalysis(t, k, covers)
      PROVE  CaseTypeOK'
  BY <1>8 DEF ProposeAnalysis
<1> QED
  BY <1>1, <1>2, <1>3, <1>4, <1>5, <1>6, <1>7, <1>8 DEF TaskStep

\* ... and any step.
LEMMA NextCaseTypeOK == ASSUME CaseTypeOK, [CaseNext]_<<outboxVars, caseVars>> PROVE CaseTypeOK'
<1> USE DEF CaseTypeOK, OutboxTypeOK, outboxVars, caseVars, UnchangedByAnalyses, UnchangedByStatus
<1>1. ASSUME NEW e \in Event, LinkEvent(e) PROVE CaseTypeOK'
  BY <1>1 DEF LinkEvent
<1>2. ASSUME NEW k \in Kind, NEW covers \in SUBSET Event, RecordAnalysis(k, covers) PROVE CaseTypeOK'
  <2> DEFINE old == [a \in DOMAIN analyses |->
                        [analyses[a] EXCEPT !.current = @ /\ analyses[a].kind # k]]
             new == [kind |-> k, task |-> {}, covers |-> covers, review |-> "accepted",
                     current |-> TRUE]
  <2>1. old \in Seq(Analysis)
    <3>1. \A a \in DOMAIN analyses : analyses[a] \in Analysis
      BY AnalysisRows
    <3>2. old \in [DOMAIN analyses -> Analysis]
      BY <3>1 DEF Analysis
    <3> QED
      BY <3>2, AnalysisRows, SamePlaces
  <2>2. new \in Analysis
    BY DEF Analysis
  <2>3. analyses' = Append(old, new)
    BY <1>2 DEF RecordAnalysis
  <2>4. analyses' \in Seq(Analysis)
    BY <2>1, <2>2, <2>3, AppendProperties
  <2> QED
    BY <1>2, <2>4 DEF RecordAnalysis, Analysis
<1>3. ASSUME NEW snapshot \in SUBSET DOMAIN analyses, DraftReport(snapshot) \/ FinalReport
      PROVE  CaseTypeOK'
  <2>1. Current \subseteq Nat /\ snapshot \subseteq Nat
    BY DEF Current
  <2>2. \A final \in BOOLEAN, chosen \in SUBSET Nat :
            Append(reports, [final |-> final, snapshot |-> chosen, material |-> linked])
                \in Seq(ReportRow)
    BY DEF ReportRow
  <2>3. reports' \in Seq(ReportRow)
    BY <1>3, <2>1, <2>2 DEF DraftReport, FinalReport
  <2> QED
    BY <1>3, <2>3 DEF DraftReport, FinalReport, Queue, ReportRow
<1>4. ASSUME NEW r \in Report, Publication(r) PROVE CaseTypeOK'
  BY <1>4 DEF Publication, Publish, FailToPublish
<1>5. CASE Investigate
  BY <1>5, AnalysesAssumption DEF Investigate, MoveTo
<1>6. CASE Engage \/ Finalize \/ Close
  BY <1>6 DEF Engage, Finalize, Close, MoveTo
<1>7. CASE UNCHANGED <<outboxVars, caseVars>>
  BY <1>7
<1> QED
  BY <1>1, <1>2, <1>3, <1>4, <1>5, <1>6, <1>7, TaskStepCaseTypeOK DEF CaseNext, CaseStep

-----------------------------------------------------------------------------
(* The incident: what a closure rests on.                                  *)

\* A publication that is settled stays settled.
LEMMA NextCaseSettled ==
    ASSUME CaseTypeOK, CaseSettled, [CaseNext]_<<outboxVars, caseVars>>
    PROVE  CaseSettled'
<1> USE DEF CaseSettled, outboxVars
<1>1. ASSUME NEW t \in Task, TaskStep(t) PROVE CaseSettled'
  BY <1>1 DEF TaskStep, CreateTask, ActivateTask, BlockTask, AddEvidence, SubmitTask, AcceptTask,
              ReturnTask, BeginDelegation, CommitDelegation, SpecialistEnds, ProposeAnalysis,
              UnchangedByTasks, UnchangedBySpecialists
<1>2. ASSUME NEW snapshot, FinalReport \/ DraftReport(snapshot) PROVE CaseSettled'
  BY <1>2 DEF FinalReport, DraftReport, Queue, CaseTypeOK, OutboxTypeOK
<1>3. ASSUME NEW r \in Report, Publication(r) PROVE CaseSettled'
  BY <1>3 DEF Publication, Publish, FailToPublish, CaseTypeOK, OutboxTypeOK, caseVars
<1>4. ASSUME NEW e \in Event, LinkEvent(e) PROVE CaseSettled'
  BY <1>4 DEF LinkEvent
<1>5. ASSUME NEW k \in Kind, NEW covers \in SUBSET Event, RecordAnalysis(k, covers) PROVE CaseSettled'
  BY <1>5 DEF RecordAnalysis
<1>6. CASE Investigate \/ Engage \/ Finalize \/ Close
  BY <1>6 DEF Investigate, Engage, Finalize, Close, MoveTo, UnchangedByStatus
<1>7. CASE UNCHANGED <<outboxVars, caseVars>>
  BY <1>7 DEF caseVars
<1> QED
  BY <1>1, <1>2, <1>3, <1>4, <1>5, <1>6, <1>7 DEF CaseNext, CaseStep

\* A task leaves ACTIVE and BLOCKED only by its submission, which waits for specialists at
\* work and takes note of those that are being delegated.
LEMMA NextSpecialistsAccounted ==
    ASSUME CaseTypeOK, SpecialistsAccounted, [CaseNext]_<<outboxVars, caseVars>> PROVE SpecialistsAccounted'
<1> USE DEF SpecialistsAccounted, In
<1>0. delegating \cup working \subseteq Task
  BY DEF CaseTypeOK
<1>1. ASSUME NEW t \in Task, TaskStep(t) PROVE SpecialistsAccounted'
  <2>1. ASSUME NEW scope \in SUBSET Event, NEW needs \in SUBSET Task, CreateTask(t, scope, needs)
        PROVE  SpecialistsAccounted'
    BY <1>0, <2>1 DEF CreateTask, UnchangedByTasks, Tasks, CaseTypeOK
  <2>2. CASE ActivateTask(t)
    BY <1>0, <2>2 DEF ActivateTask, UnchangedByTasks, CaseTypeOK
  <2>3. CASE BlockTask(t)
    BY <1>0, <2>3 DEF BlockTask, UnchangedByTasks, CaseTypeOK
  <2>4. ASSUME NEW events \in SUBSET Event, AddEvidence(t, events) PROVE SpecialistsAccounted'
    BY <1>0, <2>4 DEF AddEvidence, UnchangedByTasks, CaseTypeOK
  <2>5. CASE SubmitTask(t)
    BY <1>0, <2>5 DEF SubmitTask, UnchangedByTasks, CaseTypeOK
  <2>6. CASE AcceptTask(t)
    <3>1. \A d \in Task : task[d].status \in {"active", "blocked"} =>
              task'[d].status = task[d].status
      BY <2>6 DEF AcceptTask, WithDependents
    <3> QED
      BY <1>0, <2>6, <3>1 DEF AcceptTask, UnchangedByTasks
  <2>7. CASE ReturnTask(t)
    BY <1>0, <2>7 DEF ReturnTask, UnchangedByTasks, CaseTypeOK
  <2>8. CASE BeginDelegation(t) \/ CommitDelegation(t) \/ SpecialistEnds(t)
    BY <1>0, <2>8 DEF BeginDelegation, CommitDelegation, SpecialistEnds, UnchangedBySpecialists
  <2>9. ASSUME NEW k \in Kind, NEW covers \in SUBSET Event, ProposeAnalysis(t, k, covers)
        PROVE  SpecialistsAccounted'
    BY <2>9 DEF ProposeAnalysis, UnchangedByAnalyses
  <2> QED
    BY <1>1, <2>1, <2>2, <2>3, <2>4, <2>5, <2>6, <2>7, <2>8, <2>9 DEF TaskStep
<1>2. ASSUME NEW snapshot, FinalReport \/ DraftReport(snapshot) PROVE SpecialistsAccounted'
  BY <1>2 DEF FinalReport, DraftReport, UnchangedByAnalyses
<1>3. ASSUME NEW r \in Report, Publication(r) PROVE SpecialistsAccounted'
  BY <1>3 DEF Publication, caseVars
<1>4. ASSUME NEW e \in Event, LinkEvent(e) PROVE SpecialistsAccounted'
  BY <1>4 DEF LinkEvent
<1>5. ASSUME NEW k \in Kind, NEW covers \in SUBSET Event, RecordAnalysis(k, covers)
      PROVE  SpecialistsAccounted'
  BY <1>5 DEF RecordAnalysis, UnchangedByAnalyses
<1>6. CASE Investigate \/ Engage \/ Finalize \/ Close
  BY <1>6 DEF Investigate, Engage, Finalize, Close, MoveTo, UnchangedByStatus
<1>7. CASE UNCHANGED <<outboxVars, caseVars>>
  BY <1>7 DEF caseVars
<1> QED
  BY <1>1, <1>2, <1>3, <1>4, <1>5, <1>6, <1>7 DEF CaseNext, CaseStep

-----------------------------------------------------------------------------
(* The incident: the closed case.                                          *)

\* What a closed case is made of stays: only a late event, a delegation under way, the end
\* of a specialist's Run and a publication still happen to it.
LEMMA NextClosedCaseStands ==
    ASSUME CaseTypeOK, CaseSettled, SpecialistsAccounted, ClosedCaseStands, [CaseNext]_<<outboxVars, caseVars>>
    PROVE  ClosedCaseStands'
<1> USE DEF ClosedCaseStands, Open
<1> DEFINE Kept == UNCHANGED <<task, analyses, reports>>
<1>1. ASSUME Kept PROVE (\A t \in Task : Covered(t)' = Covered(t)) /\ Tasks' = Tasks
                        /\ CurrentReport' = CurrentReport /\ Current' = Current
                        /\ (\A t \in Task : \A set : In(t, set)' = In(t, set))
                        /\ (\A snapshot : CoveredBy(snapshot)' = CoveredBy(snapshot))
  BY <1>1 DEF Covered, Tasks, CurrentReport, Current, In, CoveredBy
<1>2. ASSUME NEW e \in Event, LinkEvent(e) PROVE ClosedCaseStands'
  <2>1. status' = "closed" => status = "closed" /\ linked' \ late' \subseteq linked \ late
    BY <1>2 DEF LinkEvent
  <2> QED
    BY <1>1, <1>2, <2>1 DEF LinkEvent, outboxVars, Tasks
<1>3. ASSUME NEW t \in Task, CommitDelegation(t) PROVE ClosedCaseStands'
  <2>1. status = "closed" => t \in overtaken
    <3>1. status = "closed" => (t \in Tasks => In(t, {"completed"}))
      OBVIOUS
    <3> QED
      BY <1>3, <3>1 DEF CommitDelegation, SpecialistsAccounted, In, Tasks
  <2> QED
    BY <1>1, <1>3, <2>1 DEF CommitDelegation, UnchangedBySpecialists, outboxVars, Tasks
<1>4. ASSUME NEW t \in Task, SpecialistEnds(t) PROVE ClosedCaseStands'
  BY <1>1, <1>4 DEF SpecialistEnds, UnchangedBySpecialists, outboxVars, Tasks
<1>5. ASSUME NEW r \in Report, Publication(r) PROVE ClosedCaseStands'
  <2>1. reports # <<>> /\ knowledge[Len(reports)] = "published" =>
            knowledge'[Len(reports)] = "published"
    BY <1>5 DEF Publication, Publish, FailToPublish, CaseSettled, CaseTypeOK, OutboxTypeOK
  <2> QED
    BY <1>1, <1>5, <2>1 DEF Publication, caseVars, Tasks
<1>6. CASE Close
  <2>1. /\ \A t \in Tasks : In(t, {"completed"}) /\ Covered(t)
        /\ working = {} /\ ReportStands
    BY <1>6 DEF Close, Closable, Finalizable
  <2> QED
    BY <1>1, <1>6, <2>1 DEF Close, MoveTo, UnchangedByStatus, ReportStands, outboxVars, Tasks
<1>7. ASSUME status' # "closed" PROVE ClosedCaseStands'
  BY <1>7
<1>8. CASE Investigate \/ Engage \/ Finalize
  BY <1>7, <1>8 DEF Investigate, Engage, Finalize, MoveTo
<1>9. ASSUME NEW t \in Task, TaskStep(t), ~CommitDelegation(t), ~SpecialistEnds(t)
      PROVE  ClosedCaseStands'
  BY <1>7, <1>9 DEF TaskStep, CreateTask, ActivateTask, BlockTask, AddEvidence, SubmitTask,
                    AcceptTask, ReturnTask, BeginDelegation, ProposeAnalysis, UnchangedByTasks,
                    UnchangedBySpecialists, UnchangedByAnalyses
<1>10. ASSUME NEW k \in Kind, NEW covers \in SUBSET Event, RecordAnalysis(k, covers)
       PROVE  ClosedCaseStands'
  BY <1>7, <1>10 DEF RecordAnalysis, UnchangedByAnalyses
<1>11. ASSUME NEW snapshot, FinalReport \/ DraftReport(snapshot) PROVE ClosedCaseStands'
  BY <1>7, <1>11 DEF FinalReport, DraftReport, UnchangedByAnalyses
<1>12. CASE UNCHANGED <<outboxVars, caseVars>>
  BY <1>1, <1>12 DEF caseVars, outboxVars, Tasks
<1> QED
  BY <1>2, <1>3, <1>4, <1>5, <1>6, <1>8, <1>9, <1>10, <1>11, <1>12 DEF CaseNext, CaseStep

-----------------------------------------------------------------------------
(* The incident: the theorems.                                             *)

\* The invariant of an incident holds at the start ...
LEMMA InitCaseInv == CaseInit => CaseInv
<1>1. CaseInit => CaseSettled /\ SpecialistsAccounted /\ ClosedCaseStands
  BY DEF CaseInit, OutboxInit, CaseSettled, SpecialistsAccounted, ClosedCaseStands
<1> QED
  BY <1>1, InitCaseTypeOK DEF CaseInv

\* ... and every step of the incident keeps it.
LEMMA NextCaseInv == CaseInv /\ [CaseNext]_<<outboxVars, caseVars>> => CaseInv'
BY NextCaseTypeOK, NextCaseSettled, NextSpecialistsAccounted, NextClosedCaseStands DEF CaseInv

\* The incident's rows, types, settled publications and specialists, and the closed case.
THEOREM CaseInvariance == CaseSpec => []CaseInv
BY InitCaseInv, NextCaseInv, PTL DEF CaseSpec

\* The rows of an incident keep their types.
THEOREM CaseTypeCorrect == CaseSpec => []CaseTypeOK
<1>1. CaseInv => CaseTypeOK
  BY DEF CaseInv
<1> QED
  BY <1>1, CaseInvariance, PTL

\* A closed case stands as it was closed, for any number of tasks, reports and reopenings.
THEOREM ClosedCaseStandsAlways == CaseSpec => []ClosedCaseStands
<1>1. CaseInv => ClosedCaseStands
  BY DEF CaseInv
<1> QED
  BY <1>1, CaseInvariance, PTL
-----------------------------------------------------------------------------
(* The publication: the inductive invariant.                               *)

ReportOf(n) == publisher[n].report

\* A loop at work is at work on a report that was queued; the one with the lease on one that
\* is not published yet, whatever the loops are doing that had the lease before it.
Owned ==
    \A n \in Node : publisher[n].at # "idle" =>
        /\ ReportOf(n) \in Report
        /\ event[ReportOf(n)] # "none"
        /\ leader = n => event[ReportOf(n)] = "ready"

Settled == \A r \in Report : knowledge[r] = "published" => event[r] = "published"

IndexedOrDeleted(r) == doc[r] = "processed" \/ r \in deleted

\* Between the end of the wait and the commit the document of the loop with the lease may be
\* deleted, and nothing else.
CommitIsIndexed ==
    \A n \in Node : leader = n /\ publisher[n].at = "commit" => IndexedOrDeleted(ReportOf(n))

KnowledgeInv == TypeOK /\ Owned /\ Settled /\ CommitIsIndexed /\ PublishedIsIndexed

-----------------------------------------------------------------------------
(* The publication: what its steps leave alone.                            *)

\* Goto moves one loop and keeps its report.
LEMMA GotoMoves ==
    ASSUME TypeOK, NEW n \in Node, NEW step \in PublishingStep, Goto(n, step)
    PROVE  /\ publisher' \in [Node -> [at : {"idle"} \cup PublishingStep,
                                      report : Report \cup {Nobody}]]
           /\ publisher'[n].at = step /\ publisher'[n].report = publisher[n].report
           /\ \A m \in Node \ {n} : publisher'[m] = publisher[m]
BY DEF Goto, TypeOK

\* What a loop does about a document and its file before it waits changes no document.
LEMMA PublisherGoesOn ==
    ASSUME NEW n \in Node, CheckDocument(n) \/ RemoveSource(n) \/ WriteSource(n)
    PROVE  /\ UNCHANGED <<event, knowledge, leader, doc, deleted, processingVars, userVars>>
           /\ publisher[n].at # "idle"
           /\ \E step \in PublishingStep \ {"commit"} : Goto(n, step)
<1>1. CASE CheckDocument(n)
  BY <1>1 DEF CheckDocument, OutboxAndLease, OtherVars, PublishingStep
<1>2. CASE RemoveSource(n)
  BY <1>2 DEF RemoveSource, AfterRemoval, OutboxAndLease, OtherVars, PublishingStep
<1>3. CASE WriteSource(n)
  BY <1>3 DEF WriteSource, OutboxAndLease, OtherVars, PublishingStep
<1> QED
  BY <1>1, <1>2, <1>3

\* A call that is broken off queues the document of its loop, or nothing.
LEMMA QueuedOrNot ==
    ASSUME NEW n \in Node, MayHaveQueued(n)
    PROVE  \/ doc' = doc
           \/ /\ doc' = [doc EXCEPT ![ReportOf(n)] = "pending"]
              /\ doc[ReportOf(n)] = "absent" /\ publisher[n].at = "enqueue"
BY DEF MayHaveQueued, ReportOf

\* A write that is broken off tears the file of its loop, or none.
LEMMA TornOrNot ==
    ASSUME NEW n \in Node, MayHaveTorn(n)
    PROVE  source' = source \/ source' = [source EXCEPT ![ReportOf(n)] = "torn"]
BY DEF MayHaveTorn, ReportOf

\* The steps of the processing loops and of users that change no document.
LEMMA ProcessingKeeps ==
    ASSUME \/ \E n \in Node : \/ StartProcessing(n) \/ SweepSources(n) \/ EndProcessing(n)
                              \/ CancelProcessing(n) \/ ProcessingFails(n) \/ LoseKeeping(n)
           \/ \E u \in Upload : WriteUpload(u)
           \/ \E d \in Document : RemoveDeleted(d)
    PROVE  UNCHANGED <<event, knowledge, leader, publisher, doc, deleted>>
<1>1. ASSUME NEW n \in Node, StartProcessing(n) \/ SweepSources(n) \/ EndProcessing(n)
      PROVE  UNCHANGED <<event, knowledge, leader, publisher, doc, deleted>>
  BY <1>1 DEF StartProcessing, SweepSources, EndProcessing, publicationVars
<1>2. ASSUME NEW n \in Node, CancelProcessing(n) \/ ProcessingFails(n) \/ LoseKeeping(n)
      PROVE  UNCHANGED <<event, knowledge, leader, publisher, doc, deleted>>
  BY <1>2 DEF CancelProcessing, ProcessingFails, KeepForNextRun, LoseKeeping, publicationVars
<1>3. ASSUME NEW u \in Upload, WriteUpload(u)
      PROVE  UNCHANGED <<event, knowledge, leader, publisher, doc, deleted>>
  BY <1>3 DEF WriteUpload, LoopVars, publicationVars
<1>4. ASSUME NEW d \in Document, RemoveDeleted(d)
      PROVE  UNCHANGED <<event, knowledge, leader, publisher, doc, deleted>>
  BY <1>4 DEF RemoveDeleted, LoopVars, publicationVars
<1> QED
  BY <1>1, <1>2, <1>3, <1>4

-----------------------------------------------------------------------------
(* The publication: type correctness.                                      *)

DocType == [Document -> {"absent", "pending", "processed", "failed"}]
SourceType == [Document -> {"none", "torn", "whole"}]
ProcessorRow == [at : {"idle", "listed", "process"}, recovers : BOOLEAN,
                 kept : SUBSET Document, tracks : SUBSET Document]

\* At the start the types hold.
LEMMA InitTypeOK == Init => TypeOK
BY NobodyAssumption, FaultsAssumption
DEF Init, TypeOK, OutboxInit, OutboxTypeOK, Resting, AtRest, Document

\* Files that are removed, and files that cannot be.
LEMMA RemoveFilesType ==
    ASSUME TypeOK, NEW docs, RemoveFiles(docs)
    PROVE  source' \in SourceType /\ faults' \in 0..MaxFaults
<1>1. \A some : WithoutFiles(some) \in SourceType
  BY DEF WithoutFiles, TypeOK, SourceType
<1>2. faults' \in 0..MaxFaults
  BY FaultsAssumption DEF RemoveFiles, Fault, TypeOK
<1>3. source' \in SourceType
  BY <1>1 DEF RemoveFiles
<1> QED
  BY <1>2, <1>3

\* One more fault is within the bound.
LEMMA FaultType == ASSUME TypeOK, Fault PROVE faults' \in 0..MaxFaults
BY FaultsAssumption DEF TypeOK, Fault

\* A loop that leaves is at rest and has no lease.
LEMMA LeaveType ==
    ASSUME TypeOK, NEW n \in Node, Leave(n)
    PROVE  processor' \in [Node -> ProcessorRow] /\ keeper' \in Node \cup {Nobody}
BY DEF Leave, TypeOK, AtRest, ProcessorRow

\* The steps of a publication loop keep the types.
LEMMA PublishesTypeOK == ASSUME TypeOK, Owned, NEW n \in Node, Publishes(n) PROVE TypeOK'
<1>0. /\ Report \subseteq Document
      /\ publisher[n].at # "idle" => ReportOf(n) \in Document
  BY DEF Document, Owned
<1>1. CASE TakeLease(n)
  BY <1>1 DEF TakeLease, outboxVars, TypeOK, OutboxTypeOK, OtherVars, processingVars, userVars
<1>2. ASSUME NEW r \in Report, Claim(n, r) PROVE TypeOK'
  BY <1>2 DEF Claim, TypeOK, OutboxTypeOK, PublishingStep, OutboxAndLease, OtherVars,
              processingVars, userVars
<1>3. CASE CheckDocument(n)
  <2>1. pending' \in [Node -> SUBSET Document]
    BY <1>0, <1>3 DEF CheckDocument, ReportOf, TypeOK
  <2> QED
    BY <1>3, <2>1, PublisherGoesOn, GotoMoves
    DEF CheckDocument, TypeOK, OutboxTypeOK, processingVars, userVars
<1>4. CASE Reset(n)
  <2>1. doc' \in DocType /\ deleted' \subseteq Document
    BY <1>0, <1>4 DEF Reset, ReportOf, TypeOK, DocType
  <2>2. \E step \in PublishingStep : Goto(n, step)
    BY <1>4 DEF Reset, PublishingStep
  <2> QED
    BY <1>4, <2>1, <2>2, GotoMoves
    DEF Reset, TypeOK, OutboxTypeOK, OutboxAndLease, OtherVars, processingVars, userVars, DocType
<1>5. CASE RemoveSource(n)
  <2>1. source' \in SourceType /\ faults' \in 0..MaxFaults
    BY <1>5, RemoveFilesType DEF RemoveSource
  <2>2. /\ UNCHANGED <<event, knowledge, leader, doc, deleted, processingVars, userVars>>
        /\ publisher' \in [Node -> [at : {"idle"} \cup PublishingStep, report : Report \cup {Nobody}]]
    BY <1>5, PublisherGoesOn, GotoMoves
  <2> QED
    BY <1>5, <2>1, <2>2
    DEF RemoveSource, TypeOK, OutboxTypeOK, processingVars, userVars, SourceType
<1>6. CASE WriteSource(n)
  <2>1. source' \in SourceType
    BY <1>0, <1>6 DEF WriteSource, ReportOf, TypeOK, SourceType
  <2>2. /\ UNCHANGED <<event, knowledge, leader, doc, deleted, processingVars, userVars>>
        /\ publisher' \in [Node -> [at : {"idle"} \cup PublishingStep, report : Report \cup {Nobody}]]
    BY <1>6, PublisherGoesOn, GotoMoves
  <2> QED
    BY <1>6, <2>1, <2>2
    DEF WriteSource, TypeOK, OutboxTypeOK, processingVars, userVars, SourceType
<1>7. CASE Enqueue(n)
  <2>1. doc' \in DocType /\ pending' \in [Node -> SUBSET Document]
    <3>1. ReportOf(n) \in Document
      BY <1>0, <1>7 DEF Enqueue
    <3>2. doc' = doc \/ doc' = [doc EXCEPT ![ReportOf(n)] = "pending"]
      BY <1>7 DEF Enqueue, ReportOf
    <3>3. pending' = pending \/ pending' = [pending EXCEPT ![n] = @ \cup {ReportOf(n)}]
      BY <1>7 DEF Enqueue, ReportOf
    <3>4. doc' \in DocType
      BY <3>1, <3>2 DEF TypeOK, DocType
    <3> QED
      BY <3>1, <3>3, <3>4 DEF TypeOK
  <2>2. \E step \in PublishingStep : Goto(n, step)
    BY <1>7 DEF Enqueue, PublishingStep
  <2> QED
    BY <1>7, <2>1, <2>2, GotoMoves
    DEF Enqueue, TypeOK, OutboxTypeOK, OutboxAndLease, OtherVars, processingVars, userVars, DocType
<1>8. CASE Wait(n)
  <2>1. \E step \in PublishingStep : Goto(n, step)
    BY <1>8 DEF Wait, PublishingStep
  <2> QED
    BY <1>8, <2>1, GotoMoves
    DEF Wait, TypeOK, OutboxTypeOK, OutboxAndLease, OtherVars, processingVars, userVars
<1>9. CASE CommitPublication(n)
  BY <1>9 DEF CommitPublication, Resting, TypeOK, OutboxTypeOK, OtherVars, processingVars, userVars
<1>10. CASE RecordFailure(n)
  BY <1>10 DEF RecordFailure, Resting, TypeOK, OutboxTypeOK, OtherVars, processingVars, userVars
<1>11. CASE CancelPublication(n)
  <2>1. doc' \in DocType
    BY <1>0, <1>11, QueuedOrNot DEF CancelPublication, TypeOK, DocType
  <2>2. publisher' \in [Node -> [at : {"idle"} \cup PublishingStep, report : Report \cup {Nobody}]]
    BY <1>11 DEF CancelPublication, Resting, TypeOK, PublishingStep
  <2> QED
    BY <1>11, <2>1, <2>2
    DEF CancelPublication, TypeOK, OutboxTypeOK, OutboxAndLease, OtherVars, processingVars,
        userVars, DocType
<1> QED
  BY <1>1, <1>2, <1>3, <1>4, <1>5, <1>6, <1>7, <1>8, <1>9, <1>10, <1>11 DEF Publishes

\* The steps of a processing loop keep the types.
LEMMA ProcessesTypeOK == ASSUME TypeOK, NEW n \in Node, Processes(n) PROVE TypeOK'
<1>1. CASE StartProcessing(n)
  <2>1. processor' \in [Node -> ProcessorRow]
    BY <1>1 DEF StartProcessing, Retained, TypeOK, ProcessorRow
  <2> QED
    BY <1>1, <2>1
    DEF StartProcessing, TypeOK, OutboxTypeOK, publicationVars, userVars, ProcessorRow
<1>2. CASE SweepSources(n)
  <2>1. source' \in SourceType /\ faults' \in 0..MaxFaults
    BY <1>2, RemoveFilesType DEF SweepSources
  <2>2. processor' \in [Node -> ProcessorRow] /\ keeper' \in Node \cup {Nobody}
    <3>1. CASE Leave(n)
      BY <3>1, LeaveType
    <3>2. CASE ~Leave(n)
      BY <1>2, <3>2 DEF SweepSources, TypeOK, ProcessorRow
    <3> QED
      BY <3>1, <3>2
  <2> QED
    BY <1>2, <2>1, <2>2
    DEF SweepSources, TypeOK, OutboxTypeOK, publicationVars, userVars, ProcessorRow, SourceType
<1>3. ASSUME NEW d \in Document, ProcessDocument(n, d) PROVE TypeOK'
  <2>1. doc' \in DocType /\ deleted' \subseteq Document
    BY <1>3 DEF ProcessDocument, TypeOK, DocType
  <2>2. faults' \in 0..MaxFaults
    BY <1>3, FaultType DEF ProcessDocument, TypeOK
  <2> QED
    BY <1>3, <2>1, <2>2
    DEF ProcessDocument, TypeOK, OutboxTypeOK, publicationVars, processingVars, userVars, DocType
<1>4. CASE EndProcessing(n)
  <2>1. source' \in SourceType /\ faults' \in 0..MaxFaults
    BY <1>4, RemoveFilesType DEF EndProcessing
  <2> QED
    BY <1>4, <2>1, LeaveType
    DEF EndProcessing, TypeOK, OutboxTypeOK, publicationVars, userVars, ProcessorRow, SourceType
<1>5. CASE CancelProcessing(n)
  <2>1. pending' \in [Node -> SUBSET Document] /\ recover' \in [Node -> BOOLEAN]
    BY <1>5 DEF CancelProcessing, KeepForNextRun, TypeOK
  <2> QED
    BY <1>5, <2>1, LeaveType
    DEF CancelProcessing, KeepForNextRun, TypeOK, OutboxTypeOK, publicationVars, userVars,
        ProcessorRow
<1> QED
  BY <1>1, <1>2, <1>3, <1>4, <1>5 DEF Processes

\* So do the steps of users.
LEMMA UsersTypeOK ==
    ASSUME TypeOK,
           \/ \E u \in Upload : WriteUpload(u) \/ EnqueueUpload(u)
           \/ \E d \in Document : DeleteDocument(d) \/ RemoveDeleted(d)
    PROVE  TypeOK'
<1>0. Upload \subseteq Document /\ \A docs : WithoutFiles(docs) \in SourceType
  BY DEF Document, WithoutFiles, TypeOK, SourceType
<1>1. ASSUME NEW u \in Upload, WriteUpload(u) PROVE TypeOK'
  <2>1. source' \in SourceType /\ uploading' \subseteq Upload
    BY <1>0, <1>1 DEF WriteUpload, TypeOK, SourceType
  <2>2. faults' \in 0..MaxFaults
    BY <1>1, FaultType DEF WriteUpload, TypeOK
  <2> QED
    BY <1>1, <2>1, <2>2
    DEF WriteUpload, TypeOK, OutboxTypeOK, LoopVars, publicationVars, processingVars, SourceType
<1>2. ASSUME NEW u \in Upload, EnqueueUpload(u) PROVE TypeOK'
  <2>1. doc' \in DocType
    BY <1>0, <1>2 DEF EnqueueUpload, TypeOK, DocType
  <2>2. source' \in SourceType
    BY <1>0, <1>2 DEF EnqueueUpload, TypeOK, SourceType
  <2>3. pending' \in [Node -> SUBSET Document]
    BY <1>0, <1>2 DEF EnqueueUpload, TypeOK
  <2>4. faults' \in 0..MaxFaults
    BY <1>2, FaultType DEF EnqueueUpload, TypeOK
  <2> QED
    BY <1>2, <2>1, <2>2, <2>3, <2>4
    DEF EnqueueUpload, TypeOK, OutboxTypeOK, LoopVars, publicationVars, processingVars,
        DocType, SourceType
<1>3. ASSUME NEW d \in Document, DeleteDocument(d) PROVE TypeOK'
  <2>1. doc' \in DocType /\ deleted' \subseteq Document /\ deleting' \subseteq Document
    BY <1>3 DEF DeleteDocument, TypeOK, DocType
  <2> QED
    BY <1>3, <2>1, FaultType
    DEF DeleteDocument, TypeOK, OutboxTypeOK, LoopVars, publicationVars, processingVars, DocType
<1>4. ASSUME NEW d \in Document, RemoveDeleted(d) PROVE TypeOK'
  <2>1. source' \in SourceType /\ faults' \in 0..MaxFaults
    BY <1>4, RemoveFilesType DEF RemoveDeleted
  <2> QED
    BY <1>4, <2>1
    DEF RemoveDeleted, TypeOK, OutboxTypeOK, LoopVars, publicationVars, processingVars, SourceType
<1> QED
  BY <1>1, <1>2, <1>3, <1>4

\* Every step keeps the types.
LEMMA NextTypeOK == ASSUME TypeOK, Owned, [Next]_vars PROVE TypeOK'
<1>0. /\ Report \subseteq Document
      /\ \A n \in Node : publisher[n].at # "idle" => ReportOf(n) \in Document
  BY DEF Document, Owned
<1>1. ASSUME NEW r \in Report, CreateReport(r) PROVE TypeOK'
  BY <1>1 DEF CreateReport, Queue, TypeOK, OutboxTypeOK, OtherVars, processingVars, userVars
<1>2. ASSUME NEW n \in Node, PublicationFails(n) PROVE TypeOK'
  <2>1. doc' \in DocType
    BY <1>0, <1>2, QueuedOrNot DEF PublicationFails, TypeOK, DocType
  <2>2. source' \in SourceType
    BY <1>0, <1>2, TornOrNot DEF PublicationFails, TypeOK, SourceType
  <2>3. \E step \in PublishingStep : Goto(n, step)
    BY <1>2 DEF PublicationFails, PublishingStep
  <2> QED
    BY <1>2, <2>1, <2>2, <2>3, GotoMoves, FaultType
    DEF PublicationFails, TypeOK, OutboxTypeOK, OutboxAndLease, OtherVars, processingVars,
        userVars, DocType, SourceType
<1>3. ASSUME NEW n \in Node, LoseLease(n) PROVE TypeOK'
  BY <1>3, FaultType
  DEF LoseLease, TypeOK, OutboxTypeOK, outboxVars, OtherVars, processingVars, userVars
<1>4. ASSUME NEW n \in Node, ProcessingFails(n) PROVE TypeOK'
  <2>1. pending' \in [Node -> SUBSET Document] /\ recover' \in [Node -> BOOLEAN]
    BY <1>4 DEF ProcessingFails, KeepForNextRun, TypeOK
  <2> QED
    BY <1>4, <2>1, LeaveType, FaultType
    DEF ProcessingFails, KeepForNextRun, TypeOK, OutboxTypeOK, publicationVars, userVars,
        ProcessorRow
<1>5. ASSUME NEW n \in Node, LoseKeeping(n) PROVE TypeOK'
  BY <1>5, FaultType DEF LoseKeeping, TypeOK, OutboxTypeOK, publicationVars, userVars
<1>6. ASSUME NEW n \in Node, Restart(n) PROVE TypeOK'
  <2>1. source' \in SourceType
    <3>1. publisher[n].at = "write" \/ source' = source
      BY <1>6 DEF Restart, MayHaveTorn
    <3> QED
      BY <1>0, <1>6, <3>1, TornOrNot DEF Restart, TypeOK, SourceType
  <2>2. publisher' \in [Node -> [at : {"idle"} \cup PublishingStep, report : Report \cup {Nobody}]]
    BY <1>6 DEF Restart, Resting, TypeOK
  <2>3. /\ pending' \in [Node -> SUBSET Document] /\ recover' \in [Node -> BOOLEAN]
        /\ uploading' \subseteq Upload /\ deleting' \subseteq Document
        /\ leader' \in Node \cup {Nobody}
    BY <1>6 DEF Restart, TypeOK
  <2> QED
    BY <1>6, <2>1, <2>2, <2>3, LeaveType, FaultType
    DEF Restart, TypeOK, OutboxTypeOK, ProcessorRow, SourceType
<1>7. CASE UNCHANGED vars
  BY <1>7 DEF vars, publicationVars, processingVars, userVars, TypeOK, OutboxTypeOK
<1> QED
  BY <1>1, <1>2, <1>3, <1>4, <1>5, <1>6, <1>7, PublishesTypeOK, ProcessesTypeOK, UsersTypeOK
  DEF Next, KnowledgeStep

-----------------------------------------------------------------------------
(* The publication: the outbox.                                            *)

\* Every step keeps the loops at reports that were queued, and is one of the outbox.
LEMMA NextOwned ==
    ASSUME TypeOK, Owned, Settled, [Next]_vars
    PROVE  Owned' /\ Settled' /\ [OutboxNext]_outboxVars
<1> DEFINE Goal == Owned' /\ Settled' /\ [OutboxNext]_outboxVars
<1> USE NobodyAssumption DEF Owned, Settled, ReportOf, OutboxNext, outboxVars
<1>1. ASSUME NEW r \in Report, CreateReport(r) PROVE Goal
  BY <1>1 DEF CreateReport, Queue, TypeOK, OutboxTypeOK
<1>2. ASSUME NEW n \in Node, Publishes(n) PROVE Goal
  <2>1. CASE TakeLease(n)
    BY <2>1 DEF TakeLease, Resting, TypeOK
  <2>2. ASSUME NEW r \in Report, Claim(n, r) PROVE Goal
    BY <2>2 DEF Claim, Due, TypeOK, OutboxAndLease
  <2>3. CASE CheckDocument(n) \/ RemoveSource(n) \/ WriteSource(n)
    BY <2>3, PublisherGoesOn, GotoMoves
  <2>4. CASE Reset(n)
    <3>1. /\ UNCHANGED <<event, knowledge, leader>> /\ publisher[n].at # "idle"
          /\ \E step \in PublishingStep : Goto(n, step)
      BY <2>4 DEF Reset, OutboxAndLease, PublishingStep
    <3> QED
      BY <3>1, GotoMoves
  <2>5. CASE Enqueue(n)
    BY <2>5 DEF Enqueue, Goto, TypeOK, OutboxAndLease
  <2>6. CASE Wait(n)
    BY <2>6 DEF Wait, Goto, TypeOK, OutboxAndLease
  <2>7. CASE CommitPublication(n)
    <3>1. Publish(ReportOf(n)) /\ ReportOf(n) \in Report
      BY <2>7 DEF CommitPublication, Publish
    <3>2. \A m \in Node \ {n} : leader' # m /\ publisher'[m] = publisher[m]
      BY <2>7 DEF CommitPublication, TypeOK
    <3>3. publisher'[n].at = "idle"
      BY <2>7 DEF CommitPublication, Resting, TypeOK
    <3> QED
      BY <2>7, <3>1, <3>2, <3>3 DEF CommitPublication, TypeOK, OutboxTypeOK
  <2>8. CASE RecordFailure(n)
    <3>1. FailToPublish(ReportOf(n)) /\ ReportOf(n) \in Report
      BY <2>8 DEF RecordFailure, FailToPublish
    <3> QED
      BY <2>8, <3>1 DEF RecordFailure, Resting, TypeOK, OutboxTypeOK
  <2>9. CASE CancelPublication(n)
    BY <2>9 DEF CancelPublication, Resting, TypeOK, OutboxAndLease
  <2> QED
    BY <1>2, <2>1, <2>2, <2>3, <2>4, <2>5, <2>6, <2>7, <2>8, <2>9 DEF Publishes
<1>3. ASSUME NEW n \in Node, PublicationFails(n) PROVE Goal
  BY <1>3 DEF PublicationFails, Goto, TypeOK, OutboxAndLease
<1>4. ASSUME NEW n \in Node, LoseLease(n) PROVE Goal
  BY <1>4 DEF LoseLease, TypeOK
<1>5. ASSUME NEW n \in Node, NEW d \in Document, ProcessDocument(n, d) PROVE Goal
  BY <1>5 DEF ProcessDocument, publicationVars
<1>6. CASE \/ \E n \in Node : \/ StartProcessing(n) \/ SweepSources(n) \/ EndProcessing(n)
                              \/ CancelProcessing(n) \/ ProcessingFails(n) \/ LoseKeeping(n)
           \/ \E u \in Upload : WriteUpload(u)
           \/ \E d \in Document : RemoveDeleted(d)
  BY <1>6, ProcessingKeeps
<1>7. ASSUME NEW n \in Node, Restart(n) PROVE Goal
  BY <1>7 DEF Restart, Resting, TypeOK
<1>8. ASSUME NEW u \in Upload, EnqueueUpload(u) PROVE Goal
  BY <1>8 DEF EnqueueUpload, LoopVars, publicationVars
<1>9. ASSUME NEW d \in Document, DeleteDocument(d) PROVE Goal
  BY <1>9 DEF DeleteDocument, LoopVars, publicationVars
<1>10. CASE UNCHANGED vars
  BY <1>10 DEF vars, publicationVars
<1> QED
  BY <1>1, <1>2, <1>3, <1>4, <1>5, <1>6, <1>7, <1>8, <1>9, <1>10
  DEF Next, KnowledgeStep, Processes

-----------------------------------------------------------------------------
(* The publication: what is published is indexed.                          *)

\* A published event stays that of an indexed document: a loop without the lease may delete
\* the document or have it queued, but it publishes nothing.
LEMMA NextIndexed ==
    ASSUME TypeOK, Owned, Settled, CommitIsIndexed, PublishedIsIndexed, [Next]_vars
    PROVE  CommitIsIndexed' /\ PublishedIsIndexed'
<1> DEFINE Goal == CommitIsIndexed' /\ PublishedIsIndexed'
<1> USE NobodyAssumption
        DEF Owned, Settled, CommitIsIndexed, PublishedIsIndexed, IndexedOrDeleted, ReportOf
<1>0. Report \subseteq Document /\ Upload \subseteq Document /\ DOMAIN doc = Document
  BY DEF Document, TypeOK
<1>1. ASSUME NEW r \in Report, CreateReport(r) PROVE Goal
  BY <1>1 DEF CreateReport, Queue, TypeOK, OutboxTypeOK
<1>2. ASSUME NEW n \in Node, Publishes(n) PROVE Goal
  <2>1. CASE TakeLease(n)
    BY <2>1 DEF TakeLease, Resting, outboxVars
  <2>2. ASSUME NEW r \in Report, Claim(n, r) PROVE Goal
    BY <2>2 DEF Claim, OutboxAndLease, TypeOK
  <2>3. CASE CheckDocument(n) \/ RemoveSource(n) \/ WriteSource(n)
    BY <2>3, PublisherGoesOn, GotoMoves
  <2>4. CASE Reset(n)
    <3>1. publisher[n].at # "commit" /\ publisher'[n].at # "commit"
      BY <2>4 DEF Reset, Goto, TypeOK
    <3>2. \A m \in Node \ {n} : publisher'[m] = publisher[m]
      BY <2>4 DEF Reset, Goto, TypeOK
    <3>3. \A r \in Report : IndexedOrDeleted(r) =>
              IndexedOrDeleted(r)' \/ (leader = n /\ r = ReportOf(n))
      BY <1>0, <2>4 DEF Reset
    <3>4. publisher[n].at = "reset"
      BY <2>4 DEF Reset
    <3>5. \A r \in Report : knowledge[r] = "published" => ~(leader = n /\ r = ReportOf(n))
      BY <3>4
    <3> QED
      BY <2>4, <3>1, <3>2, <3>3, <3>5 DEF Reset, OutboxAndLease
  <2>5. CASE Enqueue(n)
    <3>1. \A r \in Report : IndexedOrDeleted(r) => IndexedOrDeleted(r)'
      BY <1>0, <2>5 DEF Enqueue
    <3>2. publisher'[n].at # "commit" /\ \A m \in Node \ {n} : publisher'[m] = publisher[m]
      BY <2>5 DEF Enqueue, Goto, TypeOK
    <3> QED
      BY <2>5, <3>1, <3>2 DEF Enqueue, OutboxAndLease
  <2>6. CASE Wait(n)
    BY <2>6 DEF Wait, Indexed, Goto, OutboxAndLease, TypeOK
  <2>7. CASE CommitPublication(n)
    BY <2>7 DEF CommitPublication, Resting, TypeOK, OutboxTypeOK
  <2>8. CASE RecordFailure(n)
    BY <2>8 DEF RecordFailure, Resting, TypeOK, OutboxTypeOK
  <2>9. CASE CancelPublication(n)
    <3>1. \A r \in Report : IndexedOrDeleted(r) => IndexedOrDeleted(r)'
      BY <1>0, <2>9, QueuedOrNot DEF CancelPublication
    <3>2. publisher'[n].at # "commit" /\ \A m \in Node \ {n} : publisher'[m] = publisher[m]
      BY <2>9 DEF CancelPublication, Resting, TypeOK
    <3> QED
      BY <2>9, <3>1, <3>2 DEF CancelPublication, OutboxAndLease
  <2> QED
    BY <1>2, <2>1, <2>2, <2>3, <2>4, <2>5, <2>6, <2>7, <2>8, <2>9 DEF Publishes
<1>3. ASSUME NEW n \in Node, PublicationFails(n) PROVE Goal
  <2>1. \A r \in Report : IndexedOrDeleted(r) => IndexedOrDeleted(r)'
    BY <1>0, <1>3, QueuedOrNot DEF PublicationFails
  <2>2. publisher'[n].at # "commit" /\ \A m \in Node \ {n} : publisher'[m] = publisher[m]
    BY <1>3 DEF PublicationFails, Goto, TypeOK
  <2> QED
    BY <1>3, <2>1, <2>2 DEF PublicationFails, OutboxAndLease
<1>4. ASSUME NEW n \in Node, LoseLease(n) PROVE Goal
  BY <1>4 DEF LoseLease, outboxVars, TypeOK
<1>5. ASSUME NEW n \in Node, NEW d \in Document, ProcessDocument(n, d) PROVE Goal
  <2>1. \A r \in Report : IndexedOrDeleted(r) => IndexedOrDeleted(r)'
    BY <1>0, <1>5 DEF ProcessDocument
  <2> QED
    BY <1>5, <2>1 DEF ProcessDocument, publicationVars
<1>6. CASE \/ \E n \in Node : \/ StartProcessing(n) \/ SweepSources(n) \/ EndProcessing(n)
                              \/ CancelProcessing(n) \/ ProcessingFails(n) \/ LoseKeeping(n)
           \/ \E u \in Upload : WriteUpload(u)
           \/ \E d \in Document : RemoveDeleted(d)
  BY <1>6, ProcessingKeeps
<1>7. ASSUME NEW n \in Node, Restart(n) PROVE Goal
  BY <1>7 DEF Restart, Resting, TypeOK
<1>8. ASSUME NEW u \in Upload, EnqueueUpload(u) PROVE Goal
  BY <1>0, <1>8, DocumentAssumption DEF EnqueueUpload, LoopVars, publicationVars
<1>9. ASSUME NEW d \in Document, DeleteDocument(d) PROVE Goal
  <2>1. \A r \in Report : IndexedOrDeleted(r) => IndexedOrDeleted(r)'
    BY <1>0, <1>9 DEF DeleteDocument
  <2> QED
    BY <1>9, <2>1 DEF DeleteDocument, LoopVars, publicationVars
<1>10. CASE UNCHANGED vars
  BY <1>10 DEF vars, publicationVars
<1> QED
  BY <1>1, <1>2, <1>3, <1>4, <1>5, <1>6, <1>7, <1>8, <1>9, <1>10
  DEF Next, KnowledgeStep, Processes

-----------------------------------------------------------------------------
(* The publication: the theorems.                                          *)

\* The invariant holds at the start ...
LEMMA InitKnowledgeInv == Init => KnowledgeInv
<1> SUFFICES ASSUME Init PROVE KnowledgeInv
  OBVIOUS
<1>1. TypeOK
  BY InitTypeOK
<1> QED
  BY <1>1 DEF Init, OutboxInit, Resting, KnowledgeInv, Owned, Settled, CommitIsIndexed,
              PublishedIsIndexed

\* ... and every step keeps it.
LEMMA NextKnowledgeInv == KnowledgeInv /\ [Next]_vars => KnowledgeInv'
<1> SUFFICES ASSUME KnowledgeInv, [Next]_vars PROVE KnowledgeInv'
  OBVIOUS
<1> USE DEF KnowledgeInv
<1>1. TypeOK'
  BY NextTypeOK
<1>2. Owned' /\ Settled'
  BY NextOwned
<1>3. CommitIsIndexed' /\ PublishedIsIndexed'
  BY NextIndexed
<1> QED
  BY <1>1, <1>2, <1>3

\* In every state the loop with the lease, beside any number of loops that have lost it and
\* are not cancelled yet, works on a report that is not published, and commits one only
\* whose document it saw indexed.
THEOREM KnowledgeInvariance == Spec => []KnowledgeInv
BY InitKnowledgeInv, NextKnowledgeInv, PTL DEF Spec

\* The rows of the outbox and the loops' own state keep their types.
THEOREM KnowledgeTypeCorrect == Spec => []TypeOK
<1>1. KnowledgeInv => TypeOK
  BY DEF KnowledgeInv
<1> QED
  BY <1>1, KnowledgeInvariance, PTL

\* A report that is marked as published is indexed, unless its document was deleted after it
\* was processed, by a user or by a loop without the lease: whichever process took over the
\* publication, and whatever was queued twice on the way.
THEOREM PublishedIsIndexedAlways == Spec => []PublishedIsIndexed
<1>1. KnowledgeInv => PublishedIsIndexed
  BY DEF KnowledgeInv
<1> QED
  BY <1>1, KnowledgeInvariance, PTL

\* To the incidents both loops of all the processes are one outbox: a final report is queued
\* once, its publication may fail any number of times, and what is published stays so.
THEOREM ImplementsOutbox == Spec => OutboxSpec
<1>1. Init => OutboxInit
  BY DEF Init
<1>2. KnowledgeInv /\ [Next]_vars => [OutboxNext]_outboxVars
  BY NextOwned DEF KnowledgeInv
<1> QED
  BY <1>1, <1>2, KnowledgeInvariance, PTL DEF Spec, OutboxSpec
-----------------------------------------------------------------------------
(* The incident with its publication.                                      *)

\* A step of the incident alone leaves the outbox, and the reports it has, as they are.
LEMMA CaseStepKeeps ==
    ASSUME CaseTypeOK, CaseStep
    PROVE  /\ UNCHANGED outboxVars
           /\ DOMAIN reports \subseteq DOMAIN reports'
           /\ \A r \in DOMAIN reports : reports'[r] = reports[r]
<1>1. ASSUME NEW t \in Task, TaskStep(t) PROVE UNCHANGED <<outboxVars, reports>>
  BY <1>1 DEF TaskStep, CreateTask, ActivateTask, BlockTask, AddEvidence, SubmitTask, AcceptTask,
              ReturnTask, BeginDelegation, CommitDelegation, SpecialistEnds, ProposeAnalysis,
              UnchangedByTasks, UnchangedBySpecialists
<1>2. ASSUME NEW e \in Event, LinkEvent(e) PROVE UNCHANGED <<outboxVars, reports>>
  BY <1>2 DEF LinkEvent
<1>3. ASSUME NEW k \in Kind, NEW covers \in SUBSET Event, RecordAnalysis(k, covers)
      PROVE  UNCHANGED <<outboxVars, reports>>
  BY <1>3 DEF RecordAnalysis
<1>4. CASE Investigate \/ Engage \/ Finalize \/ Close
  BY <1>4 DEF Investigate, Engage, Finalize, Close, MoveTo, UnchangedByStatus
<1>5. ASSUME NEW snapshot \in SUBSET DOMAIN analyses, DraftReport(snapshot)
      PROVE  /\ UNCHANGED outboxVars
             /\ DOMAIN reports \subseteq DOMAIN reports'
             /\ \A r \in DOMAIN reports : reports'[r] = reports[r]
  <2>1. PICK row : reports' = Append(reports, row)
    BY <1>5 DEF DraftReport
  <2>2. reports \in Seq(ReportRow)
    BY DEF CaseTypeOK, ReportRow
  <2> QED
    BY <1>5, <2>1, <2>2 DEF DraftReport
<1> QED
  BY <1>1, <1>2, <1>3, <1>4, <1>5 DEF CaseStep

\* A step of the knowledge loops or of their users queues no report: the outbox changes as
\* ReportOutbox says, and a report's document is new only while its event is ready.
LEMMA KnowledgeStepKeeps ==
    ASSUME TypeOK, Owned, Settled, KnowledgeStep
    PROVE  /\ (\E r \in Report : Publish(r) \/ FailToPublish(r)) \/ UNCHANGED outboxVars
           /\ \A r \in Report : event[r] # "none" => event'[r] # "none"
           /\ \A r \in Report : doc'[r] # "absent" => doc[r] # "absent" \/ event[r] # "none"
<1>0. Report \subseteq Document /\ DOMAIN doc = Document
  BY DEF Document, TypeOK
<1>1. event' = event \/ \E r \in Report : event' = [event EXCEPT ![r] = "published"]
  <2>1. ASSUME NEW n \in Node, CommitPublication(n)
        PROVE  \E r \in Report : event' = [event EXCEPT ![r] = "published"]
    BY <2>1 DEF CommitPublication, Owned, ReportOf
  <2>2. ASSUME NEW n \in Node, Publishes(n), ~CommitPublication(n) PROVE event' = event
    BY <2>2, PublisherGoesOn
    DEF Publishes, TakeLease, Claim, Reset, Enqueue, Wait, RecordFailure, CancelPublication,
        OutboxAndLease, outboxVars
  <2>3. ASSUME NEW n \in Node,
               \/ PublicationFails(n) \/ LoseLease(n) \/ Restart(n)
               \/ \E d \in Document : ProcessDocument(n, d)
        PROVE  event' = event
    BY <2>3 DEF PublicationFails, LoseLease, Restart, ProcessDocument, OutboxAndLease, outboxVars,
                publicationVars
  <2>4. ASSUME \/ \E u \in Upload : EnqueueUpload(u)
               \/ \E d \in Document : DeleteDocument(d)
        PROVE  event' = event
    BY <2>4 DEF EnqueueUpload, DeleteDocument, LoopVars, publicationVars
  <2> QED
    BY <2>1, <2>2, <2>3, <2>4, ProcessingKeeps DEF KnowledgeStep, Processes
<1>2. (\E r \in Report : Publish(r) \/ FailToPublish(r)) \/ UNCHANGED outboxVars
  <2>1. [OutboxNext]_outboxVars
    BY NextOwned DEF Next
  <2>2. ASSUME NEW r \in Report, Queue(r) PROVE FALSE
    BY <1>1, <2>2, SMTT(15), ZenonT(25) DEF Queue, TypeOK, OutboxTypeOK
  <2> QED
    BY <2>1, <2>2 DEF OutboxNext
<1>3. \A r \in Report : event[r] # "none" => event'[r] # "none"
  BY <1>1 DEF TypeOK, OutboxTypeOK
<1>4. ASSUME NEW r \in Report, doc[r] = "absent", doc'[r] # "absent" PROVE event[r] # "none"
  <2>1. ASSUME NEW n \in Node, Enqueue(n) PROVE event[r] # "none"
    BY <1>0, <1>4, <2>1 DEF Enqueue, Owned, ReportOf
  <2>2. ASSUME NEW n \in Node, PublicationFails(n) \/ CancelPublication(n)
        PROVE  event[r] # "none"
    <3>1. MayHaveQueued(n)
      BY <2>2 DEF PublicationFails, CancelPublication
    <3> QED
      BY <1>0, <1>4, <3>1, QueuedOrNot DEF Owned
  <2>3. ASSUME NEW n \in Node, Reset(n) PROVE FALSE
    BY <1>0, <1>4, <2>3 DEF Reset
  <2>4. ASSUME NEW n \in Node, NEW d \in Document, ProcessDocument(n, d) PROVE FALSE
    BY <1>0, <1>4, <2>4 DEF ProcessDocument
  <2>5. ASSUME NEW u \in Upload, EnqueueUpload(u) PROVE FALSE
    BY <1>0, <1>4, <2>5, DocumentAssumption DEF EnqueueUpload
  <2>6. ASSUME NEW d \in Document, DeleteDocument(d) PROVE FALSE
    BY <1>0, <1>4, <2>6 DEF DeleteDocument
  <2>7. ASSUME NEW n \in Node,
               TakeLease(n) \/ (\E q \in Report : Claim(n, q)) \/ Wait(n)
               \/ CommitPublication(n) \/ RecordFailure(n) \/ LoseLease(n) \/ Restart(n)
        PROVE  FALSE
    BY <1>4, <2>7 DEF TakeLease, Claim, Wait, CommitPublication, RecordFailure, LoseLease, Restart
  <2> QED
    BY <1>4, <2>1, <2>2, <2>3, <2>4, <2>5, <2>6, <2>7, PublisherGoesOn, ProcessingKeeps
    DEF KnowledgeStep, Publishes, Processes
<1> QED
  BY <1>2, <1>3, <1>4

\* Every step of the two together is a step of each, or leaves its state as it is.
LEMMA SystemSteps ==
    ASSUME CaseTypeOK, TypeOK, Owned, Settled, [SystemNext]_systemVars
    PROVE  [CaseNext]_<<outboxVars, caseVars>> /\ [Next]_vars
<1>1. CASE CaseStep /\ UNCHANGED knowledgeVars
  BY <1>1, CaseStepKeeps DEF CaseNext, vars, publicationVars, knowledgeVars, outboxVars
<1>2. CASE CreateFinalReport
  BY <1>2 DEF CreateFinalReport, FinalReport, CaseNext, Next
<1>3. CASE KnowledgeStep /\ UNCHANGED caseVars
  BY <1>3, KnowledgeStepKeeps DEF CaseNext, Publication, Next
<1>4. CASE UNCHANGED systemVars
  BY <1>4 DEF systemVars, vars, publicationVars, knowledgeVars, outboxVars
<1> QED
  BY <1>1, <1>2, <1>3, <1>4 DEF SystemNext

\* Only final reports are queued, and only what was queued has a document.
QueuedIsFinal ==
    \A r \in Report : event[r] # "none" => r \in DOMAIN reports /\ reports[r].final

DocumentIsQueued == \A r \in Report : doc[r] # "absent" => event[r] # "none"

SystemInv == CaseInv /\ KnowledgeInv /\ QueuedIsFinal /\ DocumentIsQueued

\* Each step keeps the link between the reports, their events and their documents.
LEMMA NextQueuedIsFinal ==
    ASSUME SystemInv, [SystemNext]_systemVars
    PROVE  QueuedIsFinal' /\ DocumentIsQueued'
<1> USE DEF QueuedIsFinal, DocumentIsQueued
<1>0. /\ CaseTypeOK /\ TypeOK /\ Owned /\ Settled
      /\ QueuedIsFinal /\ DocumentIsQueued
      /\ event \in [Report -> {"none", "ready", "published"}]
  BY DEF SystemInv, CaseInv, KnowledgeInv, TypeOK, OutboxTypeOK
<1>1. CASE CaseStep /\ UNCHANGED knowledgeVars
  BY <1>0, <1>1, CaseStepKeeps DEF outboxVars, knowledgeVars
<1>2. CASE CreateFinalReport
  <2>1. PICK row : reports' = Append(reports, row) /\ row.final
    BY <1>2 DEF CreateFinalReport, FinalReport
  <2>2. reports \in Seq(ReportRow)
    BY <1>0 DEF CaseTypeOK, ReportRow
  <2>3. /\ \A r \in DOMAIN reports : r \in DOMAIN reports' /\ reports'[r] = reports[r]
        /\ Len(reports) + 1 \in DOMAIN reports' /\ reports'[Len(reports) + 1].final
    BY <2>1, <2>2
  <2>4. event' = [event EXCEPT ![Len(reports) + 1] = "ready"] /\ UNCHANGED doc
    BY <1>2 DEF CreateFinalReport, CreateReport, Queue
  <2> QED
    BY <1>0, <2>3, <2>4
<1>3. CASE KnowledgeStep /\ UNCHANGED caseVars
  <2>1. /\ \A r \in Report : event'[r] # "none" => event[r] # "none"
        /\ \A r \in Report : event[r] # "none" => event'[r] # "none"
        /\ \A r \in Report : doc'[r] # "absent" => doc[r] # "absent" \/ event[r] # "none"
    BY <1>0, <1>3, KnowledgeStepKeeps DEF Publish, FailToPublish, outboxVars
  <2> QED
    BY <1>0, <1>3, <2>1 DEF caseVars
<1>4. CASE UNCHANGED systemVars
  BY <1>0, <1>4 DEF systemVars, knowledgeVars, outboxVars, caseVars
<1> QED
  BY <1>1, <1>2, <1>3, <1>4 DEF SystemNext

\* The invariants of both hold of the two together, with that link.
THEOREM SystemInvariance == SystemSpec => []SystemInv
<1>1. SystemInit => SystemInv
  <2>1. CaseInit => CaseInv
    BY InitCaseInv
  <2>2. SystemInit => QueuedIsFinal /\ DocumentIsQueued
    BY DEF SystemInit, Init, OutboxInit, QueuedIsFinal, DocumentIsQueued, Document
  <2> QED
    BY <2>1, <2>2, InitKnowledgeInv DEF SystemInit, SystemInv
<1>2. SystemInv /\ [SystemNext]_systemVars => SystemInv'
  <2> SUFFICES ASSUME SystemInv, [SystemNext]_systemVars PROVE SystemInv'
    OBVIOUS
  <2>1. [CaseNext]_<<outboxVars, caseVars>> /\ [Next]_vars
    BY SystemSteps DEF SystemInv, CaseInv, KnowledgeInv
  <2>2. CaseInv'
    BY <2>1, NextCaseInv DEF SystemInv
  <2>3. KnowledgeInv'
    BY <2>1, NextKnowledgeInv DEF SystemInv
  <2> QED
    BY <2>2, <2>3, NextQueuedIsFinal DEF SystemInv
<1> QED
  BY <1>1, <1>2, PTL DEF SystemSpec

\* To the incident the knowledge loops of any number of processes are the publication that
\* Investigation assumes: with them it behaves as it does with the outbox alone.
THEOREM IncidentImplementsCase == SystemSpec => CaseSpec
<1>1. SystemInit => CaseInit
  BY DEF SystemInit
<1>2. SystemInv /\ [SystemNext]_systemVars => [CaseNext]_<<outboxVars, caseVars>>
  BY SystemSteps DEF SystemInv, CaseInv, KnowledgeInv
<1> QED
  BY <1>1, <1>2, SystemInvariance, PTL DEF SystemSpec, CaseSpec

\* What holds of the incident with the outbox alone holds beside the real loops: a closed
\* case stands as it was closed.
THEOREM ClosedCaseStandsTogether == SystemSpec => []ClosedCaseStands
BY IncidentImplementsCase, ClosedCaseStandsAlways, PTL

\* The current report of a closed case is final and in the knowledge base, unless it was
\* deleted there after it was processed, by a user or by a loop that had lost its lease, for
\* any number of processes, faults, reports, uploads and reopenings.
THEOREM ClosedCaseIsIndexedAlways == SystemSpec => []ClosedCaseIsIndexed
<1>1. SystemInv => ClosedCaseIsIndexed
  BY DEF SystemInv, CaseInv, KnowledgeInv, CaseSettled, ClosedCaseStands, PublishedIsIndexed,
         ClosedCaseIsIndexed
<1> QED
  BY <1>1, SystemInvariance, PTL

\* No draft and no report that its incident does not have gets into the knowledge base.
THEOREM IndexedReportIsFinalAlways == SystemSpec => []IndexedReportIsFinal
<1>1. SystemInv => IndexedReportIsFinal
  BY DEF SystemInv, QueuedIsFinal, DocumentIsQueued, IndexedReportIsFinal
<1> QED
  BY <1>1, SystemInvariance, PTL
=============================================================================
