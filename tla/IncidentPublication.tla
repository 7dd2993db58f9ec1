------------------------- MODULE IncidentPublication -------------------------
(***************************************************************************)
(* An incident together with the loops that publish its final reports:     *)
(* Investigation and KnowledgePublication run side by side and share the   *)
(* outbox.  A final report is queued in the transaction that creates it    *)
(* (create_intelligence_report), and the closure of the incident reads the *)
(* knowledge_status that the publication loop has written; everything else *)
(* either of them does is its own.  Here the closure meets what the        *)
(* knowledge base really holds, which Investigation alone knows only by    *)
(* the promise of ReportOutbox.  The reports are those of one incident.    *)
(***************************************************************************)
EXTENDS Investigation, KnowledgePublication

knowledgeVars == <<leader, publisher, doc, source, pending, processingVars, userVars, faults,
                   deleted>>
systemVars == <<outboxVars, caseVars, knowledgeVars>>

SystemInit == CaseInit /\ Init

\* The one transaction that is a step of both.
CreateFinalReport == FinalReport /\ CreateReport(Len(reports) + 1)

SystemNext ==
    \/ CaseStep /\ UNCHANGED knowledgeVars
    \/ CreateFinalReport
    \/ KnowledgeStep /\ UNCHANGED caseVars

SystemSpec == SystemInit /\ [][SystemNext]_systemVars

-----------------------------------------------------------------------------
(* Properties.                                                             *)

\* Whoever finds a case closed finds its report in the knowledge base: the current report
\* is final and indexed, unless it was deleted there after it was processed, by a user or by
\* a loop that had lost its lease, whatever the loops went through before they marked it as
\* published and whatever other processes do since.
ClosedCaseIsIndexed ==
    status = "closed" =>
        /\ reports # <<>> /\ CurrentReport.final
        /\ doc[Len(reports)] = "processed" \/ Len(reports) \in deleted

\* The knowledge base never holds a report that its incident does not have or has only as
\* a draft, whichever reports follow it and whoever resumes its publication.
IndexedReportIsFinal ==
    \A r \in Report : doc[r] # "absent" => r \in DOMAIN reports /\ reports[r].final
=============================================================================
