----------------------------- MODULE ReportOutbox -----------------------------
(***************************************************************************)
(* What the publication of final reports promises the incidents            *)
(* (create_intelligence_report in service/threat/intelligence.py writes    *)
(* the outbox row, service/threat/knowledge.py settles it): a report that  *)
(* is queued is published or its publication fails, a publication that     *)
(* failed is tried again, and what is published stays so.                  *)
(***************************************************************************)

CONSTANT Report

VARIABLES
    event,      \* per report: its row in the outbox
    knowledge   \* per report: its knowledge_status

outboxVars == <<event, knowledge>>

OutboxTypeOK ==
    /\ event \in [Report -> {"none", "ready", "published"}]
    /\ knowledge \in [Report -> {"not_queued", "queued", "failed", "published"}]

OutboxInit ==
    /\ event = [r \in Report |-> "none"]
    /\ knowledge = [r \in Report |-> "not_queued"]

\* The end of create_intelligence_report for a final report, in that transaction.
Queue(r) ==
    /\ event[r] = "none"
    /\ event' = [event EXCEPT ![r] = "ready"]
    /\ knowledge' = [knowledge EXCEPT ![r] = "queued"]

\* The last transaction of _publish, and _record_failure.
Publish(r) ==
    /\ event[r] = "ready"
    /\ event' = [event EXCEPT ![r] = "published"]
    /\ knowledge' = [knowledge EXCEPT ![r] = "published"]

FailToPublish(r) ==
    /\ event[r] = "ready"
    /\ knowledge' = [knowledge EXCEPT ![r] = "failed"]
    /\ UNCHANGED event

OutboxNext == \E r \in Report : Queue(r) \/ Publish(r) \/ FailToPublish(r)

OutboxSpec == OutboxInit /\ [][OutboxNext]_outboxVars
===============================================================================
