------------------------ MODULE KnowledgePublication ------------------------
(***************************************************************************)
(* Knowledge documents: the loop that publishes final reports              *)
(* (service/threat/knowledge.py), the loop that has LightRAG process what  *)
(* is queued (service/knowledge/runtime.py), and the uploads, the          *)
(* generated documents and the source files between them (service/         *)
(* knowledge/resources.py).  Every process runs both loops, each under its *)
(* runtime lease (RuntimeLease).  A loop that has lost its lease goes on   *)
(* until run_while_owned cancels it, beside the loop that has the lease    *)
(* now.  A file is written, and removed, in one step, which has ended when *)
(* its caller is cancelled.  LightRAG's document store and pipeline are    *)
(* external: it keeps one status per file name and processes what is       *)
(* queued or has failed.  To the incidents the loops are a ReportOutbox.   *)
(***************************************************************************)
EXTENDS Naturals, ReportOutbox

CONSTANTS
    Node,          \* the processes
    Nobody,
    Upload,        \* file names that users upload
    Server,        \* the process that serves the uploads of a name
    MaxFaults      \* a bound for TLC: crashes, lost leases, errors, deletions

ASSUME NobodyAssumption == Nobody \notin Node /\ Nobody \notin Report
ASSUME DocumentAssumption == Report \cap Upload = {}
ASSUME ServerAssumption == Server \in [Upload -> Node]
ASSUME FaultsAssumption == MaxFaults \in Nat

Document == Report \cup Upload

VARIABLES
    doc,        \* per document: its status in LightRAG
    source,     \* per document: its source file, which a broken write leaves torn
    leader,     \* the process that has the lease of the publication loop
    publisher,  \* per process: where its publication loop is
    pending,    \* _pending_track_ids of each process
    keeper,     \* the process that has the lease of the processing loop
    processor,  \* per process: where its processing loop is
    recover,    \* _recover_on_next_run of each process
    uploading,  \* the uploads whose file is written and not yet queued
    deleting,   \* the documents a user deleted whose file is still to be removed
    faults,
    deleted     \* history: the processed documents that users or deposed loops deleted

publicationVars == <<event, knowledge, leader, publisher>>
processingVars == <<keeper, processor, recover>>
userVars == <<uploading, deleting>>

vars == <<publicationVars, doc, source, pending, processingVars, userVars, faults, deleted>>

Resting == [at |-> "idle", report |-> Nobody]
AtRest == [at |-> "idle", recovers |-> FALSE, kept |-> {}, tracks |-> {}]

PublishingStep == {"check", "reset", "unlink", "write", "enqueue", "drop", "undo", "wait",
                   "commit", "fail"}

TypeOK ==
    /\ OutboxTypeOK
    /\ doc \in [Document -> {"absent", "pending", "processed", "failed"}]
    /\ source \in [Document -> {"none", "torn", "whole"}]
    /\ leader \in Node \cup {Nobody} /\ keeper \in Node \cup {Nobody}
    /\ publisher \in [Node -> [at : {"idle"} \cup PublishingStep, report : Report \cup {Nobody}]]
    /\ pending \in [Node -> SUBSET Document]
    /\ processor \in [Node -> [at : {"idle", "listed", "process"}, recovers : BOOLEAN,
                               kept : SUBSET Document, tracks : SUBSET Document]]
    /\ recover \in [Node -> BOOLEAN]
    /\ uploading \subseteq Upload
    /\ deleting \subseteq Document /\ deleted \subseteq Document
    /\ faults \in 0..MaxFaults

Init ==
    /\ OutboxInit
    /\ doc = [d \in Document |-> "absent"]
    /\ source = [d \in Document |-> "none"]
    /\ leader = Nobody /\ keeper = Nobody
    /\ publisher = [n \in Node |-> Resting]
    /\ pending = [n \in Node |-> {}]
    /\ processor = [n \in Node |-> AtRest]
    /\ recover = [n \in Node |-> TRUE]
    /\ uploading = {} /\ deleting = {} /\ deleted = {} /\ faults = 0

Fault == faults < MaxFaults /\ faults' = faults + 1

WithoutFiles(docs) == [d \in Document |-> IF d \in docs THEN "none" ELSE source[d]]

\* remove_knowledge_source_documents, _remove_source_document: a file that cannot be removed
\* is left, and the caller goes on.
RemoveFiles(docs) ==
    \/ source' = WithoutFiles(docs) /\ UNCHANGED faults
    \/ /\ Fault
       /\ \E left \in (SUBSET docs) \ {{}} : source' = WithoutFiles(docs \ left)

\* _source_is_disposable; a document that failed as a duplicate of another is left out.
Disposable(d) == doc[d] = "processed"

-----------------------------------------------------------------------------
(* The publication loop.                                                   *)

OutboxAndLease == <<event, knowledge, leader>>
OtherVars == <<processingVars, userVars>>

\* A final report is created.
CreateReport(r) ==
    /\ Queue(r)
    /\ UNCHANGED <<leader, publisher, doc, source, pending, OtherVars, faults, deleted>>

\* runtime_lease: the loop enters it again only when it has left it.
TakeLease(n) ==
    /\ leader = Nobody /\ publisher[n] = Resting
    /\ leader' = n
    /\ UNCHANGED <<outboxVars, publisher, doc, source, pending, OtherVars, faults, deleted>>

\* Mutant: an event that is published is due again.
DueAgain(r) == event[r] # "none"

\* _claim_next: an event that is due; how long a claim or a failure puts it off is a choice.
Due(r) == event[r] = "ready"

Claim(n, r) ==
    /\ leader = n /\ publisher[n] = Resting /\ Due(r)
    /\ publisher' = [publisher EXCEPT ![n] = [at |-> "check", report |-> r]]
    /\ UNCHANGED <<OutboxAndLease, doc, source, pending, OtherVars, faults, deleted>>

Goto(n, step) == publisher' = [publisher EXCEPT ![n].at = step]

\* Mutant: a document that failed counts as present.
PresentAtAll == {"processed", "pending", "failed"}

\* The statuses of a document that is not queued again.
Present == {"processed", "pending"}

\* enqueue_generated_knowledge_markdown up to the file: a document that is processed or
\* queued already is not queued again; one that failed is deleted first.
CheckDocument(n) ==
    LET r == publisher[n].report IN
    /\ publisher[n].at = "check"
    /\ \/ /\ doc[r] \in Present
          /\ Goto(n, "wait")
          /\ pending' = IF doc[r] = "pending" THEN [pending EXCEPT ![n] = @ \cup {r}] ELSE pending
       \/ doc[r] = "absent" /\ Goto(n, "write") /\ UNCHANGED pending
       \/ doc[r] \notin Present \cup {"absent"} /\ Goto(n, "reset") /\ UNCHANGED pending
    /\ UNCHANGED <<OutboxAndLease, doc, source, OtherVars, faults, deleted>>

Busy == \E n \in Node : processor[n].at = "process"

\* adelete_by_doc_id deletes by identifier, whatever has become of the document; LightRAG
\* refuses while it processes documents.
Reset(n) ==
    LET r == publisher[n].report IN
    /\ publisher[n].at = "reset"
    /\ \/ /\ doc[r] # "absent" /\ ~Busy
          /\ doc' = [doc EXCEPT ![r] = "absent"]
          /\ deleted' = IF doc[r] = "processed" /\ leader # n THEN deleted \cup {r} ELSE deleted
          /\ Goto(n, "unlink")
       \/ /\ doc[r] = "absent" \/ Busy
          /\ Goto(n, "fail")
          /\ UNCHANGED <<doc, deleted>>
    /\ UNCHANGED <<OutboxAndLease, source, pending, OtherVars, faults>>

\* The file: of the document that was reset, of one that LightRAG had already (for which it
\* returned no track), and of one whose queueing was broken off.
AfterRemoval == [unlink |-> "write", drop |-> "wait", undo |-> "fail"]

RemoveSource(n) ==
    /\ publisher[n].at \in DOMAIN AfterRemoval
    /\ RemoveFiles({publisher[n].report})
    /\ Goto(n, AfterRemoval[publisher[n].at])
    /\ UNCHANGED <<OutboxAndLease, doc, pending, OtherVars, deleted>>

\* A file that is there must have the same content.
WriteSource(n) ==
    LET r == publisher[n].report IN
    /\ publisher[n].at = "write"
    /\ source' = IF source[r] = "none" THEN [source EXCEPT ![r] = "whole"] ELSE source
    /\ Goto(n, IF source[r] = "torn" THEN "fail" ELSE "enqueue")
    /\ UNCHANGED <<OutboxAndLease, doc, pending, OtherVars, faults, deleted>>

\* apipeline_enqueue_documents, which leaves a document that is there alone, and
\* request_knowledge_document_processing.
Enqueue(n) ==
    LET r == publisher[n].report IN
    /\ publisher[n].at = "enqueue"
    /\ \/ /\ doc[r] = "absent"
          /\ doc' = [doc EXCEPT ![r] = "pending"]
          /\ pending' = [pending EXCEPT ![n] = @ \cup {r}]
          /\ Goto(n, "wait")
       \/ doc[r] # "absent" /\ Goto(n, "drop") /\ UNCHANGED <<doc, pending>>
    /\ UNCHANGED <<OutboxAndLease, source, OtherVars, faults, deleted>>

\* Mutant: a document that is still queued counts as indexed.
IndexedUnlessFailed(r) == doc[r] # "failed"

\* wait_for_generated_knowledge_markdown: it ends with the document, or after ten minutes,
\* which may pass at any time.
Indexed(r) == doc[r] = "processed"

Wait(n) ==
    LET r == publisher[n].report IN
    /\ publisher[n].at = "wait"
    /\ Goto(n, IF Indexed(r) THEN "commit" ELSE "fail")
    /\ UNCHANGED <<OutboxAndLease, doc, source, pending, OtherVars, faults, deleted>>

\* The last transaction of _publish.
CommitPublication(n) ==
    LET r == publisher[n].report IN
    /\ publisher[n].at = "commit" /\ leader = n
    /\ event' = [event EXCEPT ![r] = "published"]
    /\ knowledge' = [knowledge EXCEPT ![r] = "published"]
    /\ publisher' = [publisher EXCEPT ![n] = Resting]
    /\ UNCHANGED <<leader, doc, source, pending, OtherVars, faults, deleted>>

\* _record_failure: the event comes round again.
RecordFailure(n) ==
    LET r == publisher[n].report IN
    /\ publisher[n].at = "fail" /\ leader = n
    /\ knowledge' = [knowledge EXCEPT ![r] = "failed"]
    /\ publisher' = [publisher EXCEPT ![n] = Resting]
    /\ UNCHANGED <<event, leader, doc, source, pending, OtherVars, faults, deleted>>

\* A call that is broken off may have taken effect.
MayHaveQueued(n) ==
    LET r == publisher[n].report IN
    IF publisher[n].at = "enqueue" /\ doc[r] = "absent"
    THEN doc' \in {doc, [doc EXCEPT ![r] = "pending"]}
    ELSE UNCHANGED doc

\* A write that is broken off may leave a part of the file.
MayHaveTorn(n) ==
    LET r == publisher[n].report IN
    IF publisher[n].at = "write" /\ source[r] = "none"
    THEN source' \in {source, [source EXCEPT ![r] = "torn"]}
    ELSE UNCHANGED source

\* An error of LightRAG or of the file system.
PublicationFails(n) ==
    /\ publisher[n].at \in {"check", "reset", "write", "enqueue"} /\ Fault
    /\ MayHaveQueued(n) /\ MayHaveTorn(n)
    /\ Goto(n, IF publisher[n].at = "enqueue" THEN "undo" ELSE "fail")
    /\ UNCHANGED <<OutboxAndLease, pending, OtherVars, deleted>>

\* The lease expires under the loop that has it.
LoseLease(n) ==
    /\ leader = n /\ Fault
    /\ leader' = Nobody
    /\ UNCHANGED <<outboxVars, publisher, doc, source, pending, OtherVars, deleted>>

\* run_while_owned cancels the operation of a loop that has lost the lease, whose last
\* transaction is refused; when it was queueing the document it removes the file yet.
CancelPublication(n) ==
    /\ leader # n /\ publisher[n].at \in PublishingStep \ {"undo"}
    /\ MayHaveQueued(n)
    /\ publisher' = [publisher EXCEPT ![n] =
           IF publisher[n].at = "enqueue" THEN [@ EXCEPT !.at = "undo"] ELSE Resting]
    /\ UNCHANGED <<OutboxAndLease, source, pending, OtherVars, faults, deleted>>

-----------------------------------------------------------------------------
(* The processing loop.                                                    *)

\* _recoverable_documents: the names whose files are kept.
Retained == {d \in Document : doc[d] \in {"pending", "failed"}}

\* The loop was woken and takes the lease and its tracks, and after a start what LightRAG
\* has not processed.
StartProcessing(n) ==
    /\ processor[n] = AtRest /\ (pending[n] # {} \/ recover[n])
    /\ keeper = Nobody
    /\ keeper' = n
    /\ processor' = [processor EXCEPT ![n] =
           [at |-> IF recover[n] THEN "listed" ELSE "process",
            recovers |-> recover[n],
            kept |-> IF recover[n] THEN Retained ELSE {},
            tracks |-> pending[n]]]
    /\ pending' = [pending EXCEPT ![n] = {}]
    /\ UNCHANGED <<publicationVars, doc, source, recover, userVars, faults, deleted>>

\* The iteration of the loop ends, and with it its hold of the lease.
Leave(n) ==
    /\ processor' = [processor EXCEPT ![n] = AtRest]
    /\ keeper' = IF keeper = n THEN Nobody ELSE keeper

\* remove_stale_knowledge_source_documents: every file that is there by now and whose name
\* was not on the list.
SweepSources(n) ==
    LET p == processor[n] IN
    /\ p.at = "listed"
    /\ RemoveFiles({d \in Document : source[d] # "none" /\ d \notin p.kept})
    /\ recover' = [recover EXCEPT ![n] = FALSE]
    /\ IF p.kept \cup p.tracks = {}
       THEN Leave(n)
       ELSE /\ processor' = [processor EXCEPT ![n].at = "process", ![n].kept = {},
                                              ![n].tracks = @ \cup p.kept]
            /\ UNCHANGED keeper
    /\ UNCHANGED <<publicationVars, doc, pending, userVars, deleted>>

\* LightRAG takes up a document that is queued or has failed; without its file it fails.
ProcessDocument(n, d) ==
    /\ processor[n].at = "process"
    /\ \/ /\ doc[d] \in {"pending", "failed"} /\ source[d] # "none"
          /\ doc' = [doc EXCEPT ![d] = "processed"]
          /\ deleted' = deleted \ {d}
          /\ UNCHANGED faults
       \/ /\ doc[d] = "pending"
          /\ IF source[d] = "none" THEN UNCHANGED faults ELSE Fault
          /\ doc' = [doc EXCEPT ![d] = "failed"]
          /\ UNCHANGED deleted
    /\ UNCHANGED <<publicationVars, source, pending, processingVars, userVars>>

\* _wait_for_document_tracks: every tracked document has ended, and the files of those
\* that are processed are removed.
EndProcessing(n) ==
    LET p == processor[n] IN
    /\ p.at = "process"
    /\ \A d \in p.tracks : doc[d] # "pending"
    /\ RemoveFiles({d \in p.tracks : Disposable(d)})
    /\ Leave(n)
    /\ UNCHANGED <<publicationVars, doc, pending, recover, userVars, deleted>>

\* The lease expires under the loop that has it.
LoseKeeping(n) ==
    /\ keeper = n /\ Fault
    /\ keeper' = Nobody
    /\ UNCHANGED <<publicationVars, doc, source, pending, processor, recover, userVars, deleted>>

\* The tracks are kept for the next run, which lists and sweeps again if this one did.
KeepForNextRun(n) ==
    LET p == processor[n] IN
    /\ p.at # "idle"
    /\ pending' = [pending EXCEPT ![n] = @ \cup p.tracks]
    /\ recover' = [recover EXCEPT ![n] = @ \/ p.recovers]
    /\ Leave(n)
    /\ UNCHANGED <<publicationVars, doc, source, userVars, deleted>>

\* run_while_owned cancels a loop that has lost the lease; an error ends the iteration too.
CancelProcessing(n) == keeper # n /\ KeepForNextRun(n) /\ UNCHANGED faults

ProcessingFails(n) == keeper = n /\ Fault /\ KeepForNextRun(n)

-----------------------------------------------------------------------------
(* Users, and a process that stops.                                        *)

LoopVars == <<publicationVars, processingVars>>

\* upload_knowledge_documents, one request at a time for a name: the name is free and the
\* file is written; a broken write leaves a part of it, which nobody removes.
WriteUpload(u) ==
    /\ u \in Upload \ uploading /\ doc[u] = "absent" /\ source[u] = "none"
    /\ \/ /\ uploading' = uploading \cup {u}
          /\ source' = [source EXCEPT ![u] = "whole"]
          /\ UNCHANGED faults
       \/ /\ Fault
          /\ source' = [source EXCEPT ![u] = "torn"]
          /\ UNCHANGED uploading
    /\ UNCHANGED <<LoopVars, doc, pending, deleting, deleted>>

\* Then it is queued, or that fails, maybe too late, and the file is removed.
EnqueueUpload(u) ==
    /\ u \in uploading
    /\ uploading' = uploading \ {u}
    /\ \/ /\ doc' = [doc EXCEPT ![u] = "pending"]
          /\ pending' = [pending EXCEPT ![Server[u]] = @ \cup {u}]
          /\ UNCHANGED <<source, faults>>
       \/ /\ Fault
          /\ doc' \in {doc, [doc EXCEPT ![u] = "pending"]}
          /\ source' = WithoutFiles({u})
          /\ UNCHANGED pending
    /\ UNCHANGED <<LoopVars, deleting, deleted>>

\* delete_knowledge_document, by a user: the document first, its file afterwards, whatever
\* has been queued under its name meanwhile.
DeleteDocument(d) ==
    /\ doc[d] # "absent" /\ ~Busy /\ Fault
    /\ doc' = [doc EXCEPT ![d] = "absent"]
    /\ deleting' = deleting \cup {d}
    /\ deleted' = IF doc[d] = "processed" THEN deleted \cup {d} ELSE deleted
    /\ UNCHANGED <<LoopVars, source, pending, uploading>>

RemoveDeleted(d) ==
    /\ d \in deleting
    /\ deleting' = deleting \ {d}
    /\ RemoveFiles({d})
    /\ UNCHANGED <<LoopVars, doc, pending, uploading, deleted>>

\* A process stops and starts again, and the requests it was serving end; its leases
\* expire meanwhile.
Restart(n) ==
    /\ Fault
    /\ leader' = IF leader = n THEN Nobody ELSE leader
    /\ publisher' = [publisher EXCEPT ![n] = Resting]
    /\ pending' = [pending EXCEPT ![n] = {}]
    /\ Leave(n)
    /\ recover' = [recover EXCEPT ![n] = TRUE]
    /\ MayHaveTorn(n)
    /\ uploading' = {u \in uploading : Server[u] # n}
    /\ deleting' \in SUBSET deleting
    /\ UNCHANGED <<event, knowledge, doc, deleted>>

-----------------------------------------------------------------------------

Publishes(n) ==
    \/ TakeLease(n) \/ (\E r \in Report : Claim(n, r))
    \/ CheckDocument(n) \/ Reset(n) \/ RemoveSource(n) \/ WriteSource(n) \/ Enqueue(n)
    \/ Wait(n) \/ CommitPublication(n) \/ RecordFailure(n) \/ CancelPublication(n)

Processes(n) ==
    \/ StartProcessing(n) \/ SweepSources(n)
    \/ (\E d \in Document : ProcessDocument(n, d)) \/ EndProcessing(n) \/ CancelProcessing(n)

\* What the processes and the users do with reports that were created, and with uploads.
KnowledgeStep ==
    \/ \E n \in Node : \/ Publishes(n) \/ PublicationFails(n) \/ LoseLease(n)
                       \/ Processes(n) \/ ProcessingFails(n) \/ LoseKeeping(n) \/ Restart(n)
    \/ \E u \in Upload : WriteUpload(u) \/ EnqueueUpload(u)
    \/ \E d \in Document : DeleteDocument(d) \/ RemoveDeleted(d)

Next == KnowledgeStep \/ \E r \in Report : CreateReport(r)

Spec == Init /\ [][Next]_vars

\* Both loops go on; errors, losses of a lease and restarts come to an end.
FairSpec == Spec /\ \A n \in Node : WF_vars(Publishes(n)) /\ WF_vars(Processes(n))

-----------------------------------------------------------------------------
(* Properties.                                                             *)

\* A report that is marked as published is indexed, whatever failed, was queued twice or
\* changed hands on the way, unless the document was deleted after it was processed: by a
\* user, or by a loop that had lost its lease and was about to reset a failed document.
PublishedIsIndexed ==
    \A r \in Report : knowledge[r] = "published" => doc[r] = "processed" \/ r \in deleted

\* A final report that was created is published in the end, whatever lost its lease, failed
\* or was deleted under it, except that a broken write may leave a part of its source file:
\* every attempt fails then until a run that recovers sweeps the file.
ReportsArePublished ==
    \A r \in Report :
        (event[r] = "ready") ~> (knowledge[r] = "published" \/ [](source[r] = "torn"))
=============================================================================
