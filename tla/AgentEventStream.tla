-------------------------- MODULE AgentEventStream --------------------------
(***************************************************************************)
(* The stream of a Session's durable events and live text: the events that *)
(* transactions append (service/agent/event_store.py), the segments that   *)
(* an Attempt checkpoints, the broadcasts of the supervisor, one           *)
(* subscription with its replay (supervisor.py), the WebSocket handler     *)
(* (handler/agent/sessions.py), and the store of the client                *)
(* (web/src/features/playground/agentStore.ts).                            *)
(*                                                                         *)
(* An event is committed in one step and broadcast in a later one, by the  *)
(* task of the Attempt or by a request handler, so broadcasts may come out *)
(* of order, and a canceled task may never make its own.  Text is          *)
(* abstracted to its length: a delta is a range of offsets, and what the   *)
(* client shows of a segment is a prefix of what was generated.  The       *)
(* subscriber's queue and its socket are one queue.  All of it is in one   *)
(* process, whose restart drops its subscriptions.                         *)
(***************************************************************************)
EXTENDS Naturals, Sequences, FiniteSets

CONSTANTS
    Segment,      \* text segments that Attempts may stream
    NoSegment,    \* an event that completes no segment
    QueueSize,    \* _SUBSCRIBER_QUEUE_SIZE
    ReplayLimit,  \* _REPLAY_EVENT_LIMIT
    PageSize,     \* HISTORY_PAGE_SIZE
    MaxEvents,    \* bound on the events of tasks and handlers
    MaxText,      \* bound on the length of a segment
    MaxDelta,     \* bound on the length of a delta
    MaxFaults     \* bound on cancellations, restarts and lost connections

ASSUME SegmentAssumption == NoSegment \notin Segment
ASSUME LimitAssumption ==
    /\ QueueSize \in Nat /\ QueueSize >= 2
    /\ ReplayLimit \in Nat /\ PageSize \in Nat \ {0}
ASSUME BoundsAssumption ==
    MaxEvents \in Nat /\ MaxText \in Nat /\ MaxDelta \in Nat /\ MaxFaults \in Nat

VARIABLES
    journal,     \* agent_events of the Session in order: the segment each completes
    row,         \* agent_segments: status and checkpointed length
    attempt,     \* the task of the running Attempt, with its _LiveSegments
    unpublished, \* per publisher: events committed and not yet broadcast
    published,   \* _durable_heads
    sub,         \* the AgentStreamSubscription of the client's connection
    ack,         \* the acknowledgement on its way to the server
    link,        \* the client's socket: "unloaded" (history first), "down", "up"
    client,      \* the client's AgentStore
    faults       \* faults so far

attemptVars == <<journal, row, attempt, unpublished>>
clientVars == <<ack, link, client>>
vars == <<attemptVars, published, sub, clientVars, faults>>

Publisher == {"task", "handler"}
SegmentStatus == {"absent", "streaming", "completed", "interrupted"}
Phase == {"none", "streaming", "created", "sending", "recording", "canceled"}

\* Frames of the server.  An event frame names its sequence number, a delta frame
\* a segment and its offsets.
Hello(segments) == [type |-> "hello", segments |-> segments]
Replay(from, to) == [type |-> "replay", from |-> from, to |-> to]
Event(n) == [type |-> "event", seq |-> n]
Delta(g, from, to) == [type |-> "delta", segment |-> g, from |-> from, to |-> to]
Rebase == [type |-> "rebase_required"]
End == [type |-> "end"]

NoText == [g \in Segment |-> 0]
NoSubscription == [stage |-> "none", replaying |-> TRUE, head |-> 0,
                   offset |-> NoText,
                   pending |-> <<>>, queue |-> <<>>, closed |-> FALSE]
EmptyStore == [held |-> {}, cursor |-> 0, before |-> 1, shown |-> {},
               text |-> NoText, rebase |-> FALSE]

Init ==
    /\ journal = <<>>
    /\ row = [g \in Segment |-> [status |-> "absent", text |-> 0]]
    /\ attempt = [phase |-> "none", segment |-> NoSegment, open |-> {},
                  text |-> NoText, delta |-> <<0, 0>>]
    /\ unpublished = [p \in Publisher |-> {}]
    /\ published = 0
    /\ sub = NoSubscription
    /\ ack = {}
    /\ link = "unloaded"
    /\ client = EmptyStore
    /\ faults = 0

-----------------------------------------------------------------------------
(* Subscriptions: _offer, _terminate_overflow, _enqueue_frame, _broadcast. *)

Offer(s, frame) ==
    IF Len(s.queue) < QueueSize THEN [s EXCEPT !.queue = Append(@, frame)] ELSE s

Overflow(s) ==
    [s EXCEPT !.closed = TRUE, !.pending = <<>>, !.queue = <<Rebase, End>>]

Enqueue(s, frames) ==
    IF s.closed THEN s
    ELSE IF Len(s.queue) + Len(frames) <= QueueSize THEN [s EXCEPT !.queue = @ \o frames]
    ELSE Overflow(s)

CloseAfterRebase(s) == Offer([Enqueue(s, <<Rebase>>) EXCEPT !.closed = TRUE], End)

Kept(s, frames) ==
    IF Len(s.pending) + Len(frames) <= QueueSize THEN [s EXCEPT !.pending = @ \o frames]
    ELSE Overflow(s)

\* Mutant: a subscription takes frames from its hello on.
ReceivingAfterHello(s, frames) ==
    IF s.stage # "ready" \/ s.closed THEN s
    ELSE IF s.replaying THEN Kept(s, frames) ELSE Enqueue(s, frames)

\* The subscription after a broadcast of frames, one after the other: they are kept
\* until the replay is over.
Receiving(s, frames) ==
    IF s.stage = "none" \/ s.closed THEN s
    ELSE IF s.replaying THEN Kept(s, frames) ELSE Enqueue(s, frames)

Highest(S) == CHOOSE n \in S : \A m \in S : m <= n

\* Events in the order of their numbers.
EventFrames(S) ==
    LET below(i) == Cardinality({n \in S : n < i})
    IN  [k \in 1..Cardinality(S) |-> Event(CHOOSE i \in S : below(i) = k - 1)]

-----------------------------------------------------------------------------
(* Commits and broadcasts.                                                 *)

\* append_event, in a transaction of publisher p.
Commit(p, events) ==
    /\ journal' = journal \o events
    /\ unpublished' = [unpublished EXCEPT
           ![p] = (Len(journal) + 1)..(Len(journal) + Len(events))]

\* After its commit a publisher broadcasts the events of its transaction.
Publish(p) ==
    /\ unpublished[p] # {}
    /\ unpublished' = [unpublished EXCEPT ![p] = {}]
    /\ published' = Highest(unpublished[p] \cup {published})
    /\ sub' = Receiving(sub, EventFrames(unpublished[p]))
    /\ UNCHANGED <<journal, row, attempt, clientVars, faults>>

\* A message, a resolution or an outbox event.
HandlerCommits ==
    /\ unpublished["handler"] = {} /\ Len(journal) < MaxEvents
    /\ Commit("handler", <<NoSegment>>)
    /\ UNCHANGED <<row, attempt, published, sub, clientVars, faults>>

-----------------------------------------------------------------------------
(* The task of an Attempt: _consume_stream_event.                          *)

Goto(phase, g) == [attempt EXCEPT !.phase = phase, !.segment = g, !.delta = <<0, 0>>]
Over == [Goto("none", NoSegment) EXCEPT !.open = {}, !.text = NoText]
AtRest == attempt.phase = "streaming" /\ unpublished["task"] = {}
Streaming(g) == g \in attempt.open /\ row[g].status = "streaming"
Checkpoint(g, status, length) ==
    row' = [row EXCEPT ![g] = [status |-> status, text |-> length]]

StartAttempt ==
    /\ attempt.phase = "none" /\ unpublished["task"] = {} /\ Len(journal) < MaxEvents
    /\ attempt' = Goto("streaming", NoSegment)
    /\ Commit("task", <<NoSegment>>)
    /\ UNCHANGED <<row, published, sub, clientVars, faults>>

\* The first delta of a segment; the delta itself is added after the commit.
CreateSegment(g) ==
    /\ AtRest /\ row[g].status = "absent"
    /\ Checkpoint(g, "streaming", 0)
    /\ attempt' = [Goto("created", g) EXCEPT !.open = @ \cup {g}]
    /\ UNCHANGED <<journal, unpublished, published, sub, clientVars, faults>>

MayGrow(g) == \/ AtRest /\ Streaming(g)
              \/ attempt.phase = "created" /\ attempt.segment = g

\* A delta, broadcast at once.
Grow(g, length) ==
    /\ MayGrow(g)
    /\ attempt' = [Goto("streaming", NoSegment) EXCEPT !.text[g] = length]
    /\ sub' = Receiving(sub, <<Delta(g, attempt.text[g], length)>>)
    /\ UNCHANGED <<journal, row, unpublished, published, clientVars, faults>>

\* A delta with a checkpoint: committed first, broadcast after it.
GrowAndCheckpoint(g, length) ==
    /\ MayGrow(g)
    /\ attempt' = [Goto("sending", g) EXCEPT !.text[g] = length,
                                           !.delta = <<attempt.text[g], length>>]
    /\ Checkpoint(g, "streaming", length)
    /\ UNCHANGED <<journal, unpublished, published, sub, clientVars, faults>>

SendDelta ==
    /\ attempt.phase = "sending"
    /\ attempt' = Goto("streaming", NoSegment)
    /\ sub' = Receiving(sub, <<Delta(attempt.segment, attempt.delta[1], attempt.delta[2])>>)
    /\ UNCHANGED <<journal, row, unpublished, published, clientVars, faults>>

\* _persist_completed_segment: the row first, the event in a transaction of its own.
CompleteSegment(g) ==
    /\ AtRest /\ Streaming(g)
    /\ Checkpoint(g, "completed", attempt.text[g])
    /\ attempt' = Goto("recording", g)
    /\ UNCHANGED <<journal, unpublished, published, sub, clientVars, faults>>

RecordCompletion ==
    /\ attempt.phase = "recording"
    /\ Commit("task", <<attempt.segment>>)
    /\ attempt' = Goto("streaming", NoSegment)
    /\ UNCHANGED <<row, published, sub, clientVars, faults>>

\* A tool call, a tool result or a provider error.
RecordToolEvent ==
    /\ AtRest /\ Len(journal) < MaxEvents
    /\ Commit("task", <<NoSegment>>)
    /\ UNCHANGED <<row, attempt, published, sub, clientVars, faults>>

\* _finish_run, after _complete_open_segments.
FinishAttempt ==
    /\ AtRest /\ \A g \in attempt.open : ~Streaming(g)
    /\ Commit("task", <<NoSegment>>)
    /\ attempt' = Over
    /\ UNCHANGED <<row, published, sub, clientVars, faults>>

Fault == faults < MaxFaults /\ faults' = faults + 1

\* task.cancel(): an event that was just committed is not broadcast.
CancelTask ==
    /\ attempt.phase \notin {"none", "canceled"} /\ Fault
    /\ attempt' = Goto("canceled", NoSegment)
    /\ unpublished' = [unpublished EXCEPT !["task"] = {}]
    /\ UNCHANGED <<journal, row, published, sub, clientVars>>

\* _checkpoint_live_segments_if_owned: every segment of the Attempt, completed or
\* not, is saved as STREAMING.
CheckpointLive(g) ==
    /\ attempt.phase = "canceled" /\ g \in attempt.open
    /\ Checkpoint(g, "streaming", attempt.text[g])
    /\ attempt' = [attempt EXCEPT !.open = @ \ {g}]
    /\ UNCHANGED <<journal, unpublished, published, sub, clientVars, faults>>

\* _interrupt_persisted_segments and the transitions of Attempt and Run.
Interrupt ==
    LET G == {g \in Segment : row[g].status = "streaming"} IN
    /\ attempt.phase = "canceled" /\ attempt.open = {}
    /\ row' = [g \in Segment |-> IF g \in G THEN [row[g] EXCEPT !.status = "interrupted"]
                                            ELSE row[g]]
    /\ \E order \in [1..Cardinality(G) -> G] :
          /\ \A g \in G : \E i \in DOMAIN order : order[i] = g
          /\ Commit("task", Append(order, NoSegment))
    /\ attempt' = Over
    /\ UNCHANGED <<published, sub, clientVars, faults>>

\* The process dies and starts again; recovery will interrupt the Attempt.
Restart ==
    /\ Fault
    /\ attempt' = IF attempt.phase = "none" THEN attempt
                  ELSE [Over EXCEPT !.phase = "canceled"]
    /\ unpublished' = [p \in Publisher |-> {}]
    /\ published' = 0
    /\ sub' = NoSubscription /\ ack' = {}
    /\ link' = IF link = "up" THEN "down" ELSE link
    /\ UNCHANGED <<journal, row, client>>

-----------------------------------------------------------------------------
(* subscribe and replay_from.                                              *)

\* subscribe registers first, so that what is broadcast from now on is kept.
Connect ==
    /\ link = "down" /\ sub.stage = "none"
    /\ link' = "up"
    /\ sub' = [NoSubscription EXCEPT !.stage = "registered"]
    /\ UNCHANGED <<attemptVars, published, ack, client, faults>>

\* _hello reads the head and then, in another snapshot, the segments.
ReadHead ==
    /\ sub.stage = "registered"
    /\ sub' = [sub EXCEPT !.stage = "reading", !.head = Len(journal)]
    /\ UNCHANGED <<attemptVars, published, clientVars, faults>>

SendHello ==
    LET live == {g \in Segment : row[g].status = "streaming"}
        offset == [g \in Segment |-> IF g \in live THEN row[g].text ELSE 0]
        ready == [sub EXCEPT !.stage = "ready", !.offset = offset]
    IN
    /\ sub.stage = "reading"
    /\ sub' = IF sub.closed THEN ready
              ELSE Offer(ready, Hello([shown |-> live, text |-> offset]))
    /\ published' = Highest({published, sub.head})
    /\ UNCHANGED <<attemptVars, clientVars, faults>>

\* Of the frames that were kept during the replay, in their order: no event that
\* the replay covers, no delta of a segment whose completion was kept or replayed,
\* and of a delta only what the snapshot and earlier deltas lack.
Completed(S) == {journal[n] : n \in S} \ {NoSegment}
KeptEvents(upto) ==
    {sub.pending[i].seq : i \in {j \in 1..upto : sub.pending[j].type = "event"}}

Ended(after, i) ==
    Completed((after + 1)..sub.head)
      \cup Completed({n \in KeptEvents(Len(sub.pending)) : n <= sub.head})
      \cup Completed({n \in KeptEvents(i) : n > sub.head})

Expected(i) ==
    LET g == sub.pending[i].segment
        earlier == {j \in 1..(i - 1) : /\ sub.pending[j].type = "delta"
                                       /\ sub.pending[j].segment = g}
    IN  Highest({sub.offset[g]} \cup {sub.pending[j].to : j \in earlier})

\* A delta that starts past what the client can have ends the stream.
Unjoined(after, i) ==
    /\ sub.pending[i].type = "delta"
    /\ sub.pending[i].segment \notin Ended(after, i)
    /\ sub.pending[i].from > Expected(i)

NormalizedEvent(frame) == IF frame.seq > sub.head THEN <<frame>> ELSE <<>>
NormalizedDelta(frame, expected) ==
    IF frame.to > expected THEN <<[frame EXCEPT !.from = expected]>> ELSE <<>>

\* Mutant: a delta is kept although the replay has ended its segment.
NormalizedByOffset(after, i) ==
    LET frame == sub.pending[i] IN
    IF frame.type = "event" THEN NormalizedEvent(frame)
    ELSE NormalizedDelta(frame, Expected(i))

Normalized(after, i) ==
    LET frame == sub.pending[i] IN
    IF frame.type = "event" THEN NormalizedEvent(frame)
    ELSE IF frame.segment \in Ended(after, i) THEN <<>>
    ELSE NormalizedDelta(frame, Expected(i))

Offered(after) ==
    LET joined == {i \in 0..Len(sub.pending) : \A j \in 1..i : ~Unjoined(after, j)}
        kept[i \in 0..Len(sub.pending)] ==
            IF i = 0 THEN <<>> ELSE kept[i - 1] \o Normalized(after, i)
    IN  [frames |-> kept[Highest(joined)], all |-> Highest(joined) = Len(sub.pending)]

FinishReplay(after, replayed) ==
    LET offered == Offered(after)
        open == [sub EXCEPT !.replaying = FALSE, !.pending = <<>>, !.offset = NoText]
        sent == Enqueue(Enqueue(open, replayed), offered.frames)
    IN  IF offered.all THEN sent ELSE CloseAfterRebase(sent)

\* Mutant: the oldest events are replayed, and no more than the limit.
ReplayedUpToLimit(after) ==
    LET within == {n \in after..sub.head : n - after <= ReplayLimit}
    IN  sub' = FinishReplay(after, <<Replay(after + 1, Highest(within \cup {after}))>>)

Reachable(after) == after <= sub.head /\ sub.head - after <= ReplayLimit
Missed(after) == IF after = sub.head THEN <<>> ELSE <<Replay(after + 1, sub.head)>>
ReplayOver == [sub EXCEPT !.replaying = FALSE, !.pending = <<>>]

\* Mutant: a client that is too far behind is cut off without being told to rebase.
ReplayedOrEnded(after) ==
    sub' = IF sub.closed THEN sub
           ELSE IF Reachable(after) THEN FinishReplay(after, Missed(after))
           ELSE Offer([ReplayOver EXCEPT !.closed = TRUE], End)

\* An acknowledgement past the head or too far behind it sends the client back to
\* the history.
Replayed(after) ==
    sub' = IF sub.closed THEN sub
           ELSE IF Reachable(after) THEN FinishReplay(after, Missed(after))
           ELSE CloseAfterRebase(ReplayOver)

AcceptAck ==
    /\ sub.stage = "ready"
    /\ \E after \in ack : Replayed(after)
    /\ ack' = {}
    /\ UNCHANGED <<attemptVars, published, link, client, faults>>

-----------------------------------------------------------------------------
(* The client: applyServerFrame and its callers.  React runs the update of *)
(* a store at once or, when others wait, later: its caller then does not   *)
(* see what the frame did.                                                 *)

\* ingestDurableEvents: an event that is held already changes nothing.
Ingested(c, S) ==
    LET held == c.held \cup S
        cursor == Highest({n \in c.cursor..Len(journal) : (c.cursor + 1)..n \subseteq held})
    IN  [c EXCEPT !.held = held, !.cursor = cursor,
                  !.shown = IF c.rebase THEN {} ELSE @ \ Completed(S \ c.held)]

AskRebase(c) == [c EXCEPT !.shown = {}, !.rebase = TRUE]

\* applyDelta: text that does not join what is shown asks for a rebase.
WithDelta(c, g, from, to) ==
    LET length == IF g \in c.shown THEN c.text[g] ELSE 0 IN
    IF from > length THEN AskRebase(c)
    ELSE IF to <= length THEN c
    ELSE [c EXCEPT !.shown = @ \cup {g}, !.text[g] = to, !.rebase = FALSE]

Applied(c, frame) ==
    CASE frame.type = "hello" ->
            [c EXCEPT !.shown = frame.segments.shown, !.text = frame.segments.text,
                      !.rebase = FALSE]
      [] frame.type = "replay" ->
            LET r == Ingested(c, frame.from..frame.to)
            IN  [r EXCEPT !.cursor = Highest({r.cursor, sub.head})]
      [] frame.type = "event" ->
            IF frame.seq > c.cursor + 1 THEN AskRebase(Ingested(c, {frame.seq}))
            ELSE Ingested(c, {frame.seq})
      [] frame.type = "delta" -> WithDelta(c, frame.segment, frame.from, frame.to)
      [] frame.type = "rebase_required" -> AskRebase(c)
      [] OTHER -> c

\* onMessage: a hello is acknowledged with the cursor, or with 0 if the update is yet
\* to run.  A store that is seen to need a rebase closes the socket (recoverStream);
\* one that is not stays connected.  The end of the stream closes the socket too.
ReceiveFrame(seen) ==
    LET frame == Head(sub.queue)
        store == Applied(client, frame)
        asks == seen /\ store.rebase /\ frame.type # "end"
        lost == asks \/ frame.type = "end"
    IN
    /\ link = "up" /\ sub.queue # <<>>
    /\ client' = store
    /\ link' = IF asks THEN "unloaded" ELSE IF lost THEN "down" ELSE link
    /\ sub' = IF lost THEN NoSubscription ELSE [sub EXCEPT !.queue = Tail(@)]
    /\ ack' = IF lost THEN {}
              ELSE IF frame.type = "hello" THEN {IF seen THEN store.cursor ELSE 0} ELSE ack
    /\ UNCHANGED <<attemptVars, published, faults>>

Receive == \E seen \in BOOLEAN : ReceiveFrame(seen)

\* A stream with nothing to send beats, and the client looks at its store again.  A
\* beat that finds no rebase to ask for changes nothing.
Heartbeat ==
    /\ link = "up" /\ sub.stage = "ready" /\ sub.queue = <<>> /\ client.rebase
    /\ link' = "unloaded" /\ sub' = NoSubscription /\ ack' = {}
    /\ UNCHANGED <<attemptVars, published, client, faults>>

\* The connection is lost; the client keeps its store.
Disconnect ==
    /\ link = "up" /\ Fault
    /\ link' = "down" /\ sub' = NoSubscription /\ ack' = {}
    /\ UNCHANGED <<attemptVars, published, client>>

\* loadHistory and recoverStream: the latest page of replay_events; what is older
\* stays behind historyBeforeSeq.
LoadHistory ==
    LET last == Len(journal)
        first == IF last > PageSize THEN last - PageSize + 1 ELSE 1
    IN
    /\ link = "unloaded"
    /\ client' = [EmptyStore EXCEPT !.held = first..last, !.cursor = last, !.before = first]
    /\ link' = "down"
    /\ UNCHANGED <<attemptVars, published, sub, ack, faults>>

-----------------------------------------------------------------------------
Lengths(g) == (attempt.text[g] + 1)..Highest({n \in 0..MaxText :
                                              n <= attempt.text[g] + MaxDelta})

TaskStep ==
    \/ StartAttempt \/ SendDelta \/ RecordCompletion \/ RecordToolEvent
    \/ FinishAttempt \/ Interrupt
    \/ \E g \in Segment :
          \/ CreateSegment(g) \/ CompleteSegment(g) \/ CheckpointLive(g)
          \/ \E length \in Lengths(g) : Grow(g, length) \/ GrowAndCheckpoint(g, length)

Next ==
    \/ TaskStep \/ HandlerCommits \/ CancelTask \/ Restart \/ Disconnect
    \/ \E p \in Publisher : Publish(p)
    \/ Connect \/ ReadHead \/ SendHello \/ AcceptAck
    \/ Receive \/ Heartbeat \/ LoadHistory

Spec == Init /\ [][Next]_vars

\* The delta that made a segment is added to it, and a model call ends.
AddFirstDelta ==
    /\ attempt.phase = "created"
    /\ \E g \in Segment : \E length \in Lengths(g) :
          Grow(g, length) \/ GrowAndCheckpoint(g, length)
EndAttempt == FinishAttempt \/ \E g \in Segment : CompleteSegment(g)

\* requestStreamRecovery also compares the cursor with the head that a demand to rebase
\* names, so that a client behind it reloads though the update is yet to run.
FollowDemand ==
    /\ sub.queue # <<>> /\ Head(sub.queue).type = "rebase_required"
    /\ client.cursor < published
    /\ ReceiveFrame(TRUE)

\* What was committed is broadcast, what a task began it ends, and so does the Attempt
\* itself; the WebSocket handler and the client go on, and an open stream beats.  Models
\* and users need not say more.
Fairness ==
    /\ \A p \in Publisher : WF_vars(Publish(p))
    /\ WF_vars(SendDelta \/ RecordCompletion \/ Interrupt)
    /\ WF_vars(AddFirstDelta) /\ WF_vars(EndAttempt)
    /\ \A g \in Segment : WF_vars(CheckpointLive(g))
    /\ WF_vars(ReadHead) /\ WF_vars(SendHello) /\ WF_vars(AcceptAck)
    /\ WF_vars(Connect) /\ WF_vars(Receive) /\ WF_vars(LoadHistory)
    /\ WF_vars(Heartbeat) /\ SF_vars(FollowDemand)

FairSpec == Spec /\ Fairness

-----------------------------------------------------------------------------
Text == 0..MaxText

Frame ==
    [type : {"hello"}, segments : [shown : SUBSET Segment, text : [Segment -> Text]]]
      \cup [type : {"replay"}, from : Nat, to : Nat]
      \cup [type : {"event"}, seq : Nat]
      \cup [type : {"delta"}, segment : Segment, from : Text, to : Text]
      \cup {Rebase, End}

Row == [status : SegmentStatus, text : Text]
Attempt == [phase : Phase, segment : Segment \cup {NoSegment}, open : SUBSET Segment,
            text : [Segment -> Text], delta : Text \X Text]
Subscription ==
    [stage : {"none", "registered", "reading", "ready"}, replaying : BOOLEAN, head : Nat,
     offset : [Segment -> Text], pending : Seq(Frame), queue : Seq(Frame), closed : BOOLEAN]
Store == [held : SUBSET Nat, cursor : Nat, before : Nat, shown : SUBSET Segment,
          text : [Segment -> Text], rebase : BOOLEAN]

\* No queue outgrows its limit, and nobody knows of an event that was not committed.
TypeOK ==
    /\ journal \in Seq(Segment \cup {NoSegment})
    /\ row \in [Segment -> Row]
    /\ attempt \in Attempt
    /\ unpublished \in [Publisher -> SUBSET (1..Len(journal))]
    /\ published \in 0..Len(journal)
    /\ sub \in Subscription /\ sub.head <= Len(journal)
    /\ Len(sub.queue) <= QueueSize /\ Len(sub.pending) <= QueueSize
    /\ ack \subseteq 0..Len(journal)
    /\ link \in {"unloaded", "down", "up"}
    /\ client \in Store /\ client.held \subseteq 1..Len(journal) /\ client.cursor <= Len(journal)
    /\ faults \in Nat

\* A client that says it has the events up to its cursor has every one of them from
\* the first of its history page on: no replay, no reordered broadcast and no
\* reconnection makes the cursor pass an event the client was never sent
\* (agentStore.ts).  A late broadcast of an event older than the page adds just it.
CursorSkipsNothing == client.before..client.cursor \subseteq client.held

\* The stream is open and everything that was sent has been received.
Quiet == /\ link = "up" /\ sub.stage = "ready" /\ ~sub.closed /\ ~sub.replaying
         /\ sub.queue = <<>>

\* No event is missed without a trace.  When nothing is on its way, the client has
\* every event that the supervisor broadcast or announced, or it holds one as recent as
\* those past a gap, which its store shows and the reload at the next beat or event will
\* fill, whatever was committed, broadcast or lost while it subscribed, replayed or
\* reconnected (subscribe, _finish_replay, ingestDurableEvents).
QuietStreamIsComplete ==
    Quiet => client.cursor >= published \/ \E n \in client.held : n >= published

\* When nothing is on its way, no segment is shown as live that ended: neither a late
\* delta nor a stale snapshot brings one back (_finish_replay).
LiveSegmentsAreOpen ==
    Quiet /\ unpublished["task"] = {} =>
        \A g \in client.shown :
            \/ row[g].status = "streaming"
            \/ attempt.phase \in {"recording", "canceled"}

\* Every event reaches the client: as part of its history, replayed, or live.
EventsReachTheClient ==
    \A n \in 1..MaxEvents : Len(journal) >= n ~> client.cursor >= n

=============================================================================
