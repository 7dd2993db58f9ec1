---------------------------- MODULE SensorEvents ----------------------------
(***************************************************************************)
(* From a sensor's journal to a threat incident: the Zeek adapter and the  *)
(* behavior sensor of a sandbox write what they observe in one Deception   *)
(* Environment to hash-chained journals; the Zeek collector (service/      *)
(* detection/sensors.py) and the telemetry monitor (service/threat/        *)
(* telemetry.py) pull the journals and store the events (behaviors.py);    *)
(* each stored event gets one live decision, which may add it to a signal  *)
(* (service/detection/engine.py), and ready signals are correlated with    *)
(* the incidents of the owner and handed to an Agent (orchestration.py).   *)
(*                                                                         *)
(* Neither loop holds a lease, and every step below is one transaction or  *)
(* one HTTP request of one of them: their passes interleave freely, and a  *)
(* pass may end after any step, by an error or with its process.  The      *)
(* switch of a sensor's bundle is the subject of DetectionDeployment; here *)
(* it is two steps, Zeek taking up a bundle and the deployment recording   *)
(* it.  Which incident a signal matches and when a signal's window,        *)
(* cooldown and debounce pass are choices.  An event here is an entry of   *)
(* a journal; which lines of Zeek's logs become entries is left open.      *)
(***************************************************************************)
EXTENDS Naturals, Sequences, FiniteSets

CONSTANTS
    Zeek,          \* the environment's chain in the Zeek adapter's journal
    Box,           \* the chain of the behavior sensor in its sandbox
    Collector,     \* processes of the Zeek collector's loop
    Monitor,       \* processes of the telemetry loop
    MaxIncidents,  \* a bound for TLC
    Past,          \* the incidents that were closed before
    Nothing,
    Rule,          \* central rules
    Threshold,     \* per rule: how many events make its signal actionable
    Seen,          \* what the rules may say of each event, see Kind
    Urgent,        \* the rules of a score of 70 and more, whose signals have no debounce
    MaxEvents,     \* per chain: bounds for TLC
    MaxPolicy, MaxSignals,
    MaxUpsets      \* bundle switches, broken passes, refusals and changes by hand together

Chain == {Zeek, Box}
Worker == Collector \cup Monitor
Incident == 1..MaxIncidents
Event == UNION {{c} \X (1..MaxEvents[c]) : c \in Chain}
\* What the rules say of an event: the rule that decides it, Nothing for a score under 40.
Kind == Rule \cup {Nothing}

ASSUME ChainAssumption == Zeek # Box
ASSUME WorkerAssumption == Collector \cap Monitor = {}
ASSUME RuleAssumption ==
    /\ Threshold \in [Rule -> Nat \ {0}] /\ Urgent \subseteq Rule
    /\ Seen \in [Event -> SUBSET Kind]
ASSUME IncidentAssumption == Past \subseteq Incident
ASSUME NothingAssumption == Nothing \notin Incident /\ Nothing \notin Rule
ASSUME BoundsAssumption ==
    /\ MaxEvents \in [Chain -> Nat]
    /\ {MaxPolicy, MaxIncidents, MaxSignals, MaxUpsets} \subseteq Nat

VARIABLES
    journal,    \* per chain: the sensor's journal
    policy,     \* the bundle Zeek runs
    row,        \* managed_host_sensors: the recorded bundles, last_sequence, status
    stored,     \* per chain: the rows of behavior_events, up to the cursor's last_sequence
    signalOf,   \* per stored event: its live decision, or that it has none
    signals,    \* behavior_signals, in the order of their creation
    linked,     \* threat_incident_behavior_events: the incident of each event
    incident,   \* per incident: its status
    worker,     \* the pass each loop is in
    upsets,     \* how many of them there were
    lapse,      \* history: a bundle switch has met uncollected events
    dropped     \* history: signals a pass had in hand when it was broken off

sensorVars == <<journal, policy, row, lapse>>
signalVars == <<signalOf, signals>>
incidentVars == <<linked, incident>>
vars == <<sensorVars, stored, signalVars, incidentVars, worker, upsets, dropped>>

-----------------------------------------------------------------------------
(* Events, signals and incidents.                                          *)

\* A stored event is not decided, decided to be ignored, or part of a signal.
Undecided == 0
Ignored == MaxSignals + 1

\* calm: debounce_until has passed.
Signal == [rule : Rule, status : {"open", "notified"}, incident : Incident \cup {Nothing},
           calm : BOOLEAN]
IncidentStatus == {"none", "open", "investigating", "engaging", "finalizing", "closed"}

\* THREAT_INCIDENT_STATUS_TRANSITIONS
Transitions == [s \in IncidentStatus |->
    CASE s = "open" -> {"investigating", "finalizing"}
      [] s = "investigating" -> {"engaging", "finalizing"}
      [] s = "engaging" -> {"investigating", "finalizing"}
      [] s = "finalizing" -> {"investigating", "closed"}
      [] s = "closed" -> {"investigating"}
      [] OTHER -> {}]

\* Where a pass is.  A monitor first takes up undecided events, then ready signals, then
\* collects; a collector only collects.
Step == {"idle", "ready", "read", "pull", "ingest", "decide", "correlate", "save"}
Idle == [at |-> "idle", pass |-> "collect", from |-> 0, upto |-> 0, policy |-> {},
         todo |-> {}, found |-> {}]

Journal(c) == [i \in DOMAIN journal[c] |-> journal[c][i].kind]
EventsOf(s) == {e \in Event : signalOf[e] = s}
Reached(s) == Cardinality(EventsOf(s)) >= Threshold[signals[s].rule]
Due(s) == signals[s].rule \in Urgent \/ signals[s].calm
\* Mutant: a signal that was notified is done with.
ActionableUntold(signal, count) ==
    /\ signal.status = "open"
    /\ count >= Threshold[signal.rule] /\ (signal.rule \in Urgent \/ signal.calm)

\* The end of _aggregate_signal, for a signal with so many events.
Actionable(signal, count) ==
    count >= Threshold[signal.rule] /\ (signal.rule \in Urgent \/ signal.calm)
Opened == {i \in Incident : incident[i] \notin {"none", "closed"}}
ChainOf(w) == IF w \in Collector THEN Zeek ELSE Box

TypeOK ==
    /\ journal \in [Chain -> Seq([kind : Kind, policy : 0..MaxPolicy])]
    /\ policy \in 0..MaxPolicy
    /\ row \in [active : 0..MaxPolicy, desired : 0..MaxPolicy, last : Nat, healthy : BOOLEAN]
    /\ stored \in [Chain -> Seq(Kind)]
    /\ signalOf \in [Event -> 0..MaxSignals + 1]
    /\ signals \in Seq(Signal) /\ Len(signals) <= MaxSignals
    /\ linked \in [Event -> Incident \cup {Nothing}]
    /\ incident \in [Incident -> IncidentStatus]
    /\ worker \in [Worker -> [at : Step, pass : {"recover", "ready", "collect"},
                              from : Nat, upto : Nat, policy : SUBSET (0..MaxPolicy),
                              todo : SUBSET Event, found : SUBSET (1..MaxSignals)]]
    /\ upsets \in 0..MaxUpsets
    /\ lapse \in BOOLEAN /\ dropped \subseteq 1..MaxSignals

Init ==
    /\ journal = [c \in Chain |-> <<>>]
    /\ policy = 0
    /\ row = [active |-> 0, desired |-> 0, last |-> 0, healthy |-> TRUE]
    /\ stored = [c \in Chain |-> <<>>]
    /\ signalOf = [e \in Event |-> Undecided]
    /\ signals = <<>>
    /\ linked = [e \in Event |-> Nothing]
    /\ incident = [i \in Incident |-> IF i \in Past THEN "closed" ELSE "none"]
    /\ worker = [w \in Worker |-> Idle]
    /\ upsets = 0 /\ lapse = FALSE /\ dropped = {}

-----------------------------------------------------------------------------
(* The sensors.                                                            *)

\* _append_normalized: a log line, of the directory of the bundle that Zeek ran when it
\* wrote it, becomes the next entry of the journal and of the environment's chain.  Any
\* line may: a line is journaled twice when its log is shorter than the adapter remembers
\* and is read from its start, or when a scan raises before it has saved its offset, and
\* not at all when Zeek had not written it to its end.  The behavior sensor of a sandbox
\* does the same without bundles.
Observe(c, k, p) ==
    /\ Len(journal[c]) < MaxEvents[c] /\ k \in Seen[<<c, Len(journal[c]) + 1>>]
    /\ p <= policy /\ (c = Box => p = 0)
    /\ journal' = [journal EXCEPT ![c] = Append(@, [kind |-> k, policy |-> p])]
    /\ lapse' = (lapse \/ (c = Zeek /\ p # policy))
    /\ UNCHANGED <<policy, row, stored, signalVars, incidentVars, worker, upsets, dropped>>

\* A deployment or a refresh has set a new desired bundle, and Zeek runs it.
SwitchBundle ==
    /\ policy < MaxPolicy /\ row.desired = policy /\ upsets < MaxUpsets
    /\ upsets' = upsets + 1
    /\ policy' = policy + 1
    /\ row' = [row EXCEPT !.desired = policy + 1]
    /\ UNCHANGED <<journal, stored, signalVars, incidentVars, worker, lapse, dropped>>

\* _complete_activation of a deployment, or _refresh_owned, which every few seconds takes
\* up a sensor that does not run its bundle or is DEGRADED: the adapter's health is
\* recorded, its sequence, the end of its journal, as last_sequence.
RecordHealth ==
    /\ row.active # policy \/ ~row.healthy
    /\ row' = [active |-> policy, desired |-> policy, last |-> Len(journal[Zeek]),
               healthy |-> TRUE]
    /\ lapse' = (lapse \/ Len(journal[Zeek]) > Len(stored[Zeek]))
    /\ UNCHANGED <<journal, policy, stored, signalVars, incidentVars, worker, upsets, dropped>>

-----------------------------------------------------------------------------
(* The passes.                                                             *)

\* What comes after the events or signals of a part of a pass: the ready signals after
\* the recovery, the collection after them, the sensor's row after a collection by the
\* Zeek collector.
After(w, r) ==
    CASE r.pass = "recover" -> [Idle EXCEPT !.at = "ready", !.pass = "ready"]
      [] r.pass = "ready" -> [Idle EXCEPT !.at = "read"]
      [] w \in Collector -> [r EXCEPT !.at = "save", !.todo = {}, !.found = {}]
      [] OTHER -> Idle

\* The next step of a part with r.todo to decide and r.found to correlate.
Proceed(w, r) ==
    worker' = [worker EXCEPT ![w] =
        IF r.todo # {} THEN [r EXCEPT !.at = "decide"]
        ELSE IF r.found # {} THEN [r EXCEPT !.at = "correlate"] ELSE After(w, r)]

\* An exception: a collector notes it in the sensor's row (_mark_sensor_issue), a monitor
\* logs it and goes on to the next part, which after the recovery is the collection.
Fail(w) ==
    /\ worker' = [worker EXCEPT ![w] =
           IF @.pass = "collect" THEN Idle ELSE [Idle EXCEPT !.at = "read"]]
    /\ row' = IF w \in Collector THEN [row EXCEPT !.healthy = FALSE] ELSE row
    /\ dropped' = dropped \cup worker[w].found

\* collect_zeek_sensor_events_once: the row is read.
StartCollection(w) ==
    /\ w \in Collector /\ worker[w].at = "idle"
    /\ worker' = [worker EXCEPT ![w] = [Idle EXCEPT
           !.at = "pull", !.from = row.last, !.policy = {row.active, row.desired}]]
    /\ UNCHANGED <<sensorVars, stored, signalVars, incidentVars, upsets, dropped>>

\* Mutant: only events beyond the recorded position are looked at.
UnprocessedBeyondPosition ==
    {e \in Event : e[2] \in row.last + 1 .. Len(stored[e[1]]) /\ signalOf[e] = Undecided}

\* recover_unprocessed_behavior_events: the events without a live decision.
Unprocessed == {e \in Event : e[2] <= Len(stored[e[1]]) /\ signalOf[e] = Undecided}

StartRecovery(w) ==
    /\ w \in Monitor /\ worker[w].at = "idle"
    /\ Proceed(w, [Idle EXCEPT !.pass = "recover", !.todo = Unprocessed])
    /\ UNCHANGED <<sensorVars, stored, signalVars, incidentVars, upsets, dropped>>

\* Mutant: signals that have an incident are passed over.
ReadySignalsUnplaced ==
    {s \in DOMAIN signals : /\ signals[s].status = "open" /\ signals[s].incident = Nothing
                            /\ Actionable(signals[s], Cardinality(EventsOf(s)))}

\* orchestrate_ready_behavior_signals: the ready signals that nobody was told of.
ReadySignals ==
    {s \in DOMAIN signals : /\ signals[s].status = "open"
                            /\ Actionable(signals[s], Cardinality(EventsOf(s)))}

TakeReadySignals(w) ==
    /\ worker[w].at = "ready"
    /\ Proceed(w, [worker[w] EXCEPT !.found = ReadySignals])
    /\ UNCHANGED <<sensorVars, stored, signalVars, incidentVars, upsets, dropped>>

\* _collect_environment_telemetry: the cursor is read.
ReadCursor(w) ==
    /\ worker[w].at = "read"
    /\ worker' = [worker EXCEPT ![w] = [Idle EXCEPT !.at = "pull", !.from = Len(stored[Box])]]
    /\ UNCHANGED <<sensorVars, stored, signalVars, incidentVars, upsets, dropped>>

\* The Zeek collector takes only events of the bundle the adapter runs, and that bundle
\* must be one the control plane expects.
Acceptable(w) ==
    /\ policy \in worker[w].policy
    /\ \A i \in worker[w].from + 1 .. Len(journal[Zeek]) : journal[Zeek][i].policy = policy

\* The sensor's health and the events after the position.
Pull(w) ==
    LET upto == Len(journal[ChainOf(w)]) IN
    /\ worker[w].at = "pull"
    /\ IF w \in Collector /\ ~Acceptable(w)
       THEN Fail(w)
       ELSE /\ LET r == [worker[w] EXCEPT !.upto = upto,
                                         !.policy = IF w \in Collector THEN {policy} ELSE {}]
               IN  worker' = [worker EXCEPT ![w] =
                       IF upto > r.from THEN [r EXCEPT !.at = "ingest"]
                       ELSE After(w, [r EXCEPT !.from = 0])]
            /\ UNCHANGED <<row, dropped>>
    /\ UNCHANGED <<journal, policy, lapse, stored, signalVars, incidentVars, upsets>>

\* Mutant: a gap is not seen.
GapUnseen(c, from) == FALSE

\* A batch that begins after the event the chain's cursor waits for is refused.
Gap(c, from) == from > Len(stored[c])

\* The chain after a batch: what is stored already is compared and passed over, the rest
\* follows the chain's head.
StoredAfter(c, r) ==
    LET from == IF r.from > Len(stored[c]) THEN r.from ELSE Len(stored[c])
    IN  stored[c] \o SubSeq(Journal(c), from + 1, r.upto)

\* ingest_behavior_event_batch, under the locks of the environment and the cursor.
Ingest(w) ==
    LET c == ChainOf(w)  r == worker[w] IN
    /\ r.at = "ingest"
    /\ IF Gap(c, r.from)
       THEN Fail(w) /\ UNCHANGED stored
       ELSE /\ stored' = [stored EXCEPT ![c] = StoredAfter(c, r)]
            /\ Proceed(w, [r EXCEPT !.from = 0, !.todo = {c} \X (Len(stored[c]) + 1 .. Len(stored'[c]))])
            /\ UNCHANGED <<row, dropped>>
    /\ UNCHANGED <<journal, policy, lapse, signalVars, incidentVars, upsets>>

-----------------------------------------------------------------------------
(* Decisions and signals.                                                  *)

NewSignal(r) ==
    [rule |-> r, status |-> "open", incident |-> Nothing, calm |-> r \in Urgent]

\* The query of _aggregate_signal: a signal of the rule, if the window of one, and its
\* cooldown once notified, has not passed for the event; else a new one.
Joined(r) ==
    {s \in DOMAIN signals : signals[s].rule = r} \cup ({Len(signals) + 1} \cap (1..MaxSignals))

\* process_behavior_events, one event's transaction under the event's lock and the lock of
\* its signal: an event that is decided leads to its signal, ready or not; another gets
\* its decision and joins a signal, which is actionable if it is ready.
Decide(w, e) ==
    LET r == worker[w]
        rule == stored[e[1]][e[2]]
        rest == [r EXCEPT !.todo = @ \ {e}]
    IN
    /\ r.at = "decide" /\ e \in r.todo
    /\ \A d \in r.todo : d[1] = e[1] => d[2] >= e[2]
    /\ IF signalOf[e] # Undecided
       THEN /\ Proceed(w, [rest EXCEPT !.found = @ \cup ({signalOf[e]} \ {Ignored})])
            /\ UNCHANGED signalVars
       ELSE IF rule = Nothing
       THEN /\ signalOf' = [signalOf EXCEPT ![e] = Ignored]
            /\ Proceed(w, rest)
            /\ UNCHANGED signals
       ELSE \E s \in Joined(rule) :
            /\ signals' = IF s \in DOMAIN signals THEN signals
                          ELSE Append(signals, NewSignal(rule))
            /\ signalOf' = [signalOf EXCEPT ![e] = s]
            /\ Proceed(w, [rest EXCEPT !.found = @ \cup {t \in {s} :
                   Actionable(signals'[s], Cardinality(EventsOf(s)) + 1)}])
    /\ UNCHANGED <<sensorVars, stored, incidentVars, upsets, dropped>>

\* The debounce of a signal passes.
SignalCalms(s) ==
    /\ ~signals[s].calm
    /\ signals' = [signals EXCEPT ![s].calm = TRUE]
    /\ UNCHANGED <<sensorVars, stored, signalOf, incidentVars, worker, upsets, dropped>>

-----------------------------------------------------------------------------
(* Correlation.                                                            *)

\* Mutant: a closed incident may match.
AnyOrNew == {i \in Incident : incident[i] # "none"} \cup {i \in Incident : incident[i] = "none"}

\* The incidents a signal that has none may get: an incident that is not closed and
\* matches (_match_incident), or a new one.
MatchOrNew == Opened \cup {i \in Incident : incident[i] = "none"}

\* The signals in hand that reached their threshold.
InHand(w) == {s \in worker[w].found : Reached(s)}
\* A signal nobody was told of keeps its incident, and raises if that has been closed.
Stray(w) ==
    \E s \in InHand(w) : /\ signals[s].status = "open" /\ Due(s)
                         /\ signals[s].incident # Nothing
                         /\ incident[signals[s].incident] = "closed"

\* The ready signals among them, which an Agent is to be told of.
Told(w) == {s \in InHand(w) : signals[s].status = "open" /\ Due(s)}

\* enqueue_system_run: the incidents whose sessions take no Run, being archived or about
\* to be canceled, or waiting for an operator.
Refusals(incidents) == {refused \in SUBSET incidents : refused # {} => upsets < MaxUpsets}

\* Each signal in hand gets its incident; those told of a session that took the Run are
\* notified.
SignalsAfter(w, place, refused) ==
    [s \in DOMAIN signals |->
        IF s \notin InHand(w) THEN signals[s]
        ELSE [signals[s] EXCEPT !.incident = place[s],
                !.status = IF s \in Told(w) /\ place[s] \notin refused THEN "notified" ELSE @]]

\* _correlate_behavior_signals, one transaction under the locks of the environment, the
\* signals and the incidents: each signal keeps or gets its incident, its events that
\* belong to no incident are linked to that, a FINALIZING incident is investigated again,
\* and an Agent is told of the ready signals, unless the incident's session does not take
\* the Run, which leaves the signals open.
Correlate(w) ==
    /\ worker[w].at = "correlate"
    /\ IF Stray(w)
       THEN Fail(w) /\ UNCHANGED <<signals, linked, incident, upsets>>
       ELSE \E place \in [InHand(w) -> Incident] :
            \E refused \in Refusals({place[s] : s \in Told(w)}) :
            /\ \A s \in InHand(w) :
                   IF signals[s].incident # Nothing THEN place[s] = signals[s].incident
                   ELSE place[s] \in MatchOrNew
            /\ \A i, j \in Incident : i < j /\ incident[i] = "none" /\ (\E s \in InHand(w) : place[s] = j)
                   => \E s \in InHand(w) : place[s] = i
            /\ upsets' = IF refused # {} THEN upsets + 1 ELSE upsets
            /\ signals' = SignalsAfter(w, place, refused)
            /\ linked' = [e \in Event |->
                   IF linked[e] = Nothing /\ signalOf[e] \in InHand(w)
                   THEN place[signalOf[e]] ELSE linked[e]]
            /\ incident' = [i \in Incident |->
                   IF \A s \in InHand(w) : place[s] # i THEN incident[i]
                   ELSE CASE incident[i] = "none" -> "open"
                          [] incident[i] = "finalizing" -> "investigating"
                          [] OTHER -> incident[i]]
            /\ worker' = [worker EXCEPT ![w] = After(w, @)]
            /\ UNCHANGED <<row, dropped>>
    /\ UNCHANGED <<journal, policy, lapse, stored, signalOf>>

\* The end of _collect_sensor: the position of this pass, the bundle it saw.
Save(w) ==
    /\ worker[w].at = "save"
    /\ \E p \in worker[w].policy :
           row' = [row EXCEPT !.last = worker[w].upto, !.active = p, !.healthy = TRUE]
    /\ worker' = [worker EXCEPT ![w] = Idle]
    /\ UNCHANGED <<journal, policy, lapse, stored, signalVars, incidentVars, upsets, dropped>>

\* A pass ends early: the process stops, or a request or a transaction fails.
BreakOff(w) ==
    /\ worker[w].at # "idle" /\ upsets < MaxUpsets
    /\ upsets' = upsets + 1
    /\ \/ Fail(w)
       \/ /\ worker' = [worker EXCEPT ![w] = Idle]
          /\ dropped' = dropped \cup worker[w].found
          /\ UNCHANGED row
    /\ UNCHANGED <<journal, policy, lapse, stored, signalVars, incidentVars>>

-----------------------------------------------------------------------------
(* The incidents.                                                          *)

\* transition_threat_incident, by a user or an Agent; what it asks for before an incident
\* is finalized or closed is the subject of Investigation.
MoveIncident(i, status) ==
    /\ upsets < MaxUpsets
    /\ status \in Transitions[incident[i]]
    /\ incident' = [incident EXCEPT ![i] = status]
    /\ upsets' = upsets + 1
    /\ UNCHANGED <<sensorVars, stored, signalVars, linked, worker, dropped>>

\* advance_idle_incidents: the telemetry loop finalizes what is left alone; each incident
\* of its list is judged again in its own transaction.
AdvanceIdle(i) ==
    /\ incident[i] \in {"open", "investigating", "engaging"}
    /\ MoveIncident(i, "finalizing")

\* assign_behavior_events_to_incident
AssignEvent(e, i) ==
    /\ upsets < MaxUpsets
    /\ i \in Opened /\ linked[e] = Nothing /\ e[2] <= Len(stored[e[1]])
    /\ linked' = [linked EXCEPT ![e] = i]
    /\ upsets' = upsets + 1
    /\ UNCHANGED <<sensorVars, stored, signalVars, incident, worker, dropped>>

-----------------------------------------------------------------------------

Pass(w) ==
    \/ StartCollection(w) \/ StartRecovery(w) \/ TakeReadySignals(w) \/ ReadCursor(w)
    \/ Pull(w) \/ Ingest(w) \/ (\E e \in worker[w].todo : Decide(w, e))
    \/ Correlate(w) \/ Save(w)

Next ==
    \/ \E c \in Chain, k \in Kind, p \in 0..MaxPolicy : Observe(c, k, p)
    \/ SwitchBundle \/ RecordHealth
    \/ \E w \in Worker : Pass(w) \/ BreakOff(w)
    \/ \E s \in DOMAIN signals : SignalCalms(s)
    \/ \E i \in Incident : AdvanceIdle(i) \/ \E status \in IncidentStatus : MoveIncident(i, status)
    \/ \E e \in Event, i \in Incident : AssignEvent(e, i)

Spec == Init /\ [][Next]_vars

\* The loops poll for ever, the reconciler comes round, time passes; passes fail, Agents
\* refuse and operators act as they like.
Fairness ==
    /\ \A w \in Worker : WF_vars(Pass(w))
    /\ WF_vars(RecordHealth)
    /\ \A s \in 1..MaxSignals : WF_vars(s \in DOMAIN signals /\ SignalCalms(s))

FairSpec == Spec /\ Fairness

-----------------------------------------------------------------------------
(* Properties.                                                             *)

\* What is stored of a chain is the beginning of the sensor's journal, in its order,
\* without a gap and without a second copy of an entry, whatever passes overlap, start
\* from an old position or break off, and whatever a bundle switch does to the position.
ChainUnbroken ==
    \A c \in Chain : /\ Len(stored[c]) <= Len(journal[c])
                     /\ stored[c] = SubSeq(Journal(c), 1, Len(stored[c]))

\* Each event of a signal an Agent was told of belongs to an incident, or a pass is about
\* to link it: an event that joins the signal later is not forgotten, except when the pass
\* that decided it broke off before it correlated (nothing takes that up again).
NotifiedSignalIsComplete ==
    \A s \in DOMAIN signals : signals[s].status = "notified" =>
        \A e \in EventsOf(s) :
            \/ linked[e] # Nothing
            \/ s \in dropped
            \/ \E w \in Worker : s \in worker[w].found

\* A closed incident gets further events only through a signal that was its own before:
\* the events of a new signal open or join another incident.
ClosedGainsOnlyItsSignals ==
    [][\A e \in Event :
          linked'[e] # linked[e] /\ incident[linked'[e]] = "closed" =>
              signals[signalOf[e]].incident = linked'[e]]_vars

\* Every event a sensor has journaled is stored and decided in the end, through crashes,
\* failed requests and rows that are written late, unless the recording of a sensor's
\* health or an entry of the bundle before has got in the way of the Zeek collector.
EventsAreDecided ==
    []<>(\A e \in Event : e[2] <= Len(journal[e[1]]) =>
             signalOf[e] # Undecided \/ (e[1] = Zeek /\ lapse))

\* A signal nobody was told of and that is left in an incident that was closed.
Stranded ==
    \E t \in DOMAIN signals : /\ signals[t].status = "open" /\ signals[t].incident # Nothing
                             /\ incident[signals[t].incident] = "closed"

\* A signal that reached its threshold is brought to an Agent in the end, unless a signal
\* nobody was told of is left in an incident that was closed.
SignalsAreNotified ==
    []<>(\A s \in DOMAIN signals : Reached(s) => signals[s].status = "notified" \/ Stranded)
=============================================================================
