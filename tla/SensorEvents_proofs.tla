------------------------- MODULE SensorEvents_proofs -------------------------
(***************************************************************************)
(* Proofs about SensorEvents, for any loops, rules, thresholds and bounds: *)
(* what is stored of a chain is the beginning of the sensor's journal,     *)
(* every event of a signal an Agent was told of is accounted for, and a    *)
(* closed incident gains only events of its own signals.                   *)
(***************************************************************************)
EXTENDS SensorEvents, SequenceTheorems, FiniteSetTheorems, TLAPS

-----------------------------------------------------------------------------
(* The inductive invariant.                                                *)

JournalBounded == \A c \in Chain : Len(journal[c]) <= MaxEvents[c]

StoredIsJournaled ==
    \A c \in Chain :
        /\ Len(stored[c]) <= Len(journal[c])
        /\ \A i \in 1..Len(stored[c]) : stored[c][i] = journal[c][i].kind

\* A journal only grows, so a batch that was pulled is still there when it is stored.
PulledIsJournaled ==
    \A w \in Worker : worker[w].at = "ingest" => worker[w].upto <= Len(journal[ChainOf(w)])

TodoIsStored == \A w \in Worker : \A e \in worker[w].todo : e[2] <= Len(stored[e[1]])

\* A pass has signals in hand only while it decides and correlates.
HandsAreFree ==
    \A w \in Worker : worker[w].found # {} => worker[w].at \in {"decide", "correlate"}

\* A signal an Agent was told of stays actionable.
NotifiedIsReady ==
    \A s \in DOMAIN signals : signals[s].status = "notified" => Due(s) /\ Reached(s)

Chained == JournalBounded /\ StoredIsJournaled /\ PulledIsJournaled
InHands == TodoIsStored /\ HandsAreFree
Notified == NotifiedIsReady /\ NotifiedSignalIsComplete

IInv == TypeOK /\ Chained /\ InHands /\ Notified

-----------------------------------------------------------------------------
(* The rows.                                                               *)

Entry == [kind : Kind, policy : 0..MaxPolicy]
SensorRow == [active : 0..MaxPolicy, desired : 0..MaxPolicy, last : Nat, healthy : BOOLEAN]
PassState == [at : Step, pass : {"recover", "ready", "collect"}, from : Nat, upto : Nat,
              policy : SUBSET (0..MaxPolicy), todo : SUBSET Event, found : SUBSET (1..MaxSignals)]

\* A function on the places of a sequence is a sequence of its length.
LEMMA SamePlaces ==
    ASSUME NEW S, NEW s \in Seq(S), NEW R, NEW f \in [DOMAIN s -> R]
    PROVE  f \in Seq(R) /\ Len(f) = Len(s)
<1>1. DOMAIN s = 1..Len(s) /\ Len(s) \in Nat
  BY LenProperties
<1>2. f \in Seq(R)
  BY <1>1, SeqDef
<1> QED
  BY <1>1, <1>2, LenProperties

\* An event is a chain and a place in it.
LEMMA EventPlaces ==
    ASSUME NEW e \in Event
    PROVE  e[1] \in Chain /\ e[2] \in 1..MaxEvents[e[1]]
BY DEF Event

\* ... and there are finitely many.
LEMMA EventsAreFinite == IsFiniteSet(Event)
<1> DEFINE Of(c) == {c} \X (1..MaxEvents[c])
<1>1. \A c \in Chain : IsFiniteSet(Of(c))
  <2> TAKE c \in Chain
  <2>1. MaxEvents[c] \in Nat
    BY BoundsAssumption
  <2>2. IsFiniteSet({c}) /\ IsFiniteSet(1..MaxEvents[c])
    <3>1. IsFiniteSet({c})
      BY FS_Singleton
    <3>2. 1 \in Int /\ MaxEvents[c] \in Int
      BY <2>1
    <3>3. IsFiniteSet(1..MaxEvents[c])
      BY <3>2, FS_Interval
    <3> QED
      BY <3>1, <3>3
  <2> QED
    BY <2>2, FS_Product
<1>2. IsFiniteSet(Of(Zeek) \cup Of(Box))
  <2>1. IsFiniteSet(Of(Zeek)) /\ IsFiniteSet(Of(Box))
    BY <1>1 DEF Chain
  <2> QED
    BY <2>1, FS_Union
<1>3. Event = Of(Zeek) \cup Of(Box)
  BY DEF Event, Chain
<1> QED
  BY <1>2, <1>3

\* What follows a part of a pass begins with nothing to decide and nothing in hand.
LEMMA AfterIsFree ==
    ASSUME NEW w \in Worker, NEW r \in PassState
    PROVE  /\ After(w, r) \in PassState
           /\ After(w, r).at \in {"idle", "ready", "read", "save"}
           /\ After(w, r).todo = {} /\ After(w, r).found = {}
<1>1. Idle \in PassState
  BY DEF Idle, PassState, Step
<1> QED
  BY <1>1 DEF After, Idle, PassState, Step

\* Proceed goes on with the events and signals it is given.
LEMMA ProceedMoves ==
    ASSUME NEW w \in Worker, NEW r \in PassState, Proceed(w, r),
           worker \in [Worker -> PassState]
    PROVE  /\ worker' \in [Worker -> PassState]
           /\ worker'[w].at # "ingest"
           /\ worker'[w].todo = r.todo /\ worker'[w].found = r.found
           /\ r.found # {} => worker'[w].at \in {"decide", "correlate"}
           /\ \A v \in Worker \ {w} : worker'[v] = worker[v]
<1> DEFINE next == IF r.todo # {} THEN [r EXCEPT !.at = "decide"]
                   ELSE IF r.found # {} THEN [r EXCEPT !.at = "correlate"] ELSE After(w, r)
<1>1. /\ next \in PassState /\ next.at # "ingest"
      /\ next.todo = r.todo /\ next.found = r.found
      /\ r.found # {} => next.at \in {"decide", "correlate"}
  BY AfterIsFree DEF PassState, Step
<1>2. worker' = [worker EXCEPT ![w] = next]
  BY DEF Proceed
<1> QED
  BY <1>1, <1>2

\* A pass that fails leaves nothing in hand but what it drops.
LEMMA FailMoves ==
    ASSUME NEW w \in Worker, Fail(w), worker \in [Worker -> PassState], row \in SensorRow
    PROVE  /\ worker' \in [Worker -> PassState] /\ row' \in SensorRow
           /\ worker'[w].at \in {"idle", "read"}
           /\ worker'[w].todo = {} /\ worker'[w].found = {}
           /\ \A v \in Worker \ {w} : worker'[v] = worker[v]
           /\ dropped' = dropped \cup worker[w].found
<1> DEFINE next == IF worker[w].pass = "collect" THEN Idle ELSE [Idle EXCEPT !.at = "read"]
<1>1. /\ next \in PassState /\ next.at \in {"idle", "read"}
      /\ next.todo = {} /\ next.found = {}
  BY DEF Idle, PassState, Step
<1>2. worker' = [worker EXCEPT ![w] = next]
  BY DEF Fail
<1>3. row' \in SensorRow
  BY DEF Fail, SensorRow
<1> QED
  BY <1>1, <1>2, <1>3 DEF Fail

\* The journal seen as the kinds of its entries.
LEMMA JournalKinds ==
    ASSUME TypeOK, NEW c \in Chain
    PROVE  /\ journal[c] \in Seq(Entry)
           /\ Journal(c) \in Seq(Kind) /\ Len(Journal(c)) = Len(journal[c])
           /\ \A i \in 1..Len(journal[c]) : Journal(c)[i] = journal[c][i].kind
<1>1. journal[c] \in Seq(Entry)
  BY DEF TypeOK, Entry
<1>2. \A i \in DOMAIN journal[c] : journal[c][i].kind \in Kind
  <2>1. \A i \in DOMAIN journal[c] : journal[c][i] \in Entry
    BY <1>1, ElementOfSeq, LenProperties
  <2> QED
    BY <2>1 DEF Entry
<1>3. Journal(c) \in [DOMAIN journal[c] -> Kind]
  BY <1>2 DEF Journal
<1>4. Journal(c) \in Seq(Kind) /\ Len(Journal(c)) = Len(journal[c])
  BY <1>1, <1>3, SamePlaces
<1>5. \A i \in 1..Len(journal[c]) : Journal(c)[i] = journal[c][i].kind
  BY <1>1, LenProperties DEF Journal
<1> QED
  BY <1>1, <1>4, <1>5

\* A batch that leaves no gap extends what is stored by what the journal holds.
LEMMA BatchExtends ==
    ASSUME TypeOK, StoredIsJournaled, NEW c \in Chain, NEW r \in PassState,
           ~Gap(c, r.from), r.upto <= Len(journal[c])
    PROVE  /\ StoredAfter(c, r) \in Seq(Kind)
           /\ Len(stored[c]) <= Len(StoredAfter(c, r)) /\ Len(StoredAfter(c, r)) <= Len(journal[c])
           /\ \A i \in 1..Len(StoredAfter(c, r)) : StoredAfter(c, r)[i] = journal[c][i].kind
           /\ \A i \in 1..Len(stored[c]) : StoredAfter(c, r)[i] = stored[c][i]
<1> DEFINE n == Len(stored[c])
           rest == SubSeq(Journal(c), n + 1, r.upto)
<1>1. stored[c] \in Seq(Kind) /\ n \in Nat /\ r.upto \in Nat /\ r.from \in Nat
  BY LenProperties DEF TypeOK, PassState
<1>2. Len(journal[c]) \in Nat /\ n <= Len(journal[c])
  BY JournalKinds, LenProperties DEF StoredIsJournaled
<1>3. StoredAfter(c, r) = stored[c] \o rest
  BY <1>1 DEF StoredAfter, Gap
<1>4. \A i \in n + 1 .. r.upto : Journal(c)[i] \in Kind
  BY <1>1, <1>2, JournalKinds, ElementOfSeq
<1>5. /\ rest \in Seq(Kind)
      /\ Len(rest) = IF n + 1 <= r.upto THEN r.upto - n ELSE 0
      /\ \A i \in 1 .. r.upto - n : rest[i] = Journal(c)[n + i]
  BY <1>1, <1>4, SubSeqProperties
<1>6. /\ StoredAfter(c, r) \in Seq(Kind)
      /\ Len(StoredAfter(c, r)) = n + Len(rest)
      /\ \A i \in 1 .. n + Len(rest) :
             StoredAfter(c, r)[i] = IF i <= n THEN stored[c][i] ELSE rest[i - n]
  BY <1>1, <1>3, <1>5, ConcatProperties, SMTT(15), ZenonT(25)
<1>7. \A i \in 1..n : stored[c][i] = journal[c][i].kind
  BY DEF StoredIsJournaled
<1>8. ASSUME NEW i \in n + 1 .. n + Len(rest)
      PROVE  rest[i - n] = journal[c][i].kind
  <2>1. i - n \in 1 .. r.upto - n /\ i \in 1..Len(journal[c])
    BY <1>1, <1>2, <1>5
  <2>2. rest[i - n] = Journal(c)[n + (i - n)]
    BY <1>5, <2>1
  <2> QED
    BY <1>1, <2>1, <2>2, JournalKinds
<1>9. Len(rest) \in Nat /\ n + Len(rest) <= Len(journal[c])
  BY <1>1, <1>2, <1>5
<1>10. \A i \in 1 .. n + Len(rest) : StoredAfter(c, r)[i] = journal[c][i].kind
  <2> TAKE i \in 1 .. n + Len(rest)
  <2>1. CASE i \in 1..n
    BY <1>1, <1>6, <1>7, <2>1
  <2>2. CASE i \in n + 1 .. n + Len(rest)
    <3>0. i \in 1 .. n + Len(rest) /\ ~(i <= n)
      BY <1>1, <1>9, <2>2
    <3>1. StoredAfter(c, r)[i] = rest[i - n]
      BY <1>6, <3>0
    <3>2. rest[i - n] = journal[c][i].kind
      BY ONLY <1>8, <2>2
    <3> QED
      BY <3>1, <3>2
  <2> QED
    BY <1>1, <1>9, <2>1, <2>2
<1> QED
  BY <1>1, <1>6, <1>9, <1>10, SMTT(15), ZenonT(25)

-----------------------------------------------------------------------------
(* Type correctness.                                                       *)

\* The first state has the types and no row yet.
LEMMA InitTypeOK == Init => TypeOK
<1> SUFFICES ASSUME Init PROVE TypeOK
  OBVIOUS
<1>1. Idle \in PassState
  BY DEF Idle, PassState, Step
<1>2. worker \in [Worker -> PassState]
  BY <1>1 DEF Init
<1>3. 0 \in 0..MaxPolicy /\ 0 \in 0..MaxUpsets /\ 0 \in 0..MaxSignals + 1 /\ 0 <= MaxSignals
  BY BoundsAssumption
<1>4. \A S : <<>> \in Seq(S) /\ Len(<<>>) = 0
  BY EmptySeq
<1>5. incident \in [Incident -> IncidentStatus]
  BY DEF Init, IncidentStatus
<1> QED
  BY <1>2, <1>3, <1>4, <1>5 DEF Init, TypeOK, PassState, Undecided

\* The rows of a sensor, of its events and of the passes, as the other lemmas name them.
LEMMA Rows ==
    ASSUME TypeOK
    PROVE  /\ journal \in [Chain -> Seq(Entry)] /\ row \in SensorRow
           /\ worker \in [Worker -> PassState]
           /\ MaxSignals \in Nat /\ MaxUpsets \in Nat /\ MaxPolicy \in Nat
           /\ signals \in Seq(Signal) /\ DOMAIN signals = 1..Len(signals)
           /\ DOMAIN signals \subseteq 1..MaxSignals
           /\ \A s \in DOMAIN signals : signals[s] \in Signal
<1>1. signals \in Seq(Signal) /\ Len(signals) <= MaxSignals
  BY DEF TypeOK
<1>2. DOMAIN signals = 1..Len(signals) /\ Len(signals) \in Nat
  BY <1>1, LenProperties
<1>3. \A s \in DOMAIN signals : signals[s] \in Signal
  BY <1>1, <1>2, ElementOfSeq
<1>4. MaxSignals \in Nat /\ MaxUpsets \in Nat /\ MaxPolicy \in Nat
  BY BoundsAssumption
<1>5. DOMAIN signals \subseteq 1..MaxSignals
  BY <1>1, <1>2, <1>4
<1>6. /\ journal \in [Chain -> Seq(Entry)] /\ row \in SensorRow
      /\ worker \in [Worker -> PassState]
  BY DEF TypeOK, Entry, SensorRow, PassState
<1> QED
  BY <1>1, <1>2, <1>3, <1>4, <1>5, <1>6

\* Disturbances are counted up to their bound.
LEMMA UpsetsBounded ==
    ASSUME TypeOK, upsets < MaxUpsets, upsets' = upsets + 1
    PROVE  upsets' \in 0..MaxUpsets
BY BoundsAssumption DEF TypeOK

\* The bounds on signals.
LEMMA SignalNumbers ==
    /\ 1..MaxSignals \subseteq 0..MaxSignals + 1
    /\ Ignored \in 0..MaxSignals + 1
    /\ (0..MaxSignals + 1) \ {Undecided, Ignored} \subseteq 1..MaxSignals
BY BoundsAssumption DEF Ignored, Undecided

\* The sensors write their journals and change their bundle.
SensorStep ==
    \/ \E c \in Chain, k \in Kind, p \in 0..MaxPolicy : Observe(c, k, p)
    \/ SwitchBundle \/ RecordHealth

\* The steps of the sensor and of the collector keep the types.
LEMMA SensorTypeOK == ASSUME TypeOK, SensorStep PROVE TypeOK'
<1> USE Rows
<1>1. ASSUME NEW c \in Chain, NEW k \in Kind, NEW p \in 0..MaxPolicy, Observe(c, k, p)
      PROVE  TypeOK'
  <2> DEFINE entry == [kind |-> k, policy |-> p]
  <2>1. Append(journal[c], entry) \in Seq(Entry)
    BY AppendProperties DEF Entry
  <2>2. journal' \in [Chain -> Seq(Entry)]
    BY <1>1, <2>1 DEF Observe
  <2>3. lapse' \in BOOLEAN
    BY <1>1 DEF Observe, TypeOK
  <2> QED
    BY <1>1, <2>2, <2>3 DEF Observe, TypeOK, Entry, signalVars, incidentVars
<1>2. CASE SwitchBundle
  <2>0. upsets' \in 0..MaxUpsets
    BY <1>2, UpsetsBounded DEF SwitchBundle
  <2>1. policy' \in 0..MaxPolicy
    BY ONLY <1>2, TypeOK, BoundsAssumption DEF SwitchBundle, TypeOK
  <2>2. row' \in SensorRow
    BY <1>2, <2>1 DEF SwitchBundle, SensorRow
  <2> QED
    BY <1>2, <2>0, <2>1, <2>2 DEF SwitchBundle, TypeOK, SensorRow, signalVars, incidentVars
<1>3. CASE RecordHealth
  <2>1. Len(journal[Zeek]) \in Nat
    BY LenProperties DEF Chain
  <2> QED
    BY <1>3, <2>1 DEF RecordHealth, TypeOK, signalVars, incidentVars
<1> QED
  BY <1>1, <1>2, <1>3 DEF SensorStep

\* A pass pulls a journal, stores a batch, and notes what it saw.
LEMMA CollectTypeOK ==
    ASSUME TypeOK, Chained, NEW w \in Worker,
           \/ StartCollection(w) \/ StartRecovery(w) \/ TakeReadySignals(w) \/ ReadCursor(w)
           \/ Pull(w) \/ Ingest(w) \/ Save(w) \/ BreakOff(w)
    PROVE  TypeOK'
<1> USE Rows
<1>0. worker[w] \in PassState /\ Idle \in PassState /\ worker[w].found \subseteq 1..MaxSignals
  BY DEF Idle, PassState, Step
<1>1. CASE StartCollection(w)
  <2>1. [Idle EXCEPT !.at = "pull", !.from = row.last, !.policy = {row.active, row.desired}]
            \in PassState
    BY <1>0 DEF PassState, SensorRow, Step, Idle
  <2>2. worker' \in [Worker -> PassState]
    BY <1>1, <2>1 DEF StartCollection
  <2> QED
    BY <1>1, <2>2 DEF StartCollection, TypeOK, PassState, sensorVars, signalVars, incidentVars
<1>2. CASE StartRecovery(w)
  <2>1. [Idle EXCEPT !.pass = "recover", !.todo = Unprocessed] \in PassState
    BY <1>0 DEF PassState, Idle, Unprocessed
  <2>2. worker' \in [Worker -> PassState]
    BY <1>2, <2>1, ProceedMoves DEF StartRecovery
  <2> QED
    BY <1>2, <2>2 DEF StartRecovery, TypeOK, PassState, sensorVars, signalVars, incidentVars
<1>3. CASE TakeReadySignals(w)
  <2>1. [worker[w] EXCEPT !.found = ReadySignals] \in PassState
    BY <1>0 DEF PassState, ReadySignals
  <2>2. worker' \in [Worker -> PassState]
    BY <1>3, <2>1, ProceedMoves DEF TakeReadySignals
  <2> QED
    BY <1>3, <2>2 DEF TakeReadySignals, TypeOK, PassState, sensorVars, signalVars, incidentVars
<1>4. CASE ReadCursor(w)
  <2>1. Len(stored[Box]) \in Nat
    BY LenProperties DEF TypeOK, Chain
  <2>2. [Idle EXCEPT !.at = "pull", !.from = Len(stored[Box])] \in PassState
    BY <1>0, <2>1 DEF PassState, Idle, Step
  <2>3. worker' \in [Worker -> PassState]
    BY <1>4, <2>2 DEF ReadCursor
  <2> QED
    BY <1>4, <2>3 DEF ReadCursor, TypeOK, PassState, sensorVars, signalVars, incidentVars
<1>5. CASE Pull(w)
  <2> DEFINE upto == Len(journal[ChainOf(w)])
             r == [worker[w] EXCEPT !.upto = upto,
                                    !.policy = IF w \in Collector THEN {policy} ELSE {}]
  <2>1. upto \in Nat
    BY LenProperties DEF ChainOf, Chain
  <2>2. r \in PassState /\ [r EXCEPT !.at = "ingest"] \in PassState /\ [r EXCEPT !.from = 0] \in PassState
    BY <1>0, <2>1 DEF PassState, Step, TypeOK
  <2>3. After(w, [r EXCEPT !.from = 0]) \in PassState
    BY <2>2, AfterIsFree
  <2>4. worker' \in [Worker -> PassState] /\ row' \in SensorRow /\ dropped' \subseteq 1..MaxSignals
    <3>1. CASE w \in Collector /\ ~Acceptable(w)
      BY <1>0, <1>5, <3>1, FailMoves DEF Pull, TypeOK
    <3>2. CASE ~(w \in Collector /\ ~Acceptable(w))
      BY <1>5, <2>2, <2>3, <3>2, SMTT(15), ZenonT(25) DEF Pull, TypeOK
    <3> QED
      BY <3>1, <3>2
  <2> QED
    BY <1>5, <2>4 DEF Pull, TypeOK, PassState, SensorRow, signalVars, incidentVars
<1>6. CASE Ingest(w)
  <2> DEFINE c == ChainOf(w)
  <2>0. c \in Chain
    BY DEF ChainOf, Chain
  <2>1. /\ worker' \in [Worker -> PassState] /\ row' \in SensorRow
        /\ dropped' \subseteq 1..MaxSignals /\ stored' \in [Chain -> Seq(Kind)]
    <3>1. CASE Gap(c, worker[w].from)
      BY <1>0, <1>6, <3>1, FailMoves DEF Ingest, TypeOK
    <3>2. CASE ~Gap(c, worker[w].from)
      <4>1. worker[w].upto <= Len(journal[c])
        BY <1>6 DEF Ingest, Chained, PulledIsJournaled
      <4>2. StoredAfter(c, worker[w]) \in Seq(Kind)
            /\ Len(StoredAfter(c, worker[w])) <= Len(journal[c])
        BY <1>0, <2>0, <3>2, <4>1, BatchExtends DEF Chained
      <4>3. stored' \in [Chain -> Seq(Kind)] /\ stored'[c] = StoredAfter(c, worker[w])
        BY <1>6, <2>0, <3>2, <4>2 DEF Ingest, TypeOK
      <4>4. {c} \X (Len(stored[c]) + 1 .. Len(stored'[c])) \subseteq Event
        <5>1. /\ Len(stored[c]) \in Nat /\ Len(stored'[c]) \in Nat
              /\ Len(journal[c]) \in Nat /\ MaxEvents[c] \in Nat
          BY <2>0, <4>3, LenProperties, BoundsAssumption DEF TypeOK
        <5>2. Len(stored'[c]) <= MaxEvents[c]
          BY <2>0, <4>2, <4>3, <5>1 DEF Chained, JournalBounded
        <5> QED
          BY <2>0, <5>1, <5>2 DEF Event
      <4>5. [worker[w] EXCEPT !.from = 0,
                !.todo = {c} \X (Len(stored[c]) + 1 .. Len(stored'[c]))] \in PassState
        BY <1>0, <4>4 DEF PassState
      <4>6. worker' \in [Worker -> PassState]
        BY <1>6, <3>2, <4>5, ProceedMoves DEF Ingest
      <4> QED
        BY <1>6, <3>2, <4>3, <4>6 DEF Ingest, TypeOK
    <3> QED
      BY <3>1, <3>2
  <2> QED
    BY <1>6, <2>1 DEF Ingest, TypeOK, PassState, SensorRow, signalVars, incidentVars
<1>7. CASE Save(w)
  <2>1. worker' \in [Worker -> PassState] /\ row' \in SensorRow
    BY <1>0, <1>7 DEF Save, SensorRow, PassState
  <2> QED
    BY <1>7, <2>1 DEF Save, TypeOK, PassState, SensorRow, signalVars, incidentVars
<1>8. CASE BreakOff(w)
  <2>1. /\ worker' \in [Worker -> PassState] /\ row' \in SensorRow
        /\ dropped' \subseteq 1..MaxSignals
    BY <1>0, <1>8, FailMoves DEF BreakOff, TypeOK
  <2>2. upsets' \in 0..MaxUpsets
    BY <1>8, UpsetsBounded DEF BreakOff
  <2> QED
    BY <1>8, <2>1, <2>2 DEF BreakOff, TypeOK, PassState, SensorRow, signalVars, incidentVars
<1> QED
  BY <1>1, <1>2, <1>3, <1>4, <1>5, <1>6, <1>7, <1>8

\* An event is decided; it leads to a signal that there is or that is made for it.
LEMMA DecideTypeOK ==
    ASSUME TypeOK, InHands, NEW w \in Worker, NEW e \in worker[w].todo, Decide(w, e)
    PROVE  TypeOK'
<1> USE Rows
<1> DEFINE r == worker[w]
           rule == stored[e[1]][e[2]]
           rest == [r EXCEPT !.todo = @ \ {e}]
<1>0. r \in PassState /\ rest \in PassState /\ e \in Event /\ r.found \subseteq 1..MaxSignals
  BY DEF PassState
<1>1. ASSUME NEW more \in SUBSET (1..MaxSignals), Proceed(w, [rest EXCEPT !.found = @ \cup more])
      PROVE  worker' \in [Worker -> PassState]
  <2>1. [rest EXCEPT !.found = @ \cup more] \in PassState
    BY <1>0 DEF PassState
  <2> QED
    BY <1>1, <2>1, ProceedMoves
<1>2. CASE signalOf[e] # Undecided
  <2>1. {signalOf[e]} \ {Ignored} \subseteq 1..MaxSignals
    <3>1. signalOf[e] \in 0..MaxSignals + 1
      BY <1>0 DEF TypeOK
    <3> QED
      BY ONLY <1>2, <3>1, SignalNumbers
  <2>2. worker' \in [Worker -> PassState]
    BY <1>1, <1>2, <2>1 DEF Decide
  <2> QED
    BY <1>2, <2>2 DEF Decide, TypeOK, PassState, sensorVars, signalVars, incidentVars
<1>3. CASE signalOf[e] = Undecided /\ rule = Nothing
  <2>1. worker' \in [Worker -> PassState]
    BY <1>0, <1>3, ProceedMoves DEF Decide
  <2>2. signalOf' \in [Event -> 0..MaxSignals + 1]
    <3>1. signalOf' = [signalOf EXCEPT ![e] = Ignored]
      BY <1>3 DEF Decide
    <3> QED
      BY <3>1, SignalNumbers DEF TypeOK
  <2> QED
    BY <1>3, <2>1, <2>2 DEF Decide, TypeOK, PassState, sensorVars, incidentVars
<1>4. CASE signalOf[e] = Undecided /\ rule # Nothing
  <2>1. rule \in Rule
    <3>1. stored[e[1]] \in Seq(Kind) /\ e[2] \in 1..Len(stored[e[1]])
      <4>1. e[1] \in Chain /\ e[2] \in Nat \ {0}
        BY <1>0, EventPlaces, BoundsAssumption
      <4>2. stored[e[1]] \in Seq(Kind) /\ Len(stored[e[1]]) \in Nat
        BY <4>1, LenProperties DEF TypeOK
      <4>3. e[2] <= Len(stored[e[1]])
        BY DEF InHands, TodoIsStored
      <4> QED
        BY <4>1, <4>2, <4>3
    <3> QED
      BY <1>4, <3>1, ElementOfSeq DEF Kind
  <2>2. PICK s \in Joined(rule) :
            /\ signals' = IF s \in DOMAIN signals THEN signals
                          ELSE Append(signals, NewSignal(rule))
            /\ signalOf' = [signalOf EXCEPT ![e] = s]
            /\ Proceed(w, [rest EXCEPT !.found = @ \cup {t \in {s} :
                   Actionable(signals'[s], Cardinality(EventsOf(s)) + 1)}])
    BY <1>4 DEF Decide
  <2>3. s \in 1..MaxSignals
    BY DEF Joined
  <2>4. worker' \in [Worker -> PassState]
    <3>1. {t \in {s} : Actionable(signals'[s], Cardinality(EventsOf(s)) + 1)}
              \in SUBSET (1..MaxSignals)
      BY <2>3
    <3> HIDE DEF rest
    <3> QED
      BY <1>1, <2>2, <3>1
  <2>5. signalOf' \in [Event -> 0..MaxSignals + 1]
    <3>1. s \in 0..MaxSignals + 1
      BY ONLY <2>3, SignalNumbers
    <3> QED
      BY <2>2, <3>1 DEF TypeOK
  <2>6. signals' \in Seq(Signal) /\ Len(signals') <= MaxSignals
    <3>1. CASE s \in DOMAIN signals
      BY <2>2, <3>1 DEF TypeOK
    <3>2. CASE s \notin DOMAIN signals
      <4>1. s = Len(signals) + 1
        BY <3>2 DEF Joined
      <4>2. NewSignal(rule) \in Signal
        BY <2>1 DEF NewSignal, Signal
      <4>3. signals' = Append(signals, NewSignal(rule))
        BY <2>2, <3>2
      <4>4. signals' \in Seq(Signal) /\ Len(signals') = Len(signals) + 1
        BY <4>2, <4>3, AppendProperties
      <4> QED
        BY <2>3, <4>1, <4>4
    <3> QED
      BY <3>1, <3>2
  <2> QED
    BY <1>4, <2>4, <2>5, <2>6 DEF Decide, TypeOK, PassState, sensorVars, incidentVars
<1> QED
  BY <1>2, <1>3, <1>4

\* The signals after a correlation.
LEMMA SignalsAfterRows ==
    ASSUME TypeOK, NEW w \in Worker, NEW place \in [InHand(w) -> Incident], NEW refused
    PROVE  SignalsAfter(w, place, refused) \in Seq(Signal)
           /\ Len(SignalsAfter(w, place, refused)) = Len(signals)
<1> USE Rows
<1>1. SignalsAfter(w, place, refused) \in [DOMAIN signals -> Signal]
  BY DEF SignalsAfter, Signal
<1> QED
  BY <1>1, SamePlaces

\* What _correlate_behavior_signals does when no signal is stray.
Places(w, place, refused) ==
    /\ \A s \in InHand(w) :
           IF signals[s].incident # Nothing THEN place[s] = signals[s].incident
           ELSE place[s] \in MatchOrNew
    /\ signals' = SignalsAfter(w, place, refused)
    /\ linked' = [e \in Event |->
           IF linked[e] = Nothing /\ signalOf[e] \in InHand(w)
           THEN place[signalOf[e]] ELSE linked[e]]
    /\ worker' = [worker EXCEPT ![w] = After(w, @)]
    /\ UNCHANGED <<dropped, signalOf, stored, row>>

\* A correlation fails, or places the signals in hand and links their events.
LEMMA CorrelatePlaces ==
    ASSUME NEW w \in Worker, Correlate(w)
    PROVE  \/ /\ Fail(w) /\ UNCHANGED <<signals, linked, incident, upsets, signalOf, stored>>
           \/ \E place \in [InHand(w) -> Incident], refused \in SUBSET Incident :
                  Places(w, place, refused)
<1>1. CASE Stray(w)
  BY <1>1 DEF Correlate
<1>2. CASE ~Stray(w)
  <2>1. \A place \in [InHand(w) -> Incident] :
            Refusals({place[s] : s \in Told(w)}) \subseteq SUBSET Incident
    BY DEF Told, Refusals
  <2>2. PICK place \in [InHand(w) -> Incident] :
            \E refused \in Refusals({place[s] : s \in Told(w)}) :
            /\ \A s \in InHand(w) :
                   IF signals[s].incident # Nothing THEN place[s] = signals[s].incident
                   ELSE place[s] \in MatchOrNew
            /\ signals' = SignalsAfter(w, place, refused)
            /\ linked' = [e \in Event |->
                   IF linked[e] = Nothing /\ signalOf[e] \in InHand(w)
                   THEN place[signalOf[e]] ELSE linked[e]]
            /\ worker' = [worker EXCEPT ![w] = After(w, @)]
            /\ UNCHANGED <<row, dropped>>
    BY <1>2 DEF Correlate
  <2> QED
    BY <2>1, <2>2 DEF Correlate, Places
<1> QED
  BY <1>1, <1>2

\* The correlation keeps the types.
LEMMA CorrelateTypeOK == ASSUME TypeOK, NEW w \in Worker, Correlate(w) PROVE TypeOK'
<1> USE Rows
<1>0. worker[w] \in PassState /\ worker[w].found \subseteq 1..MaxSignals
  BY DEF PassState
<1>1. incident' \in [Incident -> IncidentStatus] /\ upsets' \in 0..MaxUpsets
  <2>1. incident' \in [Incident -> IncidentStatus]
    <3>1. CASE Stray(w)
      BY <3>1 DEF Correlate, TypeOK
    <3>2. CASE ~Stray(w)
      <4>1. \E place \in [InHand(w) -> Incident] :
                incident' = [i \in Incident |->
                   IF \A s \in InHand(w) : place[s] # i THEN incident[i]
                   ELSE CASE incident[i] = "none" -> "open"
                          [] incident[i] = "finalizing" -> "investigating"
                          [] OTHER -> incident[i]]
        BY <3>2 DEF Correlate
      <4> QED
        BY <4>1 DEF TypeOK, IncidentStatus
    <3> QED
      BY <3>1, <3>2
  <2>2. upsets' \in 0..MaxUpsets
    <3>1. upsets' = upsets \/ (upsets < MaxUpsets /\ upsets' = upsets + 1)
      BY DEF Correlate, Refusals
    <3> QED
      BY <3>1, UpsetsBounded DEF TypeOK
  <2> QED
    BY <2>1, <2>2
<1>2. CASE Fail(w) /\ UNCHANGED <<signals, linked, incident, upsets, signalOf, stored>>
  <2>1. /\ worker' \in [Worker -> PassState] /\ row' \in SensorRow
        /\ dropped' \subseteq 1..MaxSignals
    BY <1>0, <1>2, FailMoves DEF TypeOK
  <2> QED
    BY <1>1, <1>2, <2>1 DEF Correlate, TypeOK, PassState, SensorRow
<1>3. ASSUME NEW place \in [InHand(w) -> Incident], NEW refused \in SUBSET Incident,
             Places(w, place, refused)
      PROVE  TypeOK'
  <2>1. worker' \in [Worker -> PassState]
    BY <1>0, <1>3, AfterIsFree DEF Places
  <2>2. signals' \in Seq(Signal) /\ Len(signals') <= MaxSignals
    BY <1>3, SignalsAfterRows DEF Places, TypeOK
  <2>3. linked' \in [Event -> Incident \cup {Nothing}]
    BY <1>3 DEF Places, TypeOK
  <2> QED
    BY <1>1, <1>3, <2>1, <2>2, <2>3 DEF Correlate, Places, TypeOK, PassState
<1> QED
  BY <1>2, <1>3, CorrelatePlaces

\* The incidents are moved, and debounces pass.
IncidentStep ==
    \/ \E s \in DOMAIN signals : SignalCalms(s)
    \/ \E i \in Incident : AdvanceIdle(i) \/ \E status \in IncidentStatus : MoveIncident(i, status)
    \/ \E e \in Event, i \in Incident : AssignEvent(e, i)

\* The steps on incidents keep the types.
LEMMA IncidentTypeOK == ASSUME TypeOK, IncidentStep PROVE TypeOK'
<1> USE Rows
<1>1. ASSUME NEW s \in DOMAIN signals, SignalCalms(s) PROVE TypeOK'
  <2>1. [signals[s] EXCEPT !.calm = TRUE] \in Signal
    BY DEF Signal
  <2>2. signals' = [signals EXCEPT ![s] = [signals[s] EXCEPT !.calm = TRUE]]
    BY <1>1 DEF SignalCalms
  <2>3. signals' \in [DOMAIN signals -> Signal]
    BY <2>1, <2>2
  <2>4. signals' \in Seq(Signal) /\ Len(signals') = Len(signals)
    BY <2>3, SamePlaces
  <2> QED
    BY <1>1, <2>4 DEF SignalCalms, TypeOK, sensorVars, incidentVars
<1>2. ASSUME NEW i \in Incident, NEW status \in IncidentStatus, MoveIncident(i, status)
      PROVE  TypeOK'
  <2>1. upsets' \in 0..MaxUpsets
    BY <1>2, UpsetsBounded DEF MoveIncident
  <2> QED
    BY <1>2, <2>1 DEF MoveIncident, TypeOK, sensorVars, signalVars
<1>3. ASSUME NEW e \in Event, NEW i \in Incident, AssignEvent(e, i) PROVE TypeOK'
  <2>1. upsets' \in 0..MaxUpsets
    BY <1>3, UpsetsBounded DEF AssignEvent
  <2> QED
    BY <1>3, <2>1 DEF AssignEvent, TypeOK, sensorVars, signalVars
<1> QED
  BY <1>1, <1>2, <1>3 DEF IncidentStep, AdvanceIdle, IncidentStatus

-----------------------------------------------------------------------------
(* What a step of a pass does to the passes.                               *)

\* A step of a pass moves that pass alone; it pulls from the journal's end or stops
\* waiting for a batch to be stored; it comes with something in hand only to a decision
\* or a correlation.
LEMMA PassMoves ==
    ASSUME TypeOK, Chained, InHands, NEW w \in Worker, Pass(w) \/ BreakOff(w)
    PROVE  /\ \A v \in Worker \ {w} : worker'[v] = worker[v]
           /\ worker'[w].at = "ingest" => worker'[w].upto = Len(journal[ChainOf(w)])
           /\ worker'[w].found # {} => worker'[w].at \in {"decide", "correlate"}
           /\ \A e \in worker'[w].todo : e[2] <= Len(stored'[e[1]])
           /\ \A c \in Chain : Len(stored[c]) <= Len(stored'[c])
           /\ journal' = journal
<1> DEFINE Goal ==
           /\ \A v \in Worker \ {w} : worker'[v] = worker[v]
           /\ worker'[w].at = "ingest" => worker'[w].upto = Len(journal[ChainOf(w)])
           /\ worker'[w].found # {} => worker'[w].at \in {"decide", "correlate"}
           /\ \A e \in worker'[w].todo : e[2] <= Len(stored'[e[1]])
           /\ \A c \in Chain : Len(stored[c]) <= Len(stored'[c])
           /\ journal' = journal
<1>0. /\ worker \in [Worker -> PassState] /\ row \in SensorRow
      /\ worker[w] \in PassState /\ Idle \in PassState /\ worker[w].found \subseteq 1..MaxSignals
      /\ DOMAIN signals \subseteq 1..MaxSignals
      /\ \A c \in Chain : Len(stored[c]) \in Nat
  BY Rows, LenProperties DEF Idle, PassState, Step, TypeOK
<1>1. \A e \in worker[w].todo : e[2] <= Len(stored[e[1]])
  BY DEF InHands, TodoIsStored
<1>2. worker[w].found # {} => worker[w].at \in {"decide", "correlate"}
  BY DEF InHands, HandsAreFree
<1>3. CASE StartCollection(w)
  <2>1. worker' = [worker EXCEPT ![w] = [Idle EXCEPT
           !.at = "pull", !.from = row.last, !.policy = {row.active, row.desired}]]
    BY <1>3 DEF StartCollection
  <2> QED
    BY <1>0, <1>3, <2>1 DEF StartCollection, sensorVars, Idle
<1>4. CASE StartRecovery(w)
  <2>1. [Idle EXCEPT !.pass = "recover", !.todo = Unprocessed] \in PassState
    BY <1>0 DEF PassState, Idle, Unprocessed
  <2>2. worker'[w].todo = Unprocessed /\ worker'[w].found = {} /\ worker'[w].at # "ingest"
        /\ \A v \in Worker \ {w} : worker'[v] = worker[v]
    BY <1>0, <1>4, <2>1, ProceedMoves DEF StartRecovery, PassState, Idle
  <2> QED
    BY <1>0, <1>4, <2>2 DEF StartRecovery, sensorVars, Unprocessed
<1>5. CASE TakeReadySignals(w)
  <2>1. [worker[w] EXCEPT !.found = ReadySignals] \in PassState
    BY <1>0 DEF PassState, ReadySignals
  <2>2. /\ worker'[w].todo = worker[w].todo /\ worker'[w].at # "ingest"
        /\ worker'[w].found # {} => worker'[w].at \in {"decide", "correlate"}
        /\ \A v \in Worker \ {w} : worker'[v] = worker[v]
    BY <1>0, <1>5, <2>1, ProceedMoves DEF TakeReadySignals, PassState
  <2> QED
    BY <1>0, <1>1, <1>5, <2>2 DEF TakeReadySignals, sensorVars
<1>6. CASE ReadCursor(w)
  <2>1. worker' = [worker EXCEPT ![w] = [Idle EXCEPT !.at = "pull", !.from = Len(stored[Box])]]
    BY <1>6 DEF ReadCursor
  <2> QED
    BY <1>0, <1>6, <2>1 DEF ReadCursor, sensorVars, Idle
<1>7. CASE Pull(w)
  <2>0. worker[w].at = "pull" /\ worker[w].found = {}
    BY <1>2, <1>7 DEF Pull
  <2>1. CASE w \in Collector /\ ~Acceptable(w)
    <3>1. Fail(w)
      BY <1>7, <2>1 DEF Pull
    <3> QED
      BY <1>0, <1>7, <3>1, FailMoves DEF Pull
  <2>2. CASE ~(w \in Collector /\ ~Acceptable(w))
    <3> DEFINE r == [worker[w] EXCEPT !.upto = Len(journal[ChainOf(w)]),
                                      !.policy = IF w \in Collector THEN {policy} ELSE {}]
               old == [r EXCEPT !.from = 0]
    <3>1. worker' = [worker EXCEPT ![w] =
                       IF Len(journal[ChainOf(w)]) > r.from THEN [r EXCEPT !.at = "ingest"]
                       ELSE After(w, old)]
      BY <1>7, <2>2 DEF Pull
    <3>2. Len(journal[ChainOf(w)]) \in Nat
      BY Rows, LenProperties DEF ChainOf, Chain
    <3>3. old \in PassState
      BY <1>0, <3>2 DEF PassState, TypeOK
    <3>4. After(w, old).todo = {} /\ After(w, old).found = {} /\ After(w, old).at # "ingest"
      BY <3>3, AfterIsFree
    <3>5. /\ [r EXCEPT !.at = "ingest"].upto = Len(journal[ChainOf(w)])
          /\ [r EXCEPT !.at = "ingest"].found = {}
          /\ [r EXCEPT !.at = "ingest"].todo = worker[w].todo
      BY <1>0, <2>0 DEF PassState
    <3> HIDE DEF r, old
    <3>6. /\ worker'[w] = [r EXCEPT !.at = "ingest"] \/ worker'[w] = After(w, old)
          /\ \A v \in Worker \ {w} : worker'[v] = worker[v]
      BY <1>0, <3>1
    <3>7. UNCHANGED <<journal, stored>>
      BY <1>7 DEF Pull
    <3>8. /\ worker'[w].at = "ingest" => worker'[w].upto = Len(journal[ChainOf(w)])
          /\ worker'[w].found = {} /\ worker'[w].todo \subseteq worker[w].todo
      BY ONLY <3>4, <3>5, <3>6
    <3> QED
      BY ONLY <1>0, <1>1, <3>6, <3>7, <3>8
  <2> QED
    BY <2>1, <2>2
<1>8. CASE Ingest(w)
  <2> DEFINE c == ChainOf(w)
  <2>0. c \in Chain
    BY DEF ChainOf, Chain
  <2>1. CASE Gap(c, worker[w].from)
    <3>1. Fail(w) /\ UNCHANGED <<stored, journal>>
      BY <1>8, <2>1 DEF Ingest
    <3> QED
      BY <1>0, <3>1, FailMoves
  <2>2. CASE ~Gap(c, worker[w].from)
    <3> DEFINE new == {c} \X (Len(stored[c]) + 1 .. Len(stored'[c]))
    <3>0. worker[w].upto <= Len(journal[c])
      BY <1>8 DEF Ingest, Chained, PulledIsJournaled
    <3>1. /\ StoredAfter(c, worker[w]) \in Seq(Kind)
          /\ Len(stored[c]) <= Len(StoredAfter(c, worker[w]))
          /\ Len(StoredAfter(c, worker[w])) <= Len(journal[c])
      BY <1>0, <2>0, <2>2, <3>0, BatchExtends DEF Chained
    <3>2. /\ stored'[c] = StoredAfter(c, worker[w])
          /\ \A d \in Chain \ {c} : stored'[d] = stored[d]
      BY <1>8, <2>0, <2>2 DEF Ingest, TypeOK
    <3>3. \A d \in Chain : Len(stored[d]) <= Len(stored'[d])
      BY <1>0, <3>1, <3>2
    <3>4. new \subseteq Event
      <4>1. /\ Len(stored[c]) \in Nat /\ Len(stored'[c]) \in Nat
            /\ Len(journal[c]) \in Nat /\ MaxEvents[c] \in Nat
        BY <1>0, <2>0, <3>1, <3>2, Rows, LenProperties, BoundsAssumption
      <4>2. Len(stored'[c]) <= MaxEvents[c]
        BY <2>0, <3>1, <3>2, <4>1 DEF Chained, JournalBounded
      <4> QED
        BY <2>0, <4>1, <4>2 DEF Event
    <3>5. [worker[w] EXCEPT !.from = 0, !.todo = new] \in PassState
      BY <1>0, <3>4 DEF PassState
    <3>6. Proceed(w, [worker[w] EXCEPT !.from = 0, !.todo = new])
      BY <1>8, <2>2 DEF Ingest
    <3>7. /\ worker'[w].todo = new /\ worker'[w].at # "ingest"
          /\ worker'[w].found # {} => worker'[w].at \in {"decide", "correlate"}
          /\ \A v \in Worker \ {w} : worker'[v] = worker[v]
      BY <1>0, <3>5, <3>6, ProceedMoves DEF PassState
    <3>8. \A e \in new : e[2] <= Len(stored'[e[1]])
      BY <1>0, <2>0, <3>1, <3>2, LenProperties
    <3> QED
      BY <1>8, <3>3, <3>7, <3>8 DEF Ingest
  <2> QED
    BY <2>1, <2>2
<1>9. ASSUME NEW e \in worker[w].todo, Decide(w, e) PROVE Goal
  <2> DEFINE rest == [worker[w] EXCEPT !.todo = @ \ {e}]
  <2>1. \E r \in PassState : Proceed(w, r) /\ r.todo \subseteq worker[w].todo
    <3>1. \A more \in SUBSET (1..MaxSignals) :
              /\ [rest EXCEPT !.found = @ \cup more] \in PassState
              /\ [rest EXCEPT !.found = @ \cup more].todo \subseteq worker[w].todo
      BY <1>0 DEF PassState
    <3>2. rest \in PassState /\ rest.todo \subseteq worker[w].todo
      BY <1>0 DEF PassState
    <3>3. {signalOf[e]} \ {Ignored} \subseteq 1..MaxSignals \/ signalOf[e] = Undecided
      <4>1. signalOf[e] \in 0..MaxSignals + 1
        BY <1>0 DEF PassState, TypeOK
      <4> QED
        BY ONLY <4>1, SignalNumbers
    <3>4. \A s \in Joined(stored[e[1]][e[2]]) :
              {t \in {s} : Actionable(signals'[s], Cardinality(EventsOf(s)) + 1)}
                  \in SUBSET (1..MaxSignals)
      BY <1>0 DEF Joined
    <3> HIDE DEF rest
    <3>5. \/ Proceed(w, [rest EXCEPT !.found = @ \cup ({signalOf[e]} \ {Ignored})])
             /\ signalOf[e] # Undecided
          \/ Proceed(w, rest)
          \/ \E s \in Joined(stored[e[1]][e[2]]) :
                 Proceed(w, [rest EXCEPT !.found = @ \cup {t \in {s} :
                     Actionable(signals'[s], Cardinality(EventsOf(s)) + 1)}])
      BY <1>9 DEF Decide, rest
    <3> QED
      BY <3>1, <3>2, <3>3, <3>4, <3>5
  <2>2. PICK r \in PassState : Proceed(w, r) /\ r.todo \subseteq worker[w].todo
    BY <2>1
  <2>3. UNCHANGED <<stored, journal>>
    BY <1>9 DEF Decide, sensorVars
  <2> QED
    BY <1>0, <1>1, <2>2, <2>3, ProceedMoves
<1>10. CASE Correlate(w)
  <2>1. UNCHANGED <<stored, journal>>
    BY <1>10 DEF Correlate
  <2>2. CASE Fail(w)
    BY <1>0, <2>1, <2>2, FailMoves
  <2>3. CASE worker' = [worker EXCEPT ![w] = After(w, @)]
    BY <1>0, <2>1, <2>3, AfterIsFree
  <2> QED
    BY <1>10, <2>2, <2>3, CorrelatePlaces DEF Places
<1>11. CASE Save(w)
  <2>1. worker' = [worker EXCEPT ![w] = Idle]
    BY <1>11 DEF Save
  <2> QED
    BY <1>0, <1>11, <2>1 DEF Save, Idle
<1>12. CASE BreakOff(w)
  <2>1. UNCHANGED <<stored, journal>>
    BY <1>12 DEF BreakOff
  <2>2. CASE Fail(w)
    BY <1>0, <2>1, <2>2, FailMoves
  <2>3. CASE worker' = [worker EXCEPT ![w] = Idle]
    BY <1>0, <2>1, <2>3 DEF Idle
  <2> QED
    BY <1>12, <2>2, <2>3 DEF BreakOff
<1> QED
  BY <1>3, <1>4, <1>5, <1>6, <1>7, <1>8, <1>9, <1>10, <1>11, <1>12 DEF Pass

\* A batch is stored as the journal has it.
LEMMA PassStoresJournal ==
    ASSUME TypeOK, Chained, NEW w \in Worker, Pass(w) \/ BreakOff(w)
    PROVE  StoredIsJournaled'
<1>1. worker[w] \in PassState
  BY Rows
<1>2. CASE stored' = stored /\ journal' = journal
  BY <1>2 DEF Chained, StoredIsJournaled
<1>3. CASE Ingest(w) /\ ~Gap(ChainOf(w), worker[w].from)
  <2> DEFINE c == ChainOf(w)
  <2>1. c \in Chain
    BY DEF ChainOf, Chain
  <2>2. worker[w].upto <= Len(journal[c])
    BY <1>3 DEF Ingest, Chained, PulledIsJournaled
  <2>3. /\ Len(StoredAfter(c, worker[w])) <= Len(journal[c])
        /\ \A i \in 1..Len(StoredAfter(c, worker[w])) :
               StoredAfter(c, worker[w])[i] = journal[c][i].kind
    BY <1>1, <1>3, <2>1, <2>2, BatchExtends DEF Chained
  <2>4. /\ stored'[c] = StoredAfter(c, worker[w])
        /\ \A d \in Chain \ {c} : stored'[d] = stored[d]
        /\ journal' = journal
    BY <1>3, <2>1 DEF Ingest, TypeOK
  <2> QED
    BY <2>3, <2>4 DEF Chained, StoredIsJournaled
<1>4. (stored' = stored /\ journal' = journal) \/ (Ingest(w) /\ ~Gap(ChainOf(w), worker[w].from))
  <2>1. CASE Ingest(w)
    BY <2>1 DEF Ingest
  <2>2. CASE ~Ingest(w)
    BY <2>2 DEF Pass, BreakOff, StartCollection, StartRecovery, TakeReadySignals, ReadCursor, Pull,
                Decide, Correlate, Save, sensorVars
  <2> QED
    BY <2>1, <2>2
<1> QED
  BY <1>2, <1>3, <1>4

\* Nothing but the sensors writes the journals, and they only add to them.
LEMMA NextChained ==
    ASSUME TypeOK, Chained, InHands, [Next]_vars
    PROVE  Chained' /\ InHands'
<1> DEFINE Goal == Chained' /\ InHands'
<1>0. /\ journal \in [Chain -> Seq(Entry)]
      /\ \A c \in Chain : Len(journal[c]) \in Nat /\ Len(stored[c]) \in Nat /\ MaxEvents[c] \in Nat
      /\ \A w \in Worker : ChainOf(w) \in Chain
      /\ \A w \in Worker : worker[w].upto \in Nat
      /\ Zeek \in Chain /\ Box \in Chain
  BY Rows, LenProperties, BoundsAssumption DEF TypeOK, ChainOf, Chain, PassState
<1>1. ASSUME NEW c \in Chain, NEW k \in Kind, NEW p \in 0..MaxPolicy, Observe(c, k, p) PROVE Goal
  <2> DEFINE entry == [kind |-> k, policy |-> p]
             n == Len(journal[c])
  <2>1. entry \in Entry /\ n \in Nat
    BY <1>0 DEF Entry
  <2>2. journal'[c] = Append(journal[c], entry)
    BY <1>0, <1>1 DEF Observe
  <2>3. /\ Len(journal'[c]) = n + 1
        /\ \A i \in 1..n : journal'[c][i] = journal[c][i]
        /\ journal'[c][n + 1] = entry
    BY <1>0, <2>1, <2>2, AppendProperties
  <2> HIDE DEF entry
  <2>4. \A d \in Chain \ {c} : journal'[d] = journal[d]
    BY <1>0, <1>1 DEF Observe
  <2>5. UNCHANGED <<stored, worker>> /\ n < MaxEvents[c]
    BY <1>1 DEF Observe
  <2>6. JournalBounded'
    <3>1. Len(journal'[c]) <= MaxEvents[c]
      BY <1>0, <2>1, <2>3, <2>5
    <3> QED
      BY <2>4, <3>1 DEF Chained, JournalBounded
  <2>7. StoredIsJournaled'
    <3>1. Len(stored[c]) <= n
      BY DEF Chained, StoredIsJournaled
    <3>2. \A i \in 1..Len(stored[c]) : stored[c][i] = journal'[c][i].kind
      <4>1. \A i \in 1..Len(stored[c]) : i \in 1..n
        BY <1>0, <2>1, <3>1
      <4>2. \A i \in 1..Len(stored[c]) : stored[c][i] = journal[c][i].kind
        BY DEF Chained, StoredIsJournaled
      <4> QED
        BY <2>3, <4>1, <4>2
    <3>3. Len(stored[c]) <= Len(journal'[c])
      BY <1>0, <2>1, <2>3, <3>1
    <3>4. \A d \in Chain \ {c} :
              /\ Len(stored[d]) <= Len(journal'[d])
              /\ \A i \in 1..Len(stored[d]) : stored[d][i] = journal'[d][i].kind
      BY <2>4 DEF Chained, StoredIsJournaled
    <3> QED
      BY <2>5, <3>2, <3>3, <3>4 DEF StoredIsJournaled
  <2>8. PulledIsJournaled'
    BY <1>0, <2>1, <2>3, <2>4, <2>5 DEF Chained, PulledIsJournaled, ChainOf
  <2>9. InHands'
    BY <2>5 DEF InHands, TodoIsStored, HandsAreFree
  <2> QED
    BY <2>6, <2>7, <2>8, <2>9 DEF Chained
<1>2. ASSUME UNCHANGED <<journal, stored, worker>>
      PROVE  Goal
  BY <1>2 DEF Chained, JournalBounded, StoredIsJournaled, PulledIsJournaled, InHands,
              TodoIsStored, HandsAreFree
<1>3. CASE SwitchBundle \/ RecordHealth \/ IncidentStep \/ UNCHANGED vars
  <2>1. UNCHANGED <<journal, stored, worker>>
    BY <1>3 DEF SwitchBundle, RecordHealth, IncidentStep, SignalCalms, AdvanceIdle, MoveIncident,
                AssignEvent, vars, sensorVars
  <2> QED
    BY <1>2, <2>1
<1>4. ASSUME NEW w \in Worker, Pass(w) \/ BreakOff(w) PROVE Goal
  <2>1. /\ \A v \in Worker \ {w} : worker'[v] = worker[v]
        /\ worker'[w].at = "ingest" => worker'[w].upto = Len(journal[ChainOf(w)])
        /\ worker'[w].found # {} => worker'[w].at \in {"decide", "correlate"}
        /\ \A e \in worker'[w].todo : e[2] <= Len(stored'[e[1]])
        /\ \A c \in Chain : Len(stored[c]) <= Len(stored'[c])
        /\ journal' = journal
    BY <1>4, PassMoves
  <2>2. StoredIsJournaled'
    BY <1>4, PassStoresJournal
  <2>3. JournalBounded'
    BY <2>1 DEF Chained, JournalBounded
  <2>4. PulledIsJournaled'
    <3> SUFFICES ASSUME NEW v \in Worker
                 PROVE  worker'[v].at = "ingest" => worker'[v].upto <= Len(journal'[ChainOf(v)])
      BY DEF PulledIsJournaled, ChainOf
    <3>1. CASE v = w
      BY <1>0, <2>1, <3>1 DEF ChainOf
    <3>2. CASE v # w
      BY <2>1, <3>2 DEF Chained, PulledIsJournaled, ChainOf
    <3> QED
      BY <3>1, <3>2
  <2>5. TodoIsStored'
    <3>1. ASSUME NEW v \in Worker \ {w}, NEW e \in worker[v].todo
          PROVE  e[2] <= Len(stored'[e[1]])
      <4>1. e \in Event
        BY Rows DEF PassState
      <4>2. e[1] \in Chain /\ e[2] \in Nat
        BY <1>0, <4>1, EventPlaces
      <4>3. e[2] <= Len(stored[e[1]]) /\ Len(stored[e[1]]) <= Len(stored'[e[1]])
        BY <2>1, <4>2 DEF InHands, TodoIsStored
      <4>4. Len(stored'[e[1]]) \in Int
        <5>1. Len(stored'[e[1]]) <= Len(journal'[e[1]]) /\ stored'[e[1]] \in Seq(Kind)
          BY <1>4, <2>2, <4>2, CollectTypeOK, DecideTypeOK, CorrelateTypeOK
             DEF StoredIsJournaled, Pass, TypeOK
        <5> QED
          BY <5>1, LenProperties
      <4> QED
        BY <1>0, <4>2, <4>3, <4>4
    <3> QED
      BY <2>1, <3>1 DEF TodoIsStored
  <2>6. HandsAreFree'
    BY <2>1 DEF InHands, HandsAreFree
  <2> QED
    BY <2>2, <2>3, <2>4, <2>5, <2>6 DEF Chained, InHands
<1> QED
  BY <1>1, <1>3, <1>4 DEF Next, IncidentStep

-----------------------------------------------------------------------------
(* The signals an Agent was told of.                                       *)

\* A signal that gets more events has reached its threshold still.
LEMMA ReachedStays ==
    ASSUME TypeOK, TypeOK', NEW s \in DOMAIN signals, s \in DOMAIN signals',
           signals'[s].rule = signals[s].rule, EventsOf(s) \subseteq EventsOf(s)', Reached(s)
    PROVE  Reached(s)'
<1>1. IsFiniteSet(EventsOf(s)') /\ IsFiniteSet(EventsOf(s))
  BY EventsAreFinite, FS_Subset DEF EventsOf
<1>2. Cardinality(EventsOf(s)) <= Cardinality(EventsOf(s)')
  BY <1>1, FS_Subset
<1>3. Cardinality(EventsOf(s)) \in Nat /\ Cardinality(EventsOf(s)') \in Nat
  BY <1>1, FS_CardinalityType
<1>4. Threshold[signals[s].rule] \in Nat
  <2>1. signals[s] \in Signal
    BY Rows
  <2> QED
    BY <2>1, RuleAssumption DEF Signal
<1> QED
  BY <1>2, <1>3, <1>4 DEF Reached

\* A step that neither decides nor correlates keeps what pairs of signals and events say;
\* what a pass has in hand it keeps or drops.
LEMMA Bystanders ==
    ASSUME TypeOK, TypeOK', Notified, UNCHANGED <<signals, signalOf>>,
           \A e \in Event : linked[e] # Nothing => linked'[e] # Nothing,
           \A v \in Worker : worker[v].found \subseteq worker'[v].found \cup dropped',
           dropped \subseteq dropped'
    PROVE  Notified'
<1>1. \A s : EventsOf(s)' = EventsOf(s)
  BY DEF EventsOf
<1>2. NotifiedIsReady'
  BY <1>1, ReachedStays DEF Notified, NotifiedIsReady, Due
<1>3. NotifiedSignalIsComplete'
  <2> SUFFICES ASSUME NEW s \in DOMAIN signals, signals[s].status = "notified",
                      NEW e \in EventsOf(s)
               PROVE  \/ linked'[e] # Nothing \/ s \in dropped'
                      \/ \E w \in Worker : s \in worker'[w].found
    BY <1>1 DEF NotifiedSignalIsComplete
  <2>1. e \in Event
    BY DEF EventsOf
  <2> QED
    BY <2>1 DEF Notified, NotifiedSignalIsComplete
<1> QED
  BY <1>2, <1>3 DEF Notified

\* An event that joins a signal an Agent was told of comes in hand: the signal is ready.
LEMMA DecideNotified ==
    ASSUME TypeOK, TypeOK', InHands, Notified, NEW w \in Worker, NEW e \in worker[w].todo,
           Decide(w, e)
    PROVE  Notified'
<1> DEFINE r == worker[w]
           rule == stored[e[1]][e[2]]
           rest == [r EXCEPT !.todo = @ \ {e}]
<1>0. /\ r \in PassState /\ rest \in PassState /\ rest.found = r.found
      /\ e \in Event /\ r.found \subseteq 1..MaxSignals
      /\ worker \in [Worker -> PassState] /\ DOMAIN signals \subseteq 1..MaxSignals
      /\ DOMAIN signals = 1..Len(signals)
      /\ UNCHANGED <<linked, dropped>>
  BY Rows DEF PassState, Decide, incidentVars
<1>1. ASSUME NEW more \in SUBSET (1..MaxSignals), Proceed(w, [rest EXCEPT !.found = @ \cup more])
      PROVE  /\ worker'[w].found = r.found \cup more
             /\ \A v \in Worker \ {w} : worker'[v] = worker[v]
  <2>1. /\ [rest EXCEPT !.found = @ \cup more] \in PassState
        /\ [rest EXCEPT !.found = @ \cup more].found = r.found \cup more
    BY <1>0 DEF PassState
  <2> QED
    BY <1>0, <1>1, <2>1, ProceedMoves
<1>2. CASE signalOf[e] # Undecided
  <2>1. {signalOf[e]} \ {Ignored} \subseteq 1..MaxSignals
    <3>1. signalOf[e] \in 0..MaxSignals + 1
      BY <1>0 DEF TypeOK
    <3> QED
      BY ONLY <1>2, <3>1, SignalNumbers
  <2>2. /\ UNCHANGED <<signals, signalOf>>
        /\ Proceed(w, [rest EXCEPT !.found = @ \cup ({signalOf[e]} \ {Ignored})])
    BY <1>2 DEF Decide, signalVars
  <2>3. \A v \in Worker : worker[v].found \subseteq worker'[v].found
    <3> HIDE DEF rest
    <3> QED
      BY <1>1, <2>1, <2>2
  <2> QED
    BY <1>0, <2>2, <2>3, Bystanders
<1>3. CASE signalOf[e] = Undecided /\ rule = Nothing
  <2>1. Proceed(w, rest) /\ signals' = signals /\ signalOf' = [signalOf EXCEPT ![e] = Ignored]
    BY <1>3 DEF Decide
  <2>2. \A v \in Worker : worker[v].found \subseteq worker'[v].found
    BY <1>0, <2>1, ProceedMoves
  <2>3. \A s \in DOMAIN signals : EventsOf(s)' = EventsOf(s)
    <3>1. \A s \in DOMAIN signals : s # Ignored /\ s # Undecided
      BY <1>0, BoundsAssumption DEF Ignored, Undecided
    <3> QED
      BY <1>3, <2>1, <3>1 DEF EventsOf, TypeOK
  <2>4. NotifiedIsReady'
    BY <2>1, <2>3, ReachedStays DEF Notified, NotifiedIsReady, Due
  <2>5. NotifiedSignalIsComplete'
    BY <1>0, <2>1, <2>2, <2>3 DEF Notified, NotifiedSignalIsComplete
  <2> QED
    BY <2>4, <2>5 DEF Notified
<1>4. CASE signalOf[e] = Undecided /\ rule # Nothing
  <2>1. PICK s \in Joined(rule) :
            /\ signals' = IF s \in DOMAIN signals THEN signals
                          ELSE Append(signals, NewSignal(rule))
            /\ signalOf' = [signalOf EXCEPT ![e] = s]
            /\ Proceed(w, [rest EXCEPT !.found = @ \cup {t \in {s} :
                   Actionable(signals'[s], Cardinality(EventsOf(s)) + 1)}])
    BY <1>4 DEF Decide
  <2> DEFINE more == {t \in {s} : Actionable(signals'[s], Cardinality(EventsOf(s)) + 1)}
  <2>2. s \in 1..MaxSignals /\ more \in SUBSET (1..MaxSignals)
    BY <1>0 DEF Joined
  <2>3. /\ worker'[w].found = r.found \cup more
        /\ \A v \in Worker \ {w} : worker'[v] = worker[v]
    <3> HIDE DEF rest
    <3> QED
      BY <1>1, <2>1, <2>2
  <2>4. /\ EventsOf(s)' = EventsOf(s) \cup {e}
        /\ \A t \in DOMAIN signals \ {s} : EventsOf(t)' = EventsOf(t)
    <3>1. \A t \in DOMAIN signals : t # Undecided
      BY <1>0 DEF Undecided
    <3>2. \A d \in Event : signalOf'[d] = IF d = e THEN s ELSE signalOf[d]
      BY <2>1 DEF TypeOK
    <3> QED
      BY <1>0, <1>4, <3>1, <3>2 DEF EventsOf
  <2>5. \A t \in DOMAIN signals' : signals'[t].status = "notified" =>
            t \in DOMAIN signals /\ signals'[t] = signals[t]
    <3>1. CASE s \in DOMAIN signals
      BY <2>1, <3>1
    <3>2. CASE s \notin DOMAIN signals
      <4>1. s = Len(signals) + 1 /\ Len(signals) \in Nat
        BY <3>2, Rows, LenProperties DEF Joined
      <4>2. signals' = Append(signals, NewSignal(rule)) /\ signals \in Seq(Signal)
        BY <2>1, <3>2, Rows
      <4>3. signals' \in Seq(Signal) /\ DOMAIN signals' = 1..Len(signals')
        BY LenProperties DEF TypeOK
      <4>4. /\ Len(signals') = Len(signals) + 1
            /\ \A t \in 1..Len(signals) : signals'[t] = signals[t]
            /\ signals'[Len(signals) + 1] = NewSignal(rule)
        BY <4>1, <4>2
      <4>5. NewSignal(rule).status = "open"
        BY DEF NewSignal
      <4> QED
        BY <1>0, <4>1, <4>3, <4>4, <4>5
    <3> QED
      BY <3>1, <3>2
  <2>6. NotifiedIsReady'
    <3> SUFFICES ASSUME NEW t \in DOMAIN signals', signals'[t].status = "notified"
                 PROVE  Due(t)' /\ Reached(t)'
      BY DEF NotifiedIsReady
    <3>1. t \in DOMAIN signals /\ signals'[t] = signals[t]
      BY <2>5
    <3>2. Due(t) /\ Reached(t)
      BY <3>1 DEF Notified, NotifiedIsReady
    <3>3. EventsOf(t) \subseteq EventsOf(t)'
      BY <2>4, <3>1
    <3> QED
      BY <3>1, <3>2, <3>3, ReachedStays DEF Due
  <2>7. NotifiedSignalIsComplete'
    <3> SUFFICES ASSUME NEW t \in DOMAIN signals', signals'[t].status = "notified",
                        NEW d \in EventsOf(t)'
                 PROVE  \/ linked[d] # Nothing \/ t \in dropped
                        \/ \E v \in Worker : t \in worker'[v].found
      BY <1>0 DEF NotifiedSignalIsComplete
    <3>1. t \in DOMAIN signals /\ signals'[t] = signals[t]
      BY <2>5
    <3>2. CASE d \in EventsOf(t)
      BY <2>3, <3>1, <3>2 DEF Notified, NotifiedSignalIsComplete
    <3>3. CASE d \notin EventsOf(t)
      <4>1. t = s
        BY <2>4, <3>1, <3>3
      <4>2. Due(t) /\ Reached(t)
        BY <3>1 DEF Notified, NotifiedIsReady
      <4>3. Cardinality(EventsOf(t)) \in Nat /\ Threshold[signals[t].rule] \in Nat
        <5>1. signals[t] \in Signal
          BY <3>1, Rows
        <5> QED
          BY <5>1, RuleAssumption, EventsAreFinite, FS_Subset, FS_CardinalityType DEF Signal, EventsOf
      <4>4. Actionable(signals'[t], Cardinality(EventsOf(t)) + 1)
        BY <3>1, <4>2, <4>3 DEF Actionable, Due, Reached
      <4> QED
        BY <2>3, <4>1, <4>4
    <3> QED
      BY <3>2, <3>3
  <2> QED
    BY <2>6, <2>7 DEF Notified
<1> QED
  BY <1>2, <1>3, <1>4

\* The correlation links every event of a signal in hand that reached its threshold.
LEMMA CorrelateNotified ==
    ASSUME TypeOK, TypeOK', Notified, NEW w \in Worker, Correlate(w)
    PROVE  Notified'
<1>0. /\ worker \in [Worker -> PassState] /\ row \in SensorRow
      /\ Nothing \notin Incident
  BY Rows, NothingAssumption
<1>1. CASE Fail(w) /\ UNCHANGED <<signals, linked, incident, upsets, signalOf, stored>>
  BY <1>0, <1>1, FailMoves, Bystanders
<1>2. ASSUME NEW place \in [InHand(w) -> Incident], NEW refused \in SUBSET Incident,
             Places(w, place, refused)
      PROVE  Notified'
  <2>1. \A s : EventsOf(s)' = EventsOf(s)
    BY <1>2 DEF Places, EventsOf
  <2>2. /\ DOMAIN signals' = DOMAIN signals
        /\ \A s \in DOMAIN signals :
               /\ signals'[s].rule = signals[s].rule /\ signals'[s].calm = signals[s].calm
               /\ signals'[s].status = "notified" =>
                      signals[s].status = "notified" \/ (s \in InHand(w) /\ Due(s))
    <3>1. \A s \in DOMAIN signals : signals[s] \in Signal
      BY Rows
    <3> QED
      BY <1>2, <3>1 DEF Places, SignalsAfter, Told, Signal
  <2>3. NotifiedIsReady'
    <3> SUFFICES ASSUME NEW s \in DOMAIN signals, signals'[s].status = "notified"
                 PROVE  Due(s)' /\ Reached(s)'
      BY <2>2 DEF NotifiedIsReady
    <3>1. Due(s) /\ Reached(s)
      BY <2>2 DEF Notified, NotifiedIsReady, InHand
    <3> QED
      BY <2>1, <2>2, <3>1, ReachedStays DEF Due
  <2>4. NotifiedSignalIsComplete'
    <3> SUFFICES ASSUME NEW s \in DOMAIN signals, signals'[s].status = "notified",
                        NEW e \in EventsOf(s)
                 PROVE  \/ linked'[e] # Nothing \/ s \in dropped
                        \/ \E v \in Worker : s \in worker'[v].found
      BY <1>2, <2>1, <2>2 DEF NotifiedSignalIsComplete, Places
    <3>0. e \in Event /\ signalOf[e] = s
      BY DEF EventsOf
    <3>1. CASE s \in InHand(w)
      BY <1>0, <1>2, <3>0, <3>1 DEF Places
    <3>2. CASE s \notin InHand(w)
      <4>1. signals[s].status = "notified"
        BY <2>2, <3>2
      <4>2. s \notin worker[w].found
        BY <3>2, <4>1 DEF InHand, Notified, NotifiedIsReady
      <4>3. \A v \in Worker \ {w} : worker'[v] = worker[v]
        BY <1>0, <1>2 DEF Places
      <4>4. linked[e] # Nothing => linked'[e] # Nothing
        BY <1>2, <3>0 DEF Places
      <4> QED
        BY <4>1, <4>2, <4>3, <4>4 DEF Notified, NotifiedSignalIsComplete
    <3> QED
      BY <3>1, <3>2
  <2> QED
    BY <2>3, <2>4 DEF Notified
<1> QED
  BY <1>1, <1>2, CorrelatePlaces

\* No other step forgets an event of a signal.
LEMMA NextNotified ==
    ASSUME TypeOK, TypeOK', Chained, InHands, Notified, [Next]_vars
    PROVE  Notified'
<1>0. worker \in [Worker -> PassState] /\ row \in SensorRow
  BY Rows
<1>1. CASE SensorStep \/ UNCHANGED vars
  <2>1. UNCHANGED <<signals, signalOf, linked, worker, dropped>>
    BY <1>1 DEF SensorStep, Observe, SwitchBundle, RecordHealth, vars,
                signalVars, incidentVars
  <2> QED
    BY <2>1, Bystanders
<1>2. ASSUME NEW w \in Worker,
             \/ StartCollection(w) \/ StartRecovery(w) \/ TakeReadySignals(w) \/ ReadCursor(w)
             \/ Pull(w) \/ Ingest(w) \/ Save(w) \/ BreakOff(w)
      PROVE  Notified'
  <2>1. UNCHANGED <<signals, signalOf, linked>>
    BY <1>2 DEF StartCollection, StartRecovery, TakeReadySignals, ReadCursor, Pull, Ingest, Save,
                BreakOff, signalVars, incidentVars
  <2>2. \A v \in Worker \ {w} : worker'[v] = worker[v]
    BY <1>2, PassMoves DEF Pass
  <2>3. CASE dropped' = dropped /\ worker[w].found = {}
    BY <2>1, <2>2, <2>3, Bystanders
  <2>4. CASE dropped' = dropped \cup worker[w].found
    BY <2>1, <2>2, <2>4, Bystanders
  <2>5. worker[w].at \notin {"decide", "correlate"} => worker[w].found = {}
    BY DEF InHands, HandsAreFree
  <2>6. CASE Fail(w) \/ BreakOff(w)
    BY <2>4, <2>6 DEF Fail, BreakOff
  <2>7. CASE ~Fail(w) /\ ~BreakOff(w)
    <3>1. dropped' = dropped /\ worker[w].at \notin {"decide", "correlate"}
      BY <1>2, <2>7 DEF StartCollection, StartRecovery, TakeReadySignals, ReadCursor, Pull, Ingest, Save
    <3> QED
      BY <2>3, <2>5, <3>1
  <2> QED
    BY <2>6, <2>7
<1>3. ASSUME NEW w \in Worker, Pass(w) \/ BreakOff(w) PROVE Notified'
  BY <1>2, <1>3, DecideNotified, CorrelateNotified DEF Pass
<1>4. ASSUME NEW s \in DOMAIN signals, SignalCalms(s) PROVE Notified'
  <2>1. \A t \in DOMAIN signals : signals[t] \in Signal
    BY Rows
  <2>2. /\ DOMAIN signals' = DOMAIN signals
        /\ \A t \in DOMAIN signals :
               /\ signals'[t].rule = signals[t].rule /\ signals'[t].status = signals[t].status
               /\ Due(t) => Due(t)'
    BY <1>4, <2>1 DEF SignalCalms, Signal, Due
  <2>3. /\ UNCHANGED <<signalOf, linked, worker, dropped>>
        /\ \A t : EventsOf(t)' = EventsOf(t)
    BY <1>4 DEF SignalCalms, incidentVars, EventsOf
  <2>4. NotifiedIsReady'
    BY <2>2, <2>3, ReachedStays DEF Notified, NotifiedIsReady
  <2>5. NotifiedSignalIsComplete'
    BY <2>2, <2>3 DEF Notified, NotifiedSignalIsComplete
  <2> QED
    BY <2>4, <2>5 DEF Notified
<1>5. ASSUME NEW i \in Incident, NEW status, MoveIncident(i, status) PROVE Notified'
  BY <1>5, Bystanders DEF MoveIncident, signalVars
<1>6. ASSUME NEW e \in Event, NEW i \in Incident, AssignEvent(e, i) PROVE Notified'
  <2>1. \A d \in Event : linked[d] # Nothing => linked'[d] # Nothing
    BY <1>6, NothingAssumption DEF AssignEvent, TypeOK
  <2> QED
    BY <1>6, <2>1, Bystanders DEF AssignEvent, signalVars
<1> QED
  BY <1>1, <1>3, <1>4, <1>5, <1>6 DEF Next, SensorStep, AdvanceIdle

-----------------------------------------------------------------------------
(* The theorems.                                                           *)

\* The invariant holds before the first event ...
LEMMA InitIInv == Init => IInv
<1> SUFFICES ASSUME Init PROVE IInv
  OBVIOUS
<1>1. TypeOK
  BY InitTypeOK
<1>2. \A c \in Chain : journal[c] = <<>> /\ stored[c] = <<>>
  BY DEF Init
<1>3. \A w \in Worker : worker[w] = Idle
  BY DEF Init
<1>4. \A c \in Chain : MaxEvents[c] \in Nat
  BY BoundsAssumption
<1>5. JournalBounded /\ StoredIsJournaled
  BY <1>2, <1>4 DEF JournalBounded, StoredIsJournaled, Chain
<1>6. PulledIsJournaled /\ InHands
  BY <1>3 DEF PulledIsJournaled, InHands, TodoIsStored, HandsAreFree, Idle
<1>7. Notified
  BY DEF Init, Notified, NotifiedIsReady, NotifiedSignalIsComplete
<1> QED
  BY <1>1, <1>5, <1>6, <1>7 DEF IInv, Chained

\* ... and every step keeps it.
LEMMA NextIInv == IInv /\ [Next]_vars => IInv'
<1> SUFFICES ASSUME IInv, [Next]_vars PROVE IInv'
  OBVIOUS
<1> USE DEF IInv
<1>1. TypeOK'
  <2>1. CASE UNCHANGED vars
    BY <2>1 DEF TypeOK, vars, sensorVars, signalVars, incidentVars
  <2>2. ASSUME NEW w \in Worker, Pass(w) \/ BreakOff(w) PROVE TypeOK'
    BY <2>2, CollectTypeOK, DecideTypeOK, CorrelateTypeOK DEF Pass
  <2> QED
    BY <2>1, <2>2, SensorTypeOK, IncidentTypeOK DEF Next, SensorStep, IncidentStep
<1>2. Chained' /\ InHands'
  BY NextChained
<1>3. Notified'
  BY <1>1, NextNotified
<1> QED
  BY <1>1, <1>2, <1>3

\* The inductive invariant holds of every state the loops and the sensors reach.
THEOREM Invariance == Spec => []IInv
BY InitIInv, NextIInv, PTL DEF Spec

\* Journals, rows, signals, incidents and passes keep their types.
THEOREM TypeCorrect == Spec => []TypeOK
<1>1. IInv => TypeOK
  BY DEF IInv
<1> QED
  BY <1>1, Invariance, PTL

\* What is stored of a chain is the beginning of the sensor's journal, for any number of
\* loops that pull it from any position and break off anywhere.
THEOREM ChainUnbrokenAlways == Spec => []ChainUnbroken
<1>1. IInv => ChainUnbroken
  <2> SUFFICES ASSUME IInv, NEW c \in Chain
               PROVE  /\ Len(stored[c]) <= Len(journal[c])
                      /\ stored[c] = SubSeq(Journal(c), 1, Len(stored[c]))
    BY DEF ChainUnbroken
  <2> DEFINE n == Len(stored[c])
             start == SubSeq(Journal(c), 1, n)
  <2>1. /\ stored[c] \in Seq(Kind) /\ n \in Nat /\ n <= Len(journal[c])
        /\ Len(journal[c]) \in Nat
        /\ \A i \in 1..n : stored[c][i] = journal[c][i].kind
    BY JournalKinds, LenProperties DEF IInv, Chained, StoredIsJournaled, TypeOK
  <2>2. \A i \in 1..n : Journal(c)[i] \in Kind /\ Journal(c)[i] = stored[c][i]
    BY <2>1, JournalKinds, ElementOfSeq DEF IInv
  <2>3. start \in Seq(Kind) /\ Len(start) = n /\ \A i \in 1..n : start[i] = Journal(c)[i]
    <3>1. 1 \in Int /\ n \in Int
      BY <2>1
    <3>2. /\ start \in Seq(Kind) /\ Len(start) = IF 1 <= n THEN n - 1 + 1 ELSE 0
          /\ \A i \in 1 .. n - 1 + 1 : start[i] = Journal(c)[1 + i - 1]
      BY <2>2, <3>1, SubSeqProperties
    <3> HIDE DEF start
    <3> QED
      BY <2>1, <3>2
  <2>4. stored[c] = start
    <3> HIDE DEF start
    <3> QED
      BY <2>1, <2>2, <2>3, SeqEqual
  <2> QED
    BY <2>1, <2>4
<1> QED
  BY <1>1, Invariance, PTL

\* Every event of a signal an Agent was told of belongs to an incident, is about to, or was
\* in the hands of a pass that broke off; for any number of loops and thresholds.
THEOREM NotifiedSignalIsCompleteAlways == Spec => []NotifiedSignalIsComplete
<1>1. IInv => NotifiedSignalIsComplete
  BY DEF IInv, Notified
<1> QED
  BY <1>1, Invariance, PTL

\* A closed incident gains only events of signals that were its own.
THEOREM ClosedGainsOnlyItsSignalsAlways == Spec => ClosedGainsOnlyItsSignals
<1> DEFINE Gains == \A e \in Event :
                        linked'[e] # linked[e] /\ incident[linked'[e]] = "closed" =>
                            signals[signalOf[e]].incident = linked'[e]
<1>1. TypeOK /\ [Next]_vars => [Gains]_vars
  <2> SUFFICES ASSUME TypeOK, Next PROVE Gains
    BY DEF vars, incidentVars
  <2>1. ASSUME NEW w \in Worker, Correlate(w) PROVE Gains
    <3>1. ASSUME NEW place \in [InHand(w) -> Incident], NEW refused \in SUBSET Incident,
                 Places(w, place, refused)
          PROVE  Gains
      BY <3>1 DEF Places, MatchOrNew, Opened
    <3>2. CASE linked' = linked
      BY <3>2
    <3> QED
      BY <2>1, <3>1, <3>2, CorrelatePlaces
  <2>2. ASSUME NEW e \in Event, NEW i \in Incident, AssignEvent(e, i) PROVE Gains
    BY <2>2 DEF AssignEvent, Opened, TypeOK
  <2>3. CASE linked' = linked
    BY <2>3
  <2>4. ASSUME NEW w \in Worker, Pass(w) \/ BreakOff(w), ~Correlate(w) PROVE linked' = linked
    BY <2>4 DEF Pass, StartCollection, StartRecovery, TakeReadySignals, ReadCursor, Pull, Ingest,
                Decide, Save, BreakOff, incidentVars
  <2>5. CASE SensorStep \/ (\E s \in DOMAIN signals : SignalCalms(s))
             \/ (\E i \in Incident : AdvanceIdle(i) \/ \E status \in IncidentStatus : MoveIncident(i, status))
    BY <2>3, <2>5 DEF SensorStep, Observe, SwitchBundle, RecordHealth,
                      SignalCalms, AdvanceIdle, MoveIncident, incidentVars
  <2> QED
    BY <2>1, <2>2, <2>3, <2>4, <2>5 DEF Next, SensorStep
<1>2. Spec => []TypeOK
  BY TypeCorrect
<1> QED
  BY <1>1, <1>2, PTL DEF Spec, ClosedGainsOnlyItsSignals
=============================================================================
