----------------------- MODULE AgentEventStream_proofs -----------------------
(***************************************************************************)
(* Proofs about AgentEventStream, for any segments, texts, events, queue   *)
(* sizes, replay limits and pages, and any number of lost connections and  *)
(* restarts: the cursor of a client never passes an event it does not      *)
(* have, and when its stream is quiet it has every event that was          *)
(* announced, or one past the gap that it is to fill, and shows no segment *)
(* that has ended.                                                         *)
(*                                                                         *)
(* The argument follows an event from its commit to the client.  A         *)
(* publisher holds the events of its last transaction until it broadcasts  *)
(* them (CommitInv).  What was broadcast is in the client, in the flow     *)
(* towards it, or below the head that its replay will reach (HeadInv), and *)
(* at most once (OnceInv).  A segment that is shown, or that a delta in    *)
(* the flow will show, is still open or is ended by an event later in that *)
(* flow (ShownInv, DeltaInv); that a segment is not ended before its task  *)
(* is done with it is TaskInv.                                             *)
(*                                                                         *)
(* Two facts about data are needed that a prover cannot reach by           *)
(* induction: that bounded sets of numbers have a highest element, and     *)
(* what the recursive function of Offered returns.  Both are proved by     *)
(* looking at the least number for which they would fail.                  *)
(***************************************************************************)
EXTENDS AgentEventStream, SequenceTheorems, FiniteSetTheorems, WellFoundedInduction, TLAPS

-----------------------------------------------------------------------------
(* The inductive invariant.                                                *)

\* The events that end a segment.
Ends(g) == {n \in 1..Len(journal) : journal[n] = g}

\* A segment is open in the rows while its Attempt may stream it, and no event ends it
\* until then; what the task has not broadcast yet ends segments of its own.
TaskInv ==
    /\ attempt.phase \in {"created", "sending", "recording"} => attempt.segment \in attempt.open
    /\ attempt.phase \in {"created", "sending"} => row[attempt.segment].status = "streaming"
    /\ attempt.phase = "recording" => row[attempt.segment].status = "completed"
    /\ attempt.phase \notin {"none", "streaming"} => unpublished["task"] = {}
    /\ attempt.phase # "none" =>
          \A n \in unpublished["task"] : journal[n] \in attempt.open \cup {NoSegment}
    /\ \A g \in Segment :
          /\ row[g].status = "absent" => Ends(g) = {}
          /\ row[g].status = "streaming" /\ attempt.phase # "canceled" => Ends(g) = {}

\* An interrupt has finitely many segments to end.
FiniteInv == IsFiniteSet({g \in Segment : row[g].status = "streaming"})

\* A publisher broadcasts the events of one transaction, and nobody else does.
CommitInv ==
    /\ \A p \in Publisher : \E a, b \in Nat : unpublished[p] = a..b
    /\ unpublished["task"] \cap unpublished["handler"] = {}

\* What is in the queue before the replay is over.
LinkInv ==
    /\ link # "up" => sub = NoSubscription /\ ack = {}
    /\ sub.stage # "ready" => sub.replaying /\ ack = {}
    /\ ~sub.replaying => ack = {} /\ sub.pending = <<>>
    /\ ack \subseteq {0, client.cursor}
    /\ \A i \in 1..Len(sub.queue) : sub.queue[i].type = "hello" =>
          Len(sub.queue) = 1 /\ sub.stage = "ready" /\ sub.replaying /\ ~sub.closed /\ ack = {}
    /\ sub.replaying => \A i \in 1..Len(sub.queue) :
          sub.queue[i].type \in (IF sub.closed THEN {"rebase_required", "end"} ELSE {"hello"})

\* Frames name events that are committed, and a replay joins what the client has.
FrameFits(f) ==
    /\ f.type = "event" => f.seq \in 1..Len(journal)
    /\ f.type = "replay" => f.from \in 1..(client.cursor + 1) /\ f.to = sub.head

Fit == {f \in Frame : FrameFits(f)}
LiveFit == {f \in Fit : f.type \in {"event", "delta"}}

FramesFit == sub.queue \in Seq(Fit) /\ sub.pending \in Seq(LiveFit)

\* The live frames of a subscription on their way to the client, in their order.
Flow == IF sub.replaying THEN sub.pending ELSE sub.queue
Open == sub.stage \in {"reading", "ready"} /\ ~sub.closed

Brings(f, n) == f.type = "event" /\ f.seq = n
Reaches(f, n) == (f.type = "event" /\ f.seq >= n) \/ (f.type = "replay" /\ f.to >= n)

\* The client has all that was announced, or it holds or is about to get an event as
\* recent as any of it.
HeadInv ==
    Open => \/ published <= (IF sub.replaying THEN sub.head ELSE client.cursor)
            \/ \E i \in 1..Len(Flow) : Reaches(Flow[i], published)
            \/ ~sub.replaying /\ \E n \in client.held : n >= published

\* An event past the replay is to be broadcast, or on its way once, or held.
OnceInv ==
    Open =>
        /\ sub.replaying => \A n \in client.held : n <= sub.head
        /\ \A n \in (sub.head + 1)..Len(journal) :
              /\ \A p \in Publisher : n \in unpublished[p] =>
                    n \notin client.held /\ \A i \in 1..Len(Flow) : ~Brings(Flow[i], n)
              /\ \A i \in 1..Len(Flow) : Brings(Flow[i], n) =>
                    /\ n \notin client.held
                    /\ \A j \in 1..Len(Flow) : Brings(Flow[j], n) => j = i

\* A segment that is open, or that ended with an event the task is yet to broadcast.
Alive(g) ==
    \/ row[g].status = "streaming"
    \/ attempt.phase = "recording" /\ attempt.segment = g
    \/ attempt.phase = "canceled" /\ g \in attempt.open
    \/ \E n \in unpublished["task"] : journal[n] = g /\ n > sub.head

Ending(f, g) == f.type = "event" /\ f.seq > sub.head /\ journal[f.seq] = g

\* After place i of the flow comes the end of the segment, or it is still to come.
Later(i, g) == \E j \in 1..Len(Flow) : j > i /\ Ending(Flow[j], g)
Owed(g, i) == Alive(g) \/ Later(i, g)

\* A delta on its way is of a segment whose end comes after it; before the replay it may
\* be one the replay ends.
EndsInReplay(g) ==
    /\ sub.replaying
    /\ \E n \in Ends(g) : sub.stage = "registered" \/ n <= sub.head

DeltaInv ==
    sub.stage # "none" /\ ~sub.closed =>
        \A i \in 1..Len(Flow) : Flow[i].type = "delta" =>
            /\ sub.replaying => \A n \in Ends(Flow[i].segment) : n > client.cursor
            /\ Owed(Flow[i].segment, i) \/ EndsInReplay(Flow[i].segment)

\* So it is with what the client shows, or will after the hello.
Shown == IF sub.replaying /\ sub.queue # <<>> THEN sub.queue[1].segments.shown ELSE client.shown
ShownInv == sub.stage = "ready" /\ ~sub.closed => \A g \in Shown : Owed(g, 0)

IInv ==
    /\ TypeOK /\ TaskInv /\ FiniteInv /\ CommitInv
    /\ LinkInv /\ FramesFit /\ CursorSkipsNothing
    /\ HeadInv /\ OnceInv /\ DeltaInv /\ ShownInv

-----------------------------------------------------------------------------
(* Numbers.                                                                *)

\* A set of numbers that is not empty has a least one.
LEMMA LeastExists ==
    ASSUME NEW T, T \subseteq Nat, T # {}
    PROVE  \E x \in T : \A y \in T : x <= y
<1> DEFINE R == OpToRel(<, Nat)
<1>1. IsWellFoundedOn(R, Nat)
  BY NatLessThanWellFounded
<1>2. PICK x \in T : \A y \in T : <<y, x>> \notin R
  <2> HIDE DEF R
  <2> QED
    BY <1>1, WFMin
<1>3. \A y \in T : ~(y < x)
  BY <1>2 DEF OpToRel
<1> QED
  BY <1>3

\* ... and a bounded one has a highest.
LEMMA HighestIsIn ==
    ASSUME NEW S, S \subseteq Nat, S # {}, NEW b \in Nat, \A n \in S : n <= b
    PROVE  Highest(S) \in S /\ \A n \in S : n <= Highest(S)
<1> DEFINE T == {b - n : n \in S}
<1>1. T \subseteq Nat /\ T # {}
  OBVIOUS
<1>2. PICK x \in T : \A y \in T : x <= y
  <2> HIDE DEF T
  <2> QED
    BY <1>1, LeastExists
<1>3. PICK m \in S : x = b - m
  BY <1>2
<1>4. \A n \in S : n <= m
  <2> TAKE n \in S
  <2>1. x <= b - n /\ n \in Nat /\ m \in Nat
    BY <1>2
  <2> QED
    BY <1>3, <2>1
<1>5. \E n \in S : \A k \in S : k <= n
  BY <1>4
<1> QED
  BY <1>5 DEF Highest

\* Consecutive events are broadcast one after the other.
LEMMA FramesOfInterval ==
    ASSUME NEW a \in Nat, NEW b \in Nat
    PROVE  EventFrames(a..b) = [k \in 1..(IF a > b THEN 0 ELSE b - a + 1) |-> Event(a + k - 1)]
<1> DEFINE S == a..b
           below(i) == Cardinality({n \in S : n < i})
<1>1. Cardinality(S) = IF a > b THEN 0 ELSE b - a + 1
  BY FS_Interval
<1>2. \A i \in S : below(i) = i - a
  <2> TAKE i \in S
  <2>1. {n \in S : n < i} = a..(i - 1)
    OBVIOUS
  <2>2. Cardinality(a..(i - 1)) = IF a > i - 1 THEN 0 ELSE (i - 1) - a + 1
    BY FS_Interval
  <2>3. below(i) = Cardinality(a..(i - 1))
    BY <2>1
  <2>4. (IF a > i - 1 THEN 0 ELSE (i - 1) - a + 1) = i - a
    OBVIOUS
  <2> QED
    BY <2>2, <2>3, <2>4
<1>3. \A k \in 1..Cardinality(S) : (CHOOSE i \in S : below(i) = k - 1) = a + k - 1
  <2> TAKE k \in 1..Cardinality(S)
  <2>1. a + k - 1 \in S
    BY <1>1
  <2> HIDE DEF below
  <2>2. \A i \in S : below(i) = k - 1 <=> i = a + k - 1
    BY <1>2
  <2> DEFINE c == CHOOSE i \in S : below(i) = k - 1
  <2>3. c \in S /\ below(c) = k - 1
    <3>1. \E i \in S : below(i) = k - 1
      BY <2>1, <2>2
    <3> HIDE DEF S
    <3> QED
      BY <3>1, Zenon
  <2>4. c \in Nat /\ k \in Nat /\ below(c) = c - a
    BY <1>1, <1>2, <2>3
  <2> HIDE DEF below, c
  <2>5. c = a + k - 1
    BY <2>3, <2>4
  <2> QED
    BY <2>5 DEF c
<1>4. EventFrames(S) = [k \in 1..Cardinality(S) |-> Event(CHOOSE i \in S : below(i) = k - 1)]
  BY DEF EventFrames
<1>5. EventFrames(S) = [k \in 1..Cardinality(S) |-> Event(a + k - 1)]
  <2> HIDE DEF S, below
  <2> QED
    BY <1>3, <1>4, Zenon
<1> QED
  BY <1>1, <1>5

-----------------------------------------------------------------------------
(* What a recursion over the kept frames returns.                          *)

IsFold(f, item, N) == f = [i \in 0..N |-> IF i = 0 THEN <<>> ELSE f[i - 1] \o item[i]]

\* A function that appends item after item exists for any number of items.
LEMMA FoldExists ==
    ASSUME NEW item, NEW N \in Nat
    PROVE  \E f : IsFold(f, item, N)
<1> DEFINE Bad == {n \in Nat : ~ \E f : IsFold(f, item, n)}
<1> SUFFICES ASSUME Bad # {} PROVE FALSE
  OBVIOUS
<1>1. PICK n \in Bad : \A m \in Bad : n <= m
  BY LeastExists
<1>2. n # 0
  <2> DEFINE f == [i \in 0..0 |-> <<>>]
  <2>1. IsFold(f, item, 0)
    BY DEF IsFold
  <2> QED
    BY <1>1, <2>1
<1>3. n - 1 \in Nat /\ n - 1 \notin Bad
  BY <1>1, <1>2
<1>4. PICK g : IsFold(g, item, n - 1)
  BY <1>3
<1> DEFINE f == [i \in 0..n |-> IF i = n THEN g[n - 1] \o item[n] ELSE g[i]]
<1>5. \A i \in 0..n : f[i] = IF i = 0 THEN <<>> ELSE f[i - 1] \o item[i]
  <2> TAKE i \in 0..n
  <2>1. CASE i = n
    BY <1>1, <1>2, <2>1
  <2>2. CASE i # n
    <3>1. i \in 0..(n - 1) /\ f[i] = g[i] /\ (i # 0 => i - 1 \in 0..(n-1) /\ f[i - 1] = g[i - 1])
      BY <1>1, <2>2
    <3> HIDE DEF f
    <3> QED
      BY <1>4, <3>1 DEF IsFold
  <2> QED
    BY <2>1, <2>2
<1>6. IsFold(f, item, n)
  <2>1. f = [i \in 0..n |-> f[i]]
    OBVIOUS
  <2> HIDE DEF f
  <2> QED
    BY <1>5, <2>1 DEF IsFold
<1> QED
  BY <1>1, <1>6

\* An increasing map says which items the folded sequence is made of.
Sources(src, items, out, N) ==
    /\ src \in [1..Len(out) -> 1..N]
    /\ \A k \in 1..Len(out) : items[src[k]] = <<out[k]>>
    /\ \A j \in 1..Len(out) : \A k \in 1..Len(out) : j < k => src[j] < src[k]
    /\ \A i \in 1..N : items[i] # <<>> => \E k \in 1..Len(out) : src[k] = i

\* What it returns consists of the items that are kept, each from a place of its own, in
\* order.
LEMMA FoldHasSources ==
    ASSUME NEW S, NEW N \in Nat, NEW item \in [1..N -> Seq(S)],
           \A i \in 1..N : item[i] = <<>> \/ \E x \in S : item[i] = <<x>>,
           NEW f, IsFold(f, item, N)
    PROVE  \A i \in 0..N : f[i] \in Seq(S) /\ \E src : Sources(src, item, f[i], i)
<1> DEFINE Good(i) == f[i] \in Seq(S) /\ \E src : Sources(src, item, f[i], i)
           Bad == {i \in 0..N : ~Good(i)}
<1> SUFFICES ASSUME Bad # {} PROVE FALSE
  OBVIOUS
<1>1. PICK n \in Bad : \A m \in Bad : n <= m
  <2>1. Bad \subseteq Nat
    OBVIOUS
  <2> HIDE DEF Bad
  <2> QED
    BY <2>1, LeastExists
<1>0. \A i \in 0..N : f[i] = IF i = 0 THEN <<>> ELSE f[i - 1] \o item[i]
  BY DEF IsFold
<1>2. n # 0
  <2>1. f[0] = <<>> /\ Len(f[0]) = 0
    BY <1>0, EmptySeq, SMTT(15), ZenonT(25)
  <2>2. Sources([k \in 1..0 |-> 0], item, f[0], 0)
    BY <2>1 DEF Sources
  <2> QED
    BY <1>1, <2>1, <2>2, EmptySeq
<1>3. /\ n \in 1..N /\ n - 1 \in 0..N /\ Good(n - 1) /\ ~Good(n)
      /\ f[n] = f[n - 1] \o item[n] /\ item[n] \in Seq(S)
  <2>1. n \in 1..N /\ n - 1 \in 0..N /\ n - 1 < n /\ ~Good(n)
    BY <1>1, <1>2
  <2>2. n - 1 \notin Bad
    <3>1. n - 1 \in Bad => n <= n - 1
      BY <1>1
    <3> QED
      BY <2>1, <3>1
  <2>3. Good(n - 1)
    BY <2>1, <2>2
  <2>4. f[n] = f[n - 1] \o item[n]
    <3>1. n \in 0..N
      BY <2>1
    <3> QED
      BY <1>0, <1>2, <3>1
  <2> HIDE DEF Good
  <2> QED
    BY <2>1, <2>3, <2>4
<1>4. PICK src : Sources(src, item, f[n - 1], n - 1)
  BY <1>3
<1> DEFINE s == f[n - 1]
<1>5. Len(s) \in Nat /\ s \in Seq(S)
  BY <1>3, LenProperties
<1>0a. /\ src \in [1..Len(s) -> 1..(n - 1)]
       /\ \A k \in 1..Len(s) : item[src[k]] = <<s[k]>>
       /\ \A j \in 1..Len(s) : \A k \in 1..Len(s) : j < k => src[j] < src[k]
       /\ \A i \in 1..(n - 1) : item[i] # <<>> => \E k \in 1..Len(s) : src[k] = i
  BY <1>4 DEF Sources
<1>0b. f[n] = s \o item[n] /\ ~Good(n) /\ n \in 1..N
  BY <1>3
<1> HIDE DEF s, Bad
<1>6. CASE item[n] = <<>>
  <2>1. f[n] = s
    BY <1>0b, <1>5, <1>6, ConcatEmptySeq
  <2>2. src \in [1..Len(s) -> 1..n]
    BY <1>0a, <1>0b
  <2>3. Sources(src, item, s, n)
    <3>1. \A i \in 1..n : i = n \/ i \in 1..(n - 1)
      BY <1>0b
    <3>2. \A i \in 1..n : item[i] # <<>> => \E k \in 1..Len(s) : src[k] = i
      BY <1>0a, <1>6, <3>1
    <3> QED
      BY <1>0a, <2>2, <3>2 DEF Sources
  <2> QED
    BY <1>0b, <1>5, <2>1, <2>3
<1>7. ASSUME NEW x \in S, item[n] = <<x>>
      PROVE  FALSE
  <2>1. f[n] = s \o <<x>> /\ <<x>> \in Seq(S) /\ Len(<<x>>) = 1 /\ <<x>>[1] = x
    BY <1>0b, <1>7
  <2>2. /\ f[n] \in Seq(S) /\ Len(f[n]) = Len(s) + 1
        /\ \A k \in 1..(Len(s) + 1) : f[n][k] = IF k <= Len(s) THEN s[k] ELSE x
    <3>1. /\ s \o <<x>> \in Seq(S) /\ Len(s \o <<x>>) = Len(s) + 1
          /\ \A k \in 1..(Len(s) + 1) : (s \o <<x>>)[k] = IF k <= Len(s) THEN s[k] ELSE <<x>>[k - Len(s)]
      BY <1>5, <2>1, ConcatProperties
    <3> QED
      BY <1>5, <2>1, <3>1
  <2> DEFINE t == [k \in 1..(Len(s) + 1) |-> IF k <= Len(s) THEN src[k] ELSE n]
  <2>3. Sources(t, item, f[n], n)
    <3>0. Len(f[n]) = Len(s) + 1 /\ f[n][Len(s) + 1] = x
      <4>1. Len(s) + 1 \in 1..(Len(s) + 1) /\ ~(Len(s) + 1 <= Len(s))
        BY <1>5
      <4> QED
        BY <2>2, <4>1
    <3>d. \A k \in 1..Len(s) : f[n][k] = s[k]
      <4> TAKE k \in 1..Len(s)
      <4>1. k \in 1..(Len(s) + 1) /\ k <= Len(s)
        BY <1>5
      <4> QED
        BY <2>2, <4>1
    <3>b. /\ t[Len(s) + 1] = n /\ \A k \in 1..Len(s) : t[k] = src[k]
          /\ DOMAIN t = 1..(Len(s) + 1)
      BY <1>5
    <3>c. \A k \in 1..Len(s) : src[k] \in 1..(n - 1)
      BY <1>0a
    <3>1. t \in [1..Len(f[n]) -> 1..n]
      BY <1>0a, <1>0b, <1>5, <2>2
    <3>a. \A k \in 1..Len(f[n]) : k = Len(s) + 1 \/ k \in 1..Len(s)
      BY <1>5, <3>0
    <3> HIDE DEF t
    <3>2. \A k \in 1..Len(f[n]) : item[t[k]] = <<f[n][k]>>
      BY <1>0a, <1>7, <3>0, <3>a, <3>b, <3>d
    <3>3. \A j \in 1..Len(f[n]) : \A k \in 1..Len(f[n]) : j < k => t[j] < t[k]
      <4> SUFFICES ASSUME NEW j \in 1..Len(f[n]), NEW k \in 1..Len(f[n]), j < k
                   PROVE  t[j] < t[k]
        OBVIOUS
      <4>1. j \in 1..Len(s)
        BY <1>5, <3>0
      <4>2. CASE k = Len(s) + 1
        <5>1. t[j] \in 1..(n - 1) /\ t[k] = n
          BY <3>b, <3>c, <4>1, <4>2
        <5> QED
          BY <1>0b, <5>1
      <4>3. CASE k \in 1..Len(s)
        BY <1>0a, <3>b, <4>1, <4>3
      <4> QED
        BY <3>a, <4>2, <4>3
    <3>4. \A i \in 1..n : item[i] # <<>> => \E k \in 1..Len(f[n]) : t[k] = i
      <4> SUFFICES ASSUME NEW i \in 1..n, item[i] # <<>>
                   PROVE  \E k \in 1..Len(f[n]) : t[k] = i
        OBVIOUS
      <4>1. CASE i = n
        <5>1. Len(s) + 1 \in 1..Len(f[n])
          BY <1>5, <3>0
        <5> QED
          BY <3>b, <4>1, <5>1
      <4>2. CASE i # n
        <5>1. i \in 1..(n - 1)
          BY <1>0b, <4>2
        <5>2. PICK k \in 1..Len(s) : src[k] = i
          BY <1>0a, <5>1
        <5>3. k \in 1..Len(f[n])
          BY <1>5, <3>0
        <5> QED
          BY <3>b, <5>2, <5>3
      <4> QED
        BY <4>1, <4>2
    <3> QED
      BY <3>1, <3>2, <3>3, <3>4 DEF Sources
  <2> QED
    BY <1>0b, <2>2, <2>3
<1> QED
  BY <1>3, <1>6, <1>7

-----------------------------------------------------------------------------
(* Frames and subscriptions.                                               *)

\* Every place of two sequences in a row is one of the first or one of the second.
LEMMA ConcatPlaces ==
    ASSUME NEW S, NEW s \in Seq(S), NEW t \in Seq(S)
    PROVE  /\ Len(s \o t) = Len(s) + Len(t)
           /\ \A i \in 1..Len(s) : i \in 1..Len(s \o t) /\ (s \o t)[i] = s[i]
           /\ \A i \in 1..Len(t) : Len(s) + i \in 1..Len(s \o t) /\ (s \o t)[Len(s) + i] = t[i]
           /\ \A i \in 1..Len(s \o t) : i \in 1..Len(s) \/ \E k \in 1..Len(t) : i = Len(s) + k
<1> DEFINE c == s \o t
<1>1. Len(s) \in Nat /\ Len(t) \in Nat
  BY LenProperties
<1>2. /\ Len(c) = Len(s) + Len(t)
      /\ \A i \in 1..(Len(s) + Len(t)) : c[i] = IF i <= Len(s) THEN s[i] ELSE t[i - Len(s)]
  BY ConcatProperties
<1> HIDE DEF c
<1>3. \A i \in 1..Len(s) : i \in 1..Len(c) /\ c[i] = s[i]
  BY <1>1, <1>2
<1>4. \A i \in 1..Len(t) : Len(s) + i \in 1..Len(c) /\ c[Len(s) + i] = t[i]
  <2> TAKE i \in 1..Len(t)
  <2>1. Len(s) + i \in 1..(Len(s) + Len(t)) /\ ~(Len(s) + i <= Len(s)) /\ Len(s) + i - Len(s) = i
    BY <1>1
  <2> QED
    BY <1>2, <2>1
<1>5. ASSUME NEW i \in 1..Len(c), i \notin 1..Len(s) PROVE \E k \in 1..Len(t) : i = Len(s) + k
  <2>1. i - Len(s) \in 1..Len(t) /\ i = Len(s) + (i - Len(s))
    BY <1>1, <1>2, <1>5
  <2> QED
    BY <2>1
<1> QED
  BY <1>2, <1>3, <1>4, <1>5 DEF c

\* The fields of a frame by its type.
LEMMA FrameFields ==
    ASSUME NEW f \in Frame
    PROVE  /\ f.type \in {"hello", "replay", "event", "delta", "rebase_required", "end"}
           /\ f.type = "hello" => f.segments \in [shown : SUBSET Segment, text : [Segment -> Text]]
           /\ f.type = "replay" => f.from \in Nat /\ f.to \in Nat
           /\ f.type = "event" => f.seq \in Nat
           /\ f.type = "delta" => f.segment \in Segment /\ f.from \in Text /\ f.to \in Text
BY DEF Frame, Rebase, End

\* The frames the server makes have their types and fields.
LEMMA FramesOfServer ==
    /\ Rebase \in Frame /\ Rebase.type = "rebase_required"
    /\ End \in Frame /\ End.type = "end"
    /\ \A n \in Nat : Event(n) \in Frame /\ Event(n).type = "event" /\ Event(n).seq = n
    /\ \A a, b \in Nat : /\ Replay(a, b) \in Frame /\ Replay(a, b).type = "replay"
                         /\ Replay(a, b).from = a /\ Replay(a, b).to = b
    /\ \A g \in Segment, a, b \in Text :
          /\ Delta(g, a, b) \in Frame /\ Delta(g, a, b).type = "delta" /\ Delta(g, a, b).segment = g
    /\ \A x \in [shown : SUBSET Segment, text : [Segment -> Text]] :
          Hello(x) \in Frame /\ Hello(x).type = "hello" /\ Hello(x).segments = x
<1>1. Rebase \in Frame /\ Rebase.type = "rebase_required" /\ End \in Frame /\ End.type = "end"
  BY DEF Rebase, End, Frame
<1>2. \A n \in Nat : Event(n) \in Frame /\ Event(n).type = "event" /\ Event(n).seq = n
  BY DEF Event, Frame
<1>3. \A a, b \in Nat : /\ Replay(a, b) \in Frame /\ Replay(a, b).type = "replay"
                        /\ Replay(a, b).from = a /\ Replay(a, b).to = b
  BY DEF Replay, Frame
<1>4. \A g \in Segment, a, b \in Text :
          /\ Delta(g, a, b) \in Frame /\ Delta(g, a, b).type = "delta" /\ Delta(g, a, b).segment = g
  BY DEF Delta, Frame
<1>5. \A x \in [shown : SUBSET Segment, text : [Segment -> Text]] :
          Hello(x) \in Frame /\ Hello(x).type = "hello" /\ Hello(x).segments = x
  BY DEF Hello, Frame
<1> QED
  BY <1>1, <1>2, <1>3, <1>4, <1>5

\* Two subscriptions that differ in their frames and whether they are closed.
Alike(t, s) == t.stage = s.stage /\ t.replaying = s.replaying /\ t.head = s.head /\ t.offset = s.offset

\* A subscription that overflows keeps its place and has only its end to send.
LEMMA Overflowed ==
    ASSUME NEW s \in Subscription, NEW S \in SUBSET Frame, Rebase \in S, End \in S
    PROVE  /\ Overflow(s) \in Subscription /\ Alike(Overflow(s), s)
           /\ Overflow(s).closed /\ Overflow(s).pending = <<>> /\ Overflow(s).queue = <<Rebase, End>>
           /\ Overflow(s).queue \in Seq(S) /\ Len(Overflow(s).queue) <= QueueSize
<1>1. <<Rebase, End>> \in Seq(S) /\ <<Rebase, End>> \in Seq(Frame) /\ Len(<<Rebase, End>>) = 2 /\ <<>> \in Seq(Frame)
  OBVIOUS
<1>2. QueueSize \in Nat /\ QueueSize >= 2
  BY LimitAssumption
<1> QED
  BY <1>1, <1>2 DEF Overflow, Subscription, Alike

\* A frame is offered to a queue that has room, and left out otherwise.
LEMMA OfferedOne ==
    ASSUME NEW s \in Subscription, NEW S \in SUBSET Frame, s.queue \in Seq(S), NEW f \in S,
           Len(s.queue) <= QueueSize
    PROVE  /\ Offer(s, f) \in Subscription /\ Alike(Offer(s, f), s)
           /\ Offer(s, f).closed = s.closed /\ Offer(s, f).pending = s.pending
           /\ Offer(s, f).queue \in Seq(S) /\ Len(Offer(s, f).queue) <= QueueSize
           /\ Len(s.queue) < QueueSize => Offer(s, f).queue = Append(s.queue, f)
<1>1. QueueSize \in Nat /\ Len(s.queue) \in Nat
  BY LimitAssumption, LenProperties
<1>2. Append(s.queue, f) \in Seq(S) /\ Len(Append(s.queue, f)) = Len(s.queue) + 1
  BY AppendProperties
<1>3. Append(s.queue, f) \in Seq(Frame)
  BY <1>2, SeqMonotonic
<1>4. CASE Len(s.queue) < QueueSize
  <2>1. Offer(s, f) = [s EXCEPT !.queue = Append(s.queue, f)]
    BY <1>4 DEF Offer
  <2>2. /\ [s EXCEPT !.queue = Append(s.queue, f)] \in Subscription
        /\ Offer(s, f).queue = Append(s.queue, f) /\ Offer(s, f).pending = s.pending
        /\ Offer(s, f).closed = s.closed /\ Alike(Offer(s, f), s)
    BY <1>3, <2>1 DEF Subscription, Alike
  <2> QED
    BY <1>1, <1>2, <1>4, <2>1, <2>2
<1>5. CASE ~(Len(s.queue) < QueueSize)
  <2>1. Offer(s, f) = s
    BY <1>5 DEF Offer
  <2> QED
    BY <1>5, <2>1 DEF Alike
<1> QED
  BY <1>4, <1>5

\* Frames are put into the queue all together, or the subscription overflows.
LEMMA Enqueued ==
    ASSUME NEW s \in Subscription, NEW S \in SUBSET Frame, Rebase \in S, End \in S,
           s.queue \in Seq(S), NEW frames \in Seq(S), Len(s.queue) <= QueueSize
    PROVE  /\ Enqueue(s, frames) \in Subscription /\ Alike(Enqueue(s, frames), s)
           /\ Enqueue(s, frames).queue \in Seq(S) /\ Len(Enqueue(s, frames).queue) <= QueueSize
           /\ s.closed => Enqueue(s, frames) = s
           /\ ~s.closed => \/ Enqueue(s, frames) = Overflow(s)
                           \/ /\ ~Enqueue(s, frames).closed /\ Enqueue(s, frames).pending = s.pending
                              /\ Enqueue(s, frames).queue = s.queue \o frames
           /\ ~s.closed /\ Len(s.queue) + Len(frames) <= QueueSize =>
                 ~Enqueue(s, frames).closed /\ Enqueue(s, frames).queue = s.queue \o frames
<1>1. QueueSize \in Nat /\ Len(s.queue) \in Nat /\ Len(frames) \in Nat
  BY LimitAssumption, LenProperties
<1>2. s.queue \o frames \in Seq(S) /\ Len(s.queue \o frames) = Len(s.queue) + Len(frames)
  BY ConcatProperties
<1>3. s.queue \o frames \in Seq(Frame)
  BY <1>2, SeqMonotonic
<1>4. CASE s.closed
  <2>1. Enqueue(s, frames) = s
    BY <1>4 DEF Enqueue
  <2> QED
    BY <1>4, <2>1 DEF Alike
<1>5. CASE ~s.closed /\ Len(s.queue) + Len(frames) <= QueueSize
  <2>1. Enqueue(s, frames) = [s EXCEPT !.queue = s.queue \o frames]
    BY <1>5 DEF Enqueue
  <2> QED
    BY <1>1, <1>2, <1>3, <1>5, <2>1 DEF Subscription, Alike
<1>6. CASE ~s.closed /\ ~(Len(s.queue) + Len(frames) <= QueueSize)
  <2>1. Enqueue(s, frames) = Overflow(s)
    BY <1>6 DEF Enqueue
  <2> QED
    BY <1>6, <2>1, Overflowed
<1> QED
  BY <1>4, <1>5, <1>6

\* A subscription that is cut off asks for a rebase and ends, within the bound of its
\* queue.
LEMMA ClosedAfterRebase ==
    ASSUME NEW s \in Subscription, NEW S \in SUBSET Frame, Rebase \in S, End \in S,
           s.queue \in Seq(S), Len(s.queue) <= QueueSize
    PROVE  /\ CloseAfterRebase(s) \in Subscription /\ Alike(CloseAfterRebase(s), s)
           /\ CloseAfterRebase(s).closed
           /\ s.pending = <<>> => CloseAfterRebase(s).pending = <<>>
           /\ CloseAfterRebase(s).queue \in Seq(S) /\ Len(CloseAfterRebase(s).queue) <= QueueSize
<1> DEFINE u == Enqueue(s, <<Rebase>>)
           v == [u EXCEPT !.closed = TRUE]
<1>1. <<Rebase>> \in Seq(S)
  OBVIOUS
<1>2. /\ u \in Subscription /\ Alike(u, s) /\ u.queue \in Seq(S) /\ Len(u.queue) <= QueueSize
      /\ s.pending = <<>> => u.pending = <<>>
  <2> HIDE DEF u
  <2>1. u = Enqueue(s, <<Rebase>>)
    BY DEF u
  <2> QED
    BY <1>1, <2>1, Enqueued, Overflowed
<1>3. /\ v \in Subscription /\ Alike(v, s) /\ v.closed /\ v.queue \in Seq(S) /\ Len(v.queue) <= QueueSize
      /\ s.pending = <<>> => v.pending = <<>>
  <2> HIDE DEF u
  <2> QED
    BY <1>2 DEF Subscription, Alike
<1>4. CloseAfterRebase(s) = Offer(v, End)
  BY DEF CloseAfterRebase
<1> HIDE DEF v
<1> QED
  BY <1>3, <1>4, OfferedOne DEF Alike

\* What a broadcast does to a subscription.
Appended(t, s, frames) ==
    /\ s.stage # "none" /\ ~s.closed /\ ~t.closed /\ Alike(t, s)
    /\ IF s.replaying THEN t.pending = s.pending \o frames /\ t.queue = s.queue
                      ELSE t.queue = s.queue \o frames /\ t.pending = s.pending

\* A subscription that receives frames is untouched, has overflowed, or has appended
\* them.
LEMMA Received ==
    ASSUME NEW s \in Subscription, NEW frames \in Seq(Frame),
           Len(s.queue) <= QueueSize, Len(s.pending) <= QueueSize
    PROVE  /\ Receiving(s, frames) \in Subscription
           /\ Len(Receiving(s, frames).queue) <= QueueSize /\ Len(Receiving(s, frames).pending) <= QueueSize
           /\ \/ (s.stage = "none" \/ s.closed) /\ Receiving(s, frames) = s
              \/ s.stage # "none" /\ Receiving(s, frames) = Overflow(s)
              \/ Appended(Receiving(s, frames), s, frames)
<1>1. /\ QueueSize \in Nat /\ Len(<<>>) = 0 /\ Rebase \in Frame /\ End \in Frame
      /\ s.queue \in Seq(Frame) /\ s.pending \in Seq(Frame)
  BY LimitAssumption, FramesOfServer DEF Subscription
<1>2. CASE s.stage = "none" \/ s.closed
  <2>1. Receiving(s, frames) = s
    BY <1>2 DEF Receiving
  <2> QED
    BY <1>2, <2>1
<1>3. CASE s.stage # "none" /\ ~s.closed /\ ~s.replaying
  <2>1. Receiving(s, frames) = Enqueue(s, frames)
    BY <1>3 DEF Receiving
  <2>2. Enqueue(s, frames) = Overflow(s) => Len(Enqueue(s, frames).pending) <= QueueSize
    BY <1>1, Overflowed
  <2> QED
    BY <1>1, <1>3, <2>1, <2>2, Enqueued DEF Appended
<1>4. CASE s.stage # "none" /\ ~s.closed /\ s.replaying /\ Len(s.pending) + Len(frames) <= QueueSize
  <2>1. Receiving(s, frames) = [s EXCEPT !.pending = s.pending \o frames]
    BY <1>4 DEF Receiving, Kept
  <2>2. s.pending \o frames \in Seq(Frame) /\ Len(s.pending \o frames) = Len(s.pending) + Len(frames)
    BY <1>1, ConcatProperties
  <2> QED
    BY <1>1, <1>4, <2>1, <2>2 DEF Subscription, Appended, Alike
<1>5. CASE s.stage # "none" /\ ~s.closed /\ s.replaying /\ ~(Len(s.pending) + Len(frames) <= QueueSize)
  <2>1. Receiving(s, frames) = Overflow(s)
    BY <1>5 DEF Receiving, Kept
  <2> QED
    BY <1>1, <1>5, <2>1, Overflowed
<1> QED
  BY <1>2, <1>3, <1>4, <1>5

-----------------------------------------------------------------------------
(* Type correctness.                                                       *)

\* The fields of the rows, the task, the subscription and the client.
LEMMA Typed ==
    ASSUME TypeOK
    PROVE  /\ Len(journal) \in Nat /\ DOMAIN journal = 1..Len(journal)
           /\ \A n \in 1..Len(journal) : journal[n] \in Segment \cup {NoSegment}
           /\ \A g \in Segment : row[g].status \in SegmentStatus /\ row[g].text \in Text
           /\ attempt.phase \in Phase /\ attempt.segment \in Segment \cup {NoSegment}
           /\ attempt.open \subseteq Segment /\ attempt.text \in [Segment -> Text]
           /\ attempt.delta \in Text \X Text
           /\ \A p \in Publisher : unpublished[p] \subseteq 1..Len(journal)
           /\ published \in Nat /\ published <= Len(journal)
           /\ sub.stage \in {"none", "registered", "reading", "ready"} /\ sub.replaying \in BOOLEAN
           /\ sub.head \in Nat /\ sub.head <= Len(journal) /\ sub.offset \in [Segment -> Text]
           /\ sub.pending \in Seq(Frame) /\ sub.queue \in Seq(Frame) /\ sub.closed \in BOOLEAN
           /\ client.held \subseteq 1..Len(journal) /\ client.cursor \in Nat
           /\ client.cursor <= Len(journal) /\ client.before \in Nat
           /\ client.shown \subseteq Segment /\ client.text \in [Segment -> Text]
           /\ client.rebase \in BOOLEAN
<1>1. journal \in Seq(Segment \cup {NoSegment})
  BY DEF TypeOK
<1>2. Len(journal) \in Nat /\ DOMAIN journal = 1..Len(journal)
      /\ \A n \in 1..Len(journal) : journal[n] \in Segment \cup {NoSegment}
  BY <1>1, LenProperties, ElementOfSeq
<1>3. \A g \in Segment : row[g].status \in SegmentStatus /\ row[g].text \in Text
  BY DEF TypeOK, Row
<1>4. /\ attempt.phase \in Phase /\ attempt.segment \in Segment \cup {NoSegment}
      /\ attempt.open \subseteq Segment /\ attempt.text \in [Segment -> Text]
      /\ attempt.delta \in Text \X Text
  BY DEF TypeOK, Attempt
<1>5. (\A p \in Publisher : unpublished[p] \subseteq 1..Len(journal))
      /\ published \in Nat /\ published <= Len(journal)
  BY <1>2 DEF TypeOK
<1>6. /\ sub.stage \in {"none", "registered", "reading", "ready"} /\ sub.replaying \in BOOLEAN
      /\ sub.head \in Nat /\ sub.head <= Len(journal) /\ sub.offset \in [Segment -> Text]
      /\ sub.pending \in Seq(Frame) /\ sub.queue \in Seq(Frame) /\ sub.closed \in BOOLEAN
  BY DEF TypeOK, Subscription
<1>7. /\ client.held \subseteq 1..Len(journal) /\ client.cursor \in Nat
      /\ client.cursor <= Len(journal) /\ client.before \in Nat
      /\ client.shown \subseteq Segment /\ client.text \in [Segment -> Text]
      /\ client.rebase \in BOOLEAN
  BY DEF TypeOK, Store
<1> QED
  BY <1>2, <1>3, <1>4, <1>5, <1>6, <1>7

\* Lengths of texts are numbers.
LEMMA TextTypes == Text \subseteq Nat /\ 0 \in Text /\ NoText \in [Segment -> Text]
BY BoundsAssumption DEF Text, NoText

\* Where the types of the journal and of what the others know of it stay.
LEMMA JournalTypes ==
    ASSUME TypeOK, NEW p \in Publisher, NEW events \in Seq(Segment \cup {NoSegment}), Commit(p, events)
    PROVE  /\ journal' \in Seq(Segment \cup {NoSegment})
           /\ Len(journal') = Len(journal) + Len(events) /\ Len(events) \in Nat
           /\ \A n \in 1..Len(journal) : journal'[n] = journal[n]
           /\ \A i \in 1..Len(events) : journal'[Len(journal) + i] = events[i]
           /\ unpublished' \in [Publisher -> SUBSET (1..Len(journal'))]
           /\ unpublished'[p] = (Len(journal) + 1)..Len(journal')
           /\ \A q \in Publisher : q # p => unpublished'[q] = unpublished[q]
<1>1. journal' = journal \o events /\ journal \in Seq(Segment \cup {NoSegment})
      /\ unpublished' = [unpublished EXCEPT ![p] = (Len(journal) + 1)..(Len(journal) + Len(events))]
      /\ unpublished \in [Publisher -> SUBSET (1..Len(journal))]
  BY DEF Commit, TypeOK
<1>2. Len(journal) \in Nat /\ Len(events) \in Nat
  BY <1>1, LenProperties
<1>3. /\ journal' \in Seq(Segment \cup {NoSegment}) /\ Len(journal') = Len(journal) + Len(events)
      /\ \A i \in 1..(Len(journal) + Len(events)) :
            journal'[i] = IF i <= Len(journal) THEN journal[i] ELSE events[i - Len(journal)]
  BY <1>1, ConcatProperties
<1>4. \A n \in 1..Len(journal) : journal'[n] = journal[n]
  BY <1>2, <1>3
<1>5. \A i \in 1..Len(events) : journal'[Len(journal) + i] = events[i]
  <2> TAKE i \in 1..Len(events)
  <2>1. Len(journal) + i \in 1..(Len(journal) + Len(events)) /\ ~(Len(journal) + i <= Len(journal))
        /\ Len(journal) + i - Len(journal) = i
    BY <1>2
  <2> QED
    BY <1>3, <2>1
<1>6. 1..Len(journal) \subseteq 1..Len(journal')
      /\ (Len(journal) + 1)..(Len(journal) + Len(events)) \subseteq 1..Len(journal')
  BY <1>2, <1>3
<1>7. unpublished' \in [Publisher -> SUBSET (1..Len(journal'))]
      /\ unpublished'[p] = (Len(journal) + 1)..Len(journal')
      /\ \A q \in Publisher : q # p => unpublished'[q] = unpublished[q]
  BY <1>1, <1>3, <1>6
<1> QED
  BY <1>2, <1>3, <1>4, <1>5, <1>7

\* A journal that grows disturbs no type of the stream.
LEMMA StreamTypes ==
    ASSUME TypeOK, journal' \in Seq(Segment \cup {NoSegment}), Len(journal) <= Len(journal'),
           UNCHANGED <<published, sub, clientVars>>, faults' \in Nat,
           row' \in [Segment -> Row], attempt' \in Attempt,
           unpublished' \in [Publisher -> SUBSET (1..Len(journal'))]
    PROVE  TypeOK'
<1>1. Len(journal) \in Nat /\ Len(journal') \in Nat
  BY LenProperties DEF TypeOK
<1>2. 0..Len(journal) \subseteq 0..Len(journal') /\ 1..Len(journal) \subseteq 1..Len(journal')
  BY <1>1
<1>3. published' \in 0..Len(journal') /\ ack' \subseteq 0..Len(journal') /\ sub'.head <= Len(journal')
      /\ client'.held \subseteq 1..Len(journal') /\ client'.cursor <= Len(journal')
  <2>1. sub.head \in Nat /\ client.cursor \in Nat /\ sub.head <= Len(journal)
        /\ client.cursor <= Len(journal)
    BY Typed
  <2> QED
    BY <1>1, <1>2, <2>1 DEF TypeOK, clientVars
<1> QED
  BY <1>3 DEF TypeOK, clientVars


\* A number of Text that is at most the text of a segment and a delta.
LEMMA LengthTypes ==
    ASSUME TypeOK, NEW g \in Segment, NEW length \in Lengths(g)
    PROVE  length \in Text
<1> DEFINE S == {n \in 0..MaxText : n <= attempt.text[g] + MaxDelta}
<1>1. attempt.text[g] \in 0..MaxText
  BY Typed DEF Text
<1>2. S \subseteq Nat /\ attempt.text[g] \in S /\ MaxText \in Nat /\ \A n \in S : n <= MaxText
  BY <1>1, BoundsAssumption
<1>3. Highest(S) \in S
  <2> HIDE DEF S
  <2> QED
    BY <1>2, HighestIsIn
<1>4. length \in (attempt.text[g] + 1)..Highest(S)
  BY DEF Lengths
<1>5. Highest(S) \in 0..MaxText
  BY <1>3
<1> HIDE DEF S
<1> QED
  BY <1>1, <1>2, <1>4, <1>5 DEF Text

\* An Attempt keeps its type when it moves on,
LEMMA GotoTypes ==
    ASSUME TypeOK, NEW phase \in Phase, NEW g \in Segment \cup {NoSegment}
    PROVE  Goto(phase, g) \in Attempt /\ Over \in Attempt
<1>1. attempt \in Attempt /\ <<0, 0>> \in Text \X Text /\ NoText \in [Segment -> Text]
  BY TextTypes DEF TypeOK
<1>2. \A ph \in Phase, h \in Segment \cup {NoSegment} : Goto(ph, h) \in Attempt
  BY <1>1 DEF Goto, Attempt
<1>3. Goto("none", NoSegment) \in Attempt
  BY <1>2 DEF Phase
<1>4. Over \in Attempt
  BY <1>1, <1>3 DEF Over, Attempt
<1> QED
  BY <1>2, <1>4

\* The segments that an interrupt ends, one after the other.
LEMMA Interrupted ==
    ASSUME NEW G, G \subseteq Segment, IsFiniteSet(G), NEW order \in [1..Cardinality(G) -> G]
    PROVE  order \in Seq(Segment \cup {NoSegment}) /\ Len(order) = Cardinality(G)
<1>1. Cardinality(G) \in Nat
  BY FS_CardinalityType
<1>2. order \in Seq(G)
  BY <1>1, IsASeq
<1> QED
  BY <1>1, <1>2, SeqMonotonic

\* What an Attempt's task records: its steps and a handler's commit leave the stream alone.
Records ==
    \/ StartAttempt \/ RecordCompletion \/ RecordToolEvent \/ FinishAttempt \/ Interrupt
    \/ HandlerCommits \/ CancelTask
    \/ \E g \in Segment : \/ CreateSegment(g) \/ CompleteSegment(g) \/ CheckpointLive(g)
                          \/ \E length \in Lengths(g) : GrowAndCheckpoint(g, length)

\* A checkpoint keeps the rows' types.
LEMMA CheckpointTypes ==
    ASSUME TypeOK, NEW g \in Segment, NEW status \in SegmentStatus, NEW length \in Text,
           Checkpoint(g, status, length)
    PROVE  row' \in [Segment -> Row]
BY DEF TypeOK, Checkpoint, Row

\* The statuses, publishers and phases, by name.
LEMMA StatusTypes ==
    /\ {"absent", "streaming", "completed", "interrupted"} = SegmentStatus
    /\ Publisher = {"task", "handler"}
    /\ Phase = {"none", "streaming", "created", "sending", "recording", "canceled"}
BY DEF SegmentStatus, Publisher, Phase

\* How the journal grows when the task or a handler records something.
LEMMA RecordsGrow ==
    ASSUME TypeOK, FiniteInv, Records
    PROVE  /\ UNCHANGED <<published, sub, clientVars>>
           /\ faults' \in Nat /\ row' \in [Segment -> Row] /\ attempt' \in Attempt
           /\ journal' \in Seq(Segment \cup {NoSegment}) /\ Len(journal) <= Len(journal')
           /\ \A n \in 1..Len(journal) : journal'[n] = journal[n]
           /\ unpublished' \in [Publisher -> SUBSET (1..Len(journal'))]
           /\ \E p \in Publisher :
                 /\ unpublished'[p] \in {{}, unpublished[p], (Len(journal) + 1)..Len(journal')}
                 /\ \A q \in Publisher : q # p => unpublished'[q] = unpublished[q]
<1> DEFINE P == /\ UNCHANGED <<published, sub, clientVars>>
                /\ faults' \in Nat /\ row' \in [Segment -> Row] /\ attempt' \in Attempt
           J == /\ journal' \in Seq(Segment \cup {NoSegment}) /\ Len(journal) <= Len(journal')
                /\ \A n \in 1..Len(journal) : journal'[n] = journal[n]
                /\ unpublished' \in [Publisher -> SUBSET (1..Len(journal'))]
                /\ \E p \in Publisher :
                      /\ unpublished'[p] \in {{}, unpublished[p], (Len(journal) + 1)..Len(journal')}
                      /\ \A q \in Publisher : q # p => unpublished'[q] = unpublished[q]
<1>1. /\ row \in [Segment -> Row] /\ attempt \in Attempt /\ faults \in Nat
      /\ unpublished \in [Publisher -> SUBSET (1..Len(journal))] /\ Len(journal) \in Nat
      /\ journal \in Seq(Segment \cup {NoSegment})
      /\ {"task", "handler"} \subseteq Publisher
  BY Typed DEF TypeOK, Publisher
<1>2. ASSUME UNCHANGED <<journal, unpublished>> PROVE J
  BY <1>1, <1>2
<1>3. ASSUME NEW p \in Publisher, NEW events \in Seq(Segment \cup {NoSegment}), Commit(p, events)
      PROVE  J
  <2>1. \A q \in Publisher : q = p \/ unpublished'[q] = unpublished[q]
    BY <1>3, JournalTypes
  <2>2. /\ journal' \in Seq(Segment \cup {NoSegment})
        /\ Len(journal') = Len(journal) + Len(events) /\ Len(events) \in Nat
        /\ \A n \in 1..Len(journal) : journal'[n] = journal[n]
        /\ unpublished' \in [Publisher -> SUBSET (1..Len(journal'))]
        /\ unpublished'[p] = (Len(journal) + 1)..Len(journal')
    BY <1>3, JournalTypes
  <2>3. Len(journal) <= Len(journal')
    BY <1>1, <2>2
  <2> QED
    BY <2>1, <2>2, <2>3
<1>4. \A g \in Segment \cup {NoSegment} : <<g>> \in Seq(Segment \cup {NoSegment})
  OBVIOUS
<1>5. CASE StartAttempt
  <2>1. Commit("task", <<NoSegment>>) /\ attempt' = Goto("streaming", NoSegment)
        /\ UNCHANGED <<row, published, sub, clientVars, faults>>
    BY <1>5 DEF StartAttempt
  <2>2. J
    BY <1>1, <1>3, <1>4, <2>1
  <2>3. attempt' \in Attempt
    BY <2>1, GotoTypes, StatusTypes
  <2> QED
    BY <1>1, <2>1, <2>2, <2>3
<1>6. CASE RecordCompletion
  <2>1. Commit("task", <<attempt.segment>>) /\ attempt' = Goto("streaming", NoSegment)
        /\ UNCHANGED <<row, published, sub, clientVars, faults>>
    BY <1>6 DEF RecordCompletion
  <2>2. J
    BY <1>1, <1>3, <1>4, <2>1, Typed
  <2>3. attempt' \in Attempt
    BY <2>1, GotoTypes, StatusTypes
  <2> QED
    BY <1>1, <2>1, <2>2, <2>3
<1>7. CASE RecordToolEvent
  <2>1. Commit("task", <<NoSegment>>) /\ UNCHANGED <<row, attempt, published, sub, clientVars, faults>>
    BY <1>7 DEF RecordToolEvent
  <2> QED
    BY <1>1, <1>3, <1>4, <2>1
<1>8. CASE FinishAttempt
  <2>1. Commit("task", <<NoSegment>>) /\ attempt' = Over
        /\ UNCHANGED <<row, published, sub, clientVars, faults>>
    BY <1>8 DEF FinishAttempt
  <2>2. J
    BY <1>1, <1>3, <1>4, <2>1
  <2>3. attempt' \in Attempt
    BY <2>1, GotoTypes, StatusTypes
  <2> QED
    BY <1>1, <2>1, <2>2, <2>3
<1>9. CASE Interrupt
  <2> DEFINE G == {g \in Segment : row[g].status = "streaming"}
  <2>1. PICK order \in [1..Cardinality(G) -> G] : Commit("task", Append(order, NoSegment))
    BY <1>9 DEF Interrupt
  <2>2. UNCHANGED <<published, sub, clientVars, faults>> /\ attempt' = Over
        /\ row' = [g \in Segment |-> IF g \in G THEN [row[g] EXCEPT !.status = "interrupted"] ELSE row[g]]
    BY <1>9 DEF Interrupt
  <2>3. order \in Seq(Segment \cup {NoSegment})
    BY <2>1, Interrupted DEF FiniteInv
  <2>4. Append(order, NoSegment) \in Seq(Segment \cup {NoSegment})
    BY <2>3, AppendProperties
  <2>5. J
    BY <1>1, <1>3, <2>1, <2>4
  <2>6. attempt' \in Attempt
    BY <2>2, GotoTypes, StatusTypes
  <2>7. row' \in [Segment -> Row]
    BY <1>1, <2>2, StatusTypes DEF Row
  <2> QED
    BY <1>1, <2>2, <2>5, <2>6, <2>7
<1>10. CASE HandlerCommits
  <2>1. Commit("handler", <<NoSegment>>) /\ UNCHANGED <<row, attempt, published, sub, clientVars, faults>>
    BY <1>10 DEF HandlerCommits
  <2> QED
    BY <1>1, <1>3, <1>4, <2>1
<1>11. CASE CancelTask
  <2>1. unpublished' = [unpublished EXCEPT !["task"] = {}] /\ faults' = faults + 1
        /\ attempt' = Goto("canceled", NoSegment) /\ UNCHANGED <<journal, row, published, sub, clientVars>>
    BY <1>11 DEF CancelTask, Fault
  <2>2. attempt' \in Attempt
    BY <2>1, GotoTypes, StatusTypes
  <2>3. J
    BY <1>1, <2>1
  <2> QED
    BY <1>1, <2>1, <2>2, <2>3
<1>12. ASSUME NEW g \in Segment, CreateSegment(g) PROVE P /\ J
  <2>1. Checkpoint(g, "streaming", 0) /\ attempt' = [Goto("created", g) EXCEPT !.open = @ \cup {g}]
        /\ UNCHANGED <<journal, unpublished, published, sub, clientVars, faults>>
    BY <1>12 DEF CreateSegment
  <2>2. Goto("created", g) \in Attempt
    BY GotoTypes, StatusTypes
  <2>3. attempt' \in Attempt
    BY <2>1, <2>2 DEF Attempt
  <2>4. row' \in [Segment -> Row]
    BY <2>1, CheckpointTypes, StatusTypes, TextTypes
  <2> QED
    BY <1>1, <1>2, <2>1, <2>3, <2>4
<1>13. ASSUME NEW g \in Segment, CompleteSegment(g) PROVE P /\ J
  <2>1. Checkpoint(g, "completed", attempt.text[g]) /\ attempt' = Goto("recording", g)
        /\ UNCHANGED <<journal, unpublished, published, sub, clientVars, faults>>
    BY <1>13 DEF CompleteSegment
  <2>2. attempt' \in Attempt
    BY <2>1, GotoTypes, StatusTypes
  <2>3. row' \in [Segment -> Row]
    BY <2>1, CheckpointTypes, StatusTypes, Typed
  <2> QED
    BY <1>1, <1>2, <2>1, <2>2, <2>3
<1>14. ASSUME NEW g \in Segment, CheckpointLive(g) PROVE P /\ J
  <2>1. Checkpoint(g, "streaming", attempt.text[g]) /\ attempt' = [attempt EXCEPT !.open = @ \ {g}]
        /\ UNCHANGED <<journal, unpublished, published, sub, clientVars, faults>>
    BY <1>14 DEF CheckpointLive
  <2>2. attempt' \in Attempt
    BY <1>1, <2>1 DEF Attempt
  <2>3. row' \in [Segment -> Row]
    BY <2>1, CheckpointTypes, StatusTypes, Typed
  <2> QED
    BY <1>1, <1>2, <2>1, <2>2, <2>3
<1>15. ASSUME NEW g \in Segment, NEW length \in Lengths(g), GrowAndCheckpoint(g, length) PROVE P /\ J
  <2>1. /\ Checkpoint(g, "streaming", length)
        /\ attempt' = [Goto("sending", g) EXCEPT !.text[g] = length, !.delta = <<attempt.text[g], length>>]
        /\ UNCHANGED <<journal, unpublished, published, sub, clientVars, faults>>
    BY <1>15 DEF GrowAndCheckpoint
  <2>2. length \in Text /\ attempt.text[g] \in Text /\ Goto("sending", g) \in Attempt
    BY LengthTypes, GotoTypes, StatusTypes, Typed
  <2>3. attempt' \in Attempt
    BY <2>1, <2>2 DEF Attempt
  <2>4. row' \in [Segment -> Row]
    BY <2>1, <2>2, CheckpointTypes, StatusTypes
  <2> QED
    BY <1>1, <1>2, <2>1, <2>3, <2>4
<1> QED
  BY <1>5, <1>6, <1>7, <1>8, <1>9, <1>10, <1>11, <1>12, <1>13, <1>14, <1>15 DEF Records


-----------------------------------------------------------------------------
(* The task and the segments it streams.                                   *)

\* ... and changes nothing but its phase and its segment.
LEMMA GotoFields ==
    ASSUME TypeOK, NEW phase, NEW g
    PROVE  /\ Goto(phase, g).phase = phase /\ Goto(phase, g).segment = g
           /\ Goto(phase, g).open = attempt.open
           /\ Over.phase = "none" /\ Over.open = {}
BY DEF TypeOK, Attempt, Goto, Over

\* One event more.
LEMMA EventCommitted ==
    ASSUME TypeOK, NEW p \in Publisher, NEW h \in Segment \cup {NoSegment}, Commit(p, <<h>>)
    PROVE  /\ unpublished'[p] = {Len(journal) + 1} /\ journal'[Len(journal) + 1] = h
           /\ Len(journal') = Len(journal) + 1
           /\ \A n \in 1..Len(journal) : journal'[n] = journal[n]
           /\ \A q \in Publisher : q # p => unpublished'[q] = unpublished[q]
           /\ \A g \in Segment : g # h => Ends(g)' = Ends(g)
<1>1. <<h>> \in Seq(Segment \cup {NoSegment}) /\ Len(<<h>>) = 1 /\ <<h>>[1] = h
  OBVIOUS
<1>2. Len(journal) \in Nat
  BY Typed
<1>3. /\ Len(journal') = Len(journal) + 1
      /\ \A n \in 1..Len(journal) : journal'[n] = journal[n]
      /\ \A i \in 1..Len(<<h>>) : journal'[Len(journal) + i] = <<h>>[i]
      /\ unpublished'[p] = (Len(journal) + 1)..Len(journal')
      /\ \A q \in Publisher : q # p => unpublished'[q] = unpublished[q]
  BY <1>1, JournalTypes
<1>4. journal'[Len(journal) + 1] = h
  BY <1>1, <1>3
<1>5. unpublished'[p] = {Len(journal) + 1}
  BY <1>2, <1>3
<1>6. \A n : n \in 1..Len(journal') <=> n \in 1..Len(journal) \/ n = Len(journal) + 1
  BY <1>2, <1>3
<1>7. \A g \in Segment : g # h => Ends(g)' = Ends(g)
  BY <1>3, <1>4, <1>6 DEF Ends
<1> QED
  BY <1>3, <1>4, <1>5, <1>7

\* An event that ends no segment is apart from those that do.
LEMMA NoSegmentApart == \A g \in Segment : g # NoSegment
BY SegmentAssumption

\* What a checkpoint does to the rows.
LEMMA RowsOfCheckpoint ==
    ASSUME TypeOK, NEW g \in Segment, NEW status, NEW length, Checkpoint(g, status, length)
    PROVE  /\ row'[g].status = status
           /\ \A h \in Segment : h # g => row'[h] = row[h]
BY DEF TypeOK, Checkpoint

\* A step that records keeps a segment alive until its end is broadcast.
LEMMA TaskRecords ==
    ASSUME TypeOK, FiniteInv, TaskInv, Records
    PROVE  TaskInv' /\ \A g \in Segment : Alive(g) => Alive(g)'
<1> DEFINE A == \A g \in Segment : Alive(g) => Alive(g)'
<1>1. /\ Len(journal) \in Nat /\ sub.head \in Nat /\ sub.head <= Len(journal)
      /\ attempt.open \subseteq Segment /\ attempt.segment \in Segment \cup {NoSegment}
      /\ unpublished["task"] \subseteq 1..Len(journal) /\ unpublished["handler"] \subseteq 1..Len(journal)
  BY Typed, StatusTypes
<1>2. "task" \in Publisher /\ "handler" \in Publisher /\ "task" # "handler"
  BY DEF Publisher
<1>3. sub' = sub /\ Len(journal) \in Nat
  BY <1>1, RecordsGrow
<1>5. CASE StartAttempt
  <2>1. /\ Commit("task", <<NoSegment>>) /\ attempt' = Goto("streaming", NoSegment) /\ row' = row
        /\ attempt.phase = "none" /\ unpublished["task"] = {}
    BY <1>5 DEF StartAttempt
  <2>2. unpublished'["task"] = {Len(journal) + 1} /\ journal'[Len(journal) + 1] = NoSegment
        /\ \A g \in Segment : Ends(g)' = Ends(g)
    BY <1>2, <2>1, EventCommitted, NoSegmentApart
  <2>3. attempt'.phase = "streaming" /\ attempt'.open = attempt.open
    BY <2>1, GotoFields
  <2>4. TaskInv'
    BY <2>1, <2>2, <2>3 DEF TaskInv
  <2>5. A
    BY <1>3, <2>1, <2>3 DEF Alive
  <2> QED
    BY <2>4, <2>5
<1>6. CASE RecordCompletion
  <2> DEFINE h == attempt.segment
  <2>1. /\ Commit("task", <<attempt.segment>>) /\ attempt' = Goto("streaming", NoSegment) /\ row' = row
        /\ attempt.phase = "recording"
    BY <1>6 DEF RecordCompletion
  <2>2. unpublished'["task"] = {Len(journal) + 1} /\ journal'[Len(journal) + 1] = h
        /\ \A g \in Segment : g # h => Ends(g)' = Ends(g)
    BY <1>1, <1>2, <2>1, EventCommitted
  <2>3. attempt'.phase = "streaming" /\ attempt'.open = attempt.open
    BY <2>1, GotoFields
  <2>4. h \in attempt.open /\ row[h].status = "completed" /\ unpublished["task"] = {}
    BY <2>1 DEF TaskInv
  <2>5. TaskInv'
    BY <2>1, <2>2, <2>3, <2>4 DEF TaskInv
  <2>6. A
    <3>1. Len(journal) + 1 > sub.head
      BY <1>1
    <3> QED
      BY <1>3, <2>1, <2>2, <2>4, <3>1 DEF Alive
  <2> QED
    BY <2>5, <2>6
<1>7. CASE RecordToolEvent
  <2>1. /\ Commit("task", <<NoSegment>>) /\ attempt' = attempt /\ row' = row
        /\ attempt.phase = "streaming" /\ unpublished["task"] = {}
    BY <1>7 DEF RecordToolEvent, AtRest
  <2>2. unpublished'["task"] = {Len(journal) + 1} /\ journal'[Len(journal) + 1] = NoSegment
        /\ \A g \in Segment : Ends(g)' = Ends(g)
    BY <1>2, <2>1, EventCommitted, NoSegmentApart
  <2>4. TaskInv'
    BY <2>1, <2>2 DEF TaskInv
  <2>5. A
    BY <1>3, <2>1 DEF Alive
  <2> QED
    BY <2>4, <2>5
<1>8. CASE FinishAttempt
  <2>1. /\ Commit("task", <<NoSegment>>) /\ attempt' = Over /\ row' = row
        /\ attempt.phase = "streaming" /\ unpublished["task"] = {}
    BY <1>8 DEF FinishAttempt, AtRest
  <2>2. \A g \in Segment : Ends(g)' = Ends(g)
    BY <1>2, <2>1, EventCommitted, NoSegmentApart
  <2>3. attempt'.phase = "none"
    BY <2>1, GotoFields
  <2>4. TaskInv'
    BY <2>1, <2>2, <2>3 DEF TaskInv
  <2>5. A
    BY <1>3, <2>1 DEF Alive
  <2> QED
    BY <2>4, <2>5
<1>9. CASE Interrupt
  <2> DEFINE G == {g \in Segment : row[g].status = "streaming"}
  <2>1. PICK order \in [1..Cardinality(G) -> G] :
            /\ \A g \in G : \E i \in DOMAIN order : order[i] = g
            /\ Commit("task", Append(order, NoSegment))
    BY <1>9 DEF Interrupt
  <2>2. /\ attempt' = Over /\ attempt.phase = "canceled" /\ attempt.open = {}
        /\ row' = [g \in Segment |-> IF g \in G THEN [row[g] EXCEPT !.status = "interrupted"] ELSE row[g]]
    BY <1>9 DEF Interrupt
  <2>3. order \in Seq(Segment \cup {NoSegment}) /\ Len(order) = Cardinality(G) /\ DOMAIN order = 1..Len(order)
    BY <2>1, Interrupted DEF FiniteInv
  <2> DEFINE events == Append(order, NoSegment)
  <2>4. /\ events \in Seq(Segment \cup {NoSegment}) /\ Len(events) = Len(order) + 1 /\ Len(order) \in Nat
        /\ \A i \in 1..Len(order) : events[i] = order[i]
        /\ events[Len(order) + 1] = NoSegment
    <3>1. NoSegment \in Segment \cup {NoSegment} /\ Len(order) \in Nat
      BY <2>3, LenProperties
    <3>2. /\ events \in Seq(Segment \cup {NoSegment}) /\ Len(events) = Len(order) + 1
          /\ \A i \in 1..Len(order) : events[i] = order[i]
          /\ events[Len(order) + 1] = NoSegment
      <4> HIDE DEF G
      <4> QED
        BY <2>3, <3>1, AppendProperties
    <3> QED
      BY <3>1, <3>2
  <2>5. Commit("task", events)
    BY <2>1
  <2> HIDE DEF events
  <2>6. /\ Len(journal') = Len(journal) + Len(events)
        /\ \A n \in 1..Len(journal) : journal'[n] = journal[n]
        /\ \A i \in 1..Len(events) : journal'[Len(journal) + i] = events[i]
        /\ unpublished'["task"] = (Len(journal) + 1)..Len(journal')
    BY <1>2, <2>4, <2>5, JournalTypes
  <2>7. \A i \in 1..Len(events) : events[i] \in G \cup {NoSegment}
    <3>1. \A i \in 1..Len(events) : i \in 1..Len(order) \/ i = Len(order) + 1
      BY <2>4
    <3>2. \A i \in 1..Len(order) : order[i] \in G
      BY <2>1, <2>3
    <3> QED
      BY <2>4, <3>1, <3>2
  <2>8. attempt'.phase = "none"
    BY <2>2, GotoFields
  <2>9. \A g \in Segment : g \notin G => Ends(g)' = Ends(g)
    <3> SUFFICES ASSUME NEW g \in Segment, g \notin G PROVE Ends(g)' = Ends(g)
      OBVIOUS
    <3>1. ASSUME NEW n \in 1..Len(journal'), journal'[n] = g PROVE n \in 1..Len(journal)
      <4> SUFFICES ASSUME n \notin 1..Len(journal) PROVE FALSE
        OBVIOUS
      <4>1. n - Len(journal) \in 1..Len(events) /\ n = Len(journal) + (n - Len(journal))
        BY <1>1, <2>4, <2>6
      <4>2. journal'[n] = events[n - Len(journal)]
        BY <2>6, <4>1
      <4> QED
        BY <2>7, <3>1, <4>1, <4>2, NoSegmentApart
    <3>2. 1..Len(journal) \subseteq 1..Len(journal')
      BY <1>1, <2>4, <2>6
    <3> QED
      BY <2>6, <3>1, <3>2 DEF Ends
  <2>10. \A g \in Segment : IF g \in G THEN row'[g].status = "interrupted" ELSE row'[g] = row[g]
    BY <2>2 DEF TypeOK, Row
  <2>11. TaskInv'
    BY <2>8, <2>9, <2>10 DEF TaskInv
  <2>12. A
    <3> SUFFICES ASSUME NEW g \in Segment, Alive(g) PROVE Alive(g)'
      OBVIOUS
    <3>1. g \in G
      BY <2>2 DEF Alive, TaskInv
    <3>2. PICK i \in 1..Len(order) : order[i] = g
      BY <2>1, <2>3, <3>1
    <3>3. Len(journal) + i \in (Len(journal) + 1)..Len(journal') /\ Len(journal) + i > sub.head
          /\ i \in 1..Len(events)
      BY <1>1, <2>4, <2>6
    <3>4. journal'[Len(journal) + i] = g
      BY <2>4, <2>6, <3>2, <3>3
    <3> QED
      BY <1>3, <2>6, <3>3, <3>4 DEF Alive
  <2> QED
    BY <2>11, <2>12
<1>10. CASE HandlerCommits
  <2>1. Commit("handler", <<NoSegment>>) /\ attempt' = attempt /\ row' = row
    BY <1>10 DEF HandlerCommits
  <2>2. unpublished'["task"] = unpublished["task"] /\ (\A g \in Segment : Ends(g)' = Ends(g))
        /\ \A n \in 1..Len(journal) : journal'[n] = journal[n]
    BY <1>2, <2>1, EventCommitted, NoSegmentApart
  <2>4. TaskInv'
    BY <1>1, <2>1, <2>2 DEF TaskInv
  <2>5. A
    BY <1>1, <1>3, <2>1, <2>2 DEF Alive
  <2> QED
    BY <2>4, <2>5
<1>11. CASE CancelTask
  <2>1. /\ unpublished' = [unpublished EXCEPT !["task"] = {}] /\ attempt' = Goto("canceled", NoSegment)
        /\ journal' = journal /\ row' = row /\ attempt.phase \notin {"none", "canceled"}
    BY <1>11 DEF CancelTask
  <2>2. unpublished'["task"] = {} /\ \A g \in Segment : Ends(g)' = Ends(g)
    BY <1>2, <2>1 DEF TypeOK, Ends
  <2>3. attempt'.phase = "canceled" /\ attempt'.open = attempt.open
    BY <2>1, GotoFields
  <2>4. TaskInv'
    BY <2>1, <2>2, <2>3 DEF TaskInv
  <2>5. A
    <3> SUFFICES ASSUME NEW g \in Segment, Alive(g) PROVE Alive(g)'
      OBVIOUS
    <3>1. row[g].status = "streaming" \/ g \in attempt.open
      BY <2>1, NoSegmentApart DEF Alive, TaskInv
    <3> QED
      BY <2>1, <2>3, <3>1 DEF Alive
  <2> QED
    BY <2>4, <2>5
<1>12. ASSUME NEW g \in Segment, CreateSegment(g) PROVE TaskInv' /\ A
  <2>1. /\ Checkpoint(g, "streaming", 0) /\ attempt' = [Goto("created", g) EXCEPT !.open = @ \cup {g}]
        /\ journal' = journal /\ unpublished' = unpublished /\ attempt.phase = "streaming"
        /\ unpublished["task"] = {} /\ row[g].status = "absent"
    BY <1>12 DEF CreateSegment, AtRest
  <2>2. row'[g].status = "streaming" /\ \A h \in Segment : h # g => row'[h] = row[h]
    BY <2>1, RowsOfCheckpoint
  <2>3. attempt'.phase = "created" /\ attempt'.segment = g /\ attempt'.open = attempt.open \cup {g}
    BY <2>1 DEF TypeOK, Attempt, Goto
  <2>4. \A h \in Segment : Ends(h)' = Ends(h)
    BY <2>1 DEF Ends
  <2>5. Ends(g) = {}
    BY <2>1 DEF TaskInv
  <2>6. TaskInv'
    BY <2>1, <2>2, <2>3, <2>4, <2>5 DEF TaskInv
  <2>7. A
    BY <2>1, <2>2 DEF Alive
  <2> QED
    BY <2>6, <2>7
<1>13. ASSUME NEW g \in Segment, CompleteSegment(g) PROVE TaskInv' /\ A
  <2>1. /\ Checkpoint(g, "completed", attempt.text[g]) /\ attempt' = Goto("recording", g)
        /\ journal' = journal /\ unpublished' = unpublished /\ attempt.phase = "streaming"
        /\ unpublished["task"] = {} /\ g \in attempt.open
    BY <1>13 DEF CompleteSegment, AtRest, Streaming
  <2>2. row'[g].status = "completed" /\ \A h \in Segment : h # g => row'[h] = row[h]
    BY <2>1, RowsOfCheckpoint
  <2>3. attempt'.phase = "recording" /\ attempt'.segment = g /\ attempt'.open = attempt.open
    BY <2>1, GotoFields
  <2>4. \A h \in Segment : Ends(h)' = Ends(h)
    BY <2>1 DEF Ends
  <2>6. TaskInv'
    BY <2>1, <2>2, <2>3, <2>4 DEF TaskInv
  <2>7. A
    BY <2>1, <2>2, <2>3 DEF Alive
  <2> QED
    BY <2>6, <2>7
<1>14. ASSUME NEW g \in Segment, CheckpointLive(g) PROVE TaskInv' /\ A
  <2>1. /\ Checkpoint(g, "streaming", attempt.text[g]) /\ attempt' = [attempt EXCEPT !.open = @ \ {g}]
        /\ journal' = journal /\ unpublished' = unpublished /\ attempt.phase = "canceled"
    BY <1>14 DEF CheckpointLive
  <2>2. row'[g].status = "streaming" /\ \A h \in Segment : h # g => row'[h] = row[h]
    BY <2>1, RowsOfCheckpoint
  <2>3. attempt'.phase = "canceled" /\ attempt'.open = attempt.open \ {g}
    BY <2>1 DEF TypeOK, Attempt
  <2>4. \A h \in Segment : Ends(h)' = Ends(h)
    BY <2>1 DEF Ends
  <2>5. unpublished["task"] = {}
    BY <2>1 DEF TaskInv
  <2>6. TaskInv'
    BY <2>1, <2>2, <2>3, <2>4, <2>5 DEF TaskInv
  <2>7. A
    BY <2>1, <2>2, <2>3, <2>5 DEF Alive
  <2> QED
    BY <2>6, <2>7
<1>15. ASSUME NEW g \in Segment, NEW length \in Lengths(g), GrowAndCheckpoint(g, length)
       PROVE  TaskInv' /\ A
  <2>1. /\ Checkpoint(g, "streaming", length)
        /\ attempt' = [Goto("sending", g) EXCEPT !.text[g] = length, !.delta = <<attempt.text[g], length>>]
        /\ journal' = journal /\ unpublished' = unpublished
    BY <1>15 DEF GrowAndCheckpoint
  <2>2. row'[g].status = "streaming" /\ \A h \in Segment : h # g => row'[h] = row[h]
    BY <2>1, RowsOfCheckpoint
  <2>3. attempt'.phase = "sending" /\ attempt'.segment = g /\ attempt'.open = attempt.open
    BY <2>1 DEF TypeOK, Attempt, Goto
  <2>4. \A h \in Segment : Ends(h)' = Ends(h)
    BY <2>1 DEF Ends
  <2>5. /\ row[g].status = "streaming" /\ g \in attempt.open /\ unpublished["task"] = {}
        /\ attempt.phase \in {"streaming", "created"}
    BY <1>15 DEF GrowAndCheckpoint, MayGrow, AtRest, Streaming, TaskInv
  <2>6. TaskInv'
    BY <2>1, <2>2, <2>3, <2>4, <2>5 DEF TaskInv
  <2>7. A
    BY <2>1, <2>2, <2>3, <2>5 DEF Alive
  <2> QED
    BY <2>6, <2>7
<1> QED
  BY <1>5, <1>6, <1>7, <1>8, <1>9, <1>10, <1>11, <1>12, <1>13, <1>14, <1>15 DEF Records


\* Each publisher goes on to hold the events of one transaction.
LEMMA CommitRecords ==
    ASSUME TypeOK, FiniteInv, CommitInv, Records
    PROVE  CommitInv'
<1>1. /\ Len(journal) \in Nat /\ Len(journal') \in Nat
      /\ unpublished["task"] \subseteq 1..Len(journal) /\ unpublished["handler"] \subseteq 1..Len(journal)
  BY Typed, StatusTypes, RecordsGrow, LenProperties
<1>2. PICK p \in Publisher :
          /\ unpublished'[p] \in {{}, unpublished[p], (Len(journal) + 1)..Len(journal')}
          /\ \A q \in Publisher : q # p => unpublished'[q] = unpublished[q]
  BY RecordsGrow
<1>3. {} = 1..0 /\ 0 \in Nat /\ 1 \in Nat /\ Len(journal) + 1 \in Nat
  BY <1>1
<1>4. \A q \in Publisher : \E a, b \in Nat : unpublished'[q] = a..b
  <2> SUFFICES ASSUME NEW q \in Publisher PROVE \E a, b \in Nat : unpublished'[q] = a..b
    OBVIOUS
  <2>1. \E a, b \in Nat : unpublished[q] = a..b
    BY DEF CommitInv
  <2> QED
    BY <1>1, <1>2, <1>3, <2>1
<1>5. unpublished'["task"] \cap unpublished'["handler"] = {}
  BY <1>1, <1>2 DEF CommitInv, Publisher
<1> QED
  BY <1>4, <1>5 DEF CommitInv

\* Only finitely many segments are open, since a step opens one at most.
LEMMA FiniteRecords ==
    ASSUME TypeOK, FiniteInv, Records
    PROVE  FiniteInv'
<1> DEFINE G == {g \in Segment : row[g].status = "streaming"}
<1>1. IsFiniteSet(G)
  BY DEF FiniteInv
<1>2. ASSUME NEW h \in Segment, \A g \in Segment : g # h => row'[g] = row[g] PROVE FiniteInv'
  <2>1. IsFiniteSet(G \cup {h})
    BY <1>1, FS_AddElement
  <2>2. {g \in Segment : row[g].status = "streaming"}' \subseteq G \cup {h}
    BY <1>2
  <2> QED
    BY <2>1, <2>2, FS_Subset DEF FiniteInv
<1>3. ASSUME \A g \in Segment : row'[g] = row[g] \/ row'[g].status # "streaming" PROVE FiniteInv'
  <2>1. {g \in Segment : row[g].status = "streaming"}' \subseteq G
    BY <1>3
  <2> QED
    BY <1>1, <2>1, FS_Subset DEF FiniteInv
<1>4. CASE Interrupt
  <2>1. row' = [g \in Segment |-> IF g \in G THEN [row[g] EXCEPT !.status = "interrupted"] ELSE row[g]]
    BY <1>4 DEF Interrupt
  <2>2. \A g \in Segment : row'[g] = row[g] \/ row'[g].status # "streaming"
    BY <2>1 DEF TypeOK, Row
  <2> QED
    BY <1>3, <2>2
<1>5. CASE StartAttempt \/ RecordCompletion \/ RecordToolEvent \/ FinishAttempt \/ HandlerCommits \/ CancelTask
  BY <1>3, <1>5 DEF StartAttempt, RecordCompletion, RecordToolEvent, FinishAttempt, HandlerCommits, CancelTask
<1>6. ASSUME NEW g \in Segment,
             \/ CreateSegment(g) \/ CompleteSegment(g) \/ CheckpointLive(g)
             \/ \E length \in Lengths(g) : GrowAndCheckpoint(g, length)
      PROVE  FiniteInv'
  <2>1. \E status, length : Checkpoint(g, status, length)
    BY <1>6 DEF CreateSegment, CompleteSegment, CheckpointLive, GrowAndCheckpoint
  <2>2. \A h \in Segment : h # g => row'[h] = row[h]
    BY <2>1, RowsOfCheckpoint
  <2> QED
    BY <1>2, <2>2
<1> QED
  BY <1>4, <1>5, <1>6 DEF Records


-----------------------------------------------------------------------------
(* What the records do to the stream: nothing is lost when the journal grows. *)

\* The flow consists of live frames and, once the replay is over, of those of the queue.
LEMMA FlowTypes ==
    ASSUME TypeOK, FramesFit
    PROVE  /\ sub.queue \in Seq(Fit) /\ sub.pending \in Seq(LiveFit) /\ LiveFit \subseteq Fit
           /\ Fit \subseteq Frame /\ Flow \in Seq(Fit) /\ Len(Flow) \in Nat
           /\ \A i \in 1..Len(Flow) : Flow[i] \in Fit /\ Flow[i] \in Frame /\ FrameFits(Flow[i])
<1>1. sub.queue \in Seq(Fit) /\ sub.pending \in Seq(LiveFit) /\ LiveFit \subseteq Fit /\ Fit \subseteq Frame
  BY DEF FramesFit, LiveFit, Fit
<1>2. sub.pending \in Seq(Fit)
  BY <1>1, SeqMonotonic
<1>3. Flow \in Seq(Fit)
  BY <1>1, <1>2 DEF Flow
<1>4. Len(Flow) \in Nat /\ \A i \in 1..Len(Flow) : Flow[i] \in Fit
  BY <1>3, LenProperties, ElementOfSeq
<1>5. \A i \in 1..Len(Flow) : Flow[i] \in Frame /\ FrameFits(Flow[i])
  BY <1>4 DEF Fit
<1> QED
  BY <1>1, <1>3, <1>4, <1>5

\* What the client shows, or will after its hello, are segments.
LEMMA ShownTypes ==
    ASSUME TypeOK, LinkInv, ~sub.closed
    PROVE  Shown \subseteq Segment
<1>1. CASE sub.replaying /\ sub.queue # <<>>
  <2>1. 1 \in 1..Len(sub.queue) /\ sub.queue[1] \in Frame
    BY <1>1, Typed, EmptySeq, LenProperties, ElementOfSeq
  <2>2. sub.queue[1].type = "hello"
    BY <1>1, <2>1 DEF LinkInv
  <2> QED
    BY <1>1, <2>1, <2>2, FrameFields DEF Shown
<1>2. CASE ~(sub.replaying /\ sub.queue # <<>>)
  BY <1>2, Typed DEF Shown
<1> QED
  BY <1>1, <1>2

\* When the journal grows and nothing is broadcast, the stream stays right: an event that
\* was not announced is owed to nobody.
LEMMA StreamRecords ==
    ASSUME IInv, Records
    PROVE  /\ LinkInv' /\ FramesFit' /\ CursorSkipsNothing'
           /\ HeadInv' /\ OnceInv' /\ DeltaInv' /\ ShownInv'
<1> USE DEF IInv
<1>1. /\ published' = published /\ sub' = sub /\ ack' = ack /\ link' = link /\ client' = client
      /\ Len(journal) <= Len(journal') /\ Len(journal) \in Nat /\ Len(journal') \in Nat
      /\ \A n \in 1..Len(journal) : journal'[n] = journal[n]
  BY RecordsGrow, Typed, LenProperties DEF clientVars
<1>2. \A p \in Publisher : unpublished'[p] \subseteq unpublished[p] \cup (Len(journal) + 1)..Len(journal')
  <2>1. PICK p \in Publisher :
            /\ unpublished'[p] \in {{}, unpublished[p], (Len(journal) + 1)..Len(journal')}
            /\ \A q \in Publisher : q # p => unpublished'[q] = unpublished[q]
    BY RecordsGrow
  <2> QED
    BY <2>1
<1>3. /\ sub.head \in Nat /\ sub.head <= Len(journal) /\ client.held \subseteq 1..Len(journal)
      /\ client.cursor \in Nat /\ client.cursor <= Len(journal)
      /\ \A p \in Publisher : unpublished[p] \subseteq 1..Len(journal)
  BY Typed
<1>4. Flow' = Flow /\ Open' = Open /\ Shown' = Shown
  BY <1>1 DEF Flow, Open, Shown
<1>5. \A f \in Frame : FrameFits(f) => FrameFits(f)'
  BY <1>1 DEF FrameFits
<1>6. FramesFit'
  <2>1. Fit \subseteq Fit' /\ LiveFit \subseteq LiveFit'
    BY <1>5 DEF Fit, LiveFit
  <2>2. sub.queue \in Seq(Fit') /\ sub.pending \in Seq(LiveFit')
    BY <2>1, FlowTypes, SeqMonotonic
  <2> QED
    BY <1>1, <2>2 DEF FramesFit
<1>7. LinkInv' /\ CursorSkipsNothing'
  BY <1>1 DEF LinkInv, CursorSkipsNothing
<1>8. HeadInv'
  BY <1>1, <1>4 DEF HeadInv, Reaches
<1>9. \A i \in 1..Len(Flow) : Flow[i] \in Frame /\ (Flow[i].type = "event" => Flow[i].seq \in 1..Len(journal))
  BY FlowTypes DEF FrameFits
<1>10. OnceInv'
  <2>1. \A f, n : Brings(f, n)' <=> Brings(f, n)
    BY DEF Brings
  <2>2. ASSUME Open, NEW n \in (sub.head + 1)..Len(journal')
        PROVE  /\ \A p \in Publisher : n \in unpublished'[p] =>
                    n \notin client.held /\ \A i \in 1..Len(Flow) : ~Brings(Flow[i], n)
               /\ \A i \in 1..Len(Flow) : Brings(Flow[i], n) =>
                    /\ n \notin client.held
                    /\ \A j \in 1..Len(Flow) : Brings(Flow[j], n) => j = i
    <3>1. CASE n \in 1..Len(journal)
      <4>1. n \in (sub.head + 1)..Len(journal) /\ \A p \in Publisher : n \in unpublished'[p] => n \in unpublished[p]
        BY <1>1, <1>2, <1>3, <2>2, <3>1
      <4> QED
        BY <2>2, <4>1 DEF OnceInv
    <3>2. CASE n \notin 1..Len(journal)
      <4>1. n \notin client.held /\ \A i \in 1..Len(Flow) : ~Brings(Flow[i], n)
        BY <1>3, <1>9, <3>2 DEF Brings
      <4> QED
        BY <4>1
    <3> QED
      BY <3>1, <3>2
  <2>3. Open /\ sub.replaying => \A n \in client.held : n <= sub.head
    BY DEF OnceInv
  <2> QED
    BY <1>1, <1>4, <2>1, <2>2, <2>3 DEF OnceInv
<1>11. \A g \in Segment : Alive(g) => Alive(g)'
  BY TaskRecords
<1>12. \A i, g : Later(i, g) => Later(i, g)'
  <2>1. \A j \in 1..Len(Flow) : \A g : Ending(Flow[j], g) => Ending(Flow[j], g)'
    BY <1>1, <1>4, <1>9 DEF Ending
  <2> QED
    BY <1>4, <2>1 DEF Later
<1>13. \A g \in Segment : \A i : Owed(g, i) => Owed(g, i)'
  BY <1>11, <1>12 DEF Owed
<1>14. \A g \in Segment : \A n \in Ends(g)' : n \in Ends(g) \/ n > Len(journal)
  BY <1>1 DEF Ends
<1>15. \A g \in Segment : EndsInReplay(g) => EndsInReplay(g)'
  <2>1. \A g \in Segment : Ends(g) \subseteq Ends(g)'
    BY <1>1 DEF Ends
  <2> QED
    BY <1>1, <2>1 DEF EndsInReplay
<1>16. DeltaInv'
  <2>1. SUFFICES ASSUME sub.stage # "none", ~sub.closed, NEW i \in 1..Len(Flow), Flow[i].type = "delta"
                 PROVE  \A g : g = Flow[i].segment =>
                            /\ sub.replaying => \A n \in Ends(g)' : n > client.cursor
                            /\ Owed(g, i)' \/ EndsInReplay(g)'
    BY <1>1, <1>4 DEF DeltaInv
  <2>2. PICK g \in Segment : g = Flow[i].segment
    BY <1>9, <2>1, FrameFields
  <2>3. /\ sub.replaying => \A n \in Ends(g) : n > client.cursor
        /\ Owed(g, i) \/ EndsInReplay(g)
    BY <2>1, <2>2 DEF DeltaInv
  <2>4. sub.replaying => \A n \in Ends(g)' : n > client.cursor
    <3> SUFFICES ASSUME sub.replaying, NEW n \in Ends(g)' PROVE n > client.cursor
      OBVIOUS
    <3>1. n \in Ends(g) \/ (n > Len(journal) /\ n \in Nat)
      BY <1>1, <1>14 DEF Ends
    <3> QED
      BY <1>1, <1>3, <2>3, <3>1
  <2>5. Owed(g, i)' \/ EndsInReplay(g)'
    BY <1>13, <1>15, <2>3
  <2> QED
    BY <1>1, <1>4, <2>2, <2>4, <2>5
<1>17. ShownInv'
  <2>1. SUFFICES ASSUME sub.stage = "ready", ~sub.closed, NEW g \in Shown
                 PROVE  Owed(g, 0)'
    BY <1>1, <1>4 DEF ShownInv
  <2>2. Shown \subseteq Segment
    BY <2>1, ShownTypes
  <2>3. Owed(g, 0)
    BY <2>1 DEF ShownInv
  <2> QED
    BY <1>13, <2>1, <2>2, <2>3
<1> QED
  BY <1>6, <1>7, <1>8, <1>10, <1>16, <1>17


-----------------------------------------------------------------------------
(* What a broadcast does to the stream.                                    *)

\* Frames that a publisher may broadcast: nothing stops being owed but what they end, and
\* nothing is announced but what they bring.
Broadcast(frames) ==
    /\ UNCHANGED <<journal, clientVars>> /\ sub' = Receiving(sub, frames)
    /\ frames \in Seq(LiveFit)
    /\ published' = published \/ \E i \in 1..Len(frames) : Reaches(frames[i], published')
    /\ \A p \in Publisher : unpublished'[p] \subseteq unpublished[p]
    /\ \A i \in 1..Len(frames) : \A n : Brings(frames[i], n) =>
          /\ \E p \in Publisher : n \in unpublished[p]
          /\ \A p \in Publisher : n \notin unpublished'[p]
          /\ \A j \in 1..Len(frames) : Brings(frames[j], n) => j = i
    /\ \A g \in Segment :
          Alive(g) /\ ~(\E i \in 1..Len(frames) : Ending(frames[i], g)) =>
             \/ row'[g].status = "streaming"
             \/ attempt'.phase = "recording" /\ attempt'.segment = g
             \/ attempt'.phase = "canceled" /\ g \in attempt'.open
             \/ \E n \in unpublished'["task"] : journal[n] = g /\ n > sub.head
    /\ \A i \in 1..Len(frames) : frames[i].type = "delta" =>
          Ends(frames[i].segment) = {} /\ row'[frames[i].segment].status = "streaming"

\* A broadcast reaches the subscription, overflows it, or finds none: in each case the
\* stream stays right.
LEMMA StreamBroadcast ==
    ASSUME IInv, NEW frames, Broadcast(frames)
    PROVE  /\ LinkInv' /\ FramesFit' /\ CursorSkipsNothing'
           /\ HeadInv' /\ OnceInv' /\ DeltaInv' /\ ShownInv'
<1> DEFINE Goal == /\ LinkInv' /\ FramesFit' /\ CursorSkipsNothing'
                   /\ HeadInv' /\ OnceInv' /\ DeltaInv' /\ ShownInv'
<1>1. /\ journal' = journal /\ ack' = ack /\ link' = link /\ client' = client
      /\ sub' = Receiving(sub, frames) /\ frames \in Seq(LiveFit)
  BY DEF Broadcast, clientVars
<1>0. /\ TypeOK /\ LinkInv /\ FramesFit /\ CursorSkipsNothing
      /\ HeadInv /\ OnceInv /\ DeltaInv /\ ShownInv
  BY DEF IInv
<1>2. CursorSkipsNothing'
  BY <1>0, <1>1 DEF CursorSkipsNothing
<1>3. /\ frames \in Seq(Fit) /\ frames \in Seq(Frame) /\ sub.queue \in Seq(Fit)
      /\ sub.pending \in Seq(LiveFit) /\ sub \in Subscription /\ Len(frames) \in Nat
      /\ \A i \in 1..Len(frames) : /\ frames[i] \in LiveFit /\ frames[i].type \in {"event", "delta"}
                                   /\ frames[i] \in Frame
  <2>1. LiveFit \subseteq Fit /\ LiveFit \subseteq Frame
    BY DEF LiveFit, Fit
  <2>2. \A i \in 1..Len(frames) : frames[i] \in LiveFit
    BY <1>1, ElementOfSeq
  <2>3. frames \in Seq(Fit) /\ frames \in Seq(Frame) /\ Len(frames) \in Nat
    BY <1>1, <2>1, SeqMonotonic, LenProperties
  <2>4. \A i \in 1..Len(frames) : frames[i].type \in {"event", "delta"} /\ frames[i] \in Frame
    BY <2>1, <2>2 DEF LiveFit
  <2> QED
    BY <1>0, <2>2, <2>3, <2>4 DEF FramesFit, TypeOK
<1>4. ASSUME sub'.head = sub.head PROVE Fit' = Fit /\ LiveFit' = LiveFit
  BY <1>1, <1>4 DEF Fit, LiveFit, FrameFits
<1>5. CASE (sub.stage = "none" \/ sub.closed) /\ sub' = sub
  <2>1. LinkInv' /\ FramesFit'
    BY <1>0, <1>1, <1>4, <1>5 DEF LinkInv, FramesFit
  <2>2. HeadInv' /\ OnceInv' /\ DeltaInv' /\ ShownInv'
    BY <1>5 DEF HeadInv, OnceInv, DeltaInv, ShownInv, Open
  <2> QED
    BY <1>2, <2>1, <2>2
<1>6. CASE sub.stage # "none" /\ sub' = Overflow(sub)
  <2>1. Rebase \in Fit /\ End \in Fit /\ Fit \subseteq Frame
        /\ Rebase.type = "rebase_required" /\ End.type = "end"
    BY FramesOfServer DEF Fit, FrameFits
  <2>2. /\ Alike(sub', sub) /\ sub'.closed /\ sub'.pending = <<>> /\ sub'.queue = <<Rebase, End>>
        /\ sub'.queue \in Seq(Fit)
    BY <1>3, <1>6, <2>1, Overflowed
  <2>3. Fit' = Fit /\ LiveFit' = LiveFit
    BY <1>4, <2>2 DEF Alike
  <2>4. link = "up"
    BY <1>0, <1>6 DEF LinkInv, NoSubscription
  <2>5. FramesFit'
    BY <2>2, <2>3, EmptySeq DEF FramesFit
  <2>6. \A i \in 1..Len(sub'.queue) : sub'.queue[i].type \in {"rebase_required", "end"}
    BY <2>1, <2>2
  <2>7. LinkInv'
    BY <1>0, <1>1, <2>2, <2>4, <2>6 DEF LinkInv, Alike
  <2>8. HeadInv' /\ OnceInv' /\ DeltaInv' /\ ShownInv'
    BY <2>2 DEF HeadInv, OnceInv, DeltaInv, ShownInv, Open
  <2> QED
    BY <1>2, <2>5, <2>7, <2>8
<1>7. CASE Appended(sub', sub, frames)
  <2> DEFINE L == Len(Flow)
  <2>1. /\ sub.stage # "none" /\ ~sub.closed /\ ~sub'.closed /\ sub'.stage = sub.stage
        /\ sub'.replaying = sub.replaying /\ sub'.head = sub.head
        /\ sub.replaying => sub'.pending = sub.pending \o frames /\ sub'.queue = sub.queue
        /\ ~sub.replaying => sub'.queue = sub.queue \o frames /\ sub'.pending = sub.pending
    BY <1>7 DEF Appended, Alike
  <2>2. Fit' = Fit /\ LiveFit' = LiveFit
    BY <1>4, <2>1
  <2>3. Flow' = Flow \o frames /\ Open' = Open /\ Shown' = Shown
    BY <1>1, <2>1 DEF Flow, Open, Shown
  <2>4. Flow \in Seq(Fit) /\ L \in Nat
        /\ \A i \in 1..L : Flow[i] \in Frame /\ FrameFits(Flow[i])
    BY <1>0, FlowTypes
  <2>5. /\ Len(Flow') = L + Len(frames)
        /\ \A i \in 1..L : i \in 1..Len(Flow') /\ Flow'[i] = Flow[i]
        /\ \A i \in 1..Len(frames) : L + i \in 1..Len(Flow') /\ Flow'[L + i] = frames[i]
        /\ \A i \in 1..Len(Flow') : i \in 1..L \/ \E k \in 1..Len(frames) : i = L + k
    BY <1>3, <2>3, <2>4, ConcatPlaces
  <2> HIDE DEF L
  <2>6. FramesFit'
    <3>1. sub.queue \o frames \in Seq(Fit) /\ sub.pending \o frames \in Seq(LiveFit)
      BY <1>1, <1>3, ConcatProperties
    <3> QED
      BY <1>3, <2>1, <2>2, <3>1 DEF FramesFit
  <2>7. LinkInv'
    <3>1. link = "up"
      BY <1>0, <2>1 DEF LinkInv, NoSubscription
    <3>2. CASE sub.replaying
      BY <1>0, <1>1, <2>1, <3>1, <3>2 DEF LinkInv
    <3>3. CASE ~sub.replaying
      <4>1. \A i \in 1..L : Flow[i].type # "hello"
        BY <1>0, <3>3 DEF LinkInv, Flow, L
      <4>2. \A i \in 1..Len(Flow') : Flow'[i].type # "hello"
        BY <1>3, <2>5, <4>1
      <4>3. \A i \in 1..Len(sub'.queue) : sub'.queue[i].type # "hello"
        BY <2>1, <3>3, <4>2 DEF Flow
      <4> QED
        BY <1>0, <1>1, <2>1, <3>1, <3>3, <4>3 DEF LinkInv
    <3> QED
      BY <3>2, <3>3
  <2>8. \A f, n : (Brings(f, n)' <=> Brings(f, n)) /\ (Reaches(f, n)' <=> Reaches(f, n))
    BY DEF Brings, Reaches
  <2>9. HeadInv'
    <3> SUFFICES ASSUME Open
                 PROVE  \/ published' <= (IF sub.replaying THEN sub.head ELSE client.cursor)
                        \/ \E i \in 1..Len(Flow') : Reaches(Flow'[i], published')
                        \/ ~sub.replaying /\ \E n \in client.held : n >= published'
      BY <1>1, <2>1, <2>3 DEF HeadInv, Reaches
    <3>1. CASE published' = published
      BY <1>0, <1>1, <2>1, <2>5, <3>1 DEF HeadInv, L
    <3>2. CASE \E i \in 1..Len(frames) : Reaches(frames[i], published')
      BY <2>5, <3>2
    <3> QED
      BY <3>1, <3>2 DEF Broadcast
  <2>10. OnceInv'
    <3> SUFFICES ASSUME Open
                 PROVE  /\ sub.replaying => \A n \in client.held : n <= sub.head
                        /\ \A n \in (sub.head + 1)..Len(journal) :
                             /\ \A p \in Publisher : n \in unpublished'[p] =>
                                   n \notin client.held /\ \A i \in 1..Len(Flow') : ~Brings(Flow'[i], n)
                             /\ \A i \in 1..Len(Flow') : Brings(Flow'[i], n) =>
                                   /\ n \notin client.held
                                   /\ \A j \in 1..Len(Flow') : Brings(Flow'[j], n) => j = i
      BY <1>1, <2>1, <2>3 DEF OnceInv, Brings
    <3>1. sub.replaying => \A n \in client.held : n <= sub.head
      BY <1>0 DEF OnceInv
    <3>2. SUFFICES ASSUME NEW n \in (sub.head + 1)..Len(journal)
                   PROVE  /\ \A p \in Publisher : n \in unpublished'[p] =>
                                   n \notin client.held /\ \A i \in 1..Len(Flow') : ~Brings(Flow'[i], n)
                          /\ \A i \in 1..Len(Flow') : Brings(Flow'[i], n) =>
                                   /\ n \notin client.held
                                   /\ \A j \in 1..Len(Flow') : Brings(Flow'[j], n) => j = i
      BY <3>1
    <3>3. /\ \A p \in Publisher : n \in unpublished[p] =>
                    n \notin client.held /\ \A i \in 1..L : ~Brings(Flow[i], n)
          /\ \A i \in 1..L : Brings(Flow[i], n) =>
                    /\ n \notin client.held
                    /\ \A j \in 1..L : Brings(Flow[j], n) => j = i
      BY <1>0, <3>2 DEF OnceInv, L
    <3>4. \A i \in 1..Len(frames) : Brings(frames[i], n) =>
              /\ n \notin client.held /\ \A j \in 1..L : ~Brings(Flow[j], n)
              /\ \A p \in Publisher : n \notin unpublished'[p]
              /\ \A j \in 1..Len(frames) : Brings(frames[j], n) => j = i
      BY <3>3 DEF Broadcast
    <3>5. \A p \in Publisher : n \in unpublished'[p] => n \in unpublished[p]
      BY DEF Broadcast
    <3>6. \A p \in Publisher : n \in unpublished'[p] =>
                n \notin client.held /\ \A i \in 1..Len(Flow') : ~Brings(Flow'[i], n)
      BY <2>5, <3>3, <3>4, <3>5
    <3>7. ASSUME NEW i \in 1..Len(Flow'), Brings(Flow'[i], n)
          PROVE  /\ n \notin client.held
                 /\ \A j \in 1..Len(Flow') : Brings(Flow'[j], n) => j = i
      <4>1. CASE i \in 1..L
        BY <2>5, <3>3, <3>4, <3>7, <4>1
      <4>2. CASE \E k \in 1..Len(frames) : i = L + k
        BY <2>5, <3>3, <3>4, <3>7, <4>2
      <4> QED
        BY <2>5, <4>1, <4>2
    <3> QED
      BY <3>6, <3>7
  <2>11. \A g \in Segment : \A i \in 0..L : Owed(g, i) => Owed(g, i)'
    <3> SUFFICES ASSUME NEW g \in Segment, NEW i \in 0..L, Owed(g, i) PROVE Owed(g, i)'
      OBVIOUS
    <3>0. \A f \in Frame : Ending(f, g)' <=> Ending(f, g)
      BY <1>1, <2>1 DEF Ending
    <3>1. CASE Later(i, g)
      <4>1. PICK j \in 1..L : j > i /\ Ending(Flow[j], g)
        BY <3>1 DEF Later, L
      <4>2. j \in 1..Len(Flow') /\ Ending(Flow'[j], g)
        BY <2>5, <4>1
      <4> QED
        BY <1>1, <2>1, <4>1, <4>2 DEF Owed, Later, Ending
    <3>2. CASE Alive(g) /\ \E k \in 1..Len(frames) : Ending(frames[k], g)
      <4>1. PICK k \in 1..Len(frames) : Ending(frames[k], g)
        BY <3>2
      <4>2. L + k \in 1..Len(Flow') /\ Ending(Flow'[L + k], g) /\ L + k > i
        BY <2>4, <2>5, <4>1
      <4> QED
        BY <1>1, <2>1, <4>2 DEF Owed, Later, Ending
    <3>3. CASE Alive(g) /\ ~ \E k \in 1..Len(frames) : Ending(frames[k], g)
      <4>1. \/ row'[g].status = "streaming"
            \/ attempt'.phase = "recording" /\ attempt'.segment = g
            \/ attempt'.phase = "canceled" /\ g \in attempt'.open
            \/ \E n \in unpublished'["task"] : journal[n] = g /\ n > sub.head
        BY <3>3 DEF Broadcast
      <4>2. Alive(g)'
        BY <1>1, <2>1, <4>1 DEF Alive
      <4> QED
        BY <4>2 DEF Owed
    <3> QED
      BY <3>1, <3>2, <3>3 DEF Owed
  <2>12. DeltaInv'
    <3> SUFFICES ASSUME NEW i \in 1..Len(Flow'), Flow'[i].type = "delta"
                 PROVE  \A g : g = Flow'[i].segment =>
                            /\ sub.replaying => \A n \in Ends(g)' : n > client.cursor
                            /\ Owed(g, i)' \/ EndsInReplay(g)'
      BY <1>1, <2>1 DEF DeltaInv
    <3>1. \A g : Ends(g)' = Ends(g) /\ (EndsInReplay(g)' <=> EndsInReplay(g))
      BY <1>1, <2>1 DEF Ends, EndsInReplay
    <3>2. CASE i \in 1..L
      <4>1. PICK g \in Segment : g = Flow[i].segment
        BY <2>4, <2>5, <3>2, FrameFields
      <4>2. /\ sub.replaying => \A n \in Ends(g) : n > client.cursor
            /\ Owed(g, i) \/ EndsInReplay(g)
        BY <1>0, <2>1, <2>5, <3>2, <4>1 DEF DeltaInv, L
      <4>3. i \in 0..L
        BY <3>2
      <4> QED
        BY <2>5, <2>11, <3>1, <3>2, <4>1, <4>2, <4>3
    <3>3. CASE \E k \in 1..Len(frames) : i = L + k
      <4>1. PICK k \in 1..Len(frames) : i = L + k
        BY <3>3
      <4>2. Flow'[i] = frames[k] /\ frames[k].type = "delta"
        BY <2>5, <4>1
      <4>3. PICK g \in Segment : g = frames[k].segment
        BY <1>3, <4>2, FrameFields
      <4>4. Ends(g) = {} /\ row'[g].status = "streaming"
        BY <4>2, <4>3 DEF Broadcast
      <4>5. Owed(g, i)'
        BY <4>4 DEF Owed, Alive
      <4> QED
        BY <3>1, <4>2, <4>3, <4>4, <4>5
    <3> QED
      BY <2>5, <3>2, <3>3
  <2>13. ShownInv'
    <3> SUFFICES ASSUME sub.stage = "ready", NEW g \in Shown PROVE Owed(g, 0)'
      BY <2>1, <2>3 DEF ShownInv
    <3>1. Owed(g, 0)
      BY <1>0, <2>1 DEF ShownInv
    <3>2. g \in Segment /\ 0 \in 0..L
      BY <1>0, <2>1, <2>4, ShownTypes
    <3> QED
      BY <2>11, <3>1, <3>2
  <2> QED
    BY <1>2, <2>6, <2>7, <2>9, <2>10, <2>12, <2>13
<1> QED
  BY <1>0, <1>1, <1>3, <1>5, <1>6, <1>7, Received DEF TypeOK


\* A subscription that receives frames keeps its type and its bounds.
LEMMA ReceivingTypes ==
    ASSUME TypeOK, NEW frames \in Seq(Frame), sub' = Receiving(sub, frames)
    PROVE  /\ sub' \in Subscription /\ sub'.head = sub.head
           /\ Len(sub'.queue) <= QueueSize /\ Len(sub'.pending) <= QueueSize
<1>1. /\ sub \in Subscription /\ Len(sub.queue) <= QueueSize /\ Len(sub.pending) <= QueueSize
  BY DEF TypeOK
<1>2. Overflow(sub).head = sub.head
  BY <1>1 DEF Overflow, Subscription
<1> QED
  BY <1>1, <1>2, Received DEF Appended, Alike

\* The events of a transaction are broadcast.
LEMMA Published ==
    ASSUME IInv, NEW p \in Publisher, Publish(p)
    PROVE  /\ Broadcast(EventFrames(unpublished[p]))
           /\ TypeOK' /\ TaskInv' /\ FiniteInv' /\ CommitInv'
<1> DEFINE U == unpublished[p]
           frames == EventFrames(U)
<1>0. TypeOK /\ TaskInv /\ FiniteInv /\ CommitInv
  BY DEF IInv
<1>1. /\ U # {} /\ unpublished' = [unpublished EXCEPT ![p] = {}]
      /\ published' = Highest(U \cup {published}) /\ sub' = Receiving(sub, frames)
      /\ UNCHANGED <<journal, row, attempt, clientVars, faults>>
  BY DEF Publish
<1>2. /\ U \subseteq 1..Len(journal) /\ Len(journal) \in Nat /\ published \in Nat /\ published <= Len(journal)
      /\ {"task", "handler"} = Publisher
  BY <1>0, Typed, StatusTypes
<1>3. PICK a \in Nat, b \in Nat : U = a..b
  BY <1>0 DEF CommitInv
<1>4. a <= b /\ a >= 1 /\ b <= Len(journal)
  BY <1>1, <1>2, <1>3
<1>5. frames = [k \in 1..(b - a + 1) |-> Event(a + k - 1)]
  BY <1>3, <1>4, FramesOfInterval
<1> HIDE DEF frames
<1>6. \A k \in 1..(b - a + 1) : /\ a + k - 1 \in 1..Len(journal) /\ Event(a + k - 1) \in Fit
                                /\ Event(a + k - 1) \in LiveFit /\ Event(a + k - 1) \in Frame
  <2> TAKE k \in 1..(b - a + 1)
  <2>1. a + k - 1 \in 1..Len(journal) /\ a + k - 1 \in Nat
    BY <1>2, <1>4
  <2>2. /\ Event(a + k - 1) \in Frame /\ Event(a + k - 1).type = "event"
        /\ Event(a + k - 1).seq = a + k - 1
    BY <2>1, FramesOfServer
  <2> QED
    BY <2>1, <2>2 DEF Fit, FrameFits, LiveFit
<1>7. b - a + 1 \in Nat
  BY <1>4
<1>8. frames \in Seq(LiveFit) /\ frames \in Seq(Frame) /\ Len(frames) = b - a + 1
  <2> DEFINE N == b - a + 1
  <2>1. frames \in [1..N -> LiveFit] /\ frames \in [1..N -> Frame]
    BY <1>5, <1>6
  <2> HIDE DEF N
  <2>2. N \in Nat
    BY <1>7 DEF N
  <2>3. frames \in Seq(LiveFit) /\ frames \in Seq(Frame) /\ Len(frames) = N
    BY <2>1, <2>2
  <2> QED
    BY <2>3 DEF N
<1>9. \A i \in 1..Len(frames) : frames[i].type = "event" /\ frames[i].seq = a + i - 1 /\ a + i - 1 \in U
  <2> TAKE i \in 1..Len(frames)
  <2>1. frames[i] = Event(a + i - 1) /\ a + i - 1 \in Nat /\ a + i - 1 \in U
    BY <1>3, <1>4, <1>5, <1>8
  <2> QED
    BY <2>1, FramesOfServer
<1>10. \A n \in U : n - a + 1 \in 1..Len(frames) /\ frames[n - a + 1].type = "event"
                    /\ frames[n - a + 1].seq = n
  <2> TAKE n \in U
  <2>1. n - a + 1 \in 1..Len(frames) /\ a + (n - a + 1) - 1 = n
    BY <1>3, <1>4, <1>8
  <2> QED
    BY <1>9, <2>1
<1>11. published' \in U \cup {published}
  <2> DEFINE S == U \cup {published}
  <2>1. S \subseteq Nat /\ S # {} /\ \A n \in S : n <= Len(journal)
    BY <1>2
  <2> HIDE DEF S
  <2>2. Highest(S) \in S
    BY <1>2, <2>1, HighestIsIn
  <2> QED
    BY <1>1, <2>2 DEF S
<1>12. unpublished'[p] = {} /\ (\A q \in Publisher : q # p => unpublished'[q] = unpublished[q])
       /\ unpublished' \in [Publisher -> SUBSET (1..Len(journal))]
  BY <1>0, <1>1 DEF TypeOK
<1>13. \A q \in Publisher : U \cap unpublished'[q] = {}
  BY <1>0, <1>12 DEF CommitInv, Publisher
<1>14. Broadcast(frames)
  <2>1. published' = published \/ \E i \in 1..Len(frames) : Reaches(frames[i], published')
    <3>1. \A n \in U : \E i \in 1..Len(frames) : frames[i].type = "event" /\ frames[i].seq = n /\ n \in Nat
      BY <1>2, <1>10
    <3> QED
      BY <1>11, <3>1 DEF Reaches
  <2>2. \A q \in Publisher : unpublished'[q] \subseteq unpublished[q]
    BY <1>12
  <2>3. \A i \in 1..Len(frames) : \A n : Brings(frames[i], n) =>
          /\ \E q \in Publisher : n \in unpublished[q]
          /\ \A q \in Publisher : n \notin unpublished'[q]
          /\ \A j \in 1..Len(frames) : Brings(frames[j], n) => j = i
    <3> SUFFICES ASSUME NEW i \in 1..Len(frames), NEW n, Brings(frames[i], n)
                 PROVE  /\ \E q \in Publisher : n \in unpublished[q]
                        /\ \A q \in Publisher : n \notin unpublished'[q]
                        /\ \A j \in 1..Len(frames) : Brings(frames[j], n) => j = i
      OBVIOUS
    <3>1. n = a + i - 1 /\ n \in U
      BY <1>9 DEF Brings
    <3>2. \A j \in 1..Len(frames) : Brings(frames[j], n) => n = a + j - 1
      BY <1>9 DEF Brings
    <3>3. \A j \in 1..Len(frames) : n = a + j - 1 => j = i
      BY <1>8, <3>1
    <3> QED
      BY <1>13, <3>1, <3>2, <3>3
  <2>4. ASSUME NEW g \in Segment, Alive(g), ~(\E i \in 1..Len(frames) : Ending(frames[i], g))
        PROVE  \/ row'[g].status = "streaming"
               \/ attempt'.phase = "recording" /\ attempt'.segment = g
               \/ attempt'.phase = "canceled" /\ g \in attempt'.open
               \/ \E n \in unpublished'["task"] : journal[n] = g /\ n > sub.head
    <3>1. ASSUME NEW n \in unpublished["task"], journal[n] = g, n > sub.head
          PROVE  n \in unpublished'["task"]
      <4>1. n \notin U
        BY <1>10, <2>4, <3>1 DEF Ending
      <4> QED
        BY <1>2, <1>12, <3>1, <4>1
    <3> QED
      BY <1>1, <2>4, <3>1 DEF Alive
  <2>5. \A i \in 1..Len(frames) : frames[i].type # "delta"
    BY <1>9
  <2> QED
    BY <1>1, <1>8, <2>1, <2>2, <2>3, <2>4, <2>5 DEF Broadcast
<1>15. TypeOK'
  <2>1. /\ sub' \in Subscription /\ sub'.head = sub.head
        /\ Len(sub'.queue) <= QueueSize /\ Len(sub'.pending) <= QueueSize
    BY <1>0, <1>1, <1>8, ReceivingTypes
  <2>2. published' \in 0..Len(journal)
    BY <1>2, <1>11
  <2> QED
    BY <1>0, <1>1, <1>12, <2>1, <2>2 DEF TypeOK, clientVars
<1>16. TaskInv'
  <2>1. unpublished'["task"] \subseteq unpublished["task"]
    BY <1>2, <1>12
  <2>2. \A g \in Segment : Ends(g)' = Ends(g)
    BY <1>1 DEF Ends
  <2> QED
    BY <1>0, <1>1, <2>1, <2>2 DEF TaskInv
<1>17. CommitInv'
  <2>1. {} = 1..0 /\ 0 \in Nat /\ 1 \in Nat
    OBVIOUS
  <2>2. \A q \in Publisher : \E x, y \in Nat : unpublished'[q] = x..y
    BY <1>0, <1>12, <2>1 DEF CommitInv
  <2>3. unpublished'["task"] \cap unpublished'["handler"] = {}
    BY <1>0, <1>2, <1>12 DEF CommitInv
  <2> QED
    BY <2>2, <2>3 DEF CommitInv
<1>18. FiniteInv'
  BY <1>0, <1>1 DEF FiniteInv
<1> QED
  BY <1>14, <1>15, <1>16, <1>17, <1>18 DEF frames


\* A broadcast of one frame.
LEMMA OneFrame ==
    ASSUME NEW S, NEW f \in S
    PROVE  <<f>> \in Seq(S) /\ Len(<<f>>) = 1 /\ \A i \in 1..Len(<<f>>) : <<f>>[i] = f
OBVIOUS

\* A delta is broadcast while its segment is open.
LEMMA DeltaBroadcast ==
    ASSUME IInv, NEW g \in Segment, NEW from \in Text, NEW to \in Text,
           row[g].status = "streaming", attempt.phase \notin {"recording", "canceled"},
           UNCHANGED <<journal, row, unpublished, published, clientVars, faults>>,
           attempt' \in Attempt, attempt'.phase = "streaming", attempt'.open = attempt.open,
           unpublished["task"] = {},
           sub' = Receiving(sub, <<Delta(g, from, to)>>)
    PROVE  /\ Broadcast(<<Delta(g, from, to)>>)
           /\ TypeOK' /\ TaskInv' /\ FiniteInv' /\ CommitInv'
<1> DEFINE f == Delta(g, from, to)
           frames == <<f>>
<1>0. TypeOK /\ TaskInv /\ FiniteInv /\ CommitInv
  BY DEF IInv
<1>1. f \in Frame /\ f.type = "delta" /\ f.segment = g
  BY FramesOfServer
<1>2. f \in LiveFit
  BY <1>1 DEF LiveFit, Fit, FrameFits
<1> HIDE DEF f
<1>3. /\ frames \in Seq(LiveFit) /\ frames \in Seq(Frame)
      /\ \A i \in 1..Len(frames) : frames[i] = f
  BY <1>1, <1>2, OneFrame
<1>4. sub' = Receiving(sub, frames)
  BY DEF f
<1> HIDE DEF frames
<1>5. Ends(g) = {}
  BY <1>0 DEF TaskInv
<1>6. Broadcast(frames)
  <2>1. \A i \in 1..Len(frames) : \A n : ~Brings(frames[i], n)
    BY <1>1, <1>3 DEF Brings
  <2>2. ASSUME NEW h \in Segment, Alive(h)
        PROVE  row'[h].status = "streaming"
    BY <2>2 DEF Alive
  <2>3. \A i \in 1..Len(frames) : frames[i].type = "delta" =>
            Ends(frames[i].segment) = {} /\ row'[frames[i].segment].status = "streaming"
    BY <1>1, <1>3, <1>5
  <2> QED
    BY <1>3, <1>4, <2>1, <2>2, <2>3 DEF Broadcast
<1>7. TypeOK'
  <2>1. /\ sub' \in Subscription /\ sub'.head = sub.head
        /\ Len(sub'.queue) <= QueueSize /\ Len(sub'.pending) <= QueueSize
    BY <1>0, <1>3, <1>4, ReceivingTypes
  <2> QED
    BY <1>0, <2>1 DEF TypeOK, clientVars
<1>8. TaskInv'
  <2>1. \A h \in Segment : Ends(h)' = Ends(h)
    BY DEF Ends
  <2> QED
    BY <1>0, <2>1 DEF TaskInv
<1>9. CommitInv' /\ FiniteInv'
  BY <1>0 DEF CommitInv, FiniteInv
<1> QED
  BY <1>6, <1>7, <1>8, <1>9 DEF frames, f

\* A text grows, and its delta may be broadcast at once,
LEMMA Grown ==
    ASSUME IInv, NEW g \in Segment, NEW length \in Lengths(g), Grow(g, length)
    PROVE  /\ \E frames : Broadcast(frames)
           /\ TypeOK' /\ TaskInv' /\ FiniteInv' /\ CommitInv'
<1>0. TypeOK /\ TaskInv
  BY DEF IInv
<1>1. /\ attempt' = [Goto("streaming", NoSegment) EXCEPT !.text[g] = length]
      /\ sub' = Receiving(sub, <<Delta(g, attempt.text[g], length)>>)
      /\ UNCHANGED <<journal, row, unpublished, published, clientVars, faults>>
  BY DEF Grow
<1>2. /\ row[g].status = "streaming" /\ unpublished["task"] = {}
      /\ attempt.phase \in {"streaming", "created"}
  BY <1>0 DEF Grow, MayGrow, AtRest, Streaming, TaskInv
<1>3. length \in Text /\ attempt.text[g] \in Text
  BY <1>0, LengthTypes, Typed
<1>4. Goto("streaming", NoSegment) \in Attempt
  BY <1>0, GotoTypes, StatusTypes
<1>5. attempt' \in Attempt /\ attempt'.phase = "streaming" /\ attempt'.open = attempt.open
  <2>1. Goto("streaming", NoSegment).phase = "streaming" /\ Goto("streaming", NoSegment).open = attempt.open
    BY <1>0, GotoFields
  <2> QED
    BY <1>1, <1>3, <1>4, <2>1 DEF Attempt
<1> QED
  BY <1>1, <1>2, <1>3, <1>5, DeltaBroadcast

\* ... or later.
LEMMA DeltaSent ==
    ASSUME IInv, SendDelta
    PROVE  /\ \E frames : Broadcast(frames)
           /\ TypeOK' /\ TaskInv' /\ FiniteInv' /\ CommitInv'
<1>0. TypeOK /\ TaskInv
  BY DEF IInv
<1>1. /\ attempt' = Goto("streaming", NoSegment) /\ attempt.phase = "sending"
      /\ sub' = Receiving(sub, <<Delta(attempt.segment, attempt.delta[1], attempt.delta[2])>>)
      /\ UNCHANGED <<journal, row, unpublished, published, clientVars, faults>>
  BY DEF SendDelta
<1>2. /\ row[attempt.segment].status = "streaming" /\ unpublished["task"] = {}
      /\ attempt.segment \in attempt.open /\ attempt.open \subseteq Segment
  BY <1>0, <1>1, Typed DEF TaskInv
<1>3. attempt.delta[1] \in Text /\ attempt.delta[2] \in Text
  BY <1>0, Typed
<1>4. attempt' \in Attempt /\ attempt'.phase = "streaming" /\ attempt'.open = attempt.open
  BY <1>0, <1>1, GotoTypes, GotoFields, StatusTypes
<1> QED
  BY <1>1, <1>2, <1>3, <1>4, DeltaBroadcast


-----------------------------------------------------------------------------
(* The first state, a connection that is lost, and the history.            *)

\* A client without a subscription.
LEMMA NoSubscriptionTypes ==
    /\ NoSubscription \in Subscription /\ NoSubscription.stage = "none" /\ NoSubscription.head = 0
    /\ NoSubscription.queue = <<>> /\ NoSubscription.pending = <<>>
    /\ NoSubscription.replaying /\ ~NoSubscription.closed
    /\ Len(<<>>) = 0
BY TextTypes, EmptySeq DEF NoSubscription, Subscription

\* A client that is not connected has no stream.
LEMMA StreamDropped ==
    ASSUME sub' = NoSubscription, ack' = {}, CursorSkipsNothing'
    PROVE  /\ LinkInv' /\ FramesFit' /\ CursorSkipsNothing'
           /\ HeadInv' /\ OnceInv' /\ DeltaInv' /\ ShownInv'
<1>1. sub'.stage = "none" /\ sub'.queue = <<>> /\ sub'.pending = <<>> /\ sub'.replaying /\ Len(sub'.queue) = 0
  BY NoSubscriptionTypes
<1>2. LinkInv'
  BY <1>1 DEF LinkInv
<1>3. FramesFit'
  BY <1>1, EmptySeq DEF FramesFit
<1>4. HeadInv' /\ OnceInv' /\ DeltaInv' /\ ShownInv'
  BY <1>1 DEF HeadInv, OnceInv, DeltaInv, ShownInv, Open
<1> QED
  BY <1>2, <1>3, <1>4

\* The invariant holds at the start.
LEMMA Initially == Init => IInv
<1> SUFFICES ASSUME Init PROVE IInv
  OBVIOUS
<1>1. /\ journal = <<>> /\ Len(journal) = 0 /\ unpublished = [p \in Publisher |-> {}]
      /\ row = [g \in Segment |-> [status |-> "absent", text |-> 0]]
      /\ attempt = [phase |-> "none", segment |-> NoSegment, open |-> {},
                    text |-> NoText, delta |-> <<0, 0>>]
      /\ sub = NoSubscription /\ published = 0 /\ ack = {} /\ link = "unloaded" /\ faults = 0
      /\ client = EmptyStore
  BY EmptySeq DEF Init
<1>2. /\ client.held = {} /\ client.cursor = 0 /\ client.before = 1 /\ client.shown = {}
      /\ client \in Store
  BY <1>1, TextTypes DEF EmptyStore, Store
<1>3. row \in [Segment -> Row] /\ attempt \in Attempt
  BY <1>1, TextTypes, StatusTypes DEF Row, Attempt
<1>4. TypeOK
  <2>1. sub \in Subscription /\ sub.head <= Len(journal) /\ Len(sub.queue) <= QueueSize
        /\ Len(sub.pending) <= QueueSize
    BY <1>1, NoSubscriptionTypes, LimitAssumption
  <2> QED
    BY <1>1, <1>2, <1>3, <2>1, EmptySeq DEF TypeOK
<1>5. TaskInv
  <2>1. \A g \in Segment : row[g].status = "absent" /\ Ends(g) = {}
    BY <1>1 DEF Ends
  <2>2. unpublished["task"] = {}
    BY <1>1, StatusTypes
  <2> QED
    BY <1>1, <2>1, <2>2 DEF TaskInv
<1>6. FiniteInv
  <2>1. {g \in Segment : row[g].status = "streaming"} = {}
    BY <1>1
  <2> QED
    BY <2>1, FS_EmptySet DEF FiniteInv
<1>7. CommitInv
  <2>1. {} = 1..0 /\ 0 \in Nat /\ 1 \in Nat
    OBVIOUS
  <2>2. \A q \in Publisher : \E x, y \in Nat : unpublished[q] = x..y
    BY <1>1, <2>1
  <2>3. unpublished["task"] = {}
    BY <1>1, StatusTypes
  <2> QED
    BY <2>2, <2>3 DEF CommitInv
<1>8. CursorSkipsNothing
  BY <1>2 DEF CursorSkipsNothing
<1>9. LinkInv /\ FramesFit
  BY <1>1, NoSubscriptionTypes, EmptySeq DEF LinkInv, FramesFit
<1>10. HeadInv /\ OnceInv /\ DeltaInv /\ ShownInv
  BY <1>1, NoSubscriptionTypes DEF HeadInv, OnceInv, DeltaInv, ShownInv, Open
<1> QED
  BY <1>4, <1>5, <1>6, <1>7, <1>8, <1>9, <1>10 DEF IInv

\* A process that starts again has no subscriptions and no task.
LEMMA Restarted ==
    ASSUME IInv, Restart
    PROVE  IInv'
<1>0. TypeOK /\ TaskInv /\ FiniteInv /\ CursorSkipsNothing /\ LinkInv
  BY DEF IInv
<1>1. /\ attempt' = IF attempt.phase = "none" THEN attempt ELSE [Over EXCEPT !.phase = "canceled"]
      /\ unpublished' = [p \in Publisher |-> {}] /\ published' = 0 /\ sub' = NoSubscription /\ ack' = {}
      /\ link' = (IF link = "up" THEN "down" ELSE link) /\ faults' = faults + 1
      /\ UNCHANGED <<journal, row, client>>
  BY DEF Restart, Fault
<1>2. CursorSkipsNothing'
  BY <1>0, <1>1 DEF CursorSkipsNothing
<1>3. attempt' \in Attempt /\ (attempt.phase = "none" => attempt' = attempt)
      /\ (attempt.phase # "none" => attempt'.phase = "canceled")
  <2>1. Over \in Attempt
    BY <1>0, GotoTypes, StatusTypes
  <2> QED
    BY <1>0, <1>1, <2>1, StatusTypes DEF TypeOK, Attempt
<1>4. TypeOK'
  <2>1. Len(journal) \in Nat
    BY <1>0, Typed
  <2>2. unpublished' \in [Publisher -> SUBSET (1..Len(journal'))]
    BY <1>1
  <2>3. NoSubscription \in Subscription /\ NoSubscription.head <= Len(journal')
        /\ Len(NoSubscription.queue) <= QueueSize /\ Len(NoSubscription.pending) <= QueueSize
    BY <1>1, <2>1, NoSubscriptionTypes, LimitAssumption
  <2>4. published' \in 0..Len(journal') /\ link' \in {"unloaded", "down", "up"} /\ faults' \in Nat
    BY <1>0, <1>1, <2>1 DEF TypeOK
  <2> QED
    BY <1>0, <1>1, <1>3, <2>2, <2>3, <2>4 DEF TypeOK
<1>5. TaskInv'
  <2>1. \A g \in Segment : Ends(g)' = Ends(g)
    BY <1>1 DEF Ends
  <2>2. unpublished'["task"] = {}
    BY <1>1, StatusTypes
  <2> QED
    BY <1>0, <1>1, <1>3, <2>1, <2>2 DEF TaskInv
<1>6. FiniteInv' /\ CommitInv'
  <2>1. {} = 1..0 /\ 0 \in Nat /\ 1 \in Nat
    OBVIOUS
  <2>2. \A q \in Publisher : \E x, y \in Nat : unpublished'[q] = x..y
    BY <1>1, <2>1
  <2>3. unpublished'["task"] = {}
    BY <1>1, StatusTypes
  <2> QED
    BY <1>0, <1>1, <2>2, <2>3 DEF CommitInv, FiniteInv
<1> QED
  BY <1>1, <1>2, <1>4, <1>5, <1>6, StreamDropped DEF IInv

\* The rest of a step that leaves the rows, the task and the journal alone.
LEMMA TaskIdle ==
    ASSUME IInv, UNCHANGED attemptVars
    PROVE  /\ TaskInv' /\ FiniteInv' /\ CommitInv'
           /\ journal' = journal /\ row' = row /\ attempt' = attempt /\ unpublished' = unpublished
           /\ \A g : Ends(g)' = Ends(g)
<1>1. journal' = journal /\ row' = row /\ attempt' = attempt /\ unpublished' = unpublished
  BY DEF attemptVars
<1>2. \A g : Ends(g)' = Ends(g)
  BY <1>1 DEF Ends
<1> QED
  BY <1>1, <1>2 DEF IInv, TaskInv, FiniteInv, CommitInv

\* A client that loses its connection keeps what it has.
LEMMA Disconnected ==
    ASSUME IInv, Disconnect
    PROVE  IInv'
<1>0. TypeOK /\ CursorSkipsNothing
  BY DEF IInv
<1>1. /\ link' = "down" /\ sub' = NoSubscription /\ ack' = {} /\ faults' = faults + 1
      /\ UNCHANGED <<attemptVars, published, client>>
  BY DEF Disconnect, Fault
<1>2. TaskInv' /\ FiniteInv' /\ CommitInv' /\ UNCHANGED <<journal, row, attempt, unpublished>>
  BY <1>1, TaskIdle
<1>3. CursorSkipsNothing'
  BY <1>0, <1>1 DEF CursorSkipsNothing
<1>4. TypeOK'
  <2>1. Len(journal) \in Nat
    BY <1>0, Typed
  <2>2. NoSubscription \in Subscription /\ NoSubscription.head <= Len(journal')
        /\ Len(NoSubscription.queue) <= QueueSize /\ Len(NoSubscription.pending) <= QueueSize
    BY <1>2, <2>1, NoSubscriptionTypes, LimitAssumption
  <2> QED
    BY <1>0, <1>1, <1>2, <2>2 DEF TypeOK
<1> QED
  BY <1>1, <1>2, <1>3, <1>4, StreamDropped DEF IInv

\* So does one that finds at a beat that it has to reload.
LEMMA RebaseFound ==
    ASSUME IInv, Heartbeat
    PROVE  IInv'
<1>0. TypeOK /\ CursorSkipsNothing
  BY DEF IInv
<1>1. /\ link' = "unloaded" /\ sub' = NoSubscription /\ ack' = {}
      /\ UNCHANGED <<attemptVars, published, client, faults>>
  BY DEF Heartbeat
<1>2. TaskInv' /\ FiniteInv' /\ CommitInv' /\ UNCHANGED <<journal, row, attempt, unpublished>>
  BY <1>1, TaskIdle
<1>3. CursorSkipsNothing'
  BY <1>0, <1>1 DEF CursorSkipsNothing
<1>4. TypeOK'
  <2>1. Len(journal) \in Nat
    BY <1>0, Typed
  <2>2. NoSubscription \in Subscription /\ NoSubscription.head <= Len(journal')
        /\ Len(NoSubscription.queue) <= QueueSize /\ Len(NoSubscription.pending) <= QueueSize
    BY <1>2, <2>1, NoSubscriptionTypes, LimitAssumption
  <2> QED
    BY <1>0, <1>1, <1>2, <2>2 DEF TypeOK
<1> QED
  BY <1>1, <1>2, <1>3, <1>4, StreamDropped DEF IInv

\* The history is loaded while no stream is open.
LEMMA HistoryLoaded ==
    ASSUME IInv, LoadHistory
    PROVE  IInv'
<1>0. TypeOK /\ LinkInv
  BY DEF IInv
<1> DEFINE last == Len(journal)
           first == IF last > PageSize THEN last - PageSize + 1 ELSE 1
<1>1. /\ link = "unloaded" /\ link' = "down"
      /\ client' = [EmptyStore EXCEPT !.held = first..last, !.cursor = last, !.before = first]
      /\ UNCHANGED <<attemptVars, published, sub, ack, faults>>
  BY DEF LoadHistory
<1>2. last \in Nat /\ first \in Nat /\ first >= 1
  BY <1>0, Typed, LimitAssumption
<1>3. sub' = NoSubscription /\ ack' = {}
  BY <1>0, <1>1 DEF LinkInv
<1>4. TaskInv' /\ FiniteInv' /\ CommitInv' /\ UNCHANGED <<journal, row, attempt, unpublished>>
  BY <1>1, TaskIdle
<1> HIDE DEF first, last
<1>5. client'.held = first..last /\ client'.cursor = last /\ client'.before = first /\ client' \in Store
  <2>1. first..last \in SUBSET Nat
    BY <1>2
  <2>2. EmptyStore \in Store
    BY TextTypes DEF EmptyStore, Store
  <2> QED
    BY <1>1, <1>2, <2>1, <2>2 DEF Store
<1>6. CursorSkipsNothing'
  BY <1>5 DEF CursorSkipsNothing
<1>7. TypeOK'
  <2>1. client'.held \subseteq 1..Len(journal) /\ client'.cursor <= Len(journal)
    BY <1>2, <1>5 DEF last
  <2> QED
    BY <1>0, <1>1, <1>4, <1>5, <2>1 DEF TypeOK
<1> QED
  BY <1>3, <1>4, <1>6, <1>7, StreamDropped DEF IInv


-----------------------------------------------------------------------------
(* The subscription is made: it is registered, reads the head, and says hello. *)

\* A sequence of one element.
LEMMA OneElement ==
    ASSUME NEW x
    PROVE  /\ <<x>> # <<>> /\ <<x>>[1] = x /\ Len(<<x>>) = 1
           /\ (\A i \in 1..Len(<<x>>) : <<x>>[i] = x) /\ Append(<<>>, x) = <<x>>
OBVIOUS

\* A sequence of one set is one of another when its elements are.
LEMMA SeqOfElements ==
    ASSUME NEW A, NEW B, NEW s \in Seq(A), \A i \in 1..Len(s) : s[i] \in B
    PROVE  s \in Seq(B)
<1>1. Len(s) \in Nat /\ s \in [1..Len(s) -> A]
  BY LenProperties
<1>2. s \in [1..Len(s) -> B]
  BY <1>1
<1> QED
  BY <1>1, <1>2, SeqDef

\* A subscription is registered before it reads the head,
LEMMA Connected ==
    ASSUME IInv, Connect
    PROVE  IInv'
<1>0. TypeOK /\ LinkInv /\ CursorSkipsNothing
  BY DEF IInv
<1>1. /\ link = "down" /\ link' = "up" /\ sub' = [NoSubscription EXCEPT !.stage = "registered"]
      /\ UNCHANGED <<attemptVars, published, ack, client, faults>>
  BY DEF Connect
<1>2. ack = {}
  BY <1>0, <1>1 DEF LinkInv
<1>3. TaskInv' /\ FiniteInv' /\ CommitInv' /\ UNCHANGED <<journal, row, attempt, unpublished>>
  BY <1>1, TaskIdle
<1>4. /\ sub' \in Subscription /\ sub'.stage = "registered" /\ sub'.replaying /\ ~sub'.closed
      /\ sub'.queue = <<>> /\ sub'.pending = <<>> /\ sub'.head = 0 /\ Len(<<>>) = 0
  BY <1>1, NoSubscriptionTypes DEF Subscription
<1>5. TypeOK'
  <2>1. Len(journal) \in Nat
    BY <1>0, Typed
  <2> QED
    BY <1>0, <1>1, <1>3, <1>4, <2>1, LimitAssumption DEF TypeOK
<1>6. LinkInv'
  BY <1>0, <1>1, <1>2, <1>4 DEF LinkInv
<1>8. FramesFit' /\ CursorSkipsNothing'
  BY <1>0, <1>1, <1>4, EmptySeq DEF FramesFit, CursorSkipsNothing
<1>7. HeadInv' /\ OnceInv' /\ DeltaInv' /\ ShownInv'
  BY <1>4 DEF HeadInv, OnceInv, DeltaInv, ShownInv, Open, Flow
<1> QED
  BY <1>3, <1>5, <1>6, <1>7, <1>8 DEF IInv

\* ... so what is broadcast after the head was read is pending,
LEMMA HeadRead ==
    ASSUME IInv, ReadHead
    PROVE  IInv'
<1>0. TypeOK /\ LinkInv /\ FramesFit /\ CursorSkipsNothing /\ DeltaInv
  BY DEF IInv
<1>1. /\ sub.stage = "registered" /\ sub' = [sub EXCEPT !.stage = "reading", !.head = Len(journal)]
      /\ UNCHANGED <<attemptVars, published, clientVars, faults>>
  BY DEF ReadHead
<1>2. TaskInv' /\ FiniteInv' /\ CommitInv' /\ journal' = journal /\ row' = row
      /\ attempt' = attempt /\ unpublished' = unpublished /\ \A g : Ends(g)' = Ends(g)
  BY <1>1, TaskIdle
<1>3. /\ Len(journal) \in Nat /\ sub \in Subscription /\ published <= Len(journal)
      /\ client.held \subseteq 1..Len(journal) /\ client.cursor \in Nat
      /\ unpublished["task"] \subseteq 1..Len(journal)
  BY <1>0, Typed, StatusTypes DEF TypeOK
<1>4. /\ sub' \in Subscription /\ sub'.stage = "reading" /\ sub'.replaying = sub.replaying
      /\ sub'.closed = sub.closed /\ sub'.queue = sub.queue /\ sub'.pending = sub.pending
      /\ sub'.head = Len(journal) /\ Flow' = Flow
  BY <1>1, <1>3 DEF Subscription, Flow
<1>5. sub.replaying /\ ack = {}
  BY <1>0, <1>1 DEF LinkInv
<1>6. TypeOK'
  BY <1>0, <1>1, <1>2, <1>3, <1>4 DEF TypeOK, clientVars
<1>7. LinkInv' /\ CursorSkipsNothing'
  BY <1>0, <1>1, <1>4, NoSubscriptionTypes DEF LinkInv, clientVars, CursorSkipsNothing
<1>8. FramesFit'
  <2>1. \A i \in 1..Len(sub.queue) : sub.queue[i] \in Fit'
    <3> SUFFICES ASSUME NEW i \in 1..Len(sub.queue) PROVE sub.queue[i] \in Fit'
      OBVIOUS
    <3>1. sub.queue[i] \in Fit /\ sub.queue[i].type \in {"rebase_required", "end", "hello"}
      BY <1>0, <1>5, FlowTypes, ElementOfSeq DEF LinkInv
    <3> QED
      BY <3>1 DEF Fit, FrameFits
  <2>2. sub.queue \in Seq(Fit')
    BY <1>0, <2>1, FlowTypes, SeqOfElements
  <2>3. \A f \in LiveFit : f \in LiveFit'
    BY <1>2 DEF LiveFit, Fit, FrameFits
  <2>4. sub.pending \in Seq(LiveFit')
    BY <1>0, <2>3, FlowTypes, SeqMonotonic
  <2> QED
    BY <1>4, <2>2, <2>4 DEF FramesFit
<1>9. HeadInv' /\ OnceInv'
  <2>1. \A n \in client.held : n <= Len(journal)
    BY <1>3
  <2>2. (Len(journal) + 1)..Len(journal) = {}
    BY <1>3
  <2> QED
    BY <1>1, <1>2, <1>3, <1>4, <1>5, <2>1, <2>2 DEF HeadInv, OnceInv, clientVars
<1>10. DeltaInv'
  <2> SUFFICES ASSUME ~sub.closed, NEW i \in 1..Len(Flow), Flow[i].type = "delta"
               PROVE  \A g : g = Flow[i].segment =>
                         /\ \A n \in Ends(g) : n > client.cursor
                         /\ Owed(g, i)' \/ EndsInReplay(g)'
    BY <1>1, <1>2, <1>4 DEF DeltaInv, clientVars
  <2>1. PICK g \in Segment : g = Flow[i].segment
    BY <1>0, FlowTypes, FrameFields
  <2>2. /\ \A n \in Ends(g) : n > client.cursor
        /\ Owed(g, i) \/ EndsInReplay(g)
    BY <1>0, <1>1, <1>5, <2>1 DEF DeltaInv
  <2>3. ASSUME NEW n \in Ends(g) PROVE EndsInReplay(g)'
    BY <1>2, <1>3, <1>4, <1>5, <2>3 DEF EndsInReplay, Ends
  <2>4. ASSUME Alive(g) PROVE Alive(g)' \/ EndsInReplay(g)'
    <3>1. ASSUME NEW n \in unpublished["task"], journal[n] = g PROVE n \in Ends(g)
      BY <1>3, <3>1 DEF Ends
    <3> QED
      BY <1>2, <2>3, <2>4, <3>1 DEF Alive
  <2>5. ASSUME Later(i, g) PROVE EndsInReplay(g)'
    <3>1. PICK j \in 1..Len(Flow) : Ending(Flow[j], g)
      BY <2>5 DEF Later
    <3>2. FrameFits(Flow[j])
      BY <1>0, FlowTypes
    <3>3. Flow[j].seq \in Ends(g)
      BY <3>1, <3>2 DEF Ending, FrameFits, Ends
    <3> QED
      BY <2>3, <3>3
  <2>6. ASSUME EndsInReplay(g) PROVE EndsInReplay(g)'
    BY <2>3, <2>6 DEF EndsInReplay
  <2> QED
    BY <2>1, <2>2, <2>4, <2>5, <2>6 DEF Owed
<1>11. ShownInv'
  BY <1>4 DEF ShownInv
<1> QED
  BY <1>2, <1>6, <1>7, <1>8, <1>9, <1>10, <1>11 DEF IInv

\* ... and the hello shows the segments that are open, or end in what is pending.
LEMMA HelloSent ==
    ASSUME IInv, SendHello
    PROVE  IInv'
<1>0. /\ TypeOK /\ LinkInv /\ FramesFit /\ CursorSkipsNothing
      /\ HeadInv /\ OnceInv /\ DeltaInv
  BY DEF IInv
<1> DEFINE live == {g \in Segment : row[g].status = "streaming"}
           offset == [g \in Segment |-> IF g \in live THEN row[g].text ELSE 0]
           ready == [sub EXCEPT !.stage = "ready", !.offset = offset]
           segments == [shown |-> live, text |-> offset]
<1>1. /\ sub.stage = "reading" /\ published' = Highest({published, sub.head})
      /\ sub' = IF sub.closed THEN ready ELSE Offer(ready, Hello(segments))
      /\ UNCHANGED <<attemptVars, clientVars, faults>>
  BY DEF SendHello
<1>2. TaskInv' /\ FiniteInv' /\ CommitInv' /\ journal' = journal /\ row' = row
      /\ attempt' = attempt /\ unpublished' = unpublished /\ \A g : Ends(g)' = Ends(g)
  BY <1>1, TaskIdle
<1>3. offset \in [Segment -> Text] /\ live \subseteq Segment
  BY <1>0, Typed, TextTypes
<1>4. segments \in [shown : SUBSET Segment, text : [Segment -> Text]] /\ segments.shown = live
  <2> HIDE DEF live, offset
  <2> QED
    BY <1>3
<1> HIDE DEF segments
<1>5. Hello(segments) \in Frame /\ Hello(segments).type = "hello" /\ Hello(segments).segments = segments
  BY <1>4, FramesOfServer
<1>6. Hello(segments) \in Fit
  BY <1>5 DEF Fit, FrameFits
<1> HIDE DEF live, offset
<1>7. /\ ready \in Subscription /\ ready.stage = "ready" /\ ready.replaying = sub.replaying
      /\ ready.head = sub.head /\ ready.closed = sub.closed /\ ready.queue = sub.queue
      /\ ready.pending = sub.pending
  BY <1>0, <1>3 DEF TypeOK, Subscription
<1> HIDE DEF ready
<1>8. sub.replaying /\ ack = {}
  BY <1>0, <1>1 DEF LinkInv
<1>9. ~sub.closed => sub.queue = <<>>
  <2> SUFFICES ASSUME ~sub.closed, sub.queue # <<>> PROVE FALSE
    OBVIOUS
  <2>1. sub.queue \in Seq(Frame) /\ Len(sub.queue) \in Nat
    BY <1>0, Typed, LenProperties
  <2>2. 1 \in 1..Len(sub.queue)
    BY <2>1, EmptySeq
  <2> QED
    BY <1>0, <1>1, <1>8, <2>2 DEF LinkInv
<1>10. /\ sub' \in Subscription /\ sub'.stage = "ready" /\ sub'.replaying = sub.replaying
       /\ sub'.head = sub.head /\ sub'.closed = sub.closed /\ sub'.pending = sub.pending
       /\ Len(sub'.queue) <= QueueSize /\ sub'.queue \in Seq(Fit)
       /\ IF sub.closed THEN sub'.queue = sub.queue ELSE sub'.queue = <<Hello(segments)>>
  <2>1. sub.queue \in Seq(Fit) /\ Fit \subseteq Frame /\ Len(sub.queue) <= QueueSize
    BY <1>0, FlowTypes DEF TypeOK
  <2>2. CASE sub.closed
    BY <1>1, <1>7, <2>1, <2>2
  <2>3. CASE ~sub.closed
    <3>1. Len(sub.queue) < QueueSize
      BY <1>9, <2>3, EmptySeq, LimitAssumption
    <3>2. Append(sub.queue, Hello(segments)) = <<Hello(segments)>>
      BY <1>9, <2>3, OneElement
    <3>3. sub' = Offer(ready, Hello(segments)) /\ ready.queue \in Seq(Fit) /\ Len(ready.queue) < QueueSize
          /\ Len(ready.queue) <= QueueSize
      BY <1>1, <1>7, <2>1, <2>3, <3>1
    <3>4. /\ sub' \in Subscription /\ Alike(sub', ready) /\ sub'.closed = ready.closed
          /\ sub'.pending = ready.pending /\ sub'.queue \in Seq(Fit) /\ Len(sub'.queue) <= QueueSize
          /\ sub'.queue = Append(ready.queue, Hello(segments))
      BY <1>6, <1>7, <2>1, <3>3, OfferedOne
    <3> QED
      BY <1>7, <2>3, <3>2, <3>4 DEF Alike
  <2> QED
    BY <2>2, <2>3
<1>11. published' \in {published, sub.head}
  <2>1. {published, sub.head} \subseteq Nat /\ {published, sub.head} # {} /\ Len(journal) \in Nat
        /\ \A n \in {published, sub.head} : n <= Len(journal)
    BY <1>0, Typed
  <2> QED
    BY <1>1, <2>1, HighestIsIn
<1>12. TypeOK'
  <2>1. published' \in 0..Len(journal) /\ sub.head <= Len(journal)
    BY <1>0, <1>11, Typed
  <2> QED
    BY <1>0, <1>1, <1>2, <1>10, <2>1 DEF TypeOK, clientVars
<1>13. CursorSkipsNothing' /\ FramesFit'
  <2>1. Fit' = Fit /\ LiveFit' = LiveFit
    BY <1>1, <1>2, <1>10 DEF Fit, LiveFit, FrameFits, clientVars
  <2> QED
    BY <1>0, <1>1, <1>10, <2>1 DEF FramesFit, CursorSkipsNothing, clientVars
<1>14. LinkInv'
  <2>1. link = "up"
    BY <1>0, <1>1, NoSubscriptionTypes DEF LinkInv
  <2>2. CASE sub.closed
    BY <1>0, <1>1, <1>8, <1>10, <2>1, <2>2 DEF LinkInv, clientVars
  <2>3. CASE ~sub.closed
    <3>1. Len(sub'.queue) = 1 /\ \A i \in 1..Len(sub'.queue) : sub'.queue[i].type = "hello"
      <4>1. sub'.queue = <<Hello(segments)>>
        BY <1>10, <2>3
      <4>2. Len(sub'.queue) = 1 /\ \A i \in 1..Len(sub'.queue) : sub'.queue[i] = Hello(segments)
        BY <4>1, OneElement
      <4> QED
        BY <1>5, <4>2
    <3> QED
      BY <1>0, <1>1, <1>8, <1>10, <2>1, <2>3, <3>1 DEF LinkInv, clientVars
  <2> QED
    BY <2>2, <2>3
<1>15. Flow' = Flow /\ Open' = Open
  BY <1>1, <1>8, <1>10 DEF Flow, Open
<1>16. HeadInv'
  <2>1. published' = published \/ published' <= sub.head
    BY <1>0, <1>11, Typed
  <2> QED
    BY <1>0, <1>1, <1>8, <1>10, <1>15, <2>1 DEF HeadInv, Reaches, clientVars
<1>17. OnceInv'
  BY <1>0, <1>1, <1>2, <1>8, <1>10, <1>15 DEF OnceInv, Brings, clientVars
<1>18. \A g : Alive(g)' <=> Alive(g)
  BY <1>2, <1>10 DEF Alive
<1>19. DeltaInv'
  <2>1. \A i, g : Later(i, g)' <=> Later(i, g)
    BY <1>2, <1>10, <1>15 DEF Later, Ending
  <2>2. \A g : EndsInReplay(g) => EndsInReplay(g)'
    BY <1>1, <1>2, <1>10 DEF EndsInReplay
  <2> SUFFICES ASSUME ~sub.closed, NEW i \in 1..Len(Flow), Flow[i].type = "delta"
               PROVE  \A g : g = Flow[i].segment =>
                         /\ \A n \in Ends(g) : n > client.cursor
                         /\ Owed(g, i)' \/ EndsInReplay(g)'
    BY <1>1, <1>2, <1>10, <1>15 DEF DeltaInv, clientVars
  <2>3. \A g : g = Flow[i].segment =>
                         /\ \A n \in Ends(g) : n > client.cursor
                         /\ Owed(g, i) \/ EndsInReplay(g)
    BY <1>0, <1>1, <1>8 DEF DeltaInv
  <2> QED
    BY <1>18, <2>1, <2>2, <2>3 DEF Owed
<1>20. ShownInv'
  <2> SUFFICES ASSUME ~sub.closed, NEW g \in Shown' PROVE Alive(g)'
    BY <1>10 DEF ShownInv, Owed
  <2>1. Shown' = live
    <3>1. sub'.queue = <<Hello(segments)>> /\ sub'.queue # <<>> /\ sub'.queue[1] = Hello(segments)
      BY <1>10, OneElement
    <3> QED
      BY <1>4, <1>5, <1>8, <1>10, <3>1 DEF Shown
  <2> QED
    BY <1>2, <2>1 DEF Alive, live
<1> QED
  BY <1>2, <1>12, <1>13, <1>14, <1>16, <1>17, <1>19, <1>20 DEF IInv


-----------------------------------------------------------------------------
(* The end of the replay.                                                  *)

\* The offset from which a pending delta is cut is a length.
LEMMA ExpectedTypes ==
    ASSUME TypeOK, FramesFit, NEW i \in 1..Len(sub.pending), sub.pending[i].type = "delta"
    PROVE  Expected(i) \in Text
<1> DEFINE g == sub.pending[i].segment
           earlier == {j \in 1..(i - 1) : sub.pending[j].type = "delta" /\ sub.pending[j].segment = g}
           S == {sub.offset[g]} \cup {sub.pending[j].to : j \in earlier}
<1>1. Len(sub.pending) \in Nat /\ \A j \in 1..Len(sub.pending) : sub.pending[j] \in Frame
  BY Typed, LenProperties, ElementOfSeq
<1>2. g \in Segment /\ sub.offset[g] \in Text
  BY <1>1, FrameFields, Typed
<1>3. \A j \in earlier : sub.pending[j].to \in Text
  <2> TAKE j \in earlier
  <2>1. j \in 1..Len(sub.pending) /\ sub.pending[j].type = "delta"
    BY <1>1
  <2> QED
    BY <1>1, <2>1, FrameFields
<1> HIDE DEF earlier
<1>4. S \subseteq Text /\ S # {}
  BY <1>2, <1>3
<1>5. Expected(i) = Highest(S)
  BY DEF Expected, earlier
<1> HIDE DEF S
<1>6. S \subseteq Nat /\ MaxText \in Nat /\ \A n \in S : n <= MaxText
  BY <1>4, BoundsAssumption DEF Text
<1> QED
  BY <1>4, <1>5, <1>6, HighestIsIn

\* Of a kept frame at most one remains: an event past the head as it is, a delta of a
\* segment that has not ended.
LEMMA NormalizedFrames ==
    ASSUME TypeOK, FramesFit, NEW after, NEW i \in 1..Len(sub.pending)
    PROVE  /\ Normalized(after, i) = <<>> \/ \E x \in LiveFit : Normalized(after, i) = <<x>>
           /\ sub.pending[i].type = "event" /\ sub.pending[i].seq > sub.head =>
                 Normalized(after, i) = <<sub.pending[i]>>
           /\ \A x : Normalized(after, i) = <<x>> =>
                 \/ x.type = "event" /\ x = sub.pending[i]
                 \/ /\ x.type = "delta" /\ sub.pending[i].type = "delta"
                    /\ x.segment = sub.pending[i].segment /\ x.segment \notin Ended(after, i)
<1> DEFINE f == sub.pending[i]
<1>1. f \in LiveFit /\ f \in Frame /\ f.type \in {"event", "delta"}
  <2>1. f \in LiveFit
    BY FlowTypes, ElementOfSeq
  <2> QED
    BY <2>1 DEF LiveFit, Fit
<1>2. \A x : <<x>> # <<>> /\ \A y : <<x>> = <<y>> => x = y
  OBVIOUS
<1>3. CASE f.type = "event"
  <2>1. Normalized(after, i) = NormalizedEvent(f)
    BY <1>3 DEF Normalized
  <2> HIDE DEF f
  <2>2. Normalized(after, i) = IF f.seq > sub.head THEN <<f>> ELSE <<>>
    BY <2>1 DEF NormalizedEvent
  <2>3. Normalized(after, i) = <<>> \/ \E x \in LiveFit : Normalized(after, i) = <<x>>
    BY <1>1, <2>2
  <2>4. \A x : Normalized(after, i) = <<x>> => x = f
    BY <1>2, <2>2
  <2>5. f.seq > sub.head => Normalized(after, i) = <<f>>
    BY <2>2
  <2> QED
    BY <1>3, <2>3, <2>4, <2>5 DEF f
<1>4. CASE f.type = "delta"
  <2> DEFINE e == Expected(i)
             d == [f EXCEPT !.from = e]
  <2>1. e \in Text
    BY <1>4, ExpectedTypes
  <2>2. Normalized(after, i) = IF f.segment \in Ended(after, i) THEN <<>> ELSE NormalizedDelta(f, e)
    BY <1>4 DEF Normalized
  <2> HIDE DEF e, f
  <2>3. d \in Frame /\ d.type = "delta" /\ d.segment = f.segment
    BY <1>1, <1>4, <2>1 DEF Frame, Rebase, End
  <2>4. d \in LiveFit
    BY <2>3 DEF LiveFit, Fit, FrameFits
  <2>5. NormalizedDelta(f, e) = IF f.to > e THEN <<d>> ELSE <<>>
    BY DEF NormalizedDelta
  <2> HIDE DEF d
  <2>6. Normalized(after, i) = <<>> \/ (Normalized(after, i) = <<d>> /\ f.segment \notin Ended(after, i))
    BY <2>2, <2>5
  <2>7. \A x : Normalized(after, i) = <<x>> => x = d /\ f.segment \notin Ended(after, i)
    BY <1>2, <2>6
  <2> QED
    BY <1>4, <2>3, <2>4, <2>6, <2>7 DEF f
<1> QED
  BY <1>1, <1>3, <1>4

\* What the replay offers after its events is made of kept frames, in their order.
LEMMA OfferedFrames ==
    ASSUME TypeOK, FramesFit, NEW after, NEW item,
           item = [i \in 1..Len(sub.pending) |-> Normalized(after, i)]
    PROVE  /\ Offered(after).frames \in Seq(LiveFit)
           /\ \E n \in 0..Len(sub.pending) :
                 /\ Offered(after).all => n = Len(sub.pending)
                 /\ \E src : Sources(src, item, Offered(after).frames, n)
<1> DEFINE N == Len(sub.pending)
           joined == {i \in 0..N : \A j \in 1..i : ~Unjoined(after, j)}
           Kept1(f) == f = [i \in 0..N |-> IF i = 0 THEN <<>> ELSE f[i - 1] \o Normalized(after, i)]
           kept == CHOOSE f : Kept1(f)
<1>1. N \in Nat
  BY Typed, LenProperties
<1>2. \A f : Kept1(f) <=> IsFold(f, item, N)
  <2> SUFFICES ASSUME NEW f PROVE Kept1(f) <=> IsFold(f, item, N)
    OBVIOUS
  <2>1. [i \in 0..N |-> IF i = 0 THEN <<>> ELSE f[i - 1] \o Normalized(after, i)]
          = [i \in 0..N |-> IF i = 0 THEN <<>> ELSE f[i - 1] \o item[i]]
    <3>1. \A i \in 0..N : i # 0 => i \in 1..N
      BY <1>1
    <3>2. \A i \in 1..N : item[i] = Normalized(after, i)
      OBVIOUS
    <3> HIDE DEF N
    <3> QED
      BY <3>1, <3>2
  <2> QED
    BY <2>1 DEF IsFold
<1>3. IsFold(kept, item, N)
  <2>1. \E f : Kept1(f)
    BY <1>1, <1>2, FoldExists
  <2> HIDE DEF Kept1
  <2>2. Kept1(kept)
    BY <2>1, Zenon
  <2> QED
    BY <1>2, <2>2
<1>4. /\ Offered(after).frames = kept[Highest(joined)]
      /\ Offered(after).all = (Highest(joined) = N)
  BY DEF Offered
<1>5. Highest(joined) \in 0..N
  <2>1. 0 \in joined /\ joined \subseteq Nat /\ \A n \in joined : n <= N
    <3>1. 0 \in 0..N /\ 1..0 = {} /\ 0..N \subseteq Nat
      BY <1>1
    <3> QED
      BY <3>1
  <2>2. joined \subseteq 0..N
    OBVIOUS
  <2> HIDE DEF joined
  <2>3. Highest(joined) \in joined
    BY <1>1, <2>1, HighestIsIn
  <2> QED
    BY <2>2, <2>3
<1>6. item \in [1..N -> Seq(LiveFit)]
  <2>1. \A i \in 1..N : Normalized(after, i) \in Seq(LiveFit)
    <3> TAKE i \in 1..N
    <3>1. <<>> \in Seq(LiveFit) /\ \A x \in LiveFit : <<x>> \in Seq(LiveFit)
      OBVIOUS
    <3>2. Normalized(after, i) = <<>> \/ \E x \in LiveFit : Normalized(after, i) = <<x>>
      BY NormalizedFrames
    <3> QED
      BY <3>1, <3>2
  <2> QED
    BY <2>1
<1>7. \A i \in 1..N : item[i] = <<>> \/ \E x \in LiveFit : item[i] = <<x>>
  BY NormalizedFrames
<1> HIDE DEF joined, kept, N
<1>8. \A i \in 0..N : kept[i] \in Seq(LiveFit) /\ \E src : Sources(src, item, kept[i], i)
  BY <1>1, <1>3, <1>6, <1>7, FoldHasSources
<1> QED
  BY <1>4, <1>5, <1>8 DEF N


\* The subscription after the replay: closed, or with the replayed events and the offered
\* frames in its queue.
LEMMA ReplayFinished ==
    ASSUME IInv, NEW after \in Nat, after <= client.cursor, sub.stage = "ready", ~sub.closed,
           sub.replaying, sub.queue = <<>>, NEW t,
           t = IF Reachable(after) THEN FinishReplay(after, Missed(after))
               ELSE CloseAfterRebase(ReplayOver)
    PROVE  /\ t \in Subscription /\ t.stage = "ready" /\ ~t.replaying /\ t.head = sub.head
           /\ t.pending = <<>> /\ Len(t.queue) <= QueueSize
           /\ t.queue \in Seq({f \in Fit : f.type # "hello"})
           /\ \/ t.closed
              \/ /\ ~t.closed /\ Offered(after).all /\ after <= sub.head
                 /\ t.queue = Missed(after) \o Offered(after).frames
<1> DEFINE S == {f \in Fit : f.type # "hello"}
           open == [sub EXCEPT !.replaying = FALSE, !.pending = <<>>, !.offset = NoText]
           frames == Offered(after).frames
           sent1 == Enqueue(open, Missed(after))
           sent == Enqueue(sent1, frames)
           Same(u) == /\ u \in Subscription /\ u.stage = "ready" /\ ~u.replaying /\ u.head = sub.head
                      /\ u.pending = <<>> /\ Len(u.queue) <= QueueSize /\ u.queue \in Seq(S)
<1>0. TypeOK /\ FramesFit
  BY DEF IInv
<1>1. S \in SUBSET Frame /\ Rebase \in S /\ End \in S
  BY FramesOfServer DEF Fit, FrameFits
<1>2. sub \in Subscription /\ client.cursor \in Nat /\ sub.head \in Nat /\ QueueSize \in Nat
  BY <1>0, Typed, LimitAssumption DEF TypeOK
<1>3. Same(open) /\ ~open.closed /\ open.queue = <<>>
  <2>1. open \in Subscription /\ open.stage = "ready" /\ ~open.replaying /\ open.head = sub.head
        /\ open.pending = <<>> /\ open.queue = sub.queue /\ open.closed = sub.closed
    BY <1>2, TextTypes, EmptySeq DEF Subscription
  <2> HIDE DEF open, S
  <2>2. Len(open.queue) <= QueueSize /\ open.queue \in Seq(S)
    <3>1. open.queue = <<>> /\ <<>> \in Seq(S) /\ Len(<<>>) = 0
      BY <2>1, EmptySeq
    <3> QED
      BY <1>2, <3>1
  <2> QED
    BY <2>1, <2>2
<1>4. Missed(after) \in Seq(S)
  <2> DEFINE r == Replay(after + 1, sub.head)
  <2>1. r \in Frame /\ r.type = "replay" /\ r.from = after + 1 /\ r.to = sub.head
    <3>1. after + 1 \in Nat /\ sub.head \in Nat
      BY <1>2
    <3> QED
      BY <3>1, FramesOfServer
  <2>2. r \in S
    BY <1>2, <2>1 DEF Fit, FrameFits
  <2>3. Missed(after) = IF after = sub.head THEN <<>> ELSE <<r>>
    BY DEF Missed
  <2> HIDE DEF r, S
  <2> QED
    BY <2>2, <2>3, EmptySeq, OneFrame
<1>5. frames \in Seq(S)
  <2>1. frames \in Seq(LiveFit)
    BY <1>0, OfferedFrames
  <2>2. LiveFit \subseteq S
    BY DEF LiveFit
  <2> QED
    BY <2>1, <2>2, SeqMonotonic
<1> HIDE DEF open, frames, S
<1>6. ASSUME NEW u, Same(u), NEW g \in Seq(S)
      PROVE  Same(Enqueue(u, g))
  <2>1. u \in Subscription /\ u.queue \in Seq(S) /\ Len(u.queue) <= QueueSize
    BY <1>6
  <2>2. /\ Enqueue(u, g) \in Subscription /\ Alike(Enqueue(u, g), u)
        /\ Enqueue(u, g).queue \in Seq(S) /\ Len(Enqueue(u, g).queue) <= QueueSize
    BY <1>1, <1>6, <2>1, Enqueued
  <2>3. Enqueue(u, g).pending = <<>>
    BY <1>1, <1>6, <2>1, Enqueued, Overflowed
  <2> QED
    BY <1>6, <2>2, <2>3 DEF Alike
<1>7. ASSUME NEW u, Same(u) PROVE Same(CloseAfterRebase(u)) /\ CloseAfterRebase(u).closed
  BY <1>1, <1>7, ClosedAfterRebase DEF Alike
<1>8. ASSUME NEW u, Same(u), NEW g \in Seq(S), ~Enqueue(u, g).closed
      PROVE  ~u.closed /\ Enqueue(u, g).queue = u.queue \o g
  <2>1. u \in Subscription /\ u.queue \in Seq(S) /\ Len(u.queue) <= QueueSize /\ Overflow(u).closed
    BY <1>1, <1>8, Overflowed
  <2> QED
    BY <1>1, <1>8, <2>1, Enqueued
<1>9. Same(sent1) /\ Same(sent)
  <2>1. Same(sent1)
    BY <1>3, <1>4, <1>6
  <2> HIDE DEF sent1, Same
  <2>2. Same(sent)
    BY <1>5, <1>6, <2>1
  <2> QED
    BY <2>1, <2>2
<1>10. CASE Reachable(after)
  <2>1. t = IF Offered(after).all THEN sent ELSE CloseAfterRebase(sent)
    BY <1>10 DEF FinishReplay, frames, open
  <2>2. CASE Offered(after).all /\ ~sent.closed
    <3>1. ~sent1.closed /\ sent.queue = sent1.queue \o frames
      <4> HIDE DEF sent1, Same
      <4> QED
        BY <1>5, <1>8, <1>9, <2>2
    <3>2. sent1.queue = open.queue \o Missed(after)
      <4> HIDE DEF Same
      <4> QED
        BY <1>3, <1>4, <1>8, <3>1
    <3>3. sent1.queue = Missed(after)
      BY <1>3, <1>4, <3>2, ConcatEmptySeq
    <3>4. after <= sub.head
      BY <1>10 DEF Reachable
    <3> HIDE DEF sent, sent1
    <3> QED
      BY <1>9, <2>1, <2>2, <3>1, <3>3, <3>4 DEF frames, S
  <2>3. CASE ~(Offered(after).all /\ ~sent.closed)
    <3> HIDE DEF sent
    <3>1. Same(t) /\ t.closed
      <4> HIDE DEF Same
      <4>1. CASE Offered(after).all
        <5>1. sent.closed
          BY <1>9, <2>3, <4>1 DEF Same
        <5> QED
          BY <1>9, <2>1, <4>1, <5>1
      <4>2. CASE ~Offered(after).all
        BY <1>7, <1>9, <2>1, <4>2
      <4> QED
        BY <4>1, <4>2
    <3> QED
      BY <3>1 DEF S
  <2> QED
    BY <2>2, <2>3
<1>11. CASE ~Reachable(after)
  <2>1. t = CloseAfterRebase(ReplayOver)
    BY <1>11
  <2>2. ReplayOver \in Subscription /\ ReplayOver.stage = "ready" /\ ~ReplayOver.replaying
        /\ ReplayOver.head = sub.head /\ ReplayOver.pending = <<>> /\ ReplayOver.queue = sub.queue
    BY <1>2, EmptySeq DEF ReplayOver, Subscription
  <2>3. Same(ReplayOver)
    BY <1>2, <2>2, EmptySeq
  <2>4. Same(t) /\ t.closed
    <3> HIDE DEF Same
    <3> QED
      BY <1>7, <2>1, <2>3
  <2> QED
    BY <2>4 DEF S
<1> QED
  BY <1>10, <1>11


\* What was kept during the replay is in the queue after it: every event past the head,
\* in its order, and of the deltas those of segments that have not ended.
InOrder(src, out, after) ==
    /\ src \in [1..Len(out) -> 1..Len(sub.pending)]
    /\ \A j \in 1..Len(out) : \A k \in 1..Len(out) : j < k => src[j] < src[k]
    /\ \A k \in 1..Len(out) :
          \/ out[k].type = "event" /\ out[k] = sub.pending[src[k]]
          \/ /\ out[k].type = "delta" /\ sub.pending[src[k]].type = "delta"
             /\ out[k].segment = sub.pending[src[k]].segment
             /\ out[k].segment \notin Ended(after, src[k])
    /\ \A i \in 1..Len(sub.pending) :
          sub.pending[i].type = "event" /\ sub.pending[i].seq > sub.head =>
             \E k \in 1..Len(out) : src[k] = i /\ out[k] = sub.pending[i]

\* The pending frames that are offered after a replay keep their order.
LEMMA KeptInOrder ==
    ASSUME TypeOK, FramesFit, NEW after, Offered(after).all
    PROVE  \E src : InOrder(src, Offered(after).frames, after)
<1> DEFINE out == Offered(after).frames
           N == Len(sub.pending)
           item == [i \in 1..N |-> Normalized(after, i)]
<1>1. PICK src : Sources(src, item, out, N)
  <2>1. /\ out \in Seq(LiveFit)
        /\ \E n \in 0..N : /\ Offered(after).all => n = N
                           /\ \E src : Sources(src, item, out, n)
    BY OfferedFrames
  <2> HIDE DEF item, out
  <2> QED
    BY <2>1
<1>2. \A i \in 1..N : item[i] = Normalized(after, i)
  OBVIOUS
<1> HIDE DEF out, N, item
<1>3. /\ src \in [1..Len(out) -> 1..N]
      /\ \A k \in 1..Len(out) : item[src[k]] = <<out[k]>>
      /\ \A j \in 1..Len(out) : \A k \in 1..Len(out) : j < k => src[j] < src[k]
      /\ \A i \in 1..N : item[i] # <<>> => \E k \in 1..Len(out) : src[k] = i
  BY <1>1 DEF Sources
<1>4. \A k \in 1..Len(out) : Normalized(after, src[k]) = <<out[k]>> /\ src[k] \in 1..N
  BY <1>2, <1>3
<1>5. ASSUME NEW k \in 1..Len(out)
      PROVE  \/ out[k].type = "event" /\ out[k] = sub.pending[src[k]]
             \/ /\ out[k].type = "delta" /\ sub.pending[src[k]].type = "delta"
                /\ out[k].segment = sub.pending[src[k]].segment
                /\ out[k].segment \notin Ended(after, src[k])
  <2>1. Normalized(after, src[k]) = <<out[k]>> /\ src[k] \in 1..Len(sub.pending)
    BY <1>4 DEF N
  <2> QED
    BY <2>1, NormalizedFrames
<1>6. ASSUME NEW i \in 1..N, sub.pending[i].type = "event", sub.pending[i].seq > sub.head
      PROVE  \E k \in 1..Len(out) : src[k] = i /\ out[k] = sub.pending[i]
  <2>1. Normalized(after, i) = <<sub.pending[i]>>
    BY <1>6, NormalizedFrames DEF N
  <2>2. item[i] # <<>>
    BY <1>2, <2>1
  <2>3. PICK k \in 1..Len(out) : src[k] = i
    BY <1>3, <2>2
  <2>4. <<out[k]>> = <<sub.pending[i]>>
    BY <1>4, <2>1, <2>3
  <2>5. out[k] = sub.pending[i]
    BY <2>4, OneElement
  <2> QED
    BY <2>3, <2>5
<1>7. InOrder(src, out, after)
  BY <1>3, <1>5, <1>6 DEF InOrder, N
<1> QED
  BY <1>7 DEF out

\* The acknowledgement ends the replay: what the client misses is replayed, then what was
\* pending.
LEMMA AckAccepted ==
    ASSUME IInv, AcceptAck
    PROVE  IInv'
<1>0. /\ TypeOK /\ LinkInv /\ FramesFit /\ CursorSkipsNothing
      /\ HeadInv /\ OnceInv /\ DeltaInv /\ ShownInv
  BY DEF IInv
<1>1. /\ sub.stage = "ready" /\ ack' = {} /\ UNCHANGED <<attemptVars, published, link, client, faults>>
  BY DEF AcceptAck
<1>2. PICK after \in ack : Replayed(after)
  BY DEF AcceptAck
<1>3. TaskInv' /\ FiniteInv' /\ CommitInv' /\ journal' = journal /\ row' = row
      /\ attempt' = attempt /\ unpublished' = unpublished /\ \A g : Ends(g)' = Ends(g)
  BY <1>1, TaskIdle
<1>4. after \in Nat /\ after <= client.cursor /\ sub.replaying /\ link = "up"
  <2>1. client.cursor \in Nat
    BY <1>0, Typed
  <2> QED
    BY <1>0, <1>1, <1>2, <2>1, NoSubscriptionTypes DEF LinkInv
<1>5. CursorSkipsNothing'
  BY <1>0, <1>1 DEF CursorSkipsNothing
<1>6. CASE sub.closed
  <2>1. sub' = sub
    BY <1>2, <1>6 DEF Replayed
  <2>2. TypeOK'
    BY <1>0, <1>1, <1>3, <2>1 DEF TypeOK
  <2>3. LinkInv'
    BY <1>0, <1>1, <1>4, <1>6, <2>1 DEF LinkInv
  <2>4. FramesFit'
    BY <1>0, <1>1, <1>3, <2>1 DEF FramesFit, Fit, LiveFit, FrameFits
  <2>5. HeadInv' /\ OnceInv' /\ DeltaInv' /\ ShownInv'
    BY <1>6, <2>1 DEF HeadInv, OnceInv, DeltaInv, ShownInv, Open
  <2> QED
    BY <1>3, <1>5, <2>2, <2>3, <2>4, <2>5 DEF IInv
<1>7. CASE ~sub.closed
  <2> DEFINE out == Offered(after).frames
             S == {f \in Fit : f.type # "hello"}
             R == Len(Missed(after))
  <2>1. sub.queue = <<>>
    <3> SUFFICES ASSUME sub.queue # <<>> PROVE FALSE
      OBVIOUS
    <3>1. sub.queue \in Seq(Frame) /\ Len(sub.queue) \in Nat
      BY <1>0, Typed, LenProperties
    <3>2. 1 \in 1..Len(sub.queue)
      BY <3>1, EmptySeq
    <3> QED
      BY <1>0, <1>2, <1>4, <1>7, <3>2 DEF LinkInv
  <2>2. sub' = IF Reachable(after) THEN FinishReplay(after, Missed(after)) ELSE CloseAfterRebase(ReplayOver)
    BY <1>2, <1>7 DEF Replayed
  <2>3. /\ sub' \in Subscription /\ sub'.stage = "ready" /\ ~sub'.replaying /\ sub'.head = sub.head
        /\ sub'.pending = <<>> /\ Len(sub'.queue) <= QueueSize /\ sub'.queue \in Seq(S)
        /\ \/ sub'.closed
           \/ /\ ~sub'.closed /\ Offered(after).all /\ after <= sub.head
              /\ sub'.queue = Missed(after) \o out
    BY <1>1, <1>4, <1>7, <2>1, <2>2, ReplayFinished
  <2>4. Fit' = Fit /\ LiveFit' = LiveFit
    BY <1>1, <1>3, <2>3 DEF Fit, LiveFit, FrameFits
  <2>5. TypeOK'
    <3>1. Len(<<>>) = 0 /\ QueueSize \in Nat
      BY EmptySeq, LimitAssumption
    <3> QED
      BY <1>0, <1>1, <1>3, <2>3, <3>1 DEF TypeOK
  <2>6. FramesFit'
    <3>1. sub'.queue \in Seq(Fit)
      BY <2>3, SeqMonotonic
    <3> QED
      BY <2>3, <2>4, <3>1, EmptySeq DEF FramesFit
  <2>7. LinkInv'
    <3>1. \A i \in 1..Len(sub'.queue) : sub'.queue[i].type # "hello"
      BY <2>3, ElementOfSeq
    <3> HIDE DEF S
    <3> QED
      BY <1>0, <1>1, <1>4, <2>3, <3>1 DEF LinkInv
  <2>8. CASE sub'.closed
    <3>1. HeadInv' /\ OnceInv' /\ DeltaInv' /\ ShownInv'
      BY <2>8 DEF HeadInv, OnceInv, DeltaInv, ShownInv, Open
    <3> QED
      BY <1>3, <1>5, <2>5, <2>6, <2>7, <3>1 DEF IInv
  <2>9. CASE ~sub'.closed
    <3>1. /\ Offered(after).all /\ after <= sub.head /\ sub'.queue = Missed(after) \o out
          /\ Flow' = sub'.queue /\ Flow = sub.pending /\ Shown' = client.shown /\ Shown = client.shown
          /\ Open /\ Open'
      BY <1>1, <1>4, <1>7, <2>1, <2>3, <2>9 DEF Flow, Shown, Open
    <3>0. PICK src : InOrder(src, out, after)
      BY <1>0, <3>1, KeptInOrder
    <3>2. /\ src \in [1..Len(out) -> 1..Len(Flow)]
          /\ \A j \in 1..Len(out) : \A k \in 1..Len(out) : j < k => src[j] < src[k]
          /\ \A k \in 1..Len(out) :
                \/ out[k].type = "event" /\ out[k] = Flow[src[k]]
                \/ /\ out[k].type = "delta" /\ Flow[src[k]].type = "delta"
                   /\ out[k].segment = Flow[src[k]].segment
                   /\ out[k].segment \notin Ended(after, src[k])
          /\ \A i \in 1..Len(Flow) :
                Flow[i].type = "event" /\ Flow[i].seq > sub.head =>
                   \E k \in 1..Len(out) : src[k] = i /\ out[k] = Flow[i]
      <4> HIDE DEF out
      <4>1. Flow = sub.pending
        BY <3>1
      <4> QED
        BY <3>0, <4>1 DEF InOrder
    <3>3. /\ sub.head \in Nat /\ client.cursor \in Nat /\ published \in Nat /\ Len(journal) \in Nat
      BY <1>0, Typed
    <3>4. /\ Missed(after) \in Seq(Frame) /\ R \in Nat /\ (after # sub.head => R = 1)
          /\ \A i \in 1..R : Missed(after)[i].type = "replay" /\ Missed(after)[i].to = sub.head
      <4> DEFINE x == Replay(after + 1, sub.head)
      <4>1. after + 1 \in Nat
        BY <1>4, <3>3
      <4>2. x \in Frame /\ x.type = "replay" /\ x.to = sub.head
        BY <3>3, <4>1, FramesOfServer
      <4>3. Missed(after) = IF after = sub.head THEN <<>> ELSE <<x>>
        BY DEF Missed
      <4> HIDE DEF x
      <4>4. CASE after = sub.head
        BY <4>3, <4>4, EmptySeq
      <4>5. CASE after # sub.head
        <5>1. Missed(after) = <<x>>
          BY <4>3, <4>5
        <5> QED
          BY <4>2, <5>1, OneFrame
      <4> QED
        BY <4>4, <4>5
    <3>5. out \in Seq(Frame) /\ Len(out) \in Nat
      <4>1. out \in Seq(LiveFit) /\ LiveFit \subseteq Frame
        BY <1>0, OfferedFrames DEF LiveFit, Fit
      <4> HIDE DEF out
      <4> QED
        BY <4>1, SeqMonotonic, LenProperties
    <3>6. \A i \in 1..Len(Flow) : Flow[i] \in Frame /\ FrameFits(Flow[i]) /\ Flow[i].type \in {"event", "delta"}
      <4>1. \A i \in 1..Len(sub.pending) : sub.pending[i] \in LiveFit
        BY <1>0, FlowTypes, ElementOfSeq
      <4> QED
        BY <1>0, <3>1, <4>1, FlowTypes DEF LiveFit
    <3> HIDE DEF out
    <3>7. /\ Len(Flow') = R + Len(out)
          /\ \A i \in 1..R : i \in 1..Len(Flow') /\ Flow'[i] = Missed(after)[i]
          /\ \A k \in 1..Len(out) : R + k \in 1..Len(Flow') /\ Flow'[R + k] = out[k]
          /\ \A i \in 1..Len(Flow') : i \in 1..R \/ \E k \in 1..Len(out) : i = R + k
      BY <3>1, <3>4, <3>5, ConcatPlaces
    <3> HIDE DEF R
    <3>8. \A i \in 1..R : Flow'[i].type = "replay" /\ Flow'[i].to = sub.head
      BY <3>4, <3>7
    <3>9. HeadInv'
      <4> SUFFICES published <= client.cursor \/ \E i \in 1..Len(Flow') : Reaches(Flow'[i], published)
        BY <1>1, <2>3 DEF HeadInv, Reaches
      <4>1. CASE published <= sub.head
        <5>1. CASE after = sub.head
          BY <1>4, <3>3, <4>1, <5>1
        <5>2. CASE after # sub.head
          <6>1. 1 \in 1..R
            BY <3>4, <5>2
          <6>2. 1 \in 1..Len(Flow') /\ Reaches(Flow'[1], published)
            BY <3>7, <3>8, <4>1, <6>1 DEF Reaches
          <6> QED
            BY <6>2
        <5> QED
          BY <5>1, <5>2
      <4>2. CASE ~(published <= sub.head)
        <5>1. PICK i \in 1..Len(Flow) : Reaches(Flow[i], published)
          BY <1>0, <1>4, <3>1, <4>2 DEF HeadInv
        <5>2. Flow[i].type = "event" /\ Flow[i].seq >= published
          BY <3>6, <5>1 DEF Reaches
        <5>3. Flow[i].seq \in Nat
          BY <3>6, <5>2, FrameFields
        <5>4. Flow[i].seq > sub.head
          BY <3>3, <4>2, <5>2, <5>3
        <5>5. PICK k \in 1..Len(out) : out[k] = Flow[i]
          BY <3>2, <5>2, <5>4
        <5>6. R + k \in 1..Len(Flow') /\ Reaches(Flow'[R + k], published)
          BY <3>7, <5>2, <5>5 DEF Reaches
        <5> QED
          BY <5>6
      <4> QED
        BY <4>1, <4>2
    <3>10. \A k \in 1..Len(out) : src[k] \in 1..Len(Flow)
                /\ \A n : Brings(out[k], n) => Brings(Flow[src[k]], n)
      BY <3>2 DEF Brings
    <3>11. OnceInv'
      <4> SUFFICES ASSUME NEW n \in (sub.head + 1)..Len(journal)
                   PROVE  /\ \A p \in Publisher : n \in unpublished[p] =>
                                n \notin client.held /\ \A i \in 1..Len(Flow') : ~Brings(Flow'[i], n)
                          /\ \A i \in 1..Len(Flow') : Brings(Flow'[i], n) =>
                                /\ n \notin client.held
                                /\ \A j \in 1..Len(Flow') : Brings(Flow'[j], n) => j = i
        BY <1>1, <1>3, <2>3 DEF OnceInv, Brings
      <4>1. /\ \A p \in Publisher : n \in unpublished[p] =>
                    n \notin client.held /\ \A i \in 1..Len(Flow) : ~Brings(Flow[i], n)
            /\ \A i \in 1..Len(Flow) : Brings(Flow[i], n) =>
                    /\ n \notin client.held
                    /\ \A j \in 1..Len(Flow) : Brings(Flow[j], n) => j = i
        BY <1>0, <3>1 DEF OnceInv
      <4>2. \A i \in 1..Len(Flow') : Brings(Flow'[i], n) =>
                \E k \in 1..Len(out) : i = R + k /\ Brings(out[k], n) /\ Brings(Flow[src[k]], n)
        <5>1. \A i \in 1..R : ~Brings(Flow'[i], n)
          BY <3>8 DEF Brings
        <5>2. \A i \in 1..Len(Flow') : i \in 1..R \/ \E k \in 1..Len(out) : i = R + k /\ Flow'[i] = out[k]
          BY <3>7
        <5> QED
          BY <3>10, <5>1, <5>2
      <4>3. \A j \in 1..Len(out) : \A k \in 1..Len(out) :
                Brings(Flow[src[j]], n) /\ Brings(Flow[src[k]], n) => j = k
        <5> SUFFICES ASSUME NEW j \in 1..Len(out), NEW k \in 1..Len(out),
                            Brings(Flow[src[j]], n), Brings(Flow[src[k]], n), j # k
                     PROVE  FALSE
          OBVIOUS
        <5>1. src[j] = src[k] /\ src[j] \in Nat
          BY <3>10, <4>1
        <5>2. j < k \/ k < j
          BY <3>5
        <5> QED
          BY <3>2, <5>1, <5>2
      <4> QED
        BY <3>10, <4>1, <4>2, <4>3
    <3>12. \A g : Alive(g)' <=> Alive(g)
      BY <1>3, <2>3 DEF Alive
    <3>13. \A f, g : Ending(f, g)' <=> Ending(f, g)
      BY <1>3, <2>3 DEF Ending
    <3>14. ASSUME NEW g, NEW j \in 1..Len(Flow), Ending(Flow[j], g)
           PROVE  \E k \in 1..Len(out) : src[k] = j /\ R + k \in 1..Len(Flow') /\ Ending(Flow'[R + k], g)
      <4>1. PICK k \in 1..Len(out) : src[k] = j /\ out[k] = Flow[j]
        BY <3>2, <3>14 DEF Ending
      <4> QED
        BY <3>7, <3>14, <4>1
    <3>15. DeltaInv'
      <4> SUFFICES ASSUME NEW i \in 1..Len(Flow'), Flow'[i].type = "delta"
                   PROVE  \A g : g = Flow'[i].segment => Alive(g)' \/ Later(i, g)'
        BY <2>3 DEF DeltaInv, Owed
      <4>1. PICK k \in 1..Len(out) : i = R + k
        BY <3>7, <3>8
      <4>2. Flow'[i] = out[k] /\ out[k].type = "delta" /\ src[k] \in 1..Len(Flow)
        BY <3>7, <3>10, <4>1
      <4>3. PICK g : g = out[k].segment
        OBVIOUS
      <4>4. Flow[src[k]].type = "delta" /\ Flow[src[k]].segment = g /\ g \notin Ended(after, src[k])
        BY <3>2, <4>2, <4>3
      <4>5. g \in Segment
        BY <3>6, <4>2, <4>4, FrameFields
      <4>6. /\ \A n \in Ends(g) : n > client.cursor
            /\ Owed(g, src[k]) \/ EndsInReplay(g)
        BY <1>0, <1>1, <1>4, <1>7, <4>2, <4>4 DEF DeltaInv
      <4>7. ~EndsInReplay(g)
        <5> SUFFICES ASSUME EndsInReplay(g) PROVE FALSE
          OBVIOUS
        <5>1. PICK n \in Ends(g) : n <= sub.head
          BY <1>1 DEF EndsInReplay
        <5>2. n \in (after + 1)..sub.head /\ journal[n] = g
          BY <1>4, <3>3, <4>6, <5>1 DEF Ends
        <5>3. g \in Completed((after + 1)..sub.head)
          BY <4>5, <5>2, NoSegmentApart DEF Completed
        <5> QED
          BY <4>4, <5>3 DEF Ended
      <4>8. CASE Alive(g)
        BY <3>12, <4>2, <4>3, <4>8
      <4>9. CASE Later(src[k], g)
        <5>1. PICK j \in 1..Len(Flow) : j > src[k] /\ Ending(Flow[j], g)
          BY <4>9 DEF Later
        <5>2. PICK m \in 1..Len(out) : src[m] = j /\ R + m \in 1..Len(Flow') /\ Ending(Flow'[R + m], g)
          BY <3>14, <5>1
        <5>3. m > k
          <6> SUFFICES ASSUME ~(m > k) PROVE FALSE
            OBVIOUS
          <6>1. m = k \/ m < k
            BY <3>5
          <6>2. src[m] \in Nat /\ src[k] \in Nat /\ src[m] > src[k]
            BY <3>10, <5>1, <5>2
          <6> QED
            BY <3>2, <6>1, <6>2
        <5>4. R + m > i
          BY <3>4, <3>5, <4>1, <5>3
        <5>5. Later(i, g)'
          BY <3>13, <5>2, <5>4 DEF Later
        <5> QED
          BY <4>2, <4>3, <5>5
      <4> QED
        BY <4>6, <4>7, <4>8, <4>9 DEF Owed
    <3>16. ShownInv'
      <4> SUFFICES ASSUME NEW g \in client.shown PROVE Alive(g)' \/ Later(0, g)'
        BY <3>1 DEF ShownInv, Owed
      <4>1. Owed(g, 0)
        BY <1>0, <1>1, <1>7, <3>1 DEF ShownInv
      <4>2. CASE Alive(g)
        BY <3>12, <4>2
      <4>3. CASE Later(0, g)
        <5>1. PICK j \in 1..Len(Flow) : Ending(Flow[j], g)
          BY <4>3 DEF Later
        <5>2. PICK m \in 1..Len(out) : R + m \in 1..Len(Flow') /\ Ending(Flow'[R + m], g)
          BY <3>14, <5>1
        <5>3. R + m > 0
          BY <3>4, <3>5
        <5> QED
          BY <3>13, <5>2, <5>3 DEF Later
      <4> QED
        BY <4>1, <4>2, <4>3 DEF Owed
    <3> QED
      BY <1>3, <1>5, <2>5, <2>6, <2>7, <3>9, <3>11, <3>15, <3>16 DEF IInv
  <2> QED
    BY <2>8, <2>9
<1> QED
  BY <1>6, <1>7


-----------------------------------------------------------------------------
(* What a frame does to the client's store.                                *)

\* The cursor moves up over what is held.
LEMMA IngestedStore ==
    ASSUME TypeOK, NEW S, S \subseteq 1..Len(journal)
    PROVE  /\ Ingested(client, S) \in Store /\ Ingested(client, S).held = client.held \cup S
           /\ Ingested(client, S).before = client.before /\ Ingested(client, S).rebase = client.rebase
           /\ Ingested(client, S).cursor \in client.cursor..Len(journal)
           /\ (client.cursor + 1)..Ingested(client, S).cursor \subseteq client.held \cup S
           /\ \A m \in client.cursor..Len(journal) :
                 (client.cursor + 1)..m \subseteq client.held \cup S => m <= Ingested(client, S).cursor
           /\ Ingested(client, S).shown \subseteq client.shown \ Completed(S \ client.held)
<1> DEFINE held == client.held \cup S
           C == {n \in client.cursor..Len(journal) : (client.cursor + 1)..n \subseteq held}
           shown == IF client.rebase THEN {} ELSE client.shown \ Completed(S \ client.held)
<1>1. /\ client.cursor \in Nat /\ Len(journal) \in Nat /\ client.cursor <= Len(journal)
      /\ client.held \subseteq 1..Len(journal) /\ client \in Store /\ client.shown \subseteq Segment
  BY Typed DEF TypeOK
<1>2. held \in SUBSET Nat
  <2>1. \A n \in 1..Len(journal) : n \in Nat
    BY <1>1
  <2>2. \A n \in held : n \in Nat
    BY <1>1, <2>1
  <2> QED
    BY <2>2
<1>3. C \subseteq Nat /\ client.cursor \in C /\ \A n \in C : n <= Len(journal)
  BY <1>1
<1>4. Highest(C) \in C /\ \A n \in C : n <= Highest(C)
  <2> HIDE DEF C
  <2> QED
    BY <1>1, <1>3, HighestIsIn
<1>5. Ingested(client, S) = [client EXCEPT !.held = held, !.cursor = Highest(C), !.shown = shown]
  BY DEF Ingested
<1>6. shown \in SUBSET Segment /\ shown \subseteq client.shown \ Completed(S \ client.held)
  <2> HIDE DEF held
  <2> QED
    BY <1>1
<1>7. Highest(C) \in Nat /\ Highest(C) \in client.cursor..Len(journal)
      /\ (client.cursor + 1)..Highest(C) \subseteq held
  BY <1>1, <1>4
<1>8. \A m \in client.cursor..Len(journal) : (client.cursor + 1)..m \subseteq held => m <= Highest(C)
  BY <1>4
<1> HIDE DEF C, held, shown
<1>9. /\ Ingested(client, S) \in Store /\ Ingested(client, S).held = held
      /\ Ingested(client, S).before = client.before /\ Ingested(client, S).rebase = client.rebase
      /\ Ingested(client, S).cursor = Highest(C) /\ Ingested(client, S).shown = shown
  BY <1>1, <1>2, <1>5, <1>6, <1>7 DEF Store
<1> QED
  BY <1>6, <1>7, <1>8, <1>9 DEF held

\* Whatever comes, the cursor moves over what is held and no further.
Holds(s) ==
    /\ s \in Store /\ s.before = client.before
    /\ client.held \subseteq s.held /\ s.held \subseteq 1..Len(journal)
    /\ s.cursor \in client.cursor..Len(journal)
    /\ (client.cursor + 1)..s.cursor \subseteq s.held

\* A store that asks for a rebase keeps its type.
LEMMA AskedRebase ==
    ASSUME TypeOK, NEW s, Holds(s)
    PROVE  /\ Holds(AskRebase(s)) /\ AskRebase(s).held = s.held
           /\ AskRebase(s).cursor = s.cursor /\ AskRebase(s).shown = {}
BY DEF Holds, AskRebase, Store

\* What each type of frame does to the store: to the events it holds, its cursor and the
\* segments it shows.
LEMMA AppliedStore ==
    ASSUME TypeOK, NEW f \in Frame, FrameFits(f)
    PROVE  LET s == Applied(client, f) IN
           /\ Holds(s)
           /\ f.type = "hello" => /\ s.held = client.held /\ s.cursor = client.cursor
                                  /\ s.shown = f.segments.shown
           /\ f.type = "replay" =>
                 /\ s.held = client.held \cup f.from..f.to /\ s.cursor >= sub.head
                 /\ s.shown \subseteq client.shown
           /\ f.type = "event" =>
                 /\ s.held = client.held \cup {f.seq}
                 /\ s.shown \subseteq client.shown \ Completed({f.seq} \ client.held)
           /\ f.type = "delta" =>
                 /\ s.held = client.held /\ s.cursor = client.cursor
                 /\ s.shown \subseteq client.shown \cup {f.segment}
           /\ f.type = "rebase_required" =>
                 s.held = client.held /\ s.cursor = client.cursor /\ s.shown = {}
<1> DEFINE s == Applied(client, f)
           Goal == /\ Holds(s)
                   /\ f.type = "hello" => /\ s.held = client.held /\ s.cursor = client.cursor
                                          /\ s.shown = f.segments.shown
                   /\ f.type = "replay" =>
                         /\ s.held = client.held \cup f.from..f.to /\ s.cursor >= sub.head
                         /\ s.shown \subseteq client.shown
                   /\ f.type = "event" =>
                         /\ s.held = client.held \cup {f.seq}
                         /\ s.shown \subseteq client.shown \ Completed({f.seq} \ client.held)
                   /\ f.type = "delta" =>
                         /\ s.held = client.held /\ s.cursor = client.cursor
                         /\ s.shown \subseteq client.shown \cup {f.segment}
                   /\ f.type = "rebase_required" =>
                         s.held = client.held /\ s.cursor = client.cursor /\ s.shown = {}
<1>1. /\ client.cursor \in Nat /\ Len(journal) \in Nat /\ client.cursor <= Len(journal)
      /\ client.held \subseteq 1..Len(journal) /\ client \in Store
      /\ sub.head \in Nat /\ sub.head <= Len(journal)
      /\ client.shown \subseteq Segment /\ client.text \in [Segment -> Text]
  BY Typed DEF TypeOK
<1>2. Holds(client)
  BY <1>1 DEF Holds
<1>3. ASSUME NEW S, S \subseteq 1..Len(journal) PROVE Holds(Ingested(client, S))
  <2> DEFINE r == Ingested(client, S)
  <2>1. /\ r \in Store /\ r.held = client.held \cup S /\ r.before = client.before
        /\ r.cursor \in client.cursor..Len(journal)
        /\ (client.cursor + 1)..r.cursor \subseteq client.held \cup S
    BY <1>3, IngestedStore
  <2>2. client.held \subseteq client.held \cup S /\ client.held \cup S \subseteq 1..Len(journal)
    BY <1>1, <1>3
  <2> HIDE DEF r
  <2>3. Holds(r)
    BY <2>1, <2>2 DEF Holds
  <2> QED
    BY <2>3 DEF r
<1>4. CASE f.type = "hello"
  <2>1. s = [client EXCEPT !.shown = f.segments.shown, !.text = f.segments.text, !.rebase = FALSE]
    BY <1>4 DEF Applied
  <2>2. f.segments.shown \in SUBSET Segment /\ f.segments.text \in [Segment -> Text]
    BY <1>4, FrameFields
  <2>3. /\ s \in Store /\ s.held = client.held /\ s.cursor = client.cursor
        /\ s.shown = f.segments.shown /\ s.before = client.before
    BY <1>1, <2>1, <2>2 DEF Store
  <2> HIDE DEF s
  <2>4. Holds(s)
    BY <1>2, <2>3 DEF Holds
  <2> QED
    BY <1>4, <2>3, <2>4 DEF s
<1>5. CASE f.type = "replay"
  <2> DEFINE S == f.from..f.to
             r == Ingested(client, S)
  <2>1. s = [r EXCEPT !.cursor = Highest({r.cursor, sub.head})]
    BY <1>5 DEF Applied
  <2>2. /\ f.from \in 1..(client.cursor + 1) /\ f.to = sub.head
    BY <1>5 DEF FrameFits
  <2>3. S \subseteq 1..Len(journal)
    BY <1>1, <2>2
  <2>4. Holds(r) /\ r.held = client.held \cup S /\ r.shown \subseteq client.shown
    BY <1>3, <2>3, IngestedStore
  <2> HIDE DEF r
  <2>5. r.cursor \in Nat /\ r.cursor <= Len(journal) /\ r.cursor >= client.cursor
    BY <1>1, <2>4 DEF Holds
  <2> DEFINE h == Highest({r.cursor, sub.head})
  <2>6. h \in {r.cursor, sub.head} /\ r.cursor <= h /\ sub.head <= h
    <3>1. {r.cursor, sub.head} \subseteq Nat /\ {r.cursor, sub.head} # {}
          /\ \A n \in {r.cursor, sub.head} : n <= Len(journal)
      BY <1>1, <2>5
    <3> QED
      BY <1>1, <3>1, HighestIsIn
  <2> HIDE DEF h, s
  <2>7. /\ s \in Store /\ s.cursor = h /\ s.held = client.held \cup S /\ s.before = client.before
        /\ s.shown = r.shown
    <3>1. s = [r EXCEPT !.cursor = h] /\ h \in Nat
      BY <1>1, <2>1, <2>5, <2>6 DEF h
    <3> QED
      BY <2>4, <3>1 DEF Holds, Store
  <2>8. (client.cursor + 1)..h \subseteq client.held \cup S
    <3>1. CASE h = r.cursor
      BY <2>4, <3>1 DEF Holds
    <3>2. CASE h = sub.head
      BY <1>1, <2>2, <3>2
    <3> QED
      BY <2>6, <3>1, <3>2
  <2>9. Holds(s)
    <3>1. client.held \cup S \subseteq 1..Len(journal)
      BY <1>1, <2>3
    <3>2. h \in client.cursor..Len(journal)
      BY <1>1, <2>5, <2>6
    <3> QED
      BY <2>7, <2>8, <3>1, <3>2 DEF Holds
  <2>10. s.cursor >= sub.head
    BY <1>1, <2>5, <2>6, <2>7
  <2> QED
    BY <1>5, <2>4, <2>7, <2>9, <2>10 DEF s
<1>6. CASE f.type = "event"
  <2> DEFINE r == Ingested(client, {f.seq})
  <2>1. s = IF f.seq > client.cursor + 1 THEN AskRebase(r) ELSE r
    BY <1>6 DEF Applied
  <2>2. f.seq \in 1..Len(journal)
    BY <1>6 DEF FrameFits
  <2>3. /\ Holds(r) /\ r.held = client.held \cup {f.seq}
        /\ r.shown \subseteq client.shown \ Completed({f.seq} \ client.held)
    <3>1. {f.seq} \subseteq 1..Len(journal)
      BY <2>2
    <3>2. Holds(r)
      BY <1>3, <3>1
    <3> QED
      BY <3>1, <3>2, IngestedStore
  <2> HIDE DEF r, s
  <2>4. CASE f.seq > client.cursor + 1
    <3>1. Holds(s) /\ s.held = r.held /\ s.shown = {}
      BY <2>1, <2>3, <2>4, AskedRebase
    <3> QED
      BY <1>6, <2>3, <3>1 DEF s
  <2>5. CASE ~(f.seq > client.cursor + 1)
    <3>1. s = r
      BY <2>1, <2>5
    <3> QED
      BY <1>6, <2>3, <3>1 DEF s
  <2> QED
    BY <2>4, <2>5
<1>7. CASE f.type = "delta"
  <2> DEFINE g == f.segment
             length == IF g \in client.shown THEN client.text[g] ELSE 0
             more == [client EXCEPT !.shown = @ \cup {g}, !.text[g] = f.to, !.rebase = FALSE]
  <2>1. s = IF f.from > length THEN AskRebase(client) ELSE IF f.to <= length THEN client ELSE more
    BY <1>7 DEF Applied, WithDelta
  <2>2. g \in Segment /\ f.to \in Text
    BY <1>7, FrameFields
  <2>3. /\ more \in Store /\ more.held = client.held /\ more.cursor = client.cursor
        /\ more.before = client.before /\ more.shown = client.shown \cup {g}
    BY <1>1, <2>2 DEF Store
  <2>4. Holds(more)
    BY <1>2, <2>3 DEF Holds
  <2> HIDE DEF more, length, s
  <2>5. CASE s = AskRebase(client)
    BY <1>2, <1>7, <2>5, AskedRebase DEF s
  <2>6. CASE s = client
    BY <1>2, <1>7, <2>6 DEF s
  <2>7. CASE s = more
    BY <1>7, <2>3, <2>4, <2>7 DEF s
  <2> QED
    BY <2>1, <2>5, <2>6, <2>7
<1>8. CASE f.type = "rebase_required"
  <2>1. s = AskRebase(client)
    BY <1>8 DEF Applied
  <2> QED
    BY <1>2, <1>8, <2>1, AskedRebase
<1>9. CASE f.type = "end"
  <2>1. s = client
    BY <1>9 DEF Applied
  <2> QED
    BY <1>2, <1>9, <2>1
<1> QED
  BY <1>4, <1>5, <1>6, <1>7, <1>8, <1>9, FrameFields


\* The client receives a frame.
LEMMA FrameReceived ==
    ASSUME IInv, Receive
    PROVE  IInv'
<1> DEFINE f == Head(sub.queue)
           s == Applied(client, f)
           asks(seen) == seen /\ s.rebase /\ f.type # "end"
           lost(seen) == asks(seen) \/ f.type = "end"
<1>0. /\ TypeOK /\ LinkInv /\ FramesFit /\ CursorSkipsNothing
      /\ HeadInv /\ OnceInv /\ DeltaInv /\ ShownInv
  BY DEF IInv
<1>a. PICK seen \in BOOLEAN : ReceiveFrame(seen)
  BY DEF Receive
<1> DEFINE kept == IF seen THEN s.cursor ELSE 0
<1>1. /\ link = "up" /\ sub.queue # <<>> /\ client' = s
      /\ link' = (IF asks(seen) THEN "unloaded" ELSE IF lost(seen) THEN "down" ELSE link)
      /\ sub' = (IF lost(seen) THEN NoSubscription ELSE [sub EXCEPT !.queue = Tail(@)])
      /\ ack' = (IF lost(seen) THEN {} ELSE IF f.type = "hello" THEN {kept} ELSE ack)
      /\ UNCHANGED <<attemptVars, published, faults>>
  BY <1>a DEF ReceiveFrame
<1>2. TaskInv' /\ FiniteInv' /\ CommitInv' /\ journal' = journal /\ row' = row
      /\ attempt' = attempt /\ unpublished' = unpublished /\ \A g : Ends(g)' = Ends(g)
  BY <1>1, TaskIdle
<1>3. /\ f = sub.queue[1] /\ 1 \in 1..Len(sub.queue) /\ f \in Fit /\ f \in Frame /\ FrameFits(f)
      /\ Tail(sub.queue) \in Seq(Fit) /\ Len(Tail(sub.queue)) = Len(sub.queue) - 1
      /\ \A i \in 1..Len(Tail(sub.queue)) : i + 1 \in 1..Len(sub.queue) /\ Tail(sub.queue)[i] = sub.queue[i + 1]
      /\ Len(sub.queue) \in Nat
  <2>1. sub.queue \in Seq(Fit) /\ Len(sub.queue) \in Nat
    BY <1>0, FlowTypes, LenProperties
  <2>2. /\ f \in Fit /\ Tail(sub.queue) \in Seq(Fit) /\ Len(Tail(sub.queue)) = Len(sub.queue) - 1
        /\ \A i \in 1..Len(Tail(sub.queue)) : Tail(sub.queue)[i] = sub.queue[i + 1]
    BY <1>1, <2>1, HeadTailProperties
  <2>3. 1 \in 1..Len(sub.queue) /\ f = sub.queue[1]
    BY <1>1, <2>1, EmptySeq
  <2>4. \A i \in 1..Len(Tail(sub.queue)) : i + 1 \in 1..Len(sub.queue)
    BY <2>1, <2>2
  <2>5. f \in Frame /\ FrameFits(f)
    BY <2>2 DEF Fit
  <2> QED
    BY <2>1, <2>2, <2>3, <2>4, <2>5
<1> HIDE DEF f
<1>4. Holds(s)
  BY <1>0, <1>3, AppliedStore
<1>5. /\ Len(journal) \in Nat /\ client.cursor \in Nat /\ client.cursor <= Len(journal)
      /\ client.before \in Nat /\ sub \in Subscription /\ sub.head \in Nat /\ published \in Nat
  BY <1>0, Typed DEF TypeOK
<1> HIDE DEF s
<1>6. CursorSkipsNothing'
  <2>1. s.before = client.before /\ client.held \subseteq s.held /\ s.cursor \in client.cursor..Len(journal)
        /\ (client.cursor + 1)..s.cursor \subseteq s.held
    BY <1>4 DEF Holds
  <2>2. ASSUME NEW n \in s.before..s.cursor PROVE n \in s.held
    <3>1. n \in client.before..client.cursor \/ n \in (client.cursor + 1)..s.cursor
      BY <1>5, <2>1, <2>2
    <3> QED
      BY <1>0, <2>1, <3>1 DEF CursorSkipsNothing
  <2> QED
    BY <1>1, <2>2 DEF CursorSkipsNothing
<1>7. s \in Store /\ s.held \subseteq 1..Len(journal) /\ s.cursor <= Len(journal) /\ s.cursor \in Nat
      /\ s.cursor >= client.cursor /\ client.held \subseteq s.held
  BY <1>4, <1>5 DEF Holds
<1>8. CASE lost(seen)
  <2>1. sub' = NoSubscription /\ ack' = {} /\ link' \in {"unloaded", "down"}
    BY <1>1, <1>8
  <2>2. NoSubscription \in Subscription /\ NoSubscription.head <= Len(journal)
        /\ Len(NoSubscription.queue) <= QueueSize /\ Len(NoSubscription.pending) <= QueueSize
    BY <1>5, NoSubscriptionTypes, LimitAssumption
  <2>3. TypeOK'
    BY <1>0, <1>1, <1>2, <1>7, <2>1, <2>2 DEF TypeOK
  <2> QED
    BY <1>2, <1>6, <2>1, <2>3, StreamDropped DEF IInv
<1>9. CASE ~lost(seen)
  <2>1. /\ f.type # "end" /\ link' = "up" /\ sub' = [sub EXCEPT !.queue = Tail(sub.queue)]
        /\ ack' = IF f.type = "hello" THEN {kept} ELSE ack
        /\ kept \in {0, s.cursor}
    BY <1>1, <1>9
  <2> HIDE DEF kept
  <2>2. Tail(sub.queue) \in Seq(Frame)
    BY <1>0, <1>3, FlowTypes, SeqMonotonic
  <2>3. /\ sub' \in Subscription /\ sub'.stage = sub.stage /\ sub'.replaying = sub.replaying
        /\ sub'.head = sub.head /\ sub'.closed = sub.closed /\ sub'.pending = sub.pending
        /\ sub'.queue = Tail(sub.queue)
    BY <1>5, <2>1, <2>2 DEF Subscription
  <2>4. f.type \in {"hello", "replay", "event", "delta", "rebase_required"}
    BY <1>3, <2>1, FrameFields
  <2>5. TypeOK'
    <3>1. Len(Tail(sub.queue)) <= QueueSize
      BY <1>0, <1>3, LimitAssumption DEF TypeOK
    <3>2. ack' \subseteq 0..Len(journal)
      BY <1>0, <1>5, <1>7, <2>1 DEF TypeOK
    <3> QED
      BY <1>0, <1>1, <1>2, <1>7, <2>1, <2>3, <3>1, <3>2 DEF TypeOK
  <2>6. FramesFit'
    <3>1. Fit \subseteq Fit' /\ LiveFit \subseteq LiveFit'
      <4>1. 1..(client.cursor + 1) \subseteq 1..(s.cursor + 1)
        BY <1>5, <1>7
      <4>2. \A x \in Frame : FrameFits(x) => FrameFits(x)'
        BY <1>1, <1>2, <2>3, <4>1 DEF FrameFits
      <4> QED
        BY <4>2 DEF Fit, LiveFit
    <3>2. Tail(sub.queue) \in Seq(Fit') /\ sub.pending \in Seq(LiveFit')
      BY <1>0, <1>3, <3>1, FlowTypes, SeqMonotonic
    <3> QED
      BY <2>3, <3>2 DEF FramesFit
  <2>7. \A g : Alive(g)' <=> Alive(g)
    BY <1>2, <2>3 DEF Alive
  <2>8. \A x, g : Ending(x, g)' <=> Ending(x, g)
    BY <1>2, <2>3 DEF Ending
  <2>10. CASE f.type = "hello"
    <3>1. Len(sub.queue) = 1 /\ sub.stage = "ready" /\ sub.replaying /\ ~sub.closed /\ ack = {}
      BY <1>0, <1>3, <2>10 DEF LinkInv
    <3>2. Tail(sub.queue) = <<>> /\ Len(Tail(sub.queue)) = 0
      <4>1. Len(Tail(sub.queue)) = 0 /\ Tail(sub.queue) \in Seq(Fit)
        BY <1>3, <3>1
      <4>2. \A q \in Seq(Fit) : Len(q) = 0 => q = <<>>
        BY EmptySeq
      <4> QED
        BY <4>1, <4>2
    <3>3. s.held = client.held /\ s.cursor = client.cursor /\ s.shown = f.segments.shown
      BY <1>0, <1>3, <2>10, AppliedStore DEF s
    <3>4. LinkInv'
      BY <1>0, <1>1, <2>1, <2>3, <2>10, <3>1, <3>2 DEF LinkInv
    <3>5. Flow' = Flow /\ Open' /\ Open /\ Shown' = Shown
      BY <1>1, <1>3, <2>3, <3>1, <3>2, <3>3 DEF Flow, Open, Shown
    <3>6. HeadInv' /\ OnceInv'
      <4>1. client'.cursor = client.cursor /\ client'.held = client.held /\ published' = published
        BY <1>1, <3>3
      <4>2. HeadInv'
        BY <1>0, <2>3, <3>5, <4>1 DEF HeadInv, Reaches
      <4>3. OnceInv'
        BY <1>0, <1>2, <2>3, <3>5, <4>1 DEF OnceInv, Brings
      <4> QED
        BY <4>2, <4>3
    <3>7. \A i, g : Later(i, g)' <=> Later(i, g)
      BY <2>8, <3>5 DEF Later
    <3>8. DeltaInv'
      <4>1. \A g : EndsInReplay(g)' <=> EndsInReplay(g)
        BY <1>2, <2>3 DEF EndsInReplay
      <4> SUFFICES ASSUME NEW i \in 1..Len(Flow), Flow[i].type = "delta"
                   PROVE  \A g : g = Flow[i].segment =>
                             /\ \A n \in Ends(g) : n > client.cursor
                             /\ Owed(g, i)' \/ EndsInReplay(g)'
        BY <1>1, <1>2, <2>3, <3>3, <3>5 DEF DeltaInv
      <4>2. \A g : g = Flow[i].segment =>
                             /\ \A n \in Ends(g) : n > client.cursor
                             /\ Owed(g, i) \/ EndsInReplay(g)
        BY <1>0, <3>1 DEF DeltaInv
      <4> QED
        BY <2>7, <3>7, <4>1, <4>2 DEF Owed
    <3>9. ShownInv'
      BY <1>0, <2>3, <2>7, <3>1, <3>5, <3>7 DEF ShownInv, Owed
    <3> QED
      BY <1>2, <1>6, <2>5, <2>6, <3>4, <3>6, <3>8, <3>9 DEF IInv
  <2>12. CASE f.type = "rebase_required" /\ sub.replaying
    <3>1. sub.closed /\ s.cursor = client.cursor
      BY <1>0, <1>3, <2>12, AppliedStore DEF LinkInv, s
    <3>2. LinkInv'
      <4>1. \A i \in 1..Len(Tail(sub.queue)) : Tail(sub.queue)[i].type \in {"rebase_required", "end"}
        BY <1>0, <1>3, <2>12, <3>1 DEF LinkInv
      <4> QED
        BY <1>0, <1>1, <2>1, <2>3, <2>12, <3>1, <4>1 DEF LinkInv
    <3>3. HeadInv' /\ OnceInv' /\ DeltaInv' /\ ShownInv'
      BY <2>3, <3>1 DEF HeadInv, OnceInv, DeltaInv, ShownInv, Open
    <3> QED
      BY <1>2, <1>6, <2>5, <2>6, <3>2, <3>3 DEF IInv
  <2>11. CASE f.type \in {"replay", "event", "delta"} \/ (f.type = "rebase_required" /\ ~sub.replaying)
    <3>1. ~sub.replaying /\ ack = {} /\ sub.pending = <<>> /\ ack' = {}
      BY <1>0, <1>3, <2>1, <2>11 DEF LinkInv
    <3>2. LinkInv'
      <4>1. \A i \in 1..Len(Tail(sub.queue)) : Tail(sub.queue)[i].type # "hello"
        BY <1>0, <1>3, <3>1 DEF LinkInv
      <4> QED
        BY <1>0, <1>1, <2>1, <2>3, <3>1, <4>1 DEF LinkInv
    <3>3. CASE sub.closed
      <4>1. HeadInv' /\ OnceInv' /\ DeltaInv' /\ ShownInv'
        BY <2>3, <3>3 DEF HeadInv, OnceInv, DeltaInv, ShownInv, Open
      <4> QED
        BY <1>2, <1>6, <2>5, <2>6, <3>2, <4>1 DEF IInv
    <3>4. CASE ~sub.closed
      <4>1. /\ Flow = sub.queue /\ Flow' = Tail(sub.queue) /\ Shown = client.shown /\ Shown' = s.shown
            /\ Open' = Open
        BY <1>1, <2>3, <3>1 DEF Flow, Shown, Open
      <4>2. /\ 1 \in 1..Len(Flow) /\ Flow[1] = f
            /\ \A i \in 1..Len(Flow') : i + 1 \in 1..Len(Flow) /\ Flow'[i] = Flow[i + 1]
            /\ \A i \in 1..Len(Flow) : i # 1 =>
                  i - 1 \in 1..Len(Flow') /\ Flow'[i - 1] = Flow[i] /\ i \in Nat
        <5>1. \A i \in 1..Len(sub.queue) : i # 1 =>
                  i - 1 \in 1..Len(Tail(sub.queue)) /\ Tail(sub.queue)[i - 1] = sub.queue[i]
          <6> SUFFICES ASSUME NEW i \in 1..Len(sub.queue), i # 1
                       PROVE  i - 1 \in 1..Len(Tail(sub.queue)) /\ Tail(sub.queue)[i - 1] = sub.queue[i]
            OBVIOUS
          <6>1. i - 1 \in 1..Len(Tail(sub.queue)) /\ (i - 1) + 1 = i
            BY <1>3
          <6> QED
            BY <1>3, <6>1
        <5> QED
          BY <1>3, <4>1, <5>1
      <4>3. HeadInv'
        <5> SUFFICES ASSUME Open
                     PROVE  \/ published <= s.cursor
                            \/ \E i \in 1..Len(Flow') : Reaches(Flow'[i], published)
                            \/ \E n \in s.held : n >= published
          BY <1>1, <2>3, <3>1, <4>1 DEF HeadInv, Reaches
        <5>1. \/ published <= client.cursor
              \/ \E i \in 1..Len(Flow) : Reaches(Flow[i], published)
              \/ \E n \in s.held : n >= published
          BY <1>0, <1>7, <3>1 DEF HeadInv
        <5>2. ASSUME NEW i \in 1..Len(Flow), i # 1, Reaches(Flow[i], published)
              PROVE  \E j \in 1..Len(Flow') : Reaches(Flow'[j], published)
          BY <4>2, <5>2
        <5>3. ASSUME Reaches(f, published)
              PROVE  published <= s.cursor \/ \E n \in s.held : n >= published
          <6>1. CASE f.type = "event"
            <7>1. f.seq \in s.held
              BY <1>0, <1>3, <6>1, AppliedStore DEF s
            <7> QED
              BY <5>3, <6>1, <7>1 DEF Reaches
          <6>2. CASE f.type = "replay"
            <7>1. s.cursor >= sub.head /\ f.to = sub.head
              BY <1>0, <1>3, <2>1, <6>2, AppliedStore DEF s, FrameFits
            <7> QED
              BY <1>5, <1>7, <5>3, <6>2, <7>1 DEF Reaches
          <6> QED
            BY <5>3, <6>1, <6>2 DEF Reaches
        <5>4. published <= client.cursor => published <= s.cursor
          BY <1>5, <1>7
        <5> QED
          BY <4>2, <5>1, <5>2, <5>3, <5>4
      <4>4. \A n : n > sub.head => (n \in s.held <=> n \in client.held \/ Brings(f, n))
        <5>1. CASE f.type = "event"
          <6>1. s.held = client.held \cup {f.seq}
            BY <1>0, <1>3, <2>1, <5>1, AppliedStore DEF s
          <6> QED
            BY <5>1, <6>1 DEF Brings
        <5>2. CASE f.type = "replay"
          <6>1. s.held = client.held \cup f.from..f.to /\ f.to = sub.head
            BY <1>0, <1>3, <2>1, <5>2, AppliedStore DEF s, FrameFits
          <6>2. \A n : n > sub.head => n \notin f.from..f.to
            <7>1. f.from \in Nat
              BY <1>3, <5>2, FrameFields
            <7> QED
              BY <1>5, <6>1, <7>1
          <6> QED
            BY <5>2, <6>1, <6>2 DEF Brings
        <5>3. CASE f.type = "delta"
          <6>1. s.held = client.held
            BY <1>0, <1>3, <2>1, <5>3, AppliedStore DEF s
          <6> QED
            BY <5>3, <6>1 DEF Brings
        <5>4. CASE f.type = "rebase_required"
          <6>1. s.held = client.held
            BY <1>0, <1>3, <5>4, AppliedStore DEF s
          <6> QED
            BY <5>4, <6>1 DEF Brings
        <5> QED
          BY <2>11, <5>1, <5>2, <5>3, <5>4
      <4>5. OnceInv'
        <5> SUFFICES ASSUME Open, NEW n \in (sub.head + 1)..Len(journal)
                     PROVE  /\ \A p \in Publisher : n \in unpublished[p] =>
                                n \notin s.held /\ \A i \in 1..Len(Flow') : ~Brings(Flow'[i], n)
                            /\ \A i \in 1..Len(Flow') : Brings(Flow'[i], n) =>
                                /\ n \notin s.held
                                /\ \A j \in 1..Len(Flow') : Brings(Flow'[j], n) => j = i
          BY <1>1, <1>2, <2>3, <3>1, <4>1 DEF OnceInv, Brings
        <5>1. n > sub.head
          BY <1>5
        <5>2. /\ \A p \in Publisher : n \in unpublished[p] =>
                    n \notin client.held /\ \A i \in 1..Len(Flow) : ~Brings(Flow[i], n)
              /\ \A i \in 1..Len(Flow) : Brings(Flow[i], n) =>
                    /\ n \notin client.held
                    /\ \A j \in 1..Len(Flow) : Brings(Flow[j], n) => j = i
          BY <1>0 DEF OnceInv
        <5>3. \A i \in 1..Len(Flow') : Brings(Flow'[i], n) =>
                  i + 1 \in 1..Len(Flow) /\ Brings(Flow[i + 1], n) /\ ~Brings(f, n)
          <6> SUFFICES ASSUME NEW i \in 1..Len(Flow'), Brings(Flow'[i], n)
                       PROVE  i + 1 \in 1..Len(Flow) /\ Brings(Flow[i + 1], n) /\ ~Brings(f, n)
            OBVIOUS
          <6>1. i + 1 \in 1..Len(Flow) /\ Brings(Flow[i + 1], n) /\ i + 1 # 1
            BY <4>2
          <6> QED
            BY <4>2, <5>2, <6>1
        <5>4. ASSUME NEW i \in 1..Len(Flow'), NEW j \in 1..Len(Flow'),
                     Brings(Flow'[i], n), Brings(Flow'[j], n)
              PROVE  i = j
          <6>1. i + 1 = j + 1
            BY <5>2, <5>3, <5>4
          <6> QED
            BY <6>1
        <5> QED
          BY <4>2, <4>4, <5>1, <5>2, <5>3, <5>4
      <4>6. ASSUME NEW g, NEW i \in 0..Len(Flow), NEW j \in 1..Len(Flow), j > i, j # 1, Ending(Flow[j], g)
            PROVE  Later(i - 1, g)' /\ (i = 0 => Later(0, g)')
        <5>1. /\ j - 1 \in 1..Len(Flow') /\ Ending(Flow'[j - 1], g) /\ j - 1 > i - 1
              /\ (i = 0 => j - 1 > 0)
          <6>1. j \in Nat /\ j >= 1
            OBVIOUS
          <6> QED
            BY <4>2, <4>6, <6>1
        <5>2. \E k \in 1..Len(Flow') : k > i - 1 /\ (i = 0 => k > 0) /\ Ending(Flow'[k], g)
          BY <5>1
        <5> QED
          BY <2>8, <5>2 DEF Later
      <4>7. DeltaInv'
        <5> SUFFICES ASSUME sub.stage # "none", NEW i \in 1..Len(Flow'), Flow'[i].type = "delta"
                     PROVE  \A g : g = Flow'[i].segment => Alive(g)' \/ Later(i, g)'
          BY <2>3, <3>1 DEF DeltaInv, Owed
        <5>1. i + 1 \in 1..Len(Flow) /\ Flow'[i] = Flow[i + 1] /\ i + 1 \in 0..Len(Flow) /\ (i + 1) - 1 = i
          BY <4>2
        <5>2. PICK g : g = Flow[i + 1].segment
          OBVIOUS
        <5>3. Owed(g, i + 1)
          BY <1>0, <3>1, <3>4, <5>1, <5>2 DEF DeltaInv, EndsInReplay
        <5>4. CASE Alive(g)
          BY <2>7, <5>1, <5>2, <5>4
        <5>5. CASE Later(i + 1, g)
          <6>1. PICK j \in 1..Len(Flow) : j > i + 1 /\ Ending(Flow[j], g)
            BY <5>5 DEF Later
          <6>2. j # 1
            BY <5>1, <6>1
          <6>3. Later((i + 1) - 1, g)'
            BY <4>6, <5>1, <6>1, <6>2
          <6> QED
            BY <5>1, <5>2, <6>3
        <5> QED
          BY <5>3, <5>4, <5>5 DEF Owed
      <4>8. ShownInv'
        <5> SUFFICES ASSUME sub.stage = "ready", NEW g \in s.shown PROVE Alive(g)' \/ Later(0, g)'
          BY <2>3, <4>1 DEF ShownInv, Owed
        <5>1. ASSUME g \in client.shown, ~(f.type = "event" /\ g \in Completed({f.seq} \ client.held))
              PROVE  Alive(g)' \/ Later(0, g)'
          <6>1. Owed(g, 0)
            BY <1>0, <3>4, <4>1, <5>1 DEF ShownInv
          <6>2. CASE Alive(g)
            BY <2>7, <6>2
          <6>3. CASE Later(0, g)
            <7>1. PICK j \in 1..Len(Flow) : Ending(Flow[j], g)
              BY <6>3 DEF Later
            <7>2. j # 1
              <8> SUFFICES ASSUME j = 1 PROVE FALSE
                OBVIOUS
              <8>1. f.type = "event" /\ f.seq > sub.head /\ journal[f.seq] = g
                BY <4>2, <7>1 DEF Ending
              <8>2. f.seq \in (sub.head + 1)..Len(journal) /\ Brings(Flow[1], f.seq)
                BY <1>3, <1>5, <4>2, <8>1 DEF FrameFits, Brings
              <8>3. f.seq \notin client.held
                BY <1>0, <3>4, <4>2, <8>2 DEF OnceInv, Open
              <8>4. g # NoSegment
                BY <1>0, <5>1, NoSegmentApart, Typed
              <8> QED
                BY <5>1, <8>1, <8>3, <8>4 DEF Completed
            <7>3. j \in Nat /\ j > 0 /\ 0 \in 0..Len(Flow)
              OBVIOUS
            <7>4. Later(0, g)'
              BY <4>6, <7>1, <7>2, <7>3
            <7> QED
              BY <7>4
          <6> QED
            BY <6>1, <6>2, <6>3 DEF Owed
        <5>2. CASE f.type = "event"
          <6>1. s.shown \subseteq client.shown \ Completed({f.seq} \ client.held)
            BY <1>0, <1>3, <2>1, <5>2, AppliedStore DEF s
          <6> QED
            BY <5>1, <6>1
        <5>3. CASE f.type = "replay"
          <6>1. s.shown \subseteq client.shown
            BY <1>0, <1>3, <2>1, <5>3, AppliedStore DEF s
          <6> QED
            BY <5>1, <5>3, <6>1
        <5>4. CASE f.type = "delta"
          <6>1. s.shown \subseteq client.shown \cup {f.segment}
            BY <1>0, <1>3, <2>1, <5>4, AppliedStore DEF s
          <6>2. CASE g \in client.shown
            BY <5>1, <5>4, <6>2
          <6>3. CASE g = f.segment
            <7>1. Owed(g, 1)
              BY <1>0, <3>1, <3>4, <4>2, <5>4, <6>3 DEF DeltaInv, EndsInReplay
            <7>2. CASE Alive(g)
              BY <2>7, <7>2
            <7>3. CASE Later(1, g)
              <8>1. PICK j \in 1..Len(Flow) : j > 1 /\ Ending(Flow[j], g)
                BY <7>3 DEF Later
              <8>2. j # 1 /\ j > 0 /\ 0 \in 0..Len(Flow)
                BY <8>1
              <8>3. Later(0, g)'
                BY <4>6, <8>1, <8>2
              <8> QED
                BY <8>3
            <7> QED
              BY <7>1, <7>2, <7>3 DEF Owed
          <6> QED
            BY <6>1, <6>2, <6>3
        <5>5. CASE f.type = "rebase_required"
          BY <1>0, <1>3, <5>5, AppliedStore DEF s
        <5> QED
          BY <2>11, <5>2, <5>3, <5>4, <5>5
      <4> QED
        BY <1>2, <1>6, <2>5, <2>6, <3>2, <4>3, <4>5, <4>7, <4>8 DEF IInv
    <3> QED
      BY <3>3, <3>4
  <2> QED
    BY <2>4, <2>10, <2>11, <2>12
<1> QED
  BY <1>8, <1>9


-----------------------------------------------------------------------------
(* The theorems.                                                           *)

\* The three kinds of step: records in the database,
LEMMA RecordsStep ==
    ASSUME IInv, Records
    PROVE  IInv'
<1>0. TypeOK /\ TaskInv /\ FiniteInv /\ CommitInv
  BY DEF IInv
<1>1. TypeOK'
  <2>1. /\ UNCHANGED <<published, sub, clientVars>>
        /\ faults' \in Nat /\ row' \in [Segment -> Row] /\ attempt' \in Attempt
        /\ journal' \in Seq(Segment \cup {NoSegment}) /\ Len(journal) <= Len(journal')
        /\ unpublished' \in [Publisher -> SUBSET (1..Len(journal'))]
    BY <1>0, RecordsGrow
  <2> QED
    BY <1>0, <2>1, StreamTypes
<1>2. TaskInv' /\ FiniteInv' /\ CommitInv'
  BY <1>0, TaskRecords, FiniteRecords, CommitRecords
<1> QED
  BY <1>1, <1>2, StreamRecords DEF IInv

\* ... broadcasts,
LEMMA BroadcastStep ==
    ASSUME IInv,
           \/ SendDelta
           \/ \E p \in Publisher : Publish(p)
           \/ \E g \in Segment : \E length \in Lengths(g) : Grow(g, length)
    PROVE  IInv'
<1>1. (\E frames : Broadcast(frames)) /\ TypeOK' /\ TaskInv' /\ FiniteInv' /\ CommitInv'
  BY DeltaSent, Published, Grown
<1>2. /\ LinkInv' /\ FramesFit' /\ CursorSkipsNothing'
      /\ HeadInv' /\ OnceInv' /\ DeltaInv' /\ ShownInv'
  BY <1>1, StreamBroadcast
<1> QED
  BY <1>1, <1>2 DEF IInv

\* ... and steps that change nothing.
LEMMA Stuttering ==
    ASSUME IInv, UNCHANGED vars
    PROVE  IInv'
<1>1. /\ journal' = journal /\ row' = row /\ attempt' = attempt /\ unpublished' = unpublished
      /\ published' = published /\ sub' = sub /\ ack' = ack /\ link' = link /\ client' = client
      /\ faults' = faults
  BY DEF vars, attemptVars, clientVars
<1>2. TypeOK' /\ TaskInv' /\ FiniteInv' /\ CommitInv'
  BY <1>1 DEF IInv, TypeOK, TaskInv, FiniteInv, CommitInv, Ends
<1>3. LinkInv' /\ FramesFit' /\ CursorSkipsNothing'
  BY <1>1 DEF IInv, LinkInv, FramesFit, Fit, LiveFit, FrameFits, CursorSkipsNothing
<1>4. HeadInv' /\ OnceInv'
  BY <1>1 DEF IInv, HeadInv, OnceInv, Open, Flow, Reaches, Brings
<1>5. DeltaInv' /\ ShownInv'
  BY <1>1 DEF IInv, DeltaInv, ShownInv, Flow, Shown, Owed, Alive, Later, Ending, EndsInReplay, Ends
<1> QED
  BY <1>2, <1>3, <1>4, <1>5 DEF IInv

\* The invariant is inductive: every step of a task, a handler, the supervisor, the
\* WebSocket and the client keeps it.
THEOREM Invariance == Spec => []IInv
<1>1. IInv /\ [Next]_vars => IInv'
  <2> SUFFICES ASSUME IInv, [Next]_vars PROVE IInv'
    OBVIOUS
  <2>1. CASE Records
    BY <2>1, RecordsStep
  <2>2. CASE \/ SendDelta
             \/ \E p \in Publisher : Publish(p)
             \/ \E g \in Segment : \E length \in Lengths(g) : Grow(g, length)
    BY <2>2, BroadcastStep
  <2>3. CASE Restart \/ Disconnect \/ LoadHistory \/ Connect \/ ReadHead \/ SendHello \/ AcceptAck
             \/ Receive \/ Heartbeat
    BY <2>3, Restarted, Disconnected, HistoryLoaded, Connected, HeadRead, HelloSent, AckAccepted,
       FrameReceived, RebaseFound
  <2>4. CASE UNCHANGED vars
    BY <2>4, Stuttering
  <2> QED
    BY <2>1, <2>2, <2>3, <2>4 DEF Next, TaskStep, Records
<1> QED
  BY <1>1, Initially, PTL DEF Spec

\* The journal, the rows, the subscription with its bounded queues, and the client's
\* store keep their types, whatever is broadcast, lost or replayed.
THEOREM TypeCorrect == Spec => []TypeOK
<1>1. IInv => TypeOK
  BY DEF IInv
<1> QED
  BY <1>1, Invariance, PTL

\* The cursor a client acknowledges never passes an event it was not sent.
THEOREM CursorSkipsNothingAlways == Spec => []CursorSkipsNothing
<1>1. IInv => CursorSkipsNothing
  BY DEF IInv
<1> QED
  BY <1>1, Invariance, PTL

\* When the stream is open and empty, the client has every event that was announced, or
\* it holds one at least as recent, so that its store shows the gap before it.
THEOREM QuietStreamIsCompleteAlways == Spec => []QuietStreamIsComplete
<1>1. IInv => QuietStreamIsComplete
  <2> SUFFICES ASSUME IInv, Quiet
               PROVE  client.cursor >= published \/ \E n \in client.held : n >= published
    BY DEF QuietStreamIsComplete
  <2>1. Open /\ ~sub.replaying /\ Flow = <<>> /\ Len(Flow) = 0
    BY EmptySeq DEF Quiet, Open, Flow
  <2>2. published <= client.cursor \/ \E n \in client.held : n >= published
    BY <2>1 DEF IInv, HeadInv
  <2>3. published \in Nat /\ client.cursor \in Nat
    BY Typed DEF IInv
  <2> QED
    BY <2>2, <2>3
<1> QED
  BY <1>1, Invariance, PTL

\* When the stream is open and empty, no segment that ended is shown as live.
THEOREM LiveSegmentsAreOpenAlways == Spec => []LiveSegmentsAreOpen
<1>1. IInv => LiveSegmentsAreOpen
  <2> SUFFICES ASSUME IInv, Quiet, unpublished["task"] = {}, NEW g \in client.shown
               PROVE  row[g].status = "streaming" \/ attempt.phase \in {"recording", "canceled"}
    BY DEF LiveSegmentsAreOpen
  <2>1. sub.stage = "ready" /\ ~sub.closed /\ Shown = client.shown /\ Flow = <<>> /\ Len(Flow) = 0
    BY EmptySeq DEF Quiet, Shown, Flow
  <2>2. Owed(g, 0)
    BY <2>1 DEF IInv, ShownInv
  <2>3. ~Later(0, g)
    BY <2>1 DEF Later
  <2> QED
    BY <2>2, <2>3 DEF Owed, Alive
<1> QED
  BY <1>1, Invariance, PTL
==============================================================================
