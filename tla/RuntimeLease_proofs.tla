------------------------ MODULE RuntimeLease_proofs -------------------------
(***************************************************************************)
(* Proofs about RuntimeLease: type correctness, the inductive invariant    *)
(* behind LiveHandleOwnsRow, and the refinement of FencedResource.         *)
(***************************************************************************)
EXTENDS RuntimeLease, TLAPS

-----------------------------------------------------------------------------
(* Type correctness.                                                       *)

LEMMA InitTypeOK == Init => TypeOK
BY DEF Init, TypeOK, NoWrite, Stage, Heartbeat

LEMMA NextTypeOK == TypeOK /\ [Next]_vars => TypeOK'
<1> SUFFICES ASSUME TypeOK, [Next]_vars PROVE TypeOK'
  OBVIOUS
<1> USE TTLAssumption DEF TypeOK, Stage, Heartbeat
<1>1. CASE Tick
  BY <1>1 DEF Tick
<1>2. ASSUME NEW o \in Owner, OwnerStep(o) PROVE TypeOK'
  <2>1. CASE SampleForAcquire(o)
    BY <2>1 DEF SampleForAcquire
  <2>2. CASE Acquire(o)
    BY <2>2 DEF Acquire, TakenBy
  <2>3. CASE AcquireRefused(o)
    BY <2>3 DEF AcquireRefused
  <2>4. CASE AcquireFails(o)
    BY <2>4 DEF AcquireFails, TakenBy
  <2>5. CASE HeartbeatExpires(o)
    BY <2>5 DEF HeartbeatExpires, Lost
  <2>6. CASE BeginRenew(o)
    BY <2>6 DEF BeginRenew
  <2>7. CASE RenewCommit(o)
    BY <2>7 DEF RenewCommit
  <2>8. CASE RenewRefused(o)
    BY <2>8 DEF RenewRefused, Lost
  <2>9. CASE RenewDone(o)
    BY <2>9 DEF RenewDone
  <2>10. CASE RenewFails(o)
    BY <2>10 DEF RenewFails
  <2>11. CASE FencedWrite(o)
    BY <2>11 DEF FencedWrite
  <2>12. CASE AssertFails(o)
    BY <2>12 DEF AssertFails, Lost
  <2>13. CASE BeginOperation(o)
    BY <2>13 DEF BeginOperation
  <2>14. CASE EndOperation(o)
    BY <2>14 DEF EndOperation
  <2>15. CASE BeginClose(o)
    BY <2>15 DEF BeginClose
  <2>16. CASE Close(o)
    BY <2>16 DEF Close
  <2>17. CASE Crash(o)
    BY <2>17 DEF Crash
  <2> QED
    BY <1>2, <2>1, <2>2, <2>3, <2>4, <2>5, <2>6, <2>7, <2>8, <2>9,
       <2>10, <2>11, <2>12, <2>13, <2>14, <2>15, <2>16, <2>17 DEF OwnerStep
<1>3. CASE UNCHANGED vars
  BY <1>3 DEF vars
<1> QED
  BY <1>1, <1>2, <1>3 DEF Next

\* Every reachable state of the lease protocol is well typed, for any number of
\* acquisitions, any TTL and any clock (leases.py, whole module).
THEOREM TypeCorrect == Spec => []TypeOK
<1>1. TypeOK /\ [Next]_vars => TypeOK'
  BY NextTypeOK
<1> QED
  BY InitTypeOK, <1>1, PTL DEF Spec

-----------------------------------------------------------------------------
(* The inductive invariant.                                                *)

\* An owner without a granted lease has left no trace outside its own variables.
FreshOwner(o) ==
    stage[o] \in {"idle", "sampled", "waiting", "unavailable"} =>
        /\ row.owner # o
        /\ handle[o].token = 0

\* A handle is only in use while the lease is held.
InUse(o) == heartbeat[o] # "stopped" \/ operation[o] => stage[o] = "held"

\* A fencing token that was handed out never exceeds the row's, and the row's
\* current token names a single owner.
TokenNamesOwner(o) ==
    /\ handle[o].token <= row.token
    /\ stage[o] = "held" => handle[o].token # 0
    /\ handle[o].token # 0 /\ handle[o].token = row.token => row.owner = o

\* What was read from the clock lies in the past, and a handle's expiry is one
\* TTL after a clock value that is no later than the owner's latest reading.
Timing(o) ==
    /\ now[o] <= clock
    /\ stage[o] = "held" => handle[o].expires <= now[o] + TTL
    /\ heartbeat[o] = "committed" /\ RowIsMine(o) => row.expires = now[o] + TTL

\* The expiry a held handle knows, or is about to learn, is backed by the row.
Backed(o) ==
    /\ stage[o] = "held" /\ RowIsMine(o) => handle[o].expires <= row.expires
    /\ stage[o] = "held" /\ clock < handle[o].expires => RowIsMine(o)
    /\ heartbeat[o] = "committed" /\ clock < now[o] + TTL => RowIsMine(o)

LeaseInv ==
    /\ TypeOK
    /\ \A o \in Owner :
          FreshOwner(o) /\ InUse(o) /\ TokenNamesOwner(o) /\ Timing(o) /\ Backed(o)
    /\ row.token = 0 => row.owner = NoOwner

LEMMA InitLeaseInv == Init => LeaseInv
BY InitTypeOK, OwnerAssumption
   DEF Init, LeaseInv, FreshOwner, InUse, TokenNamesOwner, Timing, Backed, RowIsMine

LEMMA NextLeaseInv == LeaseInv /\ [Next]_vars => LeaseInv'
<1> SUFFICES ASSUME LeaseInv, [Next]_vars PROVE LeaseInv'
  OBVIOUS
<1>0. TypeOK'
  BY NextTypeOK DEF LeaseInv
<1> USE TTLAssumption, OwnerAssumption, <1>0
    DEF LeaseInv, TypeOK, FreshOwner, InUse, TokenNamesOwner, Timing, Backed, RowIsMine
<1>1. CASE Tick
  BY <1>1 DEF Tick
<1>2. ASSUME NEW o \in Owner, OwnerStep(o) PROVE LeaseInv'
  <2>1. CASE SampleForAcquire(o)
    BY <2>1 DEF SampleForAcquire
  <2>2. CASE Acquire(o)
    BY <2>2 DEF Acquire, Takeable, TakenBy
  <2>3. CASE AcquireRefused(o)
    BY <2>3 DEF AcquireRefused
  <2>4. CASE AcquireFails(o)
    BY <2>4 DEF AcquireFails, Takeable, TakenBy
  <2>5. CASE HeartbeatExpires(o)
    BY <2>5 DEF HeartbeatExpires, Lost
  <2>6. CASE BeginRenew(o)
    BY <2>6 DEF BeginRenew
  <2>7. CASE RenewCommit(o)
    BY <2>7 DEF RenewCommit
  <2>8. CASE RenewRefused(o)
    BY <2>8 DEF RenewRefused, Lost
  <2>9. CASE RenewDone(o)
    BY <2>9 DEF RenewDone
  <2>10. CASE RenewFails(o)
    BY <2>10 DEF RenewFails
  <2>11. CASE FencedWrite(o)
    BY <2>11 DEF FencedWrite
  <2>12. CASE AssertFails(o)
    BY <2>12 DEF AssertFails, Lost
  <2>13. CASE BeginOperation(o)
    BY <2>13 DEF BeginOperation
  <2>14. CASE EndOperation(o)
    BY <2>14 DEF EndOperation
  <2>15. CASE BeginClose(o)
    BY <2>15 DEF BeginClose
  <2>16. CASE Close(o)
    BY <2>16 DEF Close
  <2>17. CASE Crash(o)
    BY <2>17 DEF Crash
  <2> QED
    BY <1>2, <2>1, <2>2, <2>3, <2>4, <2>5, <2>6, <2>7, <2>8, <2>9,
       <2>10, <2>11, <2>12, <2>13, <2>14, <2>15, <2>16, <2>17 DEF OwnerStep
<1>3. CASE UNCHANGED vars
  BY <1>3 DEF vars
<1> QED
  BY <1>1, <1>2, <1>3 DEF Next

LEMMA LeaseInvariant == Spec => []LeaseInv
BY InitLeaseInv, NextLeaseInv, PTL DEF Spec

\* A handle that believes in its lease before its own expiry really owns the row
\* (RuntimeLeaseHandle against the runtime_leases row, leases.py:126-169).
THEOREM LiveHandleOwnsRowAlways == Spec => []LiveHandleOwnsRow
<1>1. LeaseInv => LiveHandleOwnsRow
  BY DEF LeaseInv, Backed, LiveHandleOwnsRow, Live
<1> QED
  BY LeaseInvariant, <1>1, PTL

\* Two operations under run_while_owned overlap only past one holder's expiry
\* (leases.py:76-100).
THEOREM OverlapOnlyPastExpiryAlways == Spec => []OverlapOnlyPastExpiry
<1>1. LeaseInv => OverlapOnlyPastExpiry
  <2> SUFFICES ASSUME LeaseInv, NEW o \in Owner, NEW p \in Owner,
                      o # p, operation[o], operation[p],
                      clock < handle[o].expires, clock < handle[p].expires
               PROVE FALSE
    BY DEF OverlapOnlyPastExpiry, LeaseInv, TypeOK
  <2>1. stage[o] = "held" /\ stage[p] = "held"
    BY DEF LeaseInv, InUse
  <2>2. RowIsMine(o) /\ RowIsMine(p)
    BY <2>1 DEF LeaseInv, Backed
  <2> QED
    BY <2>2 DEF RowIsMine
<1> QED
  BY LeaseInvariant, <1>1, PTL

-----------------------------------------------------------------------------
(* Refinement of FencedResource.                                           *)

LEMMA FencingStep == LeaseInv /\ [Next]_vars => [Fencing!Next]_(Fencing!vars)
<1> SUFFICES ASSUME LeaseInv, [Next]_vars PROVE [Fencing!Next]_(Fencing!vars)
  OBVIOUS
<1> USE DEF Fencing!vars
<1>1. CASE Tick
  BY <1>1 DEF Tick
<1>2. ASSUME NEW o \in Owner, OwnerStep(o) PROVE [Fencing!Next]_(Fencing!vars)
  <2>1. ASSUME row' = TakenBy(o), stage[o] = "sampled", UNCHANGED lastWrite
        PROVE Fencing!Grant(o)
    BY <2>1 DEF Fencing!Grant, TakenBy, LeaseInv, FreshOwner
  <2>2. CASE Acquire(o) \/ AcquireFails(o)
    BY <2>1, <2>2 DEF Acquire, AcquireFails, Fencing!Next
  <2>3. CASE FencedWrite(o)
    BY <2>3 DEF FencedWrite, Owned, RowIsMine, Fencing!Next, Fencing!Write
  <2>4. CASE RenewCommit(o) \/ Close(o)
    BY <2>4 DEF RenewCommit, Close, LeaseInv, TypeOK
  <2>5. CASE \/ SampleForAcquire(o) \/ AcquireRefused(o) \/ HeartbeatExpires(o)
             \/ BeginRenew(o) \/ RenewRefused(o) \/ RenewDone(o) \/ RenewFails(o)
    BY <2>5 DEF SampleForAcquire, AcquireRefused, HeartbeatExpires, BeginRenew,
                RenewRefused, RenewDone, RenewFails
  <2>6. CASE \/ AssertFails(o) \/ BeginOperation(o) \/ EndOperation(o)
             \/ BeginClose(o) \/ Crash(o)
    BY <2>6 DEF AssertFails, BeginOperation, EndOperation, BeginClose, Crash
  <2> QED
    BY <1>2, <2>2, <2>3, <2>4, <2>5, <2>6 DEF OwnerStep
<1>3. CASE UNCHANGED vars
  BY <1>3 DEF vars
<1> QED
  BY <1>1, <1>2, <1>3 DEF Next

\* The lease protocol implements the fenced resource: every change of owner opens
\* the next epoch, and transactions under assert_owned(lock=True) commit only in
\* the current one (leases.py:50-74, 217-257).
THEOREM LeaseImplementsFencedResource == Spec => ImplementsFencedResource
<1>1. Init => Fencing!Init
  BY DEF Init, NoWrite, Fencing!Init, Fencing!NoWrite
<1> QED
  BY <1>1, FencingStep, LeaseInvariant, PTL DEF Spec, ImplementsFencedResource, Fencing!Spec
-----------------------------------------------------------------------------
(* What the fenced resource promises, and so the lease.                    *)

\* The latest write belongs to the current epoch's holder or to a closed epoch.
WriteInv ==
    /\ row.token \in Nat
    /\ lastWrite.epoch \in Nat
    /\ lastWrite = [owner |-> lastWrite.owner, epoch |-> lastWrite.epoch]
    /\ lastWrite.epoch <= row.token
    /\ lastWrite.epoch = row.token => lastWrite.owner = row.owner

LEMMA WriteInvariant == Fencing!Spec => []WriteInv
<1>1. Fencing!Init => WriteInv
  BY DEF Fencing!Init, Fencing!NoWrite, WriteInv
<1>2. WriteInv /\ [Fencing!Next]_(Fencing!vars) => WriteInv'
  BY DEF WriteInv, Fencing!Next, Fencing!Grant, Fencing!Write, Fencing!vars
<1> QED
  BY <1>1, <1>2, PTL DEF Fencing!Spec

\* Protected writes come in epoch order and each epoch has one writer (what the
\* fencing token of the runtime_leases row is for).
THEOREM WritesAreOrdered == Spec => Fencing!WritesInEpochOrder
<1>1. WriteInv /\ [Fencing!Next]_(Fencing!vars) =>
         [ /\ lastWrite'.epoch >= lastWrite.epoch
           /\ lastWrite'.epoch = lastWrite.epoch => lastWrite' = lastWrite ]_(Fencing!vars)
  BY DEF WriteInv, Fencing!Next, Fencing!Grant, Fencing!Write, Fencing!vars
<1>2. Fencing!Spec => Fencing!WritesInEpochOrder
  BY WriteInvariant, <1>1, PTL DEF Fencing!Spec, Fencing!WritesInEpochOrder
<1> QED
  BY LeaseImplementsFencedResource, <1>2, PTL DEF ImplementsFencedResource

=============================================================================
