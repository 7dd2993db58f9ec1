---------------------------- MODULE RuntimeLease ----------------------------
(***************************************************************************)
(* service/runtime/leases.py: the leases that the background runtimes     *)
(* (sandbox jobs, deception executions, detection deployment, knowledge    *)
(* publication) hold while they work.                                      *)
(*                                                                         *)
(* One lease row in PostgreSQL, any number of acquisitions.  An owner is   *)
(* the uuid drawn by one call of acquire_runtime_lease, so a process that  *)
(* acquires again, or restarts, is another owner.  A transaction on the    *)
(* row runs under SELECT ... FOR UPDATE and is one step; the wall clock is *)
(* read before the transaction of _try_acquire and _renew begins, in a     *)
(* step of its own.                                                        *)
(***************************************************************************)
EXTENDS Naturals

CONSTANTS
    Owner,      \* acquisitions
    NoOwner,    \* owner of a row that was never written
    TTL,        \* ttl_seconds
    MaxClock    \* bound on the wall clock, for TLC

ASSUME OwnerAssumption == NoOwner \notin Owner
ASSUME TTLAssumption == TTL \in Nat \ {0}
ASSUME ClockAssumption == MaxClock \in Nat

VARIABLES
    clock,      \* utc_now()
    row,        \* the RuntimeLease row; token 0: no row yet
    stage,      \* per owner: where acquire_runtime_lease / runtime_lease is
    now,        \* per owner: the clock value read before a transaction
    handle,     \* per owner: RuntimeLeaseHandle (token, expires, lost)
    heartbeat,  \* per owner: where _heartbeat is
    operation,  \* per owner: an operation under run_while_owned is running
    lastWrite   \* history: the latest write under assert_owned(lock=True)

vars == <<clock, row, stage, now, handle, heartbeat, operation, lastWrite>>

Stage == {"idle", "sampled", "waiting", "unavailable", "held", "closing",
          "closed", "failed"}
Heartbeat == {"asleep", "renewing", "committed", "stopped"}

NoWrite == [owner |-> NoOwner, epoch |-> 0]

TypeOK ==
    /\ clock \in Nat
    /\ row \in [owner : Owner \cup {NoOwner}, token : Nat, expires : Nat]
    /\ stage \in [Owner -> Stage]
    /\ now \in [Owner -> Nat]
    /\ handle \in [Owner -> [token : Nat, expires : Nat, lost : BOOLEAN]]
    /\ heartbeat \in [Owner -> Heartbeat]
    /\ operation \in [Owner -> BOOLEAN]
    /\ lastWrite \in [owner : Owner \cup {NoOwner}, epoch : Nat]

Init ==
    /\ clock = 0
    /\ row = [owner |-> NoOwner, token |-> 0, expires |-> 0]
    /\ stage = [o \in Owner |-> "idle"]
    /\ now = [o \in Owner |-> 0]
    /\ handle = [o \in Owner |-> [token |-> 0, expires |-> 0, lost |-> FALSE]]
    /\ heartbeat = [o \in Owner |-> "stopped"]
    /\ operation = [o \in Owner |-> FALSE]
    /\ lastWrite = NoWrite

-----------------------------------------------------------------------------
(* Acquisition: _try_acquire in the retry loop of acquire_runtime_lease.   *)

\* now = utc_now(), read before the session is opened.
SampleForAcquire(o) ==
    /\ stage[o] \in {"idle", "waiting"}
    /\ stage' = [stage EXCEPT ![o] = "sampled"]
    /\ now' = [now EXCEPT ![o] = clock]
    /\ UNCHANGED <<clock, row, handle, heartbeat, operation, lastWrite>>

\* Mutant: the expiry of the row is not looked at.
TakeableAlways(o) == row.token = 0 \/ row.owner # o

\* Free to take: no row yet, or another owner's row that had expired when the
\* clock was read.
Takeable(o) == row.token = 0 \/ row.expires <= now[o]

\* Mutant: a takeover keeps the token.
TakenWithSameToken(o) ==
    [owner |-> o, token |-> IF row.token = 0 THEN 1 ELSE row.token, expires |-> now[o] + TTL]

\* INSERT ... ON CONFLICT DO NOTHING writes token 1, a takeover the next token.
TakenBy(o) == [owner |-> o, token |-> row.token + 1, expires |-> now[o] + TTL]

\* The transaction commits and the handle starts its heartbeat.
Acquire(o) ==
    /\ stage[o] = "sampled"
    /\ Takeable(o)
    /\ row' = TakenBy(o)
    /\ handle' = [handle EXCEPT ![o] = [token |-> row.token + 1,
                                        expires |-> now[o] + TTL,
                                        lost |-> FALSE]]
    /\ stage' = [stage EXCEPT ![o] = "held"]
    /\ heartbeat' = [heartbeat EXCEPT ![o] = "asleep"]
    /\ UNCHANGED <<clock, now, operation, lastWrite>>

\* Another owner's lease is unexpired: sleep and retry, or give up when the
\* caller's deadline has passed (RuntimeLeaseUnavailable).
AcquireRefused(o) ==
    /\ stage[o] = "sampled"
    /\ ~Takeable(o)
    /\ \E s \in {"waiting", "unavailable"} : stage' = [stage EXCEPT ![o] = s]
    /\ UNCHANGED <<clock, row, now, handle, heartbeat, operation, lastWrite>>

\* The database fails the call: the exception leaves acquire_runtime_lease, and
\* whether the transaction had committed is unknown.
AcquireFails(o) ==
    /\ stage[o] = "sampled"
    /\ stage' = [stage EXCEPT ![o] = "failed"]
    /\ \/ UNCHANGED row
       \/ Takeable(o) /\ row' = TakenBy(o)
    /\ UNCHANGED <<clock, now, handle, heartbeat, operation, lastWrite>>

-----------------------------------------------------------------------------
(* Heartbeat.                                                              *)

Lost(o) == [handle EXCEPT ![o].lost = TRUE]

RowIsMine(o) == row.owner = o /\ row.token = handle[o].token

\* The loop finds that the local expiry has passed and gives the lease up.
HeartbeatExpires(o) ==
    /\ heartbeat[o] = "asleep"
    /\ handle[o].expires <= clock
    /\ handle' = Lost(o)
    /\ heartbeat' = [heartbeat EXCEPT ![o] = "stopped"]
    /\ UNCHANGED <<clock, row, stage, now, operation, lastWrite>>

\* _renew starts: now = utc_now(), before the transaction.
BeginRenew(o) ==
    /\ heartbeat[o] = "asleep"
    /\ clock < handle[o].expires
    /\ heartbeat' = [heartbeat EXCEPT ![o] = "renewing"]
    /\ now' = [now EXCEPT ![o] = clock]
    /\ UNCHANGED <<clock, row, stage, handle, operation, lastWrite>>

\* The renewal is judged by the clock value read before the row was locked.
RenewCommit(o) ==
    /\ heartbeat[o] = "renewing"
    /\ RowIsMine(o)
    /\ now[o] < row.expires
    /\ row' = [row EXCEPT !.expires = now[o] + TTL]
    /\ heartbeat' = [heartbeat EXCEPT ![o] = "committed"]
    /\ UNCHANGED <<clock, stage, now, handle, operation, lastWrite>>

RenewRefused(o) ==
    /\ heartbeat[o] = "renewing"
    /\ ~RowIsMine(o) \/ row.expires <= now[o]
    /\ handle' = Lost(o)
    /\ heartbeat' = [heartbeat EXCEPT ![o] = "stopped"]
    /\ UNCHANGED <<clock, row, stage, now, operation, lastWrite>>

\* Mutant: the handle counts its expiry from the commit, not from the clock value
\* that the row was extended by.
RenewDoneLate(o) ==
    /\ heartbeat[o] = "committed"
    /\ handle' = [handle EXCEPT ![o].expires = clock + TTL]
    /\ heartbeat' = [heartbeat EXCEPT ![o] = "asleep"]
    /\ UNCHANGED <<clock, row, stage, now, operation, lastWrite>>

\* The handle learns its new expiry only after the commit.
RenewDone(o) ==
    /\ heartbeat[o] = "committed"
    /\ handle' = [handle EXCEPT ![o].expires = now[o] + TTL]
    /\ heartbeat' = [heartbeat EXCEPT ![o] = "asleep"]
    /\ UNCHANGED <<clock, row, stage, now, operation, lastWrite>>

\* The renewal times out or the connection breaks, before or after the commit:
\* the handle keeps its old expiry and the loop tries again.
RenewFails(o) ==
    /\ heartbeat[o] \in {"renewing", "committed"}
    /\ heartbeat' = [heartbeat EXCEPT ![o] = "asleep"]
    /\ UNCHANGED <<clock, row, stage, now, handle, operation, lastWrite>>

-----------------------------------------------------------------------------
(* Use of the lease.                                                       *)

\* The test of assert_owned, which reads the clock after the row.
Owned(o) == ~handle[o].lost /\ RowIsMine(o) /\ clock < row.expires

\* assert_owned(session, lock=True) and the rest of its transaction: the lease
\* row stays locked until the protected rows are committed.
FencedWrite(o) ==
    /\ stage[o] = "held"
    /\ Owned(o)
    /\ lastWrite' = [owner |-> o, epoch |-> handle[o].token]
    /\ UNCHANGED <<clock, row, stage, now, handle, heartbeat, operation>>

\* Any assert_owned that fails marks the handle lost and raises.
AssertFails(o) ==
    /\ stage[o] = "held"
    /\ ~Owned(o)
    /\ handle' = Lost(o)
    /\ UNCHANGED <<clock, row, stage, now, heartbeat, operation, lastWrite>>

\* run_while_owned: an unlocked assert_owned, then the operation starts.
BeginOperation(o) ==
    /\ stage[o] = "held"
    /\ ~operation[o]
    /\ Owned(o)
    /\ operation' = [operation EXCEPT ![o] = TRUE]
    /\ UNCHANGED <<clock, row, stage, now, handle, heartbeat, lastWrite>>

\* The operation returns, or is cancelled because the lost event was set.
EndOperation(o) ==
    /\ operation[o]
    /\ operation' = [operation EXCEPT ![o] = FALSE]
    /\ UNCHANGED <<clock, row, stage, now, handle, heartbeat, lastWrite>>

\* close(): the heartbeat is cancelled and awaited before the row is touched.
BeginClose(o) ==
    /\ stage[o] = "held"
    /\ ~operation[o]
    /\ stage' = [stage EXCEPT ![o] = "closing"]
    /\ heartbeat' = [heartbeat EXCEPT ![o] = "stopped"]
    /\ UNCHANGED <<clock, row, now, handle, operation, lastWrite>>

\* The row is released if it is still this owner's; a database error is
\* swallowed and leaves the row to expire.
Close(o) ==
    /\ stage[o] = "closing"
    /\ stage' = [stage EXCEPT ![o] = "closed"]
    /\ \/ RowIsMine(o) /\ row' = [row EXCEPT !.expires = clock]
       \/ UNCHANGED row
    /\ UNCHANGED <<clock, now, handle, heartbeat, operation, lastWrite>>

-----------------------------------------------------------------------------
(* The environment.                                                        *)

\* A process stops without closing anything; what it holds stays in the row.
Crash(o) ==
    /\ stage[o] \in {"sampled", "waiting", "held", "closing"}
    /\ stage' = [stage EXCEPT ![o] = "failed"]
    /\ heartbeat' = [heartbeat EXCEPT ![o] = "stopped"]
    /\ operation' = [operation EXCEPT ![o] = FALSE]
    /\ UNCHANGED <<clock, row, now, handle, lastWrite>>

Tick ==
    /\ clock < MaxClock
    /\ clock' = clock + 1
    /\ UNCHANGED <<row, stage, now, handle, heartbeat, operation, lastWrite>>

OwnerStep(o) ==
    \/ SampleForAcquire(o)
    \/ Acquire(o)
    \/ AcquireRefused(o)
    \/ AcquireFails(o)
    \/ HeartbeatExpires(o)
    \/ BeginRenew(o)
    \/ RenewCommit(o)
    \/ RenewRefused(o)
    \/ RenewDone(o)
    \/ RenewFails(o)
    \/ FencedWrite(o)
    \/ AssertFails(o)
    \/ BeginOperation(o)
    \/ EndOperation(o)
    \/ BeginClose(o)
    \/ Close(o)
    \/ Crash(o)

Next == Tick \/ \E o \in Owner : OwnerStep(o)

Spec == Init /\ [][Next]_vars

-----------------------------------------------------------------------------
(* Properties.                                                             *)

\* The handle believes it holds the lease and its local expiry has not passed.
Live(o) ==
    /\ stage[o] = "held"
    /\ ~handle[o].lost
    /\ clock < handle[o].expires

\* A handle that still believes in its lease is right: nobody else has taken the
\* row before the handle's own expiry, whatever the order in which clock reads,
\* commits, acknowledgements and failed renewals of several owners interleave.
LiveHandleOwnsRow ==
    \A o \in Owner : Live(o) => RowIsMine(o) /\ handle[o].expires <= row.expires

\* Operations of two owners under run_while_owned overlap only when one of them
\* runs past its own expiry, in the window before its heartbeat cancels it.
OverlapOnlyPastExpiry ==
    \A o, p \in Owner :
        o # p /\ operation[o] /\ operation[p] =>
            \E q \in {o, p} : handle[q].lost \/ handle[q].expires <= clock

\* The lease implements the fenced resource: tokens grow by one at each change
\* of owner and a deposed owner's protected transactions never commit.
Fencing == INSTANCE FencedResource WITH
    epoch <- row.token, holder <- row.owner, lastWrite <- lastWrite

ImplementsFencedResource == Fencing!Spec

=============================================================================
