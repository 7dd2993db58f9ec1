--------------------------- MODULE FencedResource ---------------------------
(***************************************************************************)
(* What a database-backed lease promises to the code it protects: a row is *)
(* granted to one holder at a time, every grant opens a new epoch (the     *)
(* fencing token), and only the holder of the current epoch writes.        *)
(* RuntimeLease is shown to implement this module.                         *)
(***************************************************************************)
EXTENDS Naturals

CONSTANTS Owner,    \* acquisitions, one uuid each
          NoOwner   \* the holder before the first grant

VARIABLES
    epoch,      \* fencing token of the current grant, 0 before the first one
    holder,     \* the acquisition the current epoch was granted to
    lastWrite   \* the acquisition and epoch of the latest protected write

vars == <<epoch, holder, lastWrite>>

NoWrite == [owner |-> NoOwner, epoch |-> 0]

TypeOK ==
    /\ epoch \in Nat
    /\ holder \in Owner \cup {NoOwner}
    /\ lastWrite \in [owner : Owner \cup {NoOwner}, epoch : Nat]

Init ==
    /\ epoch = 0
    /\ holder = NoOwner
    /\ lastWrite = NoWrite

\* A grant always changes the holder: an acquisition is granted at most once.
Grant(o) ==
    /\ o # holder
    /\ epoch' = epoch + 1
    /\ holder' = o
    /\ UNCHANGED lastWrite

Write(o) ==
    /\ holder = o
    /\ lastWrite' = [owner |-> o, epoch |-> epoch]
    /\ UNCHANGED <<epoch, holder>>

Next == \E o \in Owner : Grant(o) \/ Write(o)

Spec == Init /\ [][Next]_vars

-----------------------------------------------------------------------------

\* Protected writes come in epoch order and an epoch has a single writer, so a
\* deposed holder never overwrites its successor.
WritesInEpochOrder ==
    [][ /\ lastWrite'.epoch >= lastWrite.epoch
        /\ lastWrite'.epoch = lastWrite.epoch => lastWrite' = lastWrite ]_vars

=============================================================================
