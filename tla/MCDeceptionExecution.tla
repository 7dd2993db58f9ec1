----------------------- MODULE MCDeceptionExecution -----------------------
(* Small instances of DeceptionExecution for TLC. *)
EXTENDS DeceptionExecution

CONSTANTS c1, e1, s1, n1, n2, op1

OneRevision == 1..1
TwoRevisions == 1..2

=============================================================================
