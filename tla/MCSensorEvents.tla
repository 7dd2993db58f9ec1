--------------------------- MODULE MCSensorEvents ---------------------------
(* A small instance of SensorEvents for TLC. *)
EXTENDS SensorEvents

CONSTANTS zeek, low

\* The first event may be of no interest.
Watched == [e \in Event |-> IF e[2] = 1 THEN {low, Nothing} ELSE {low}]
Once == [r \in Rule |-> 1]
TwoOfZeek == [c \in Chain |-> IF c = zeek THEN 2 ELSE 0]
=============================================================================
