----------------------- MODULE MCDetectionDeployment -----------------------
(* Small instances of DetectionDeployment for TLC. *)
EXTENDS DetectionDeployment

CONSTANTS r1, r2, s1, s2

\* One rule is for every sensor, the other for one of them.
GlobalAndLocal == [r \in Rule |-> IF r = r1 THEN Sensor ELSE {s1}]

=============================================================================
