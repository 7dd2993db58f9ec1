--------------------------- MODULE MCSandboxJobs ----------------------------
(* Instances of SandboxJobs for TLC.                                       *)
EXTENDS SandboxJobs, TLC

AllFaults == {"overlap", "db_error", "inspect_error", "kill_fails", "late_launch",
              "recancel"}

=============================================================================
