------------------------- MODULE DeceptionLifecycle -------------------------
(***************************************************************************)
(* service/deception/lifecycle.py: the decisions that every transaction on *)
(* a deception environment takes from its row.  A lifecycle is a record of *)
(* the row's status, applied and active revision, bound container (Nothing *)
(* when NULL) and whether the container is PLATFORM_MANAGED.               *)
(***************************************************************************)

CONSTANTS
    Rev,        \* revision ids
    Box,        \* container ids
    Nothing     \* NULL

Stable == {"draft", "active", "paused", "retired"}
Transitioning == {"building", "adapting", "recovery_required"}
EnvironmentStatus == Stable \cup Transitioning

Lifecycle == [status : EnvironmentStatus,
              applied : Rev \cup {Nothing}, active : Rev \cup {Nothing},
              box : Box \cup {Nothing}, platform : BOOLEAN]

\* _validate_shape: every operation on a row of another shape raises.
Shape(l) ==
    /\ l.applied # Nothing => l.box # Nothing
    /\ (l.status \in Transitioning) <=> (l.active # Nothing)
    /\ l.applied = Nothing => l.status \notin {"active", "adapting", "paused"}
    /\ l.applied # Nothing => l.status \notin {"draft", "building"}
    /\ ~l.platform => l.box # Nothing
    /\ l.platform /\ l.status = "draft" => l.box = Nothing

\* plan_revision: an initial revision of a draft, an adaptive one of an active row.
CanPlan(l) ==
    /\ Shape(l)
    /\ l.active = Nothing
    /\ IF l.applied = Nothing THEN l.status = "draft"
       ELSE l.status = "active" /\ l.box # Nothing

PlannedKind(l) == IF l.applied = Nothing THEN "initial" ELSE "adaptive"

\* What plan_deception_revision makes of the row.
Planned(l, r) ==
    [l EXCEPT !.status = IF l.applied = Nothing THEN "building" ELSE "adapting", !.active = r]

\* require_active_revision, the revision's own status apart.
IsActive(l, r) == Shape(l) /\ l.active = r

\* _restore_baseline, for reject_revision, fail_unstarted_revision and finish_rollback.
Baseline(l) ==
    [l EXCEPT !.status = IF l.applied = Nothing THEN "draft" ELSE "active", !.active = Nothing]

\* Mutant: only a container with a baseline is let go.
ReleasesAppliedContainer(l) == l.applied # Nothing /\ l.box # Nothing /\ l.platform

\* _restore_baseline: the platform's container of an initial revision is let go.
ReleasesContainer(l) == l.applied = Nothing /\ l.box # Nothing /\ l.platform

\* apply_revision
CanApply(l, r) == IsActive(l, r) /\ l.box # Nothing
Applied(l, r) == [l EXCEPT !.status = "active", !.applied = r, !.active = Nothing]

\* finish_rollback without success
Stuck(l) == [l EXCEPT !.status = "recovery_required"]

\* begin_rollback_recovery, the revision's own status apart.
CanRecover(l, r) == l.status = "recovery_required" /\ IsActive(l, r)

\* restore_interrupted_claim, begin_rollback_recovery and the start of _rollback
Resumed(l) == [l EXCEPT !.status = IF l.applied = Nothing THEN "building" ELSE "adapting"]

\* set_deception_environment_status
Allowed(status) ==
    CASE status = "draft"  -> {"retired"}
      [] status = "active" -> {"paused", "retired"}
      [] status = "paused" -> {"active", "retired"}
      [] OTHER             -> {}

=============================================================================
