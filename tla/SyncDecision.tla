---------------------------- MODULE SyncDecision ----------------------------
(***************************************************************************)
(* The three-way decision every synchronisation starts from, as pure       *)
(* operators: sync_state.py compares, per skill, the content hash of the   *)
(* last applied base, of the local root and of the cached central          *)
(* snapshot; sync_plan.py turns the resulting status into a plan action    *)
(* under the daemon's switches and its writer policy.                      *)
(***************************************************************************)
CONSTANTS
    Versions,   \* the content hashes a skill can have
    Absent,     \* no record of the skill (Python's None)
    Shared      \* Shared[v]: hash of version v without the ignored paths

ASSUME AbsentAssumption == Absent \notin Versions
ASSUME SharedAssumption == Shared \in [Versions -> Versions]

Content == Versions \cup {Absent}

Statuses ==
    {"central_deprecated", "local_only", "local_override", "remote_new",
     "local_new", "same_without_base", "conflict", "unchanged",
     "already_converged", "remote_deleted", "pull", "local_deleted", "push",
     "deleted_both"}

Actions ==
    {"noop", "pull", "pull_new", "push", "push_new", "delete_local",
     "deprecate_remote", "blocked"}

PULL_ACTIONS == {"pull", "pull_new"}
PUSH_ACTIONS == {"push", "push_new"}

\* mutant: a planned deletion does not stop the cycle
NoPlanActions == {}
DELETE_PLAN_ACTIONS == {"delete_local", "deprecate_remote"}

Policies == {"push-pull", "pull-only", "push-only", "no-writes"}

POLICY_ALLOWED_ACTIONS ==
    [policy \in Policies |->
        CASE policy = "push-pull" -> Actions
          [] policy = "pull-only" -> {"noop", "blocked"} \cup PULL_ACTIONS
          [] policy = "push-only" -> {"noop", "blocked"} \cup PUSH_ACTIONS
          [] policy = "no-writes" -> {"noop", "blocked"}]

\* What the overrides file of a device may say of a skill.
OverrideFlags == {"local_only", "ignore_paths"}

-----------------------------------------------------------------------------
\* Status of one skill.  The code walks the union of the three key sets, so a
\* skill nobody holds never reaches it; here it gets a status that plans to a
\* noop.  A skill that both sides dropped is caught by the branch for equal
\* sides: the code's last branch but one, deleted_both, is never taken.

\* mutant: without a base the remote version wins
ClassifyWithoutBaseRemoteWins(local, remote) ==
    IF local = remote THEN "same_without_base"
    ELSE IF remote = Absent THEN "local_new"
    ELSE "remote_new"

\* mutant: two versions without a base pass for the same
ClassifyWithoutBaseNeverConflicts(local, remote) ==
    IF local = Absent /\ remote # Absent THEN "remote_new"
    ELSE IF local # Absent /\ remote = Absent THEN "local_new"
    ELSE "same_without_base"

ClassifyWithoutBase(local, remote) ==
    IF local = remote THEN "same_without_base"
    ELSE IF local = Absent THEN "remote_new"
    ELSE IF remote = Absent THEN "local_new"
    ELSE "conflict"

\* mutant: a remote change is pulled whether or not the local side changed
ClassifyWithBaseRemoteWins(base, local, remote) ==
    IF local = base /\ remote = base THEN "unchanged"
    ELSE IF local = remote THEN "already_converged"
    ELSE IF remote = Absent THEN "remote_deleted"
    ELSE IF remote # base THEN "pull"
    ELSE IF local = Absent THEN "local_deleted" ELSE "push"

\* mutant: the remote side's absence is taken for a change of content
ClassifyWithBaseNoRemoteDeleted(base, local, remote) ==
    IF local = base /\ remote = base THEN "unchanged"
    ELSE IF local = remote THEN "already_converged"
    ELSE IF local = base THEN "pull"
    ELSE IF remote = base
         THEN IF local = Absent THEN "local_deleted" ELSE "push"
    ELSE "conflict"

ClassifyWithBase(base, local, remote) ==
    IF local = base /\ remote = base THEN "unchanged"
    ELSE IF local = remote THEN "already_converged"
    ELSE IF local = base
         THEN IF remote = Absent THEN "remote_deleted" ELSE "pull"
    ELSE IF remote = base
         THEN IF local = Absent THEN "local_deleted" ELSE "push"
    ELSE "conflict"

\* mutant: the lifecycle state is ignored
ClassifyIgnoringLifecycle(base, local, remote, deprecated) ==
    IF base = Absent THEN ClassifyWithoutBase(local, remote)
    ELSE ClassifyWithBase(base, local, remote)

Classify(base, local, remote, deprecated) ==
    IF deprecated /\ remote # Absent THEN "central_deprecated"
    ELSE IF base = Absent THEN ClassifyWithoutBase(local, remote)
    ELSE ClassifyWithBase(base, local, remote)

\* What is left of a version once the override's ignored paths are dropped.
Projected(version, override) ==
    IF "ignore_paths" \in override THEN Shared[version] ELSE version

\* mutant: the device that declares an override publishes its copy
ClassifyOverrideWins(base, local, remote, deprecated, override) ==
    IF override # {} /\ local # Absent /\ local # remote THEN "push"
    ELSE Classify(base, local, remote, deprecated)

ClassifyWithOverride(base, local, remote, deprecated, override) ==
    LET status == Classify(base, local, remote, deprecated) IN
    IF "local_only" \in override /\ local # Absent /\ remote = Absent
    THEN "local_only"
    ELSE IF /\ override # {}
            /\ status \in {"push", "conflict", "same_without_base"}
            /\ local # Absent
            /\ remote # Absent
            /\ Projected(local, override) = Projected(remote, override)
    THEN "local_override"
    ELSE status

-----------------------------------------------------------------------------
\* The plan action of a status.  An action is refused exactly when it is
\* "blocked"; deletions are planned under allowDelete but nothing executes them.

PlanItem(status, allowNew, allowDelete) ==
    CASE status \in {"pull", "push"} -> status
      [] status = "remote_new" /\ allowNew -> "pull_new"
      [] status = "local_new" /\ allowNew -> "push_new"
      [] status = "remote_deleted" /\ allowDelete -> "delete_local"
      [] status = "local_deleted" /\ allowDelete -> "deprecate_remote"
      [] status \in {"local_only", "local_override", "unchanged",
                     "already_converged", "central_deprecated",
                     "deleted_both", "same_without_base"} -> "noop"
      [] OTHER -> "blocked"

\* mutant: a refused action gets a name no caller knows
ApplyWriterPolicyRefuses(action, policy) ==
    IF action \in POLICY_ALLOWED_ACTIONS[policy] THEN action ELSE "refused"

ApplyWriterPolicy(action, policy) ==
    IF action \in POLICY_ALLOWED_ACTIONS[policy] THEN action ELSE "blocked"
=============================================================================
