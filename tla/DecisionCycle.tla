---------------------------- MODULE DecisionCycle ----------------------------
(***************************************************************************)
(* One skill, decided and acted upon over and over by a device that nobody *)
(* disturbs: sync_state.py and sync_plan.py give the verdict, sync_apply.py*)
(* carries it out and records the new base.  Every combination of base,    *)
(* local and remote version, override, lifecycle state, switches and       *)
(* policy is an initial state.                                             *)
(***************************************************************************)
EXTENDS SyncDecision

VARIABLES
    skill,    \* what base record, local root and central say of the skill
    config,   \* the switches and the policy the device runs under
    verdict   \* the plan action, once decided

decisionVars == <<skill, config, verdict>>

Undecided == "undecided"

Skill == [base: Content, local: Content, remote: Content,
          deprecated: BOOLEAN, override: SUBSET OverrideFlags]
Config == [allowNew: BOOLEAN, allowDelete: BOOLEAN, policy: Policies]

DecisionTypeOK ==
    /\ skill \in Skill
    /\ config \in Config
    /\ verdict \in Actions \cup {Undecided}

\* At least one of the three knows the skill, and only central's entry can
\* carry a lifecycle state.
Known(k) == ~ (k.base = Absent /\ k.local = Absent /\ k.remote = Absent)

DecisionInit ==
    /\ skill \in {k \in Skill : Known(k) /\ (k.deprecated => k.remote # Absent)}
    /\ config \in Config
    /\ verdict = Undecided

Decision(k, c) ==
    ApplyWriterPolicy(
        PlanItem(ClassifyWithOverride(k.base, k.local, k.remote,
                                      k.deprecated, k.override),
                 c.allowNew, c.allowDelete),
        c.policy)

Decide ==
    /\ verdict = Undecided
    /\ verdict' = Decision(skill, config)
    /\ UNCHANGED <<skill, config>>

\* Both directions end with the two sides and the base record on one version.
\* mutant: the other side is never written
AgreedWithOneself(k, version) == [k EXCEPT !.base = version, !.local = version]

Agreed(k, version) ==
    [k EXCEPT !.base = version, !.local = version, !.remote = version]

Pull ==
    /\ verdict \in PULL_ACTIONS
    /\ skill' = Agreed(skill, skill.remote)
    /\ verdict' = Undecided
    /\ UNCHANGED config

Push ==
    /\ verdict \in PUSH_ACTIONS
    /\ skill' = Agreed(skill, skill.local)
    /\ verdict' = Undecided
    /\ UNCHANGED config

\* Nothing to do, or a verdict nothing executes.
Leave ==
    /\ verdict \in {"noop", "blocked"} \cup DELETE_PLAN_ACTIONS
    /\ verdict' = Undecided
    /\ UNCHANGED <<skill, config>>

DecisionNext == Decide \/ Pull \/ Push \/ Leave

DecisionSpec == DecisionInit /\ [][DecisionNext]_decisionVars

-----------------------------------------------------------------------------
\* What a cycle overwrites on either side is the version both once agreed on,
\* or nothing: the newer of two edits is never lost to the other.
NothingLost ==
    [][/\ skill'.local # skill.local => skill.local \in {skill.base, Absent}
       /\ skill'.remote # skill.remote => skill.remote \in {skill.base, Absent}]_decisionVars

\* A cycle never deletes: a version both sides could still read stays on the
\* side that had it (sync_cycle.py:20, 52-56).
NeverDeletes ==
    [][/\ skill.local # Absent => skill'.local # Absent
       /\ skill.remote # Absent => skill'.remote # Absent]_decisionVars

\* Once a cycle has acted on a skill the next one finds nothing to do.
Settles ==
    [][(verdict \in PULL_ACTIONS \cup PUSH_ACTIONS)
         => Decision(skill', config) = "noop"]_decisionVars

\* A difference between the two sides is never passed over in silence: it is
\* acted upon or blocked, unless central deprecated the skill or the device
\* declared the difference in its overrides file.
NoSilentDivergence ==
    verdict = "noop" /\ skill.local # skill.remote =>
       \/ skill.deprecated
       \/ "local_only" \in skill.override /\ skill.remote = Absent
       \/ /\ skill.override # {}
          /\ skill.local # Absent
          /\ skill.remote # Absent
          /\ Projected(skill.local, skill.override)
               = Projected(skill.remote, skill.override)

\* An override only ever takes an action away (operations.md:401-420).
OverrideNeverWidens ==
    verdict \in Actions \ {"noop"}
       => verdict = Decision([skill EXCEPT !.override = {}], config)

\* Local and remote are treated alike: exchanging them exchanges pull and push.
Mirror(status) ==
    CASE status = "pull" -> "push"
      [] status = "push" -> "pull"
      [] status = "remote_new" -> "local_new"
      [] status = "local_new" -> "remote_new"
      [] status = "remote_deleted" -> "local_deleted"
      [] status = "local_deleted" -> "remote_deleted"
      [] OTHER -> status

PeersAreEqual ==
    Classify(skill.base, skill.local, skill.remote, FALSE)
       = Mirror(Classify(skill.base, skill.remote, skill.local, FALSE))
=============================================================================
