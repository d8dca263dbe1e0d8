------------------------ MODULE DecisionCycleProofs ------------------------
(* What a cycle may do to one skill, for any set of versions, any ignored     *)
(* paths and any configuration.                                               *)
EXTENDS DecisionCycle, TLAPS

\* Whatever the inputs, the plan has one of the actions the executors know.
LEMMA DecisionType ==
    ASSUME NEW k \in Skill, NEW c \in Config
    PROVE  Decision(k, c) \in Actions
BY DEF Decision, ApplyWriterPolicy, PlanItem, Actions

\* A pull is decided only over an untouched local copy or over nothing, and
\* only of something that is there.
LEMMA PullIsSafe ==
    ASSUME NEW k \in Skill, NEW c \in Config,
           Decision(k, c) \in PULL_ACTIONS
    PROVE  k.local \in {k.base, Absent} /\ k.remote # Absent
<1>1. ClassifyWithOverride(k.base, k.local, k.remote, k.deprecated, k.override)
         \in {"pull", "remote_new"}
  BY DEF Decision, ApplyWriterPolicy, PlanItem, PULL_ACTIONS
<1>2. Classify(k.base, k.local, k.remote, k.deprecated) \in {"pull", "remote_new"}
  BY <1>1 DEF ClassifyWithOverride
<1> QED
  BY <1>2 DEF Classify, ClassifyWithBase, ClassifyWithoutBase

\* A push is decided only over an untouched central copy or over nothing, and
\* only of something that is there.
LEMMA PushIsSafe ==
    ASSUME NEW k \in Skill, NEW c \in Config,
           Decision(k, c) \in PUSH_ACTIONS
    PROVE  k.remote \in {k.base, Absent} /\ k.local # Absent
<1>1. ClassifyWithOverride(k.base, k.local, k.remote, k.deprecated, k.override)
         \in {"push", "local_new"}
  BY DEF Decision, ApplyWriterPolicy, PlanItem, PUSH_ACTIONS
<1>2. Classify(k.base, k.local, k.remote, k.deprecated) \in {"push", "local_new"}
  BY <1>1 DEF ClassifyWithOverride
<1> QED
  BY <1>2 DEF Classify, ClassifyWithBase, ClassifyWithoutBase

\* Two sides that agree with the base record leave nothing to do.
LEMMA AgreedIsSettled ==
    ASSUME NEW k \in Skill, NEW c \in Config, NEW v \in Versions
    PROVE  Decision(Agreed(k, v), c) = "noop"
<1> DEFINE m == Agreed(k, v)
<1>1. /\ m.base = v /\ m.local = v /\ m.remote = v
      /\ m.deprecated = k.deprecated /\ m.override = k.override
  BY DEF Agreed, Skill
<1>2. v # Absent
  BY AbsentAssumption
<1>3. ClassifyWithOverride(m.base, m.local, m.remote, m.deprecated, m.override)
         \in {"unchanged", "central_deprecated"}
  BY <1>1, <1>2 DEF ClassifyWithOverride, Classify, ClassifyWithBase
<1>4. PlanItem(ClassifyWithOverride(m.base, m.local, m.remote, m.deprecated, m.override),
               c.allowNew, c.allowDelete) = "noop"
  BY <1>3 DEF PlanItem
<1>5. "noop" \in POLICY_ALLOWED_ACTIONS[c.policy]
  BY DEF Config, Policies, POLICY_ALLOWED_ACTIONS, Actions
<1> QED
  BY <1>4, <1>5 DEF Decision, ApplyWriterPolicy

-----------------------------------------------------------------------------
\* A verdict that stands was decided from the skill and the configuration as
\* they are, which is what makes acting on it safe.
Standing == verdict # Undecided => verdict = Decision(skill, config)

IInv == DecisionTypeOK /\ Standing

LEMMA InvInit == DecisionInit => IInv
BY DEF DecisionInit, IInv, DecisionTypeOK, Standing

LEMMA InvNext == IInv /\ [DecisionNext]_decisionVars => IInv'
<1> SUFFICES ASSUME IInv, [DecisionNext]_decisionVars PROVE IInv'
  OBVIOUS
<1> USE DEF IInv
<1>1. CASE Decide
  BY <1>1, DecisionType DEF Decide, DecisionTypeOK, Standing
<1>2. CASE Pull
  <2>1. skill.remote \in Content /\ skill' = Agreed(skill, skill.remote)
    BY <1>2 DEF Pull, DecisionTypeOK, Skill
  <2>2. skill' \in Skill
    BY <2>1 DEF DecisionTypeOK, Skill, Agreed
  <2> QED
    BY <1>2, <2>2 DEF Pull, DecisionTypeOK, Standing
<1>3. CASE Push
  <2>1. skill.local \in Content /\ skill' = Agreed(skill, skill.local)
    BY <1>3 DEF Push, DecisionTypeOK, Skill
  <2>2. skill' \in Skill
    BY <2>1 DEF DecisionTypeOK, Skill, Agreed
  <2> QED
    BY <1>3, <2>2 DEF Push, DecisionTypeOK, Standing
<1>4. CASE Leave
  BY <1>4 DEF Leave, DecisionTypeOK, Standing
<1>5. CASE UNCHANGED decisionVars
  BY <1>5 DEF decisionVars, DecisionTypeOK, Standing
<1> QED
  BY <1>1, <1>2, <1>3, <1>4, <1>5 DEF DecisionNext

LEMMA Invariance == DecisionSpec => []IInv
BY InvInit, InvNext, PTL DEF DecisionSpec

\* Type correctness of the decision cycle.
THEOREM TypeCorrect == DecisionSpec => []DecisionTypeOK
<1>1. IInv => DecisionTypeOK
  BY DEF IInv
<1> QED
  BY Invariance, <1>1, PTL

\* What a step of the cycle does to the two sides of a skill.
LEMMA StepSafety ==
    ASSUME IInv, [DecisionNext]_decisionVars
    PROVE  /\ skill'.local # skill.local => skill.local \in {skill.base, Absent}
           /\ skill'.remote # skill.remote => skill.remote \in {skill.base, Absent}
           /\ skill.local # Absent => skill'.local # Absent
           /\ skill.remote # Absent => skill'.remote # Absent
           /\ verdict \in PULL_ACTIONS \cup PUSH_ACTIONS
                => UNCHANGED decisionVars \/ Decision(skill', config) = "noop"
<1> USE DEF IInv
<1>1. CASE Pull
  <2>1. /\ verdict = Decision(skill, config)
        /\ skill \in Skill /\ config \in Config
    BY <1>1 DEF Pull, PULL_ACTIONS, Undecided, Standing, DecisionTypeOK
  <2>2. skill.local \in {skill.base, Absent} /\ skill.remote # Absent
    BY <1>1, <2>1, PullIsSafe DEF Pull
  <2>3. skill.remote \in Versions
    BY <2>1, <2>2 DEF Skill, Content
  <2>4. skill' = Agreed(skill, skill.remote)
    BY <1>1 DEF Pull
  <2>5. skill'.local = skill.remote /\ skill'.remote = skill.remote
    BY <2>1, <2>4 DEF Agreed, Skill
  <2>6. Decision(skill', config) = "noop"
    BY <2>1, <2>3, <2>4, AgreedIsSettled
  <2> QED
    BY <2>2, <2>5, <2>6
<1>2. CASE Push
  <2>1. /\ verdict = Decision(skill, config)
        /\ skill \in Skill /\ config \in Config
    BY <1>2 DEF Push, PUSH_ACTIONS, Undecided, Standing, DecisionTypeOK
  <2>2. skill.remote \in {skill.base, Absent} /\ skill.local # Absent
    BY <1>2, <2>1, PushIsSafe DEF Push
  <2>3. skill.local \in Versions
    BY <2>1, <2>2 DEF Skill, Content
  <2>4. skill' = Agreed(skill, skill.local)
    BY <1>2 DEF Push
  <2>5. skill'.local = skill.local /\ skill'.remote = skill.local
    BY <2>1, <2>4 DEF Agreed, Skill
  <2>6. Decision(skill', config) = "noop"
    BY <2>1, <2>3, <2>4, AgreedIsSettled
  <2> QED
    BY <2>2, <2>5, <2>6
<1>3. CASE Decide \/ Leave
  <2>1. skill' = skill /\ verdict \notin PULL_ACTIONS \cup PUSH_ACTIONS
    BY <1>3 DEF Decide, Leave, Undecided, PULL_ACTIONS, PUSH_ACTIONS,
                DELETE_PLAN_ACTIONS
  <2> QED
    BY <2>1
<1>4. CASE UNCHANGED decisionVars
  BY <1>4 DEF decisionVars
<1> QED
  BY <1>1, <1>2, <1>3, <1>4 DEF DecisionNext

\* No cycle overwrites a version that is not the common base: of two edits,
\* the one on the other side is never lost.
THEOREM NothingLostEver == DecisionSpec => NothingLost
<1>1. IInv /\ [DecisionNext]_decisionVars
        => [/\ skill'.local # skill.local => skill.local \in {skill.base, Absent}
            /\ skill'.remote # skill.remote => skill.remote \in {skill.base, Absent}]_decisionVars
  BY StepSafety
<1> QED
  BY Invariance, <1>1, PTL DEF DecisionSpec, NothingLost

\* No cycle deletes on either side, not even under --allow-delete.
THEOREM NeverDeletesEver == DecisionSpec => NeverDeletes
<1>1. IInv /\ [DecisionNext]_decisionVars
        => [/\ skill.local # Absent => skill'.local # Absent
            /\ skill.remote # Absent => skill'.remote # Absent]_decisionVars
  BY StepSafety
<1> QED
  BY Invariance, <1>1, PTL DEF DecisionSpec, NeverDeletes

\* A skill a cycle has acted on needs nothing from the next one.
THEOREM SettlesEver == DecisionSpec => Settles
<1>1. IInv /\ [DecisionNext]_decisionVars
        => [(verdict \in PULL_ACTIONS \cup PUSH_ACTIONS)
              => Decision(skill', config) = "noop"]_decisionVars
  BY StepSafety
<1> QED
  BY Invariance, <1>1, PTL DEF DecisionSpec, Settles

\* An override takes actions away and never adds or changes one.
THEOREM OverrideNeverWidensEver == DecisionSpec => []OverrideNeverWidens
<1>1. IInv => OverrideNeverWidens
  <2> SUFFICES ASSUME IInv, verdict \in Actions \ {"noop"}
               PROVE  verdict = Decision([skill EXCEPT !.override = {}], config)
    BY DEF OverrideNeverWidens
  <2> DEFINE bare == [skill EXCEPT !.override = {}]
             status == Classify(skill.base, skill.local, skill.remote, skill.deprecated)
             overridden == ClassifyWithOverride(skill.base, skill.local, skill.remote,
                                                skill.deprecated, skill.override)
  <2>1. verdict = Decision(skill, config) /\ skill \in Skill /\ config \in Config
    BY DEF IInv, Standing, Undecided, Actions, DecisionTypeOK
  <2>2. /\ bare.base = skill.base /\ bare.local = skill.local
        /\ bare.remote = skill.remote /\ bare.deprecated = skill.deprecated
        /\ bare.override = {}
    BY <2>1 DEF Skill
  <2>3. overridden \notin {"local_only", "local_override"}
    <3> SUFFICES ASSUME overridden \in {"local_only", "local_override"}
                 PROVE  FALSE
      OBVIOUS
    <3>1. PlanItem(overridden, config.allowNew, config.allowDelete) = "noop"
      BY DEF PlanItem
    <3>2. "noop" \in POLICY_ALLOWED_ACTIONS[config.policy]
      BY <2>1 DEF Config, Policies, POLICY_ALLOWED_ACTIONS, Actions
    <3> QED
      BY <2>1, <3>1, <3>2 DEF Decision, ApplyWriterPolicy
  <2>4. overridden = status
    BY <2>3 DEF ClassifyWithOverride
  <2>5. ClassifyWithOverride(bare.base, bare.local, bare.remote,
                             bare.deprecated, bare.override) = status
    BY <2>2 DEF ClassifyWithOverride
  <2> QED
    BY <2>1, <2>4, <2>5 DEF Decision
<1> QED
  BY Invariance, <1>1, PTL

\* A difference that stays is one central's lifecycle or the device's own
\* overrides file accounts for.
THEOREM NoSilentDivergenceEver == DecisionSpec => []NoSilentDivergence
<1>1. IInv => NoSilentDivergence
  <2> SUFFICES ASSUME IInv, verdict = "noop", skill.local # skill.remote,
                      ~ skill.deprecated
               PROVE  \/ "local_only" \in skill.override /\ skill.remote = Absent
                      \/ /\ skill.override # {}
                         /\ skill.local # Absent
                         /\ skill.remote # Absent
                         /\ Projected(skill.local, skill.override)
                              = Projected(skill.remote, skill.override)
    BY DEF NoSilentDivergence
  <2> DEFINE status == Classify(skill.base, skill.local, skill.remote, skill.deprecated)
             overridden == ClassifyWithOverride(skill.base, skill.local, skill.remote,
                                                skill.deprecated, skill.override)
  <2>1. Decision(skill, config) = "noop"
    BY DEF IInv, Standing, Undecided
  <2>2. overridden \in {"local_only", "local_override", "unchanged",
                        "already_converged", "central_deprecated",
                        "deleted_both", "same_without_base"}
    BY <2>1 DEF Decision, ApplyWriterPolicy, PlanItem
  <2>3. status \notin {"local_only", "local_override", "unchanged",
                       "already_converged", "central_deprecated",
                       "deleted_both", "same_without_base"}
    BY DEF Classify, ClassifyWithBase, ClassifyWithoutBase
  <2> HIDE DEF status
  <2> QED
    BY <2>2, <2>3 DEF ClassifyWithOverride, status
<1> QED
  BY Invariance, <1>1, PTL

\* Local and remote play the same part in the decision.
THEOREM PeersAreEqualEver == DecisionSpec => []PeersAreEqual
<1>1. IInv => PeersAreEqual
  BY DEF PeersAreEqual, Mirror, Classify, ClassifyWithBase, ClassifyWithoutBase
<1> QED
  BY Invariance, <1>1, PTL
=============================================================================
