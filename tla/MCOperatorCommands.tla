-------------------------- MODULE MCOperatorCommands --------------------------
(* Small worlds for OperatorCommands: a device that may only pull and whose   *)
(* blocked pushes are approved, and one that pushes by itself.                *)
EXTENDS OperatorCommands

CONSTANTS a, b, s1, t1, v0, v1

BothWrite == [d \in Devices |-> "push-pull"]
AsIs == [v \in Versions |-> v]
AWritesBReads == [d \in Devices |-> IF d = a THEN "push-pull" ELSE "pull-only"]
NoFlags == [d \in Devices |-> [k \in Skills |-> {}]]
AllFit == [d \in Devices |-> {}]

AllV0 == [k \in Skills |-> v0]
OnlyS == [k \in Skills |-> IF k = s1 THEN v0 ELSE Absent]
EveryoneHasS == [d \in Devices |-> OnlyS]
EveryoneHasAllV0 == [d \in Devices |-> AllV0]

AnyPhase == Phases
WhileIdle == {"idle"}

\* Interruptions and failures where the commands are run; what they do to a
\* daemon alone is the subject of SkillSync's own worlds.
FailingHere == faults' # faults => pc'[a] = pc[a]
SpecFailingHere == InitWithCommands /\ [][NextWithCommands /\ FailingHere]_ovars
=============================================================================
