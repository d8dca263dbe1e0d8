----------------------------- MODULE MCSkillSync -----------------------------
(* Small worlds for SkillSync: the devices, what they and central start      *)
(* with, and the phases in which users edit.                                 *)
EXTENDS SyncWatch

CONSTANTS a, b, s1, t1, v0, v1, v2

MCSharedNone == [v \in Versions |-> v]
\* v0 and v1 differ only in ignored files.
MCSharedPair == [v \in Versions |-> IF v = v1 THEN v0 ELSE v]

BothWrite == [d \in Devices |-> "push-pull"]
AReadsB == [d \in Devices |-> IF d = a THEN "push-pull" ELSE "pull-only"]
NoFlags == [d \in Devices |-> [k \in Skills |-> {}]]
TIsPrivate == [d \in Devices |-> [k \in Skills |->
                 IF k = t1 THEN {"local_only"} ELSE {}]]
BOverridesS == [d \in Devices |-> [k \in Skills |->
                  IF d = b /\ k = s1 THEN {"ignore_paths"} ELSE {}]]
AllFit == [d \in Devices |-> {}]
TUnfitForB == [d \in Devices |-> IF d = b THEN {t1} ELSE {}]

AllV0 == [k \in Skills |-> v0]
OnlyS == [k \in Skills |-> IF k = s1 THEN v0 ELSE Absent]
EveryoneHasAllV0 == [d \in Devices |-> AllV0]
EveryoneHasS == [d \in Devices |-> OnlyS]
TOnAOnly == [d \in Devices |-> IF d = a THEN AllV0 ELSE OnlyS]

AnyPhase == Phases
WhileQuiet == QuietPhases
WhileIdle == {"idle"}
=============================================================================
