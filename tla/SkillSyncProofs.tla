--------------------------- MODULE SkillSyncProofs ---------------------------
(* Theorems about SkillSync for any devices, skills, versions, policies,      *)
(* initial contents and bounds.                                               *)
EXTENDS SkillSync, TLAPS

\* The decision always plans one of the eight actions for every skill.
LEMMA PlanType ==
    ASSUME NEW d \in Devices
    PROVE  Plan(d) \in [Skills -> Actions]
<1>1. ASSUME NEW s \in Skills
      PROVE  ApplyWriterPolicy(PlanItem(Status(d, s), AllowNew, AllowDelete), Policy[d])
                \in Actions
  BY DEF ApplyWriterPolicy, PlanItem, Actions
<1> QED
  BY <1>1 DEF Plan

LEMMA NoJobType == NoJob \in Job
BY DEF NoJob, Job, Nothing, Hashes, Content, Actions

\* Archives are named by present versions only.
LEMMA ReferencedType ==
    ASSUME NEW hashes \in Hashes
    PROVE  Referenced(hashes) \subseteq Archive
BY DEF Referenced, Archive, Hashes, Content

\* Taking over an index only touches the history mark of the jobs.
LEMMA OvertakenType ==
    ASSUME TypeOK, NEW new
    PROVE  Overtaken(new) \in [Devices -> Job]
<1>1. ASSUME NEW e \in Devices
      PROVE  [job[e] EXCEPT !.raced = TRUE] \in Job
  BY DEF TypeOK, Job
<1> QED
  BY <1>1 DEF TypeOK, Overtaken

LEMMA OvertakenKeeps ==
    ASSUME TypeOK, NEW new, NEW e \in Devices
    PROVE  LET k == Overtaken(new)[e] IN
           /\ k.plan = job[e].plan /\ k.done = job[e].done /\ k.item = job[e].item
           /\ k.had = job[e].had /\ k.snap = job[e].snap
<1>1. job[e] \in Job
  BY DEF TypeOK
<1>2. Overtaken(new)[e] \in {job[e], [job[e] EXCEPT !.raced = TRUE]}
  BY DEF Overtaken
<1> QED
  BY <1>1, <1>2 DEF Job

LEMMA SnapshotIndexType ==
    ASSUME TypeOK, NEW d \in Devices
    PROVE  SnapshotIndex(d) \in Index
<1>1. job[d].snap \in Hashes
  BY DEF TypeOK, Job
<1> QED
  BY <1>1 DEF SnapshotIndex, Index

LEMMA TypeInit == Init => TypeOK
<1> SUFFICES ASSUME Init PROVE TypeOK
  OBVIOUS
<1>1. index \in Index
  BY InitialAssumption DEF Init, Index, Hashes
<1>2. archives \subseteq Archive
  BY ReferencedType, InitialAssumption DEF Init, Hashes
<1>3. base \in [Devices -> Hashes]
  BY InitialAssumption DEF Init, Hashes, Content
<1>4. cache \in [Devices -> Index]
  BY DEF Init, Index, Hashes, Content, Nothing
<1>5. job \in [Devices -> Job]
  BY NoJobType DEF Init
<1>6. pc \in [Devices -> Phases] /\ cached \in [Devices -> SUBSET Archive]
  BY DEF Init, Phases
<1>7. local \in [Devices -> Hashes] /\ dirty \in [Devices -> SUBSET Skills]
  BY InitialAssumption DEF Init, Hashes
<1> QED
  BY <1>1, <1>2, <1>3, <1>4, <1>5, <1>6, <1>7 DEF Init, TypeOK

LEMMA TypeNext == TypeOK /\ Replacing /\ [Next]_vars => TypeOK' /\ Replacing'
<1> SUFFICES ASSUME TypeOK, Replacing, [Next]_vars PROVE TypeOK' /\ Replacing'
  OBVIOUS
<1> USE DEF central, mirror, counters, Replacing
<1>1. ASSUME NEW d \in Devices, FetchIndex(d) PROVE TypeOK' /\ Replacing'
  BY <1>1 DEF FetchIndex, Goto, TypeOK, Phases
<1>2. ASSUME NEW d \in Devices, FetchArchive(d) PROVE TypeOK' /\ Replacing'
  BY <1>2 DEF FetchArchive, TypeOK
<1>3. ASSUME NEW d \in Devices, FetchDangling(d) PROVE TypeOK' /\ Replacing'
  BY <1>3, NoJobType DEF FetchDangling, EndCycle, Goto, TypeOK, Phases
<1>4. ASSUME NEW d \in Devices, GateBlocked(d) PROVE TypeOK' /\ Replacing'
  BY <1>4, NoJobType DEF GateBlocked, EndCycle, Goto, TypeOK, Phases
<1>5. ASSUME NEW d \in Devices, GatePassed(d) PROVE TypeOK' /\ Replacing'
  BY <1>5 DEF GatePassed, Goto, TypeOK, Phases
<1>6. ASSUME NEW d \in Devices, PreviewEnds(d) PROVE TypeOK' /\ Replacing'
  BY <1>6, NoJobType DEF PreviewEnds, EndCycle, Goto, TypeOK, Phases
<1>7. ASSUME NEW d \in Devices, PreviewAccepted(d) PROVE TypeOK' /\ Replacing'
  <2>1. [job[d] EXCEPT !.plan = Plan(d)] \in Job
    <3>1. job[d] \in Job /\ Plan(d) \in [Skills -> Actions]
      BY PlanType DEF TypeOK
    <3> QED
      BY <3>1 DEF Job
  <2>2. job' \in [Devices -> Job]
    BY <1>7, <2>1 DEF PreviewAccepted, TypeOK
  <2>3. pc' \in [Devices -> Phases]
    BY <1>7 DEF PreviewAccepted, Goto, TypeOK, Phases
  <2>4. Replacing'
    BY <1>7 DEF PreviewAccepted, Goto, TypeOK
  <2> QED
    BY <1>7, <2>2, <2>3, <2>4 DEF PreviewAccepted, TypeOK
<1>8. ASSUME NEW d \in Devices, AssertRemote(d) PROVE TypeOK' /\ Replacing'
  BY <1>8, NoJobType DEF AssertRemote, EndCycle, Goto, TypeOK, Phases
<1>9. ASSUME NEW d \in Devices, NEW s \in Skills, RemoveTarget(d, s) PROVE TypeOK' /\ Replacing'
  <2>1. local[d] \in Hashes /\ local[d][s] \in Content
    BY DEF TypeOK, Hashes
  <2>2. [job[d] EXCEPT !.item = s, !.had = local[d][s]] \in Job
    BY <2>1 DEF TypeOK, Job
  <2>3. job' \in [Devices -> Job]
    BY <1>9, <2>2 DEF RemoveTarget, TypeOK
  <2>4. local' \in [Devices -> Hashes]
    BY <1>9 DEF RemoveTarget, TypeOK, Hashes, Content
  <2>5. pc' \in [Devices -> Phases]
    BY <1>9 DEF RemoveTarget, Goto, TypeOK, Phases
  <2>6. job'[d].item = s /\ \A e \in Devices \ {d} : job'[e] = job[e] /\ pc'[e] = pc[e]
    BY <1>9, <2>2 DEF RemoveTarget, Goto, TypeOK, Job
  <2>7. Replacing'
    BY <1>9, <2>6
  <2> QED
    BY <1>9, <2>3, <2>4, <2>5, <2>7 DEF RemoveTarget, TypeOK
<1>10. ASSUME NEW d \in Devices, InstallTarget(d) PROVE TypeOK' /\ Replacing'
  <2> DEFINE s == job[d].item
  <2>1. s \in Skills /\ job[d] \in Job /\ cache[d].hash[s] \in Content
    BY <1>10 DEF InstallTarget, TypeOK, Index, Hashes
  <2>2. [job[d] EXCEPT !.item = NoSkill, !.had = Absent, !.done = @ \cup {s}] \in Job
    BY <2>1 DEF Job, Content
  <2>3. job' \in [Devices -> Job]
    BY <1>10, <2>2 DEF InstallTarget, TypeOK
  <2>4. local' \in [Devices -> Hashes]
    BY <1>10, <2>1 DEF InstallTarget, TypeOK, Hashes
  <2>5. pc' \in [Devices -> Phases] /\ dirty' \in [Devices -> SUBSET Skills]
    BY <1>10 DEF InstallTarget, Goto, TypeOK, Phases
  <2>6. Replacing'
    BY <1>10, <2>1 DEF InstallTarget, Goto, TypeOK
  <2> QED
    BY <1>10, <2>3, <2>4, <2>5, <2>6 DEF InstallTarget, TypeOK
<1>11. ASSUME NEW d \in Devices, InstallFails(d) PROVE TypeOK' /\ Replacing'
  <2> DEFINE s == job[d].item
  <2>1. s \in Skills /\ job[d].had \in Content
    BY <1>11 DEF InstallFails, TypeOK, Job
  <2>2. local' \in [Devices -> Hashes]
    BY <1>11, <2>1 DEF InstallFails, TypeOK, Hashes
  <2>3. pc' \in [Devices -> Phases] /\ job' \in [Devices -> Job] /\ Replacing'
    BY <1>11, NoJobType DEF InstallFails, EndCycle, Goto, TypeOK, Phases
  <2>4. faults' \in Nat
    BY <1>11 DEF InstallFails, TypeOK
  <2> QED
    BY <1>11, <2>2, <2>3, <2>4 DEF InstallFails, TypeOK
<1>12. ASSUME NEW d \in Devices, PullsFinished(d) PROVE TypeOK' /\ Replacing'
  <2>1. [job[d] EXCEPT !.done = {}] \in Job
    BY DEF TypeOK, Job
  <2> QED
    BY <1>12, <2>1 DEF PullsFinished, Goto, TypeOK, Phases
<1>13. ASSUME NEW d \in Devices, ScanLocal(d) PROVE TypeOK' /\ Replacing'
  <2>1. [job[d] EXCEPT !.snap = local[d]] \in Job
    BY DEF TypeOK, Job
  <2> QED
    BY <1>13, <2>1 DEF ScanLocal, Goto, TypeOK, Phases
<1>14. ASSUME NEW d \in Devices, NEW s \in Skills, UploadArchive(d, s)
       PROVE  TypeOK' /\ Replacing'
  <2>1. job[d].snap[s] \in Versions
    BY <1>14 DEF UploadArchive, ToUpload, TypeOK, Job, Hashes, Content
  <2>2. [job[d] EXCEPT !.done = @ \cup {s}] \in Job
    BY DEF TypeOK, Job
  <2>3. job' \in [Devices -> Job] /\ Replacing'
    BY <1>14, <2>2 DEF UploadArchive, TypeOK
  <2>4. archives' \subseteq Archive
    BY <1>14, <2>1 DEF UploadArchive, TypeOK, Archive
  <2> QED
    BY <1>14, <2>3, <2>4 DEF UploadArchive, TypeOK
<1>15. ASSUME NEW d \in Devices, PutIndex(d) PROVE TypeOK' /\ Replacing'
  <2>1. index' \in Index
    BY <1>15, SnapshotIndexType DEF PutIndex, WriteIndex
  <2>2. dirty' \in [Devices -> SUBSET Skills]
    BY <1>15 DEF PutIndex, WriteIndex, TypeOK
  <2>3. job' \in [Devices -> Job]
    BY <1>15, OvertakenType DEF PutIndex, TypeOK
  <2>4. pc' \in [Devices -> Phases]
    BY <1>15 DEF PutIndex, Goto, TypeOK, Phases
  <2>5. Replacing'
    <3> SUFFICES ASSUME NEW e \in Devices, pc'[e] = "replacing"
                 PROVE  job'[e].item \in Skills
      OBVIOUS
    <3>1. e # d /\ pc[e] = "replacing"
      BY <1>15 DEF PutIndex, Goto, TypeOK
    <3>2. job'[e] = Overtaken(SnapshotIndex(d))[e]
      BY <1>15, <3>1 DEF PutIndex, Overtaken
    <3> QED
      BY <3>1, <3>2, OvertakenKeeps
  <2> QED
    BY <1>15, <2>1, <2>2, <2>3, <2>4, <2>5 DEF PutIndex, TypeOK
<1>16. ASSUME NEW d \in Devices, PutIndexUnacknowledged(d) PROVE TypeOK' /\ Replacing'
  <2>1. index' \in Index
    BY <1>16, SnapshotIndexType DEF PutIndexUnacknowledged, WriteIndex
  <2>2. dirty' \in [Devices -> SUBSET Skills]
    BY <1>16 DEF PutIndexUnacknowledged, WriteIndex, TypeOK
  <2>3. job' \in [Devices -> Job]
    BY <1>16, OvertakenType, NoJobType DEF PutIndexUnacknowledged, TypeOK
  <2>4. pc' \in [Devices -> Phases] /\ faults' \in Nat
    BY <1>16 DEF PutIndexUnacknowledged, Goto, TypeOK, Phases
  <2>5. Replacing'
    <3> SUFFICES ASSUME NEW e \in Devices, pc'[e] = "replacing"
                 PROVE  job'[e].item \in Skills
      OBVIOUS
    <3>1. e # d /\ pc[e] = "replacing"
      BY <1>16 DEF PutIndexUnacknowledged, Goto, TypeOK
    <3>2. job'[e] = Overtaken(SnapshotIndex(d))[e]
      BY <1>16, <3>1 DEF PutIndexUnacknowledged, Overtaken
    <3> QED
      BY <3>1, <3>2, OvertakenKeeps
  <2> QED
    BY <1>16, <2>1, <2>2, <2>3, <2>4, <2>5 DEF PutIndexUnacknowledged, TypeOK
<1>17. ASSUME NEW d \in Devices, RecordBase(d) PROVE TypeOK' /\ Replacing'
  <2>1. NewBase(d) \in Hashes
    BY DEF NewBase, TypeOK, Job, Index, Hashes, Content
  <2> QED
    BY <1>17, <2>1, NoJobType DEF RecordBase, EndCycle, Goto, TypeOK, Phases
<1>18. ASSUME NEW d \in Devices, Interrupt(d) PROVE TypeOK' /\ Replacing'
  BY <1>18, NoJobType DEF Interrupt, EndCycle, Goto, TypeOK, Phases
<1>19. ASSUME NEW d \in Devices, Restart(d) PROVE TypeOK' /\ Replacing'
  BY <1>19 DEF Restart, Goto, TypeOK, Phases
<1>20. ASSUME NEW d \in Devices, NEW s \in Skills, NEW content \in Content,
              Edit(d, s, content)
       PROVE  TypeOK' /\ Replacing'
  <2>1. local' \in [Devices -> Hashes]
    BY <1>20 DEF Edit, TypeOK, Hashes
  <2>2. dirty' \in [Devices -> SUBSET Skills] /\ edits' \in Nat
    BY <1>20 DEF Edit, TypeOK
  <2> QED
    BY <1>20, <2>1, <2>2 DEF Edit, TypeOK
<1>21. ASSUME NEW s \in Skills, NEW to \in LifecycleStates, LifecycleCheck(s, to)
       PROVE  TypeOK' /\ Replacing'
  <2>1. lifecycle' \in Operation /\ lifecycles' \in Nat
    BY <1>21 DEF LifecycleCheck, TypeOK, Operation
  <2> QED
    BY <1>21, <2>1 DEF LifecycleCheck, TypeOK
<1>22. ASSUME LifecyclePut PROVE TypeOK' /\ Replacing'
  <2>1. lifecycle \in Operation
    BY <1>22 DEF LifecyclePut, TypeOK
  <2>2. LifecycleIndex \in Index
    BY <2>1 DEF LifecycleIndex, Operation, Index
  <2>3. job' \in [Devices -> Job]
    BY <1>22, OvertakenType DEF LifecyclePut
  <2>4. Replacing'
    BY <1>22, OvertakenKeeps DEF LifecyclePut
  <2> QED
    BY <1>22, <2>2, <2>3, <2>4 DEF LifecyclePut, TypeOK
<1>23. CASE UNCHANGED vars
  BY <1>23 DEF vars, TypeOK
<1> QED
  BY <1>1, <1>2, <1>3, <1>4, <1>5, <1>6, <1>7, <1>8, <1>9, <1>10, <1>11, <1>12,
     <1>13, <1>14, <1>15, <1>16, <1>17, <1>18, <1>19, <1>20, <1>21, <1>22, <1>23
  DEF Next, Daemon, Fault, Environment

LEMMA TypeInvariance == Spec => [](TypeOK /\ Replacing)
<1>1. Init => TypeOK /\ Replacing
  BY TypeInit DEF Init, Replacing
<1> QED
  BY <1>1, TypeNext, PTL DEF Spec

\* Every variable keeps its type, whatever the users edit and the operator
\* deprecates, and wherever a cycle is interrupted.
THEOREM TypeCorrect == Spec => []TypeOK
BY TypeInvariance, PTL

-----------------------------------------------------------------------------
(* What the invariant needs of the world: no edit between plan and end of     *)
(* cycle, no overrides file, no lifecycle operation.                          *)
Calm == Quiet /\ NoOverrides /\ MaxLifecycle = 0

\* A plan that does not halt the cycle leaves no difference unaccounted for, but
\* for skills marked deprecated.
LEMMA AcceptedPlan ==
    ASSUME TypeOK, NEW d \in Devices, Halting(Plan(d)) = {},
           NEW s \in Skills, s \notin cache[d].deprecated, Override[d][s] = {}
    PROVE  \/ local[d][s] = cache[d].hash[s]
           \/ s \in Having(Plan(d), PUSH_ACTIONS)
           \/ /\ s \in Having(Plan(d), PULL_ACTIONS)
              /\ local[d][s] \in {base[d][s], Absent}
<1> DEFINE status == Classify(base[d][s], local[d][s], cache[d].hash[s], FALSE)
           action == PlanItem(status, AllowNew, AllowDelete)
<1>1. Status(d, s) = status
  <2>1. (s \in cache[d].deprecated) = FALSE
    OBVIOUS
  <2> QED
    BY <2>1 DEF Status, ClassifyWithOverride
<1>2. Plan(d)[s] = ApplyWriterPolicy(action, Policy[d])
  BY <1>1 DEF Plan
<1>3. Plan(d)[s] \notin {"blocked", "delete_local", "deprecate_remote"}
  BY DEF Halting, Having, DELETE_PLAN_ACTIONS
<1>4. Plan(d)[s] = action /\ action \notin {"blocked", "delete_local", "deprecate_remote"}
  BY <1>2, <1>3 DEF ApplyWriterPolicy
<1>5. status \in {"unchanged", "already_converged", "same_without_base", "pull",
                 "push", "remote_new", "local_new"}
  BY <1>4 DEF PlanItem, Classify, ClassifyWithBase, ClassifyWithoutBase
<1>6. CASE status \in {"unchanged", "already_converged", "same_without_base"}
  <2>1. local[d][s] = cache[d].hash[s]
    BY <1>6 DEF Classify, ClassifyWithBase, ClassifyWithoutBase
  <2> QED
    BY <2>1
<1>7. CASE status \in {"push", "local_new"}
  <2>1. action \in PUSH_ACTIONS
    BY <1>4, <1>7 DEF PlanItem, PUSH_ACTIONS
  <2> QED
    BY <1>4, <2>1 DEF Having
<1>8. CASE status \in {"pull", "remote_new"}
  <2>1. action \in PULL_ACTIONS
    BY <1>4, <1>8 DEF PlanItem, PULL_ACTIONS
  <2>2. local[d][s] \in {base[d][s], Absent}
    BY <1>8 DEF Classify, ClassifyWithBase, ClassifyWithoutBase
  <2> QED
    BY <1>4, <2>1, <2>2 DEF Having
<1> QED
  BY <1>5, <1>6, <1>7, <1>8

\* What an accepted preview leaves behind: the plan it accepted, nothing done.
LEMMA AcceptedJob ==
    ASSUME TypeOK, Unplanned, NEW d \in Devices, PreviewAccepted(d)
    PROVE  /\ job'[d].plan = Plan(d) /\ job'[d].done = {} /\ ~ job'[d].raced
           /\ Halting(Plan(d)) = {}
           /\ pc'[d] = IF Having(Plan(d), PUSH_ACTIONS) # {}
                       THEN "asserting" ELSE "pulling"
           /\ \A e \in Devices \ {d} : job'[e] = job[e] /\ pc'[e] = pc[e]
<1>1. job[d] = NoJob
  BY DEF PreviewAccepted, Unplanned, QuietPhases
<1>2. job'[d] = [NoJob EXCEPT !.plan = Plan(d)]
  BY <1>1 DEF PreviewAccepted, TypeOK
<1> QED
  BY <1>2 DEF PreviewAccepted, Goto, TypeOK, NoJob

\* What a step of device d leaves alone on another device e: everything, but
\* for the history mark when d writes an index that e compared before.
SameElsewhere(e) ==
    /\ local'[e] = local[e] /\ base'[e] = base[e]
    /\ cache'[e] = cache[e] /\ cached'[e] = cached[e]
    /\ pc'[e] = pc[e] /\ dirty'[e] = dirty[e]
    /\ job'[e].plan = job[e].plan /\ job'[e].done = job[e].done
    /\ job'[e].item = job[e].item /\ job'[e].had = job[e].had
    /\ job'[e].snap = job[e].snap
    /\ \/ job'[e] = job[e]
       \/ PastCheck(e) /\ job'[e].raced
    /\ index'.hash # index.hash /\ PastCheck(e) => job'[e].raced

LEMMA OtherDevices ==
    ASSUME TypeOK, NEW d \in Devices, Daemon(d) \/ Fault(d),
           NEW e \in Devices, e # d
    PROVE  SameElsewhere(e)
<1> USE DEF central, mirror, counters
<1>1. ASSUME FetchIndex(d) PROVE SameElsewhere(e)
  BY <1>1 DEF FetchIndex, Goto, SameElsewhere, TypeOK
<1>2. ASSUME FetchArchive(d) PROVE SameElsewhere(e)
  BY <1>2 DEF FetchArchive, SameElsewhere, TypeOK
<1>3. ASSUME FetchDangling(d) PROVE SameElsewhere(e)
  BY <1>3 DEF FetchDangling, EndCycle, Goto, SameElsewhere, TypeOK
<1>4. ASSUME GateBlocked(d) PROVE SameElsewhere(e)
  BY <1>4 DEF GateBlocked, EndCycle, Goto, SameElsewhere, TypeOK
<1>5. ASSUME GatePassed(d) PROVE SameElsewhere(e)
  BY <1>5 DEF GatePassed, Goto, SameElsewhere, TypeOK
<1>6. ASSUME PreviewEnds(d) PROVE SameElsewhere(e)
  BY <1>6 DEF PreviewEnds, EndCycle, Goto, SameElsewhere, TypeOK
<1>7. ASSUME PreviewAccepted(d) PROVE SameElsewhere(e)
  BY <1>7 DEF PreviewAccepted, Goto, SameElsewhere, TypeOK
<1>8. ASSUME AssertRemote(d) PROVE SameElsewhere(e)
  BY <1>8 DEF AssertRemote, EndCycle, Goto, SameElsewhere, TypeOK
<1>9. ASSUME NEW s \in Skills, RemoveTarget(d, s) PROVE SameElsewhere(e)
  BY <1>9 DEF RemoveTarget, Goto, SameElsewhere, TypeOK
<1>10. ASSUME InstallTarget(d) PROVE SameElsewhere(e)
  BY <1>10 DEF InstallTarget, Goto, SameElsewhere, TypeOK
<1>11. ASSUME InstallFails(d) PROVE SameElsewhere(e)
  BY <1>11 DEF InstallFails, EndCycle, Goto, SameElsewhere, TypeOK
<1>12. ASSUME PullsFinished(d) PROVE SameElsewhere(e)
  BY <1>12 DEF PullsFinished, Goto, SameElsewhere, TypeOK
<1>13. ASSUME ScanLocal(d) PROVE SameElsewhere(e)
  BY <1>13 DEF ScanLocal, Goto, SameElsewhere, TypeOK
<1>14. ASSUME NEW s \in Skills, UploadArchive(d, s) PROVE SameElsewhere(e)
  BY <1>14 DEF UploadArchive, SameElsewhere, TypeOK
<1>15. ASSUME RecordBase(d) PROVE SameElsewhere(e)
  BY <1>15 DEF RecordBase, EndCycle, Goto, SameElsewhere, TypeOK
<1>16. ASSUME Interrupt(d) PROVE SameElsewhere(e)
  BY <1>16 DEF Interrupt, EndCycle, Goto, SameElsewhere, TypeOK
<1>17. ASSUME PutIndex(d) PROVE SameElsewhere(e)
  <2>1. job'[e] = Overtaken(SnapshotIndex(d))[e] /\ index' = SnapshotIndex(d)
    BY <1>17 DEF PutIndex, WriteIndex, Overtaken
  <2>2. job'[e] = IF PastCheck(e) /\ index'.hash # index.hash
                  THEN [job[e] EXCEPT !.raced = TRUE] ELSE job[e]
    BY <2>1 DEF Overtaken
  <2>3. job[e] \in Job /\ [job[e] EXCEPT !.raced = TRUE].raced
    BY DEF TypeOK, Job
  <2>4. /\ \/ job'[e] = job[e]
           \/ PastCheck(e) /\ job'[e].raced
        /\ index'.hash # index.hash /\ PastCheck(e) => job'[e].raced
    BY <2>2, <2>3
  <2>5. dirty'[e] = dirty[e]
    BY <1>17 DEF PutIndex, WriteIndex, TypeOK
  <2> QED
    BY <1>17, <2>1, <2>4, <2>5, OvertakenKeeps DEF PutIndex, Goto, SameElsewhere, TypeOK
<1>18. ASSUME PutIndexUnacknowledged(d) PROVE SameElsewhere(e)
  <2>1. job'[e] = Overtaken(SnapshotIndex(d))[e] /\ index' = SnapshotIndex(d)
    BY <1>18 DEF PutIndexUnacknowledged, WriteIndex, Overtaken
  <2>2. job'[e] = IF PastCheck(e) /\ index'.hash # index.hash
                  THEN [job[e] EXCEPT !.raced = TRUE] ELSE job[e]
    BY <2>1 DEF Overtaken
  <2>3. job[e] \in Job /\ [job[e] EXCEPT !.raced = TRUE].raced
    BY DEF TypeOK, Job
  <2>4. /\ \/ job'[e] = job[e]
           \/ PastCheck(e) /\ job'[e].raced
        /\ index'.hash # index.hash /\ PastCheck(e) => job'[e].raced
    BY <2>2, <2>3
  <2>5. dirty'[e] = dirty[e]
    BY <1>18 DEF PutIndexUnacknowledged, WriteIndex, TypeOK
  <2> QED
    BY <1>18, <2>1, <2>4, <2>5, OvertakenKeeps DEF PutIndexUnacknowledged, Goto, SameElsewhere, TypeOK
<1> QED
  BY <1>1, <1>2, <1>3, <1>4, <1>5, <1>6, <1>7, <1>8, <1>9, <1>10, <1>11, <1>12, <1>13, <1>14, <1>15, <1>16, <1>17, <1>18 DEF Daemon, Fault

LEMMA NothingDeprecatedNext ==
    ASSUME Calm, IInv, [Next]_vars
    PROVE  NothingDeprecated'
<1> USE DEF central, mirror, counters
<1>1. ASSUME NEW d \in Devices, FetchIndex(d) PROVE NothingDeprecated'
  BY <1>1 DEF FetchIndex, IInv, NothingDeprecated, TypeOK
<1>2. ASSUME NEW d \in Devices, WriteIndex(d), UNCHANGED <<cache, lifecycle>>
      PROVE  NothingDeprecated'
  BY <1>2 DEF WriteIndex, SnapshotIndex, IInv, NothingDeprecated
<1>3. ASSUME NEW s \in Skills, NEW to \in LifecycleStates, LifecycleCheck(s, to)
      PROVE  NothingDeprecated'
  BY <1>3 DEF LifecycleCheck, Calm, IInv, TypeOK
<1>4. ASSUME LifecyclePut PROVE NothingDeprecated'
  BY <1>4 DEF LifecyclePut, IInv, NothingDeprecated
<1>5. CASE UNCHANGED <<index, cache, lifecycle>>
  BY <1>5 DEF IInv, NothingDeprecated
<1> QED
  BY <1>1, <1>2, <1>3, <1>4, <1>5
  DEF Next, Daemon, Fault, Environment, FetchArchive, FetchDangling, GateBlocked,
      GatePassed, PreviewEnds, PreviewAccepted, AssertRemote, RemoveTarget,
      InstallTarget, InstallFails, PullsFinished, ScanLocal, UploadArchive,
      PutIndex, PutIndexUnacknowledged, RecordBase, Interrupt, Restart, Edit, vars

\* A lifecycle step is impossible in a calm world.
LEMMA CalmStep ==
    ASSUME Calm, IInv, Next
    PROVE  \/ \E d \in Devices : Daemon(d) \/ Fault(d)
           \/ \E d \in Devices : Restart(d)
           \/ \E d \in Devices, s \in Skills, content \in Content : Edit(d, s, content)
<1>1. ASSUME NEW s \in Skills, NEW to \in LifecycleStates, LifecycleCheck(s, to)
      PROVE  FALSE
  BY <1>1 DEF LifecycleCheck, Calm, IInv, TypeOK
<1>2. ASSUME LifecyclePut PROVE FALSE
  BY <1>2 DEF LifecyclePut, IInv, NothingDeprecated
<1> QED
  BY <1>1, <1>2 DEF Next, Environment

LEMMA UnplannedNext ==
    ASSUME TypeOK, Unplanned, [Next]_vars
    PROVE  Unplanned'
<1> SUFFICES ASSUME NEW e \in Devices, pc'[e] \in QuietPhases
             PROVE  job'[e] = NoJob
  BY DEF Unplanned
<1>1. ASSUME NEW d \in Devices, Daemon(d) \/ Fault(d) PROVE job'[e] = NoJob
  <2>1. CASE e # d
    BY <1>1, <2>1, OtherDevices DEF SameElsewhere, Unplanned, PastCheck, QuietPhases
  <2>2. CASE e = d
    <3>1. CASE EndCycle(d, "idle") \/ EndCycle(d, "stopped")
      BY <2>2, <3>1 DEF EndCycle, TypeOK
    <3>2. CASE PutIndexUnacknowledged(d)
      BY <2>2, <3>2, OvertakenType DEF PutIndexUnacknowledged
    <3>3. CASE UNCHANGED job /\ pc[d] \in QuietPhases
      BY <2>2, <3>3 DEF Unplanned
    <3>4. CASE pc'[d] \notin QuietPhases
      BY <2>2, <3>4
    <3> QED
      BY <1>1, <2>2, <3>1, <3>2, <3>3, <3>4
      DEF Daemon, Fault, FetchIndex, FetchArchive, FetchDangling, GateBlocked,
          GatePassed, PreviewEnds, PreviewAccepted, AssertRemote, RemoveTarget,
          InstallTarget, InstallFails, PullsFinished, ScanLocal, UploadArchive,
          PutIndex, RecordBase, Interrupt, Goto, TypeOK, QuietPhases
  <2> QED
    BY <2>1, <2>2
<1>2. ASSUME NEW d \in Devices, Restart(d) PROVE job'[e] = NoJob
  BY <1>2 DEF Restart, Goto, Unplanned, TypeOK, QuietPhases
<1>3. ASSUME NEW d \in Devices, NEW s \in Skills, NEW content \in Content,
             Edit(d, s, content)
      PROVE  job'[e] = NoJob
  BY <1>3 DEF Edit, Unplanned
<1>4. CASE UNCHANGED vars
  BY <1>4 DEF vars, Unplanned
<1>5. ASSUME NEW s \in Skills, NEW to \in LifecycleStates, LifecycleCheck(s, to)
      PROVE  job'[e] = NoJob
  BY <1>5 DEF LifecycleCheck, Unplanned
<1>6. ASSUME LifecyclePut PROVE job'[e] = NoJob
  <2>1. pc[e] \in QuietPhases /\ job[e] = NoJob
    BY <1>6 DEF LifecyclePut, Unplanned
  <2>2. ~ PastCheck(e)
    BY <2>1 DEF PastCheck, QuietPhases
  <2> QED
    BY <1>6, <2>1, <2>2 DEF LifecyclePut, Overtaken
<1> QED
  BY <1>1, <1>2, <1>3, <1>4, <1>5, <1>6 DEF Next, Environment

\* Users edit between cycles and while a plan is not yet accepted; that leaves
\* the rest of every device, and central, as they are.
LEMMA CalmEdit ==
    ASSUME Calm, NEW d \in Devices, NEW s \in Skills, NEW content \in Content,
           Edit(d, s, content)
    PROVE  /\ pc[d] \in QuietPhases
           /\ UNCHANGED <<index, archives, base, cache, cached, pc, job, lifecycle>>
           /\ TypeOK => \A e \in Devices \ {d} : local'[e] = local[e]
BY DEF Edit, Calm, Quiet, central, mirror, TypeOK

\* A plan never both pulls and pushes a skill.
LEMMA PullsOrPushes ==
    ASSUME NEW plan, NEW s, s \in Having(plan, PULL_ACTIONS)
    PROVE  s \notin Having(plan, PUSH_ACTIONS)
BY DEF Having, PULL_ACTIONS, PUSH_ACTIONS

LEMMA LocalAsPlannedNext ==
    ASSUME Calm, IInv, [Next]_vars
    PROVE  LocalAsPlanned'
<1> DEFINE Planned(e) ==
        pc[e] \in {"asserting", "pulling", "replacing", "scanning"} =>
          \A s \in Skills :
             \/ local[e][s] = cache[e].hash[s]
             \/ s \in Pushes(e)
             \/ /\ pc[e] # "scanning"
                /\ s \in Pulls(e) \ job[e].done
                /\ local[e][s] \in {base[e][s], Absent}
<1> SUFFICES ASSUME NEW e \in Devices PROVE Planned(e)'
  BY DEF LocalAsPlanned
<1>0. Planned(e)
  BY DEF IInv, LocalAsPlanned
<1> USE DEF IInv, central, mirror, counters
<1>1. ASSUME NEW d \in Devices, Daemon(d) \/ Fault(d), e # d PROVE Planned(e)'
  BY <1>0, <1>1, OtherDevices DEF SameElsewhere, Pushes, Pulls
<1>2. ASSUME PreviewAccepted(e) PROVE Planned(e)'
  <2>1. /\ job'[e].plan = Plan(e) /\ job'[e].done = {}
        /\ Halting(Plan(e)) = {} /\ pc'[e] \in {"asserting", "pulling"}
    BY <1>2, AcceptedJob
  <2>2. UNCHANGED <<local, cache, base>>
    BY <1>2 DEF PreviewAccepted
  <2>3. NoOverrides /\ cache[e].deprecated = {}
    BY DEF Calm, NothingDeprecated
  <2> QED
    BY <2>1, <2>2, <2>3, AcceptedPlan DEF NoOverrides, Pushes, Pulls
<1>3. ASSUME AssertRemote(e) PROVE Planned(e)'
  BY <1>0, <1>3 DEF AssertRemote, EndCycle, Goto, TypeOK, Pushes, Pulls
<1>4. ASSUME NEW s \in Skills, RemoveTarget(e, s) PROVE Planned(e)'
  <2>1. /\ pc[e] = "pulling" /\ pc'[e] = "replacing"
        /\ s \in Pulls(e) \ job[e].done
        /\ UNCHANGED <<cache, base>>
    BY <1>4 DEF RemoveTarget, Goto, TypeOK
  <2>2. job'[e].plan = job[e].plan /\ job'[e].done = job[e].done
    BY <1>4 DEF RemoveTarget, TypeOK, Job
  <2>3. \A k \in Skills : local'[e][k] = IF k = s THEN Absent ELSE local[e][k]
    BY <1>4 DEF RemoveTarget, TypeOK, Hashes
  <2> QED
    BY <1>0, <2>1, <2>2, <2>3 DEF Pushes, Pulls
<1>5. ASSUME InstallTarget(e) PROVE Planned(e)'
  <2> DEFINE s == job[e].item
  <2>1. /\ pc[e] = "replacing" /\ pc'[e] = "pulling" /\ s \in Skills
        /\ UNCHANGED <<cache, base>>
    BY <1>5 DEF InstallTarget, Goto, TypeOK, Replacing
  <2>2. job'[e].plan = job[e].plan /\ job'[e].done = job[e].done \cup {s}
    BY <1>5 DEF InstallTarget, TypeOK, Job
  <2>3. \A k \in Skills :
           local'[e][k] = IF k = s THEN cache[e].hash[s] ELSE local[e][k]
    BY <1>5 DEF InstallTarget, TypeOK, Hashes
  <2> QED
    BY <1>0, <2>1, <2>2, <2>3 DEF Pushes, Pulls
<1>6. ASSUME PullsFinished(e) PROVE Planned(e)'
  <2>1. /\ pc[e] = "pulling" /\ pc'[e] \in {"scanning", "recording"}
        /\ Pulls(e) \subseteq job[e].done
        /\ UNCHANGED <<local, cache, base>>
    BY <1>6 DEF PullsFinished, Goto, TypeOK
  <2>2. job'[e].plan = job[e].plan
    BY <1>6 DEF PullsFinished, TypeOK, Job
  <2> QED
    BY <1>0, <2>1, <2>2 DEF Pushes
<1>7. CASE pc'[e] \notin {"asserting", "pulling", "replacing", "scanning"}
  BY <1>7
<1>8. ASSUME NEW d \in Devices, Restart(d) PROVE Planned(e)'
  BY <1>0, <1>8 DEF Restart, Goto, TypeOK, Pushes, Pulls
<1>9. ASSUME NEW d \in Devices, NEW s \in Skills, NEW content \in Content,
             Edit(d, s, content)
      PROVE  Planned(e)'
  BY <1>0, <1>9, CalmEdit DEF Pushes, Pulls, QuietPhases
<1>10. CASE UNCHANGED vars
  BY <1>0, <1>10 DEF vars, Pushes, Pulls
<1>11. ASSUME Daemon(e) \/ Fault(e) PROVE Planned(e)'
  <2>1. \/ PreviewAccepted(e) \/ AssertRemote(e)
        \/ \E s \in Skills : RemoveTarget(e, s)
        \/ InstallTarget(e) \/ PullsFinished(e)
        \/ pc'[e] \notin {"asserting", "pulling", "replacing", "scanning"}
    BY <1>11
    DEF Daemon, Fault, FetchIndex, FetchArchive, FetchDangling, GateBlocked,
        GatePassed, PreviewEnds, InstallFails, ScanLocal, UploadArchive, PutIndex,
        PutIndexUnacknowledged, RecordBase, Interrupt, EndCycle, Goto, TypeOK
  <2> QED
    BY <2>1, <1>2, <1>3, <1>4, <1>5, <1>6, <1>7
<1> QED
  BY <1>1, <1>8, <1>9, <1>10, <1>11, CalmStep

\* Archives are never removed.
LEMMA ArchivesGrow ==
    ASSUME [Next]_vars
    PROVE  archives \subseteq archives'
BY DEF Next, Daemon, Fault, Environment, FetchIndex, FetchArchive, FetchDangling,
       GateBlocked, GatePassed, PreviewEnds, PreviewAccepted, AssertRemote,
       RemoveTarget, InstallTarget, InstallFails, PullsFinished, ScanLocal,
       UploadArchive, PutIndex, PutIndexUnacknowledged, RecordBase, Interrupt,
       Restart, Edit, LifecycleCheck, LifecyclePut, central, vars

LEMMA ScanAsPlannedNext ==
    ASSUME Calm, IInv, [Next]_vars
    PROVE  ScanAsPlanned'
<1> DEFINE Scanned(e) ==
        /\ pc[e] \in {"scanning", "uploading"} => Pushes(e) # {}
        /\ pc[e] = "scanning" => job[e].done = {}
        /\ pc[e] = "uploading" =>
              \A s \in Skills :
                 /\ job[e].snap[s] = cache[e].hash[s] \/ s \in Pushes(e)
                 /\ s \in job[e].done => <<s, job[e].snap[s]>> \in archives
        /\ pc[e] = "recording" /\ Pushes(e) # {} =>
              Referenced(job[e].snap) \subseteq archives
<1> SUFFICES ASSUME NEW e \in Devices PROVE Scanned(e)'
  BY DEF ScanAsPlanned
<1>0. Scanned(e) /\ archives \subseteq archives'
  BY ArchivesGrow DEF IInv, ScanAsPlanned
<1> USE DEF IInv, central, mirror, counters
<1>1. ASSUME NEW d \in Devices, Daemon(d) \/ Fault(d), e # d PROVE Scanned(e)'
  BY <1>0, <1>1, OtherDevices DEF SameElsewhere, Pushes, Referenced
<1>2. ASSUME PullsFinished(e) PROVE Scanned(e)'
  <2>1. /\ job'[e].plan = job[e].plan /\ job'[e].done = {}
        /\ pc'[e] = IF Pushes(e) # {} THEN "scanning" ELSE "recording"
    BY <1>2 DEF PullsFinished, Goto, TypeOK, Job
  <2> QED
    BY <2>1 DEF Pushes
<1>3. ASSUME ScanLocal(e) PROVE Scanned(e)'
  <2>1. /\ job'[e].plan = job[e].plan /\ job'[e].done = {}
        /\ job'[e].snap = local[e] /\ pc[e] = "scanning" /\ pc'[e] = "uploading"
        /\ UNCHANGED cache
    BY <1>0, <1>3 DEF ScanLocal, Goto, TypeOK, Job
  <2>2. \A s \in Skills : local[e][s] = cache[e].hash[s] \/ s \in Pushes(e)
    BY <2>1 DEF LocalAsPlanned
  <2>3. Pushes(e) # {} /\ Pushes(e)' = Pushes(e)
    BY <1>0, <2>1 DEF Pushes
  <2>4. pc'[e] \notin {"scanning", "recording"}
    BY <2>1
  <2> QED
    BY <2>1, <2>2, <2>3, <2>4
<1>4. ASSUME NEW s \in Skills, UploadArchive(e, s) PROVE Scanned(e)'
  <2>1. /\ job'[e].plan = job[e].plan /\ job'[e].done = job[e].done \cup {s}
        /\ job'[e].snap = job[e].snap /\ pc[e] = "uploading" /\ pc'[e] = "uploading"
        /\ archives' = archives \cup {<<s, job[e].snap[s]>>}
        /\ UNCHANGED cache
    BY <1>4 DEF UploadArchive, TypeOK, Job
  <2> QED
    BY <1>0, <2>1 DEF Pushes
<1>5. ASSUME PutIndex(e) PROVE Scanned(e)'
  <2>1. /\ pc[e] = "uploading" /\ pc'[e] = "recording" /\ job'[e] = job[e]
        /\ ToUpload(e) \subseteq job[e].done /\ UNCHANGED archives
    BY <1>5 DEF PutIndex, WriteIndex, Goto, TypeOK, Overtaken
  <2>2. Referenced(job[e].snap) \subseteq archives
    <3> SUFFICES ASSUME NEW s \in Skills, job[e].snap[s] # Absent
                 PROVE  <<s, job[e].snap[s]>> \in archives
      BY DEF Referenced
    <3>1. CASE s \in Pushes(e)
      BY <1>0, <2>1, <3>1 DEF ToUpload
    <3>2. CASE job[e].snap[s] = cache[e].hash[s]
      BY <2>1, <3>2 DEF Archived, Missing, Referenced
    <3> QED
      BY <1>0, <2>1, <3>1, <3>2
  <2> QED
    BY <2>1, <2>2
<1>6. ASSUME Daemon(e) \/ Fault(e) PROVE Scanned(e)'
  <2>1. \/ PullsFinished(e) \/ ScanLocal(e) \/ PutIndex(e)
        \/ \E s \in Skills : UploadArchive(e, s)
        \/ pc'[e] \notin {"scanning", "uploading", "recording"}
    BY <1>6
    DEF Daemon, Fault, FetchIndex, FetchArchive, FetchDangling, GateBlocked,
        GatePassed, PreviewEnds, PreviewAccepted, AssertRemote, RemoveTarget,
        InstallTarget, InstallFails, PutIndexUnacknowledged, RecordBase, Interrupt,
        EndCycle, Goto, TypeOK
  <2> QED
    BY <2>1, <1>2, <1>3, <1>4, <1>5
<1>7. ASSUME NEW d \in Devices, Restart(d) PROVE Scanned(e)'
  BY <1>0, <1>7 DEF Restart, Goto, TypeOK, Pushes, Referenced
<1>8. ASSUME NEW d \in Devices, NEW s \in Skills, NEW content \in Content,
             Edit(d, s, content)
      PROVE  Scanned(e)'
  BY <1>0, <1>8, CalmEdit DEF Pushes, Referenced
<1>9. CASE UNCHANGED vars
  BY <1>0, <1>9 DEF vars, Pushes, Referenced
<1> QED
  BY <1>1, <1>6, <1>7, <1>8, <1>9, CalmStep

LEMMA ArchivedNext ==
    ASSUME Calm, IInv, [Next]_vars
    PROVE  Archived'
<1> DEFINE Kept(e) ==
        /\ Referenced(base[e]) \subseteq archives
        /\ cached[e] \subseteq archives
        /\ pc[e] \notin {"idle", "fetching", "stopped"} => Missing(e) = {}
<1> USE DEF IInv, central, mirror, counters
<1>0. archives \subseteq archives' /\ \A e \in Devices : Kept(e)
  BY ArchivesGrow DEF Archived
<1>1. IndexComplete'
  <2>1. ASSUME NEW d \in Devices, WriteIndex(d) PROVE IndexComplete'
    <3>1. /\ pc[d] = "uploading" /\ ToUpload(d) \subseteq job[d].done
          /\ index'.hash = job[d].snap
      BY <2>1 DEF WriteIndex, SnapshotIndex
    <3>2. ASSUME NEW s \in Skills, job[d].snap[s] # Absent
          PROVE  <<s, job[d].snap[s]>> \in archives
      <4>1. CASE s \in Pushes(d)
        BY <3>1, <3>2, <4>1 DEF ScanAsPlanned, ToUpload
      <4>2. CASE job[d].snap[s] = cache[d].hash[s]
        BY <1>0, <3>1, <3>2, <4>2 DEF Missing, Referenced
      <4> QED
        BY <3>1, <4>1, <4>2 DEF ScanAsPlanned
    <3> QED
      BY <1>0, <3>1, <3>2 DEF IndexComplete, Referenced
  <2>2. CASE UNCHANGED index
    BY <1>0, <2>2 DEF Archived, IndexComplete, Referenced
  <2> QED
    BY <2>1, <2>2, CalmStep
    DEF Daemon, Fault, FetchIndex, FetchArchive, FetchDangling, GateBlocked,
        GatePassed, PreviewEnds, PreviewAccepted, AssertRemote, RemoveTarget,
        InstallTarget, InstallFails, PullsFinished, ScanLocal, UploadArchive,
        PutIndex, PutIndexUnacknowledged, RecordBase, Interrupt, Restart, Edit, vars
<1>2. ASSUME NEW e \in Devices PROVE Kept(e)'
  <2>1. ASSUME NEW d \in Devices, Daemon(d) \/ Fault(d), e # d PROVE Kept(e)'
    BY <1>0, <2>1, OtherDevices DEF SameElsewhere, Missing, Referenced
  <2>2. ASSUME FetchArchive(e) PROVE Kept(e)'
    BY <1>0, <2>2 DEF FetchArchive, TypeOK, Referenced
  <2>3. ASSUME RecordBase(e) PROVE Kept(e)'
    <3>1. /\ pc[e] = "recording" /\ pc'[e] = "idle" /\ base'[e] = NewBase(e)
          /\ UNCHANGED <<archives, cached>>
      BY <2>3 DEF RecordBase, EndCycle, Goto, TypeOK
    <3>2. CASE Pushes(e) # {}
      BY <3>1, <3>2, <1>0 DEF NewBase, ScanAsPlanned
    <3>3. CASE Pushes(e) = {}
      BY <3>1, <3>3, <1>0 DEF NewBase, Missing, Referenced
    <3> QED
      BY <3>2, <3>3
  <2>4. ASSUME GatePassed(e) PROVE Kept(e)'
    BY <1>0, <2>4 DEF GatePassed, Goto, TypeOK, Missing, Referenced
  <2>5. CASE /\ UNCHANGED <<base, cached>>
             /\ pc'[e] \in {"idle", "fetching", "stopped"}
    BY <1>0, <2>5 DEF Referenced
  <2>6. CASE /\ UNCHANGED <<base, cached, cache>>
             /\ pc[e] \notin {"idle", "fetching", "stopped"}
    BY <1>0, <2>6 DEF Referenced, Missing
  <2>7. ASSUME Daemon(e) \/ Fault(e) PROVE Kept(e)'
    <3>1. \/ FetchArchive(e) \/ RecordBase(e) \/ GatePassed(e)
          \/ UNCHANGED <<base, cached>> /\ pc'[e] \in {"idle", "fetching", "stopped"}
          \/ /\ UNCHANGED <<base, cached, cache>>
             /\ pc[e] \notin {"idle", "fetching", "stopped"}
      BY <2>7
      DEF Daemon, Fault, FetchIndex, FetchDangling, GateBlocked, PreviewEnds,
          PreviewAccepted, AssertRemote, RemoveTarget, InstallTarget, InstallFails,
          PullsFinished, ScanLocal, UploadArchive, PutIndex, WriteIndex,
          PutIndexUnacknowledged, Interrupt, EndCycle, Goto, TypeOK
    <3> QED
      BY <3>1, <2>2, <2>3, <2>4, <2>5, <2>6
  <2>8. ASSUME NEW d \in Devices, Restart(d) PROVE Kept(e)'
    BY <1>0, <2>8 DEF Restart, Goto, TypeOK, Missing, Referenced
  <2>9. ASSUME NEW d \in Devices, NEW s \in Skills, NEW content \in Content,
               Edit(d, s, content)
        PROVE  Kept(e)'
    BY <1>0, <2>9, CalmEdit DEF Missing, Referenced
  <2>10. CASE UNCHANGED vars
    BY <1>0, <2>10 DEF vars, Missing, Referenced
  <2> QED
    BY <2>1, <2>7, <2>8, <2>9, <2>10, CalmStep
<1> QED
  BY <1>1, <1>2 DEF Archived

LEMMA InvInit == ASSUME Calm PROVE Init => IInv
<1> SUFFICES ASSUME Init PROVE IInv
  OBVIOUS
<1>1. TypeOK /\ Replacing /\ NothingDeprecated /\ Unplanned
  BY TypeInit DEF Init, Replacing, NothingDeprecated, Unplanned
<1>2. Archived
  BY DEF Init, Archived, IndexComplete, Referenced
<1>3. LocalAsPlanned /\ ScanAsPlanned
  BY DEF Init, LocalAsPlanned, ScanAsPlanned
<1> QED
  BY <1>1, <1>2, <1>3 DEF IInv

LEMMA InvNext == ASSUME Calm PROVE IInv /\ [Next]_vars => IInv'
<1> SUFFICES ASSUME IInv, [Next]_vars PROVE IInv'
  OBVIOUS
<1>1. TypeOK' /\ Replacing'
  BY TypeNext DEF IInv
<1> QED
  BY <1>1, NothingDeprecatedNext, UnplannedNext, ArchivedNext, LocalAsPlannedNext,
     ScanAsPlannedNext
  DEF IInv

\* The strengthening holds throughout a calm world.
THEOREM Invariance == ASSUME Calm PROVE Spec => []IInv
BY InvInit, InvNext, PTL DEF Spec

-----------------------------------------------------------------------------
(* SkillSync implements SyncPromise for any devices, skills, versions,          *)
(* policies and bounds: every step of a cycle, a fault or a user is a step of   *)
(* the promise or leaves what the promise speaks of as it is.                   *)

\* An accepted plan pulls what central lists and pushes what the device has.
LEMMA BackedPlan ==
    ASSUME TypeOK, NothingDeprecated, NoOverrides, NEW d \in Devices,
           Halting(Plan(d)) = {}, NEW s \in Skills
    PROVE  /\ s \in Having(Plan(d), PULL_ACTIONS) => cache[d].hash[s] # Absent
           /\ s \in Having(Plan(d), PUSH_ACTIONS) => local[d][s] # Absent
<1> DEFINE status == Classify(base[d][s], local[d][s], cache[d].hash[s], FALSE)
           action == PlanItem(status, AllowNew, AllowDelete)
<1>1. Status(d, s) = status
  <2>1. s \notin cache[d].deprecated /\ Override[d][s] = {}
    BY DEF NothingDeprecated, NoOverrides
  <2>2. (s \in cache[d].deprecated) = FALSE
    BY <2>1
  <2> QED
    BY <2>1, <2>2 DEF Status, ClassifyWithOverride
<1>2. Plan(d)[s] = ApplyWriterPolicy(action, Policy[d])
  BY <1>1 DEF Plan
<1>3. Plan(d)[s] # "blocked"
  BY DEF Halting, Having
<1>4. Plan(d)[s] = action
  BY <1>2, <1>3 DEF ApplyWriterPolicy
<1>5. ASSUME action \in PULL_ACTIONS PROVE cache[d].hash[s] # Absent
  <2>1. status \in {"pull", "remote_new"}
    BY <1>5 DEF PlanItem, PULL_ACTIONS
  <2> QED
    BY <2>1 DEF Classify, ClassifyWithBase, ClassifyWithoutBase
<1>6. ASSUME action \in PUSH_ACTIONS PROVE local[d][s] # Absent
  <2>1. status \in {"push", "local_new"}
    BY <1>6 DEF PlanItem, PUSH_ACTIONS
  <2> QED
    BY <2>1 DEF Classify, ClassifyWithBase, ClassifyWithoutBase
<1> QED
  BY <1>4, <1>5, <1>6 DEF Having

LEMMA PlanBackedNext ==
    ASSUME Calm, IInv, PlanBacked, [Next]_vars
    PROVE  PlanBacked'
<1> DEFINE Busy == {"asserting", "pulling", "replacing", "scanning", "uploading"}
           Backed(e) ==
             pc[e] \in Busy =>
               /\ \A s \in Pulls(e) : cache[e].hash[s] # Absent
               /\ \A s \in Pushes(e) : local[e][s] # Absent
               /\ pc[e] = "replacing" => job[e].item \in Pulls(e)
               /\ pc[e] = "uploading" => job[e].snap = local[e]
<1> SUFFICES ASSUME NEW e \in Devices PROVE Backed(e)'
  BY DEF PlanBacked
<1>0. Backed(e)
  BY DEF PlanBacked
<1> USE DEF IInv, central, mirror, counters
<1>1. ASSUME NEW d \in Devices, Daemon(d) \/ Fault(d), e # d PROVE Backed(e)'
  BY <1>0, <1>1, OtherDevices DEF SameElsewhere, Pushes, Pulls
<1>2. ASSUME PreviewAccepted(e) PROVE Backed(e)'
  <2>1. /\ job'[e].plan = Plan(e) /\ Halting(Plan(e)) = {}
        /\ pc'[e] \in {"asserting", "pulling"}
    BY <1>2, AcceptedJob
  <2>2. UNCHANGED <<local, cache>>
    BY <1>2 DEF PreviewAccepted
  <2>3. /\ \A s \in Having(Plan(e), PULL_ACTIONS) : cache[e].hash[s] # Absent
        /\ \A s \in Having(Plan(e), PUSH_ACTIONS) : local[e][s] # Absent
    BY <2>1, BackedPlan DEF Calm, Having
  <2> QED
    BY <2>1, <2>2, <2>3 DEF Pushes, Pulls
<1>3. ASSUME AssertRemote(e) PROVE Backed(e)'
  BY <1>0, <1>3 DEF AssertRemote, EndCycle, Goto, TypeOK, Pushes, Pulls
<1>4. ASSUME NEW s \in Skills, RemoveTarget(e, s) PROVE Backed(e)'
  <2>1. /\ pc[e] = "pulling" /\ pc'[e] = "replacing" /\ s \in Pulls(e)
        /\ UNCHANGED cache
    BY <1>4 DEF RemoveTarget, Goto, TypeOK
  <2>2. job'[e].plan = job[e].plan /\ job'[e].item = s
    BY <1>4 DEF RemoveTarget, TypeOK, Job
  <2>3. \A k \in Skills \ {s} : local'[e][k] = local[e][k]
    BY <1>4 DEF RemoveTarget, TypeOK, Hashes
  <2>4. s \notin Pushes(e) /\ Pushes(e) \subseteq Skills
    BY <2>1, PullsOrPushes DEF Pulls, Pushes, Having
  <2> QED
    BY <1>0, <2>1, <2>2, <2>3, <2>4 DEF Pushes, Pulls
<1>5. ASSUME InstallTarget(e) PROVE Backed(e)'
  <2> DEFINE s == job[e].item
  <2>1. /\ pc[e] = "replacing" /\ pc'[e] = "pulling" /\ s \in Pulls(e)
        /\ UNCHANGED cache
    BY <1>0, <1>5 DEF InstallTarget, Goto, TypeOK
  <2>2. job'[e].plan = job[e].plan
    BY <1>5 DEF InstallTarget, TypeOK, Job
  <2>3. \A k \in Skills : k # s => local'[e][k] = local[e][k]
    BY <1>5 DEF InstallTarget, TypeOK, Hashes
  <2>4. s \notin Pushes(e) /\ Pushes(e) \subseteq Skills
    BY <2>1, PullsOrPushes DEF Pulls, Pushes, Having
  <2> QED
    BY <1>0, <2>1, <2>2, <2>3, <2>4 DEF Pushes, Pulls
<1>6. ASSUME PullsFinished(e) PROVE Backed(e)'
  <2>1. /\ pc[e] = "pulling" /\ pc'[e] \in {"scanning", "recording"}
        /\ UNCHANGED <<local, cache>>
    BY <1>6 DEF PullsFinished, Goto, TypeOK
  <2>2. job'[e].plan = job[e].plan
    BY <1>6 DEF PullsFinished, TypeOK, Job
  <2> QED
    BY <1>0, <2>1, <2>2 DEF Pushes, Pulls
<1>7. ASSUME ScanLocal(e) PROVE Backed(e)'
  <2>1. /\ pc[e] = "scanning" /\ pc'[e] = "uploading"
        /\ UNCHANGED <<local, cache>>
    BY <1>7 DEF ScanLocal, Goto, TypeOK
  <2>2. job'[e].plan = job[e].plan /\ job'[e].snap = local[e]
    BY <1>7 DEF ScanLocal, TypeOK, Job
  <2> QED
    BY <1>0, <2>1, <2>2 DEF Pushes, Pulls
<1>8. ASSUME NEW s \in Skills, UploadArchive(e, s) PROVE Backed(e)'
  <2>1. job'[e].plan = job[e].plan /\ job'[e].snap = job[e].snap
    BY <1>8 DEF UploadArchive, TypeOK, Job
  <2>2. pc[e] = "uploading" /\ UNCHANGED <<local, cache, pc>>
    BY <1>8 DEF UploadArchive
  <2> QED
    BY <1>0, <2>1, <2>2 DEF Pushes, Pulls
<1>9. ASSUME Daemon(e) \/ Fault(e) PROVE Backed(e)'
  <2>1. \/ PreviewAccepted(e) \/ AssertRemote(e)
        \/ \E s \in Skills : RemoveTarget(e, s) \/ UploadArchive(e, s)
        \/ InstallTarget(e) \/ PullsFinished(e) \/ ScanLocal(e)
        \/ pc'[e] \notin Busy
    BY <1>9
    DEF Daemon, Fault, FetchIndex, FetchArchive, FetchDangling, GateBlocked,
        GatePassed, PreviewEnds, InstallFails, PutIndex,
        PutIndexUnacknowledged, RecordBase, Interrupt, EndCycle, Goto, TypeOK
  <2> QED
    BY <2>1, <1>2, <1>3, <1>4, <1>5, <1>6, <1>7, <1>8
<1>10. ASSUME NEW d \in Devices, Restart(d) PROVE Backed(e)'
  BY <1>0, <1>10 DEF Restart, Goto, TypeOK, Pushes, Pulls
<1>11. ASSUME NEW d \in Devices, NEW s \in Skills, NEW content \in Content,
              Edit(d, s, content)
       PROVE  Backed(e)'
  BY <1>0, <1>11, CalmEdit DEF Pushes, Pulls, QuietPhases
<1>12. CASE UNCHANGED vars
  BY <1>0, <1>12 DEF vars, Pushes, Pulls
<1> QED
  BY <1>1, <1>9, <1>10, <1>11, <1>12, CalmStep

\* A cycle never starts from a plan nothing backs.
THEOREM RefinementInvariance == ASSUME Calm PROVE Spec => []RefinementInv
<1>1. Init => RefinementInv
  BY InvInit DEF RefinementInv, PlanBacked, Init
<1>2. RefinementInv /\ [Next]_vars => RefinementInv'
  BY InvNext, PlanBackedNext DEF RefinementInv
<1> QED
  BY <1>1, <1>2, PTL DEF Spec

-----------------------------------------------------------------------------
(* The refinement mapping.                                                   *)

\* The copy a device is replacing, as the promise sees it.
Swap == [d \in Devices |-> IF pc[d] = "replacing"
                           THEN <<job[d].item, job[d].had>> ELSE <<>>]
View == [d \in Devices |-> cache[d].hash]

LEMMA PromiseInit == Init => Promise!Init
BY DEF Init, Promise!Init, Promise!Listed, Referenced, Nothing

\* A step that leaves the directory replaced by d alone leaves every swap.
LEMMA SwapKept ==
    ASSUME TypeOK, NEW d \in Devices, Daemon(d) \/ Fault(d),
           pc[d] # "replacing", pc'[d] # "replacing"
    PROVE  Swap' = Swap
<1>1. ASSUME NEW e \in Devices, e # d
      PROVE  pc'[e] = pc[e] /\ job'[e].item = job[e].item /\ job'[e].had = job[e].had
  BY <1>1, OtherDevices DEF SameElsewhere
<1> QED
  BY <1>1 DEF Swap

\* The swaps after d's began or ended.
LEMMA SwapChanged ==
    ASSUME TypeOK, NEW d \in Devices, Daemon(d) \/ Fault(d)
    PROVE  Swap' = [Swap EXCEPT ![d] = IF pc'[d] = "replacing"
                                       THEN <<job'[d].item, job'[d].had>> ELSE <<>>]
<1>1. ASSUME NEW e \in Devices, e # d
      PROVE  pc'[e] = pc[e] /\ job'[e].item = job[e].item /\ job'[e].had = job[e].had
  BY <1>1, OtherDevices DEF SameElsewhere
<1> QED
  BY <1>1 DEF Swap

\* Writing the index is publishing: every entry is what the device saw, or its
\* own copy of a skill it planned to push.
LEMMA WriteIndexPublishes ==
    ASSUME RefinementInv, RefinementInv', NEW d \in Devices, WriteIndex(d),
           UNCHANGED <<archives, local, cache>>, Swap' = Swap
    PROVE  Promise!Publish(d)
<1> USE DEF RefinementInv, IInv
<1>1. /\ pc[d] = "uploading" /\ index'.hash = job[d].snap /\ job[d].snap = local[d]
      /\ \A s \in Pushes(d) : local[d][s] # Absent
      /\ \A s \in Skills : job[d].snap[s] = cache[d].hash[s] \/ s \in Pushes(d)
  BY DEF WriteIndex, SnapshotIndex, PlanBacked, ScanAsPlanned
<1>2. Swap[d] = <<>>
  BY <1>1 DEF Swap
<1>3. index'.hash \in [Skills -> Versions \cup {Absent}]
  BY DEF TypeOK, Index, Hashes, Content
<1>4. ASSUME NEW s \in Skills, index'.hash[s] # cache[d].hash[s]
      PROVE  index'.hash[s] = local[d][s] /\ index'.hash[s] # Absent
  BY <1>1, <1>4
<1>5. Promise!Listed(index'.hash) \subseteq archives
  BY DEF Archived, IndexComplete, Referenced, Promise!Listed
<1>6. View[d] = cache[d].hash /\ View' = View
  BY DEF View
<1> QED
  BY <1>2, <1>3, <1>4, <1>5, <1>6 DEF Promise!Publish, Swap, View

\* Removing a directory begins a swap: the version that gives way is archived.
LEMMA RemoveTargetWithdraws ==
    ASSUME RefinementInv, NEW d \in Devices, NEW s \in Skills, RemoveTarget(d, s)
    PROVE  Promise!Withdraw(d, s)
<1> USE DEF RefinementInv, IInv, central, mirror, counters
<1>1. /\ pc[d] = "pulling" /\ pc'[d] = "replacing" /\ s \in Pulls(d)
      /\ UNCHANGED <<index, archives, cache>>
      /\ local' = [local EXCEPT ![d][s] = Absent]
  BY DEF RemoveTarget, Goto, TypeOK
<1>2. job'[d].item = s /\ job'[d].had = local[d][s]
  BY DEF RemoveTarget, TypeOK, Job
<1>3. Swap[d] = <<>> /\ Swap' = [Swap EXCEPT ![d] = <<s, local[d][s]>>]
  BY <1>1, <1>2, SwapChanged DEF Swap, Daemon
<1>4. cache[d].hash[s] # Absent
  BY <1>1 DEF PlanBacked
<1>5. ASSUME local[d][s] # Absent PROVE <<s, local[d][s]>> \in archives
  <2>1. s \notin Pushes(d)
    BY <1>1, PullsOrPushes DEF Pulls, Pushes
  <2>2. local[d][s] \in {cache[d].hash[s], base[d][s]}
    BY <1>1, <1>5, <2>1 DEF LocalAsPlanned
  <2> QED
    BY <1>1, <1>5, <2>2 DEF Archived, Missing, Referenced
<1> QED
  BY <1>1, <1>3, <1>4, <1>5 DEF Promise!Withdraw, Swap

\* What ends a swap: the listed version, the backup, or the death of the cycle.
LEMMA InstallEndsSwap ==
    ASSUME RefinementInv, NEW d \in Devices,
           InstallTarget(d) \/ InstallFails(d) \/ Interrupt(d), pc[d] = "replacing"
    PROVE  Promise!EndSwap(d)
<1> USE DEF RefinementInv, IInv, central, mirror, counters
<1> DEFINE s == job[d].item
<1>1. s \in Skills /\ cache[d].hash[s] # Absent
  BY DEF Replacing, PlanBacked
<1>2. <<s, cache[d].hash[s]>> \in archives
  BY <1>1 DEF Archived, Missing, Referenced
<1>3. pc'[d] # "replacing" /\ UNCHANGED <<index, archives, cache>>
  BY DEF InstallTarget, InstallFails, Interrupt, EndCycle, Goto, TypeOK
<1>4. Swap[d] = <<s, job[d].had>> /\ Swap' = [Swap EXCEPT ![d] = <<>>]
  BY <1>3, SwapChanged DEF Swap, Daemon, Fault
<1>5. Swap[d] # <<>> /\ Swap[d][1] = s /\ Swap[d][2] = job[d].had
  BY <1>4
<1>6. \/ local' = [local EXCEPT ![d][s] = cache[d].hash[s]]
      \/ local' = [local EXCEPT ![d][s] = job[d].had]
      \/ local' = local
  BY DEF InstallTarget, InstallFails, Interrupt
<1> QED
  BY <1>2, <1>3, <1>4, <1>5, <1>6 DEF Promise!EndSwap, Swap

\* Everything else a daemon does between the decision and the record is its own
\* affair, except that it looks at the catalog and stores its copies.
LEMMA DaemonKeepsPromise ==
    ASSUME RefinementInv, RefinementInv', NEW d \in Devices, Daemon(d) \/ Fault(d)
    PROVE  Promise!Next \/ UNCHANGED Promise!pvars
<1> USE DEF RefinementInv, IInv, central, mirror, counters
<1>1. ASSUME FetchIndex(d) PROVE Promise!Look(d)
  <2>1. Swap[d] = <<>> /\ Swap' = Swap
    BY <1>1, SwapKept DEF FetchIndex, Goto, TypeOK, Swap, Daemon
  <2>2. View' = [View EXCEPT ![d] = index.hash]
    BY <1>1 DEF FetchIndex, TypeOK, View
  <2> QED
    BY <1>1, <2>1, <2>2 DEF FetchIndex, Promise!Look, Swap, View
<1>2. ASSUME NEW s \in Skills, RemoveTarget(d, s) PROVE Promise!Withdraw(d, s)
  BY <1>2, RemoveTargetWithdraws
<1>3. ASSUME InstallTarget(d) \/ InstallFails(d) \/ Interrupt(d), pc[d] = "replacing"
      PROVE  Promise!EndSwap(d)
  BY <1>3, InstallEndsSwap
<1>4. ASSUME NEW s \in Skills, UploadArchive(d, s) PROVE Promise!Store(d, s)
  <2>1. Swap' = Swap
    BY <1>4, SwapKept DEF UploadArchive, Daemon
  <2>2. job[d].snap = local[d] /\ local[d][s] # Absent
    BY <1>4 DEF UploadArchive, ToUpload, PlanBacked
  <2> QED
    BY <1>4, <2>1, <2>2 DEF UploadArchive, Promise!Store, Swap
<1>5. ASSUME PutIndex(d) \/ PutIndexUnacknowledged(d) PROVE Promise!Publish(d)
  <2>1. WriteIndex(d) /\ UNCHANGED <<archives, local, cache>>
    BY <1>5 DEF PutIndex, PutIndexUnacknowledged
  <2>2. pc[d] = "uploading" /\ pc'[d] # "replacing"
    BY <1>5, <2>1 DEF WriteIndex, PutIndex, PutIndexUnacknowledged, Goto, TypeOK
  <2>3. Swap' = Swap
    BY <1>5, <2>2, SwapKept DEF Daemon, Fault
  <2> QED
    BY <2>1, <2>3, WriteIndexPublishes
<1>6. ASSUME UNCHANGED <<index, archives, local, cache>>,
             pc[d] # "replacing", pc'[d] # "replacing"
      PROVE  UNCHANGED Promise!pvars
  <2>1. Swap' = Swap
    BY <1>6, SwapKept
  <2> QED
    BY <1>6, <2>1 DEF Promise!pvars, Swap
<1>7. \/ FetchIndex(d) \/ \E s \in Skills : RemoveTarget(d, s) \/ UploadArchive(d, s)
      \/ (InstallTarget(d) \/ InstallFails(d) \/ Interrupt(d)) /\ pc[d] = "replacing"
      \/ PutIndex(d) \/ PutIndexUnacknowledged(d)
      \/ /\ UNCHANGED <<index, archives, local, cache>>
         /\ pc[d] # "replacing" /\ pc'[d] # "replacing"
  BY DEF Daemon, Fault, FetchArchive, FetchDangling, GateBlocked, GatePassed,
         PreviewEnds, PreviewAccepted, AssertRemote, InstallTarget, InstallFails,
         PullsFinished, ScanLocal, RecordBase, Interrupt, EndCycle, Goto, TypeOK
<1> QED
  BY <1>1, <1>2, <1>3, <1>4, <1>5, <1>6, <1>7 DEF Promise!Next

LEMMA PromiseStep ==
    ASSUME Calm, RefinementInv, RefinementInv', [Next]_vars
    PROVE  Promise!Next \/ UNCHANGED Promise!pvars
<1> USE DEF RefinementInv, IInv, central, mirror, counters
<1>1. ASSUME NEW d \in Devices, Restart(d) PROVE UNCHANGED Promise!pvars
  <2>1. Swap' = Swap
    BY <1>1 DEF Restart, Goto, TypeOK, Swap
  <2> QED
    BY <1>1, <2>1 DEF Restart, Promise!pvars, Swap
<1>2. ASSUME NEW d \in Devices, NEW s \in Skills, NEW content \in Content,
             Edit(d, s, content)
      PROVE  Promise!Edit(d)
  <2>1. Swap[d] = <<>> /\ Swap' = Swap /\ UNCHANGED <<index, archives, cache>>
    BY <1>2, CalmEdit DEF Swap, QuietPhases
  <2>2. local' = [local EXCEPT ![d][s] = content]
    BY <1>2 DEF Edit
  <2> QED
    BY <2>1, <2>2 DEF Promise!Edit, Swap, Content
<1>3. CASE UNCHANGED vars
  BY <1>3 DEF vars, Promise!pvars
<1> QED
  BY <1>1, <1>2, <1>3, CalmStep, DaemonKeepsPromise DEF Promise!Next

\* In a calm world the cycles, faults and users of SkillSync do nothing that
\* SyncPromise does not allow: only stored versions are listed, a catalog entry
\* changes only to the copy of the device that publishes it, nothing listed is
\* dropped, and a copy gives way only to a listed version and only if central
\* can give it back.
THEOREM PromiseKept == ASSUME Calm PROVE Spec => ImplementsPromise
<1>1. RefinementInv /\ RefinementInv' /\ [Next]_vars => [Promise!Next]_(Promise!pvars)
  BY PromiseStep
<1> QED
  BY PromiseInit, RefinementInvariance, <1>1, PTL
  DEF Spec, ImplementsPromise, Promise!Spec

-----------------------------------------------------------------------------
(* What a cycle puts into a skill root, for any devices, skills, policies,      *)
(* overrides, edits, lifecycle operations, interruptions and bounds.            *)

\* A pull is planned only of what the cached index lists as published.
LEMMA PullIsPublished ==
    ASSUME TypeOK, NEW d \in Devices, NEW s \in Skills, Plan(d)[s] \in PULL_ACTIONS
    PROVE  cache[d].hash[s] # Absent /\ s \notin cache[d].deprecated
<1> DEFINE deprecated == s \in cache[d].deprecated
           plain == Classify(base[d][s], local[d][s], cache[d].hash[s], deprecated)
           action == PlanItem(Status(d, s), AllowNew, AllowDelete)
<1>1. Plan(d)[s] = ApplyWriterPolicy(action, Policy[d])
  BY DEF Plan
<1>2. action \in PULL_ACTIONS
  BY <1>1 DEF ApplyWriterPolicy, PULL_ACTIONS
<1>3. Status(d, s) \in {"pull", "remote_new"}
  BY <1>2 DEF PlanItem, PULL_ACTIONS
<1>4. Status(d, s) \in {"local_only", "local_override", plain}
  BY DEF Status, ClassifyWithOverride
<1>5. plain \in {"pull", "remote_new"}
  BY <1>3, <1>4
<1>6. CASE deprecated
  <2>1. deprecated = TRUE
    BY <1>6
  <2>2. plain = IF cache[d].hash[s] # Absent THEN "central_deprecated"
                ELSE IF base[d][s] = Absent
                THEN ClassifyWithoutBase(local[d][s], cache[d].hash[s])
                ELSE ClassifyWithBase(base[d][s], local[d][s], cache[d].hash[s])
    BY <2>1 DEF Classify
  <2> QED
    BY <1>5, <2>2 DEF ClassifyWithoutBase, ClassifyWithBase
<1>7. CASE ~ deprecated
  <2>1. deprecated = FALSE
    BY <1>7
  <2>2. plain = IF base[d][s] = Absent
                THEN ClassifyWithoutBase(local[d][s], cache[d].hash[s])
                ELSE ClassifyWithBase(base[d][s], local[d][s], cache[d].hash[s])
    BY <2>1 DEF Classify
  <2> QED
    BY <1>5, <1>7, <2>2 DEF ClassifyWithoutBase, ClassifyWithBase
<1> QED
  BY <1>6, <1>7

\* The job of a device whose plan was accepted, or that goes on with it.
LEMMA PlanKept ==
    ASSUME TypeOK, NEW d \in Devices, NEW s \in Skills
    PROVE  /\ RemoveTarget(d, s) => job'[d].plan = job[d].plan /\ job'[d].item = s
           /\ InstallTarget(d) => job'[d].plan = job[d].plan
           /\ PreviewAccepted(d) => job'[d].plan = Plan(d)
<1>1. job[d] \in Job /\ job \in [Devices -> Job]
  BY DEF TypeOK
<1>2. ASSUME RemoveTarget(d, s)
      PROVE  job'[d].plan = job[d].plan /\ job'[d].item = s
  BY <1>1, <1>2 DEF RemoveTarget, Job
<1>3. ASSUME InstallTarget(d) PROVE job'[d].plan = job[d].plan
  BY <1>1, <1>3 DEF InstallTarget, Job
<1>4. ASSUME PreviewAccepted(d) PROVE job'[d].plan = Plan(d)
  BY <1>1, <1>4 DEF PreviewAccepted, Job
<1> QED
  BY <1>2, <1>3, <1>4

\* A step of the device itself.
LEMMA PullFactsOwn ==
    ASSUME TypeOK, NEW d \in Devices, PullFacts(d), Daemon(d) \/ Fault(d),
           archives \subseteq archives'
    PROVE  PullFacts(d)'
<1> USE DEF PullFacts, central, mirror, counters
<1>1. CASE FetchArchive(d)
  BY <1>1 DEF FetchArchive, TypeOK
<1>2. CASE GatePassed(d)
  BY <1>2 DEF GatePassed, Goto, TypeOK, Missing, Referenced
<1>3. CASE PreviewAccepted(d)
  <2>1. /\ pc[d] = "gated" /\ pc'[d] \in {"asserting", "pulling"}
        /\ UNCHANGED <<archives, cache, cached>>
    BY <1>3 DEF PreviewAccepted, Goto, TypeOK
  <2>2. \A s \in Skills : job'[d].plan = Plan(d)
    BY <1>3, PlanKept
  <2>3. ASSUME NEW s \in Pulls(d)'
        PROVE  cache[d].hash[s] # Absent /\ s \notin cache[d].deprecated
    <3>1. s \in Skills /\ Plan(d)[s] \in PULL_ACTIONS
      BY <2>2 DEF Pulls, Having
    <3> QED
      BY <3>1, PullIsPublished
  <2> QED
    BY <2>1, <2>3 DEF Missing, Referenced
<1>4. CASE AssertRemote(d)
  BY <1>4 DEF AssertRemote, EndCycle, Goto, TypeOK, Missing, Referenced, Pulls
<1>5. ASSUME NEW s \in Skills, RemoveTarget(d, s) PROVE PullFacts(d)'
  <2>1. /\ pc[d] = "pulling" /\ pc'[d] = "replacing" /\ s \in Pulls(d)
        /\ UNCHANGED <<archives, cache, cached>>
    BY <1>5 DEF RemoveTarget, Goto, TypeOK
  <2>2. job'[d].plan = job[d].plan /\ job'[d].item = s
    BY <1>5, PlanKept
  <2> QED
    BY <2>1, <2>2 DEF Missing, Referenced, Pulls
<1>6. CASE InstallTarget(d)
  <2>1. /\ pc[d] = "replacing" /\ pc'[d] = "pulling"
        /\ UNCHANGED <<archives, cache, cached>>
    BY <1>6 DEF InstallTarget, Goto, TypeOK
  <2>2. \A s \in Skills : job'[d].plan = job[d].plan
    BY <1>6, PlanKept
  <2>3. Pulls(d)' \subseteq Pulls(d)
    BY <2>2 DEF Pulls, Having
  <2> QED
    BY <2>1, <2>3 DEF Missing, Referenced
<1>7. CASE /\ UNCHANGED <<cached>>
           /\ pc'[d] \in {"idle", "fetching", "stopped"}
  BY <1>7
<1>8. CASE /\ UNCHANGED <<cache, cached>>
           /\ pc[d] \notin {"idle", "fetching", "stopped"}
           /\ pc'[d] \in {"scanning", "uploading", "recording"}
  BY <1>8 DEF Missing, Referenced
<1>9. \/ FetchArchive(d) \/ GatePassed(d) \/ PreviewAccepted(d) \/ AssertRemote(d)
      \/ \E s \in Skills : RemoveTarget(d, s)
      \/ InstallTarget(d)
      \/ UNCHANGED <<cached>> /\ pc'[d] \in {"idle", "fetching", "stopped"}
      \/ /\ UNCHANGED <<cache, cached>>
         /\ pc[d] \notin {"idle", "fetching", "stopped"}
         /\ pc'[d] \in {"scanning", "uploading", "recording"}
  BY DEF Daemon, Fault, FetchIndex, FetchDangling, GateBlocked, PreviewEnds,
         InstallFails, PullsFinished, ScanLocal, UploadArchive, PutIndex, WriteIndex,
         PutIndexUnacknowledged, RecordBase, Interrupt, EndCycle, Goto, TypeOK
<1> QED
  BY <1>1, <1>2, <1>3, <1>4, <1>5, <1>6, <1>7, <1>8, <1>9

LEMMA PullInvInit == Init => PullInv
<1> SUFFICES ASSUME Init PROVE PullInv
  OBVIOUS
<1>1. TypeOK
  BY TypeInit
<1>2. \A d \in Devices : pc[d] = "idle" /\ cached[d] = {}
  BY DEF Init
<1> QED
  BY <1>1, <1>2 DEF PullInv, PullFacts, Replacing

LEMMA PullInvNext == PullInv /\ [Next]_vars => PullInv'
<1> SUFFICES ASSUME PullInv, [Next]_vars PROVE PullInv'
  OBVIOUS
<1> USE DEF PullInv, central, mirror, counters
<1>1. TypeOK' /\ Replacing' /\ archives \subseteq archives'
  BY TypeNext, ArchivesGrow
<1>2. ASSUME NEW e \in Devices PROVE PullFacts(e)'
  <2>0. PullFacts(e)
    OBVIOUS
  <2>1. ASSUME NEW d \in Devices, Daemon(d) \/ Fault(d), e # d PROVE PullFacts(e)'
    BY <1>1, <2>0, <2>1, OtherDevices
    DEF SameElsewhere, PullFacts, Missing, Referenced, Pulls
  <2>2. ASSUME Daemon(e) \/ Fault(e) PROVE PullFacts(e)'
    BY <1>1, <2>0, <2>2, PullFactsOwn
  <2>3. ASSUME NEW d \in Devices, Restart(d) PROVE PullFacts(e)'
    BY <2>0, <2>3 DEF Restart, Goto, TypeOK, PullFacts, Missing, Referenced, Pulls
  <2>4. ASSUME /\ UNCHANGED <<archives, cache, cached, pc>>
               /\ job'[e].plan = job[e].plan /\ job'[e].item = job[e].item
        PROVE  PullFacts(e)'
    BY <2>0, <2>4 DEF PullFacts, Missing, Referenced, Pulls
  <2>5. ASSUME NEW d \in Devices, NEW s \in Skills, NEW content \in Content,
               Edit(d, s, content)
        PROVE  PullFacts(e)'
    BY <2>4, <2>5 DEF Edit
  <2>6. ASSUME NEW s \in Skills, NEW to \in LifecycleStates, LifecycleCheck(s, to)
        PROVE  PullFacts(e)'
    BY <2>4, <2>6 DEF LifecycleCheck
  <2>7. ASSUME LifecyclePut PROVE PullFacts(e)'
    BY <2>4, <2>7, OvertakenKeeps DEF LifecyclePut
  <2>8. CASE UNCHANGED vars
    BY <2>4, <2>8 DEF vars
  <2> QED
    BY <2>1, <2>2, <2>3, <2>5, <2>6, <2>7, <2>8 DEF Next, Environment
<1> QED
  BY <1>1, <1>2

LEMMA PullInvariance == Spec => []PullInv
BY PullInvInit, PullInvNext, PTL DEF Spec

\* A skill root changes, but for its user's edits, only where a pull removes the
\* old version, installs the cached one, or puts the old one back.
LEMMA RootSteps ==
    ASSUME TypeOK, Next, edits' = edits, NEW e \in Devices, local'[e] # local[e]
    PROVE  \/ \E k \in Skills : RemoveTarget(e, k)
           \/ InstallTarget(e) \/ InstallFails(e)
<1> USE DEF central, mirror, counters
<1>1. ASSUME NEW d \in Devices, Daemon(d) \/ Fault(d), e # d PROVE FALSE
  BY <1>1, OtherDevices DEF SameElsewhere
<1>2. ASSUME Daemon(e) \/ Fault(e)
      PROVE  \/ \E k \in Skills : RemoveTarget(e, k)
             \/ InstallTarget(e) \/ InstallFails(e)
  BY <1>2
  DEF Daemon, Fault, FetchIndex, FetchArchive, FetchDangling, GateBlocked,
      GatePassed, PreviewEnds, PreviewAccepted, AssertRemote, PullsFinished,
      ScanLocal, UploadArchive, PutIndex, PutIndexUnacknowledged, RecordBase,
      Interrupt
<1>3. ASSUME NEW d \in Devices, NEW s \in Skills, NEW content \in Content,
             Edit(d, s, content)
      PROVE  FALSE
  BY <1>3 DEF Edit, TypeOK
<1> QED
  BY <1>1, <1>2, <1>3 DEF Next, Environment, Restart, LifecycleCheck, LifecyclePut

\* A deprecated skill's copy, or its absence, survives every cycle that works
\* from an index that says so, whatever else happens.
THEOREM DeprecatedUntouchedEver == Spec => DeprecatedUntouched
<1> DEFINE Untouched ==
        \A d \in Devices : \A s \in cache[d].deprecated : local'[d][s] = local[d][s]
<1>1. PullInv /\ [Next]_vars => [edits' = edits => Untouched]_vars
  <2> SUFFICES ASSUME PullInv, Next, edits' = edits, NEW e \in Devices,
                      NEW s \in cache[e].deprecated, local'[e][s] # local[e][s]
               PROVE  FALSE
    BY DEF vars
  <2>1. TypeOK /\ PullFacts(e) /\ s \in Skills
    BY DEF PullInv, TypeOK, Index
  <2>2. ASSUME NEW k \in Skills, RemoveTarget(e, k) PROVE FALSE
    BY <2>1, <2>2 DEF RemoveTarget, PullFacts, TypeOK, Hashes
  <2>3. ASSUME InstallTarget(e) \/ InstallFails(e) PROVE FALSE
    BY <2>1, <2>3 DEF InstallTarget, InstallFails, PullFacts, TypeOK, Hashes
  <2> QED
    BY <2>1, <2>2, <2>3, RootSteps
<1> QED
  BY PullInvariance, <1>1, PTL DEF Spec, DeprecatedUntouched

\* What a cycle installs is central's and can be fetched again by others, also
\* when the index it came from was put together by overlapping pushes.
THEOREM PulledIsArchivedEver == Spec => PulledIsArchived
<1> DEFINE Stored ==
        \A d \in Devices, s \in Skills :
           local'[d][s] \notin {local[d][s], Absent, job[d].had}
              => <<s, local'[d][s]>> \in archives
<1>1. PullInv /\ [Next]_vars => [edits' = edits => Stored]_vars
  <2> SUFFICES ASSUME PullInv, Next, edits' = edits, NEW e \in Devices, NEW s \in Skills,
                      local'[e][s] \notin {local[e][s], Absent, job[e].had}
               PROVE  <<s, local'[e][s]>> \in archives
    BY DEF vars
  <2>1. TypeOK /\ PullFacts(e)
    BY DEF PullInv
  <2>2. ASSUME NEW k \in Skills, RemoveTarget(e, k) PROVE FALSE
    BY <2>1, <2>2 DEF RemoveTarget, TypeOK, Hashes
  <2>3. ASSUME InstallFails(e) PROVE FALSE
    BY <2>1, <2>3 DEF InstallFails, TypeOK, Hashes
  <2>4. ASSUME InstallTarget(e) PROVE <<s, local'[e][s]>> \in archives
    <3>1. local'[e][s] = cache[e].hash[s] /\ pc[e] = "replacing"
      BY <2>1, <2>4 DEF InstallTarget, TypeOK, Hashes
    <3>2. Missing(e) = {} /\ cached[e] \subseteq archives
      BY <2>1, <3>1 DEF PullFacts
    <3> QED
      BY <3>1, <3>2 DEF Missing, Referenced
  <2> QED
    BY <2>1, <2>2, <2>3, <2>4, RootSteps
<1> QED
  BY PullInvariance, <1>1, PTL DEF Spec, PulledIsArchived
=============================================================================
