--------------------------- MODULE SyncWatchProofs ---------------------------
(* Theorems about cycles that anything may disturb: edits at any moment,      *)
(* overrides, lifecycle operations, interruptions and racing pushes, for any  *)
(* devices, skills, versions, policies, initial contents and bounds.          *)
EXTENDS SyncWatch, SkillSyncProofs

LEMMA CheckStandsNext ==
    ASSUME TypeOK, Unplanned, CheckStands, [Next]_vars
    PROVE  CheckStands'
<1> SUFFICES ASSUME NEW e \in Devices, PastCheck(e)', ~ job'[e].raced
             PROVE  index'.hash = cache'[e].hash
  BY DEF CheckStands
<1> USE DEF central, mirror, counters
<1>0. PastCheck(e) /\ ~ job[e].raced => index.hash = cache[e].hash
  BY DEF CheckStands
<1>1. ASSUME NEW d \in Devices, Daemon(d) \/ Fault(d), e # d
      PROVE  index'.hash = cache'[e].hash
  <2>1. SameElsewhere(e)
    BY <1>1, OtherDevices
  <2>2. PastCheck(e)
    BY <2>1 DEF SameElsewhere, PastCheck, Pushes
  <2>3. job'[e] = job[e] /\ index'.hash = index.hash
    BY <2>1, <2>2 DEF SameElsewhere
  <2> QED
    BY <1>0, <2>1, <2>2, <2>3 DEF SameElsewhere
<1>2. ASSUME PreviewAccepted(e) PROVE index'.hash = cache'[e].hash
  <2>1. /\ job'[e].plan = Plan(e)
        /\ pc'[e] = IF Having(Plan(e), PUSH_ACTIONS) # {} THEN "asserting" ELSE "pulling"
    BY <1>2, AcceptedJob
  <2> QED
    BY <2>1 DEF PastCheck, Pushes
<1>3. ASSUME AssertRemote(e) PROVE index'.hash = cache'[e].hash
  BY <1>3 DEF AssertRemote, EndCycle, Goto, TypeOK, PastCheck, RemoteMatchesCache
<1>4. CASE /\ UNCHANGED <<index, cache>>
           /\ pc[e] \in {"pulling", "replacing", "scanning", "uploading"}
           /\ job'[e].plan = job[e].plan /\ job'[e].raced = job[e].raced
  BY <1>0, <1>4 DEF PastCheck, Pushes
<1>5. ASSUME Daemon(e) \/ Fault(e) PROVE index'.hash = cache'[e].hash
  <2>1. ASSUME \/ \E s \in Skills : RemoveTarget(e, s)
               \/ InstallTarget(e) \/ PullsFinished(e) \/ ScanLocal(e)
               \/ \E s \in Skills : UploadArchive(e, s)
        PROVE  /\ UNCHANGED <<index, cache>>
               /\ pc[e] \in {"pulling", "replacing", "scanning", "uploading"}
               /\ job'[e].plan = job[e].plan /\ job'[e].raced = job[e].raced
    <3> DEFINE Goal == /\ UNCHANGED <<index, cache>>
                       /\ pc[e] \in {"pulling", "replacing", "scanning", "uploading"}
                       /\ job'[e].plan = job[e].plan /\ job'[e].raced = job[e].raced
    <3>0. job[e] \in Job
      BY DEF TypeOK
    <3>1. ASSUME NEW s \in Skills, RemoveTarget(e, s) PROVE Goal
      BY <3>0, <3>1 DEF RemoveTarget, TypeOK, Job
    <3>2. ASSUME InstallTarget(e) PROVE Goal
      BY <3>0, <3>2 DEF InstallTarget, TypeOK, Job
    <3>3. ASSUME PullsFinished(e) PROVE Goal
      BY <3>0, <3>3 DEF PullsFinished, TypeOK, Job
    <3>4. ASSUME ScanLocal(e) PROVE Goal
      BY <3>0, <3>4 DEF ScanLocal, TypeOK, Job
    <3>5. ASSUME NEW s \in Skills, UploadArchive(e, s) PROVE Goal
      BY <3>0, <3>5 DEF UploadArchive, TypeOK, Job
    <3> QED
      BY <2>1, <3>1, <3>2, <3>3, <3>4, <3>5
  <2>2. \/ PreviewAccepted(e) \/ AssertRemote(e)
        \/ \E s \in Skills : RemoveTarget(e, s)
        \/ InstallTarget(e) \/ PullsFinished(e) \/ ScanLocal(e)
        \/ \E s \in Skills : UploadArchive(e, s)
        \/ pc'[e] \notin {"pulling", "replacing", "scanning", "uploading"}
    BY <1>5
    DEF Daemon, Fault, FetchIndex, FetchArchive, FetchDangling, GateBlocked,
        GatePassed, PreviewEnds, InstallFails, PutIndex, PutIndexUnacknowledged,
        RecordBase, Interrupt, EndCycle, Goto, TypeOK
  <2> QED
    BY <2>1, <2>2, <1>2, <1>3, <1>4 DEF PastCheck
<1>6. ASSUME NEW d \in Devices, Restart(d) PROVE index'.hash = cache'[e].hash
  BY <1>0, <1>6 DEF Restart, Goto, TypeOK, PastCheck, Pushes
<1>7. ASSUME NEW d \in Devices, NEW s \in Skills, NEW content \in Content,
             Edit(d, s, content)
      PROVE  index'.hash = cache'[e].hash
  BY <1>0, <1>7 DEF Edit, PastCheck, Pushes
<1>8. CASE UNCHANGED vars
  BY <1>0, <1>8 DEF vars, PastCheck, Pushes
<1>9. ASSUME NEW s \in Skills, NEW to \in LifecycleStates, LifecycleCheck(s, to)
      PROVE  index'.hash = cache'[e].hash
  BY <1>0, <1>9 DEF LifecycleCheck, PastCheck, Pushes
<1>10. ASSUME LifecyclePut PROVE index'.hash = cache'[e].hash
  <2>1. /\ index' = LifecycleIndex /\ job' = Overtaken(LifecycleIndex)
        /\ UNCHANGED <<cache, pc>>
    BY <1>10 DEF LifecyclePut
  <2>2. job'[e].plan = job[e].plan
    BY <2>1, OvertakenKeeps
  <2>3. PastCheck(e)
    BY <2>1, <2>2 DEF PastCheck, Pushes
  <2>4. job'[e] = IF index'.hash # index.hash
                  THEN [job[e] EXCEPT !.raced = TRUE] ELSE job[e]
    BY <2>1, <2>3 DEF Overtaken
  <2>5. job[e] \in Job /\ [job[e] EXCEPT !.raced = TRUE].raced
    BY DEF TypeOK, Job
  <2> QED
    BY <1>0, <2>1, <2>3, <2>4, <2>5
<1> QED
  BY <1>1, <1>5, <1>6, <1>7, <1>8, <1>9, <1>10 DEF Next, Environment

\* What the device sees of itself is as it was.
Frame(e) ==
    /\ pc'[e] = pc[e] /\ local'[e] = local[e] /\ base'[e] = base[e]
    /\ cache'[e] = cache[e] /\ dirty'[e] = dirty[e]
    /\ job'[e].plan = job[e].plan /\ job'[e].done = job[e].done
    /\ job'[e].item = job[e].item /\ job'[e].snap = job[e].snap

DeviceInv(d) ==
    /\ InOrder(d)
    /\ OnlyPlannedDiffers(d)
    /\ CycleHolds(d)
    /\ d \notin unrecorded => UntouchedIsBase(d) /\ PlansAreEdits(d)

\* How the record of disturbances changes for a device.
LEMMA WatchSees ==
    ASSUME WatchTypes, Watch, NEW e \in Devices
    PROVE  /\ WatchTypes'
           /\ pc'[e] \notin QuietPhases => late[e] \subseteq late'[e]
           /\ pc'[e] \notin QuietPhases /\ edits' # edits =>
                 \A s \in Skills : local'[e][s] # local[e][s] => s \in late'[e]
           /\ e \notin unrecorded' => ~ CutShort(e) \/ Records(e)
           /\ e \in unrecorded /\ ~ Records(e) => e \in unrecorded'
<1>1. late'[e] = IF pc'[e] \in QuietPhases THEN {}
                 ELSE late[e] \cup {s \in Skills : /\ edits' # edits
                                                   /\ local'[e][s] # local[e][s]}
  BY DEF Watch
<1>2. WatchTypes'
  BY DEF WatchTypes, Watch
<1> QED
  BY <1>1, <1>2 DEF Watch, Records, CutShort

LEMMA FrameKeeps ==
    ASSUME WatchTypes, Watch, NEW e \in Devices, Frame(e), DeviceInv(e)
    PROVE  DeviceInv(e)'
<1>1. Pushes(e)' = Pushes(e) /\ Pulls(e)' = Pulls(e) /\ Pulled(e)' = Pulled(e)
  BY DEF Frame, Pushes, Pulls, Pulled
<1>2. ~ Records(e)
  BY DEF Frame, Records
<1>3. e \notin unrecorded' => e \notin unrecorded
  BY <1>2, WatchSees
<1>4. pc[e] \notin QuietPhases => Exempt(e) \subseteq Exempt(e)'
  BY WatchSees DEF Frame, Exempt
<1>5. InOrder(e)' /\ CycleHolds(e)'
  BY <1>1 DEF Frame, DeviceInv, InOrder, CycleHolds
<1>6. OnlyPlannedDiffers(e)'
  BY <1>1, <1>4 DEF Frame, DeviceInv, OnlyPlannedDiffers, QuietPhases
<1>7. e \notin unrecorded' => UntouchedIsBase(e)' /\ PlansAreEdits(e)'
  BY <1>1, <1>3 DEF Frame, DeviceInv, UntouchedIsBase, PlansAreEdits
<1> QED
  BY <1>5, <1>6, <1>7 DEF DeviceInv

\* Between cycles only the base record matters.
LEMMA QuietDevice ==
    ASSUME NEW e \in Devices, Unplanned', pc'[e] \in QuietPhases,
           e \notin unrecorded' =>
              \A s \in Skills \ dirty'[e] : base'[e][s] \in {local'[e][s], Absent}
    PROVE  DeviceInv(e)'
<1>1. Pulls(e)' = {} /\ Pushes(e)' = {} /\ Pulled(e)' = {}
  BY DEF Unplanned, Pulled, Pulls, Pushes, Having, NoJob, PULL_ACTIONS, PUSH_ACTIONS
<1> QED
  BY <1>1 DEF DeviceInv, InOrder, OnlyPlannedDiffers, CycleHolds, UntouchedIsBase,
     PlansAreEdits, QuietPhases

\* A device at rest, or not yet beyond the comparison, has pulled nothing.
LEMMA AtRest ==
    ASSUME Unplanned, NEW e \in Devices, DeviceInv(e), e \notin unrecorded,
           pc[e] \in QuietPhases \cup {"asserting"}
    PROVE  \A s \in Skills \ dirty[e] : base[e][s] \in {local[e][s], Absent}
<1>1. Pulled(e) = {}
  BY DEF Unplanned, DeviceInv, InOrder, Pulled, Pulls, Having, NoJob,
     PULL_ACTIONS, QuietPhases
<1> QED
  BY <1>1 DEF DeviceInv, UntouchedIsBase, QuietPhases

\* What a plan made of an untouched skill can push: only what central lacks.
LEMMA EditedPlan ==
    ASSUME NEW d \in Devices, NEW s \in Having(Plan(d), PUSH_ACTIONS),
           base[d][s] \in {local[d][s], Absent}
    PROVE  cache[d].hash[s] = Absent
<1> DEFINE deprecated == s \in cache[d].deprecated
           plain == Classify(base[d][s], local[d][s], cache[d].hash[s], deprecated)
           action == PlanItem(Status(d, s), AllowNew, AllowDelete)
<1>0. s \in Skills
  BY DEF Having
<1>1. Plan(d)[s] = ApplyWriterPolicy(action, Policy[d])
  BY <1>0 DEF Plan
<1>2. action \in PUSH_ACTIONS
  BY <1>1 DEF ApplyWriterPolicy, Having, PUSH_ACTIONS
<1>3. Status(d, s) \in {"push", "local_new"}
  BY <1>2 DEF PlanItem, PUSH_ACTIONS
<1>4. Status(d, s) \in {"local_only", "local_override", plain}
  BY DEF Status, ClassifyWithOverride
<1>5. plain \in {"push", "local_new"}
  BY <1>3, <1>4
<1>6. CASE s \in cache[d].deprecated
  <2>1. (s \in cache[d].deprecated) = TRUE
    BY <1>6
  <2> QED
    BY <1>5, <2>1 DEF Classify
<1>7. CASE s \notin cache[d].deprecated
  <2>1. (s \in cache[d].deprecated) = FALSE
    BY <1>7
  <2>2. plain = IF base[d][s] = Absent
                THEN ClassifyWithoutBase(local[d][s], cache[d].hash[s])
                ELSE ClassifyWithBase(base[d][s], local[d][s], cache[d].hash[s])
    BY <2>1 DEF Classify
  <2>3. CASE base[d][s] = Absent
    BY <1>5, <2>2, <2>3 DEF ClassifyWithoutBase
  <2>4. CASE base[d][s] # Absent
    BY <1>5, <2>2, <2>4 DEF ClassifyWithBase
  <2> QED
    BY <2>3, <2>4
<1> QED
  BY <1>6, <1>7

\* A cycle that ends leaves a base record of what the device holds, or is known
\* to have been cut short.
LEMMA CycleEnds ==
    ASSUME TypeOK, Unplanned, Unplanned', WatchTypes, Watch, NEW e \in Devices,
           Daemon(e) \/ Fault(e), DeviceInv(e), pc'[e] \in QuietPhases
    PROVE  DeviceInv(e)'
<1> USE DEF central, mirror, counters
<1> SUFFICES ASSUME e \notin unrecorded', NEW s \in Skills, s \notin dirty'[e]
             PROVE  base'[e][s] \in {local'[e][s], Absent}
  BY QuietDevice
<1>1. CASE pc[e] \in QuietPhases \cup {"asserting"}
  <2>1. UNCHANGED <<local, base, dirty>>
    BY <1>1
    DEF Daemon, Fault, FetchIndex, FetchArchive, FetchDangling, GateBlocked,
        GatePassed, PreviewEnds, PreviewAccepted, AssertRemote, RemoveTarget,
        InstallTarget, InstallFails, PullsFinished, ScanLocal, UploadArchive,
        PutIndex, PutIndexUnacknowledged, WriteIndex, RecordBase, Interrupt,
        QuietPhases
  <2>2. ~ Records(e)
    BY <1>1 DEF Records, QuietPhases
  <2>3. e \notin unrecorded
    BY <2>2, WatchSees
  <2> QED
    BY <1>1, <2>1, <2>3, AtRest
<1>2. CASE RecordBase(e)
  <2>1. /\ pc[e] = "recording" /\ base'[e] = NewBase(e) /\ UNCHANGED <<local, dirty>>
    BY <1>2 DEF RecordBase, TypeOK
  <2>2. CASE Pushes(e) # {}
    BY <2>1, <2>2 DEF NewBase, DeviceInv, CycleHolds
  <2>3. CASE Pushes(e) = {}
    <3>1. Pulled(e) = Pulls(e)
      BY <2>1 DEF Pulled
    <3> QED
      BY <2>1, <2>3, <3>1 DEF NewBase, DeviceInv, CycleHolds
  <2> QED
    BY <2>2, <2>3
<1>3. CASE pc[e] \notin QuietPhases \cup {"asserting"} /\ ~ RecordBase(e)
  <2>1. pc[e] = "recording" => Interrupt(e)
    BY <1>3
    DEF Daemon, Fault, FetchIndex, FetchArchive, FetchDangling, GateBlocked,
        GatePassed, PreviewEnds, PreviewAccepted, AssertRemote, RemoveTarget,
        InstallTarget, InstallFails, PullsFinished, ScanLocal, UploadArchive,
        PutIndex, PutIndexUnacknowledged, WriteIndex
  <2>2. Interrupt(e) => faults' # faults
    BY DEF Interrupt, TypeOK
  <2>3. CutShort(e) /\ ~ Records(e)
    BY <1>3, <2>1, <2>2 DEF CutShort, Records
  <2> QED
    BY <2>3, WatchSees
<1> QED
  BY <1>1, <1>2, <1>3

\* Every other step of a device's own cycle.
LEMMA CycleGoesOn ==
    ASSUME TypeOK, Unplanned, Unplanned', WatchTypes, Watch, NEW e \in Devices,
           Daemon(e) \/ Fault(e), DeviceInv(e), pc'[e] \notin QuietPhases
    PROVE  DeviceInv(e)'
<1> USE DEF central, mirror, counters
<1>0. job[e] \in Job
  BY DEF TypeOK
<1>a. pc[e] # "recording" \/ pc'[e] = "recording" => ~ Records(e)
  BY DEF Records
<1>b. /\ ~ Records(e)
      /\ Pushes(e) \subseteq Skills /\ Pulls(e) \subseteq Skills
  BY DEF Records, QuietPhases, Pushes, Pulls, Having
<1>c. e \notin unrecorded' => e \notin unrecorded
  BY <1>b, WatchSees
<1>d. cache'[e] = cache[e] => Exempt(e) \subseteq Exempt(e)'
  BY WatchSees DEF Exempt
<1>1. ASSUME PreviewAccepted(e) PROVE DeviceInv(e)'
  <2>1. /\ pc[e] = "gated" /\ pc'[e] \in {"asserting", "pulling"}
        /\ job'[e].plan = Plan(e) /\ job'[e].done = {}
        /\ Halting(Plan(e)) = {}
        /\ UNCHANGED <<local, base, cache, dirty>>
    BY <1>1, AcceptedJob DEF PreviewAccepted
  <2>2. Pulled(e)' = {}
    BY <2>1 DEF Pulled
  <2>3. InOrder(e)' /\ CycleHolds(e)'
    BY <2>1, <2>2 DEF InOrder, CycleHolds
  <2>4. OnlyPlannedDiffers(e)'
    <3> SUFFICES ASSUME NEW s \in Skills \ (Pushes(e)' \cup Exempt(e)')
                 PROVE  local[e][s] = cache[e].hash[s] \/ s \in Pulls(e)'
      BY <2>1 DEF OnlyPlannedDiffers
    <3>1. s \notin cache[e].deprecated /\ Override[e][s] = {}
      BY <2>1 DEF Exempt
    <3> QED
      BY <2>1, <3>1, AcceptedPlan DEF Pulls, Pushes
  <2>5. ASSUME e \notin unrecorded'
        PROVE  UntouchedIsBase(e)' /\ PlansAreEdits(e)'
    <3>1. \A s \in Skills \ dirty[e] : base[e][s] \in {local[e][s], Absent}
      BY <1>c, <2>1, <2>5, AtRest DEF QuietPhases
    <3>2. UntouchedIsBase(e)'
      BY <2>1, <3>1 DEF UntouchedIsBase
    <3>3. \A s \in Having(Plan(e), PUSH_ACTIONS) :
             s \in dirty[e] \/ cache[e].hash[s] = Absent
      BY <3>1, EditedPlan DEF Having
    <3> QED
      BY <2>1, <3>2, <3>3 DEF PlansAreEdits, Pushes
  <2> QED
    BY <2>3, <2>4, <2>5 DEF DeviceInv
<1>2. ASSUME AssertRemote(e) PROVE DeviceInv(e)'
  <2>1. /\ pc[e] = "asserting" /\ pc'[e] = "pulling"
        /\ UNCHANGED <<job, local, base, cache, dirty>>
    BY <1>2 DEF AssertRemote, EndCycle, Goto, TypeOK, QuietPhases
  <2>2. /\ Pushes(e)' = Pushes(e) /\ Pulls(e)' = Pulls(e)
        /\ Pulled(e) = {} /\ Pulled(e)' = {}
    BY <2>1 DEF Pushes, Pulls, Pulled, DeviceInv, InOrder
  <2>3. InOrder(e)' /\ CycleHolds(e)'
    BY <2>1, <2>2 DEF InOrder, CycleHolds
  <2>4. OnlyPlannedDiffers(e)'
    BY <1>d, <2>1, <2>2 DEF DeviceInv, OnlyPlannedDiffers
  <2>5. e \notin unrecorded' => UntouchedIsBase(e)' /\ PlansAreEdits(e)'
    BY <1>c, <2>1, <2>2 DEF DeviceInv, UntouchedIsBase, PlansAreEdits
  <2> QED
    BY <2>3, <2>4, <2>5 DEF DeviceInv
<1>3. ASSUME NEW k \in Skills, RemoveTarget(e, k) PROVE DeviceInv(e)'
  <2>1. /\ pc[e] = "pulling" /\ pc'[e] = "replacing"
        /\ k \in Pulls(e) \ job[e].done
        /\ UNCHANGED <<cache, base, dirty>>
    BY <1>3 DEF RemoveTarget, Goto, TypeOK
  <2>2. job'[e] = [job[e] EXCEPT !.item = k, !.had = local[e][k]]
    BY <1>3 DEF RemoveTarget, TypeOK
  <2>3. job'[e].plan = job[e].plan /\ job'[e].done = job[e].done /\ job'[e].item = k
    BY <1>0, <2>2 DEF Job
  <2>4. \A s \in Skills \ {k} : local'[e][s] = local[e][s]
    BY <1>3 DEF RemoveTarget, TypeOK, Hashes
  <2>5. /\ Pulled(e)' = Pulled(e) /\ Pulls(e)' = Pulls(e) /\ Pushes(e)' = Pushes(e)
        /\ k \notin Pulled(e)
    BY <2>1, <2>3 DEF Pulled, Pulls, Pushes
  <2>6. InOrder(e)'
    BY <2>1, <2>3, <2>5 DEF InOrder
  <2>7. CycleHolds(e)'
    BY <2>1, <2>4, <2>5 DEF DeviceInv, CycleHolds
  <2>8. OnlyPlannedDiffers(e)'
    BY <1>d, <2>1, <2>3, <2>4, <2>5 DEF DeviceInv, OnlyPlannedDiffers
  <2>9. e \notin unrecorded' => UntouchedIsBase(e)' /\ PlansAreEdits(e)'
    BY <1>c, <2>1, <2>3, <2>4, <2>5 DEF DeviceInv, UntouchedIsBase, PlansAreEdits
  <2> QED
    BY <2>6, <2>7, <2>8, <2>9 DEF DeviceInv
<1>4. ASSUME InstallTarget(e) PROVE DeviceInv(e)'
  <2> DEFINE k == job[e].item
  <2>1. /\ pc[e] = "replacing" /\ pc'[e] = "pulling"
        /\ UNCHANGED <<cache, base>> /\ dirty'[e] = dirty[e] \ {k}
    BY <1>4 DEF InstallTarget, Goto, TypeOK
  <2>2. job'[e].plan = job[e].plan /\ job'[e].done = job[e].done \cup {k}
    BY <1>0, <1>4 DEF InstallTarget, TypeOK, Job
  <2>3. \A s \in Skills :
           local'[e][s] = IF s = k THEN cache[e].hash[s] ELSE local[e][s]
    BY <1>4 DEF InstallTarget, TypeOK, Hashes
  <2>4. k \in Pulls(e)
    BY <2>1 DEF DeviceInv, InOrder
  <2>5. /\ Pulled(e)' = Pulled(e) \cup {k}
        /\ Pulls(e)' = Pulls(e) /\ Pushes(e)' = Pushes(e)
    BY <2>1, <2>2, <2>4 DEF Pulled, Pulls, Pushes
  <2>6. k \notin Pushes(e)
    BY <2>4, PullsOrPushes DEF Pulls, Pushes
  <2>7. InOrder(e)'
    BY <2>1 DEF InOrder
  <2>8. CycleHolds(e)'
    BY <2>1, <2>3, <2>5 DEF DeviceInv, CycleHolds
  <2>9. OnlyPlannedDiffers(e)'
    BY <1>d, <2>1, <2>2, <2>3, <2>5 DEF DeviceInv, OnlyPlannedDiffers
  <2>10. e \notin unrecorded' => UntouchedIsBase(e)'
    BY <1>c, <2>1, <2>3, <2>5 DEF DeviceInv, UntouchedIsBase
  <2>11. e \notin unrecorded' => PlansAreEdits(e)'
    BY <1>c, <2>1, <2>5, <2>6 DEF DeviceInv, PlansAreEdits
  <2> QED
    BY <2>7, <2>8, <2>9, <2>10, <2>11 DEF DeviceInv
<1>5. ASSUME PullsFinished(e) PROVE DeviceInv(e)'
  <2>1. /\ pc[e] = "pulling"
        /\ pc'[e] = IF Pushes(e) # {} THEN "scanning" ELSE "recording"
        /\ Pulls(e) \subseteq job[e].done
        /\ UNCHANGED <<local, cache, base, dirty>>
    BY <1>5 DEF PullsFinished, Goto, TypeOK
  <2>2. job'[e].plan = job[e].plan
    BY <1>0, <1>5 DEF PullsFinished, TypeOK, Job
  <2>3. /\ Pulls(e)' = Pulls(e) /\ Pushes(e)' = Pushes(e)
        /\ Pulled(e) = Pulls(e) /\ Pulled(e)' = Pulls(e)
    BY <2>1, <2>2 DEF Pulled, Pulls, Pushes
  <2>4. InOrder(e)' /\ CycleHolds(e)'
    BY <2>1, <2>3 DEF DeviceInv, InOrder, CycleHolds
  <2>5. OnlyPlannedDiffers(e)'
    BY <1>d, <2>1, <2>3 DEF DeviceInv, OnlyPlannedDiffers
  <2>6. e \notin unrecorded' => UntouchedIsBase(e)' /\ PlansAreEdits(e)'
    BY <1>c, <2>1, <2>3 DEF DeviceInv, UntouchedIsBase, PlansAreEdits
  <2> QED
    BY <2>4, <2>5, <2>6 DEF DeviceInv
<1>6. ASSUME ScanLocal(e) PROVE DeviceInv(e)'
  <2>1. /\ pc[e] = "scanning" /\ pc'[e] = "uploading"
        /\ UNCHANGED <<local, cache, base, dirty>>
    BY <1>6 DEF ScanLocal, Goto, TypeOK
  <2>2. job'[e].plan = job[e].plan /\ job'[e].snap = local[e]
    BY <1>0, <1>6 DEF ScanLocal, TypeOK, Job
  <2>3. /\ Pulls(e)' = Pulls(e) /\ Pushes(e)' = Pushes(e) /\ Pulled(e)' = Pulled(e)
    BY <2>1, <2>2 DEF Pulled, Pulls, Pushes
  <2>4. InOrder(e)' /\ CycleHolds(e)'
    BY <2>1, <2>2, <2>3 DEF DeviceInv, InOrder, CycleHolds
  <2>5. OnlyPlannedDiffers(e)'
    BY <1>d, <2>1, <2>2, <2>3 DEF DeviceInv, OnlyPlannedDiffers
  <2>6. e \notin unrecorded' => UntouchedIsBase(e)' /\ PlansAreEdits(e)'
    BY <1>c, <2>1, <2>3 DEF DeviceInv, UntouchedIsBase, PlansAreEdits
  <2> QED
    BY <2>4, <2>5, <2>6 DEF DeviceInv
<1>7. ASSUME NEW k \in Skills, UploadArchive(e, k) PROVE DeviceInv(e)'
  <2>1. pc[e] = "uploading" /\ UNCHANGED <<pc, local, cache, base, dirty>>
    BY <1>7 DEF UploadArchive
  <2>2. job'[e].plan = job[e].plan /\ job'[e].snap = job[e].snap
    BY <1>0, <1>7 DEF UploadArchive, TypeOK, Job
  <2>3. /\ Pulls(e)' = Pulls(e) /\ Pushes(e)' = Pushes(e) /\ Pulled(e)' = Pulled(e)
    BY <2>1, <2>2 DEF Pulled, Pulls, Pushes
  <2>4. InOrder(e)' /\ CycleHolds(e)'
    BY <2>1, <2>2, <2>3 DEF DeviceInv, InOrder, CycleHolds
  <2>5. OnlyPlannedDiffers(e)'
    BY <1>d, <2>1, <2>2, <2>3 DEF DeviceInv, OnlyPlannedDiffers
  <2>6. e \notin unrecorded' => UntouchedIsBase(e)' /\ PlansAreEdits(e)'
    BY <1>c, <2>1, <2>3 DEF DeviceInv, UntouchedIsBase, PlansAreEdits
  <2> QED
    BY <2>4, <2>5, <2>6 DEF DeviceInv
<1>8. ASSUME PutIndex(e) PROVE DeviceInv(e)'
  <2>1. /\ pc[e] = "uploading" /\ pc'[e] = "recording" /\ job'[e] = job[e]
        /\ UNCHANGED <<local, cache, base>>
        /\ dirty'[e] = {s \in dirty[e] : local[e][s] # job[e].snap[s]}
    BY <1>8 DEF PutIndex, WriteIndex, Goto, TypeOK, Overtaken
  <2>2. Pushes(e) # {} /\ Pushes(e)' = Pushes(e)
    BY <2>1 DEF DeviceInv, InOrder, Pushes
  <2>3. InOrder(e)' /\ OnlyPlannedDiffers(e)' /\ PlansAreEdits(e)'
    BY <2>1 DEF InOrder, OnlyPlannedDiffers, PlansAreEdits
  <2>4. CycleHolds(e)'
    BY <2>1, <2>2 DEF DeviceInv, CycleHolds
  <2>5. UntouchedIsBase(e)'
    BY <2>1, <2>2 DEF UntouchedIsBase
  <2> QED
    BY <2>3, <2>4, <2>5 DEF DeviceInv
<1> QED
  <2>1. \/ PreviewAccepted(e) \/ AssertRemote(e)
        \/ \E k \in Skills : RemoveTarget(e, k) \/ UploadArchive(e, k)
        \/ InstallTarget(e) \/ PullsFinished(e) \/ ScanLocal(e) \/ PutIndex(e)
        \/ pc'[e] \in QuietPhases
    BY DEF Daemon, Fault, FetchIndex, FetchArchive, FetchDangling, GateBlocked,
       GatePassed, PreviewEnds, InstallFails, PutIndexUnacknowledged, RecordBase,
       Interrupt, EndCycle, Goto, TypeOK, QuietPhases
  <2> QED
    BY <2>1, <1>1, <1>2, <1>3, <1>4, <1>5, <1>6, <1>7, <1>8

LEMMA EditKeeps ==
    ASSUME TypeOK, Unplanned, Unplanned', WatchTypes, Watch,
           NEW e \in Devices, DeviceInv(e), NEW k \in Skills,
           NEW content \in Content, Edit(e, k, content)
    PROVE  DeviceInv(e)'
<1>1. /\ UNCHANGED <<base, cache, pc, job>> /\ mirror' = mirror
      /\ edits' # edits /\ dirty'[e] = dirty[e] \cup {k}
      /\ local'[e][k] # local[e][k]
      /\ \A s \in Skills \ {k} : local'[e][s] = local[e][s]
  BY DEF Edit, mirror, TypeOK, Hashes
<1>2. e \notin unrecorded' => e \notin unrecorded
  BY <1>1, WatchSees DEF Records
<1>3. CASE pc[e] \in QuietPhases
  <2>1. e \notin unrecorded' =>
           \A s \in Skills \ dirty'[e] : base'[e][s] \in {local'[e][s], Absent}
    BY <1>1, <1>2, <1>3, AtRest
  <2> QED
    BY <1>1, <1>3, <2>1, QuietDevice
<1>4. CASE pc[e] \notin QuietPhases
  <2>1. k \in late'[e] /\ late[e] \subseteq late'[e]
    BY <1>1, <1>4, WatchSees
  <2>2. Exempt(e) \cup {k} \subseteq Exempt(e)'
    BY <1>1, <2>1 DEF Exempt
  <2>3. Pushes(e)' = Pushes(e) /\ Pulls(e)' = Pulls(e) /\ Pulled(e)' = Pulled(e)
    BY <1>1 DEF Pushes, Pulls, Pulled
  <2>4. InOrder(e)' /\ CycleHolds(e)'
    BY <1>1, <2>3 DEF DeviceInv, InOrder, CycleHolds
  <2>5. OnlyPlannedDiffers(e)'
    BY <1>1, <2>2, <2>3 DEF DeviceInv, OnlyPlannedDiffers
  <2>6. e \notin unrecorded' => UntouchedIsBase(e)' /\ PlansAreEdits(e)'
    BY <1>1, <1>2, <2>3 DEF DeviceInv, UntouchedIsBase, PlansAreEdits
  <2> QED
    BY <2>4, <2>5, <2>6 DEF DeviceInv
<1> QED
  BY <1>3, <1>4

LEMMA DeviceNext ==
    ASSUME TypeOK, Unplanned, Unplanned', WatchTypes, Next, Watch,
           NEW e \in Devices, DeviceInv(e)
    PROVE  DeviceInv(e)'
<1>1. ASSUME Daemon(e) \/ Fault(e) PROVE DeviceInv(e)'
  BY <1>1, CycleEnds, CycleGoesOn
<1>2. ASSUME NEW d \in Devices, Daemon(d) \/ Fault(d), e # d PROVE DeviceInv(e)'
  <2>1. SameElsewhere(e)
    BY <1>2, OtherDevices
  <2>2. Frame(e)
    BY <2>1 DEF SameElsewhere, Frame
  <2> QED
    BY <2>2, FrameKeeps
<1>3. ASSUME NEW d \in Devices, Restart(d) PROVE DeviceInv(e)'
  <2>1. UNCHANGED <<local, base, cache, dirty, job>>
    BY <1>3 DEF Restart, mirror
  <2>2. CASE e = d
    <3>1. pc[e] = "stopped" /\ pc'[e] = "idle"
      BY <1>3, <2>2 DEF Restart, Goto, TypeOK
    <3>2. e \notin unrecorded' => e \notin unrecorded
      BY <3>1, WatchSees DEF Records
    <3>3. e \notin unrecorded' =>
             \A s \in Skills \ dirty'[e] : base'[e][s] \in {local'[e][s], Absent}
      BY <2>1, <3>1, <3>2, AtRest DEF QuietPhases
    <3> QED
      BY <3>1, <3>3, QuietDevice DEF QuietPhases
  <2>3. CASE e # d
    <3>1. pc'[e] = pc[e]
      BY <1>3, <2>3 DEF Restart, Goto, TypeOK
    <3> QED
      BY <2>1, <3>1, FrameKeeps DEF Frame
  <2> QED
    BY <2>2, <2>3
<1>4. ASSUME NEW d \in Devices, NEW k \in Skills, NEW content \in Content,
             Edit(d, k, content)
      PROVE  DeviceInv(e)'
  <2>1. CASE e = d
    BY <1>4, <2>1, EditKeeps
  <2>2. CASE e # d
    <3>1. Frame(e)
      BY <1>4, <2>2 DEF Edit, Frame, mirror, TypeOK
    <3> QED
      BY <3>1, FrameKeeps
  <2> QED
    BY <2>1, <2>2
<1>5. ASSUME NEW s \in Skills, NEW to \in LifecycleStates, LifecycleCheck(s, to)
      PROVE  DeviceInv(e)'
  <2>1. Frame(e)
    BY <1>5 DEF LifecycleCheck, Frame, mirror
  <2> QED
    BY <2>1, FrameKeeps
<1>6. ASSUME LifecyclePut PROVE DeviceInv(e)'
  <2>1. /\ UNCHANGED <<local, base, cache, pc, dirty>>
        /\ job' = Overtaken(LifecycleIndex)
    BY <1>6 DEF LifecyclePut, mirror
  <2>2. Frame(e)
    BY <2>1, OvertakenKeeps DEF Frame
  <2> QED
    BY <2>2, FrameKeeps
<1> QED
  BY <1>1, <1>2, <1>3, <1>4, <1>5, <1>6 DEF Next, Environment

LEMMA WatchInvInit == WatchedInit => WatchInv
<1> SUFFICES ASSUME WatchedInit PROVE WatchInv
  OBVIOUS
<1>1. TypeOK
  BY TypeInit DEF WatchedInit
<1>2. Unplanned /\ WatchTypes /\ CheckStands
  BY DEF WatchedInit, Init, Unplanned, WatchTypes, CheckStands, PastCheck
<1>3. ASSUME NEW d \in Devices PROVE DeviceInv(d)
  <2>1. Pulls(d) = {} /\ Pushes(d) = {} /\ Pulled(d) = {}
    BY DEF WatchedInit, Init, NoJob, Pulled, Pulls, Pushes, Having,
       PULL_ACTIONS, PUSH_ACTIONS
  <2>2. \A s \in Skills : base[d][s] \in {local[d][s], Absent}
    BY DEF WatchedInit, Init
  <2> QED
    BY <2>1, <2>2 DEF WatchedInit, Init, DeviceInv, InOrder, OnlyPlannedDiffers,
       CycleHolds, UntouchedIsBase, PlansAreEdits
<1> QED
  BY <1>1, <1>2, <1>3 DEF WatchInv, DeviceInv

LEMMA WatchInvNext == WatchInv /\ [Next /\ Watch]_wvars => WatchInv'
<1> SUFFICES ASSUME WatchInv, [Next /\ Watch]_wvars PROVE WatchInv'
  OBVIOUS
<1>1. CASE Next /\ Watch
  <2>1. Replacing
    BY DEF WatchInv, InOrder, Replacing, Pulls, Having
  <2>a. TypeOK' /\ Unplanned'
    BY <1>1, <2>1, TypeNext, UnplannedNext DEF WatchInv
  <2>b. WatchTypes'
    BY <1>1 DEF WatchInv, Watch, WatchTypes
  <2>2. TypeOK' /\ Unplanned' /\ WatchTypes'
    BY <2>a, <2>b
  <2>3. CheckStands'
    BY <1>1, CheckStandsNext DEF WatchInv
  <2>4. ASSUME NEW d \in Devices PROVE DeviceInv(d)'
    BY <1>1, <2>2, DeviceNext DEF WatchInv, DeviceInv
  <2> QED
    BY <2>2, <2>3, <2>4 DEF WatchInv, DeviceInv
<1>2. CASE UNCHANGED wvars
  <2>1. /\ UNCHANGED <<index, archives, local, base, cache, cached, pc, job>>
        /\ UNCHANGED <<lifecycle, dirty, edits, faults, lifecycles, late, unrecorded>>
    BY <1>2 DEF wvars, vars, central, mirror, counters
  <2>2. TypeOK' /\ WatchTypes' /\ Unplanned'
    BY <2>1 DEF WatchInv, TypeOK, WatchTypes, Unplanned
  <2>3. CheckStands'
    BY <2>1 DEF WatchInv, CheckStands, PastCheck, Pushes
  <2>4. ASSUME NEW d \in Devices PROVE DeviceInv(d)'
    <3>1. Pushes(d)' = Pushes(d) /\ Pulls(d)' = Pulls(d) /\ Exempt(d)' = Exempt(d)
      BY <2>1 DEF Pushes, Pulls, Exempt
    <3>2. Pulled(d)' = Pulled(d)
      BY <2>1, <3>1 DEF Pulled
    <3>3. InOrder(d)' /\ OnlyPlannedDiffers(d)' /\ CycleHolds(d)'
      BY <2>1, <3>1, <3>2 DEF WatchInv, InOrder, OnlyPlannedDiffers, CycleHolds
    <3>4. d \notin unrecorded' => UntouchedIsBase(d)' /\ PlansAreEdits(d)'
      BY <2>1, <3>1, <3>2 DEF WatchInv, UntouchedIsBase, PlansAreEdits
    <3> QED
      BY <3>3, <3>4 DEF DeviceInv
  <2> QED
    BY <2>2, <2>3, <2>4 DEF WatchInv, DeviceInv
<1> QED
  BY <1>1, <1>2

\* Whatever is edited, overridden, marked, interrupted or pushed meanwhile, the
\* parts of WatchInv hold, so the exemptions of the properties below are all
\* there are.
THEOREM WatchInvariance == WatchedSpec => []WatchInv
  BY WatchInvInit, WatchInvNext, PTL DEF WatchedSpec

\* A push that no other writer overtook changes only what its cycle planned to
\* push, what its user changed since the plan, and what the device overrides or
\* its cache marks deprecated: nothing else, whatever is edited meanwhile.
THEOREM PushTouchesOnlyPlannedEver == WatchedSpec => PushTouchesOnlyPlanned
<1>1. ASSUME WatchInv, [Next /\ Watch]_wvars, NEW d \in Devices,
             pc[d] = "uploading", pc'[d] # "uploading", ~ job[d].raced,
             NEW s \in Skills \ (Pushes(d) \cup Exempt(d))
      PROVE  index'.hash[s] = index.hash[s]
  <2>1. Next
    BY <1>1 DEF wvars, vars
  <2>2. job[d].snap[s] = index.hash[s]
    <3>1. Pushes(d) # {} /\ job[d].snap[s] = cache[d].hash[s]
      BY <1>1 DEF WatchInv, InOrder, OnlyPlannedDiffers
    <3>2. index.hash = cache[d].hash
      BY <1>1, <3>1 DEF WatchInv, CheckStands, PastCheck
    <3> QED
      BY <3>1, <3>2
  <2>3. ASSUME NEW e \in Devices, Daemon(e) \/ Fault(e), e # d PROVE FALSE
    BY <1>1, <2>3, OtherDevices DEF SameElsewhere, WatchInv
  <2>4. ASSUME Daemon(d) \/ Fault(d)
        PROVE  index' = index \/ index' = SnapshotIndex(d)
    BY <2>4
    DEF Daemon, Fault, FetchIndex, FetchArchive, FetchDangling, GateBlocked,
        GatePassed, PreviewEnds, PreviewAccepted, AssertRemote, RemoveTarget,
        InstallTarget, InstallFails, PullsFinished, ScanLocal, UploadArchive,
        PutIndex, PutIndexUnacknowledged, WriteIndex, RecordBase, Interrupt, central
  <2>5. ~ Environment
    BY <1>1 DEF Environment, Restart, Edit, LifecycleCheck, LifecyclePut, Goto,
       WatchInv, TypeOK
  <2> QED
    BY <2>1, <2>2, <2>3, <2>4, <2>5 DEF Next, SnapshotIndex
<1>2. WatchInv /\ [Next /\ Watch]_wvars =>
         [\A d \in Devices :
            /\ pc[d] = "uploading" /\ pc'[d] # "uploading"
            /\ ~ job[d].raced
            => \A s \in Skills \ (Pushes(d) \cup Exempt(d)) :
                  index'.hash[s] = index.hash[s]]_wvars
  BY <1>1
<1> QED
  BY <1>2, WatchInvariance, PTL DEF WatchedSpec, PushTouchesOnlyPlanned

\* A device whose last cycle that acted was not cut short plans to push only
\* what its user changed or what central does not have.
THEOREM PushesAreEditsEver == WatchedSpec => []PushesAreEdits
<1>1. WatchInv => PushesAreEdits
  BY DEF WatchInv, PlansAreEdits, PushesAreEdits, PastCheck
<1> QED
  BY <1>1, WatchInvariance, PTL

\* A device whose last cycle that acted was not cut short never takes a skill its
\* base record lists for a conflict unless its user changed it.
THEOREM RecordedNeverConflictsEver == WatchedSpec => []RecordedNeverConflicts
<1>1. ASSUME WatchInv, NEW d \in Devices \ unrecorded, NEW s \in Skills \ dirty[d],
             pc[d] = "fetching", base[d][s] # Absent
      PROVE  Status(d, s) # "conflict"
  <2> DEFINE mark == s \in cache[d].deprecated
             plain == Classify(base[d][s], local[d][s], cache[d].hash[s], mark)
  <2>1. base[d][s] = local[d][s]
    BY <1>1, AtRest DEF WatchInv, DeviceInv, QuietPhases
  <2>2. ClassifyWithBase(base[d][s], local[d][s], cache[d].hash[s]) # "conflict"
    BY <2>1 DEF ClassifyWithBase
  <2>3. plain \in {"central_deprecated",
                   ClassifyWithBase(base[d][s], local[d][s], cache[d].hash[s])}
    <3>1. mark \in BOOLEAN
      OBVIOUS
    <3> QED
      BY <1>1, <3>1 DEF Classify
  <2>4. Status(d, s) \in {"local_only", "local_override", plain}
    BY DEF Status, ClassifyWithOverride
  <2> QED
    BY <2>2, <2>3, <2>4
<1>2. WatchInv => RecordedNeverConflicts
  BY <1>1 DEF RecordedNeverConflicts
<1> QED
  BY <1>2, WatchInvariance, PTL

=============================================================================
