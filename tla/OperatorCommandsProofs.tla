------------------------ MODULE OperatorCommandsProofs ------------------------
(* Theorems about the commands of OperatorCommands beside the daemons of       *)
(* SkillSync, for any devices, operators, skills, versions, policies, phases   *)
(* and bounds.                                                                 *)
EXTENDS OperatorCommands, SkillSyncProofs

LEMMA NotACommand == NoCommand \notin Command
BY DEF NoCommand, Command, Kinds

LEMMA RunningCommand ==
    ASSUME TypeOKWithCommands, Running
    PROVE  cmd \in Command
BY DEF TypeOKWithCommands, Running

LEMMA NotReviewedType == NotReviewed \in [Skills -> Review]
BY DEF NotReviewed, Review, Content

LEMMA StartType ==
    ASSUME NEW kind \in Kinds, NEW d \in Devices, NEW step \in Steps,
           NEW ids \in SUBSET Skills
    PROVE  Start(kind, d, step, ids) \in Command
<1>1. NoIndex \in Index
  BY DEF NoIndex, Index, Nothing, Hashes, Content
<1> QED
  BY <1>1, NotReviewedType DEF Start, Command, Content

LEMMA MergedType ==
    ASSUME TypeOKWithCommands, Running
    PROVE  Merged \in Index
<1>1. cmd \in Command
  BY RunningCommand
<1>2. /\ cache[cmd.device] \in Index /\ local[cmd.device] \in Hashes
      /\ cmd.content \in Content
  BY <1>1 DEF Command, TypeOKWithCommands, TypeOK
<1>3. ASSUME NEW s \in Skills PROVE Replacement(s) \in Content
  BY <1>2 DEF Replacement, Hashes
<1> QED
  BY <1>2, <1>3 DEF Merged, Index, Hashes

LEMMA MarkedType ==
    ASSUME NEW old \in Index, NEW ids \in SUBSET Skills, NEW to
    PROVE  Marked(old, ids, to) \in Index
BY DEF Marked, Index

LEMMA ReviewType ==
    ASSUME TypeOK, NEW d \in Devices, NEW s \in Skills
    PROVE  ReviewOf(d, s) \in Review
<1>1. /\ base[d][s] \in Content /\ local[d][s] \in Content
      /\ cache[d].hash[s] \in Content
  BY DEF TypeOK, Hashes, Index
<1> QED
  BY <1>1 DEF ReviewOf, Review

\* What the command under way sees of a step of others.
LEMMA Seen ==
    ASSUME TypeOKWithCommands, Running, Others
    PROVE  /\ cmd' \in Command /\ cmd' # NoCommand
           /\ cmd'.kind = cmd.kind /\ cmd'.device = cmd.device
           /\ cmd'.step = cmd.step /\ cmd'.ids = cmd.ids
           /\ cmd'.report = cmd.report /\ cmd'.content = cmd.content
           /\ cmd'.merged = cmd.merged /\ cmd'.todo = cmd.todo /\ cmd'.item = cmd.item
           /\ cmd'.fresh => cmd.fresh /\ index' = index
           /\ ~ cmd'.refreshed => /\ ~ cmd.refreshed
                                  /\ cache'[cmd.device] = cache[cmd.device]
           /\ \A s \in Skills \ cmd'.touched :
                 /\ s \notin cmd.touched
                 /\ local'[cmd.device][s] = local[cmd.device][s]
<1>1. cmd \in Command
  BY RunningCommand
<1> DEFINE touched == cmd.touched \cup {s \in Skills :
                          local'[cmd.device][s] # local[cmd.device][s]}
           fresh == cmd.fresh /\ index' = index
           refreshed == cmd.refreshed \/ cache'[cmd.device] # cache[cmd.device]
<1>2. cmd' = [cmd EXCEPT !.fresh = fresh, !.refreshed = refreshed,
                         !.touched = touched]
  BY DEF Others
<1>3. fresh \in BOOLEAN /\ refreshed \in BOOLEAN /\ touched \subseteq Skills
  BY <1>1 DEF Command
<1> HIDE DEF fresh, refreshed, touched
<1>4. cmd' \in Command
  BY <1>1, <1>2, <1>3 DEF Command
<1>5. /\ cmd'.kind = cmd.kind /\ cmd'.device = cmd.device
      /\ cmd'.step = cmd.step /\ cmd'.ids = cmd.ids
      /\ cmd'.report = cmd.report /\ cmd'.content = cmd.content
      /\ cmd'.merged = cmd.merged /\ cmd'.todo = cmd.todo /\ cmd'.item = cmd.item
      /\ cmd'.fresh = fresh /\ cmd'.refreshed = refreshed /\ cmd'.touched = touched
  BY <1>1, <1>2 DEF Command
<1> QED
  BY <1>4, <1>5, NotACommand DEF fresh, refreshed, touched

\* A command that only moves its own record.
LEMMA OwnRecord ==
    ASSUME TypeOKWithCommands, Replacing, ReadOnly,
           cmd' \in Command \cup {NoCommand}, commands' \in 0..MaxCommands,
           disturbed' \subseteq Skills
    PROVE  TypeOKWithCommands' /\ Replacing'
<1>1. TypeOK' /\ Replacing'
  BY DEF ReadOnly, vars, counters, TypeOKWithCommands, TypeOK, Replacing
<1> QED
  BY <1>1 DEF TypeOKWithCommands

LEMMA BeginsTyped ==
    ASSUME CommandTypes, NEW d \in Devices, Begin(d), ReadOnly,
           cmd' \in Command, cmd'.step \notin {"uploading", "replacing"}
    PROVE  CommandTypes'
<1>1. commands' \in 0..MaxCommands /\ disturbed' \subseteq Skills
  BY CommandAssumption DEF Begin, CommandTypes, TypeOKWithCommands
<1> QED
  BY <1>1, OwnRecord DEF CommandTypes, MergedIsWhole, At

LEMMA StartingTyped ==
    ASSUME CommandTypes, NEW d \in Devices,
           \/ BlockedReport(d) \/ Adopt(d)
           \/ \E s \in Skills, source \in Versions : Publish(d, s, source)
           \/ \E ids \in SUBSET Skills :
                \/ Restore(d, ids)
                \/ \E to \in LifecycleStates : ChangeLifecycle(d, ids, to)
    PROVE  CommandTypes'
<1> USE DEF CommandTypes
<1>0. cache[d] \in Index /\ local[d] \in Hashes
  BY DEF TypeOKWithCommands, TypeOK
<1>1. CASE BlockedReport(d)
  <2> DEFINE start == Start("approve", d, "reported", {})
             report == [s \in Skills |-> ReviewOf(d, s)]
  <2>1. start \in Command /\ start.step = "reported"
    BY StartType DEF Kinds, Steps, Start
  <2>2. report \in [Skills -> Review]
    BY ReviewType DEF TypeOKWithCommands
  <2>3. cmd' = [start EXCEPT !.report = report]
    BY <1>1 DEF BlockedReport
  <2> HIDE DEF start, report
  <2>4. cmd' \in Command /\ cmd'.step = "reported"
    BY <2>1, <2>2, <2>3 DEF Command
  <2> QED
    BY <1>1, <2>4, BeginsTyped DEF BlockedReport
<1>2. CASE Adopt(d)
  <2> DEFINE start == Start("adopt", d, "recording", {})
             fresh == index = cache[d]
  <2>1. start \in Command /\ start.step = "recording" /\ start.merged \in Index
    BY StartType DEF Kinds, Steps, Start, NoIndex, Index, Nothing, Hashes, Content
  <2>2. [start.merged EXCEPT !.hash = local[d]] \in Index
    BY <1>0, <2>1 DEF Index
  <2>3. cmd' = [start EXCEPT !.merged = [@ EXCEPT !.hash = local[d]], !.fresh = fresh]
    BY <1>2 DEF Adopt
  <2> HIDE DEF start
  <2>4. cmd' \in Command /\ cmd'.step = "recording"
    BY <2>1, <2>2, <2>3 DEF Command
  <2> QED
    BY <1>2, <2>4, BeginsTyped DEF Adopt
<1>3. ASSUME NEW s \in Skills, NEW source \in Versions, Publish(d, s, source)
      PROVE  CommandTypes'
  <2> DEFINE start == Start("publish", d, "checking", {s})
  <2>1. start \in Command /\ start.step = "checking"
    BY StartType DEF Kinds, Steps, Start
  <2>2. Packaged[source] \in Content
    BY CommandAssumption DEF Content
  <2>3. cmd' = [start EXCEPT !.content = Packaged[source]]
    BY <1>3 DEF Publish
  <2> HIDE DEF start
  <2>4. cmd' \in Command /\ cmd'.step = "checking"
    BY <2>1, <2>2, <2>3 DEF Command
  <2> QED
    BY <1>3, <2>4, BeginsTyped DEF Publish
<1>4. ASSUME NEW ids \in SUBSET Skills, Restore(d, ids) PROVE CommandTypes'
  <2> DEFINE start == Start("restore", d, "restoring", ids)
             fresh == index = cache[d]
  <2>1. start \in Command /\ start.step = "restoring"
    BY StartType DEF Kinds, Steps, Start
  <2>2. cmd' = [start EXCEPT !.merged = cache[d], !.todo = ids, !.fresh = fresh]
    BY <1>4 DEF Restore
  <2> HIDE DEF start
  <2>3. cmd' \in Command /\ cmd'.step = "restoring"
    BY <1>0, <2>1, <2>2 DEF Command
  <2> QED
    BY <1>4, <2>3, BeginsTyped DEF Restore
<1>5. ASSUME NEW ids \in SUBSET Skills, NEW to \in LifecycleStates,
             ChangeLifecycle(d, ids, to)
      PROVE  CommandTypes'
  <2> DEFINE start == Start("lifecycle", d, "marking", ids)
             merged == Marked(cache[d], ids, to)
  <2>1. start \in Command /\ start.step = "marking"
    BY StartType DEF Kinds, Steps, Start
  <2>2. cmd' = [start EXCEPT !.merged = merged, !.fresh = TRUE]
    BY <1>5 DEF ChangeLifecycle
  <2>3. merged \in Index
    BY <1>0, MarkedType
  <2> HIDE DEF start, merged
  <2>4. cmd' \in Command /\ cmd'.step = "marking"
    BY <2>1, <2>2, <2>3 DEF Command
  <2> QED
    BY <1>5, <2>4, BeginsTyped DEF ChangeLifecycle
<1> QED
  BY <1>1, <1>2, <1>3, <1>4, <1>5

\* A command that ends, or goes on to a step in which nothing is uploaded.
LEMMA GoesOnTyped ==
    ASSUME CommandTypes, ReadOnly, UNCHANGED asked,
           \/ cmd' = NoCommand
           \/ cmd' \in Command /\ cmd'.step \notin {"uploading", "replacing"}
    PROVE  CommandTypes'
<1>1. commands' \in 0..MaxCommands /\ disturbed' \subseteq Skills
  BY DEF asked, CommandTypes, TypeOKWithCommands
<1> QED
  BY <1>1, OwnRecord DEF CommandTypes, MergedIsWhole, At, Running

\* A put on central is seen by the cycles past their comparison.
LEMMA PutTyped ==
    ASSUME TypeOK, Replacing, NEW new \in Index, index' = new,
           job' = Overtaken(new), dirty' \in [Devices -> SUBSET Skills],
           UNCHANGED <<archives, local, base, mirror, pc, lifecycle, counters>>
    PROVE  TypeOK' /\ Replacing'
<1>1. job' \in [Devices -> Job]
  BY OvertakenType
<1>2. \A e \in Devices : job'[e].item = job[e].item
  BY OvertakenKeeps
<1> QED
  BY <1>1, <1>2 DEF TypeOK, Replacing, mirror, counters

LEMMA CommandTypesNext ==
    CommandTypes /\ [NextWithCommands]_ovars => CommandTypes'
<1> SUFFICES ASSUME CommandTypes, [NextWithCommands]_ovars PROVE CommandTypes'
  OBVIOUS
<1>0. TypeOKWithCommands /\ TypeOK /\ Replacing
  BY DEF CommandTypes, TypeOKWithCommands
<1>1. ASSUME Others PROVE CommandTypes'
  <2>1. TypeOK' /\ Replacing'
    BY <1>0, <1>1, TypeNext DEF Others
  <2>2. disturbed' \subseteq Skills /\ commands' \in 0..MaxCommands
    BY <1>0, <1>1, <2>1 DEF Others, ChangedUnseen, TypeOK, Index, TypeOKWithCommands
  <2>3. CASE Running
    BY <1>0, <1>1, <2>1, <2>2, <2>3, Seen
    DEF CommandTypes, TypeOKWithCommands, MergedIsWhole, At
  <2>4. CASE ~ Running
    <3>1. cmd' = NoCommand
      BY <1>1, <2>4 DEF Others, Running
    <3> QED
      BY <2>1, <2>2, <3>1
      DEF CommandTypes, TypeOKWithCommands, MergedIsWhole, At, Running
  <2> QED
    BY <2>3, <2>4
<1>2. ASSUME NEW ids \in SUBSET Skills, NEW localWins \in BOOLEAN,
             ApprovedPush(ids, localWins)
      PROVE  CommandTypes'
  <2>1. cmd \in Command
    BY <1>0, <1>2, RunningCommand DEF ApprovedPush, At
  <2>2. [cmd EXCEPT !.ids = ids, !.step = "checking", !.refreshed = FALSE,
                    !.touched = {}] \in Command
    BY <2>1 DEF Command, Steps
  <2>3. \/ cmd' = NoCommand
        \/ cmd' \in Command /\ cmd'.step \notin {"uploading", "replacing"}
    BY <1>2, <2>1, <2>2 DEF ApprovedPush, Command
  <2> QED
    BY <1>2, <2>3, GoesOnTyped DEF ApprovedPush
<1>3. ASSUME CheckRemote PROVE CommandTypes'
  <2> DEFINE fresh == index = cache[cmd.device]
  <2>1. cmd \in Command
    BY <1>0, <1>3, RunningCommand DEF CheckRemote, At
  <2>2. [cmd EXCEPT !.step = "merging", !.fresh = fresh] \in Command
    BY <2>1 DEF Command, Steps
  <2>3. \/ cmd' = NoCommand
        \/ cmd' = [cmd EXCEPT !.step = "merging", !.fresh = fresh]
    BY <1>3 DEF CheckRemote
  <2>4. \/ cmd' = NoCommand
        \/ cmd' \in Command /\ cmd'.step \notin {"uploading", "replacing"}
    BY <2>1, <2>2, <2>3 DEF Command
  <2> QED
    BY <1>3, <2>4, GoesOnTyped DEF CheckRemote
<1>4. ASSUME Merge PROVE CommandTypes'
  <2>1. cmd \in Command /\ Running
    BY <1>0, <1>4, RunningCommand DEF Merge, At
  <2>2. Merged \in Index
    BY <1>0, <2>1, MergedType
  <2>3. CASE Disappeared
    BY <1>4, <2>3, GoesOnTyped DEF Merge
  <2>4. CASE ~ Disappeared
    <3>1. cmd' = [cmd EXCEPT !.step = "uploading", !.merged = Merged, !.todo = cmd.ids]
      BY <1>4, <2>4 DEF Merge
    <3>2. /\ cmd' \in Command /\ cmd'.todo = cmd.ids /\ cmd'.merged = Merged
          /\ cmd'.step = "uploading"
      BY <2>1, <2>2, <3>1 DEF Command, Steps
    <3>3. \A s \in cmd.ids : Merged.hash[s] # Absent
      BY <2>1, <2>4 DEF Merged, Disappeared, Command
    <3>4. TypeOKWithCommands' /\ Replacing'
      BY <1>0, <1>4, <3>2, OwnRecord DEF Merge, asked, TypeOKWithCommands
    <3> QED
      BY <3>2, <3>3, <3>4 DEF CommandTypes, MergedIsWhole, At
  <2> QED
    BY <2>3, <2>4
<1>5. ASSUME NEW s \in Skills, UploadApproved(s) PROVE CommandTypes'
  <2>1. cmd \in Command /\ cmd.merged \in Index
    BY <1>0, <1>5, RunningCommand DEF UploadApproved, At, Command
  <2>2. cmd.merged.hash[s] \in Versions
    BY <1>5, <2>1 DEF CommandTypes, MergedIsWhole, UploadApproved, Index, Hashes, Content
  <2>3. archives' \subseteq Archive
    BY <1>0, <1>5, <2>2 DEF UploadApproved, TypeOK, Archive
  <2>4. /\ cmd' \in Command /\ cmd'.todo = cmd.todo \ {s} /\ cmd'.merged = cmd.merged
        /\ cmd'.kind = cmd.kind /\ cmd'.step = cmd.step
    BY <1>5, <2>1 DEF UploadApproved, Command
  <2>5. TypeOK' /\ Replacing'
    BY <1>0, <1>5, <2>3 DEF UploadApproved, TypeOK, Replacing, mirror, counters
  <2>6. MergedIsWhole'
    BY <1>5, <2>4 DEF CommandTypes, MergedIsWhole, UploadApproved, At
  <2> QED
    BY <1>0, <1>5, <2>4, <2>5, <2>6
    DEF UploadApproved, asked, CommandTypes, TypeOKWithCommands
<1>6. ASSUME PutMerged PROVE CommandTypes'
  <2>1. cmd \in Command /\ cmd.merged \in Index /\ cmd.device \in Devices
    BY <1>0, <1>6, RunningCommand DEF PutMerged, MergedReady, At, Command
  <2>2. dirty' \in [Devices -> SUBSET Skills]
    BY <1>0, <1>6, <2>1 DEF PutMerged, TypeOK
  <2>3. TypeOK' /\ Replacing'
    BY <1>0, <1>6, <2>1, <2>2, PutTyped DEF PutMerged
  <2>4. cmd' \in Command /\ cmd'.step = "recording"
    BY <1>6, <2>1 DEF PutMerged, Command, Steps
  <2> QED
    BY <1>0, <1>6, <2>3, <2>4
    DEF PutMerged, asked, CommandTypes, TypeOKWithCommands, MergedIsWhole, At
<1>7. ASSUME RecordMerged PROVE CommandTypes'
  <2>1. cmd \in Command /\ Recorded \in Hashes /\ cmd.device \in Devices
    BY <1>0, <1>7, RunningCommand DEF RecordMerged, At, Command, Index, Recorded
  <2>2. TypeOK' /\ Replacing'
    BY <1>0, <1>7, <2>1 DEF RecordMerged, TypeOK, Replacing, central, mirror, counters
  <2> QED
    BY <1>0, <1>7, <2>2
    DEF RecordMerged, asked, CommandTypes, TypeOKWithCommands, MergedIsWhole, At, Running
<1>8. ASSUME NEW s \in Skills, RestoreRemoves(s) PROVE CommandTypes'
  <2>1. cmd \in Command /\ cmd.device \in Devices
    BY <1>0, <1>8, RunningCommand DEF RestoreRemoves, At, Command
  <2>2. local' \in [Devices -> Hashes] /\ local[cmd.device][s] \in Content
    BY <1>0, <1>8, <2>1 DEF RestoreRemoves, TypeOK, Hashes, Content
  <2>3. TypeOK' /\ Replacing'
    BY <1>0, <1>8, <2>2 DEF RestoreRemoves, TypeOK, Replacing, central, mirror, counters
  <2>4. cmd' \in Command /\ cmd'.step = "replacing" /\ cmd'.item = s
    BY <1>8, <2>1, <2>2 DEF RestoreRemoves, Command, At, Steps
  <2> QED
    BY <1>0, <1>8, <2>3, <2>4
    DEF RestoreRemoves, asked, CommandTypes, TypeOKWithCommands, MergedIsWhole, At
<1>15. ASSUME RestoreInstalls PROVE CommandTypes'
  <2>1. cmd \in Command /\ cmd.device \in Devices /\ cmd.item \in Skills
    BY <1>0, <1>15, RunningCommand
    DEF RestoreInstalls, At, Command, CommandTypes, MergedIsWhole
  <2>2. Restored(cmd.item) \in Content
    BY <2>1 DEF Command, Index, Hashes, Restored
  <2>3. local' \in [Devices -> Hashes] /\ dirty' \in [Devices -> SUBSET Skills]
    BY <1>0, <1>15, <2>1, <2>2 DEF RestoreInstalls, TypeOK, Hashes
  <2>4. TypeOK' /\ Replacing'
    BY <1>0, <1>15, <2>3 DEF RestoreInstalls, TypeOK, Replacing, central, mirror, counters
  <2>5. cmd' \in Command /\ cmd'.step = "restoring"
    BY <1>15, <2>1 DEF RestoreInstalls, Command, At, Steps, Content
  <2> QED
    BY <1>0, <1>15, <2>4, <2>5
    DEF RestoreInstalls, asked, CommandTypes, TypeOKWithCommands, MergedIsWhole, At
<1>16. ASSUME RestoreFails PROVE CommandTypes'
  <2>1. cmd \in Command /\ cmd.device \in Devices /\ cmd.had \in Content
    BY <1>0, <1>16, RunningCommand DEF RestoreFails, At, Command
  <2>2. local' \in [Devices -> Hashes]
    <3>1. local' \in {local, [local EXCEPT ![cmd.device][cmd.item] = cmd.had]}
      BY <1>16 DEF RestoreFails
    <3>2. cmd.item \in Skills
      BY <1>16 DEF RestoreFails, CommandTypes, MergedIsWhole
    <3>3. local \in [Devices -> [Skills -> Content]]
      BY <1>0 DEF TypeOK, Hashes
    <3>4. [local[cmd.device] EXCEPT ![cmd.item] = cmd.had] \in [Skills -> Content]
      BY <2>1, <3>2, <3>3
    <3>5. [local EXCEPT ![cmd.device][cmd.item] = cmd.had] \in [Devices -> Hashes]
      BY <2>1, <3>3, <3>4 DEF Hashes
    <3> QED
      BY <3>1, <3>3, <3>5 DEF Hashes
  <2>5. faults' \in Nat
    BY <1>0, <1>16 DEF RestoreFails, TypeOK
  <2>3. TypeOK' /\ Replacing'
    BY <1>0, <1>16, <2>2, <2>5 DEF RestoreFails, TypeOK, Replacing, central, mirror
  <2>4. disturbed' \subseteq Skills
    BY <1>0, <1>16 DEF RestoreFails, ChangedUnseen, TypeOKWithCommands
  <2> QED
    BY <1>0, <1>16, <2>3, <2>4
    DEF RestoreFails, CommandTypes, TypeOKWithCommands, MergedIsWhole, At, Running
<1>9. ASSUME NEW withBase \in BOOLEAN, RestoreEnds(withBase) PROVE CommandTypes'
  <2>1. cmd \in Command
    BY <1>0, <1>9, RunningCommand DEF RestoreEnds, At
  <2>2. \/ cmd' = NoCommand
        \/ cmd' \in Command /\ cmd'.step \notin {"uploading", "replacing"}
    BY <1>9, <2>1 DEF RestoreEnds, Command, Steps
  <2> QED
    BY <1>9, <2>2, GoesOnTyped DEF RestoreEnds
<1>10. ASSUME PutMarked PROVE CommandTypes'
  <2>1. cmd \in Command /\ cmd.merged \in Index
    BY <1>0, <1>10, RunningCommand DEF PutMarked, At, Command
  <2>2. TypeOK' /\ Replacing'
    BY <1>0, <1>10, <2>1, PutTyped DEF PutMarked, TypeOK
  <2>3. cmd' \in Command /\ cmd'.step = "caching"
    BY <1>10, <2>1 DEF PutMarked, Command, Steps
  <2>4. disturbed' \subseteq Skills
    BY <1>0, <1>10, <2>1 DEF PutMarked, TypeOKWithCommands, Index
  <2> QED
    BY <1>0, <1>10, <2>2, <2>3, <2>4
    DEF PutMarked, CommandTypes, TypeOKWithCommands, MergedIsWhole, At
<1>11. ASSUME CacheMarked PROVE CommandTypes'
  <2>1. cmd \in Command /\ cmd.merged \in Index
    BY <1>0, <1>11, RunningCommand DEF CacheMarked, At, Command
  <2>2. TypeOK' /\ Replacing'
    BY <1>0, <1>11, <2>1 DEF CacheMarked, TypeOK, Replacing, central, counters
  <2> QED
    BY <1>0, <1>11, <2>2
    DEF CacheMarked, asked, CommandTypes, TypeOKWithCommands, MergedIsWhole, At, Running
<1>12. ASSUME CommandDies PROVE CommandTypes'
  <2>1. TypeOK' /\ Replacing'
    BY <1>0, <1>12 DEF CommandDies, TypeOK, Replacing, central, mirror
  <2> QED
    BY <1>0, <1>12, <2>1
    DEF CommandDies, asked, CommandTypes, TypeOKWithCommands, MergedIsWhole, At, Running
<1>13. ASSUME ReportIgnored PROVE CommandTypes'
  BY <1>13, GoesOnTyped DEF ReportIgnored
<1>14. CASE UNCHANGED ovars
  BY <1>0, <1>14, OwnRecord
  DEF ovars, ReadOnly, TypeOKWithCommands, CommandTypes, MergedIsWhole, At, Running
<1> QED
  BY <1>1, <1>2, <1>3, <1>4, <1>5, <1>6, <1>7, <1>8, <1>9, <1>10, <1>11, <1>12,
     <1>13, <1>14, <1>15, <1>16, StartingTyped
  DEF NextWithCommands, Operate

LEMMA CommandTypesInit == InitWithCommands => CommandTypes
<1> SUFFICES ASSUME InitWithCommands PROVE CommandTypes
  OBVIOUS
<1>1. TypeOK /\ Replacing
  BY TypeInit DEF InitWithCommands, Init, Replacing
<1> QED
  BY <1>1, CommandAssumption
  DEF InitWithCommands, CommandTypes, TypeOKWithCommands, MergedIsWhole, At, Running

\* Every variable keeps its type beside the commands, whatever these find and
\* wherever they are interrupted: what is uploaded exists.
THEOREM CommandTypesCorrect == SpecWithCommands => []TypeOKWithCommands
<1>1. CommandTypes => TypeOKWithCommands
  BY DEF CommandTypes
<1> QED
  BY <1>1, CommandTypesInit, CommandTypesNext, PTL DEF SpecWithCommands

-----------------------------------------------------------------------------
(* What a command knows of both sides while others step.                      *)

\* A step of others makes a cache what it was or the remote's index.
LEMMA CacheSteps ==
    ASSUME TypeOK, Next, NEW d \in Devices
    PROVE  cache'[d] \in {cache[d], index}
<1> USE DEF mirror, TypeOK
<1>1. ASSUME NEW e \in Devices, FetchIndex(e) PROVE cache'[d] \in {cache[d], index}
  BY <1>1 DEF FetchIndex
<1>2. ASSUME NEW e \in Devices, FetchArchive(e) PROVE cache' = cache
  BY <1>2 DEF FetchArchive
<1>3. ASSUME NEW e \in Devices,
             \/ FetchDangling(e) \/ GateBlocked(e) \/ GatePassed(e)
             \/ PreviewEnds(e) \/ PreviewAccepted(e) \/ AssertRemote(e)
             \/ \E s \in Skills : RemoveTarget(e, s) \/ UploadArchive(e, s)
             \/ InstallTarget(e) \/ PullsFinished(e) \/ ScanLocal(e)
             \/ PutIndex(e) \/ RecordBase(e) \/ Fault(e)
      PROVE  cache' = cache
  BY <1>3 DEF FetchDangling, GateBlocked, GatePassed, PreviewEnds, PreviewAccepted,
     AssertRemote, RemoveTarget, UploadArchive, InstallTarget, PullsFinished, ScanLocal,
     PutIndex, RecordBase, Fault, InstallFails, PutIndexUnacknowledged, Interrupt
<1>4. ASSUME Environment PROVE cache' = cache
  BY <1>4 DEF Environment, Restart, Edit, LifecycleCheck, LifecyclePut
<1> QED
  BY <1>1, <1>2, <1>3, <1>4 DEF Next, Daemon

LEMMA AdoptedIsBoth ==
    ASSUME TypeOK, NEW d \in Devices, Adopt(d), NEW s \in Skills
    PROVE  local[d][s] = cache[d].hash[s]
<1>1. CASE {base[d][s], local[d][s], cache[d].hash[s]} = {Absent}
  BY <1>1
<1>2. CASE Adoptable(d, s)
  BY <1>2 DEF Adoptable
<1> QED
  BY <1>1, <1>2 DEF Adopt

LEMMA EndsQuietly ==
    ASSUME cmd' = NoCommand
    PROVE  RemoteSide' /\ LocalSide' /\ ReviewStands'
BY DEF RemoteSide, LocalSide, ReviewStands, Running, At

LEMMA RemoteSideNext ==
    ASSUME CommandTypes, RemoteSide, NextWithCommands
    PROVE  RemoteSide'
<1>0. TypeOKWithCommands /\ TypeOK
  BY DEF CommandTypes, TypeOKWithCommands
<1>1. ASSUME Others PROVE RemoteSide'
  <2>1. CASE Running
    <3>1. cmd \in Command /\ cmd.device \in Devices
      BY <1>0, <2>1, RunningCommand DEF Command
    <3>2. cache'[cmd.device] \in {cache[cmd.device], index}
      BY <1>0, <1>1, <3>1, CacheSteps DEF Others
    <3>3. /\ cmd'.device = cmd.device /\ cmd'.step = cmd.step /\ cmd'.ids = cmd.ids
          /\ cmd'.merged = cmd.merged
          /\ cmd'.fresh => cmd.fresh /\ index' = index
      BY <1>0, <1>1, <2>1, Seen
    <3> QED
      BY <2>1, <3>2, <3>3 DEF RemoteSide
  <2>2. CASE ~ Running
    BY <1>1, <2>2, EndsQuietly DEF Others, Running
  <2> QED
    BY <2>1, <2>2
<1>2. ASSUME NEW d \in Devices, BlockedReport(d) PROVE RemoteSide'
  BY <1>2 DEF BlockedReport, Start, RemoteSide
<1>3. ASSUME NEW d \in Devices, Adopt(d) PROVE RemoteSide'
  <2>1. /\ cmd'.step = "recording" /\ cmd'.merged.hash = local[d]
        /\ cmd'.fresh = (index = cache[d]) /\ index' = index
    BY <1>3 DEF Adopt, Start, NoIndex, ReadOnly, vars
  <2>2. local[d] = cache[d].hash
    BY <1>0, <1>3, AdoptedIsBoth DEF TypeOK, Hashes, Index
  <2> QED
    BY <2>1, <2>2 DEF RemoteSide
<1>4. ASSUME NEW d \in Devices, NEW s \in Skills, NEW source \in Versions,
             Publish(d, s, source)
      PROVE  RemoteSide'
  BY <1>4 DEF Publish, Start, RemoteSide
<1>5. ASSUME NEW d \in Devices, NEW ids \in SUBSET Skills, Restore(d, ids)
      PROVE  RemoteSide'
  BY <1>5 DEF Restore, Start, RemoteSide, ReadOnly, vars
<1>6. ASSUME NEW d \in Devices, NEW ids \in SUBSET Skills,
             NEW to \in LifecycleStates, ChangeLifecycle(d, ids, to)
      PROVE  RemoteSide'
  <2>1. /\ cmd'.step = "marking" /\ cmd'.merged = Marked(cache[d], ids, to)
        /\ cmd'.ids = ids /\ index' = index /\ index = cache[d]
    BY <1>6 DEF ChangeLifecycle, Start, RemoteIsCache, ReadOnly, vars
  <2>2. \A s \in Skills \ ids :
           /\ Marked(index, ids, to).hash[s] = index.hash[s]
           /\ s \in Marked(index, ids, to).deprecated <=> s \in index.deprecated
    BY <1>0 DEF Marked, TypeOK, Index
  <2> QED
    BY <2>1, <2>2 DEF RemoteSide
<1>7. ASSUME NEW ids \in SUBSET Skills, NEW localWins \in BOOLEAN,
             ApprovedPush(ids, localWins)
      PROVE  RemoteSide'
  <2>1. cmd \in Command
    BY <1>0, <1>7, RunningCommand DEF ApprovedPush, At
  <2>2. cmd' = NoCommand \/ cmd'.step = "checking"
    BY <1>7, <2>1 DEF ApprovedPush, Command
  <2> QED
    BY <2>2, EndsQuietly DEF RemoteSide
<1>8. ASSUME CheckRemote PROVE RemoteSide'
  <2>1. cmd \in Command
    BY <1>0, <1>8, RunningCommand DEF CheckRemote, At
  <2>2. \/ cmd' = NoCommand
        \/ /\ cmd'.step = "merging" /\ cmd'.fresh = (index = cache[cmd.device])
           /\ cmd'.device = cmd.device
    BY <1>8, <2>1 DEF CheckRemote, Command
  <2>3. index' = index /\ cache' = cache
    BY <1>8 DEF CheckRemote, ReadOnly, vars
  <2> QED
    BY <2>2, <2>3, EndsQuietly DEF RemoteSide
<1>9. ASSUME Merge PROVE RemoteSide'
  <2>1. cmd \in Command /\ Running /\ cmd.step = "merging"
    BY <1>0, <1>9, RunningCommand DEF Merge, At
  <2>2. \/ cmd' = NoCommand
        \/ /\ cmd'.step = "uploading" /\ cmd'.fresh = cmd.fresh
           /\ cmd'.ids = cmd.ids /\ cmd'.merged = Merged
    BY <1>9, <2>1 DEF Merge, Command
  <2>3. index' = index
    BY <1>9 DEF Merge, ReadOnly, vars
  <2>4. \A s \in Skills \ cmd.ids :
           /\ Merged.hash[s] = cache[cmd.device].hash[s]
           /\ s \in Merged.deprecated <=> s \in cache[cmd.device].deprecated
    BY DEF Merged
  <2> QED
    BY <2>1, <2>2, <2>3, <2>4, EndsQuietly DEF RemoteSide
<1>10. ASSUME NEW s \in Skills, UploadApproved(s) PROVE RemoteSide'
  <2>1. cmd \in Command /\ Running
    BY <1>0, <1>10, RunningCommand DEF UploadApproved, At
  <2>2. /\ cmd'.step = "uploading" /\ cmd.step = "uploading" /\ cmd'.fresh = cmd.fresh
        /\ cmd'.ids = cmd.ids /\ cmd'.merged = cmd.merged /\ index' = index
    BY <1>10, <2>1 DEF UploadApproved, At, Command
  <2> QED
    BY <2>1, <2>2 DEF RemoteSide
<1>11. ASSUME PutMerged PROVE RemoteSide'
  <2>1. cmd \in Command
    BY <1>0, <1>11, RunningCommand DEF PutMerged, MergedReady, At
  <2>2. cmd'.step = "recording" /\ cmd'.merged = cmd.merged /\ index' = cmd.merged
    BY <1>11, <2>1 DEF PutMerged, Command
  <2> QED
    BY <2>2 DEF RemoteSide
<1>12. ASSUME RestoreInstalls \/ \E s \in Skills : RestoreRemoves(s) PROVE RemoteSide'
  <2>1. cmd \in Command /\ Running
    BY <1>0, <1>12, RunningCommand DEF RestoreRemoves, RestoreInstalls, At
  <2>2. /\ {cmd.step, cmd'.step} \subseteq {"restoring", "replacing"}
        /\ cmd'.fresh = cmd.fresh /\ cmd'.merged = cmd.merged /\ index' = index
    BY <1>12, <2>1 DEF RestoreRemoves, RestoreInstalls, At, Command, central
  <2> QED
    BY <2>1, <2>2 DEF RemoteSide
<1>13. ASSUME NEW withBase \in BOOLEAN, RestoreEnds(withBase) PROVE RemoteSide'
  <2>1. cmd \in Command /\ Running
    BY <1>0, <1>13, RunningCommand DEF RestoreEnds, At
  <2>2. \/ cmd' = NoCommand
        \/ /\ cmd'.step = "recording" /\ cmd.step = "restoring"
           /\ cmd'.fresh = cmd.fresh /\ cmd'.merged = cmd.merged
    BY <1>13, <2>1 DEF RestoreEnds, At, Command
  <2>3. index' = index
    BY <1>13 DEF RestoreEnds, ReadOnly, vars
  <2> QED
    BY <2>1, <2>2, <2>3, EndsQuietly DEF RemoteSide
<1>14. ASSUME PutMarked PROVE RemoteSide'
  <2>1. cmd \in Command
    BY <1>0, <1>14, RunningCommand DEF PutMarked, At
  <2>2. cmd'.step = "caching"
    BY <1>14, <2>1 DEF PutMarked, Command
  <2> QED
    BY <2>2 DEF RemoteSide
<1>15. ASSUME RecordMerged \/ CacheMarked \/ CommandDies \/ RestoreFails \/ ReportIgnored
       PROVE  RemoteSide'
  BY <1>15, EndsQuietly
  DEF RecordMerged, CacheMarked, CommandDies, RestoreFails, ReportIgnored
<1> QED
  BY <1>1, <1>2, <1>3, <1>4, <1>5, <1>6, <1>7, <1>8, <1>9, <1>10, <1>11, <1>12,
     <1>13, <1>14, <1>15
  DEF NextWithCommands, Operate

\* Steps of a command that leave the skill roots as they are.
LEMMA RootsStay ==
    ASSUME \/ ReadOnly \/ CheckRemote \/ Merge \/ PutMerged \/ PutMarked
           \/ \E s \in Skills : UploadApproved(s)
    PROVE  local' = local
BY DEF ReadOnly, vars, CheckRemote, Merge, PutMerged, PutMarked, UploadApproved

LEMMA LocalSideNext ==
    ASSUME CommandTypes, LocalSide, NextWithCommands
    PROVE  LocalSide'
<1>0. TypeOKWithCommands /\ TypeOK
  BY DEF CommandTypes, TypeOKWithCommands
<1>1. ASSUME Others PROVE LocalSide'
  <2>1. CASE Running
    <3>1. /\ cmd'.kind = cmd.kind /\ cmd'.device = cmd.device
          /\ cmd'.step = cmd.step /\ cmd'.ids = cmd.ids
          /\ cmd'.report = cmd.report /\ cmd'.content = cmd.content
          /\ cmd'.merged = cmd.merged /\ cmd'.todo = cmd.todo
          /\ \A s \in Skills \ cmd'.touched :
                s \notin cmd.touched /\ local'[cmd.device][s] = local[cmd.device][s]
      BY <1>0, <1>1, <2>1, Seen
    <3> QED
      BY <2>1, <3>1 DEF LocalSide
  <2>2. CASE ~ Running
    BY <1>1, <2>2, EndsQuietly DEF Others, Running
  <2> QED
    BY <2>1, <2>2
<1>2. ASSUME NEW d \in Devices, BlockedReport(d) PROVE LocalSide'
  <2>1. cmd'.kind = "approve" /\ cmd'.ids = {}
    BY <1>2 DEF BlockedReport, Start
  <2> QED
    BY <2>1 DEF LocalSide
<1>3. ASSUME NEW d \in Devices, Adopt(d) PROVE LocalSide'
  <2>1. /\ cmd'.kind = "adopt" /\ cmd'.device = d
        /\ cmd'.merged.hash = local[d] /\ local' = local
    BY <1>3 DEF Adopt, Start, NoIndex, ReadOnly, vars
  <2> QED
    BY <2>1 DEF LocalSide
<1>4. ASSUME NEW d \in Devices, NEW s \in Skills, NEW source \in Versions,
             Publish(d, s, source)
      PROVE  LocalSide'
  <2>1. /\ cmd'.kind = "publish" /\ cmd'.device = d /\ cmd'.ids = {s}
        /\ cmd'.content = Packaged[source] /\ cmd'.step = "checking" /\ local' = local
    BY <1>4 DEF Publish, Start, ReadOnly, vars
  <2>2. PublishesAsIs => Packaged[source] = local[d][s]
    BY <1>4 DEF Publish, PublishesAsIs
  <2> QED
    BY <2>1, <2>2 DEF LocalSide
<1>5. ASSUME NEW d \in Devices, NEW ids \in SUBSET Skills, Restore(d, ids)
      PROVE  LocalSide'
  <2>1. /\ cmd'.kind = "restore" /\ cmd'.ids = ids /\ cmd'.todo = ids
        /\ cmd'.step = "restoring"
    BY <1>5 DEF Restore, Start
  <2> QED
    BY <2>1 DEF LocalSide
<1>6. ASSUME NEW d \in Devices, NEW ids \in SUBSET Skills,
             NEW to \in LifecycleStates, ChangeLifecycle(d, ids, to)
      PROVE  LocalSide'
  BY <1>6 DEF ChangeLifecycle, Start, LocalSide
<1>7. ASSUME NEW ids \in SUBSET Skills, NEW localWins \in BOOLEAN,
             ApprovedPush(ids, localWins)
      PROVE  LocalSide'
  <2>1. cmd \in Command /\ cmd.kind = "approve"
    BY <1>0, <1>7, RunningCommand DEF ApprovedPush, At
  <2>2. \/ cmd' = NoCommand
        \/ /\ \A s \in ids : Approvable(cmd.device, s, localWins)
           /\ cmd'.kind = "approve" /\ cmd'.step = "checking" /\ cmd'.ids = ids
           /\ cmd'.device = cmd.device /\ cmd'.report = cmd.report
    BY <1>7, <2>1 DEF ApprovedPush, Command
  <2>3. local' = local
    BY <1>7, RootsStay DEF ApprovedPush
  <2> QED
    BY <2>2, <2>3, EndsQuietly DEF LocalSide, Approvable, StillAsReviewed
<1>8. ASSUME CheckRemote PROVE LocalSide'
  <2>1. cmd \in Command /\ Running /\ cmd.step = "checking"
    BY <1>0, <1>8, RunningCommand DEF CheckRemote, At
  <2>2. \/ cmd' = NoCommand
        \/ /\ cmd'.step = "merging" /\ cmd'.kind = cmd.kind /\ cmd'.ids = cmd.ids
           /\ cmd'.device = cmd.device /\ cmd'.report = cmd.report
           /\ cmd'.content = cmd.content /\ cmd'.touched = cmd.touched
           /\ cmd'.todo = cmd.todo /\ cmd'.merged = cmd.merged
    BY <1>8, <2>1 DEF CheckRemote, Command
  <2> QED
    BY <1>8, <2>1, <2>2, EndsQuietly, RootsStay DEF LocalSide
<1>9. ASSUME Merge PROVE LocalSide'
  <2>1. /\ cmd \in Command /\ Running /\ cmd.step = "merging"
        /\ cmd.kind \in {"approve", "publish"}
    BY <1>0, <1>9, RunningCommand DEF Merge, At
  <2>2. \/ cmd' = NoCommand
        \/ /\ cmd'.step = "uploading" /\ cmd'.kind = cmd.kind /\ cmd'.ids = cmd.ids
           /\ cmd'.device = cmd.device /\ cmd'.report = cmd.report
           /\ cmd'.content = cmd.content /\ cmd'.touched = cmd.touched
           /\ cmd'.merged = Merged
    BY <1>9, <2>1 DEF Merge, Command
  <2>3. \A s \in cmd.ids : Merged.hash[s] = IF cmd.kind = "publish" THEN cmd.content
                                            ELSE local[cmd.device][s]
    BY <2>1 DEF Merged, Replacement, Command
  <2> QED
    BY <1>9, <2>1, <2>2, <2>3, EndsQuietly, RootsStay DEF LocalSide
<1>10. ASSUME NEW s \in Skills, UploadApproved(s) PROVE LocalSide'
  <2>1. cmd \in Command /\ Running /\ cmd.kind \in {"approve", "publish"}
    BY <1>0, <1>10, RunningCommand DEF UploadApproved, At
  <2>2. /\ cmd'.step = cmd.step /\ cmd'.kind = cmd.kind /\ cmd'.ids = cmd.ids
        /\ cmd'.device = cmd.device /\ cmd'.report = cmd.report
        /\ cmd'.content = cmd.content /\ cmd'.touched = cmd.touched
        /\ cmd'.merged = cmd.merged
    BY <1>10, <2>1 DEF UploadApproved, Command
  <2> QED
    BY <1>10, <2>1, <2>2, RootsStay DEF LocalSide
<1>11. ASSUME PutMerged PROVE LocalSide'
  <2>1. /\ cmd \in Command /\ Running /\ cmd.step = "uploading"
        /\ cmd.kind \in {"approve", "publish"}
    BY <1>0, <1>11, RunningCommand DEF PutMerged, MergedReady, At
  <2>2. /\ cmd'.step = "recording" /\ cmd'.kind = cmd.kind /\ cmd'.ids = cmd.ids
        /\ cmd'.device = cmd.device /\ cmd'.merged = cmd.merged
        /\ cmd'.touched = cmd.touched
    BY <1>11, <2>1 DEF PutMerged, Command
  <2> QED
    BY <1>11, <2>1, <2>2, RootsStay DEF LocalSide
<1>12. ASSUME RestoreInstalls PROVE LocalSide'
  <2> DEFINE s == cmd.item
  <2>1. /\ cmd \in Command /\ Running /\ cmd.kind = "restore" /\ s \in Skills
        /\ cmd.device \in Devices /\ local[cmd.device] \in Hashes
    BY <1>0, <1>12, RunningCommand
    DEF RestoreInstalls, At, Command, TypeOK, CommandTypes, MergedIsWhole
  <2>2. /\ cmd'.kind = "restore" /\ cmd'.ids = cmd.ids /\ cmd'.device = cmd.device
        /\ cmd'.merged = cmd.merged /\ cmd'.todo = cmd.todo \ {s}
        /\ cmd'.touched = cmd.touched \ {s} /\ cmd'.step = "restoring"
        /\ cmd.step = "replacing"
    BY <1>12, <2>1 DEF RestoreInstalls, Command, At
  <2>3. /\ local'[cmd.device][s] = cmd.merged.hash[s]
        /\ \A t \in Skills \ {s} : local'[cmd.device][t] = local[cmd.device][t]
    BY <1>0, <1>12, <2>1 DEF RestoreInstalls, Restored, TypeOK, Hashes
  <2>4. ASSUME NEW t \in Skills \ cmd'.touched, t \in cmd.ids \ cmd'.todo
        PROVE  local'[cmd.device][t] = cmd.merged.hash[t]
    <3>1. CASE t = s
      BY <2>3, <3>1
    <3>2. CASE t # s
      <4>1. t \notin cmd.touched /\ t \notin cmd.todo
        BY <2>2, <2>4, <3>2
      <4>2. local[cmd.device][t] = cmd.merged.hash[t]
        BY <2>1, <2>4, <4>1 DEF LocalSide
      <4> QED
        BY <2>3, <3>2, <4>2
    <3> QED
      BY <3>1, <3>2
  <2> QED
    BY <2>2, <2>4 DEF LocalSide
<1>16. ASSUME NEW s \in Skills, RestoreRemoves(s) PROVE LocalSide'
  <2>1. /\ cmd \in Command /\ Running /\ cmd.kind = "restore"
        /\ cmd.device \in Devices /\ local[cmd.device] \in Hashes
    BY <1>0, <1>16, RunningCommand DEF RestoreRemoves, At, Command, TypeOK
  <2>2. /\ cmd'.kind = "restore" /\ cmd'.ids = cmd.ids /\ cmd'.device = cmd.device
        /\ cmd'.merged = cmd.merged /\ cmd'.todo = cmd.todo /\ s \in cmd.todo
        /\ cmd'.touched = cmd.touched \ {s} /\ cmd'.step = "replacing"
    BY <1>16, <2>1 DEF RestoreRemoves, Command, At
  <2>3. \A t \in Skills \ {s} : local'[cmd.device][t] = local[cmd.device][t]
    BY <1>0, <1>16, <2>1 DEF RestoreRemoves, TypeOK, Hashes
  <2>4. ASSUME NEW t \in Skills \ cmd'.touched, t \in cmd.ids \ cmd'.todo
        PROVE  local'[cmd.device][t] = cmd.merged.hash[t]
    <3>1. t # s /\ t \notin cmd.touched /\ t \notin cmd.todo
      BY <2>2, <2>4
    <3>2. local[cmd.device][t] = cmd.merged.hash[t]
      BY <2>1, <2>4, <3>1 DEF LocalSide
    <3> QED
      BY <2>3, <3>1, <3>2
  <2> QED
    BY <2>2, <2>4 DEF LocalSide
<1>13. ASSUME NEW withBase \in BOOLEAN, RestoreEnds(withBase) PROVE LocalSide'
  <2>1. cmd \in Command /\ Running /\ cmd.kind = "restore" /\ cmd.todo = {}
    BY <1>0, <1>13, RunningCommand DEF RestoreEnds, At
  <2>2. \/ cmd' = NoCommand
        \/ /\ cmd'.kind = "restore" /\ cmd'.ids = cmd.ids /\ cmd'.device = cmd.device
           /\ cmd'.merged = cmd.merged /\ cmd'.todo = cmd.todo
           /\ cmd'.touched = cmd.touched
    BY <1>13, <2>1 DEF RestoreEnds, Command
  <2>3. local' = local
    BY <1>13, RootsStay DEF RestoreEnds
  <2> QED
    BY <2>1, <2>2, <2>3, EndsQuietly DEF LocalSide
<1>14. ASSUME PutMarked PROVE LocalSide'
  <2>1. cmd \in Command /\ cmd.kind = "lifecycle"
    BY <1>0, <1>14, RunningCommand DEF PutMarked, At
  <2>2. cmd'.kind = "lifecycle"
    BY <1>14, <2>1 DEF PutMarked, Command
  <2> QED
    BY <2>2 DEF LocalSide
<1>15. ASSUME RecordMerged \/ CacheMarked \/ CommandDies \/ RestoreFails \/ ReportIgnored
       PROVE  LocalSide'
  BY <1>15, EndsQuietly
  DEF RecordMerged, CacheMarked, CommandDies, RestoreFails, ReportIgnored
<1> QED
  BY <1>1, <1>2, <1>3, <1>4, <1>5, <1>6, <1>7, <1>8, <1>9, <1>10, <1>11, <1>12,
     <1>13, <1>14, <1>15, <1>16
  DEF NextWithCommands, Operate

LEMMA ReviewStandsNext ==
    ASSUME CommandTypes, RemoteSide, ReviewStands, NextWithCommands
    PROVE  ReviewStands'
<1>0. TypeOKWithCommands /\ TypeOK
  BY DEF CommandTypes, TypeOKWithCommands
<1>1. ASSUME Others PROVE ReviewStands'
  <2>1. CASE Running
    <3>1. /\ cmd'.kind = cmd.kind /\ cmd'.device = cmd.device
          /\ cmd'.step = cmd.step /\ cmd'.ids = cmd.ids
          /\ cmd'.report = cmd.report
          /\ cmd'.fresh => cmd.fresh /\ index' = index
          /\ ~ cmd'.refreshed => /\ ~ cmd.refreshed
                                 /\ cache'[cmd.device] = cache[cmd.device]
      BY <1>0, <1>1, <2>1, Seen
    <3> QED
      BY <2>1, <3>1 DEF ReviewStands, At
  <2>2. CASE ~ Running
    BY <1>1, <2>2, EndsQuietly DEF Others, Running
  <2> QED
    BY <2>1, <2>2
<1>2. ASSUME NEW d \in Devices, BlockedReport(d) PROVE ReviewStands'
  <2>1. cmd'.step = "reported"
    BY <1>2 DEF BlockedReport, Start
  <2> QED
    BY <2>1 DEF ReviewStands, At
<1>3. ASSUME NEW d \in Devices,
             \/ Adopt(d)
             \/ \E s \in Skills, source \in Versions : Publish(d, s, source)
             \/ \E ids \in SUBSET Skills :
                  \/ Restore(d, ids)
                  \/ \E to \in LifecycleStates : ChangeLifecycle(d, ids, to)
      PROVE  ReviewStands'
  <2>1. cmd'.kind \in {"adopt", "publish", "restore", "lifecycle"}
    BY <1>3 DEF Adopt, Publish, Restore, ChangeLifecycle, Start
  <2> QED
    BY <2>1 DEF ReviewStands, At
<1>4. ASSUME NEW ids \in SUBSET Skills, NEW localWins \in BOOLEAN,
             ApprovedPush(ids, localWins)
      PROVE  ReviewStands'
  <2>1. cmd \in Command
    BY <1>0, <1>4, RunningCommand DEF ApprovedPush, At
  <2>2. \/ cmd' = NoCommand
        \/ /\ \A s \in ids : Approvable(cmd.device, s, localWins)
           /\ cmd'.step = "checking" /\ cmd'.ids = ids
           /\ cmd'.device = cmd.device /\ cmd'.report = cmd.report
    BY <1>4, <2>1 DEF ApprovedPush, Command
  <2>3. cache' = cache
    BY <1>4 DEF ApprovedPush, ReadOnly, vars
  <2> QED
    BY <2>2, <2>3, EndsQuietly DEF ReviewStands, Approvable, StillAsReviewed
<1>5. ASSUME CheckRemote PROVE ReviewStands'
  <2>1. cmd \in Command /\ Running /\ cmd.step = "checking"
    BY <1>0, <1>5, RunningCommand DEF CheckRemote, At
  <2>2. \/ cmd' = NoCommand
        \/ /\ cmd'.step = "merging" /\ cmd'.kind = cmd.kind /\ cmd'.ids = cmd.ids
           /\ cmd'.device = cmd.device /\ cmd'.report = cmd.report
           /\ cmd'.refreshed = cmd.refreshed
    BY <1>5, <2>1 DEF CheckRemote, Command
  <2>3. cache' = cache
    BY <1>5 DEF CheckRemote, ReadOnly, vars
  <2> QED
    BY <2>1, <2>2, <2>3, EndsQuietly DEF ReviewStands, At
<1>6. ASSUME Merge PROVE ReviewStands'
  <2>1. cmd \in Command /\ Running /\ cmd.step = "merging"
    BY <1>0, <1>6, RunningCommand DEF Merge, At
  <2>2. \/ cmd' = NoCommand
        \/ /\ cmd'.step = "uploading" /\ cmd'.kind = cmd.kind /\ cmd'.ids = cmd.ids
           /\ cmd'.device = cmd.device /\ cmd'.report = cmd.report
           /\ cmd'.refreshed = cmd.refreshed /\ cmd'.fresh = cmd.fresh
    BY <1>6, <2>1 DEF Merge, Command
  <2>3. cache' = cache /\ index' = index
    BY <1>6 DEF Merge, ReadOnly, vars
  <2>4. cmd.fresh => index = cache[cmd.device]
    BY <2>1 DEF RemoteSide
  <2> QED
    BY <2>1, <2>2, <2>3, <2>4, EndsQuietly DEF ReviewStands, At
<1>7. ASSUME NEW s \in Skills, UploadApproved(s) PROVE ReviewStands'
  <2>1. cmd \in Command /\ Running /\ cmd.step = "uploading"
    BY <1>0, <1>7, RunningCommand DEF UploadApproved, At
  <2>2. /\ cmd'.step = "uploading" /\ cmd'.kind = cmd.kind /\ cmd'.ids = cmd.ids
        /\ cmd'.device = cmd.device /\ cmd'.report = cmd.report
        /\ cmd'.refreshed = cmd.refreshed /\ cmd'.fresh = cmd.fresh
        /\ index' = index
    BY <1>7, <2>1 DEF UploadApproved, Command
  <2> QED
    BY <2>1, <2>2 DEF ReviewStands, At
<1>8. ASSUME \/ PutMerged \/ PutMarked \/ RestoreInstalls
             \/ \E s \in Skills : RestoreRemoves(s)
      PROVE  ReviewStands'
  <2>1. cmd \in Command
    BY <1>0, <1>8, RunningCommand 
    DEF PutMerged, MergedReady, PutMarked, RestoreInstalls, RestoreRemoves, At
  <2>2. cmd'.step \in {"recording", "caching"} \/ cmd'.kind = "restore"
    BY <1>8, <2>1 DEF PutMerged, PutMarked, RestoreInstalls, RestoreRemoves, At, Command
  <2> QED
    BY <2>2 DEF ReviewStands, At
<1>9. ASSUME NEW withBase \in BOOLEAN, RestoreEnds(withBase) PROVE ReviewStands'
  <2>1. cmd \in Command
    BY <1>0, <1>9, RunningCommand DEF RestoreEnds, At
  <2>2. cmd' = NoCommand \/ cmd'.step = "recording"
    BY <1>9, <2>1 DEF RestoreEnds, Command
  <2> QED
    BY <2>2, EndsQuietly DEF ReviewStands, At
<1>10. ASSUME RecordMerged \/ CacheMarked \/ CommandDies \/ RestoreFails \/ ReportIgnored
       PROVE  ReviewStands'
  BY <1>10, EndsQuietly
  DEF RecordMerged, CacheMarked, CommandDies, RestoreFails, ReportIgnored
<1> QED
  BY <1>1, <1>2, <1>3, <1>4, <1>5, <1>6, <1>7, <1>8, <1>9, <1>10
  DEF NextWithCommands, Operate

LEMMA CommandInvInit == InitWithCommands => CommandInv
BY CommandTypesInit
DEF InitWithCommands, CommandInv, RemoteSide, LocalSide, ReviewStands, Running, At

LEMMA CommandInvNext == CommandInv /\ [NextWithCommands]_ovars => CommandInv'
<1> SUFFICES ASSUME CommandInv, [NextWithCommands]_ovars PROVE CommandInv'
  OBVIOUS
<1>1. CommandTypes'
  BY CommandTypesNext DEF CommandInv
<1>2. CASE NextWithCommands
  BY <1>1, <1>2, RemoteSideNext, LocalSideNext, ReviewStandsNext DEF CommandInv
<1>3. CASE UNCHANGED ovars
  BY <1>1, <1>3
  DEF CommandInv, RemoteSide, LocalSide, ReviewStands, Running, At, ovars, vars
<1> QED
  BY <1>2, <1>3

\* What a command holds of both sides is true in every state, until others
\* change them.
THEOREM CommandInvariance == SpecWithCommands => []CommandInv
BY CommandInvInit, CommandInvNext, PTL DEF SpecWithCommands

\* A command under way moves on only by its own step.
LEMMA OthersMoveNothing ==
    ASSUME TypeOKWithCommands, Running, Others
    PROVE  cmd'.step = cmd.step /\ cmd' # NoCommand
BY Seen

\* The only step from the uploads to the record is the put of the merged index.
LEMMA PutsMerged ==
    ASSUME CommandTypes, NextWithCommands, NEW kinds \in SUBSET {"approve", "publish"},
           Moves(kinds, "uploading", "recording")
    PROVE  PutMerged
<1>0. TypeOKWithCommands /\ Running /\ cmd.step = "uploading" /\ cmd.kind \in kinds
  BY DEF CommandTypes, Moves, At
<1>1. cmd \in Command /\ cmd' # NoCommand /\ cmd'.step = "recording"
  BY <1>0, RunningCommand DEF Moves
<1>2. ~ Others
  BY <1>0, <1>1, OthersMoveNothing
<1>3. \A s \in Skills : ~ UploadApproved(s)
  BY <1>0, <1>1 DEF UploadApproved, Command
<1>4. \A d \in Devices : ~ Begin(d)
  BY <1>0 DEF Begin
<1> QED
  BY <1>0, <1>1, <1>2, <1>3, <1>4
  DEF NextWithCommands, Operate, BlockedReport, Adopt, Publish, Restore,
      ChangeLifecycle, ApprovedPush, CheckRemote, Merge, RecordMerged, RestoreRemoves,
      RestoreInstalls, RestoreFails, RestoreEnds, PutMarked, CacheMarked, CommandDies, ReportIgnored, At

LEMMA PutsMarked ==
    ASSUME CommandTypes, NextWithCommands,
           Moves({"lifecycle"}, "marking", "caching")
    PROVE  PutMarked
<1>0. TypeOKWithCommands /\ Running /\ cmd.step = "marking" /\ cmd.kind = "lifecycle"
  BY DEF CommandTypes, Moves, At
<1>1. cmd' # NoCommand /\ cmd'.step = "caching"
  BY DEF Moves
<1>2. ~ Others
  BY <1>0, <1>1, OthersMoveNothing
<1>3. \A d \in Devices : ~ Begin(d)
  BY <1>0 DEF Begin
<1> QED
  BY <1>0, <1>1, <1>2, <1>3
  DEF NextWithCommands, Operate, BlockedReport, Adopt, Publish, Restore,
      ChangeLifecycle, ApprovedPush, CheckRemote, Merge, UploadApproved, PutMerged,
      MergedReady, RecordMerged, RestoreRemoves, RestoreInstalls, RestoreFails,
      RestoreEnds, CacheMarked, CommandDies, ReportIgnored, At

\* What a command puts on central differs from what is there in nothing but the
\* skills it was asked to change, while central is as it was compared.
THEOREM CommandsTouchOnlyChosenEver == SpecWithCommands => CommandsTouchOnlyChosen
<1> DEFINE Chosen == Puts /\ cmd.fresh =>
         \A s \in Skills \ cmd.ids :
            /\ index'.hash[s] = index.hash[s]
            /\ s \in index'.deprecated <=> s \in index.deprecated
<1>1. ASSUME CommandInv, [NextWithCommands]_ovars PROVE Chosen \/ UNCHANGED ovars
  <2> SUFFICES ASSUME Puts, cmd.fresh, NextWithCommands
               PROVE  \A s \in Skills \ cmd.ids :
                         /\ index'.hash[s] = index.hash[s]
                         /\ s \in index'.deprecated <=> s \in index.deprecated
    BY <1>1
  <2>1. PutMerged \/ PutMarked
    BY <1>1, PutsMerged, PutsMarked DEF Puts, CommandInv
  <2>2. Running /\ cmd.step \in {"uploading", "marking"} /\ index' = cmd.merged
    BY <2>1 DEF PutMerged, MergedReady, PutMarked, At
  <2> QED
    BY <1>1, <2>2 DEF CommandInv, RemoteSide
<1> QED
  BY <1>1, CommandInvariance, PTL DEF SpecWithCommands, CommandsTouchOnlyChosen

\* What an approved push publishes and replaces is what the operator reviewed,
\* unless the skill or the cache was changed during the very push.
THEOREM ApprovedAsReviewedEver == SpecWithCommands => ApprovedAsReviewed
<1> DEFINE Reviewed == Moves({"approve"}, "uploading", "recording") =>
         \A s \in cmd.ids :
            /\ s \notin cmd.touched => cmd.merged.hash[s] = cmd.report[s].local
            /\ cmd.fresh /\ ~ cmd.refreshed
                  => index.hash[s] = cmd.report[s].remote
<1>1. CommandInv => Reviewed
  <2> SUFFICES ASSUME CommandInv, At({"approve"}, "uploading"), NEW s \in cmd.ids
               PROVE  /\ s \notin cmd.touched
                            => cmd.merged.hash[s] = cmd.report[s].local
                      /\ cmd.fresh /\ ~ cmd.refreshed
                            => index.hash[s] = cmd.report[s].remote
    BY DEF Moves
  <2>1. Running /\ cmd.kind = "approve" /\ cmd.step = "uploading"
    BY DEF At
  <2>2. s \in Skills
    BY <2>1, RunningCommand DEF CommandInv, CommandTypes, Command
  <2> QED
    BY <2>1, <2>2 DEF CommandInv, LocalSide, ReviewStands
<1> QED
  BY <1>1, CommandInvariance, PTL DEF ApprovedAsReviewed

\* What a command writes in the base record is what the device and central hold of
\* the skills it was about, unless others changed them meanwhile, provided that
\* publishing packages a directory as it is.
THEOREM RecordedIsAgreedEver ==
    ASSUME PublishesAsIs PROVE SpecWithCommands => RecordedIsAgreed
<1> DEFINE Agreed == At(Kinds, "recording") /\ cmd' = NoCommand /\ faults' = faults =>
         \A s \in (IF cmd.kind = "adopt" THEN Skills ELSE cmd.ids) \ cmd.touched :
            /\ base'[cmd.device][s] = local[cmd.device][s]
            /\ cmd.fresh => base'[cmd.device][s] = index.hash[s]
<1>1. ASSUME CommandInv, [NextWithCommands]_ovars PROVE Agreed \/ UNCHANGED ovars
  <2> SUFFICES ASSUME At(Kinds, "recording"), cmd' = NoCommand, faults' = faults,
                      NextWithCommands,
                      NEW s \in (IF cmd.kind = "adopt" THEN Skills ELSE cmd.ids)
                                \ cmd.touched
               PROVE  /\ base'[cmd.device][s] = local[cmd.device][s]
                      /\ cmd.fresh => base'[cmd.device][s] = index.hash[s]
    BY <1>1
  <2>1. TypeOKWithCommands /\ TypeOK /\ Running /\ cmd.step = "recording"
    BY <1>1 DEF CommandInv, CommandTypes, TypeOKWithCommands, At
  <2>2. cmd \in Command /\ s \in Skills /\ cmd.device \in Devices
    BY <2>1, RunningCommand DEF Command
  <2>3. RecordMerged
    <3>1. ~ Others
      BY <2>1, OthersMoveNothing
    <3>2. \A d \in Devices : ~ Begin(d)
      BY <2>1 DEF Begin
    <3>3. ~ CommandDies
      BY <2>1 DEF CommandDies, TypeOK
    <3> QED
      BY <1>1, <2>1, <3>1, <3>2, <3>3
      DEF NextWithCommands, Operate, BlockedReport, Adopt, Publish, Restore,
          ChangeLifecycle, ApprovedPush, CheckRemote, Merge, UploadApproved, PutMerged,
          MergedReady, RestoreRemoves, RestoreInstalls, RestoreFails, RestoreEnds,
          PutMarked, CacheMarked, ReportIgnored, At
  <2>4. base'[cmd.device][s] = cmd.merged.hash[s] /\ cmd.kind # "lifecycle"
    BY <2>1, <2>2, <2>3 DEF RecordMerged, Recorded, TypeOK, At
  <2>5. local[cmd.device][s] = cmd.merged.hash[s]
    <3>1. s \notin cmd.touched /\ (cmd.kind # "adopt" => s \in cmd.ids)
      OBVIOUS
    <3>2. cmd.kind \in {"approve", "publish", "restore", "adopt"}
      BY <2>2, <2>4 DEF Command, Kinds
    <3> QED
      BY <1>1, <2>1, <2>2, <3>1, <3>2 DEF CommandInv, LocalSide
  <2>6. cmd.fresh => cmd.merged.hash = index.hash
    BY <1>1, <2>1 DEF CommandInv, RemoteSide
  <2> QED
    BY <2>4, <2>5, <2>6
<1> QED
  BY <1>1, CommandInvariance, PTL DEF SpecWithCommands, RecordedIsAgreed

-----------------------------------------------------------------------------
(* Nothing is lost beside the commands.                                       *)

\* The ways in which a step of others changes what is listed.
LEMMA ListsChange ==
    ASSUME TypeOK, Next
    PROVE  /\ \/ index' = index
              \/ \E d \in Devices : WriteIndex(d) /\ index' = SnapshotIndex(d)
              \/ index'.hash = lifecycle.seen.hash
           /\ lifecycle' \in {lifecycle, NoOperation} \/ lifecycle'.seen = index
           /\ \A d \in Devices :
                 \/ base'[d] = base[d]
                 \/ pc[d] = "recording" /\ base'[d] = NewBase(d)
<1> DEFINE Listed ==
           /\ \/ index' = index
              \/ \E d \in Devices : WriteIndex(d) /\ index' = SnapshotIndex(d)
              \/ index'.hash = lifecycle.seen.hash
           /\ lifecycle' \in {lifecycle, NoOperation} \/ lifecycle'.seen = index
           /\ \A d \in Devices :
                 \/ base'[d] = base[d]
                 \/ pc[d] = "recording" /\ base'[d] = NewBase(d)
<1> USE DEF central, mirror, counters
<1>1. ASSUME UNCHANGED <<index, lifecycle, base>> PROVE Listed
  BY <1>1
<1>2. ASSUME NEW e \in Devices, RecordBase(e) PROVE Listed
  BY <1>2 DEF RecordBase, TypeOK
<1>3. ASSUME NEW e \in Devices, PutIndex(e) \/ PutIndexUnacknowledged(e) PROVE Listed
  BY <1>3 DEF PutIndex, PutIndexUnacknowledged, WriteIndex
<1>4. ASSUME NEW s \in Skills, NEW to \in LifecycleStates, LifecycleCheck(s, to)
      PROVE  Listed
  BY <1>4 DEF LifecycleCheck
<1>5. ASSUME LifecyclePut PROVE Listed
  BY <1>5 DEF LifecyclePut, LifecycleIndex
<1>6. ASSUME NEW e \in Devices, Daemon(e) \/ Fault(e) PROVE Listed
  <2>1. \/ UNCHANGED <<index, lifecycle, base>>
        \/ RecordBase(e) \/ PutIndex(e) \/ PutIndexUnacknowledged(e)
    BY <1>6
    DEF Daemon, Fault, FetchIndex, FetchArchive, FetchDangling, GateBlocked,
        GatePassed, PreviewEnds, PreviewAccepted, AssertRemote, RemoveTarget,
        InstallTarget, InstallFails, PullsFinished, ScanLocal, UploadArchive, Interrupt
  <2> QED
    BY <2>1, <1>1, <1>2, <1>3
<1>7. ASSUME NEW e \in Devices,
             Restart(e) \/ \E s \in Skills, content \in Content : Edit(e, s, content)
      PROVE  Listed
  BY <1>1, <1>7 DEF Restart, Edit
<1> QED
  BY <1>4, <1>5, <1>6, <1>7 DEF Next, Environment

\* What a push lists of the skills nobody disturbed is stored when it lists it.
LEMMA ScanIsStored ==
    ASSUME NEW d \in Devices, CycleStores(d), WriteIndex(d)
    PROVE  AllStored(job[d].snap)
BY DEF CycleStores, WriteIndex, ToUpload, AllStored, Stored

\* What a cycle records is stored.
LEMMA RecordIsStored ==
    ASSUME TypeOK, NEW d \in Devices, CycleStores(d), AllStored(cache[d].hash),
           pc[d] = "recording"
    PROVE  AllStored(NewBase(d))
BY DEF CycleStores, NewBase, AllStored, Stored

\* A step of the device's own cycle.
LEMMA CycleStoresOwn ==
    ASSUME TypeOK, NEW e \in Devices, Daemon(e) \/ Fault(e), CycleStores(e),
           \A s \in Skills : Override[e][s] # {} => s \in disturbed,
           cache[e].deprecated \subseteq disturbed, AllStored(cache[e].hash),
           AllStored(base[e]), archives \subseteq archives', disturbed \subseteq disturbed'
    PROVE  CycleStores(e)'
<1> USE DEF CycleStores, AllStored, Stored, central, mirror, counters
<1>1. CASE PreviewAccepted(e)
  <2>1. /\ pc'[e] \in {"asserting", "pulling"} /\ Halting(Plan(e)) = {}
        /\ UNCHANGED <<archives, local>>
    BY <1>1 DEF PreviewAccepted, Goto, TypeOK
  <2>2. \A s \in Skills : job'[e].plan = Plan(e)
    BY <1>1, PlanKept
  <2>3. ASSUME NEW s \in Skills \ disturbed
        PROVE  s \in Pushes(e)' \/ Stored(s, local[e][s])
    <3>1. s \notin cache[e].deprecated /\ Override[e][s] = {}
      OBVIOUS
    <3>2. \/ local[e][s] \in {cache[e].hash[s], base[e][s], Absent}
          \/ s \in Having(Plan(e), PUSH_ACTIONS)
      BY <2>1, <3>1, AcceptedPlan
    <3> QED
      BY <2>2, <3>2 DEF Pushes, Having
  <2> QED
    BY <2>1, <2>3
<1>2. CASE AssertRemote(e)
  <2>1. /\ pc[e] = "asserting" /\ UNCHANGED <<archives, local>>
        /\ \/ pc'[e] = "idle"
           \/ pc'[e] = "pulling" /\ job'[e] = job[e]
    BY <1>2 DEF AssertRemote, EndCycle, Goto, TypeOK
  <2> QED
    BY <2>1 DEF Pushes
<1>3. ASSUME NEW k \in Skills, RemoveTarget(e, k) PROVE CycleStores(e)'
  <2>1. /\ pc[e] = "pulling" /\ pc'[e] = "replacing" /\ UNCHANGED archives
        /\ \A s \in Skills : local'[e][s] \in {local[e][s], Absent}
    BY <1>3 DEF RemoveTarget, Goto, TypeOK, Hashes
  <2>2. job'[e].plan = job[e].plan
    BY <1>3, PlanKept
  <2> QED
    BY <2>1, <2>2 DEF Pushes
<1>4. CASE InstallTarget(e)
  <2>1. /\ pc[e] = "replacing" /\ pc'[e] = "pulling" /\ UNCHANGED archives
        /\ \A s \in Skills : local'[e][s] \in {local[e][s], cache[e].hash[s]}
    BY <1>4 DEF InstallTarget, Goto, TypeOK, Hashes
  <2>2. \A s \in Skills : job'[e].plan = job[e].plan
    BY <1>4, PlanKept
  <2> QED
    BY <2>1, <2>2 DEF Pushes
<1>5. CASE PullsFinished(e)
  <2>1. /\ pc[e] = "pulling" /\ UNCHANGED <<archives, local>>
        /\ pc'[e] = IF Pushes(e) # {} THEN "scanning" ELSE "recording"
    BY <1>5 DEF PullsFinished, Goto, TypeOK
  <2>2. job'[e].plan = job[e].plan /\ job'[e].done = {}
    BY <1>5 DEF PullsFinished, TypeOK, Job
  <2> QED
    BY <2>1, <2>2 DEF Pushes
<1>6. CASE ScanLocal(e)
  <2>1. /\ pc[e] = "scanning" /\ pc'[e] = "uploading" /\ UNCHANGED archives
    BY <1>6 DEF ScanLocal, Goto, TypeOK
  <2>2. /\ job'[e].plan = job[e].plan /\ job'[e].done = job[e].done
        /\ job'[e].snap = local[e]
    BY <1>6 DEF ScanLocal, TypeOK, Job
  <2> QED
    BY <2>1, <2>2 DEF Pushes
<1>7. ASSUME NEW k \in Skills, UploadArchive(e, k) PROVE CycleStores(e)'
  <2>1. /\ pc[e] = "uploading" /\ pc'[e] = "uploading"
        /\ archives' = archives \cup {<<k, job[e].snap[k]>>}
    BY <1>7 DEF UploadArchive
  <2>2. /\ job'[e].plan = job[e].plan /\ job'[e].snap = job[e].snap
        /\ job'[e].done = job[e].done \cup {k}
    BY <1>7 DEF UploadArchive, TypeOK, Job
  <2> QED
    BY <2>1, <2>2 DEF Pushes
<1>8. CASE PutIndex(e)
  <2>1. /\ pc[e] = "uploading" /\ pc'[e] = "recording" /\ UNCHANGED archives
        /\ job'[e] = job[e]
    BY <1>8 DEF PutIndex, WriteIndex, Goto, TypeOK, Overtaken
  <2>2. AllStored(job[e].snap)
    BY <1>8, ScanIsStored DEF PutIndex
  <2> QED
    BY <2>1, <2>2
<1>9. CASE pc'[e] \in QuietPhases
  BY <1>9 DEF QuietPhases
<1>10. \/ PreviewAccepted(e) \/ AssertRemote(e)
       \/ \E s \in Skills : RemoveTarget(e, s) \/ UploadArchive(e, s)
       \/ InstallTarget(e) \/ PullsFinished(e) \/ ScanLocal(e) \/ PutIndex(e)
       \/ pc'[e] \in QuietPhases
  BY DEF Daemon, Fault, FetchIndex, FetchArchive, FetchDangling, GateBlocked,
         GatePassed, PreviewEnds, InstallFails, PutIndexUnacknowledged, RecordBase,
         Interrupt, EndCycle, Goto, TypeOK, QuietPhases
<1> QED
  BY <1>1, <1>2, <1>3, <1>4, <1>5, <1>6, <1>7, <1>8, <1>9, <1>10

\* A skill root that changes behind the back of a cycle is known to have changed.
LEMMA ChangedIsKnown ==
    ASSUME NEW e \in Devices, CycleStores(e), UNCHANGED <<archives, pc, job>>,
           disturbed \cup ChangedUnseen \subseteq disturbed'
    PROVE  CycleStores(e)'
<1>1. pc[e] \in {"asserting", "pulling", "replacing", "scanning"} =>
         \A k \in Skills \ disturbed' : k \in Pushes(e) \/ local'[e][k] = local[e][k]
  BY DEF ChangedUnseen
<1>2. Pushes(e)' = Pushes(e)
  BY DEF Pushes
<1> QED
  BY <1>1, <1>2 DEF CycleStores, AllStored, Stored

LEMMA CycleStoresNext ==
    ASSUME TypeOK, Next, NEW e \in Devices, CycleStores(e),
           \A s \in Skills : Override[e][s] # {} => s \in disturbed,
           cache[e].deprecated \subseteq disturbed, AllStored(cache[e].hash),
           AllStored(base[e]), disturbed \subseteq disturbed',
           edits' # edits => ChangedUnseen \subseteq disturbed'
    PROVE  CycleStores(e)'
<1>0. archives \subseteq archives'
  BY ArchivesGrow
<1>1. ASSUME NEW d \in Devices, Daemon(d) \/ Fault(d), e # d PROVE CycleStores(e)'
  BY <1>0, <1>1, OtherDevices DEF SameElsewhere, CycleStores, AllStored, Stored, Pushes
<1>2. ASSUME Daemon(e) \/ Fault(e) PROVE CycleStores(e)'
  BY <1>0, <1>2, CycleStoresOwn
<1>3. ASSUME NEW d \in Devices, Restart(d) PROVE CycleStores(e)'
  BY <1>0, <1>3
  DEF Restart, Goto, TypeOK, CycleStores, AllStored, Stored, Pushes, central
<1>4. ASSUME NEW d \in Devices, NEW s \in Skills, NEW content \in Content,
             Edit(d, s, content)
      PROVE  CycleStores(e)'
  <2>1. UNCHANGED <<archives, pc, job>> /\ edits' # edits
    BY <1>4 DEF Edit, central, TypeOK
  <2> QED
    BY <2>1, ChangedIsKnown
<1>5. ASSUME NEW s \in Skills, NEW to \in LifecycleStates, LifecycleCheck(s, to)
      PROVE  CycleStores(e)'
  BY <1>5 DEF LifecycleCheck, CycleStores, AllStored, Stored, Pushes, central
<1>6. ASSUME LifecyclePut PROVE CycleStores(e)'
  BY <1>6, OvertakenKeeps DEF LifecyclePut, CycleStores, AllStored, Stored, Pushes
<1> QED
  BY <1>1, <1>2, <1>3, <1>4, <1>5, <1>6 DEF Next, Environment

LEMMA MarksAreKnownNext ==
    ASSUME CommandTypes, MarksAreKnown, NextWithCommands
    PROVE  MarksAreKnown'
<1>0. TypeOKWithCommands /\ TypeOK
  BY DEF CommandTypes, TypeOKWithCommands
<1> USE DEF MarksAreKnown
<1>1. ASSUME Others PROVE MarksAreKnown'
  <2>1. index'.deprecated \subseteq disturbed' /\ disturbed \subseteq disturbed'
    BY <1>1 DEF Others
  <2>2. \A d \in Devices : cache'[d].deprecated \subseteq disturbed'
    BY <1>0, <1>1, <2>1, CacheSteps DEF Others
  <2>3. CASE Running
    BY <1>0, <1>1, <2>1, <2>2, <2>3, Seen
  <2>4. CASE ~ Running
    BY <1>1, <2>1, <2>2, <2>4 DEF Others, Running
  <2> QED
    BY <2>3, <2>4
<1>2. ASSUME ReadOnly, disturbed' = disturbed,
             cmd' = NoCommand \/ cmd'.step = "marking"
             \/ cmd'.merged.deprecated \subseteq disturbed
      PROVE  MarksAreKnown'
  BY <1>2 DEF ReadOnly, vars, Running
<1>3. ASSUME NEW d \in Devices,
             \/ BlockedReport(d) \/ Adopt(d)
             \/ \E s \in Skills, source \in Versions : Publish(d, s, source)
             \/ \E ids \in SUBSET Skills :
                  \/ Restore(d, ids)
                  \/ \E to \in LifecycleStates : ChangeLifecycle(d, ids, to)
      PROVE  MarksAreKnown'
  <2>1. ReadOnly /\ disturbed' = disturbed
    BY <1>3 DEF BlockedReport, Adopt, Publish, Restore, ChangeLifecycle, Begin
  <2>2. \/ cmd'.merged.deprecated \subseteq disturbed
        \/ cmd'.step = "marking"
    <3>1. CASE BlockedReport(d)
      BY <3>1 DEF BlockedReport, Start, NoIndex
    <3>5. CASE Adopt(d)
      <4>1. cmd'.merged = [NoIndex EXCEPT !.hash = local[d]]
        BY <3>5 DEF Adopt, Start
      <4> QED
        BY <4>1 DEF NoIndex
    <3>2. CASE \E s \in Skills, source \in Versions : Publish(d, s, source)
      BY <3>2 DEF Publish, Start, NoIndex
    <3>3. CASE \E ids \in SUBSET Skills : Restore(d, ids)
      BY <3>3 DEF Restore, Start
    <3>4. CASE \E ids \in SUBSET Skills, to \in LifecycleStates :
                  ChangeLifecycle(d, ids, to)
      BY <3>4 DEF ChangeLifecycle, Start
    <3> QED
      BY <1>3, <3>1, <3>2, <3>3, <3>4, <3>5
  <2> QED
    BY <1>2, <2>1, <2>2
<1>4. ASSUME \/ \E ids \in SUBSET Skills, localWins \in BOOLEAN :
                   ApprovedPush(ids, localWins)
             \/ CheckRemote \/ Merge
             \/ \E withBase \in BOOLEAN : RestoreEnds(withBase)
             \/ ReportIgnored
      PROVE  MarksAreKnown'
  <2>1. /\ cmd \in Command /\ Running /\ cmd.step # "marking"
        /\ ReadOnly /\ disturbed' = disturbed
    BY <1>0, <1>4, RunningCommand
    DEF ApprovedPush, CheckRemote, Merge, RestoreEnds, ReportIgnored, At, asked
  <2>2. Merged.deprecated \subseteq disturbed
    BY <2>1 DEF Merged, Command
  <2>3. cmd' = NoCommand \/ cmd'.merged \in {cmd.merged, Merged}
    BY <1>4, <2>1
    DEF ApprovedPush, CheckRemote, Merge, RestoreEnds, ReportIgnored, Command
  <2> QED
    BY <1>2, <2>1, <2>2, <2>3
<1>5. ASSUME RestoreInstalls \/ \E s \in Skills : UploadApproved(s) \/ RestoreRemoves(s)
      PROVE  MarksAreKnown'
  <2>1. cmd \in Command /\ Running /\ cmd.step # "marking"
    BY <1>0, <1>5, RunningCommand
    DEF UploadApproved, RestoreInstalls, RestoreRemoves, At
  <2>2. /\ cmd'.merged = cmd.merged /\ index' = index /\ cache' = cache
        /\ disturbed' = disturbed
    BY <1>5, <2>1
    DEF UploadApproved, RestoreInstalls, RestoreRemoves, Command, central, mirror, asked
  <2> QED
    BY <2>1, <2>2
<1>6. ASSUME PutMerged PROVE MarksAreKnown'
  <2>1. cmd \in Command /\ Running /\ cmd.step # "marking"
    BY <1>0, <1>6, RunningCommand DEF PutMerged, MergedReady, At
  <2>2. /\ cmd'.merged = cmd.merged /\ index' = cmd.merged /\ cache' = cache
        /\ disturbed' = disturbed
    BY <1>6, <2>1 DEF PutMerged, Command, mirror, asked
  <2> QED
    BY <2>1, <2>2
<1>7. ASSUME PutMarked PROVE MarksAreKnown'
  <2>1. cmd \in Command
    BY <1>0, <1>7, RunningCommand DEF PutMarked, At
  <2>2. /\ cmd'.merged = cmd.merged /\ index' = cmd.merged /\ cache' = cache
        /\ disturbed' = disturbed \cup cmd.merged.deprecated
    BY <1>7, <2>1 DEF PutMarked, Command, mirror
  <2> QED
    BY <2>2
<1>8. ASSUME RecordMerged \/ CommandDies \/ RestoreFails PROVE MarksAreKnown'
  BY <1>8 DEF RecordMerged, CommandDies, RestoreFails, central, mirror, asked, Running
<1>9. ASSUME CacheMarked PROVE MarksAreKnown'
  <2>1. /\ Running /\ cmd.step = "caching" /\ cmd' = NoCommand /\ index' = index
        /\ disturbed' = disturbed
        /\ \A d \in Devices : cache'[d] \in {cache[d], cmd.merged}
    BY <1>0, <1>9 DEF CacheMarked, At, central, asked, TypeOK
  <2> QED
    BY <2>1 DEF Running
<1> QED
  BY <1>1, <1>3, <1>4, <1>5, <1>6, <1>7, <1>8, <1>9 DEF NextWithCommands, Operate

LEMMA ListedIsStoredByOthers ==
    ASSUME CommandTypes, ListedIsStored, \A d \in Devices : CycleStores(d), Others
    PROVE  ListedIsStored'
<1>0. TypeOKWithCommands /\ TypeOK /\ Next
  BY DEF CommandTypes, TypeOKWithCommands, Others
<1>1. archives \subseteq archives' /\ disturbed \subseteq disturbed'
  BY <1>0, ArchivesGrow DEF Others
<1>2. ASSUME NEW hashes, AllStored(hashes)
      PROVE  \A s \in Skills \ disturbed' :
                hashes[s] = Absent \/ <<s, hashes[s]>> \in archives'
  BY <1>1, <1>2 DEF AllStored, Stored
<1>3. AllStored(index.hash)'
  <2>1. AllStored(index'.hash)
    BY <1>0, ListsChange, ScanIsStored DEF ListedIsStored, SnapshotIndex
  <2> QED
    BY <1>2, <2>1 DEF AllStored, Stored
<1>4. AllStored(lifecycle.seen.hash)'
  <2>1. AllStored(lifecycle'.seen.hash)
    BY <1>0, ListsChange DEF ListedIsStored, NoOperation, Nothing, AllStored, Stored
  <2> QED
    BY <1>2, <2>1 DEF AllStored, Stored
<1>5. ASSUME NEW d \in Devices
      PROVE  AllStored(base[d])' /\ AllStored(cache[d].hash)'
  <2>1. AllStored(base'[d])
    BY <1>0, ListsChange, RecordIsStored DEF ListedIsStored
  <2>2. AllStored(cache'[d].hash)
    BY <1>0, CacheSteps DEF ListedIsStored
  <2> QED
    BY <1>2, <2>1, <2>2 DEF AllStored, Stored
<1>6. ASSUME Running', NEW s \in Skills \ disturbed'
      PROVE  \/ Stored(s, cmd.merged.hash[s])'
             \/ At({"approve", "publish"}, "uploading")' /\ s \in cmd'.todo
  <2>1. Running
    BY <1>6 DEF Others, Running
  <2>2. /\ cmd'.merged = cmd.merged /\ cmd'.todo = cmd.todo /\ cmd'.kind = cmd.kind
        /\ cmd'.step = cmd.step
    BY <1>0, <2>1, Seen
  <2>3. \/ Stored(s, cmd.merged.hash[s])
        \/ At({"approve", "publish"}, "uploading") /\ s \in cmd.todo
    BY <1>1, <2>1 DEF ListedIsStored
  <2> QED
    BY <1>1, <1>6, <2>2, <2>3 DEF Stored, At
<1> QED
  BY <1>3, <1>4, <1>5, <1>6 DEF ListedIsStored

\* A step of a command that changes no list.
LEMMA ListsStay ==
    ASSUME ListedIsStored, UNCHANGED <<index, lifecycle, base, cache>>,
           archives \subseteq archives', disturbed \subseteq disturbed',
           Running' =>
              \A s \in Skills \ disturbed :
                 \/ cmd'.merged.hash[s] = Absent
                 \/ <<s, cmd'.merged.hash[s]>> \in archives'
                 \/ At({"approve", "publish"}, "uploading")' /\ s \in cmd'.todo
    PROVE  ListedIsStored'
BY DEF ListedIsStored, AllStored, Stored

LEMMA ListedIsStoredNext ==
    ASSUME CommandTypes, ListedIsStored, \A d \in Devices : CycleStores(d),
           NextWithCommands
    PROVE  ListedIsStored'
<1>0. TypeOKWithCommands /\ TypeOK
  BY DEF CommandTypes, TypeOKWithCommands
<1>1. CASE Others
  BY <1>1, ListedIsStoredByOthers
<1>2. ASSUME NEW d \in Devices,
             \/ BlockedReport(d) \/ Adopt(d)
             \/ \E s \in Skills, source \in Versions : Publish(d, s, source)
             \/ \E ids \in SUBSET Skills :
                  \/ Restore(d, ids)
                  \/ \E to \in LifecycleStates : ChangeLifecycle(d, ids, to)
      PROVE  ListedIsStored'
  <2>1. UNCHANGED <<index, lifecycle, base, cache, disturbed, archives>>
    BY <1>2 DEF BlockedReport, Adopt, Publish, Restore, ChangeLifecycle, Begin, ReadOnly, vars
  <2>2. ASSUME NEW s \in Skills PROVE cmd'.merged.hash[s] \in {Absent, cache[d].hash[s]}
    <3>1. CASE Adopt(d)
      <4>1. cmd'.merged.hash = local[d]
        BY <3>1 DEF Adopt, Start, NoIndex
      <4> QED
        BY <1>0, <3>1, <4>1, AdoptedIsBoth
    <3>2. CASE BlockedReport(d)
      BY <3>2 DEF BlockedReport, Start, NoIndex, Nothing
    <3>3. CASE \E t \in Skills, source \in Versions : Publish(d, t, source)
      BY <3>3 DEF Publish, Start, NoIndex, Nothing
    <3>4. ASSUME NEW ids \in SUBSET Skills, Restore(d, ids)
          PROVE  cmd'.merged.hash[s] \in {Absent, cache[d].hash[s]}
      BY <3>4 DEF Restore, Start
    <3>5. ASSUME NEW ids \in SUBSET Skills, NEW to \in LifecycleStates,
                 ChangeLifecycle(d, ids, to)
          PROVE  cmd'.merged.hash[s] \in {Absent, cache[d].hash[s]}
      <4>1. cache[d] \in Index
        BY <1>0 DEF TypeOK
      <4> QED
        BY <3>5, <4>1 DEF ChangeLifecycle, Start, Marked, Index
    <3> QED
      BY <1>2, <3>1, <3>2, <3>3, <3>4, <3>5
  <2>3. \A s \in Skills \ disturbed :
           cache[d].hash[s] = Absent \/ <<s, cache[d].hash[s]>> \in archives
    BY DEF ListedIsStored, AllStored, Stored
  <2> QED
    BY <2>1, <2>2, <2>3, ListsStay
<1>3. ASSUME \/ \E ids \in SUBSET Skills, localWins \in BOOLEAN :
                   ApprovedPush(ids, localWins)
             \/ CheckRemote
             \/ \E withBase \in BOOLEAN : RestoreEnds(withBase)
             \/ ReportIgnored
      PROVE  ListedIsStored'
  <2>1. /\ cmd \in Command /\ Running /\ cmd.step # "uploading"
        /\ UNCHANGED <<index, lifecycle, base, cache, disturbed, archives>>
    BY <1>0, <1>3, RunningCommand
    DEF ApprovedPush, CheckRemote, RestoreEnds, ReportIgnored, At, asked, ReadOnly, vars
  <2>2. cmd' = NoCommand \/ cmd'.merged = cmd.merged
    BY <1>3, <2>1 DEF ApprovedPush, CheckRemote, RestoreEnds, ReportIgnored, Command
  <2>3. \A s \in Skills \ disturbed : Stored(s, cmd.merged.hash[s])
    BY <2>1 DEF ListedIsStored, At
  <2> QED
    BY <2>1, <2>2, <2>3, ListsStay DEF Stored, Running
<1>4. ASSUME Merge PROVE ListedIsStored'
  <2>1. /\ cmd \in Command /\ Running /\ cmd.kind \in {"approve", "publish"}
        /\ cmd.device \in Devices
        /\ UNCHANGED <<index, lifecycle, base, cache, disturbed, archives>>
    BY <1>0, <1>4, RunningCommand DEF Merge, At, asked, ReadOnly, vars, Command
  <2>2. \/ cmd' = NoCommand
        \/ /\ cmd'.merged = Merged /\ cmd'.todo = cmd.ids
           /\ cmd'.kind = cmd.kind /\ cmd'.step = "uploading"
    BY <1>4, <2>1 DEF Merge, Command
  <2>3. \A s \in Skills \ disturbed :
           s \in cmd.ids \/ Stored(s, Merged.hash[s])
    BY <2>1 DEF Merged, ListedIsStored, AllStored
  <2> QED
    BY <2>1, <2>2, <2>3, ListsStay DEF Stored, Running, At
<1>5. ASSUME NEW k \in Skills, UploadApproved(k) PROVE ListedIsStored'
  <2>1. /\ cmd \in Command /\ At({"approve", "publish"}, "uploading")
        /\ archives' = archives \cup {<<k, cmd.merged.hash[k]>>}
        /\ UNCHANGED <<index, lifecycle, base, cache, disturbed>>
    BY <1>0, <1>5, RunningCommand DEF UploadApproved, At, asked, mirror
  <2>2. /\ cmd'.merged = cmd.merged /\ cmd'.todo = cmd.todo \ {k}
        /\ cmd'.kind = cmd.kind /\ cmd'.step = cmd.step
    BY <1>5, <2>1 DEF UploadApproved, Command
  <2>3. \A s \in Skills \ disturbed : s \in cmd.todo \/ Stored(s, cmd.merged.hash[s])
    BY <2>1 DEF ListedIsStored, At
  <2>4. ASSUME NEW s \in Skills \ disturbed, Running'
        PROVE  \/ cmd'.merged.hash[s] = Absent
               \/ <<s, cmd'.merged.hash[s]>> \in archives'
               \/ At({"approve", "publish"}, "uploading")' /\ s \in cmd'.todo
    BY <2>1, <2>2, <2>3, <2>4 DEF Stored, At
  <2> QED
    BY <2>1, <2>4, ListsStay
<1>6. ASSUME PutMerged \/ PutMarked PROVE ListedIsStored'
  <2>1. /\ cmd \in Command /\ Running
        /\ ~ (At({"approve", "publish"}, "uploading") /\ cmd.todo # {})
    BY <1>0, <1>6, RunningCommand DEF PutMerged, MergedReady, PutMarked, At
  <2>2. /\ cmd'.merged = cmd.merged /\ index' = cmd.merged
        /\ UNCHANGED <<lifecycle, base, cache, archives>> /\ disturbed \subseteq disturbed'
    BY <1>6, <2>1 DEF PutMerged, PutMarked, Command, asked, mirror
  <2>3. \A s \in Skills \ disturbed : Stored(s, cmd.merged.hash[s])
    BY <2>1 DEF ListedIsStored
  <2> QED
    BY <2>2, <2>3 DEF ListedIsStored, AllStored, Stored
<1>7. ASSUME RecordMerged PROVE ListedIsStored'
  <2>1. Running /\ cmd.step = "recording" /\ cmd' = NoCommand
    BY <1>7 DEF RecordMerged, At
  <2>2. /\ UNCHANGED <<index, archives, lifecycle, cache, disturbed>>
        /\ \A d \in Devices : base'[d] \in {base[d], cmd.merged.hash}
    BY <1>0, <1>7 DEF RecordMerged, Recorded, central, mirror, asked, TypeOK
  <2>3. \A s \in Skills \ disturbed : Stored(s, cmd.merged.hash[s])
    BY <2>1 DEF ListedIsStored, At
  <2> QED
    BY <2>1, <2>2, <2>3 DEF ListedIsStored, AllStored, Stored, Running
<1>8. ASSUME CacheMarked PROVE ListedIsStored'
  <2>1. Running /\ cmd.step = "caching" /\ cmd' = NoCommand
    BY <1>8 DEF CacheMarked, At
  <2>2. /\ UNCHANGED <<index, archives, lifecycle, base, disturbed>>
        /\ \A d \in Devices : cache'[d] \in {cache[d], cmd.merged}
    BY <1>0, <1>8 DEF CacheMarked, central, asked, TypeOK
  <2>3. \A s \in Skills \ disturbed : Stored(s, cmd.merged.hash[s])
    BY <2>1 DEF ListedIsStored, At
  <2> QED
    BY <2>1, <2>2, <2>3 DEF ListedIsStored, AllStored, Stored, Running
<1>9. ASSUME RestoreInstalls \/ \E k \in Skills : RestoreRemoves(k) PROVE ListedIsStored'
  <2>1. /\ cmd \in Command /\ Running /\ cmd.step \in {"restoring", "replacing"}
        /\ UNCHANGED <<index, archives, lifecycle, base, cache, disturbed>>
    BY <1>0, <1>9, RunningCommand
    DEF RestoreInstalls, RestoreRemoves, At, central, mirror, asked
  <2>2. cmd'.merged = cmd.merged
    BY <1>9, <2>1 DEF RestoreInstalls, RestoreRemoves, Command
  <2>3. \A s \in Skills \ disturbed : Stored(s, cmd.merged.hash[s])
    BY <2>1 DEF ListedIsStored, At
  <2> QED
    BY <2>1, <2>2, <2>3, ListsStay DEF Stored
<1>10. ASSUME CommandDies \/ RestoreFails PROVE ListedIsStored'
  <2>1. /\ UNCHANGED <<index, archives, lifecycle, base, cache>> /\ cmd' = NoCommand
        /\ disturbed \subseteq disturbed'
    BY <1>10 DEF CommandDies, RestoreFails, central, mirror, asked
  <2> QED
    BY <2>1, ListsStay DEF Running
<1> QED
  BY <1>1, <1>2, <1>3, <1>4, <1>5, <1>6, <1>7, <1>8, <1>9, <1>10
  DEF NextWithCommands, Operate

LEMMA CycleStoresBesideCommands ==
    ASSUME CommandTypes, ListedIsStored, Operate, NEW e \in Devices, CycleStores(e)
    PROVE  CycleStores(e)'
<1>0. TypeOKWithCommands /\ TypeOK
  BY DEF CommandTypes, TypeOKWithCommands
<1>1. ASSUME UNCHANGED <<local, pc>>, archives \subseteq archives',
             disturbed \subseteq disturbed', job'[e].plan = job[e].plan,
             job'[e].done = job[e].done, job'[e].snap = job[e].snap
      PROVE  CycleStores(e)'
  BY <1>1 DEF CycleStores, AllStored, Stored, Pushes
<1>2. ASSUME PutMerged \/ PutMarked PROVE CycleStores(e)'
  BY <1>0, <1>1, <1>2, OvertakenKeeps DEF PutMerged, PutMarked, asked
<1>3. ASSUME NEW k \in Skills, RestoreRemoves(k) PROVE CycleStores(e)'
  <2>1. cmd \in Command /\ UNCHANGED <<archives, pc, job, disturbed>>
    BY <1>0, <1>3, RunningCommand DEF RestoreRemoves, At, central, asked
  <2>2. \A s \in Skills : local'[e][s] \in {local[e][s], Absent}
    BY <1>0, <1>3, <2>1 DEF RestoreRemoves, TypeOK, Hashes, Command
  <2> QED
    BY <2>1, <2>2 DEF CycleStores, AllStored, Stored, Pushes
<1>6. ASSUME RestoreInstalls PROVE CycleStores(e)'
  <2>1. /\ Running /\ cmd.step = "replacing" /\ cmd.item \in Skills
        /\ UNCHANGED <<archives, pc, job, disturbed>>
    BY <1>6 DEF RestoreInstalls, At, central, asked, CommandTypes, MergedIsWhole
  <2>2. cmd \in Command /\ cmd.device \in Devices
    BY <1>0, <2>1, RunningCommand DEF Command
  <2>3. \A s \in Skills : local'[e][s] \in {local[e][s], cmd.merged.hash[s]}
    BY <1>0, <1>6, <2>1, <2>2 DEF RestoreInstalls, Restored, TypeOK, Hashes
  <2>4. \A s \in Skills \ disturbed : Stored(s, cmd.merged.hash[s])
    BY <2>1 DEF ListedIsStored, At
  <2> QED
    BY <2>1, <2>3, <2>4 DEF CycleStores, AllStored, Stored, Pushes
<1>7. ASSUME RestoreFails PROVE CycleStores(e)'
  <2>1. /\ UNCHANGED <<archives, pc, job>>
        /\ disturbed \cup ChangedUnseen \subseteq disturbed'
    BY <1>7 DEF RestoreFails, central
  <2> QED
    BY <2>1, ChangedIsKnown
<1>4. ASSUME ReadOnly, UNCHANGED disturbed PROVE CycleStores(e)'
  BY <1>1, <1>4 DEF ReadOnly, vars
<1>5. ASSUME \/ RecordMerged \/ CacheMarked \/ CommandDies
             \/ \E s \in Skills : UploadApproved(s)
      PROVE  CycleStores(e)'
  BY <1>1, <1>5 DEF RecordMerged, CacheMarked, CommandDies, UploadApproved, central, asked
<1> QED
  BY <1>2, <1>3, <1>4, <1>5, <1>6, <1>7
  DEF Operate, BlockedReport, Adopt, Publish, Restore, ChangeLifecycle, Begin,
      ApprovedPush, CheckRemote, Merge, RestoreEnds, ReportIgnored, asked

LEMMA LossInvInit == InitWithCommands => LossInv
<1> SUFFICES ASSUME InitWithCommands PROVE LossInv
  OBVIOUS
<1>1. /\ index = [hash |-> InitialIndex, deprecated |-> {}]
      /\ archives = Referenced(InitialIndex) /\ lifecycle = NoOperation
      /\ \A d \in Devices : /\ base[d] = [s \in Skills |->
                                  IF InitialLocal[d][s] = InitialIndex[s]
                                  THEN InitialIndex[s] ELSE Absent]
                            /\ cache[d] = [hash |-> Nothing, deprecated |-> {}]
                            /\ pc[d] = "idle"
  BY DEF InitWithCommands, Init
<1>2. Running = FALSE
  BY DEF InitWithCommands, Running, NoCommand
<1>3. AllStored(InitialIndex) /\ AllStored(Nothing)
  BY <1>1 DEF AllStored, Stored, Referenced, Nothing
<1>4. \A d \in Devices : AllStored(base[d])
  BY <1>1, <1>3 DEF AllStored, Stored
<1>5. /\ index.hash = InitialIndex /\ index.deprecated = {}
      /\ lifecycle.seen.hash = Nothing
  BY <1>1 DEF NoOperation
<1>6. \A d \in Devices : cache[d].hash = Nothing /\ cache[d].deprecated = {}
  <2>1. SUFFICES ASSUME NEW d \in Devices
                 PROVE  cache[d].hash = Nothing /\ cache[d].deprecated = {}
    OBVIOUS
  <2>2. cache[d] = [hash |-> Nothing, deprecated |-> {}]
    BY <1>1
  <2> HIDE DEF Nothing
  <2> QED
    BY <2>2
<1>7. ListedIsStored
  BY <1>2, <1>3, <1>4, <1>5, <1>6 DEF ListedIsStored
<1>8. MarksAreKnown
  BY <1>2, <1>5, <1>6 DEF MarksAreKnown, InitWithCommands
<1>9. \A d \in Devices : CycleStores(d)
  BY <1>1 DEF CycleStores
<1> QED
  BY <1>7, <1>8, <1>9, CommandTypesInit DEF LossInv

LEMMA LossInvNext ==
    LossInv /\ [NextWithCommands]_ovars => LossInv'
<1> SUFFICES ASSUME LossInv, [NextWithCommands]_ovars PROVE LossInv'
  OBVIOUS
<1> USE DEF LossInv
<1>1. CommandTypes'
  BY CommandTypesNext
<1>2. CASE NextWithCommands
  <2>1. MarksAreKnown' /\ ListedIsStored'
    BY <1>2, MarksAreKnownNext, ListedIsStoredNext
  <2>2. ASSUME Others, NEW e \in Devices PROVE CycleStores(e)'
    <3>1. /\ TypeOK /\ Next /\ disturbed \subseteq disturbed'
          /\ edits' # edits => ChangedUnseen \subseteq disturbed'
      BY <2>2 DEF Others, CommandTypes, TypeOKWithCommands
    <3> QED
      BY <3>1, CycleStoresNext DEF MarksAreKnown, ListedIsStored
  <2>3. ASSUME Operate, NEW e \in Devices PROVE CycleStores(e)'
    BY <2>3, CycleStoresBesideCommands
  <2> QED
    BY <1>1, <1>2, <2>1, <2>2, <2>3 DEF NextWithCommands
<1>3. CASE UNCHANGED ovars
  <2>1. MarksAreKnown' /\ \A e \in Devices : CycleStores(e)'
    BY <1>3
    DEF MarksAreKnown, Running, ovars, vars, CycleStores, AllStored, Stored, Pushes
  <2>2. ListedIsStored'
    BY <1>3 DEF ListedIsStored, Running, At, ovars, vars, AllStored, Stored
  <2> QED
    BY <1>1, <2>1, <2>2
<1> QED
  BY <1>2, <1>3

\* Of a skill nobody disturbed, what anybody lists, records or is about to list
\* is archived, or is being archived.
THEOREM LossInvariance == SpecWithCommands => []LossInv
BY LossInvInit, LossInvNext, PTL DEF SpecWithCommands

\* A step of a daemon, a fault or a command replaces only copies that are archived,
\* unless the skill was disturbed or its replacement was asked for.
LEMMA OnlyArchivedIsReplaced ==
    ASSUME LossInv, NextWithCommands, edits' = edits,
           ~ Moves({"restore"}, "restoring", "replacing"),
           NEW e \in Devices, NEW s \in Skills \ disturbed,
           local'[e][s] # local[e][s]
    PROVE  Stored(s, local[e][s])
<1>0. TypeOK /\ CycleStores(e)
  BY DEF LossInv, CommandTypes, TypeOKWithCommands
<1>1. CASE Others
  <2>1. Next /\ local'[e] # local[e]
    BY <1>1 DEF Others
  <2>2. ASSUME NEW k \in Skills, RemoveTarget(e, k) PROVE Stored(s, local[e][s])
    <3>1. s = k /\ pc[e] = "pulling" /\ s \in Pulls(e)
      BY <1>0, <2>2 DEF RemoveTarget, TypeOK, Hashes
    <3>2. s \notin Pushes(e)
      BY <3>1 DEF Pulls, Pushes, Having, PULL_ACTIONS, PUSH_ACTIONS
    <3> QED
      BY <1>0, <3>1, <3>2 DEF CycleStores
  <2>3. ASSUME InstallTarget(e) \/ InstallFails(e) PROVE Stored(s, local[e][s])
    <3>1. s = job[e].item /\ local[e][s] = Absent
      BY <1>0, <2>3 DEF InstallTarget, InstallFails, TypeOK, Hashes
    <3> QED
      BY <3>1 DEF Stored
  <2> QED
    BY <1>0, <2>1, <2>2, <2>3, RootSteps
<1>2. CASE Operate
  <2>1. ASSUME RestoreInstalls \/ RestoreFails PROVE Stored(s, local[e][s])
    <3>1. cmd \in Command /\ cmd.item \in Skills
      BY <2>1, RunningCommand
      DEF RestoreInstalls, RestoreFails, At, LossInv, CommandTypes, TypeOKWithCommands,
          MergedIsWhole
    <3>2. s = cmd.item /\ e = cmd.device /\ local[e][s] = Absent
      BY <1>0, <2>1, <3>1 DEF RestoreInstalls, RestoreFails, TypeOK, Hashes, Command
    <3> QED
      BY <3>2 DEF Stored
  <2>2. ~ \E k \in Skills : RestoreRemoves(k)
    <3> SUFFICES ASSUME NEW k \in Skills, RestoreRemoves(k) PROVE FALSE
      OBVIOUS
    <3>1. cmd \in Command
      BY RunningCommand DEF RestoreRemoves, At, LossInv, CommandTypes, TypeOKWithCommands
    <3>2. cmd' # NoCommand /\ cmd'.step = "replacing"
      BY <3>1 DEF RestoreRemoves, Command, NoCommand
    <3> QED
      BY <3>2 DEF RestoreRemoves, Moves
  <2>3. ASSUME ~ (RestoreInstalls \/ RestoreFails) PROVE local' = local
    BY <1>2, <2>2, <2>3
    DEF Operate, BlockedReport, Adopt, Publish, Restore, ChangeLifecycle, ApprovedPush,
        CheckRemote, Merge, UploadApproved, PutMerged, RecordMerged, RestoreEnds,
        PutMarked, CacheMarked, CommandDies, ReportIgnored, ReadOnly, vars
  <2> QED
    BY <2>1, <2>3
<1> QED
  BY <1>1, <1>2 DEF NextWithCommands

\* Daemons and commands together lose nothing of the skills nobody deprecated,
\* overrides, or edits between a decision and its scan: the index refers to no
\* archive that is missing, and no copy is replaced that central cannot give back,
\* whatever is done to the other skills, whatever is interrupted and however the
\* steps interleave.
THEOREM CommandsLoseNothingEver == SpecWithCommands => CommandsLoseNothing
<1> DEFINE Kept == edits' = edits /\ ~ Moves({"restore"}, "restoring", "replacing") =>
         \A d \in Devices, s \in Skills \ disturbed :
            local'[d][s] # local[d][s] => Stored(s, local[d][s])
<1>1. LossInv => DanglesOnlyDisturbed
  BY DEF LossInv, ListedIsStored, DanglesOnlyDisturbed
<1>2. LossInv /\ [NextWithCommands]_ovars => [Kept]_ovars
  BY OnlyArchivedIsReplaced
<1> QED
  BY <1>1, <1>2, LossInvariance, PTL
  DEF SpecWithCommands, CommandsLoseNothing, UnpublishedKeptBesideCommands
=============================================================================
