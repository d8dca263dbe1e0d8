--------------------------- MODULE OperatorCommands ---------------------------
(***************************************************************************)
(* The commands an operator runs on a device beside its daemon: report     *)
(* what is blocked (blocked_report.py), push what was approved of it       *)
(* (approved_push.py), publish one skill (local_skill.py), restore from    *)
(* central (restore.py), adopt a base (base_adoption.py), deprecate and    *)
(* reactivate (central_lifecycle.py).  They use the daemon's skill root,   *)
(* cache and base record and take no lock, so every step of a command      *)
(* interleaves with the steps of SkillSync.  One command runs at a time.   *)
(***************************************************************************)
EXTENDS SkillSync

CONSTANTS
    Operators,      \* devices on which commands are run
    Packaged,       \* Packaged[v]: version v with the manifest publishing writes
    Sources,        \* versions of a skill found outside the skill root
    CachePhases,    \* phases of its daemon in which a command writes the cache
    MaxCommands     \* bound on commands

ASSUME CommandAssumption ==
    /\ Operators \subseteq Devices
    /\ Packaged \in [Versions -> Versions]
    /\ Sources \subseteq Versions
    /\ CachePhases \subseteq Phases
    /\ MaxCommands \in Nat

VARIABLES
    cmd,        \* the command under way
    commands,   \* how many were started
    disturbed   \* history: skills some device overrides, that were ever deprecated,
                \* or that a user, or a restore that failed, changed between a
                \* cycle's decision and its scan

asked == <<commands, disturbed>>
ovars == <<vars, cmd, commands, disturbed>>

-----------------------------------------------------------------------------
Kinds == {"approve", "publish", "restore", "adopt", "lifecycle"}
Steps == {"reported", "checking", "merging", "uploading", "restoring",
          "replacing", "recording", "marking", "caching"}
Review == [kind: {"push", "conflict", "none"}, base: Content, local: Content,
           remote: Content]

\* content: what publish packaged; merged: the index to put or to record;
\* todo: archives to upload or skills to restore; item, had: the skill being
\* replaced and what it was.  History: fresh: since the comparison the remote
\* index is the cached one; refreshed, touched: the daemon replaced the cache,
\* others changed the skill, since the command planned.
Command == [kind: Kinds, device: Devices, step: Steps, ids: SUBSET Skills,
            report: [Skills -> Review], content: Content, merged: Index,
            todo: SUBSET Skills, item: Skills \cup {NoSkill}, had: Content,
            fresh: BOOLEAN, refreshed: BOOLEAN, touched: SUBSET Skills]
NoIndex == [hash |-> Nothing, deprecated |-> {}]
NotReviewed == [s \in Skills |-> [kind |-> "none", base |-> Absent,
                                  local |-> Absent, remote |-> Absent]]
NoCommand == [kind |-> "none"]

TypeOKWithCommands ==
    /\ TypeOK
    /\ cmd \in Command \cup {NoCommand}
    /\ commands \in 0..MaxCommands
    /\ disturbed \subseteq Skills

Running == cmd # NoCommand
At(kinds, step) == Running /\ cmd.kind \in kinds /\ cmd.step = step

Start(kind, d, step, ids) ==
    [kind |-> kind, device |-> d, step |-> step, ids |-> ids,
     report |-> NotReviewed, content |-> Absent, merged |-> NoIndex,
     todo |-> {}, item |-> NoSkill, had |-> Absent, fresh |-> FALSE,
     refreshed |-> FALSE, touched |-> {}]

Begin(d) ==
    /\ ~ Running
    /\ d \in Operators
    /\ commands < MaxCommands
    /\ cache[d].hash # Nothing
    /\ commands' = commands + 1
    /\ UNCHANGED disturbed

\* What a command leaves alone when it only reads.
ReadOnly == UNCHANGED vars

-----------------------------------------------------------------------------
(* The decision of the commands: no overrides, and a policy of their own.   *)

PlainStatus(d, s, copy) ==
    Classify(base[d][s], copy, cache[d].hash[s], s \in cache[d].deprecated)

\* What the blocked report says of a skill: refused by the writer policy of
\* the device although it is to be pushed, in conflict, or something else.
ReviewOf(d, s) ==
    LET status == PlainStatus(d, s, local[d][s])
        action == PlanItem(status, AllowNew, AllowDelete)
        refused == ApplyWriterPolicy(action, Policy[d]) = "blocked" IN
    [kind |-> IF /\ refused /\ action # "blocked"
                 /\ status \in {"push", "local_new"} THEN "push"
              ELSE IF refused /\ status = "conflict" THEN "conflict"
              ELSE "none",
     base |-> base[d][s], local |-> local[d][s], remote |-> cache[d].hash[s]]

BlockedReport(d) ==
    /\ Begin(d)
    /\ cmd' = [Start("approve", d, "reported", {}) EXCEPT
                  !.report = [s \in Skills |-> ReviewOf(d, s)]]
    /\ ReadOnly

\* _approved_item: nothing of the skill changed since it was reviewed, and it
\* may be pushed, or its conflict decided for the local side.
\* mutant: the local copy is not compared with the report
StillAsReviewedRemotely(d, s) ==
    /\ cmd.report[s].base = base[d][s]
    /\ cmd.report[s].remote = cache[d].hash[s]
StillAsReviewed(d, s) ==
    /\ cmd.report[s].base = base[d][s]
    /\ cmd.report[s].local = local[d][s]
    /\ cmd.report[s].remote = cache[d].hash[s]

Approvable(d, s, localWins) ==
    LET status == PlainStatus(d, s, local[d][s]) IN
    /\ StillAsReviewed(d, s)
    /\ \/ /\ localWins
          /\ cmd.report[s].kind = "conflict"
          /\ status = "conflict"
          /\ local[d][s] # Absent /\ cache[d].hash[s] # Absent
       \/ /\ cmd.report[s].kind = "push"
          /\ PlanItem(status, AllowNew, FALSE) \in PUSH_ACTIONS

ApprovedPush(ids, localWins) ==
    /\ At({"approve"}, "reported")
    /\ ids # {}
    /\ cmd' = IF \A s \in ids : Approvable(cmd.device, s, localWins)
              THEN [cmd EXCEPT !.ids = ids, !.step = "checking",
                               !.refreshed = FALSE, !.touched = {}]
              ELSE NoCommand
    /\ UNCHANGED asked
    /\ ReadOnly

\* publish_local_skill packages one directory, from the skill root or from
\* elsewhere, with a manifest of its own, and decides about the package.
Publish(d, s, source) ==
    LET package == Packaged[source]
        action == PlanItem(PlainStatus(d, s, package), TRUE, FALSE) IN
    /\ Begin(d)
    /\ source \in ({local[d][s]} \ {Absent}) \cup Sources
    /\ action \in PUSH_ACTIONS
    /\ cmd' = [Start("publish", d, "checking", {s}) EXCEPT !.content = package]
    /\ ReadOnly

-----------------------------------------------------------------------------
(* Compare, merge, upload, record: approved push and publish.               *)

CheckRemote ==
    /\ At({"approve", "publish"}, "checking")
    /\ cmd' = IF RemoteMatchesCache(cmd.device)
              THEN [cmd EXCEPT !.step = "merging",
                               !.fresh = index = cache[cmd.device]]
              ELSE NoCommand
    /\ UNCHANGED asked
    /\ ReadOnly

\* What replaces skill s in the merged index: an approved push scans the
\* skill root again.
Replacement(s) == IF cmd.kind = "publish" THEN cmd.content
                  ELSE local[cmd.device][s]

\* _build_merged_snapshot: the cached index, with the chosen skills' entries
\* replaced whole, lifecycle state included.
\* mutant: as in a sync push, every skill comes from the scan
MergedFromScan ==
    [hash |-> [s \in Skills |-> IF s \in cmd.ids THEN Replacement(s)
                                ELSE local[cmd.device][s]],
     deprecated |-> cache[cmd.device].deprecated \ cmd.ids]
Merged ==
    [hash |-> [s \in Skills |-> IF s \in cmd.ids THEN Replacement(s)
                                ELSE cache[cmd.device].hash[s]],
     deprecated |-> cache[cmd.device].deprecated \ cmd.ids]

\* mutant: a skill that is gone by now is merged all the same
DisappearedIgnored == FALSE
Disappeared == \E s \in cmd.ids : Replacement(s) = Absent

Merge ==
    /\ At({"approve", "publish"}, "merging")
    /\ cmd' = IF Disappeared THEN NoCommand
              ELSE [cmd EXCEPT !.step = "uploading", !.merged = Merged,
                               !.todo = cmd.ids]
    /\ UNCHANGED asked
    /\ ReadOnly

UploadApproved(s) ==
    /\ At({"approve", "publish"}, "uploading")
    /\ s \in cmd.todo
    /\ archives' = archives \cup {<<s, cmd.merged.hash[s]>>}
    /\ cmd' = [cmd EXCEPT !.todo = @ \ {s}]
    /\ UNCHANGED <<index, local, base, mirror, pc, job, lifecycle, dirty,
                   counters, asked>>

MergedReady == At({"approve", "publish"}, "uploading") /\ cmd.todo = {}

PutMerged ==
    /\ MergedReady
    /\ index' = cmd.merged
    /\ job' = Overtaken(cmd.merged)
    /\ dirty' = [dirty EXCEPT ![cmd.device] =
                    {s \in @ : s \notin cmd.ids
                               \/ local[cmd.device][s] # cmd.merged.hash[s]}]
    /\ cmd' = [cmd EXCEPT !.step = "recording"]
    /\ UNCHANGED <<archives, local, base, mirror, pc, lifecycle, counters,
                   asked>>

\* _write_sync_base_record: the whole index, whatever the device holds of it.
\* mutant: the record lists what the device holds
RecordedLocal == local[cmd.device]
Recorded == cmd.merged.hash

RecordMerged ==
    /\ At({"approve", "publish", "restore", "adopt"}, "recording")
    /\ base' = [base EXCEPT ![cmd.device] = Recorded]
    /\ cmd' = NoCommand
    /\ UNCHANGED <<central, local, mirror, pc, job, lifecycle, dirty, counters,
                   asked>>

-----------------------------------------------------------------------------
(* Restore: the whole cache is staged, the chosen skills are replaced, and   *)
(* where a base record is configured the whole cached index goes into it.    *)

Restore(d, ids) ==
    /\ Begin(d)
    /\ ids # {} /\ ids \cap Unfit[d] = {}
    /\ \A s \in ids : cache[d].hash[s] # Absent
    /\ Missing(d) = {}
    /\ cmd' = [Start("restore", d, "restoring", ids) EXCEPT
                  !.merged = cache[d], !.todo = ids,
                  !.fresh = index = cache[d]]
    /\ ReadOnly

\* mutant: what the cache holds by now is installed
RestoredByNow(s) == cache[cmd.device].hash[s]
Restored(s) == cmd.merged.hash[s]

RestoreRemoves(s) ==
    /\ At({"restore"}, "restoring")
    /\ s \in cmd.todo
    /\ local' = [local EXCEPT ![cmd.device][s] = Absent]
    /\ cmd' = [cmd EXCEPT !.step = "replacing", !.item = s,
                          !.had = local[cmd.device][s], !.touched = @ \ {s}]
    /\ UNCHANGED <<central, base, mirror, pc, job, lifecycle, dirty, counters, asked>>

RestoreInstalls ==
    /\ At({"restore"}, "replacing")
    /\ local[cmd.device][cmd.item] = Absent
    /\ local' = [local EXCEPT ![cmd.device][cmd.item] = Restored(cmd.item)]
    /\ dirty' = [dirty EXCEPT ![cmd.device] = @ \ {cmd.item}]
    /\ cmd' = [cmd EXCEPT !.step = "restoring", !.todo = @ \ {cmd.item},
                          !.touched = @ \ {cmd.item},
                          !.item = NoSkill, !.had = Absent]
    /\ UNCHANGED <<central, base, mirror, pc, job, lifecycle, counters, asked>>

\* History: skills that change between a cycle's decision and its scan, and
\* that the cycle does not push.
ChangedUnseen ==
    {s \in Skills : \E d \in Devices :
       /\ pc[d] \in {"asserting", "pulling", "replacing", "scanning"}
       /\ s \notin Pushes(d)
       /\ local'[d][s] # local[d][s]}

\* The rename fails: on a directory that came back, or on the file system.
\* The backup is copied back when the place is free.
RestoreFails ==
    LET free == local[cmd.device][cmd.item] = Absent IN
    /\ At({"restore"}, "replacing")
    /\ free => faults < MaxFaults
    /\ local' = IF free THEN [local EXCEPT ![cmd.device][cmd.item] = cmd.had] ELSE local
    /\ faults' = IF free THEN faults + 1 ELSE faults
    /\ cmd' = NoCommand
    /\ disturbed' = disturbed \cup ChangedUnseen
    /\ UNCHANGED <<central, base, mirror, pc, job, lifecycle, dirty, edits,
                   lifecycles, commands>>

RestoreEnds(withBase) ==
    /\ At({"restore"}, "restoring")
    /\ cmd.todo = {}
    /\ cmd' = IF withBase THEN [cmd EXCEPT !.step = "recording"] ELSE NoCommand
    /\ UNCHANGED asked
    /\ ReadOnly

-----------------------------------------------------------------------------
(* Adoption: when both sides agree on every skill, that is the base.        *)

ADOPTABLE_ACTIONS == {"same_without_base", "unchanged", "already_converged"}

Adoptable(d, s) ==
    /\ PlainStatus(d, s, local[d][s]) \in ADOPTABLE_ACTIONS
    /\ local[d][s] # Absent
    /\ local[d][s] = cache[d].hash[s]

Adopt(d) ==
    /\ Begin(d)
    /\ \A s \in Skills :
          \/ {base[d][s], local[d][s], cache[d].hash[s]} = {Absent}
          \/ Adoptable(d, s)
    /\ cmd' = [Start("adopt", d, "recording", {}) EXCEPT
                  !.merged.hash = local[d], !.fresh = index = cache[d]]
    /\ ReadOnly

-----------------------------------------------------------------------------
(* Deprecate and reactivate: change the cached index, compare the remote    *)
(* one with it, put it, and write the cache.                                *)

Marked(old, ids, to) ==
    [old EXCEPT !.deprecated =
        IF to = "deprecated" THEN @ \cup ids ELSE @ \ ids]

RemoteIsCache(d) == index = cache[d]

\* Central has the skills, in the operator's cache, and some are not yet so marked.
Changeable(d, ids, to) ==
    /\ ids # {}
    /\ \A s \in ids : cache[d].hash[s] # Absent
    /\ Marked(cache[d], ids, to) # cache[d]

ChangeLifecycle(d, ids, to) ==
    /\ Begin(d)
    /\ Changeable(d, ids, to)
    /\ RemoteIsCache(d)
    /\ cmd' = [Start("lifecycle", d, "marking", ids) EXCEPT
                  !.merged = Marked(cache[d], ids, to), !.fresh = TRUE]
    /\ ReadOnly

PutMarked ==
    /\ At({"lifecycle"}, "marking")
    /\ index' = cmd.merged
    /\ job' = Overtaken(cmd.merged)
    /\ cmd' = [cmd EXCEPT !.step = "caching"]
    /\ disturbed' = disturbed \cup cmd.merged.deprecated
    /\ UNCHANGED <<archives, local, base, mirror, pc, lifecycle, dirty,
                   counters, commands>>

CacheMarked ==
    /\ At({"lifecycle"}, "caching")
    /\ pc[cmd.device] \in CachePhases
    /\ cache' = [cache EXCEPT ![cmd.device] = cmd.merged]
    /\ cmd' = NoCommand
    /\ UNCHANGED <<central, local, base, cached, pc, job, lifecycle, dirty,
                   counters, asked>>

-----------------------------------------------------------------------------
\* A command fails or is killed: what it did so far stays.
CommandDies ==
    /\ Running /\ cmd.step # "reported"
    /\ faults < MaxFaults
    /\ faults' = faults + 1
    /\ cmd' = NoCommand
    /\ UNCHANGED <<central, local, base, mirror, pc, job, lifecycle, dirty,
                   edits, lifecycles, asked>>

\* A report nobody acts upon.
ReportIgnored ==
    /\ At({"approve"}, "reported")
    /\ cmd' = NoCommand
    /\ UNCHANGED asked
    /\ ReadOnly

Operate ==
    \/ \E d \in Devices :
          \/ BlockedReport(d) \/ Adopt(d)
          \/ \E s \in Skills, source \in Versions : Publish(d, s, source)
          \/ \E ids \in SUBSET Skills :
                \/ Restore(d, ids)
                \/ \E to \in LifecycleStates : ChangeLifecycle(d, ids, to)
    \/ \E ids \in SUBSET Skills, localWins \in BOOLEAN :
          ApprovedPush(ids, localWins)
    \/ CheckRemote \/ Merge \/ PutMerged \/ RecordMerged
    \/ \E s \in Skills : UploadApproved(s) \/ RestoreRemoves(s)
    \/ RestoreInstalls \/ RestoreFails
    \/ \E withBase \in BOOLEAN : RestoreEnds(withBase)
    \/ PutMarked \/ CacheMarked
    \/ CommandDies \/ ReportIgnored

\* A step of a daemon, a user or a fault, as the running command sees it.
Others ==
    /\ Next
    /\ cmd' = IF Running
              THEN [cmd EXCEPT !.fresh = @ /\ index' = index,
                               !.refreshed = @ \/ cache'[cmd.device]
                                                    # cache[cmd.device],
                               !.touched = @ \cup {s \in Skills :
                                   local'[cmd.device][s] # local[cmd.device][s]}]
              ELSE cmd
    /\ disturbed' = disturbed \cup index'.deprecated
                    \cup (IF edits' # edits THEN ChangedUnseen ELSE {})
    /\ UNCHANGED commands

InitWithCommands ==
    /\ Init
    /\ cmd = NoCommand
    /\ commands = 0
    /\ disturbed = {s \in Skills : \E d \in Devices : Override[d][s] # {}}
NextWithCommands == Others \/ Operate
SpecWithCommands == InitWithCommands /\ [][NextWithCommands]_ovars

-----------------------------------------------------------------------------
(* Properties *)

Moves(kinds, from, to) ==
    At(kinds, from) /\ cmd' # NoCommand /\ cmd'.step = to
Puts == \/ Moves({"approve", "publish"}, "uploading", "recording")
        \/ Moves({"lifecycle"}, "marking", "caching")

\* The content, if there is any, is archived on the remote.
Stored(s, content) == content = Absent \/ <<s, content>> \in archives

\* What an index, a base record or a root says of the skills nobody disturbed.
AllStored(hashes) == \A s \in Skills \ disturbed : Stored(s, hashes[s])

\* Pushes, commands and interruptions in any order never make the index refer
\* to an archive that is not there (remote.py:243, approved_push.py:129), but of
\* three kinds of skills: deprecated, overridden, or edited behind the back of a
\* cycle that does not push them.  Of those the next push of another skill may
\* list a version without its archive; they do not take others with them.
DanglesOnlyDisturbed == AllStored(index.hash)

\* A command that puts an index changes on central the skills it was asked
\* to, their contents and their lifecycle marks, and no other: the rest comes
\* from an index that still is the remote's.  Nothing is promised once another
\* writer came in between, or a mark the cache had not seen (approved_push.py:
\* 270, central_lifecycle.py:100).
CommandsTouchOnlyChosen ==
    [][Puts /\ cmd.fresh =>
         \A s \in Skills \ cmd.ids :
            /\ index'.hash[s] = index.hash[s]
            /\ s \in index'.deprecated <=> s \in index.deprecated]_ovars

\* What an approved push publishes of a skill, and what it replaces, is what
\* the operator saw in the blocked report, unless during the very push the
\* user edits or the daemon replaces the cache the remote is compared with
\* (approved_push.py:212-236, 279, 325).
ApprovedAsReviewed ==
    [][Moves({"approve"}, "uploading", "recording") =>
         \A s \in cmd.ids :
            /\ s \notin cmd.touched => cmd.merged.hash[s] = cmd.report[s].local
            /\ cmd.fresh /\ ~ cmd.refreshed
                  => index.hash[s] = cmd.report[s].remote]_ovars

\* When a command records a base, the skills it was about are the same in all
\* three places, so that no later decision takes an update or an edit for
\* agreed: what restore.py:75, approved_push.py:135 and base_adoption.py:57
\* write down is what is there, unless others changed it meanwhile.
RecordedIsAgreed ==
    [][At(Kinds, "recording") /\ cmd' = NoCommand /\ faults' = faults =>
         \A s \in (IF cmd.kind = "adopt" THEN Skills ELSE cmd.ids) \ cmd.touched :
            /\ base'[cmd.device][s] = local[cmd.device][s]
            /\ cmd.fresh => base'[cmd.device][s] = index.hash[s]]_ovars

\* Neither the daemons nor the base records that commands write let a cycle
\* pull over a local version that central does not hold; only a restore, which
\* was asked for, removes one.  A disturbed skill may be lost: changed between
\* the decision and the pull it is replaced, and of one listed without its
\* archive a base record may list that version.
UnpublishedKeptBesideCommands ==
    [][edits' = edits /\ ~ Moves({"restore"}, "restoring", "replacing") =>
         \A d \in Devices, s \in Skills \ disturbed :
            local'[d][s] # local[d][s] => Stored(s, local[d][s])]_ovars

\* Commands beside daemons lose nothing: no archive the index needs, and no
\* version that was never published.
CommandsLoseNothing == []DanglesOnlyDisturbed /\ UnpublishedKeptBesideCommands

-----------------------------------------------------------------------------
(* The inductive invariant behind CommandsTouchOnlyChosen,                  *)
(* ApprovedAsReviewed and RecordedIsAgreed.                                 *)

\* What publishing packages is the directory as it is in the skill root.
PublishesAsIs == Sources = {} /\ \A v \in Versions : Packaged[v] = v

\* What a command merged or was asked to install can be put and stored.
MergedIsWhole ==
    /\ At({"approve", "publish"}, "uploading") =>
          \A s \in cmd.todo : cmd.merged.hash[s] # Absent
    /\ At({"restore"}, "replacing") => cmd.item \in Skills

CommandTypes == TypeOKWithCommands /\ Replacing /\ MergedIsWhole

\* While the remote is as it was at the comparison, what the command holds of
\* it is still true.
RemoteSide ==
    Running /\ cmd.fresh =>
       /\ cmd.step = "merging" => index = cache[cmd.device]
       /\ cmd.step \in {"uploading", "marking"} =>
             \A s \in Skills \ cmd.ids :
                /\ cmd.merged.hash[s] = index.hash[s]
                /\ s \in cmd.merged.deprecated <=> s \in index.deprecated
       /\ cmd.step \in {"restoring", "replacing", "recording"} =>
             cmd.merged.hash = index.hash

\* What the command holds of the skills nobody else touched is what the skill
\* root holds, as soon as the command installed it.
LocalSide ==
    Running =>
       \A s \in Skills \ cmd.touched :
          LET here == local[cmd.device][s] IN
          /\ cmd.kind = "approve" /\ s \in cmd.ids =>
                /\ cmd.step \in {"checking", "merging"} => here = cmd.report[s].local
                /\ cmd.step \in {"uploading", "recording"} => here = cmd.merged.hash[s]
                /\ cmd.step = "uploading" => here = cmd.report[s].local
          /\ cmd.kind = "publish" /\ s \in cmd.ids /\ PublishesAsIs =>
                /\ cmd.step \in {"checking", "merging"} => here = cmd.content
                /\ cmd.step \in {"uploading", "recording"} => here = cmd.merged.hash[s]
          /\ cmd.kind = "restore" /\ s \in cmd.ids
             /\ (s \notin cmd.todo \/ cmd.step = "recording") =>
                here = cmd.merged.hash[s]
          /\ cmd.kind = "adopt" => here = cmd.merged.hash[s]

\* While the daemon leaves the cache, the remote side is as it was reviewed.
ReviewStands ==
    At({"approve"}, "checking") \/ At({"approve"}, "merging")
    \/ At({"approve"}, "uploading") =>
       \A s \in cmd.ids :
          ~ cmd.refreshed =>
             /\ cmd.step \in {"checking", "merging"} =>
                   cache[cmd.device].hash[s] = cmd.report[s].remote
             /\ cmd.step = "uploading" /\ cmd.fresh =>
                   index.hash[s] = cmd.report[s].remote

CommandInv ==
    /\ CommandTypes
    /\ RemoteSide
    /\ LocalSide
    /\ ReviewStands

-----------------------------------------------------------------------------
(* The inductive invariant behind CommandsLoseNothing.  Of a skill nobody   *)
(* disturbed, whatever an index, a cache or a base record says is archived. *)

MarksAreKnown ==
    /\ \A d \in Devices, s \in Skills : Override[d][s] # {} => s \in disturbed
    /\ index.deprecated \subseteq disturbed
    /\ \A d \in Devices : cache[d].deprecated \subseteq disturbed
    /\ Running /\ cmd.step # "marking" => cmd.merged.deprecated \subseteq disturbed

ListedIsStored ==
    /\ AllStored(index.hash)
    /\ AllStored(lifecycle.seen.hash)
    /\ \A d \in Devices : AllStored(base[d]) /\ AllStored(cache[d].hash)
    /\ Running =>
          \A s \in Skills \ disturbed :
             \/ Stored(s, cmd.merged.hash[s])
             \/ At({"approve", "publish"}, "uploading") /\ s \in cmd.todo

\* From the plan on, what the skill root holds is archived or will be uploaded.
CycleStores(d) ==
    /\ \A s \in Skills \ disturbed :
          /\ pc[d] \in {"asserting", "pulling", "replacing", "scanning"} =>
                s \in Pushes(d) \/ Stored(s, local[d][s])
          /\ pc[d] = "uploading" =>
                s \in Pushes(d) \ job[d].done \/ Stored(s, job[d].snap[s])
    /\ pc[d] = "scanning" => job[d].done = {}
    /\ pc[d] = "recording" /\ Pushes(d) # {} => AllStored(job[d].snap)

LossInv ==
    /\ CommandTypes
    /\ MarksAreKnown
    /\ ListedIsStored
    /\ \A d \in Devices : CycleStores(d)
=============================================================================
