# Verification of the skill-sync sidecar

`src/src/skill_sync_sidecar/` keeps the *skills* (directories with a `SKILL.md`)
of several devices in step through one central snapshot on a WebDAV or file
remote. This directory holds TLA+ models of that code, the TLC configurations
that check them on small instances, and proofs, checked by TLAPS, of what holds
for every instance.

Paths below are relative to `src/src/skill_sync_sidecar/` unless they start
with `docs/`.

## 1. The system

### 1.1 Parts

| Part | Files | State | Operations |
|---|---|---|---|
| Three-way decision | `sync_state.py`, `sync_plan.py` | none (pure) | compare base, local and central hash of each skill; apply lifecycle state, local overrides, `--allow-new`, `--allow-delete`, writer policy |
| Sync cycle, daemon | `sync_cycle.py`, `daemon.py` | the base-record file, the state file, reports | download, decide, gate, apply, record the base, sleep; stop on a blocked cycle or go on |
| Sync apply | `sync_apply.py` | local root, remote | plan again, refuse, compare the remote with the cache, pull, push |
| Apply and rollback | `apply.py`, `stage.py` | local root, backups, apply records | stage archives, back up, remove, rename, undo on failure, roll a record back |
| Snapshot and remote | `snapshot.py`, `remote.py` | remote `index.json` and archives; each device's cache | write a snapshot of a root, upload with the index last, download |
| Central lifecycle | `central_lifecycle.py` | lifecycle states in the central index | deprecate, reactivate |
| Operator commands | `approved_push.py`, `restore.py`, `base_adoption.py`, `blocked_report.py`, `protect.py` | base record, local root, remote | push approved skills of a blocked plan, restore one skill, adopt a base |
| Review material | `conflicts.py`, `tombstones.py`, `report_retention.py` | conflict packages, tombstones, a lock | write them, prune them |
| Fan-out | `fanout.py`, `projection.py` | links and copies in the tools' roots, a ledger and a lock per tool, backups, run records | plan, execute, roll back, schedule |
| Migrations and import | `legacy_skillshub_migration.py`, `local_root.py`, `hub_import.py` | links, local root, configuration, preview package | stepwise rewriting with undo |
| Local installation | `local_skill.py` | roots of the tools, backups, records | analyse, install, uninstall, publish |
| Operator executor, console | `operator_executor.py`, `dashboard.py` | blocked report; what each browser tab shows | check, confirm, save, restore through scripts on the device |
| Dashboard, monitoring | `dashboard.py`, `monitor.py` | copy of the central index, summary cache, one background refresh, counts of failed polls | build, cache and serve the summary; poll it and judge |
| OpenClaw deployment | `openclaw_release.py`, `openclaw_gate.py`, `src/scripts/openclaw-*` | release link, unit files, backup, reports, probe records | probe, inventory, compare, gate, rehearse, promote, roll back |
| Daemon restart | `daemon.py`, `src/scripts/sync-daemon-idle.py` | the daemon's state file | ask whether a restart is safe |
| Scanner | `scanner.py`, `model.py` | none | which directories are skills, their ids and hashes |
| Reports, CLI | `ops_status.py`, `tool_status.py`, `reconcile.py`, `diff.py`, `cli.py` | none | views of files the other parts write; arguments |

### 1.2 How they interact

```
        user edits                operator: deprecate / reactivate
            |                                  |
            v                                  v
   local root <---pull--- cycle ---push---> remote: index.json + archives
      |   ^                |  ^                 |
      |   |           reads|  |writes           | download
      |   |                v  |                 v
      |   |            base record            cache
      v   |
   fan-out to the tools' roots
```

Nothing is locked between these parties. The devices share only the remote,
which offers whole-file `GET` and `PUT`; a device's daemon, its user and its
operator commands share the local root, the cache and the base record. The
base record is what a three-way decision rests on: a wrong base makes an old
copy look like an edit, or an update like a conflict.

### 1.3 What is hard, and what makes each part correct

* **Decision**: total, symmetric in its two sides, idempotent after it was acted
  upon; loses neither of two edits; lets an override take actions away only.
* **Cycle**: the remote is read, compared and written in separate requests; the
  local root is read twice; a cycle can die between any two steps, and the base
  record is written last. Correct: nothing unpublished is lost, the remote
  index never dangles, a push changes only what it planned, devices converge.
* **Lifecycle**: a deprecated skill is left alone on every device and is only
  reactivated on request.
* **Operator commands** write the same base record, cache and remote as the
  daemon, from older readings. Correct: a base is recorded for a skill only when
  the device holds it.
* **Fan-out**: ledger and links are written at different times. Correct: an
  entry the user made is never taken for one of the fan-out's own.
* **Apply, rollback, installation, migrations, probe**: several steps, each of
  which may fail or be the last. Correct: what was there before is there, or is
  in a backup, and a rollback brings back what others have not changed since.
* **Transfer**: files are written piece by piece and requests arrive late.
  Correct: the index never refers to half an archive, and what is staged was
  published, whatever lies in the cache.
* **Retention**: prunes only complete and old material, never the last of it.
* **Packages**: a skill's id comes from its manifest, its front matter or its
  directory. Correct: a cycle does on the disk what was decided for the ids.
* **Summary, monitor, console**: a verdict or a message rests on readings of
  different ages. Correct: green hides nothing for long, an alert means an
  outage, and what the operator confirmed is what is saved.
* **Releases and restarts**: a dozen steps under systemd or launchd. Correct:
  what is overwritten was saved, what shares files with the release is waited for,
  and a rollback is whole.

`PROJECT.json` lists the hazards at their lines.

## 2. The modules

| Module | Models |
|---|---|
| `SyncDecision` | `_classify_skill_with_override`, `_plan_item`, `_apply_writer_policy` as operators |
| `DecisionCycle` | one skill decided and acted upon again and again, from every combination of inputs |
| `SkillSync` | devices, remote, users, operator: the whole synchronisation |
| `SyncWatch` | `SkillSync` with a record of what disturbs its cycles, so that properties name what the code does not promise |
| `SyncPromise` | what the synchronisation promises; `SkillSync` implements it |
| `OperatorCommands` | the operator's commands beside the daemons of `SkillSync` |
| `SnapshotTransfer` | uploads, downloads and staging below the granularity of `SkillSync` |
| `ApplyRollback` | an apply run over several skills, its record and its rollback |
| `Fanout` | the fan-out to one tool: plan, execution, ledger, records, rollback, scheduler |
| `SkillInstall` | installing a local skill into several roots, uninstalling it |
| `HubImport` | previewing and applying an import into the Hub |
| `LegacyMigration` | replacing legacy links by copies, with undo and rollback |
| `LocalRootMigration` | moving the local root, and the configuration file |
| `ReviewMaterial` | conflict packages, tombstones, retention |
| `SkillPackage` | what a skill is on a disk; the inventory, the comparison and the gate of a rehearsal |
| `ReviewConsole` | browser tabs that review what a pull-only device may not push |
| `HealthPipeline` | from a device's report to the monitor's verdict |
| `OpenclawRelease`, `StagedProbe`, `DaemonRestart` | a release under systemd; the probe of an old host; the restart of a daemon |
| `LocalChanges` | the five modules of 2.6 side by side: `ApplyRollback`, `SkillInstall`, `HubImport`, `LegacyMigration`, `LocalRootMigration` |
| `Services` | seven modules of 2.7 side by side, all but `SkillPackage` |
| `*Proofs` | the theorems about `DecisionCycle`, `SkillSync`, `SyncWatch`, `OperatorCommands`, `Fanout`, `LocalChanges`, `Services` |
| `MC*` | the small worlds of the runs |

How they compose. `DecisionCycle`, `SkillSync`, `LocalRootMigration` and
`ReviewConsole` use the one `SyncDecision`. `OperatorCommands` extends
`SkillSync`: its steps interleave with the daemons' and share their variables.
`SyncWatch` adds two history variables to it.
`SkillSync` instantiates `SyncPromise` under a refinement mapping.
`LocalChanges` and `Services` instantiate components that share no state, and
their specifications `LocalSpec` and `ServiceSpec` are the conjunctions of the
components'; each of their properties is the conjunction of what one component,
or several of one kind, promise. Their MC modules choose one component in the
initial state and let the others stand still. A component that is wrong by itself
fails the run, so this loses nothing and is one run instead of thirteen; the
theorems are about the conjunctions, in which all components move. `SkillPackage`
is instantiated by `MCServices` directly, since nothing is proved about it.

### 2.1 `SyncDecision` and `DecisionCycle`

A content hash is a member of `Versions`, a missing entry is `Absent`.
`Shared[v]` is the hash of version `v` without the files the overrides file
ignores, so that `_projected_local_hash` and `_projected_remote_hash` are one
lookup. `Classify` follows the branches of `_classify_skill` in their order. The
branch `deleted_both` (`sync_state.py:156`) cannot be taken, because two absent
sides are caught by the branch for equal sides; the status is kept in
`Statuses` and in `PlanItem`.

`DecisionCycle` starts from every base, local and central version, every
override, lifecycle state, switch and policy. `Decide` gives a verdict,
`Pull`, `Push` and `Leave` carry it out as an undisturbed cycle would.

### 2.2 `SkillSync`

| Variable | Code |
|---|---|
| `index`, `archives` | `index.json` (hash and lifecycle state per skill) and the archives under `skills/` of the remote |
| `local[d]` | the skill root; `Absent` when the directory is missing |
| `base[d]` | the file `--base-record-file` |
| `cache[d]`, `cached[d]` | `index.json` and archives of the cache directory |
| `pc[d]`, `job[d]` | where the daemon is and what it holds in memory |
| `lifecycle` | an operator's deprecate or reactivate between its check and its put |
| `dirty[d]`, `job[d].raced` | history: what the user changed; whether the remote was overwritten after this cycle compared it |

| Action | Code |
|---|---|
| `FetchIndex`, `FetchArchive`, `FetchDangling` | `download_snapshot`, and its failure on an archive that does not exist |
| `GateBlocked`, `GatePassed` | `run_sync_cycle` to its test for blocked items, deletions and conflicts; `stop_on_blocked` of the daemon |
| `PreviewEnds`, `PreviewAccepted` | `build_sync_apply_preview` and the refusals of `execute_sync_apply`: the local root is read again |
| `AssertRemote` | `_assert_remote_matches_cache`, only when something is pushed |
| `RemoveTarget`, `InstallTarget`, `InstallFails` | `_apply_item`: back up and remove, rename, put the backup back |
| `PullsFinished` | the end of `execute_apply_plan` |
| `ScanLocal` | `write_snapshot(scan_roots(...))`: the local root is read a third time |
| `UploadArchive`, `PutIndex`, `PutIndexUnacknowledged` | `upload_snapshot`; the last is a stored `PUT` whose answer never came |
| `RecordBase` | `_record_successful_base`: the pushed index, or the apply record of a cycle that only pulled |
| `Interrupt`, `Restart` | an exception or the death of the process; a new start after a stop |
| `Edit` | the user changes or deletes a skill directory |
| `LifecycleCheck`, `LifecyclePut` | `execute_central_deprecate`, `execute_central_reactivate` |

A step is one read or write of something shared. Decisions are made in one step
although the code reads the directories one after the other: a user's edit in
the middle is an edit before or after it, since each skill is decided from its
own directory. The reports, the tombstones and the state file a cycle writes
are left out; no decision reads them.

`SyncWatch` adds history: `late[d]`, the skills `d`'s user changed since the running
cycle planned, and `unrecorded`, the devices whose last cycle that acted was cut
short before it recorded its base. `PushTouchesOnlyPlanned`, `PushesAreEdits` and
`RecordedNeverConflicts` are stated with them: in any world, for the skills and
devices that nothing disturbed, and not for calm worlds only.

### 2.3 `SyncPromise` and the refinement

`SyncPromise` knows a catalog of listed versions, a store, and per device a copy,
a view of the catalog and a swap under way. Devices `Look`, `Withdraw` a copy and
end the swap, `Store` and `Publish`; nothing is said of plans, base records, caches
of archives, checks or interruptions. Under `ImplementsPromise` the catalog is
`index.hash`, the store `archives`, a view is the cached index, and a swap is
the item between `RemoveTarget` and `InstallTarget`. What is promised is in
`Publish`: an entry that differs from what the device last saw is its own copy,
nothing listed disappears, everything listed can be fetched; and in `Withdraw`: a copy
gives way only if the store can give it back.

### 2.4 `OperatorCommands`

`cmd` is the command under way with what it read: the blocked report (`report`),
the merged index, the archives or skills left. `BlockedReport`, `ApprovedPush`,
`Publish`, `Restore`, `Adopt` and `ChangeLifecycle` go through the steps of `approved_push.py`,
`local_skill.py`, `restore.py`, `base_adoption.py` and `central_lifecycle.py`; each
read or write of the root, the cache, the base record and the remote is a step,
with any step of a daemon, a user or a fault in between. A restored skill is
removed (`RestoreRemoves`), then renamed into place (`RestoreInstalls`), or its
rename fails and the backup goes back if the place is free (`RestoreFails`).
`fresh`, `refreshed`, `touched` and `disturbed` are history: whether others wrote the
remote, the cache or the skill since; and which skills are overridden, were ever
deprecated, or changed between a cycle's decision and its scan.

### 2.5 `Fanout`

One tool and its lock; the fan-out treats its tools one after the other and
shares nothing between them but the canonical root, which it only reads. How
often a tool's run comes is up to `FanoutScheduler` and an operator.

| Variable | Code |
|---|---|
| `canonical` | the local root: the whole-tree hash of each skill (`_hash_of`) |
| `tool` | the tool's root: nothing, a directory, or a link into canonical (`ours`), into an adoptable root (`legacy`) or elsewhere (`foreign`) |
| `ledger` | `fanout/<tool>.json` |
| `log` | `fanout/runs` and `fanout/backups`: the last `KeepRecords` runs, of which the newest `Keep` with a backup directory have it |
| `job` | the run or rollback under the tool's lock: plan, ledger in memory, items left |
| `sched` | `FanoutScheduler`: last fingerprint, last failure, whether the interval is over |
| `own`, `was`, `touched`, `removed` | history: copies nobody changed, what an item found, what others wrote or took away |

| Action | Code |
|---|---|
| `MaybeRun`, `LockTimesOut`, `DaemonRun`, `OperatorRun` | `maybe_run` takes the fingerprint, waits for the lock, gives up or runs; the command `fanout --yes` |
| `ExecuteLink` .. `ExecuteRemoveCopy` | the one-step actions of `_execute_item` with their own checks of the entry as it is now |
| `TakeAway`, `PutInPlace`, `PutBack` | `replace_dir_with_link`, `update_copy`, `replace_link_with_copy`: the entry leaves, the new one comes, or the old one returns |
| `SaveLedger`, `Close` | the end of a run: ledger, pruning, record |
| `RollBack`, `Undo`, `RollBackEnds` | `rollback_fanout` |
| `Crash`, `IntervalPasses`, `EditTool`, `EditCanonical` | the world |

`Wanted` and `PlanEntry` follow `_skill_decision` and `_plan_entry` branch by
branch. `Plain[v]` stands for `_adoption_hash`. The plan is one step: the code
reads each entry once for it, and a change between two of these readings is a
change before or after the plan of that entry. Edits in the few system calls
between `TakeAway` and `PutInPlace`, or inside one `Undo`, are excluded. Left out:
the write bits of canonical (`protect_skill_dirs`), entries that are neither
link nor directory, links to another canonical skill, skills refused for scope or
risk, and several tools in one record.

### 2.6 Changes on one device

| Module | State | Steps |
|---|---|---|
| `ApplyRollback` | `root`, `runs` (backups and records), `job`, `undo` | `Apply` (plan), `CopyToTemp`, `BackUp`, `Remove`, `Rename`, `Fail`, `Complete`; `Rollback`, `UndoRemove`, `UndoCopy`, `UndoStops`; `Crash`, `Edit` |
| `SkillInstall` | `entry` of each tool, `source`, `backups`, `records`, `job` | `Install` (analysis), `WriteManifest`, `CopyToTemp`, `BackUp`, `Remove`, `Replace`, `WriteRecord`, `InstallFails`; `Uninstall`, `MoveAside`, `MoveFails`; edits |
| `HubImport` | `hub`, `roots`, `package`, one `job` per process, `imported` | `Preview`, `Apply`, `CopySource`, `PutInHub`, `ItemFails`, `WriteRecord`; edits of roots and Hub |
| `LegacyMigration` | `entry`, `legacy`, `snapshot`, `saved`, `records`, `job` | `Migrate`, `SaveLink`, `Stage`, `Unlink`, `Rename`, `RecordLink`, `Complete`, `Fail`, `UndoApplied`, `UndoEnds`; `Rollback`, `CheckMigrated`, `RemoveMigrated`, `Relink`, `RollbackStops`, `RollbackEnds`; `Crash`, edits |
| `LocalRootMigration` | `source`, `dest`, `base`, `config`, `job`, `init` | `Migrate`, `CopyTree`, `RenameStaging`, `Verify`, `ReadConfig`, `ReplaceConfig`, `Fail`, `Stop`; `InitConfig`, `PutConfig`; edits |

Content is a version, a link says where it leads. A copy that goes wrong holds
`Damaged`. A removal or a copy of a directory in `ApplyRollback` may break off
half-way, by a failure or a crash (`HalfReplaced`, `HalfUndone`): what stays is a
directory with content `Damaged`, which the next run takes for a skill, as
the code does. The handler (`apply.py:358-362`) puts nothing back over it. In
`LegacyMigration` and `SkillInstall` a directory is removed whole. `since`, `moved`, `touched` and `before` are history: what others
changed, and what a job found. A property about what a job destroyed speaks of
the entries nobody else wrote meanwhile.

### 2.7 Services

| Module | State | Steps |
|---|---|---|
| `SnapshotTransfer` | `stored` (each archive absent, empty, torn, mixed or whole), `index`, `late` puts, `up`, `cache`, `down`, `staged` | `Upload`, `SkipArchive`, `PutArchive`, `ArchiveWritten`, `PutIndex`, `IndexWritten`, `PutTimesOut`, `UploadDies`, `LatePut`; `ReadIndex`, `CacheIndex`, `KeepCached`, `FetchArchive`, `WriteArchive`, `Downloaded`, `DownloadFails`; `Stage` |
| `ReviewMaterial` | `rec` (tombstones), `index`, `packages`, `listed`, `job` | a cycle's packages, the tombstones file by file with metadata last, retention part by part, `Crash` |
| `SkillPackage` | `root` (path to directory), `central`, `base`, `inventory`, `reports` | `Cycle`, `TakeInventory`, `Reconcile`, `Rehearse`, `Publish`, `Edit` |
| `ReviewConsole` | the device's `source`, `base`, `cache` and report `file`, `central`, the published `peer` status, `tab`, `job` | a tab's `Look`, `Check`, `Confirm`, `AskAgain`; a script's `Report`, `Filter`, `Verify`, `Merge`, `Put`, `Record`, `Stage`, `Apply`, `Tell`; `TimesOut`, `DaemonCycle`, edits and pushes of others |
| `HealthPipeline` | `now`, `canon`, `report`, `held`, `cache`, `queue`, `build`, `inflight`, `wait`, `monitor` | `Publish`, `Push`, `GetCached`, `GetAndWait`, `WaitTimesOut`, `StartRefresh`, `ReadPeers`, `BuildEnds`, `BuildRaises`, `Force`, `StartPoll`, `Heard`, `Unheard`, `Tick` |
| `OpenclawRelease` | `link`, `units`, `sync`, `peer`, `retention`, `backup`, `job` | every step of `promote` and of the rollback, `Fails`, `Dies`, and what systemd starts meanwhile; `PublisherState` is what `systemctl is-active` says of the oneshot publisher |
| `StagedProbe` | `target`, `temp`, `backups`, `records`, `job` | `FetchArchive` .. `WriteRecord`, `Fails`, `Fault`, `Die`, `Edit`, `Publish` |
| `DaemonRestart` | `proc`, `wake`, `state`, `told` | `Launch`, `Begin`, `End`, `EndBlocked`, `Complete`, `Die`, `Ask`, `Restart`, `Tick` |

In `SkillPackage` a directory is a function from the files in it, and hashing is
equality of what counts; `Scan` follows `scan_roots` and `discover_skill_dirs`,
`Inventory` the older copy of it in `remote-inventory-py36.py`. A cycle is one step
there: its interleavings are the matter of `SkillSync`. In `HealthPipeline` time
passes in ticks; a build takes at most `BuildTime`, which the remote's time-outs
bound. A tick while a build has used its time up is not possible. `Inspected` are the
devices whose ids `monitor.py:355` lists: only they are looked at for their health,
age and snapshot. For the others the summary's own health speaks (`monitor.py:295`),
but only while no device waits for a review, and their conflicts
(`monitor.py:293`). In `StagedProbe` an earlier probe's temporary directory
may be left behind; it has another name (`openclaw-sync-probe-py36.py:165`) and
nothing looks at it.

## 3. The runs

| Run | Instance | Shows |
|---|---|---|
| `two_writers` | 2 devices that push and pull with `--allow-delete`, one of which stops on a blocked cycle; 2 skills, 2 versions, 3 edits between cycles, 1 fault. Beside it a second world, `decision`: every input of a decision over 3 versions, two of them equal up to ignored files | `IndexComplete`, `PushesAreEdits`, `UnpublishedKept`, and that the cycles implement `SyncPromise` (`ImplementsPromise`); `NothingLost`, `NeverDeletes`, `Settles`, `NoSilentDivergence`, `PeersAreEqual` of `decision` |
| `open_world` | edits in any phase, a lifecycle operation, an override, a fault, a skill one device refuses | `TypeOK`, `DeprecatedUntouched`, `PulledIsArchived`, `PushTouchesOnlyPlanned`, `RecordedNeverConflicts` |
| `operator_commands` | a pusher, a pull-only device with an operator, 1 command of any kind, 2 edits at any moment, 1 fault of that device or command | `CommandsLoseNothing`, `CommandsTouchOnlyChosen`, `ApprovedAsReviewed`, `RecordedIsAgreed` |
| `fanout` | three worlds: copies over a directory that was there (a failing rename, a rollback); links over a link of a retired manager (a crash, a rollback); links an operator runs by hand (a failing rename). One edit of each root, fair. A fourth, `reader`: a writer and a pull-only reader, 1 skill, 3 versions, 3 edits, fair daemons | `OwnCopiesRecorded`, `RollbackUndoes`, `UndeclaredStays`, `ReplacedIsKept`, `ForeignUntouched`, `Follows`; `Converges` of the fourth |
| `local_changes` | the five modules of 2.6, each in a world of two skills (or three tools), two jobs, an edit or two, a failure, a crash. | `ApplyKeepsContent`, `InstallKeepsContent`, `ImportKeepsHub`, `MigrationKeepsLinks`, `RootMoveKeepsContent` |
| `services` | the eight modules of 2.7, each in a world of its own; the pipeline also with a device that never reports (`silent`) | `StagedIsPublished`, `MaterialIsKept`, `PackagesKeepPlace`, `ConsoleKeepsWord`, `VerdictIsHonest`, `ReleaseIsReversible` |

Besides, `open_world`, `operator_commands`, `fanout`, `local_changes` and `services`
check the type invariants of their modules. The properties of the last two are
conjunctions, written out and explained in `LocalChanges` and `Services`.

The remaining runs are disagreements between the code and its documents; each
checks the documented property and finds it violated.

| Run | Property | What happens |
|---|---|---|
| `push_leaks_private` | `LocalOnlyStaysLocal` | A local-only skill is in the scan, so it enters the index (without its archive, which then fails other devices' downloads). |
| `pushes_race` | `NoBlindOverwrite` | Two devices compare the remote, then both put their index. |
| `pull_forgets_base` | `NoFalseConflict` | A cycle that pulls `s1` records a base that lists `s1` alone (`daemon.py:149`); the next change of `t1` on central is then a conflict on a device whose user did nothing, where `docs/protocol-v0.md:80` says a pull is safe. `RecordedNeverConflicts` is what does hold: for the skills the base record lists. |
| `restore_sends_back` | `OnlyEditsArePushed` | Restoring one skill records the whole cached index as the base; another skill that waited for a pull then looks edited, and the old copy is pushed over the new version. |
| `approval_races_edit` | `OnlyCheckedIsSaved` | The console promises to write only what was checked; the script scans the root again when it merges, and publishes what was edited in between. |
| `release_overlaps_publisher` | `PublisherIsWaitedFor` | The publisher is a `Type=oneshot` unit (`scripts/install-openclaw-peer-status-systemd.sh:45`): while it runs it is "activating", and `systemctl is-active` says no. The wait (`openclaw_release.py:118`) ends at once, and link and units are switched under a publisher that runs. |

### 3.1 Run and change

What the passing runs keep out because the code does not hold there. The change
to the cfg shows it; properties not listed are taken out of the cfg.

| Run and change | Property | What happens |
|---|---|---|
| `open_world` | `ReactivationIsExplicit` | The pushed index is made from the local root and has no lifecycle marks: a push of another skill reactivates a deprecated one. |
| `two_writers` with `MaxLifecycle = 1` | `ImplementsPromise` | A deprecated skill that the pusher lacks is not in its scan, so it leaves the index. |
| `two_writers` with `EditPhases <- AnyPhase` | `UnpublishedKept` | The user edits between the plan and the pull; the edit is replaced unpublished and survives in a backup only. |
| `fanout` with `Worlds <- RollbackWorld`, `RollbackSlots = {2}` | `OwnCopiesRecorded` | Rolling back the older of two runs restores its ledger whole; the copy the later run placed is no longer in the ledger. |
| `fanout` with `RollbackSlots = {2}`, `Plain <- MCPlainPair` | `RollbackUndoes` | The backups of the older run are pruned (the code keeps 5, and 200 records): the copy is removed, nothing comes back, and the item is reported as restored. |
| `fanout` with `ToolPhases <- DuringRuns` | `ForeignUntouched` | Another manager puts its link in place between the plan and the relink. |
| `fanout` with `CanonicalPhases <- DuringRuns` | `OwnCopiesRecorded` | Canonical changes between the plan and the copy; the ledger keeps the planned hash. |
| `services` with the modes `{"sync", "approved"}` for the file remote in `BothRemotes` | `StagedIsPublished` | An upload to a file remote dies within an archive; an approved push finds the archive there, skips it (`remote.py:248`) and puts an index that refers to it. |
| `services` with `Writers = {x1, y1}` | `StagedIsPublished` | Two writers of one file remote: one writes an archive again that the other's new index refers to already. |
| `services` with `[](world = "pipeline" => P!FreshIsRecent)` added to `MCServices` | `FreshIsRecent` | A summary whose build began long ago is stored, and dated, when a request finds the build ended: "fresh" (`docs/nas-gateway-deployment.md:78`: "live or recently refreshed data") can be as old as the interval between two requests. |

What the properties of these runs exempt, the code does do:

* `PushTouchesOnlyPlanned` exempts what the user changed since the plan, a skill the
  cache marks deprecated and an overridden one: the push of another skill
  publishes each of them as the scan finds it, without its archive, and a
  deprecated skill that the pusher lacks leaves the index.
* `CommandsLoseNothing` exempts those skills of any device (`disturbed`).
* `PushesAreEdits` and `RecordedNeverConflicts` exempt a device whose last cycle that
  acted did not record: after an interruption between upload and record, a central
  skill that returns to an earlier version makes the device push its copy back.
* `ApplyKeepsContent` lets a skill whose removal broke off be a part of itself, as
  long as its backup is whole: `apply.py:359` puts a backup back only where nothing
  is. A rollback removes before it copies and makes no backup (`apply.py:303`,
  `apply.py:307`), so when it stops there, the record's backup is all there is, and
  what was written after the run is gone.
* `MigrationKeepsLinks` exempts a directory changed between the rollback's comparison
  and its removal (`legacy_skillshub_migration.py:285-287`): the change is lost.
* `RootMoveKeepsContent` keeps the sections of the configuration that were there when
  it was read (`config.py:265-271`): another writer's change in between is lost.
* `VerdictIsHonest` promises of a device that the monitor does not inspect only
  that it is not red, in conflict or silent from the start while no device waits
  for a review. Its later silence and its drift are not reported, and another
  device's ordinary review hides that it is red.
* `PackagesKeepPlace` exempts what changes after the report a rehearsal rests on.

Where a skill does not lie in the directory of its id, `StaysUnambiguous` and
`CycleFollowsPlan` promise nothing, and rightly:

* pulling a nested skill, or one whose directory is not named by its id, makes
  a second directory of that id; every later cycle stops with "duplicate local
  skill ids" (`sync_state.py:318`);
* a push by a device in such a state writes an index with two entries of one id,
  with which every device fails;
* a pull replaces the whole directory: nested skills and files that never count
  as content (`.env`) leave the root and are only in the backup;
* a package whose manifest excludes `manifest.json` or `SKILL.md` has another id
  where it is installed (the precondition `SelfNamed`).

Further behaviour met while modelling, which no property contradicts:

* `remote-inventory-py36.py` calls itself sidecar-compatible, but lacks the
  patterns `*.bak`, `*.bak-*`, `*.bak.*`, `*.orig`, `*~` and the marker
  `.skill-sync-removed`: a skill with such a file differs from central for ever,
  and the gate blocks.
* The gate passes without any report (`openclaw_gate.py:34`) and takes reports of
  any age, although the rehearsal says it first requires a clean one.
* `sync-daemon-idle.py` answers from the state file of a predecessor when a new
  process has not begun its first cycle: that cycle may be cut. Its answer is
  good for a restart within the margin and within an interval, no longer.
* A probe that is killed between moving the old skill and renaming the new one
  leaves the skill in the backup alone.
* The monitor says a device is stale after 30 minutes (`monitor.py:274`,
  `dashboard.py:860`), the documents after 2 hours; a peer report that cannot be
  read makes the device red without a blocked item, and the console counts a
  peer it could not read as done (`dashboard.py:8133`).
* A request that waited in vain is answered 503 although a forced refresh has
  stored a summary meanwhile.
* A rollback of a legacy migration that stops half-way cannot be resumed, and
  the saved links are never removed (`legacy_skillshub_migration.py:479`).
* Conflict packages, unlike tombstones, write their metadata first.
* An approved push merges without the marks its cache had not seen
  (`approved_push.py:270`), and an approved push of one skill records the whole
  merged index as the base (`approved_push.py:135`).
* A fan-out that dies after it placed copies and before it saved the ledger
  (`fanout.py:523`) no longer recognises them once canonical changes.
* A skill that overlapping pushes made central lose may come back from a device
  whose base forgot it: hence the exemption in `PushesAreEdits`.

### 3.2 Bounds

`MaxEdits`, `MaxFaults`, `MaxLifecycle` and `MaxCommands` count user edits, faults,
lifecycle operations and commands; everything else is finite by itself. Two
devices give every order of one device's step against another's; a third adds
another overtaker of the same kind. Two skills are what is needed to tell the
planned skill from the others, which every property about pushes is about. Two
versions with `Absent` let base, local and central be pairwise different
(in `two_writers` the third version is the `decision` world's; users write the `Drafts`);
the `reader` world has three so that two successive updates differ from what
the reader started with. Three edits are enough for an edit, a second one on
the other device and a return to the old version. Devices are not interchangeable
in most runs (they differ in policy or in who edits), so no symmetry is declared.
In `operator_commands` commands write the cache while that device's daemon is
idle, and faults meet the operator's device and command only (`FailingHere`; those
of the other daemon are the subject of the first two runs); otherwise commands,
edits and daemons interleave freely. `pull_forgets_base` and the other violation
runs are the smallest worlds that show the disagreement.

In `Fanout` each world brings its own bounds: edits of the tool's root and of
canonical, failing renames, crashes, an operator's runs, rollbacks; the number
of daemon runs is not bounded. `m` declares the tool and `n1` does not, so both
kinds of placement are there. Two kept records, one of them with backups, are
the least in which "the last run" and "an older run" differ; the code's 200 and 5
are of the same shape. An operator rolls back the last run only, and the roots
change between runs only: 3.1 says what happens otherwise.

In `local_changes` and `services` each component has two jobs (runs, uploads,
migrations, releases, probes, flows), so that a second meets what a first left
behind, one or two edits by others, and one or two failures at any step.
`MaxDisturbed` in the console bounds how many of the disturbances occur in one
behaviour, not which. `HealthPipeline` runs for 10 ticks of half a poll's interval,
six polls, of which two in a row may fail. A device is old after 5 ticks and a
verdict may hide that for 5 more (`HiddenFor`), so the bound on silence can be reached. `FewTogether`
says what comes together: two reports, or two failures, or one of them or a
push, the latter three with or without a forced refresh beside it, so
that a forced and a background refresh overlap with what they read changing under them. What
disturbs comes in the first half (`Early`), so that enough polls follow. One
device is inspected and one is not; in `silent` the second never reports. `DaemonRestart` runs for 10 ticks with
an interval of 4 and a margin of 2. `SkillPackage` has a
skill with a secret beside it and one named by its manifest, nested in the first
or not, and two cycles.

### 3.3 Fairness

`SkillSync.FairSpec` adds weak fairness of `Daemon(d)`: the daemon's loop
(`daemon.py:39-91`) goes on after an error and after a blocked cycle under
`--continue-on-blocked`, and it sleeps for a finite interval, so a cycle that
can take its next step takes it. Nothing is assumed of users, faults or
operators. `Converges` has no faults for the sake of size only, and excludes
skills an editor deleted: such a deletion blocks until somebody decides. In
`Fanout`, `FairSpec` is fair to the steps of a run (a loop without waiting), to
`maybe_run`, which the daemon calls after every cycle (`daemon.py`), and to the
passing of the interval, which is a clock; crashes, errors and lock holders are
bounded and not fair. Everything else is safety: the remaining components are
commands that end or fail, and the monitor's promises are stated with a delay.

## 4. What is proved

All theorems hold for any devices, skills, versions, policies, names and bounds.
Every safety property of every passing run is proved, but for `PackagesKeepPlace`, and
`IndexComplete` and `UnpublishedKept`, which hold in calm worlds only; what holds in
all of them is `CommandsLoseNothingEver`.

| Module | Theorem | Assumption |
|---|---|---|
| `DecisionCycleProofs` | all properties of the decision; an override only takes actions away | none |
| `SkillSyncProofs` | `TypeCorrect`, `DeprecatedUntouchedEver`, `PulledIsArchivedEver` | none |
| | `PromiseKept`: `Spec => ImplementsPromise` | `Calm` |
| `SyncWatchProofs` | `PushTouchesOnlyPlannedEver`, `PushesAreEditsEver`, `RecordedNeverConflictsEver` | none |
| `OperatorCommandsProofs` | `CommandTypesCorrect`, `CommandsTouchOnlyChosenEver`, `ApprovedAsReviewedEver` | none |
| | `CommandsLoseNothingEver` | none |
| | `RecordedIsAgreedEver` | `PublishesAsIs` |
| `FanoutProofs` | `FanoutTypeCorrect` | none |
| | `OwnCopiesRecordedEver` | `Undisturbed` |
| | `ReplacedIsKeptEver`, `ForeignUntouchedEver` | `Alone` |
| | `RollbackUndoesEver` | `OneRollback` |
| | `UndeclaredStaysEver` | `Alone`, `OneRollback` |
| `LocalChangesProofs` | `LocalTypesOKEver`, `ApplyKeepsContentEver`, `InstallKeepsContentEver`, `ImportKeepsHubEver`, `MigrationKeepsLinksEver`, `RootMoveKeepsContentEver` | none |
| `ServicesProofs` | `MaterialIsKeptEver`, `ConsoleKeepsWordEver` | none |
| | `StagedIsPublishedEver`, `ServiceTypesOKEver` | `OneWriterPerFile` |
| | `ReleaseIsReversibleEver` | `Prompt` |
| | `VerdictIsHonestEver` | `Timely` |

The modules' `ASSUME`s come on top. They give the constants their types and say
what initial states are: a device has at least one skill; what stands for a
damaged copy is no content; before the first move of the root the configuration
names the old one; review material that earlier releases finished is whole;
`--retries` is at least 1 (`monitor.py:76`). TLC evaluates them in the runs.

The assumptions of the theorems:

    Calm == Quiet /\ NoOverrides /\ MaxLifecycle = 0

is needed for the refinement alone; faults, racing pushes and unacknowledged
uploads are allowed. Without `Quiet` (no edit of a root from the preview to the
end of its cycle) a version enters the catalog that no store has, and an edit
gives way unstored; overrides and lifecycle marks do the same, or take a listed
skill out (3.1). The other theorems about `SkillSync` assume nothing: those of
`SyncWatch` name the disturbed skills and devices, and `CommandsLoseNothingEver` speaks
of the skills nobody disturbed. With `MaxCommands = 0` it is a theorem about plain
daemons: no index without its archive, nothing unpublished removed.
`PublishesAsIs` says that publishing
packages the directory as it is; a manifest that excludes files makes the
packaged version another one than the recorded directory.

`Undisturbed` says that canonical stands still during runs, that only the last run
is rolled back and that runs that copy do not crash: each of the three is needed
(3.1). `Alone` says that nobody else changes the tool's root while a run works on
it. `OneRollback` says that the last run is rolled back at most once and has its
backups: a second rollback of the same run, after a user re-created the entry,
finds that the backup was moved back already.

`OneWriterPerFile` says that a file remote has one writer, which writes again what
it pushes, as a cycle does; `FileRemote` writes in place, and without either
half `StagedIsPublished` fails (3.1). With WebDAV nothing is assumed. `Prompt` says that the restart follows the script's answer before the
margin and an interval are over. `Timely` says that a summary goes stale no later
than the monitor's next poll and that a build ends before it; the defaults are
120 s (`dashboard.py:82`, `dashboard.py:2102`), 30 s for a request of the remote
(`remote.py:103`) and 1800 s between polls (`cli.py:238`).

The runs satisfy the assumptions of the theorems about their properties.

### 4.1 The synchronisation

**`IInv` of `SkillSync`.** That the index a push writes is complete follows only
when each skill of the scan is either planned and uploaded, or central's version
and therefore archived already. So the invariant says

* `Archived`: whatever an index, a base record or a cache refers to is archived,
  and from the gate on the cache is complete;
* `LocalAsPlanned`: from the plan to the scan each skill is central's version, a
  planned push, or a planned pull not yet finished whose directory still holds
  the base version or nothing. This is where the decision table comes in: a
  plan without blocked items and deletions leaves no other case;
* `ScanAsPlanned`: what is uploaded is central's version or a planned push, and
  what counts as uploaded is;
* `Replacing`, `Unplanned`, `NothingDeprecated`: housekeeping.

**The refinement** needs one more fact, `PlanBacked`: a pull under way is of a
listed skill, a push of one the device has, and what is uploaded is the root as
it is. With it (`RefinementInv`) every step maps: `FetchIndex` to `Look`,
`RemoveTarget` to `Withdraw`, `InstallTarget`, `InstallFails` and an interruption in
between to `EndSwap`, `UploadArchive` to `Store`, `PutIndex` to `Publish`, a user's
step to `Edit`, the rest to stuttering.

**`WatchInv` of `SyncWatch`** assumes nothing of the world. A cycle past its
comparison still sees the index it compared, unless it was overtaken
(`CheckStands`). From the plan to the upload, a skill that is not exempt is
central's version or a planned push (`OnlyPlannedDiffers`), whatever is edited
beside it; `PushTouchesOnlyPlanned` follows. What a cycle is going to record the
device still holds, but for its user's changes (`CycleHolds`), so a copy its user
has not changed is the version of the base record, if that lists it
(`UntouchedIsBase`), until a cycle is cut short. What a plan pushes was therefore
edited, unless central lacks it (`PlansAreEdits`); and a conflict of a recorded
skill needs three different versions, of which the local one is the user's.

**`PullInv`** needs none of this. From the gate on the cache lacks no archive, and
what is to be pulled is listed and not deprecated; neither depends on what
others do, since a cache is the device's own and archives are never removed.

**`CommandInv`** says, for each kind of command and each of its steps, what the
merged index is: the remote's one it read with the chosen skills replaced, as long
as nobody else wrote (`fresh`); what the chosen skills hold, as long as the user
did not touch them (`touched`); what is still to be uploaded. **`LossInv`** says of
the skills nobody disturbed that what any index, cache, base record or merged
index lists is archived, or is about to be uploaded by the command that merged
it, and that from its plan on a cycle finds in the root only what is archived or
what it will push (`CycleStores`).

### 4.2 The fan-out

**`OwnInv`** relates an untouched copy to the last run: it has the hash
the ledger had before that run, or was placed by it (`LastRunFacts`), and while a
run goes on what it placed is what it planned and canonical still holds
(`RunFacts`, `PlacingFacts`). Rolling the last run back therefore restores the ledger
that belongs to the entries it restores.

**`EntriesInv`** says that a run has planned nothing for an entry that holds a
foreign link, that the place of a replacement is empty while it goes on, and
that a record without a replacement has neither backup nor link; so an undo
that finds a foreign link finds nothing of its own.

**`RollbackInv`** says that until the last run was rolled back its record and
backups hold what it found at every entry it replaced, and that during the
rollback every entry reported as restored is that. **`StaysInv`** adds where the
entry of an undeclared skill can be while a run or rollback goes on.

### 4.3 Changes on one device

Each command's invariant describes its job at every step, and what it leaves when
it dies there.

* **`ApplyInv`**: what a record says a run found is in its backup as it was
  (`Remembered`); the skills a run did not replace are as it found them
  (`OthersAsBefore`); what a rollback has put back is what the run found
  (`RestoredSoFar`); each unless others changed it since (`asince`), and the second
  also up to a removal that broke off, whose content the backup holds.
* **`InstallInv`**: what is about to be removed is in a backup (`KeptFirst`); what is
  copied is the source as it was analysed, without secrets; no link of the
  fan-out is on the list.
* **`ImportInv`**: the sources and the copies made of them are what the package shows;
  what a process put into the Hub is in it, and no other process's
  (`OwnIsOwn`), which is why two applications of one package do not disturb each
  other.
* **`LegacyInv`**: what will replace a link is the version that was compared with the
  legacy directory; what was touched is saved, and what was not is as it was
  (`Undoable`); of the chosen skills every link is on the list or gone
  (`ListIsWhole`).
* **`RootInv`**: until the configuration is replaced it names the old root; the copy
  is the old root or damaged, up to what changed since, and once compared it has
  the same hashes and decisions.

### 4.4 The services

**`TransferInv`**: an upload has stored what it has not left to do; what may still
become the index, a late put included, is stored already (`RemoteIsWhole`); an
archive that a file remote holds in part is not one its index lists; every index a
device reads, caches or stages was put by somebody; what a download has not left
to do is in the cache.

**`ReleaseInv`**: what the next step overwrites is in the backup, the services that
must wait are stopped (the publisher is not among them), and the parts in place are the ones the steps so far
put. **`ProbeInv`**: what the probe found is at its place or in its backup.
**`RestartInv`** relates the state file to the process: a daemon that sleeps wrote
when it will wake, and one that was told idle sleeps for longer than the release
waits, or is in the first cycle of a process that began since.

**`MaterialInv`**: metadata and index entries are written after what they describe;
the oldest complete record of a deletion is whole and is never a victim of
pruning (`OldestIsWhole`): a removal that is cut short makes a record younger, never
older, so no order of pruning, crashes and new records loses the last whole one.
That there is an oldest one is the one well-founded induction of the project.

**`ConsoleInv`**, tab by tab: what did not change since a script had the device
reported is what the report says and what the operator confirmed (`AsReported`);
whatever a base record or a script on its way lists, central held once, and so is
every skill at a version central held that is told not to be blocked
(`KnownIsKept`).

**`PipelineInv`** says that the one refresh in the queue is the one the cache waits
for and that the monitor polls in time. **`HonestInv`** relates the ages: a summary
shows what was on the remote when its build began, or what came later
(`SummariesAreTruthful`); a refresh that is found ended was built since the monitor
heard last (`EndedIsRecent`); a poll that did not find the summary fresh had it
rebuilt (`RefreshFollows`), so what the second of two green polls shows is no
older than the first, or the monitor already suspects it (`AnswerIsRecent`). The
bounds in `GreenMeansReported` and `GreenMeansInStep` follow; two reports of one
device reach the bound on a hidden alert exactly.

### 4.5 Only model-checked

* Liveness (`Converges`, `Follows`), which is out of reach of the prover.
* `PackagesKeepPlace`: `SkillPackage` carries a whole cycle out in one step, by a
  fold over the skills in the order of their ids, and what a fold computes
  for every input needs induction over data.
* The disagreements of section 3: counterexamples are a matter of TLC.

## 5. What is not modelled

* A snapshot's first upload without an index, and the first `pull-cache`.
* Hashing, archive formats and the shape of reports; hashes are equality of what
  counts.
* `SkillSync` takes files as whole; `SnapshotTransfer` does not.
* The retries of `WebDavRemote`, which repeat a request that has the same
  effect; a put that arrives late is in `SnapshotTransfer`.
* In `Fanout`: the write bits of canonical, entries that are neither link nor
  directory, links to another canonical skill, skills refused for scope or risk,
  several tools in one record.
* The dashboard's pages, forms and JavaScript, other than the review flows and
  the summary; `cli.py`; the read-only reports (`ops_status.py`,
  `tool_status.py`, `diff.py`, `projection.py` but for the summary of a plan).
  No decision depends on them, and a model of them would restate their text.
* The scanner's issues and risk levels, which only reports show.
* A cycle that finds nothing to do records no base (`sync_apply.py:167-178`), so
  a skill without a base stays in `same_without_base` until it changes.

## 6. Plan

1. `Fanout`: several tools in one record, and links to other canonical skills.
2. Removals that break off half-way in `LegacyMigration` and `SkillInstall`, as in
   `ApplyRollback`.
3. The refinement of `SyncPromise` for the skills nobody disturbed, without `Calm`.
4. The console's forms for targets and overrides, once they write more than the
   one file each writes now.
