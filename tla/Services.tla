-------------------------------- MODULE Services --------------------------------
(***************************************************************************)
(* What serves the synchronisation, side by side: the transfer of           *)
(* snapshots, the material for reviews, releases of the gateway, the        *)
(* status pipeline, the review console, the daemon's restart and the probe  *)
(* of an old host.  Each is specified in a module of its own; they share    *)
(* no state, so their specifications are simply conjoined.                  *)
(***************************************************************************)
EXTENDS Naturals, FiniteSets

CONSTANTS
    Skills, Versions, Absent, Damaged,
    \* openclaw_release.py
    UnitFiles, EarlierFiles, MaxReleases, MaxStepFailures, MaxTicks,
    \* remote.py, snapshot.py, stage.py
    Writers, Snapshots, Transports,
    MaxUploads, MaxDownloads, MaxMixed, MaxTransferFailures,
    \* conflicts.py, tombstones.py, report_retention.py
    Reviewed, Slots, EarlierRecords, MaxBuilds, MaxChanges, MaxCrashes,
    \* dashboard.py, monitor.py
    Devices, Inspected, Pending, Raised, SummaryStale, RefreshInterval, DeviceOld,
    MonitorStale, PollInterval, Retries, Threshold, BuildTime, MaxPolled,
    MaxReports, MaxIndexed, MaxForced, MaxLosses, Together,
    \* dashboard.py, operator_executor.py
    Tabs, ConsoleVersions, Projections, Sources, CentralIndex, BaseRecord,
    Attempts, MaxFlows, MaxSourceEdits, MaxPushes, MaxTimeouts, MaxDisturbed,
    \* daemon.py, sync-daemon-idle.py
    CycleInterval, Margin, Delay, StopOnBlocked, MaxNow,
    \* openclaw-sync-probe-py36.py
    ProbeModes, MaxProbes, MaxProbeEdits, MaxProbeFailures, MaxDeaths, MaxPublished

VARIABLES
    olink, ounits, osync, opeer, oretention, obackup, ojob, ocounts,
    ttransport, tstored, tindex, tlate, tup, tcache, tdown, tstaged, tpublished,
    tcounts,
    mdeleted, mconflicted, mrec, mindex, mpackages, mlisted, mjob, mcounts,
    pnow, pcanon, preport, pheld, pcache, pqueue, pbuild, pinflight, pwait,
    pmonitor, panswer, pcounts,
    csource, cbase, ccache, cfile, ccentral, cpeer, ctab, cjob, cknown, ctold,
    ccounts,
    dnow, dproc, dwake, dfirst, dstate, dtold,
    qcentral, qtarget, qtemp, qbackups, qrecords, qjob, qbefore, qcounts

ovars == <<olink, ounits, osync, opeer, oretention, obackup, ojob, ocounts>>
tvars == <<ttransport, tstored, tindex, tlate, tup, tcache, tdown, tstaged,
           tpublished, tcounts>>
mvars == <<mdeleted, mconflicted, mrec, mindex, mpackages, mlisted, mjob, mcounts>>
pvars == <<pnow, pcanon, preport, pheld, pcache, pqueue, pbuild, pinflight, pwait,
           pmonitor, panswer, pcounts>>
cvars == <<csource, cbase, ccache, cfile, ccentral, cpeer, ctab, cjob, cknown,
           ctold, ccounts>>
dvars == <<dnow, dproc, dwake, dfirst, dstate, dtold>>
qvars == <<qcentral, qtarget, qtemp, qbackups, qrecords, qjob, qbefore, qcounts>>

-----------------------------------------------------------------------------
(* The components *)

O == INSTANCE OpenclawRelease WITH
        Files <- UnitFiles, InitialFiles <- EarlierFiles,
        MaxFailures <- MaxStepFailures,
        link <- olink, units <- ounits, sync <- osync, peer <- opeer,
        retention <- oretention, backup <- obackup, job <- ojob, counts <- ocounts

T == INSTANCE SnapshotTransfer WITH
        MaxEdits <- MaxMixed, MaxFailures <- MaxTransferFailures,
        transport <- ttransport, stored <- tstored, index <- tindex, late <- tlate,
        up <- tup, cache <- tcache, down <- tdown, staged <- tstaged,
        published <- tpublished, counts <- tcounts

M == INSTANCE ReviewMaterial WITH
        Skills <- Reviewed, InitialRecords <- EarlierRecords,
        deleted <- mdeleted, conflicted <- mconflicted, rec <- mrec,
        index <- mindex, packages <- mpackages, listed <- mlisted, job <- mjob,
        counts <- mcounts

P == INSTANCE HealthPipeline WITH
        Interval <- PollInterval, MaxNow <- MaxPolled, MaxPushes <- MaxIndexed,
        MaxFailures <- MaxLosses,
        now <- pnow, canon <- pcanon, report <- preport, held <- pheld,
        cache <- pcache, queue <- pqueue, build <- pbuild, inflight <- pinflight,
        wait <- pwait, monitor <- pmonitor, answer <- panswer, counts <- pcounts

C == INSTANCE ReviewConsole WITH
        Versions <- ConsoleVersions, Shared <- Projections,
        InitialSources <- Sources, InitialCentral <- CentralIndex,
        InitialBase <- BaseRecord, MaxEdits <- MaxSourceEdits,
        MaxFailures <- MaxTimeouts, MaxTogether <- MaxDisturbed,
        source <- csource, base <- cbase, cache <- ccache, file <- cfile,
        central <- ccentral, peer <- cpeer, tab <- ctab, job <- cjob,
        known <- cknown, told <- ctold, counts <- ccounts

R == INSTANCE DaemonRestart WITH
        Interval <- CycleInterval,
        now <- dnow, proc <- dproc, wake <- dwake, first <- dfirst,
        state <- dstate, told <- dtold

Q == INSTANCE StagedProbe WITH
        Modes <- ProbeModes, MaxEdits <- MaxProbeEdits, MaxFailures <- MaxProbeFailures,
        central <- qcentral, target <- qtarget, temp <- qtemp, backups <- qbackups,
        records <- qrecords, job <- qjob, before <- qbefore, counts <- qcounts

ServiceSpec ==
    O!Spec /\ T!Spec /\ M!Spec /\ P!Spec /\ C!Spec /\ R!Spec /\ Q!Spec

ASSUME TransferAssumption ==
    /\ Snapshots \subseteq [Skills -> Versions \cup {Absent}]
    /\ Absent \notin Versions \cup (Skills \X Versions)
    /\ Damaged \notin [Skills -> Versions \cup {Absent}]
\* A record that earlier releases finished is whole.
ASSUME MaterialAssumption ==
    /\ IsFiniteSet(Slots) /\ 0 \notin Slots
    /\ Absent \notin [skill: Reviewed, content: Versions, material: M!Parts,
                      base: BOOLEAN, meta: BOOLEAN, time: Nat, old: BOOLEAN]
    /\ EarlierRecords \subseteq [Slots -> M!Record(Cardinality(Slots)) \cup {Absent}]
    /\ \A r \in EarlierRecords : \A i \in Slots :
          r[i] # Absent /\ r[i].meta => M!Whole(r[i])
ASSUME PipelineAssumption ==
    /\ Inspected \subseteq Devices
    /\ PollInterval \in Nat /\ Retries \in Nat \ {0} /\ Threshold \in Nat
    /\ SummaryStale \in Nat /\ RefreshInterval \in Nat /\ DeviceOld \in Nat
    /\ MonitorStale \in Nat /\ BuildTime \in Nat
    /\ MaxPolled \in Nat /\ MaxIndexed \in Nat
    /\ Absent \notin Nat \cup P!Report \cup P!Payload
    /\ Absent \notin [Devices -> P!Report \cup {P!Unread}]
    /\ Absent \notin [id: Nat, result: P!Result]
    /\ Pending # Raised /\ {Pending, Raised} \cap P!Payload = {}
ASSUME ConsoleAssumption ==
    /\ Absent \notin ConsoleVersions /\ Projections \in [ConsoleVersions -> ConsoleVersions]
    /\ Sources \subseteq C!Hashes
    /\ CentralIndex \in C!Hashes /\ BaseRecord \in C!Hashes
    /\ Attempts \in Nat \ {0}
ASSUME RestartAssumption ==
    /\ CycleInterval \in Nat /\ Margin \in Nat /\ Delay \in Nat /\ MaxNow \in Nat
    /\ StopOnBlocked \in BOOLEAN
    /\ Absent \notin Nat /\ Absent \notin R!StateFile
ASSUME ProbeAssumption ==
    /\ ProbeModes \subseteq BOOLEAN /\ MaxProbes \in Nat
    /\ Absent \notin Versions /\ Damaged \notin Versions \cup {Absent}

-----------------------------------------------------------------------------
(* The properties, each stated in its component's module *)

\* Every component's state keeps its types: what a failure, a death or another
\* actor leaves behind is a state the others can go on from.
ServiceTypesOK ==
    /\ O!ReleaseTypeOK /\ T!TransferTypeOK /\ M!MaterialTypeOK
    /\ P!PipelineTypeOK /\ C!ConsoleTypeOK /\ R!RestartTypeOK /\ Q!ProbeTypeOK

\* openclaw_release.py: what is overwritten was saved and is restored whole,
\* nothing is switched while the sync service runs, and what is promoted is whole.
\* sync-daemon-idle.py: a release that asked first restarts no running cycle.
\* openclaw-sync-probe-py36.py: what the probe replaces is kept and put back.
ReleaseIsReversible ==
    /\ []O!SavedBeforeSwitched
    /\ O!SwitchedQuietly /\ O!RollbackIsComplete /\ O!PromotedWhole
    /\ R!RestartHitsNoCycle
    /\ Q!ProbeKeepsContent /\ Q!FailurePutsBack /\ []Q!RecordNamesBackup

\* remote.py, stage.py: the index refers to whole archives; what is staged was
\* published; a download leaves nothing out.
StagedIsPublished ==
    /\ [](T!IndexRefersToWhole /\ T!StagedWasPublished)
    /\ T!DownloadIsComplete

\* conflicts.py, tombstones.py, report_retention.py: finished records are whole,
\* packages are current, and the last record of a deletion stays.
MaterialIsKept ==
    /\ [](M!MetadataIsLast /\ M!IndexedIsWhole /\ M!PackagesAreCurrent)
    /\ M!OneWholeStays

\* dashboard.py, monitor.py: slow refreshes do not pile up; green hides neither
\* silence nor drift of the devices the monitor knows for long, nor conflicts of
\* any device; an alert means an outage.
VerdictIsHonest ==
    /\ [](P!OneRefreshAtATime /\ P!GreenMeansReported /\ P!GreenMeansInStep)
    /\ P!AlertMeansOutage

\* dashboard.py, operator_executor.py: what is saved on the console was
\* confirmed there, and a skill told as done is shared.
ConsoleKeepsWord == []C!DoneMeansShared /\ C!SavedAsConfirmed

\* No part of a release is switched while the publisher runs
\* (openclaw_release.py:116).
PublisherIsWaitedFor == O!PublisherIsWaitedFor

\* Only the versions that were checked are saved (dashboard.py:9782).
OnlyCheckedIsSaved == C!OnlyCheckedIsSaved
=============================================================================
