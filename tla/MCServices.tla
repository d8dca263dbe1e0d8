------------------------------ MODULE MCServices ------------------------------
(* Small worlds for what serves the synchronisation, and for packages on a    *)
(* disk.  An initial state chooses one component; only that one moves.        *)
EXTENDS Services, TLC

CONSTANTS s1, t1, v0, v1, v2, x1, y1, f1, f2, NoName

VARIABLES
    world,
    kroot, kcentral, kbase, kmode, kinventory, kreports, kallowed, kcounts

kvars == <<kroot, kcentral, kbase, kmode, kinventory, kreports, kallowed, kcounts>>

Pair(first, second) == [s \in {s1, t1} |-> IF s = s1 THEN first ELSE second]

-----------------------------------------------------------------------------
(* openclaw_release.py: with and without an earlier unit file *)

NoneOrOne == {{}, {f1}}

(* remote.py, snapshot.py, stage.py: one writer, one device *)

SomeSnapshots == {Pair(v0, Absent), Pair(v0, v0), Pair(v1, v0)}
BothRemotes == {[kind |-> "webdav", modes |-> {"sync", "approved", "full"}],
                [kind |-> "file", modes |-> {"sync"}]}

(* conflicts.py, tombstones.py, report_retention.py: one skill, and three      *)
(* old duplicates of one deletion, or none                                     *)

FourSlots == 1..4
Duplicate(i) == [skill |-> s1, content |-> v0, material |-> "whole", base |-> TRUE,
                 meta |-> TRUE, time |-> i, old |-> TRUE]
NoneOrThree == {[i \in 1..4 |-> Absent],
                [i \in 1..4 |-> IF i = 4 THEN Absent ELSE Duplicate(i)]}

(* dashboard.py, monitor.py: two reports or failures, or one of them or a push, *)
(* and a forced refresh beside it; a device the monitor inspects and one it     *)
(* does not, which in a world of its own is silent.  What disturbs comes early, *)
(* so that the monitor polls often enough after it.                             *)

Early(c) == IF c.failures = 0 THEN 0..1 ELSE 0..4
OneAtMost(c) == c.reports + c.pushes + c.forced + c.failures <= 1
FewTogether ==
    {c \in [reports: 0..2, pushes: 0..1, forced: 0..1, failures: 0..2] :
        \/ OneAtMost([c EXCEPT !.forced = 0])
        \/ c.pushes + c.forced = 0 /\ {c.reports, c.failures} = {0, 2}}

(* The console: two tabs, a skill that waits for review, one in sync *)

NothingIgnored == [v \in {v0, v1, v2} |-> v]
OneAhead == {Pair(v1, v1)}
CentralBehind == Pair(v0, v1)

(* openclaw-sync-probe-py36.py: without and with --yes-apply *)

BothModes == BOOLEAN

-----------------------------------------------------------------------------
(* scanner.py, reconcile.py, openclaw_gate.py: a skill with a secret beside it, *)
(* one that its manifest names, nested in the first or not                      *)

KText(name, v) == [name |-> name, text |-> v]
KPlain(v) == "SKILL.md" :> KText(NoName, v)
KNamed(v) == ("SKILL.md" :> KText("m", v)) @@ (".env" :> v)
KManifest == "manifest.json" :> [id |-> "N", exclude |-> {"data"}]
KFull(v) == KPlain(v) @@ KManifest @@ ("data" :> v) @@ ("notes.bak" :> v)
KEntry(id, path, content) == [id |-> id, path |-> path, content |-> content]
KCentral == KEntry("m", <<"m">>, "SKILL.md" :> KText("m", v0))
K == INSTANCE SkillPackage WITH
        Packages <- {KNamed(v0), KNamed(v1), KFull(v0), KPlain(v1)},
        Places <- {<<"m">>, <<"n">>, <<"m", "n">>},
        Normal <- [x \in {"m", "n", "N"} |-> IF x = "N" THEN "n" ELSE x],
        IdOrder <- <<"m", "n">>,
        InitialRoots <- {<<"m">> :> KNamed(v0),
                         (<<"m">> :> KNamed(v0)) @@ (<<"m", "n">> :> KFull(v0))},
        InitialCentrals <- {{KCentral},
                            {KCentral, KEntry("n", <<"m", "n">>, KPlain(v0) @@ KManifest)}},
        Modes <- {[policy |-> p, allowNew |-> TRUE] : p \in {"push-pull", "pull-only"}},
        MaxEdits <- 1, MaxPublished <- 1, MaxCycles <- 2, MaxReports <- 1,
        root <- kroot, central <- kcentral, base <- kbase, mode <- kmode,
        inventory <- kinventory, reports <- kreports, allowedBy <- kallowed,
        counts <- kcounts

-----------------------------------------------------------------------------
(* One component moves; the others stay in one of their initial states. *)

Worlds == {"release", "transfer", "material", "pipeline", "silent", "console", "package", "restart", "probe"}

Init ==
    /\ world \in Worlds
    /\ O!Init
    /\ world # "release" => /\ olink = "absent" /\ ~ oretention.timer
                            /\ ounits = [u \in {f1, f2} |-> "absent"]
    /\ T!Init
    /\ world # "transfer" => ttransport.kind = "file"
    /\ M!Init
    /\ world # "material" => /\ mdeleted = [s \in {s1} |-> Absent] /\ mconflicted = {}
                             /\ mrec[1] = Absent
    /\ P!Init
    /\ preport = [d \in Devices |->
                    IF world = "pipeline" \/ (world = "silent" /\ d \in Inspected)
                    THEN [health |-> "green", snap |-> 0, at |-> 0] ELSE Absent]
    /\ C!Init
    /\ K!Init
    /\ world # "package" => /\ DOMAIN kroot = {<<"m">>} /\ kcentral = {KCentral}
                            /\ kbase = {} /\ kmode.policy = "pull-only"
    /\ R!Init
    /\ Q!Init
    /\ world # "probe" => qcentral = v0 /\ qtarget = v0

Next ==
    /\ UNCHANGED world
    /\ \/ world = "release" /\ O!Next
          /\ UNCHANGED <<tvars, mvars, pvars, cvars, kvars, dvars, qvars>>
       \/ world = "transfer" /\ T!Next
          /\ UNCHANGED <<ovars, mvars, pvars, cvars, kvars, dvars, qvars>>
       \/ world = "material" /\ M!Next
          /\ UNCHANGED <<ovars, tvars, pvars, cvars, kvars, dvars, qvars>>
       \/ world \in {"pipeline", "silent"} /\ P!Next
          /\ (pcounts' # pcounts => pnow \in Early(pcounts'))
          /\ (world = "silent" => OneAtMost(pcounts'))
          /\ UNCHANGED <<ovars, tvars, mvars, cvars, kvars, dvars, qvars>>
       \/ world = "console" /\ C!Next
          /\ UNCHANGED <<ovars, tvars, mvars, pvars, kvars, dvars, qvars>>
       \/ world = "package" /\ K!Next
          /\ UNCHANGED <<ovars, tvars, mvars, pvars, cvars, dvars, qvars>>
       \/ world = "restart" /\ R!Next
          /\ UNCHANGED <<ovars, tvars, mvars, pvars, cvars, kvars, qvars>>
       \/ world = "probe" /\ Q!Next
          /\ UNCHANGED <<ovars, tvars, mvars, pvars, cvars, kvars, dvars>>

-----------------------------------------------------------------------------
\* scanner.py, apply.py, openclaw_gate.py: a root stays a tree of packages; a
\* cycle does on the disk what was decided for the ids, keeps what it removes,
\* makes no id ambiguous, and a rehearsal pulls only what the report that let
\* it pass could not show.
PackagesKeepPlace ==
    /\ [](world = "package" => K!PackagesTypeOK)
    /\ K!CycleFollowsPlan /\ K!RemovedIsSaved
    /\ K!StaysUnambiguous /\ K!RehearsalWritesOnlyNews
=============================================================================
