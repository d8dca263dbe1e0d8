------------------------------ MODULE LocalChanges ------------------------------
(***************************************************************************)
(* The commands that change skills on one device, side by side: applying    *)
(* and rolling back a snapshot, installing a local skill, importing into    *)
(* the Hub, replacing legacy links, moving the local root.  Each is         *)
(* specified in a module of its own; they work on different directories     *)
(* and share no state, so their specifications are simply conjoined.        *)
(***************************************************************************)
EXTENDS Naturals

CONSTANTS
    Skills, Versions, Absent, Damaged,
    MaxRuns, MaxEdits, MaxFailures,     \* bounds, for each command
    \* apply.py
    Staged, Scope, Aimed, SkillRoots, RootEdits,
    \* local_skill.py
    Tools, Sidecar, ToolEntries, Sources, ToolEdits,
    \* hub_import.py
    HubRoots, Processes, CentralSkills, Hubs, SourceRoots, SourceEdits,
    MaxSourceEdits,
    \* legacy_skillshub_migration.py
    LinkedTools, Declared, Legacy, Snapshots, LinkedEntries,
    \* local_root.py
    RootVersions, Agreed, CentralContents, Configs

VARIABLES
    aroot, aruns, ajob, aundo, asince, acounts,
    ientry, isource, ibackups, ijob, irecords, imoved, icounts,
    hhub, hroots, hpackage, hjob, himported, hmoved, hcounts,
    lentry, llegacy, lsnapshot, lsaved, lrecords, ljob, lbefore, lmoved, lcounts,
    rsource, rdest, rbase, rconfig, rjob, rinit, rmoved, rcounts

avars == <<aroot, aruns, ajob, aundo, asince, acounts>>
ivars == <<ientry, isource, ibackups, ijob, irecords, imoved, icounts>>
hvars == <<hhub, hroots, hpackage, hjob, himported, hmoved, hcounts>>
lvars == <<lentry, llegacy, lsnapshot, lsaved, lrecords, ljob, lbefore, lmoved, lcounts>>
rvars == <<rsource, rdest, rbase, rconfig, rjob, rinit, rmoved, rcounts>>

-----------------------------------------------------------------------------
(* The components *)

A == INSTANCE ApplyRollback WITH
        InitialRoots <- SkillRoots, EditEntries <- RootEdits,
        root <- aroot, runs <- aruns, job <- ajob, undo <- aundo,
        since <- asince, counts <- acounts

I == INSTANCE SkillInstall WITH
        InitialEntries <- ToolEntries, InitialSources <- Sources,
        EditEntries <- ToolEdits, MaxInstalls <- MaxRuns,
        entry <- ientry, source <- isource, backups <- ibackups, job <- ijob,
        records <- irecords, moved <- imoved, counts <- icounts

H == INSTANCE HubImport WITH
        Roots <- HubRoots, Central <- CentralSkills, InitialHubs <- Hubs,
        InitialRoots <- SourceRoots, EditEntries <- SourceEdits,
        MaxEdits <- MaxSourceEdits,
        hub <- hhub, roots <- hroots, package <- hpackage, job <- hjob,
        imported <- himported, moved <- hmoved, counts <- hcounts

L == INSTANCE LegacyMigration WITH
        Tools <- LinkedTools, InitialLegacy <- Legacy,
        InitialSnapshots <- Snapshots, InitialEntries <- LinkedEntries,
        MaxMigrations <- MaxRuns,
        entry <- lentry, legacy <- llegacy, snapshot <- lsnapshot,
        saved <- lsaved, records <- lrecords, job <- ljob, before <- lbefore,
        moved <- lmoved, counts <- lcounts

R == INSTANCE LocalRootMigration WITH
        Versions <- RootVersions, Central <- CentralContents,
        InitialConfigs <- Configs, MaxMigrations <- MaxRuns,
        source <- rsource, dest <- rdest, base <- rbase, config <- rconfig,
        job <- rjob, init <- rinit, moved <- rmoved, counts <- rcounts

LocalSpec == A!Spec /\ I!Spec /\ H!Spec /\ L!Spec /\ R!Spec

ASSUME LocalBoundAssumption == MaxRuns \in Nat /\ MaxEdits \in Nat /\ MaxFailures \in Nat
ASSUME ApplyAssumption ==
    /\ Absent \notin [kind: A!Kinds, content: A!Contents] /\ Damaged \notin Versions
    /\ Staged \in [Skills -> Versions \cup {Absent}]
    /\ SkillRoots \subseteq [Skills -> A!Entry]
    /\ RootEdits \subseteq A!Entry
ASSUME InstallAssumption ==
    /\ Absent \notin Versions \cup Tools \cup {I!NoRoot} /\ "source" \notin Tools
    /\ Absent \notin [kind: I!Kinds, body: Versions, manifest: BOOLEAN, secret: BOOLEAN]
    /\ ToolEntries \subseteq [Tools -> I!Entry \cup {I!NoRoot}]
    /\ Sources \subseteq I!Source
    /\ ToolEdits \subseteq I!Entry
ASSUME ImportAssumption ==
    /\ MaxSourceEdits \in Nat
    /\ Absent \notin Versions \cup (HubRoots \X Skills)
                         \cup [kind: {"dir", "link"}, content: H!Contents]
    /\ Hubs \subseteq [Skills -> H!Held]
    /\ SourceRoots \subseteq [HubRoots -> [Skills -> H!Entry]]
    /\ SourceEdits \subseteq H!Entry
ASSUME LegacyAssumption ==
    /\ Absent \notin Versions \cup (LinkedTools \X Skills)
                         \cup [kind: {"dir", "legacy", "elsewhere"}, content: L!Contents]
    /\ Legacy \in [Skills -> Versions]
    /\ Snapshots \subseteq [Skills -> L!Contents]
    /\ LinkedEntries \subseteq [L!Places -> L!Entry]
\* A device that has no skill at all has nothing to move; before the first move
\* its configuration names the old root.
ASSUME RootAssumption ==
    /\ Skills # {} /\ Absent \notin RootVersions /\ Damaged \notin R!Content
    /\ Agreed \in R!Root /\ CentralContents \in R!Root
    /\ \A c \in Configs : /\ c \in R!Config /\ c.root = "old"
                          /\ ~ c.exists => c = R!NoConfig

-----------------------------------------------------------------------------
(* The properties, each stated in its component's module *)

\* Every component's state keeps its types: what a failure or another actor
\* leaves behind is a state the next run of the command can start from.
LocalTypesOK ==
    /\ A!ApplyTypeOK /\ I!InstallTypeOK /\ H!ImportTypeOK
    /\ L!LegacyTypeOK /\ R!RootTypeOK

\* apply.py: no content is removed without a backup; a failed run puts back
\* what it does not record, or leaves it in its backup; a rollback restores;
\* fan-out's links stay.
ApplyKeepsContent ==
    /\ A!ReplacedIsBackedUp /\ A!FailedPutsBack
    /\ A!RollbackRestores /\ A!CanonicalLinksStay

\* local_skill.py, skill_uninstall.py: what is taken out is kept; a skill with
\* secrets is not installed; fan-out's links stay; a record says what is there.
InstallKeepsContent ==
    /\ I!TakenOutIsKept /\ I!SecretsStay
    /\ I!FanoutLinksStay /\ I!RecordedIsInstalled

\* hub_import.py: nothing in the Hub is replaced; only what the package shows
\* is imported, from a source that is as planned; a record is its own process's.
ImportKeepsHub ==
    /\ H!HubIsNotOverwritten /\ H!ImportedAsPreviewed
    /\ H!SourceAsPlanned /\ H!RecordIsOwn

\* legacy_skillshub_migration.py: tools read what they read before; a failure
\* is undone; links are saved; a rollback spares edits; complete is whole.
MigrationKeepsLinks ==
    /\ L!MigrationKeepsContent /\ L!FailureUndone /\ L!LinkIsSaved
    /\ L!RollbackSparesEdits /\ L!CompleteIsWhole

\* local_root.py, config.py: the configured root exists and holds what the old
\* one held, with the same decisions; a failure leaves room for another attempt;
\* a configuration that cannot be read is an error, and is never cut down.
RootMoveKeepsContent ==
    /\ [](R!ConfiguredRootExists /\ R!WrongConfigIsAnError)
    /\ R!SwitchKeepsContent /\ R!SwitchKeepsDecisions
    /\ R!FailureLeavesRoom /\ R!ConfigKeepsSections
=============================================================================
