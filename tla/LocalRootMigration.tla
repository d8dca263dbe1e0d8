-------------------------- MODULE LocalRootMigration --------------------------
(***************************************************************************)
(* local_root.py and config.py: the local root of a device is copied to a  *)
(* place of the sidecar's own, compared, and only then named in the        *)
(* configuration file, which also says how central is reached.  The user,  *)
(* the daemon and config-init go on meanwhile.                             *)
(***************************************************************************)
EXTENDS Naturals

CONSTANTS
    Skills, Versions, Absent,
    Damaged,        \* content that no source has: what a bad copy holds
    Agreed,         \* [Skills -> Content]: what the base record says at first
    Central,        \* [Skills -> Content]: the central snapshot
    InitialConfigs, \* the configuration files a device may start with
    MaxMigrations, MaxEdits, MaxFailures

\* The decision of sync_state.py, on the device's own base and snapshot.
D == INSTANCE SyncDecision WITH Shared <- [v \in Versions |-> v]

VARIABLES
    source,     \* the old root
    dest,       \* the new one, or NoDir
    base,       \* the base record
    config,     \* the configuration file
    job,        \* the migration under way
    init,       \* config-init under way
    moved,      \* history: skills that changed since the copy, the comparison
    counts

vars == <<source, dest, base, config, job, init, moved, counts>>

Content == Versions \cup {Absent}
Root == [Skills -> Content]
Empty == [s \in Skills |-> Absent]
NoDir == [s \in {} |-> Absent]
NoConfig == [exists |-> FALSE, valid |-> TRUE, webdav |-> FALSE, root |-> "old"]
Idle == [step |-> "idle", staging |-> NoDir, hashes |-> Empty, outcome |-> Empty,
         read |-> NoConfig]
NoInit == [step |-> "idle", stale |-> FALSE]

Copies == [Skills -> Content \cup {Damaged}]
Config == [exists: BOOLEAN, valid: BOOLEAN, webdav: BOOLEAN, root: {"old", "new"}]
Job == [step: {"idle", "copying", "renaming", "verifying", "writing", "replacing"},
        staging: {NoDir} \cup Copies, hashes: Root,
        outcome: [Skills -> D!Statuses] \cup {Empty}, read: Config]
Counts == [migrations: 0..MaxMigrations, edits: 0..MaxEdits, failures: 0..MaxFailures]

RootTypeOK ==
    /\ source \in Root /\ base \in Root
    /\ dest = NoDir \/ dest \in Copies
    /\ config \in Config
    /\ ~ config.exists => config = NoConfig
    /\ job \in Job /\ (job.step = "idle" <=> job = Idle)
    /\ init \in [step: {"idle", "writing"}, stale: BOOLEAN]
    /\ moved \in [copied: SUBSET Skills, compared: SUBSET Skills]
    /\ counts \in Counts

Init ==
    /\ source \in [Skills -> Versions] /\ dest \in {NoDir, Empty}
    /\ base = Agreed
    /\ config \in InitialConfigs
    /\ job = Idle /\ init = NoInit
    /\ moved = [copied |-> {}, compared |-> {}]
    /\ counts = [migrations |-> 0, edits |-> 0, failures |-> 0]

-----------------------------------------------------------------------------
(* migrate_local_root *)

Outcome(root) ==
    [s \in Skills |-> D!Classify(base[s], root[s], Central[s], FALSE)]

Migrate ==
    /\ job = Idle
    /\ counts.migrations < MaxMigrations
    /\ config.valid /\ config.root = "old"
    /\ dest \in {NoDir, Empty}
    /\ counts' = [counts EXCEPT !.migrations = @ + 1]
    /\ job' = [step |-> "copying", staging |-> NoDir, hashes |-> source,
               outcome |-> Outcome(source), read |-> NoConfig]
    /\ UNCHANGED <<source, dest, base, config, init, moved>>

\* copytree copies every skill, or some arrive other than they are.
CopyTree(bad) ==
    /\ job.step = "copying"
    /\ \/ bad = {} /\ counts' = counts
       \/ /\ bad # {} /\ counts.failures < MaxFailures
          /\ counts' = [counts EXCEPT !.failures = @ + 1]
    /\ job' = [job EXCEPT !.step = "renaming",
                  !.staging = [s \in Skills |-> IF s \in bad THEN Damaged
                                                ELSE source[s]]]
    /\ moved' = [moved EXCEPT !.copied = {}]
    /\ UNCHANGED <<source, dest, base, config, init>>

RenameStaging ==
    /\ job.step = "renaming"
    /\ dest' = job.staging
    /\ job' = [job EXCEPT !.staging = NoDir, !.step = "verifying"]
    /\ UNCHANGED <<source, base, config, init, moved, counts>>

\* mutant: only the hashes are compared
VerifiedHashes == dest = job.hashes
Verified == dest = job.hashes /\ Outcome(dest) = job.outcome

Verify ==
    /\ job.step = "verifying"
    /\ Verified
    /\ job' = [job EXCEPT !.step = "writing"]
    /\ moved' = [moved EXCEPT !.compared = {}]
    /\ UNCHANGED <<source, dest, base, config, init, counts>>

\* write_config_local_root reads the file again and replaces it by what it
\* read, one entry of it changed, whatever is there by then.
ReadConfig ==
    /\ job.step = "writing"
    /\ config.valid
    /\ job' = [job EXCEPT !.step = "replacing", !.read = config]
    /\ UNCHANGED <<source, dest, base, config, init, moved, counts>>

WithRoot == [job.read EXCEPT !.exists = TRUE, !.root = "new"]

ReplaceConfig ==
    /\ job.step = "replacing"
    /\ config' = WithRoot
    /\ init' = [init EXCEPT !.stale = TRUE]
    /\ job' = Idle
    /\ UNCHANGED <<source, dest, base, moved, counts>>

\* What a failed migration removes: its staging and what it renamed.
Removed == IF job.step \in {"verifying", "writing"} THEN NoDir ELSE dest

Fail ==
    /\ \/ /\ \/ job.step = "verifying" /\ ~ Verified
             \/ job.step = "writing" /\ ~ config.valid
          /\ counts' = counts
       \/ /\ job.step \in {"copying", "renaming", "verifying"}
          /\ counts.failures < MaxFailures
          /\ counts' = [counts EXCEPT !.failures = @ + 1]
    /\ dest' = Removed
    /\ job' = Idle
    /\ UNCHANGED <<source, base, config, init, moved>>

\* The process dies, or the file system refuses the configuration file, which
\* is not handled: what was copied stays.
Stop ==
    /\ job # Idle
    /\ counts.failures < MaxFailures
    /\ counts' = [counts EXCEPT !.failures = @ + 1]
    /\ job' = Idle
    /\ UNCHANGED <<source, dest, base, config, init, moved>>

-----------------------------------------------------------------------------
(* config-init --from-cc-switch *)

InitConfig ==
    /\ init.step = "idle" /\ ~ config.exists
    /\ init' = [step |-> "writing", stale |-> FALSE]
    /\ UNCHANGED <<source, dest, base, config, job, moved, counts>>

PutConfig ==
    /\ init.step = "writing"
    /\ config' = [NoConfig EXCEPT !.exists = TRUE, !.webdav = TRUE]
    /\ init' = NoInit
    /\ UNCHANGED <<source, dest, base, job, moved, counts>>

\* load_webdav_settings: where the address of central comes from.
Settings ==
    IF ~ config.exists THEN "cc-switch"
    ELSE IF config.valid /\ config.webdav THEN "sidecar"
    ELSE "error"

-----------------------------------------------------------------------------
(* Users and the daemon *)

Others(s) ==
    /\ counts.edits < MaxEdits
    /\ counts' = [counts EXCEPT !.edits = @ + 1]
    /\ moved' = [when \in DOMAIN moved |-> moved[when] \cup {s}]
    /\ UNCHANGED <<dest, job>>

EditSource(s, v) ==
    /\ source' = [source EXCEPT ![s] = v]
    /\ Others(s)
    /\ UNCHANGED <<base, config, init>>

RecordBase(s) ==
    /\ base' = [base EXCEPT ![s] = source[s]]
    /\ Others(s)
    /\ UNCHANGED <<source, config, init>>

SpoilConfig(s) ==
    /\ config.exists
    /\ config' = [config EXCEPT !.valid = FALSE]
    /\ init' = [init EXCEPT !.stale = TRUE]
    /\ Others(s)
    /\ UNCHANGED <<source, base>>

Next ==
    \/ Migrate \/ (\E bad \in SUBSET Skills : CopyTree(bad)) \/ RenameStaging \/ Verify
    \/ ReadConfig \/ ReplaceConfig
    \/ Fail \/ Stop
    \/ InitConfig \/ PutConfig
    \/ \E s \in Skills :
          \/ \E v \in Content : EditSource(s, v)
          \/ RecordBase(s) \/ SpoilConfig(s)

Spec == Init /\ [][Next]_vars

-----------------------------------------------------------------------------
(* The inductive invariant, the first of its parts a property of its own *)

\* The root the configuration names is there, whatever fails and whenever the
\* migration dies (local_root.py:107-134).
ConfiguredRootExists == config.root = "new" => dest # NoDir

\* Until a migration ends, the configuration names the old root, and the new
\* one is as free as when it began until the staging is renamed to it.
StillOld == job # Idle => config.root = "old"
RoomTillRenamed == job.step \in {"copying", "renaming"} => dest \in {NoDir, Empty}

\* What was copied is as the old root or damaged, unless that skill changed.
Faithful(copy) ==
    /\ copy \in Copies
    /\ \A s \in Skills \ moved.copied : copy[s] \in {Damaged, source[s]}
CopyIsFaithful ==
    /\ job.step = "renaming" => Faithful(job.staging)
    /\ job.step \in {"verifying", "writing", "replacing"} => Faithful(dest)

\* What was compared has the old root's hashes and the decisions of before.
ComparedIsSame ==
    job.step \in {"writing", "replacing"} =>
        /\ dest = job.hashes
        /\ \A s \in Skills \ moved.compared : Outcome(dest)[s] = job.outcome[s]

\* config-init writes over a file only if that came after it looked.
InitSawNone == init.step = "writing" /\ ~ init.stale => ~ config.exists

RootInv ==
    /\ RootTypeOK /\ ConfiguredRootExists
    /\ StillOld /\ RoomTillRenamed /\ CopyIsFaithful /\ ComparedIsSame /\ InitSawNone

-----------------------------------------------------------------------------
(* Properties *)

\* When the configuration is switched, a skill is in the new root as in the
\* old one, unless it changed after the copy was taken, and the daemon's next
\* decision about it is what it was before the migration began, unless it
\* changed after the comparison (local_root.py:76-82).
SwitchKeepsContent ==
    [][config.root = "old" /\ config'.root = "new" =>
         \A s \in Skills \ moved.copied : dest[s] = source[s]]_vars
SwitchKeepsDecisions ==
    [][config.root = "old" /\ config'.root = "new" =>
         \A s \in Skills \ moved.compared : Outcome(dest)[s] = job.outcome[s]]_vars

\* A migration that fails by itself leaves nothing behind that would refuse
\* the next one (local_root.py:52, 117-121).
FailureLeavesRoom ==
    [][job # Idle /\ job' = Idle /\ config' = config /\ counts' = counts
         => dest' \in {NoDir, Empty}]_vars

\* Neither writer of the configuration file takes away what the other wrote,
\* unless the file changed after the migration read it, or came after
\* config-init had looked (config.py:185, 262-272).
ConfigKeepsSections ==
    [][config' # config /\ (IF job' # job THEN job.read = config ELSE ~ init.stale) =>
         /\ config.webdav => config'.webdav
         /\ config.root = "new" => config'.root = "new"]_vars

\* A configuration file that is there and wrong is never passed over in
\* silence (config.py:157-166).
WrongConfigIsAnError ==
    config.exists /\ (~ config.valid \/ ~ config.webdav) => Settings = "error"
=============================================================================
