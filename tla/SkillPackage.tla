----------------------------- MODULE SkillPackage -----------------------------
(***************************************************************************)
(* What a skill is on a disk.  SkillSync.tla takes a root for a function    *)
(* from skill ids to contents; here a root is a tree of directories that    *)
(* scanner.py walks: it decides which directories are skills, what they are *)
(* called and which of their files count.  Others publish packages; the     *)
(* device pulls and pushes; and before a first writing cycle an operator    *)
(* takes an inventory of the device (remote-inventory-py36.py, an older     *)
(* copy of the scanner), compares it with central (reconcile.py) and lets a *)
(* gate (openclaw_gate.py) decide whether a rehearsal may run.              *)
(***************************************************************************)
EXTENDS Naturals, FiniteSets, Sequences, SequencesExt

CONSTANTS
    Packages,       \* what a skill directory may hold; see Directories
    Places,         \* the paths where the device's user puts packages
    Normal,         \* normalize_skill_id: what becomes of a name
    IdOrder,        \* the ids in their sorting order, a sequence
    NoName, Absent,
    InitialRoots, InitialCentrals,
    Modes,          \* how a daemon runs: [policy, allowNew], a set
    MaxEdits, MaxPublished, MaxCycles, MaxReports

VARIABLES
    root,       \* [path -> directory], every directory that is there
    central,    \* the entries of the central index, a set of Scan's entries
    base,       \* the entries of the base record
    mode,
    inventory,  \* the inventory last taken, or Absent
    reports,    \* the reconcile reports, oldest first
    allowedBy,  \* history: the report that let the last cycle run, a rehearsal
    counts

vars == <<root, central, base, mode, inventory, reports, allowedBy, counts>>

\* A path is a sequence of names; a directory is a function from the files that
\* lie in it: SKILL.md to its front matter and text, manifest.json to the id it
\* gives and the files it excludes, another file to its version.
BACKUPS == ".skill-sync-backups"
DEFAULT_EXCLUDED_DIRS == {BACKUPS, ".skill-sync-bases", ".git", "logs"}
DEFAULT_EXCLUDED_FILES == {".env", "id_rsa", "notes.bak"}

\* The inventory's copy of the list lacks what editors leave behind.
EXCLUDED_FILES_PY36 == DEFAULT_EXCLUDED_FILES \ {"notes.bak"}

-----------------------------------------------------------------------------
(* scanner.py: which files count, what a skill is called *)

ParseManifest(dir) ==
    IF "manifest.json" \in DOMAIN dir THEN dir["manifest.json"]
    ELSE [id |-> NoName, exclude |-> {}]

IsExcluded(file, dir) == file \in ParseManifest(dir).exclude
IsDefaultExcluded(file) == file \in DEFAULT_EXCLUDED_FILES
IsDefaultExcludedPy36(file) == file \in EXCLUDED_FILES_PY36

SkillFiles(dir) ==
    {f \in DOMAIN dir : ~ IsDefaultExcluded(f) /\ ~ IsExcluded(f, dir)}
SkillFilesPy36(dir) ==
    {f \in DOMAIN dir : ~ IsDefaultExcludedPy36(f) /\ ~ IsExcluded(f, dir)}

\* The hash of a skill and its archive stand for these files and no others.
Content(dir) == Restrict(dir, SkillFiles(dir))
ContentPy36(dir) == Restrict(dir, SkillFilesPy36(dir))

FrontMatterName(dir) == dir["SKILL.md"].name
NameOf(path, dir) ==
    IF ParseManifest(dir).id # NoName THEN ParseManifest(dir).id
    ELSE IF FrontMatterName(dir) # NoName THEN FrontMatterName(dir)
    ELSE Last(path)
IdOf(path, dir) == Normal[NameOf(path, dir)]

\* mutant: the walk goes into the sidecar's own directories
DiscoveredEverywhere(r) == {p \in DOMAIN r : "SKILL.md" \in DOMAIN r[p]}
Discovered(r) ==
    {p \in DOMAIN r : /\ "SKILL.md" \in DOMAIN r[p]
                      /\ ToSet(p) \cap DEFAULT_EXCLUDED_DIRS = {}}

\* A nested skill is an entry of its own and no part of the one around it.
Entry(path, dir, content) == [id |-> IdOf(path, dir), path |-> path, content |-> content]
Scan(r) == {Entry(p, r[p], Content(r[p])) : p \in Discovered(r)}
Inventory(r) == {Entry(p, r[p], ContentPy36(r[p])) : p \in Discovered(r)}

Unique(entries) == \A d, e \in entries : d.id = e.id => d = e
Ids(entries) == {e.id : e \in entries}
\* The content an index, a scan or a record gives an id.
ContentOf(entries, id) ==
    IF id \in Ids(entries) THEN (CHOOSE e \in entries : e.id = id).content ELSE Absent

-----------------------------------------------------------------------------
(* The three-way decision, with contents for versions *)

Contents == {Content(d) : d \in Packages}
D == INSTANCE SyncDecision WITH Versions <- Contents, Shared <- [c \in Contents |-> c]

PlanAction(id, how) ==
    D!ApplyWriterPolicy(
        D!PlanItem(D!Classify(ContentOf(base, id), ContentOf(Scan(root), id),
                              ContentOf(central, id), FALSE),
                   how.allowNew, FALSE),
        how.policy)

AllIds == Ids(base) \cup Ids(Scan(root)) \cup Ids(central)
Planned(actions, how) == {id \in AllIds : PlanAction(id, how) \in actions}

\* A cycle that finds an id twice stops with an error; one with a blocked skill
\* executes nothing.
Executes(how) ==
    /\ Unique(Scan(root)) /\ Unique(central) /\ Unique(base)
    /\ Planned({"blocked"}, how) = {}
Pulled(how) == IF Executes(how) THEN Planned(D!PULL_ACTIONS, how) ELSE {}
Pushed(how) == IF Executes(how) THEN Planned(D!PUSH_ACTIONS, how) ELSE {}

-----------------------------------------------------------------------------
(* apply.py: a package takes the place of the directory its id names *)

Under(r, path) == {p \in DOMAIN r : IsPrefix(path, p)}
Moved(r, from, to) ==
    [p \in {to \o SubSeq(q, Len(from) + 1, Len(q)) : q \in Under(r, from)} |->
        r[from \o SubSeq(p, Len(to) + 1, Len(p))]]
BackupPath(path) == <<BACKUPS, ToString(counts.cycles)>> \o path

\* The whole directory goes to the backup, what does not count in it included.
\* mutant: only what counts as the skill is kept
SavedAsScanned(r, path) ==
    LET saved == Moved(r, path, BackupPath(path))
    IN  [p \in {q \in DOMAIN saved : q = BackupPath(path)} |-> Content(saved[p])]
Saved(r, path) == Moved(r, path, BackupPath(path))

ApplyItem(r, id) ==
    LET path == <<id>>
        rest == Restrict(r, DOMAIN r \ Under(r, path))
    IN  (path :> ContentOf(central, id)) @@ rest @@ Saved(r, path)

ApplyAll(r, ids) ==
    FoldLeft(LAMBDA done, id : IF id \in ids THEN ApplyItem(done, id) ELSE done,
             r, IdOrder)

\* One cycle; SkillSync.tla has what may happen between its steps.  The apply
\* record of a cycle that only pulls becomes the base, with those skills alone;
\* a push writes the index anew from a scan, and that index is the base.
RunCycle(how) ==
    LET after == ApplyAll(root, Pulled(how)) IN
    /\ counts.cycles < MaxCycles
    /\ counts' = [counts EXCEPT !.cycles = @ + 1]
    /\ root' = after
    /\ IF Pushed(how) # {}
       THEN central' = Scan(after) /\ base' = Scan(after)
       ELSE /\ UNCHANGED central
            /\ base' = IF Pulled(how) = {} THEN base
                       ELSE {e \in central : e.id \in Pulled(how)}
    /\ UNCHANGED <<mode, inventory, reports>>

Cycle == RunCycle(mode) /\ allowedBy' = Absent

-----------------------------------------------------------------------------
(* Users and other devices *)

Edit(path, dir) ==
    /\ counts.edits < MaxEdits
    /\ counts' = [counts EXCEPT !.edits = @ + 1]
    /\ root' = (path :> dir) @@ root
    /\ root' # root
    /\ UNCHANGED <<central, base, mode, inventory, reports, allowedBy>>

\* Another device publishes what it holds in a directory of this name.
Publish(name, dir) ==
    LET new == Entry(<<name>>, dir, Content(dir)) IN
    /\ counts.published < MaxPublished
    /\ new \notin central
    /\ counts' = [counts EXCEPT !.published = @ + 1]
    /\ central' = {e \in central : e.id # new.id} \cup {new}
    /\ UNCHANGED <<root, base, mode, inventory, reports, allowedBy>>

-----------------------------------------------------------------------------
(* openclaw-reconcile-readonly.sh: inventory, then the comparison *)

TakeInventory ==
    /\ Len(reports) < MaxReports
    /\ inventory' = [skills |-> Inventory(root)]
    /\ inventory' # inventory
    /\ UNCHANGED <<root, central, base, mode, reports, allowedBy, counts>>

\* mutant: two contents of one skill are taken for the same
StatusByIdOnly(local, remote, id) ==
    IF id \notin Ids(remote) THEN "local_new"
    ELSE IF id \notin Ids(local) THEN "remote_new"
    ELSE "same_without_base"
ReconcileStatus(local, remote, id) ==
    IF id \notin Ids(remote) THEN "local_new"
    ELSE IF id \notin Ids(local) THEN "remote_new"
    ELSE IF ContentOf(local, id) = ContentOf(remote, id) THEN "same_without_base"
    ELSE "conflict"

\* An earlier inventory may be given to show what changed since; ids that are
\* new or gone do not count as changed.
Changed(previous, local) ==
    {id \in Ids(previous) \cap Ids(local) :
        ContentOf(previous, id) # ContentOf(local, id)}

BuildReport(previous) ==
    LET local == inventory.skills IN
    /\ inventory # Absent /\ Len(reports) < MaxReports
    /\ Unique(local) /\ Unique(central) /\ Unique(previous)
    /\ reports' = Append(reports,
           [local |-> local, remote |-> central,
            summary |-> [id \in Ids(local) \cup Ids(central) |->
                            ReconcileStatus(local, central, id)],
            changed |-> Changed(previous, local)])
    /\ inventory' = Absent
    /\ UNCHANGED <<root, central, base, mode, allowedBy, counts>>

Reconcile ==
    \/ BuildReport({})
    \/ \E i \in DOMAIN reports : BuildReport(reports[i].local)

-----------------------------------------------------------------------------
(* openclaw-writable-rehearsal.sh: the gate, then one cycle that only pulls *)

\* require_complete: skills the device does not have block as well.
Blockers(report) ==
    {id \in DOMAIN report.summary :
        report.summary[id] \in {"conflict", "local_new", "remote_new"}}
    \cup report.changed

GatePasses(report) == Blockers(report) = {}

\* A report is named, or the newest is taken; where there is none the gate passes.
NoReport == [local |-> {}, remote |-> {}, summary |-> <<>>, changed |-> {}]
Selectable == IF reports = <<>> THEN {NoReport} ELSE ToSet(reports)
RehearsalMode == [policy |-> "pull-only", allowNew |-> FALSE]
Rehearse ==
    \E report \in Selectable :
        /\ GatePasses(report)
        /\ RunCycle(RehearsalMode)
        /\ allowedBy' = report

-----------------------------------------------------------------------------

Init ==
    /\ root \in InitialRoots /\ central \in InitialCentrals
    /\ base \in {{}, central}
    /\ mode \in Modes
    /\ inventory = Absent /\ reports = <<>> /\ allowedBy = Absent
    /\ counts = [edits |-> 0, published |-> 0, cycles |-> 0]

Next ==
    \/ Cycle
    \/ \E p \in Places, d \in Packages : Edit(p, d)
    \/ \E id \in ToSet(IdOrder), d \in Packages : Publish(id, d)
    \/ TakeInventory
    \/ Reconcile
    \/ Rehearse

Spec == Init /\ [][Next]_vars

-----------------------------------------------------------------------------
(* Properties *)

\* What is on the disk is a tree of packages, or of what the scanner takes from
\* them; entries and reports are a scan's.
PackagesTypeOK ==
    /\ \A p \in DOMAIN root : root[p] \in Packages \cup Contents
    /\ \A e \in central \cup base : e.id \in ToSet(IdOrder) /\ e.content \in Contents
    /\ inventory = Absent \/ Ids(inventory.skills) \subseteq ToSet(IdOrder)
    /\ \A i \in DOMAIN reports : reports[i].changed \subseteq DOMAIN reports[i].summary

CycleRan == counts'.cycles # counts.cycles
PulledNow == Pulled(IF allowedBy' = Absent THEN mode ELSE RehearsalMode)

\* A published package that excludes its own manifest or its SKILL.md is called
\* something else where it is installed.
SelfNamed(id) ==
    LET content == ContentOf(central, id)
    IN  "SKILL.md" \in DOMAIN content /\ IdOf(<<id>>, content) = id

InPulledDirectory(path) == \E id \in PulledNow : IsPrefix(<<id>>, path)

\* A cycle does on the disk what was decided for the ids: the scanner finds
\* every pulled skill at the directory of its id with the published content,
\* and every other skill as it was, unless it lay in a directory that was
\* replaced (scanner.py:153, sync_apply.py:209, apply.py:333).
CycleFollowsPlan ==
    [][CycleRan =>
        /\ \A id \in PulledNow : SelfNamed(id) =>
               [id |-> id, path |-> <<id>>, content |-> ContentOf(central, id)]
                   \in Scan(root')
        /\ \A e \in Scan(root) : e \in Scan(root') \/ InPulledDirectory(e.path)
        /\ \A e \in Scan(root') : e \in Scan(root) \/ e.path \in {<<id>> : id \in PulledNow}
      ]_vars

\* What a cycle removes from the disk is in the backup of that cycle: nested
\* skills and files that never count as skill content, such as .env, as well
\* (apply.py:353).
RemovedIsSaved ==
    [][CycleRan => \A p \in DOMAIN root :
          \/ p \in DOMAIN root' /\ root'[p] = root[p]
          \/ InPulledDirectory(p) /\ root'[BackupPath(p)] = root[p]]_vars

\* Where skills lie in directories of their ids no cycle makes an id ambiguous,
\* on the disk or in the index: the next cycle of every device would stop with
\* "duplicate skill ids" (sync_state.py:318, sync_apply.py:209).
StaysUnambiguous ==
    [][/\ CycleRan /\ Unique(Scan(root)) /\ Unique(central)
       /\ \A id \in PulledNow : SelfNamed(id)
       /\ \A e \in Scan(root) : e.id \in PulledNow => e.path = <<e.id>>
       => Unique(Scan(root')) /\ Unique(central')]_vars

\* What a rehearsal pulls, the report that let it pass did not show: central or
\* the device has changed since (openclaw_gate.py:79, reconcile.py:61,
\* scripts/remote-inventory-py36.py:206).
RehearsalWritesOnlyNews ==
    [][CycleRan /\ allowedBy' # Absent => \A id \in PulledNow :
          \/ ContentOf(central, id) # ContentOf(allowedBy'.remote, id)
          \/ ContentOf(Scan(root), id) # ContentOf(allowedBy'.local, id)]_vars
=============================================================================
