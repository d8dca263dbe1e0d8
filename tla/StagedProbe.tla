----------------------------- MODULE StagedProbe -----------------------------
(***************************************************************************)
(* scripts/openclaw-sync-probe-py36.py: on a host too old for the sidecar   *)
(* the skill "sync-probe" is downloaded, staged, validated and put into the *)
(* live skill root, which users and tools go on using meanwhile.            *)
(***************************************************************************)
EXTENDS Naturals, FiniteSets

CONSTANTS
    Versions, Absent,
    Damaged,        \* what is not whole: a file is missing, cut short or changed
    Modes,          \* whether --yes-apply is given, a subset of BOOLEAN
    MaxProbes, MaxEdits, MaxFailures, MaxDeaths, MaxPublished

VARIABLES
    central,    \* what the index lists for sync-probe
    target,     \* the directory in the live root
    temp,       \* the probe's hidden copy beside it
    backups,    \* [probe -> what was moved to that probe's backup_root]
    records,    \* the apply records: [probe, previous]
    job,
    before,     \* history: what the probe found in the live root
    counts

vars == <<central, target, temp, backups, records, job, before, counts>>

Probes == 1..MaxProbes
Contents == Versions \cup {Damaged}
Idle == [step |-> "idle", apply |-> FALSE, want |-> Absent, staged |-> Absent,
         previous |-> FALSE, copied |-> FALSE, moved |-> FALSE]
Steps == {"idle", "fetch", "validate", "prepare", "copy", "check", "move",
          "rename", "final", "record"}

ProbeTypeOK ==
    /\ central \in Versions
    /\ target \in Versions \cup {Absent} /\ temp \in Contents \cup {Absent}
    /\ backups \in [Probes -> Versions \cup {Absent}]
    /\ records \subseteq [probe : Probes, previous : BOOLEAN]
    /\ job \in [step: Steps, apply: BOOLEAN, want: Versions \cup {Absent},
                staged: Contents \cup {Absent}, previous: BOOLEAN,
                copied: BOOLEAN, moved: BOOLEAN]
    /\ before \in Versions \cup {Absent}
    /\ counts \in [probes: 0..MaxProbes, edits: Nat, failures: Nat, deaths: Nat,
                   published: Nat]

Init ==
    /\ central \in Versions /\ target \in {Absent} \cup Versions
    /\ temp = Absent /\ backups = [p \in Probes |-> Absent] /\ records = {}
    /\ job = Idle /\ before = target
    /\ counts = [probes |-> 0, edits |-> 0, failures |-> 0, deaths |-> 0, published |-> 0]

This == counts.probes
To(step) == job' = [job EXCEPT !.step = step]

-----------------------------------------------------------------------------
(* main: index, archive, stage *)

\* The hidden copy's name carries the time: what an earlier probe left under
\* its own name stays, and nothing looks at it again.
Start(apply) ==
    /\ job = Idle /\ This < MaxProbes
    /\ counts' = [counts EXCEPT !.probes = @ + 1]
    /\ job' = [Idle EXCEPT !.step = "fetch", !.apply = apply, !.want = central]
    /\ before' = target /\ temp' = Absent
    /\ UNCHANGED <<central, target, backups, records>>

\* An archive lies under its content's hash: it is what the index listed, or damaged.
FetchArchive ==
    /\ job.step = "fetch"
    /\ \E got \in {job.want, Damaged} :
          job' = [job EXCEPT !.step = "validate", !.staged = got]
    /\ UNCHANGED <<central, target, temp, backups, records, before, counts>>

\* Every file the archive's manifest lists has its size and hash, and together
\* they have the hash the index gave.
\* mutant: only the files that are there are looked at
ValidLoosely(content) == content # Absent
Valid(content) == content = job.want

ValidateStaged ==
    /\ job.step = "validate"
    /\ Valid(job.staged)
    /\ job' = IF job.apply THEN [job EXCEPT !.step = "prepare"] ELSE Idle
    /\ UNCHANGED <<central, target, temp, backups, records, before, counts>>

-----------------------------------------------------------------------------
(* apply_staged_probe *)

Prepare ==
    /\ job.step = "prepare"
    /\ job' = [job EXCEPT !.step = "copy", !.previous = target # Absent]
    /\ UNCHANGED <<central, target, temp, backups, records, before, counts>>

\* A copy that breaks off leaves its part behind.
Copy ==
    /\ job.step = "copy"
    /\ temp' = job.staged
    /\ job' = [job EXCEPT !.step = "check", !.copied = TRUE]
    /\ UNCHANGED <<central, target, backups, records, before, counts>>

CheckCopy ==
    /\ job.step = "check" /\ Valid(temp)
    /\ To("move")
    /\ UNCHANGED <<central, target, temp, backups, records, before, counts>>

\* What was there when the probe looked is moved; what came since is not.
MoveExisting ==
    /\ job.step = "move"
    /\ IF job.previous
       THEN /\ target # Absent
            /\ backups' = [backups EXCEPT ![This] = target]
            /\ target' = Absent
       ELSE UNCHANGED <<target, backups>>
    /\ job' = [job EXCEPT !.step = "rename", !.moved = job.previous]
    /\ UNCHANGED <<central, temp, records, before, counts>>

\* A rename does not replace a directory that holds files.
\* mutant: what is in the way is removed first
InTheWayNever == FALSE
InTheWay == target # Absent

Rename ==
    /\ job.step = "rename" /\ ~ InTheWay
    /\ target' = temp /\ temp' = Absent
    /\ To("final")
    /\ UNCHANGED <<central, backups, records, before, counts>>

ValidateFinal ==
    /\ job.step = "final" /\ Valid(target)
    /\ To("record")
    /\ UNCHANGED <<central, target, temp, backups, records, before, counts>>

WriteRecord ==
    /\ job.step = "record"
    /\ records' = records \cup {[probe |-> This, previous |-> job.previous]}
    /\ job' = Idle
    /\ UNCHANGED <<central, target, temp, backups, before, counts>>

-----------------------------------------------------------------------------
(* What goes wrong *)

\* Where a step of the probe cannot be done.
Impossible ==
    \/ job.step = "validate" /\ ~ Valid(job.staged)
    \/ job.step = "check" /\ ~ Valid(temp)
    \/ job.step = "move" /\ job.previous /\ target = Absent
    \/ job.step = "rename" /\ InTheWay
    \/ job.step = "final" /\ ~ Valid(target)

InTry == {"copy", "check", "move", "rename", "final"}

\* mutant: only the copy is removed
RestoreNever == FALSE
Restore ==
    job.step \in InTry /\ job.moved /\ target = Absent /\ backups[This] # Absent

\* The except clause: the copy goes, what was moved comes back if its place is free.
GiveUp ==
    /\ temp' = IF job.step \in InTry /\ job.copied THEN Absent
               ELSE IF job.step = "copy" THEN Damaged ELSE temp
    /\ target' = IF Restore THEN backups[This] ELSE target
    /\ backups' = IF Restore THEN [backups EXCEPT ![This] = Absent] ELSE backups
    /\ job' = Idle
    /\ UNCHANGED <<central, records, before>>

Fails ==
    /\ Impossible
    /\ GiveUp /\ UNCHANGED counts

\* The network, the disk or a right fails at any step.
Fault ==
    /\ job # Idle /\ counts.failures < MaxFailures
    /\ counts' = [counts EXCEPT !.failures = @ + 1]
    /\ GiveUp

\* A probe that is killed cleans nothing up.
Die ==
    /\ job # Idle /\ counts.deaths < MaxDeaths
    /\ counts' = [counts EXCEPT !.deaths = @ + 1]
    /\ job' = Idle
    /\ UNCHANGED <<central, target, temp, backups, records, before>>

\* A user or another tool changes the skill in the live root.
Edit ==
    /\ counts.edits < MaxEdits
    /\ counts' = [counts EXCEPT !.edits = @ + 1]
    /\ target' \in Versions \cup {Absent} /\ target' # target
    /\ UNCHANGED <<central, temp, backups, records, job, before>>

Publish ==
    /\ counts.published < MaxPublished
    /\ counts' = [counts EXCEPT !.published = @ + 1]
    /\ central' \in Versions /\ central' # central
    /\ UNCHANGED <<target, temp, backups, records, job, before>>

Next ==
    \/ \E apply \in Modes : Start(apply)
    \/ FetchArchive \/ ValidateStaged
    \/ Prepare \/ Copy \/ CheckCopy \/ MoveExisting \/ Rename
    \/ ValidateFinal \/ WriteRecord
    \/ Fails \/ Fault \/ Die \/ Edit \/ Publish

Spec == Init /\ [][Next]_vars

-----------------------------------------------------------------------------
(* Properties *)

Edited == counts'.edits # counts.edits

\* The probe takes nothing out of the live root but into a backup, whatever a
\* user put there while it ran, and puts nothing in but what is whole
\* (scripts/openclaw-sync-probe-py36.py:184).
ProbeKeepsContent ==
    [][target' # target /\ ~ Edited =>
          /\ target # Absent => \E p \in Probes : backups'[p] = target
          /\ target' # Absent => target' \in Versions]_vars

\* After a failure the live root holds what it held, unless a user changed it;
\* or the new version, once it was in place, with the old one in the backup.  A
\* probe that was killed in between may leave the old one in the backup alone
\* (scripts/openclaw-sync-probe-py36.py:190).
FailurePutsBack ==
    [][job # Idle /\ job' = Idle /\ records' = records /\ counts.edits = 0 =>
          \/ target' = before
          \/ /\ backups'[This] = before
             /\ target' = job.want \/ counts'.deaths # counts.deaths]_vars

\* A record says truly whether something was replaced, and where it did the
\* backup has it (scripts/openclaw-sync-probe-py36.py:199).
RecordNamesBackup ==
    \A r \in records : r.previous <=> backups[r.probe] # Absent

-----------------------------------------------------------------------------
(* Why they hold *)

\* The probe's steps: what it wants is a version, and what it puts in the live
\* root it has checked.
ProbeIsSound ==
    /\ job.step = "idle" => job = Idle
    /\ job.step # "idle" => This \in Probes /\ job.want \in Versions
    /\ job.step \in {"prepare", "copy", "check", "move", "rename"} => job.staged = job.want
    /\ job.step \in {"move", "rename"} => temp = job.want

\* This probe's backup holds something exactly if the probe moved it there, and
\* backups of later probes are empty.
BackupIsMoved ==
    /\ RecordNamesBackup
    /\ \A p \in Probes : p > This => backups[p] = Absent
    /\ \A r \in records : r.probe <= This /\ (job.step # "idle" => r.probe # This)
    /\ job.step # "idle" => (job.moved <=> backups[This] # Absent)
    /\ job.step \in {"fetch", "validate", "prepare", "copy", "check", "move"} => ~ job.moved
    /\ job.step \in {"rename", "final", "record"} => (job.moved <=> job.previous)

\* As long as no user changed anything, what the probe found is where it was, or
\* in the backup.
FoundIsThere ==
    counts.edits = 0 =>
        /\ job.step \in {"fetch", "validate", "prepare", "copy", "check", "move"} =>
              target = before
        /\ job.step \in {"copy", "check", "move"} => (job.previous <=> before # Absent)
        /\ job.step \in {"rename", "final", "record"} => backups[This] = before
        /\ job.step = "rename" => target = Absent
        /\ job.step \in {"final", "record"} => target = job.want

ProbeInv == ProbeTypeOK /\ ProbeIsSound /\ BackupIsMoved /\ FoundIsThere
=============================================================================
