---------------------------- MODULE LegacyMigration ----------------------------
(***************************************************************************)
(* legacy_skillshub_migration.py: tools that hold symbolic links into the  *)
(* legacy ~/.skillshub get copies of the central version instead, where    *)
(* the two are the same.  Link after link is saved, unlinked and replaced; *)
(* the record is rewritten after each one.  A failure undoes what was      *)
(* done, and a completed migration can be rolled back.                     *)
(***************************************************************************)
EXTENDS Naturals, Sequences, SequencesExt

CONSTANTS
    Tools, Skills, Versions, Absent,
    Declared,       \* Declared[s]: tools the central manifest names
    InitialLegacy,  \* [Skills -> Versions]: the legacy directories
    InitialSnapshots, \* what the copy of the central snapshot holds, a set
    InitialEntries, \* what the tools hold at first, a set
    MaxMigrations, MaxEdits, MaxFailures

VARIABLES
    entry,      \* [Places -> Entry]: what each tool holds of each skill
    legacy,     \* the legacy directories
    snapshot,   \* the local copy of the central snapshot
    saved,      \* the saved links, one directory for all migrations
    records,    \* the migrations' records
    job,        \* the migration or rollback under way
    before,     \* history: the entries when the job began
    moved,      \* history: places, skills others changed since, or since the
                \* rollback under way compared them
    counts

vars == <<entry, legacy, snapshot, saved, records, job, before, moved, counts>>

Places == Tools \X Skills
Ids == 1..MaxMigrations
Dir(v) == [kind |-> "dir", content |-> v]
Link(to) == [kind |-> to, content |-> Absent]
Dirs == {Dir(v) : v \in Versions}
Links == {Link("legacy"), Link("elsewhere")}
Entry == {Absent} \cup Links \cup Dirs
IsLink(e) == e \in Links

Idle == [id |-> 0, step |-> "idle", ids |-> {}, todo |-> {}, place |-> Absent,
         verified |-> [s \in Skills |-> Absent],
         staged |-> [s \in Skills |-> Absent], left |-> <<>>, errors |-> FALSE]
NoRecord == [status |-> "none", applied |-> <<>>]

Contents == Versions \cup {Absent}
Migrated == [place: Places, content: Versions]
Record == [status: {"none", "running", "complete", "rolled_back_after_failure", "failed"},
           applied: Seq(Migrated)]
Job == [id: {0} \cup Ids,
        step: {"idle", "staging", "links", "unlink", "rename", "record",
               "undoing", "rollback", "removing", "relink"},
        ids: SUBSET Skills, todo: SUBSET Places, place: Places \cup {Absent},
        verified: [Skills -> Contents], staged: [Skills -> Contents],
        left: Seq(Migrated), errors: BOOLEAN]
Counts == [migrations: {0} \cup Ids, edits: 0..MaxEdits, failures: 0..MaxFailures]

LegacyTypeOK ==
    /\ entry \in [Places -> Entry] /\ before \in [Places -> Entry]
    /\ legacy \in [Skills -> Versions]
    /\ snapshot \in [Skills -> Contents]
    /\ saved \in [Places -> {Absent} \cup Links]
    /\ records \in [Ids -> Record]
    /\ job \in Job
    /\ moved \subseteq Places \cup Skills
    /\ counts \in Counts

Init ==
    /\ entry \in InitialEntries
    /\ legacy = InitialLegacy /\ snapshot \in InitialSnapshots
    /\ saved = [p \in Places |-> Absent]
    /\ records = [id \in Ids |-> NoRecord]
    /\ job = Idle
    /\ before = entry /\ moved = {}
    /\ counts = [migrations |-> 0, edits |-> 0, failures |-> 0]

-----------------------------------------------------------------------------
(* The preview: which links may be replaced *)

\* mutant: the central version is not compared
CentralStateUnread(s) == IF snapshot[s] = Absent THEN "missing" ELSE "match"
CentralState(s) == IF snapshot[s] = Absent THEN "missing"
                   ELSE IF snapshot[s] = legacy[s] THEN "match"
                   ELSE "changed"

Detachable(s) == {p \in Places : /\ p[2] = s
                                 /\ entry[p] = Link("legacy")
                                 /\ CentralState(s) = "match"
                                 /\ p[1] \in Declared[s]}
Planned(ids) == UNION {Detachable(s) : s \in ids}

-----------------------------------------------------------------------------
(* The migration *)

Migrate(ids) ==
    LET id == counts.migrations + 1 IN
    /\ job = Idle /\ id \in Ids
    /\ ids # {} /\ \A s \in ids : Detachable(s) # {}
    /\ counts' = [counts EXCEPT !.migrations = id]
    /\ records' = [records EXCEPT ![id].status = "running"]
    /\ job' = [Idle EXCEPT !.id = id, !.step = "staging", !.ids = ids,
                           !.todo = Planned(ids),
                           !.verified = snapshot]
    /\ before' = entry /\ moved' = {}
    /\ UNCHANGED <<entry, legacy, snapshot, saved>>

\* stage_snapshot unpacks what the snapshot holds by now.
Stage ==
    /\ job.step = "staging"
    /\ \A p \in job.todo : snapshot[p[2]] # Absent
    /\ job' = [job EXCEPT !.step = "links", !.staged = snapshot]
    /\ UNCHANGED <<entry, legacy, snapshot, saved, records, before, moved, counts>>

Applied == records[job.id].applied

\* _replace_legacy_link: what is there must still be a link, of any kind, and
\* no migration may have saved a link of that place before.
Kept(p) == entry[p]

SaveLink(p) ==
    /\ job.step = "links" /\ p \in job.todo
    /\ IsLink(entry[p]) /\ saved[p] = Absent
    /\ saved' = [saved EXCEPT ![p] = Kept(p)]
    /\ job' = [job EXCEPT !.place = p, !.step = "unlink"]
    /\ UNCHANGED <<entry, legacy, snapshot, records, before, moved, counts>>

Unlink ==
    /\ job.step = "unlink"
    /\ IsLink(entry[job.place])
    /\ entry' = [entry EXCEPT ![job.place] = Absent]
    /\ job' = [job EXCEPT !.step = "rename"]
    /\ UNCHANGED <<legacy, snapshot, saved, records, before, moved, counts>>

Rename ==
    /\ job.step = "rename"
    /\ entry[job.place] = Absent
    /\ entry' = [entry EXCEPT ![job.place] = Dir(job.staged[job.place[2]])]
    /\ job' = [job EXCEPT !.step = "record"]
    /\ UNCHANGED <<legacy, snapshot, saved, records, before, moved, counts>>

Item == [place |-> job.place, content |-> job.verified[job.place[2]]]

RecordLink ==
    /\ job.step = "record"
    /\ records' = [records EXCEPT ![job.id].applied = Append(@, Item)]
    /\ job' = [job EXCEPT !.step = "links", !.todo = @ \ {job.place},
                          !.place = Absent]
    /\ UNCHANGED <<entry, legacy, snapshot, saved, before, moved, counts>>

AllReplaced == job.todo = {}

Complete ==
    /\ job.step = "links" /\ AllReplaced
    /\ records' = [records EXCEPT ![job.id].status = "complete"]
    /\ job' = Idle
    /\ UNCHANGED <<entry, legacy, snapshot, saved, before, moved, counts>>

-----------------------------------------------------------------------------
(* Failure: the exception handler puts the current link back where nothing  *)
(* is, then the applied ones, backwards.                                    *)

\* A step the environment makes impossible fails without a fault.
Impossible ==
    \/ job.step = "staging" /\ \E p \in job.todo : snapshot[p[2]] = Absent
    \/ job.step = "links" /\ \E p \in job.todo :
                                ~ IsLink(entry[p]) \/ saved[p] # Absent
    \/ job.step = "unlink" /\ ~ IsLink(entry[job.place])
    \/ job.step = "rename" /\ entry[job.place] # Absent

PutBack == IF job.step = "rename" /\ entry[job.place] = Absent
           THEN [entry EXCEPT ![job.place] = saved[job.place]]
           ELSE entry

Fail ==
    /\ job.step \in {"staging", "links", "unlink", "rename", "record"}
    /\ \/ Impossible /\ counts' = counts
       \/ /\ counts.failures < MaxFailures
          /\ counts' = [counts EXCEPT !.failures = @ + 1]
    /\ entry' = PutBack
    /\ job' = [job EXCEPT !.step = "undoing",
                          !.left = IF job.step = "record" THEN Append(Applied, Item)
                                   ELSE Applied]
    /\ UNCHANGED <<legacy, snapshot, saved, records, before, moved>>

\* Whatever is at the target now is removed before the saved link is read.
UndoApplied ==
    /\ job.step = "undoing" /\ job.left # <<>>
    /\ LET p == Last(job.left).place IN
          /\ entry' = [entry EXCEPT ![p] = saved[p]]
          /\ job' = [job EXCEPT !.left = Front(@),
                                !.errors = @ \/ saved[p] = Absent]
    /\ UNCHANGED <<legacy, snapshot, saved, records, before, moved, counts>>

UndoEnds ==
    /\ job.step = "undoing" /\ job.left = <<>>
    /\ records' = [records EXCEPT ![job.id].status =
          IF job.errors THEN "failed" ELSE "rolled_back_after_failure"]
    /\ job' = Idle
    /\ UNCHANGED <<entry, legacy, snapshot, saved, before, moved, counts>>

-----------------------------------------------------------------------------
(* rollback_legacy_skillshub_migration: only of a completed migration; an    *)
(* item that does not hold what was verified stops it where it is.          *)

Rollback(id) ==
    /\ job = Idle
    /\ records[id].status = "complete"
    /\ job' = [Idle EXCEPT !.id = id, !.step = "rollback",
                           !.left = records[id].applied]
    /\ before' = entry /\ moved' = {}
    /\ UNCHANGED <<entry, legacy, snapshot, saved, records, counts>>

Unchanged(item) == entry[item.place] = Dir(item.content)

CheckMigrated ==
    /\ job.step = "rollback" /\ job.left # <<>>
    /\ saved[Last(job.left).place] # Absent
    /\ Unchanged(Last(job.left))
    /\ moved' = moved \ {Last(job.left).place}
    /\ job' = [job EXCEPT !.step = "removing"]
    /\ UNCHANGED <<entry, legacy, snapshot, saved, records, before, counts>>

\* What is there by now is removed, be it what was compared or not.
RemoveMigrated ==
    /\ job.step = "removing"
    /\ entry' = [entry EXCEPT ![Last(job.left).place] = Absent]
    /\ job' = [job EXCEPT !.step = "relink"]
    /\ UNCHANGED <<legacy, snapshot, saved, records, before, moved, counts>>

Relink ==
    /\ job.step = "relink"
    /\ LET p == Last(job.left).place IN
          /\ entry[p] = Absent
          /\ entry' = [entry EXCEPT ![p] = saved[p]]
    /\ job' = [job EXCEPT !.step = "rollback", !.left = Front(@)]
    /\ UNCHANGED <<legacy, snapshot, saved, records, before, moved, counts>>

RollbackStops ==
    /\ \/ job.step = "rollback" /\ job.left # <<>> /\ ~ Unchanged(Last(job.left))
       \/ job.step = "relink" /\ entry[Last(job.left).place] # Absent
    /\ job' = Idle
    /\ UNCHANGED <<entry, legacy, snapshot, saved, records, before, moved, counts>>

RollbackEnds ==
    /\ job.step = "rollback" /\ job.left = <<>>
    /\ job' = Idle
    /\ UNCHANGED <<entry, legacy, snapshot, saved, records, before, moved, counts>>

-----------------------------------------------------------------------------
(* Everybody else *)

Crash ==
    /\ job # Idle
    /\ counts.failures < MaxFailures
    /\ counts' = [counts EXCEPT !.failures = @ + 1]
    /\ job' = Idle
    /\ UNCHANGED <<entry, legacy, snapshot, saved, records, before, moved>>

Others(what) ==
    /\ counts.edits < MaxEdits
    /\ counts' = [counts EXCEPT !.edits = @ + 1]
    /\ moved' = moved \cup what
    /\ UNCHANGED <<saved, records, job, before>>

EditEntry(p, e) ==
    /\ entry' = [entry EXCEPT ![p] = e]
    /\ Others({p})
    /\ UNCHANGED <<legacy, snapshot>>

EditLegacy(s, v) ==
    /\ legacy' = [legacy EXCEPT ![s] = v]
    /\ Others({s})
    /\ UNCHANGED <<entry, snapshot>>

Refresh(s, v) ==
    /\ snapshot' = [snapshot EXCEPT ![s] = v]
    /\ Others({s})
    /\ UNCHANGED <<entry, legacy>>

Next ==
    \/ \E ids \in SUBSET Skills : Migrate(ids)
    \/ \E p \in Places : SaveLink(p)
    \/ Stage \/ Unlink \/ Rename \/ RecordLink \/ Complete
    \/ Fail \/ UndoApplied \/ UndoEnds
    \/ \E id \in Ids : Rollback(id)
    \/ CheckMigrated \/ RemoveMigrated \/ Relink \/ RollbackStops \/ RollbackEnds
    \/ Crash
    \/ \E p \in Places, e \in Entry : EditEntry(p, e)
    \/ \E s \in Skills, v \in Versions : EditLegacy(s, v) \/ Refresh(s, v)

Spec == Init /\ [][Next]_vars

-----------------------------------------------------------------------------
(* The inductive invariant *)

AtHand == job.step \in {"unlink", "rename", "record"}
Migrating == AtHand \/ job.step \in {"staging", "links"}
PlacesOf(items) == {items[i].place : i \in DOMAIN items}

\* A job has an identity and is at a place of its list, where its last step is
\* still to be seen unless somebody came in between.
JobIsSound ==
    /\ job.step = "idle" <=> job = Idle
    /\ job # Idle => job.id \in Ids
    /\ AtHand => job.place \in job.todo
    /\ job.step = "rename" => entry[job.place] = Absent \/ job.place \in moved
    /\ job.step = "record" => entry[job.place] \in Dirs \/ job.place \in moved
    /\ job.step \in {"removing", "relink"} => job.left # <<>>
    /\ job.step = "removing" => \/ Unchanged(Last(job.left))
                                \/ Last(job.left).place \in moved

\* What will replace a link is the version that was compared with the legacy
\* directory, unless one of them changed.
ReplacesTheSame ==
    Migrating => \A p \in job.todo :
        LET new == IF job.step = "staging" THEN snapshot ELSE job.staged IN
        /\ job.verified[p[2]] \in Versions
        /\ job.step # "staging" => new[p[2]] \in Versions
        /\ p[2] \in moved \/ new[p[2]] = legacy[p[2]]

\* The link of every place that was replaced, or is being, is saved.
LinksAreSaved ==
    /\ \A id \in Ids : \A p \in PlacesOf(records[id].applied) : IsLink(saved[p])
    /\ AtHand => IsLink(saved[job.place])
    /\ job.step = "undoing" => \A p \in PlacesOf(job.left) : IsLink(saved[p])

\* What was touched can be put back as it was; what was not is as it was.
Touched == IF job.step = "undoing" THEN PlacesOf(job.left)
           ELSE PlacesOf(Applied)
                \cup (IF job.step \in {"rename", "record"} THEN {job.place} ELSE {})
Undoable ==
    Migrating \/ job.step = "undoing" => \A p \in Places \ moved :
        /\ p \in Touched => saved[p] = before[p]
        /\ p \notin Touched => entry[p] = before[p]
        /\ job.step = "unlink" /\ p = job.place
              => saved[p] = before[p] /\ entry[p] = before[p]

\* A rollback goes through what its record says was applied.
LeftIsRecorded ==
    job.step \in {"rollback", "removing", "relink"} =>
        \A i \in DOMAIN job.left : \E j \in DOMAIN Applied : job.left[i] = Applied[j]

\* Of the chosen skills every link that may go is on the list, or is gone.
ListIsWhole ==
    Migrating => \A p \in Places \ moved :
        /\ p[2] \in job.ids \ moved
        /\ p[1] \in Declared[p[2]]
        /\ before[p] = Link("legacy")
        => p \in job.todo \/ entry[p] \in Dirs

\* The next migration's record is empty.
NextIsFresh ==
    /\ job # Idle => job.id <= counts.migrations
    /\ \A id \in Ids : id > counts.migrations => records[id] = NoRecord

LegacyInv ==
    /\ LegacyTypeOK /\ JobIsSound /\ ReplacesTheSame /\ NextIsFresh
    /\ LinksAreSaved /\ Undoable /\ LeftIsRecorded /\ ListIsWhole

-----------------------------------------------------------------------------
(* Properties *)

\* A migration changes how a tool gets a skill, never what it gets: the copy
\* that replaces a link is what the link led to, as long as nobody changes
\* the legacy directory, the snapshot or the link while it runs
\* (legacy_skillshub_migration.py:388-405, 423-439).
MigrationKeepsContent ==
    [][\A p \in Places :
         job.step = "rename" /\ job'.step = "record" /\ p = job.place
         /\ {p, p[2]} \cap moved = {}
            => entry'[p] = Dir(legacy[p[2]])]_vars

\* A migration that reports itself rolled back after a failure left every
\* tool as it found it, however many links it had replaced
\* (legacy_skillshub_migration.py:243-258, 511-524).
FailureUndone ==
    [][\A id \in Ids :
         records[id].status = "running"
         /\ records'[id].status = "rolled_back_after_failure"
            => \A p \in Places \ moved : entry'[p] = before[p]]_vars

\* Wherever a migration or a rollback stops, a link it took away is saved.
LinkIsSaved ==
    [][\A p \in Places :
         job # Idle /\ counts'.edits = counts.edits
         /\ IsLink(entry[p]) /\ ~ IsLink(entry'[p])
            => saved[p] = entry[p] \/ p \in moved]_vars

\* A rollback removes no directory whose content is not the central version
\* it was migrated to, unless somebody changed it between the comparison and
\* the removal (legacy_skillshub_migration.py:282-287).
RollbackSparesEdits ==
    [][\A p \in Places :
         job.step = "removing" /\ entry[p] \in Dirs /\ entry'[p] = Absent
         /\ counts'.edits = counts.edits
            => \/ p \in moved
               \/ \E i \in DOMAIN records[job.id].applied :
                     LET item == records[job.id].applied[i] IN
                     item.place = p /\ entry[p] = Dir(item.content)]_vars

\* A migration that completed replaced every link of the selected skills that
\* its preview called detachable (legacy_skillshub_migration.py:213-242).
CompleteIsWhole ==
    [][\A id \in Ids :
         records[id].status = "running" /\ records'[id].status = "complete"
            => \A p \in Places \ moved :
                  /\ p[2] \in job.ids \ moved
                  /\ p[1] \in Declared[p[2]]
                  /\ before[p] = Link("legacy")
                  => entry[p] \in Dirs]_vars
=============================================================================
