---------------------------- MODULE ReviewMaterial ----------------------------
(***************************************************************************)
(* conflicts.py, tombstones.py and report_retention.py: what a cycle leaves *)
(* for review.  Conflict packages are rebuilt by every cycle.  Tombstones   *)
(* are kept: a deletion that was recorded before is referred to again, old  *)
(* duplicates are pruned.  Builders and the retention job share one lock;   *)
(* conflict packages share nothing with them, so one job is under way.      *)
(***************************************************************************)
EXTENDS Naturals, FiniteSets

CONSTANTS
    Skills, Versions, Absent,
    Slots,          \* 1..n: the tombstone directories there can be
    InitialRecords, \* those earlier releases left, a set of [Slots -> Record]
    MaxBuilds, MaxChanges, MaxCrashes

VARIABLES
    deleted,    \* [Skills -> what survives of a skill one side deleted]
    conflicted, \* skills in conflict
    rec,        \* the tombstone directories
    index,      \* tombstone-index.json: slots, or "none"
    packages,   \* the conflict packages
    listed,     \* conflict-index.json: skills, or "none"
    job,        \* the builder or retention job under way
    counts

vars == <<deleted, conflicted, rec, index, packages, listed, job, counts>>

Parts == {"none", "torn", "whole"}
Record(clock) == [skill: Skills, content: Versions, material: Parts,
                  base: BOOLEAN, meta: BOOLEAN, time: 1..clock, old: BOOLEAN]
NoIndex == [known |-> FALSE, of |-> {}]
Indexed(set) == [known |-> TRUE, of |-> set]
Idle == [step |-> "idle", todo |-> {}, seen |-> [s \in Skills |-> Absent],
         entries |-> {}, at |-> 0, victims |-> {}]
Signature(i) == <<rec[i].skill, rec[i].content>>
Used == {i \in Slots : rec[i] # Absent}

Steps == {"idle", "reset", "packages", "package", "listing", "status",
          "tombstones", "material", "meta", "index", "prune"}

JobState == [step: Steps, todo: SUBSET Skills, seen: [Skills -> Versions \cup {Absent}],
             entries: SUBSET (Skills \cup Slots), at: Slots \cup {0},
             victims: SUBSET Slots]
Counts == [builds: Nat, changes: Nat, crashes: Nat, cut: BOOLEAN, clock: Nat]

MaterialTypeOK ==
    /\ deleted \in [Skills -> Versions \cup {Absent}] /\ conflicted \subseteq Skills
    /\ rec \in [Slots -> Record(counts.clock) \cup {Absent}]
    /\ index \in [known: BOOLEAN, of: SUBSET Slots]
    /\ listed \in [known: BOOLEAN, of: SUBSET Skills]
    /\ packages \in [Skills -> Parts]
    /\ job \in JobState
    /\ job.victims \subseteq Used
    /\ counts \in Counts

Init ==
    /\ deleted \in [Skills -> Versions \cup {Absent}]
    /\ conflicted \in SUBSET Skills
    /\ rec \in InitialRecords
    /\ index = NoIndex
    /\ packages = [s \in Skills |-> "none"] /\ listed = NoIndex
    /\ job = Idle
    /\ counts = [builds |-> 0, changes |-> 0, crashes |-> 0, cut |-> FALSE,
                 clock |-> Cardinality(Slots)]

World == <<deleted, conflicted>>
Tombs == <<rec, index>>
Packs == <<packages, listed>>

-----------------------------------------------------------------------------
(* A cycle: build_conflict_packages in a directory emptied before *)

BeginCycle ==
    /\ job = Idle
    /\ counts.builds < MaxBuilds
    /\ counts' = [counts EXCEPT !.builds = @ + 1]
    /\ job' = [Idle EXCEPT !.step = "reset"]
    /\ UNCHANGED <<World, Tombs, Packs>>

\* The directory is removed with what was in it.
AfterReset == <<[s \in Skills |-> "none"], NoIndex>>

Reset ==
    /\ job.step = "reset"
    /\ packages' = AfterReset[1] /\ listed' = AfterReset[2]
    /\ job' = [job EXCEPT !.todo = conflicted, !.entries = conflicted,
                          !.step = IF conflicted = {} THEN "status" ELSE "packages"]
    /\ UNCHANGED <<World, Tombs, counts>>

\* The metadata first, then what the two sides hold.
BeginPackage(s) ==
    /\ job.step = "packages" /\ s \in job.todo
    /\ packages' = [packages EXCEPT ![s] = "torn"]
    /\ job' = [job EXCEPT !.step = "package", !.todo = @ \ {s}]
    /\ UNCHANGED <<World, Tombs, listed, counts>>

PackageWritten(s) ==
    /\ job.step = "package" /\ packages[s] = "torn"
    /\ packages' = [packages EXCEPT ![s] = "whole"]
    /\ job' = [job EXCEPT !.step = IF job.todo = {} THEN "listing" ELSE "packages"]
    /\ UNCHANGED <<World, Tombs, listed, counts>>

WriteConflictIndex ==
    /\ job.step = "listing"
    /\ listed' = Indexed(job.entries)
    /\ job' = [job EXCEPT !.step = "status"]
    /\ UNCHANGED <<World, Tombs, packages, counts>>

-----------------------------------------------------------------------------
(* build_tombstones, of a cycle or of the command, under the lock *)

BuildTombstones ==
    /\ job = Idle
    /\ counts.builds < MaxBuilds
    /\ counts' = [counts EXCEPT !.builds = @ + 1]
    /\ job' = [Idle EXCEPT !.step = "status"]
    /\ UNCHANGED <<World, Tombs, Packs>>

\* A record counts when its metadata is there; it is used again when its base
\* and one side's directory are there too.
Complete == {i \in Used : rec[i].meta}
Reusable(s, v) == {i \in Complete : /\ Signature(i) = <<s, v>>
                                    /\ rec[i].base /\ rec[i].material # "none"}
Latest(set) == {i \in set : \A k \in set : rec[k].time <= rec[i].time}
First(set) == {i \in set : \A k \in set : rec[i].time <= rec[k].time}

ReadStatus ==
    /\ job.step = "status"
    /\ LET gone == {s \in Skills : deleted[s] # Absent}
           known == {s \in gone : Reusable(s, deleted[s]) # {}} IN
       job' = [Idle EXCEPT !.step = "tombstones", !.seen = deleted,
                  !.todo = gone \ known,
                  !.entries = UNION {Latest(Reusable(s, deleted[s])) : s \in known}]
    /\ UNCHANGED <<World, Tombs, Packs, counts>>

MetaAtOnce == FALSE

NewRecord(s) ==
    [skill |-> s, content |-> job.seen[s], material |-> "torn", base |-> FALSE,
     meta |-> MetaAtOnce, time |-> counts.clock + 1, old |-> FALSE]

MakeRecord(s, i) ==
    /\ job.step = "tombstones" /\ s \in job.todo
    /\ rec[i] = Absent
    /\ rec' = [rec EXCEPT ![i] = NewRecord(s)]
    /\ counts' = [counts EXCEPT !.clock = @ + 1]
    /\ job' = [job EXCEPT !.step = "material", !.todo = @ \ {s}, !.at = i]
    /\ UNCHANGED <<World, index, Packs>>

WriteMaterial ==
    /\ job.step = "material"
    /\ rec' = [rec EXCEPT ![job.at].material = "whole", ![job.at].base = TRUE]
    /\ job' = [job EXCEPT !.step = "meta"]
    /\ UNCHANGED <<World, index, Packs, counts>>

PublishRecord ==
    /\ job.step = "meta"
    /\ rec' = [rec EXCEPT ![job.at].meta = TRUE]
    /\ job' = [job EXCEPT !.step = "tombstones", !.entries = @ \cup {job.at},
                          !.at = 0]
    /\ UNCHANGED <<World, index, Packs, counts>>

\* An exception takes the unfinished directory away and ends the build.
RecordFails ==
    /\ job.step \in {"material", "meta"}
    /\ counts.crashes < MaxCrashes
    /\ counts' = [counts EXCEPT !.crashes = @ + 1]
    /\ rec' = [rec EXCEPT ![job.at] = Absent]
    /\ job' = Idle
    /\ UNCHANGED <<World, index, Packs>>

-----------------------------------------------------------------------------
(* _prune_locked *)

Group(i) == {k \in Complete : Signature(k) = Signature(i)}
\* mutant: the latest of a group is enough
ProtectedLatest(i) == i \in Latest(Group(i))
Protected(i) == i \in First(Group(i)) \cup Latest(Group(i))
Referred(i, refs) == i \in refs
Victims(refs) == {i \in Complete : /\ ~ Protected(i)
                                   /\ ~ Referred(i, refs)
                                   /\ rec[i].old}

WriteIndex ==
    /\ job.step = "tombstones" /\ job.todo = {}
    /\ index' = Indexed(job.entries)
    /\ job' = [Idle EXCEPT !.step = "prune", !.victims = Victims(job.entries)]
    /\ UNCHANGED <<World, rec, Packs, counts>>

\* The retention job proves its references first, and otherwise does nothing.
Proved == index.known /\ index.of \subseteq Used

BeginRetention ==
    /\ job = Idle
    /\ Proved
    /\ Victims(index.of) # {}
    /\ job' = [Idle EXCEPT !.step = "prune", !.victims = Victims(index.of)]
    /\ UNCHANGED <<World, Tombs, Packs, counts>>

\* rmtree takes entry after entry, in the order the directory lists them; the
\* directory's own time changes when an entry at its top goes.
RemovePart(i, part, touched) ==
    /\ job.step = "prune" /\ i \in job.victims
    /\ CASE part = "material" -> /\ rec[i].material # "none"
                                 /\ rec' = [rec EXCEPT ![i].material =
                                       IF @ = "whole" THEN "torn" ELSE "none",
                                       ![i].time = IF touched THEN counts.clock + 1 ELSE @,
                                       ![i].old = IF touched THEN FALSE ELSE @]
         [] part = "base" -> /\ rec[i].base /\ touched
                             /\ rec' = [rec EXCEPT ![i].base = FALSE, ![i].old = FALSE,
                                                   ![i].time = counts.clock + 1]
         [] part = "meta" -> /\ rec[i].meta /\ touched
                             /\ rec' = [rec EXCEPT ![i].meta = FALSE, ![i].old = FALSE,
                                                   ![i].time = counts.clock + 1]
    /\ counts' = [counts EXCEPT !.clock = IF touched THEN @ + 1 ELSE @]
    /\ UNCHANGED <<World, index, Packs, job>>

RemoveRecord(i) ==
    /\ job.step = "prune" /\ i \in job.victims
    /\ rec[i].material = "none" /\ ~ rec[i].base /\ ~ rec[i].meta
    /\ rec' = [rec EXCEPT ![i] = Absent]
    /\ job' = [job EXCEPT !.victims = @ \ {i}]
    /\ UNCHANGED <<World, index, Packs, counts>>

Pruned ==
    /\ job.step = "prune" /\ job.victims = {}
    /\ job' = Idle
    /\ UNCHANGED <<World, Tombs, Packs, counts>>

-----------------------------------------------------------------------------
(* Everybody else *)

\* The lock goes with the process that holds it.
Crash ==
    /\ job # Idle
    /\ counts.crashes < MaxCrashes
    /\ counts' = [counts EXCEPT !.crashes = @ + 1,
                                !.cut = @ \/ job.step = "prune"]
    /\ job' = Idle
    /\ UNCHANGED <<World, Tombs, Packs>>

Changes(d, c) ==
    /\ counts.changes < MaxChanges
    /\ counts' = [counts EXCEPT !.changes = @ + 1]
    /\ deleted' = d /\ conflicted' = c
    /\ UNCHANGED <<Tombs, Packs, job>>

HourPasses ==
    /\ job = Idle
    /\ \E i \in Used : ~ rec[i].old
    /\ rec' = [i \in Slots |-> IF i \in Used THEN [rec[i] EXCEPT !.old = TRUE]
                               ELSE Absent]
    /\ UNCHANGED <<World, index, Packs, job, counts>>

Next ==
    \/ BeginCycle \/ Reset \/ WriteConflictIndex
    \/ \E s \in Skills : BeginPackage(s) \/ PackageWritten(s)
    \/ BuildTombstones \/ ReadStatus
    \/ \E s \in Skills, i \in Slots : MakeRecord(s, i)
    \/ WriteMaterial \/ PublishRecord \/ RecordFails
    \/ WriteIndex \/ BeginRetention \/ Pruned
    \/ \E i \in Slots : \/ \E part \in {"material", "base", "meta"}, touched \in BOOLEAN :
                              RemovePart(i, part, touched)
                        \/ RemoveRecord(i)
    \/ Crash \/ HourPasses
    \/ \E s \in Skills, v \in Versions \cup {Absent} :
          Changes([deleted EXCEPT ![s] = v], conflicted)
    \/ \E s \in Skills : Changes(deleted, conflicted \cup {s})
                         \/ Changes(deleted, conflicted \ {s})

Spec == Init /\ [][Next]_vars

-----------------------------------------------------------------------------
(* Properties *)

Whole(r) == r # Absent /\ r.meta /\ r.base /\ r.material = "whole"

\* Metadata marks a finished record: where it is, everything else is, unless a
\* removal was under way or was cut short (tombstones.py:115-116).
MetadataIsLast ==
    \A i \in Complete : ~ Whole(rec[i]) => counts.cut \/ i \in job.victims

\* Every deletion the index lists has its record, which nothing has begun to
\* take away, whoever prunes (report_retention.py:84-86, 95).
IndexedIsWhole ==
    \A i \in index.of : i \in Complete /\ (Whole(rec[i]) \/ counts.cut)

\* Pruning never takes the last whole record of a deletion, also after
\* removals that were cut short made torn records look younger
\* (report_retention.py:91-95).
OneWholeStays ==
    [][\A i \in Used : Whole(rec[i]) /\ job.step = "prune" =>
         \E k \in Used : /\ Whole(rec'[k])
                         /\ rec'[k].skill = rec[i].skill
                         /\ rec'[k].content = rec[i].content]_vars

\* Between cycles the conflict index lists whole packages, and the packages
\* are those of one reading of the conflicts (sync_cycle.py:95-100).
PackagesAreCurrent ==
    listed.known /\ job.step \notin {"reset"} =>
        /\ \A s \in listed.of : packages[s] = "whole"
        /\ \A s \in Skills \ listed.of : packages[s] = "none"

-----------------------------------------------------------------------------
(* Why they hold *)

\* The job at hand: it records what it saw deleted, a record in the making is
\* not listed, what a build will list is complete, and nothing listed is pruned.
JobInOrder ==
    /\ job.step # "prune" => job.victims = {}
    /\ job.step = "prune" => job.victims \cap index.of = {}
    /\ job.step \in {"tombstones", "material", "meta"} =>
          /\ \A s \in job.todo : job.seen[s] # Absent
          /\ \A i \in job.entries : i \in Complete /\ (Whole(rec[i]) \/ counts.cut)
    /\ job.step \in {"material", "meta"} =>
          /\ job.at \in Used \ index.of
          /\ ~ rec[job.at].meta /\ rec[job.at].time = counts.clock
    /\ job.step = "meta" => rec[job.at].base /\ rec[job.at].material = "whole"

\* The oldest complete record of a deletion is whole and stays: a removal that is
\* cut short makes a record younger, never older.
OldestIsWhole ==
    \A i \in Complete : \E k \in First(Group(i)) : Whole(rec[k]) /\ k \notin job.victims

\* The conflict index is written last, over packages that are all written.
PackagesInOrder ==
    /\ listed.known => \A s \in Skills : packages[s] = IF s \in listed.of THEN "whole" ELSE "none"
    /\ job.step \in {"packages", "package", "listing"} =>
          /\ ~ listed.known
          /\ job.entries \subseteq Skills /\ job.todo \subseteq job.entries
    /\ job.step = "packages" =>
          \A s \in Skills : packages[s] = IF s \in job.entries \ job.todo THEN "whole" ELSE "none"
    /\ job.step = "package" =>
          \E x \in job.entries \ job.todo :
              /\ packages[x] = "torn"
              /\ \A s \in Skills \ {x} :
                    packages[s] = IF s \in job.entries \ job.todo THEN "whole" ELSE "none"
    /\ job.step = "listing" =>
          \A s \in Skills : packages[s] = IF s \in job.entries THEN "whole" ELSE "none"

MaterialInv == /\ MaterialTypeOK /\ JobInOrder
               /\ MetadataIsLast /\ IndexedIsWhole /\ OldestIsWhole
               /\ PackagesInOrder
=============================================================================
