------------------------------- MODULE Fanout -------------------------------
(***************************************************************************)
(* The fan-out of the local root to one tool (fanout.py).  A run takes the *)
(* tool's lock, plans, replaces entries of the tool's root one by one,     *)
(* saves the ledger of its copies and writes a record; a rollback undoes a *)
(* recorded run.  The daemon's scheduler starts runs, and so does an       *)
(* operator.  The tool's user, other managers of its root and whoever      *)
(* changes the local root ("canonical") take no lock.                      *)
(***************************************************************************)
EXTENDS Naturals, FiniteSets

CONSTANTS
    Names,          \* names of skills, and of entries of the tool's root
    NoName,         \* not a name
    Versions,       \* contents (whole-tree hashes) a skill can have
    Absent,         \* no content
    Plain,          \* Plain[v]: version v without metadata and dot files
    Declared,       \* Declared[n]: what the manifest says of this tool
    Legacy,         \* Legacy[n]: content of n in the roots it adopts from
    Worlds,         \* modes, roots before the first run, and bounds
    Keep,           \* KEEP_BACKUP_RUNS
    KeepRecords,    \* KEEP_RUN_RECORDS
    RollbackSlots,  \* which of the kept runs an operator rolls back
    ToolPhases,     \* phases in which others change the tool's root
    CanonicalPhases \* phases in which others change canonical

Content == Versions \cup {Absent}
Contents == [Names -> Content]
Targets == {"here", "undeclared", "elsewhere"}
Phases == {"idle", "running", "placing", "saved", "rolling"}
LinkKinds == {"ours", "legacy", "foreign"}

\* own (history): a copy the fan-out placed and nobody touched since.
Entry == [kind: LinkKinds \cup {"none", "dir"}, hash: Content, own: BOOLEAN]
Nowhere == [kind |-> "none", hash |-> Absent, own |-> FALSE]
Link(kind) == [kind |-> kind, hash |-> Absent, own |-> FALSE]
Dir(version, own) == [kind |-> "dir", hash |-> version, own |-> own]

NOOP_ACTIONS == {"ok", "conflict", "foreign_link"}
LINKING == {"link", "relink", "replace_dir_with_link"}
COPYING == {"copy", "update_copy", "replace_link_with_copy"}
REMOVING == {"remove_dangling_link", "remove_copy"}
TwoStep == {"replace_dir_with_link", "update_copy", "replace_link_with_copy"}
Actions == NOOP_ACTIONS \cup LINKING \cup COPYING \cup REMOVING
              \cup {"adopt", "none"}

\* What the world may do a bounded number of times.
Counted == {"tool", "canonical", "errors", "crashes", "operator", "rollbacks"}

ASSUME NameAssumption == NoName \notin Names
ASSUME VersionAssumption ==
    /\ Absent \notin Versions
    /\ Plain \in [Versions -> Versions]
ASSUME ToolAssumption ==
    /\ Declared \in [Names -> Targets]
    /\ Legacy \in Contents
    /\ Worlds \subseteq [mode: {"link", "copy"}, tool: [Names -> Entry],
                        bounds: [Counted -> Nat]]
    /\ \A w \in Worlds, n \in Names :
          ~ w.tool[n].own /\ (w.tool[n].kind # "dir" => w.tool[n].hash = Absent)
ASSUME KeepAssumption ==
    /\ Keep \in Nat
    /\ KeepRecords \in Nat \ {0}
    /\ RollbackSlots \subseteq 1..KeepRecords

VARIABLES
    mode,       \* how the tool gets its skills, "link" or "copy"
    canonical,  \* the local root
    tool,       \* the tool's root
    ledger,     \* the ledger file of the tool's copies
    log,        \* log[i]: record and backups of the i-th last run
    job,        \* the run or rollback that holds the tool's lock
    sched,      \* the daemon's FanoutScheduler
    touched,    \* history: entries others made or changed
    removed,    \* history: entries others, a crash, or their skill's removal took away
    counts      \* what is left of the bounds

vars == <<mode, canonical, tool, ledger, log, job, sched, touched, removed, counts>>

\* What a run did to one entry.  was (history): the entry it found.
Done == [action: Actions, hash: Content, backup: BOOLEAN,
         link: LinkKinds \cup {"none"}, was: Entry]
NotDone == [action |-> "none", hash |-> Absent, backup |-> FALSE,
            link |-> "none", was |-> Nowhere]

\* stored: the run has a backup directory; written: its record is on disk.
Run == [done: [Names -> Done], before: Contents, backup: [Names -> Entry],
        stored: BOOLEAN, written: BOOLEAN]
NoRun == [done |-> [n \in Names |-> NotDone], before |-> [n \in Names |-> Absent],
          backup |-> [n \in Names |-> Nowhere], stored |-> FALSE, written |-> FALSE]

Slots == 1..KeepRecords

\* plan, hash: the items; held: the ledger in memory; item, copied: the entry
\* being replaced and the temporary copy; undone: what a rollback restored.
Job == [phase: Phases, by: {"daemon", "operator"}, slot: Slots,
        todo: SUBSET Names, plan: [Names -> Actions], hash: Contents,
        held: Contents, item: Names \cup {NoName}, copied: Content,
        failed: BOOLEAN, undone: SUBSET Names]
NoJob == [phase |-> "idle", by |-> "operator", slot |-> 1, todo |-> {},
          plan |-> [n \in Names |-> "none"], hash |-> [n \in Names |-> Absent],
          held |-> [n \in Names |-> Absent], item |-> NoName, copied |-> Absent,
          failed |-> FALSE, undone |-> {}]

Scheduler == [ran: BOOLEAN, fingerprint: Contents, seen: Contents,
              failed: BOOLEAN, overdue: BOOLEAN, waiting: BOOLEAN]
NewScheduler == [ran |-> FALSE, fingerprint |-> [n \in Names |-> Absent],
                 seen |-> [n \in Names |-> Absent], failed |-> FALSE,
                 overdue |-> FALSE, waiting |-> FALSE]

TypeOK ==
    /\ mode \in {"link", "copy"}
    /\ canonical \in Contents
    /\ tool \in [Names -> Entry]
    /\ ledger \in Contents
    /\ log \in [Slots -> Run]
    /\ job \in Job
    /\ sched \in Scheduler
    /\ touched \subseteq Names
    /\ removed \subseteq Names
    /\ counts \in [Counted -> Nat]

Init ==
    /\ canonical \in Contents
    /\ ledger = [n \in Names |-> Absent]
    /\ log = [i \in Slots |-> NoRun]
    /\ job = NoJob
    /\ sched = NewScheduler
    /\ \E w \in Worlds :
          /\ mode = w.mode
          /\ tool = w.tool
          /\ counts = w.bounds
          /\ touched = {n \in Names : w.tool[n].kind # "none"}
          /\ removed = {n \in Names : w.tool[n].kind = "none" \/ canonical[n] = Absent}

Count(c) == counts[c] > 0 /\ counts' = [counts EXCEPT ![c] = @ - 1]

-----------------------------------------------------------------------------
(* The plan *)

Present(n) == tool[n].kind # "none"

\* A skill whose manifest names no tool is maintained where it already is.
Wanted(n) ==
    /\ canonical[n] # Absent
    /\ \/ Declared[n] = "here"
       \/ Declared[n] = "undeclared" /\ Present(n)

\* Differences in metadata and dot files alone do not hinder adoption.
SameContent(found, version) ==
    found # Absent /\ (found = version \/ Plain[found] = Plain[version])

\* mutant: a changed canonical version does not reach a recorded copy
PlanDirectoryOnce(n) ==
    IF mode = "link"
    THEN IF SameContent(tool[n].hash, canonical[n])
         THEN "replace_dir_with_link" ELSE "conflict"
    ELSE IF tool[n].hash = canonical[n] THEN "ok" ELSE "conflict"

PlanDirectory(n) ==
    LET current == tool[n].hash
        same == SameContent(current, canonical[n]) IN
    IF mode = "link" THEN IF same THEN "replace_dir_with_link" ELSE "conflict"
    ELSE IF current = canonical[n] \/ (ledger[n] = Absent /\ same)
         THEN IF ledger[n] = current THEN "ok" ELSE "adopt"
    ELSE IF ledger[n] = current THEN "update_copy" ELSE "conflict"

\* mutant: every link is taken for one of the fan-out's own
PlanLinkBlindly(n) == IF mode = "link" THEN "relink" ELSE "replace_link_with_copy"

PlanLink(n) ==
    LET replace == IF mode = "link" THEN "relink" ELSE "replace_link_with_copy" IN
    CASE tool[n].kind = "ours" -> IF mode = "link" THEN "ok" ELSE replace
      [] tool[n].kind = "foreign" -> "foreign_link"
      [] tool[n].kind = "legacy" ->
            IF SameContent(Legacy[n], canonical[n]) THEN replace ELSE "conflict"

PlanEntry(n) ==
    CASE tool[n].kind = "none" -> IF mode = "link" THEN "link" ELSE "copy"
      [] tool[n].kind = "dir" -> PlanDirectory(n)
      [] OTHER -> PlanLink(n)

Removal(n) ==
    CASE tool[n].kind = "ours" /\ canonical[n] = Absent -> "remove_dangling_link"
      [] tool[n].kind = "dir" /\ mode = "copy" /\ ledger[n] # Absent ->
            IF tool[n].hash = ledger[n] THEN "remove_copy" ELSE "conflict"
      [] OTHER -> "none"

PlanOf(n) == IF Wanted(n) THEN PlanEntry(n) ELSE Removal(n)

\* The hash an item carries into the ledger and the record.
ItemHash(n) == IF PlanOf(n) = "adopt" THEN tool[n].hash ELSE canonical[n]

-----------------------------------------------------------------------------
(* Starting a run *)

\* mutant: a failed run is not repeated
DueUnlessFailed ==
    ~ sched.ran \/ canonical # sched.fingerprint

Due ==
    \/ ~ sched.ran
    \/ sched.failed
    \/ canonical # sched.fingerprint
    \/ sched.overdue

\* maybe_run takes the fingerprint first; the plan comes under the lock.
MaybeRun ==
    /\ ~ sched.waiting
    /\ job.phase = "idle" \/ job.by = "operator"
    /\ Due
    /\ sched' = [sched EXCEPT !.seen = canonical, !.waiting = TRUE]
    /\ UNCHANGED <<mode, canonical, tool, ledger, log, job, touched, removed, counts>>

\* mutant: one directory too few is kept
PrunedOneMore(runs) ==
    [i \in Slots |->
        IF runs[i].stored /\ Cardinality({j \in 1..i : runs[j].stored}) >= Keep
        THEN [runs[i] EXCEPT !.stored = FALSE, !.backup = NoRun.backup]
        ELSE runs[i]]

\* mutant: the records go with the backups
PrunedWithRecords(runs) == [i \in 1..Keep |-> runs[i]]

\* Only the newest Keep backup directories stay.
Pruned(runs) ==
    [i \in Slots |->
        IF runs[i].stored /\ Cardinality({j \in 1..i : runs[j].stored}) > Keep
        THEN [runs[i] EXCEPT !.stored = FALSE, !.backup = NoRun.backup]
        ELSE runs[i]]

\* Somebody else holds the lock for longer than the daemon waits.  The run has
\* touched nothing, yet it prunes the backups on its way out.
LockTimesOut ==
    /\ sched.waiting
    /\ job.phase # "idle" /\ job.by = "operator"
    /\ sched' = [sched EXCEPT !.ran = TRUE, !.failed = TRUE,
                              !.overdue = FALSE, !.waiting = FALSE]
    /\ log' = Pruned(log)
    /\ UNCHANGED <<mode, canonical, tool, ledger, job, touched, removed, counts>>

\* The slots after one more run was started.
Shifted(run) == [i \in Slots |-> IF i = 1 THEN run ELSE log[i - 1]]

Begin(by) ==
    /\ job.phase = "idle"
    /\ log' = Shifted([NoRun EXCEPT !.before = ledger])
    /\ job' = [NoJob EXCEPT
                  !.phase = "running", !.by = by,
                  !.plan = [n \in Names |-> PlanOf(n)],
                  !.hash = [n \in Names |-> ItemHash(n)],
                  !.held = ledger,
                  !.todo = {n \in Names : PlanOf(n) \notin NOOP_ACTIONS \cup {"none"}}]
    /\ UNCHANGED <<mode, canonical, tool, ledger, touched, removed>>

DaemonRun ==
    /\ sched.waiting
    /\ Begin("daemon")
    /\ sched' = [sched EXCEPT !.waiting = FALSE]
    /\ UNCHANGED counts

OperatorRun ==
    /\ Count("operator")
    /\ Begin("operator")
    /\ UNCHANGED sched

-----------------------------------------------------------------------------
(* Executing an item.  found is the entry as it is now, not as planned.     *)

Todo(n, action) ==
    /\ job.phase = "running"
    /\ n \in job.todo
    /\ job.plan[n] = action

\* The item is finished; the record says so.
Finish(n, held, backup, link, was) ==
    /\ job' = [job EXCEPT !.phase = "running", !.todo = @ \ {n},
                          !.held[n] = held, !.item = NoName, !.copied = Absent]
    /\ log' = [log EXCEPT
                  ![1].done[n] = [action |-> job.plan[n], hash |-> job.hash[n],
                                  backup |-> backup, link |-> link, was |-> was],
                  ![1].backup[n] = IF backup THEN was ELSE @,
                  ![1].stored = @ \/ backup]

\* The item fails: the entry changed since planning, or its source is gone.
Refuse(n) ==
    /\ job' = [job EXCEPT !.todo = @ \ {n}, !.failed = TRUE]
    /\ UNCHANGED <<tool, log>>

Set(n, entry) == tool' = [tool EXCEPT ![n] = entry]

Unrecorded == <<mode, canonical, ledger, sched, touched, removed, counts>>

ExecuteLink(n) ==
    /\ Todo(n, "link")
    /\ IF Present(n) THEN Refuse(n)
       ELSE Set(n, Link("ours")) /\ Finish(n, job.held[n], FALSE, "none", tool[n])
    /\ UNCHANGED Unrecorded

ExecuteRelink(n) ==
    /\ Todo(n, "relink")
    /\ IF tool[n].kind \notin LinkKinds THEN Refuse(n)
       ELSE /\ Set(n, Link("ours"))
            /\ Finish(n, job.held[n], FALSE, tool[n].kind, tool[n])
    /\ UNCHANGED Unrecorded

ExecuteRemoveLink(n) ==
    /\ Todo(n, "remove_dangling_link")
    /\ IF tool[n].kind \notin LinkKinds THEN Refuse(n)
       ELSE Set(n, Nowhere) /\ Finish(n, job.held[n], FALSE, tool[n].kind, tool[n])
    /\ UNCHANGED Unrecorded

ExecuteCopy(n) ==
    /\ Todo(n, "copy")
    /\ IF canonical[n] = Absent \/ Present(n) THEN Refuse(n)
       ELSE /\ Set(n, Dir(canonical[n], TRUE))
            /\ Finish(n, job.hash[n], FALSE, "none", tool[n])
    /\ UNCHANGED Unrecorded

ExecuteAdopt(n) ==
    /\ Todo(n, "adopt")
    /\ Finish(n, job.hash[n], FALSE, "none", tool[n])
    /\ UNCHANGED tool
    /\ UNCHANGED Unrecorded

ExecuteRemoveCopy(n) ==
    /\ Todo(n, "remove_copy")
    /\ IF ~ Present(n) THEN Refuse(n)
       ELSE Set(n, Nowhere) /\ Finish(n, Absent, TRUE, "none", tool[n])
    /\ UNCHANGED Unrecorded

\* The other actions copy the source beside the entry, take the entry away
\* (a link is unlinked, anything else moves to the backup), and then rename.
Replaceable(n) ==
    /\ job.plan[n] \in COPYING => canonical[n] # Absent
    /\ IF job.plan[n] = "replace_link_with_copy"
       THEN tool[n].kind \in LinkKinds ELSE Present(n)

Take(n) ==
    /\ job' = [job EXCEPT !.phase = "placing", !.item = n, !.copied = canonical[n]]
    /\ log' = [log EXCEPT ![1] =
                  IF job.plan[n] = "replace_link_with_copy"
                  THEN [@ EXCEPT !.done[n].was = tool[n]]
                  ELSE [@ EXCEPT !.done[n].was = tool[n],
                                 !.backup[n] = tool[n], !.stored = TRUE]]

TakeAway(n) ==
    /\ job.phase = "running" /\ n \in job.todo
    /\ job.plan[n] \in TwoStep
    /\ IF Replaceable(n) THEN Take(n) /\ Set(n, Nowhere) ELSE Refuse(n)
    /\ UNCHANGED Unrecorded

\* mutant: what was taken away is forgotten
TakenForgotten == Nowhere
Taken == log[1].done[job.item].was

\* mutant: the ledger keeps the hash of the replaced copy
RecordedUnchanged(n) == job.held[n]
Recorded(n) == IF job.plan[n] \in COPYING THEN job.hash[n] ELSE job.held[n]

PutInPlace ==
    LET n == job.item
        linked == job.plan[n] = "replace_link_with_copy" IN
    /\ job.phase = "placing"
    /\ Set(n, IF job.plan[n] \in COPYING THEN Dir(job.copied, TRUE) ELSE Link("ours"))
    /\ Finish(n, Recorded(n), ~ linked, IF linked THEN Taken.kind ELSE "none", Taken)
    /\ UNCHANGED Unrecorded

\* The rename fails and what was taken away is put back.
PutBack ==
    LET n == job.item IN
    /\ job.phase = "placing"
    /\ Count("errors")
    /\ Set(n, Taken)
    /\ job' = [job EXCEPT !.phase = "running", !.todo = @ \ {n}, !.item = NoName,
                          !.copied = Absent, !.failed = TRUE]
    /\ log' = [log EXCEPT ![1].done[n] = NotDone, ![1].backup[n] = Nowhere]
    /\ UNCHANGED <<mode, canonical, ledger, sched, touched, removed>>

-----------------------------------------------------------------------------
(* Ending a run *)

SaveLedger ==
    /\ job.phase = "running" /\ job.todo = {}
    /\ ledger' = IF mode = "copy" THEN job.held ELSE ledger
    /\ job' = [job EXCEPT !.phase = "saved"]
    /\ UNCHANGED <<mode, canonical, tool, log, sched, touched, removed, counts>>

Close ==
    /\ job.phase = "saved"
    /\ log' = Pruned([log EXCEPT ![1].written = TRUE])
    /\ sched' = IF job.by = "daemon"
                THEN [sched EXCEPT !.ran = TRUE, !.fingerprint = sched.seen,
                                   !.failed = job.failed, !.overdue = FALSE]
                ELSE sched
    /\ job' = NoJob
    /\ UNCHANGED <<mode, canonical, tool, ledger, touched, removed, counts>>

-----------------------------------------------------------------------------
(* Rolling a recorded run back: entries that no longer look as the run left *)
(* them are skipped.                                                        *)

RollBack(i) ==
    /\ job.phase = "idle"
    /\ log[i].written
    /\ Count("rollbacks")
    /\ job' = [NoJob EXCEPT !.phase = "rolling", !.slot = i,
                  !.todo = {n \in Names : log[i].done[n].action # "none"}]
    /\ UNCHANGED <<mode, canonical, tool, ledger, log, sched, touched, removed>>

\* mutant: whatever is there counts as left by the run
StillOursAlways(n, done) == TRUE

StillOurs(n, done) ==
    CASE done.action \in LINKING -> tool[n].kind = "ours"
      [] done.action \in COPYING -> tool[n].kind = "dir" /\ tool[n].hash = done.hash
      [] done.action \in REMOVING -> ~ Present(n)
      [] OTHER -> TRUE

Undo(n) ==
    LET done == log[job.slot].done[n]
        kept == log[job.slot].backup[n]
        left == IF done.action \in LINKING \cup COPYING THEN Nowhere ELSE tool[n] IN
    /\ job.phase = "rolling" /\ n \in job.todo
    /\ IF StillOurs(n, done)
       THEN /\ Set(n, IF done.backup /\ kept.kind # "none" THEN kept
                      ELSE IF done.link # "none" /\ left.kind = "none" THEN Link(done.link)
                      ELSE left)
            /\ job' = [job EXCEPT !.todo = @ \ {n}, !.undone = @ \cup {n}]
            /\ log' = IF done.backup
                      THEN [log EXCEPT ![job.slot].backup[n] = Nowhere] ELSE log
       ELSE job' = [job EXCEPT !.todo = @ \ {n}] /\ UNCHANGED <<tool, log>>
    /\ UNCHANGED Unrecorded

LedgerAfterRollback == IF mode = "copy" THEN log[job.slot].before ELSE ledger

RollBackEnds ==
    /\ job.phase = "rolling" /\ job.todo = {}
    /\ ledger' = LedgerAfterRollback
    /\ job' = NoJob
    /\ UNCHANGED <<mode, canonical, tool, log, sched, touched, removed, counts>>

-----------------------------------------------------------------------------
(* The rest of the world *)

\* The process dies: the kernel frees its lock, no record is written.
Crash ==
    /\ job.phase # "idle"
    /\ Count("crashes")
    /\ job' = NoJob
    /\ sched' = IF job.by = "daemon" THEN NewScheduler ELSE sched
    /\ removed' = IF job.phase = "placing" THEN removed \cup {job.item} ELSE removed
    /\ UNCHANGED <<mode, canonical, tool, ledger, log, touched>>

\* The periodic interval passes.
IntervalPasses ==
    /\ sched.ran /\ ~ sched.overdue /\ ~ sched.waiting
    /\ job.phase = "idle"
    /\ sched' = [sched EXCEPT !.overdue = TRUE]
    /\ UNCHANGED <<mode, canonical, tool, ledger, log, job, touched, removed, counts>>

\* The user or another manager changes an entry of the tool's root.
EditTool(n, entry) ==
    /\ job.phase \in ToolPhases
    /\ tool[n] # entry
    /\ Count("tool")
    /\ Set(n, entry)
    /\ touched' = touched \cup {n}
    /\ removed' = IF entry.kind = "none" \/ canonical[n] = Absent
                  THEN removed \cup {n} ELSE removed \ {n}
    /\ UNCHANGED <<mode, canonical, ledger, log, job, sched>>

\* A pull, an installation or a removal changes the local root.
EditCanonical(n, content) ==
    /\ job.phase \in CanonicalPhases
    /\ canonical[n] # content
    /\ Count("canonical")
    /\ canonical' = [canonical EXCEPT ![n] = content]
    /\ removed' = IF content = Absent THEN removed \cup {n} ELSE removed
    /\ UNCHANGED <<mode, tool, ledger, log, job, sched, touched>>

-----------------------------------------------------------------------------
Item(n) ==
    \/ ExecuteLink(n) \/ ExecuteRelink(n) \/ ExecuteRemoveLink(n)
    \/ ExecuteCopy(n) \/ ExecuteAdopt(n) \/ ExecuteRemoveCopy(n)
    \/ TakeAway(n)

Working ==
    \/ \E n \in Names : Item(n) \/ Undo(n)
    \/ PutInPlace \/ SaveLedger \/ Close \/ RollBackEnds

Scheduling == MaybeRun \/ LockTimesOut \/ DaemonRun

Environment ==
    \/ OperatorRun
    \/ \E i \in RollbackSlots : RollBack(i)
    \/ PutBack \/ Crash
    \/ \E n \in Names :
          \/ \E v \in Versions : EditTool(n, Dir(v, FALSE))
          \/ \E e \in {Nowhere, Link("foreign")} : EditTool(n, e)
          \/ \E c \in Content : EditCanonical(n, c)

Next == Working \/ Scheduling \/ IntervalPasses \/ Environment

Spec == Init /\ [][Next]_vars
FairSpec ==
    /\ Spec
    /\ WF_vars(Working)
    /\ WF_vars(Scheduling)
    /\ WF_vars(IntervalPasses)

-----------------------------------------------------------------------------
(* Properties *)

\* No run and no rollback destroys a directory: it moves it to a backup, or it
\* is a copy of its own, or one with the very content the undone run placed.
ReplacedIsKept ==
    [][/\ counts'["tool"] = counts["tool"]
       => \A n \in Names :
             tool[n].kind = "dir" /\ tool'[n] # tool[n] =>
                \/ \E i \in Slots : log'[i].backup[n] = tool[n]
                \/ tool[n].own
                \/ job.phase = "rolling" /\ tool[n].hash = log[job.slot].done[n].hash]_vars

\* A copy the fan-out placed and nobody touched is in the ledger under the hash
\* it has, so the next version of its skill can reach it (README.md:232).
OwnCopiesRecorded ==
    job.phase = "idle" =>
       \A n \in Names : tool[n].own => ledger[n] = tool[n].hash

\* What a rollback reports as restored is what the run had found, link or
\* directory ("Rollback undoes a run", README.md:222).  An adopted directory
\* was not replaced, and may have changed since.
RollbackUndoes ==
    job.phase = "rolling" =>
       \A n \in job.undone :
          LET done == log[job.slot].done[n] IN
          done.action # "adopt" =>
             tool[n].kind = done.was.kind /\ tool[n].hash = done.was.hash

\* A link of another manager is never touched (README.md:233).
ForeignUntouched ==
    [][counts'["tool"] = counts["tool"] =>
         \A n \in Names : tool[n].kind = "foreign" => tool'[n] = tool[n]]_vars

\* A skill without declared targets stays where it is (README.md:231), unless
\* somebody removed it there, or from the local root, or a crash came between
\* the two steps of a replacement.
UndeclaredStays ==
    job.phase = "idle" =>
       \A n \in Names \ removed :
          Declared[n] = "undeclared" => Present(n)

\* A skill that declares the tool gets there, and every later version of it,
\* as long as nobody else writes the entry.
Follows ==
    <>[](\A n \in Names \ touched :
           /\ Declared[n] = "here"
           /\ canonical[n] # Absent
           => \/ tool[n].kind = "ours"
              \/ tool[n].kind = "dir" /\ tool[n].hash = canonical[n])

-----------------------------------------------------------------------------
(* The inductive invariant behind TypeOK and OwnCopiesRecorded.  The latter    *)
(* needs a local root that stands still while a run copies from it, no crash   *)
(* of a run that copies, and a rollback of nothing but the last run.           *)

Undisturbed ==
    /\ CanonicalPhases \subseteq {"idle", "rolling"}
    /\ RollbackSlots \subseteq {1}
    /\ \A w \in Worlds : w.mode = "copy" => w.bounds["crashes"] = 0

\* While an entry is being replaced, it is one of those to do, and what was
\* unlinked was a link.
PlacingOne ==
    job.phase = "placing" =>
       /\ job.item \in job.todo
       /\ job.plan[job.item] = "replace_link_with_copy" => Taken.kind \in LinkKinds

TypeInv == TypeOK /\ PlacingOne

\* What the run under way plans for n, and what it knows of it.
RunFacts(n) ==
    /\ job.plan[n] \in COPYING => mode = "copy" /\ job.hash[n] = canonical[n]
    /\ n \in job.todo => job.held[n] = log[1].before[n]
    /\ n \in job.todo /\ job.plan[n] = "adopt" => ~ tool[n].own
    /\ tool[n].own => tool[n].hash = job.held[n]

\* An untouched copy is the last run's, or what the ledger had before it; so is
\* what the last run moved to its backup.
LastRunFacts(n) ==
    /\ tool[n].own =>
          /\ tool[n].kind = "dir"
          /\ \/ tool[n].hash = log[1].before[n]
             \/ /\ log[1].done[n].action \in COPYING
                /\ tool[n].hash = log[1].done[n].hash
                /\ job.phase = "rolling" => n \in job.todo
    /\ log[1].backup[n].own =>
          /\ log[1].backup[n].kind = "dir"
          /\ log[1].backup[n].hash = log[1].before[n]

PlacingFacts ==
    job.phase = "placing" =>
       /\ job.plan[job.item] \in COPYING => job.copied = canonical[job.item]
       /\ Taken.own => Taken.kind = "dir" /\ Taken.hash = log[1].before[job.item]

OwnInv ==
    /\ TypeInv
    /\ mode = "copy" => counts["crashes"] = 0
    /\ mode = "link" => \A n \in Names :
          ~ tool[n].own /\ ~ log[1].backup[n].own /\ ~ log[1].done[n].was.own
    /\ job.phase = "rolling" => job.slot = 1
    /\ \A n \in Names : LastRunFacts(n)
    /\ job.phase \in {"running", "placing"} => \A n \in Names : RunFacts(n)
    /\ PlacingFacts
    /\ job.phase \in {"idle", "saved"} =>
          \A n \in Names : tool[n].own => ledger[n] = tool[n].hash

\* The inductive invariant behind ReplacedIsKept and ForeignUntouched, which need
\* a tool's root nobody else changes while a run works on it.
Alone == ToolPhases \cap {"running", "placing"} = {}

EntriesInv ==
    /\ TypeInv
    /\ \A i \in Slots, n \in Names :
          log[i].done[n].action \notin LINKING \cup COPYING \cup REMOVING
             => ~ log[i].done[n].backup /\ log[i].done[n].link = "none"
    /\ job.phase \in {"running", "placing"} =>
          \A n \in job.todo : tool[n].kind # "foreign"
    /\ job.phase = "placing" =>
          tool[job.item].kind = "none" /\ job.plan[job.item] \in TwoStep

\* The inductive invariant behind RollbackUndoes: at most one rollback, of the
\* last run, whose backups are kept (a second rollback of a run finds the backups
\* gone that the first one moved back).
OneRollback ==
    /\ Keep # 0
    /\ RollbackSlots \subseteq {1}
    /\ "rolling" \notin ToolPhases
    /\ \A w \in Worlds : w.bounds["rollbacks"] <= 1

Replacing == LINKING \cup COPYING \cup REMOVING

\* Only a directory has content.
Bare(entry) == entry.kind # "dir" => entry.hash = Absent

\* The last run's record has what it takes to put back the entry it found.
Restorable(n) ==
    LET done == log[1].done[n] IN
    done.action \in Replacing =>
       /\ done.was.kind = "none" => done.action \in {"link", "copy"}
       /\ IF done.backup
          THEN log[1].backup[n] = done.was /\ done.was.kind # "none"
          ELSE done.was.kind = done.link /\ done.was.hash = Absent

\* What a run did not get to yet.
TodoFacts(n) ==
    /\ log[1].done[n].action = "none"
    /\ job.plan[n] \notin NOOP_ACTIONS \cup {"none"}

Restored(n) ==
    LET done == log[1].done[n] IN
    done.action # "adopt" =>
       tool[n].kind = done.was.kind /\ tool[n].hash = done.was.hash

RollbackInv ==
    /\ TypeInv
    /\ \A n \in Names :
          /\ Bare(tool[n]) /\ Bare(log[1].backup[n]) /\ Bare(log[1].done[n].was)
          /\ log[1].done[n].action \notin NOOP_ACTIONS
    /\ counts["rollbacks"] <= 1
    /\ counts["rollbacks"] = 1 => \A n \in Names : Restorable(n)
    /\ job.phase \in {"running", "placing"} => \A n \in job.todo : TodoFacts(n)
    /\ job.phase = "placing" =>
          Taken.kind # "none" /\ job.plan[job.item] \in TwoStep
    /\ job.phase = "rolling" =>
          /\ job.slot = 1 /\ counts["rollbacks"] = 0
          /\ \A n \in job.todo : Restorable(n) /\ log[1].done[n].action # "none"
          /\ \A n \in job.undone : n \notin job.todo /\ Restored(n)

\* The inductive invariant behind UndeclaredStays.
StaysInv ==
    /\ \A n \in Names \ removed : canonical[n] # Absent
    /\ \A n \in Names \ removed :
          Declared[n] = "undeclared" =>
             Present(n) \/ (job.phase = "placing" /\ n = job.item)
    /\ \A n \in Names :
          Declared[n] = "undeclared" =>
             {job.plan[n], log[1].done[n].action} \cap {"link", "copy"} = {}
    /\ job.phase \in {"running", "placing"} =>
          \A n \in Names \ removed :
             Declared[n] = "undeclared" => job.plan[n] \notin REMOVING
=============================================================================
