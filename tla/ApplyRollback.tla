----------------------------- MODULE ApplyRollback -----------------------------
(***************************************************************************)
(* apply.py: installing the skills of a staged snapshot into a root of     *)
(* directories, and rolling the record of such a run back.  An item is     *)
(* copied beside its target, the target is backed up, removed, and the     *)
(* copy renamed; the record is written when the run ends, and not at all   *)
(* when it dies.  Users and fan-out change the root at any moment.         *)
(***************************************************************************)
EXTENDS Naturals, Sequences

CONSTANTS
    Skills, Versions, Absent,
    Damaged,        \* what is not whole: a file is missing or cut short
    Staged,         \* Staged[s]: the version the snapshot holds
    Scope,          \* Scope[s]: "global" or "project"
    Aimed,          \* skills whose manifest names the tool, or no tool
    InitialRoots,   \* what the root holds at first
    EditEntries,    \* what users and fan-out put there
    MaxRuns, MaxEdits, MaxFailures

VARIABLES
    root,       \* [Skills -> Entry]
    runs,       \* the runs: their backups, and the records of those that ended
    job,        \* the run under way
    undo,       \* the rollback under way
    since,      \* history: what others changed since a run began
    counts

vars == <<root, runs, job, undo, since, counts>>

RunIds == 1..MaxRuns
Targets == {"tool", "mixed-scope-root", "codex-project"}

\* A directory, a symbolic link to the canonical copy, or one to elsewhere.
Kinds == {"dir", "canonical", "link"}
Contents == Versions \cup {Damaged}
Entry == {Absent} \cup [kind: Kinds, content: Contents]
Directory == {Absent} \cup [kind: {"dir"}, content: Contents]
Dir(v) == [kind |-> "dir", content |-> v]
\* What a removal or a copy of a directory leaves that breaks off half-way.
Part == Dir(Damaged)
\* copytree follows a link: what is copied is a directory.
Copied(e) == IF e = Absent THEN Absent ELSE Dir(e.content)

Nowhere == [s \in Skills |-> Absent]
Unused == [status |-> "none", backup |-> Nowhere, applied |-> <<>>,
           before |-> Nowhere]
Idle == [id |-> 0, target |-> "tool", todo |-> {}, item |-> Absent, had |-> FALSE, step |-> "idle",
         touched |-> {}, moved |-> {}]
NoUndo == [id |-> 0, left |-> <<>>, step |-> "idle"]

Applied == [skill: Skills, had: BOOLEAN]
Run == [status: {"none", "running", "dead", "complete", "failed"},
        backup: [Skills -> Directory], applied: Seq(Applied),
        before: [Skills -> Entry]]
Job == [id: 0..MaxRuns, target: Targets, todo: SUBSET Skills,
        item: Skills \cup {Absent}, had: BOOLEAN,
        step: {"idle", "items", "backup", "remove", "rename"},
        touched: SUBSET Skills, moved: SUBSET Skills]
Undo == [id: 0..MaxRuns, left: Seq(Applied), step: {"idle", "remove", "copy"}]
Counts == [runs: 0..MaxRuns, edits: 0..MaxEdits, failures: 0..MaxFailures]

ApplyTypeOK ==
    /\ root \in [Skills -> Entry] /\ since \in [RunIds -> SUBSET Skills]
    /\ runs \in [RunIds -> Run]
    /\ job \in Job /\ undo \in Undo /\ counts \in Counts

Init ==
    /\ root \in InitialRoots
    /\ runs = [id \in RunIds |-> Unused]
    /\ job = Idle /\ undo = NoUndo
    /\ since = [id \in RunIds |-> {}]
    /\ counts = [runs |-> 0, edits |-> 0, failures |-> 0]

\* Run or rollback `by' (0: somebody else) leaves the root as `new'.
Becomes(new, by) ==
    LET changed == {s \in Skills : new[s] # root[s]} IN
    /\ root' = new
    /\ since' = [id \in RunIds |-> IF id = by THEN since[id]
                                   ELSE since[id] \cup changed]

Put(s, e) == [root EXCEPT ![s] = e]

-----------------------------------------------------------------------------
(* The plan *)

\* Fan-out keeps links into canonical current: a tool's are skipped.
LinkedToCanonical(s) == root[s] # Absent /\ root[s].kind = "canonical"

\* An empty selection selects everything.
Selected(s, ids) == ids = {} \/ s \in ids

Allowed(target, s, ids) ==
    /\ Selected(s, ids)
    /\ CASE target = "tool" -> /\ Scope[s] = "global"
                               /\ s \in Aimed
                               /\ ~ LinkedToCanonical(s)
         [] target = "mixed-scope-root" -> Scope[s] \in {"global", "project"}
         [] target = "codex-project" -> Scope[s] = "project" /\ s \in Aimed

Plan(target, ids) ==
    {s \in Skills : Staged[s] # Absent /\ Allowed(target, s, ids)}

Apply(target, ids) ==
    LET id == counts.runs + 1 IN
    /\ job = Idle /\ undo = NoUndo
    /\ id \in RunIds
    /\ counts' = [counts EXCEPT !.runs = id]
    /\ runs' = [runs EXCEPT ![id].status = "running", ![id].before = root]
    /\ job' = [Idle EXCEPT !.id = id, !.target = target, !.step = "items",
                           !.todo = Plan(target, ids)]
    /\ UNCHANGED <<root, undo, since>>

-----------------------------------------------------------------------------
(* One item: _apply_item *)

Current == runs[job.id]

CopyToTemp(s) ==
    /\ job.step = "items" /\ s \in job.todo
    /\ job' = [job EXCEPT !.item = s, !.had = root[s] # Absent, !.step = "backup",
                          !.touched = @ \ {s}]
    /\ UNCHANGED <<root, runs, undo, since, counts>>

\* mutant: a link is copied as a link
BackedUpAsIs(s) == root[s]
BackedUp(s) == Copied(root[s])

BackUp ==
    /\ job.step = "backup"
    /\ job.had => root[job.item] # Absent
    /\ runs' = IF job.had THEN [runs EXCEPT ![job.id].backup[job.item] =
                                    BackedUp(job.item)]
               ELSE runs
    /\ job' = [job EXCEPT !.step = "remove",
                          !.touched = IF job.had THEN @ \ {job.item} ELSE @]
    /\ UNCHANGED <<root, undo, since, counts>>

Remove ==
    /\ job.step = "remove"
    /\ Becomes(Put(job.item, Absent), job.id)
    /\ job' = [job EXCEPT !.step = "rename"]
    /\ UNCHANGED <<runs, undo, counts>>

\* A rename onto a directory that came back meanwhile fails.
Rename ==
    /\ job.step = "rename"
    /\ root[job.item] = Absent
    /\ Becomes(Put(job.item, Dir(Staged[job.item])), job.id)
    /\ runs' = [runs EXCEPT ![job.id].applied =
                   Append(@, [skill |-> job.item, had |-> job.had])]
    /\ job' = [job EXCEPT !.step = "items", !.todo = @ \ {job.item},
                          !.item = Absent, !.had = FALSE]
    /\ UNCHANGED <<undo, counts>>

\* What the exception handler leaves: the backup goes back where nothing is.
\* mutant: the handler only removes the temporary copy
PutBackNothing == root
PutBack ==
    IF /\ job.had
       /\ Current.backup[job.item] # Absent
       /\ root[job.item] = Absent
    THEN Put(job.item, Current.backup[job.item])
    ELSE root

\* A removal that breaks off half-way leaves a part of the directory, and the
\* handler, that finds the target there, leaves it; its own copy may break off.
HalfReplaced ==
    IF \/ /\ job.step = "remove" /\ root[job.item] # Absent
          /\ root[job.item].kind = "dir"
       \/ job.step \in {"remove", "rename"} /\ PutBack # root
    THEN {Put(job.item, Part)} ELSE {}

Fail ==
    /\ job.step \in {"backup", "remove", "rename"}
    /\ \/ job.step = "backup" /\ job.had /\ root[job.item] = Absent
                               /\ counts' = counts
       \/ job.step = "rename" /\ root[job.item] # Absent /\ counts' = counts
       \/ /\ counts.failures < MaxFailures
          /\ counts' = [counts EXCEPT !.failures = @ + 1]
    /\ \E left \in {PutBack} \cup HalfReplaced : Becomes(left, job.id)
    /\ runs' = [runs EXCEPT ![job.id].status = "failed"]
    /\ job' = Idle
    /\ UNCHANGED undo

Complete ==
    /\ job.step = "items" /\ job.todo = {}
    /\ runs' = [runs EXCEPT ![job.id].status = "complete"]
    /\ job' = Idle
    /\ UNCHANGED <<root, undo, since, counts>>

-----------------------------------------------------------------------------
(* rollback_apply_record: the applied items backwards; what is there now is *)
(* removed, what was there comes back from the backup.                      *)

Rollback(id) ==
    /\ job = Idle /\ undo = NoUndo
    /\ runs[id].status \in {"complete", "failed"}
    /\ runs[id].applied # <<>>
    /\ undo' = [id |-> id, left |-> runs[id].applied, step |-> "remove"]
    /\ UNCHANGED <<root, runs, job, since, counts>>

Last == undo.left[Len(undo.left)]
Restored == IF Last.had THEN runs[undo.id].backup[Last.skill] ELSE Absent

UndoRemove ==
    /\ undo.step = "remove"
    /\ Last.had => runs[undo.id].backup[Last.skill] # Absent
    /\ Becomes(Put(Last.skill, Absent), undo.id)
    /\ undo' = [undo EXCEPT !.step = "copy"]
    /\ UNCHANGED <<runs, job, counts>>

UndoCopy ==
    /\ undo.step = "copy"
    /\ root[Last.skill] = Absent
    /\ Becomes(Put(Last.skill, Restored), undo.id)
    /\ undo' = IF Len(undo.left) = 1 THEN NoUndo
               ELSE [undo EXCEPT !.left = SubSeq(@, 1, Len(@) - 1),
                                 !.step = "remove"]
    /\ UNCHANGED <<runs, job, counts>>

\* copytree refuses a directory that came back meanwhile: the rollback stops.
UndoStops ==
    /\ undo.step = "copy"
    /\ root[Last.skill] # Absent
    /\ undo' = NoUndo
    /\ UNCHANGED <<root, runs, job, since, counts>>

-----------------------------------------------------------------------------
(* Everybody else *)

\* Nothing handles the failure of a rollback: it is half done, as after a crash.
HalfUndone ==
    IF \/ /\ undo.step = "remove" /\ root[Last.skill] # Absent
          /\ root[Last.skill].kind = "dir"
       \/ undo.step = "copy" /\ Restored # Absent /\ root[Last.skill] = Absent
    THEN {Put(Last.skill, Part)} ELSE {}

Crash ==
    /\ counts.failures < MaxFailures
    /\ counts' = [counts EXCEPT !.failures = @ + 1]
    /\ \/ /\ job # Idle
          /\ \E left \in {root} \cup HalfReplaced : Becomes(left, job.id)
          /\ runs' = [runs EXCEPT ![job.id].status = "dead"]
       \/ /\ job = Idle /\ undo # NoUndo
          /\ \E left \in {root} \cup HalfUndone : Becomes(left, undo.id)
          /\ runs' = runs
    /\ job' = Idle /\ undo' = NoUndo

\* A user edits, installs or removes a skill; fan-out replaces it by a link.
Edit(s, e) ==
    /\ counts.edits < MaxEdits
    /\ counts' = [counts EXCEPT !.edits = @ + 1]
    /\ e # root[s]
    /\ Becomes(Put(s, e), 0)
    /\ job' = IF job = Idle THEN Idle
              ELSE [job EXCEPT !.touched = @ \cup {s}, !.moved = @ \cup {s}]
    /\ UNCHANGED <<runs, undo>>

Next ==
    \/ \E target \in Targets, ids \in SUBSET Skills : Apply(target, ids)
    \/ \E s \in Skills : CopyToTemp(s) \/ \E e \in EditEntries : Edit(s, e)
    \/ BackUp \/ Remove \/ Rename \/ Fail \/ Complete
    \/ \E id \in RunIds : Rollback(id)
    \/ UndoRemove \/ UndoCopy \/ UndoStops
    \/ Crash

Spec == Init /\ [][Next]_vars

-----------------------------------------------------------------------------
(* Properties *)

\* A run never removes content that its backups do not hold, wherever it
\* fails or dies, unless somebody wrote it after the backup was made
\* (apply.py:352-356).
ReplacedIsBackedUp ==
    [][\A s \in Skills :
         job.id # 0 /\ root[s] # Absent /\ root'[s] # root[s]
         /\ counts'.edits = counts.edits /\ s \notin job.touched
            => Current.backup[s] = Copied(root[s])]_vars

\* Run id replaced s.
Replaced(id, s) ==
    \E i \in 1..Len(runs[id].applied) : runs[id].applied[i].skill = s

AsBefore(id, s, e) == Copied(e) = Copied(runs[id].before[s])

\* A removal or the handler's copy broke off: the backup holds what was there.
\* A part is told by its content alone, and the next run takes it for a skill.
OnlyInBackup(id, s, e) ==
    e = Part /\ runs[id].backup[s] = Copied(runs[id].before[s])

\* A run that fails half-way leaves every skill it does not record as applied
\* with the content it had, or in parts with that content in its backup, unless
\* others changed it since (apply.py:279-288, 358-362).
FailedPutsBack ==
    [][\A id \in RunIds, s \in Skills :
         runs[id].status = "running" /\ runs'[id].status = "failed"
         /\ s \notin since[id] /\ ~ Replaced(id, s)
            => AsBefore(id, s, root'[s]) \/ OnlyInBackup(id, s, root'[s])]_vars

\* Rolling a record back to its end, of a complete or a failed run, gives every
\* skill it lists that nobody else changed since the content it had before that
\* run, whatever other runs and rollbacks happened to the other skills, and
\* disturbs none it does not list (apply.py:291-330).
RollbackRestores ==
    [][Len(undo.left) = 1 /\ undo' = NoUndo /\ counts' = counts =>
         \A s \in Skills \ since'[undo.id] :
            \/ AsBefore(undo.id, s, root'[s])
            \/ ~ Replaced(undo.id, s) /\ OnlyInBackup(undo.id, s, root'[s])]_vars

\* A link into the canonical root that was there when a run into a tool was
\* planned is not replaced by a copy (apply.py:386-398).
CanonicalLinksStay ==
    [][job.step = "remove" /\ job.target = "tool"
       /\ root[job.item] # Absent /\ root[job.item].kind = "canonical"
         => job.item \in job.moved]_vars

-----------------------------------------------------------------------------
(* The inductive invariant behind them *)

\* The item at hand is being replaced.
InHand(s) == job.step \in {"backup", "remove", "rename"} /\ s = job.item

\* One run or rollback is under way at a time, on skills of its plan.
JobIsSound ==
    /\ job.step = "idle" <=> job = Idle
    /\ job # Idle => job.id \in RunIds /\ undo = NoUndo
    /\ job.step \in {"backup", "remove", "rename"} => job.item \in job.todo
    /\ \A s \in job.todo : Staged[s] # Absent

RunsAreSound ==
    \A id \in RunIds : /\ runs[id].status = "running" <=> job.id = id
                       /\ id > counts.runs => runs[id] = Unused

UndoIsSound ==
    /\ undo.step = "idle" <=> undo = NoUndo
    /\ undo # NoUndo =>
          /\ undo.id \in RunIds
          /\ runs[undo.id].status \in {"complete", "failed"}
          /\ Len(undo.left) \in 1..Len(runs[undo.id].applied)
          /\ \A i \in 1..Len(undo.left) : undo.left[i] = runs[undo.id].applied[i]

OneAtATime == JobIsSound /\ RunsAreSound /\ UndoIsSound

\* What the run under way finds in place of its item, if nobody else wrote it.
InPlace ==
    \A s \in Skills :
       /\ InHand(s) /\ s \notin job.touched =>
             /\ job.step \in {"backup", "remove"} => (job.had <=> root[s] # Absent)
             /\ job.step = "remove" /\ job.had => Current.backup[s] = Copied(root[s])
       /\ job.target = "tool" /\ s \in job.todo \ job.moved => ~ LinkedToCanonical(s)

\* What a run wrote down tells what it found.
Remembered ==
    \A id \in RunIds : \A s \in Skills \ since[id] :
       \A i \in 1..Len(runs[id].applied) :
          LET item == runs[id].applied[i] IN
          item.skill = s =>
             /\ item.had <=> runs[id].before[s] # Absent
             /\ item.had => runs[id].backup[s] = Copied(runs[id].before[s])

\* The skills a run did not replace are as it found them.
OthersAsBefore ==
    \A id \in RunIds : \A s \in Skills \ since[id] :
       /\ runs[id].status = "running" /\ ~ Replaced(id, s)
             /\ ~ (job.step = "rename" /\ s = job.item) =>
                root[s] = runs[id].before[s]
       /\ runs[id].status \in {"complete", "failed"} /\ ~ Replaced(id, s) =>
             AsBefore(id, s, root[s]) \/ OnlyInBackup(id, s, root[s])

\* The item at hand is in its place, in the backup, or was not there.
HeldAsBefore ==
    job # Idle =>
       /\ \A s \in Skills : Replaced(job.id, s) => s \notin job.todo
       /\ \A s \in Skills \ since[job.id] :
             /\ InHand(s) => (job.had <=> Current.before[s] # Absent)
             /\ InHand(s) /\ job.had /\ job.step # "backup" =>
                   Current.backup[s] = Copied(Current.before[s])
             /\ job.step = "rename" /\ s = job.item => root[s] = Absent

\* What a rollback has restored so far.
RestoredSoFar ==
    undo # NoUndo =>
       \A s \in Skills \ since[undo.id] :
          /\ undo.step = "copy" /\ s = Last.skill => root[s] = Absent
          /\ ~ (undo.step = "copy" /\ s = Last.skill) =>
                \A i \in 1..Len(runs[undo.id].applied) :
                   i > Len(undo.left) /\ runs[undo.id].applied[i].skill = s =>
                      Copied(root[s]) = Copied(runs[undo.id].before[s])

ApplyInv ==
    /\ ApplyTypeOK /\ OneAtATime /\ InPlace
    /\ Remembered /\ OthersAsBefore /\ HeldAsBefore /\ RestoredSoFar
=============================================================================
