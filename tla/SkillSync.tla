------------------------------ MODULE SkillSync ------------------------------
(***************************************************************************)
(* Devices that synchronise their local skill roots through one central    *)
(* snapshot on a remote.  Each device runs the daemon of daemon.py: a loop *)
(* of sync cycles (sync_cycle.py) that downloads the snapshot into a cache *)
(* (remote.py), decides (SyncDecision), and, when nothing is blocked,      *)
(* pulls and pushes (sync_apply.py, apply.py, snapshot.py, remote.py).     *)
(* Users edit the local roots meanwhile, an operator deprecates and        *)
(* reactivates central skills (central_lifecycle.py), and a cycle may be   *)
(* interrupted between any two steps.                                      *)
(*                                                                         *)
(* A step of the model is one read or write of a shared thing: the remote  *)
(* index, one remote archive, one skill directory, the base record.        *)
(***************************************************************************)
EXTENDS SyncDecision, Naturals

CONSTANTS
    Devices,
    Skills,
    NoSkill,        \* not a skill
    Policy,         \* writer policy of each device
    Override,       \* Override[d][s]: flags of the local overrides file
    Unfit,          \* Unfit[d]: skills whose scope or targets d refuses
    AllowNew,       \* --allow-new
    AllowDelete,    \* --allow-delete
    StopOnBlocked,  \* devices that run without --continue-on-blocked
    InitialIndex,   \* what the first upload put on the remote
    InitialLocal,   \* what each device starts with
    Editors,        \* devices whose user edits the local root
    EditPhases,     \* phases of its daemon in which a user edits
    Drafts,         \* what users write, Absent for a removal
    MaxEdits,       \* bound on user edits
    MaxFaults,      \* bound on interrupted cycles
    MaxLifecycle    \* bound on lifecycle operations

Phases ==
    {"idle", "fetching", "gated", "asserting", "pulling", "replacing",
     "scanning", "uploading", "recording", "stopped"}

ASSUME SkillAssumption == NoSkill \notin Skills
ASSUME ConfigAssumption ==
    /\ Policy \in [Devices -> Policies]
    /\ Override \in [Devices -> [Skills -> SUBSET OverrideFlags]]
    /\ Unfit \in [Devices -> SUBSET Skills]
    /\ AllowNew \in BOOLEAN
    /\ AllowDelete \in BOOLEAN
    /\ StopOnBlocked \subseteq Devices
ASSUME InitialAssumption ==
    /\ InitialIndex \in [Skills -> Content]
    /\ InitialLocal \in [Devices -> [Skills -> Content]]
ASSUME BoundAssumption ==
    /\ Editors \subseteq Devices
    /\ EditPhases \subseteq Phases
    /\ Drafts \subseteq Content
    /\ MaxEdits \in Nat
    /\ MaxFaults \in Nat
    /\ MaxLifecycle \in Nat

VARIABLES
    index,      \* the remote's index.json
    archives,   \* the remote's content-addressed archives
    local,      \* local[d]: what d's skill root holds
    base,       \* base[d]: d's base-record file
    cache,      \* cache[d]: the index.json of d's cache directory
    cached,     \* cached[d]: the archives of d's cache directory
    pc,         \* pc[d]: where d's daemon is in its cycle
    job,        \* job[d]: what the running cycle holds in memory
    lifecycle,  \* the lifecycle operation under way
    dirty,      \* history: skills d's user changed since they last agreed
    edits, faults, lifecycles   \* counters for the bounds

central == <<index, archives>>
mirror == <<cache, cached>>
counters == <<edits, faults, lifecycles>>
vars == <<index, archives, local, base, cache, cached, pc, job, lifecycle,
          dirty, counters>>

-----------------------------------------------------------------------------
Hashes == [Skills -> Content]
Nothing == [s \in Skills |-> Absent]
Archive == Skills \X Versions
Index == [hash: Hashes, deprecated: SUBSET Skills]

\* plan: the preview being executed; done: the skills whose install, then whose
\* upload, is finished; item, had: the skill being replaced and what it was;
\* snap: the scan being uploaded; raced: the remote hashes changed after
\* this cycle had compared them (history).
Job == [plan: [Skills -> Actions], done: SUBSET Skills,
        item: Skills \cup {NoSkill}, had: Content, snap: Hashes,
        raced: BOOLEAN]
NoJob == [plan |-> [s \in Skills |-> "noop"], done |-> {}, item |-> NoSkill,
          had |-> Absent, snap |-> Nothing, raced |-> FALSE]

LifecycleStates == {"published", "deprecated"}
Operation == [skill: Skills, to: LifecycleStates, seen: Index]
NoOperation == [skill |-> NoSkill, to |-> "published",
                seen |-> [hash |-> Nothing, deprecated |-> {}]]

TypeOK ==
    /\ index \in Index
    /\ archives \subseteq Archive
    /\ local \in [Devices -> Hashes]
    /\ base \in [Devices -> Hashes]
    /\ cache \in [Devices -> Index]
    /\ cached \in [Devices -> SUBSET Archive]
    /\ pc \in [Devices -> Phases]
    /\ job \in [Devices -> Job]
    /\ lifecycle \in Operation \cup {NoOperation}
    /\ dirty \in [Devices -> SUBSET Skills]
    /\ edits \in Nat
    /\ faults \in Nat
    /\ lifecycles \in Nat

\* The archives an index refers to.
Referenced(hashes) == {<<s, hashes[s]>> : s \in {t \in Skills : hashes[t] # Absent}}

Init ==
    /\ index = [hash |-> InitialIndex, deprecated |-> {}]
    /\ archives = Referenced(InitialIndex)
    /\ local = InitialLocal
    /\ base = [d \in Devices |-> [s \in Skills |->
                  IF InitialLocal[d][s] = InitialIndex[s]
                  THEN InitialIndex[s] ELSE Absent]]
    /\ cache = [d \in Devices |-> [hash |-> Nothing, deprecated |-> {}]]
    /\ cached = [d \in Devices |-> {}]
    /\ pc = [d \in Devices |-> "idle"]
    /\ job = [d \in Devices |-> NoJob]
    /\ lifecycle = NoOperation
    /\ dirty = [d \in Devices |-> {s \in Skills :
                  InitialLocal[d][s] \notin {Absent, InitialIndex[s]}}]
    /\ edits = 0 /\ faults = 0 /\ lifecycles = 0

-----------------------------------------------------------------------------
(* The decision of device d from what it reads now. *)

Status(d, s) ==
    ClassifyWithOverride(base[d][s], local[d][s], cache[d].hash[s],
                         s \in cache[d].deprecated, Override[d][s])

Plan(d) ==
    [s \in Skills |->
        ApplyWriterPolicy(PlanItem(Status(d, s), AllowNew, AllowDelete),
                          Policy[d])]

Having(plan, actions) == {s \in Skills : plan[s] \in actions}
Pulls(d) == Having(job[d].plan, PULL_ACTIONS)
Pushes(d) == Having(job[d].plan, PUSH_ACTIONS)

\* What keeps a cycle from executing its plan.
Halting(plan) == Having(plan, {"blocked"} \cup DELETE_PLAN_ACTIONS)

\* What execute_sync_apply refuses on top of it.
Unsupported(d, plan) == Having(plan, PULL_ACTIONS) \cap Unfit[d]

Goto(d, phase) == pc' = [pc EXCEPT ![d] = phase]
EndCycle(d, phase) == Goto(d, phase) /\ job' = [job EXCEPT ![d] = NoJob]

\* Cached archives still to be downloaded for the cached index.
Missing(d) == Referenced(cache[d].hash) \ cached[d]

-----------------------------------------------------------------------------
(* Download *)

FetchIndex(d) ==
    /\ pc[d] = "idle"
    /\ cache' = [cache EXCEPT ![d] = index]
    /\ Goto(d, "fetching")
    /\ UNCHANGED <<central, local, base, cached, job, lifecycle, dirty, counters>>

FetchArchive(d) ==
    /\ pc[d] = "fetching"
    /\ \E a \in Missing(d) \cap archives :
          cached' = [cached EXCEPT ![d] = @ \cup {a}]
    /\ UNCHANGED <<central, local, base, cache, pc, job, lifecycle, dirty, counters>>

\* The index names an archive the remote does not have: the cycle fails.
FetchDangling(d) ==
    /\ pc[d] = "fetching"
    /\ Missing(d) \ archives # {}
    /\ EndCycle(d, "idle")
    /\ UNCHANGED <<central, local, base, mirror, lifecycle, dirty, counters>>

-----------------------------------------------------------------------------
(* Decide: run_sync_cycle plans once to see whether it may go on, and       *)
(* execute_sync_apply plans again before it acts.                           *)

\* mutant: --continue-on-blocked is ignored
GateBlockedStops(d) ==
    /\ pc[d] = "fetching" /\ Missing(d) = {}
    /\ Halting(Plan(d)) # {}
    /\ EndCycle(d, "stopped")
    /\ UNCHANGED <<central, local, base, mirror, lifecycle, dirty, counters>>

GateBlocked(d) ==
    /\ pc[d] = "fetching" /\ Missing(d) = {}
    /\ Halting(Plan(d)) # {}
    /\ EndCycle(d, IF d \in StopOnBlocked THEN "stopped" ELSE "idle")
    /\ UNCHANGED <<central, local, base, mirror, lifecycle, dirty, counters>>

\* mutant: the decision does not wait for the archives
GatePassedEarly(d) ==
    /\ pc[d] = "fetching"
    /\ Halting(Plan(d)) = {}
    /\ Goto(d, "gated")
    /\ UNCHANGED <<central, local, base, mirror, job, lifecycle, dirty, counters>>

GatePassed(d) ==
    /\ pc[d] = "fetching" /\ Missing(d) = {}
    /\ Halting(Plan(d)) = {}
    /\ Goto(d, "gated")
    /\ UNCHANGED <<central, local, base, mirror, job, lifecycle, dirty, counters>>

\* Blocked or unsupported by now, or nothing to do.
PreviewEnds(d) ==
    /\ pc[d] = "gated"
    /\ LET plan == Plan(d) IN
          \/ Halting(plan) \cup Unsupported(d, plan) # {}
          \/ Having(plan, PULL_ACTIONS \cup PUSH_ACTIONS) = {}
    /\ EndCycle(d, "idle")
    /\ UNCHANGED <<central, local, base, mirror, lifecycle, dirty, counters>>

PreviewAccepted(d) ==
    /\ pc[d] = "gated"
    /\ LET plan == Plan(d) IN
          /\ Halting(plan) \cup Unsupported(d, plan) = {}
          /\ Having(plan, PULL_ACTIONS \cup PUSH_ACTIONS) # {}
          /\ job' = [job EXCEPT ![d].plan = plan]
          /\ Goto(d, IF Having(plan, PUSH_ACTIONS) # {}
                     THEN "asserting" ELSE "pulling")
    /\ UNCHANGED <<central, local, base, mirror, lifecycle, dirty, counters>>

\* _assert_remote_matches_cache compares hashes; lifecycle states are not.
\* mutant: nothing is compared
RemoteUnchecked(d) == TRUE
RemoteMatchesCache(d) == index.hash = cache[d].hash

AssertRemote(d) ==
    /\ pc[d] = "asserting"
    /\ IF RemoteMatchesCache(d)
       THEN Goto(d, "pulling") /\ UNCHANGED job
       ELSE EndCycle(d, "idle")
    /\ UNCHANGED <<central, local, base, mirror, lifecycle, dirty, counters>>

-----------------------------------------------------------------------------
(* Pull: per skill, back up and remove the directory, then move the staged  *)
(* copy in place.                                                           *)

RemoveTarget(d, s) ==
    /\ pc[d] = "pulling"
    /\ s \in Pulls(d) \ job[d].done
    /\ job' = [job EXCEPT ![d].item = s, ![d].had = local[d][s]]
    /\ local' = [local EXCEPT ![d][s] = Absent]
    /\ Goto(d, "replacing")
    /\ UNCHANGED <<central, base, mirror, lifecycle, dirty, counters>>

InstallTarget(d) ==
    LET s == job[d].item IN
    /\ pc[d] = "replacing"
    /\ local[d][s] = Absent
    /\ local' = [local EXCEPT ![d][s] = cache[d].hash[s]]
    /\ job' = [job EXCEPT ![d].item = NoSkill, ![d].had = Absent,
                          ![d].done = @ \cup {s}]
    /\ dirty' = [dirty EXCEPT ![d] = @ \ {s}]
    /\ Goto(d, "pulling")
    /\ UNCHANGED <<central, base, mirror, lifecycle, counters>>

\* The rename fails: on a directory that came back, or on the file system.
\* The backup is copied back when the place is free.
InstallFails(d) ==
    LET s == job[d].item
        free == local[d][s] = Absent IN
    /\ pc[d] = "replacing"
    /\ free => faults < MaxFaults
    /\ local' = IF free THEN [local EXCEPT ![d][s] = job[d].had] ELSE local
    /\ faults' = IF free THEN faults + 1 ELSE faults
    /\ EndCycle(d, "idle")
    /\ UNCHANGED <<central, base, mirror, lifecycle, dirty, edits, lifecycles>>

PullsFinished(d) ==
    /\ pc[d] = "pulling"
    /\ Pulls(d) \subseteq job[d].done
    /\ job' = [job EXCEPT ![d].done = {}]
    /\ Goto(d, IF Pushes(d) # {} THEN "scanning" ELSE "recording")
    /\ UNCHANGED <<central, local, base, mirror, lifecycle, dirty, counters>>

-----------------------------------------------------------------------------
(* Push: a scan of the whole local root becomes the new index; only the     *)
(* archives of the planned pushes are uploaded, the index goes last.        *)

ScanLocal(d) ==
    /\ pc[d] = "scanning"
    /\ job' = [job EXCEPT ![d].snap = local[d]]
    /\ Goto(d, "uploading")
    /\ UNCHANGED <<central, local, base, mirror, lifecycle, dirty, counters>>

\* mutant: a planned skill is uploaded even if the scan did not find it
ToUploadUnfound(d) == Pushes(d)
ToUpload(d) == {s \in Pushes(d) : job[d].snap[s] # Absent}

UploadArchive(d, s) ==
    /\ pc[d] = "uploading"
    /\ s \in ToUpload(d) \ job[d].done
    /\ archives' = archives \cup {<<s, job[d].snap[s]>>}
    /\ job' = [job EXCEPT ![d].done = @ \cup {s}]
    /\ UNCHANGED <<index, local, base, mirror, pc, lifecycle, dirty, counters>>

\* Devices that have compared the remote and not yet written it.
PastCheck(e) ==
    /\ pc[e] \in {"pulling", "replacing", "scanning", "uploading"}
    /\ Pushes(e) # {}

\* The jobs after the remote hashes became those of new.
Overtaken(new) ==
    [e \in Devices |->
        IF PastCheck(e) /\ new.hash # index.hash
        THEN [job[e] EXCEPT !.raced = TRUE] ELSE job[e]]

SnapshotIndex(d) == [hash |-> job[d].snap, deprecated |-> {}]

\* mutant: the index does not wait for the archives
WriteIndexEarly(d) ==
    /\ pc[d] = "uploading"
    /\ index' = SnapshotIndex(d)
    /\ dirty' = [dirty EXCEPT ![d] = {s \in @ : local[d][s] # job[d].snap[s]}]

WriteIndex(d) ==
    /\ pc[d] = "uploading"
    /\ ToUpload(d) \subseteq job[d].done
    /\ index' = SnapshotIndex(d)
    /\ dirty' = [dirty EXCEPT ![d] = {s \in @ : local[d][s] # job[d].snap[s]}]

PutIndex(d) ==
    /\ WriteIndex(d)
    /\ job' = [Overtaken(SnapshotIndex(d)) EXCEPT ![d] = job[d]]
    /\ Goto(d, "recording")
    /\ UNCHANGED <<archives, local, base, mirror, lifecycle, counters>>

\* The remote stored the index, but the device never learns it did.
PutIndexUnacknowledged(d) ==
    /\ WriteIndex(d)
    /\ faults < MaxFaults
    /\ faults' = faults + 1
    /\ job' = [Overtaken(SnapshotIndex(d)) EXCEPT ![d] = NoJob]
    /\ Goto(d, "idle")
    /\ UNCHANGED <<archives, local, base, mirror, lifecycle, edits, lifecycles>>

\* After a push the record holds the whole pushed index; after a cycle that
\* only pulled it is the apply record, which lists the pulled skills alone.
\* mutant: the record holds the index the push replaced
NewBaseOfCache(d) == cache[d].hash
\* mutant: only a push is recorded
NewBaseOfPush(d) == IF Pushes(d) # {} THEN job[d].snap ELSE base[d]

NewBase(d) ==
    IF Pushes(d) # {} THEN job[d].snap
    ELSE [s \in Skills |-> IF s \in Pulls(d) THEN cache[d].hash[s] ELSE Absent]

RecordBase(d) ==
    /\ pc[d] = "recording"
    /\ base' = [base EXCEPT ![d] = NewBase(d)]
    /\ EndCycle(d, "idle")
    /\ UNCHANGED <<central, local, mirror, lifecycle, dirty, counters>>

-----------------------------------------------------------------------------
(* The rest of the world *)

\* A remote or local error ends the cycle, or the process dies and is started
\* again: what is on disk stays as it is.
Interrupt(d) ==
    /\ pc[d] \notin {"idle", "stopped"}
    /\ faults < MaxFaults
    /\ faults' = faults + 1
    /\ EndCycle(d, "idle")
    /\ UNCHANGED <<central, local, base, mirror, lifecycle, dirty, edits, lifecycles>>

\* A daemon that stopped on a blocked cycle is started again by its user.
Restart(d) ==
    /\ pc[d] = "stopped"
    /\ Goto(d, "idle")
    /\ UNCHANGED <<central, local, base, mirror, job, lifecycle, dirty, counters>>

Edit(d, s, content) ==
    /\ d \in Editors
    /\ pc[d] \in EditPhases
    /\ content \in Drafts
    /\ edits < MaxEdits
    /\ content # local[d][s]
    /\ edits' = edits + 1
    /\ local' = [local EXCEPT ![d][s] = content]
    /\ dirty' = [dirty EXCEPT ![d] = @ \cup {s}]
    /\ UNCHANGED <<central, base, mirror, pc, job, lifecycle, faults, lifecycles>>

\* execute_central_deprecate and execute_central_reactivate compare the whole
\* remote index with the operator's copy, then put the changed copy.
LifecycleCheck(s, to) ==
    /\ lifecycle = NoOperation
    /\ lifecycles < MaxLifecycle
    /\ index.hash[s] # Absent
    /\ s \in index.deprecated <=> to = "published"
    /\ lifecycle' = [skill |-> s, to |-> to, seen |-> index]
    /\ lifecycles' = lifecycles + 1
    /\ UNCHANGED <<central, local, base, mirror, pc, job, dirty, edits, faults>>

LifecycleIndex ==
    [hash |-> lifecycle.seen.hash,
     deprecated |-> IF lifecycle.to = "deprecated"
                    THEN lifecycle.seen.deprecated \cup {lifecycle.skill}
                    ELSE lifecycle.seen.deprecated \ {lifecycle.skill}]

LifecyclePut ==
    /\ lifecycle # NoOperation
    /\ index' = LifecycleIndex
    /\ job' = Overtaken(LifecycleIndex)
    /\ lifecycle' = NoOperation
    /\ UNCHANGED <<archives, local, base, mirror, pc, dirty, counters>>

-----------------------------------------------------------------------------
Daemon(d) ==
    \/ FetchIndex(d) \/ FetchArchive(d) \/ FetchDangling(d)
    \/ GateBlocked(d) \/ GatePassed(d) \/ PreviewEnds(d) \/ PreviewAccepted(d)
    \/ AssertRemote(d)
    \/ \E s \in Skills : RemoveTarget(d, s)
    \/ InstallTarget(d) \/ PullsFinished(d)
    \/ ScanLocal(d)
    \/ \E s \in Skills : UploadArchive(d, s)
    \/ PutIndex(d) \/ RecordBase(d)

Fault(d) == InstallFails(d) \/ PutIndexUnacknowledged(d) \/ Interrupt(d)

Environment ==
    \/ \E d \in Devices : Restart(d)
    \/ \E d \in Devices, s \in Skills, content \in Content : Edit(d, s, content)
    \/ \E s \in Skills, to \in LifecycleStates : LifecycleCheck(s, to)
    \/ LifecyclePut

Next ==
    \/ \E d \in Devices : Daemon(d) \/ Fault(d)
    \/ Environment

Spec == Init /\ [][Next]_vars
FairSpec == Spec /\ \A d \in Devices : WF_vars(Daemon(d))

-----------------------------------------------------------------------------
(* Properties.  Quiet is the condition some of them need: nobody edits a    *)
(* skill root from the moment execute_sync_apply has planned until the      *)
(* cycle ends.  The code takes no lock against it.                          *)

QuietPhases == {"idle", "fetching", "gated", "stopped"}
Quiet == EditPhases \subseteq QuietPhases
NoOverrides == \A d \in Devices, s \in Skills : Override[d][s] = {}

\* Every archive the remote index refers to is on the remote: the index is
\* written last (remote.py:243), so a reader never follows it into nothing,
\* whatever was interrupted and whoever pushed at the same time.
IndexComplete == Referenced(index.hash) \subseteq archives

\* A cycle removes or replaces a local version only when central can give it
\* back: what the user wrote and nobody uploaded is never pulled over.
UnpublishedKept ==
    [][edits' = edits =>
         \A d \in Devices, s \in Skills :
            local'[d][s] # local[d][s] /\ local[d][s] # Absent
               => <<s, local[d][s]>> \in archives]_vars

\* A device sends central another version of a skill only when its user changed
\* it: a stale base record never makes an old copy look like a local edit to send
\* back, as long as every cycle could record its base.  (A skill that overlapping
\* pushes made central lose may come back from anyone who still has it.)
OnlyEditsArePushed ==
    faults = 0 =>
       \A d \in Devices : PastCheck(d) =>
          \A s \in Pushes(d) : s \in dirty[d] \/ cache[d].hash[s] = Absent

\* While the index a cycle works from marks a skill deprecated, the cycle
\* leaves the device's copy, or its absence, alone (sync_state.py:125-133).
DeprecatedUntouched ==
    [][edits' = edits =>
         \A d \in Devices : \A s \in cache[d].deprecated :
            local'[d][s] = local[d][s]]_vars

\* What a cycle puts in a skill root is central's and still stored there,
\* even when the index it came from had entries without an archive.
PulledIsArchived ==
    [][edits' = edits =>
         \A d \in Devices, s \in Skills :
            local'[d][s] \notin {local[d][s], Absent, job[d].had}
               => <<s, local'[d][s]>> \in archives]_vars

\* A skill its user did not touch is never decided to be in conflict
\* ("Local unchanged, remote changed: pull is safe", protocol-v0.md:80).
NoFalseConflict ==
    \A d \in Devices, s \in Skills :
       /\ pc[d] = "fetching" /\ Missing(d) = {}
       /\ Status(d, s) = "conflict"
       => s \in dirty[d]

\* Once the edits stop, every device ends up with what central has, and keeps
\* it, unless an editor deleted its copy: nothing undoes that automatically.
Converges ==
    <>[](\A s \in Skills :
           (\A e \in Editors : local[e][s] # Absent)
              => \A d \in Devices : local[d][s] = index.hash[s])

\* A skill leaves the deprecated state only through the lifecycle operation
\* ("only after dry-run plus explicit REACTIVATE", protocol-v0.md:147).
ReactivationIsExplicit ==
    [][lifecycle' = lifecycle => index.deprecated \subseteq index'.deprecated]_vars

\* A skill marked local-only on the one device that has it never reaches
\* central (operations.md:422).
LocalOnlyStaysLocal ==
    \A s \in Skills :
       /\ InitialIndex[s] = Absent
       /\ \A d \in Devices :
             local[d][s] # Absent => "local_only" \in Override[d][s]
       => index.hash[s] = Absent

\* A push that finds the remote drifted is refused, so the index it replaces
\* is the one it decided from (protocol-v0.md:197).
NoBlindOverwrite ==
    [][\A d \in Devices :
         pc[d] = "uploading" /\ pc'[d] # "uploading" /\ index' # index
            => index.hash = cache[d].hash]_vars

-----------------------------------------------------------------------------
(* The cycle implements SyncPromise when Quiet holds and no override or     *)
(* lifecycle operation is in play.                                          *)

Promise == INSTANCE SyncPromise WITH
    catalog <- index.hash,
    store <- archives,
    copy <- local,
    view <- [d \in Devices |-> cache[d].hash],
    swap <- [d \in Devices |-> IF pc[d] = "replacing"
                               THEN <<job[d].item, job[d].had>> ELSE <<>>],
    InitialCatalog <- InitialIndex,
    InitialCopies <- InitialLocal

\* Whatever is interrupted, and however cycles overlap: a catalog entry that
\* differs from what the pushing device had downloaded is its own copy and
\* never a deletion, everything listed was stored before, and a copy is
\* replaced only by what was listed and only if it was stored ("sync-cycle
\* --yes does not execute deletions", protocol-v0.md:215).
ImplementsPromise == Promise!Spec

-----------------------------------------------------------------------------
(* The inductive invariant behind ImplementsPromise when Quiet and          *)
(* NoOverrides hold and nothing is ever deprecated.                         *)

NothingDeprecated ==
    /\ index.deprecated = {}
    /\ \A d \in Devices : cache[d].deprecated = {}
    /\ lifecycle = NoOperation

\* While a directory is being replaced, the cycle knows which one.
Replacing == \A d \in Devices : pc[d] = "replacing" => job[d].item \in Skills

\* Between cycles, and until a plan is accepted, nothing is held in memory.
Unplanned == \A d \in Devices : pc[d] \in QuietPhases => job[d] = NoJob

\* Whatever anybody refers to is archived.
Archived ==
    /\ IndexComplete
    /\ \A d \in Devices :
          /\ Referenced(base[d]) \subseteq archives
          /\ cached[d] \subseteq archives
          /\ pc[d] \notin {"idle", "fetching", "stopped"} => Missing(d) = {}

\* From the plan to the scan, a skill is central's version, or a planned push,
\* or a planned pull whose target is still the base or already removed.
LocalAsPlanned ==
    \A d \in Devices : pc[d] \in {"asserting", "pulling", "replacing", "scanning"} =>
       \A s \in Skills :
          \/ local[d][s] = cache[d].hash[s]
          \/ s \in Pushes(d)
          \/ /\ pc[d] # "scanning"
             /\ s \in Pulls(d) \ job[d].done
             /\ local[d][s] \in {base[d][s], Absent}

\* A cycle scans because it pushes; what it uploads is central's version or a
\* planned push, and what is marked as uploaded is.
ScanAsPlanned ==
    \A d \in Devices :
       /\ pc[d] \in {"scanning", "uploading"} => Pushes(d) # {}
       /\ pc[d] = "scanning" => job[d].done = {}
       /\ pc[d] = "uploading" =>
             \A s \in Skills :
                /\ job[d].snap[s] = cache[d].hash[s] \/ s \in Pushes(d)
                /\ s \in job[d].done => <<s, job[d].snap[s]>> \in archives
       /\ pc[d] = "recording" /\ Pushes(d) # {} =>
             Referenced(job[d].snap) \subseteq archives

\* What is planned as a pull is there to be pulled, what is planned as a push is
\* there to be pushed, and the upload is of what the skill root holds.
PlanBacked ==
    \A d \in Devices :
       pc[d] \in {"asserting", "pulling", "replacing", "scanning", "uploading"} =>
          /\ \A s \in Pulls(d) : cache[d].hash[s] # Absent
          /\ \A s \in Pushes(d) : local[d][s] # Absent
          /\ pc[d] = "replacing" => job[d].item \in Pulls(d)
          /\ pc[d] = "uploading" => job[d].snap = local[d]

IInv ==
    /\ TypeOK
    /\ Replacing
    /\ NothingDeprecated
    /\ Unplanned
    /\ Archived
    /\ LocalAsPlanned
    /\ ScanAsPlanned

\* Together with PlanBacked it makes every step one of SyncPromise.
RefinementInv == IInv /\ PlanBacked

\* What one device knows of its pulls whatever others edit, deprecate, push or
\* interrupt: its cache lacks no archive, and lists as published what it pulls.
PullFacts(d) ==
    /\ cached[d] \subseteq archives
    /\ pc[d] \notin {"idle", "fetching", "stopped"} => Missing(d) = {}
    /\ pc[d] \in {"asserting", "pulling", "replacing"} =>
          \A s \in Pulls(d) :
             cache[d].hash[s] # Absent /\ s \notin cache[d].deprecated
    /\ pc[d] = "replacing" => job[d].item \in Pulls(d)

\* What makes DeprecatedUntouched and PulledIsArchived inductive.
PullInv == TypeOK /\ Replacing /\ \A d \in Devices : PullFacts(d)
=============================================================================
