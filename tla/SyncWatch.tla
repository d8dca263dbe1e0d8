------------------------------ MODULE SyncWatch ------------------------------
(***************************************************************************)
(* SkillSync with a record of what disturbs its cycles, so that a property *)
(* names the skills and the devices for which the code does not promise it *)
(* instead of assuming a calm world.  Nothing here is state of the code.   *)
(***************************************************************************)
EXTENDS SkillSync

VARIABLES
    late,       \* late[d]: skills d's user changed since the running cycle planned
    unrecorded  \* devices whose last cycle that acted did not record its base

wvars == <<vars, late, unrecorded>>

\* A cycle that may have pulled or pushed is over without its base record.
CutShort(d) ==
    /\ pc[d] \notin QuietPhases \cup {"asserting"}
    /\ pc'[d] \in QuietPhases
    /\ pc[d] = "recording" => faults' # faults

Records(d) == pc[d] = "recording" /\ pc'[d] = "idle" /\ faults' = faults

Watch ==
    /\ late' = [d \in Devices |->
          IF pc'[d] \in QuietPhases THEN {}
          ELSE late[d] \cup {s \in Skills : /\ edits' # edits
                                            /\ local'[d][s] # local[d][s]}]
    /\ unrecorded' = (unrecorded \cup {d \in Devices : CutShort(d)})
                        \ {d \in Devices : Records(d)}

WatchedInit == Init /\ late = [d \in Devices |-> {}] /\ unrecorded = {}
WatchedSpec == WatchedInit /\ [][Next /\ Watch]_wvars

WatchTypes == late \in [Devices -> SUBSET Skills] /\ unrecorded \subseteq Devices

-----------------------------------------------------------------------------
(* Properties *)

\* What the pushed index may say of a skill nobody planned to push: the scan
\* finds what the user wrote after the plan, a deprecated skill as the device
\* has it, and the content an override only hides from the decision.
Exempt(d) ==
    late[d] \cup cache[d].deprecated \cup {s \in Skills : Override[d][s] # {}}

\* A push replaces the whole index by a scan made after the decision; if no
\* other writer came between, only the skills planned as push or push_new and
\* the exempt ones change on the remote (sync_apply.py:147, 278-297).  Edits
\* of other skills, and their overrides and marks, do not matter.
PushTouchesOnlyPlanned ==
    [][\A d \in Devices :
         /\ pc[d] = "uploading" /\ pc'[d] # "uploading"
         /\ ~ job[d].raced
         => \A s \in Skills \ (Pushes(d) \cup Exempt(d)) :
               index'.hash[s] = index.hash[s]]_wvars

\* A device sends central another version of a skill only when its user changed
\* it: a stale base record never makes an old copy look like a local edit to
\* send back, unless the device's last cycle that acted was cut short before it
\* recorded.  (A skill that overlapping pushes made central lose may come back
\* from anyone who still has it.)
PushesAreEdits ==
    \A d \in Devices \ unrecorded : PastCheck(d) =>
       \A s \in Pushes(d) : s \in dirty[d] \/ cache[d].hash[s] = Absent

\* A skill its user did not touch and the base record lists is never decided to
\* be in conflict: what daemon.py:149 writes down of a skill stays what the
\* device holds of it, cycle after cycle, whoever pushes, unless the device's
\* last cycle that acted was cut short.
RecordedNeverConflicts ==
    \A d \in Devices \ unrecorded, s \in Skills :
       /\ pc[d] = "fetching" /\ Missing(d) = {}
       /\ base[d][s] # Absent
       /\ Status(d, s) = "conflict"
       => s \in dirty[d]

-----------------------------------------------------------------------------
(* The inductive invariant behind them. *)

\* A cycle that compared the remote still has the remote it compared, unless
\* it was overtaken.
CheckStands ==
    \A d \in Devices :
       PastCheck(d) /\ ~ job[d].raced => index.hash = cache[d].hash

\* Nothing is pulled before the remote is compared, what is replaced is planned,
\* and a cycle scans because it pushes.
InOrder(d) ==
    /\ pc[d] = "asserting" => job[d].done = {}
    /\ pc[d] = "replacing" => job[d].item \in Pulls(d)
    /\ pc[d] \in {"scanning", "uploading"} => Pushes(d) # {}

\* From the plan to the upload, a skill that is not exempt is central's version,
\* or a planned push, or a planned pull that is still to be done.
OnlyPlannedDiffers(d) ==
    \A s \in Skills \ (Pushes(d) \cup Exempt(d)) :
       /\ pc[d] \in {"asserting", "pulling", "replacing"} =>
             local[d][s] = cache[d].hash[s] \/ s \in Pulls(d) \ job[d].done
       /\ pc[d] = "scanning" => local[d][s] = cache[d].hash[s]
       /\ pc[d] = "uploading" => job[d].snap[s] = cache[d].hash[s]

\* The skills the running cycle has pulled.
Pulled(d) ==
    {s \in Pulls(d) : \/ s \in job[d].done
                      \/ pc[d] \in {"scanning", "uploading", "recording"}}

\* What a cycle is going to record the device still holds, but for what its
\* user changed since: the scan if it pushes, what it pulled if it does not.
CycleHolds(d) ==
    \A s \in Skills \ dirty[d] :
       /\ pc[d] \in {"uploading", "recording"} /\ Pushes(d) # {}
             => job[d].snap[s] = local[d][s]
       /\ s \in Pulled(d) /\ (pc[d] = "recording" => Pushes(d) = {})
             => local[d][s] = cache[d].hash[s]

\* A copy its user has not changed is the version of the base record, if that
\* lists one, or was just pulled, is being replaced or is yet to be recorded.
UntouchedIsBase(d) ==
    \A s \in Skills \ dirty[d] :
       \/ s \in Pulled(d)
       \/ base[d][s] \in {local[d][s], Absent}
       \/ pc[d] = "replacing" /\ s = job[d].item
       \/ pc[d] = "recording" /\ Pushes(d) # {}

PlansAreEdits(d) ==
    pc[d] \in {"asserting", "pulling", "replacing", "scanning", "uploading"} =>
       \A s \in Pushes(d) : s \in dirty[d] \/ cache[d].hash[s] = Absent

WatchInv ==
    /\ TypeOK
    /\ WatchTypes
    /\ Unplanned
    /\ CheckStands
    /\ \A d \in Devices :
          /\ InOrder(d)
          /\ OnlyPlannedDiffers(d)
          /\ CycleHolds(d)
          /\ d \notin unrecorded => UntouchedIsBase(d) /\ PlansAreEdits(d)
=============================================================================
