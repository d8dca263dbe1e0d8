---------------------------- MODULE OpenclawRelease ----------------------------
(***************************************************************************)
(* openclaw_release.py: a release is switched on a host where the sync     *)
(* service, the peer publisher with its timer and the retention job with   *)
(* its timer go on.  What is overwritten is saved first; any failure, or   *)
(* an operator later, rolls back to it.                                    *)
(***************************************************************************)
EXTENDS Naturals

CONSTANTS
    Files,          \* the managed unit files
    InitialFiles,   \* which of them existed before, a set of sets
    MaxReleases, MaxFailures, MaxTicks

VARIABLES
    link,       \* what `current' points to
    units,      \* [Files -> {"absent", "old", "new"}]
    sync,       \* the sync service: "stopped", "idle" or "cycle"
    peer,       \* the publisher's timer is on; the publisher is running
    retention,  \* the retention timer is on; the retention job is running
    backup,     \* the last release's saved state, or NoBackup
    job,        \* the step of the release or rollback
    counts

vars == <<link, units, sync, peer, retention, backup, job, counts>>

Jobs == {"idle", "window", "saving", "stop", "stopPeer", "wait", "link", "units",
         "start", "startPeer", "startRetention", "check",
         "rbRetention", "rbSync", "rbUnits", "rbLink", "rbStart", "rbTimer",
         "rbPeer"}
NoBackup == [link |-> "none", units |-> [f \in Files |-> "none"], timer |-> FALSE]

ReleaseTypeOK ==
    /\ link \in {"absent", "previous", "next"}
    /\ units \in [Files -> {"absent", "old", "new"}]
    /\ sync \in {"stopped", "idle", "cycle"}
    /\ peer \in [timer: BOOLEAN, running: BOOLEAN]
    /\ retention \in [timer: BOOLEAN, running: BOOLEAN]
    /\ backup \in {NoBackup} \cup [link: {"absent", "previous", "next"},
                                   units: [Files -> {"absent", "old", "new"}],
                                   timer: BOOLEAN]
    /\ job \in Jobs
    /\ counts \in [releases: Nat, failures: Nat, ticks: Nat]

Init ==
    /\ link \in {"absent", "previous"}
    /\ \E there \in InitialFiles :
          units = [f \in Files |-> IF f \in there THEN "old" ELSE "absent"]
    /\ sync = "idle"
    /\ peer = [timer |-> TRUE, running |-> FALSE]
    /\ retention \in {[timer |-> on, running |-> FALSE] : on \in BOOLEAN}
    /\ backup = NoBackup
    /\ job = "idle"
    /\ counts = [releases |-> 0, failures |-> 0, ticks |-> 0]

Services == <<sync, peer, retention>>
Installed == <<link, units>>
Step(from, to) == job = from /\ job' = to

-----------------------------------------------------------------------------
(* promote *)

Promote ==
    /\ Step("idle", "window")
    /\ counts.releases < MaxReleases
    /\ counts' = [counts EXCEPT !.releases = @ + 1]
    /\ UNCHANGED <<Installed, Services, backup>>

\* The window between cycles is read from a state file: a cycle may begin
\* before the service is stopped.
FindWindow ==
    /\ Step("window", "saving")
    /\ sync = "idle"
    /\ UNCHANGED <<Installed, Services, backup, counts>>

Saved == [link |-> link, units |-> units, timer |-> retention.timer]

Save ==
    /\ Step("saving", "stop")
    /\ backup' = Saved
    /\ UNCHANGED <<Installed, Services, counts>>

StopSync ==
    /\ Step("stop", "stopPeer")
    /\ sync' = "stopped"
    /\ UNCHANGED <<Installed, peer, retention, backup, counts>>

StopPeerTimer ==
    /\ Step("stopPeer", "wait")
    /\ peer' = [peer EXCEPT !.timer = FALSE]
    /\ UNCHANGED <<Installed, sync, retention, backup, counts>>

\* The release waits while `systemctl is-active' says that the publisher runs.
\* The publisher is a oneshot service that does not remain after its exit, so
\* it is never "active": while it runs it is "activating".
PublisherState == IF peer.running THEN "activating" ELSE "inactive"

WaitForPeer ==
    /\ Step("wait", "link")
    /\ PublisherState # "active"
    /\ UNCHANGED <<Installed, Services, backup, counts>>

SwitchLink ==
    /\ Step("link", "units")
    /\ link' = "next"
    /\ UNCHANGED <<units, Services, backup, counts>>

WriteUnit(f) ==
    /\ job = "units" /\ units[f] # "new"
    /\ units' = [units EXCEPT ![f] = "new"]
    /\ UNCHANGED <<link, Services, backup, job, counts>>

AllWritten == \A f \in Files : units[f] = "new"

UnitsWritten ==
    /\ Step("units", "start")
    /\ AllWritten
    /\ UNCHANGED <<Installed, Services, backup, counts>>

StartSync ==
    /\ Step("start", "startPeer")
    /\ sync' = "idle"
    /\ UNCHANGED <<Installed, peer, retention, backup, counts>>

StartPeerTimer ==
    /\ Step("startPeer", "startRetention")
    /\ peer' = [peer EXCEPT !.timer = TRUE]
    /\ UNCHANGED <<Installed, sync, retention, backup, counts>>

StartRetention ==
    /\ Step("startRetention", "check")
    /\ retention' = [timer |-> TRUE, running |-> TRUE]
    /\ UNCHANGED <<Installed, sync, peer, backup, counts>>

CheckActive ==
    /\ Step("check", "idle")
    /\ sync # "stopped" /\ retention.timer
    /\ UNCHANGED <<Installed, Services, backup, counts>>

-----------------------------------------------------------------------------
(* rollback: of a failed release, or by hand *)

\* Before the backup a failure changes nothing; afterwards it rolls back.
BackedUp == job \notin {"window", "saving"}

Fails ==
    /\ job \in {"window", "saving", "stop", "stopPeer", "wait", "link", "units",
                "start", "startPeer", "startRetention", "check"}
    /\ counts.failures < MaxFailures
    /\ counts' = [counts EXCEPT !.failures = @ + 1]
    /\ job' = IF BackedUp THEN "rbRetention" ELSE "idle"
    /\ UNCHANGED <<Installed, Services, backup>>

RollBackByHand ==
    /\ Step("idle", "rbRetention")
    /\ backup # NoBackup
    /\ UNCHANGED <<Installed, Services, backup, counts>>

RetentionStopped == [timer |-> FALSE, running |-> FALSE]

StopRetention ==
    /\ Step("rbRetention", "rbSync")
    /\ retention' = RetentionStopped
    /\ UNCHANGED <<Installed, sync, peer, backup, counts>>

RollbackStopsSync ==
    /\ Step("rbSync", "rbUnits")
    /\ sync' = "stopped"
    /\ UNCHANGED <<Installed, peer, retention, backup, counts>>

\* mutant: a unit file the release brought along stays
RestoredFilesOnly(f) == IF backup.units[f] = "absent" THEN units[f]
                        ELSE backup.units[f]
RestoredUnit(f) == backup.units[f]

RestoreUnit(f) ==
    /\ job = "rbUnits" /\ units[f] # RestoredUnit(f)
    /\ units' = [units EXCEPT ![f] = RestoredUnit(f)]
    /\ UNCHANGED <<link, Services, backup, job, counts>>

UnitsRestored ==
    /\ Step("rbUnits", "rbLink")
    /\ \A f \in Files : units[f] = RestoredUnit(f)
    /\ UNCHANGED <<Installed, Services, backup, counts>>

RestoreLink ==
    /\ Step("rbLink", "rbStart")
    /\ link' = backup.link
    /\ UNCHANGED <<units, Services, backup, counts>>

RollbackStartsSync ==
    /\ Step("rbStart", "rbTimer")
    /\ sync' = "idle"
    /\ UNCHANGED <<Installed, peer, retention, backup, counts>>

RestoreTimer ==
    /\ Step("rbTimer", "rbPeer")
    /\ retention' = [retention EXCEPT !.timer = backup.timer]
    /\ UNCHANGED <<Installed, sync, peer, backup, counts>>

RollbackStartsPeer ==
    /\ Step("rbPeer", "idle")
    /\ peer' = [peer EXCEPT !.timer = TRUE]
    /\ UNCHANGED <<Installed, sync, retention, backup, counts>>

\* A rollback that fails, or a release that dies: nothing handles it.
Dies ==
    /\ job # "idle"
    /\ counts.failures < MaxFailures
    /\ counts' = [counts EXCEPT !.failures = @ + 1]
    /\ job' = "idle"
    /\ UNCHANGED <<Installed, Services, backup>>

-----------------------------------------------------------------------------
(* What systemd does meanwhile *)

Tick == /\ counts.ticks < MaxTicks
        /\ counts' = [counts EXCEPT !.ticks = @ + 1]
        /\ UNCHANGED <<Installed, backup, job>>

PublisherStarts ==
    /\ peer.timer /\ ~ peer.running
    /\ peer' = [peer EXCEPT !.running = TRUE]
    /\ Tick /\ UNCHANGED <<sync, retention>>
PublisherEnds ==
    /\ peer.running
    /\ peer' = [peer EXCEPT !.running = FALSE]
    /\ UNCHANGED <<Installed, sync, retention, backup, job, counts>>
RetentionStarts ==
    /\ retention.timer /\ ~ retention.running
    /\ retention' = [retention EXCEPT !.running = TRUE]
    /\ Tick /\ UNCHANGED <<sync, peer>>
RetentionEnds ==
    /\ retention.running
    /\ retention' = [retention EXCEPT !.running = FALSE]
    /\ UNCHANGED <<Installed, sync, peer, backup, job, counts>>
CycleBegins ==
    /\ sync = "idle"
    /\ sync' = "cycle"
    /\ Tick /\ UNCHANGED <<peer, retention>>
CycleEnds ==
    /\ sync = "cycle"
    /\ sync' = "idle"
    /\ UNCHANGED <<Installed, peer, retention, backup, job, counts>>

Systemd == \/ PublisherStarts \/ PublisherEnds \/ RetentionStarts
           \/ RetentionEnds \/ CycleBegins \/ CycleEnds

Next ==
    \/ Promote \/ FindWindow \/ Save \/ StopSync \/ StopPeerTimer \/ WaitForPeer
    \/ SwitchLink \/ UnitsWritten \/ StartSync \/ StartPeerTimer
    \/ StartRetention \/ CheckActive
    \/ Fails \/ RollBackByHand \/ StopRetention \/ RollbackStopsSync
    \/ UnitsRestored \/ RestoreLink \/ RollbackStartsSync \/ RestoreTimer
    \/ RollbackStartsPeer \/ Dies
    \/ \E f \in Files : WriteUnit(f) \/ RestoreUnit(f)
    \/ Systemd

Spec == Init /\ [][Next]_vars

-----------------------------------------------------------------------------
(* Properties *)

\* The release is switched, and switched back, only while the sync service is
\* stopped, and switched back only while the retention job is stopped too
\* (openclaw_release.py:115, 47-51).
SwitchedQuietly ==
    [][Installed' # Installed =>
         /\ sync = "stopped"
         /\ job \in {"rbUnits", "rbLink"} => ~ retention.running]_vars

\* No part of a release is switched while the publisher runs ("Publisher owns
\* the same cache; wait for its current oneshot to finish",
\* openclaw_release.py:116).
PublisherIsWaitedFor ==
    [][Installed' # Installed /\ job \in {"link", "units"} => ~ peer.running]_vars

\* A rollback that gets to its end leaves link, units and timer as they were
\* saved, and everything running again (openclaw_release.py:44-70).
RollbackIsComplete ==
    [][job = "rbPeer" /\ job' = "idle" /\ counts' = counts =>
         /\ link = backup.link /\ units = backup.units
         /\ retention.timer = backup.timer
         /\ sync # "stopped" /\ peer'.timer]_vars

\* Whenever a release dies, what it overwrote can be restored from its backup:
\* nothing of the next release is in place before that is saved.
SavedBeforeSwitched ==
    link = "next" \/ (\E f \in Files : units[f] = "new") => backup # NoBackup

\* A release whose end was reached has every part of it in place.
PromotedWhole ==
    [][job = "check" /\ job' = "idle" /\ counts' = counts =>
         /\ link = "next"
         /\ \A f \in Files : units[f] = "new"
         /\ sync # "stopped" /\ peer.timer]_vars

-----------------------------------------------------------------------------
(* Why they hold: what each step can rely on *)

\* From the backup on there is something to go back to.
BackupIsThere ==
    /\ job \notin {"idle", "window", "saving"} => backup # NoBackup
    /\ SavedBeforeSwitched

\* What is stopped stays stopped until the release, or the rollback, starts it.
ServicesWait ==
    /\ job \in {"stopPeer", "wait", "link", "units", "start",
               "rbUnits", "rbLink", "rbStart"} => sync = "stopped"
    /\ job \in {"wait", "link", "units", "start", "startPeer"} => ~ peer.timer
    /\ job \in {"rbSync", "rbUnits", "rbLink", "rbStart", "rbTimer"} =>
          retention = RetentionStopped

\* What a step has put in place stays until the end.
PartsInPlace ==
    /\ job \in {"units", "start", "startPeer", "startRetention", "check"} => link = "next"
    /\ job \in {"start", "startPeer", "startRetention", "check"} => AllWritten
    /\ job \in {"startPeer", "startRetention", "check", "rbTimer", "rbPeer"} =>
          sync # "stopped"
    /\ job \in {"startRetention", "check"} => peer.timer
    /\ job \in {"rbLink", "rbStart", "rbTimer", "rbPeer"} => units = backup.units
    /\ job \in {"rbStart", "rbTimer", "rbPeer"} => link = backup.link
    /\ job = "rbPeer" => retention.timer = backup.timer

ReleaseInv == ReleaseTypeOK /\ BackupIsThere /\ ServicesWait /\ PartsInPlace
=============================================================================
