---------------------------- MODULE HealthPipeline ----------------------------
(***************************************************************************)
(* From a device's status report to the monitor's verdict: devices publish *)
(* reports to the remote, the gateway builds a summary of them and of the  *)
(* central index (dashboard.py), caches it with one background refresh at  *)
(* a time, and monitor.py polls it.  Browsers ask for it too, and force a  *)
(* refresh now and then.  Time passes in ticks.                            *)
(***************************************************************************)
EXTENDS Naturals, Sequences

CONSTANTS
    Devices, Absent,
    Inspected,          \* the devices whose ids monitor.py knows
    Pending, Raised,    \* a future that has not ended; one that failed
    SummaryStale,       \* age at which a cached summary is stale
    RefreshInterval,    \* of the gateway's copy of the central index
    DeviceOld,          \* age at which the gateway calls a report stale
    MonitorStale,       \* stale_after_seconds of the monitor
    Interval,           \* between two polls of the monitor
    Retries, Threshold, \* of one poll; of polls that fail before an alert
    BuildTime,          \* the longest a build takes: the remote's timeouts
    MaxNow, MaxReports, MaxPushes, MaxForced, MaxFailures,
    Together            \* which numbers of the four occur in one behaviour

VARIABLES
    now,
    canon,      \* the central index: its snapshot, and when it was pushed
    report,     \* [Devices -> the report on the remote, or Absent]
    held,       \* RemoteSnapshotCache: the snapshot held, and when fetched
    cache,      \* DashboardSummaryCache: payload, updated, error
    queue,      \* its executor: the refreshes submitted and not finished
    build,      \* the summaries being built, in the background and forced
    inflight,   \* the future the cache keeps: [id, result]
    wait,       \* [Clients -> the future the client waits for, or Absent]
    monitor,
    answer,     \* what the monitor was answered
    counts

vars == <<now, canon, report, held, cache, queue, build, inflight, wait,
          monitor, answer, counts>>

Clients == {"browser", "monitor"}
Builders == {"background", "forced"}
\* "waits" and "conflict": yellow, for the review of a push or of a new skill,
\* or of a conflict or a deletion.  A red report lists nothing that waits.
Healths == {"green", "waits", "conflict", "red"}
SnapshotIds == 0..MaxPushes
Times == 0..MaxNow

Report == [health: Healths, snap: SnapshotIds, at: Times]
\* A report that cannot be read is replaced by a red one that tells nothing.
Unread == [health |-> "red", snap |-> Absent, at |-> Absent]
Payload == [snap: SnapshotIds \cup {Absent}, peers: [Devices -> Report \cup {Unread}],
            built: Times]
Result == Payload \cup {Pending, Raised}
Future == {Absent} \cup [id: Nat, result: Result]

Idle == [step |-> "idle", id |-> 0, begun |-> 0, peers |-> Absent]
NoAnswer == [state |-> "none", payload |-> Absent, suspect |-> FALSE]

Build == [step: {"idle", "peers", "snapshot"}, id: Nat, begun: Times,
          peers: {Absent} \cup [Devices -> Report \cup {Unread}]]
Monitor == [step: {"idle", "asking"}, due: Nat, attempt: 0..Retries, failures: Nat,
            health: {"none", "green", "yellow", "red"},
            code: {"none", "summary", "fetch_failed", "fetch_transient"},
            heard: Times \cup {Absent}, streak: Nat]
Cache == [payload: Payload \cup {Absent}, updated: Times, error: BOOLEAN]
Answer == [state: {"none", "fresh", "stale", "miss", "error"},
           payload: Payload \cup {Absent}, suspect: BOOLEAN]
Counts == [reports: Nat, pushes: Nat, forced: Nat, failures: Nat]

PipelineTypeOK ==
    /\ now \in Times
    /\ canon \in [snap: SnapshotIds, at: Times]
    /\ report \in [Devices -> Report \cup {Absent}]
    /\ held \in [snap: SnapshotIds \cup {Absent}, at: Times]
    /\ cache \in Cache
    /\ queue \in Seq(Nat)
    /\ build \in [Builders -> Build]
    /\ \A b \in Builders : build[b].step = "snapshot" => build[b].peers # Absent
    /\ inflight \in Future /\ wait \in [Clients -> Future]
    /\ monitor \in Monitor
    /\ answer \in Answer
    /\ answer.state \in {"fresh", "stale"} <=> answer.payload \in Payload
    /\ counts \in Counts
    /\ canon.snap = counts.pushes

Init ==
    /\ now = 0
    /\ canon = [snap |-> 0, at |-> 0]
    /\ report \in [Devices -> {Absent, [health |-> "green", snap |-> 0, at |-> 0]}]
    /\ held = [snap |-> Absent, at |-> 0]
    /\ cache = [payload |-> Absent, updated |-> 0, error |-> FALSE]
    /\ queue = <<>>
    /\ build = [b \in Builders |-> Idle]
    /\ inflight = Absent
    /\ wait = [c \in Clients |-> Absent]
    /\ monitor = [step |-> "idle", due |-> 0, attempt |-> 0, failures |-> 0,
                  health |-> "none", code |-> "none", heard |-> Absent, streak |-> 0]
    /\ answer = NoAnswer
    /\ counts = [reports |-> 0, pushes |-> 0, forced |-> 0, failures |-> 0]

\* What disturbs the routine is bounded, each kind and all kinds together.
Count(kind, max) ==
    /\ counts[kind] < max
    /\ counts' = [counts EXCEPT ![kind] = @ + 1]
    /\ counts' \in Together
MayFail == Count("failures", MaxFailures)

-----------------------------------------------------------------------------
(* Devices, and time *)

\* A device reports the snapshot its base records: never an older one again.
Publish(d, health, snap) ==
    /\ Count("reports", MaxReports)
    /\ report[d] # Absent => snap >= report[d].snap
    /\ report' = [report EXCEPT ![d] = [health |-> health, snap |-> snap, at |-> now]]
    /\ UNCHANGED <<now, canon, held, cache, queue, build, inflight, wait, monitor, answer>>

Push ==
    /\ Count("pushes", MaxPushes)
    /\ canon' = [snap |-> canon.snap + 1, at |-> now]
    /\ UNCHANGED <<now, report, held, cache, queue, build, inflight, wait, monitor, answer>>

\* The monitor polls in time, and a build ends within BuildTime.
Tick ==
    /\ now < MaxNow
    /\ monitor.step = "idle" /\ now < monitor.due
    /\ wait = [c \in Clients |-> Absent]
    /\ queue = <<>> \/ build["background"].step # "idle"
    /\ \A b \in Builders : build[b].step # "idle" => now < build[b].begun + BuildTime
    /\ now' = now + 1
    /\ UNCHANGED <<canon, report, held, cache, queue, build, inflight, wait, monitor, answer, counts>>

-----------------------------------------------------------------------------
(* The cache *)

\* What the monitor warns of when a summary is stale.
Suspect(c) == c.error \/ now - c.updated > MonitorStale

Done(future) == future # Absent /\ future.result # Pending
Good(future) == Done(future) /\ future.result # Raised

Stored(payload) ==
    [payload |-> payload, updated |-> now, error |-> FALSE]

\* mutant: the result of a refresh that failed is stored like any other
ConsumedUnchecked ==
    IF Done(inflight) THEN Stored(inflight.result) ELSE cache
Consumed ==
    IF ~ Done(inflight) THEN cache
    ELSE IF Good(inflight) THEN Stored(inflight.result)
    ELSE [cache EXCEPT !.error = TRUE]

AfterConsumed == IF Done(inflight) THEN Absent ELSE inflight

\* A future is told from the others in use.
NewId == CHOOSE i \in 1..4 : /\ \A n \in DOMAIN queue : queue[n] # i
                             /\ \A c \in Clients : wait[c] = Absent \/ wait[c].id # i

\* ensure_refresh_locked: `future' is what the cache keeps.
Ensured(future) ==
    IF future = Absent \/ Done(future)
    THEN /\ queue' = Append(queue, NewId)
         /\ inflight' = [id |-> NewId, result |-> Pending]
    ELSE queue' = queue /\ inflight' = future

Answered(c, state, payload) ==
    answer' = IF c # "monitor" THEN answer
              ELSE [state |-> state, payload |-> payload, suspect |-> Suspect(cache')]

\* A browser asks when it likes, the monitor when an attempt is due; either
\* waits for one answer at a time.
Asks(c) ==
    /\ wait[c] = Absent
    /\ c = "monitor" => monitor.step = "asking" /\ answer = NoAnswer

IsStale(c) == now - c.updated >= SummaryStale

GetCached(c) ==
    LET kept == Consumed IN
    /\ Asks(c)
    /\ kept.payload # Absent
    /\ cache' = kept
    /\ IF IsStale(kept) THEN Ensured(AfterConsumed)
       ELSE inflight' = AfterConsumed /\ queue' = queue
    /\ Answered(c, IF IsStale(kept) THEN "stale" ELSE "fresh", kept.payload)
    /\ UNCHANGED <<now, canon, report, held, build, wait, monitor, counts>>

\* Nothing was ever stored: the request waits for the refresh.
GetAndWait(c) ==
    /\ Asks(c)
    /\ Consumed.payload = Absent
    /\ cache' = Consumed
    /\ Ensured(AfterConsumed)
    /\ wait' = [wait EXCEPT ![c] = inflight']
    /\ UNCHANGED <<now, canon, report, held, build, monitor, answer, counts>>

AfterTimeout(c) == inflight

WaitTimesOut(c) ==
    /\ wait[c] # Absent /\ ~ Done(wait[c])
    /\ cache' = [cache EXCEPT !.error = TRUE]
    /\ inflight' = AfterTimeout(c)
    /\ wait' = [wait EXCEPT ![c] = Absent]
    /\ Answered(c, "miss", Absent)
    /\ UNCHANGED <<now, canon, report, held, queue, build, monitor, counts>>

WaitEnds(c) ==
    /\ Done(wait[c])
    /\ IF Good(wait[c])
       THEN /\ cache' = Stored(wait[c].result)
            /\ Answered(c, "fresh", wait[c].result)
       ELSE /\ cache' = [cache EXCEPT !.error = TRUE]
            /\ Answered(c, "error", Absent)
    /\ inflight' = IF inflight # Absent /\ inflight.id = wait[c].id THEN Absent
                   ELSE inflight
    /\ wait' = [wait EXCEPT ![c] = Absent]
    /\ UNCHANGED <<now, canon, report, held, queue, build, monitor, counts>>

Healthz ==
    /\ Done(inflight)
    /\ cache' = Consumed /\ inflight' = Absent
    /\ UNCHANGED <<now, canon, report, held, queue, build, wait, monitor, answer, counts>>

-----------------------------------------------------------------------------
(* Building a summary: the reports are read first, then the index *)

StartRefresh ==
    /\ queue # <<>> /\ build["background"] = Idle
    /\ build' = [build EXCEPT !["background"] =
                    [Idle EXCEPT !.step = "peers", !.id = Head(queue), !.begun = now]]
    /\ UNCHANGED <<now, canon, report, held, cache, queue, inflight, wait, monitor, answer, counts>>

\* force_refresh downloads the index before the summary is built; when the
\* download fails the request is not answered at all.
Force ==
    /\ build["forced"] = Idle
    /\ Count("forced", MaxForced)
    /\ held' = [snap |-> canon.snap, at |-> now]
    /\ build' = [build EXCEPT !["forced"] = [Idle EXCEPT !.step = "peers", !.begun = now]]
    /\ UNCHANGED <<now, canon, report, cache, queue, inflight, wait, monitor, answer>>

\* What a build sees of the devices, `lost' of them being unreadable.
PeersSeen(lost) ==
    [d \in Devices |-> IF d \in lost \/ report[d] = Absent THEN Unread ELSE report[d]]

ReadPeers(b, lost) ==
    /\ build[b].step = "peers"
    /\ IF lost = {} THEN counts' = counts ELSE MayFail
    /\ build' = [build EXCEPT ![b].step = "snapshot", ![b].peers = PeersSeen(lost)]
    /\ UNCHANGED <<now, canon, report, held, cache, queue, inflight, wait, monitor, answer>>

IndexIsDue == now - held.at >= RefreshInterval \/ held.snap = Absent

\* The provider turns an unreachable remote into a red summary of nothing.
Summary(b, snap) ==
    [snap |-> snap, built |-> now,
     peers |-> IF snap = Absent THEN [d \in Devices |-> Unread] ELSE build[b].peers]

\* The future's result reaches the cache and whoever waits for it.
Resolved(future, b, result) ==
    IF future # Absent /\ future.id = build[b].id THEN [future EXCEPT !.result = result]
    ELSE future

Finish(b, result) ==
    /\ build' = [build EXCEPT ![b] = Idle]
    /\ IF b = "background"
       THEN /\ inflight' = Resolved(inflight, b, result)
            /\ wait' = [c \in Clients |-> Resolved(wait[c], b, result)]
            /\ queue' = Tail(queue)
            /\ cache' = cache
       ELSE /\ inflight' = AfterConsumed
            /\ cache' = IF result = Raised THEN [cache EXCEPT !.error = TRUE]
                        ELSE Stored(result)
            /\ UNCHANGED <<queue, wait>>
    /\ UNCHANGED <<now, canon, report, monitor, answer>>

BuildEnds(b) ==
    /\ build[b].step = "snapshot"
    /\ IF IndexIsDue
       THEN \/ /\ held' = [snap |-> canon.snap, at |-> now]
               /\ Finish(b, Summary(b, canon.snap)) /\ counts' = counts
            \/ /\ MayFail /\ held' = held
               /\ Finish(b, Summary(b, Absent))
       ELSE /\ held' = held
            /\ Finish(b, Summary(b, held.snap)) /\ counts' = counts

BuildRaises(b) ==
    /\ build[b].step = "snapshot" /\ MayFail
    /\ held' = held
    /\ Finish(b, Raised)

-----------------------------------------------------------------------------
(* The monitor *)

\* device.freshness of the summary, and the monitor's own limit.
IsOld(p, d) ==
    /\ p.peers[d].at # Absent
    /\ \/ p.built - p.peers[d].at >= DeviceOld
       \/ p.built - p.peers[d].at > MonitorStale

Drifts(p, d) == p.peers[d].snap # Absent /\ p.snap # p.peers[d].snap

\* evaluate_monitor inspects the devices it knows by id, and alerts for any
\* device's conflicts.  The summary's own health is the worst of all devices',
\* and counts only when no device waits for a review.
Alert(p) ==
    \/ p.snap = Absent
    \/ \E d \in Inspected : p.peers[d].health = "red" \/ IsOld(p, d) \/ Drifts(p, d)
    \/ \E d \in Devices : p.peers[d].health = "conflict"
    \/ /\ \E d \in Devices : p.peers[d].health = "red"
       /\ \A d \in Devices : p.peers[d].health # "waits"

Verdict(a) ==
    IF Alert(a.payload) THEN "red"
    ELSE IF a.state = "stale" /\ a.suspect THEN "yellow"
    ELSE "green"

StartPoll ==
    /\ monitor.step = "idle" /\ now = monitor.due
    /\ monitor' = [monitor EXCEPT !.step = "asking", !.attempt = 1]
    /\ UNCHANGED <<now, canon, report, held, cache, queue, build, inflight, wait, answer, counts>>

\* After so many polls in a row what waited through an outage is gone.
Settled == 3

Slept == [monitor EXCEPT !.step = "idle", !.attempt = 0, !.due = now + Interval]

\* mutant: a poll that succeeds does not end the count of failures
KeptFailures == monitor.failures
AfterSuccess == 0

Heard ==
    /\ monitor.step = "asking" /\ answer.state \in {"fresh", "stale"}
    /\ monitor' = [Slept EXCEPT !.failures = AfterSuccess, !.heard = now,
                                !.streak = IF @ = Settled THEN @ ELSE @ + 1,
                                !.health = Verdict(answer), !.code = "summary"]
    /\ answer' = NoAnswer
    /\ UNCHANGED <<now, canon, report, held, cache, queue, build, inflight, wait, counts>>

\* An attempt failed: on the way, or with 503 or 500; the last one reports.
Unheard ==
    /\ monitor.step = "asking"
    /\ \/ answer.state \in {"miss", "error"} /\ counts' = counts
       \/ answer = NoAnswer /\ wait["monitor"] = Absent /\ MayFail
    /\ answer' = NoAnswer
    /\ monitor' =
          IF monitor.attempt < Retries THEN [monitor EXCEPT !.attempt = @ + 1]
          ELSE LET failed == monitor.failures + 1 IN
               [Slept EXCEPT !.failures = failed, !.streak = 0,
                             !.health = IF failed >= Threshold THEN "red" ELSE "yellow",
                             !.code = IF failed >= Threshold THEN "fetch_failed"
                                      ELSE "fetch_transient"]
    /\ UNCHANGED <<now, canon, report, held, cache, queue, build, inflight, wait>>

Next ==
    \/ \E d \in Devices, h \in Healths, n \in 0..canon.snap : Publish(d, h, n)
    \/ Push \/ Tick
    \/ \E c \in Clients : GetCached(c) \/ GetAndWait(c) \/ WaitTimesOut(c) \/ WaitEnds(c)
    \/ Healthz \/ StartRefresh \/ Force
    \/ \E b \in Builders : \/ \E lost \in SUBSET Devices : ReadPeers(b, lost)
                           \/ BuildEnds(b) \/ BuildRaises(b)
    \/ StartPoll \/ Heard \/ Unheard

Spec == Init /\ [][Next]_vars

-----------------------------------------------------------------------------
(* Properties *)

\* Requests that time out, forced refreshes and refreshes that fail never make
\* the gateway queue a second refresh behind one that has not ended: slow
\* reads do not pile up (dashboard.py:164-168).
OneRefreshAtATime == Len(queue) <= 1

\* A poll that finds the summary stale has it rebuilt, the next one is given
\* the result, and the one after that may be given it once more.
HiddenFor == 2 * Interval + BuildTime
Settles == monitor.health = "green" /\ monitor.streak = Settled /\ now + Interval = monitor.due

\* Once the monitor has heard from the gateway a few times in a row, a green
\* verdict means that every device it inspects reported within DeviceOld and
\* that delay, and nothing alarming before that delay; and that another device
\* is red, in conflict or silent from the start only while some device waits for
\* a review or has just reported, though the cache dates a summary from the
\* request that found it and not from the reads it is made of
\* (dashboard.py:180-189, monitor.py:291-296, 355-357, 475-479).
Since(d) == now - report[d].at
WaitsOrReported(d) ==
    report[d] # Absent /\ (report[d].health = "waits" \/ Since(d) <= HiddenFor)
GreenMeansReported ==
    Settles =>
        /\ \A d \in Inspected :
              /\ report[d] # Absent
              /\ Since(d) < DeviceOld + HiddenFor
              /\ report[d].health \in {"red", "conflict"} => Since(d) <= HiddenFor
        /\ \/ \E d \in Devices : WaitsOrReported(d)
           \/ \A d \in Devices :
                 report[d] # Absent /\ report[d].health \notin {"red", "conflict"}

\* Nor does such a verdict hide for longer that a device it inspects reports
\* another snapshot than the central index (monitor.py:480-491,
\* dashboard.py:64-71).
GreenMeansInStep ==
    Settles => \A d \in Inspected : report[d].snap = canon.snap
                                   \/ now - canon.at < HiddenFor + RefreshInterval

\* An alert that the gateway cannot be reached means that for as many intervals
\* as the threshold says no poll heard from it, or none ever did: a restart
\* that one poll meets does not cause one (monitor.py:236-259).
AlertMeansOutage ==
    [][monitor.code # "fetch_failed" /\ monitor'.code = "fetch_failed" =>
         monitor.heard = Absent \/ now - monitor.heard >= Threshold * Interval]_vars

\* "fresh: live or recently refreshed data": a summary answered as fresh was
\* built less than SummaryStale ago, or the request waited for it.
FreshIsRecent ==
    answer.state = "fresh" => now - answer.payload.built < SummaryStale + BuildTime

-----------------------------------------------------------------------------
(* Why they hold *)

IsPending(future) == future # Absent /\ future.result = Pending

\* The one refresh that is queued is the future the cache keeps, and whoever
\* waits for a future that is not done waits for that one.
QueueIsKept ==
    /\ IF IsPending(inflight) THEN queue = <<inflight.id>> ELSE queue = <<>>
    /\ build["background"] # Idle => queue = <<build["background"].id>>
    /\ \A c \in Clients :
          /\ IsPending(wait[c]) => inflight = wait[c]
          /\ wait[c] # Absent /\ inflight # Absent /\ wait[c].id = inflight.id =>
                inflight = wait[c]

\* Since the monitor heard from the gateway last, it polled in time.
PollsInTime ==
    /\ now <= monitor.due
    /\ monitor.step = "asking" => now = monitor.due
    /\ monitor.heard # Absent =>
          monitor.due = monitor.heard + (monitor.failures + 1) * Interval

PipelineInv == PipelineTypeOK /\ QueueIsKept /\ PollsInTime

\* Between two polls a summary goes stale and a build ends.
Timely ==
    /\ 0 < SummaryStale /\ SummaryStale <= Interval /\ BuildTime < Interval
    /\ 0 < RefreshInterval /\ 0 < DeviceOld

\* One question at a time; a streak is of polls that were heard.
AsksInTurn ==
    /\ answer # NoAnswer => monitor.step = "asking"
    /\ wait["monitor"] # Absent => monitor.step = "asking" /\ answer = NoAnswer
    /\ monitor.heard # Absent => monitor.heard <= now
    /\ monitor.streak >= 1 => monitor.heard # Absent /\ monitor.failures = 0

\* What was read at `since' or later is what is reported still, or a device
\* reported since then, no older snapshot.
Saw(peers, since) ==
    \A d \in Devices :
        \/ peers[d] = Unread \/ peers[d] = report[d]
        \/ /\ report[d] # Absent /\ report[d].at >= since
           /\ report[d].snap >= peers[d].snap

\* A summary shows what was on the remote shortly before it was built.
Truthful(p) ==
    /\ p.built <= now
    /\ Saw(p.peers, p.built - BuildTime)
    /\ p.snap = Absent \/ p.snap = canon.snap \/ p.built - canon.at < RefreshInterval

ReadsInOrder ==
    /\ canon.at <= now
    /\ \A d \in Devices : report[d] # Absent => report[d].snap <= canon.snap
    /\ held.at <= now
    /\ held.snap = Absent \/ held.snap = canon.snap \/ held.at <= canon.at
    /\ \A b \in Builders :
          build[b].step # "idle" =>
             /\ build[b].begun <= now /\ now <= build[b].begun + BuildTime
             /\ build[b].step = "snapshot" => Saw(build[b].peers, build[b].begun)

SummariesAreTruthful ==
    /\ cache.payload # Absent => Truthful(cache.payload)
    /\ Good(inflight) => Truthful(inflight.result)
    /\ \A c \in Clients : Good(wait[c]) => Truthful(wait[c].result)
    /\ answer.payload # Absent => Truthful(answer.payload)

\* A refresh that is found ended was built since the monitor heard last.
EndedIsRecent ==
    /\ \A c \in Clients : Good(wait[c]) => wait[c].result.built = now
    /\ Good(inflight) =>
          /\ monitor.streak >= 1 => inflight.result.built >= monitor.heard
          /\ answer # NoAnswer \/ wait["monitor"] # Absent => inflight.result.built = now

\* What was stored after a poll was built no earlier than that poll.
StoredIsRecent ==
    /\ cache.updated <= now
    /\ cache.payload # Absent =>
          /\ monitor.streak >= 1 /\ cache.updated > monitor.heard =>
                cache.payload.built >= monitor.heard
          /\ monitor.streak >= 2 /\ cache.updated > monitor.heard - Interval =>
                cache.payload.built >= monitor.heard - Interval

\* A poll at `time' that did not find the summary fresh had it rebuilt.
FollowedUp(time) ==
    \/ cache.error \/ cache.updated > time - SummaryStale \/ Done(inflight)
    \/ /\ IsPending(inflight)
       /\ IF build["background"].step = "idle" THEN now = time
          ELSE build["background"].begun <= time

RefreshFollows ==
    /\ answer.payload # Absent => FollowedUp(now)
    /\ monitor.streak >= 1 => FollowedUp(monitor.heard)

AnswerIsRecent ==
    answer.payload # Absent /\ monitor.streak >= 2 =>
        \/ answer.state = "stale" /\ answer.suspect
        \/ answer.payload.built >= now - 2 * Interval

HonestInv ==
    /\ PipelineInv /\ AsksInTurn /\ ReadsInOrder /\ SummariesAreTruthful
    /\ EndedIsRecent /\ StoredIsRecent /\ RefreshFollows /\ AnswerIsRecent
    /\ GreenMeansReported /\ GreenMeansInStep
=============================================================================
