---------------------------- MODULE ReviewConsole ----------------------------
(***************************************************************************)
(* The review of what one pull-only device (OpenClaw) may not push by      *)
(* itself.  Browser tabs show the blocked skills the gateway read from the *)
(* device's status; an operator checks them, confirms, and has them saved, *)
(* or central's version restored (dashboard.py).  The executor runs a      *)
(* script for each request (operator_executor.py); the scripts work on the *)
(* device, with the files its daemon uses, and take no lock.               *)
(***************************************************************************)
EXTENDS SyncDecision, Naturals

CONSTANTS
    Skills, Tabs,
    InitialSources, \* what the device may hold; central holds InitialCentral
    InitialCentral,
    InitialBase,
    Attempts,       \* how often a tab looks whether what it saved is settled
    MaxFlows, MaxEdits, MaxPushes, MaxFailures,
    MaxTogether     \* of the last three in one behaviour

VARIABLES
    source,     \* the device's skill root
    base,       \* its base record
    cache,      \* its copy of the central index
    file,       \* its blocked report: [Skills -> Item]
    central,    \* the central index
    peer,       \* the status published of the device: the kinds of its items
    tab, job,
    known,      \* history: versions that central held, of each skill
    told,       \* history: skills known when the status was last told
    counts

rvars == <<source, base, cache, file, central, peer, tab, job, known, told, counts>>

-----------------------------------------------------------------------------
Hashes == [Skills -> Content]
Kinds == {"push", "conflict", "delete", "none"}
Item == [kind: Kinds, base: Content, local: Content, remote: Content]
Queue == [Skills -> Kinds]
Flows == {"save", "conflict", "restore"}
Nobody == [s \in Skills |-> Absent]

\* said: what the tab tells last; safe (history): the skills of which the
\* device held a known version when the status it looked at was told.
Tab == [step: {"idle", "checking", "confirming", "writing", "asking", "reading"},
        flow: Flows, ids: SUBSET Skills, preview: Hashes, shown: Queue,
        attempt: 0..Attempts, lost: BOOLEAN, safe: SUBSET Skills,
        said: {"nothing", "failed", "unchanged", "pending", "done"}]
\* late (history): skills that changed on the device since the script had
\* them reported.
Job == [step: {"idle", "report", "filter", "check", "verify", "merge", "put",
               "record", "stage", "apply", "tell"},
        flow: Flows, dry: BOOLEAN, ids: SUBSET Skills, hash: Hashes, late: SUBSET Skills,
        orphan: BOOLEAN]

ConsoleTypeOK ==
    /\ {source, base, cache, central} \subseteq Hashes
    /\ file \in [Skills -> Item]
    /\ peer \in Queue
    /\ known \in [Skills -> SUBSET Content] /\ told \subseteq Skills
    /\ tab \in [Tabs -> Tab] /\ job \in [Tabs -> Job]
    /\ \A t \in Tabs : job[t].step = "idle" => tab[t].step \notin {"checking", "writing"}
    /\ counts \in [flows: Nat, edits: Nat, pushes: Nat, failures: Nat]

\* The item of a skill in the plan of the device: its daemon may not push.
ItemOf(s, local, remote) ==
    LET status == Classify(base[s], local[s], remote[s], FALSE) IN
    [kind |-> CASE status \in {"push", "local_new"} -> "push"
                [] status = "conflict" -> "conflict"
                [] status \in {"local_deleted", "remote_deleted"} -> "delete"
                [] OTHER -> "none",
     base |-> base[s], local |-> local[s], remote |-> remote[s]]
Plan(remote) == [s \in Skills |-> ItemOf(s, source, remote)]
KindsOf(remote) == [s \in Skills |-> Plan(remote)[s].kind]
Pulls(remote) ==
    {s \in Skills : Classify(base[s], source[s], remote[s], FALSE) \in {"pull", "remote_new"}}

NoJob == [step |-> "idle", flow |-> "save", dry |-> TRUE, ids |-> {}, hash |-> Nobody,
          late |-> {}, orphan |-> FALSE]
NoFlow(shown, said) ==
    [step |-> "idle", flow |-> "save", ids |-> {}, preview |-> Nobody,
     shown |-> shown, attempt |-> 0, lost |-> FALSE, safe |-> {}, said |-> said]

Init ==
    /\ source \in InitialSources
    /\ base = InitialBase /\ central = InitialCentral /\ cache = InitialCentral
    /\ file = Plan(InitialCentral)
    /\ peer = KindsOf(InitialCentral)
    /\ tab = [t \in Tabs |-> NoFlow(KindsOf(InitialCentral), "nothing")]
    /\ job = [t \in Tabs |-> NoJob]
    /\ known = [s \in Skills |-> {Absent, base[s], central[s]}]
    /\ told = {s \in Skills : source[s] \in known[s]}
    /\ counts = [flows |-> 0, edits |-> 0, pushes |-> 0, failures |-> 0]

Count(kind, max) ==
    /\ counts[kind] < max
    /\ kind # "flows" => counts.edits + counts.pushes + counts.failures < MaxTogether
    /\ counts' = [counts EXCEPT ![kind] = @ + 1]
MayFail == Count("failures", MaxFailures)

\* The histories: what central comes to hold, what changes on the device.
Known(kept) == known' = [s \in Skills |-> known[s] \cup {kept[s]}]

Moved(jobs) ==
    job' = [t \in Tabs |-> IF jobs[t].step = "idle" THEN jobs[t]
              ELSE [jobs[t] EXCEPT !.late = @ \cup {s \in Skills : source'[s] # source[s]}]]

\* The status of the device is computed and published.
Told ==
    /\ cache' = central
    /\ peer' = KindsOf(central)
    /\ told' = {s \in Skills : source[s] \in known[s]}

-----------------------------------------------------------------------------
(* The world around *)

Edit(s, v) ==
    /\ Count("edits", MaxEdits)
    /\ source' = [source EXCEPT ![s] = v]
    /\ Moved(job)
    /\ UNCHANGED <<base, cache, file, central, peer, tab, known, told>>

OthersPush(s, v) ==
    /\ Count("pushes", MaxPushes)
    /\ central' = [central EXCEPT ![s] = v]
    /\ Known(central')
    /\ UNCHANGED <<source, base, cache, file, peer, tab, job, told>>

\* A cycle of the device's daemon: it applies nothing while an item is blocked.
DaemonCycle ==
    /\ cache' = central
    /\ file' = Plan(central)
    /\ IF /\ \A s \in Skills : Plan(central)[s].kind = "none"
          /\ Pulls(central) # {}
       THEN /\ source' = [s \in Skills |-> IF s \in Pulls(central) THEN central[s]
                                           ELSE source[s]]
            /\ base' = central
       ELSE UNCHANGED <<source, base>>
    /\ Moved(job)
    /\ UNCHANGED <<central, peer, tab, known, told, counts>>

-----------------------------------------------------------------------------
(* A tab: check, confirm, write, wait *)

Look(t) ==
    /\ tab[t].step = "idle"
    /\ tab' = [tab EXCEPT ![t].shown = peer]
    /\ UNCHANGED <<source, base, cache, file, central, peer, job, known, told, counts>>

FirstStep(flow) == IF flow = "restore" THEN "stage" ELSE "report"
Request(t, flow, ids, dry) ==
    job' = [job EXCEPT ![t] = [NoJob EXCEPT !.step = FirstStep(flow), !.flow = flow,
                                             !.dry = dry, !.ids = ids]]

\* Saving takes every skill that may be saved, the others one conflict.
Choices(t, flow) ==
    IF flow = "save" THEN {{s \in Skills : tab[t].shown[s] = "push"}} \ {{}}
    ELSE {{s} : s \in {s \in Skills : tab[t].shown[s] = "conflict"}}

Check(t, flow, ids) ==
    /\ tab[t].step = "idle" /\ job[t].step = "idle"
    /\ ids \in Choices(t, flow)
    /\ Count("flows", MaxFlows)
    /\ tab' = [tab EXCEPT ![t] = [NoFlow(@.shown, "nothing") EXCEPT
                                    !.step = "checking", !.flow = flow, !.ids = ids]]
    /\ Request(t, flow, ids, TRUE)
    /\ UNCHANGED <<source, base, cache, file, central, peer, known, told>>

Cancel(t) ==
    /\ tab[t].step = "confirming"
    /\ tab' = [tab EXCEPT ![t] = NoFlow(@.shown, "unchanged")]
    /\ UNCHANGED <<source, base, cache, file, central, peer, job, known, told, counts>>

Confirm(t) ==
    /\ tab[t].step = "confirming"
    /\ tab' = [tab EXCEPT ![t].step = "writing"]
    /\ Request(t, tab[t].flow, tab[t].ids, FALSE)
    /\ UNCHANGED <<source, base, cache, file, central, peer, known, told, counts>>

\* Whatever fails is told as a failure, though it may have been written.
Failed(t) == [tab EXCEPT ![t] = NoFlow(@.shown, "failed")]

\* waitForSkillsResolution asks for a new status, reads it, and looks.
AskAgain(t) ==
    /\ tab[t].step = "asking"
    /\ \/ /\ Told /\ counts' = counts
          /\ tab' = [tab EXCEPT ![t].step = "reading"]
       \/ /\ MayFail /\ UNCHANGED <<cache, peer, told>>
          /\ tab' = [tab EXCEPT ![t].step = "reading", ![t].lost = TRUE]
    /\ UNCHANGED <<source, base, file, central, job, known>>

Looked(t, shown, lost) ==
    LET here == [tab[t] EXCEPT !.shown = shown, !.lost = @ \/ lost, !.safe = told]
        done == \A s \in here.ids : shown[s] = "none" IN
    tab' = [tab EXCEPT ![t] =
              IF done THEN [here EXCEPT !.step = "idle", !.said = "done"]
              ELSE IF here.attempt = Attempts
                   THEN [here EXCEPT !.step = "idle", !.said = "pending"]
              ELSE [here EXCEPT !.step = "asking", !.attempt = @ + 1]]

\* A status that cannot be read counts as one without blocked items, and a
\* summary that cannot be had leaves the queue as it is.
ReadAgain(t) ==
    /\ tab[t].step = "reading"
    /\ \/ Looked(t, peer, FALSE) /\ counts' = counts
       \/ Looked(t, [s \in Skills |-> "none"], TRUE) /\ MayFail
       \/ Looked(t, tab[t].shown, TRUE) /\ MayFail
    /\ UNCHANGED <<source, base, cache, file, central, peer, job, known, told>>

-----------------------------------------------------------------------------
(* The scripts of the executor *)

\* The end of a script: its request is answered, unless it was given up.
Answered(t, tabs) ==
    /\ job' = [job EXCEPT ![t] = NoJob]
    /\ tab' = IF job[t].orphan THEN tab ELSE tabs

Goes(t, step) == job' = [job EXCEPT ![t].step = step]

Report(t) ==
    /\ job[t].step = "report"
    /\ cache' = central /\ file' = Plan(central)
    /\ job' = [job EXCEPT ![t].step = "filter", ![t].late = {}]
    /\ UNCHANGED <<source, base, central, peer, tab, known, told, counts>>

\* mutant: the hashes the operator confirmed are not compared
NotExpected(t, s) == TRUE
Expected(t, s) ==
    (job[t].flow = "save" /\ ~ job[t].dry) => file[s].local = tab[t].preview[s]

Savable(flow) == IF flow = "conflict" THEN {"push", "conflict"} ELSE {"push"}
Publishable(t) ==
    {s \in job[t].ids : /\ file[s].kind \in Savable(job[t].flow)
                        /\ Expected(t, s)}

Filter(t) ==
    /\ job[t].step = "filter"
    /\ IF Publishable(t) = {}
       THEN Answered(t, [tab EXCEPT ![t] = NoFlow(@.shown, "unchanged")])
       ELSE /\ job' = [job EXCEPT ![t].step = "check", ![t].ids = Publishable(t)]
            /\ tab' = tab
    /\ UNCHANGED <<source, base, cache, file, central, peer, known, told, counts>>

\* build_approved_push_preview: nothing changed since the report that lies
\* there now, which need not be the one the script filtered.
StillAsReported(s) == ItemOf(s, source, cache) = file[s]
Approvable(s, flow) ==
    /\ StillAsReported(s)
    /\ file[s].kind \in Savable(flow)

\* What the tab shows for confirmation.
Checked(t) == [s \in Skills |-> IF s \in job[t].ids THEN source[s] ELSE Absent]

CheckReport(t) ==
    /\ job[t].step = "check"
    /\ IF \E s \in job[t].ids : ~ Approvable(s, job[t].flow)
       THEN Answered(t, Failed(t))
       ELSE IF job[t].dry
       THEN Answered(t, [tab EXCEPT ![t].step = "confirming", ![t].ids = job[t].ids,
                                    ![t].preview = Checked(t)])
       ELSE Goes(t, "verify") /\ tab' = tab
    /\ UNCHANGED <<source, base, cache, file, central, peer, known, told, counts>>

Verify(t) ==
    /\ job[t].step = "verify"
    /\ IF central = cache THEN Goes(t, "merge") /\ tab' = tab
       ELSE Answered(t, Failed(t))
    /\ UNCHANGED <<source, base, cache, file, central, peer, known, told, counts>>

\* _build_merged_snapshot scans the skill root again.
Merge(t) ==
    /\ job[t].step = "merge"
    /\ IF \E s \in job[t].ids : source[s] = Absent
       THEN Answered(t, Failed(t))
       ELSE /\ job' = [job EXCEPT ![t].step = "put",
                          ![t].hash = [s \in Skills |-> IF s \in job[t].ids THEN source[s]
                                                        ELSE cache[s]]]
            /\ tab' = tab
    /\ UNCHANGED <<source, base, cache, file, central, peer, known, told, counts>>

Put(t) ==
    /\ job[t].step = "put"
    /\ central' = job[t].hash
    /\ Known(central')
    /\ Goes(t, "record")
    /\ UNCHANGED <<source, base, cache, file, peer, tab, told, counts>>

Recorded(t) == job[t].hash

Record(t) ==
    /\ job[t].step = "record"
    /\ base' = Recorded(t)
    /\ job' = [job EXCEPT ![t] = IF job[t].orphan THEN NoJob ELSE [@ EXCEPT !.step = "tell"]]
    /\ UNCHANGED <<source, cache, file, central, peer, tab, known, told, counts>>

\* Restoring: the whole cache is staged, the chosen skill replaced; no base
\* is recorded.
Stage(t) ==
    /\ job[t].step = "stage"
    /\ cache' = central
    /\ IF job[t].dry
       THEN Answered(t, [tab EXCEPT ![t].step = "confirming"])
       ELSE /\ job' = [job EXCEPT ![t].step = "apply", ![t].hash = central]
            /\ tab' = tab
    /\ UNCHANGED <<source, base, file, central, peer, known, told, counts>>

Apply(t) ==
    /\ job[t].step = "apply"
    /\ source' = [s \in Skills |-> IF s \in job[t].ids THEN job[t].hash[s] ELSE source[s]]
    /\ Moved([job EXCEPT ![t] = IF job[t].orphan THEN NoJob ELSE [@ EXCEPT !.step = "tell"]])
    /\ UNCHANGED <<base, cache, file, central, peer, tab, known, told, counts>>

\* The status is told once more; after a restore that must not fail.
Tell(t) ==
    /\ job[t].step = "tell"
    /\ \/ /\ Told /\ counts' = counts
          /\ Answered(t, [tab EXCEPT ![t].step = "asking", ![t].attempt = 1])
       \/ /\ MayFail /\ UNCHANGED <<cache, peer, told>>
          /\ Answered(t, IF tab[t].flow = "restore" THEN Failed(t)
                         ELSE [tab EXCEPT ![t].step = "asking", ![t].attempt = 1])
    /\ UNCHANGED <<source, base, file, central, known>>

\* The executor gives a script up; what runs on the device runs on.
TimesOut(t) ==
    /\ tab[t].step \in {"checking", "writing"}
    /\ MayFail
    /\ tab' = Failed(t)
    /\ job' = [job EXCEPT ![t] =
                 IF ~ job[t].dry /\ job[t].step \in {"check", "verify", "merge", "put", "record", "apply"}
                 THEN [@ EXCEPT !.orphan = TRUE] ELSE NoJob]
    /\ UNCHANGED <<source, base, cache, file, central, peer, known, told>>

Next ==
    \/ \E s \in Skills, v \in Versions : Edit(s, v) \/ OthersPush(s, v)
    \/ DaemonCycle
    \/ \E t \in Tabs :
          \/ Look(t) \/ Cancel(t) \/ Confirm(t) \/ AskAgain(t) \/ ReadAgain(t)
          \/ \E flow \in Flows : \E ids \in Choices(t, flow) : Check(t, flow, ids)
          \/ Report(t) \/ Filter(t) \/ CheckReport(t) \/ Verify(t) \/ Merge(t)
          \/ Put(t) \/ Record(t) \/ Stage(t) \/ Apply(t) \/ Tell(t) \/ TimesOut(t)

Spec == Init /\ [][Next]_rvars

-----------------------------------------------------------------------------
(* Properties *)

Saves(t) ==
    job[t].step = "put" /\ job'[t].step = "record" /\ job[t].flow = "save" /\ ~ job[t].orphan

\* What a tab saves is what it showed when the operator confirmed it, but for
\* the skills that changed since the script had them reported; although
\* tabs and the daemon rewrite one report, and the last check is made against
\* another report than the first (operator_executor.py:88, approved_push.py:212).
SavedAsConfirmed ==
    [][\A t \in Tabs : Saves(t) => \A s \in job[t].ids \ job[t].late :
          central'[s] = tab[t].preview[s]]_rvars

\* The console promises more: "only the versions checked above are written;
\* what changes while they are written is skipped" (dashboard.py:9782).
OnlyCheckedIsSaved ==
    [][\A t \in Tabs : Saves(t) => \A s \in job[t].ids :
          central'[s] = tab[t].preview[s]]_rvars

\* Told that nothing is left to confirm, the operator can rely on it: unless a
\* read or a refresh failed meanwhile, the device held no version of what was
\* written that central never had, though it was edited while the script ran
\* and others pushed (dashboard.py:8127-8169, approved_push.py:135).
DoneMeansShared ==
    \A t \in Tabs : tab[t].said = "done" /\ ~ tab[t].lost => tab[t].ids \subseteq tab[t].safe

-----------------------------------------------------------------------------
(* Why they hold *)

\* A tab waits for its script, unless the script was given up; a check ends before
\* anything is written; and that all is done is told at the end only.
TabsWait ==
    \A t \in Tabs :
        /\ job[t].step = "idle" => job[t] = NoJob
        /\ job[t].step # "idle" /\ ~ job[t].orphan =>
              /\ tab[t].step = IF job[t].dry THEN "checking" ELSE "writing"
              /\ job[t].flow = tab[t].flow
        /\ job[t].orphan => tab[t].step = "idle"
        /\ job[t].dry => job[t].step \in {"idle", "report", "filter", "check", "stage"}
        /\ tab[t].said = "done" => tab[t].step = "idle"

\* What did not change on the device since a script had it reported is what the
\* report says, and what the operator confirmed.
AsReported ==
    \A t \in Tabs :
        /\ job[t].step = "filter" =>
              \A s \in Skills \ job[t].late : file[s].local = source[s]
        /\ job[t].flow = "save" /\ ~ job[t].dry /\ ~ job[t].orphan =>
              \A s \in job[t].ids \ job[t].late :
                  /\ job[t].step \in {"check", "verify", "merge"} => source[s] = tab[t].preview[s]
                  /\ job[t].step = "put" => job[t].hash[s] = tab[t].preview[s]

\* Whatever a base record or a script on its way lists, central held once; so a
\* skill that is told not to be blocked is at a version central held.
KnownIsKept ==
    /\ \A s \in Skills : {Absent, base[s], central[s]} \subseteq known[s]
    /\ \A t \in Tabs : job[t].step = "record" => \A s \in Skills : job[t].hash[s] \in known[s]
    /\ \A s \in Skills : peer[s] = "none" => s \in told

ConsoleInv == /\ ConsoleTypeOK /\ TabsWait /\ AsReported /\ KnownIsKept
              /\ DoneMeansShared
=============================================================================
