----------------------------- MODULE SkillInstall -----------------------------
(***************************************************************************)
(* local_skill.py and the uninstallation of operator_executor.py: a skill   *)
(* an operator points at is analysed, then installed into the roots of the  *)
(* selected tools, one after the other; the record is written when all are  *)
(* done.  Users and fan-out change the roots and the source meanwhile.      *)
(***************************************************************************)
EXTENDS Naturals, FiniteSets

CONSTANTS
    Tools, Versions, Absent,
    Sidecar,        \* the canonical root among the tools
    InitialEntries, \* what the tools hold at first, a set
    InitialSources, \* what the operator points at, a set
    EditEntries,    \* what users and fan-out put in a root
    MaxInstalls, MaxEdits, MaxFailures

VARIABLES
    entry,      \* [Tools -> Entry]
    source,     \* the skill pointed at: [at, body, manifest, secret]
    backups,    \* what installations and removals kept, newest last per tool
    job,        \* the installation or removal under way
    records,    \* the tools every installation record lists
    moved,      \* history: tools, or "source", changed by others since
    counts

vars == <<entry, source, backups, job, records, moved, counts>>

\* A directory, a link into canonical, a link elsewhere.
Kinds == {"dir", "canonical", "link"}
Entry == {Absent} \cup [kind: Kinds, body: Versions, manifest: BOOLEAN,
                        secret: BOOLEAN]
Directory(e) == IF e = Absent THEN Absent ELSE [e EXCEPT !.kind = "dir"]
NoRoot == [kind |-> "none", body |-> Absent, manifest |-> FALSE, secret |-> FALSE]
ActionNames == {"install_new", "skip", "noop", "write_manifest", "replace_with_backup"}
SkillOf(src) == [kind |-> "dir", body |-> src.body, manifest |-> src.manifest,
                 secret |-> src.secret]
Idle == [step |-> "idle", done |-> {}, todo |-> {}, action |-> [t \in Tools |-> "noop"],
         at |-> Absent, temp |-> Absent, had |-> FALSE, was |-> [t \in Tools |-> Absent]]

Source == [at: Tools \cup {Absent}, body: Versions, manifest: BOOLEAN, secret: BOOLEAN]
Job == [step: {"idle", "targets", "backup", "remove", "replace", "move"},
        done: SUBSET Tools, todo: SUBSET Tools, action: [Tools -> ActionNames],
        at: Tools \cup {Absent}, temp: Entry, had: BOOLEAN,
        was: [Tools -> Entry \cup {NoRoot}]]
Counts == [installs: 0..MaxInstalls, edits: 0..MaxEdits, failures: 0..MaxFailures]

InstallTypeOK ==
    /\ entry \in [Tools -> Entry \cup {NoRoot}] /\ source \in Source
    /\ backups \in [Tools -> SUBSET (Entry \ {Absent})]
    /\ job \in Job /\ counts \in Counts
    /\ records \subseteq SUBSET Tools /\ moved \subseteq Tools \cup {"source"}

Init ==
    /\ entry \in InitialEntries
    /\ source \in InitialSources
    /\ IF source.at = Absent THEN TRUE
       ELSE Directory(entry[source.at]) = SkillOf(source)
    /\ backups = [t \in Tools |-> {}]
    /\ job = Idle /\ records = {} /\ moved = {}
    /\ counts = [installs |-> 0, edits |-> 0, failures |-> 0]

-----------------------------------------------------------------------------
(* analyze_local_skill *)

Hash(e) == <<e.body, e.manifest>>
Desired == <<source.body, TRUE>>
IsSource(t) == source.at = t

LinkedToCanonical(t) == entry[t] # Absent /\ entry[t].kind = "canonical"

TargetAction(t) ==
    IF entry[t] = NoRoot THEN "skip"
    ELSE IF t # Sidecar /\ LinkedToCanonical(t) THEN "noop"
    ELSE IF IsSource(t) THEN (IF entry[t].manifest THEN "noop" ELSE "write_manifest")
    ELSE IF entry[t] = Absent THEN "install_new"
    ELSE IF Hash(entry[t]) = Desired THEN "noop"
    ELSE IF ~ entry[t].manifest /\ Hash(entry[t]) = Hash(source) THEN "write_manifest"
    ELSE "replace_with_backup"

Allowed(t) == ~ source.secret /\ TargetAction(t) \notin {"skip", "noop"}

SourceExists == IF source.at = Absent THEN TRUE ELSE entry[source.at] # Absent

Install(selected) ==
    /\ job = Idle
    /\ counts.installs < MaxInstalls
    /\ selected # {}
    /\ SourceExists
    /\ counts' = [counts EXCEPT !.installs = @ + 1]
    /\ job' = [Idle EXCEPT !.step = "targets",
                  !.action = [t \in Tools |-> IF t \in selected THEN TargetAction(t)
                                              ELSE "noop"],
                  !.todo = {t \in selected : Allowed(t)},
                  !.was = entry]
    /\ moved' = {}
    /\ UNCHANGED <<entry, source, backups, records>>

-----------------------------------------------------------------------------
(* _install_target *)

\* The source may be a tool's own directory: it changes with it.
Put(t, e) ==
    /\ entry' = [entry EXCEPT ![t] = e]
    /\ source' = IF IsSource(t) /\ e # Absent
                 THEN [source EXCEPT !.body = e.body, !.manifest = e.manifest,
                                     !.secret = e.secret]
                 ELSE source

\* A directory that vanished meanwhile would be made anew with nothing but the
\* manifest in it: left out.
WriteManifest(t) ==
    /\ job.step = "targets" /\ t \in job.todo
    /\ job.action[t] = "write_manifest"
    /\ entry[t] # Absent
    /\ Put(t, [entry[t] EXCEPT !.manifest = TRUE])
    /\ job' = [job EXCEPT !.todo = @ \ {t}, !.done = @ \cup {t}]
    /\ UNCHANGED <<backups, records, moved, counts>>

\* The copy is of the source as it is now, not as it was analysed.
Packed == [SkillOf(source) EXCEPT !.manifest = TRUE]

CopyToTemp(t) ==
    /\ job.step = "targets" /\ t \in job.todo
    /\ job.action[t] \in {"install_new", "replace_with_backup"}
    /\ SourceExists
    /\ job' = [job EXCEPT !.at = t, !.had = entry[t] # Absent, !.step = "backup",
                  !.temp = Packed]
    /\ UNCHANGED <<entry, source, backups, records, moved, counts>>

\* What is there is kept even if the analysis found nothing there.
\* mutant: only what was there then
KeptIfPlanned == job.action[job.at] = "replace_with_backup"
Kept == job.had

BackUp ==
    /\ job.step = "backup"
    /\ IF Kept
       THEN /\ entry[job.at] # Absent
            /\ backups' = [backups EXCEPT ![job.at] = @ \cup {Directory(entry[job.at])}]
       ELSE UNCHANGED backups
    /\ job' = [job EXCEPT !.step = IF job.had THEN "remove" ELSE "replace"]
    /\ moved' = moved \ {job.at}
    /\ UNCHANGED <<entry, source, records, counts>>

Remove ==
    /\ job.step = "remove"
    /\ Put(job.at, Absent)
    /\ job' = [job EXCEPT !.step = "replace"]
    /\ UNCHANGED <<backups, records, moved, counts>>

Replace ==
    /\ job.step = "replace"
    /\ entry[job.at] = Absent
    /\ Put(job.at, job.temp)
    /\ job' = [job EXCEPT !.step = "targets", !.todo = @ \ {job.at},
                          !.done = @ \cup {job.at}, !.at = Absent,
                          !.temp = Absent, !.had = FALSE]
    /\ UNCHANGED <<backups, records, moved, counts>>

WriteRecord ==
    /\ job.step = "targets" /\ job.todo = {}
    /\ records' = IF job.done = {} THEN records ELSE records \cup {job.done}
    /\ job' = Idle
    /\ UNCHANGED <<entry, source, backups, moved, counts>>

\* An exception ends the installation: earlier targets stay, the one at hand
\* is where it was left, no record is written.
InstallFails ==
    /\ job.step \in {"backup", "remove", "replace", "targets"}
    /\ \/ job.step = "targets" /\ job.todo # {} /\ ~ SourceExists /\ counts' = counts
       \/ job.step = "backup" /\ job.had /\ entry[job.at] = Absent /\ counts' = counts
       \/ job.step = "replace" /\ entry[job.at] # Absent /\ counts' = counts
       \/ /\ counts.failures < MaxFailures
          /\ counts' = [counts EXCEPT !.failures = @ + 1]
    /\ job' = Idle
    /\ UNCHANGED <<entry, source, backups, records, moved>>

-----------------------------------------------------------------------------
(* run_mac_tool_uninstall: the entry is moved aside, links as links. *)

Uninstall(t) ==
    /\ job = Idle
    /\ counts.installs < MaxInstalls
    /\ t # Sidecar /\ entry[t] \notin {Absent, NoRoot}
    /\ counts' = [counts EXCEPT !.installs = @ + 1]
    /\ job' = [Idle EXCEPT !.step = "move", !.at = t]
    /\ moved' = {}
    /\ UNCHANGED <<entry, source, backups, records>>

Moved(t) == {entry[t]}

MoveAside ==
    /\ job.step = "move"
    /\ entry[job.at] # Absent
    /\ backups' = [backups EXCEPT ![job.at] = @ \cup Moved(job.at)]
    /\ Put(job.at, Absent)
    /\ job' = Idle
    /\ UNCHANGED <<records, moved, counts>>

MoveFails ==
    /\ job.step = "move"
    /\ entry[job.at] = Absent
    /\ job' = Idle
    /\ UNCHANGED <<entry, source, backups, records, moved, counts>>

-----------------------------------------------------------------------------
(* Users and fan-out *)

Others(what) ==
    /\ counts.edits < MaxEdits
    /\ counts' = [counts EXCEPT !.edits = @ + 1]
    /\ moved' = moved \cup what
    /\ UNCHANGED <<backups, job, records>>

EditEntry(t, e) ==
    /\ entry[t] # NoRoot /\ entry[t] # e
    /\ Put(t, e)
    /\ Others(IF IsSource(t) THEN {t, "source"} ELSE {t})

EditSource(v, secret) ==
    /\ source.at = Absent
    /\ source' = [source EXCEPT !.body = v, !.secret = secret]
    /\ Others({"source"})
    /\ UNCHANGED entry

Next ==
    \/ \E selected \in SUBSET Tools : Install(selected)
    \/ \E t \in Tools : \/ WriteManifest(t) \/ CopyToTemp(t) \/ Uninstall(t)
                        \/ \E e \in EditEntries : EditEntry(t, e)
    \/ BackUp \/ Remove \/ Replace \/ WriteRecord \/ InstallFails
    \/ MoveAside \/ MoveFails
    \/ \E v \in Versions, secret \in BOOLEAN : EditSource(v, secret)

Spec == Init /\ [][Next]_vars

-----------------------------------------------------------------------------
(* Properties *)

\* What an installation or a removal takes out of a root is kept beside it,
\* unless somebody wrote it after the copy was taken
\* (local_skill.py:469-482, operator_executor.py:309-318).
TakenOutIsKept ==
    [][\A t \in Tools :
         job # Idle /\ counts' = counts /\ t \notin moved
         /\ entry[t] # Absent /\ entry'[t] = Absent
            => {Directory(entry[t]), entry[t]} \cap backups'[t] # {}]_vars

\* A skill with files that look like secrets is not installed anywhere, unless
\* they came after the analysis (local_skill.py:97-102).
SecretsStay ==
    [][\A t \in Tools :
         job # Idle /\ counts' = counts /\ entry'[t] # entry[t]
         /\ entry'[t] # Absent /\ entry'[t].secret
            => entry[t] # Absent \/ "source" \in moved]_vars

\* What fan-out keeps current is not turned into a copy that it no longer
\* keeps: a link into canonical of the time of the analysis stays
\* (local_skill.py:371-375).
FanoutLinksStay ==
    [][\A t \in Tools \ {Sidecar} :
         job.step = "remove" /\ t = job.at
         /\ job.was[t] # Absent /\ job.was[t].kind = "canonical"
            => t \in moved \/ entry[t].kind # "canonical"]_vars

\* An installation that left a record installed every target it lists, each as
\* the source is, as long as nobody touched either
\* (local_skill.py:159-162).
RecordedIsInstalled ==
    [][\A set \in records' \ records : \A t \in set \ moved :
         "source" \in moved \/ Hash(entry[t]) = Desired]_vars

-----------------------------------------------------------------------------
(* The inductive invariant behind them *)

\* A tool's own directory that is the source holds the source.
Tied ==
    source.at \in Tools /\ entry[source.at] # Absent =>
       Directory(entry[source.at]) = SkillOf(source)

Copies == {"install_new", "replace_with_backup"}
Copying == job.step \in {"backup", "remove", "replace"}

\* What is planned, at hand and done.
TargetsAreSound ==
    /\ job.step = "idle" <=> job = Idle
    /\ Copying => job.at \in job.todo /\ job.action[job.at] \in Copies /\ job.temp # Absent
    /\ job.step = "move" => job.todo = {} /\ job.at \in Tools /\ entry[job.at] # NoRoot
    /\ job.done \cap job.todo = {}
    /\ \A t \in job.todo : entry[t] # NoRoot
    /\ \A t \in Tools : job.action[t] \in Copies => ~ IsSource(t)

\* What is about to be removed is in the backup.
KeptFirst ==
    job.step = "remove" /\ job.at \notin moved /\ entry[job.at] # Absent =>
       Directory(entry[job.at]) \in backups[job.at]

\* What is still to be copied, or was, holds no secret.
NoSecrets ==
    "source" \in moved \/
       /\ job.todo # {} => ~ source.secret
       /\ Copying => ~ job.temp.secret

LinksSpared ==
    \A t \in job.todo \ {Sidecar} : job.was[t] # Absent => job.was[t].kind # "canonical"

\* What is done, copied or only lacks its manifest is as the source.
AsTheSource ==
    "source" \in moved \/
       /\ \A t \in job.done \ moved : Hash(entry[t]) = Desired
       /\ Copying => job.temp.body = source.body /\ job.temp.manifest
       /\ \A t \in job.todo \ moved :
             job.action[t] = "write_manifest" => entry[t].body = source.body

InstallInv ==
    /\ InstallTypeOK /\ Tied /\ TargetsAreSound
    /\ KeptFirst /\ NoSecrets /\ LinksSpared /\ AsTheSource
=============================================================================
