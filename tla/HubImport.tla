------------------------------- MODULE HubImport -------------------------------
(***************************************************************************)
(* hub_import.py: skills of other tools' roots are compared with the Hub,   *)
(* the ones it lacks are previewed in a package on disk, and the package is *)
(* applied later, maybe more than once, by processes that know nothing of   *)
(* one another.                                                             *)
(***************************************************************************)
EXTENDS Naturals, FiniteSets

CONSTANTS
    Roots, Skills, Versions, Absent,
    Processes,      \* applications of the package
    Central,        \* Central[s]: what the central index says of a skill
    InitialHubs,    \* what the Hub holds at first, a set of [Skills -> Entry]
    InitialRoots,   \* what the roots hold, a set of [Roots -> [Skills -> Entry]]
    EditEntries,    \* what users put into a root
    MaxEdits, MaxFailures

VARIABLES
    hub,        \* [Skills -> Entry]
    roots,      \* [Roots -> [Skills -> Entry]]
    package,    \* the preview package: actions with the hashes they saw
    job,        \* [Processes -> the application under way]
    imported,   \* what the processes' records say they imported
    moved,      \* history: skills whose source or Hub entry others changed
                \* since the package was made, or since the plan was
    counts

vars == <<hub, roots, package, job, imported, moved, counts>>

\* A directory of some content, or a link to the Hub's own copy.
HubLink == [kind |-> "link", content |-> Absent]
Dir(v) == [kind |-> "dir", content |-> v]
Entry == {Absent, HubLink} \cup {Dir(v) : v \in Versions}
Held == {Absent} \cup {Dir(v) : v \in Versions}
Items == Roots \X Skills
ActionNames == {"preview_import", "review_duplicate_import", "review_update",
                "skip_incompatible", "skip_existing"}
NoPackage == [actions |-> [i \in Items |-> "none"], hash |-> [i \in Items |-> Absent]]
Idle == [step |-> "idle", todo |-> {}, at |-> Absent, content |-> Absent,
         hash |-> [i \in Items |-> Absent], done |-> {}]

Contents == Versions \cup {Absent}
Package == [actions: [Items -> ActionNames \cup {"none"}], hash: [Items -> Contents]]
Job == [step: {"idle", "items", "rename"}, todo: SUBSET Items,
        at: Items \cup {Absent}, content: Contents,
        hash: [Items -> Contents], done: SUBSET Items]
Counts == [edits: 0..MaxEdits, failures: 0..MaxFailures]

ImportTypeOK ==
    /\ hub \in [Skills -> Held]
    /\ roots \in [Roots -> [Skills -> Entry]]
    /\ package \in Package
    /\ job \in [Processes -> Job]
    /\ imported \in [Processes -> SUBSET Items]
    /\ moved \subseteq Skills
    /\ counts \in Counts

Init ==
    /\ hub \in InitialHubs /\ roots \in InitialRoots
    /\ package = NoPackage
    /\ job = [p \in Processes |-> Idle]
    /\ imported = [p \in Processes |-> {}]
    /\ moved = {}
    /\ counts = [edits |-> 0, failures |-> 0]

-----------------------------------------------------------------------------
(* The diagnosis and its action plan *)

Found == {i \in Items : roots[i[1]][i[2]] # Absent}
\* A link to a Hub copy that is gone cannot be scanned: it is not found.
Seen == {i \in Found : roots[i[1]][i[2]] = HubLink => hub[i[2]] # Absent}
ContentOf(i) == CASE roots[i[1]][i[2]] # HubLink -> roots[i[1]][i[2]].content
                  [] roots[i[1]][i[2]] = HubLink ->
                        IF hub[i[2]] = Absent THEN Absent ELSE hub[i[2]].content

\* The central index has the last word on scope and targets.
Compatible(s) == Central[s].scope = "global" /\ "skillshub" \in Central[s].targets

Diagnose(i) ==
    LET s == i[2] IN
    IF hub[s] # Absent /\ ContentOf(i) = hub[s].content THEN "already_in_hub"
    ELSE IF ~ Compatible(s) THEN "not_compatible"
    ELSE IF hub[s] # Absent THEN "update_available"
    ELSE "importable"

Duplicate(i) == \E other \in Seen \ {i} : other[2] = i[2]

ActionOf(i) ==
    CASE i \notin Seen -> "none"
      [] i \in Seen /\ Diagnose(i) = "already_in_hub" -> "skip_existing"
      [] i \in Seen /\ Diagnose(i) = "not_compatible" -> "skip_incompatible"
      [] i \in Seen /\ Diagnose(i) = "update_available" -> "review_update"
      [] i \in Seen /\ Diagnose(i) = "importable" ->
            IF Duplicate(i) THEN "review_duplicate_import" ELSE "preview_import"

Preview ==
    /\ package = NoPackage
    /\ Seen # {}
    /\ package' = [actions |-> [i \in Items |-> ActionOf(i)],
                   hash |-> [i \in Items |-> IF i \in Seen THEN ContentOf(i) ELSE Absent]]
    /\ moved' = {}
    /\ UNCHANGED <<hub, roots, job, imported, counts>>

-----------------------------------------------------------------------------
(* The application *)

Unchanged(i) == i \in Seen /\ ContentOf(i) = package.hash[i]
Applicable(i) == package.actions[i] = "preview_import"
Allowed(i) == Applicable(i) /\ hub[i[2]] = Absent /\ Unchanged(i)

Apply(p) ==
    /\ job[p] = Idle /\ package # NoPackage
    /\ imported[p] = {}
    /\ \E i \in Items : Allowed(i)
    /\ job' = [job EXCEPT ![p] = [Idle EXCEPT !.step = "items",
                  !.todo = {i \in Items : Allowed(i)},
                  !.hash = [i \in Items |-> IF i \in Seen THEN ContentOf(i) ELSE Absent]]]
    /\ UNCHANGED <<hub, roots, package, imported, moved, counts>>

\* The source is scanned again and copied beside the target.
CopySource(p, i) ==
    /\ job[p].step = "items" /\ i \in job[p].todo
    /\ hub[i[2]] = Absent /\ i \in Seen
    /\ job' = [job EXCEPT ![p].step = "rename", ![p].at = i,
                          ![p].content = ContentOf(i)]
    /\ UNCHANGED <<hub, roots, package, imported, moved, counts>>

\* A directory that is not empty is not renamed over.
\* mutant: it is copied into place file by file
FreeAlways(s) == TRUE
Free(s) == hub[s] = Absent

PutInHub(p) ==
    /\ job[p].step = "rename" /\ Free(job[p].at[2])
    /\ hub' = [hub EXCEPT ![job[p].at[2]] = Dir(job[p].content)]
    /\ job' = [job EXCEPT ![p].step = "items", ![p].todo = @ \ {job[p].at},
                          ![p].done = @ \cup {job[p].at},
                          ![p].at = Absent, ![p].content = Absent]
    /\ UNCHANGED <<roots, package, imported, moved, counts>>

\* A failing item is listed as failed; the others go on.
ItemFails(p, i) ==
    /\ \/ /\ job[p].step = "items" /\ i \in job[p].todo
          /\ hub[i[2]] # Absent \/ i \notin Seen
          /\ counts' = counts
       \/ /\ job[p].step = "rename" /\ i = job[p].at
          /\ ~ Free(i[2])
          /\ counts' = counts
       \/ /\ i = IF job[p].step = "rename" THEN job[p].at ELSE i
          /\ job[p].step # "idle" /\ i \in job[p].todo
          /\ counts.failures < MaxFailures
          /\ counts' = [counts EXCEPT !.failures = @ + 1]
    /\ job' = [job EXCEPT ![p].step = "items", ![p].todo = @ \ {i},
                          ![p].at = Absent, ![p].content = Absent]
    /\ UNCHANGED <<hub, roots, package, imported, moved>>

Recorded(p) == job[p].done

WriteRecord(p) ==
    /\ job[p].step = "items" /\ job[p].todo = {}
    /\ imported' = [imported EXCEPT ![p] = Recorded(p)]
    /\ job' = [job EXCEPT ![p] = Idle]
    /\ UNCHANGED <<hub, roots, package, moved, counts>>

-----------------------------------------------------------------------------
(* Users *)

Others(s) ==
    /\ counts.edits < MaxEdits
    /\ counts' = [counts EXCEPT !.edits = @ + 1]
    /\ moved' = moved \cup {s}
    /\ UNCHANGED <<package, job, imported>>

EditRoot(r, s, e) == /\ roots' = [roots EXCEPT ![r][s] = e]
                     /\ Others(s) /\ UNCHANGED hub
EditHub(s, e) == hub' = [hub EXCEPT ![s] = e] /\ Others(s) /\ UNCHANGED roots

Next ==
    \/ Preview
    \/ \E p \in Processes : \/ Apply(p) \/ PutInHub(p) \/ WriteRecord(p)
                            \/ \E i \in Items : CopySource(p, i) \/ ItemFails(p, i)
    \/ \E s \in Skills : \/ \E r \in Roots, e \in EditEntries : EditRoot(r, s, e)
                         \/ \E e \in Held : EditHub(s, e)

Spec == Init /\ [][Next]_vars

-----------------------------------------------------------------------------
(* The inductive invariant *)

\* What a process is at is on its list, and nothing starts without a package.
OnTheList ==
    \A p \in Processes :
        /\ job[p].step = "idle" <=> job[p] = Idle
        /\ job[p].step = "rename" => job[p].at \in job[p].todo /\ job[p].content \in Versions
        /\ \A i \in job[p].todo : Applicable(i)
        /\ package = NoPackage => job[p] = Idle /\ imported[p] = {}

\* What the package shows is there as shown, unless somebody changed it since.
SourcesAsShown ==
    \A i \in Items : Applicable(i) =>
        /\ Compatible(i[2])
        /\ roots[i[1]][i[2]] = Dir(package.hash[i]) \/ i[2] \in moved
CopiesAsShown ==
    \A p \in Processes : job[p].step = "rename" =>
        job[p].content = package.hash[job[p].at] \/ job[p].at[2] \in moved

\* What a process put into the Hub is in it and is its own, unless somebody
\* changed it since.
Own(p) == job[p].done \cup imported[p]
OwnIsInHub ==
    \A p \in Processes : \A i \in Own(p) : i[2] \in moved \/ hub[i[2]] # Absent
OwnIsOwn ==
    \A p, q \in Processes : p # q => \A i \in Own(p) \cap Own(q) : i[2] \in moved

ImportInv ==
    /\ ImportTypeOK /\ OnTheList
    /\ SourcesAsShown /\ CopiesAsShown /\ OwnIsInHub /\ OwnIsOwn

-----------------------------------------------------------------------------
(* Properties *)

\* No import replaces what the Hub holds, however many run and whatever came
\* to the Hub since the preview (hub_import.py:719, 745-761).
HubIsNotOverwritten ==
    [][\A s \in Skills : hub[s] # Absent /\ counts'.edits = counts.edits
                         => hub'[s] = hub[s]]_vars

\* Only a skill that had one source and that the central index wants in the
\* Hub is imported, and with the content the package shows, unless somebody
\* changed it after the package was made (hub_import.py:721-726).
ImportedAsPreviewed ==
    [][\A p \in Processes, i \in Items :
         job[p].step = "rename" /\ i = job[p].at /\ job'[p].step = "items"
         /\ hub' # hub
            => /\ Compatible(i[2])
               /\ package.actions[i] = "preview_import"
               /\ hub'[i[2]] = Dir(package.hash[i]) \/ i[2] \in moved]_vars

\* An application starts only with sources that have the content they were
\* reviewed with, whoever edited them since the preview (hub_import.py:727-731).
SourceAsPlanned ==
    [][\A p \in Processes : job[p] = Idle /\ job'[p].step = "items" =>
         \A i \in job'[p].todo : job'[p].hash[i] = package.hash[i]]_vars

\* A record lists only what its own process put into the Hub
\* (hub_import.py:270-291).
RecordIsOwn ==
    [][\A p, q \in Processes : p # q /\ imported'[p] # imported[p] =>
         imported'[p] \cap (imported[q] \cup job[q].done) = {}
         \/ \E i \in imported'[p] : i[2] \in moved]_vars
=============================================================================
