---------------------------- MODULE MCLocalChanges ----------------------------
(* Small worlds for the commands that change skills on one device: an        *)
(* initial state chooses one component, and only that component moves.       *)
EXTENDS LocalChanges, FiniteSets

CONSTANTS s1, t1, v0, v1, v2, m, x1, y1, f1, f2

VARIABLE world

Every(e) == [s \in Skills |-> e]
Dir(v) == [kind |-> "dir", content |-> v]
Pair(first, second) == [s \in Skills |-> IF s = s1 THEN first ELSE second]

-----------------------------------------------------------------------------
(* apply.py: a global and a project skill *)

BothOne == Every(v1)
GlobalAndProject == Pair("global", "project")
ALink(kind) == [kind |-> kind, content |-> v0]
ApplyRoots == {Every(Dir(v0)), Pair(ALink("canonical"), Absent),
               Pair(Absent, ALink("link"))}
ApplyEdits == {Absent, Dir(v0), ALink("canonical")}

(* local_skill.py, skill_uninstall.py: the canonical root and two tools *)

AllTools == {m, x1, y1}
IEntry(kind, v, manifest) ==
    [kind |-> kind, body |-> v, manifest |-> manifest, secret |-> FALSE]
ISource(at, v, secret) ==
    [at |-> at, body |-> v, manifest |-> FALSE, secret |-> secret]
IEntries(atM, atX, atY) ==
    [t \in AllTools |-> CASE t = m -> atM [] t = x1 -> atX [] t = y1 -> atY]
INoRoot == [kind |-> "none", body |-> Absent, manifest |-> FALSE, secret |-> FALSE]
InstallEntries ==
    {IEntries(Absent, Absent, Absent),
     IEntries(IEntry("dir", v0, TRUE), IEntry("canonical", v0, TRUE),
              IEntry("dir", v1, FALSE)),
     IEntries(IEntry("dir", v0, FALSE), INoRoot, IEntry("link", v0, FALSE))}
InstallSources == {ISource(Absent, v1, FALSE), ISource(Absent, v1, TRUE),
                   ISource(m, v0, FALSE)}
InstallEdits == {Absent, IEntry("canonical", v0, TRUE), IEntry("dir", v0, FALSE)}

(* hub_import.py: two roots, two applications of one package *)

OnlyFirstFits == [s \in Skills |-> [scope |-> "global",
                     targets |-> IF s = s1 THEN {"skillshub"} ELSE {}]]
EmptyHub == {Every(Absent)}
HubSources == {[r \in {x1, y1} |-> Every(IF r = x1 THEN Dir(v0) ELSE Absent)],
               [r \in {x1, y1} |-> Every(Dir(v1))]}
HubEdits == {Absent, Dir(v0), Dir(v1), [kind |-> "link", content |-> Absent]}

(* legacy_skillshub_migration.py: two tools that link to the legacy hub *)

ToolsOfSkills == Pair({x1, y1}, {x1})
BothZero == Every(v0)
LLink == [kind |-> "legacy", content |-> Absent]
LEntries(atOther) ==
    [p \in {x1, y1} \X Skills |-> IF p = <<y1, t1>> THEN atOther ELSE LLink]
LegacySnapshots == {Every(v0), Pair(v0, Absent), Pair(v1, v0)}
LegacyEntries == {LEntries(LLink), LEntries(Dir(v1))}

(* local_root.py: a root to move, with and without a configuration *)

SecondAhead == Pair(v0, v1)
RConfig(exists) == [exists |-> exists, valid |-> TRUE, webdav |-> exists, root |-> "old"]
RootConfigs == {RConfig(FALSE), RConfig(TRUE)}

-----------------------------------------------------------------------------
(* One component moves; the others stay in one of their initial states. *)

Worlds == {"apply", "install", "import", "legacy", "root"}

Init ==
    /\ world \in Worlds
    /\ A!Init
    /\ world # "apply" => aroot = Every(Dir(v0))
    /\ I!Init
    /\ world # "install" => /\ ientry = IEntries(Absent, Absent, Absent)
                            /\ isource = ISource(Absent, v1, FALSE)
    /\ H!Init
    /\ world # "import" => hroots[y1] = Every(Absent)
    /\ L!Init
    /\ world # "legacy" => lentry = LEntries(LLink) /\ lsnapshot = Every(v0)
    /\ R!Init
    /\ world # "root" => /\ rsource = Every(v0) /\ rdest = R!NoDir
                         /\ rconfig = RConfig(TRUE)

Next ==
    /\ UNCHANGED world
    /\ \/ world = "apply" /\ A!Next /\ UNCHANGED <<ivars, hvars, lvars, rvars>>
       \/ world = "install" /\ I!Next /\ UNCHANGED <<avars, hvars, lvars, rvars>>
       \/ world = "import" /\ H!Next /\ UNCHANGED <<avars, ivars, lvars, rvars>>
       \/ world = "legacy" /\ L!Next /\ UNCHANGED <<avars, ivars, hvars, rvars>>
       \/ world = "root" /\ R!Next /\ UNCHANGED <<avars, ivars, hvars, lvars>>
=============================================================================
