------------------------------ MODULE MCFanout ------------------------------
(* Small worlds for what must eventually follow: a tool's root the local     *)
(* root, and a device that only reads what another one publishes.  An        *)
(* initial state chooses one of the two; the other one stays where it is.    *)
EXTENDS Fanout

CONSTANTS m, n1, v0, v1, v2, writer, reader

VARIABLES
    world,
    sindex, sarchives, slocal, sbase, scache, scached, spc, sjob, slifecycle,
    sdirty, sedits, sfaults, slifecycles

svars == <<sindex, sarchives, slocal, sbase, scache, scached, spc, sjob,
           slifecycle, sdirty, sedits, sfaults, slifecycles>>

-----------------------------------------------------------------------------
(* fanout.py: what the tool's root and the manifests say *)

\* v0 and v1 differ in metadata only.
MCPlainPair == [v \in Versions |-> IF v = v1 THEN v0 ELSE v]
MCPlainNone == [v \in Versions |-> v]

MDeclared == [k \in Names |-> IF k = m THEN "here" ELSE "undeclared"]

LegacyV0 == [k \in Names |-> v0]

Having(entry) == [k \in Names |-> IF k = n1 THEN entry ELSE Nowhere]
Bounds(edits, errors, crashes, runs, rollbacks) ==
    [c \in Counted |->
        CASE c \in {"tool", "canonical"} -> edits [] c = "errors" -> errors
          [] c = "crashes" -> crashes [] c = "operator" -> runs
          [] c = "rollbacks" -> rollbacks]

\* A tool that gets copies and one that gets links.
CopyWorld == [mode |-> "copy", tool |-> Having(Dir(v0, FALSE)),
              bounds |-> Bounds(1, 1, 0, 0, 1)]
LinkWorld == [mode |-> "link", tool |-> Having(Link("legacy")),
              bounds |-> Bounds(1, 0, 1, 0, 1)]
OperatorWorld == [mode |-> "link", tool |-> Having(Link("legacy")),
                  bounds |-> Bounds(1, 1, 0, 1, 0)]
AllWorlds == {CopyWorld, LinkWorld, OperatorWorld}
\* A tool that gets copies, two runs and a rollback of the older one.
RollbackWorld == {[mode |-> "copy", tool |-> [k \in Names |-> Nowhere],
                   bounds |-> [c \in Counted |->
                                IF c \in {"canonical", "rollbacks"} THEN 1 ELSE 0]]}

BetweenRuns == {"idle"}
DuringRuns == {"idle", "running"}

-----------------------------------------------------------------------------
(* sync_cycle.py: one skill, its writer, and a reader that starts without it *)

OfWriter(x, otherwise) == [d \in {writer, reader} |-> IF d = writer THEN x ELSE otherwise]
InVersion0 == [k \in {m} |-> v0]
Without == [k \in {m} |-> Absent]

S == INSTANCE SkillSync WITH
        Devices <- {writer, reader}, Skills <- {m}, NoSkill <- NoName,
        Versions <- {v0, v1, v2}, Shared <- [v \in {v0, v1, v2} |-> v],
        Policy <- OfWriter("push-pull", "pull-only"),
        Override <- [d \in {writer, reader} |-> [k \in {m} |-> {}]],
        Unfit <- OfWriter({}, {}),
        AllowNew <- TRUE, AllowDelete <- FALSE, StopOnBlocked <- {},
        InitialIndex <- InVersion0, InitialLocal <- OfWriter(InVersion0, Without),
        Editors <- {writer}, EditPhases <- {"idle", "fetching", "gated", "stopped"},
        Drafts <- {v0, v1, v2, Absent},
        MaxEdits <- 3, MaxFaults <- 0, MaxLifecycle <- 0,
        index <- sindex, archives <- sarchives, local <- slocal, base <- sbase,
        cache <- scache, cached <- scached, pc <- spc, job <- sjob,
        lifecycle <- slifecycle, dirty <- sdirty, edits <- sedits,
        faults <- sfaults, lifecycles <- slifecycles

-----------------------------------------------------------------------------
(* One of the two moves.  A tool that never starts has an empty local root.  *)

WorldInit ==
    /\ world \in {"fanout", "reader"}
    /\ Init
    /\ world = "reader" => /\ canonical = [k \in Names |-> Absent]
                           /\ tool = CopyWorld.tool /\ mode = "copy"
    /\ S!Init

WorldNext ==
    /\ UNCHANGED world
    /\ \/ world = "fanout" /\ Next /\ UNCHANGED svars
       \/ world = "reader" /\ S!Next /\ UNCHANGED vars

WorldSpec ==
    /\ WorldInit /\ [][WorldNext]_<<world, vars, svars>>
    /\ WF_vars(world = "fanout" /\ Working)
    /\ WF_vars(world = "fanout" /\ Scheduling)
    /\ WF_vars(world = "fanout" /\ IntervalPasses)
    /\ \A d \in {writer, reader} : WF_svars(world = "reader" /\ S!Daemon(d))

\* Once the writer's edits stop, the reader ends up with what central has, and
\* keeps it, unless the writer deleted its copy (sync_cycle.py:52-73).
Converges == world = "reader" => S!Converges
=============================================================================
