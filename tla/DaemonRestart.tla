---------------------------- MODULE DaemonRestart ----------------------------
(***************************************************************************)
(* daemon.py and scripts/sync-daemon-idle.py: the daemon tells in its state *)
(* file whether a cycle runs; a Mac release reads that to restart it only   *)
(* between two cycles.  launchd starts a daemon that has ended.             *)
(***************************************************************************)
EXTENDS Naturals

CONSTANTS
    Interval,       \* the daemon's interval_seconds
    Margin,         \* MARGIN_SECONDS
    Delay,          \* how long after the answer the release restarts at most,
                    \* less than Margin
    StopOnBlocked, Absent, MaxNow

VARIABLES
    now,
    proc,       \* the process: "down", "starting", "cycle", "sleep", "ending"
    wake,       \* when its sleep is over
    first,      \* whether it has ended no cycle yet
    state,      \* the state file: [status, active, updated], or Absent
    told        \* when the release was told idle, or Absent

vars == <<now, proc, wake, first, state, told>>

RestartTypeOK ==
    /\ now \in 0..MaxNow /\ wake \in 0..(MaxNow + Interval)
    /\ proc \in {"down", "starting", "cycle", "sleep", "ending"} /\ first \in BOOLEAN
    /\ state = Absent \/ state.updated \in 0..now
    /\ told \in {Absent} \cup 0..now

Init ==
    /\ now = 0 /\ proc = "down" /\ wake = 0 /\ first = TRUE
    /\ state = Absent /\ told = Absent

-----------------------------------------------------------------------------
(* run_sync_daemon *)

StateWritten(status, active) ==
    state' = [status |-> status, active |-> active, updated |-> now]

Launch ==
    /\ proc = "down"
    /\ proc' = "starting" /\ first' = TRUE
    /\ UNCHANGED <<now, wake, state, told>>

\* The marker is written before the cycle does anything.
\* mutant: only the end of a cycle is written
BeginUnmarked ==
    /\ proc = "starting" \/ (proc = "sleep" /\ now >= wake)
    /\ proc' = "cycle"
    /\ UNCHANGED <<now, wake, first, state, told>>
Begin ==
    /\ proc = "starting" \/ (proc = "sleep" /\ now >= wake)
    /\ proc' = "cycle"
    /\ StateWritten("running", TRUE)
    /\ UNCHANGED <<now, wake, first, told>>

\* Whatever the cycle ended with, an error too; the daemon sleeps on.
End ==
    /\ proc = "cycle"
    /\ StateWritten("running", FALSE)
    /\ proc' = "sleep" /\ wake' = now + Interval /\ first' = FALSE
    /\ UNCHANGED <<now, told>>

\* A blocked cycle ends a daemon that was not told to continue: the cycle's end
\* is written first, then that the daemon is done.
EndBlocked ==
    /\ proc = "cycle" /\ StopOnBlocked
    /\ StateWritten("running", FALSE)
    /\ proc' = "ending" /\ first' = FALSE
    /\ UNCHANGED <<now, wake, told>>

Complete ==
    /\ proc = "ending"
    /\ StateWritten("complete", FALSE)
    /\ proc' = "down"
    /\ UNCHANGED <<now, wake, first, told>>

\* Fan-out or a full disk may end the process within a cycle, a user at any time.
Die ==
    /\ proc # "down"
    /\ proc' = "down"
    /\ UNCHANGED <<now, wake, first, state, told>>

-----------------------------------------------------------------------------
(* sync-daemon-idle.py *)

\* mutant: a daemon that is late is taken for one that sleeps
BetweenCyclesOrLate ==
    LET elapsed == now - state.updated
    IN  elapsed > Interval \/ elapsed + Margin <= Interval
BetweenCycles == (now - state.updated) + Margin <= Interval

IdleAnswer ==
    IF state = Absent THEN FALSE
    ELSE state.status # "running" \/ (~ state.active /\ BetweenCycles)

Ask ==
    /\ told = Absent
    /\ IdleAnswer
    /\ told' = now
    /\ UNCHANGED <<now, proc, wake, first, state>>

\* launchctl kickstart -k, soon after the answer.
Restart ==
    /\ told # Absent
    /\ proc' = "starting" /\ first' = TRUE /\ told' = Absent
    /\ UNCHANGED <<now, wake, state>>

\* A sleep may last longer than asked for, never shorter.
Tick ==
    /\ now < MaxNow
    /\ IF told = Absent THEN TRUE ELSE now < told + Delay
    /\ now' = now + 1
    /\ UNCHANGED <<proc, wake, first, state, told>>

Next == Launch \/ Begin \/ End \/ EndBlocked \/ Complete \/ Die \/ Ask \/ Restart \/ Tick

Spec == Init /\ [][Next]_vars

-----------------------------------------------------------------------------
\* A release that was told the daemon is idle interrupts no cycle, in which an
\* upload or an apply could be cut in half, save the first one of a process
\* whose predecessor's state file was read before that cycle began
\* (scripts/sync-daemon-idle.py:34, daemon.py:43).
RestartHitsNoCycle ==
    [][told # Absent /\ told' = Absent /\ proc = "cycle" =>
          first /\ told <= state.updated]_vars

-----------------------------------------------------------------------------
(* Why it holds *)

StateFile == [status: {"running", "complete"}, active: BOOLEAN, updated: Nat]

\* What the state file and the answer given say of the process.  A process that
\* sleeps told when it will wake; one that was told idle sleeps for longer than
\* the release waits, or is in the first cycle it began since.
RestartInv ==
    /\ RestartTypeOK
    /\ state # Absent => state \in StateFile
    /\ proc = "starting" => first
    /\ proc = "cycle" => /\ state # Absent
                         /\ state.status = "running" /\ state.active
    /\ proc = "sleep" => /\ state # Absent
                         /\ state.status = "running" /\ ~ state.active
                         /\ wake = state.updated + Interval
    /\ told # Absent =>
          /\ now <= told + Delay
          /\ proc = "sleep" => told + Delay < wake
          /\ proc = "cycle" => first /\ told <= state.updated

\* The release asks, then restarts within Delay.
Prompt == Delay < Margin /\ Delay < Interval
=============================================================================
