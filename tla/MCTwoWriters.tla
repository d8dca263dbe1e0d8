---------------------------- MODULE MCTwoWriters ----------------------------
(* Two devices that both write, and beside them the decision a device takes   *)
(* of one skill, from every input: an initial state chooses one of the two.   *)
EXTENDS MCSkillSync, DecisionCycle

VARIABLE world

InSync == [base |-> v0, local |-> v0, remote |-> v0,
           deprecated |-> FALSE, override |-> {}]
Reader == [allowNew |-> FALSE, allowDelete |-> FALSE, policy |-> "pull-only"]

WorldInit ==
    /\ world \in {"writers", "decision"}
    /\ WatchedInit
    /\ DecisionInit
    /\ world # "decision" => skill = InSync /\ config = Reader

WorldNext ==
    /\ UNCHANGED world
    /\ \/ world = "writers" /\ Next /\ Watch /\ UNCHANGED decisionVars
       \/ world = "decision" /\ DecisionNext /\ UNCHANGED wvars

WorldSpec == WorldInit /\ [][WorldNext]_<<world, wvars, decisionVars>>
=============================================================================
