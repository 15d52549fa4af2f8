------------------------------- MODULE MCSync -------------------------------
(* Three scenarios in one run, so that the state space is their sum: both  *)
(* objects and two changes; the Agent's periodic reports; the dispatch of  *)
(* an execution, the latter two with changes of one object or of the label *)
(* only.  Fairness is that of ConfigSync: where an action is ruled out     *)
(* here, no behaviour is fair to it, and Converges speaks of the reports.  *)
EXTENDS MCConfigSync

VARIABLE scenario

Scenarios == {"changes", "reports", "dispatch"}

InScenario ==
    /\ scenario # "changes" => rev <= 1 /\ hub[schedule] = 0
    /\ scenario # "reports" => tick.type = "NONE"
    /\ scenario # "dispatch" => run = "none"

MCInit == Init /\ scenario \in Scenarios
MCNext == Next /\ UNCHANGED scenario /\ InScenario'
MCSpec == MCInit /\ [][MCNext]_<<vars, scenario>> /\ Fairness
=============================================================================
