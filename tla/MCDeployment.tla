---------------------------- MODULE MCDeployment ----------------------------
(* For TLC: an empty host, one where version 0 runs, and one with a binary  *)
(* somebody has put there; requests with and without an artifact.           *)
EXTENDS Deployment

HostsForTLC ==
    {[host |-> [f \in File |-> NoFile], service |-> NoFile],
     [host |-> [f \in File |-> 0], service |-> 0],
     [host |-> [f \in File |-> IF f = "binary" THEN 0 ELSE NoFile], service |-> NoFile]}
ChangesForTLC == {{"binary", "config"}, {}}
=============================================================================
