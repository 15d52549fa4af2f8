------------------------------ MODULE MCConsole ------------------------------
(* The console with one node, two tabs and two accounts. *)
EXTENDS Console
Everything == {"editing", "runs", "session", "targets"}
=============================================================================
