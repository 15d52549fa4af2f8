---------------------------- MODULE MCConfigSync ----------------------------
EXTENDS ConfigSync, TLC

CONSTANTS app, schedule

(* Schedules are read before applications. *)
ReadOrder == [o \in Obj |-> IF o = schedule \/ Tables = 1 THEN 1 ELSE 2]

=============================================================================
