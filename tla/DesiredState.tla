---------------------------- MODULE DesiredState ----------------------------
(***************************************************************************)
(* What configuration synchronisation promises: the Hub owns a desired     *)
(* state that moves from one global revision to the next, and the Agent    *)
(* holds a copy of it with the revision the copy was applied at.  An       *)
(* object that has not been touched since that revision is exactly what    *)
(* the Hub wants; one that has may still be in flux.  Objects that the Hub *)
(* reads apart from the others may be missing from a copy, or incomplete,  *)
(* until the next one.  The copy changes in one step, and its revision     *)
(* never goes back.                                                        *)
(***************************************************************************)
EXTENDS Naturals

CONSTANTS Obj,      \* scripts, tasks, schedules and applications
          Content,  \* what an object may say, "absent" included
          Absent,
          Apart,    \* objects that are read apart: scripts and applications
          Partial   \* what a copy says of an object whose reading failed

VARIABLES
    rev,      \* the Hub's global revision
    want,     \* what the Hub wants on this Agent
    touched,  \* per object: the last revision that concerned it
    have,     \* the Agent's copy
    version,  \* the revision the Agent reports for it
    gaps      \* the objects whose reading failed for this copy

vars == <<rev, want, touched, have, version, gaps>>

Init ==
    /\ rev = 0 /\ version = 0
    /\ want = [o \in Obj |-> Absent] /\ have = [o \in Obj |-> Absent]
    /\ touched = [o \in Obj |-> 0] /\ gaps = {}

(* An operator changes some objects under the next revision. *)
Change ==
    /\ rev' = rev + 1
    /\ want' \in [Obj -> Content]
    /\ \E concerned \in SUBSET Obj :
        /\ \A o \in Obj \ concerned : want'[o] = want[o]
        /\ touched' = [o \in Obj |-> IF o \in concerned THEN rev' ELSE touched[o]]
    /\ UNCHANGED <<have, version, gaps>>

(* The Agent takes over the state of a revision r, or something newer. *)
Sync ==
    /\ version' \in version..rev
    /\ have' \in [Obj -> Content] /\ gaps' \subseteq Apart
    /\ \A o \in Obj : touched[o] <= version' =>
          have'[o] = want[o] \/ (o \in gaps' /\ have'[o] \in Partial)
    /\ UNCHANGED <<rev, want, touched>>

Next == Change \/ Sync

Spec == Init /\ [][Next]_vars

-----------------------------------------------------------------------------

(* Every object untouched since the Agent's revision is as the Hub wants,  *)
(* but for the gaps.                                                       *)
AppliedComplete ==
    \A o \in Obj : touched[o] <= version =>
        have[o] = want[o] \/ (o \in gaps /\ have[o] \in Partial)

=============================================================================
