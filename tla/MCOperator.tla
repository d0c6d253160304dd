------------------------------ MODULE MCOperator ------------------------------
(* Starts for TLC: a new canary, and one disturbance of each kind.         *)
EXTENDS Operator

New(revert) ==
  [revert |-> revert, interval |-> 1, finalizer |-> FALSE, deleting |-> FALSE,
   conditions |-> FALSE, applied |-> FALSE, phase |-> ""]

Quiet    == [edits |-> 0, rollouts |-> 0, faults |-> 0, restarts |-> 0]
Edit     == [Quiet EXCEPT !.edits = 1]
Revision == [Quiet EXCEPT !.rollouts = 1]
Fault    == [Quiet EXCEPT !.faults = 1]
Crash    == [Quiet EXCEPT !.restarts = 1]

Start(revert, service, may) ==
  [canary |-> New(revert), target |-> "up", primary |-> "absent", apex |-> service,
   budget |-> may]

\* A canary that was initialized before the operator started.
Settled ==
  [canary  |-> [New(TRUE) EXCEPT !.finalizer = TRUE, !.conditions = TRUE,
                                 !.applied = TRUE, !.phase = "Initialized"],
   target  |-> "zero", primary |-> "ready", apex |-> "primary",
   budget |-> [Edit EXCEPT !.faults = 1]]

OneOfEach ==
  {Start(revert, service, may) : revert \in BOOLEAN, service \in {Absent, "target"},
                                 may \in {Revision, Fault, Crash}}
  \cup {Start(FALSE, "target", Edit), Settled}
OptingOut   == {Start(TRUE, "target", Edit)}
Undisturbed == {Start(TRUE, "target", Quiet)}
=============================================================================
