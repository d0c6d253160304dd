--------------------------- MODULE MCAdvanceCanary ---------------------------
(* Canaries and edit windows for TLC. *)
EXTENDS AdvanceCanary

\* The fields of an analysis that are not set.
Unset ==
  [stepWeight |-> 0, stepWeights |-> <<>>, maxWeight |-> 0,
   stepWeightPromotion |-> 0, mirror |-> FALSE,
   iterations |-> 0, match |-> FALSE, threshold |-> 2]

\* 40, 80: the maximum is not a multiple of the step.
Linear == [Unset EXCEPT !.stepWeight = 40, !.maxWeight = 50]
\* The same, with promotion steps that do not divide the weight reached.
LinearBackInSteps == [Linear EXCEPT !.stepWeightPromotion = 50]
\* A mirrored step, then 10, 100.
Listed == [Unset EXCEPT !.stepWeights = <<10, 100>>, !.mirror = TRUE]
\* Two iterations of A/B testing or blue/green.
AB == [Unset EXCEPT !.iterations = 2, !.match = TRUE]
BlueGreenMirrored == [Unset EXCEPT !.iterations = 2, !.mirror = TRUE]
BlueGreenPlain == [Unset EXCEPT !.iterations = 2]

Mesh(a, h) ==
  [provider |-> "mesh", analysis |-> a, skipAnalysis |-> FALSE, hooks |-> h]
Cluster(a, h) == [Mesh(a, h) EXCEPT !.provider = "kubernetes"]
Skipped(a, h) == [Mesh(a, h) EXCEPT !.skipAnalysis = TRUE]

\* "rollout" hooks and metric checks fail alike, see CheckFails.
AllHooks == HookTypes \ {"rollout"}
Unheld   == AllHooks \ {"confirm-promotion"}

\* Every strategy with every hook, and what is different without one.
EveryStrategy ==
  {Mesh(LinearBackInSteps, AllHooks), Mesh(Listed, AllHooks), Mesh(AB, AllHooks),
   Mesh(BlueGreenMirrored, AllHooks), Cluster(BlueGreenPlain, AllHooks),
   Mesh(Linear, Unheld), Skipped(Linear, {"confirm-rollout", "rollback"})}

\* Every strategy with no hook that could hold it for ever; and a promotion that
\* is held for ever, with a rollback hook.
EveryEnding ==
  {Mesh(a, {"pre-rollout"}) : a \in {Linear, LinearBackInSteps, AB, BlueGreenMirrored}}
  \cup {Cluster(Linear, {"pre-rollout"}), Skipped(Linear, {"pre-rollout"}),
        Mesh(Linear, {"pre-rollout", "confirm-promotion", "rollback"})}

PlainLinear      == {Mesh(Linear, {})}
PlainBackInSteps == {Mesh(LinearBackInSteps, {})}
HeldPromotion    == {Mesh(Linear, {"confirm-promotion"})}
WaitWithRollback == {Mesh(Linear, {"confirm-rollout", "rollback"})}
SkippedLinear    == {Skipped(Linear, {})}

BetweenTicks == {"idle"}
AfterInit == Phases \ {"Initializing"}
=============================================================================
