--------------------------- MODULE AdvanceCanary ---------------------------
(***************************************************************************)
(* One canary and the handler that advances it: advanceCanary in           *)
(* pkg/controller/scheduler.go, with its hooks, the status writes of       *)
(* pkg/canary/status.go and the workload operations of                     *)
(* pkg/canary/deployment_controller.go.                                    *)
(*                                                                         *)
(* The job of the canary calls the handler at every tick.  The handler     *)
(* reads and writes the cluster through the API server, one remote call    *)
(* after the other, and keeps nothing between two ticks but what it wrote. *)
(* So an action here is the piece of the handler up to and including one   *)
(* write, pc names the write that comes next, and between two of them the  *)
(* user may edit the target, a call may fail or the controller may stop.   *)
(***************************************************************************)
EXTENDS StepWeights, FiniteSets

CONSTANTS
  MaxRevision,   \* revisions of the target's pod template are 1..MaxRevision
  MaxConfig,     \* contents of its config maps and secrets, 1..MaxConfig
  Canaries,      \* the canaries to advance, one of them at a time: CanarySpec
  EditPoints,    \* the values of pc at which the user may edit the target,
  EditPhases,    \* and the phases in which
  Reverts,       \* whether the user may also go back to an older revision
  ReadsFail,     \* whether hasCanaryRevisionChanged may fail to read the target
  ServiceEdits,  \* whether the user may also edit the service of the canary
  MaxEdits,      \* bound: number of edits of the target or the service
  MaxFaults,     \* bound: number of failed calls and controller stops
  MaxFailed      \* bound: failed checks (WaitingPromotion has no threshold)

AnalysisFields ==
  [stepWeight : Nat, stepWeights : Seq(Nat), maxWeight : Nat,
   stepWeightPromotion : Nat, mirror : BOOLEAN,
   iterations : Nat, match : BOOLEAN, threshold : Nat]

HookTypes == {"confirm-rollout", "pre-rollout", "rollout",
              "confirm-traffic-increase", "confirm-promotion", "rollback"}

\* The spec of a Canary object: the provider is "kubernetes" (which routes no
\* traffic) or a mesh, and hooks are the types of webhook it configures.
CanarySpec ==
  [provider : {"kubernetes", "mesh"}, analysis : AnalysisFields,
   skipAnalysis : BOOLEAN, hooks : SUBSET HookTypes]

ASSUME BoundsAssumption ==
  /\ MaxRevision \in Nat \ {0}
  /\ MaxConfig \in Nat \ {0}
  /\ MaxEdits \in Nat
  /\ MaxFaults \in Nat
  /\ MaxFailed \in Nat
ASSUME CanariesAssumption ==
  /\ Canaries \subseteq CanarySpec
  /\ Reverts \in BOOLEAN
  /\ ReadsFail \in BOOLEAN
  /\ ServiceEdits \in BOOLEAN

VARIABLES
  \* the cluster
  canarySpec,    \* spec of the Canary object, fixed by Init
  status,        \* status of the Canary object
  target,        \* [spec, config] of the target deployment
  primary,       \* [spec, config] of the primary, NoWorkload before it exists
  primaryReady,  \* the primary's rolling update has finished
  canaryUp,      \* the target deployment is scaled above zero
  routes,        \* the split the mesh router holds, NoRoutes before it exists
  \* the handler's locals
  pc,            \* the write that comes next; "idle" between two ticks
  cd,            \* the status as read when the tick began
  seen,          \* the split read by GetRoutes, then the one being set
  retriable,     \* verdict of IsCanaryReady
  copy,          \* the pod template Promote read
  \* history and bounds
  passed,        \* <<point, workload>>: checks passed in this analysis
  edits,
  faults

cluster == <<canarySpec, status, target, primary, primaryReady, canaryUp, routes>>
locals  == <<cd, seen, retriable, copy>>
vars    == <<cluster, pc, locals, passed, edits, faults>>

-----------------------------------------------------------------------------
(* Values. *)

NoHash     == 0
NoWorkload == [spec |-> 0, config |-> 0]
NoRoutes   == Split(0, 0, FALSE)

Workloads == [spec : 1 .. MaxRevision, config : 1 .. MaxConfig]

Phases == {"Initializing", "Initialized", "Waiting", "Progressing",
           "WaitingPromotion", "Promoting", "Finalising", "Succeeded", "Failed"}

\* The phases in which no rollout is under way.
AtRest == {"Initializing", "Initialized", "Succeeded", "Failed"}

\* The phases in which checkCanaryStatus lets the handler go on.
InRollout == {"Progressing", "WaitingPromotion", "Promoting", "Finalising"}

Status ==
  [phase : Phases, weight : Nat, failedChecks : Nat, iterations : Nat,
   lastApplied : 0 .. MaxRevision, lastPromoted : 0 .. MaxRevision,
   tracked : 0 .. MaxConfig]

NewStatus ==
  [phase |-> "Initializing", weight |-> 0, failedChecks |-> 0, iterations |-> 0,
   lastApplied |-> NoHash, lastPromoted |-> NoHash, tracked |-> NoHash]

\* The writes still to come when the handler stands at a value of pc.
Labels ==
  {"idle", "initialize", "scaleDown", "reconcile", "advance", "gate", "resume",
   "check", "start", "revision", "skip", "skipPromote", "skipWorkload",
   "skipScale", "skipSucceed", "act", "rollbackScale", "rollbackSync",
   "finalise", "weight", "iterate", "promote", "promoteWorkload", "promoted",
   "succeed"}

SkipLabels == {"skip", "skipPromote", "skipWorkload", "skipScale", "skipSucceed"}

Analysis     == canarySpec.analysis
SkipAnalysis == canarySpec.skipAnalysis
Hooks        == canarySpec.hooks

kubernetes == canarySpec.provider = "kubernetes"

GetAnalysisThreshold == IF Analysis.threshold > 0 THEN Analysis.threshold ELSE 1

\* The Kubernetes provider has neither A/B testing nor progressive traffic.
iterations == IF kubernetes /\ Analysis.iterations < 1 THEN 10 ELSE Analysis.iterations
ABTesting  == Analysis.match /\ ~kubernetes /\ iterations > 0
BlueGreen  == ~ABTesting /\ iterations > 0
Progressive == ~ABTesting /\ ~BlueGreen

\* The weights a router is given: a step after mirroring may leave the primary
\* with a negative one (stepWeight > 100).
Splits == [primary : Int, canary : Nat, mirrored : BOOLEAN]

TypeOK ==
  /\ canarySpec \in Canaries
  /\ status \in Status
  /\ target \in Workloads
  /\ primary \in Workloads \cup {NoWorkload}
  /\ primaryReady \in BOOLEAN
  /\ canaryUp \in BOOLEAN
  /\ routes \in Splits
  /\ pc \in Labels
  /\ cd \in Status
  /\ seen \in Splits
  /\ retriable \in BOOLEAN
  /\ copy \in 0 .. MaxRevision
  /\ passed \subseteq Nat \X Workloads
  /\ edits \in 0 .. MaxEdits
  /\ faults \in 0 .. MaxFaults

Init ==
  /\ canarySpec \in Canaries
  /\ status = NewStatus
  /\ target = [spec |-> 1, config |-> 1]
  /\ primary = NoWorkload
  /\ primaryReady = FALSE
  /\ canaryUp = TRUE
  /\ routes = NoRoutes
  /\ pc = "idle"
  /\ cd = NewStatus
  /\ seen = NoRoutes
  /\ retriable = TRUE
  /\ copy = NoHash
  /\ passed = {}
  /\ edits = 0
  /\ faults = 0

-----------------------------------------------------------------------------
(* The calls the handler makes. *)

\* hasSpecChanged: the revision differs from the last applied one, unless it
\* is the last promoted one (a manual rollback).
HasTargetChanged(s) ==
  \/ s.lastApplied = NoHash
  \/ target.spec # s.lastPromoted /\ target.spec # s.lastApplied

\* HasConfigChanged: the tracked config maps and secrets differ.
HaveDependenciesChanged(s) == target.config # s.tracked

\* Mutant: the config maps and secrets are not compared.
RevisionChanged_TargetOnly(s) == HasTargetChanged(s)

\* shouldAdvance, hasCanaryRevisionChanged: there is something to roll out.
RevisionChanged(s) == HasTargetChanged(s) \/ HaveDependenciesChanged(s)

\* Mutant: the iterations of the previous analysis are kept.
SyncStatus_KeepsIterations(phase) ==
  status' = [status EXCEPT !.phase = phase, !.weight = 0, !.failedChecks = 0,
                           !.lastApplied = target.spec, !.tracked = target.config]

\* SyncStatus: set the phase, clear the counters, record what is applied now.
SyncStatus(phase) ==
  status' = [status EXCEPT !.phase = phase, !.weight = 0, !.failedChecks = 0,
                           !.iterations = 0, !.lastApplied = target.spec,
                           !.tracked = target.config]

\* Mutant: the promoted revision is recorded after the initialization only.
SetStatusPhase_NotOnSuccess(phase) ==
  LET kept == phase \in {"Progressing", "Waiting"}
  IN  status' = [status EXCEPT
        !.phase = phase,
        !.weight = IF kept THEN @ ELSE 0,
        !.iterations = IF kept THEN @ ELSE 0,
        !.lastPromoted = IF phase = "Initialized" THEN status.lastApplied ELSE @]

\* SetStatusPhase: the weight and the iterations survive only in Progressing
\* and Waiting; a finished rollout promotes the applied revision.
SetStatusPhase(phase) ==
  LET kept == phase \in {"Progressing", "Waiting"}
      done == phase \in {"Initialized", "Succeeded"}
  IN  status' = [status EXCEPT
        !.phase = phase,
        !.weight = IF kept THEN @ ELSE 0,
        !.iterations = IF kept THEN @ ELSE 0,
        !.lastPromoted = IF done THEN status.lastApplied ELSE @]

SetStatusWeight(w)       == status' = [status EXCEPT !.weight = w]
SetStatusIterations(n)   == status' = [status EXCEPT !.iterations = n]
SetStatusFailedChecks(n) == status' = [status EXCEPT !.failedChecks = n]

\* SetRoutes and GetRoutes: the Kubernetes provider routes nothing and reports
\* a split made up from the iterations.
SetRoutes(r) == routes' = IF kubernetes THEN routes ELSE r
GetRoutes(s) == IF ~kubernetes THEN routes
                ELSE IF s.iterations > 0 THEN AllToCanary ELSE AllToPrimary

ScaleToZero   == canaryUp' = FALSE
ScaleFromZero == canaryUp' = TRUE

Goto(l) == pc' = l /\ UNCHANGED locals

\* The handler returns and forgets its locals.
Return ==
  /\ pc' = "idle"
  /\ cd' = NewStatus
  /\ seen' = NoRoutes
  /\ retriable' = TRUE
  /\ copy' = NoHash

-----------------------------------------------------------------------------
(* The tick: from the read of the canary to the decision to go on. *)

\* A tick of the canary's job: read the Canary object.
Begin ==
  /\ pc = "idle"
  /\ cd' = status
  /\ pc' = "initialize"
  /\ UNCHANGED <<cluster, seen, retriable, copy, passed, edits, faults>>

\* canaryController.Initialize: create the primary from the target once.
InitializePrimary ==
  /\ pc = "initialize"
  /\ IF primary = NoWorkload
     THEN primary' = target /\ primaryReady' = FALSE
     ELSE UNCHANGED <<primary, primaryReady>>
  /\ Goto(IF cd.phase = "Initializing" THEN "scaleDown" ELSE "reconcile")
  /\ UNCHANGED <<canarySpec, status, target, canaryUp, routes, passed, edits,
                 faults>>

\* The rest of Initialize: wait for the primary, then scale the target down.
InitializeScaleDown ==
  /\ pc = "scaleDown"
  /\ SkipAnalysis \/ primaryReady
  /\ ScaleToZero
  /\ Goto("reconcile")
  /\ UNCHANGED <<canarySpec, status, target, primary, primaryReady, routes,
                 passed, edits, faults>>

\* meshRouter.Reconcile: create the routes when there are none.
ReconcileRoutes ==
  /\ pc = "reconcile"
  /\ IF routes = NoRoutes THEN SetRoutes(AllToPrimary) ELSE UNCHANGED routes
  /\ Goto("advance")
  /\ UNCHANGED <<canarySpec, status, target, primary, primaryReady, canaryUp,
                 passed, edits, faults>>

\* ... or write them anew, with all traffic on the primary, in the first tick
\* after the user has edited the service: the one effect such an edit has here.
ReconcileResets ==
  /\ pc = "reconcile"
  /\ ServiceEdits
  /\ edits < MaxEdits
  /\ edits' = edits + 1
  /\ routes \notin {NoRoutes, AllToPrimary}
  /\ SetRoutes(AllToPrimary)
  /\ Goto("advance")
  /\ UNCHANGED <<canarySpec, status, target, primary, primaryReady, canaryUp,
                 passed, faults>>

\* shouldAdvance: a rollout is under way, or there is something to roll out.
ShouldAdvance ==
  /\ pc = "advance"
  /\ IF \/ cd.phase \in InRollout \cup {"Initializing", "Waiting"}
        \/ RevisionChanged(cd)
     THEN Goto("gate")
     ELSE Return
  /\ UNCHANGED <<cluster, passed, edits, faults>>

\* runConfirmRolloutHooks, a hook refuses: wait for approval.
GateClosed ==
  /\ pc = "gate"
  /\ "confirm-rollout" \in Hooks
  /\ IF cd.phase # "Waiting" THEN SetStatusPhase("Waiting") ELSE UNCHANGED status
  /\ Return
  /\ UNCHANGED <<canarySpec, target, primary, primaryReady, canaryUp, routes,
                 passed, edits, faults>>

\* Mutant: the canary is not scaled up when it resumes.
GateApproves_NoScaleUp ==
  /\ pc = "gate"
  /\ "confirm-rollout" \in Hooks
  /\ cd.phase = "Waiting"
  /\ SetStatusPhase("Progressing")
  /\ Return
  /\ UNCHANGED <<canarySpec, target, primary, primaryReady, canaryUp, routes,
                 passed, edits, faults>>

\* runConfirmRolloutHooks, a hook approves a waiting canary: progress with it.
GateApproves ==
  /\ pc = "gate"
  /\ "confirm-rollout" \in Hooks
  /\ cd.phase = "Waiting"
  /\ SetStatusPhase("Progressing")
  /\ Goto("resume")
  /\ UNCHANGED <<canarySpec, target, primary, primaryReady, canaryUp, routes,
                 passed, edits, faults>>

\* ... and scale it up.  The tick ends here.
ResumeScaleUp ==
  /\ pc = "resume"
  /\ ScaleFromZero
  /\ Return
  /\ UNCHANGED <<canarySpec, status, target, primary, primaryReady, routes,
                 passed, edits, faults>>

\* Mutant: the primary is not checked.
GatePasses_PrimaryUnchecked ==
  /\ pc = "gate"
  /\ "confirm-rollout" \in Hooks => cd.phase # "Waiting"
  /\ seen' = GetRoutes(cd)
  /\ pc' = IF cd.phase \in InRollout THEN "revision" ELSE "check"
  /\ UNCHANGED <<cluster, cd, retriable, copy, passed, edits, faults>>

\* The hooks let the handler pass, the primary is ready, the split is read.
GatePasses ==
  /\ pc = "gate"
  /\ "confirm-rollout" \in Hooks => cd.phase # "Waiting"
  /\ SkipAnalysis \/ primaryReady
  /\ seen' = GetRoutes(cd)
  /\ pc' = IF cd.phase \in InRollout THEN "revision" ELSE "check"
  /\ UNCHANGED <<cluster, cd, retriable, copy, passed, edits, faults>>

\* The primary is in the middle of a rolling update: halt.
PrimaryNotReady ==
  /\ pc \in {"scaleDown", "gate"}
  /\ ~SkipAnalysis /\ ~primaryReady
  /\ Return
  /\ UNCHANGED <<cluster, passed, edits, faults>>

\* checkCanaryStatus, the first time: initialization is done.
CheckInitialized ==
  /\ pc = "check"
  /\ status.phase = "Initializing"
  /\ SyncStatus("Initialized")
  /\ Return
  /\ UNCHANGED <<canarySpec, target, primary, primaryReady, canaryUp, routes,
                 passed, edits, faults>>

\* checkCanaryStatus, a new revision: scale the canary up, start the analysis.
CheckScaleUp ==
  /\ pc = "check"
  /\ status.phase # "Initializing"
  /\ ScaleFromZero
  /\ Goto("start")
  /\ UNCHANGED <<canarySpec, status, target, primary, primaryReady, routes,
                 passed, edits, faults>>

\* The analysis starts, or starts over: the counters are cleared.
StartAnalysis ==
  /\ pc = "start"
  /\ SyncStatus("Progressing")
  /\ Return
  /\ passed' = {}
  /\ UNCHANGED <<canarySpec, target, primary, primaryReady, canaryUp, routes,
                 edits, faults>>

\* Mutant: a new revision is not looked for while the promotion is held.
hasCanaryRevisionChanged_ProgressingOnly ==
  cd.phase = "Progressing" /\ RevisionChanged(cd)

\* hasCanaryRevisionChanged: route all traffic to the primary and start over.
hasCanaryRevisionChanged ==
  cd.phase \in {"Progressing", "WaitingPromotion"} /\ RevisionChanged(cd)

\* The new analysis starts with StartAnalysis, the next write.
RestartAnalysis ==
  /\ pc = "revision"
  /\ hasCanaryRevisionChanged
  /\ SetRoutes(AllToPrimary)
  /\ Goto("start")
  /\ UNCHANGED <<canarySpec, status, target, primary, primaryReady, canaryUp,
                 passed, edits, faults>>

\* IsCanaryReady: ready, or past the progress deadline and not to be retried.
\* (Not ready but retriable ends the tick: see HandlerReturns.)
CheckCanaryReady ==
  /\ pc = "revision"
  /\ ~hasCanaryRevisionChanged
  /\ retriable' \in BOOLEAN
  /\ pc' = IF SkipAnalysis THEN "skip" ELSE "act"
  /\ UNCHANGED <<cluster, cd, seen, copy, passed, edits, faults>>

\* hasCanaryRevisionChanged drops the errors of its reads: a template or configs
\* that cannot be read have not changed.
RevisionUnread ==
  /\ ReadsFail
  /\ pc = "revision"
  /\ hasCanaryRevisionChanged
  /\ faults' = faults + (IF HasTargetChanged(cd) /\ HaveDependenciesChanged(cd)
                        THEN 2 ELSE 1)
  /\ faults' <= MaxFaults
  /\ retriable' \in BOOLEAN
  /\ pc' = IF SkipAnalysis THEN "skip" ELSE "act"
  /\ UNCHANGED <<cluster, cd, seen, copy, passed, edits>>

-----------------------------------------------------------------------------
(* shouldSkipAnalysis: promote without analysing. *)

\* Mutant: one failed check too many.
mustRollback_OffByOne ==
  ~retriable \/ cd.failedChecks > GetAnalysisThreshold

\* Past the progress deadline, or the failed checks have reached the threshold.
mustRollback == ~retriable \/ cd.failedChecks >= GetAnalysisThreshold

\* No request goes to the canary.
SkipRoutes ==
  /\ pc = "skip"
  /\ ~mustRollback
  /\ SetRoutes(AllToPrimary)
  /\ Goto("skipPromote")
  /\ UNCHANGED <<canarySpec, status, target, primary, primaryReady, canaryUp,
                 passed, edits, faults>>

\* Promote comes in between (PromoteConfigs, PromoteWorkload).
SkipScaleDown ==
  /\ pc = "skipScale"
  /\ ScaleToZero
  /\ Goto("skipSucceed")
  /\ UNCHANGED <<canarySpec, status, target, primary, primaryReady, routes,
                 passed, edits, faults>>

\* Mutant: the phase that precedes the end of an analysed rollout.
SkipSucceed_Finalising ==
  /\ pc = "skipSucceed"
  /\ SetStatusPhase("Finalising")
  /\ Return
  /\ UNCHANGED <<canarySpec, target, primary, primaryReady, canaryUp, routes,
                 passed, edits, faults>>

\* ... and the rollout is over.
SkipSucceed ==
  /\ pc = "skipSucceed"
  /\ SetStatusPhase("Succeeded")
  /\ Return
  /\ UNCHANGED <<canarySpec, target, primary, primaryReady, canaryUp, routes,
                 passed, edits, faults>>

\* A call of shouldSkipAnalysis fails: it returns false, and the handler goes
\* on with the analysis as if it was not to be skipped.
SkipFails ==
  /\ pc \in SkipLabels
  /\ ~(pc = "skip" /\ mustRollback)
  /\ faults < MaxFaults
  /\ faults' = faults + 1
  /\ Goto("act")
  /\ UNCHANGED <<cluster, passed, edits>>

-----------------------------------------------------------------------------
(* rollback *)

\* Mutant: a canary that waits for its promotion is not asked for.
RollbackHook_NotHeld ==
  /\ pc = "act"
  /\ "rollback" \in Hooks
  /\ cd.phase \in {"Progressing", "Waiting"}

\* runRollbackHooks: a hook signals a rollback.
RollbackHook ==
  /\ pc = "act"
  /\ "rollback" \in Hooks
  /\ cd.phase \in {"Progressing", "Waiting", "WaitingPromotion"}

\* What leads to rollback: the hooks, the failed checks or the progress
\* deadline, or shouldSkipAnalysis.
RollsBack ==
  \/ RollbackHook
  \/ pc = "act" /\ cd.phase = "Progressing" /\ mustRollback
  \/ pc = "skip" /\ mustRollback

\* Mutant: the routes cannot be set and rollback goes on.
RollbackRoutes_ErrorLogged ==
  /\ RollsBack
  /\ Goto("rollbackScale")
  /\ UNCHANGED <<cluster, passed, edits, faults>>

\* The first step of rollback: route all traffic back to the primary.
RollbackRoutes ==
  /\ RollsBack
  /\ SetRoutes(AllToPrimary)
  /\ Goto("rollbackScale")
  /\ UNCHANGED <<canarySpec, status, target, primary, primaryReady, canaryUp,
                 passed, edits, faults>>

\* Then scale the canary down ...
RollbackScaleDown ==
  /\ pc = "rollbackScale"
  /\ ScaleToZero
  /\ Goto("rollbackSync")
  /\ UNCHANGED <<canarySpec, status, target, primary, primaryReady, routes,
                 passed, edits, faults>>

\* ... and mark it as failed.
RollbackFailed ==
  /\ pc = "rollbackSync"
  /\ SyncStatus("Failed")
  /\ Return
  /\ UNCHANGED <<canarySpec, target, primary, primaryReady, canaryUp, routes,
                 passed, edits, faults>>

-----------------------------------------------------------------------------
(* Promoting and Finalising *)

\* The handler is to shift traffic back to the primary.
Shifting == pc = "act" /\ cd.phase = "Promoting" /\ ~kubernetes

\* Mutant: whatever the promotion step is.
NothingToShift_AnyStep == seen.canary = 0

\* runPromotionTrafficShift in steps does nothing when the canary has no weight.
NothingToShift == Analysis.stepWeightPromotion > 0 /\ seen.canary = 0

ShiftNothing ==
  /\ Shifting
  /\ NothingToShift
  /\ Return
  /\ UNCHANGED <<cluster, passed, edits, faults>>

\* All traffic to the primary in one go.
ShiftAll ==
  /\ Shifting
  /\ ~NothingToShift
  /\ Analysis.stepWeightPromotion = 0
  /\ SetRoutes(AllToPrimary)
  /\ Goto("finalise")
  /\ UNCHANGED <<canarySpec, status, target, primary, primaryReady, canaryUp,
                 passed, edits, faults>>

\* One promotion step of traffic back to the primary.
ShiftStep ==
  /\ Shifting
  /\ ~NothingToShift
  /\ Analysis.stepWeightPromotion > 0
  /\ seen' = ShiftBack(Analysis, seen)
  /\ SetRoutes(seen')
  /\ pc' = IF seen'.primary = totalWeight THEN "finalise" ELSE "weight"
  /\ UNCHANGED <<canarySpec, status, target, primary, primaryReady, canaryUp,
                 cd, retriable, copy, passed, edits, faults>>

\* SetStatusPhase(Finalising); on Kubernetes the first and only step.
Finalise ==
  /\ pc = "finalise" \/ (pc = "act" /\ cd.phase = "Promoting" /\ kubernetes)
  /\ SetStatusPhase("Finalising")
  /\ Return
  /\ UNCHANGED <<canarySpec, target, primary, primaryReady, canaryUp, routes,
                 passed, edits, faults>>

\* Scale the canary down once the promotion is over ...
FinaliseScaleDown ==
  /\ pc = "act"
  /\ cd.phase = "Finalising"
  /\ ScaleToZero
  /\ Goto("succeed")
  /\ UNCHANGED <<canarySpec, status, target, primary, primaryReady, routes,
                 passed, edits, faults>>

\* ... and mark the rollout as finished.
Succeed ==
  /\ pc = "succeed"
  /\ SetStatusPhase("Succeeded")
  /\ Return
  /\ UNCHANGED <<canarySpec, target, primary, primaryReady, canaryUp, routes,
                 passed, edits, faults>>

-----------------------------------------------------------------------------
(* The analysis. *)

\* The handler gets as far as the checks.
Analysing ==
  /\ pc = "act"
  /\ cd.phase \in {"Progressing", "WaitingPromotion"}
  /\ ~(cd.phase = "Progressing" /\ mustRollback)

\* No traffic has reached the canary yet: pre-rollout hooks, no metric checks.
fresh == seen.canary = 0 /\ cd.iterations = 0 /\ ~(Analysis.mirror /\ seen.mirrored)

\* What a passing check vouches for: the weight, or the iteration, it ran at.
point == IF Progressive THEN seen.canary ELSE cd.iterations

Passes == passed' = IF fresh THEN passed ELSE passed \cup {<<point, target>>}

\* A pre-rollout hook, a rollout hook or a metric check fails.
CheckFails ==
  /\ Analysing
  /\ fresh => "pre-rollout" \in Hooks
  /\ cd.failedChecks < MaxFailed
  /\ SetStatusFailedChecks(cd.failedChecks + 1)
  /\ Return
  /\ UNCHANGED <<canarySpec, target, primary, primaryReady, canaryUp, routes,
                 passed, edits, faults>>

\* runCanary below the maximum: raise the weight.
RaiseWeight ==
  /\ Analysing
  /\ Progressive
  /\ nextStepWeight(Analysis, seen.canary) > 0
  /\ seen.canary < maxWeight(Analysis)
  /\ seen' = Increase(Analysis, seen)
  /\ SetRoutes(seen')
  /\ pc' = "weight"
  /\ Passes
  /\ UNCHANGED <<canarySpec, status, target, primary, primaryReady, canaryUp,
                 cd, retriable, copy, edits, faults>>

\* A confirm-traffic-increase hook refuses, or there is no step to take.
HoldWeight ==
  /\ Analysing
  /\ Progressive
  /\ \/ nextStepWeight(Analysis, seen.canary) <= 0
     \/ "confirm-traffic-increase" \in Hooks /\ ~seen.mirrored
  /\ Passes
  /\ Return
  /\ UNCHANGED <<cluster, edits, faults>>

\* The weight the router was given, after a step up or a promotion step.
RecordWeight ==
  /\ pc = "weight"
  /\ SetStatusWeight(seen.canary)
  /\ Return
  /\ UNCHANGED <<canarySpec, target, primary, primaryReady, canaryUp, routes,
                 passed, edits, faults>>

\* Mutant: the iteration is not counted.
IterateAB_NotCounted ==
  /\ Analysing
  /\ ABTesting
  /\ iterations > cd.iterations
  /\ SetRoutes(AllToCanary)
  /\ Return
  /\ Passes
  /\ UNCHANGED <<canarySpec, status, target, primary, primaryReady, canaryUp,
                 edits, faults>>

\* runAB: all matching requests go to the canary, one more iteration.
IterateAB ==
  /\ Analysing
  /\ ABTesting
  /\ iterations > cd.iterations
  /\ SetRoutes(AllToCanary)
  /\ Goto("iterate")
  /\ Passes
  /\ UNCHANGED <<canarySpec, status, target, primary, primaryReady, canaryUp,
                 edits, faults>>

\* runBlueGreen: mirror the traffic on a mesh when asked to (a failure of this
\* call is only logged), one more iteration.
IterateBlueGreen ==
  /\ Analysing
  /\ BlueGreen
  /\ iterations > cd.iterations
  /\ IF Analysis.mirror /\ ~seen.mirrored /\ ~kubernetes
     THEN \/ SetRoutes(Split(totalWeight, 0, TRUE)) /\ UNCHANGED faults
          \/ faults < MaxFaults /\ faults' = faults + 1 /\ UNCHANGED routes
     ELSE UNCHANGED <<routes, faults>>
  /\ Goto("iterate")
  /\ Passes
  /\ UNCHANGED <<canarySpec, status, target, primary, primaryReady, canaryUp,
                 edits>>

\* One more iteration.
RecordIteration ==
  /\ pc = "iterate"
  /\ SetStatusIterations(cd.iterations + 1)
  /\ Return
  /\ UNCHANGED <<canarySpec, target, primary, primaryReady, canaryUp, routes,
                 passed, edits, faults>>

\* The analysis has done all its steps; what is left is behind the gate.
StepsDone ==
  /\ Analysing
  /\ IF Progressive
     THEN /\ nextStepWeight(Analysis, seen.canary) > 0
          /\ seen.canary >= maxWeight(Analysis)
     ELSE iterations <= cd.iterations

\* runConfirmPromotionHooks, a hook refuses: wait for the promotion.
PromotionGateClosed ==
  /\ StepsDone
  /\ "confirm-promotion" \in Hooks
  /\ IF cd.phase # "WaitingPromotion"
     THEN SetStatusPhase("WaitingPromotion") ELSE UNCHANGED status
  /\ Passes
  /\ Return
  /\ UNCHANGED <<canarySpec, target, primary, primaryReady, canaryUp, routes,
                 edits, faults>>

\* Mutant: the iteration that routes the traffic is not counted.
RouteToGreen_NotCounted ==
  /\ StepsDone
  /\ BlueGreen
  /\ iterations = cd.iterations
  /\ SetRoutes(AllToCanary)
  /\ Return
  /\ Passes
  /\ UNCHANGED <<canarySpec, status, target, primary, primaryReady, canaryUp,
                 edits, faults>>

\* runBlueGreen at the last iteration: route all traffic to the canary.
RouteToGreen ==
  /\ StepsDone
  /\ BlueGreen
  /\ iterations = cd.iterations
  /\ SetRoutes(AllToCanary)
  /\ Goto("iterate")
  /\ Passes
  /\ UNCHANGED <<canarySpec, status, target, primary, primaryReady, canaryUp,
                 edits, faults>>

\* The promotion gate is open: the next write is Promote's.  (runAB compares
\* for equality: more iterations than configured are counted only when the
\* analysis is edited under way, and canarySpec is fixed by Init.)
ReadyToPromote ==
  /\ StepsDone
  /\ CASE Progressive -> TRUE
       [] ABTesting   -> iterations = cd.iterations
       [] BlueGreen   -> iterations < cd.iterations
  /\ Goto("promote")
  /\ Passes
  /\ UNCHANGED <<cluster, edits, faults>>

\* Promote reads the target's template and copies its configs to the primary's.
PromoteConfigs ==
  /\ pc \in {"promote", "skipPromote"}
  /\ copy' = target.spec
  /\ primary' = [primary EXCEPT !.config = target.config]
  /\ pc' = IF pc = "promote" THEN "promoteWorkload" ELSE "skipWorkload"
  /\ UNCHANGED <<canarySpec, status, target, primaryReady, canaryUp, routes,
                 cd, seen, retriable, passed, edits, faults>>

\* Promote gives the primary the template it read: a rolling update begins.
PromoteWorkload ==
  /\ pc \in {"promoteWorkload", "skipWorkload"}
  /\ primary' = [primary EXCEPT !.spec = copy]
  /\ primaryReady' = FALSE
  /\ Goto(IF pc = "promoteWorkload" THEN "promoted" ELSE "skipScale")
  /\ UNCHANGED <<canarySpec, status, target, canaryUp, routes, passed, edits,
                 faults>>

\* The primary is updated: the traffic is shifted from the next tick on.
Promoted ==
  /\ pc = "promoted"
  /\ SetStatusPhase("Promoting")
  /\ Return
  /\ UNCHANGED <<canarySpec, target, primary, primaryReady, canaryUp, routes,
                 passed, edits, faults>>

-----------------------------------------------------------------------------
(* What happens to the handler, and around it. *)

\* The handler returns before its next write: the call fails, the canary is
\* not ready yet, or the controller stops (and starts again).
HandlerReturns ==
  /\ pc # "idle"
  /\ faults < MaxFaults
  /\ faults' = faults + 1
  /\ Return
  /\ UNCHANGED <<cluster, passed, edits>>

\* The deployment controller finishes the primary's rolling update.
PrimaryRolledOut ==
  /\ primary # NoWorkload
  /\ ~primaryReady
  /\ primaryReady' = TRUE
  /\ UNCHANGED <<canarySpec, status, target, primary, canaryUp, routes, pc,
                 locals, passed, edits, faults>>

\* The user edits the target's template, or one of its configs.
Edit ==
  /\ pc \in EditPoints
  /\ status.phase \in EditPhases
  /\ edits < MaxEdits
  /\ edits' = edits + 1
  /\ \/ \E r \in 1 .. MaxRevision :
          /\ IF Reverts THEN r # target.spec ELSE r > target.spec
          /\ target' = [target EXCEPT !.spec = r]
     \/ \E c \in 1 .. MaxConfig :
          /\ IF Reverts THEN c # target.config ELSE c > target.config
          /\ target' = [target EXCEPT !.config = c]
  /\ UNCHANGED <<canarySpec, status, primary, primaryReady, canaryUp, routes,
                 pc, locals, passed, faults>>

\* The handler goes on: everything it does of itself.
Advance ==
  \/ Begin \/ InitializePrimary \/ InitializeScaleDown \/ ReconcileRoutes
  \/ ShouldAdvance \/ GateClosed \/ GateApproves \/ ResumeScaleUp \/ GatePasses
  \/ PrimaryNotReady \/ CheckInitialized \/ CheckScaleUp \/ StartAnalysis
  \/ RestartAnalysis \/ CheckCanaryReady
  \/ SkipRoutes \/ SkipScaleDown \/ SkipSucceed
  \/ RollbackRoutes \/ RollbackScaleDown \/ RollbackFailed
  \/ ShiftNothing \/ ShiftAll \/ ShiftStep \/ Finalise \/ FinaliseScaleDown \/ Succeed
  \/ CheckFails \/ RaiseWeight \/ HoldWeight \/ RecordWeight
  \/ IterateAB \/ IterateBlueGreen \/ RecordIteration
  \/ PromotionGateClosed \/ RouteToGreen \/ ReadyToPromote
  \/ PromoteConfigs \/ PromoteWorkload \/ Promoted

Next == \/ Advance \/ RevisionUnread \/ SkipFails \/ HandlerReturns
        \/ PrimaryRolledOut \/ Edit \/ ReconcileResets

Spec == Init /\ [][Next]_vars

\* The job ticks for ever and every call returns; rolling updates finish; and a
\* rollback hook, where there is one, answers 200 sooner or later when it is
\* called again and again: the user has opened it.
FairSpec ==
  Spec /\ WF_vars(Advance) /\ WF_vars(PrimaryRolledOut) /\ SF_vars(RollbackRoutes)

-----------------------------------------------------------------------------
(* Properties. *)

\* When no rollout is under way all traffic goes to the primary and none is
\* mirrored, whatever failed on the way there: rollback, the promotion and
\* the start of an analysis (scheduler.go) order their writes for this, and
\* nothing but a new rollout moves the traffic again.
AtRestAllToPrimary ==
  status.phase \in AtRest => routes \in {NoRoutes, AllToPrimary}

\* Requests, mirrored ones included, are sent to a canary that is scaled up
\* (ScaleFromZero before the analysis, ScaleToZero after SetRoutes).
NoTrafficToStoppedCanary ==
  routes.canary > 0 \/ routes.mirrored => canaryUp

\* The same as long as no call has failed: what is left of a rollback or of a
\* resumed canary when its second write fails may break it, and nothing else.
StoppedByFaultsOnly == faults = 0 => NoTrafficToStoppedCanary

\* Workload w passed a check at every step of the analysis: at every weight of
\* a walk from 0 to the maximum, or at every iteration.
Walked(w) ==
  LET points == {x[1] : x \in {y \in passed : y[2] = w}}
      After(p) == Increase(Analysis, Split(totalWeight - p, p, TRUE)).canary
  IN  IF Progressive
      THEN \E walk \in SUBSET points :
             \A p \in {0} \cup walk : p < maxWeight(Analysis) => After(p) \in walk
      ELSE 1 .. iterations \subseteq points

\* docs/gitbook/usage/how-it-works.md: "will perform a canary analysis before
\* promoting the new version as primary".  What Promote writes to the primary,
\* template and configs, passed a check at every step of this analysis, through
\* restarts, failed writes and pauses.
PromotedWasAnalysed ==
  pc = "promoteWorkload" => Walked([spec |-> copy, config |-> primary.config])

\* A canary is not promoted once its failed checks have reached the threshold
\* (the check in advanceCanary before the analysis).
NoPromotionPastThreshold ==
  pc \in {"promoteWorkload", "promoted"} =>
    status.failedChecks < GetAnalysisThreshold

\* The same unless a confirm-promotion hook may hold the promotion while the
\* checks go on.
ThresholdUnlessHeld ==
  "confirm-promotion" \in Hooks \/ NoPromotionPastThreshold

\* Traffic moves to the primary only when its rolling update has finished.
TrafficToReadyPrimary ==
  routes'.primary > routes.primary /\ routes # NoRoutes =>
    primaryReady \/ SkipAnalysis

\* Whatever SetRoutes does to the traffic, the primary is ready for it:
\* IsPrimaryReady guards every tick of an analysis, and Promote is the last but
\* one write of its tick.
PrimaryReadyBeforeTraffic == [][pc # "reconcile" => TrafficToReadyPrimary]_vars

\* The same of Reconcile, which comes before that guard in advanceCanary.
ReconcileToReadyPrimary == [][pc = "reconcile" => TrafficToReadyPrimary]_vars

\* setStatusPhase, "on promotion set primary spec hash": when a rollout has
\* succeeded lastPromotedSpec is the template the primary runs.
LastPromotedIsPrimary ==
  status.phase = "Succeeded" => status.lastPromoted = primary.spec

\* Rolling back records no other revision as applied than the one whose
\* analysis failed (the hash SyncStatus computes in rollback).
RollbackKeepsApplied ==
  [][status.phase # "Failed" /\ status'.phase = "Failed" =>
       status'.lastApplied = status.lastApplied]_vars

\* docs/gitbook/usage/deployment-strategies.md: with skipAnalysis Flagger
\* "promotes it without analysing it"; no request is ever sent to the canary.
SkipShiftsNoTraffic == SkipAnalysis => routes.canary = 0

\* Between two ticks the promotion has moved all traffic, in steps, and is not
\* recorded as Finalising: the status write after the last step was lost, which
\* takes a fault, or Reconcile moved it, which takes a second edit.
Stranded ==
  /\ faults > 0 \/ (ServiceEdits /\ edits > 1)
  /\ status.phase = "Promoting" /\ pc = "idle"
  /\ Analysis.stepWeightPromotion > 0 /\ routes.canary = 0

\* A rollout comes to its end: it is promoted and the canary scaled down, or it
\* is rolled back ("mark rollout as finished", deployment-strategies.md), except
\* for the one lost write that leaves it stranded.
RolloutEnds ==
  status.phase \in InRollout ~> status.phase \in {"Succeeded", "Failed"} \/ Stranded

\* docs/gitbook/usage/deployment-strategies.md: after "route all traffic to
\* primary" come "scale to zero the canary deployment" and "mark rollout as
\* finished", so a promotion does not stay where it is.
PromotionEnds == status.phase = "Promoting" ~> status.phase # "Promoting"

\* docs/gitbook/usage/webhooks.md: rollback hooks "are executed while a canary
\* deployment is in either Progressing or Waiting status", so an open rollback
\* hook ends a wait for a confirmation that comes with traffic on the canary.
WaitingEnds ==
  status.phase = "Waiting" /\ routes.canary > 0 ~> status.phase # "Waiting"

\* Once the user is done editing, the primary runs the target's revision, or
\* the target's rollout has failed: Flagger misses no change of the template,
\* the config maps or the secrets (how-it-works.md).
Converges == <>[](status.phase = "Failed" \/ primary = target) \/ <>Stranded

-----------------------------------------------------------------------------
(* The rollout that the phase, the routes and the primary show.  A phase      *)
(* stands for a stage; a canary that has no requests and no mirrored ones     *)
(* has no traffic.                                                            *)

Stage ==
  CASE status.phase \in AtRest -> "rest"
    [] status.phase = "Waiting" -> "waiting"
    [] status.phase \in {"Progressing", "WaitingPromotion"} -> "analysis"
    [] status.phase \in {"Promoting", "Finalising"} -> "promotion"

Traffic == IF routes \in {NoRoutes, AllToPrimary} THEN "primary" ELSE "shared"

R == INSTANCE Rollout WITH stage <- Stage, traffic <- Traffic, None <- NoWorkload

\* Every write of the handler is a step of a rollout or none: in particular the
\* handler ends no rollout with traffic on the canary, starts none over it, and
\* changes no primary at rest or on hold (advanceCanary, for all four strategies).
ImplementsRollout == R!Spec
=============================================================================
