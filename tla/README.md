# Flagger, verified: canaries, traffic, operator and load tester

TLA+ models, model-checking configurations and machine-checked proofs about the
programs of this repository. The repository is a collection of cloud-native
labs; the programs with logic of their own are **Flagger**
(`src/linkerd/flagger`), the operator that rolls out canaries, with its load
tester, and a small **Envoy EDS server** (`src/envoy/envoy_discovery/eds_server`).
All paths below are relative to `src/linkerd/flagger` unless they begin with
`src/`.

Contents: [Inventory](#inventory) · [Modules](#modules) ·
[Abstractions](#abstractions) · [Runs](#runs) · [Bounds](#bounds) ·
[Fairness](#fairness) · [Findings](#findings) · [Proofs](#proofs) ·
[Not modelled](#not-modelled) · [Plan](#plan)

## Inventory

| part | state it keeps | operations | properties that make it correct |
|---|---|---|---|
| **Scheduler** `pkg/controller/scheduler.go`, `scheduler_hooks.go` | none between ticks: the Canary's status, the target and primary deployments, the routes, all in the cluster | `advanceCanary`, one tick; `rollback`, `shouldSkipAnalysis`, `runCanary`, `runAB`, `runBlueGreen`, `runPromotionTrafficShift`, the hooks | what is promoted was analysed; at rest all traffic is the primary's; no promotion past the threshold; every rollout ends; the primary follows the target |
| **Step weights** (same file) | – | `maxWeight`, `nextStepWeight`, the clamping in `runCanary` and `runPromotionTrafficShift` | the split adds up to 100; the documented number of steps; the listed weights in their order |
| **Canary status** `pkg/canary/status.go`, `spec.go` | phase, weight, iterations, failed checks, applied/promoted hashes, tracked configs | `SyncStatus`, `SetStatusPhase`, the counters, `hasSpecChanged` | the counters belong to the revision under analysis; `lastPromotedSpec` is what the primary runs |
| **Deployment controller** `pkg/canary/deployment_*.go` | target and primary deployments | `Initialize`, `Promote`, `ScaleToZero`/`FromZero`, the two readiness verdicts, `Finalize` | a failure between two writes is repaired by a later tick |
| **DaemonSet and service controllers** `daemonset_*.go`, `service_controller.go` | the same for other kinds | the same interface | scaling is no new revision; the primary has pods |
| **Config tracker** `pkg/canary/config_tracker.go` | checksums in the status, copies of the config maps and secrets | `GetTargetConfigs`, `HasConfigChanged`, `CreatePrimaryConfigs`, `ApplyPrimaryConfigs` | the primary refers to copies that exist; no edit is lost; a half-made promotion is completed |
| **Job scheduling** `scheduleCanaries`, `job.go` | `jobs` map, one goroutine per canary | start, stop and restart jobs on an interval change | ticks of one canary overlap only when its interval was edited |
| **Operator** `controller.go`, `finalizer.go` | work queue, `canaries` map | `syncHandler`, `setPhaseInitializing`, `finalize`, the finalizer | every canary gets its job; a phase is not set back; a deleted canary is reverted and let go |
| **Routers** `pkg/router` | mesh objects | `Reconcile`, `SetRoutes`, `GetRoutes`, `Finalize` | what was set is what is read; reconciling gives the canary no traffic; a route names objects that exist; a deletion restores what there was |
| **Metric checks, webhooks, alerts** | – | one verdict per call | order and cut-off of the checks |
| **Load tester** `pkg/loadtester` | gate map, task maps, Concord processes | `/gate/*`, `/rollback/*`, `runAll`, polling | an accepted task is run; a gate answers what it was told; a waiting request is answered |
| **EDS server** `src/envoy/envoy_discovery/eds_server/grpc_server.go` | slice of endpoints, snapshot cache | register, deregister, the 60 s loop, stream callbacks | a snapshot names the registered endpoints |

How they interact: the informer feeds the work queue, whose workers register
canaries; `scheduleCanaries` keeps one job per registered canary; the job calls
`advanceCanary` at every interval. The handler talks to everything else through
remote calls, webhooks and metric servers included, any of which may fail, and
the process may stop between any two of them. The user edits the target, its
configs and the Canary object at any time.

What is hard: a tick is a long sequence of writes that is cut off at any point
and picked up only from what was written; the status read at its beginning
decides to its end; the target is read several times in a tick; hooks hold a
rollout for ever or let it go at any tick; weights are clamped in three
different ways; the informer's cache lags behind the worker, the update handler
and the ticks, which all write the same object; a router writes several objects
one by one; the goroutines of the load tester share two maps without a
transaction. `PROJECT.json` lists each hazard at its line, with the properties
that cover it or the reason why none does.

## Modules

| module | models |
|---|---|
| `StepWeights` | the weight arithmetic as operators on an analysis and a split |
| `WeightWalk` | one undisturbed walk up and back for each of a set of analyses, against the schedule the documentation gives |
| `Rollout` | the abstract specification: what a rollout promises, whatever the strategy |
| `AdvanceCanary` | `advanceCanary` for one canary, with the status writes, the workload writes, the hooks, edits, failures and restarts; EXTENDS `StepWeights`, implements `Rollout` |
| `TrafficSplit` | the abstract specification of a router: the contract behind `router.Interface` the scheduler relies on |
| `Routers` | the nine kinds of mesh and ingress routers, as the job of one canary calls them; implements `TrafficSplit` |
| `Operator` | the informer, the worker of the queue, the scheduler and the goroutines of the jobs around one canary; its deletion |
| `Workload` | the target of a canary, its primary and the copies of its configs, call by call |
| `LoadTester` | the task runner, the gates and a request that waits for Concord |
| `MC...` | the analyses, canaries, targets and tasks TLC runs for each of them |
| `StepWeightsProofs`, `WeightWalkProofs` | the arithmetic for every analysis: lemmas, and theorems about the walk |
| `AdvanceCanaryProofs`, `PromotionProofs` | inductive invariants of the handler, and that it implements `Rollout`; what an analysis is for |
| `RoutersProofs`, `OperatorProofs`, `WorkloadProofs`, `LoadTesterProofs` | inductive invariants and theorems of the module they are named after |

How they fit together: `AdvanceCanary` has the handler in full and everything
around it in the simplest form that the handler can tell apart: a router is the
split it was last given or reset to, the configs are one number, there is one
handler. The other modules take one of those neighbours apart and keep the handler
simple: `Routers` justifies the split (`ImplementsTrafficSplit`, `ReadBack`),
`Workload` the promotion and the configs, `Operator` the one handler
(`TicksDoNotOverlap`) and the first status, `LoadTester` the other end of the hooks.

`AdvanceCanary` in terms of the code:

* **Steps.** An action is the piece of the handler up to and including one
  remote write (or the one read that decides); `pc` names the write that comes
  next, `"idle"` is the time between two ticks. The locals of the handler are
  `cd` (the Canary as read when the tick began, which every branch of the tick
  uses), `seen` (what `GetRoutes` returned, then what is being set), `retriable`
  (the second result of `IsCanaryReady`) and `copy` (the template `Promote`
  read). They are forgotten when the handler returns.
* **Status.** `SyncStatus`, `SetStatusPhase` and the three counter writes act on
  the status as it is in the cluster, as the code does after its `Get`;
  `SyncStatus` records the hash of the target *at that moment*.
* **Strategies.** `canarySpec` (provider, analysis, skipAnalysis, webhooks) is
  chosen by `Init` from the constant `Canaries`, so one run covers them all:
  progressive, linear or listed, mirrored or not, promotion in one go or in
  steps; A/B testing; blue/green, mirrored or not; the Kubernetes provider; and
  `skipAnalysis`.
* **Around the handler.** `HandlerReturns`: a call fails, the canary is not ready
  or the controller stops, before the next write. `SkipFails` and
  `RevisionUnread`: the two places where the code goes on after an error.
  `IterateBlueGreen` has a third (a failure to mirror is logged).
  `PrimaryRolledOut` finishes a rolling update. `Edit` is the user, who edits the
  target; an edit of the service shows in the next tick only, as `ReconcileResets`,
  the `Reset` of `TrafficSplit`.
* **History.** `passed` records which workload passed a check at which weight or
  iteration since the analysis began; `Walked` says that a workload passed at
  every step of the configured walk.

`Rollout` has three variables: the stage (at rest, waiting, analysis, promotion),
whether the canary gets traffic, and what the primary runs. `AdvanceCanary` maps
its phase and the write that comes next to the stage (`Stage`), the split and the
mirror to the traffic (`Traffic`); `ImplementsRollout` is `Rollout`'s
specification under that mapping. It says in particular that requests reach the
canary only between a start and an end, that a rollout ends only with all traffic
on the primary, and that a promotion is left by an end or by the user only.

`Routers` in terms of the code: `canary` is the Canary object as far as a router
reads it; `rev` stands for everything in it but the provider, the strategy and
what the router refuses. `route` is the object that holds the weights, with one
or two rules of primary and canary weights; `objects` are the others `Reconcile`
keeps (destination rules, virtual nodes, upstreams, ...), in the order it writes
them. `pc` is where the tick is: `Reconcile` writes what is missing or differs
from the spec, or a prefix of that when a write fails, `GetRoutes` and
`SetRoutes` follow, and the scheduler chooses the weights. The user may edit at
any time; `held` is the Canary the tick goes on with. What differs between
providers has an operator each: `IstioReconciles`, `ContourGets`, `NginxSets`, ...
`Orders`: Contour and Gloo list the headers of a match in the random order of a Go
map, so that with several headers `Reconcile` may find the route different, and
write it, though nobody has edited anything.

`TrafficSplit` has two variables: the split the requests see, and the one a tick was
told and acts on. `Routers` maps the share its first rule gives the canary, a
quotient of two weights, to the first (`Split`), and what `GetRoutes` returned to the
second (`Told`). `ImplementsTrafficSplit` says that a tick is told the split there
is, that no edit changes it before the tick acts, and that a `Reconcile`, whole or
cut off, changes it to nothing but the primary's.

`Operator` in terms of the code: `api` is the Canary in the API server and `cache`
what the informer last saw of it; `Deliver` is the event handler, which may skip
intermediate versions. `sync` is the worker with the copy it holds. `registered`
is the map `canaries`, `job` the map `jobs`, and `loops` the goroutines that have
been started, the stopped ones included: `Stop` closes a channel, and `select` may
still take a tick that waits. A tick reads the Canary, initializes, reconciles and
advances, with its writes to the target, the apex service and the status.
`Restart` forgets everything in memory.

`Workload` in terms of the code: `op` is the operation of a tick that is under way:
the call to the API server that comes next (`at`), the phase it ends in (`to`), the
target as it was read (`seen`), the configs tracked and those still to copy. An
action of the first group begins an operation, in the phases in which the scheduler
does: `CreatePrimary`, `StartRollout`, `Promote`, `Rollback`, ... Those of the second
group are its calls: scale the target, get it, get its configs (which gets the
target once more), copy each config, write the primary, write the status. Edits and
failures come between any two of them. A promotion begins in phase Progressing,
and the phase is written last. So after one that stopped half way the next tick
promotes again, restarts the analysis or rolls back. A read that fails stops the
operation if the config is mandatory, and else the config is passed over:
`Refs(failed)` is neither copied nor renamed. `primary.with` is history: the copies
as they were when the primary was written. `Idle` is no operation.
`workload` says what kind the target is and how its pods use the configs:
optional or mandatory, by a container or an init container, disabled by an
annotation, missing at the start.

`LoadTester` in terms of the code: `threads` counts, for each task, the
goroutines at each step of `runAll`; `todo` and `running` are its two maps.
`gates` is the map of `GateStorage`, by the labels of the key, and `told` the
commands since the start. `concord` is the one request that waits for a process,
with the age of its context, the seconds since the last `time.After` and the
ticker; `Second` lets time pass when no case of the `select` is due.

## Abstractions

* The pod template and the set of configs are one number each; a hash is the
  value itself (`hasSpecChanged` and `HasConfigChanged` compare them only).
* One webhook of each type, which answers yes or no at every call. `rollout`
  hooks and metric checks fail alike, by counting a failed check; `post-rollout`
  and `event` hooks change nothing the model keeps.
* In `AdvanceCanary` a mesh router holds the split it was last given, or all to the
  primary after an edit of the service (some providers keep the split then, others
  reset it: `Routers` has the rest, with the resets of Contour and Gloo that no edit
  asks for); the Kubernetes one holds none and makes up its
  answer from the iterations. AppMesh reconciles its routes before the primary
  exists: not distinguished.
* Transition times, labels, annotations, the HPA, events, alerts and metrics are
  left out: no branch of the handler depends on them. Of the conditions `Operator`
  keeps whether there are any.
* Writes to the Canary retry on a conflict and then apply to the fresh object. In
  `Operator` a write therefore changes its own fields of the latest object; in
  `AdvanceCanary` there is no other writer.
* In `Operator` the phases at rest are one, `Initialized`, and an analysis is a
  tick that leaves everything as it is or ends the rollout. The pods of target
  and primary start in the end. The edits that matter are those of the interval
  and of `revertOnDeletion`.
* In `Operator` an interval is numbered by the edit that set it: a user who goes
  back to an interval he had before is not modelled.
* In `Routers` the gateways, hosts, headers and policies of a spec are its
  revision; SMI's three API versions are one router. A route that was there before
  the canary is Istio's, the one that is saved, and only such a route can carry the
  annotation of kubectl. Hashes in `Workload` are
  revisions, with the one field (`selector`) that could tell them apart wrongly.
* In `Workload` the copies of a config are read and written in one step, each config
  in its turn, as nothing else writes a copy. The phases Waiting and WaitingPromotion,
  which `AdvanceCanary` has, are Progressing here, and the promotion of a skipped
  analysis (`pkg/controller/scheduler.go:697`) is in `AdvanceCanary` only.
* In `LoadTester` a command is the time between `Run` and `Returns`, and a call
  of Concord takes any time up to the timeout of its client.
* `IsCanaryReady` may say ready, or not ready and not retriable, at any time;
  not ready and retriable ends the tick, as a fault.
* A lost reply (the write was done, the caller saw an error) is
  `HandlerReturns` after the write.

## Runs

Runs that pass:

| run | what is checked | what it shows |
|---|---|---|
| `weight_walk` | `TypeOK`, `SplitCoversTraffic`, `FollowsTheList`, `DocumentedDuration`, `WalkReturns` | for 720 analyses the arithmetic gives the documented schedule |
| `safety` | `TypeOK`, `AtRestAllToPrimary`, `StoppedByFaultsOnly`, `PromotedWasAnalysed`, `ThresholdUnlessHeld`, `LastPromotedIsPrimary`, `PrimaryReadyBeforeTraffic`, `RollbackKeepsApplied`, `ImplementsRollout` | every strategy with every hook is safe, and implements `Rollout`, with edits between ticks and one fault anywhere (2.7 million states) |
| `ends` | `RolloutEnds`, `Converges` | with hooks that cannot hold it for ever every rollout ends, but for the promotion that `Stranded` names, and the primary follows the target, with two faults (0.4 million states) |
| `routers` | `TypeOK`, `ReadBack`, `OthersStayOnPrimary`, `RouteHasItsParts`, `FinalizeRestores`, `ImplementsTrafficSplit`, `TicksGetToRoute` | every provider implements `TrafficSplit`: it keeps what it is told, resets it to the primary at most, and recovers from a failed write (13 thousand states) |
| `operator` | `TypeOK`, `TicksDoNotOverlap`, `PhaseNotSetBack`, `RevertHoldsWithoutTicks`, `DeletedEventuallyGone`, `EveryCanaryScheduled` | the goroutines of the operator, interleaved, with one disturbance of each kind (165 thousand states) |
| `workload` | `TypeOK`, `PrimaryHasPods`, `CopiesExist`, `NoEditIsLost`, `ScalingIsNoRevision`, `HalfPromotionIsMended` | creation, promotion and rollback of the three kinds of target with two configs, edited and failing between any two calls: no edit is lost, optional configs that could not be read included, and a promotion that stopped half way is made good by a later tick, if that one does not roll back (775 thousand states) |
| `loadtester` | `TypeOK`, `RunningIsOwned`, `ChecksAnswerTheCommand`, `AcceptedIsRun`, `ConcordIsAnswered` | the interleavings of the runner, the gates and the Concord request, with a restart (130 thousand states) |

Runs that TLC refutes each hold the code against a sentence of its documentation
or comments; see [Findings](#findings): `edit_race`, `traefik`, `opt_out`,
`in_init`, `poll_timeout`. Each differs from the passing run of its module in the
one liberty it names, which shows why the passing run does without it. The
configurations that no run of `PROJECT.json` names are of the same kind, or check
the stronger property of which the passing run's is what remains true; they are
listed with what they show at the end of the findings.

`CHECK_DEADLOCK FALSE` stands where the system may stop: a walk is over, a canary
is finalized or deleted, a workload is at rest and the edits are used up. The
handler and the load tester never stop, and their runs check for deadlock.

## Bounds

`AdvanceCanary`:

| constant | value | why it is enough |
|---|---|---|
| `MaxRevision`, `MaxConfig` | 3, 2 | the first rollout, a second one that interrupts it; a template edit and a config edit, in both orders |
| `MaxEdits` | 2 (3 with reverts) | one edit starts a rollout, the other comes during it or after it |
| `MaxFaults` | 1 in `safety`, 2 in `ends` | one fault between any two writes; two let a fault hit the recovery from the other |
| `MaxFailed` | 3 | the threshold is 2: counters at, below and above it. `CheckFails` is disabled at 3, which only a held promotion reaches |
| `EditPoints` | between ticks | edits within a tick are the finding `edit_race`; the ticks of a fast handler are short against its interval |
| `EditPhases` | all but Initializing | an edit before the initialization is over is the finding `EditLost` |
| `Reverts` | FALSE | the finding `Revert` |
| `ServiceEdits` | TRUE in `safety` and `ends` | an edit of the service counts as one of `MaxEdits`: one edit starts a rollout, the other resets its routes at any tick |
| `ReadsFail` | FALSE in `safety` | the finding `UnreadRevision`; TRUE in `ends`, as liveness holds all the same |
| analyses | step 40, maximum 50, promotion step 50; list 10, 100; 2 iterations | a maximum that is no multiple of the step, a promotion that takes two steps and is clamped, a mirrored first step, the last weight 100, counters below, at and above the iterations |

`WeightWalk` needs no handler and takes many more analyses: eight steps (1 to
100), six maxima, five promotion steps, lists of one to four weights, each
mirrored and not. Lists that repeat a weight or do not rise are left out, the
documentation giving them no meaning.

`Routers`: 23 canaries cover every provider, an A/B test where the provider has
one, a match of several headers where their order matters, a spec that is refused, a service that is not named after its target, and a
virtual service that was there before. Two edits make a difference to what the
first one saved; one failed write may be any write of a `Reconcile`; weights 0,
10 and 100 are nothing, a part and all. A Traefik canary whose service is edited
is the run `traefik`, and Gloo with a service of another name never gets past
`GetRoutes` (findings).

`Operator`: one canary, since the code keeps nothing that two share, and one
worker (the queue hands a key to one worker at a time). Each start allows one
edit, one new revision, one failing call or one restart, so that every recovery is
seen from every state without hiding behind another disturbance; with and without
`revertOnDeletion`, and with and without an apex service of the user's. One more
start (`Settled`) is a canary that was initialized before the operator came up: it
may opt out of the revert, with a failing call. A new canary that opts out is the
run `opt_out`. `MaxEdits` bounds the goroutines: an edit of the interval starts one.

`Workload`: two configs are enough for one to be copied and the other not; three
edits let a config change, vanish and come back in the middle of an operation;
one fault, which may be a failed write or a failed read (two give 2.3 million states
and the same answers). `LoadTester`: one task, as tasks share nothing but the maps, with two
goroutines; two canaries with the same name in two namespaces; one restart; a
poll interval below and above the poll timeout, both below the timeout of the
context.

## Fairness

`FairSpec` asks for:

* `WF(Advance)`: the job's ticker fires and a remote call returns in the end,
  with success or with an error; the handler cannot stand still.
  Faults are bounded by `MaxFaults`, so the failures do not go on for ever.
* `WF(PrimaryRolledOut)`: the deployment controller finishes rolling updates.
* `SF(RollbackRoutes)`: a rollback hook that is asked again and again says yes
  once: the user has opened it. Weak fairness would not do, as the handler comes
  and goes. It is also enabled, for good, by a reached threshold and an
  exceeded deadline, where nothing else is.

Nothing is asked of the checks, gates, edits or the readiness of the canary. A
gate that never opens holds a rollout for ever, so `ends` has no
`confirm-rollout`, `confirm-traffic-increase` and (but for the canary with the
rollback hook) no `confirm-promotion` hook.

`Routers`: `WF` of `ReconcileSucceeds`, `GetRoutes` and `Leave`: the job calls its
router again and again; failures are bounded. `Operator`: the informer delivers
and resyncs, the worker, the scheduler's ticker and the goroutines of the jobs go
on, and pods start; nothing is asked of the user. `Workload`: `WF(Advance)`, the job
ticks again, and an analysis ends one way or the other, by a restart, a promotion or
a rollback (a gate that stays closed is left out, as in `ends`: with one, nothing is
mended until it opens); and `WF(Call)`, a call returns, with success or an error.
Which of the three a tick does is not fair: nothing says that an analysis is ever
passed again. `LoadTester`: the ticker of the runner and its goroutines go
on, a command returns by its context, time passes, calls of Concord return; `SF`
of `ContextTimesOut`, because a `select` picks at random among the cases that are
due, so one that is due again and again is taken.

## Findings

Each of these is a run that TLC refutes.

* `edit_race` – `Promote` reads the target anew: an edit after the revision check
  of the tick is promoted unchecked.
* `traefik` – after an edit of the service, `Reconcile` of the Traefik router gives
  the canary that is listed the weight 100 beside the primary's 100: half of the
  traffic until the next `SetRoutes`. The comment above says it keeps the weights.
  (Istio, Contour and Gloo have the same comment and reset them to the primary,
  which is safe: `ReconcileIsHarmless` proves the property of this run for all
  providers but Traefik.)
* `opt_out` – a canary that opts out of `revertOnDeletion` while the worker is in
  `setPhaseInitializing` with an older copy: the update handler removes a finalizer
  that is not there yet, the worker adds it afterwards to the fresh object, and a
  later deletion never completes.
* `in_init` – a config that only an init container refers to is tracked and copied,
  but the reference in the primary's init container is not renamed: an edit of the
  config reaches the primary at its next restart, without an analysis.
* `poll_timeout` – `time.After(task.PollTimeout)` is made anew with every poll, so
  with the documented values (5 s and 30 s) it never fires.

TLC refutes these as well, with configurations that differ from the passing ones
in one constant or check a stronger property; they are the reason for a property's
exceptions:

| configuration | property | what happens |
|---|---|---|
| `ThresholdHeld` | `NoPromotionPastThreshold` | the threshold is compared in phase Progressing only: a canary whose promotion is held collects failed checks without limit and is promoted when the hook opens |
| `HalfRollback` | `NoTrafficToStoppedCanary` | a rollback whose status write fails after the canary was scaled to zero is forgotten; zero replicas pass for ready and the weight is raised with no pod behind it. It takes the progress deadline or a rollback hook, which the next tick need not see again. `StoppedByFaultsOnly` is what remains true |
| `StuckPromoting` | `PromotionEnds` | the status write after the last promotion step is lost: `runPromotionTrafficShift` then reads a canary weight of 0 and does nothing, for ever. `Stranded` names that state, and `RolloutEnds` and `Converges` say that it is the only exception, and one that takes a fault or the edit of `ServiceEdited` |
| `ServiceEdited` | `PromotionEnds` | an edit of the service during a promotion in steps makes `Reconcile` reset the routes to the primary (`pkg/router/istio.go:240`): `runPromotionTrafficShift` has no canary weight to shift any more, and without any fault the rollout stays in phase Promoting, the canary up, with no new revision looked for, against `usage/deployment-strategies.md:69` |
| `ResetUnready` | `ReconcileToReadyPrimary` | `Reconcile` comes before `IsPrimaryReady` in every tick: the same edit just after `Promote` routes all traffic to a primary that has begun its rolling update, against the comment at `pkg/controller/scheduler.go:223` ("runs after the primary is ready") |
| `EditLost` | `Converges` | an edit between the creation of the primary and the end of the initialization is recorded as applied and never rolled out |
| `UnreadRevision` | `PromotedWasAnalysed` | `hasCanaryRevisionChanged` drops its errors: an edit between ticks and one failed read, and the edit is promoted unchecked |
| `Revert` | `LastPromotedIsPrimary` | going back to the promoted revision during an analysis is not seen; the promotion then records the wrong hash as promoted |
| `WaitingRollback` | `WaitingEnds` | a closed `confirm-rollout` gate returns before the rollback hooks are asked, against `usage/webhooks.md:29` |
| `SkipFallsThrough` | `SkipShiftsNoTraffic` | when a call in `shouldSkipAnalysis` fails, the handler analyses, and traffic goes to a canary that was to be skipped |
| `SkipPromotes` | `LastPromotedIsPrimary` | three such failures, and the skipped canary gets as far as phase Promoting, where no new revision is looked for: an edit there is promoted by the next tick that skips, and another revision recorded as promoted. `RollbackKeepsApplied` breaks in the same way; two failures are not enough |
| `SetBack` | `PhaseNotSetBack` | with `revertOnDeletion` the worker may come by `setPhaseInitializing` twice, the second time with a copy older than the finalizer it has added itself, and sets a canary back that ticks have initialized. The property excepts such canaries; one that opts out just before that write is none of them any more |
| `RevertRace` | `RevertHolds` | a tick that began before the deletion scales the target down, or points the service at the primary, after `finalize` has reverted them |
| `Recreated` | `PrimaryHasPods` | a DaemonSet whose canary is deleted (without `revertOnDeletion`) and created again has the scale-down selector in its template, and the new primary is created with it: no pods, and the initialization scales nothing up |
| `HalfPromoted` | `FailedLeavesNothing` | `Promote` writes the primary's configs, then its template, and the scheduler writes the phase after that (`pkg/controller/scheduler.go:545`, `:588`, `:653`). A promotion that fails after the first copy leaves the phase Progressing; a failed check or a rollback hook may then roll back, and the new configs stay under the primary of the old revision. `HalfPromotionIsMended` is what remains true |
| `SkippedRead` | `EveryConfigIsCopied` | a read of an optional config that fails while `Promote` runs is logged and the config passed over (`pkg/canary/config_tracker.go:209`, `:222`): the rollout succeeds with the primary on the user's original, whose edits reach it without an analysis until the next promotion, against `usage/how-it-works.md:106`. That the primary still sees what the target does is `NoEditIsLost` |
| `Shuffled` | `OnlyEditsReset` | with a match of two headers Contour (`pkg/router/contour.go:385`) and Gloo (`pkg/router/gloo.go:349`) find the route changed whenever the map is walked in another order, and `Reconcile` resets it to the primary in the middle of an analysis. No edit is needed. The other properties of `routers` hold all the same: to the primary is where a reset may go |
| `RunsTwice` | `RunsOnceAtATime` | a task that is taken by two goroutines between the look-up and the insertion runs twice at a time, against `usage/webhooks.md:169` |

Further disagreements follow from reading the code for the models:

* App Mesh v1beta2 creates a virtual service only when its router has just been
  created; when that write fails the service is missing for ever
  (`pkg/router/appmesh_v1beta2.go:336`).
* Gloo's `GetRoutes` looks for the route table by the name of the target, while the
  others are written by the name of the service (`pkg/router/gloo.go:151`).
* Skipper compares two pointers to find the backend of the apex service in its
  ingress, which are never equal, and never notices a missing one
  (`pkg/router/skipper.go:94`).
* After several edits of the service, Istio's `Finalize` restores a configuration of
  Flagger's own instead of the user's: the annotation is overwritten by each update
  (`pkg/router/istio.go:248`). `FinalizeRestores` holds without edits, or with the
  annotation of kubectl.
* A new canary without `revertOnDeletion` whose first status write fails gets no job
  until its next edit; the phase `Terminated` is never set; a deletion with
  `revertOnDeletion` waits, key by key, for a target that is ready.
* With `skipAnalysis`, two failed calls of `shouldSkipAnalysis` may make a promotion
  step raise the canary's traffic from a split that was read before.

One more disagreement follows from reading alone: `LastAppliedSpec` hashes the
pod template only, so after a failed rollout of a config map it equals
`LastPromotedSpec`, while `docs/gitbook/usage/how-it-works.md:249` says the two
differ.

## Proofs

Each theorem is proved for all values of the constants that satisfy the
assumptions its module names (`BoundsAssumption`, `CanariesAssumption`,
`StartsAssumption`, ...), which TLC evaluates on the values of the runs: the
bounds are naturals, and a canary, a start, a workload or an analysis is *any*
record of its kind. A hypothesis beyond them is in the table below; without it the
property is false of the code.

| module | theorem | statement | hypothesis |
|---|---|---|---|
| `WeightWalkProofs` | `SplitsCover` | `Spec => []SplitCoversTraffic` | |
| | `TypeCorrect` | `Spec => []TypeOK` | no analysis that mirrors has a `stepWeight` above 100 |
| | `DurationIsDocumented` | `Spec => []DocumentedDuration` | lists rise, from 1 to 100 at most |
| | `ListIsFollowed` | `Spec => FollowsTheList` | the same |
| `AdvanceCanaryProofs` | `TypeCorrect` | `Spec => []TypeOK` | |
| | `RestIsPrimary` | `Spec => []AtRestAllToPrimary` | |
| | `ThresholdHolds` | `Spec => []ThresholdUnlessHeld` | |
| | `ReadyBeforeTraffic` | `Spec => PrimaryReadyBeforeTraffic` | |
| | `Refines` | `Spec => ImplementsRollout` | |
| `PromotionProofs` | `StoppedCanaryHasNoTraffic` | `Spec => []StoppedByFaultsOnly` | |
| | `PromotedIsAnalysed` | `Spec => []PromotedWasAnalysed` | `Orderly` |
| | `PromotedIsRecorded` | `Spec => []LastPromotedIsPrimary` | `Orderly`, `NoneSkipped` |
| | `RollbackRecordsAnalysed` | `Spec => RollbackKeepsApplied` | `Orderly`, `NoneSkipped` |
| `RoutersProofs` | `TypeCorrect` | `Spec => []TypeOK` | |
| | `WhatIsWrittenIsRead` | `Spec => []ReadBack` | |
| | `PartsComeFirst` | `Spec => []RouteHasItsParts` | |
| | `OthersAreOnPrimary` | `Spec => []OthersStayOnPrimary` | |
| | `UsersRouteIsRestored` | `Spec => []FinalizeRestores` | |
| | `ReconcileIsHarmless` | `Spec => ReconcileAddsNoTraffic` | no canary of Traefik is edited |
| | `RoutersKeepOneSplit` | `Spec => ImplementsTrafficSplit` | the same |
| `OperatorProofs` | `TypeCorrect` | `Spec => []TypeOK` | |
| | `TicksApart` | `Spec => []TicksDoNotOverlap` | |
| | `LetGoReverted` | `Spec => RevertHoldsWithoutTicks` | |
| | `PhaseStays` | `Spec => PhaseNotSetBack` | the user does not opt out of `revertOnDeletion` |
| `WorkloadProofs` | `TypeCorrect` | `Spec => []TypeOK` | |
| | `PrimaryFindsItsCopies` | `Spec => []CopiesExist` | |
| | `PrimaryKeepsPods` | `Spec => []PrimaryHasPods` | no canary of a DaemonSet is created again |
| | `EveryEditIsFound` | `Spec => []NoEditIsLost` | |
| | `NothingIsRolledOutTwice` | `Spec => ScalingIsNoRevision` | |
| `LoadTesterProofs` | `TypeCorrect` | `Spec => []TypeOK` | |
| | `RunningHasOwner` | `Spec => []RunningIsOwned` | |
| | `GatesAnswer` | `Spec => []ChecksAnswerTheCommand` | no canary's name begins with the label "rollback" |

### The weights

`StepWeightsProofs` has the lemmas that the walk and the handler share: a split
that covers the traffic still does after `Increase` and `ShiftBack`, whatever the
step, and a listed weight is found at its position. No lemma uses induction: a
list is walked by a position in it, the least element of a set by its minimum.

`WeightWalkProofs` takes any analysis with natural weights. Its invariant counts:
without promotion the canary weight of a linear walk is
`Least(100, increases * stepWeight)`, or `stepWeight` itself after the first raise,
which mirroring leaves unclamped, and the last raise began below the maximum
(`LinearInv`); that of a listed walk is the weight at position `increases`
(`ListedInv`). The documented number of checks, a division rounded up, follows
when the walk turns round. `SplitInv` alone does for `SplitsCover`. The hypothesis
of `TypeCorrect` on mirroring is there because the step after the mirrored one goes
to `stepWeight` without comparing it with 100. That on lists is there because `nextStepWeight`
goes by the first position of the current weight and the walk ends at the last
weight of the list: one that repeats a weight, or does not rise, is not followed.

### The handler

None of the theorems of `AdvanceCanaryProofs` restricts edits of the target or the
service, reverts, dropped reads or faults: what the bounds and windows of the runs
leave out is included.

* `TypeInv` strengthens `TypeOK`: a step of the handler that writes to the
  primary finds one, and the copied template is one. Without it
  `PromoteWorkload` could write the template `NoHash`.
* `RestInv` relates the routes to the phase *and* to the write that comes next:
  the handler may stand before `SyncStatus("Failed")`, say, only with the traffic
  home already. It has three parts: the status read by the tick is still the
  status until the tick writes it (`StatusIsRead`); every split is complete
  (`RoutesComplete`: a primary weight of 100 means a canary weight of 0, which
  is when the promotion in steps ends); and the routes are home in all states at
  rest, in phase Finalising, and before each write that leads to them
  (`RoutesHome`, `Homeward`).
* `ThresholdInv` and `ReadyInv` carry the comparison made early in a tick to the
  write made late in it: the failed checks do not change, and the primary
  stays ready, between the check and the promotion. `PrimaryReadyBeforeTraffic` is
  about `SetRoutes`: what `Reconcile` does before the check is `ResetUnready`.
* `Refines` starts from `TypeInv` and `RestInv` again: a step that ends a rollout
  maps to `Finish` because the routes are home before it. One lemma per group of
  actions shows that each maps to a step of `Rollout` or to a stutter; the
  fairness of the code has no part in it, `Rollout` being a safety specification.

`PromotionProofs` is about what an analysis is for.

* `UpInv`: until a call fails, the canary is scaled up in the phases in which it
  may get traffic, but for the first write of a resumed analysis and the last one
  of a rollback or a skipped analysis. The configuration `HalfRollback` says why faults are excluded.
* `KnownInv` says what the handler knows of the revision under analysis: the status
  is never ahead of the target (`Ordered`; revisions are numbered by the edits), and
  from the revision check of a tick to its last write the target is the one the
  status has recorded as applied.
* `WalkInv` relates the checks that passed (`passed`) to the weight or the iteration
  reached: *at weight c, some walk of the applied revision leads from 0 to c, and it
  has passed at every step of it but the last*, for the routes and for the handler's
  copies of them. A check at `c` and an `Increase` make the walk longer by one
  step. This is where an interrupted, restarted or resumed analysis
  could be promoted on the checks of its predecessor.
* `PrimaryInv`: from the write to the primary until the next rollout begins,
  the primary runs the applied template.
* `Orderly` is `EditPoints \subseteq {"idle"}`, no reverts and no failing reads of
  the target: the configurations `EditRace`, `Revert` and `UnreadRevision` leave out
  one of them each, and TLC refutes all three properties with any of them. `NoneSkipped` leaves `skipAnalysis` out: the
  configuration `SkipPromotes`. Faults are not restricted.

### Routers, operator, target, load tester

`RoutersProofs` has one invariant of six parts for the nine kinds of routers.
`RouteInv` says of each provider how many rules its routes have and of what shape
(`Proper`): the second rule of an A/B test, for the requests that do not match, is
one of `Seconds`; what is saved is the user's or of that shape.
`WrittenInv` relates the last `SetRoutes` to the route across edits and failed
writes. `PartsInv` follows from the order of the writes in `Reconcile`, which fails
at any of them. `SavedInv` and `KubectlInv` follow the user's virtual service from
the cluster into the annotation and back. `ReconcileIsHarmless` is about a step:
from these rules the route `Reconcile` writes gives the canary at most what it had.
Its hypothesis is the finding `traefik`. `RoutersKeepOneSplit` adds two invariants:
the first rule is a split that adds up to 100, or the primary alone (`TrueInv`; then
what `GetRoutes` computes from one weight is the share the requests see), and a tick
acts on the split that is there (`ToldInv`). One lemma per group of actions shows
that each is a step of `TrafficSplit` or leaves the split alone.

`OperatorProofs`: the goroutines started have different intervals, because the
interval of the canary that the worker registers was seen in the order of the edits
(`IntervalsInv`: the API server is at or ahead of the cache, the cache of the
map). The running goroutine is the one in the job map and the youngest one
(`JobsInv`), whatever else has been stopped but not yet left its `select`.
`RevertInv` keeps what `finalize` has done as long as there is no goroutine to undo
it. `FirstInv` says that a canary which needs no finalizer, and was never edited, is
put into its first phase only while nothing is registered. `PhaseStays` leaves out
opting out: the configuration `SetBack`.

`WorkloadProofs`: the invariant says which call an operation may be at, for the
phase it ends in and the one it began in, and that what it need not copy any more
has been copied (`Control`); that a copy once made stays (`CopiesInv`); that the
target has its pods until there is a primary (`PodsInv`); and that no revision or
version is younger than the last edit (`Ages`). `EveryEditIsFound` rests on
`PromotedInv`, which follows a promotion through its calls: it reads the target, then
the configs (`Seen`), copies them (`Made`), writes the primary (`Written`) and last the
phase (`WrittenPhase`), and says of each: if the target, or the config, still is what the status
recorded when the rollout began, that is what was read, copied or written. If it is
not, an edit came in between, which is younger than the record (`Ages`), so that the
next tick finds it. A config that could not be read is shared with the target, and
needs no promotion. The hypothesis of
`PrimaryKeepsPods` is the configuration `Recreated`.

`LoadTesterProofs`: `GatesAnswer` rests on the keys being different for different
gates, which is a lemma about concatenations whose last label is the namespace; its
hypothesis is needed, because the rollback gate of `x` is the other gate of
`rollback.x`.

### Only model-checked

Liveness, which is out of the prover's reach: `WalkReturns`, `RolloutEnds`,
`Converges`, `TicksGetToRoute`, `DeletedEventuallyGone`, `EveryCanaryScheduled`,
`HalfPromotionIsMended`, `AcceptedIsRun` and `ConcordIsAnswered`. Every invariant and
every action property of the passing runs is a theorem.

## Not modelled

* Edits of the analysis, the provider or the target reference during a rollout;
  what two overlapping ticks do to one analysis; two canaries of one target, which
  the code only warns about.
* The HPA of the primary, labels, annotations and ports; the readiness of a
  DaemonSet; the -canary and -primary services of the Kubernetes router.
* The order of the metric checks and the queries of metric servers, notification
  payloads, event recording, command lines, HTTP servers: input and output.
* The bash, helm and ngrinder tasks of the load tester: a command or a test that
  runs in a goroutine the model has. What a blocking task does when Flagger has
  given up on its webhook needs both programs in one model.
* The Envoy EDS server: one file around a vendored cache, whose handlers and loop
  share slices and maps without a lock; no document says what it promises.
* Generated clients, listers, informers, deep copies and the types of other
  projects' APIs, which are nearly two thirds of the Go code of the repository; the
  vendored quickstarts, notes and manifests of the other labs.

## Plan

What the passing runs check of safety is proved. What is left:

1. Edits of the analysis under way (`canarySpec` no longer fixed), and two handlers
   in one analysis, which `TicksApart` allows after an edit of the interval.
2. The webhook and the blocking task in one model, with the timeouts of both.
3. The hypotheses of `PromotionProofs`, which are sufficient, made as weak as the
   configurations that refute the property without them allow: `RollbackKeepsApplied`
   with a skipped canary and at most two faults, for one.
