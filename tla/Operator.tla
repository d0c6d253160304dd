------------------------------- MODULE Operator -------------------------------
(***************************************************************************)
(* The operator around one canary (pkg/controller): the informer and its   *)
(* handlers, the worker of the queue with the finalizer, the scheduler's   *)
(* map of jobs, and the goroutine of a job whose ticks change the target   *)
(* and the services.  What happens inside an analysis is in AdvanceCanary; *)
(* Initialized stands here for all the phases at rest.                     *)
(***************************************************************************)
EXTENDS Integers, FiniteSets

CONSTANTS
  Absent,       \* no such object
  Starts,       \* the canaries to start from, with their workloads and budget
  Edits,        \* what the user may edit: "interval", "optIn", "optOut"
  MaxEdits      \* bound: the edits of any budget of Starts

Phases == {"", "Initializing", "Initialized", "Progressing", "Terminating"}

CanaryObjects ==
  [revert : BOOLEAN, interval : 1..(1 + MaxEdits), finalizer : BOOLEAN,
   deleting : BOOLEAN, conditions : BOOLEAN, applied : BOOLEAN, phase : Phases]

Targets   == {"zero", "starting", "up"}
Primaries == {"absent", "starting", "ready"}
Services  == {Absent, "target", "primary", "owned"}
Budgets   == [edits : Nat, rollouts : Nat, faults : Nat, restarts : Nat]

ASSUME ConstantsAssumption ==
  /\ Edits \subseteq {"interval", "optIn", "optOut"}
  /\ Absent \notin Int /\ Absent \notin CanaryObjects
  /\ MaxEdits \in Nat

\* A canary has its phase and its finalizer from the operator, with the
\* conditions or after them; each edit of the interval has a number.
ASSUME StartsAssumption ==
  /\ Starts \subseteq [canary : CanaryObjects, target : Targets,
                       primary : Primaries, apex : Services, budget : Budgets]
  /\ \A start \in Starts :
       /\ start.canary.interval + start.budget.edits <= 1 + MaxEdits
       /\ start.canary.finalizer \/ start.canary.phase # "" =>
            start.canary.conditions

VARIABLES
  api,         \* the Canary in the API server
  cache,       \* the Canary as the informer last saw it
  queued,      \* is the key in the work queue?
  optingOut,   \* is the update handler about to remove the finalizer?
  sync,        \* the worker in syncHandler: where it is, the Canary it holds
  registered,  \* the interval in the controller's map of canaries
  job,         \* the goroutine of the job in the map of jobs
  loops,       \* the goroutines of the jobs, stopped ones included
  target,      \* the Deployment: zero, starting or up
  primary,     \* the primary Deployment: absent, starting or ready
  apex,        \* what the user's apex service selects; "owned" if it is Flagger's
  budget       \* bound: edits, new revisions, failing calls and crashes left

control == <<queued, optingOut, sync, registered, job>>
cluster == <<target, primary, apex>>
vars    == <<api, cache, control, loops, cluster, budget>>

Slots  == 1..(MaxEdits + 1)
Idle   == [pc |-> "idle", cd |-> Absent]
NoLoop == [state |-> "none", interval |-> 0, last |-> FALSE, pc |-> "wait",
           cd |-> Absent]

Exists == api # Absent
Early(phase) == phase \in {"", "Initializing"}

-----------------------------------------------------------------------------
(* Writes to the Canary.  Each is retried on a conflict with a fresh copy, *)
(* so it is applied to the latest object, whatever copy it started from.   *)

Fails ==
  /\ budget.faults > 0
  /\ budget' = [budget EXCEPT !.faults = @ - 1]

SetPhase(phase) ==
  api' = [api EXCEPT !.phase = phase, !.conditions = TRUE]

\* SyncStatus also records the spec of the target it has seen.
SyncStatus(phase) ==
  api' = [api EXCEPT !.phase = phase, !.conditions = TRUE, !.applied = TRUE]

\* Without its finalizer an object that is being deleted is gone.
RemoveFinalizer ==
  api' = IF api.deleting THEN Absent ELSE [api EXCEPT !.finalizer = FALSE]

-----------------------------------------------------------------------------
(* The informer: Add, Update and Delete, and the periodic resync.          *)

\* An update without a change of the spec is queued for its finalizer only.
ForFinalizer(new) ==
  \/ new.deleting /\ new.finalizer
  \/ ~new.finalizer /\ new.revert

SpecOf(cd) == <<cd.revert, cd.interval>>

Deliver ==
  /\ cache # api /\ ~optingOut
  /\ cache' = api
  /\ CASE cache = Absent ->
            queued' = TRUE /\ UNCHANGED <<optingOut, registered>>
       [] ~Exists ->
            registered' = Absent /\ UNCHANGED <<queued, optingOut>>
       [] OTHER ->
            /\ queued' = (queued \/ SpecOf(cache) # SpecOf(api) \/ ForFinalizer(api))
            /\ optingOut' = (cache.revert /\ ~api.revert)
            /\ UNCHANGED registered
  /\ UNCHANGED <<api, sync, job, loops, cluster, budget>>

\* Mutant: the informer does not resync.
Resync_Never == FALSE /\ UNCHANGED vars

Resync ==
  /\ cache # Absent /\ ~optingOut
  /\ ForFinalizer(cache) /\ ~queued
  /\ queued' = TRUE
  /\ UNCHANGED <<api, cache, optingOut, sync, registered, job, loops, cluster,
                 budget>>

\* The update handler removes the finalizer of a canary whose spec no longer
\* asks for a revert; an error is only logged.
OptOut ==
  /\ optingOut
  /\ optingOut' = FALSE
  /\ \/ Exists /\ RemoveFinalizer /\ UNCHANGED budget
     \/ ~Exists /\ UNCHANGED <<api, budget>>
     \/ Fails /\ UNCHANGED api
  /\ UNCHANGED <<cache, queued, sync, registered, job, loops, cluster>>

-----------------------------------------------------------------------------
(* The worker: syncHandler and finalize.  An error ends it, and the key is *)
(* not queued again.                                                       *)

At(step)  == sync.pc = step
Goto(step) == sync' = [sync EXCEPT !.pc = step]
Return    == sync' = Idle

\* The end of syncHandler for a canary it need not finalize.
StoreAndGo(cd) ==
  /\ registered' = cd.interval
  /\ sync' = IF cd.revert /\ ~cd.finalizer
             THEN [pc |-> "addFinalizer", cd |-> cd] ELSE Idle

\* Mutant: every sync writes the first phase.
SyncHandler_NoCondition ==
  /\ queued /\ At("idle")
  /\ queued' = FALSE
  /\ IF cache # Absent THEN sync' = [pc |-> "initializing", cd |-> cache]
     ELSE UNCHANGED sync
  /\ UNCHANGED <<api, cache, optingOut, registered, job, loops, cluster, budget>>

SyncHandler ==
  /\ queued /\ At("idle")
  /\ queued' = FALSE
  /\ CASE cache = Absent ->
            UNCHANGED <<sync, registered>>
       [] cache # Absent /\ cache.revert /\ cache.deleting ->
            /\ sync' = IF cache.finalizer THEN [pc |-> "terminating", cd |-> cache]
                       ELSE Idle
            /\ UNCHANGED registered
       [] cache # Absent /\ ~(cache.revert /\ cache.deleting) /\ ~cache.conditions ->
            /\ sync' = [pc |-> "initializing", cd |-> cache]
            /\ UNCHANGED registered
       [] OTHER -> StoreAndGo(cache)
  /\ UNCHANGED <<api, cache, optingOut, job, loops, cluster, budget>>

SetPhaseInitializing ==
  /\ At("initializing") /\ Exists
  /\ SetPhase("Initializing")
  /\ StoreAndGo(sync.cd)
  /\ UNCHANGED <<cache, queued, optingOut, job, loops, cluster, budget>>

AddFinalizer ==
  /\ At("addFinalizer") /\ Exists
  /\ api' = [api EXCEPT !.finalizer = TRUE]
  /\ Return
  /\ UNCHANGED <<cache, queued, optingOut, registered, job, loops, cluster, budget>>

\* Mutant: the phase that says the canary has been finalized.
Terminate_Terminated ==
  /\ At("terminating") /\ Exists
  /\ SetPhase("Terminated")
  /\ Goto("revertTarget")
  /\ UNCHANGED <<cache, queued, optingOut, registered, job, loops, cluster, budget>>

\* finalize: the phase is written unless the copy it holds has it.
Terminate ==
  /\ At("terminating") /\ Exists
  /\ IF sync.cd.phase = "Terminating" THEN UNCHANGED api
     ELSE SetPhase("Terminating")
  /\ Goto("revertTarget")
  /\ UNCHANGED <<cache, queued, optingOut, registered, job, loops, cluster, budget>>

\* The controller's Finalize gives the target the replicas of the primary.
RevertTarget ==
  /\ At("revertTarget")
  /\ target' = IF target = "zero" THEN "starting" ELSE target
  /\ Goto("checkTarget")
  /\ UNCHANGED <<api, cache, queued, optingOut, registered, job, loops, primary,
                 apex, budget>>

\* Mutant: the target is not waited for.
CheckTarget_NotAwaited ==
  /\ At("checkTarget")
  /\ Goto("revertService")
  /\ UNCHANGED <<api, cache, queued, optingOut, registered, job, loops, cluster,
                 budget>>

CheckTarget ==
  /\ At("checkTarget")
  /\ IF target = "starting" THEN Return ELSE Goto("revertService")
  /\ UNCHANGED <<api, cache, queued, optingOut, registered, job, loops, cluster,
                 budget>>

\* The router's Finalize gives a service of the user's its old selector; it is
\* an error when there is no such service.  The mesh router's is in Routers.
RevertService ==
  /\ At("revertService")
  /\ IF apex = Absent THEN Return /\ UNCHANGED apex
     ELSE /\ apex' = IF apex = "primary" THEN "target" ELSE apex
          /\ Goto("removeFinalizer")
  /\ UNCHANGED <<api, cache, queued, optingOut, registered, job, loops, target,
                 primary, budget>>

FinishFinalize ==
  /\ At("removeFinalizer") /\ Exists
  /\ RemoveFinalizer
  /\ Return
  /\ UNCHANGED <<cache, queued, optingOut, registered, job, loops, cluster, budget>>

SyncFails ==
  /\ ~At("idle")
  /\ \/ Fails
     \/ ~Exists /\ sync.pc \in {"initializing", "addFinalizer", "terminating",
                                "removeFinalizer"}
        /\ UNCHANGED budget
  /\ Return
  /\ UNCHANGED <<api, cache, queued, optingOut, registered, job, loops, cluster>>

-----------------------------------------------------------------------------
(* The scheduler and the goroutines of the jobs.                           *)

\* Stop closes the channel.  A tick may be in the ticker's buffer by then, and
\* select may take it before it sees the closed channel.
Stopped(loop, buffered) == [loop EXCEPT !.state = "stopped", !.last = buffered]

Started(interval) ==
  [state |-> "running", interval |-> interval, last |-> TRUE, pc |-> "start",
   cd |-> Absent]

JobInterval == IF job = Absent THEN Absent ELSE loops[job].interval

FreeSlot == CHOOSE l \in Slots : loops[l].state = "none"

\* Mutant: the old job goes on when the interval changes.
ScheduleCanaries_NoStop ==
  /\ registered # Absent
  /\ JobInterval # registered
  /\ \E l \in Slots : loops[l].state = "none"
  /\ job' = FreeSlot
  /\ loops' = [loops EXCEPT ![FreeSlot] = Started(registered)]
  /\ UNCHANGED <<api, cache, queued, optingOut, sync, registered, cluster, budget>>

ScheduleCanaries ==
  /\ \/ /\ registered # Absent
        /\ JobInterval # registered
        /\ \E l \in Slots : loops[l].state = "none"
        /\ job' = FreeSlot
        /\ \E b \in BOOLEAN :
             loops' = [l \in Slots |->
                         CASE l = FreeSlot -> Started(registered)
                           [] l = job      -> Stopped(loops[l], b)
                           [] OTHER        -> loops[l]]
     \/ /\ registered = Absent
        /\ job # Absent
        /\ job' = Absent
        /\ \E b \in BOOLEAN : loops' = [loops EXCEPT ![job] = Stopped(@, b)]
  /\ UNCHANGED <<api, cache, queued, optingOut, sync, registered, cluster, budget>>

LoopAt(l, step) == loops[l].state # "none" /\ loops[l].pc = step
LoopGoto(l, step) == loops' = [loops EXCEPT ![l].pc = step]
EndTick(l) == loops' = [loops EXCEPT ![l].pc = "wait", ![l].cd = Absent]

\* select has both to choose from once the job is stopped.
LoopReturns(l) ==
  /\ LoopAt(l, "wait") /\ loops[l].state = "stopped"
  /\ loops' = [loops EXCEPT ![l] = NoLoop]
  /\ UNCHANGED <<api, cache, control, cluster, budget>>

\* What a tick uses of the Canary it has read.
StatusOf(cd) == [phase |-> cd.phase, applied |-> cd.applied]

\* A tick: the first one without waiting for the ticker.  advanceCanary reads the
\* Canary, and has nothing to do without one.
Tick(l) ==
  /\ LoopAt(l, "start") \/ (LoopAt(l, "wait") /\ loops[l].last)
  /\ loops' = [loops EXCEPT
                 ![l].pc   = IF Exists THEN "initialize" ELSE "wait",
                 ![l].cd   = IF Exists THEN StatusOf(api) ELSE Absent,
                 ![l].last = \/ loops[l].state = "running"
                             \/ LoopAt(l, "start") /\ loops[l].last]
  /\ UNCHANGED <<api, cache, control, cluster, budget>>

\* The controller's Initialize: the primary is created, and in an early phase
\* waited for before the target is scaled down.
InitializeTarget(l) ==
  /\ LoopAt(l, "initialize")
  /\ primary' = IF primary = "absent" THEN "starting" ELSE primary
  /\ IF ~Early(loops[l].cd.phase) THEN LoopGoto(l, "reconcile") /\ UNCHANGED target
     ELSE IF primary = "ready"
          THEN target' = "zero" /\ LoopGoto(l, "reconcile")
          ELSE EndTick(l) /\ UNCHANGED target
  /\ UNCHANGED <<api, cache, control, apex, budget>>

\* The apex service selects the primary, whatever the phase.
Reconcile(l) ==
  /\ LoopAt(l, "reconcile")
  /\ apex' = IF apex \in {"target", "primary"} THEN "primary" ELSE "owned"
  /\ LoopGoto(l, "advance")
  /\ UNCHANGED <<api, cache, control, target, primary, budget>>

\* shouldAdvance: a canary that was never synced, is in the middle of a
\* rollout, or has a new revision.
Advances(cd) == ~cd.applied \/ cd.phase \in {"Initializing", "Progressing"}

NothingNew(l) ==
  /\ LoopAt(l, "advance")
  /\ ~Advances(loops[l].cd) \/ primary # "ready"
  /\ EndTick(l)
  /\ UNCHANGED <<api, cache, control, cluster, budget>>

\* checkCanaryStatus reads the Canary again: initialization ends, or
\* a rollout begins with the target scaled up.
CheckCanaryStatus(l) ==
  /\ LoopAt(l, "advance") /\ primary = "ready"
  /\ loops[l].cd.phase # "Progressing"
  /\ IF Advances(loops[l].cd) THEN UNCHANGED budget
     ELSE budget.rollouts > 0 /\ budget' = [budget EXCEPT !.rollouts = @ - 1]
  /\ CASE ~Exists ->
            EndTick(l) /\ UNCHANGED <<api, target>>
       [] Exists /\ Early(api.phase) ->
            SyncStatus("Initialized") /\ EndTick(l) /\ UNCHANGED target
       [] OTHER ->
            /\ target' = IF target = "zero" THEN "starting" ELSE target
            /\ LoopGoto(l, "progressing") /\ UNCHANGED api
  /\ UNCHANGED <<cache, control, primary, apex>>

\* The rollout goes on, or it ends and the target is scaled down.
Analyse(l) ==
  /\ LoopAt(l, "advance") /\ primary = "ready"
  /\ loops[l].cd.phase = "Progressing"
  /\ \/ EndTick(l) /\ UNCHANGED target
     \/ target = "up" /\ target' = "zero" /\ LoopGoto(l, "initialized")
  /\ UNCHANGED <<api, cache, control, primary, apex, budget>>

\* The status that follows the scaling.
SyncPhase(l) ==
  /\ \/ LoopAt(l, "progressing") /\ Exists /\ SyncStatus("Progressing")
     \/ LoopAt(l, "initialized") /\ Exists /\ SyncStatus("Initialized")
     \/ LoopAt(l, "progressing") /\ ~Exists /\ UNCHANGED api
     \/ LoopAt(l, "initialized") /\ ~Exists /\ UNCHANGED api
  /\ EndTick(l)
  /\ UNCHANGED <<cache, control, cluster, budget>>

TickFails(l) ==
  /\ loops[l].pc \notin {"start", "wait"}
  /\ Fails
  /\ EndTick(l)
  /\ UNCHANGED <<api, cache, control, cluster>>

TickStep(l) ==
  \/ InitializeTarget(l) \/ Reconcile(l) \/ NothingNew(l)
  \/ CheckCanaryStatus(l) \/ Analyse(l) \/ SyncPhase(l)

-----------------------------------------------------------------------------
(* The environment.                                                        *)

TargetStarts ==
  /\ target = "starting" /\ target' = "up"
  /\ UNCHANGED <<api, cache, control, loops, primary, apex, budget>>

PrimaryStarts ==
  /\ primary = "starting" /\ primary' = "ready"
  /\ UNCHANGED <<api, cache, control, loops, target, apex, budget>>

Edited(cd, edit) ==
  CASE edit = "interval" -> [cd EXCEPT !.interval = @ + 1]
    [] edit = "optIn"    -> [cd EXCEPT !.revert = TRUE]
    [] edit = "optOut"   -> [cd EXCEPT !.revert = FALSE]

UserEdits ==
  /\ Exists /\ ~api.deleting /\ budget.edits > 0
  /\ \E edit \in Edits :
       Edited(api, edit) # api /\ api' = Edited(api, edit)
  /\ budget' = [budget EXCEPT !.edits = @ - 1]
  /\ UNCHANGED <<cache, control, loops, cluster>>

UserDeletes ==
  /\ Exists /\ ~api.deleting
  /\ api' = IF api.finalizer THEN [api EXCEPT !.deleting = TRUE] ELSE Absent
  /\ UNCHANGED <<cache, control, loops, cluster, budget>>

\* Everything in memory is lost; the informer lists the objects again.
Restart ==
  /\ budget.restarts > 0
  /\ budget' = [budget EXCEPT !.restarts = @ - 1]
  /\ cache' = Absent
  /\ queued' = FALSE /\ optingOut' = FALSE /\ sync' = Idle
  /\ registered' = Absent /\ job' = Absent
  /\ loops' = [l \in Slots |-> NoLoop]
  /\ UNCHANGED <<api, cluster>>

Init ==
  /\ \E start \in Starts :
       /\ api = start.canary
       /\ target = start.target /\ primary = start.primary /\ apex = start.apex
       /\ budget = start.budget
  /\ cache = Absent
  /\ queued = FALSE /\ optingOut = FALSE /\ sync = Idle
  /\ registered = Absent /\ job = Absent
  /\ loops = [l \in Slots |-> NoLoop]

Worker ==
  \/ SyncHandler \/ SetPhaseInitializing \/ AddFinalizer
  \/ Terminate \/ RevertTarget \/ CheckTarget \/ RevertService \/ FinishFinalize
  \/ SyncFails

Next ==
  \/ Deliver \/ Resync \/ OptOut \/ Worker \/ ScheduleCanaries
  \/ \E l \in Slots : LoopReturns(l) \/ Tick(l) \/ TickStep(l) \/ TickFails(l)
  \/ TargetStarts \/ PrimaryStarts
  \/ UserEdits \/ UserDeletes \/ Restart

\* The goroutines run, the tickers of the scheduler, the informer and the jobs
\* go on, and a Deployment whose pods start becomes ready.
Fairness ==
  /\ WF_vars(Deliver) /\ WF_vars(Resync) /\ WF_vars(OptOut) /\ WF_vars(Worker)
  /\ WF_vars(ScheduleCanaries)
  /\ \A l \in Slots : WF_vars(LoopReturns(l)) /\ WF_vars(Tick(l)) /\ WF_vars(TickStep(l))
  /\ WF_vars(TargetStarts) /\ WF_vars(PrimaryStarts)

Spec == Init /\ [][Next]_vars /\ Fairness
-----------------------------------------------------------------------------
(* Properties.                                                             *)

TypeOK ==
  /\ {api, cache, sync.cd} \subseteq CanaryObjects \cup {Absent}
  /\ queued \in BOOLEAN /\ optingOut \in BOOLEAN
  /\ sync.pc \in {"idle", "initializing", "addFinalizer", "terminating",
                  "revertTarget", "checkTarget", "revertService",
                  "removeFinalizer"}
  /\ registered \in 1..(1 + MaxEdits) \cup {Absent}
  /\ job \in Slots \cup {Absent}
  /\ loops \in [Slots ->
       [state : {"none", "running", "stopped"}, interval : 0..(1 + MaxEdits),
        last : BOOLEAN,
        cd : [phase : Phases, applied : BOOLEAN] \cup {Absent},
        pc : {"start", "wait", "initialize", "reconcile", "advance",
              "progressing", "initialized"}]]
  /\ target \in Targets /\ primary \in Primaries /\ apex \in Services

InTick(l) == loops[l].pc \notin {"start", "wait"}

\* Two ticks of one canary run at the same time only when its interval was
\* edited, and one of them is then the last of a stopped job.
TicksDoNotOverlap ==
  \A l, m \in Slots :
    l # m /\ InTick(l) /\ InTick(m) =>
      /\ loops[l].interval # loops[m].interval
      /\ "stopped" \in {loops[l].state, loops[m].state}

\* The worker puts no canary back to Initializing that a tick has taken further,
\* as long as nobody edits it and it needs no finalizer.  (An edit or a resync
\* queues the key again while the cache still lacks the first status.)
PhaseNotSetBack ==
  [][/\ Exists /\ ~Early(api.phase)
     /\ ~api.revert /\ api.interval = 1
     => api' = Absent \/ ~Early(api'.phase)]_vars

\* When the worker lets a canary go, its target runs and the user's service
\* selects it, if no job was there to undo what finalize had done, as after a
\* restart of the operator during the deletion.
RevertHoldsWithoutTicks ==
  [][FinishFinalize /\ (\A l \in Slots : loops[l].state = "none")
     => target = "up" /\ apex # "primary"]_vars

\* The same whatever the jobs do.
RevertHolds ==
  [][FinishFinalize => target = "up" /\ apex # "primary"]_vars

\* A deleted canary that asks for a revert is let go in the end, whichever call
\* failed, as long as the service finalize looks for is there.  (One that has
\* opted out has lost its finalizer by then, or it is OptOutRemovesFinalizer.)
DeletedEventuallyGone ==
  (Exists /\ api.deleting /\ api.revert /\ apex # Absent) ~> ~Exists

\* A canary gets its job once its first status is written, and before that if
\* it asks for a revert, so that the resync queues it again.
EveryCanaryScheduled ==
  (Exists /\ (api.conditions \/ api.revert)) ~>
    (job # Absent \/ ~Exists \/ api.deleting)

\* A canary that no longer asks for a revert loses its finalizer.
OptOutRemovesFinalizer ==
  (Exists /\ ~api.revert /\ api.finalizer) ~>
    (~Exists \/ api.revert \/ ~api.finalizer)
=============================================================================
