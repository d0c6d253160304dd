----------------------------- MODULE OperatorProofs -----------------------------
(***************************************************************************)
(* Proofs about Operator, for every set of starts and every number of      *)
(* edits: the type invariant, that the ticks of a canary do not overlap,   *)
(* and what the worker of the queue may not undo.                          *)
(***************************************************************************)
EXTENDS Operator, TLAPS

-----------------------------------------------------------------------------
(* Types. *)

Steps == {"idle", "initializing", "addFinalizer", "terminating", "revertTarget",
          "checkTarget", "revertService", "removeFinalizer"}
Places == {"start", "wait", "initialize", "reconcile", "advance", "progressing",
           "initialized"}
Seen  == [phase : Phases, applied : BOOLEAN]
Loops == [state : {"none", "running", "stopped"}, interval : 0..(1 + MaxEdits),
          last : BOOLEAN, cd : Seen \cup {Absent}, pc : Places]

Objects == CanaryObjects \cup {Absent}

\* The steps of the worker that use the Canary it holds.
Holding == Steps \ {"idle"}

TypeInv ==
  /\ api \in Objects /\ cache \in Objects
  /\ sync \in [pc : Steps, cd : Objects]
  /\ queued \in BOOLEAN /\ optingOut \in BOOLEAN
  /\ registered \in 1..(1 + MaxEdits) \cup {Absent}
  /\ job \in Slots \cup {Absent}
  /\ loops \in [Slots -> Loops]
  /\ target \in Targets /\ primary \in Primaries /\ apex \in Services
  /\ budget \in Budgets
  /\ Exists => api.interval + budget.edits <= 1 + MaxEdits
  /\ sync.pc \in Holding => sync.cd # Absent
  /\ \A l \in Slots : loops[l].state = "none" => loops[l].pc = "wait"
  /\ job # Absent => loops[job].state = "running"

\* The type invariant implies the one the runs check.
LEMMA TypeInvIsTypeOK == TypeInv => TypeOK
BY DEF TypeInv, TypeOK, Objects, Steps, Loops, Places, Seen

\* The cases of the event handler.
LEMMA DeliverIs ==
  ASSUME Deliver
  PROVE  /\ cache # api /\ ~optingOut /\ cache' = api
         /\ UNCHANGED <<api, sync, job, loops, cluster, budget>>
         /\ cache = Absent => queued' = TRUE /\ UNCHANGED <<optingOut, registered>>
         /\ cache # Absent /\ ~Exists => registered' = Absent /\ UNCHANGED <<queued, optingOut>>
         /\ cache # Absent /\ Exists =>
              /\ queued' = (queued \/ SpecOf(cache) # SpecOf(api) \/ ForFinalizer(api))
              /\ optingOut' = (cache.revert /\ ~api.revert)
              /\ UNCHANGED registered
<1>1. CASE cache = Absent
  BY <1>1 DEF Deliver, Exists
<1>2. CASE cache # Absent /\ ~Exists
  BY <1>2 DEF Deliver, Exists
<1>3. CASE cache # Absent /\ Exists
  BY <1>3 DEF Deliver
<1>4. QED
  BY <1>1, <1>2, <1>3

\* What syncHandler makes of the key.
LEMMA SyncHandlerIs ==
  ASSUME SyncHandler
  PROVE  /\ queued /\ sync.pc = "idle" /\ queued' = FALSE
         /\ UNCHANGED <<api, cache, optingOut, job, loops, cluster, budget>>
         /\ \/ UNCHANGED <<sync, registered>>
            \/ sync' = Idle /\ UNCHANGED registered
            \/ /\ cache # Absent /\ cache.revert /\ UNCHANGED registered
               /\ sync' = [pc |-> "terminating", cd |-> cache]
            \/ /\ cache # Absent /\ ~cache.conditions /\ UNCHANGED registered
               /\ sync' = [pc |-> "initializing", cd |-> cache]
            \/ cache # Absent /\ cache.conditions /\ StoreAndGo(cache)
BY DEF SyncHandler, At

\* The cases of checkCanaryStatus.
LEMMA CheckCanaryStatusIs ==
  ASSUME NEW l \in Slots, CheckCanaryStatus(l)
  PROVE  /\ LoopAt(l, "advance")
         /\ UNCHANGED <<cache, control, primary, apex>>
         /\ budget' = budget \/ (budget.rollouts > 0 /\ budget' = [budget EXCEPT !.rollouts = @ - 1])
         /\ \/ EndTick(l) /\ UNCHANGED <<api, target>>
            \/ Exists /\ Early(api.phase) /\ SyncStatus("Initialized") /\ EndTick(l) /\ UNCHANGED target
            \/ /\ target' = IF target = "zero" THEN "starting" ELSE target
               /\ LoopGoto(l, "progressing") /\ UNCHANGED api
BY DEF CheckCanaryStatus

\* The writes to the status of the Canary leave its spec and its finalizer.
LEMMA StatusWritten ==
  ASSUME api \in CanaryObjects, NEW phase \in Phases, SetPhase(phase) \/ SyncStatus(phase)
  PROVE  /\ api' \in CanaryObjects
         /\ api'.revert = api.revert /\ api'.interval = api.interval
         /\ api'.finalizer = api.finalizer
         /\ api'.phase = phase /\ api'.conditions = TRUE
BY DEF SetPhase, SyncStatus, CanaryObjects

\* The finalizer goes, and with it a canary that is being deleted.
LEMMA FinalizerRemoved ==
  ASSUME api \in CanaryObjects, RemoveFinalizer
  PROVE  api' = Absent \/
           /\ api' \in CanaryObjects
           /\ api'.revert = api.revert /\ api'.interval = api.interval
           /\ ~api'.finalizer
           /\ api'.phase = api.phase /\ api'.conditions = api.conditions
BY DEF RemoveFinalizer, CanaryObjects

\* An edit changes one field of the spec.
LEMMA EditIs ==
  ASSUME TypeInv, UserEdits
  PROVE  /\ Exists /\ budget.edits > 0 /\ budget' = [budget EXCEPT !.edits = @ - 1]
         /\ api' \in [revert : BOOLEAN, interval : {api.interval, api.interval + 1},
                      finalizer : {api.finalizer}, deleting : {api.deleting},
                      conditions : {api.conditions}, applied : {api.applied},
                      phase : {api.phase}]
         /\ api'.revert = api.revert =>
              api'.interval # api.interval
         /\ "optOut" \notin Edits /\ ~api'.revert => ~api.revert
<1>0. api \in CanaryObjects /\ Exists /\ budget.edits > 0
      /\ budget' = [budget EXCEPT !.edits = @ - 1]
  BY DEF TypeInv, UserEdits, Objects, Exists
<1>1. PICK edit \in Edits : Edited(api, edit) # api /\ api' = Edited(api, edit)
  BY DEF UserEdits
<1>2. CASE edit = "interval"
  BY <1>0, <1>1, <1>2 DEF Edited, CanaryObjects
<1>3. CASE edit = "optIn"
  <2>1. api' = [api EXCEPT !.revert = TRUE] /\ api' # api
    BY <1>1, <1>3 DEF Edited
  <2>2. QED
    BY <1>0, <2>1 DEF CanaryObjects
<1>4. CASE edit = "optOut"
  <2>1. api' = [api EXCEPT !.revert = FALSE] /\ api' # api /\ "optOut" \in Edits
    BY <1>1, <1>4 DEF Edited
  <2>2. QED
    BY <1>0, <2>1 DEF CanaryObjects
<1>5. QED
  BY <1>1, <1>2, <1>3, <1>4, ConstantsAssumption

\* A goroutine as it may be after a step of its tick.
Moved(loop) ==
  {new \in Loops : new.state = loop.state /\ new.interval = loop.interval}

\* A goroutine that moves keeps its state and its interval.
LEMMA MovedIs ==
  ASSUME NEW loop \in Loops, NEW last \in BOOLEAN, NEW pc \in Places,
         NEW cd \in Seen \cup {Absent}
  PROVE  /\ [loop EXCEPT !.pc = pc] \in Moved(loop)
         /\ [loop EXCEPT !.pc = pc, !.cd = cd] \in Moved(loop)
         /\ [loop EXCEPT !.pc = pc, !.cd = cd, !.last = last] \in Moved(loop)
<1>1. [loop EXCEPT !.pc = pc] \in Moved(loop)
  BY DEF Loops, Moved, Places
<1>2. [loop EXCEPT !.pc = pc, !.cd = cd] \in Moved(loop)
  BY DEF Loops, Moved, Places
<1>3. [loop EXCEPT !.pc = pc, !.cd = cd, !.last = last] \in Moved(loop)
  BY DEF Loops, Moved, Places
<1>4. QED
  BY <1>1, <1>2, <1>3

\* What an update of one goroutine's place, copy and last tick leaves.
LEMMA LoopMoves ==
  ASSUME loops \in [Slots -> Loops], NEW l \in Slots, NEW last \in BOOLEAN,
         NEW pc \in Places, NEW cd \in Seen \cup {Absent},
         \/ loops' = [loops EXCEPT ![l].pc = pc]
         \/ loops' = [loops EXCEPT ![l].pc = pc, ![l].cd = cd]
         \/ loops' = [loops EXCEPT ![l].pc = pc, ![l].cd = cd, ![l].last = last]
  PROVE  /\ loops' \in [Slots -> Loops]
         /\ \A m \in Slots : /\ loops'[m].state = loops[m].state
                             /\ loops'[m].interval = loops[m].interval
                             /\ m # l => loops'[m] = loops[m]
<1>1. loops[l] \in Loops
  OBVIOUS
<1>2. \E loop \in Moved(loops[l]) : loops' = [loops EXCEPT ![l] = loop]
  <2>1. [loops EXCEPT ![l].pc = pc] = [loops EXCEPT ![l] = [loops[l] EXCEPT !.pc = pc]]
    OBVIOUS
  <2>2. [loops EXCEPT ![l].pc = pc, ![l].cd = cd]
          = [loops EXCEPT ![l] = [loops[l] EXCEPT !.pc = pc, !.cd = cd]]
    OBVIOUS
  <2>3. [loops EXCEPT ![l].pc = pc, ![l].cd = cd, ![l].last = last]
          = [loops EXCEPT ![l] = [loops[l] EXCEPT !.pc = pc, !.cd = cd, !.last = last]]
    OBVIOUS
  <2>4. QED
    BY <1>1, <2>1, <2>2, <2>3, MovedIs, Zenon
<1>3. QED
  BY <1>1, <1>2 DEF Moved

\* A step of a tick changes where the tick is and what it has read.
LEMMA TickIs ==
  ASSUME TypeInv, NEW l \in Slots, Tick(l) \/ TickStep(l) \/ TickFails(l)
  PROVE  /\ loops' \in [Slots -> Loops]
         /\ \A m \in Slots : /\ loops'[m].state = loops[m].state
                             /\ loops'[m].interval = loops[m].interval
                             /\ m # l => loops'[m] = loops[m]
         /\ loops[l].state # "none"
         /\ UNCHANGED <<cache, control>>
<1>0. /\ loops \in [Slots -> Loops]
      /\ \A m \in Slots : loops[m].state = "none" => loops[m].pc = "wait"
  BY DEF TypeInv
<1>1. CASE Tick(l)
  <2>1. Exists => StatusOf(api) \in Seen
    BY DEF TypeInv, Exists, Objects, CanaryObjects, StatusOf, Seen
  <2>2. /\ loops[l].state # "none"
        /\ UNCHANGED <<cache, control>>
    BY <1>0, <1>1 DEF Tick, LoopAt
  <2>3. \E pc \in {"initialize", "wait"}, cd \in Seen \cup {Absent}, b \in BOOLEAN :
          loops' = [loops EXCEPT ![l].pc = pc, ![l].cd = cd, ![l].last = b]
    BY <1>1, <2>1 DEF Tick
  <2>4. QED
    BY <1>0, <2>2, <2>3, LoopMoves DEF Places
<1>2. ASSUME NEW step \in {"reconcile", "advance", "progressing", "initialized"}
      PROVE  LoopGoto(l, step) => /\ loops' \in [Slots -> Loops]
                                  /\ \A m \in Slots : /\ loops'[m].state = loops[m].state
                                                      /\ loops'[m].interval = loops[m].interval
                                                      /\ m # l => loops'[m] = loops[m]
  BY <1>0, LoopMoves DEF LoopGoto, Places
<1>3. EndTick(l) => /\ loops' \in [Slots -> Loops]
                    /\ \A m \in Slots : /\ loops'[m].state = loops[m].state
                                        /\ loops'[m].interval = loops[m].interval
                                        /\ m # l => loops'[m] = loops[m]
  BY <1>0, LoopMoves DEF EndTick, Places
<1>4. CASE TickStep(l)
  <2>1. CASE CheckCanaryStatus(l)
    BY <1>0, <1>2, <1>3, <2>1, CheckCanaryStatusIs DEF LoopAt
  <2>2. CASE InitializeTarget(l) \/ Reconcile(l) \/ NothingNew(l) \/ Analyse(l) \/ SyncPhase(l)
    BY <1>0, <1>2, <1>3, <2>2 DEF InitializeTarget, Reconcile, NothingNew, Analyse, SyncPhase, LoopAt
  <2>3. QED
    BY <1>4, <2>1, <2>2 DEF TickStep
<1>5. CASE TickFails(l)
  BY <1>0, <1>3, <1>5 DEF TickFails
<1>6. QED
  BY <1>1, <1>4, <1>5

\* A step of a tick writes the status of a canary that is there, or nothing.
LEMMA TickWrites ==
  ASSUME TypeInv, NEW l \in Slots, Tick(l) \/ TickStep(l) \/ TickFails(l)
  PROVE  /\ \/ UNCHANGED api
            \/ Exists /\ \E phase \in {"Initialized", "Progressing"} : SyncStatus(phase)
         /\ target' \in Targets /\ primary' \in Primaries /\ apex' \in Services
         /\ budget' \in Budgets /\ budget'.edits = budget.edits
<1> USE DEF TypeInv, Targets, Primaries, Services, cluster
<1>0. budget \in [edits : Nat, rollouts : Nat, faults : Nat, restarts : Nat]
  BY DEF Budgets
<1>1. CASE Tick(l) \/ InitializeTarget(l) \/ Reconcile(l) \/ NothingNew(l) \/ Analyse(l)
  BY <1>1 DEF Tick, InitializeTarget, Reconcile, NothingNew, Analyse
<1>2. CASE CheckCanaryStatus(l)
  BY <1>0, <1>2, CheckCanaryStatusIs DEF Budgets
<1>3. CASE SyncPhase(l)
  BY <1>3 DEF SyncPhase
<1>4. CASE TickFails(l)
  BY <1>0, <1>4 DEF TickFails, Fails, Budgets
<1>5. QED
  BY <1>1, <1>2, <1>3, <1>4 DEF TickStep

\* The scheduler starts a job in a slot that was free and stops the one in the map.
LEMMA JobStarts ==
  ASSUME TypeInv, ScheduleCanaries, registered # Absent
  PROVE  /\ JobInterval # registered
         /\ job' \in Slots /\ loops[job'].state = "none"
         /\ loops' \in [Slots -> Loops]
         /\ loops'[job'] = Started(registered)
         /\ \A l \in Slots \ {job'} :
              /\ l # job => loops'[l] = loops[l]
              /\ l = job => /\ loops'[l].state = "stopped"
                            /\ loops'[l].interval = loops[l].interval
                            /\ loops'[l].pc = loops[l].pc
<1>0. loops \in [Slots -> Loops] /\ registered \in 0..(1 + MaxEdits)
  BY ConstantsAssumption DEF TypeInv
<1>1. /\ JobInterval # registered /\ job' = FreeSlot
      /\ \E l \in Slots : loops[l].state = "none"
  BY DEF ScheduleCanaries
<1>2. PICK b \in BOOLEAN :
        loops' = [l \in Slots |->
                    CASE l = FreeSlot -> Started(registered)
                      [] l = job      -> Stopped(loops[l], b)
                      [] OTHER        -> loops[l]]
  BY DEF ScheduleCanaries
<1>3. FreeSlot \in Slots /\ loops[FreeSlot].state = "none"
  BY <1>1 DEF FreeSlot
<1>4. Started(registered) \in Loops /\ \A l \in Slots : Stopped(loops[l], b) \in Loops
  BY <1>0 DEF Started, Stopped, Loops, Places
<1>5. \A l \in Slots :
        /\ l = FreeSlot => loops'[l] = Started(registered)
        /\ l # FreeSlot /\ l = job => loops'[l] = Stopped(loops[l], b)
        /\ l # FreeSlot /\ l # job => loops'[l] = loops[l]
  <2>1. FreeSlot # job
    BY <1>3, ConstantsAssumption DEF TypeInv, Slots
  <2>2. QED
    BY <1>2, <2>1
<1>6. \A l \in Slots : /\ Stopped(loops[l], b).state = "stopped"
                       /\ Stopped(loops[l], b).interval = loops[l].interval
                       /\ Stopped(loops[l], b).pc = loops[l].pc
  BY <1>0 DEF Stopped, Loops
<1>7. loops' \in [Slots -> Loops]
  <2>1. \A l \in Slots : loops'[l] \in Loops
    BY <1>0, <1>4, <1>5
  <2>2. QED
    BY <1>2, <2>1
<1>8. QED
  BY <1>1, <1>3, <1>5, <1>6, <1>7

\* It stops the job of a canary that is not registered any more.
LEMMA JobStops ==
  ASSUME TypeInv, ScheduleCanaries, registered = Absent
  PROVE  /\ job \in Slots /\ job' = Absent
         /\ loops' \in [Slots -> Loops]
         /\ \A l \in Slots \ {job} : loops'[l] = loops[l]
         /\ loops'[job].state = "stopped"
         /\ loops'[job].interval = loops[job].interval
         /\ loops'[job].pc = loops[job].pc
<1>0. loops \in [Slots -> Loops] /\ job \in Slots /\ job' = Absent
  BY DEF TypeInv, ScheduleCanaries
<1>1. PICK b \in BOOLEAN : loops' = [loops EXCEPT ![job] = Stopped(@, b)]
  BY DEF ScheduleCanaries
<1>2. /\ Stopped(loops[job], b) \in Loops
      /\ Stopped(loops[job], b).state = "stopped"
      /\ Stopped(loops[job], b).interval = loops[job].interval
      /\ Stopped(loops[job], b).pc = loops[job].pc
  BY <1>0 DEF Stopped, Loops
<1>3. QED
  BY <1>0, <1>1, <1>2

\* The types hold in the beginning.
LEMMA TypeInvInit == Init => TypeInv
<1> SUFFICES ASSUME Init PROVE TypeInv
  OBVIOUS
<1>1. PICK start \in Starts :
        /\ api = start.canary
        /\ target = start.target /\ primary = start.primary /\ apex = start.apex
        /\ budget = start.budget
  BY DEF Init
<1>2. /\ start \in [canary : CanaryObjects, target : Targets, primary : Primaries,
                    apex : Services, budget : Budgets]
      /\ start.canary.interval + start.budget.edits <= 1 + MaxEdits
  BY StartsAssumption
<1>3. NoLoop \in Loops /\ NoLoop.pc = "wait"
  BY ConstantsAssumption DEF NoLoop, Loops, Places
<1>4. Idle \in [pc : Steps, cd : Objects] /\ Idle.pc = "idle"
  BY DEF Idle, Steps, Objects
<1>5. QED
  BY <1>1, <1>2, <1>3, <1>4 DEF Init, TypeInv, Objects, Holding

\* Every step keeps the types.
LEMMA TypeInvNext == TypeInv /\ [Next]_vars => TypeInv'
<1> SUFFICES ASSUME TypeInv, [Next]_vars PROVE TypeInv'
  OBVIOUS
<1>0. /\ api \in Objects /\ cache \in Objects /\ (Exists => api \in CanaryObjects)
      /\ cache # Absent => cache \in CanaryObjects
      /\ sync \in [pc : Steps, cd : Objects]
      /\ sync.pc \in Holding => sync.cd \in CanaryObjects
      /\ loops \in [Slots -> Loops] /\ budget \in Budgets
  BY DEF TypeInv, Objects, Exists
<1>e. budget.edits \in Nat /\ \A cd \in CanaryObjects : cd.interval \in 1 .. (1 + MaxEdits)
  BY <1>0 DEF Budgets, CanaryObjects
<1>i. Idle \in [pc : Steps, cd : Objects] /\ Idle.pc = "idle"
  BY DEF Idle, Steps, Objects
<1>g. \A step \in Steps : Goto(step) =>
        /\ sync' \in [pc : Steps, cd : Objects]
        /\ sync'.pc = step /\ sync'.cd = sync.cd
  BY <1>0 DEF Goto
<1>f. Fails => budget' \in Budgets /\ budget'.edits = budget.edits
  BY <1>0 DEF Fails, Budgets
<1>s. \A cd \in CanaryObjects : StoreAndGo(cd) =>
        /\ sync' \in [pc : Steps, cd : Objects] /\ (sync'.pc \in Holding => sync'.cd # Absent)
        /\ registered' \in 1 .. (1 + MaxEdits) \cup {Absent}
  <2>1. TAKE cd \in CanaryObjects
  <2>2. HAVE StoreAndGo(cd)
  <2>3. registered' = cd.interval /\ cd.interval \in 1 .. (1 + MaxEdits)
    BY <2>2 DEF StoreAndGo, CanaryObjects
  <2>4. QED
    <3>1. cd # Absent => [pc |-> "addFinalizer", cd |-> cd] \in [pc : Steps, cd : Objects]
      BY DEF Objects, Steps
    <3>2. cd # Absent
      BY ConstantsAssumption
    <3>3. QED
      BY <1>i, <2>2, <2>3, <3>1, <3>2 DEF StoreAndGo, Holding
<1> USE DEF TypeInv, Holding, Exists
<1>1. CASE Deliver
  BY <1>1, DeliverIs DEF cluster
<1>2. CASE Resync
  BY <1>2 DEF Resync, cluster
<1>3. CASE OptOut
  <2>1. api' = api \/ (Exists /\ RemoveFinalizer)
    BY <1>3 DEF OptOut
  <2>2. /\ optingOut' = FALSE /\ UNCHANGED <<cache, queued, sync, registered, job, loops, cluster>>
        /\ budget' \in Budgets /\ budget'.edits = budget.edits
    BY <1>3, <1>f DEF OptOut
  <2>3. QED
    BY <1>0, <2>1, <2>2, FinalizerRemoved DEF cluster, Objects
<1>4. CASE SyncHandler
  <2>1. ASSUME NEW step \in {"terminating", "initializing"}, cache # Absent
        PROVE  [pc |-> step, cd |-> cache] \in [pc : Steps, cd : Objects]
    BY <1>0 DEF Steps
  <2>2. QED
    BY <1>0, <1>4, <1>i, <1>s, <2>1, SyncHandlerIs DEF cluster
<1>5. CASE SetPhaseInitializing
  <2>1. sync.cd \in CanaryObjects /\ StoreAndGo(sync.cd) /\ Exists /\ SetPhase("Initializing")
    BY <1>0, <1>5 DEF SetPhaseInitializing, At
  <2>2. api' \in CanaryObjects /\ api'.interval = api.interval
    BY <1>0, <2>1, StatusWritten DEF Phases
  <2>3. QED
    BY <1>5, <1>s, <2>1, <2>2 DEF SetPhaseInitializing, cluster, Objects
<1>6. CASE AddFinalizer
  <2>1. api' \in CanaryObjects /\ api'.interval = api.interval
    BY <1>0, <1>6 DEF AddFinalizer, CanaryObjects
  <2>2. QED
    BY <1>6, <1>i, <2>1 DEF AddFinalizer, Return, cluster, Objects
<1>7. CASE Terminate
  <2>1. api' = api \/ SetPhase("Terminating")
    BY <1>7 DEF Terminate
  <2>2. api' \in CanaryObjects /\ api'.interval = api.interval
    BY <1>0, <1>7, <2>1, StatusWritten DEF Terminate, Phases
  <2>3. QED
    BY <1>7, <1>g, <2>2 DEF Terminate, At, cluster, Objects, Steps
<1>8. CASE RevertTarget \/ CheckTarget \/ RevertService
  BY <1>8, <1>g, <1>i DEF RevertTarget, CheckTarget, RevertService, At, Return, cluster, Steps,
     Targets, Services
<1>9. CASE FinishFinalize
  BY <1>0, <1>9, <1>i, FinalizerRemoved DEF FinishFinalize, Return, cluster, Objects
<1>10. CASE SyncFails
  BY <1>10, <1>f, <1>i DEF SyncFails, Return, cluster
<1>11. CASE ScheduleCanaries
  <2>1. UNCHANGED <<api, cache, queued, optingOut, sync, registered, cluster, budget>>
    BY <1>11 DEF ScheduleCanaries
  <2>2. CASE registered # Absent
    BY <1>11, <2>1, <2>2, JobStarts DEF Started, cluster
  <2>3. CASE registered = Absent
    BY <1>11, <2>1, <2>3, JobStops DEF cluster
  <2>4. QED
    BY <2>2, <2>3
<1>12. ASSUME NEW l \in Slots, LoopReturns(l)
       PROVE  TypeInv'
  <2>1. NoLoop \in Loops /\ NoLoop.pc = "wait"
    BY ConstantsAssumption DEF NoLoop, Loops, Places
  <2>2. QED
    BY <1>0, <1>12, <2>1 DEF LoopReturns, control, cluster
<1>13. ASSUME NEW l \in Slots, Tick(l) \/ TickStep(l) \/ TickFails(l)
       PROVE  TypeInv'
  <2>1. api' \in Objects /\ (api' # Absent => Exists /\ api'.interval = api.interval)
    BY <1>0, <1>13, TickWrites, StatusWritten DEF Phases, Objects
  <2>2. QED
    BY <1>13, <2>1, TickIs, TickWrites DEF control
<1>14. CASE TargetStarts \/ PrimaryStarts
  BY <1>14 DEF TargetStarts, PrimaryStarts, control, Targets, Primaries
<1>15. CASE UserEdits
  <2>1. budget' \in Budgets /\ budget'.edits = budget.edits - 1 /\ budget.edits > 0
    BY <1>0, <1>15 DEF UserEdits, Budgets
  <2>2. /\ api' \in [revert : BOOLEAN, interval : {api.interval, api.interval + 1},
                     finalizer : {api.finalizer}, deleting : {api.deleting},
                     conditions : {api.conditions}, applied : {api.applied},
                     phase : {api.phase}]
        /\ Exists
    BY <1>15, EditIs
  <2>3. /\ api'.interval \in {api.interval, api.interval + 1}
        /\ api'.interval + budget'.edits <= 1 + MaxEdits
    BY <1>e, <1>0, <2>1, <2>2, ConstantsAssumption
  <2>4. api'.interval \in 1 .. (1 + MaxEdits)
    BY <1>e, <1>0, <2>1, <2>2, <2>3, ConstantsAssumption
  <2>5. api' \in CanaryObjects
    BY <1>0, <2>2, <2>4 DEF CanaryObjects
  <2>6. QED
    BY <1>15, <2>1, <2>3, <2>5 DEF UserEdits, control, cluster, Objects
<1>16. CASE UserDeletes
  <2>1. [api EXCEPT !.deleting = TRUE] \in CanaryObjects
        /\ [api EXCEPT !.deleting = TRUE].interval = api.interval
    BY <1>0, <1>16 DEF UserDeletes, CanaryObjects
  <2>2. api' = [api EXCEPT !.deleting = TRUE] \/ api' = Absent
    BY <1>16 DEF UserDeletes
  <2>3. QED
    BY <1>0, <1>16, <2>1, <2>2 DEF UserDeletes, control, cluster, Objects
<1>17. CASE Restart
  <2>1. NoLoop \in Loops /\ NoLoop.pc = "wait"
    BY ConstantsAssumption DEF NoLoop, Loops, Places
  <2>2. budget' \in Budgets /\ budget'.edits = budget.edits
    BY <1>0, <1>17 DEF Restart, Budgets
  <2>3. QED
    BY <1>17, <1>i, <2>1, <2>2 DEF Restart, cluster, Objects
<1>18. CASE UNCHANGED vars
  BY <1>18 DEF vars, control, cluster
<1>19. QED
  BY <1>1, <1>2, <1>3, <1>4, <1>5, <1>6, <1>7, <1>8, <1>9, <1>10, <1>11, <1>12, <1>13,
     <1>14, <1>15, <1>16, <1>17, <1>18 DEF Next, Worker

\* The worker, the jobs and the Canary keep their types; an interval never has
\* more edits than the user makes.
THEOREM TypeCorrect == Spec => []TypeOK
BY TypeInvInit, TypeInvNext, TypeInvIsTypeOK, PTL DEF Spec

-----------------------------------------------------------------------------
(* The jobs. *)

Live(l) == loops[l].state # "none"

\* The interval the worker registers was seen in the order of the edits, and
\* nothing is registered for a canary the informer has not seen.
IntervalsInv ==
  /\ cache # Absent /\ Exists => cache.interval <= api.interval
  /\ registered # Absent => cache # Absent /\ registered <= cache.interval
  /\ sync.pc = "initializing" =>
       /\ Exists => cache # Absent
       /\ cache # Absent => sync.cd.interval <= cache.interval
       /\ registered # Absent => registered <= sync.cd.interval

\* The job in the map is the one that runs, and the latest; none is left when
\* nothing is registered, but for a canary that is gone.
JobsInv ==
  /\ \A l \in Slots : loops[l].state = "running" => l = job
  /\ \A l, m \in Slots :
       l # m /\ Live(l) /\ Live(m) => loops[l].interval # loops[m].interval
  /\ \A l \in Slots : Live(l) =>
       /\ registered # Absent => job # Absent /\ loops[l].interval <= registered
       /\ registered = Absent => api = Absent /\ cache = Absent
       /\ job # Absent => loops[l].interval <= loops[job].interval

\* A Canary that is there comes from the one before, with its interval or a
\* later one.
LEMMA IntervalGrows ==
  ASSUME TypeInv, [Next]_vars, Exists'
  PROVE  /\ Exists
         /\ api.interval \in Nat /\ api'.interval \in Nat
         /\ api.interval <= api'.interval
<1>0. api \in Objects /\ (Exists => api \in CanaryObjects)
  BY DEF TypeInv, Objects, Exists
<1>1. UNCHANGED api => Exists /\ api'.interval = api.interval
  BY DEF Exists
<1>2. ASSUME NEW phase \in Phases, Exists, SetPhase(phase) \/ SyncStatus(phase)
      PROVE  api'.interval = api.interval
  BY <1>0, <1>2, StatusWritten
<1>3. Exists /\ RemoveFinalizer => api'.interval = api.interval
  BY <1>0, FinalizerRemoved DEF Exists
<1>4. Exists /\ (api'.interval = api.interval \/ api'.interval = api.interval + 1)
  <2>1. CASE Deliver \/ Resync \/ RevertTarget \/ CheckTarget \/ RevertService \/ SyncFails
             \/ SyncHandler \/ ScheduleCanaries \/ TargetStarts \/ PrimaryStarts \/ Restart
             \/ UNCHANGED vars
    BY <1>1, <2>1, SyncHandlerIs DEF Deliver, Resync, RevertTarget, CheckTarget, RevertService,
       SyncFails, ScheduleCanaries, TargetStarts, PrimaryStarts, Restart, vars
  <2>2. CASE OptOut \/ FinishFinalize
    BY <1>1, <1>3, <2>2 DEF OptOut, FinishFinalize
  <2>3. CASE SetPhaseInitializing \/ Terminate
    BY <1>1, <1>2, <2>3 DEF SetPhaseInitializing, Terminate, Phases
  <2>4. CASE AddFinalizer
    BY <1>0, <2>4 DEF AddFinalizer, CanaryObjects
  <2>5. CASE UserEdits
    BY <2>5, EditIs
  <2>6. CASE UserDeletes
    BY <1>0, <2>6 DEF UserDeletes, Exists, CanaryObjects
  <2>7. ASSUME NEW l \in Slots, LoopReturns(l)
        PROVE  Exists /\ api'.interval = api.interval
    BY <1>1, <2>7 DEF LoopReturns
  <2>8. ASSUME NEW l \in Slots, Tick(l) \/ TickStep(l) \/ TickFails(l)
        PROVE  Exists /\ api'.interval = api.interval
    BY <1>1, <1>2, <2>8, TickWrites DEF Phases
  <2>9. QED
    BY <2>1, <2>2, <2>3, <2>4, <2>5, <2>6, <2>7, <2>8 DEF Next, Worker
<1>5. api.interval \in 1 .. (1 + MaxEdits)
  BY <1>0, <1>4 DEF CanaryObjects
<1>6. QED
  BY <1>4, <1>5, ConstantsAssumption

\* What the worker holds and registers, and what the informer has seen, changes
\* in these ways.
LEMMA SeenChanges ==
  ASSUME TypeInv, [Next]_vars
  PROVE  \/ Deliver
         \/ SyncHandler
         \/ SetPhaseInitializing
         \/ Restart
         \/ UNCHANGED <<cache, registered>> /\ (sync' = sync \/ sync'.pc # "initializing")
<1> USE DEF control
<1>1. CASE Resync \/ OptOut \/ ScheduleCanaries \/ TargetStarts \/ PrimaryStarts
           \/ UserEdits \/ UserDeletes \/ UNCHANGED vars
  BY <1>1 DEF Resync, OptOut, ScheduleCanaries, TargetStarts, PrimaryStarts, UserEdits,
     UserDeletes, vars
<1>2. ASSUME NEW step \in Steps, Goto(step)
      PROVE  sync'.pc = step
  BY <1>2 DEF Goto, TypeInv
<1>3. CASE AddFinalizer \/ Terminate \/ RevertTarget \/ CheckTarget \/ RevertService
           \/ FinishFinalize \/ SyncFails
  BY <1>2, <1>3 DEF AddFinalizer, Terminate, RevertTarget, CheckTarget, RevertService,
     FinishFinalize, SyncFails, Return, Idle, Steps
<1>4. ASSUME NEW l \in Slots, LoopReturns(l) \/ Tick(l) \/ TickStep(l) \/ TickFails(l)
      PROVE  UNCHANGED <<cache, registered, sync>>
  BY <1>4, TickIs DEF LoopReturns
<1>5. QED
  BY <1>1, <1>3, <1>4 DEF Next, Worker

\* Every step keeps the order of the intervals.
LEMMA IntervalsInvNext == TypeInv /\ IntervalsInv /\ [Next]_vars => IntervalsInv'
<1> SUFFICES ASSUME TypeInv, IntervalsInv, [Next]_vars PROVE IntervalsInv'
  OBVIOUS
<1>0. /\ Exists => api.interval \in Nat
      /\ cache # Absent => cache.interval \in Nat
      /\ sync.pc = "initializing" => sync.cd \in CanaryObjects /\ sync.cd.interval \in Nat
      /\ registered # Absent => registered \in Nat
  BY ConstantsAssumption DEF TypeInv, Objects, Holding, Steps, CanaryObjects, Exists
<1>1. Exists' => Exists /\ api'.interval \in Nat /\ api.interval <= api'.interval
  BY IntervalGrows
<1>2. CASE Deliver
  <2>1. api' = api /\ sync' = sync /\ cache' = api
    BY <1>2, DeliverIs
  <2>2. CASE cache = Absent
    BY <1>0, <1>2, <2>1, <2>2, DeliverIs DEF IntervalsInv, Exists
  <2>3. CASE cache # Absent /\ ~Exists
    BY <1>0, <1>2, <2>1, <2>3, DeliverIs DEF IntervalsInv, Exists
  <2>4. CASE cache # Absent /\ Exists
    BY <1>0, <1>2, <2>1, <2>4, DeliverIs DEF IntervalsInv, Exists
  <2>5. QED
    BY <2>2, <2>3, <2>4
<1>3. CASE SyncHandler
  BY <1>0, <1>3, SyncHandlerIs DEF IntervalsInv, StoreAndGo, Idle, Exists
<1>4. CASE SetPhaseInitializing
  <2>1. /\ sync.pc = "initializing" /\ Exists /\ cache' = cache
        /\ registered' = sync.cd.interval /\ sync'.pc # "initializing"
    BY <1>4 DEF SetPhaseInitializing, At, StoreAndGo, Idle
  <2>2. QED
    BY <1>0, <1>1, <2>1 DEF IntervalsInv
<1>5. CASE Restart
  BY <1>5 DEF Restart, IntervalsInv, Idle
<1>6. CASE UNCHANGED <<cache, registered>> /\ (sync' = sync \/ sync'.pc # "initializing")
  BY <1>0, <1>1, <1>6 DEF IntervalsInv
<1>7. QED
  BY <1>2, <1>3, <1>4, <1>5, <1>6, SeenChanges

\* A canary that is registered stays so until it is gone, with its interval or a
\* later one.
LEMMA RegisteredGrows ==
  ASSUME TypeInv, IntervalsInv, [Next]_vars, ~Restart
  PROVE  /\ registered' = Absent =>
              registered = Absent \/ (api' = Absent /\ cache' = Absent)
         /\ registered' # Absent =>
              /\ registered = Absent => Exists \/ cache # Absent
              /\ registered # Absent => registered <= registered'
              /\ registered' \in Nat
<1>0. /\ cache # Absent => cache.interval \in 1 .. (1 + MaxEdits)
      /\ sync.pc = "initializing" => sync.cd.interval \in 1 .. (1 + MaxEdits)
      /\ registered # Absent => registered \in 1 .. (1 + MaxEdits)
  BY ConstantsAssumption DEF TypeInv, Objects, Holding, Steps, CanaryObjects
<1>1. Absent \notin Nat /\ 1 .. (1 + MaxEdits) \subseteq Nat
  BY ConstantsAssumption
<1>2. CASE Deliver
  <2>1. UNCHANGED registered \/ (registered' = Absent /\ api' = Absent /\ cache' = Absent)
    BY <1>2, DeliverIs DEF Exists
  <2>2. QED
    BY <1>0, <1>1, <2>1 DEF IntervalsInv
<1>3. CASE SyncHandler
  BY <1>0, <1>1, <1>3, SyncHandlerIs DEF IntervalsInv, StoreAndGo
<1>4. CASE SetPhaseInitializing
  BY <1>0, <1>1, <1>4 DEF SetPhaseInitializing, At, IntervalsInv, StoreAndGo
<1>5. CASE UNCHANGED <<cache, registered>>
  BY <1>0, <1>1, <1>5 DEF IntervalsInv
<1>6. QED
  BY <1>2, <1>3, <1>4, <1>5, SeenChanges

\* Every step keeps the jobs apart.
LEMMA JobsInvNext == TypeInv /\ IntervalsInv /\ JobsInv /\ [Next]_vars => JobsInv'
<1> SUFFICES ASSUME TypeInv, IntervalsInv, JobsInv, [Next]_vars PROVE JobsInv'
  OBVIOUS
<1>0. /\ loops \in [Slots -> Loops]
      /\ \A l \in Slots : loops[l].interval \in Nat
      /\ registered # Absent => registered \in Nat
      /\ job # Absent => job \in Slots
  BY ConstantsAssumption DEF TypeInv, Loops
<1>1. api' = Absent \/ Exists
  BY IntervalGrows DEF Exists
<1>2. CASE Restart
  BY <1>2 DEF Restart, JobsInv, Live, NoLoop, TypeInv
<1>3. ASSUME ~Restart, job' = job,
             \A l \in Slots : /\ loops'[l].state = loops[l].state
                              /\ loops'[l].interval = loops[l].interval
      PROVE  JobsInv'
  <2>1. \A l \in Slots : Live(l)' = Live(l)
    BY <1>3 DEF Live
  <2>2. ASSUME NEW l \in Slots, Live(l), registered' # Absent
        PROVE  job # Absent /\ loops[l].interval <= registered'
    BY <1>0, <1>3, <2>2, RegisteredGrows DEF JobsInv, Exists
  <2>3. ASSUME NEW l \in Slots, Live(l), registered' = Absent
        PROVE  api' = Absent /\ cache' = Absent
    <3>1. CASE registered # Absent
      BY <1>3, <2>3, <3>1, RegisteredGrows
    <3>2. CASE registered = Absent
      <4>1. api = Absent /\ cache = Absent
        BY <2>3, <3>2 DEF JobsInv
      <4>2. cache' = Absent
        BY <4>1, <1>3, SeenChanges, DeliverIs, SyncHandlerIs DEF SetPhaseInitializing, Exists
      <4>3. QED
        BY <1>1, <4>1, <4>2 DEF Exists
    <3>3. QED
      BY <3>1, <3>2
  <2>4. QED
    BY <1>3, <2>1, <2>2, <2>3 DEF JobsInv, TypeInv
<1>4. CASE Deliver \/ Resync \/ OptOut \/ Worker \/ TargetStarts \/ PrimaryStarts
           \/ UserEdits \/ UserDeletes \/ UNCHANGED vars
  <2>1. UNCHANGED <<job, loops>>
    BY <1>4, DeliverIs, SyncHandlerIs DEF Resync, OptOut, Worker, SetPhaseInitializing,
       AddFinalizer, Terminate, RevertTarget, CheckTarget, RevertService, FinishFinalize,
       SyncFails, TargetStarts, PrimaryStarts, UserEdits, UserDeletes, vars, control
  <2>2. QED
    BY <1>2, <1>3, <2>1
<1>5. ASSUME NEW l \in Slots, Tick(l) \/ TickStep(l) \/ TickFails(l)
      PROVE  JobsInv'
  BY <1>2, <1>3, <1>5, TickIs DEF control
<1>6. ASSUME NEW l \in Slots, LoopReturns(l)
      PROVE  JobsInv'
  <2>1. /\ UNCHANGED <<api, cache, registered, job>>
        /\ loops' = [loops EXCEPT ![l] = NoLoop] /\ loops[l].state = "stopped"
    BY <1>6 DEF LoopReturns, control
  <2>2. job # l
    BY <1>0, <2>1, ConstantsAssumption DEF TypeInv, Slots
  <2>3. \A m \in Slots : IF m = l THEN ~Live(m)' /\ loops'[m].state # "running"
                         ELSE loops'[m] = loops[m] /\ Live(m)' = Live(m)
    BY <1>0, <2>1 DEF Live, NoLoop
  <2>4. QED
    BY <1>0, <2>1, <2>2, <2>3 DEF JobsInv
<1>7. CASE ScheduleCanaries /\ registered = Absent
  <2>1. UNCHANGED <<api, cache, registered>>
    BY <1>7 DEF ScheduleCanaries
  <2>2. \A l \in Slots : /\ loops'[l].interval = loops[l].interval
                         /\ Live(l)' => Live(l)
                         /\ loops'[l].state # "running"
    <3>1. job \in Slots /\ loops[job].state = "running"
      BY <1>7, JobStops, ConstantsAssumption DEF TypeInv, Slots
    <3>2. \A l \in Slots : l # job => loops'[l] = loops[l] /\ loops[l].state # "running"
      BY <1>7, JobStops DEF JobsInv
    <3>3. QED
      BY <1>7, <3>1, <3>2, JobStops DEF Live
  <2>3. QED
    BY <1>7, <2>1, <2>2, JobStops DEF JobsInv
<1>8. CASE ScheduleCanaries /\ registered # Absent
  <2>1. UNCHANGED <<api, cache, registered>>
    BY <1>8 DEF ScheduleCanaries
  <2>2. /\ job' \in Slots /\ job' # Absent
        /\ loops'[job'].state = "running" /\ loops'[job'].interval = registered
    BY <1>8, JobStarts, ConstantsAssumption DEF Started, Slots
  <2>3. \A l \in Slots \ {job'} : /\ loops'[l].interval = loops[l].interval
                                  /\ Live(l)' => Live(l)
                                  /\ loops'[l].state # "running"
    <3>1. \A l \in Slots \ {job'} : l # job => loops'[l] = loops[l] /\ loops[l].state # "running"
      BY <1>8, JobStarts DEF JobsInv
    <3>2. \A l \in Slots \ {job'} : l = job => loops[l].state = "running"
      BY ConstantsAssumption DEF TypeInv, Slots
    <3>3. QED
      BY <1>8, <3>1, <3>2, JobStarts DEF Live
  <2>4. ASSUME NEW l \in Slots, Live(l)
        PROVE  loops[l].interval < registered
    <3>1. /\ job # Absent /\ job \in Slots
          /\ loops[l].interval <= loops[job].interval
          /\ loops[job].interval <= registered
      BY <1>0, <1>8, <2>4 DEF JobsInv, Live, TypeInv
    <3>2. loops[job].interval # registered
      BY <1>8, <3>1, JobStarts DEF JobInterval
    <3>3. QED
      BY <1>0, <1>8, <3>1, <3>2
  <2>5. \A l \in Slots \ {job'} : Live(l)' => loops'[l].interval < registered
    BY <2>3, <2>4
  <2>6. \A l \in Slots : loops'[l].interval \in Nat
    BY <1>0, <1>8, <2>2, <2>3
  <2>7. \A l \in Slots : loops'[l].state = "running" => l = job'
    BY <2>3
  <2>8. \A l, m \in Slots :
          l # m /\ Live(l)' /\ Live(m)' => loops'[l].interval # loops'[m].interval
    BY <1>0, <1>8, <2>2, <2>3, <2>5 DEF JobsInv
  <2>9. \A l \in Slots : Live(l)' => loops'[l].interval <= registered
    BY <1>0, <1>8, <2>2, <2>5, <2>6
  <2>10. QED
    BY <1>8, <2>1, <2>2, <2>7, <2>8, <2>9 DEF JobsInv
<1>9. QED
  BY <1>2, <1>4, <1>5, <1>6, <1>7, <1>8 DEF Next

\* Nothing is running in the beginning.
LEMMA JobsInvInit == Init => IntervalsInv /\ JobsInv
BY DEF Init, IntervalsInv, JobsInv, Idle, Live, NoLoop

\* Two ticks of one canary run together only when its interval was edited, and
\* one of them is then the last of a job that has been stopped.
THEOREM TicksApart == Spec => []TicksDoNotOverlap
<1>1. TypeInv /\ JobsInv => TicksDoNotOverlap
  <2>1. SUFFICES ASSUME TypeInv, JobsInv, NEW l \in Slots, NEW m \in Slots,
                        l # m, InTick(l), InTick(m)
                 PROVE  /\ loops[l].interval # loops[m].interval
                        /\ "stopped" \in {loops[l].state, loops[m].state}
    BY DEF TicksDoNotOverlap
  <2>2. Live(l) /\ Live(m)
    BY <2>1 DEF TypeInv, InTick, Live
  <2>3. {loops[l].state, loops[m].state} \subseteq {"running", "stopped"}
    <3>1. loops[l] \in Loops /\ loops[m] \in Loops
      BY <2>1 DEF TypeInv
    <3>2. QED
      BY <2>2, <3>1 DEF Loops, Live
  <2>4. QED
    BY <2>1, <2>2, <2>3 DEF JobsInv
<1>2. QED
  BY <1>1, TypeInvInit, TypeInvNext, JobsInvInit, IntervalsInvNext, JobsInvNext, PTL DEF Spec

-----------------------------------------------------------------------------
(* The worker. *)

\* What finalize has done is still done, when there are no jobs.
RevertInv ==
  Exists /\ (\A l \in Slots : ~Live(l)) =>
    /\ sync.pc = "checkTarget" => target # "zero"
    /\ sync.pc \in {"revertService", "removeFinalizer"} => target = "up"
    /\ sync.pc = "removeFinalizer" => apex # "primary"

\* No goroutine is there after a step, for a canary that is there, only when
\* none was there before it or the operator restarted.
LEMMA JobsStay ==
  ASSUME TypeInv, JobsInv, [Next]_vars, ~Restart, Exists', \A l \in Slots : ~Live(l)'
  PROVE  /\ \A l \in Slots : ~Live(l)
         /\ \/ Deliver \/ Resync \/ OptOut \/ Worker \/ TargetStarts \/ PrimaryStarts
            \/ UserEdits \/ UserDeletes \/ UNCHANGED vars
<1>0. Exists /\ loops \in [Slots -> Loops]
  BY IntervalGrows DEF TypeInv
<1>1. ASSUME NEW l \in Slots, Tick(l) \/ TickStep(l) \/ TickFails(l)
      PROVE  FALSE
  BY <1>1, TickIs DEF Live
<1>2. ASSUME NEW l \in Slots, LoopReturns(l)
      PROVE  FALSE
  <2>1. Live(l) /\ loops' = [loops EXCEPT ![l] = NoLoop] /\ loops[l].state = "stopped"
    BY <1>2 DEF LoopReturns, LoopAt, Live
  <2>2. job # Absent /\ job \in Slots /\ loops[job].state = "running"
    BY <1>0, <2>1 DEF JobsInv, TypeInv, Exists
  <2>3. loops'[job] = loops[job]
    BY <1>0, <2>1, <2>2
  <2>4. QED
    BY <2>2, <2>3 DEF Live
<1>3. CASE ScheduleCanaries
  <2>1. CASE registered # Absent
    BY <1>3, <2>1, JobStarts DEF Live, Started
  <2>2. CASE registered = Absent
    BY <1>3, <2>2, JobStops DEF Live
  <2>3. QED
    BY <2>1, <2>2
<1>4. CASE Deliver \/ Resync \/ OptOut \/ Worker \/ TargetStarts \/ PrimaryStarts
           \/ UserEdits \/ UserDeletes \/ UNCHANGED vars
  <2>1. loops' = loops
    BY <1>4, DeliverIs, SyncHandlerIs DEF Resync, OptOut, Worker, SetPhaseInitializing,
       AddFinalizer, Terminate, RevertTarget, CheckTarget, RevertService, FinishFinalize,
       SyncFails, TargetStarts, PrimaryStarts, UserEdits, UserDeletes, vars
  <2>2. QED
    BY <1>4, <2>1 DEF Live
<1>5. QED
  BY <1>1, <1>2, <1>3, <1>4 DEF Next

\* Nothing undoes what finalize has done.
LEMMA RevertInvNext == TypeInv /\ JobsInv /\ RevertInv /\ [Next]_vars => RevertInv'
<1> SUFFICES ASSUME TypeInv, JobsInv, RevertInv, [Next]_vars,
                    Exists', \A l \in Slots : ~Live(l)'
             PROVE  /\ sync'.pc = "checkTarget" => target' # "zero"
                    /\ sync'.pc \in {"revertService", "removeFinalizer"} => target' = "up"
                    /\ sync'.pc = "removeFinalizer" => apex' # "primary"
  BY DEF RevertInv
<1>1. CASE Restart
  BY <1>1 DEF Restart, Idle
<1>2. CASE ~Restart
  <2>0. /\ Exists /\ \A l \in Slots : ~Live(l)
        /\ sync \in [pc : Steps, cd : Objects] /\ target \in Targets
    BY <1>2, JobsStay, IntervalGrows DEF TypeInv
  <2>1. CASE Deliver \/ Resync \/ OptOut \/ UserEdits \/ UserDeletes \/ UNCHANGED vars
    <3>1. UNCHANGED <<sync, target, apex>>
      BY <2>1, DeliverIs DEF Resync, OptOut, UserEdits, UserDeletes, vars, control, cluster
    <3>2. QED
      BY <2>0, <3>1 DEF RevertInv
  <2>2. CASE SyncHandler
    BY <2>0, <2>2, SyncHandlerIs DEF RevertInv, StoreAndGo, Idle, cluster
  <2>3. CASE SetPhaseInitializing \/ AddFinalizer \/ FinishFinalize \/ SyncFails
    BY <2>0, <2>3 DEF SetPhaseInitializing, AddFinalizer, FinishFinalize, SyncFails,
       StoreAndGo, Return, Idle
  <2>4. ASSUME NEW step \in Steps, Goto(step)
        PROVE  sync'.pc = step
    BY <2>0, <2>4 DEF Goto
  <2>5. CASE Terminate \/ RevertTarget \/ CheckTarget \/ RevertService
    <3>1. CASE Terminate
      BY <2>4, <3>1 DEF Terminate, Steps
    <3>2. CASE RevertTarget
      BY <2>4, <3>2 DEF RevertTarget, Steps
    <3>3. CASE CheckTarget
      <4>1. target # "zero" /\ target' = target /\ target' \in Targets
        BY <2>0, <3>3 DEF CheckTarget, RevertInv, At, cluster
      <4>2. sync'.pc = "idle" \/ (sync'.pc = "revertService" /\ target # "starting")
        BY <2>4, <3>3 DEF CheckTarget, Return, Idle, Steps
      <4>3. QED
        BY <4>1, <4>2 DEF Targets
    <3>4. CASE RevertService
      <4>1. target = "up" /\ target' = target
        BY <2>0, <3>4 DEF RevertService, RevertInv, At
      <4>2. sync'.pc = "idle" \/ (sync'.pc = "removeFinalizer" /\ apex' # "primary")
        BY <2>4, <3>4 DEF RevertService, Return, Idle, Steps
      <4>3. QED
        BY <4>1, <4>2
    <3>5. QED
      BY <2>5, <3>1, <3>2, <3>3, <3>4
  <2>6. CASE TargetStarts \/ PrimaryStarts
    BY <2>0, <2>6 DEF TargetStarts, PrimaryStarts, control, RevertInv
  <2>7. QED
    BY <1>2, <2>1, <2>2, <2>3, <2>5, <2>6, JobsStay DEF Worker
<1>3. QED
  BY <1>1, <1>2

\* When the worker lets a canary go and no job was there to undo what finalize
\* had done, its target runs and the user's service selects it.
THEOREM LetGoReverted == Spec => RevertHoldsWithoutTicks
<1>1. Init => RevertInv
  BY DEF Init, RevertInv, Idle
<1>2. TypeInv /\ RevertInv /\ [Next]_vars =>
        [FinishFinalize /\ (\A l \in Slots : loops[l].state = "none")
           => target = "up" /\ apex # "primary"]_vars
  BY DEF RevertInv, FinishFinalize, At, Live
<1>3. QED
  BY <1>1, <1>2, TypeInvInit, TypeInvNext, JobsInvInit, IntervalsInvNext, JobsInvNext,
     RevertInvNext, PTL DEF Spec, RevertHoldsWithoutTicks

\* The operator has neither registered the canary nor any goroutine for it.
NoJobs == registered = Absent /\ \A l \in Slots : ~Live(l)

\* A canary that does not ask for a revert and whose interval nobody edited.
Untouched == Exists /\ ~api.revert /\ api.interval = 1

\* It is put into its first phase once, before there is any job.
FirstInv ==
  Untouched =>
    /\ ~optingOut /\ sync.pc \in {"idle", "initializing"}
    /\ api.finalizer \/ ~Early(api.phase) => api.conditions
    /\ cache = Absent => sync.pc = "idle" /\ ~queued
    /\ cache # Absent =>
         /\ ~cache.revert /\ cache.interval = 1
         /\ cache.finalizer => cache.conditions
         /\ ~api.conditions => cache = api
    /\ sync.pc = "initializing" =>
         ~api.conditions /\ ~queued /\ NoJobs /\ ~sync.cd.revert
    /\ queued /\ ~cache.conditions => ~api.conditions /\ NoJobs

\* Only the user takes the revert back.
LEMMA RevertStays ==
  ASSUME TypeInv, "optOut" \notin Edits, [Next]_vars, Exists'
  PROVE  /\ ~api'.revert => ~api.revert
         /\ ~api'.revert /\ UserEdits => api'.interval = api.interval + 1
<1>0. api \in CanaryObjects
  BY IntervalGrows DEF TypeInv, Objects, Exists
<1>1. ASSUME NEW phase \in Phases, SetPhase(phase) \/ SyncStatus(phase)
      PROVE  api'.revert = api.revert
  BY <1>0, <1>1, StatusWritten
<1>2. RemoveFinalizer => api'.revert = api.revert
  BY <1>0, FinalizerRemoved DEF Exists
<1>3. CASE UserEdits
  <2>1. api.revert \in BOOLEAN /\ api'.revert \in BOOLEAN
        /\ api'.interval \in {api.interval, api.interval + 1}
    BY <1>0, <1>3, EditIs DEF CanaryObjects
  <2>2. /\ api'.revert = api.revert => api'.interval # api.interval
        /\ ~api'.revert => ~api.revert
    BY <1>3, EditIs
  <2>3. QED
    BY <2>1, <2>2
<1>4. CASE ~UserEdits
  <2>1. CASE Deliver \/ Resync \/ RevertTarget \/ CheckTarget \/ RevertService \/ SyncFails
             \/ SyncHandler \/ ScheduleCanaries \/ TargetStarts \/ PrimaryStarts \/ Restart
             \/ UNCHANGED vars
    BY <1>4, <2>1, SyncHandlerIs DEF Deliver, Resync, RevertTarget, CheckTarget, RevertService,
       SyncFails, ScheduleCanaries, TargetStarts, PrimaryStarts, Restart, vars
  <2>2. CASE OptOut \/ FinishFinalize
    BY <1>2, <1>4, <2>2 DEF OptOut, FinishFinalize
  <2>3. CASE SetPhaseInitializing \/ Terminate
    BY <1>1, <1>4, <2>3 DEF SetPhaseInitializing, Terminate, Phases
  <2>4. CASE AddFinalizer
    BY <1>0, <1>4, <2>4 DEF AddFinalizer, CanaryObjects
  <2>5. CASE UserDeletes
    BY <1>0, <1>4, <2>5 DEF UserDeletes, Exists, CanaryObjects
  <2>6. ASSUME NEW l \in Slots, LoopReturns(l)
        PROVE  api'.revert = api.revert
    BY <2>6 DEF LoopReturns
  <2>7. ASSUME NEW l \in Slots, Tick(l) \/ TickStep(l) \/ TickFails(l)
        PROVE  api'.revert = api.revert
    BY <1>1, <2>7, TickWrites DEF Phases
  <2>8. QED
    BY <1>4, <2>1, <2>2, <2>3, <2>4, <2>5, <2>6, <2>7 DEF Next, Worker
<1>5. QED
  BY <1>3, <1>4

\* Every step keeps a canary nobody has edited on its way.
LEMMA FirstInvNext ==
  ASSUME "optOut" \notin Edits, TypeInv, IntervalsInv, JobsInv, FirstInv, [Next]_vars
  PROVE  FirstInv'
<1> SUFFICES ASSUME Untouched'
             PROVE  FirstInv'
  BY DEF FirstInv
<1>0. /\ Untouched /\ api \in CanaryObjects /\ ~UserEdits
      /\ Exists /\ Exists' /\ ~api'.revert /\ api'.interval = 1
  <2>1. Exists /\ api \in CanaryObjects /\ api.interval <= api'.interval
    BY IntervalGrows DEF TypeInv, Objects, Exists, Untouched
  <2>2. api.interval \in 1 .. (1 + MaxEdits)
    BY <2>1 DEF CanaryObjects
  <2>3. api.interval = 1
    BY <2>1, <2>2, ConstantsAssumption DEF Untouched
  <2>4. QED
    BY <2>1, <2>3, RevertStays DEF Untouched
<1>1. /\ ~optingOut /\ sync.pc \in {"idle", "initializing"}
      /\ api.finalizer \/ ~Early(api.phase) => api.conditions
      /\ cache = Absent => sync.pc = "idle" /\ ~queued
      /\ cache # Absent =>
           /\ ~cache.revert /\ cache.interval = 1
           /\ cache.finalizer => cache.conditions
           /\ ~api.conditions => cache = api
      /\ sync.pc = "initializing" =>
           ~api.conditions /\ ~queued /\ NoJobs /\ ~sync.cd.revert
      /\ queued /\ ~cache.conditions => ~api.conditions /\ NoJobs
  BY <1>0 DEF FirstInv
<1>2. CASE Deliver
  <2>1. /\ UNCHANGED <<api, sync, loops>> /\ cache' = api /\ cache # api
    BY <1>2, DeliverIs
  <2>2. CASE cache = Absent
    <3>1. queued' = TRUE /\ UNCHANGED <<optingOut, registered>> /\ NoJobs
      BY <1>0, <1>2, <2>2, DeliverIs DEF IntervalsInv, JobsInv, NoJobs, Exists
    <3>2. QED
      BY <1>0, <1>1, <2>1, <2>2, <3>1 DEF FirstInv, NoJobs, Live, Exists
  <2>3. CASE cache # Absent
    <3>1. optingOut' = FALSE /\ api.conditions
      BY <1>0, <1>1, <1>2, <2>1, <2>3, DeliverIs
    <3>2. QED
      BY <1>0, <1>1, <2>1, <2>3, <3>1 DEF FirstInv, Exists
  <2>4. QED
    BY <2>2, <2>3
<1>3. CASE Resync
  <2>1. /\ UNCHANGED <<api, cache, optingOut, sync>>
        /\ cache # Absent /\ ForFinalizer(cache)
    BY <1>3 DEF Resync
  <2>2. cache.conditions
    BY <1>1, <2>1 DEF ForFinalizer
  <2>3. sync.pc # "initializing"
    BY <1>1, <2>1, <2>2
  <2>4. QED
    BY <1>0, <1>1, <2>1, <2>2, <2>3 DEF FirstInv
<1>4. CASE OptOut
  BY <1>1, <1>4 DEF OptOut
<1>5. CASE SyncHandler
  <2>1. /\ queued /\ sync.pc = "idle" /\ queued' = FALSE /\ cache # Absent
        /\ UNCHANGED <<api, cache, optingOut, loops>>
    BY <1>1, <1>5, SyncHandlerIs
  <2>2. \/ sync'.pc = "idle"
        \/ ~cache.conditions /\ UNCHANGED registered /\ sync' = [pc |-> "initializing", cd |-> cache]
    BY <1>1, <1>5, <2>1, SyncHandlerIs DEF StoreAndGo, Idle
  <2>3. QED
    BY <1>0, <1>1, <2>1, <2>2 DEF FirstInv, NoJobs, Live
<1>6. CASE SetPhaseInitializing
  <2>1. /\ sync.pc = "initializing" /\ SetPhase("Initializing") /\ StoreAndGo(sync.cd)
        /\ UNCHANGED <<cache, queued, optingOut>>
    BY <1>6 DEF SetPhaseInitializing, At
  <2>2. api'.conditions = TRUE
    BY <1>0, <2>1, StatusWritten DEF Phases
  <2>3. sync'.pc = "idle" /\ ~queued /\ cache # Absent
    BY <1>1, <2>1 DEF StoreAndGo, Idle
  <2>4. QED
    BY <1>0, <1>1, <2>1, <2>2, <2>3 DEF FirstInv
<1>7. CASE AddFinalizer \/ Terminate \/ RevertTarget \/ CheckTarget \/ RevertService
           \/ FinishFinalize
  BY <1>1, <1>7 DEF AddFinalizer, Terminate, RevertTarget, CheckTarget, RevertService,
     FinishFinalize, At
<1>8. CASE SyncFails
  <2>1. UNCHANGED <<api, cache, queued, optingOut, registered, loops>> /\ sync'.pc = "idle"
    BY <1>8 DEF SyncFails, Return, Idle
  <2>2. QED
    BY <1>0, <1>1, <2>1 DEF FirstInv, NoJobs, Live
<1>9. ASSUME UNCHANGED <<cache, queued, optingOut, sync>>, ~NoJobs,
             api' = api \/ (api'.conditions = TRUE)
      PROVE  FirstInv'
  BY <1>0, <1>1, <1>9 DEF FirstInv
<1>10. CASE ScheduleCanaries
  <2>1. UNCHANGED <<api, cache, queued, optingOut, sync>>
    BY <1>10 DEF ScheduleCanaries
  <2>2. ~NoJobs
    <3>1. CASE registered = Absent
      <4>1. job # Absent /\ job \in Slots /\ loops[job].state = "running"
        BY <1>10, <3>1, JobStops, ConstantsAssumption DEF TypeInv, Slots
      <4>2. QED
        BY <4>1 DEF NoJobs, Live
    <3>2. QED
      BY <3>1 DEF NoJobs
  <2>3. QED
    BY <1>9, <2>1, <2>2
<1>11. ASSUME NEW l \in Slots, LoopReturns(l)
       PROVE  FirstInv'
  BY <1>9, <1>11 DEF LoopReturns, LoopAt, NoJobs, Live, control
<1>12. ASSUME NEW l \in Slots, Tick(l) \/ TickStep(l) \/ TickFails(l)
       PROVE  FirstInv'
  <2>1. UNCHANGED <<cache, queued, optingOut, sync>> /\ ~NoJobs
    BY <1>12, TickIs DEF NoJobs, Live, control
  <2>2. api' = api \/ (api'.conditions = TRUE)
    BY <1>0, <1>12, TickWrites, StatusWritten DEF Phases
  <2>3. QED
    BY <1>9, <2>1, <2>2
<1>13. CASE TargetStarts \/ PrimaryStarts \/ UNCHANGED vars
  <2>1. UNCHANGED <<api, cache, queued, optingOut, sync, registered, loops>>
    BY <1>13 DEF TargetStarts, PrimaryStarts, vars, control
  <2>2. QED
    BY <1>0, <1>1, <2>1 DEF FirstInv, NoJobs, Live
<1>14. CASE UserDeletes
  <2>1. UNCHANGED <<cache, queued, optingOut, sync, registered, loops>>
    BY <1>14 DEF UserDeletes, control
  <2>2. api.finalizer /\ api' = [api EXCEPT !.deleting = TRUE]
    BY <1>0, <1>14 DEF UserDeletes, Exists
  <2>3. api.conditions /\ api'.conditions
    BY <1>0, <1>1, <2>2 DEF CanaryObjects
  <2>4. QED
    BY <1>0, <1>1, <2>1, <2>3 DEF FirstInv
<1>15. CASE Restart
  BY <1>0, <1>1, <1>15 DEF Restart, FirstInv, Idle
<1>16. QED
  BY <1>0, <1>2, <1>3, <1>4, <1>5, <1>6, <1>7, <1>8, <1>10, <1>11, <1>12, <1>13, <1>14,
     <1>15 DEF Next, Worker

\* A canary starts with its conditions, or in its first phase.
LEMMA FirstInvInit == Init => FirstInv
<1> SUFFICES ASSUME Init PROVE FirstInv
  OBVIOUS
<1>1. api.finalizer \/ ~Early(api.phase) => api.conditions
  BY StartsAssumption DEF Init, Early
<1>2. sync.pc = "idle" /\ ~queued /\ ~optingOut /\ cache = Absent
  BY DEF Init, Idle
<1>3. QED
  BY <1>1, <1>2 DEF FirstInv

\* Unless the user takes a revert back, the worker never puts a canary that needs
\* no finalizer and that nobody has edited back to Initializing.
THEOREM PhaseStays ==
  ASSUME "optOut" \notin Edits
  PROVE  Spec => PhaseNotSetBack
<1>1. TypeInv /\ IntervalsInv /\ FirstInv /\ [Next]_vars =>
        [/\ Exists /\ ~Early(api.phase)
         /\ ~api.revert /\ api.interval = 1
         => api' = Absent \/ ~Early(api'.phase)]_vars
  <2>1. SUFFICES ASSUME TypeInv, FirstInv, Next, Untouched, ~Early(api.phase), Exists'
                 PROVE  ~Early(api'.phase)
    BY DEF Untouched, Exists
  <2>2. api \in CanaryObjects /\ Exists
    BY <2>1 DEF TypeInv, Objects, Exists, Untouched
  <2>3. UNCHANGED api => ~Early(api'.phase)
    BY <2>1
  <2>4. ASSUME NEW phase \in {"Initialized", "Progressing", "Terminating"},
               SetPhase(phase) \/ SyncStatus(phase)
        PROVE  ~Early(api'.phase)
    BY <2>2, <2>4, StatusWritten DEF Early, Phases
  <2>5. RemoveFinalizer => ~Early(api'.phase)
    BY <2>1, <2>2, FinalizerRemoved DEF Exists
  <2>6. CASE Deliver \/ Resync \/ RevertTarget \/ CheckTarget \/ RevertService \/ SyncFails
             \/ SyncHandler \/ ScheduleCanaries \/ TargetStarts \/ PrimaryStarts \/ Restart
    BY <2>3, <2>6, SyncHandlerIs DEF Deliver, Resync, RevertTarget, CheckTarget, RevertService,
       SyncFails, ScheduleCanaries, TargetStarts, PrimaryStarts, Restart
  <2>7. CASE OptOut \/ FinishFinalize
    BY <2>1, <2>5, <2>7 DEF OptOut, FinishFinalize
  <2>8. CASE SetPhaseInitializing
    BY <2>1, <2>8 DEF SetPhaseInitializing, At, FirstInv
  <2>9. CASE Terminate
    BY <2>3, <2>4, <2>9 DEF Terminate
  <2>10. CASE AddFinalizer
    BY <2>1, <2>2, <2>10 DEF AddFinalizer, CanaryObjects
  <2>11. CASE UserEdits
    BY <2>1, <2>11, EditIs
  <2>12. CASE UserDeletes
    BY <2>1, <2>2, <2>12 DEF UserDeletes, Exists, CanaryObjects
  <2>13. ASSUME NEW l \in Slots, LoopReturns(l)
         PROVE  ~Early(api'.phase)
    BY <2>3, <2>13 DEF LoopReturns
  <2>14. ASSUME NEW l \in Slots, Tick(l) \/ TickStep(l) \/ TickFails(l)
         PROVE  ~Early(api'.phase)
    BY <2>1, <2>3, <2>4, <2>14, TickWrites
  <2>15. QED
    BY <2>1, <2>6, <2>7, <2>8, <2>9, <2>10, <2>11, <2>12, <2>13, <2>14 DEF Next, Worker
<1>2. TypeInv /\ IntervalsInv /\ JobsInv /\ FirstInv /\ [Next]_vars => FirstInv'
  BY FirstInvNext
<1>3. QED
  BY <1>1, <1>2, TypeInvInit, TypeInvNext, JobsInvInit, IntervalsInvNext, JobsInvNext,
     FirstInvInit, PTL DEF Spec, PhaseNotSetBack
=============================================================================
