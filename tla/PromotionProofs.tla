---------------------------- MODULE PromotionProofs ----------------------------
(***************************************************************************)
(* Proofs about what an analysis of AdvanceCanary is for: requests reach a *)
(* canary that is up, what is promoted was analysed, and the status names  *)
(* it, for every set of canaries and every bound.                          *)
(***************************************************************************)
EXTENDS AdvanceCanaryProofs

-----------------------------------------------------------------------------
(* The canary is up. *)

\* The phases in which the handler moves traffic to the canary, or back.
Routed == {"Progressing", "WaitingPromotion", "Promoting"}

\* The writes of a promotion.
Promotion == {"promote", "promoteWorkload", "promoted"}

\* The canary is up in these phases, but for a resumed one that is about to be
\* scaled up and one that has just been scaled down before its last write; only a
\* canary without a phase of these is scaled down when its primary is ready.
UpInv ==
  faults = 0 =>
    /\ NoTrafficToStoppedCanary
    /\ pc \in {"start"} \cup Promotion => canaryUp
    /\ pc = "scaleDown" => status.phase = "Initializing"
    /\ /\ status.phase \in Routed
       /\ pc \notin {"resume", "rollbackSync", "skipSucceed"}
       => canaryUp

\* The splits the handler gives the router; what is not all to the primary.
LEMMA BaseHasNoTraffic ==
  routes \in Base => ~(routes.canary > 0 \/ routes.mirrored)
BY DEF Base, NoRoutes, AllToPrimary, Split

\* The cases of ReadyToPromote apart.
LEMMA ReadyToPromoteIs ==
  ReadyToPromote => /\ StepsDone /\ Passes /\ Goto("promote")
                    /\ UNCHANGED <<cluster, edits, faults>>
BY Zenon DEF ReadyToPromote

\* The canary is up before the first tick.
LEMMA UpInvInit == Init => UpInv
BY DEF Init, UpInv, Promotion, NoTrafficToStoppedCanary, NoRoutes, Split, NewStatus, Routed

\* Every step keeps the canary up.
LEMMA UpInvNext == TypeInv /\ RestInv /\ UpInv /\ [Next]_vars => UpInv'
<1> SUFFICES ASSUME TypeInv, RestInv, UpInv, [Next]_vars, faults' = 0 PROVE UpInv'
  BY DEF UpInv
<1>0. /\ status \in Status /\ cd \in Status /\ pc \in Labels /\ faults \in Nat
      /\ canarySpec \in Canaries /\ seen \in Splits /\ routes \in Splits
  BY BoundsAssumption DEF TypeInv, TypeOK
<1>s. pc \notin {"idle", "resume"} => cd = status
  BY DEF RestInv, StatusIsRead
<1>h. /\ status.phase \in AtRest \cup {"Finalising"} => routes \in Base
      /\ pc \in Homeward => routes \in Base
      /\ pc = "succeed" => cd.phase = "Finalising"
  BY DEF RestInv, RoutesHome
<1>b. kubernetes => routes = NoRoutes
  BY DEF RestInv, RoutesComplete
<1> USE <1>0 DEF UpInv, NoTrafficToStoppedCanary, Routed, Promotion, Goto, cluster, locals
<1>1. CASE faults' # faults
  <2>1. faults' = faults + 1 \/ faults' = faults + 2
    <3>1. CASE Advance
      BY <1>1, <3>1 DEF Advance, Begin, InitializePrimary, InitializeScaleDown,
         ReconcileRoutes, ShouldAdvance, GateClosed, GateApproves, ResumeScaleUp,
         GatePasses, PrimaryNotReady, CheckInitialized, CheckScaleUp, StartAnalysis,
         RestartAnalysis, CheckCanaryReady, SkipRoutes, SkipScaleDown, SkipSucceed,
         RollbackRoutes, RollbackScaleDown, RollbackFailed, ShiftNothing, ShiftAll,
         ShiftStep, Finalise, FinaliseScaleDown, Succeed, CheckFails, RaiseWeight,
         HoldWeight, RecordWeight, IterateAB, IterateBlueGreen, RecordIteration,
         PromotionGateClosed, RouteToGreen, ReadyToPromote, PromoteConfigs,
         PromoteWorkload, Promoted
    <3>2. QED
      BY <1>1, <3>1 DEF Next, RevisionUnread, SkipFails, HandlerReturns,
         PrimaryRolledOut, Edit, ReconcileResets, vars
  <2>2. QED
    BY <2>1
<1>2. CASE faults' = faults
  <2> USE <1>2
  <2>1. CASE Begin \/ InitializePrimary \/ GatePasses \/ CheckCanaryReady \/
           PrimaryRolledOut \/ Edit
    BY <2>1, <1>s DEF Begin, InitializePrimary, GatePasses, CheckCanaryReady,
       PrimaryRolledOut, Edit
  <2>2. CASE ShouldAdvance \/ PrimaryNotReady \/ ShiftNothing \/ HoldWeight
    BY <2>2, ReturnType, <1>s DEF ShouldAdvance, PrimaryNotReady, ShiftNothing,
       HoldWeight, Shifting, Analysing
  <2>3. CASE GateClosed \/ GateApproves \/ CheckInitialized \/ StartAnalysis \/
           SkipSucceed \/ RollbackFailed \/ Finalise \/ Succeed
    BY <2>3, ReturnType, PhaseSet DEF GateClosed, GateApproves, CheckInitialized,
       StartAnalysis, SkipSucceed, RollbackFailed, Finalise, Succeed
  <2>4. CASE PromotionGateClosed
    BY <2>4, <1>s, ReturnType, PhaseSet DEF PromotionGateClosed, StepsDone, Analysing
  <2>5. CASE Promoted
    BY <2>5, <1>s, ReturnType, PhaseSet DEF Promoted
  <2>6. CASE CheckFails \/ RecordWeight \/ RecordIteration
    BY <2>6, <1>s, ReturnType, PhaseKept DEF CheckFails, RecordWeight, RecordIteration,
       Analysing
  <2>7. CASE InitializeScaleDown
    BY <2>7, <1>h, <1>s, BaseHasNoTraffic DEF InitializeScaleDown, ScaleToZero, AtRest
  <2>8. CASE ReconcileRoutes \/ ReconcileResets
    BY <2>8 DEF ReconcileRoutes, ReconcileResets, SetRoutes, AllToPrimary, Split
  <2>9. CASE ResumeScaleUp \/ CheckScaleUp
    BY <2>9, ReturnType DEF ResumeScaleUp, CheckScaleUp, ScaleFromZero
  <2>10. CASE RestartAnalysis \/ SkipRoutes \/ RollbackRoutes \/ ShiftAll
    <3>1. ~(routes'.canary > 0 \/ routes'.mirrored) /\ UNCHANGED <<status, canaryUp>>
      BY <2>10, <1>b DEF RestartAnalysis, SkipRoutes, RollbackRoutes, ShiftAll,
         SetRoutes, AllToPrimary, NoRoutes, Split
    <3>2. CASE RestartAnalysis
      BY <3>1, <3>2, <1>s DEF RestartAnalysis, hasCanaryRevisionChanged
    <3>3. CASE SkipRoutes \/ RollbackRoutes \/ ShiftAll
      BY <3>1, <3>3, <1>s DEF SkipRoutes, RollbackRoutes, ShiftAll, RollsBack, RollbackHook,
         Shifting
    <3>4. QED
      BY <2>10, <3>2, <3>3
  <2>11. CASE SkipScaleDown \/ RollbackScaleDown \/ FinaliseScaleDown
    BY <2>11, <1>h, <1>s, BaseHasNoTraffic DEF SkipScaleDown, RollbackScaleDown,
       FinaliseScaleDown, ScaleToZero, Homeward
  <2>12. CASE ShiftStep \/ RaiseWeight \/ IterateAB \/ IterateBlueGreen \/ RouteToGreen
    BY <2>12, <1>s DEF ShiftStep, RaiseWeight, IterateAB, IterateBlueGreen, RouteToGreen,
       Shifting, Analysing, StepsDone
  <2>13. CASE ReadyToPromote \/ PromoteConfigs \/ PromoteWorkload
    BY <2>13, <1>s, ReadyToPromoteIs DEF PromoteConfigs, PromoteWorkload, StepsDone, Analysing
  <2>14. CASE UNCHANGED vars
    BY <2>14 DEF vars
  <2>15. CASE RevisionUnread \/ SkipFails \/ HandlerReturns
    BY <2>15 DEF RevisionUnread, SkipFails, HandlerReturns
  <2>16. QED
    BY <2>1, <2>2, <2>3, <2>4, <2>5, <2>6, <2>7, <2>8, <2>9, <2>10, <2>11, <2>12, <2>13,
       <2>14, <2>15 DEF Next, Advance
<1>3. QED
  BY <1>1, <1>2

\* Whatever the hooks, the edits and their order: as long as no call has failed,
\* requests are sent to a canary that is scaled up.
THEOREM StoppedCanaryHasNoTraffic == Spec => []StoppedByFaultsOnly
<1>1. UpInv => StoppedByFaultsOnly
  BY DEF UpInv, StoppedByFaultsOnly
<1>2. QED
  BY TypeInvInit, TypeInvNext, RestInvInit, RestInvNext, UpInvInit, UpInvNext, <1>1,
     PTL DEF Spec

-----------------------------------------------------------------------------
(* The revision under analysis. *)

\* The user edits between two ticks only and does not go back, and the target
\* can be read.
Orderly == EditPoints \subseteq {"idle"} /\ ~Reverts /\ ~ReadsFail

NoneSkipped == \A c \in Canaries : ~c.skipAnalysis

UnderAnalysis == {"Progressing", "WaitingPromotion"}

\* The target the status was last synchronized with.
Applied == [spec |-> status.lastApplied, config |-> status.tracked]

\* The status never is ahead of the target.
Ordered ==
  /\ status.lastPromoted <= status.lastApplied
  /\ status.lastApplied <= target.spec
  /\ status.tracked <= target.config

\* The writes after hasCanaryRevisionChanged has found no new revision.
Decided == PastGate \ {"check", "start", "revision"}

\* What the handler knows at its next write.
Known ==
  /\ status.phase = "Initializing" => status.lastApplied = NoHash
  /\ primary = NoWorkload => status.phase = "Initializing"
  /\ status.phase = "Waiting" => "confirm-rollout" \in Hooks
  /\ pc \in PastGate => status.phase # "Waiting"
  /\ pc = "gate" /\ cd.phase \in AtRest => target # Applied
  /\ pc = "start" => routes \in Base
  /\ pc = "check" => cd.phase \notin InRollout
  /\ pc \in Decided \cup {"revision"} => cd.phase \in InRollout
  /\ pc \in Decided /\ cd.phase \in UnderAnalysis => target = Applied
  /\ pc \in Promotion => cd.phase \in UnderAnalysis
  /\ pc = "iterate" => cd.phase \in UnderAnalysis /\ ~Progressive
  /\ pc = "finalise" => cd.phase = "Promoting"
  /\ pc = "promoteWorkload" => copy = target.spec /\ primary.config = target.config

KnownInv == Ordered /\ Known

\* What each write of the status leaves of the revision under analysis.
LEMMA StatusSynced ==
  ASSUME status \in Status, NEW phase, SyncStatus(phase)
  PROVE  /\ status'.phase = phase /\ status'.iterations = 0
         /\ status'.lastApplied = target.spec /\ status'.tracked = target.config
         /\ status'.lastPromoted = status.lastPromoted
BY DEF SyncStatus, Status

\* SetStatusPhase writes the phase and leaves what was applied.
LEMMA PhaseWritten ==
  ASSUME status \in Status, NEW phase, SetStatusPhase(phase)
  PROVE  /\ status'.phase = phase
         /\ status'.iterations =
              IF phase \in {"Progressing", "Waiting"} THEN status.iterations ELSE 0
         /\ status'.lastApplied = status.lastApplied /\ status'.tracked = status.tracked
         /\ status'.lastPromoted =
              IF phase \in {"Initialized", "Succeeded"}
              THEN status.lastApplied ELSE status.lastPromoted
BY DEF SetStatusPhase, Status

\* The counters of failed checks and of iterations change nothing else.
LEMMA CounterWritten ==
  ASSUME status \in Status, NEW n,
         SetStatusWeight(n) \/ SetStatusIterations(n) \/ SetStatusFailedChecks(n)
  PROVE  /\ status'.phase = status.phase
         /\ status'.lastApplied = status.lastApplied /\ status'.tracked = status.tracked
         /\ status'.lastPromoted = status.lastPromoted
         /\ SetStatusIterations(n) => status'.iterations = n
         /\ SetStatusWeight(n) \/ SetStatusFailedChecks(n) =>
              status'.iterations = status.iterations
BY DEF SetStatusWeight, SetStatusIterations, SetStatusFailedChecks, Status

\* The numbers that are compared.
LEMMA RevisionsAreNumbers ==
  ASSUME TypeInv
  PROVE  /\ status.lastApplied \in Nat /\ status.lastPromoted \in Nat
         /\ status.tracked \in Nat /\ status.iterations \in Nat
         /\ target.spec \in Nat \ {0} /\ target.config \in Nat \ {0}
BY BoundsAssumption DEF TypeInv, TypeOK, Status, Workloads

\* Where the actions of an analysis stand.
LEMMA AnalysingIs ==
  Analysing \/ StepsDone => pc = "act" /\ cd.phase \in UnderAnalysis
BY DEF Analysing, StepsDone, UnderAnalysis

\* A revision that is ahead of the applied one has changed, and no other.
LEMMA ChangedIsAhead ==
  ASSUME TypeInv, Ordered
  PROVE  RevisionChanged(status) <=> target # Applied
<1>1. target = Applied <=> target.spec = status.lastApplied /\ target.config = status.tracked
  BY DEF TypeInv, TypeOK, Workloads, Applied
<1>2. QED
  BY <1>1, RevisionsAreNumbers DEF RevisionChanged, HasTargetChanged,
     HaveDependenciesChanged, Ordered, NoHash

\* An orderly edit leaves the applied revision behind.
LEMMA EditIsAhead ==
  ASSUME TypeInv, Ordered, Orderly, Edit
  PROVE  /\ pc = "idle" /\ target' # Applied
         /\ target'.spec >= target.spec /\ target'.config >= target.config
<1>1. pc = "idle" /\ ~Reverts
  BY DEF Edit, Orderly
<1>2. CASE \E r \in 1 .. MaxRevision :
             r > target.spec /\ target' = [target EXCEPT !.spec = r]
  <2>1. PICK r \in 1 .. MaxRevision :
              r > target.spec /\ target' = [target EXCEPT !.spec = r]
    BY <1>2
  <2>2. target'.spec = r /\ target'.config = target.config
    BY <2>1 DEF TypeInv, TypeOK, Workloads
  <2>3. QED
    BY <1>1, <2>1, <2>2, RevisionsAreNumbers DEF Ordered, Applied
<1>3. CASE \E c \in 1 .. MaxConfig :
             c > target.config /\ target' = [target EXCEPT !.config = c]
  <2>1. PICK c \in 1 .. MaxConfig :
              c > target.config /\ target' = [target EXCEPT !.config = c]
    BY <1>3
  <2>2. target'.config = c /\ target'.spec = target.spec
    BY <2>1 DEF TypeInv, TypeOK, Workloads
  <2>3. QED
    BY <1>1, <2>1, <2>2, RevisionsAreNumbers DEF Ordered, Applied
<1>4. QED
  BY <1>1, <1>2, <1>3 DEF Edit

\* The target before the first tick is ahead of a new status.
LEMMA KnownInvInit == Init => KnownInv
BY BoundsAssumption DEF Init, KnownInv, Ordered, Known, NewStatus, NoHash, Workloads,
   PastGate, PastReconcile, Decided, Promotion, NoWorkload

\* Every step keeps what the handler knows.
LEMMA KnownInvNext ==
  ASSUME TypeInv, RestInv, KnownInv, Orderly, [Next]_vars
  PROVE  KnownInv'
<1>0. /\ status \in Status /\ cd \in Status /\ pc \in Labels
      /\ canarySpec \in Canaries /\ primary \in Workloads \cup {NoWorkload}
  BY DEF TypeInv, TypeOK
<1>s. /\ pc \notin {"idle", "resume"} => cd = status
      /\ pc = "resume" => status.phase = "Progressing"
  BY DEF RestInv, StatusIsRead, RoutesHome
<1>k. Hooks' = Hooks
  BY SpecFixed
<1>p. Progressive' = Progressive
  BY SpecFixed DEF Progressive, BlueGreen, ABTesting, iterations
<1>w. pc \notin {"idle", "initialize"} => primary \in Workloads /\ primary # NoWorkload
  BY DEF TypeInv, PrimaryExists, Workloads, NoWorkload
<1>h. status.phase \in AtRest => routes \in Base
  BY DEF RestInv, RoutesHome
<1> USE <1>0, <1>s, <1>k, <1>p, <1>w, RevisionsAreNumbers
    DEF KnownInv, Ordered, Known, PastGate, PastReconcile, Decided, Promotion, UnderAnalysis,
        Applied, InRollout, AtRest, Labels, Goto, cluster, locals
<1>1. CASE Begin
  BY <1>1 DEF Begin
<1>2. CASE InitializePrimary
  BY <1>2 DEF InitializePrimary, TypeInv, TypeOK, Workloads, NoWorkload
<1>3. CASE InitializeScaleDown
  BY <1>3 DEF InitializeScaleDown
<1>4. CASE ReconcileRoutes \/ ReconcileResets
  BY <1>4 DEF ReconcileRoutes, ReconcileResets
<1>5. CASE ShouldAdvance
  BY <1>5, ReturnType, ChangedIsAhead, <1>s DEF ShouldAdvance, NoHash
<1>6. CASE GateClosed
  BY <1>6, ReturnType, PhaseWritten DEF GateClosed
<1>7. CASE GateApproves
  BY <1>7, PhaseWritten DEF GateApproves
<1>8. CASE ResumeScaleUp
  BY <1>8, ReturnType DEF ResumeScaleUp
<1>9. CASE GatePasses
  BY <1>9 DEF GatePasses
<1>10. CASE PrimaryNotReady
  BY <1>10, ReturnType DEF PrimaryNotReady
<1>11. CASE CheckInitialized
  BY <1>11, ReturnType, StatusSynced DEF CheckInitialized
<1>12. CASE CheckScaleUp
  <2>1. status.phase \in AtRest
    BY <1>12 DEF CheckScaleUp, Status, Phases
  <2>2. QED
    BY <1>12, <2>1, <1>h DEF CheckScaleUp
<1>13. CASE StartAnalysis
  BY <1>13, ReturnType, StatusSynced DEF StartAnalysis
<1>14. CASE RestartAnalysis
  BY <1>14, RoutesSet, SplitsComplete, <1>h DEF RestartAnalysis, RestInv, RoutesComplete, Base
<1>15. CASE CheckCanaryReady
  BY <1>15, ChangedIsAhead DEF CheckCanaryReady, hasCanaryRevisionChanged
<1>15a. CASE RevisionUnread
  BY <1>15a DEF RevisionUnread, Orderly
<1>16. CASE SkipRoutes
  BY <1>16 DEF SkipRoutes
<1>17. CASE SkipScaleDown
  BY <1>17 DEF SkipScaleDown
<1>18. CASE SkipSucceed
  BY <1>18, ReturnType, PhaseWritten DEF SkipSucceed
<1>19. CASE SkipFails
  BY <1>19 DEF SkipFails, SkipLabels
<1>20. CASE RollbackRoutes
  BY <1>20, PastInitialize DEF RollbackRoutes
<1>21. CASE RollbackScaleDown
  BY <1>21 DEF RollbackScaleDown
<1>22. CASE RollbackFailed
  BY <1>22, ReturnType, StatusSynced DEF RollbackFailed
<1>23. CASE ShiftNothing
  BY <1>23, ReturnType DEF ShiftNothing
<1>24. CASE ShiftAll
  BY <1>24 DEF ShiftAll, Shifting
<1>25. CASE ShiftStep
  BY <1>25 DEF ShiftStep, Shifting
<1>26. CASE Finalise
  BY <1>26, ReturnType, PhaseWritten DEF Finalise
<1>27. CASE FinaliseScaleDown
  BY <1>27 DEF FinaliseScaleDown
<1>28. CASE Succeed
  BY <1>28, ReturnType, PhaseWritten DEF Succeed
<1>29. CASE CheckFails
  BY <1>29, ReturnType, CounterWritten DEF CheckFails
<1>30. CASE RaiseWeight
  BY <1>30, AnalysingIs DEF RaiseWeight
<1>31. CASE HoldWeight
  BY <1>31, ReturnType DEF HoldWeight
<1>32. CASE RecordWeight
  BY <1>32, ReturnType, CounterWritten DEF RecordWeight
<1>33. CASE IterateAB
  BY <1>33, AnalysingIs DEF IterateAB, Progressive
<1>34. CASE IterateBlueGreen
  BY <1>34, AnalysingIs DEF IterateBlueGreen, Progressive
<1>35. CASE RecordIteration
  BY <1>35, ReturnType, CounterWritten DEF RecordIteration
<1>36. CASE PromotionGateClosed
  BY <1>36, AnalysingIs, ReturnType, PhaseWritten DEF PromotionGateClosed
<1>37. CASE RouteToGreen
  BY <1>37, AnalysingIs DEF RouteToGreen, Progressive
<1>38. CASE ReadyToPromote
  BY <1>38, AnalysingIs, ReadyToPromoteIs
<1>39. CASE PromoteConfigs
  BY <1>39 DEF PromoteConfigs, Workloads, NoWorkload
<1>40. CASE PromoteWorkload
  BY <1>40 DEF PromoteWorkload, Workloads, NoWorkload
<1>41. CASE Promoted
  BY <1>41, ReturnType, PhaseWritten DEF Promoted
<1>42. CASE HandlerReturns
  BY <1>42, ReturnType DEF HandlerReturns
<1>43. CASE PrimaryRolledOut
  BY <1>43 DEF PrimaryRolledOut
<1>44. CASE Edit
  <2>1. UNCHANGED <<status, primary, pc, routes, cd, copy>>
    BY <1>44 DEF Edit
  <2>2. /\ pc = "idle" /\ target'.spec >= target.spec /\ target'.config >= target.config
    BY <1>44, EditIsAhead
  <2>3. Ordered'
    <3>1. target' \in Workloads
      BY TypeInvNext DEF TypeInv, TypeOK
    <3>2. target'.spec \in Nat /\ target'.config \in Nat
      BY <3>1, BoundsAssumption DEF Workloads
    <3>3. QED
      BY <2>1, <2>2, <3>2
  <2>4. Known'
    BY <2>1, <2>2
  <2>5. QED
    BY <2>3, <2>4
<1>45. CASE UNCHANGED vars
  BY <1>45 DEF vars
<1>46. QED
  BY <1>1, <1>2, <1>3, <1>4, <1>5, <1>6, <1>7, <1>8, <1>9, <1>10, <1>11,
     <1>12, <1>13, <1>14, <1>15, <1>15a, <1>16, <1>17, <1>18, <1>19, <1>20, <1>21,
     <1>22, <1>23, <1>24, <1>25, <1>26, <1>27, <1>28, <1>29, <1>30, <1>31,
     <1>32, <1>33, <1>34, <1>35, <1>36, <1>37, <1>38, <1>39, <1>40, <1>41,
     <1>42, <1>43, <1>44, <1>45
     DEF Next, Advance

\* The status names the template the primary runs.
PrimaryInv ==
  /\ pc \in {"rollbackScale", "rollbackSync"} => cd.phase \in UnderAnalysis
  /\ pc = "promoted" => primary.spec = status.lastApplied
  /\ status.phase \in {"Promoting", "Finalising"} => primary.spec = status.lastApplied
  /\ status.phase = "Succeeded" => status.lastPromoted = primary.spec

\* The status names no template before the first tick.
LEMMA PrimaryInvInit == Init => PrimaryInv
BY DEF Init, PrimaryInv, NewStatus

\* Every step keeps the promoted template.
LEMMA PrimaryInvNext ==
  ASSUME TypeInv, RestInv, ~SkipAnalysis, ReadyKept, KnownInv, PrimaryInv, Orderly,
         [Next]_vars
  PROVE  PrimaryInv'
<1>0. /\ status \in Status /\ cd \in Status /\ pc \in Labels
      /\ target \in Workloads /\ primary \in Workloads \cup {NoWorkload}
  BY DEF TypeInv, TypeOK
<1>s. /\ pc \notin {"idle", "resume"} => cd = status
      /\ pc = "resume" => status.phase = "Progressing"
      /\ pc = "succeed" => cd.phase = "Finalising"
  BY DEF RestInv, StatusIsRead, RoutesHome
<1>k. pc \notin SkipLabels
  BY DEF ReadyKept
<1>p. primary = NoWorkload => status.phase = "Initializing"
  BY DEF KnownInv, Known
<1>d. /\ pc \in Promotion => cd.phase \in UnderAnalysis /\ target = Applied
      /\ pc = "finalise" => cd.phase = "Promoting"
      /\ pc = "promoteWorkload" => copy = target.spec
      /\ pc \in {"act", "rollbackScale", "rollbackSync"} =>
           /\ cd.phase \in InRollout
           /\ cd.phase \in UnderAnalysis => target = Applied
  BY DEF KnownInv, Known, Promotion, Decided, PastGate, PastReconcile, Labels
<1>w. pc \notin {"idle", "initialize"} => primary \in Workloads
  BY DEF TypeInv, PrimaryExists
<1> USE <1>0, <1>s, <1>k DEF PrimaryInv, SkipLabels, Goto, cluster, locals
<1>1. CASE Begin \/ InitializeScaleDown \/ ReconcileRoutes \/ CheckScaleUp \/
         GatePasses \/ RestartAnalysis \/ CheckCanaryReady \/ RevisionUnread \/
         SkipRoutes \/ SkipScaleDown \/ SkipFails \/ RollbackScaleDown \/
         ShiftAll \/ ShiftStep \/ FinaliseScaleDown \/ RaiseWeight \/
         IterateAB \/ IterateBlueGreen \/ RouteToGreen \/ PrimaryRolledOut \/
         ReconcileResets
  BY <1>1 DEF Begin, InitializeScaleDown, ReconcileRoutes, CheckScaleUp, GatePasses,
     RestartAnalysis, CheckCanaryReady, RevisionUnread, SkipRoutes, SkipScaleDown,
     SkipFails, RollbackScaleDown, ShiftAll, ShiftStep, FinaliseScaleDown, RaiseWeight,
     IterateAB, IterateBlueGreen, RouteToGreen, PrimaryRolledOut, ReconcileResets
<1>2. CASE ShouldAdvance \/ ResumeScaleUp \/ PrimaryNotReady \/ ShiftNothing
         \/ HoldWeight \/ HandlerReturns
  BY <1>2, ReturnType DEF ShouldAdvance, ResumeScaleUp, PrimaryNotReady, ShiftNothing,
     HoldWeight, HandlerReturns
<1>3. CASE GateClosed \/ GateApproves \/ PromotionGateClosed
  BY <1>3, ReturnType, PhaseWritten DEF GateClosed, GateApproves, PromotionGateClosed
<1>4. CASE CheckInitialized \/ StartAnalysis \/ RollbackFailed
  BY <1>4, ReturnType, StatusSynced DEF CheckInitialized, StartAnalysis, RollbackFailed
<1>5. CASE CheckFails \/ RecordWeight \/ RecordIteration
  BY <1>5, ReturnType, CounterWritten DEF CheckFails, RecordWeight, RecordIteration
<1>6. CASE InitializePrimary
  BY <1>6, <1>p DEF InitializePrimary
<1>7. CASE RollbackRoutes
  BY <1>7, <1>d DEF RollbackRoutes, RollsBack, RollbackHook, UnderAnalysis, InRollout
<1>8. CASE Finalise
  BY <1>8, <1>d, ReturnType, PhaseWritten DEF Finalise
<1>9. CASE Succeed \/ SkipSucceed
  BY <1>9, ReturnType, PhaseWritten DEF Succeed, SkipSucceed
<1>10. CASE ReadyToPromote
  BY <1>10, ReadyToPromoteIs
<1>11. CASE PromoteConfigs
  BY <1>11, <1>d, <1>w DEF PromoteConfigs, Promotion, UnderAnalysis, Workloads
<1>12. CASE PromoteWorkload
  BY <1>12, <1>d, <1>w DEF PromoteWorkload, Promotion, UnderAnalysis, Applied, Workloads
<1>13. CASE Promoted
  BY <1>13, ReturnType, PhaseWritten DEF Promoted
<1>14. CASE Edit
  BY <1>14 DEF Edit
<1>15. CASE UNCHANGED vars
  BY <1>15 DEF vars
<1>16. QED
  BY <1>1, <1>2, <1>3, <1>4, <1>5, <1>6, <1>7, <1>8, <1>9, <1>10, <1>11, <1>12, <1>13,
     <1>14, <1>15 DEF Next, Advance

\* What the two theorems below rest on, from the first state on.
LEMMA PrimaryInvHolds ==
  Orderly /\ NoneSkipped /\ Spec =>
    [](TypeInv /\ RestInv /\ KnownInv /\ PrimaryInv /\ ~SkipAnalysis /\ ReadyKept)
<1> SUFFICES ASSUME Orderly, NoneSkipped PROVE
      Spec => [](TypeInv /\ RestInv /\ KnownInv /\ PrimaryInv /\ ~SkipAnalysis /\ ReadyKept)
  OBVIOUS
<1>1. Init => ReadyKept
  BY DEF Init, ReadyKept, Checked, PastGate, PastReconcile, SkipLabels
<1>2. TypeInv => ~SkipAnalysis
  BY DEF TypeInv, TypeOK, SkipAnalysis, NoneSkipped
<1>3. TypeInv /\ ReadyKept /\ [Next]_vars => ReadyKept'
  BY <1>2, ReadyInvNext
<1>4. TypeInv /\ RestInv /\ KnownInv /\ [Next]_vars => KnownInv'
  BY KnownInvNext
<1>5. TypeInv /\ RestInv /\ ReadyKept /\ KnownInv /\ PrimaryInv /\ [Next]_vars => PrimaryInv'
  BY <1>2, PrimaryInvNext
<1>6. QED
  BY <1>1, <1>2, <1>3, <1>4, <1>5, TypeInvInit, TypeInvNext, RestInvInit, RestInvNext,
     KnownInvInit, PrimaryInvInit, PTL DEF Spec

\* When a rollout has succeeded, lastPromotedSpec is the template the primary runs,
\* after any number of faults: the user edits between ticks and does not go
\* back, no read of the target fails, and no canary skips its analysis.
THEOREM PromotedIsRecorded ==
  ASSUME Orderly, NoneSkipped
  PROVE  Spec => []LastPromotedIsPrimary
<1>1. PrimaryInv => LastPromotedIsPrimary
  BY DEF PrimaryInv, LastPromotedIsPrimary
<1>2. QED
  BY PrimaryInvHolds, <1>1, PTL

\* Under the same conditions a rollback records as applied the revision that was
\* analysed and no later one.
THEOREM RollbackRecordsAnalysed ==
  ASSUME Orderly, NoneSkipped
  PROVE  Spec => RollbackKeepsApplied
<1> DEFINE Step == status.phase # "Failed" /\ status'.phase = "Failed" =>
                     status'.lastApplied = status.lastApplied
<1>1. ASSUME TypeInv, RestInv, KnownInv, PrimaryInv, [Next]_vars
      PROVE  [Step]_vars
  <2>0. status \in Status /\ cd \in Status /\ pc \in Labels
    BY <1>1 DEF TypeInv, TypeOK
  <2>1. CASE RollbackFailed
    <3>1. target = Applied
      BY <1>1, <2>1 DEF RollbackFailed, KnownInv, Known, PrimaryInv, Decided, PastGate,
         PastReconcile, Labels
    <3>2. QED
      BY <2>0, <2>1, <3>1, StatusSynced DEF RollbackFailed, Applied
  <2>2. CASE UNCHANGED status
    BY <2>2
  <2>3. CASE GateClosed \/ GateApproves \/ SkipSucceed \/ Finalise \/ Succeed
           \/ PromotionGateClosed \/ Promoted
    BY <2>0, <2>3, PhaseWritten DEF GateClosed, GateApproves, SkipSucceed, Finalise,
       Succeed, PromotionGateClosed, Promoted
  <2>4. CASE CheckInitialized \/ StartAnalysis
    BY <2>0, <2>4, StatusSynced DEF CheckInitialized, StartAnalysis
  <2>5. CASE CheckFails \/ RecordWeight \/ RecordIteration
    BY <2>0, <2>5, CounterWritten DEF CheckFails, RecordWeight, RecordIteration
  <2>6. CASE Begin \/ InitializePrimary \/ InitializeScaleDown \/ ReconcileRoutes \/
           ShouldAdvance \/ ResumeScaleUp \/ GatePasses \/ PrimaryNotReady \/
           CheckScaleUp \/ RestartAnalysis \/ CheckCanaryReady \/ RevisionUnread \/
           SkipRoutes \/ SkipScaleDown \/ SkipFails \/ RollbackRoutes \/
           RollbackScaleDown \/ ShiftNothing \/ ShiftAll \/ ShiftStep \/
           FinaliseScaleDown \/ RaiseWeight \/ HoldWeight \/ IterateAB \/
           IterateBlueGreen \/ RouteToGreen \/ PromoteConfigs \/ PromoteWorkload \/
           HandlerReturns \/ PrimaryRolledOut \/ Edit \/ ReconcileResets
    BY <2>6 DEF Begin, InitializePrimary, InitializeScaleDown, ReconcileRoutes,
       ShouldAdvance, ResumeScaleUp, GatePasses, PrimaryNotReady, CheckScaleUp,
       RestartAnalysis, CheckCanaryReady, RevisionUnread, SkipRoutes, SkipScaleDown,
       SkipFails, RollbackRoutes, RollbackScaleDown, ShiftNothing, ShiftAll, ShiftStep,
       FinaliseScaleDown, RaiseWeight, HoldWeight, IterateAB, IterateBlueGreen,
       RouteToGreen, PromoteConfigs, PromoteWorkload, HandlerReturns,
       PrimaryRolledOut, Edit, ReconcileResets, cluster
  <2>7. CASE ReadyToPromote
    BY <2>7, ReadyToPromoteIs DEF cluster
  <2>8. CASE UNCHANGED vars
    BY <2>8 DEF vars, cluster
  <2>9. QED
    BY <1>1, <2>1, <2>2, <2>3, <2>4, <2>5, <2>6, <2>7, <2>8 DEF Next, Advance
<1>2. QED
  BY PrimaryInvHolds, <1>1, PTL DEF Spec, RollbackKeepsApplied

-----------------------------------------------------------------------------
(* The walk, of a history P of passed checks, an analysis a that is progressive
   (pr) or has k iterations, and a workload w. *)

PointsOf(P, w) == {x[1] : x \in {y \in P : y[2] = w}}
After(a, p)    == Increase(a, Split(totalWeight - p, p, TRUE)).canary

\* Workload w passed a check at every step.
Done(P, a, pr, k, w) ==
  IF pr
  THEN \E walk \in SUBSET PointsOf(P, w) :
         \A p \in {0} \cup walk : p < maxWeight(a) => After(a, p) \in walk
  ELSE 1 .. k \subseteq PointsOf(P, w)

\* It passed at every weight of a walk from 0 to c, c excepted.
WalkedTo(P, a, w, c) ==
  \E walk \in SUBSET PointsOf(P, w) :
    \A p \in {0} \cup walk : p < maxWeight(a) /\ p # c => After(a, p) \in walk \cup {c}

\* It passed at every step so far, at weight c before iteration n.
Passing(P, a, pr, k, w, c, n) ==
  \/ Done(P, a, pr, k, w)
  \/ pr /\ WalkedTo(P, a, w, c)
  \/ ~pr /\ 1 .. n - 1 \subseteq PointsOf(P, w)

AllPassed == Done(passed, Analysis, Progressive, iterations, target)
OnTheWay(c, n) == Passing(passed, Analysis, Progressive, iterations, target, c, n)

\* What the handler knows of the checks: as long as the target is the applied
\* revision, it passed all of them up to the weight and the iteration that the
\* routes and the status, or their copies in the handler, have reached.
WalkInv ==
  /\ status.phase \in UnderAnalysis \cup {"Waiting"} /\ target = Applied =>
       OnTheWay(routes.canary, status.iterations)
  /\ pc \in Decided \cup {"revision"} /\ cd.phase \in UnderAnalysis /\ target = Applied =>
       OnTheWay(seen.canary, cd.iterations)
  /\ pc = "iterate" => OnTheWay(seen.canary, cd.iterations + 1)
  /\ pc \in Promotion => AllPassed
  /\ status.phase \in {"Promoting", "Finalising"} /\ target = Applied => AllPassed

\* The property names the same points.
LEMMA WalkedIsDone == AllPassed <=> Walked(target)
BY DEF AllPassed, Done, Walked, PointsOf, After

\* More checks do no harm.
LEMMA PassingGrows ==
  ASSUME NEW P, NEW Q, P \subseteq Q, NEW a, NEW pr \in BOOLEAN, NEW k, NEW w
  PROVE  /\ PointsOf(P, w) \subseteq PointsOf(Q, w)
         /\ Done(P, a, pr, k, w) => Done(Q, a, pr, k, w)
         /\ \A c : WalkedTo(P, a, w, c) => WalkedTo(Q, a, w, c)
         /\ \A c, n : Passing(P, a, pr, k, w, c, n) => Passing(Q, a, pr, k, w, c, n)
<1>1. PointsOf(P, w) \subseteq PointsOf(Q, w)
  BY DEF PointsOf
<1>2. Done(P, a, pr, k, w) => Done(Q, a, pr, k, w)
  BY <1>1 DEF Done
<1>3. \A c : WalkedTo(P, a, w, c) => WalkedTo(Q, a, w, c)
  BY <1>1 DEF WalkedTo
<1>4. QED
  BY <1>1, <1>2, <1>3 DEF Passing

\* All traffic back to the primary: the walk begins anew.  Without a walk the
\* weight does not matter.
LEMMA PassingFromZero ==
  ASSUME NEW P, NEW a, NEW pr \in BOOLEAN, NEW k, NEW w, NEW c, NEW n,
         Passing(P, a, pr, k, w, c, n)
  PROVE  /\ Passing(P, a, pr, k, w, 0, n)
         /\ ~pr => \A d : Passing(P, a, pr, k, w, d, n)
<1>1. WalkedTo(P, a, w, 0)
  <2>1. {} \in SUBSET PointsOf(P, w)
    OBVIOUS
  <2>2. \A p \in {0} \cup {} : ~(p # 0)
    OBVIOUS
  <2>3. QED
    BY <2>1, <2>2 DEF WalkedTo
<1>2. QED
  BY <1>1 DEF Passing

\* A new analysis, or one whose iterations are counted from 0 again.
LEMMA PassingAnew ==
  ASSUME NEW P, NEW a, NEW pr \in BOOLEAN, NEW k, NEW w
  PROVE  /\ Passing(P, a, pr, k, w, 0, 0)
         /\ \A c, n : Passing(P, a, pr, k, w, c, n) => Passing(P, a, pr, k, w, c, 0)
<1>1. WalkedTo(P, a, w, 0)
  <2>1. {} \in SUBSET PointsOf(P, w)
    OBVIOUS
  <2>2. \A p \in {0} \cup {} : ~(p # 0)
    OBVIOUS
  <2>3. QED
    BY <2>1, <2>2 DEF WalkedTo
<1>2. 1 .. 0 - 1 \subseteq PointsOf(P, w)
  OBVIOUS
<1>3. QED
  BY <1>1, <1>2 DEF Passing

\* One step of weight after a check that passed, or before the first one.
LEMMA PassingRaised ==
  ASSUME NEW P, NEW Q, P \subseteq Q, NEW a, NEW k, NEW w, NEW c, NEW n,
         Passing(P, a, TRUE, k, w, c, n), c = 0 \/ c \in PointsOf(Q, w)
  PROVE  \A m : Passing(Q, a, TRUE, k, w, After(a, c), m)
<1>1. CASE Done(P, a, TRUE, k, w)
  BY <1>1, PassingGrows DEF Passing
<1>2. CASE WalkedTo(P, a, w, c)
  <2>1. PICK walk \in SUBSET PointsOf(P, w) :
          \A p \in {0} \cup walk :
            p < maxWeight(a) /\ p # c => After(a, p) \in walk \cup {c}
    BY <1>2 DEF WalkedTo
  <2>2. PointsOf(P, w) \subseteq PointsOf(Q, w)
    BY PassingGrows
  <2>3. CASE c \in PointsOf(Q, w)
    <3> DEFINE next == walk \cup {c}
    <3>1. next \in SUBSET PointsOf(Q, w)
      BY <2>2, <2>3
    <3>2. \A p \in {0} \cup next :
            p < maxWeight(a) /\ p # After(a, c) => After(a, p) \in next \cup {After(a, c)}
      BY <2>1
    <3> HIDE DEF next
    <3>3. WalkedTo(Q, a, w, After(a, c))
      BY <3>1, <3>2 DEF WalkedTo
    <3>4. QED
      BY <3>3 DEF Passing
  <2>4. CASE c = 0
    <3>1. {} \in SUBSET PointsOf(Q, w)
      OBVIOUS
    <3>2. \A p \in {0} \cup {} : After(a, p) \in {} \cup {After(a, c)}
      BY <2>4
    <3>3. WalkedTo(Q, a, w, After(a, c))
      BY <3>1, <3>2 DEF WalkedTo
    <3>4. QED
      BY <3>3 DEF Passing
  <2>5. QED
    BY <2>3, <2>4
<1>3. QED
  BY <1>1, <1>2 DEF Passing

\* A check that passed at the maximum completes the walk.
LEMMA PassingAtMaximum ==
  ASSUME NEW P, NEW Q, P \subseteq Q, NEW a, NEW k, NEW w, NEW c \in Nat, NEW n,
         PointsOf(P, w) \subseteq Nat, maxWeight(a) \in Nat, maxWeight(a) <= c,
         Passing(P, a, TRUE, k, w, c, n), c = 0 \/ c \in PointsOf(Q, w)
  PROVE  Done(Q, a, TRUE, k, w)
<1>1. CASE Done(P, a, TRUE, k, w)
  BY <1>1, PassingGrows
<1>2. CASE WalkedTo(P, a, w, c)
  <2>1. PICK walk \in SUBSET PointsOf(P, w) :
          \A p \in {0} \cup walk :
            p < maxWeight(a) /\ p # c => After(a, p) \in walk \cup {c}
    BY <1>2 DEF WalkedTo
  <2>2. PointsOf(P, w) \subseteq PointsOf(Q, w)
    BY PassingGrows
  <2>3. CASE c \in PointsOf(Q, w)
    <3> DEFINE whole == walk \cup {c}
    <3>1. whole \in SUBSET PointsOf(Q, w)
      BY <2>2, <2>3
    <3>2. \A p \in {0} \cup whole : p < maxWeight(a) => After(a, p) \in whole
      BY <2>1
    <3> HIDE DEF whole
    <3>3. QED
      BY <3>1, <3>2 DEF Done
  <2>4. CASE c = 0
    <3>1. {} \in SUBSET PointsOf(Q, w)
      OBVIOUS
    <3>2. \A p \in {0} \cup {} : ~(p < maxWeight(a))
      BY <2>4
    <3>3. QED
      BY <3>1, <3>2 DEF Done
  <2>5. QED
    BY <2>3, <2>4
<1>3. QED
  BY <1>1, <1>2 DEF Passing

\* One more iteration after a check that passed, or before the first one.
LEMMA PassingCounted ==
  ASSUME NEW P, NEW Q, P \subseteq Q, NEW a, NEW k \in Nat, NEW w, NEW c, NEW n \in Nat,
         Passing(P, a, FALSE, k, w, c, n), n = 0 \/ n \in PointsOf(Q, w)
  PROVE  /\ \A d : Passing(Q, a, FALSE, k, w, d, n + 1)
         /\ k <= n => Done(Q, a, FALSE, k, w)
<1>1. CASE Done(P, a, FALSE, k, w)
  BY <1>1, PassingGrows DEF Passing
<1>2. CASE 1 .. n - 1 \subseteq PointsOf(P, w)
  <2>1. 1 .. n \subseteq PointsOf(Q, w)
    <3>1. PointsOf(P, w) \subseteq PointsOf(Q, w)
      BY PassingGrows
    <3>2. \A i \in 1 .. n : i \in 1 .. n - 1 \/ i = n
      OBVIOUS
    <3>3. \A i \in 1 .. n : n # 0
      OBVIOUS
    <3>4. QED
      BY <1>2, <3>1, <3>2, <3>3
  <2>2. 1 .. (n + 1) - 1 \subseteq PointsOf(Q, w) /\ (k <= n => 1 .. k \subseteq PointsOf(Q, w))
    BY <2>1
  <2>3. QED
    BY <2>2 DEF Passing, Done
<1>3. QED
  BY <1>1, <1>2 DEF Passing

\* The steps of an analysis are numbers, and so is what has passed.
LEMMA WalkNumbers ==
  ASSUME TypeInv
  PROVE  /\ maxWeight(Analysis) \in Nat /\ iterations \in Nat
         /\ kubernetes => ~Progressive
         /\ Progressive \in BOOLEAN
         /\ \A w : PointsOf(passed, w) \subseteq Nat
<1>1. Analysis \in AnalysisFields /\ Analysis.iterations \in Nat
  BY CanariesAssumption DEF TypeInv, TypeOK, Analysis, CanarySpec, AnalysisFields
<1>2. maxWeight(Analysis) \in Nat
  BY <1>1 DEF maxWeight, AnalysisFields, Least, totalWeight
<1>3. iterations \in Nat /\ (kubernetes => iterations > 0)
  BY <1>1 DEF iterations
<1>4. kubernetes => ~Progressive
  BY <1>3 DEF Progressive, BlueGreen
<1>5. \A w : PointsOf(passed, w) \subseteq Nat
  BY DEF PointsOf, TypeInv, TypeOK
<1>6. QED
  BY <1>2, <1>3, <1>4, <1>5 DEF Progressive

\* A check that passes is recorded, unless it was the first one.
LEMMA CheckPassed ==
  ASSUME TypeInv, Passes
  PROVE  /\ passed \subseteq passed'
         /\ \/ seen.canary = 0 /\ cd.iterations = 0
            \/ point \in PointsOf(passed', target)
<1>1. CASE fresh
  BY <1>1 DEF Passes, fresh
<1>2. CASE ~fresh
  <2>1. passed' = passed \cup {<<point, target>>}
    BY <1>2 DEF Passes
  <2>2. <<point, target>> \in {y \in passed' : y[2] = target}
    BY <2>1
  <2>3. <<point, target>>[1] \in PointsOf(passed', target)
    BY <2>2 DEF PointsOf
  <2>4. QED
    BY <2>1, <2>3
<1>3. QED
  BY <1>1, <1>2

\* A step up leads to the next weight, but for the mirrored one, which stays at 0.
LEMMA IncreaseIsAfter ==
  ASSUME NEW a, NEW r
  PROVE  Increase(a, r).canary \in {After(a, r.canary), 0}
<1> DEFINE step == nextStepWeight(a, r.canary)
<1>1. CASE a.mirror /\ r.canary = 0 /\ ~r.mirrored
  BY <1>1 DEF Increase, Split
<1>2. CASE a.mirror /\ r.canary = 0 /\ r.mirrored
  BY <1>2 DEF Increase, After, Split
<1>3. CASE ~(a.mirror /\ r.canary = 0)
  BY <1>3 DEF Increase, After, Split
<1>4. QED
  BY <1>1, <1>2, <1>3

\* Nothing is under analysis before the first tick.
LEMMA WalkInvInit == Init => WalkInv
BY DEF Init, WalkInv, NewStatus, UnderAnalysis, Decided, PastGate, PastReconcile, Promotion

\* What the weight and the counter of an analysis under way become.
LEMMA WalkGoesOn ==
  ASSUME TypeInv, Passes, NEW c, NEW n, OnTheWay(c, n)
  PROVE  Passing(passed', Analysis, Progressive, iterations, target, c, n)
BY CheckPassed, PassingGrows, WalkNumbers DEF OnTheWay

\* Every step keeps the walk.
LEMMA WalkInvNext ==
  ASSUME TypeInv, RestInv, KnownInv, WalkInv, Orderly, [Next]_vars
  PROVE  WalkInv'
<1>0. /\ status \in Status /\ cd \in Status /\ pc \in Labels /\ target \in Workloads
      /\ cd.iterations \in Nat /\ status.iterations \in Nat /\ seen.canary \in Nat
  BY DEF TypeInv, TypeOK, Status, Splits
<1>s. /\ pc \notin {"idle", "resume"} => cd = status
      /\ pc = "resume" => status.phase = "Progressing"
      /\ pc = "succeed" => cd.phase = "Finalising"
  BY DEF RestInv, StatusIsRead, RoutesHome
<1>f. Analysis' = Analysis /\ Progressive' = Progressive /\ iterations' = iterations
  BY SpecFixed DEF Progressive, BlueGreen, ABTesting, iterations
<1>k. /\ pc = "gate" /\ cd.phase \in AtRest => target # Applied
      /\ pc = "start" => routes \in Base
      /\ pc = "check" => cd.phase \notin InRollout
      /\ pc \in Decided /\ cd.phase \in UnderAnalysis => target = Applied
      /\ pc = "finalise" => cd.phase = "Promoting"
      /\ pc \in Promotion => cd.phase \in UnderAnalysis
      /\ pc = "iterate" => cd.phase \in UnderAnalysis /\ ~Progressive
  BY DEF KnownInv, Known
<1>b. AllToPrimary.canary = 0 /\ \A r \in Base : r.canary = 0
  BY DEF Base, AllToPrimary, NoRoutes, Split
<1>n. Progressive \in BOOLEAN /\ (kubernetes => ~Progressive)
  BY WalkNumbers
<1>z. \A c, n : OnTheWay(c, n) =>
        /\ OnTheWay(0, n) /\ OnTheWay(c, 0)
        /\ ~Progressive => \A d : OnTheWay(d, n)
  BY <1>n, PassingFromZero, PassingAnew DEF OnTheWay
<1>y. AllPassed => \A c, n : OnTheWay(c, n)
  BY DEF AllPassed, OnTheWay, Passing
<1> USE <1>0, <1>s, <1>f, <1>n
    DEF WalkInv, PastGate, PastReconcile, Decided, Promotion, UnderAnalysis, Applied,
        InRollout, AtRest, Labels, Goto, cluster, locals
<1>1. CASE Begin \/ InitializePrimary \/ InitializeScaleDown \/ CheckScaleUp \/
         CheckCanaryReady \/ SkipScaleDown \/ SkipFails \/ RollbackScaleDown \/
         FinaliseScaleDown \/ PromoteConfigs \/ PromoteWorkload \/ PrimaryRolledOut
  BY <1>1 DEF Begin, InitializePrimary, InitializeScaleDown, CheckScaleUp, CheckCanaryReady,
     SkipScaleDown, SkipFails, SkipLabels, RollbackScaleDown, FinaliseScaleDown,
     PromoteConfigs, PromoteWorkload, PrimaryRolledOut, OnTheWay, AllPassed
<1>2. CASE ShouldAdvance \/ ResumeScaleUp \/ PrimaryNotReady \/ ShiftNothing \/ HandlerReturns
  BY <1>2, ReturnType DEF ShouldAdvance, ResumeScaleUp, PrimaryNotReady, ShiftNothing,
     HandlerReturns, OnTheWay, AllPassed
<1>3. CASE ReconcileRoutes \/ ReconcileResets
  BY <1>3, <1>b, <1>z DEF ReconcileRoutes, ReconcileResets, SetRoutes, OnTheWay, AllPassed
<1>4. CASE GateClosed
  <2>1. UNCHANGED <<target, routes, passed>> /\ pc = "gate" /\ pc' = "idle"
    BY <1>4, ReturnType DEF GateClosed
  <2>2. /\ status'.phase = "Waiting"
        /\ status'.iterations \in {0, status.iterations}
        /\ status'.lastApplied = status.lastApplied /\ status'.tracked = status.tracked
    BY <1>4, PhaseWritten DEF GateClosed
  <2>3. target = Applied => status.phase \in UnderAnalysis \cup {"Waiting", "Promoting", "Finalising"}
    BY <2>1, <1>k DEF Status, Phases
  <2>4. target = Applied => OnTheWay(routes.canary, status.iterations)
    BY <2>3, <1>y
  <2>5. QED
    BY <2>1, <2>2, <2>4, <1>z DEF OnTheWay
<1>5. CASE GateApproves
  BY <1>5, ReturnType, PhaseWritten DEF GateApproves, OnTheWay, AllPassed
<1>6. CASE GatePasses
  BY <1>6, <1>k, <1>z DEF GatePasses, GetRoutes, OnTheWay, AllPassed
<1>7. CASE CheckInitialized \/ RollbackFailed
  BY <1>7, ReturnType, StatusSynced DEF CheckInitialized, RollbackFailed, OnTheWay, AllPassed
<1>8. CASE StartAnalysis
  BY <1>8, <1>k, <1>b, PassingAnew, ReturnType, StatusSynced DEF StartAnalysis, OnTheWay, AllPassed
<1>9. CASE RestartAnalysis
  <2>1. target # Applied
    BY <1>9, ChangedIsAhead DEF RestartAnalysis, hasCanaryRevisionChanged, KnownInv
  <2>2. QED
    BY <1>9, <2>1 DEF RestartAnalysis, hasCanaryRevisionChanged
<1>10. CASE RevisionUnread
  BY <1>10 DEF RevisionUnread, Orderly
<1>11. CASE SkipRoutes \/ RollbackRoutes
  BY <1>11, <1>b, <1>z DEF SkipRoutes, RollbackRoutes, RollsBack, RollbackHook, SetRoutes,
     OnTheWay, AllPassed
<1>12. CASE ShiftAll \/ ShiftStep
  BY <1>12 DEF ShiftAll, ShiftStep, Shifting, OnTheWay, AllPassed
<1>13. CASE Finalise \/ Succeed \/ SkipSucceed \/ Promoted
  BY <1>13, <1>k, ReturnType, PhaseWritten DEF Finalise, Succeed, SkipSucceed, Promoted,
     OnTheWay, AllPassed
<1>14. CASE CheckFails
  BY <1>14, ReturnType, CounterWritten DEF CheckFails, Analysing, OnTheWay, AllPassed
<1>15. CASE RaiseWeight
  <2>1. pc = "act" /\ cd.phase \in UnderAnalysis /\ target = Applied /\ OnTheWay(seen.canary, cd.iterations)
    BY <1>15, <1>k, AnalysingIs DEF RaiseWeight
  <2>2. Passes /\ Progressive /\ UNCHANGED <<status, target, cd>> /\ pc' = "weight"
    BY <1>15 DEF RaiseWeight
  <2>3. seen.canary = 0 \/ seen.canary \in PointsOf(passed', target)
    BY <2>2, CheckPassed DEF point
  <2>4. seen'.canary \in {After(Analysis, seen.canary), 0} /\ routes' = seen'
    BY <1>15, <2>2, IncreaseIsAfter DEF RaiseWeight, SetRoutes
  <2>5. \A m : Passing(passed', Analysis, TRUE, iterations, target, After(Analysis, seen.canary), m)
    BY <2>1, <2>2, <2>3, CheckPassed, PassingRaised DEF OnTheWay
  <2>6. \A m : Passing(passed', Analysis, TRUE, iterations, target, seen'.canary, m)
    BY <2>4, <2>5, PassingFromZero
  <2>7. QED
    BY <2>1, <2>2, <2>4, <2>6 DEF OnTheWay
<1>16. CASE HoldWeight
  BY <1>16, <1>k, ReturnType, WalkGoesOn, AnalysingIs DEF HoldWeight, OnTheWay, AllPassed
<1>17. CASE RecordWeight
  BY <1>17, ReturnType, CounterWritten DEF RecordWeight, OnTheWay, AllPassed
<1>18. CASE IterateAB \/ IterateBlueGreen \/ RouteToGreen
  <2>1. /\ pc = "act" /\ cd.phase \in UnderAnalysis /\ target = Applied
        /\ OnTheWay(seen.canary, cd.iterations) /\ ~Progressive
    BY <1>18, <1>k, AnalysingIs DEF IterateAB, IterateBlueGreen, RouteToGreen, Progressive
  <2>2. Passes /\ UNCHANGED <<status, target, cd, seen>> /\ pc' = "iterate"
    BY <1>18 DEF IterateAB, IterateBlueGreen, RouteToGreen
  <2>3. cd.iterations = 0 \/ cd.iterations \in PointsOf(passed', target)
    BY <2>1, <2>2, CheckPassed DEF point
  <2>4. \A d : Passing(passed', Analysis, FALSE, iterations, target, d, cd.iterations + 1)
    BY <2>1, <2>2, <2>3, CheckPassed, PassingCounted, WalkNumbers DEF OnTheWay
  <2>5. \A d : Passing(passed', Analysis, Progressive, iterations, target, d, cd.iterations)
    BY <2>1, <2>2, <1>z, WalkGoesOn
  <2>6. QED
    BY <2>1, <2>2, <2>4, <2>5 DEF OnTheWay
<1>19. CASE RecordIteration
  BY <1>19, <1>k, <1>z, ReturnType, CounterWritten DEF RecordIteration, OnTheWay, AllPassed
<1>20. CASE PromotionGateClosed
  <2>1. /\ pc = "act" /\ cd.phase \in UnderAnalysis /\ target = Applied
        /\ OnTheWay(routes.canary, status.iterations)
    BY <1>20, <1>k, AnalysingIs DEF PromotionGateClosed
  <2>2. \A n : OnTheWay(routes.canary, n) => Passing(passed', Analysis, Progressive, iterations, target, routes.canary, n)
    BY <1>20, WalkGoesOn DEF PromotionGateClosed
  <2>3. OnTheWay(routes.canary, 0)
    BY <2>1, <1>z
  <2>4. UNCHANGED <<target, routes>> /\ pc' = "idle"
    BY <1>20, ReturnType DEF PromotionGateClosed
  <2>5. /\ status'.phase = "WaitingPromotion" /\ status'.iterations \in {0, status.iterations}
        /\ status'.lastApplied = status.lastApplied /\ status'.tracked = status.tracked
    BY <1>20, <2>1, PhaseWritten DEF PromotionGateClosed
  <2>6. QED
    BY <2>1, <2>2, <2>3, <2>4, <2>5 DEF OnTheWay
<1>21. CASE ReadyToPromote
  <2>0. /\ StepsDone /\ Passes /\ pc' = "promote" /\ UNCHANGED <<status, target, cd, seen, routes>>
    BY <1>21, ReadyToPromoteIs
  <2>1. /\ pc = "act" /\ cd.phase \in UnderAnalysis /\ target = Applied
        /\ OnTheWay(seen.canary, cd.iterations) /\ OnTheWay(routes.canary, status.iterations)
    BY <2>0, <1>k, AnalysingIs
  <2>2. Done(passed', Analysis, Progressive, iterations, target)
    <3>1. CASE Progressive
      <4>1. maxWeight(Analysis) <= seen.canary
        BY <2>0, <3>1, WalkNumbers DEF StepsDone
      <4>2. seen.canary = 0 \/ seen.canary \in PointsOf(passed', target)
        BY <2>0, <3>1, CheckPassed DEF point
      <4>3. QED
        BY <2>0, <2>1, <3>1, <4>1, <4>2, CheckPassed, WalkNumbers, PassingAtMaximum DEF OnTheWay
    <3>2. CASE ~Progressive
      <4>1. iterations <= cd.iterations
        BY <2>0, <3>2 DEF StepsDone
      <4>2. cd.iterations = 0 \/ cd.iterations \in PointsOf(passed', target)
        BY <2>0, <3>2, CheckPassed DEF point
      <4>3. QED
        BY <2>0, <2>1, <3>2, <4>1, <4>2, CheckPassed, WalkNumbers, PassingCounted DEF OnTheWay
    <3>3. QED
      BY <3>1, <3>2
  <2>3. QED
    BY <2>0, <2>1, <2>2, WalkGoesOn DEF OnTheWay, AllPassed
<1>22. CASE Edit
  <2>1. UNCHANGED <<status, routes, pc, cd, seen, passed>>
    BY <1>22 DEF Edit
  <2>2. pc = "idle" /\ target' # Applied
    BY <1>22, EditIsAhead DEF KnownInv
  <2>3. QED
    BY <2>1, <2>2
<1>23. CASE UNCHANGED vars
  BY <1>23 DEF vars, OnTheWay, AllPassed
<1>24. QED
  BY <1>1, <1>2, <1>3, <1>4, <1>5, <1>6, <1>7, <1>8, <1>9, <1>10, <1>11, <1>12, <1>13,
     <1>14, <1>15, <1>16, <1>17, <1>18, <1>19, <1>20, <1>21, <1>22, <1>23 DEF Next, Advance

\* What Promote writes to the primary passed a check at every step of its analysis,
\* for every strategy, with restarts, pauses, skipped analyses and any number of
\* faults: the user edits between ticks and does not go back, and no read of the
\* target fails.
THEOREM PromotedIsAnalysed ==
  ASSUME Orderly
  PROVE  Spec => []PromotedWasAnalysed
<1>1. TypeInv /\ KnownInv /\ WalkInv => PromotedWasAnalysed
  <2> SUFFICES ASSUME TypeInv, KnownInv, WalkInv, pc = "promoteWorkload"
               PROVE  Walked([spec |-> copy, config |-> primary.config])
    BY DEF PromotedWasAnalysed
  <2>1. copy = target.spec /\ primary.config = target.config
    BY DEF KnownInv, Known
  <2>2. target = [spec |-> copy, config |-> primary.config]
    BY <2>1 DEF TypeInv, TypeOK, Workloads
  <2>3. AllPassed
    BY DEF WalkInv, Promotion
  <2>4. QED
    BY <2>2, <2>3, WalkedIsDone
<1>2. TypeInv /\ RestInv /\ KnownInv /\ [Next]_vars => KnownInv'
  BY KnownInvNext
<1>3. TypeInv /\ RestInv /\ KnownInv /\ WalkInv /\ [Next]_vars => WalkInv'
  BY WalkInvNext
<1>4. QED
  BY <1>1, <1>2, <1>3, TypeInvInit, TypeInvNext, RestInvInit, RestInvNext, KnownInvInit,
     WalkInvInit, PTL DEF Spec
=============================================================================
