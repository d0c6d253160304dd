------------------------ MODULE AdvanceCanaryProofs ------------------------
(***************************************************************************)
(* Proofs about AdvanceCanary, for every set of canaries (every analysis,  *)
(* strategy and set of hooks) and every bound: the type invariant, three   *)
(* safety properties, each from an inductive invariant, and that the       *)
(* handler implements Rollout: the initial states map to initial states,   *)
(* and every write of the handler to a step of a rollout or to none.       *)
(***************************************************************************)
EXTENDS AdvanceCanary, StepWeightsProofs

-----------------------------------------------------------------------------
(* The weights of a canary. *)

\* What the lemmas about the weights ask of an analysis.
LEMMA AnalysisIs ==
  ASSUME canarySpec \in Canaries
  PROVE  /\ Analysis.stepWeight \in Nat /\ Analysis.stepWeights \in Seq(Nat)
         /\ Analysis.mirror \in BOOLEAN /\ Analysis.stepWeightPromotion \in Nat
BY CanariesAssumption DEF Analysis, CanarySpec, AnalysisFields

\* The splits the two walks lead to are splits, and complete when the split
\* they start from is.
LEMMA IncreaseType ==
  ASSUME canarySpec \in Canaries, NEW r \in Splits
  PROVE  /\ Increase(Analysis, r) \in Splits
         /\ r.primary + r.canary = totalWeight =>
              Increase(Analysis, r).primary + Increase(Analysis, r).canary = totalWeight
BY AnalysisIs, IncreaseIs DEF Splits

\* A promotion step leads to a split as well.
LEMMA ShiftBackType ==
  ASSUME canarySpec \in Canaries, NEW r \in Splits
  PROVE  /\ ShiftBack(Analysis, r) \in Splits
         /\ r.primary + r.canary = totalWeight =>
              /\ ShiftBack(Analysis, r).primary + ShiftBack(Analysis, r).canary = totalWeight
              /\ ShiftBack(Analysis, r).primary = totalWeight =>
                   ShiftBack(Analysis, r) = AllToPrimary
BY AnalysisIs, ShiftBackIs DEF Splits

-----------------------------------------------------------------------------
(* The type invariant.  It is inductive with two facts about the order of the
   handler's calls: the primary exists once Initialize has returned, and
   Promote has read a template when it writes one. *)

PrimaryExists == pc \notin {"idle", "initialize"} => primary \in Workloads
CopyRead == pc \in {"promoteWorkload", "skipWorkload"} => copy \in 1 .. MaxRevision

TypeInv == TypeOK /\ PrimaryExists /\ CopyRead

\* Every write of the status leaves a status.
LEMMA StatusWrites ==
  ASSUME status \in Status, target \in Workloads
  PROVE  /\ \A phase \in Phases : SyncStatus(phase) \/ SetStatusPhase(phase) => status' \in Status
         /\ \A n \in Nat : SetStatusWeight(n) \/ SetStatusIterations(n)
                             \/ SetStatusFailedChecks(n) => status' \in Status
<1>1. target.spec \in 0 .. MaxRevision /\ target.config \in 0 .. MaxConfig
  BY BoundsAssumption DEF Workloads
<1>2. ASSUME NEW phase \in Phases, SyncStatus(phase)
      PROVE  status' \in Status
  BY <1>1, <1>2 DEF SyncStatus, Status
<1>3. ASSUME NEW phase \in Phases, SetStatusPhase(phase)
      PROVE  status' \in Status
  BY <1>3 DEF SetStatusPhase, Status
<1>4. ASSUME NEW n \in Nat,
             SetStatusWeight(n) \/ SetStatusIterations(n) \/ SetStatusFailedChecks(n)
      PROVE  status' \in Status
  BY <1>4 DEF SetStatusWeight, SetStatusIterations, SetStatusFailedChecks, Status
<1>5. QED
  BY <1>2, <1>3, <1>4

\* What Return leaves.
LEMMA ReturnType ==
  ASSUME Return
  PROVE  /\ pc' = "idle" /\ pc' \in Labels /\ cd' \in Status /\ seen' \in Splits
         /\ retriable' \in BOOLEAN /\ copy' \in 0 .. MaxRevision
BY BoundsAssumption DEF Return, Labels, NewStatus, Status, Phases, NoHash,
   NoRoutes, Split, Splits

\* What SetRoutes and GetRoutes do to a split.
LEMMA RoutesType ==
  ASSUME routes \in Splits
  PROVE  /\ AllToPrimary \in Splits /\ AllToCanary \in Splits /\ NoRoutes \in Splits
         /\ \A r \in Splits : SetRoutes(r) => routes' \in Splits
         /\ \A s \in Status : GetRoutes(s) \in Splits
         /\ Split(totalWeight, 0, TRUE) \in Splits
<1>1. /\ AllToPrimary \in Splits /\ AllToCanary \in Splits /\ NoRoutes \in Splits
      /\ Split(totalWeight, 0, TRUE) \in Splits
  BY DEF AllToPrimary, AllToCanary, NoRoutes, Split, Splits, totalWeight
<1>2. QED
  BY <1>1 DEF SetRoutes, GetRoutes

\* The types hold before the first tick.
LEMMA TypeInvInit == Init => TypeInv
<1> SUFFICES ASSUME Init PROVE TypeInv
  OBVIOUS
<1>1. NewStatus \in Status /\ NoRoutes \in Splits /\ "idle" \in Labels
  BY BoundsAssumption DEF NewStatus, Status, Phases, NoHash, NoRoutes, Split, Splits, Labels
<1>2. target \in Workloads
  BY BoundsAssumption DEF Init, Workloads
<1>3. primary = NoWorkload /\ passed = {} /\ edits = 0 /\ faults = 0
  BY DEF Init
<1>4. copy \in 0 .. MaxRevision /\ edits \in 0 .. MaxEdits /\ faults \in 0 .. MaxFaults
  BY BoundsAssumption DEF Init, NoHash
<1>5. PrimaryExists /\ CopyRead
  BY DEF Init, PrimaryExists, CopyRead
<1>6. TypeOK
  BY <1>1, <1>2, <1>3, <1>4 DEF Init, TypeOK
<1>7. QED
  BY <1>5, <1>6 DEF TypeInv

\* What a passing check adds to the history.
LEMMA PassesType ==
  ASSUME passed \subseteq Nat \X Workloads, seen \in Splits, cd \in Status,
         target \in Workloads, Passes
  PROVE  passed' \subseteq Nat \X Workloads
<1>1. point \in Nat
  BY DEF point, Splits, Status
<1>2. QED
  BY <1>1 DEF Passes

\* The steps that come after Initialize.
LEMMA PastInitialize ==
  RollsBack \/ Shifting \/ Analysing \/ StepsDone => pc \in {"act", "skip"}
BY DEF RollsBack, RollbackHook, Shifting, Analysing, StepsDone

\* Nobody edits the spec of the canary.
LEMMA SpecFixed ==
  ASSUME [Next]_vars
  PROVE  /\ canarySpec' = canarySpec /\ kubernetes' = kubernetes
         /\ Analysis' = Analysis /\ SkipAnalysis' = SkipAnalysis
         /\ Hooks' = Hooks /\ GetAnalysisThreshold' = GetAnalysisThreshold
<1> USE DEF cluster
<1>1. ASSUME Begin \/ InitializePrimary \/ InitializeScaleDown \/ ReconcileRoutes
               \/ ShouldAdvance \/ GateClosed \/ GateApproves \/ ResumeScaleUp
               \/ GatePasses \/ PrimaryNotReady
      PROVE  canarySpec' = canarySpec
  BY <1>1 DEF Begin, InitializePrimary, InitializeScaleDown, ReconcileRoutes,
     ShouldAdvance, GateClosed, GateApproves, ResumeScaleUp, GatePasses,
     PrimaryNotReady
<1>2. ASSUME CheckInitialized \/ CheckScaleUp \/ StartAnalysis \/ RestartAnalysis
               \/ CheckCanaryReady \/ RevisionUnread \/ SkipRoutes \/ SkipScaleDown
               \/ SkipSucceed \/ SkipFails \/ RollbackRoutes
               \/ RollbackScaleDown \/ RollbackFailed
      PROVE  canarySpec' = canarySpec
  BY <1>2 DEF CheckInitialized, CheckScaleUp, StartAnalysis, RestartAnalysis,
     CheckCanaryReady, RevisionUnread, SkipRoutes, SkipScaleDown, SkipSucceed,
     SkipFails, RollbackRoutes, RollbackScaleDown, RollbackFailed
<1>3. ASSUME ShiftNothing \/ ShiftAll \/ ShiftStep \/ Finalise \/ FinaliseScaleDown
               \/ Succeed \/ CheckFails \/ RaiseWeight \/ HoldWeight \/ RecordWeight
               \/ IterateAB \/ IterateBlueGreen \/ RecordIteration
      PROVE  canarySpec' = canarySpec
  BY <1>3 DEF ShiftNothing, ShiftAll, ShiftStep, Finalise, FinaliseScaleDown,
     Succeed, CheckFails, RaiseWeight, HoldWeight, RecordWeight, IterateAB,
     IterateBlueGreen, RecordIteration
<1>4. ASSUME PromotionGateClosed \/ RouteToGreen \/ ReadyToPromote
               \/ PromoteConfigs \/ PromoteWorkload \/ Promoted
               \/ HandlerReturns \/ PrimaryRolledOut \/ Edit \/ ReconcileResets
               \/ UNCHANGED vars
      PROVE  canarySpec' = canarySpec
  BY <1>4 DEF PromotionGateClosed, RouteToGreen, ReadyToPromote, PromoteConfigs,
     PromoteWorkload, Promoted, HandlerReturns, PrimaryRolledOut, Edit,
     ReconcileResets, vars
<1>5. canarySpec' = canarySpec
  BY <1>1, <1>2, <1>3, <1>4 DEF Next, Advance
<1>6. QED
  BY <1>5 DEF kubernetes, Analysis, SkipAnalysis, Hooks, GetAnalysisThreshold

\* Every step keeps the types.
LEMMA TypeInvNext == TypeInv /\ [Next]_vars => TypeInv'
<1> SUFFICES ASSUME TypeInv, [Next]_vars PROVE TypeInv'
  OBVIOUS
<1> USE BoundsAssumption
    DEF TypeInv, TypeOK, PrimaryExists, CopyRead, Goto, cluster, locals, Labels
<1>a. seen.canary \in Nat
  BY DEF Splits
<1>b. cd.failedChecks + 1 \in Nat /\ cd.iterations + 1 \in Nat
  BY DEF Status
<1>1. CASE Begin
  BY <1>1 DEF Begin
<1>2. CASE InitializePrimary
  BY <1>2 DEF InitializePrimary
<1>3. CASE InitializeScaleDown
  BY <1>3 DEF InitializeScaleDown, ScaleToZero
<1>4. CASE ReconcileRoutes
  BY <1>4, RoutesType DEF ReconcileRoutes
<1>4a. CASE ReconcileResets
  BY <1>4a, RoutesType DEF ReconcileResets
<1>5. CASE ShouldAdvance
  BY <1>5, ReturnType DEF ShouldAdvance
<1>6. CASE GateClosed
  BY <1>6, ReturnType, StatusWrites DEF GateClosed, Phases
<1>7. CASE GateApproves
  BY <1>7, StatusWrites DEF GateApproves, Phases
<1>8. CASE ResumeScaleUp
  BY <1>8, ReturnType DEF ResumeScaleUp, ScaleFromZero
<1>9. CASE GatePasses
  BY <1>9, RoutesType DEF GatePasses
<1>10. CASE PrimaryNotReady
  BY <1>10, ReturnType DEF PrimaryNotReady
<1>11. CASE CheckInitialized
  BY <1>11, ReturnType, StatusWrites DEF CheckInitialized, Phases
<1>12. CASE CheckScaleUp
  BY <1>12 DEF CheckScaleUp, ScaleFromZero
<1>13. CASE StartAnalysis
  BY <1>13, ReturnType, StatusWrites DEF StartAnalysis, Phases
<1>14. CASE RestartAnalysis
  BY <1>14, RoutesType DEF RestartAnalysis
<1>15. CASE CheckCanaryReady
  BY <1>15 DEF CheckCanaryReady
<1>15a. CASE RevisionUnread
  BY <1>15a, BoundsAssumption DEF RevisionUnread
<1>16. CASE SkipRoutes
  BY <1>16, RoutesType DEF SkipRoutes
<1>17. CASE SkipScaleDown
  BY <1>17 DEF SkipScaleDown, ScaleToZero
<1>18. CASE SkipSucceed
  BY <1>18, ReturnType, StatusWrites DEF SkipSucceed, Phases
<1>19. CASE SkipFails
  BY <1>19 DEF SkipFails, SkipLabels
<1>20. CASE RollbackRoutes
  BY <1>20, RoutesType, PastInitialize DEF RollbackRoutes
<1>21. CASE RollbackScaleDown
  BY <1>21 DEF RollbackScaleDown, ScaleToZero
<1>22. CASE RollbackFailed
  BY <1>22, ReturnType, StatusWrites DEF RollbackFailed, Phases
<1>23. CASE ShiftNothing
  BY <1>23, ReturnType DEF ShiftNothing
<1>24. CASE ShiftAll
  BY <1>24, RoutesType, PastInitialize DEF ShiftAll
<1>25. CASE ShiftStep
  BY <1>25, RoutesType, ShiftBackType, PastInitialize DEF ShiftStep
<1>26. CASE Finalise
  BY <1>26, ReturnType, StatusWrites DEF Finalise, Phases
<1>27. CASE FinaliseScaleDown
  BY <1>27 DEF FinaliseScaleDown, ScaleToZero
<1>28. CASE Succeed
  BY <1>28, ReturnType, StatusWrites DEF Succeed, Phases
<1>29. CASE CheckFails
  BY <1>29, ReturnType, StatusWrites, <1>b DEF CheckFails
<1>30. CASE RaiseWeight
  BY <1>30, RoutesType, IncreaseType, PassesType, PastInitialize DEF RaiseWeight
<1>31. CASE HoldWeight
  BY <1>31, ReturnType, PassesType DEF HoldWeight
<1>32. CASE RecordWeight
  BY <1>32, ReturnType, StatusWrites, <1>a DEF RecordWeight
<1>33. CASE IterateAB
  BY <1>33, RoutesType, PassesType, PastInitialize DEF IterateAB
<1>34. CASE IterateBlueGreen
  <2>1. pc' = "iterate" /\ pc = "act"
    BY <1>34, PastInitialize DEF IterateBlueGreen, Analysing
  <2>2. routes' \in Splits /\ faults' \in 0 .. MaxFaults
    <3>1. routes' = routes \/ SetRoutes(Split(totalWeight, 0, TRUE))
      BY <1>34 DEF IterateBlueGreen
    <3>2. faults' = faults \/ (faults < MaxFaults /\ faults' = faults + 1)
      BY <1>34 DEF IterateBlueGreen
    <3>3. routes' \in Splits
      BY <3>1, RoutesType
    <3>4. faults' \in 0 .. MaxFaults
      BY <3>2
    <3>5. QED
      BY <3>3, <3>4
  <2>3. passed' \subseteq Nat \X Workloads
    BY <1>34, PassesType DEF IterateBlueGreen
  <2>4. QED
    BY <1>34, <2>1, <2>2, <2>3 DEF IterateBlueGreen
<1>35. CASE RecordIteration
  BY <1>35, ReturnType, StatusWrites, <1>b DEF RecordIteration
<1>36. CASE PromotionGateClosed
  BY <1>36, ReturnType, StatusWrites, PassesType DEF PromotionGateClosed, Phases
<1>37. CASE RouteToGreen
  BY <1>37, RoutesType, PassesType, PastInitialize DEF RouteToGreen
<1>38. CASE ReadyToPromote
  BY <1>38, PassesType, PastInitialize DEF ReadyToPromote
<1>39. CASE PromoteConfigs
  BY <1>39 DEF PromoteConfigs, Workloads
<1>40. CASE PromoteWorkload
  BY <1>40 DEF PromoteWorkload, Workloads
<1>41. CASE Promoted
  BY <1>41, ReturnType, StatusWrites DEF Promoted, Phases
<1>42. CASE HandlerReturns
  BY <1>42, ReturnType DEF HandlerReturns
<1>43. CASE PrimaryRolledOut
  BY <1>43 DEF PrimaryRolledOut
<1>44. CASE Edit
  BY <1>44 DEF Edit, Workloads
<1>45. CASE UNCHANGED vars
  BY <1>45 DEF vars
<1>46. QED
  BY <1>1, <1>2, <1>3, <1>4, <1>5, <1>6, <1>7, <1>8, <1>9, <1>10, <1>11,
     <1>12, <1>13, <1>14, <1>15, <1>16, <1>17, <1>18, <1>19, <1>20, <1>21,
     <1>22, <1>23, <1>24, <1>25, <1>26, <1>27, <1>28, <1>29, <1>30, <1>31,
     <1>32, <1>33, <1>34, <1>35, <1>36, <1>37, <1>38, <1>39, <1>40, <1>41,
     <1>42, <1>43, <1>44, <1>45, <1>4a, <1>15a
     DEF Next, Advance

\* Every variable keeps its type, whatever the analysis, the hooks, the number
\* of edits and the number of faults.
THEOREM TypeCorrect == Spec => []TypeOK
<1>1. TypeInv => TypeOK
  BY DEF TypeInv
<1>2. QED
  BY TypeInvInit, TypeInvNext, <1>1, PTL DEF Spec

-----------------------------------------------------------------------------
(* All traffic is the primary's at rest.  The handler reads the status once, at
   the beginning of a tick, and a rollout is at rest by the last write of a
   tick; so the invariant must say where the routes stand at every write in
   between, and that what was read still holds. *)

Base == {NoRoutes, AllToPrimary}
Complete(r) == r.primary + r.canary = totalWeight

\* The writes after ReconcileRoutes, and those after GetRoutes.
PastReconcile == Labels \ {"idle", "initialize", "scaleDown", "reconcile"}
PastGate == PastReconcile \ {"advance", "gate", "resume"}

\* The writes before which all traffic was moved to the primary.
Homeward == {"rollbackScale", "rollbackSync", "skipPromote", "skipWorkload",
             "skipScale", "skipSucceed", "finalise"}

\* Nobody but the handler writes the status, and it returns when it has.
StatusIsRead == pc \notin {"idle", "resume"} => cd = status

\* The Kubernetes provider never has routes; a split that was made or read adds
\* up to 100, so a promotion step that reaches 100 leaves nothing on the canary.
RoutesComplete ==
  /\ kubernetes => routes = NoRoutes
  /\ routes = NoRoutes \/ Complete(routes)
  /\ ~kubernetes /\ pc \in PastReconcile => Complete(routes)
  /\ pc \in PastGate => Complete(seen)

RoutesHome ==
  /\ status.phase \in AtRest \cup {"Finalising"} => routes \in Base
  /\ pc \in Homeward => routes \in Base
  /\ pc = "succeed" => cd.phase = "Finalising"
  /\ pc = "resume" => status.phase = "Progressing"

RestInv == StatusIsRead /\ RoutesComplete /\ RoutesHome

\* The splits the handler asks for are complete.
LEMMA SplitsComplete ==
  /\ Complete(AllToPrimary) /\ Complete(AllToCanary) /\ Complete(Split(totalWeight, 0, TRUE))
  /\ AllToPrimary \in Base /\ NoRoutes \in Base
BY DEF Complete, AllToPrimary, AllToCanary, Split, totalWeight, Base

\* What SetRoutes leaves, and what GetRoutes reports.
LEMMA RoutesSet ==
  ASSUME NEW r, SetRoutes(r)
  PROVE  (kubernetes => routes' = routes) /\ (~kubernetes => routes' = r)
BY DEF SetRoutes

\* GetRoutes reports complete splits only.
LEMMA RoutesGot ==
  ASSUME NEW s, ~kubernetes => Complete(routes)
  PROVE  Complete(GetRoutes(s))
BY SplitsComplete DEF GetRoutes

\* The phases the handler writes.
LEMMA PhaseSet ==
  ASSUME status \in Status
  PROVE  \A phase : SyncStatus(phase) \/ SetStatusPhase(phase) => status'.phase = phase
BY DEF SyncStatus, SetStatusPhase, Status

\* The writes of the counters keep the phase.
LEMMA PhaseKept ==
  ASSUME status \in Status
  PROVE  \A n : SetStatusWeight(n) \/ SetStatusIterations(n) \/ SetStatusFailedChecks(n)
                  => status'.phase = status.phase
BY DEF SetStatusWeight, SetStatusIterations, SetStatusFailedChecks, Status

\* The routes are where they should be before the first tick.
LEMMA RestInvInit == Init => RestInv
BY SplitsComplete DEF Init, RestInv, StatusIsRead, RoutesComplete, RoutesHome,
   PastReconcile, PastGate, Homeward

\* Every step keeps the routes where the phase and the next write say.
LEMMA RestInvNext == TypeInv /\ RestInv /\ [Next]_vars => RestInv'
<1> SUFFICES ASSUME TypeInv, RestInv, [Next]_vars PROVE RestInv'
  OBVIOUS
<1>0. /\ status \in Status /\ cd \in Status /\ seen \in Splits /\ pc \in Labels
      /\ canarySpec \in Canaries
  BY DEF TypeInv, TypeOK
<1>k. kubernetes' = kubernetes
  BY SpecFixed
<1> USE <1>0, <1>k DEF RestInv, StatusIsRead, RoutesComplete, RoutesHome, PastReconcile,
             PastGate, Homeward, Labels, Goto, cluster, locals
<1>1. CASE Begin
  BY <1>1 DEF Begin
<1>2. CASE InitializePrimary
  BY <1>2 DEF InitializePrimary
<1>3. CASE InitializeScaleDown
  BY <1>3 DEF InitializeScaleDown
<1>4. CASE ReconcileRoutes
  BY <1>4, RoutesSet, SplitsComplete DEF ReconcileRoutes
<1>4a. CASE ReconcileResets
  BY <1>4a, RoutesSet, SplitsComplete DEF ReconcileResets
<1>5. CASE ShouldAdvance
  BY <1>5, ReturnType DEF ShouldAdvance
<1>6. CASE GateClosed
  BY <1>6, ReturnType, PhaseSet DEF GateClosed, AtRest
<1>7. CASE GateApproves
  BY <1>7, PhaseSet DEF GateApproves, AtRest
<1>8. CASE ResumeScaleUp
  BY <1>8, ReturnType DEF ResumeScaleUp
<1>9. CASE GatePasses
  BY <1>9, RoutesGot DEF GatePasses
<1>10. CASE PrimaryNotReady
  BY <1>10, ReturnType DEF PrimaryNotReady
<1>11. CASE CheckInitialized
  BY <1>11, ReturnType, PhaseSet DEF CheckInitialized, AtRest
<1>12. CASE CheckScaleUp
  BY <1>12 DEF CheckScaleUp
<1>13. CASE StartAnalysis
  BY <1>13, ReturnType, PhaseSet DEF StartAnalysis, AtRest
<1>14. CASE RestartAnalysis
  BY <1>14, RoutesSet, SplitsComplete DEF RestartAnalysis
<1>15. CASE CheckCanaryReady
  BY <1>15 DEF CheckCanaryReady
<1>15a. CASE RevisionUnread
  BY <1>15a, BoundsAssumption DEF RevisionUnread
<1>16. CASE SkipRoutes
  BY <1>16, RoutesSet, SplitsComplete DEF SkipRoutes
<1>17. CASE SkipScaleDown
  BY <1>17 DEF SkipScaleDown
<1>18. CASE SkipSucceed
  BY <1>18, ReturnType, PhaseSet DEF SkipSucceed
<1>19. CASE SkipFails
  BY <1>19 DEF SkipFails, SkipLabels
<1>20. CASE RollbackRoutes
  BY <1>20, RoutesSet, SplitsComplete, PastInitialize DEF RollbackRoutes
<1>21. CASE RollbackScaleDown
  BY <1>21 DEF RollbackScaleDown
<1>22. CASE RollbackFailed
  BY <1>22, ReturnType, PhaseSet DEF RollbackFailed
<1>23. CASE ShiftNothing
  BY <1>23, ReturnType DEF ShiftNothing
<1>24. CASE ShiftAll
  BY <1>24, RoutesSet, SplitsComplete, PastInitialize DEF ShiftAll
<1>25. CASE ShiftStep
  BY <1>25, RoutesSet, SplitsComplete, ShiftBackType, PastInitialize DEF
     ShiftStep, AtRest, Complete, Shifting
<1>26. CASE Finalise
  BY <1>26, ReturnType, PhaseSet, SplitsComplete DEF Finalise
<1>27. CASE FinaliseScaleDown
  BY <1>27 DEF FinaliseScaleDown
<1>28. CASE Succeed
  BY <1>28, ReturnType, PhaseSet DEF Succeed
<1>29. CASE CheckFails
  BY <1>29, ReturnType, PhaseKept DEF CheckFails
<1>30. CASE RaiseWeight
  BY <1>30, RoutesSet, IncreaseType DEF RaiseWeight, AtRest, Complete,
     Analysing
<1>31. CASE HoldWeight
  BY <1>31, ReturnType DEF HoldWeight
<1>32. CASE RecordWeight
  BY <1>32, ReturnType, PhaseKept DEF RecordWeight
<1>33. CASE IterateAB
  BY <1>33, RoutesSet, SplitsComplete DEF IterateAB, AtRest, Analysing
<1>34. CASE IterateBlueGreen
  <2>1. /\ pc = "act" /\ pc' = "iterate" /\ UNCHANGED <<status, cd, seen>>
        /\ status.phase \notin AtRest \cup {"Finalising"}
    BY <1>34 DEF IterateBlueGreen, Analysing, AtRest
  <2>2. routes' = routes \/ SetRoutes(Split(totalWeight, 0, TRUE))
    BY <1>34 DEF IterateBlueGreen
  <2>3. CASE routes' = routes
    BY <2>1, <2>3
  <2>4. CASE SetRoutes(Split(totalWeight, 0, TRUE))
    <3>1. (kubernetes => routes' = NoRoutes) /\ (~kubernetes => Complete(routes'))
      BY <2>4, SplitsComplete DEF SetRoutes
    <3>2. QED
      BY <2>1, <3>1
  <2>5. QED
    BY <2>2, <2>3, <2>4
<1>35. CASE RecordIteration
  BY <1>35, ReturnType, PhaseKept DEF RecordIteration
<1>36. CASE PromotionGateClosed
  BY <1>36, ReturnType, PhaseSet DEF PromotionGateClosed, AtRest
<1>37. CASE RouteToGreen
  BY <1>37, RoutesSet, SplitsComplete DEF RouteToGreen, AtRest, StepsDone,
     Analysing
<1>38. CASE ReadyToPromote
  BY <1>38 DEF ReadyToPromote, StepsDone, Analysing
<1>39. CASE PromoteConfigs
  BY <1>39 DEF PromoteConfigs
<1>40. CASE PromoteWorkload
  BY <1>40 DEF PromoteWorkload
<1>41. CASE Promoted
  BY <1>41, ReturnType, PhaseSet DEF Promoted, AtRest
<1>42. CASE HandlerReturns
  BY <1>42, ReturnType DEF HandlerReturns
<1>43. CASE PrimaryRolledOut
  BY <1>43 DEF PrimaryRolledOut
<1>44. CASE Edit
  BY <1>44 DEF Edit
<1>45. CASE UNCHANGED vars
  BY <1>45 DEF vars
<1>46. QED
  BY <1>1, <1>2, <1>3, <1>4, <1>5, <1>6, <1>7, <1>8, <1>9, <1>10, <1>11,
     <1>12, <1>13, <1>14, <1>15, <1>16, <1>17, <1>18, <1>19, <1>20, <1>21,
     <1>22, <1>23, <1>24, <1>25, <1>26, <1>27, <1>28, <1>29, <1>30, <1>31,
     <1>32, <1>33, <1>34, <1>35, <1>36, <1>37, <1>38, <1>39, <1>40, <1>41,
     <1>42, <1>43, <1>44, <1>45, <1>4a, <1>15a
     DEF Next, Advance

\* Whatever fails and whenever the user edits: with no rollout under way all
\* traffic goes to the primary and none is mirrored.
THEOREM RestIsPrimary == Spec => []AtRestAllToPrimary
<1>1. RestInv => AtRestAllToPrimary
  BY DEF RestInv, RoutesHome, AtRestAllToPrimary, Base
<1>2. QED
  BY TypeInvInit, TypeInvNext, RestInvInit, RestInvNext, <1>1, PTL DEF Spec

-----------------------------------------------------------------------------
(* No promotion past the threshold, as long as no hook holds promotions. *)

\* The phase WaitingPromotion is the hook's; from Progressing the handler gets
\* to Promote only below the threshold.
ThresholdKept ==
  /\ status.phase # "WaitingPromotion"
  /\ pc \in {"promote", "promoteWorkload", "promoted"} =>
       status.failedChecks < GetAnalysisThreshold

ThresholdInv == "confirm-promotion" \in Hooks \/ ThresholdKept

\* Every step keeps the failed checks of a promotion below the threshold.
LEMMA ThresholdInvNext ==
  ASSUME TypeInv, StatusIsRead, ThresholdKept, "confirm-promotion" \notin Hooks,
         [Next]_vars
  PROVE  ThresholdKept'
<1>0. status \in Status /\ GetAnalysisThreshold' = GetAnalysisThreshold
  BY SpecFixed DEF TypeInv, TypeOK
<1>a. GetAnalysisThreshold \in Nat /\ status.failedChecks \in Nat
  BY <1>0, CanariesAssumption DEF TypeInv, TypeOK, GetAnalysisThreshold,
     Analysis, CanarySpec, AnalysisFields, Status
<1> USE <1>0 DEF ThresholdKept, Goto, cluster, locals
<1>1. CASE Begin \/ InitializePrimary \/ InitializeScaleDown \/
         ReconcileRoutes \/ GatePasses \/ CheckScaleUp \/ RestartAnalysis \/
         CheckCanaryReady \/ SkipRoutes \/ SkipScaleDown \/ RollbackRoutes \/
         RollbackScaleDown \/ ShiftAll \/ ShiftStep \/ FinaliseScaleDown \/
         RaiseWeight \/ IterateAB \/ IterateBlueGreen \/ RouteToGreen \/
         RevisionUnread \/ SkipFails \/ PrimaryRolledOut \/ Edit \/
         ReconcileResets
  BY <1>1 DEF Begin, InitializePrimary, InitializeScaleDown, ReconcileRoutes,
     GatePasses, CheckScaleUp, RestartAnalysis, CheckCanaryReady, SkipRoutes,
     SkipScaleDown, RollbackRoutes, RollbackScaleDown, ShiftAll, ShiftStep,
     FinaliseScaleDown, RaiseWeight, IterateAB, IterateBlueGreen,
     RouteToGreen, RevisionUnread, SkipFails, PrimaryRolledOut, Edit,
     ReconcileResets, SkipLabels
<1>2. CASE ShouldAdvance \/ ResumeScaleUp \/ PrimaryNotReady \/ ShiftNothing
         \/ HoldWeight \/ HandlerReturns
  BY <1>2, ReturnType DEF ShouldAdvance, ResumeScaleUp, PrimaryNotReady,
     ShiftNothing, HoldWeight, HandlerReturns
<1>3. CASE GateClosed \/ GateApproves \/ CheckInitialized \/ StartAnalysis \/
         SkipSucceed \/ RollbackFailed \/ Finalise \/ Succeed \/
         PromotionGateClosed \/ Promoted
  BY <1>3, ReturnType, PhaseSet DEF GateClosed, GateApproves,
     CheckInitialized, StartAnalysis, SkipSucceed, RollbackFailed, Finalise,
     Succeed, PromotionGateClosed, Promoted
<1>4. CASE CheckFails \/ RecordWeight \/ RecordIteration
  BY <1>4, ReturnType, PhaseKept DEF CheckFails, RecordWeight, RecordIteration
<1>5. CASE ReadyToPromote
  BY <1>5, <1>a DEF ReadyToPromote, StatusIsRead, StepsDone, Analysing,
     mustRollback
<1>6. CASE PromoteConfigs \/ PromoteWorkload
  BY <1>6 DEF PromoteConfigs, PromoteWorkload
<1>7. CASE UNCHANGED vars
  BY <1>7 DEF vars
<1>8. QED
  BY <1>1, <1>2, <1>3, <1>4, <1>5, <1>6, <1>7 DEF Next, Advance

\* Without a confirm-promotion hook no revision is promoted whose failed checks
\* have reached the threshold.
THEOREM ThresholdHolds == Spec => []ThresholdUnlessHeld
<1>1. Init => ThresholdInv
  BY DEF Init, ThresholdInv, ThresholdKept, NewStatus
<1>2. TypeInv /\ RestInv /\ ThresholdInv /\ [Next]_vars => ThresholdInv'
  BY ThresholdInvNext, SpecFixed DEF RestInv, ThresholdInv
<1>3. ThresholdInv => ThresholdUnlessHeld
  BY DEF ThresholdInv, ThresholdKept, ThresholdUnlessHeld, NoPromotionPastThreshold
<1>4. QED
  BY TypeInvInit, TypeInvNext, RestInvInit, RestInvNext, <1>1, <1>2, <1>3, PTL DEF Spec

-----------------------------------------------------------------------------
(* Traffic returns to a primary that is ready. *)

\* The writes between the check of the primary and the end of its tick, up to
\* the update that makes the primary not ready again.
Checked == PastGate \ ({"promoted"} \cup SkipLabels)

ReadyKept == pc \notin SkipLabels /\ (pc \in Checked => primaryReady)
ReadyInv == SkipAnalysis \/ ReadyKept

\* Every step keeps the primary ready past the check.
LEMMA ReadyInvNext ==
  ASSUME ~SkipAnalysis, TypeInv, ReadyKept, [Next]_vars
  PROVE  ReadyKept'
<1>0. pc \in Labels
  BY DEF TypeInv, TypeOK
<1> USE <1>0 DEF ReadyKept, Checked, PastGate, PastReconcile, SkipLabels, Labels,
             Goto, cluster, locals
<1>1. CASE Begin \/ InitializePrimary \/ InitializeScaleDown \/
         ReconcileRoutes \/ GateApproves \/ CheckScaleUp \/ RollbackScaleDown
         \/ FinaliseScaleDown \/ PrimaryRolledOut \/ Edit \/ ReconcileResets
  BY <1>1 DEF Begin, InitializePrimary, InitializeScaleDown, ReconcileRoutes,
     GateApproves, CheckScaleUp, RollbackScaleDown, FinaliseScaleDown,
     PrimaryRolledOut, Edit, ReconcileResets
<1>2. CASE ShouldAdvance \/ ResumeScaleUp \/ PrimaryNotReady \/ ShiftNothing
         \/ HoldWeight \/ HandlerReturns \/ GateClosed \/ CheckInitialized \/
         StartAnalysis \/ SkipSucceed \/ RollbackFailed \/ Finalise \/ Succeed
         \/ PromotionGateClosed \/ Promoted \/ CheckFails \/ RecordWeight \/
         RecordIteration
  BY <1>2, ReturnType DEF ShouldAdvance, ResumeScaleUp, PrimaryNotReady,
     ShiftNothing, HoldWeight, HandlerReturns, GateClosed, CheckInitialized,
     StartAnalysis, SkipSucceed, RollbackFailed, Finalise, Succeed,
     PromotionGateClosed, Promoted, CheckFails, RecordWeight, RecordIteration
<1>3. CASE RestartAnalysis \/ RollbackRoutes \/ ShiftAll \/ ShiftStep \/
         RaiseWeight \/ IterateAB \/ IterateBlueGreen \/ RouteToGreen
  BY <1>3, PastInitialize DEF RestartAnalysis, RollbackRoutes, ShiftAll,
     ShiftStep, RaiseWeight, IterateAB, IterateBlueGreen, RouteToGreen
<1>4. CASE GatePasses \/ CheckCanaryReady \/ RevisionUnread \/ ReadyToPromote
  BY <1>4, PastInitialize DEF GatePasses, CheckCanaryReady, RevisionUnread,
     ReadyToPromote
<1>5. CASE SkipRoutes \/ SkipScaleDown \/ SkipFails \/ PromoteConfigs \/
         PromoteWorkload
  BY <1>5 DEF SkipRoutes, SkipScaleDown, SkipFails, PromoteConfigs,
     PromoteWorkload
<1>6. CASE UNCHANGED vars
  BY <1>6 DEF vars
<1>7. QED
  BY <1>1, <1>2, <1>3, <1>4, <1>5, <1>6 DEF Next, Advance

\* Unless the analysis is skipped, no SetRoutes gives the primary more traffic
\* while its rolling update is under way.
THEOREM ReadyBeforeTraffic == Spec => PrimaryReadyBeforeTraffic
<1> DEFINE Step == pc # "reconcile" => TrafficToReadyPrimary
<1> USE DEF TrafficToReadyPrimary
<1>1. Init => ReadyInv
  BY DEF Init, ReadyInv, ReadyKept, Checked, PastGate, PastReconcile, SkipLabels
<1>2. TypeInv /\ ReadyInv /\ [Next]_vars => ReadyInv'
  BY ReadyInvNext, SpecFixed DEF ReadyInv
<1>3. ASSUME TypeInv, ReadyInv, [Next]_vars
      PROVE  [Step]_vars
  <2>1. CASE UNCHANGED routes
    <3>1. routes \in Splits
      BY <1>3 DEF TypeInv, TypeOK
    <3>2. QED
      BY <2>1, <3>1 DEF Splits
  <2>2. CASE routes = NoRoutes \/ SkipAnalysis
    BY <2>2
  <2>3. CASE pc \in Checked
    <3>1. primaryReady \/ SkipAnalysis
      BY <1>3, <2>3 DEF ReadyInv, ReadyKept
    <3>2. QED
      BY <3>1
  <2>4. \/ UNCHANGED routes \/ routes = NoRoutes \/ SkipAnalysis \/ pc \in Checked
        \/ pc = "reconcile"
    <3>1. CASE Begin \/ InitializePrimary \/ InitializeScaleDown \/
             ReconcileRoutes \/ ShouldAdvance \/ GateClosed \/ GateApproves \/
             ResumeScaleUp \/ GatePasses \/ PrimaryNotReady \/
             CheckInitialized \/ CheckScaleUp \/ StartAnalysis \/
             CheckCanaryReady \/ SkipScaleDown \/ SkipSucceed \/
             RollbackScaleDown \/ RollbackFailed \/ ShiftNothing \/ Finalise
             \/ FinaliseScaleDown \/ Succeed \/ CheckFails \/ HoldWeight \/
             RecordWeight \/ RecordIteration \/ PromotionGateClosed \/
             ReadyToPromote \/ PromoteConfigs \/ PromoteWorkload \/ Promoted
             \/ RevisionUnread \/ SkipFails \/ HandlerReturns \/ PrimaryRolledOut \/ Edit
      BY <3>1 DEF Begin, InitializePrimary, InitializeScaleDown,
         ReconcileRoutes, ShouldAdvance, GateClosed, GateApproves,
         ResumeScaleUp, GatePasses, PrimaryNotReady, CheckInitialized,
         CheckScaleUp, StartAnalysis, CheckCanaryReady, SkipScaleDown,
         SkipSucceed, RollbackScaleDown, RollbackFailed, ShiftNothing,
         Finalise, FinaliseScaleDown, Succeed, CheckFails, HoldWeight,
         RecordWeight, RecordIteration, PromotionGateClosed, ReadyToPromote,
         PromoteConfigs, PromoteWorkload, Promoted, RevisionUnread, SkipFails,
         HandlerReturns, PrimaryRolledOut, Edit, cluster
    <3>2. CASE RestartAnalysis \/ RollbackRoutes \/ ShiftAll \/ ShiftStep
             \/ RaiseWeight \/ IterateAB \/ IterateBlueGreen \/ RouteToGreen
      BY <3>2, <1>3, PastInitialize DEF RestartAnalysis, RollbackRoutes,
         ShiftAll, ShiftStep, RaiseWeight, IterateAB, IterateBlueGreen,
         RouteToGreen, ReadyInv, ReadyKept, Checked, PastGate, PastReconcile, SkipLabels,
         Labels
    <3>3. CASE SkipRoutes
      BY <3>3, <1>3 DEF SkipRoutes, ReadyInv, ReadyKept, SkipLabels
    <3>4. CASE UNCHANGED vars
      BY <3>4 DEF vars, cluster
    <3>5. CASE ReconcileResets
      BY <3>5 DEF ReconcileResets
    <3>6. QED
      BY <1>3, <3>1, <3>2, <3>3, <3>4, <3>5 DEF Next, Advance
  <2>5. QED
    BY <2>1, <2>2, <2>3, <2>4
<1>4. QED
  BY TypeInvInit, TypeInvNext, <1>1, <1>2, <1>3, PTL DEF Spec, PrimaryReadyBeforeTraffic

-----------------------------------------------------------------------------
(* What the refinement needs beyond these invariants: the phases in which     *)
(* the handler comes to each of its writes.                                   *)

\* The writes the handler gets to in a rollout only.
RolloutLabels ==
  SkipLabels \cup {"revision", "act", "rollbackScale", "rollbackSync", "finalise",
                   "weight", "iterate", "promote", "promoteWorkload", "promoted",
                   "succeed"}

PromoteLabels == {"promote", "promoteWorkload", "promoted"}

Analysed == {"Progressing", "WaitingPromotion"}

PhasesOfLabels ==
  /\ pc = "check" => status.phase \in AtRest
  /\ pc = "start" => status.phase \in AtRest \cup Analysed
  /\ pc \in RolloutLabels => status.phase \in InRollout
  /\ pc \in PromoteLabels => status.phase \in Analysed
  /\ pc = "finalise" => status.phase = "Promoting"

StageInv ==
  /\ PhasesOfLabels
  /\ pc = "start" => routes \in Base
  /\ primary = NoWorkload => status.phase = "Initializing"
  /\ status.phase = "Waiting" => "confirm-rollout" \in Hooks

\* What does not exist is no workload.
LEMMA NoneIsNoWorkload == NoWorkload \notin Workloads
BY DEF NoWorkload, Workloads

\* Nothing is waiting, and nothing under way, before the first tick.
LEMMA StageInvInit == Init => StageInv
BY DEF Init, StageInv, PhasesOfLabels, RolloutLabels, PromoteLabels, SkipLabels,
   NewStatus

\* Where the handler stands when it has returned.
LEMMA ReturnIdle == Return => pc' = "idle"
BY DEF Return

\* Every step keeps the phases of the labels.
LEMMA StageInvNext ==
  ASSUME TypeInv, RestInv, StageInv, [Next]_vars
  PROVE  StageInv'
<1>0. /\ status \in Status /\ cd \in Status /\ pc \in Labels /\ Hooks' = Hooks
      /\ pc \notin {"idle", "resume"} => cd = status
      /\ pc \notin {"idle", "initialize"} => primary # NoWorkload
      /\ status.phase \in AtRest => routes \in Base
  BY SpecFixed, NoneIsNoWorkload DEF TypeInv, TypeOK, PrimaryExists, RestInv,
     StatusIsRead, RoutesHome
<1>p. status.phase \in Phases
  BY <1>0 DEF Status
<1> USE <1>0, <1>p DEF StageInv, PhasesOfLabels, RolloutLabels, PromoteLabels, Analysed,
             SkipLabels, InRollout, AtRest, Labels, Goto, cluster, locals
<1>1. CASE Begin \/ InitializeScaleDown \/ PrimaryRolledOut \/ Edit \/ UNCHANGED vars
  BY <1>1 DEF Begin, InitializeScaleDown, PrimaryRolledOut, Edit, vars
<1>2. CASE InitializePrimary
  BY <1>2 DEF InitializePrimary
<1>3. CASE ReconcileRoutes \/ ReconcileResets
  BY <1>3 DEF ReconcileRoutes, ReconcileResets
<1>4. CASE ShouldAdvance \/ ResumeScaleUp \/ PrimaryNotReady \/ ShiftNothing
         \/ HoldWeight \/ HandlerReturns
  BY <1>4, ReturnIdle DEF ShouldAdvance, ResumeScaleUp, PrimaryNotReady,
     ShiftNothing, HoldWeight, HandlerReturns
<1>5. CASE GateClosed
  BY <1>5, ReturnIdle, PhaseSet DEF GateClosed
<1>6. CASE GateApproves
  BY <1>6, PhaseSet DEF GateApproves
<1>7. CASE GatePasses
  BY <1>7, <1>p DEF GatePasses, Phases
<1>8. CASE CheckInitialized \/ StartAnalysis \/ SkipSucceed \/ RollbackFailed
         \/ Finalise \/ Succeed \/ PromotionGateClosed \/ Promoted
  BY <1>8, ReturnIdle, PhaseSet DEF CheckInitialized, StartAnalysis, SkipSucceed,
     RollbackFailed, Finalise, Succeed, PromotionGateClosed, Promoted, StepsDone,
     Analysing
<1>9. CASE CheckScaleUp
  BY <1>9 DEF CheckScaleUp
<1>10. CASE RestartAnalysis
  BY <1>10, RoutesSet, SplitsComplete DEF RestartAnalysis, hasCanaryRevisionChanged,
     RestInv, RoutesComplete
<1>11. CASE CheckCanaryReady \/ RevisionUnread
  BY <1>11 DEF CheckCanaryReady, RevisionUnread
<1>12. CASE SkipRoutes \/ SkipScaleDown \/ SkipFails \/ RollbackRoutes
         \/ RollbackScaleDown
  BY <1>12, PastInitialize DEF SkipRoutes, SkipScaleDown, SkipFails, RollbackRoutes,
     RollbackScaleDown
<1>13. CASE ShiftAll \/ ShiftStep \/ FinaliseScaleDown
  BY <1>13 DEF ShiftAll, ShiftStep, FinaliseScaleDown, Shifting
<1>14. CASE CheckFails \/ RecordWeight \/ RecordIteration
  BY <1>14, ReturnIdle, PhaseKept DEF CheckFails, RecordWeight, RecordIteration
<1>15. CASE RaiseWeight \/ IterateAB \/ IterateBlueGreen \/ RouteToGreen
         \/ ReadyToPromote
  BY <1>15 DEF RaiseWeight, IterateAB, IterateBlueGreen, RouteToGreen,
     ReadyToPromote, StepsDone, Analysing
<1>16. CASE PromoteConfigs \/ PromoteWorkload
  <2>1. primary' # NoWorkload
    <3>1. primary \in Workloads /\ target \in Workloads
      BY <1>16, <1>0 DEF PromoteConfigs, PromoteWorkload, TypeInv, TypeOK
    <3>2. primary' \in Workloads
      BY <1>16, <3>1 DEF PromoteConfigs, PromoteWorkload, Workloads, TypeInv, CopyRead
    <3>3. QED
      BY <3>2, NoneIsNoWorkload
  <2>2. QED
    BY <1>16, <2>1 DEF PromoteConfigs, PromoteWorkload
<1>17. QED
  BY <1>1, <1>2, <1>3, <1>4, <1>5, <1>6, <1>7, <1>8, <1>9, <1>10, <1>11, <1>12,
     <1>13, <1>14, <1>15, <1>16 DEF Next, Advance

-----------------------------------------------------------------------------
(* The mapping. *)

\* The stage of every phase.
LEMMA StageOf ==
  /\ status.phase \in AtRest => Stage = "rest"
  /\ status.phase = "Waiting" => Stage = "waiting"
  /\ status.phase \in Analysed => Stage = "analysis"
  /\ status.phase \in {"Promoting", "Finalising"} => Stage = "promotion"
BY DEF Stage, AtRest, Analysed

\* ... and after a step.
LEMMA NextStageOf ==
  /\ status'.phase \in AtRest => Stage' = "rest"
  /\ status'.phase = "Waiting" => Stage' = "waiting"
  /\ status'.phase \in Analysed => Stage' = "analysis"
  /\ status'.phase \in {"Promoting", "Finalising"} => Stage' = "promotion"
BY DEF Stage, AtRest, Analysed

\* In a rollout traffic may go to the canary or be withdrawn.
LEMMA TrafficMoves ==
  ASSUME status.phase \in InRollout, UNCHANGED <<status, primary>>
  PROVE  [R!Next]_R!vars
<1>1. R!UnderWay /\ Stage' = Stage
  BY StageOf DEF R!UnderWay, Stage, InRollout, Analysed
<1>2. Traffic' \in {"primary", "shared"}
  BY DEF Traffic
<1>3. R!Share \/ R!Withdraw
  BY <1>1, <1>2 DEF R!Share, R!Withdraw, R!UnderWay
<1>4. QED
  BY <1>3 DEF R!Next

\* Every step of the handler, or around it, is a step of a rollout or none.
LEMMA StepImplements ==
  ASSUME TypeInv, RestInv, StageInv, [Next]_vars
  PROVE  [R!Next]_R!vars
<1>0. /\ status \in Status /\ cd \in Status /\ pc \in Labels /\ target \in Workloads
      /\ pc \notin {"idle", "resume"} => cd = status
      /\ pc \notin {"idle", "initialize"} => primary \in Workloads /\ primary # NoWorkload
      /\ status.phase \in AtRest \cup {"Finalising"} => Traffic = "primary"
      /\ pc \in Homeward \cup {"start"} => Traffic = "primary"
  BY NoneIsNoWorkload DEF TypeInv, TypeOK, PrimaryExists, RestInv, StatusIsRead,
     RoutesHome, StageInv, Traffic, Base
<1>l. PhasesOfLabels
  BY DEF StageInv
<1> USE <1>0, <1>l DEF Goto, cluster, locals
<1>1. CASE UNCHANGED <<status, routes, primary>>
  BY <1>1 DEF R!vars, Stage, Traffic
<1>2. CASE Begin \/ InitializeScaleDown \/ ShouldAdvance \/ ResumeScaleUp
         \/ GatePasses \/ PrimaryNotReady \/ CheckScaleUp \/ CheckCanaryReady
         \/ RevisionUnread \/ SkipScaleDown \/ SkipFails \/ RollbackScaleDown
         \/ ShiftNothing \/ FinaliseScaleDown \/ HoldWeight \/ ReadyToPromote
         \/ HandlerReturns \/ PrimaryRolledOut \/ Edit \/ UNCHANGED vars
  <2>1. UNCHANGED <<status, routes, primary>>
    BY <1>2 DEF Begin, InitializeScaleDown, ShouldAdvance, ResumeScaleUp, GatePasses,
       PrimaryNotReady, CheckScaleUp, CheckCanaryReady, RevisionUnread,
       SkipScaleDown, SkipFails, RollbackScaleDown, ShiftNothing,
       FinaliseScaleDown, HoldWeight, ReadyToPromote, HandlerReturns,
       PrimaryRolledOut, Edit, vars
  <2>2. QED
    BY <1>1, <2>1
<1>3. CASE CheckFails \/ RecordWeight \/ RecordIteration
  <2>1. status'.phase = status.phase /\ UNCHANGED <<routes, primary>>
    BY <1>3, PhaseKept DEF CheckFails, RecordWeight, RecordIteration
  <2>2. QED
    BY <2>1 DEF R!vars, Stage, Traffic
<1>4. CASE ReconcileRoutes
  <2>1. routes' = routes \/ (routes = NoRoutes /\ routes' = AllToPrimary)
    BY <1>4 DEF ReconcileRoutes, SetRoutes
  <2>2. UNCHANGED <<status, primary>>
    BY <1>4 DEF ReconcileRoutes
  <2>3. QED
    BY <2>1, <2>2 DEF R!vars, Stage, Traffic
<1>4a. CASE ReconcileResets
  <2>1. UNCHANGED <<status, primary>> /\ Traffic = "shared"
    BY <1>4a DEF ReconcileResets, Traffic
  <2>2. status.phase \notin AtRest /\ Traffic' \in {"primary", "shared"}
    BY <2>1 DEF Traffic
  <2>3. Stage # "rest" /\ Stage' = Stage
    BY <2>1, <2>2, StageOf DEF Stage, Status, Phases, AtRest, Analysed
  <2>4. CASE Traffic' = "primary"
    BY <2>1, <2>3, <2>4 DEF R!Next, R!Withdraw
  <2>5. CASE Traffic' = "shared"
    BY <2>1, <2>3, <2>5 DEF R!vars
  <2>6. QED
    BY <2>2, <2>4, <2>5
<1>5. CASE SkipRoutes \/ RollbackRoutes \/ RestartAnalysis \/ ShiftAll \/ ShiftStep
         \/ RaiseWeight \/ IterateAB \/ IterateBlueGreen \/ RouteToGreen
  <2>1. status.phase \in InRollout
    BY <1>5, PastInitialize DEF SkipRoutes, RollbackRoutes, RestartAnalysis,
       ShiftAll, ShiftStep, RaiseWeight, IterateAB, IterateBlueGreen,
       RouteToGreen, PhasesOfLabels, RolloutLabels, SkipLabels
  <2>2. UNCHANGED <<status, primary>>
    BY <1>5 DEF SkipRoutes, RollbackRoutes, RestartAnalysis, ShiftAll, ShiftStep,
       RaiseWeight, IterateAB, IterateBlueGreen, RouteToGreen
  <2>3. QED
    BY <2>1, <2>2, TrafficMoves
<1>6. CASE InitializePrimary
  <2>1. UNCHANGED <<status, routes>>
    BY <1>6 DEF InitializePrimary
  <2>2. CASE primary = NoWorkload
    <3>1. primary' \in Workloads
      BY <1>6, <2>2 DEF InitializePrimary
    <3>2. Stage = "rest" /\ Stage' = Stage /\ Traffic' = Traffic
      BY <2>1, <2>2, StageOf DEF StageInv, AtRest, Stage, Traffic
    <3>3. QED
      BY <2>2, <3>1, <3>2 DEF R!Next, R!Create
  <2>3. CASE primary # NoWorkload
    BY <1>1, <1>6, <2>1, <2>3 DEF InitializePrimary
  <2>4. QED
    BY <2>2, <2>3
<1>7. CASE GateClosed
  <2>1. primary # NoWorkload /\ UNCHANGED <<routes, primary>>
    BY <1>7 DEF GateClosed
  <2>2. CASE cd.phase = "Waiting"
    BY <1>1, <1>7, <2>1, <2>2 DEF GateClosed
  <2>3. CASE cd.phase # "Waiting"
    <3>1. Stage' = "waiting" /\ Traffic' = Traffic
      BY <1>7, <2>1, <2>3, PhaseSet, NextStageOf DEF GateClosed, Traffic
    <3>2. QED
      BY <2>1, <3>1 DEF R!Next, R!Pause
  <2>4. QED
    BY <2>2, <2>3
<1>8. CASE GateApproves
  <2>1. status.phase = "Waiting" /\ status'.phase = "Progressing"
    BY <1>8, PhaseSet DEF GateApproves
  <2>2. UNCHANGED <<Traffic, primary>>
    BY <1>8 DEF GateApproves, Traffic
  <2>3. QED
    BY <2>1, <2>2, StageOf, NextStageOf DEF R!Next, R!Resume, Analysed
<1>9. CASE CheckInitialized
  <2>1. status'.phase = "Initialized" /\ UNCHANGED <<routes, primary>>
    BY <1>9, PhaseSet DEF CheckInitialized
  <2>2. Stage = "rest" /\ Stage' = "rest" /\ Traffic' = Traffic
    BY <1>9, <2>1, StageOf, NextStageOf DEF CheckInitialized, AtRest, Traffic
  <2>3. QED
    BY <2>1, <2>2 DEF R!vars
<1>10. CASE StartAnalysis
  <2>1. pc = "start" /\ status'.phase = "Progressing" /\ UNCHANGED <<routes, primary>>
    BY <1>10, PhaseSet DEF StartAnalysis
  <2>2. Stage \in {"rest", "analysis"}
    BY <2>1, StageOf DEF PhasesOfLabels
  <2>3. Traffic = "primary" /\ Traffic' = Traffic /\ primary # NoWorkload
    BY <2>1 DEF Traffic
  <2>4. QED
    BY <2>1, <2>2, <2>3, NextStageOf DEF R!Next, R!Start, Analysed
<1>11. CASE SkipSucceed \/ RollbackFailed \/ Succeed
  <2>1. status'.phase \in {"Succeeded", "Failed"} /\ UNCHANGED <<routes, primary>>
    BY <1>11, PhaseSet DEF SkipSucceed, RollbackFailed, Succeed
  <2>2. status.phase \in InRollout
    BY <1>11 DEF SkipSucceed, RollbackFailed, Succeed, PhasesOfLabels, RolloutLabels,
       SkipLabels
  <2>3. Traffic = "primary" /\ Traffic' = Traffic
    <3>1. CASE Succeed
      BY <2>1, <3>1 DEF Succeed, RestInv, RoutesHome, Traffic
    <3>2. CASE SkipSucceed \/ RollbackFailed
      BY <2>1, <3>2 DEF SkipSucceed, RollbackFailed, Homeward, Traffic
    <3>3. QED
      BY <1>11, <3>1, <3>2
  <2>4. R!UnderWay /\ Stage' = "rest"
    BY <2>1, <2>2, StageOf, NextStageOf DEF R!UnderWay, InRollout, Analysed, AtRest
  <2>5. QED
    BY <2>1, <2>3, <2>4 DEF R!Next, R!Finish
<1>12. CASE Finalise
  <2>1. status'.phase = "Finalising" /\ UNCHANGED <<routes, primary>>
    BY <1>12, PhaseSet DEF Finalise
  <2>2. status.phase = "Promoting"
    BY <1>12 DEF Finalise, PhasesOfLabels
  <2>3. QED
    BY <2>1, <2>2, StageOf, NextStageOf DEF R!vars, Traffic
<1>13. CASE PromotionGateClosed
  <2>1. status'.phase \in Analysed /\ status.phase \in Analysed
    BY <1>13, PhaseSet DEF PromotionGateClosed, StepsDone, Analysing, Analysed
  <2>2. UNCHANGED <<routes, primary>>
    BY <1>13 DEF PromotionGateClosed
  <2>3. QED
    BY <2>1, <2>2, StageOf, NextStageOf DEF R!vars, Traffic
<1>14. CASE PromoteConfigs \/ PromoteWorkload
  <2>1. UNCHANGED <<status, routes>>
    BY <1>14 DEF PromoteConfigs, PromoteWorkload
  <2>2. primary' \in Workloads
    BY <1>14 DEF PromoteConfigs, PromoteWorkload, Workloads, TypeInv, CopyRead
  <2>3. Stage = "analysis" \/ (Stage = "promotion" /\ Traffic = "primary")
    <3>1. CASE pc \in PromoteLabels
      BY <3>1, StageOf DEF PhasesOfLabels
    <3>2. CASE pc \in {"skipPromote", "skipWorkload"}
      BY <3>2, StageOf DEF PhasesOfLabels, RolloutLabels, SkipLabels, InRollout,
         Analysed, Homeward
    <3>3. QED
      BY <1>14, <3>1, <3>2 DEF PromoteConfigs, PromoteWorkload, PromoteLabels
  <2>4. Stage' = Stage /\ Traffic' = Traffic
    BY <2>1 DEF Stage, Traffic
  <2>5. QED
    BY <2>2, <2>3, <2>4 DEF R!Next, R!Update
<1>15. CASE Promoted
  <2>1. status'.phase = "Promoting" /\ UNCHANGED <<routes, primary>>
    BY <1>15, PhaseSet DEF Promoted
  <2>2. status.phase \in Analysed
    BY <1>15 DEF Promoted, PhasesOfLabels, PromoteLabels
  <2>3. Traffic' = Traffic
    BY <2>1 DEF Traffic
  <2>4. QED
    BY <2>1, <2>2, <2>3, StageOf, NextStageOf DEF R!Next, R!Promote
<1>16. QED
  BY <1>2, <1>3, <1>4, <1>4a, <1>5, <1>6, <1>7, <1>8, <1>9, <1>10, <1>11, <1>12, <1>13,
     <1>14, <1>15 DEF Next, Advance

\* The handler implements a rollout: whatever the strategy and the hooks, and
\* whatever fails, it ends none with traffic on the canary, starts none over it,
\* and changes no primary at rest or on hold.
THEOREM Refines == Spec => ImplementsRollout
<1>1. Init => R!Init
  BY StageOf, NoneIsNoWorkload DEF Init, R!Init, NewStatus, AtRest, Traffic
<1>2. QED
  BY TypeInvInit, TypeInvNext, RestInvInit, RestInvNext, StageInvInit, StageInvNext,
     StepImplements, <1>1, PTL DEF Spec, ImplementsRollout, R!Spec
=============================================================================
