----------------------------- MODULE WeightWalk -----------------------------
(***************************************************************************)
(* The walk of the traffic split over one undisturbed rollout: runCanary   *)
(* raises the canary weight check after check up to the maximum, then      *)
(* runPromotionTrafficShift brings it back to zero.  Every analysis of the *)
(* constant set Analyses is walked; each is compared with the reference    *)
(* schedule that the documentation gives for it.                           *)
(***************************************************************************)
EXTENDS StepWeights, FiniteSets

CONSTANT Analyses   \* the analyses to walk

\* The fields of spec.analysis that the walk reads.
AnalysisFields ==
  [stepWeight : Nat, stepWeights : Seq(Nat), maxWeight : Nat,
   stepWeightPromotion : Nat, mirror : BOOLEAN]

ASSUME AnalysesAssumption == Analyses \subseteq AnalysisFields

VARIABLES
  analysis,    \* the analysis walked, fixed by Init
  split,       \* the traffic split the router holds
  increases,   \* number of steps that raised the canary weight
  decreases,   \* number of steps that lowered it
  promoting    \* the maximum was reached and the primary was updated

vars == <<analysis, split, increases, decreases, promoting>>

Init ==
  /\ analysis \in Analyses
  /\ split = AllToPrimary
  /\ increases = 0
  /\ decreases = 0
  /\ promoting = FALSE

\* Mutant: the weight is still raised when it is at the maximum.
RaiseWeight_AtMaximum ==
  /\ ~promoting
  /\ nextStepWeight(analysis, split.canary) > 0
  /\ split.canary <= maxWeight(analysis)
  /\ split' = Increase(analysis, split)
  /\ increases' = increases + 1
  /\ UNCHANGED <<analysis, decreases, promoting>>

\* One call of runCanary while the weight is below the maximum.
RaiseWeight ==
  /\ ~promoting
  /\ nextStepWeight(analysis, split.canary) > 0
  /\ split.canary < maxWeight(analysis)
  /\ split' = Increase(analysis, split)
  /\ increases' = increases + (IF split'.canary > split.canary THEN 1 ELSE 0)
  /\ UNCHANGED <<analysis, decreases, promoting>>

\* The call of runCanary at the maximum, which promotes.
ReachMaximum ==
  /\ ~promoting
  /\ nextStepWeight(analysis, split.canary) > 0
  /\ split.canary >= maxWeight(analysis)
  /\ promoting' = TRUE
  /\ UNCHANGED <<analysis, split, increases, decreases>>

\* One call of runPromotionTrafficShift, in one go or in steps.
LowerWeight ==
  /\ promoting
  /\ split.canary > 0
  /\ split' = IF analysis.stepWeightPromotion = 0
              THEN AllToPrimary
              ELSE ShiftBack(analysis, split)
  /\ decreases' = decreases + 1
  /\ UNCHANGED <<analysis, increases, promoting>>

Next == RaiseWeight \/ ReachMaximum \/ LowerWeight

Spec == Init /\ [][Next]_vars /\ WF_vars(Next)

-----------------------------------------------------------------------------
TypeOK ==
  /\ analysis \in Analyses
  /\ split \in [primary : 0 .. totalWeight, canary : 0 .. totalWeight,
                mirrored : BOOLEAN]
  /\ increases \in Nat
  /\ decreases \in Nat
  /\ promoting \in BOOLEAN

\* The least number of steps of size s that cover w.
Ceiling(w, s) == (w + s - 1) \div s

Listed(sw) == {sw[i] : i \in 1 .. Len(sw)}

\* Every split the walk hands to the router adds up to 100: runCanary and
\* runPromotionTrafficShift clamp the two weights apart from each other, and
\* the step after mirroring clamps none.
SplitCoversTraffic == split.primary + split.canary = totalWeight

\* With stepWeights the canary weights nextStepWeight leads to are those of the
\* list, in the order of the list and none skipped.
FollowsTheList ==
  [][ analysis.stepWeights # <<>> /\ split'.canary > split.canary =>
        /\ split'.canary \in Listed(analysis.stepWeights)
        /\ \A w \in Listed(analysis.stepWeights) :
             w <= split.canary \/ w >= split'.canary ]_vars

\* The documented duration of an analysis (interval * maxWeight / stepWeight,
\* rounded up; one interval per listed weight): runCanary is called with a
\* weight below the maximum exactly that often, mirroring apart.
DocumentedDuration ==
  promoting =>
    increases = IF analysis.stepWeights # <<>>
                THEN Len(analysis.stepWeights)
                ELSE Ceiling(maxWeight(analysis), analysis.stepWeight)

\* Every walk reaches the maximum and then returns all traffic to the primary,
\* in as many promotion steps as stepWeightPromotion needs and no more.
WalkReturns ==
  <>(/\ promoting
     /\ split = AllToPrimary
     /\ decreases = IF analysis.stepWeightPromotion = 0 THEN 1
                    ELSE Ceiling(IF analysis.stepWeights # <<>>
                                 THEN maxWeight(analysis)
                                 ELSE Least(totalWeight, increases * analysis.stepWeight),
                                 analysis.stepWeightPromotion))
=============================================================================
