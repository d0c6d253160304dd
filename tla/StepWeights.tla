---------------------------- MODULE StepWeights ----------------------------
(***************************************************************************)
(* The weight arithmetic of a canary analysis (pkg/controller/             *)
(* scheduler.go).  An analysis is a record with the fields of              *)
(* spec.analysis that the arithmetic reads:                                *)
(*   stepWeight, maxWeight, stepWeightPromotion \in Nat (0 when unset),    *)
(*   stepWeights, a sequence of naturals, and mirror, a Boolean.           *)
(* The traffic split is a record [primary, canary, mirrored].              *)
(***************************************************************************)
EXTENDS Integers, Sequences

totalWeight == 100

Least(a, b) == IF a < b THEN a ELSE b
Greatest(a, b) == IF a < b THEN b ELSE a

Split(p, c, m) == [primary |-> p, canary |-> c, mirrored |-> m]

\* The two splits every strategy starts from and ends with.
AllToPrimary == Split(totalWeight, 0, FALSE)
AllToCanary  == Split(0, totalWeight, FALSE)

-----------------------------------------------------------------------------
\* The canary weight at which the analysis stops and the canary is promoted.
maxWeight(a) ==
  IF a.stepWeights # <<>>
  THEN Least(totalWeight, a.stepWeights[Len(a.stepWeights)])
  ELSE IF a.maxWeight > 0 THEN a.maxWeight ELSE totalWeight

\* The first position of weight w in the list, its last element excepted.
PositionOf(sw, w) ==
  CHOOSE i \in 1 .. Len(sw) - 1 :
    sw[i] = w /\ \A j \in 1 .. i - 1 : sw[j] # w

\* Mutant: the listed weight itself instead of its distance from w.
nextStepWeight_NotRelative(a, w) ==
  LET sw == a.stepWeights
  IN  IF a.stepWeight > 0 \/ sw = <<>> THEN a.stepWeight
      ELSE IF \E i \in 1 .. Len(sw) - 1 : sw[i] = w
           THEN sw[PositionOf(sw, w) + 1]
           ELSE sw[1]

\* The step from canary weight w to the next one.
nextStepWeight(a, w) ==
  LET sw      == a.stepWeights
      maxStep == totalWeight - w
  IN  IF a.stepWeight > 0 \/ sw = <<>> THEN a.stepWeight
      ELSE IF maxStep = 0 THEN 1
      ELSE IF w = 0 THEN Least(maxStep, sw[1])
      ELSE IF \E i \in 1 .. Len(sw) - 1 : sw[i] = w
           THEN Least(maxStep, sw[PositionOf(sw, w) + 1] - w)
           ELSE maxStep

\* Mutant: the primary weight is not kept from going below zero.
Increase_PrimaryUnclamped(a, r) ==
  LET step == nextStepWeight(a, r.canary)
  IN  Split(r.primary - step, Least(totalWeight, r.canary + step), r.mirrored)

\* runCanary below the maximum: one mirrored step first when the analysis
\* mirrors, then one step of traffic, clamped to [0, totalWeight] except in the
\* step that follows mirroring.
Increase(a, r) ==
  LET step == nextStepWeight(a, r.canary)
  IN  IF a.mirror /\ r.canary = 0
      THEN IF ~r.mirrored THEN Split(totalWeight, 0, TRUE)
                          ELSE Split(totalWeight - step, step, FALSE)
      ELSE Split(Greatest(0, r.primary - step),
                 Least(totalWeight, r.canary + step), r.mirrored)

\* Mutant: the canary weight is not kept from going below zero.
ShiftBack_CanaryUnclamped(a, r) ==
  Split(Least(totalWeight, r.primary + a.stepWeightPromotion),
        r.canary - a.stepWeightPromotion, FALSE)

\* Mutant: the primary weight is not kept from going above 100.
ShiftBack_PrimaryUnclamped(a, r) ==
  Split(r.primary + a.stepWeightPromotion,
        Greatest(0, r.canary - a.stepWeightPromotion), FALSE)

\* runPromotionTrafficShift: one step of traffic back to the primary.
ShiftBack(a, r) ==
  Split(Least(totalWeight, r.primary + a.stepWeightPromotion),
        Greatest(0, r.canary - a.stepWeightPromotion), FALSE)
=============================================================================
