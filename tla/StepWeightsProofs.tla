------------------------- MODULE StepWeightsProofs -------------------------
(***************************************************************************)
(* Lemmas about StepWeights, for every analysis: where a step of the       *)
(* weights leads, whatever list it comes from, and that the two walks,     *)
(* which clamp the two weights of a split apart from each other, keep it   *)
(* complete.                                                               *)
(***************************************************************************)
EXTENDS StepWeights, WellFoundedInduction, TLAPS

-----------------------------------------------------------------------------
(* The weight arithmetic. *)

\* A nonempty set of natural numbers has a least element.
LEMMA LeastElement ==
  ASSUME NEW S \in SUBSET Nat, S # {}
  PROVE  \E x \in S : \A y \in S : ~(y < x)
<1>1. PICK x \in S : \A y \in S : ~(<<y, x>> \in OpToRel(<, Nat))
  BY NatLessThanWellFounded, WFMin
<1>2. \A y \in S : <<y, x>> \in OpToRel(<, Nat) <=> y < x
  BY DEF OpToRel
<1>3. QED
  BY <1>1, <1>2

\* A weight of the list has a first position.
LEMMA PositionOfListed ==
  ASSUME NEW sw \in Seq(Nat), NEW w \in Nat, \E i \in 1 .. Len(sw) - 1 : sw[i] = w
  PROVE  /\ PositionOf(sw, w) \in 1 .. Len(sw) - 1
         /\ sw[PositionOf(sw, w)] = w
<1> DEFINE S == {i \in 1 .. Len(sw) - 1 : sw[i] = w}
<1>1. S \in SUBSET Nat /\ S # {}
  OBVIOUS
<1>2. PICK i \in S : \A j \in S : ~(j < i)
  BY <1>1, LeastElement
<1>3. \A j \in 1 .. i - 1 : sw[j] # w
  BY <1>2
<1>4. \E k \in 1 .. Len(sw) - 1 : sw[k] = w /\ \A j \in 1 .. k - 1 : sw[j] # w
  BY <1>2, <1>3
<1>5. QED
  BY <1>4 DEF PositionOf

\* A step never takes a weight below zero, not even a step down a list.
LEMMA StepFromWeight ==
  ASSUME NEW a, a.stepWeight \in Nat, a.stepWeights \in Seq(Nat), NEW w \in Nat
  PROVE  /\ nextStepWeight(a, w) \in Int
         /\ w + nextStepWeight(a, w) >= 0
<1> DEFINE sw == a.stepWeights
<1>0. a.stepWeight \in Nat /\ sw \in Seq(Nat)
  OBVIOUS
<1>1. CASE a.stepWeight > 0 \/ sw = <<>>
  BY <1>0, <1>1 DEF nextStepWeight
<1>2. CASE ~(a.stepWeight > 0 \/ sw = <<>>)
  <2>1. sw[1] \in Nat
    BY <1>0, <1>2
  <2>2. CASE \E i \in 1 .. Len(sw) - 1 : sw[i] = w
    <3>1. sw[PositionOf(sw, w) + 1] \in Nat
      <4>1. PositionOf(sw, w) \in 1 .. Len(sw) - 1
        BY <1>0, <2>2, PositionOfListed
      <4> HIDE DEF sw
      <4>2. QED
        BY <1>0, <4>1
    <3>2. CASE w = 0 \/ totalWeight - w = 0
      BY <1>0, <1>2, <2>1, <3>2 DEF nextStepWeight, Least, totalWeight
    <3>3. CASE ~(w = 0 \/ totalWeight - w = 0)
      <4>1. nextStepWeight(a, w) = Least(totalWeight - w, sw[PositionOf(sw, w) + 1] - w)
        BY <1>2, <2>2, <3>3 DEF nextStepWeight
      <4>2. QED
        BY <3>1, <4>1 DEF Least, totalWeight
    <3>4. QED
      BY <3>2, <3>3
  <2>3. CASE ~\E i \in 1 .. Len(sw) - 1 : sw[i] = w
    BY <1>0, <1>2, <2>1, <2>3 DEF nextStepWeight, Least, totalWeight
  <2>4. QED
    BY <2>2, <2>3
<1>3. QED
  BY <1>1, <1>2

\* A step of the analysis, clamped or not, keeps a complete split complete, and
\* no split takes traffic from the canary it does not have.
LEMMA IncreaseIs ==
  ASSUME NEW a, a.stepWeight \in Nat, a.stepWeights \in Seq(Nat), a.mirror \in BOOLEAN,
         NEW r \in [primary : Int, canary : Nat, mirrored : BOOLEAN]
  PROVE  /\ Increase(a, r) \in [primary : Int, canary : Nat, mirrored : BOOLEAN]
         /\ r.primary + r.canary = totalWeight =>
              Increase(a, r).primary + Increase(a, r).canary = totalWeight
<1> DEFINE step == nextStepWeight(a, r.canary)
<1>0. r.primary \in Int /\ r.canary \in Nat /\ r.mirrored \in BOOLEAN
  OBVIOUS
<1>1. step \in Int /\ r.canary + step >= 0
  BY <1>0, StepFromWeight
<1>2. CASE a.mirror /\ r.canary = 0
  <2>1. CASE ~r.mirrored
    <3>1. Increase(a, r) = Split(totalWeight, 0, TRUE)
      BY <1>2, <2>1 DEF Increase
    <3>2. QED
      BY <3>1 DEF Split, totalWeight
  <2>2. CASE r.mirrored
    <3>1. Increase(a, r) = Split(totalWeight - step, step, FALSE)
      BY <1>2, <2>2 DEF Increase
    <3>2. QED
      BY <1>1, <1>2, <3>1 DEF Split, totalWeight
  <2>3. QED
    BY <1>0, <2>1, <2>2
<1>3. CASE ~(a.mirror /\ r.canary = 0)
  <2>1. Increase(a, r) =
          Split(Greatest(0, r.primary - step), Least(totalWeight, r.canary + step), r.mirrored)
    BY <1>3 DEF Increase
  <2>2. QED
    BY <1>0, <1>1, <2>1 DEF Split, totalWeight, Greatest, Least
<1>4. QED
  BY <1>2, <1>3

\* So does a step of the promotion, and when the primary has everything it is
\* the split every strategy ends with.
LEMMA ShiftBackIs ==
  ASSUME NEW a, a.stepWeightPromotion \in Nat,
         NEW r \in [primary : Int, canary : Nat, mirrored : BOOLEAN]
  PROVE  /\ ShiftBack(a, r) \in [primary : Int, canary : Nat, mirrored : BOOLEAN]
         /\ r.primary + r.canary = totalWeight =>
              /\ ShiftBack(a, r).primary + ShiftBack(a, r).canary = totalWeight
              /\ ShiftBack(a, r).primary = totalWeight => ShiftBack(a, r) = AllToPrimary
<1>1. r.primary \in Int /\ r.canary \in Nat
  OBVIOUS
<1> DEFINE p == Least(totalWeight, r.primary + a.stepWeightPromotion)
           c == Greatest(0, r.canary - a.stepWeightPromotion)
<1>2. ShiftBack(a, r) = Split(p, c, FALSE)
  BY DEF ShiftBack
<1>3. p \in Int /\ c \in Nat
  BY <1>1 DEF Least, Greatest, totalWeight
<1>4. r.primary + r.canary = totalWeight => p + c = totalWeight
  BY <1>1 DEF Least, Greatest, totalWeight
<1> HIDE DEF p, c
<1>5. p + c = totalWeight /\ p = totalWeight => c = 0
  BY <1>3 DEF totalWeight
<1>6. /\ ShiftBack(a, r) \in [primary : Int, canary : Nat, mirrored : BOOLEAN]
      /\ ShiftBack(a, r).primary = p
      /\ ShiftBack(a, r).canary = c
  BY <1>2, <1>3 DEF Split
<1>7. p = totalWeight /\ c = 0 => ShiftBack(a, r) = AllToPrimary
  BY <1>2 DEF AllToPrimary
<1>8. QED
  BY <1>4, <1>5, <1>6, <1>7
=============================================================================
