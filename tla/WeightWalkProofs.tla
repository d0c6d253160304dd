-------------------------- MODULE WeightWalkProofs --------------------------
(***************************************************************************)
(* Proofs about WeightWalk, for every set of analyses: that every split    *)
(* covers the traffic, whatever the weights of the analysis; and for the   *)
(* analyses the documentation describes, that the weights are percentages, *)
(* follow the list, and reach the maximum in the documented time.          *)
(***************************************************************************)
EXTENDS WeightWalk, StepWeightsProofs

-----------------------------------------------------------------------------
(* The analyses.                                                           *)

\* The step after mirroring clamps no weight, so its step is to be a percentage.
MirrorsInPercent(a) == a.mirror => a.stepWeight <= totalWeight

\* The documented list: percentages that rise, and no stepWeight beside it.
Ordered(a) ==
  LET sw == a.stepWeights
  IN  sw # <<>> =>
        /\ a.stepWeight = 0
        /\ \A i \in 1 .. Len(sw) : /\ sw[i] \in 1 .. totalWeight
                                   /\ \A j \in 1 .. i - 1 : sw[j] < sw[i]

-----------------------------------------------------------------------------
(* The invariants.                                                         *)

\* The weights of a split that is not one of percentages still cover the traffic.
SplitInv ==
  /\ analysis \in Analyses
  /\ split \in [primary : Int, canary : Nat, mirrored : BOOLEAN]
  /\ split.primary + split.canary = totalWeight
  /\ increases \in Nat /\ decreases \in Nat /\ promoting \in BOOLEAN

PercentInv == split.canary <= totalWeight

\* The canary weight of a linear walk is as many steps as there were increases,
\* the last of which started below the maximum; the first one after mirroring is
\* not clamped.
LinearInv ==
  analysis.stepWeights = <<>> =>
    /\ ~promoting => \/ split.canary = Least(totalWeight, increases * analysis.stepWeight)
                     \/ increases = 1 /\ split.canary = analysis.stepWeight
    /\ increases = 0 \/ (increases - 1) * analysis.stepWeight < maxWeight(analysis)
    /\ promoting => /\ analysis.stepWeight > 0
                    /\ maxWeight(analysis) <= increases * analysis.stepWeight

\* That of a listed walk is the weight at the position of as many increases.
ListedInv ==
  analysis.stepWeights # <<>> =>
    IF promoting THEN increases = Len(analysis.stepWeights)
    ELSE \/ increases = 0 /\ split.canary = 0
         \/ /\ increases \in 1 .. Len(analysis.stepWeights)
            /\ split.canary = analysis.stepWeights[increases]

-----------------------------------------------------------------------------
(* Lemmas about numbers.                                                   *)

\* One increase more, or less, is one step more, or less.
LEMMA StepsAdd ==
  \A n, s \in Nat : /\ n * s \in Nat
                    /\ (n + 1) * s = n * s + s
                    /\ (n - 1) * s = n * s - s
OBVIOUS

\* A quotient is what its product says.
LEMMA QuotientIs ==
  \A a, s, q \in Nat : s > 0 /\ q * s <= a /\ a < (q + 1) * s => a \div s = q
OBVIOUS

\* As many steps as it takes to cover m, and no more.
LEMMA CeilingIs ==
  ASSUME NEW m \in Nat, NEW s \in Nat, s > 0, NEW n \in Nat,
         (n - 1) * s < m, m <= n * s
  PROVE  Ceiling(m, s) = n
<1>1. /\ n * s \in Nat /\ (n - 1) * s = n * s - s /\ (n + 1) * s = n * s + s
  BY StepsAdd
<1>2. /\ m + s - 1 \in Nat
      /\ n * s <= m + s - 1 /\ m + s - 1 < (n + 1) * s
  BY <1>1
<1>3. QED
  BY <1>2, QuotientIs DEF Ceiling

-----------------------------------------------------------------------------
(* Every split covers the traffic.                                         *)

\* The analysis walked has the fields the arithmetic reads.
LEMMA AnalysisIs ==
  ASSUME analysis \in Analyses
  PROVE  /\ analysis.stepWeight \in Nat /\ analysis.stepWeights \in Seq(Nat)
         /\ analysis.maxWeight \in Nat /\ analysis.stepWeightPromotion \in Nat
         /\ analysis.mirror \in BOOLEAN
BY AnalysesAssumption DEF AnalysisFields

\* It does in the beginning.
LEMMA SplitInvInit == Init => SplitInv
<1>1. /\ AllToPrimary \in [primary : Int, canary : Nat, mirrored : BOOLEAN]
      /\ AllToPrimary.primary + AllToPrimary.canary = totalWeight
  BY DEF AllToPrimary, Split, totalWeight
<1>2. SUFFICES ASSUME Init PROVE SplitInv
  OBVIOUS
<1>3. split = AllToPrimary /\ analysis \in Analyses
  BY <1>2 DEF Init
<1>4. increases \in Nat /\ decreases \in Nat /\ promoting \in BOOLEAN
  BY <1>2 DEF Init
<1>5. QED
  BY <1>1, <1>3, <1>4 DEF SplitInv

\* Each step keeps it: runCanary and runPromotionTrafficShift clamp the two
\* weights apart, by the same amount.
LEMMA SplitInvNext == SplitInv /\ [Next]_vars => SplitInv'
<1> SUFFICES ASSUME SplitInv, [Next]_vars PROVE SplitInv'
  OBVIOUS
<1>0. /\ analysis \in Analyses
      /\ split \in [primary : Int, canary : Nat, mirrored : BOOLEAN]
      /\ split.primary + split.canary = totalWeight
  BY DEF SplitInv
<1>1. CASE RaiseWeight
  <2>1. split' = Increase(analysis, split)
    BY <1>1 DEF RaiseWeight
  <2>2. /\ split' \in [primary : Int, canary : Nat, mirrored : BOOLEAN]
        /\ split'.primary + split'.canary = totalWeight
    BY <1>0, <2>1, AnalysisIs, IncreaseIs
  <2>3. increases' \in Nat /\ UNCHANGED <<analysis, decreases, promoting>>
    BY <1>1 DEF RaiseWeight, SplitInv
  <2>4. QED
    BY <2>2, <2>3 DEF SplitInv
<1>2. CASE ReachMaximum
  BY <1>2 DEF ReachMaximum, SplitInv
<1>3. CASE LowerWeight
  <2>1. split' = AllToPrimary \/ split' = ShiftBack(analysis, split)
    BY <1>3 DEF LowerWeight
  <2>2. /\ AllToPrimary \in [primary : Int, canary : Nat, mirrored : BOOLEAN]
        /\ AllToPrimary.primary + AllToPrimary.canary = totalWeight
    BY DEF AllToPrimary, Split, totalWeight
  <2>3. /\ split' \in [primary : Int, canary : Nat, mirrored : BOOLEAN]
        /\ split'.primary + split'.canary = totalWeight
    BY <1>0, <2>1, <2>2, AnalysisIs, ShiftBackIs
  <2>4. QED
    BY <1>3, <2>3 DEF LowerWeight, SplitInv
<1>4. CASE UNCHANGED vars
  BY <1>4 DEF vars, SplitInv
<1>5. QED
  BY <1>1, <1>2, <1>3, <1>4 DEF Next

\* Every walk has splits that cover the traffic.
LEMMA SplitHolds == Spec => []SplitInv
BY SplitInvInit, SplitInvNext, PTL DEF Spec

\* Whatever the weights of the analysis, even a list that falls or a step above
\* 100, the two weights every step hands to the router add up to 100.
THEOREM SplitsCover == Spec => []SplitCoversTraffic
<1>1. SplitInv => SplitCoversTraffic
  BY DEF SplitInv, SplitCoversTraffic
<1>2. QED
  BY <1>1, SplitHolds, PTL

-----------------------------------------------------------------------------
(* The weights are percentages.                                            *)

\* Where a step leads that is not the one that mirrors.
LEMMA IncreaseSplits ==
  ASSUME SplitInv, RaiseWeight, MirrorsInPercent(analysis), PercentInv
  PROVE  LET step == nextStepWeight(analysis, split.canary)
         IN  /\ step \in Int /\ step > 0
             /\ \/ /\ analysis.mirror /\ split.canary = 0 /\ ~split.mirrored
                   /\ split'.canary = 0
                \/ /\ split'.canary = Least(totalWeight, split.canary + step)
<1> DEFINE step == nextStepWeight(analysis, split.canary)
<1>0. /\ analysis.stepWeight \in Nat /\ analysis.stepWeights \in Seq(Nat)
      /\ analysis.mirror \in BOOLEAN /\ split.mirrored \in BOOLEAN
      /\ split.canary \in Nat
  BY AnalysisIs DEF SplitInv
<1>1. step \in Int /\ step > 0 /\ split' = Increase(analysis, split)
  BY <1>0, StepFromWeight DEF RaiseWeight
<1>2. CASE analysis.mirror /\ split.canary = 0 /\ ~split.mirrored
  BY <1>1, <1>2 DEF Increase, Split
<1>3. CASE analysis.mirror /\ split.canary = 0 /\ split.mirrored
  <2>1. split'.canary = step
    BY <1>1, <1>3 DEF Increase, Split
  <2>2. step <= totalWeight
    <3>1. CASE analysis.stepWeight > 0 \/ analysis.stepWeights = <<>>
      BY <1>3, <3>1 DEF nextStepWeight, MirrorsInPercent
    <3>2. CASE ~(analysis.stepWeight > 0 \/ analysis.stepWeights = <<>>)
      <4>1. analysis.stepWeights[1] \in Nat
        BY <1>0, <3>2
      <4>2. step = Least(totalWeight - 0, analysis.stepWeights[1])
        BY <1>3, <3>2 DEF nextStepWeight, totalWeight
      <4>3. QED
        BY <4>1, <4>2 DEF Least, totalWeight
    <3>3. QED
      BY <3>1, <3>2
  <2>3. QED
    BY <1>1, <1>3, <2>1, <2>2 DEF Least, totalWeight
<1>4. CASE ~(analysis.mirror /\ split.canary = 0)
  <2>1. split' = Split(Greatest(0, split.primary - step),
                       Least(totalWeight, split.canary + step), split.mirrored)
    BY <1>1, <1>4 DEF Increase
  <2>2. QED
    BY <1>1, <2>1 DEF Split
<1>5. QED
  BY <1>0, <1>1, <1>2, <1>3, <1>4

\* No weight rises above 100.
LEMMA PercentInvNext ==
  SplitInv /\ MirrorsInPercent(analysis) /\ PercentInv /\ [Next]_vars => PercentInv'
<1> SUFFICES ASSUME SplitInv, MirrorsInPercent(analysis), PercentInv, [Next]_vars
             PROVE  PercentInv'
  OBVIOUS
<1>0. split.canary \in Nat /\ split.canary <= totalWeight
  BY DEF SplitInv, PercentInv
<1>1. CASE RaiseWeight
  <2> DEFINE step == nextStepWeight(analysis, split.canary)
  <2>1. /\ step \in Int
        /\ split'.canary = 0 \/ split'.canary = Least(totalWeight, split.canary + step)
    BY <1>1, IncreaseSplits
  <2> HIDE DEF step
  <2>2. QED
    BY <1>0, <2>1 DEF PercentInv, Least, totalWeight
<1>2. CASE LowerWeight
  <2>1. analysis.stepWeightPromotion \in Nat
    BY AnalysisIs DEF SplitInv
  <2>2. \/ split'.canary = 0
        \/ split'.canary = Greatest(0, split.canary - analysis.stepWeightPromotion)
    BY <1>2 DEF LowerWeight, AllToPrimary, ShiftBack, Split
  <2>3. QED
    BY <1>0, <2>1, <2>2 DEF PercentInv, Greatest, totalWeight
<1>3. CASE UNCHANGED split
  BY <1>3 DEF PercentInv
<1>4. QED
  BY <1>1, <1>2, <1>3 DEF Next, ReachMaximum, vars

\* The analysis stays.
LEMMA AnalysisStays == [Next]_vars => analysis' = analysis
BY DEF Next, RaiseWeight, ReachMaximum, LowerWeight, vars

\* The types, if no analysis mirrors and steps by more than 100: both weights
\* are percentages.
THEOREM TypeCorrect ==
  ASSUME \A a \in Analyses : MirrorsInPercent(a)
  PROVE  Spec => []TypeOK
<1> DEFINE Inv == SplitInv /\ PercentInv
<1>1. Init => Inv
  BY SplitInvInit DEF Init, PercentInv, AllToPrimary, Split, totalWeight
<1>2. Inv /\ [Next]_vars => Inv'
  BY SplitInvNext, PercentInvNext DEF SplitInv
<1>3. Inv => TypeOK
  <2>1. SUFFICES ASSUME Inv PROVE TypeOK
    OBVIOUS
  <2>2. split.canary \in 0 .. totalWeight /\ split.primary \in 0 .. totalWeight
    BY <2>1 DEF SplitInv, PercentInv, totalWeight
  <2>3. QED
    BY <2>1, <2>2 DEF SplitInv, TypeOK
<1>4. QED
  BY <1>1, <1>2, <1>3, PTL DEF Spec

-----------------------------------------------------------------------------
(* The documented walks.                                                   *)

\* A linear walk has a maximum above zero.
LEMMA MaximumIs ==
  ASSUME NEW a, a.stepWeight \in Nat, a.maxWeight \in Nat, a.stepWeights = <<>>
  PROVE  /\ maxWeight(a) \in Nat /\ maxWeight(a) > 0
         /\ \A w : nextStepWeight(a, w) = a.stepWeight
BY DEF maxWeight, nextStepWeight, totalWeight

\* A listed walk has the last weight of its list for its maximum; from zero it
\* steps to the first weight, and from a weight of the list to the next one.
LEMMA OrderedIs ==
  ASSUME NEW a, a.stepWeight \in Nat, a.stepWeights \in Seq(Nat), Ordered(a),
         a.stepWeights # <<>>
  PROVE  LET sw == a.stepWeights
         IN  /\ Len(sw) \in Nat /\ Len(sw) > 0 /\ maxWeight(a) = sw[Len(sw)]
             /\ \A i \in 1 .. Len(sw) : sw[i] \in 1 .. totalWeight
             /\ nextStepWeight(a, 0) = sw[1]
             /\ \A k \in 1 .. Len(sw) - 1 : /\ sw[k] < sw[k + 1]
                                            /\ nextStepWeight(a, sw[k]) = sw[k + 1] - sw[k]
<1> DEFINE sw == a.stepWeights
<1>1. /\ sw \in Seq(Nat) /\ Len(sw) \in Nat /\ Len(sw) > 0 /\ a.stepWeight = 0
      /\ \A i \in 1 .. Len(sw) : /\ sw[i] \in 1 .. 100
                                 /\ \A j \in 1 .. i - 1 : sw[j] < sw[i]
  BY DEF Ordered, totalWeight
<1>2. maxWeight(a) = Least(100, sw[Len(sw)])
  BY DEF maxWeight, totalWeight
<1>3. nextStepWeight(a, 0) = Least(100 - 0, sw[1])
  BY <1>1 DEF nextStepWeight, totalWeight
<1>4. ASSUME NEW w, w # 0, 100 - w # 0, \E i \in 1 .. Len(sw) - 1 : sw[i] = w
      PROVE  nextStepWeight(a, w) = Least(100 - w, sw[PositionOf(sw, w) + 1] - w)
  BY <1>1, <1>4 DEF nextStepWeight, totalWeight
<1> HIDE DEF sw
<1>0. /\ \A p \in 1 .. 100 : Least(100, p) = p /\ Least(100 - 0, p) = p
      /\ \A p, q \in 1 .. 100 : p < q => /\ p # 0 /\ 100 - p # 0
                                         /\ Least(100 - p, q - p) = q - p
  BY DEF Least
<1>5. ASSUME NEW k \in 1 .. Len(sw) - 1
      PROVE  sw[k] < sw[k + 1] /\ nextStepWeight(a, sw[k]) = sw[k + 1] - sw[k]
  <2>1. k \in 1 .. Len(sw) /\ k + 1 \in 1 .. Len(sw) /\ k \in 1 .. (k + 1) - 1
    BY <1>1
  <2>2. sw[k] < sw[k + 1] /\ sw[k] \in 1 .. 100 /\ sw[k + 1] \in 1 .. 100
    BY <1>1, <2>1
  <2>3. PositionOf(sw, sw[k]) = k
    <3>1. sw[k] \in Nat /\ \E i \in 1 .. Len(sw) - 1 : sw[i] = sw[k]
      BY <1>1, <2>2
    <3>2. /\ PositionOf(sw, sw[k]) \in 1 .. Len(sw) - 1
          /\ sw[PositionOf(sw, sw[k])] = sw[k]
      BY <1>1, <3>1, PositionOfListed
    <3>3. ASSUME NEW i \in 1 .. Len(sw) - 1, sw[i] = sw[k], i # k
          PROVE  FALSE
      <4>1. i \in 1 .. Len(sw) /\ (i \in 1 .. k - 1 \/ k \in 1 .. i - 1)
        BY <1>1, <3>3
      <4>2. sw[i] \in 1 .. 100 /\ (sw[i] < sw[k] \/ sw[k] < sw[i])
        BY <1>1, <2>1, <4>1
      <4>3. QED
        BY <1>1, <2>2, <3>3, <4>2
    <3>4. QED
      BY <3>2, <3>3
  <2>4. nextStepWeight(a, sw[k]) = Least(100 - sw[k], sw[k + 1] - sw[k])
    <3>1. sw[k] # 0 /\ 100 - sw[k] # 0
      BY <1>0, <2>2
    <3>2. QED
      BY <1>4, <2>3, <3>1
  <2>5. Least(100 - sw[k], sw[k + 1] - sw[k]) = sw[k + 1] - sw[k]
    BY <1>0, <2>2
  <2>6. QED
    BY <2>2, <2>4, <2>5
<1>6. 1 \in 1 .. Len(sw) /\ Len(sw) \in 1 .. Len(sw)
  BY <1>1
<1>7. sw[1] \in 1 .. 100 /\ sw[Len(sw)] \in 1 .. 100
  BY <1>1, <1>6
<1>8. maxWeight(a) = sw[Len(sw)] /\ nextStepWeight(a, 0) = sw[1]
  BY <1>0, <1>2, <1>3, <1>7
<1>9. QED
  BY <1>1, <1>5, <1>8 DEF sw, totalWeight

WalkInv ==
  /\ SplitInv /\ LinearInv /\ ListedInv
  /\ MirrorsInPercent(analysis) => PercentInv

\* A listed walk has no stepWeight.
LEMMA ListedInPercent ==
  ASSUME NEW a, Ordered(a), a.stepWeights # <<>>
  PROVE  MirrorsInPercent(a)
BY DEF Ordered, MirrorsInPercent, totalWeight

\* They hold in the beginning.
LEMMA WalkInvInit == Init => WalkInv
<1> SUFFICES ASSUME Init PROVE WalkInv
  OBVIOUS
<1>1. SplitInv /\ analysis.stepWeight \in Nat
  BY SplitInvInit, AnalysisIs DEF SplitInv
<1>2. split.canary = 0 /\ increases = 0 /\ promoting = FALSE
  BY DEF Init, AllToPrimary, Split
<1>3. Least(totalWeight, 0 * analysis.stepWeight) = 0
  BY <1>1 DEF Least, totalWeight
<1>4. QED
  BY <1>1, <1>2, <1>3 DEF WalkInv, PercentInv, LinearInv, ListedInv, totalWeight

\* What a raise of the weight counts.
LEMMA RaiseIs ==
  ASSUME WalkInv, MirrorsInPercent(analysis), RaiseWeight
  PROVE  LET c    == split.canary
             d    == split'.canary
             step == nextStepWeight(analysis, c)
         IN  /\ c \in 0 .. 100 /\ d \in 0 .. 100 /\ step \in Int /\ step > 0
             /\ c < maxWeight(analysis) /\ ~promoting /\ ~promoting'
             /\ \/ c = 0 /\ d = 0 /\ increases' = increases
                \/ c = 100 /\ d = 100 /\ increases' = increases
                \/ c < 100 /\ d = Least(100, c + step) /\ increases' = increases + 1
<1> DEFINE c    == split.canary
           d    == split'.canary
           step == nextStepWeight(analysis, c)
<1>1. /\ step \in Int /\ step > 0
      /\ (c = 0 /\ d = 0) \/ d = Least(100, c + step)
  BY IncreaseSplits DEF WalkInv, totalWeight
<1>2. /\ c \in 0 .. 100 /\ increases \in Nat /\ c < maxWeight(analysis)
      /\ ~promoting /\ promoting' = promoting
      /\ increases' = increases + (IF d > c THEN 1 ELSE 0)
  BY DEF WalkInv, SplitInv, PercentInv, totalWeight, RaiseWeight
<1> HIDE DEF c, d, step
<1>3. QED
  BY <1>1, <1>2 DEF Least, c, d, step

\* Where a raise of a linear walk leads: up by a step, clamped but for the first one
\* after mirroring.
LEMMA LinearRaise ==
  ASSUME SplitInv, RaiseWeight, analysis.stepWeights = <<>>
  PROVE  LET c == split.canary
             d == split'.canary
             s == analysis.stepWeight
         IN  /\ s > 0 /\ c \in Nat /\ c < maxWeight(analysis) /\ ~promoting /\ ~promoting'
             /\ (c = 0 /\ d = 0) \/ (c = 0 /\ d = s) \/ d = Least(100, c + s)
             /\ increases' = IF d > c THEN increases + 1 ELSE increases
<1> DEFINE s == analysis.stepWeight
<1>1. /\ s \in Nat /\ \A w : nextStepWeight(analysis, w) = s
      /\ increases \in Nat /\ split.canary \in Nat
  BY AnalysisIs, MaximumIs DEF SplitInv
<1>2. /\ s > 0 /\ split.canary < maxWeight(analysis) /\ ~promoting /\ ~promoting'
      /\ split' = Increase(analysis, split)
      /\ increases' = increases + (IF split'.canary > split.canary THEN 1 ELSE 0)
  BY <1>1 DEF RaiseWeight
<1>3. CASE analysis.mirror /\ split.canary = 0
  <2>1. split'.canary = 0 \/ split'.canary = s
    BY <1>1, <1>2, <1>3 DEF Increase, Split
  <2>2. QED
    BY <1>1, <1>2, <1>3, <2>1
<1>4. CASE ~(analysis.mirror /\ split.canary = 0)
  <2>1. split'.canary = Least(100, split.canary + s)
    BY <1>1, <1>2, <1>4 DEF Increase, Split, totalWeight
  <2>2. QED
    BY <1>1, <1>2, <2>1
<1>5. QED
  BY <1>3, <1>4

\* A linear walk keeps its invariant.
LEMMA LinearInvNext == WalkInv /\ [Next]_vars => LinearInv'
<1> DEFINE s == analysis.stepWeight
           m == maxWeight(analysis)
<1> SUFFICES ASSUME WalkInv, [Next]_vars, analysis.stepWeights = <<>>
             PROVE  /\ ~promoting' => \/ split'.canary = Least(100, increases' * s)
                                      \/ increases' = 1 /\ split'.canary = s
                    /\ increases' = 0 \/ (increases' - 1) * s < m
                    /\ promoting' => s > 0 /\ m <= increases' * s
  BY AnalysisStays DEF LinearInv, maxWeight, totalWeight
<1>1. /\ ~promoting => \/ split.canary = Least(100, increases * s)
                       \/ increases = 1 /\ split.canary = s
      /\ increases = 0 \/ (increases - 1) * s < m
      /\ promoting => s > 0 /\ m <= increases * s
  BY DEF WalkInv, LinearInv, totalWeight
<1>2. /\ s \in Nat /\ m \in Nat /\ m > 0 /\ increases \in Nat /\ increases * s \in Nat
      /\ \A w : nextStepWeight(analysis, w) = s
      /\ \A n \in Nat : (n + 1) * s = n * s + s
      /\ 0 * s = 0 /\ 1 * s = s
  BY AnalysisIs, MaximumIs, StepsAdd DEF WalkInv, SplitInv
<1>3. CASE RaiseWeight
  <2> DEFINE c == split.canary
             d == split'.canary
  <2>1. /\ s > 0 /\ c \in Nat /\ c < m /\ ~promoting /\ ~promoting'
        /\ (c = 0 /\ d = 0) \/ (c = 0 /\ d = s) \/ d = Least(100, c + s)
        /\ increases' = IF d > c THEN increases + 1 ELSE increases
    BY <1>3, LinearRaise DEF WalkInv
  <2> HIDE DEF s, m, c, d
  <2>2. c = Least(100, increases * s) \/ (increases = 1 /\ c = s)
    BY <1>1, <2>1 DEF c
  <2>3. c < 100 => c = increases * s
    BY <1>2, <2>2 DEF Least
  <2>4. ~(c < 100) => Least(100, c + s) = 100 /\ Least(100, increases * s) = 100
    BY <1>2, <2>1, <2>2 DEF Least
  <2>5. CASE c = 0
    <3>1. increases = 0
      <4>1. increases * s = 0
        BY <2>3, <2>5
      <4>2. \A n \in Nat : n # 0 => n * s >= s
        BY <1>2, StepsAdd
      <4>3. QED
        BY <1>2, <2>1, <4>1, <4>2
    <3>2. Least(100, 0) = 0
      BY DEF Least
    <3>3. CASE d = 0
      BY <1>2, <2>1, <2>5, <3>1, <3>2, <3>3 DEF d
    <3>4. CASE d = s
      BY <1>2, <2>1, <2>5, <3>1, <3>4 DEF d
    <3>5. CASE d = Least(100, c + s)
      <4>1. d > 0 /\ d = Least(100, s)
        BY <1>2, <2>1, <2>5, <3>5 DEF Least
      <4>2. QED
        BY <1>2, <2>1, <2>5, <3>1, <4>1 DEF d
    <3>6. QED
      BY <2>1, <2>5, <3>3, <3>4, <3>5
  <2>6. CASE c # 0 /\ c < 100
    <3>1. d = Least(100, (increases + 1) * s) /\ d > c
      BY <1>2, <2>1, <2>3, <2>6 DEF Least
    <3>2. increases' = increases + 1 /\ (increases + 1) - 1 = increases
      BY <1>2, <2>1, <3>1
    <3>3. increases * s < m
      BY <2>1, <2>3, <2>6
    <3>4. QED
      BY <2>1, <3>1, <3>2, <3>3 DEF d
  <2>7. CASE ~(c < 100)
    <3>1. d = 100 /\ increases' = increases
      BY <2>1, <2>4, <2>7
    <3>2. QED
      BY <1>1, <2>1, <2>4, <2>7, <3>1 DEF d
  <2>8. QED
    BY <2>5, <2>6, <2>7
<1>4. CASE ReachMaximum
  <2>1. /\ ~promoting /\ promoting' /\ increases' = increases
        /\ s > 0 /\ split.canary >= m
    BY <1>2, <1>4 DEF ReachMaximum, m
  <2> HIDE DEF s, m
  <2>2. m <= increases * s
    BY <1>1, <1>2, <2>1 DEF Least
  <2>3. QED
    BY <1>1, <2>1, <2>2
<1>5. CASE LowerWeight
  BY <1>1, <1>5 DEF LowerWeight
<1>6. CASE UNCHANGED vars
  BY <1>1, <1>6 DEF vars
<1>7. QED
  BY <1>3, <1>4, <1>5, <1>6 DEF Next

\* A percentage is positive, and below another one or not.
LEMMA PercentIs ==
  /\ \A q \in 1 .. 100 : q \in Int /\ q > 0
  /\ \A p, q \in 1 .. 100 : ~(p < q /\ p >= q)
OBVIOUS

\* What is at least a positive number is not zero.
LEMMA AtLeastIs == \A c, m \in Int : c >= m /\ m > 0 => c # 0
OBVIOUS

\* From one percentage the difference leads to another.
LEMMA LeastIs ==
  ASSUME NEW p \in 1 .. 100, NEW q \in 1 .. 100
  PROVE  Least(100, p + (q - p)) = q
<1>1. p + (q - p) = q /\ ~(100 < q)
  OBVIOUS
<1>2. QED
  BY <1>1 DEF Least

\* A raise of a listed walk leads to the next weight of the list.
LEMMA ListedRaise ==
  ASSUME WalkInv, Ordered(analysis), RaiseWeight, analysis.stepWeights # <<>>
  PROVE  LET sw == analysis.stepWeights
         IN  \/ split'.canary = split.canary /\ increases' = increases /\ split.canary = 0
                /\ increases = 0
             \/ /\ increases' = increases + 1 /\ increases + 1 \in 1 .. Len(sw)
                /\ split'.canary = sw[increases + 1]
<1> DEFINE sw == analysis.stepWeights
<1>1. /\ Len(sw) \in Nat /\ Len(sw) > 0 /\ maxWeight(analysis) = sw[Len(sw)]
      /\ \A i \in 1 .. Len(sw) : sw[i] \in 1 .. 100
      /\ nextStepWeight(analysis, 0) = sw[1]
      /\ \A k \in 1 .. Len(sw) - 1 : /\ sw[k] < sw[k + 1]
                                     /\ nextStepWeight(analysis, sw[k]) = sw[k + 1] - sw[k]
  BY AnalysisIs, OrderedIs DEF WalkInv, SplitInv, totalWeight
<1>2. \/ increases = 0 /\ split.canary = 0
      \/ increases \in 1 .. Len(sw) /\ split.canary = sw[increases]
  BY DEF WalkInv, ListedInv, RaiseWeight
<1>3. sw \in Seq(Nat)
  BY AnalysisIs DEF WalkInv, SplitInv
<1> HIDE DEF sw
<1> DEFINE step == nextStepWeight(analysis, split.canary)
<1>4. /\ split.canary \in 0 .. 100 /\ split.canary < sw[Len(sw)] /\ increases \in Nat
      /\ \/ split.canary = 0 /\ split'.canary = 0 /\ increases' = increases
         \/ split.canary = 100 /\ split'.canary = 100 /\ increases' = increases
         \/ split'.canary = Least(100, split.canary + step) /\ increases' = increases + 1
  BY <1>1, ListedInPercent, RaiseIs DEF WalkInv, SplitInv
<1>5. sw[Len(sw)] \in 1 .. 100
  BY <1>1
<1> HIDE DEF step
<1>0. /\ \A q \in 1 .. 100 : q # 0 /\ Least(100, 0 + q) = q
      /\ \A q \in 1 .. 100, c \in 0 .. 100 : c < q => c # 100
  BY DEF Least
<1>6. split.canary # 100
  BY <1>0, <1>4, <1>5
<1>7. CASE increases = 0 /\ split.canary = 0
  <2>1. 1 \in 1 .. Len(sw) /\ sw[1] \in 1 .. 100
    BY <1>1, <1>3
  <2>2. step = sw[1]
    BY <1>1, <1>7 DEF step
  <2>3. Least(100, split.canary + step) = sw[1]
    BY <1>0, <1>7, <2>1, <2>2
  <2>4. QED
    BY <1>4, <1>6, <1>7, <2>1, <2>3 DEF sw
<1>8. CASE increases \in 1 .. Len(sw) /\ split.canary = sw[increases]
  <2>1. increases # Len(sw)
    BY <1>3, <1>4, <1>5, <1>8
  <2>2. increases \in 1 .. Len(sw) - 1 /\ increases + 1 \in 1 .. Len(sw)
    BY <1>1, <1>8, <2>1
  <2>3. step = sw[increases + 1] - sw[increases]
    BY <1>1, <1>8, <2>2 DEF step
  <2>4. sw[increases] \in 1 .. 100 /\ sw[increases + 1] \in 1 .. 100
    BY <1>1, <1>8, <2>2
  <2>5. Least(100, split.canary + step) = sw[increases + 1]
    <3> DEFINE p == sw[increases]
               q == sw[increases + 1]
    <3>1. p \in 1 .. 100 /\ q \in 1 .. 100 /\ split.canary = p /\ step = q - p
      BY <1>8, <2>3, <2>4
    <3> HIDE DEF p, q
    <3>2. Least(100, p + (q - p)) = q
      BY <3>1, LeastIs, Zenon
    <3>3. QED
      BY <3>1, <3>2, Zenon DEF q
  <2>6. split.canary # 0
    BY <1>0, <1>8, <2>4
  <2>7. QED
    BY <1>4, <1>6, <2>2, <2>5, <2>6 DEF sw
<1>9. QED
  BY <1>2, <1>7, <1>8

\* So it keeps its invariant.
LEMMA ListedInvNext == WalkInv /\ Ordered(analysis) /\ [Next]_vars => ListedInv'
<1> DEFINE sw == analysis.stepWeights
<1> SUFFICES ASSUME WalkInv, Ordered(analysis), [Next]_vars, sw # <<>>
             PROVE  IF promoting' THEN increases' = Len(sw)
                    ELSE \/ increases' = 0 /\ split'.canary = 0
                         \/ increases' \in 1 .. Len(sw) /\ split'.canary = sw[increases']
  BY AnalysisStays DEF ListedInv
<1>1. IF promoting THEN increases = Len(sw)
      ELSE \/ increases = 0 /\ split.canary = 0
           \/ increases \in 1 .. Len(sw) /\ split.canary = sw[increases]
  BY DEF WalkInv, ListedInv
<1>2. CASE RaiseWeight
  <2>1. ~promoting'
    BY <1>2 DEF RaiseWeight
  <2>2. QED
    BY <1>2, <2>1, ListedRaise
<1>3. CASE ReachMaximum
  <2>0. split.canary \in Int
    BY DEF WalkInv, SplitInv
  <2>1. /\ ~promoting /\ promoting' /\ increases' = increases
        /\ split.canary >= maxWeight(analysis)
    BY <1>3 DEF ReachMaximum
  <2>2. /\ sw \in Seq(Nat) /\ Len(sw) \in Nat /\ Len(sw) > 0
        /\ maxWeight(analysis) = sw[Len(sw)]
        /\ \A i \in 1 .. Len(sw) : sw[i] \in 1 .. 100 /\ \A j \in 1 .. i - 1 : sw[j] < sw[i]
    BY AnalysisIs, OrderedIs DEF WalkInv, SplitInv, Ordered, totalWeight
  <2>3. Len(sw) \in 1 .. Len(sw)
    BY <2>2
  <2>4. split.canary # 0
    <3>1. \A c, m \in Int : c >= m /\ m > 0 => c # 0
      BY AtLeastIs
    <3>2. sw[Len(sw)] \in Int /\ sw[Len(sw)] > 0
      <4>1. sw[Len(sw)] \in 1 .. 100
        BY <2>2, <2>3
      <4>2. QED
        BY <4>1, PercentIs, Zenon
    <3>3. QED
      BY <2>0, <2>1, <2>2, <3>1, <3>2
  <2>5. increases \in 1 .. Len(sw) /\ split.canary = sw[increases]
    BY <1>1, <2>1, <2>4
  <2>6. ~(increases < Len(sw))
    <3>1. SUFFICES ASSUME increases < Len(sw) PROVE FALSE
      OBVIOUS
    <3>2. increases \in 1 .. Len(sw) - 1
      BY <2>2, <2>5, <3>1
    <3>3. sw[increases] < sw[Len(sw)] /\ sw[increases] >= sw[Len(sw)]
      BY <2>1, <2>2, <2>3, <2>5, <3>2
    <3>4. sw[increases] \in 1 .. 100 /\ sw[Len(sw)] \in 1 .. 100
      BY <2>2, <2>3, <2>5
    <3>5. QED
      BY <3>3, <3>4, PercentIs
  <2>7. QED
    BY <2>1, <2>2, <2>5, <2>6
<1>4. CASE LowerWeight
  BY <1>1, <1>4 DEF LowerWeight
<1>5. CASE UNCHANGED vars
  BY <1>1, <1>5 DEF vars
<1>6. QED
  BY <1>2, <1>3, <1>4, <1>5 DEF Next

\* Every step of a documented walk keeps the invariant.
LEMMA WalkInvNext == WalkInv /\ Ordered(analysis) /\ [Next]_vars => WalkInv'
BY SplitInvNext, PercentInvNext, LinearInvNext, ListedInvNext, AnalysisStays DEF WalkInv

\* The walk of every documented analysis, linear or listed, takes the documented
\* time: it calls runCanary below the maximum maxWeight / stepWeight times,
\* rounded up, or once for every listed weight, and no mirrored step adds to it.
THEOREM DurationIsDocumented ==
  ASSUME \A a \in Analyses : Ordered(a)
  PROVE  Spec => []DocumentedDuration
<1>1. WalkInv /\ [Next]_vars => WalkInv'
  BY WalkInvNext DEF WalkInv, SplitInv
<1>2. WalkInv => DocumentedDuration
  <2>1. SUFFICES ASSUME WalkInv, promoting
                 PROVE  increases = IF analysis.stepWeights # <<>>
                                    THEN Len(analysis.stepWeights)
                                    ELSE Ceiling(maxWeight(analysis), analysis.stepWeight)
    BY DEF DocumentedDuration
  <2>2. CASE analysis.stepWeights # <<>>
    BY <2>1, <2>2 DEF WalkInv, ListedInv
  <2>3. CASE analysis.stepWeights = <<>>
    <3> DEFINE s == analysis.stepWeight
               m == maxWeight(analysis)
    <3>1. /\ s \in Nat /\ m \in Nat /\ m > 0 /\ increases \in Nat
          /\ increases = 0 \/ (increases - 1) * s < m
          /\ s > 0 /\ m <= increases * s
      BY <2>1, <2>3, AnalysisIs, MaximumIs DEF WalkInv, SplitInv, LinearInv
    <3> HIDE DEF s, m
    <3>2. increases # 0
      <4>1. 0 * s = 0
        BY <3>1
      <4>2. QED
        BY <3>1, <4>1
    <3>3. Ceiling(m, s) = increases
      BY <3>1, <3>2, CeilingIs
    <3>4. QED
      BY <2>3, <3>3 DEF s, m
  <2>4. QED
    BY <2>2, <2>3
<1>3. QED
  BY <1>1, <1>2, WalkInvInit, PTL DEF Spec

\* A documented list is followed: no raise leads to a weight that is not listed,
\* and none skips one.
THEOREM ListIsFollowed ==
  ASSUME \A a \in Analyses : Ordered(a)
  PROVE  Spec => FollowsTheList
<1> DEFINE Step ==
      analysis.stepWeights # <<>> /\ split'.canary > split.canary =>
        /\ split'.canary \in Listed(analysis.stepWeights)
        /\ \A w \in Listed(analysis.stepWeights) :
             w <= split.canary \/ w >= split'.canary
<1>1. WalkInv /\ [Next]_vars => WalkInv'
  BY WalkInvNext DEF WalkInv, SplitInv
<1>2. WalkInv /\ [Next]_vars => [Step]_vars
  <2>1. SUFFICES ASSUME WalkInv, Next, analysis.stepWeights # <<>>,
                        split'.canary > split.canary
                 PROVE  /\ split'.canary \in Listed(analysis.stepWeights)
                        /\ \A w \in Listed(analysis.stepWeights) :
                             w <= split.canary \/ w >= split'.canary
    OBVIOUS
  <2> DEFINE sw == analysis.stepWeights
             n  == increases + 1
  <2>2. /\ sw \in Seq(Nat) /\ Len(sw) \in Nat /\ Ordered(analysis)
        /\ \A i \in 1 .. Len(sw) : sw[i] \in 1 .. 100 /\ \A j \in 1 .. i - 1 : sw[j] < sw[i]
    BY <2>1, AnalysisIs DEF WalkInv, SplitInv, Ordered, totalWeight
  <2>3. split.canary \in Nat /\ increases \in Nat
    BY <2>1 DEF WalkInv, SplitInv
  <2>4. RaiseWeight
    <3>1. CASE ReachMaximum
      BY <2>1, <2>3, <3>1 DEF ReachMaximum
    <3>2. CASE LowerWeight
      <4>1. analysis.stepWeightPromotion \in Nat
        BY <2>1, AnalysisIs DEF WalkInv, SplitInv
      <4>2. \/ split'.canary = 0
            \/ split'.canary = Greatest(0, split.canary - analysis.stepWeightPromotion)
        BY <3>2 DEF LowerWeight, AllToPrimary, ShiftBack, Split
      <4>3. QED
        BY <2>1, <2>3, <4>1, <4>2 DEF Greatest
    <3>3. QED
      BY <2>1, <3>1, <3>2 DEF Next
  <2>5. /\ n \in 1 .. Len(sw) /\ split'.canary = sw[n]
    BY <2>1, <2>2, <2>3, <2>4, ListedRaise
  <2>6. \/ increases = 0 /\ split.canary = 0
        \/ increases \in 1 .. Len(sw) /\ split.canary = sw[increases]
    BY <2>1, <2>4 DEF WalkInv, ListedInv, RaiseWeight
  <2> HIDE DEF sw
  <2>7. ASSUME NEW i \in 1 .. Len(sw)
        PROVE  sw[i] <= split.canary \/ sw[i] >= sw[n]
    <3>1. CASE i < n
      <4>1. increases \in 1 .. Len(sw) /\ split.canary = sw[increases]
        BY <2>2, <2>3, <2>6, <3>1
      <4>2. i = increases \/ i \in 1 .. increases - 1
        BY <2>2, <3>1, <4>1
      <4>3. sw[i] = sw[increases] \/ sw[i] < sw[increases]
        BY <2>2, <4>1, <4>2
      <4>4. sw[i] \in Int /\ sw[increases] \in Int
        BY <2>2, <4>1
      <4>5. QED
        BY <4>1, <4>3, <4>4
    <3>2. CASE i = n
      <4>1. sw[i] = sw[n] /\ sw[i] \in Int
        BY <2>2, <3>2
      <4>2. QED
        BY <4>1
    <3>3. CASE n < i
      <4>1. n \in 1 .. i - 1 /\ sw[n] \in Int /\ sw[i] \in Int
        BY <2>2, <2>5, <3>3
      <4>2. sw[n] < sw[i]
        BY <2>2, <4>1
      <4>3. QED
        BY <4>1, <4>2
    <3>4. QED
      BY <2>2, <2>5, <3>1, <3>2, <3>3
  <2>8. QED
    BY <2>5, <2>7 DEF Listed, sw
<1>3. QED
  BY <1>1, <1>2, WalkInvInit, PTL DEF Spec, FollowsTheList
=============================================================================
