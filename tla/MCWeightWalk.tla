---------------------------- MODULE MCWeightWalk ----------------------------
(* Finite set of analyses for TLC: linear steps that do and do not divide the
   maximum, lists with one to four weights, with and without mirroring. *)
EXTENDS WeightWalk

Steps == {1, 2, 7, 20, 30, 50, 99, 100}

LinearAnalyses ==
  [stepWeight : Steps, stepWeights : {<<>>}, maxWeight : {0, 1, 49, 50, 99, 100},
   stepWeightPromotion : {0, 1, 30, 50, 100}, mirror : BOOLEAN]

Increasing ==
  {<<x>> : x \in {1, 50, 100}} \cup
  {<<x, y>> : x \in {1, 10, 50}, y \in {60, 99, 100}} \cup
  {<<1, 2, 10, 80>>, <<10, 11, 100>>, <<5, 60, 99>>}

ListedAnalyses ==
  [stepWeight : {0}, stepWeights : Increasing, maxWeight : {0, 50},
   stepWeightPromotion : {0, 1, 30, 100}, mirror : BOOLEAN]

MCAnalyses == LinearAnalyses \cup ListedAnalyses
=============================================================================
