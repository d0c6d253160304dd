------------------------------- MODULE Rollout -------------------------------
(***************************************************************************)
(* What a rollout promises, whatever the strategy: the workload behind the *)
(* primary changes only while a rollout is under way, requests reach the   *)
(* canary only when one was started, a promoted revision is not analysed   *)
(* again without a pause, and a rollout comes to rest only when all the    *)
(* traffic is the primary's.  AdvanceCanary implements it, one write after *)
(* the other.                                                              *)
(***************************************************************************)
CONSTANTS
  Workloads,   \* the contents a workload can have
  None         \* what the primary runs before it exists

VARIABLES
  stage,       \* "rest", "waiting", "analysis" or "promotion"
  traffic,     \* "primary", or "shared" with the canary
  primary      \* what the primary runs

vars == <<stage, traffic, primary>>

UnderWay == stage \in {"analysis", "promotion"}

Init == stage = "rest" /\ traffic = "primary" /\ primary = None

\* The primary is created from the target.
Create ==
  /\ primary = None
  /\ primary' \in Workloads
  /\ stage = "rest"
  /\ UNCHANGED <<stage, traffic>>

\* A rollout starts, or its analysis starts over, with no canary traffic.
Start ==
  /\ primary # None
  /\ stage \in {"rest", "analysis"} /\ traffic = "primary"
  /\ stage' = "analysis"
  /\ UNCHANGED <<traffic, primary>>

\* The canary gets traffic, a part of it or a copy.
Share ==
  /\ UnderWay
  /\ traffic' = "shared"
  /\ UNCHANGED <<stage, primary>>

\* All traffic is routed to the primary, if only because the routes are new.
Withdraw ==
  /\ stage # "rest"
  /\ traffic' = "primary"
  /\ UNCHANGED <<stage, primary>>

\* The primary is given a new workload, or a part of it: by the analysis, or
\* with no traffic on the canary.
Update ==
  /\ stage = "analysis" \/ (stage = "promotion" /\ traffic = "primary")
  /\ primary' \in Workloads
  /\ UNCHANGED <<stage, traffic>>

\* The primary is up to date: the traffic is on its way back.
Promote ==
  /\ stage = "analysis"
  /\ stage' = "promotion"
  /\ UNCHANGED <<traffic, primary>>

\* The user holds the rollout ...
Pause ==
  /\ primary # None
  /\ stage' = "waiting"
  /\ UNCHANGED <<traffic, primary>>

\* ... and lets it go on.
Resume ==
  /\ stage = "waiting"
  /\ stage' = "analysis"
  /\ UNCHANGED <<traffic, primary>>

\* The rollout ends, promoted or rolled back.
Finish ==
  /\ UnderWay
  /\ traffic = "primary"
  /\ stage' = "rest"
  /\ UNCHANGED <<traffic, primary>>

Next == \/ Create \/ Start \/ Share \/ Withdraw \/ Update \/ Promote
        \/ Pause \/ Resume \/ Finish

Spec == Init /\ [][Next]_vars
=============================================================================
