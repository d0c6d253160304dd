----------------------------- MODULE TrafficSplit -----------------------------
(***************************************************************************)
(* What a router promises the scheduler, whatever the provider: it keeps   *)
(* one split of the traffic.  A tick is told the split the requests see,   *)
(* nothing changes it until the tick does, and between two ticks it may    *)
(* only fall back to the primary.  Routers implements it.                  *)
(***************************************************************************)
EXTENDS Integers

CONSTANT Weights   \* the weights the scheduler gives the canary

VARIABLES
  split,     \* the share of the canary and whether requests are mirrored
  told       \* the split a tick was told and acts on

vars == <<split, told>>

Split(w, m) == [canary |-> w, mirrored |-> m]
AllPrimary  == Split(0, FALSE)
Mirroring   == Split(0, TRUE)
Splits      == {Split(w, FALSE) : w \in Weights} \cup {AllPrimary, Mirroring}

\* The router has no split to tell.
NoSplit == Split(-1, FALSE)

Init == split = NoSplit /\ told = NoSplit

\* Reconcile: the split is there, as it was or all to the primary.
Reset ==
  /\ told = NoSplit
  /\ split' = AllPrimary
  /\ UNCHANGED told

\* GetRoutes tells the tick what the requests see.
Tell ==
  /\ told = NoSplit /\ split # NoSplit
  /\ told' = split
  /\ UNCHANGED split

\* SetRoutes: the tick moves traffic, once ...
Shift ==
  /\ told # NoSplit
  /\ split' \in Splits
  /\ told' = NoSplit

\* ... or leaves it.
Keep ==
  /\ told # NoSplit
  /\ told' = NoSplit
  /\ UNCHANGED split

\* Finalize: the router is done with the traffic.
Release ==
  /\ told = NoSplit
  /\ split' = NoSplit
  /\ UNCHANGED told

Next == Reset \/ Tell \/ Shift \/ Keep \/ Release

Spec == Init /\ [][Next]_vars
=============================================================================
