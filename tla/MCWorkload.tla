------------------------------ MODULE MCWorkload ------------------------------
(* Targets for TLC: the three kinds, and the ways to use two configs.      *)
EXTENDS Workload

CONSTANTS a, b

Names == {a, b}

Plain ==
  [kind |-> "Deployment", uses |-> {Names}, mandatory |-> {}, inInit |-> {},
   disabled |-> {}, absent |-> {}, recreated |-> FALSE]

EveryKind ==
  {Plain,
   [Plain EXCEPT !.mandatory = {a}, !.inInit = {a}, !.recreated = TRUE],
   [Plain EXCEPT !.disabled = {a}, !.absent = {b}],
   [Plain EXCEPT !.uses = {{a}, {b}}],
   [Plain EXCEPT !.kind = "DaemonSet", !.mandatory = {a}],
   [Plain EXCEPT !.kind = "Service", !.uses = {{}}, !.recreated = TRUE]}

InInit    == {[Plain EXCEPT !.inInit = {a}]}
Recreated == {[Plain EXCEPT !.kind = "DaemonSet", !.uses = {{}}, !.recreated = TRUE]}
OneConfig == {[Plain EXCEPT !.uses = {{a}}]}
=============================================================================
