------------------------------ MODULE MCRouters ------------------------------
(* Canaries for TLC: every provider, with and without an A/B test.         *)
EXTENDS Routers

Plain ==
  [provider |-> "istio", match |-> FALSE, headers |-> FALSE, renamed |-> FALSE,
   valid |-> TRUE, backend |-> TRUE, preexisting |-> FALSE, kubectl |-> FALSE, rev |-> 0,
   edited |-> TRUE, faulty |-> TRUE]

On(p)     == [Plain EXCEPT !.provider = p]
Tested(p) == [On(p) EXCEPT !.match = TRUE]

Weighted == {On(p) : p \in {"istio", "linkerd", "appmesh", "gloo", "contour",
                            "nginx", "skipper"}}
ByMatch  == {Tested(p) : p \in {"istio", "appmesh", "appmesh:v1beta2",
                             "contour", "nginx"}}

\* A match of several headers, which these two list in any order.
Shuffled == {[Tested(p) EXCEPT !.headers = TRUE] : p \in {"contour", "gloo"}}

Refusing == {[On(p) EXCEPT !.valid = FALSE] : p \in {"osm", "appmesh", "skipper"}}
            \cup {[On("nginx") EXCEPT !.backend = FALSE]}

\* The virtual service was there before the canary, applied by kubectl or not.
Preexisting ==
  {[Plain EXCEPT !.preexisting = TRUE, !.kubectl = k] : k \in BOOLEAN}

\* The service is not named after the target.
Renamed == {[On(p) EXCEPT !.renamed = TRUE] : p \in {"contour", "smi"}}

\* Traefik with a service nobody edits.
Sheltered == {[On("traefik") EXCEPT !.edited = FALSE]}

EveryRouter ==
  Weighted \cup ByMatch \cup Shuffled \cup Refusing \cup Renamed \cup Preexisting
  \cup Sheltered

EditedTraefik == EveryRouter \cup {On("traefik")}
=============================================================================
