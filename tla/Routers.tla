------------------------------- MODULE Routers -------------------------------
(***************************************************************************)
(* The mesh and ingress routers of Flagger (pkg/router): what Reconcile,   *)
(* GetRoutes, SetRoutes and Finalize do to the objects of the provider a   *)
(* canary uses, as the job of that canary calls them, with edits of the    *)
(* spec between the calls and API writes that fail in the middle of one.   *)
(***************************************************************************)
EXTENDS Integers, Sequences, SequencesExt

CONSTANTS
  Absent,         \* the object does not exist
  Original,       \* the revision of an object its user created, not Flagger
  Canaries,       \* the canaries to start from
  CanaryWeights,  \* the weights the scheduler gives the canary
  MaxEdits,       \* bound: edits of the spec
  MaxFaults       \* bound: API writes that fail

ASSUME ConstantsAssumption ==
  /\ CanaryWeights \subseteq 0..100
  /\ MaxEdits \in Nat /\ MaxFaults \in Nat
  /\ Absent \notin Int /\ Original \notin Int /\ Absent # Original

VARIABLES
  canary,   \* the Canary: provider, strategy, service, revision of its spec
  objects,  \* the revision of every object a router keeps beside its route
  route,    \* the object that holds the weights
  saved,    \* the configuration kept in an annotation of the route, for Finalize
  pc,       \* where the tick is
  held,     \* the Canary the tick has read
  seen,     \* what GetRoutes returned
  written,  \* what the last SetRoutes wrote, until a Reconcile resets it
  edits, faults

vars == <<canary, objects, route, saved, pc, held, seen, written, edits, faults>>

-----------------------------------------------------------------------------
(* Providers and the objects of each.                                      *)

Kinds == {"istio", "smi", "appmesh", "appmesh:v1beta2", "gloo", "contour",
          "nginx", "skipper", "traefik"}

\* MeshRouter: the router of a provider.  All SMI routers do the same, and a
\* provider nobody knows is taken for Istio.
RouterOf(provider) ==
  IF provider = "linkerd" THEN "smi"
  ELSE IF provider \in Kinds THEN provider ELSE "istio"

\* The objects Reconcile keeps, in the order it writes them.
IstioObjects   == <<"canaryRule", "primaryRule", "route">>
AppMeshObjects == <<"apexNode", "primaryNode", "canaryNode", "route", "canaryRoute">>
AppMeshV1beta2Objects ==
  <<"primaryNode", "canaryNode", "route", "service", "canaryRoute", "canaryService">>

\* Mutant: the route table is written before the upstreams it names.
GlooObjects_RouteFirst == <<"route", "primaryUpstream", "canaryUpstream">>

GlooObjects == <<"primaryUpstream", "canaryUpstream", "route">>

ObjectsOf(kind) ==
  CASE kind = "istio"           -> IstioObjects
    [] kind = "appmesh"         -> AppMeshObjects
    [] kind = "appmesh:v1beta2" -> AppMeshV1beta2Objects
    [] kind = "gloo"            -> GlooObjects
    [] OTHER                    -> <<"route">>

\* The objects of Gloo that are never updated.
CreatedOnce == {"primaryUpstream", "canaryUpstream"}

Parts == (UNION {Range(ObjectsOf(k)) : k \in Kinds}) \ {"route"}

\* The route sends the requests it matches to one rule and the others to a
\* second one, if there is a second one.
Weight(primary, share) == [primary |-> primary, canary |-> share]
Unlisted     == -1                     \* the rule does not name the canary
AllToPrimary == Weight(100, 0)
AllToCanary  == Weight(0, 100)
PrimaryOnly(w) == Weight(w, Unlisted)

Specs(revs) ==
  [rev : revs, mirror : BOOLEAN,
   rules : Seq([primary : 0..100, canary : {Unlisted} \cup 0..100])]

\* What the user had before Flagger: no rule of Flagger's.
UserSpec == [rev |-> Original, mirror |-> FALSE, rules |-> <<>>]

\* The providers that route by the match conditions of an A/B test.
SplitsByMatch(kind) ==
  kind \in {"istio", "appmesh", "appmesh:v1beta2", "contour", "nginx"}

\* A Canary.  Only Istio has a route of the user's to take over and give back.
\* A match may have several headers.
CanaryObjects(revs) ==
  [provider : STRING, match : BOOLEAN, headers : BOOLEAN, renamed : BOOLEAN,
   valid : BOOLEAN, backend : BOOLEAN, preexisting : BOOLEAN, kubectl : BOOLEAN,
   edited : BOOLEAN, faulty : BOOLEAN, rev : revs]

ASSUME AbsentAssumption ==
  /\ Absent \notin Specs(Int \cup {Original})
  /\ Absent \notin [primary : Int, canary : Int, mirrored : BOOLEAN]

ASSUME CanariesAssumption ==
  /\ Canaries \subseteq CanaryObjects({0})
  /\ \A c \in Canaries : /\ c.preexisting => RouterOf(c.provider) = "istio"
                         /\ c.kubectl => c.preexisting
                         /\ c.headers => c.match

Router == RouterOf(canary.provider)

-----------------------------------------------------------------------------
(* Reconcile.                                                              *)

\* The rules Reconcile leaves when it writes the route: everything to the
\* primary, of an A/B test in two rules.
TwoRules(c) == IF c.match THEN <<AllToPrimary, PrimaryOnly(100)>> ELSE <<AllToPrimary>>

IstioReconciles(c)   == TwoRules(c)
SmiReconciles        == <<AllToPrimary>>
GlooReconciles       == <<AllToPrimary>>
\* Mutant: the weights are swapped.
SkipperReconciles_Swapped == <<AllToCanary>>
SkipperReconciles    == <<AllToPrimary>>
ContourReconciles(c) ==
  IF c.match THEN <<AllToPrimary, AllToPrimary>> ELSE <<AllToPrimary>>

\* An update of the App Mesh routes and of the ingress keeps the weights.
AppMeshReconciles(c) ==
  IF route = Absent THEN TwoRules(c) ELSE <<Head(route.rules)>> \o Tail(TwoRules(c))
AppMeshV1beta2Reconciles(c) == AppMeshReconciles(c)
NginxReconciles == IF route = Absent THEN <<AllToPrimary>> ELSE route.rules

\* Traefik keeps the services it has, with the weight of a new one.
TraefikReconciles ==
  IF route # Absent /\ Head(route.rules).canary # Unlisted THEN <<Weight(100, 100)>>
  ELSE <<PrimaryOnly(100)>>

ReconciledRules(kind, c) ==
  CASE kind = "istio"           -> IstioReconciles(c)
    [] kind = "smi"             -> SmiReconciles
    [] kind = "appmesh"         -> AppMeshReconciles(c)
    [] kind = "appmesh:v1beta2" -> AppMeshV1beta2Reconciles(c)
    [] kind = "gloo"            -> GlooReconciles
    [] kind = "contour"         -> ContourReconciles(c)
    [] kind = "nginx"           -> NginxReconciles
    [] kind = "skipper"         -> SkipperReconciles
    [] kind = "traefik"         -> TraefikReconciles

ReconciledRoute(kind, c) ==
  [rev |-> c.rev, mirror |-> FALSE, rules |-> ReconciledRules(kind, c)]

KeepsWeights(kind) == kind \in {"nginx", "appmesh", "appmesh:v1beta2"}

\* Contour and Gloo list the headers of a match in the random order of a map.
\* With several of them a tick may find the route in another order, or not.
Orders ==
  IF canary.headers /\ Router \in {"contour", "gloo"} THEN {"same", "other"} ELSE {"same"}

\* Mutant: the weights are compared as well.
NeedsWrite_Weights(c, name, order) ==
  IF name = "route"
  THEN route = Absent \/ route.rev # c.rev \/ route.rules # <<AllToPrimary>>
  ELSE objects[name] # c.rev

\* Is an object missing or, the weights aside, different from the spec?  An
\* upstream of Gloo is never updated, and a virtual service of App Mesh v1beta2
\* is looked at only when its router has just been created.
NeedsWrite(c, name, order) ==
  CASE name = "route"         -> route = Absent \/ route.rev # c.rev \/ order = "other"
    [] name = "service"       -> route = Absent
    [] name = "canaryService" -> objects["canaryRoute"] = Absent
    [] name \in CreatedOnce   -> objects[name] = Absent
    [] OTHER                  -> objects[name] # c.rev

\* Those of the first n objects that Reconcile writes.
Writes(kind, c, n, order) ==
  {name \in {ObjectsOf(kind)[i] : i \in 1..n} : NeedsWrite(c, name, order)}

\* Reconcile gets past the first n objects.  Istio keeps the configuration an
\* update replaces in an annotation, unless kubectl has left one of its own.
Write(n, order) ==
  LET kind == Router
      done == Writes(kind, canary, n, order)
  IN  /\ objects' = [name \in Parts |->
                       IF name \in done THEN canary.rev ELSE objects[name]]
      /\ IF "route" \notin done
         THEN UNCHANGED <<route, saved, written>>
         ELSE /\ route' = ReconciledRoute(kind, canary)
              /\ saved' = IF kind = "istio" /\ route # Absent /\ ~canary.kubectl
                          THEN route ELSE saved
              /\ written' = IF KeepsWeights(kind) THEN written ELSE Absent

\* Does the router refuse the spec?  App Mesh wants the name of a mesh, Istio no
\* hosts or gateways in a delegate, the ingress routers an ingress.  nginx wants
\* that ingress to route to the apex service; Skipper compares two pointers for
\* that, which never are equal, and does not notice.
Refused(kind) ==
  \/ ~canary.valid /\ kind \in {"istio", "appmesh", "nginx", "skipper"}
  \/ ~canary.backend /\ kind = "nginx"

ReconcileSucceeds ==
  /\ pc = "idle"
  /\ ~Refused(Router)
  /\ \E order \in Orders : Write(Len(ObjectsOf(Router)), order)
  /\ held' = canary
  /\ pc' = "reconciled"
  /\ UNCHANGED <<canary, seen, edits, faults>>

\* A refusal ends the tick; Istio has written its destination rules by then.
ReconcileRefuses ==
  /\ pc = "idle"
  /\ Refused(Router)
  /\ Write(IF Router = "istio" THEN 2 ELSE 0, "same")
  /\ UNCHANGED <<canary, pc, held, seen, edits, faults>>

\* A write fails: those before it stay, and the tick ends.
ReconcileFails ==
  /\ pc = "idle"
  /\ ~Refused(Router)
  /\ canary.faulty /\ faults < MaxFaults
  /\ \E order \in Orders :
       \E n \in {i \in DOMAIN ObjectsOf(Router) :
                     NeedsWrite(canary, ObjectsOf(Router)[i], order)} :
         Write(n - 1, order)
  /\ faults' = faults + 1
  /\ UNCHANGED <<canary, pc, held, seen, edits>>

-----------------------------------------------------------------------------
(* GetRoutes and SetRoutes.                                                *)

\* The error GetRoutes may return.
NotFound == [primary |-> 0, canary |-> 0, mirrored |-> FALSE]

\* GetRoutes reads both weights of the first rule, or one and takes the rest for
\* the other.  Mutant: those of the last one.
ReadsBoth_LastRule(r) ==
  [primary |-> Last(r.rules).primary, canary |-> Last(r.rules).canary,
   mirrored |-> r.mirror]

ReadsBoth(r) ==
  [primary |-> Head(r.rules).primary, canary |-> Head(r.rules).canary,
   mirrored |-> r.mirror]
ReadsPrimary(r) ==
  [primary |-> Head(r.rules).primary, canary |-> 100 - Head(r.rules).primary,
   mirrored |-> FALSE]

IstioGets(r)          == ReadsBoth(r)
SmiGets(r)            == ReadsBoth(r)
AppMeshGets(r)        == ReadsBoth(r)
AppMeshV1beta2Gets(r) == ReadsBoth(r)
SkipperGets(r)        == ReadsBoth(r)
ContourGets(r)        == ReadsPrimary(r)
TraefikGets(r)        == ReadsPrimary(r)
\* Mutant: the weight of the primary is left out.
NginxGets_CanaryOnly(r) ==
  [primary |-> 0, canary |-> Head(r.rules).canary, mirrored |-> FALSE]
\* The weight of the canary, or the header annotation of an A/B test.
NginxGets(r)          == ReadsBoth(r)
\* Gloo looks for the table by the name of the target, not by that of the service.
GlooGets(c, r)        == IF c.renamed THEN NotFound ELSE ReadsPrimary(r)

Read(kind, c, r) ==
  CASE kind = "istio"           -> IF r.rules = <<>> THEN NotFound ELSE IstioGets(r)
    [] kind = "smi"             -> SmiGets(r)
    [] kind = "appmesh"         -> AppMeshGets(r)
    [] kind = "appmesh:v1beta2" -> AppMeshV1beta2Gets(r)
    [] kind = "gloo"            -> GlooGets(c, r)
    [] kind = "contour"         -> ContourGets(r)
    [] kind = "nginx"           -> NginxGets(r)
    [] kind = "skipper"         -> SkipperGets(r)
    [] kind = "traefik"         -> TraefikGets(r)

GetRoutes ==
  /\ pc = "reconciled"
  /\ LET s == Read(Router, held, route)
     IN  IF s.primary = 0 /\ s.canary = 0
         THEN pc' = "idle" /\ UNCHANGED seen
         ELSE pc' = "routing" /\ seen' = s
  /\ UNCHANGED <<canary, objects, route, saved, held, written, edits, faults>>

\* The rules after SetRoutes(p, c).
IstioSets(p, c) ==
  IF held.match THEN <<Weight(p, c), PrimaryOnly(p)>> ELSE <<Weight(p, c)>>
SmiSets(p, c)            == <<Weight(p, c)>>
GlooSets(p, c)           == <<Weight(p, c)>>
SkipperSets(p, c)        == <<Weight(p, c)>>
AppMeshSets(p, c)        == [route.rules EXCEPT ![1] = Weight(p, c)]
AppMeshV1beta2Sets(p, c) == [route.rules EXCEPT ![1] = Weight(p, c)]

\* Mutant: both rules of Contour take the weights.
ContourSets_BothRules(p, c) ==
  IF held.match THEN <<Weight(p, c), Weight(p, c)>> ELSE <<Weight(p, c)>>

ContourSets(p, c) ==
  IF held.match THEN <<Weight(p, c), AllToPrimary>> ELSE <<Weight(p, c)>>

\* Mutant: the header annotations stay when the canary has no traffic.
NginxSets_KeepsHeader(c) ==
  IF held.match THEN <<AllToCanary, Last(route.rules)>> ELSE <<Weight(100 - c, c)>>

\* The second rule of the ingress has the weight it had, which the annotations
\* of the A/B test leave.
NginxSets(c) ==
  IF ~held.match THEN <<Weight(100 - c, c)>>
  ELSE IF c > 0 THEN <<AllToCanary, Last(route.rules)>> ELSE <<AllToPrimary>>

\* Mutant: the canary is listed with whatever weight.
TraefikSets_Rest(p, c) == <<Weight(p - c, c)>>

TraefikSets(p, c) == IF c > 0 THEN <<Weight(p, c)>> ELSE <<PrimaryOnly(p)>>

WrittenRules(kind, p, c) ==
  CASE kind = "istio"           -> IstioSets(p, c)
    [] kind = "smi"             -> SmiSets(p, c)
    [] kind = "appmesh"         -> AppMeshSets(p, c)
    [] kind = "appmesh:v1beta2" -> AppMeshV1beta2Sets(p, c)
    [] kind = "gloo"            -> GlooSets(p, c)
    [] kind = "contour"         -> ContourSets(p, c)
    [] kind = "nginx"           -> NginxSets(c)
    [] kind = "skipper"         -> SkipperSets(p, c)
    [] kind = "traefik"         -> TraefikSets(p, c)

\* Only Istio mirrors, and not in an A/B test.
SetRoutes(p, c, mirrored) ==
  /\ route' = [rev    |-> route.rev,
               rules  |-> WrittenRules(Router, p, c),
               mirror |-> mirrored /\ Router = "istio" /\ ~held.match]
  /\ written' = [primary |-> p, canary |-> c, mirrored |-> route'.mirror]

\* The scheduler moves traffic: a weight, all of it, or a mirror of it.
Route ==
  /\ pc = "routing"
  /\ \/ \E w \in CanaryWeights :
          /\ held.match => w \in {0, 100}
          /\ SetRoutes(100 - w, w, FALSE)
     \/ SetRoutes(100, 0, TRUE)
  /\ pc' = "idle"
  /\ UNCHANGED <<canary, objects, saved, held, seen, edits, faults>>

\* The tick ends without a change of the routes, or its write fails.
Leave ==
  /\ pc = "routing"
  /\ pc' = "idle"
  /\ UNCHANGED <<canary, objects, route, saved, held, seen, written, edits,
                 faults>>

-----------------------------------------------------------------------------
(* Finalize and the environment.                                           *)

\* Finalize: Istio restores what an annotation has kept, Skipper deletes its
\* ingress; the others leave their objects to the garbage collector.
Finalize ==
  /\ pc = "idle"
  /\ route # Absent
  /\ route' = CASE Router = "skipper"                  -> Absent
                [] Router = "istio" /\ canary.kubectl  -> UserSpec
                [] /\ Router = "istio"
                   /\ ~canary.kubectl
                   /\ saved # Absent                   -> saved
                [] OTHER                               -> route
  /\ pc' = "finalized"
  /\ written' = Absent
  /\ UNCHANGED <<canary, objects, saved, held, seen, edits, faults>>

\* The user edits the service of the canary (or the ingress it refers to).
Edit ==
  /\ pc # "finalized"
  /\ canary.edited /\ edits < MaxEdits
  /\ canary' = [canary EXCEPT !.rev = edits + 1]
  /\ edits' = edits + 1
  /\ UNCHANGED <<objects, route, saved, pc, held, seen, written, faults>>

Init ==
  /\ canary \in Canaries
  /\ objects = [name \in Parts |-> Absent]
  /\ route = IF canary.preexisting THEN UserSpec ELSE Absent
  /\ saved = Absent
  /\ pc = "idle"
  /\ held = canary
  /\ seen = NotFound
  /\ written = Absent
  /\ edits = 0 /\ faults = 0

Next ==
  \/ ReconcileSucceeds \/ ReconcileRefuses \/ ReconcileFails
  \/ GetRoutes \/ Route \/ Leave
  \/ Finalize \/ Edit

\* The ticker of the job calls Reconcile again and again.
Spec == Init /\ [][Next]_vars /\ WF_vars(ReconcileSucceeds) /\ WF_vars(GetRoutes)
             /\ WF_vars(Leave)

-----------------------------------------------------------------------------
(* Properties.                                                             *)

Revs == 0..MaxEdits
Shares == [primary : 0..100, canary : 0..100, mirrored : BOOLEAN]

TypeOK ==
  /\ canary.rev \in Revs /\ held.rev \in Revs
  /\ objects \in [Parts -> Revs \cup {Absent}]
  /\ route = Absent \/ route \in Specs(Revs \cup {Original})
  /\ saved = Absent \/ saved \in Specs(Revs \cup {Original})
  /\ pc \in {"idle", "reconciled", "routing", "finalized"}
  /\ seen \in Shares
  /\ written = Absent \/ written \in Shares
  /\ edits \in 0..MaxEdits /\ faults \in 0..MaxFaults

\* The share of the requests a rule sends to the canary.
ShareOf(rule) ==
  IF rule.canary <= 0 THEN 0
  ELSE (100 * rule.canary) \div (rule.primary + rule.canary)

Unserved(r) == r = Absent \/ r.rules = <<>> \/ ~canary.backend

\* The shares of the requests that match the conditions, and of the others.
MatchedShare(r) == IF Unserved(r) THEN 0 ELSE ShareOf(Head(r.rules))
OtherShare(r)   == IF Unserved(r) THEN 0 ELSE ShareOf(Last(r.rules))

\* What SetRoutes has written GetRoutes reads back, in every later tick, until
\* a Reconcile has reset the weights; and nginx and App Mesh never reset them.
ReadBack ==
  written # Absent => Read(Router, canary, route) = written

\* In an A/B test the requests that do not match stay on the primary, wherever
\* the matching ones go.
OthersStayOnPrimary ==
  canary.match /\ SplitsByMatch(Router) => OtherShare(route) = 0

\* Reconcile keeps the weights of a route unless the spec was edited.  (It does
\* not where it finds the headers of a match in another order.)
OnlyEditsReset ==
  [][pc = "idle" /\ pc' # "finalized" /\ route # Absent /\ route.rev = canary.rev
     => route'.rules = route.rules]_vars

\* What a route sends its requests to.
Destinations == {"canaryRule", "primaryRule", "primaryNode", "canaryNode",
                 "primaryUpstream", "canaryUpstream"}

\* A route refers to its destination rules, virtual nodes or upstreams only
\* once they exist, whichever write failed.
RouteHasItsParts ==
  route # Absent /\ route # UserSpec =>
    \A name \in Range(ObjectsOf(Router)) \cap Destinations : objects[name] # Absent

\* Reconcile runs in every tick and may reset the weights after an edit, but
\* gives the canary no traffic it did not have.
ReconcileAddsNoTraffic ==
  [][pc = "idle" /\ pc' # "finalized" =>
       /\ MatchedShare(route') <= MatchedShare(route)
       /\ OtherShare(route') <= OtherShare(route)]_vars

\* Once its writes stop failing, the job gets again and again to where it may
\* move traffic: no state of the objects makes GetRoutes fail for ever.
TicksGetToRoute ==
  <>[](pc # "finalized" /\ ~Refused(Router)) => []<>(pc = "routing")

\* The abstraction: the share of the requests that match which Flagger's route
\* sends to the canary, and what a tick was told of it.
SplitOf(share, mirrored) == [canary |-> share, mirrored |-> mirrored]
NoSplit == SplitOf(-1, FALSE)
Split ==
  IF route \in {Absent, UserSpec} \/ pc = "finalized" THEN NoSplit
  ELSE SplitOf(ShareOf(Head(route.rules)), route.mirror)
Told == IF pc = "routing" THEN SplitOf(seen.canary, seen.mirrored) ELSE NoSplit

T == INSTANCE TrafficSplit WITH split <- Split, told <- Told, Weights <- CanaryWeights

\* The router of every provider keeps one split for the scheduler, whatever its
\* objects look like: GetRoutes tells the share the requests see, no edit
\* changes it before the tick acts on it, and between two ticks it may only be
\* reset to the primary.
ImplementsTrafficSplit == T!Spec

\* After the deletion of a canary with revertOnDeletion a virtual service its
\* user had created is what it was, if kubectl has kept it or the canary was not
\* edited since: ticks and SetRoutes do not overwrite what was saved.
FinalizeRestores ==
  /\ pc = "finalized" /\ canary.preexisting
  /\ canary.kubectl \/ edits = 0
  => route = UserSpec
=============================================================================
