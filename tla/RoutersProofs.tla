---------------------------- MODULE RoutersProofs ----------------------------
(***************************************************************************)
(* Proofs about Routers, for every set of canaries and every bound: the    *)
(* types, what the routes of each provider may look like, that what        *)
(* SetRoutes wrote is read back, that no route comes before its parts,     *)
(* what Finalize restores, and that Reconcile adds no traffic.             *)
(***************************************************************************)
EXTENDS Routers, SequenceTheorems, TLAPS

-----------------------------------------------------------------------------
(* Rules. *)

Rule   == [primary : 0..100, canary : {Unlisted} \cup 0..100]
Splits == {Weight(100 - w, w) : w \in 0..100}

\* The first rule of a route: a split, or what Traefik makes of one without the
\* canary, and after an edit.
Firsts(kind) ==
  IF kind = "traefik" THEN Splits \cup {PrimaryOnly(100), Weight(100, 100)} ELSE Splits

\* The second one, of an A/B test, gives the canary nothing.
Seconds == {AllToPrimary} \cup {PrimaryOnly(w) : w \in 0..100}

\* The canaries whose routes have a second rule.
InTwo(c) == c.match /\ SplitsByMatch(RouterOf(c.provider))

\* The rules of a route for canary c; nginx removes the second one with the
\* headers of the A/B test.
Proper(c, rules) ==
  \E first \in Firsts(RouterOf(c.provider)) :
    \/ /\ rules = <<first>>
       /\ InTwo(c) => RouterOf(c.provider) = "nginx" /\ first = AllToPrimary
    \/ /\ InTwo(c)
       /\ \E second \in Seconds :
            /\ rules = <<first, second>>
            /\ RouterOf(c.provider) = "nginx" => second = AllToPrimary

-----------------------------------------------------------------------------
(* The invariant. *)

\* The route is Flagger's.
Flaggers(r) == r # Absent /\ r # UserSpec

RouteObject(r) == r \in Specs(Revs)

\* Everything but the revision of a Canary stays.
SameCanary(c, d) ==
  /\ c \in CanaryObjects(Revs) /\ d \in CanaryObjects(Revs)
  /\ c.provider = d.provider /\ c.match = d.match /\ c.renamed = d.renamed

\* A tick holds the Canary it acts for, and edits change its revision alone.
CanaryInv ==
  /\ canary.rev = edits /\ edits \in 0..MaxEdits
  /\ canary.edited \/ edits = 0
  /\ SameCanary(held, canary)
  /\ canary.preexisting => Router = "istio"
  /\ canary.kubectl => canary.preexisting

TypeInv ==
  /\ CanaryInv
  /\ objects \in [Parts -> Revs \cup {Absent}]
  /\ pc \in {"idle", "reconciled", "routing", "finalized"}
  /\ seen \in Shares
  /\ written = Absent \/ written \in Shares
  /\ faults \in 0..MaxFaults

\* A route of Flagger's, of a revision Flagger has seen, has proper rules.
RouteOf(c, r) ==
  /\ RouteObject(r) /\ r.rev \in 0..edits
  /\ Proper(c, r.rules)
  /\ r.mirror => RouterOf(c.provider) = "istio"

\* What is there, and what is saved, is Flagger's or the user's; a tick goes on
\* with a route of Flagger's only.
RouteInv ==
  /\ \A r \in {route, saved} : \/ r = Absent
                               \/ r = UserSpec /\ canary.preexisting
                               \/ RouteOf(canary, r)
  /\ pc \in {"reconciled", "routing"} => Flaggers(route)
  /\ saved # Absent => Router = "istio" /\ (pc # "finalized" => Flaggers(route))
  /\ Router = "gloo" /\ canary.renamed => pc # "routing"

\* What a tick has written is there.
WrittenInv ==
  written # Absent => Flaggers(route) /\ Read(Router, canary, route) = written

\* Flagger's route has its parts.
PartsInv ==
  Flaggers(route) =>
    \A name \in Range(ObjectsOf(Router)) \cap Destinations : objects[name] # Absent

\* The route of the user's is there, or saved.
SavedInv ==
  canary.preexisting /\ ~canary.kubectl /\ edits = 0 =>
    IF pc = "finalized" THEN route = UserSpec
    ELSE \/ route = UserSpec /\ saved = Absent
         \/ Flaggers(route) /\ saved = UserSpec

\* A canary that had a route of the user's has one of Flagger's until it is
\* finalized.
KubectlInv ==
  pc = "finalized" /\ canary.preexisting /\ canary.kubectl => route = UserSpec

-----------------------------------------------------------------------------
(* Lemmas about the rules. *)

\* The ends of a sequence of one, and what is left when its rule is replaced.
LEMMA OneRule ==
  ASSUME NEW a
  PROVE  /\ Head(<<a>>) = a /\ Last(<<a>>) = a /\ <<a>> # <<>>
         /\ \A b : [<<a>> EXCEPT ![1] = b] = <<b>>
         /\ \A b : <<b>> \o Tail(<<a>>) = <<b>>
<1>1. Head(<<a>>) = a /\ Last(<<a>>) = a /\ <<a>> # <<>>
  BY DEF Last
<1>2. \A b : [<<a>> EXCEPT ![1] = b] = <<b>>
  OBVIOUS
<1>3. Tail(<<a>>) = <<>>
  OBVIOUS
<1>4. \A b : <<b>> \o <<>> = <<b>>
  OBVIOUS
<1>5. QED
  BY <1>1, <1>2, <1>3, <1>4

\* The ends of a sequence of two, and what is left when the first is replaced.
LEMMA TwoRulesHave ==
  ASSUME NEW a, NEW b
  PROVE  /\ Head(<<a, b>>) = a /\ Last(<<a, b>>) = b /\ <<a, b>> # <<>>
         /\ \A c : [<<a, b>> EXCEPT ![1] = c] = <<c, b>>
         /\ \A c : <<c>> \o Tail(<<a, b>>) = <<c, b>>
<1>1. Head(<<a, b>>) = a /\ Last(<<a, b>>) = b /\ <<a, b>> # <<>>
  BY DEF Last
<1>2. \A c : [<<a, b>> EXCEPT ![1] = c] = <<c, b>>
  OBVIOUS
<1>3. Tail(<<a, b>>) = <<b>>
  OBVIOUS
<1>4. ASSUME NEW c
      PROVE  <<c>> \o <<b>> = <<c, b>>
  <2> DEFINE s == <<c>> \o <<b>>
             t == <<c, b>>
  <2>1. s \in Seq({b, c}) /\ t \in Seq({b, c})
    OBVIOUS
  <2>2. Len(s) = 2 /\ s[1] = c /\ s[2] = b /\ Len(t) = 2 /\ t[1] = c /\ t[2] = b
    OBVIOUS
  <2> HIDE DEF s, t
  <2>3. Len(s) = Len(t) /\ \A i \in 1..Len(s) : s[i] = t[i]
    BY <2>2
  <2>4. s = t
    BY <2>1, <2>3, SeqEqual
  <2>5. QED
    BY <2>4 DEF s, t
<1>5. QED
  BY <1>1, <1>2, <1>3, <1>4

\* A route has a sequence of rules.
LEMMA SpecsAre ==
  \A revs : Specs(revs) = [rev : revs, mirror : BOOLEAN, rules : Seq(Rule)]
BY DEF Specs, Rule

\* Every canary has one of the routers.
LEMMA RouterIsKnown == \A provider : RouterOf(provider) \in Kinds
BY DEF RouterOf, Kinds

\* What each router reconciles.
LEMMA ReconciledRulesAre ==
  ASSUME NEW c
  PROVE  /\ ReconciledRules("istio", c) = IstioReconciles(c)
         /\ ReconciledRules("smi", c) = SmiReconciles
         /\ ReconciledRules("appmesh", c) = AppMeshReconciles(c)
         /\ ReconciledRules("appmesh:v1beta2", c) = AppMeshReconciles(c)
         /\ ReconciledRules("gloo", c) = GlooReconciles
         /\ ReconciledRules("contour", c) = ContourReconciles(c)
         /\ ReconciledRules("nginx", c) = NginxReconciles
         /\ ReconciledRules("skipper", c) = SkipperReconciles
         /\ ReconciledRules("traefik", c) = TraefikReconciles
BY DEF ReconciledRules, AppMeshV1beta2Reconciles

\* What SetRoutes of each router writes.
LEMMA WrittenRulesAre ==
  ASSUME NEW p, NEW w
  PROVE  /\ WrittenRules("istio", p, w) = IstioSets(p, w)
         /\ WrittenRules("smi", p, w) = SmiSets(p, w)
         /\ WrittenRules("appmesh", p, w) = AppMeshSets(p, w)
         /\ WrittenRules("appmesh:v1beta2", p, w) = AppMeshSets(p, w)
         /\ WrittenRules("gloo", p, w) = GlooSets(p, w)
         /\ WrittenRules("contour", p, w) = ContourSets(p, w)
         /\ WrittenRules("nginx", p, w) = NginxSets(w)
         /\ WrittenRules("skipper", p, w) = SkipperSets(p, w)
         /\ WrittenRules("traefik", p, w) = TraefikSets(p, w)
BY DEF WrittenRules, AppMeshV1beta2Sets, AppMeshSets

\* What GetRoutes of each router reads.
LEMMA ReadIs ==
  ASSUME NEW c, NEW r, r.rules # <<>>
  PROVE  /\ \A kind \in {"istio", "smi", "appmesh", "appmesh:v1beta2", "nginx", "skipper"} :
              Read(kind, c, r) = ReadsBoth(r)
         /\ \A kind \in {"contour", "traefik"} : Read(kind, c, r) = ReadsPrimary(r)
         /\ Read("gloo", c, r) = IF c.renamed THEN NotFound ELSE ReadsPrimary(r)
BY DEF Read, IstioGets, SmiGets, AppMeshGets, AppMeshV1beta2Gets, NginxGets, SkipperGets,
   ContourGets, TraefikGets, GlooGets

\* The first rule splits the traffic, Traefik's aside.
LEMMA FirstsAre ==
  ASSUME NEW kind, NEW first \in Firsts(kind)
  PROVE  /\ first \in Rule
         /\ kind # "traefik" => first.canary \in 0..100 /\ first.primary = 100 - first.canary
BY DEF Firsts, Splits, Rule, Weight, PrimaryOnly, Unlisted

\* The second rule of an A/B test gives the canary nothing.
LEMMA SecondsAre ==
  ASSUME NEW second \in Seconds
  PROVE  second \in Rule /\ second.canary <= 0
BY DEF Seconds, Rule, AllToPrimary, Weight, PrimaryOnly, Unlisted

\* A split is what it says.
LEMMA WeightIs ==
  ASSUME NEW w \in 0..100
  PROVE  /\ \A kind : Weight(100 - w, w) \in Firsts(kind)
         /\ Weight(100 - w, w).primary = 100 - w /\ Weight(100 - w, w).canary = w
         /\ 100 - w \in 0..100
BY DEF Firsts, Splits, Weight

\* All to the primary is a split, and a second rule; so is the primary alone.
LEMMA AllToPrimaryIs ==
  /\ AllToPrimary \in Seconds /\ \A kind : AllToPrimary \in Firsts(kind)
  /\ AllToPrimary.primary = 100 /\ AllToPrimary.canary = 0
  /\ AllToPrimary = Weight(100 - 0, 0)
  /\ AllToCanary = Weight(100 - 100, 100)
  /\ PrimaryOnly(100) \in Firsts("traefik") /\ \A w \in 0..100 : PrimaryOnly(w) \in Seconds
<1>1. AllToPrimary = Weight(100 - 0, 0) /\ AllToCanary = Weight(100 - 100, 100)
  BY DEF AllToPrimary, AllToCanary
<1>2. /\ AllToPrimary \in Seconds
      /\ PrimaryOnly(100) \in Firsts("traefik") /\ \A w \in 0..100 : PrimaryOnly(w) \in Seconds
  BY DEF Seconds, Firsts
<1>3. QED
  BY <1>1, <1>2, WeightIs

\* One rule is proper, of an A/B test only nginx's without the canary.
LEMMA ProperOne ==
  ASSUME NEW c, NEW first \in Firsts(RouterOf(c.provider)),
         InTwo(c) => RouterOf(c.provider) = "nginx" /\ first = AllToPrimary
  PROVE  Proper(c, <<first>>)
BY DEF Proper

\* Two rules are proper for an A/B test.
LEMMA ProperTwo ==
  ASSUME NEW c, NEW first \in Firsts(RouterOf(c.provider)), NEW second \in Seconds,
         InTwo(c), RouterOf(c.provider) = "nginx" => second = AllToPrimary
  PROVE  Proper(c, <<first, second>>)
BY DEF Proper

\* What proper rules are: one, or two for an A/B test.
LEMMA ProperIs ==
  ASSUME NEW c, NEW rules, Proper(c, rules)
  PROVE  /\ rules # <<>> /\ rules \in Seq(Rule)
         /\ Head(rules) \in Firsts(RouterOf(c.provider))
         /\ ~InTwo(c) => rules = <<Head(rules)>>
         /\ InTwo(c) => Last(rules) \in Seconds
         /\ InTwo(c) /\ RouterOf(c.provider) # "nginx" => rules = <<Head(rules), Last(rules)>>
         /\ InTwo(c) /\ RouterOf(c.provider) = "nginx" => Last(rules) = AllToPrimary
<1>1. PICK first \in Firsts(RouterOf(c.provider)) :
        \/ /\ rules = <<first>>
           /\ InTwo(c) => RouterOf(c.provider) = "nginx" /\ first = AllToPrimary
        \/ /\ InTwo(c)
           /\ \E second \in Seconds :
                /\ rules = <<first, second>>
                /\ RouterOf(c.provider) = "nginx" => second = AllToPrimary
  BY DEF Proper
<1>2. first \in Rule
  BY FirstsAre
<1>3. CASE rules = <<first>> /\ (InTwo(c) => RouterOf(c.provider) = "nginx" /\ first = AllToPrimary)
  <2>1. Head(rules) = first /\ Last(rules) = first /\ rules # <<>>
    BY <1>3, OneRule
  <2>2. rules \in Seq(Rule)
    BY <1>2, <1>3
  <2>3. QED
    BY <1>1, <1>3, <2>1, <2>2, AllToPrimaryIs
<1>4. ASSUME NEW second \in Seconds, InTwo(c), rules = <<first, second>>,
             RouterOf(c.provider) = "nginx" => second = AllToPrimary
      PROVE  /\ rules # <<>> /\ rules \in Seq(Rule)
             /\ Head(rules) = first /\ Last(rules) = second
  <2>1. second \in Rule
    BY SecondsAre
  <2>2. Head(rules) = first /\ Last(rules) = second /\ rules # <<>>
    BY <1>4, TwoRulesHave
  <2>3. QED
    BY <1>2, <1>4, <2>1, <2>2
<1>5. QED
  BY <1>1, <1>3, <1>4

\* A route of a revision Flagger has seen is not the user's.
LEMMA RouteOfIsFlaggers ==
  ASSUME NEW c, NEW r, RouteOf(c, r)
  PROVE  Flaggers(r)
<1>1. r.rev \in Int /\ r \in Specs(Int)
  BY ConstantsAssumption DEF RouteOf, RouteObject, Specs, Revs
<1>2. r # UserSpec
  BY <1>1, ConstantsAssumption DEF UserSpec
<1>3. r # Absent
  BY <1>1, AbsentAssumption DEF Specs
<1>4. QED
  BY <1>2, <1>3 DEF Flaggers

\* What RouteInv says of the route that is there.
LEMMA RouteInvSays ==
  ASSUME CanaryInv, RouteInv
  PROVE  /\ Router \in Kinds /\ canary.match \in BOOLEAN /\ held.match = canary.match
         /\ InTwo(canary) <=> canary.match /\ SplitsByMatch(Router)
         /\ Flaggers(route) => RouteOf(canary, route)
         /\ Router # "istio" => route = Absent \/ Flaggers(route)
<1>1. /\ Router \in Kinds /\ canary.match \in BOOLEAN /\ held.match = canary.match
      /\ canary.preexisting => Router = "istio"
  BY RouterIsKnown DEF Router, CanaryInv, SameCanary, CanaryObjects
<1>2. InTwo(canary) <=> canary.match /\ SplitsByMatch(Router)
  BY DEF InTwo, Router
<1>3. route = Absent \/ (route = UserSpec /\ canary.preexisting) \/ RouteOf(canary, route)
  BY DEF RouteInv
<1>4. QED
  BY <1>1, <1>2, <1>3, RouteOfIsFlaggers DEF Flaggers

\* The rules Reconcile leaves are proper, whatever the route was; those of nginx
\* and App Mesh keep the weights, the others give the canary nothing, but for
\* Traefik's when there is a canary in it.
LEMMA ReconciledIsProper ==
  ASSUME CanaryInv, RouteInv
  PROVE  LET rules == ReconciledRules(Router, canary)
         IN  /\ Proper(canary, rules)
             /\ IF KeepsWeights(Router) /\ Flaggers(route)
                THEN Head(rules) = Head(route.rules)
                ELSE \/ Head(rules).canary <= 0
                     \/ Router = "traefik" /\ Flaggers(route)
<1> DEFINE rules == ReconciledRules(Router, canary)
<1> USE DEF Router
<1>0. /\ Router \in Kinds /\ canary.match \in BOOLEAN
      /\ InTwo(canary) <=> canary.match /\ SplitsByMatch(Router)
      /\ Router # "istio" => route = Absent \/ Flaggers(route)
      /\ Flaggers(route) => Proper(canary, route.rules)
  BY RouteInvSays DEF RouteOf
<1>1. CASE Router = "istio"
  <2>1. rules = TwoRules(canary) /\ ~KeepsWeights(Router)
    BY <1>1, ReconciledRulesAre DEF IstioReconciles, KeepsWeights
  <2>2. canary.match <=> InTwo(canary)
    BY <1>0, <1>1 DEF SplitsByMatch
  <2>3. QED
    BY <1>1, <2>1, <2>2, ProperOne, ProperTwo, AllToPrimaryIs, OneRule, TwoRulesHave DEF TwoRules
<1>2. CASE Router \in {"smi", "gloo", "skipper"}
  <2>1. rules = <<AllToPrimary>> /\ ~KeepsWeights(Router) /\ ~InTwo(canary)
    BY <1>0, <1>2, ReconciledRulesAre DEF SmiReconciles, GlooReconciles, SkipperReconciles,
       KeepsWeights, SplitsByMatch
  <2>2. QED
    BY <2>1, ProperOne, AllToPrimaryIs, OneRule
<1>3. CASE Router = "contour"
  <2>1. rules = ContourReconciles(canary) /\ ~KeepsWeights(Router)
    BY <1>3, ReconciledRulesAre DEF KeepsWeights
  <2>2. canary.match <=> InTwo(canary)
    BY <1>0, <1>3 DEF SplitsByMatch
  <2>3. QED
    BY <1>3, <2>1, <2>2, ProperOne, ProperTwo, AllToPrimaryIs, OneRule, TwoRulesHave
       DEF ContourReconciles
<1>4. CASE Router \in {"appmesh", "appmesh:v1beta2"}
  <2>1. rules = AppMeshReconciles(canary) /\ KeepsWeights(Router)
    BY <1>4, ReconciledRulesAre DEF KeepsWeights
  <2>2. canary.match <=> InTwo(canary)
    BY <1>0, <1>4 DEF SplitsByMatch
  <2>3. CASE route = Absent
    BY <1>4, <2>1, <2>2, <2>3, ProperOne, ProperTwo, AllToPrimaryIs, OneRule, TwoRulesHave
       DEF AppMeshReconciles, TwoRules, Flaggers
  <2>4. CASE route # Absent
    <3>1. Head(route.rules) \in Firsts(Router)
      BY <1>0, <1>4, <2>4, ProperIs
    <3>2. rules = <<Head(route.rules)>> \o Tail(TwoRules(canary))
      BY <2>1, <2>4 DEF AppMeshReconciles
    <3>3. rules = IF canary.match THEN <<Head(route.rules), PrimaryOnly(100)>>
                  ELSE <<Head(route.rules)>>
      BY <3>2, OneRule, TwoRulesHave DEF TwoRules
    <3>4. Head(rules) = Head(route.rules)
      BY <3>3, OneRule, TwoRulesHave
    <3>5. Proper(canary, rules)
      <4>1. CASE canary.match
        <5>1. PrimaryOnly(100) \in Seconds
          BY AllToPrimaryIs
        <5>2. QED
          BY <1>4, <2>2, <3>1, <3>3, <4>1, <5>1, ProperTwo
      <4>2. CASE ~canary.match
        BY <1>4, <2>2, <3>1, <3>3, <4>2, ProperOne
      <4>3. QED
        BY <4>1, <4>2
    <3>6. QED
      BY <1>0, <1>4, <2>1, <2>4, <3>4, <3>5
  <2>5. QED
    BY <2>3, <2>4
<1>5. CASE Router = "nginx"
  <2>1. rules = NginxReconciles /\ KeepsWeights(Router)
    BY <1>5, ReconciledRulesAre DEF KeepsWeights
  <2>2. QED
    BY <1>0, <1>5, <2>1, ProperOne, AllToPrimaryIs, OneRule DEF NginxReconciles, Flaggers
<1>6. CASE Router = "traefik"
  <2>1. rules = TraefikReconciles /\ ~KeepsWeights(Router) /\ ~InTwo(canary)
    BY <1>0, <1>6, ReconciledRulesAre DEF KeepsWeights, SplitsByMatch
  <2>2. /\ Weight(100, 100) \in Firsts("traefik") /\ PrimaryOnly(100) \in Firsts("traefik")
        /\ PrimaryOnly(100).canary <= 0
    BY DEF Firsts, PrimaryOnly, Weight, Unlisted
  <2>3. QED
    BY <1>0, <1>6, <2>1, <2>2, ProperOne, OneRule DEF TraefikReconciles, Flaggers
<1>7. QED
  BY <1>0, <1>1, <1>2, <1>3, <1>4, <1>5, <1>6 DEF Kinds

\* GetRoutes reads what the first rule says.
LEMMA ReadsSplit ==
  ASSUME NEW kind \in Kinds, NEW c, NEW r, r.rules # <<>>,
         Head(r.rules).primary \in 0..100,
         kind # "traefik" => Head(r.rules).canary = 100 - Head(r.rules).primary,
         kind = "gloo" => ~c.renamed,
         r.mirror \in BOOLEAN, r.mirror => kind = "istio"
  PROVE  Read(kind, c, r) = [primary  |-> Head(r.rules).primary,
                             canary   |-> 100 - Head(r.rules).primary,
                             mirrored |-> r.mirror]
<1>1. CASE kind \in {"istio", "smi", "appmesh", "appmesh:v1beta2", "nginx", "skipper"}
  BY <1>1, ReadIs DEF ReadsBoth
<1>2. CASE kind \in {"contour", "traefik", "gloo"}
  <2>1. Read(kind, c, r) = ReadsPrimary(r)
    BY <1>2, ReadIs
  <2>2. r.mirror = FALSE
    BY <1>2
  <2>3. QED
    BY <2>1, <2>2 DEF ReadsPrimary
<1>3. QED
  BY <1>1, <1>2 DEF Kinds

\* The rules SetRoutes leaves are proper, with the weights it is given.
LEMMA WrittenIsProper ==
  ASSUME CanaryInv, RouteInv, pc = "routing", NEW w \in 0..100,
         canary.match => w \in {0, 100}
  PROVE  LET rules == WrittenRules(Router, 100 - w, w)
         IN  /\ Proper(canary, rules)
             /\ Head(rules).primary = 100 - w
             /\ Router # "traefik" => Head(rules).canary = w
<1> DEFINE first == Weight(100 - w, w)
           rules == WrittenRules(Router, 100 - w, w)
<1> USE DEF Router
<1>0. /\ Router \in Kinds /\ canary.match \in BOOLEAN /\ held.match = canary.match
      /\ InTwo(canary) <=> canary.match /\ SplitsByMatch(Router)
      /\ Flaggers(route) /\ Proper(canary, route.rules)
      /\ Router = "gloo" => ~canary.renamed
  BY RouteInvSays DEF RouteInv, RouteOf
<1>1. /\ \A kind : first \in Firsts(kind)
      /\ first.primary = 100 - w /\ first.canary = w /\ 100 - w \in 0..100
      /\ 100 - (100 - w) = w
  BY WeightIs
<1>2. /\ \A a : Head(<<a>>) = a /\ <<a>> # <<>>
      /\ \A a, b : Head(<<a, b>>) = a /\ <<a, b>> # <<>>
  BY OneRule, TwoRulesHave
<1>3. /\ PrimaryOnly(100 - w) \in Seconds /\ AllToPrimary \in Seconds
  BY <1>1, AllToPrimaryIs
<1> HIDE DEF first
<1>4. CASE Router \in {"istio", "contour", "appmesh", "appmesh:v1beta2"}
  <2>1. canary.match <=> InTwo(canary)
    BY <1>0, <1>4 DEF SplitsByMatch
  <2>2. \/ ~canary.match /\ rules = <<first>>
        \/ canary.match /\ \E second \in Seconds : rules = <<first, second>>
    <3>1. CASE Router \in {"istio", "contour"}
      BY <1>0, <1>3, <3>1, WrittenRulesAre DEF IstioSets, ContourSets, first
    <3>2. CASE Router \in {"appmesh", "appmesh:v1beta2"}
      <4>1. rules = [route.rules EXCEPT ![1] = first]
        BY <3>2, WrittenRulesAre DEF AppMeshSets, first
      <4>2. CASE canary.match
        <5>1. route.rules = <<Head(route.rules), Last(route.rules)>> /\ Last(route.rules) \in Seconds
          BY <1>0, <2>1, <3>2, <4>2, ProperIs
        <5>2. rules = <<first, Last(route.rules)>>
          BY <4>1, <5>1, TwoRulesHave
        <5>3. QED
          BY <4>2, <5>1, <5>2
      <4>3. CASE ~canary.match
        <5>1. route.rules = <<Head(route.rules)>>
          BY <1>0, <2>1, <3>2, <4>3, ProperIs
        <5>2. rules = <<first>>
          BY <4>1, <5>1, OneRule
        <5>3. QED
          BY <4>3, <5>2
      <4>4. QED
        BY <4>2, <4>3
    <3>3. QED
      BY <1>4, <3>1, <3>2
  <2>3. Head(rules) = first /\ rules # <<>>
    BY <1>2, <2>2
  <2>4. Proper(canary, rules)
    BY <1>1, <1>4, <2>1, <2>2, ProperOne, ProperTwo
  <2>5. QED
    BY <1>1, <2>3, <2>4
<1>5. CASE Router \in {"smi", "gloo", "skipper"}
  <2>0. ~InTwo(canary)
    BY <1>0, <1>5 DEF SplitsByMatch
  <2>1. rules = <<first>>
    BY <1>5, WrittenRulesAre DEF SmiSets, GlooSets, SkipperSets, first
  <2>2. Proper(canary, rules) /\ Head(rules) = first /\ rules # <<>>
    BY <1>1, <1>2, <2>0, <2>1, ProperOne
  <2>3. QED
    BY <1>1, <2>2
<1>6. CASE Router = "nginx"
  <2>1. rules = NginxSets(w) /\ (canary.match <=> InTwo(canary))
    BY <1>0, <1>6, WrittenRulesAre DEF SplitsByMatch
  <2>2. CASE ~canary.match
    <3>1. rules = <<first>>
      BY <1>0, <2>1, <2>2 DEF NginxSets, first
    <3>2. QED
      BY <1>1, <1>2, <2>1, <2>2, <3>1, ProperOne
  <2>3. CASE canary.match /\ w = 100
    <3>1. Last(route.rules) = AllToPrimary
      BY <1>0, <1>6, <2>1, <2>3, ProperIs
    <3>2. rules = <<first, AllToPrimary>>
      BY <1>0, <2>1, <2>3, <3>1, AllToPrimaryIs DEF NginxSets, first
    <3>3. QED
      BY <1>1, <1>2, <1>3, <2>1, <2>3, <3>2, ProperTwo
  <2>4. CASE canary.match /\ w = 0
    <3>1. rules = <<first>> /\ first = AllToPrimary
      BY <1>0, <2>1, <2>4, AllToPrimaryIs DEF NginxSets, first
    <3>2. QED
      BY <1>1, <1>2, <1>6, <2>1, <3>1, ProperOne
  <2>5. QED
    BY <1>0, <2>2, <2>3, <2>4
<1>7. CASE Router = "traefik"
  <2>1. rules = TraefikSets(100 - w, w) /\ ~InTwo(canary)
    BY <1>0, <1>7, WrittenRulesAre DEF SplitsByMatch
  <2>2. PrimaryOnly(100) \in Firsts("traefik") /\ PrimaryOnly(100).primary = 100
    BY DEF Firsts, PrimaryOnly, Weight
  <2>3. PICK a \in Firsts("traefik") : rules = <<a>> /\ a.primary = 100 - w
    BY <1>1, <2>1, <2>2 DEF TraefikSets, first
  <2>4. QED
    BY <1>2, <1>7, <2>1, <2>3, ProperOne
<1>8. QED
  BY <1>0, <1>4, <1>5, <1>6, <1>7 DEF Kinds

-----------------------------------------------------------------------------
(* Lemmas about Reconcile. *)

\* Every router keeps its destinations and writes its route after them.
LEMMA ObjectsAre ==
  ASSUME NEW kind \in Kinds
  PROVE  /\ Len(ObjectsOf(kind)) \in Nat
         /\ DOMAIN ObjectsOf(kind) = 1..Len(ObjectsOf(kind))
         /\ "route" \in {ObjectsOf(kind)[i] : i \in 1..Len(ObjectsOf(kind))}
         /\ \A name \in Range(ObjectsOf(kind)) \cap Destinations :
              /\ name \in Parts
              /\ \A n \in 0..Len(ObjectsOf(kind)) :
                   "route" \in {ObjectsOf(kind)[i] : i \in 1..n} =>
                     name \in {ObjectsOf(kind)[i] : i \in 1..n}
<1>1. \A name \in Range(ObjectsOf(kind)) \cap Destinations : name \in Parts
  <2>1. TAKE name \in Range(ObjectsOf(kind)) \cap Destinations
  <2>2. name \in UNION {Range(ObjectsOf(k)) : k \in Kinds}
    OBVIOUS
  <2>3. name # "route"
    BY DEF Destinations
  <2>4. QED
    BY <2>2, <2>3 DEF Parts
<1>2. CASE kind \notin {"istio", "appmesh", "appmesh:v1beta2", "gloo"}
  <2>1. ObjectsOf(kind) = <<"route">>
    BY <1>2 DEF ObjectsOf, Kinds
  <2>2. Range(ObjectsOf(kind)) \cap Destinations = {}
    BY <2>1 DEF Range, Destinations
  <2>3. QED
    BY <2>1, <2>2
<1>3. CASE kind = "istio"
  <2>1. ObjectsOf(kind) = IstioObjects
    BY <1>3 DEF ObjectsOf
  <2>2. QED
    BY <1>1, <2>1 DEF IstioObjects, Range, Destinations
<1>4. CASE kind = "appmesh"
  <2>1. ObjectsOf(kind) = AppMeshObjects
    BY <1>4 DEF ObjectsOf
  <2>2. QED
    BY <1>1, <2>1 DEF AppMeshObjects, Range, Destinations
<1>5. CASE kind = "appmesh:v1beta2"
  <2>1. ObjectsOf(kind) = AppMeshV1beta2Objects
    BY <1>5 DEF ObjectsOf
  <2>2. QED
    BY <1>1, <2>1 DEF AppMeshV1beta2Objects, Range, Destinations
<1>6. CASE kind = "gloo"
  <2>1. ObjectsOf(kind) = GlooObjects
    BY <1>6 DEF ObjectsOf
  <2>2. QED
    BY <1>1, <2>1 DEF GlooObjects, Range, Destinations
<1>7. QED
  BY <1>2, <1>3, <1>4, <1>5, <1>6

\* What Reconcile need not write is there.
LEMMA NeedsWriteIs ==
  ASSUME NEW c, NEW order
  PROVE  /\ NeedsWrite(c, "route", order) <=>
              route = Absent \/ route.rev # c.rev \/ order = "other"
         /\ \A name \in Destinations :
              ~NeedsWrite(c, name, order) => objects[name] # Absent \/ objects[name] = c.rev
<1>1. NeedsWrite(c, "route", order) <=>
        route = Absent \/ route.rev # c.rev \/ order = "other"
  BY DEF NeedsWrite, CreatedOnce
<1>2. \A name \in Destinations :
        ~NeedsWrite(c, name, order) => objects[name] # Absent \/ objects[name] = c.rev
  BY DEF NeedsWrite, CreatedOnce, Destinations
<1>3. QED
  BY <1>1, <1>2

\* What a Reconcile leaves that got past the first n objects: the route as it
\* was, or the one it writes, after its parts.
LEMMA WriteIs ==
  ASSUME TypeInv, RouteInv, PartsInv, NEW n \in 0..Len(ObjectsOf(Router)),
         NEW order \in Orders, Write(n, order)
  PROVE  /\ objects' \in [Parts -> Revs \cup {Absent}]
         /\ \A name \in Parts : objects[name] # Absent => objects'[name] # Absent
         /\ \/ UNCHANGED <<route, saved, written>>
            \/ /\ route = Absent \/ route.rev # canary.rev \/ Router \in {"contour", "gloo"}
               /\ route' = ReconciledRoute(Router, canary)
               /\ saved' = IF Router = "istio" /\ route # Absent /\ ~canary.kubectl
                           THEN route ELSE saved
               /\ written' = IF KeepsWeights(Router) THEN written ELSE Absent
               /\ \A name \in Range(ObjectsOf(Router)) \cap Destinations :
                    objects'[name] # Absent
         /\ n = Len(ObjectsOf(Router)) =>
              (route' = route => route # Absent /\ route.rev = canary.rev)
<1> DEFINE done == Writes(Router, canary, n, order)
<1>0. /\ Router \in Kinds /\ objects \in [Parts -> Revs \cup {Absent}]
      /\ canary.rev \in Revs /\ canary.rev # Absent
  BY RouteInvSays, ConstantsAssumption DEF TypeInv, CanaryInv, SameCanary, CanaryObjects, Revs
<1>1. /\ objects' = [name \in Parts |-> IF name \in done THEN canary.rev ELSE objects[name]]
      /\ IF "route" \notin done
         THEN UNCHANGED <<route, saved, written>>
         ELSE /\ route' = ReconciledRoute(Router, canary)
              /\ saved' = IF Router = "istio" /\ route # Absent /\ ~canary.kubectl
                          THEN route ELSE saved
              /\ written' = IF KeepsWeights(Router) THEN written ELSE Absent
  BY Zenon DEF Write
<1>2. \A name : name \in done <=>
        name \in {ObjectsOf(Router)[i] : i \in 1..n} /\ NeedsWrite(canary, name, order)
  BY Zenon DEF Writes
<1> HIDE DEF done
<1>3. /\ objects' \in [Parts -> Revs \cup {Absent}]
      /\ \A name \in Parts : objects[name] # Absent => objects'[name] # Absent
  BY <1>0, <1>1
<1>4. CASE "route" \in done
  <2>1. /\ route = Absent \/ route.rev # canary.rev \/ Router \in {"contour", "gloo"}
        /\ "route" \in {ObjectsOf(Router)[i] : i \in 1..n}
    BY <1>2, <1>4, NeedsWriteIs DEF Orders
  <2>2. ASSUME NEW name \in Range(ObjectsOf(Router)) \cap Destinations
        PROVE  objects'[name] # Absent
    <3>1. name \in Parts /\ name \in {ObjectsOf(Router)[i] : i \in 1..n}
      BY <1>0, <2>1, ObjectsAre
    <3>2. name \notin done => objects[name] # Absent
      BY <1>0, <1>2, <3>1, NeedsWriteIs
    <3>3. QED
      BY <1>0, <1>1, <3>1, <3>2
  <2>3. route' = route => route # Absent /\ route.rev = canary.rev
    <3>1. route'.rev = canary.rev
      BY <1>1, <1>4 DEF ReconciledRoute
    <3>2. SUFFICES ASSUME route' = route PROVE route # Absent
      BY <3>1
    <3>3. ReconciledRoute(Router, canary) \in Specs(Int)
      <4>1. Proper(canary, ReconciledRules(Router, canary))
        BY ReconciledIsProper DEF TypeInv
      <4>2. ReconciledRules(Router, canary) \in Seq(Rule)
        BY <4>1, ProperIs
      <4>3. Specs(Int) = [rev : Int, mirror : BOOLEAN, rules : Seq(Rule)]
        BY SpecsAre
      <4>4. canary.rev \in Int
        BY <1>0 DEF Revs
      <4>5. QED
        BY <4>2, <4>3, <4>4 DEF ReconciledRoute
    <3>4. QED
      BY <1>1, <1>4, <3>2, <3>3, AbsentAssumption DEF Specs
  <2>4. QED
    BY <1>1, <1>3, <1>4, <2>1, <2>2, <2>3
<1>5. CASE "route" \notin done
  <2>1. n = Len(ObjectsOf(Router)) => route # Absent /\ route.rev = canary.rev
    BY <1>0, <1>2, <1>5, ObjectsAre, NeedsWriteIs
  <2>2. QED
    BY <1>1, <1>3, <1>5, <2>1
<1>6. QED
  BY <1>4, <1>5

\* A Reconcile that succeeds, is refused or fails gets past some of the objects;
\* the tick goes on when it is past all of them.
LEMMA ReconcileIs ==
  ASSUME TypeInv, ReconcileSucceeds \/ ReconcileRefuses \/ ReconcileFails
  PROVE  /\ pc = "idle" /\ UNCHANGED <<canary, seen, edits>> /\ faults' \in 0..MaxFaults
         /\ \E n \in 0..Len(ObjectsOf(Router)), order \in Orders : Write(n, order)
         /\ \/ UNCHANGED <<pc, held>>
            \/ /\ pc' = "reconciled" /\ held' = canary
               /\ \E order \in Orders : Write(Len(ObjectsOf(Router)), order)
<1>0. Router \in Kinds /\ Len(ObjectsOf(Router)) \in Nat /\ faults \in 0..MaxFaults
  BY RouterIsKnown, ObjectsAre DEF Router, TypeInv
<1>1. CASE ReconcileSucceeds
  BY <1>0, <1>1 DEF ReconcileSucceeds
<1>2. CASE ReconcileRefuses
  <2>1. (IF Router = "istio" THEN 2 ELSE 0) \in 0..Len(ObjectsOf(Router))
    BY <1>0 DEF ObjectsOf, IstioObjects
  <2>2. "same" \in Orders
    BY DEF Orders
  <2>3. QED
    BY <1>0, <1>2, <2>1, <2>2 DEF ReconcileRefuses
<1>3. CASE ReconcileFails
  <2>1. PICK order \in Orders, i \in DOMAIN ObjectsOf(Router) : Write(i - 1, order)
    BY <1>3 DEF ReconcileFails
  <2>2. DOMAIN ObjectsOf(Router) = 1..Len(ObjectsOf(Router))
    BY <1>0, ObjectsAre
  <2>3. i - 1 \in 0..Len(ObjectsOf(Router))
    BY <1>0, <2>1, <2>2
  <2>4. faults' \in 0..MaxFaults
    BY <1>0, <1>3, ConstantsAssumption DEF ReconcileFails
  <2>5. QED
    BY <1>3, <2>1, <2>3, <2>4 DEF ReconcileFails
<1>4. QED
  BY <1>1, <1>2, <1>3

\* The route it writes.
LEMMA ReconciledRouteIs ==
  ASSUME TypeInv, RouteInv
  PROVE  /\ RouteOf(canary, ReconciledRoute(Router, canary))
         /\ Flaggers(ReconciledRoute(Router, canary))
         /\ ReconciledRoute(Router, canary).mirror = FALSE
         /\ ReconciledRoute(Router, canary).rules = ReconciledRules(Router, canary)
<1>1. /\ canary.rev \in Revs /\ canary.rev \in 0..edits
  BY DEF TypeInv, CanaryInv, SameCanary, CanaryObjects
<1>2. Proper(canary, ReconciledRules(Router, canary))
  BY ReconciledIsProper DEF TypeInv
<1>3. ReconciledRules(Router, canary) \in Seq(Rule)
  BY <1>2, ProperIs
<1>4. Specs(Revs) = [rev : Revs, mirror : BOOLEAN, rules : Seq(Rule)]
  BY SpecsAre
<1>5. RouteOf(canary, ReconciledRoute(Router, canary))
  BY <1>1, <1>2, <1>3, <1>4 DEF RouteOf, RouteObject, ReconciledRoute
<1>6. QED
  BY <1>5, RouteOfIsFlaggers DEF ReconciledRoute

\* The route SetRoutes writes, and what GetRoutes reads of it.
LEMMA RouteIs ==
  ASSUME TypeInv, RouteInv, Route
  PROVE  /\ pc = "routing" /\ pc' = "idle"
         /\ UNCHANGED <<canary, objects, saved, held, seen, edits, faults>>
         /\ RouteOf(canary, route') /\ Flaggers(route')
         /\ written' \in Shares /\ written' # Absent
         /\ Read(Router, canary, route') = written'
<1>0. /\ pc = "routing" /\ pc' = "idle"
      /\ UNCHANGED <<canary, objects, saved, held, seen, edits, faults>>
  BY DEF Route
<1>1. PICK w \in 0..100, m \in BOOLEAN :
        /\ held.match => w \in {0, 100}
        /\ m => Router = "istio"
        /\ route' = [rev    |-> route.rev,
                     rules  |-> WrittenRules(Router, 100 - w, w),
                     mirror |-> m]
        /\ written' = [primary |-> 100 - w, canary |-> w, mirrored |-> m]
  <2>1. CASE \E w \in CanaryWeights :
               (held.match => w \in {0, 100}) /\ SetRoutes(100 - w, w, FALSE)
    <3>1. PICK w \in CanaryWeights : (held.match => w \in {0, 100}) /\ SetRoutes(100 - w, w, FALSE)
      BY <2>1
    <3>2. w \in 0..100
      BY ConstantsAssumption
    <3>3. /\ route' = [rev |-> route.rev, rules |-> WrittenRules(Router, 100 - w, w), mirror |-> FALSE]
          /\ written' = [primary |-> 100 - w, canary |-> w, mirrored |-> FALSE]
      BY <3>1 DEF SetRoutes
    <3>4. QED
      BY <3>1, <3>2, <3>3
  <2>2. CASE SetRoutes(100, 0, TRUE)
    <3>1. PICK m \in BOOLEAN :
            /\ m => Router = "istio"
            /\ route' = [rev |-> route.rev, rules |-> WrittenRules(Router, 100, 0), mirror |-> m]
            /\ written' = [primary |-> 100, canary |-> 0, mirrored |-> m]
      <4>1. CASE Router = "istio" /\ ~held.match
        BY <2>2, <4>1 DEF SetRoutes
      <4>2. CASE ~(Router = "istio" /\ ~held.match)
        BY <2>2, <4>2 DEF SetRoutes
      <4>3. QED
        BY <4>1, <4>2
    <3>2. WITNESS 0 \in 0..100, m \in BOOLEAN
    <3>3. QED
      BY <3>1
  <2>3. QED
    BY <2>1, <2>2 DEF Route
<1> DEFINE rules == WrittenRules(Router, 100 - w, w)
<1>2. /\ Router \in Kinds /\ held.match = canary.match /\ canary.match \in BOOLEAN
      /\ RouteOf(canary, route)
      /\ Router = "gloo" => ~canary.renamed
  BY <1>0, RouteInvSays DEF TypeInv, RouteInv, CanaryInv, SameCanary, CanaryObjects
<1>3. /\ Proper(canary, rules)
      /\ Head(rules).primary = 100 - w
      /\ Router # "traefik" => Head(rules).canary = w
  BY <1>0, <1>1, <1>2, WrittenIsProper DEF TypeInv
<1>4. rules \in Seq(Rule) /\ rules # <<>>
  BY <1>3, ProperIs
<1>5. ASSUME NEW x, x = [rev |-> route.rev, rules |-> rules, mirror |-> m]
      PROVE  Read(Router, canary, x) = [primary |-> 100 - w, canary |-> w, mirrored |-> m]
  <2>1. x.rules = rules /\ x.mirror = m
    BY <1>5
  <2>2. /\ x.rules # <<>> /\ Head(x.rules).primary = 100 - w
        /\ Router # "traefik" => Head(x.rules).canary = w
    BY <1>3, <1>4, <2>1
  <2>3. x.mirror \in BOOLEAN /\ (x.mirror => Router = "istio") /\ x.mirror = m
    BY <1>1, <2>1
  <2> HIDE DEF rules
  <2>4. /\ Router \in Kinds /\ w \in 0..100
        /\ Router = "gloo" => ~canary.renamed
        /\ x.mirror => Router = "istio"
    BY <1>2, <2>3
  <2>5. 100 - w \in 0..100 /\ 100 - (100 - w) = w
    OBVIOUS
  <2>6. Read(Router, canary, x) = [primary  |-> Head(x.rules).primary,
                                   canary   |-> 100 - Head(x.rules).primary,
                                   mirrored |-> x.mirror]
    <3>1. /\ Head(x.rules).primary \in 0..100
          /\ Router # "traefik" => Head(x.rules).canary = 100 - Head(x.rules).primary
      BY <2>2, <2>5
    <3>2. QED
      BY <2>2, <2>3, <2>4, <3>1, ReadsSplit, Zenon
  <2>7. QED
    BY <2>2, <2>3, <2>5, <2>6
<1>6. RouteOf(canary, route')
  <2>1. Specs(Revs) = [rev : Revs, mirror : BOOLEAN, rules : Seq(Rule)]
    BY SpecsAre
  <2>2. route.rev \in Revs /\ route.rev \in 0..edits
    BY <1>2, <2>1 DEF RouteOf, RouteObject
  <2>3. route' \in Specs(Revs)
    BY <1>1, <1>4, <2>1, <2>2
  <2>4. QED
    BY <1>1, <1>3, <2>2, <2>3 DEF RouteOf, RouteObject, Router
<1>7. Read(Router, canary, route') = written'
  BY <1>1, <1>5
<1>8. written' \in Shares /\ written' # Absent
  <2>1. 100 - w \in 0..100
    OBVIOUS
  <2>2. written' \in Shares
    BY <1>1, <2>1 DEF Shares
  <2>3. QED
    BY <2>2, AbsentAssumption DEF Shares
<1>9. QED
  BY <1>0, <1>6, <1>7, <1>8, RouteOfIsFlaggers

-----------------------------------------------------------------------------
(* The invariant is kept. *)

Inv == TypeInv /\ RouteInv /\ PartsInv /\ WrittenInv /\ SavedInv /\ KubectlInv

\* What GetRoutes returns of a route of Flagger's is a split of traffic; Gloo
\* finds none for a service that is not named after its target.
LEMMA GetRoutesReads ==
  ASSUME NEW kind \in Kinds, NEW c, NEW d, c.renamed = d.renamed, NEW r,
         RouterOf(d.provider) = kind, RouteOf(d, r)
  PROVE  /\ Read(kind, c, r) = Read(kind, d, r)
         /\ Read(kind, c, r) \in Shares
         /\ kind = "gloo" /\ c.renamed => Read(kind, c, r) = NotFound
<1>1. /\ r.rules # <<>> /\ r.mirror \in BOOLEAN
      /\ Head(r.rules) \in Firsts(kind)
  <2>1. Specs(Revs) = [rev : Revs, mirror : BOOLEAN, rules : Seq(Rule)]
    BY SpecsAre
  <2>2. QED
    BY <2>1, ProperIs DEF RouteOf, RouteObject
<1>2. /\ Head(r.rules).primary \in 0..100
      /\ kind # "traefik" => Head(r.rules).canary \in 0..100
  BY <1>1, FirstsAre DEF Rule
<1>3. CASE kind \in {"istio", "smi", "appmesh", "appmesh:v1beta2", "nginx", "skipper"}
  <2>1. Read(kind, c, r) = ReadsBoth(r) /\ Read(kind, d, r) = ReadsBoth(r)
    BY <1>1, <1>3, ReadIs
  <2>2. ReadsBoth(r) \in Shares
    BY <1>1, <1>2, <1>3 DEF ReadsBoth, Shares
  <2>3. QED
    BY <1>3, <2>1, <2>2
<1>4. ReadsPrimary(r) \in Shares
  <2>1. 100 - Head(r.rules).primary \in 0..100
    BY <1>2
  <2>2. QED
    BY <1>2, <2>1 DEF ReadsPrimary, Shares
<1>5. CASE kind \in {"contour", "traefik"}
  <2>1. Read(kind, c, r) = ReadsPrimary(r) /\ Read(kind, d, r) = ReadsPrimary(r)
    BY <1>1, <1>5, ReadIs
  <2>2. QED
    BY <1>4, <1>5, <2>1
<1>6. CASE kind = "gloo"
  <2>1. /\ Read(kind, c, r) = IF c.renamed THEN NotFound ELSE ReadsPrimary(r)
        /\ Read(kind, d, r) = IF c.renamed THEN NotFound ELSE ReadsPrimary(r)
    BY <1>1, <1>6, ReadIs
  <2>2. NotFound \in Shares
    BY DEF NotFound, Shares
  <2>3. QED
    BY <1>4, <2>1, <2>2
<1>7. QED
  BY <1>3, <1>5, <1>6 DEF Kinds

\* The route of the user's is there.
LEMMA UserSpecIs == UserSpec # Absent
<1>1. UserSpec \in [rev : Int \cup {Original}, mirror : BOOLEAN, rules : Seq(Rule)]
  BY DEF UserSpec
<1>2. UserSpec \in Specs(Int \cup {Original})
  BY <1>1, SpecsAre
<1>3. QED
  BY <1>2, AbsentAssumption

\* It holds in the beginning.
LEMMA InvInit == Init => Inv
<1> SUFFICES ASSUME Init PROVE Inv
  OBVIOUS
<1>1. /\ canary \in CanaryObjects({0}) /\ canary.rev = 0
      /\ canary.preexisting => Router = "istio"
      /\ canary.kubectl => canary.preexisting
  <2>1. canary \in Canaries
    BY DEF Init
  <2>2. canary \in CanaryObjects({0})
    BY <2>1, CanariesAssumption
  <2>3. canary.rev = 0
    BY <2>2 DEF CanaryObjects
  <2>4. /\ canary.preexisting => RouterOf(canary.provider) = "istio"
        /\ canary.kubectl => canary.preexisting
    BY <2>1, CanariesAssumption
  <2>5. QED
    BY <2>2, <2>3, <2>4 DEF Router
<1>2. TypeInv
  <2>1. 0 \in Revs
    BY ConstantsAssumption DEF Revs
  <2>2. canary \in CanaryObjects(Revs)
    BY <1>1, <2>1 DEF CanaryObjects
  <2>3. CanaryInv
    BY <1>1, <2>2, ConstantsAssumption DEF Init, CanaryInv, SameCanary
  <2>4. NotFound \in Shares
    BY DEF NotFound, Shares
  <2>5. QED
    BY <2>3, <2>4, ConstantsAssumption DEF Init, TypeInv
<1>3. ~Flaggers(route) /\ (route = UserSpec => canary.preexisting)
  BY UserSpecIs DEF Init, Flaggers
<1>4. RouteInv /\ PartsInv
  BY <1>3 DEF RouteInv, PartsInv, Init, Flaggers
<1>5. WrittenInv /\ SavedInv /\ KubectlInv
  BY DEF Init, WrittenInv, SavedInv, KubectlInv
<1>6. QED
  BY <1>2, <1>4, <1>5 DEF Inv

\* A Reconcile keeps it.
LEMMA InvReconcile ==
  ASSUME Inv, ReconcileSucceeds \/ ReconcileRefuses \/ ReconcileFails
  PROVE  Inv'
<1> USE DEF Inv
<1>1. /\ pc = "idle" /\ UNCHANGED <<canary, seen, edits>> /\ faults' \in 0..MaxFaults
      /\ \/ UNCHANGED <<pc, held>>
         \/ pc' = "reconciled" /\ held' = canary
  BY ReconcileIs
<1>2. /\ objects' \in [Parts -> Revs \cup {Absent}]
      /\ \A name \in Parts : objects[name] # Absent => objects'[name] # Absent
      /\ \/ UNCHANGED <<route, saved, written>>
         \/ /\ route = Absent \/ route.rev # canary.rev \/ Router \in {"contour", "gloo"}
            /\ route' = ReconciledRoute(Router, canary)
            /\ saved' = IF Router = "istio" /\ route # Absent /\ ~canary.kubectl
                        THEN route ELSE saved
            /\ written' = IF KeepsWeights(Router) THEN written ELSE Absent
            /\ \A name \in Range(ObjectsOf(Router)) \cap Destinations :
                 objects'[name] # Absent
  BY ReconcileIs, WriteIs
<1>3. pc' = "reconciled" => Flaggers(route')
  <2>1. SUFFICES ASSUME pc' = "reconciled" PROVE Flaggers(route')
    OBVIOUS
  <2>2. PICK order \in Orders : Write(Len(ObjectsOf(Router)), order)
    BY <1>1, <2>1, ReconcileIs
  <2>3. Len(ObjectsOf(Router)) \in 0..Len(ObjectsOf(Router))
    BY RouterIsKnown, ObjectsAre DEF Router
  <2>4. route' = route => route # Absent /\ route.rev = canary.rev
    BY <2>2, <2>3, WriteIs
  <2>5. canary.rev \in Int
    BY DEF TypeInv, CanaryInv
  <2>6. CASE UNCHANGED route
    BY <2>4, <2>5, <2>6, ConstantsAssumption DEF Flaggers, UserSpec
  <2>7. CASE route' = ReconciledRoute(Router, canary)
    BY <2>7, ReconciledRouteIs
  <2>8. QED
    BY <1>2, <2>6, <2>7
<1>4. Router' = Router
  BY <1>1 DEF Router
<1>5. TypeInv'
  <2>1. CanaryInv'
    BY <1>1, <1>4 DEF TypeInv, CanaryInv, SameCanary
  <2>2. QED
    BY <1>1, <1>2, <2>1 DEF TypeInv
<1>6. CASE UNCHANGED <<route, saved, written>>
  <2>1. RouteInv'
    BY <1>1, <1>3, <1>4, <1>6 DEF RouteInv, RouteOf
  <2>2. PartsInv'
    BY <1>2, <1>4, <1>6, RouterIsKnown, ObjectsAre DEF PartsInv, Router
  <2>3. WrittenInv' /\ SavedInv' /\ KubectlInv'
    BY <1>1, <1>4, <1>6 DEF WrittenInv, SavedInv, KubectlInv
  <2>4. QED
    BY <1>5, <2>1, <2>2, <2>3
<1>7. CASE ~UNCHANGED <<route, saved, written>>
  <2>0. Flaggers(route') /\ RouteOf(canary, route)'
    <3>1. RouteOf(canary, ReconciledRoute(Router, canary)) /\ Flaggers(ReconciledRoute(Router, canary))
      BY ReconciledRouteIs
    <3>2. RouteOf(canary, route') /\ canary' = canary /\ edits' = edits
      BY <1>1, <1>2, <1>7, <3>1
    <3>3. QED
      BY <1>2, <1>7, <3>1, <3>2 DEF RouteOf
  <2>1. RouteInv'
    <3>1. saved' \in {route, saved} /\ (saved' # Absent => Router = "istio")
      BY <1>2, <1>7 DEF RouteInv
    <3>2. QED
      BY <1>1, <1>4, <2>0, <3>1 DEF RouteInv, RouteOf
  <2>2. PartsInv'
    BY <1>2, <1>4, <1>7 DEF PartsInv
  <2>3. WrittenInv'
    <3>1. SUFFICES ASSUME written' # Absent PROVE Read(Router, canary, route') = written'
      BY <1>1, <1>4, <2>0 DEF WrittenInv
    <3>2. /\ KeepsWeights(Router) /\ written' = written
          /\ Flaggers(route) /\ Read(Router, canary, route) = written
      BY <1>2, <1>7, <3>1 DEF WrittenInv
    <3>3. Router \in {"nginx", "appmesh", "appmesh:v1beta2"}
      BY <3>2 DEF KeepsWeights
    <3>4. /\ RouteOf(canary, route) /\ route.rules # <<>> /\ route.mirror = FALSE
      <4>1. RouteOf(canary, route)
        BY <3>2, RouteInvSays DEF TypeInv
      <4>2. route.rules # <<>> /\ route.mirror \in BOOLEAN
            /\ (route.mirror => Router = "istio")
        BY <4>1, SpecsAre, ProperIs DEF RouteOf, RouteObject, Router, Specs
      <4>3. QED
        BY <3>3, <4>1, <4>2
    <3>5. /\ route'.mirror = FALSE /\ route'.rules # <<>>
          /\ Head(route'.rules) = Head(route.rules)
      <4>1. /\ route'.mirror = FALSE
            /\ route'.rules = ReconciledRules(Router, canary)
        BY <1>2, <1>7, ReconciledRouteIs
      <4>2. Proper(canary, route'.rules) /\ Head(route'.rules) = Head(route.rules)
        BY <3>2, <4>1, ReconciledIsProper DEF TypeInv
      <4>3. QED
        BY <4>1, <4>2, ProperIs
    <3>6. Read(Router, canary, route) = ReadsBoth(route)
      BY <3>3, <3>4, ReadIs
    <3>7. Read(Router, canary, route') = ReadsBoth(route')
      BY <3>3, <3>5, ReadIs
    <3>8. ReadsBoth(route') = ReadsBoth(route)
      BY <3>4, <3>5 DEF ReadsBoth
    <3>9. QED
      BY <3>2, <3>6, <3>7, <3>8
  <2>4. SavedInv'
    <3>1. SUFFICES ASSUME canary.preexisting, ~canary.kubectl, edits = 0
                   PROVE  Flaggers(route') /\ saved' = UserSpec
      BY <1>1 DEF SavedInv
    <3>2. /\ Router = "istio" /\ canary.rev = 0
          /\ (route = UserSpec /\ saved = Absent) \/ (Flaggers(route) /\ saved = UserSpec)
      BY <1>1, <3>1 DEF SavedInv, TypeInv, CanaryInv
    <3>3. Flaggers(route) => route.rev = 0
      BY <3>1, RouteInvSays DEF RouteOf, TypeInv
    <3>4. ~Flaggers(route)
      BY <1>2, <1>7, <3>2, <3>3 DEF Flaggers
    <3>5. route = UserSpec /\ route # Absent
      <4>1. route = UserSpec
        BY <3>2, <3>4
      <4>2. QED
        BY <4>1, UserSpecIs
    <3>6. QED
      BY <1>2, <1>7, <2>0, <3>1, <3>2, <3>5
  <2>5. KubectlInv'
    BY <1>1 DEF KubectlInv
  <2>6. QED
    BY <1>5, <2>1, <2>2, <2>3, <2>4, <2>5
<1>8. QED
  BY <1>6, <1>7

\* GetRoutes and SetRoutes keep it.
LEMMA InvRoutes ==
  ASSUME Inv, GetRoutes \/ Route \/ Leave
  PROVE  Inv'
<1> USE DEF Inv
<1>1. /\ UNCHANGED <<canary, objects, saved, held, edits, faults>>
      /\ pc \in {"reconciled", "routing"} /\ pc' \in {"idle", "routing"}
  BY RouteIs DEF GetRoutes, Route, Leave
<1>2. /\ Router' = Router /\ Router \in Kinds
      /\ RouteOf(canary, route) /\ Flaggers(route)
  BY <1>1, RouteInvSays DEF Router, TypeInv, RouteInv
<1>3. CanaryInv'
  BY <1>1, <1>2 DEF TypeInv, CanaryInv, SameCanary
<1>5. CASE GetRoutes
  <2>1. UNCHANGED <<route, written>>
    BY <1>5 DEF GetRoutes
  <2>2. /\ Read(Router, held, route) \in Shares
        /\ Router = "gloo" /\ canary.renamed => Read(Router, held, route) = NotFound
    BY <1>2, GetRoutesReads DEF TypeInv, CanaryInv, SameCanary, Router
  <2>3. /\ seen' \in Shares
        /\ Router = "gloo" /\ canary.renamed => pc' # "routing"
    BY <1>5, <2>2 DEF GetRoutes, NotFound, TypeInv
  <2>4. TypeInv'
    BY <1>1, <1>3, <2>1, <2>3 DEF TypeInv
  <2>5. RouteInv' /\ PartsInv' /\ WrittenInv'
    BY <1>1, <1>2, <2>1, <2>3 DEF RouteInv, RouteOf, PartsInv, WrittenInv
  <2>6. SavedInv' /\ KubectlInv'
    BY <1>1, <1>2, <2>1 DEF SavedInv, KubectlInv
  <2>7. QED
    BY <2>4, <2>5, <2>6
<1>6. CASE Leave
  <2>1. UNCHANGED <<route, written, seen>> /\ pc' = "idle"
    BY <1>6 DEF Leave
  <2>2. TypeInv' /\ RouteInv' /\ PartsInv' /\ WrittenInv'
    BY <1>1, <1>2, <1>3, <2>1 DEF TypeInv, RouteInv, RouteOf, PartsInv, WrittenInv
  <2>3. SavedInv' /\ KubectlInv'
    BY <1>1, <1>2, <2>1 DEF SavedInv, KubectlInv
  <2>4. QED
    BY <2>2, <2>3
<1>7. CASE Route
  <2>1. /\ pc' = "idle" /\ seen' = seen
        /\ RouteOf(canary, route') /\ Flaggers(route')
        /\ written' \in Shares /\ Read(Router, canary, route') = written'
    BY <1>7, RouteIs
  <2>2. RouteOf(canary, route)'
    BY <1>1, <2>1 DEF RouteOf
  <2>3. TypeInv'
    BY <1>1, <1>3, <2>1 DEF TypeInv
  <2>4. RouteInv' /\ PartsInv' /\ WrittenInv'
    BY <1>1, <1>2, <2>1, <2>2 DEF RouteInv, RouteOf, PartsInv, WrittenInv
  <2>5. SavedInv' /\ KubectlInv'
    BY <1>1, <1>2, <2>1 DEF SavedInv, KubectlInv, Flaggers
  <2>6. QED
    BY <2>3, <2>4, <2>5
<1>8. QED
  BY <1>5, <1>6, <1>7

\* Finalize keeps it: Istio restores what was saved.
LEMMA InvFinalize ==
  ASSUME Inv, Finalize
  PROVE  Inv'
<1> USE DEF Inv
<1>1. /\ UNCHANGED <<canary, objects, saved, held, seen, edits, faults>>
      /\ pc = "idle" /\ pc' = "finalized" /\ written' = Absent /\ route # Absent
  BY DEF Finalize
<1>2. Router' = Router
  BY <1>1 DEF Router
<1>3. \/ Router = "skipper" /\ route' = Absent
      \/ Router = "istio" /\ canary.kubectl /\ route' = UserSpec
      \/ Router = "istio" /\ ~canary.kubectl /\ saved # Absent /\ route' = saved
      \/ ~(Router = "istio" /\ (canary.kubectl \/ saved # Absent)) /\ route' = route
  BY DEF Finalize
<1>4. TypeInv'
  BY <1>1, <1>2 DEF TypeInv, CanaryInv, SameCanary
<1>5. RouteInv'
  <2>1. \/ route' \in {route, saved, Absent}
        \/ route' = UserSpec /\ canary.preexisting
    BY <1>3 DEF TypeInv, CanaryInv
  <2>2. QED
    BY <1>1, <1>2, <2>1 DEF RouteInv, RouteOf
<1>6. PartsInv'
  <2>1. Flaggers(route') => Flaggers(route)
    BY <1>1, <1>3 DEF Flaggers, RouteInv
  <2>2. QED
    BY <1>1, <1>2, <2>1 DEF PartsInv
<1>7. WrittenInv'
  BY <1>1 DEF WrittenInv
<1>8. SavedInv'
  <2>1. canary.preexisting => Router = "istio"
    BY DEF TypeInv, CanaryInv
  <2>2. UserSpec # Absent
    BY UserSpecIs
  <2>3. QED
    BY <1>1, <1>3, <2>1, <2>2 DEF SavedInv
<1>9. KubectlInv'
  BY <1>1, <1>3 DEF KubectlInv, TypeInv, CanaryInv
<1>10. QED
  BY <1>4, <1>5, <1>6, <1>7, <1>8, <1>9

\* An edit keeps it: the routes of the revisions before stay proper.
LEMMA InvEdit ==
  ASSUME Inv, Edit
  PROVE  Inv'
<1> USE DEF Inv
<1>1. /\ UNCHANGED <<objects, route, saved, pc, held, seen, written, faults>>
      /\ pc # "finalized" /\ canary.edited /\ edits < MaxEdits
      /\ edits' = edits + 1 /\ canary' = [canary EXCEPT !.rev = edits + 1]
  BY DEF Edit
<1>2. canary \in CanaryObjects(Revs) /\ edits \in 0..MaxEdits /\ edits' \in 0..MaxEdits
  BY <1>1, ConstantsAssumption DEF TypeInv, CanaryInv, SameCanary
<1>3. /\ canary' \in CanaryObjects(Revs) /\ canary'.rev = edits'
      /\ canary'.provider = canary.provider /\ canary'.match = canary.match
      /\ canary'.renamed = canary.renamed /\ canary'.preexisting = canary.preexisting
      /\ canary'.kubectl = canary.kubectl /\ canary'.edited = canary.edited
  BY <1>1, <1>2 DEF CanaryObjects, Revs
<1>4. Router' = Router /\ edits' # 0
  BY <1>1, <1>2, <1>3 DEF Router
<1>5. TypeInv'
  BY <1>1, <1>2, <1>3, <1>4 DEF TypeInv, CanaryInv, SameCanary
<1>6. \A r : RouteOf(canary, r) => RouteOf(canary, r)'
  <2>1. \A rules : Proper(canary, rules) => Proper(canary', rules)
    BY <1>3 DEF Proper, InTwo
  <2>2. 0..edits \subseteq 0..edits'
    BY <1>1, <1>2
  <2>3. QED
    BY <1>3, <2>1, <2>2 DEF RouteOf
<1>7. RouteInv' /\ PartsInv'
  BY <1>1, <1>3, <1>4, <1>6 DEF RouteInv, PartsInv
<1>8. WrittenInv'
  <2>1. SUFFICES ASSUME written # Absent PROVE Flaggers(route) /\ Read(Router, canary', route) = written
    BY <1>1, <1>4 DEF WrittenInv
  <2>2. Flaggers(route) /\ Read(Router, canary, route) = written
    BY <2>1 DEF WrittenInv
  <2>3. RouteOf(canary, route) /\ Router \in Kinds
    BY <2>2, RouteInvSays DEF TypeInv
  <2>4. QED
    BY <1>3, <2>2, <2>3, GetRoutesReads DEF Router
<1>9. SavedInv' /\ KubectlInv'
  BY <1>1, <1>4 DEF SavedInv, KubectlInv
<1>10. QED
  BY <1>5, <1>7, <1>8, <1>9

\* Every step keeps it.
LEMMA InvNext == Inv /\ [Next]_vars => Inv'
<1> SUFFICES ASSUME Inv, [Next]_vars PROVE Inv'
  OBVIOUS
<1>1. CASE UNCHANGED vars
  BY <1>1 DEF vars, Inv, TypeInv, CanaryInv, SameCanary, RouteInv, RouteOf, PartsInv,
     WrittenInv, SavedInv, KubectlInv, Router
<1>2. QED
  BY <1>1, InvReconcile, InvRoutes, InvFinalize, InvEdit DEF Next

-----------------------------------------------------------------------------
(* What follows from it. *)

\* An object the route holds is a specification of some revision.
LEMMA SpecsHold ==
  ASSUME NEW r, r = UserSpec \/ RouteOf(canary, r)
  PROVE  r \in Specs(Revs \cup {Original})
<1>1. Specs(Revs \cup {Original}) =
        [rev : Revs \cup {Original}, mirror : BOOLEAN, rules : Seq(Rule)]
  BY SpecsAre
<1>2. CASE r = UserSpec
  <2>1. UserSpec \in [rev : {Original}, mirror : BOOLEAN, rules : Seq(Rule)]
    BY DEF UserSpec
  <2>2. QED
    BY <1>1, <1>2, <2>1
<1>3. CASE RouteOf(canary, r)
  <2>1. Specs(Revs) = [rev : Revs, mirror : BOOLEAN, rules : Seq(Rule)]
    BY SpecsAre
  <2>2. r \in [rev : Revs, mirror : BOOLEAN, rules : Seq(Rule)]
    BY <1>3, <2>1 DEF RouteOf, RouteObject
  <2>3. QED
    BY <1>1, <2>2
<1>4. QED
  BY <1>2, <1>3

\* The invariant has the types, the parts of a route and what Finalize restores.
LEMMA InvSays ==
  ASSUME Inv
  PROVE  TypeOK /\ ReadBack /\ RouteHasItsParts /\ FinalizeRestores
<1> USE DEF Inv
<1>1. TypeOK
  <2>1. canary.rev \in Revs /\ held.rev \in Revs /\ edits \in 0..MaxEdits
    BY DEF TypeInv, CanaryInv, SameCanary, CanaryObjects
  <2>2. \A r \in {route, saved} : r = Absent \/ r \in Specs(Revs \cup {Original})
    BY SpecsHold DEF RouteInv
  <2>3. QED
    BY <2>1, <2>2 DEF TypeOK, TypeInv
<1>2. ReadBack
  BY DEF ReadBack, WrittenInv
<1>3. RouteHasItsParts
  BY DEF RouteHasItsParts, PartsInv, Flaggers
<1>4. FinalizeRestores
  BY DEF FinalizeRestores, SavedInv, KubectlInv
<1>5. QED
  BY <1>1, <1>2, <1>3, <1>4

\* A share is a share: of a rule without the canary, none.
LEMMA ShareIs ==
  ASSUME NEW rule \in Rule
  PROVE  ShareOf(rule) \in Nat /\ (rule.canary <= 0 => ShareOf(rule) = 0)
<1>1. rule.primary \in 0..100 /\ (rule.canary <= 0 \/ rule.canary \in 1..100)
  BY DEF Rule, Unlisted
<1>2. \A a \in Nat, b \in Nat : b > 0 => a \div b \in Nat
  OBVIOUS
<1>3. CASE rule.canary <= 0
  BY <1>3 DEF ShareOf
<1>4. CASE ~(rule.canary <= 0)
  <2>0. rule.primary \in 0..100 /\ rule.canary \in 1..100
    BY <1>1, <1>4
  <2>1. \A p \in 0..100, c \in 1..100 : 100 * c \in Nat /\ p + c \in Nat /\ p + c > 0
    OBVIOUS
  <2>2. (100 * rule.canary) \div (rule.primary + rule.canary) \in Nat
    BY <1>2, <2>0, <2>1
  <2>3. QED
    BY <1>4, <2>2 DEF ShareOf
<1>5. QED
  BY <1>3, <1>4

\* The shares of the route that is there; of an A/B test the second is none.
LEMMA SharesAre ==
  ASSUME Inv, NEW r, r = Absent \/ r = UserSpec \/ RouteOf(canary, r)
  PROVE  /\ MatchedShare(r) \in Nat /\ OtherShare(r) \in Nat
         /\ InTwo(canary) => OtherShare(r) = 0
         /\ ~InTwo(canary) => OtherShare(r) = MatchedShare(r)
<1>1. CASE Unserved(r)
  BY <1>1 DEF MatchedShare, OtherShare
<1>2. CASE ~Unserved(r)
  <2>1. RouteOf(canary, r) /\ Proper(canary, r.rules)
    BY <1>2 DEF Unserved, UserSpec, RouteOf
  <2>2. Head(r.rules) \in Rule
    BY <2>1, ProperIs, FirstsAre
  <2>3. InTwo(canary) => Last(r.rules) \in Rule /\ Last(r.rules).canary <= 0
    BY <2>1, ProperIs, SecondsAre
  <2>4. ~InTwo(canary) => Last(r.rules) = Head(r.rules)
    BY <2>1, ProperIs, OneRule
  <2>5. MatchedShare(r) = ShareOf(Head(r.rules)) /\ OtherShare(r) = ShareOf(Last(r.rules))
    BY <1>2 DEF MatchedShare, OtherShare
  <2>6. QED
    BY <2>2, <2>3, <2>4, <2>5, ShareIs
<1>3. QED
  BY <1>1, <1>2

\* A tick of a canary of Traefik's nobody edits finds its route as it left it.
TraefikInv == Router = "traefik" => ~canary.edited

\* Nobody starts to edit it.
LEMMA TraefikNext == Inv /\ TraefikInv /\ [Next]_vars => TraefikInv'
<1>1. SUFFICES ASSUME Inv, [Next]_vars
               PROVE  canary'.provider = canary.provider /\ canary'.edited = canary.edited
  BY DEF TraefikInv, Router
<1>2. CASE Edit
  <2>1. canary \in CanaryObjects(Revs) /\ canary' = [canary EXCEPT !.rev = edits + 1]
    BY <1>1, <1>2 DEF Inv, TypeInv, CanaryInv, SameCanary, Edit
  <2>2. QED
    BY <2>1 DEF CanaryObjects
<1>3. CASE ReconcileSucceeds \/ ReconcileRefuses \/ ReconcileFails
  <2>1. canary' = canary
    BY <1>1, <1>3, ReconcileIs DEF Inv
  <2>2. QED
    BY <2>1
<1>4. CASE UNCHANGED canary
  BY <1>4
<1>5. QED
  BY <1>1, <1>2, <1>3, <1>4 DEF Next, vars, GetRoutes, Route, Leave, Finalize

\* What a Reconcile writes, when it does: the weights there were, for nginx and App
\* Mesh, or none for the canary.
LEMMA ReconcileWrites ==
  ASSUME Inv, TraefikInv, ReconcileSucceeds \/ ReconcileRefuses \/ ReconcileFails,
         route' # route
  PROVE  /\ RouteOf(canary, route') /\ Flaggers(route') /\ route'.mirror = FALSE
         /\ ~(Router = "traefik" /\ Flaggers(route))
         /\ IF KeepsWeights(Router) /\ Flaggers(route)
            THEN Head(route'.rules) = Head(route.rules)
            ELSE Head(route'.rules).canary <= 0
<1> USE DEF Inv
<1>1. /\ route = Absent \/ route.rev # canary.rev \/ Router \in {"contour", "gloo"}
      /\ route' = ReconciledRoute(Router, canary)
  <2>1. PICK n \in 0..Len(ObjectsOf(Router)), order \in Orders : Write(n, order)
    BY ReconcileIs
  <2>2. QED
    BY <2>1, WriteIs
<1>2. /\ RouteOf(canary, route') /\ Flaggers(route') /\ route'.mirror = FALSE
      /\ route'.rules = ReconciledRules(Router, canary)
  BY <1>1, ReconciledRouteIs
<1>3. ~(Router = "traefik" /\ Flaggers(route))
  <2>1. SUFFICES ASSUME Router = "traefik", Flaggers(route) PROVE FALSE
    OBVIOUS
  <2>2. RouteOf(canary, route)
    BY <2>1, RouteInvSays DEF TypeInv
  <2>3. route.rev \in 0..edits /\ edits = 0 /\ canary.rev = 0 /\ route # Absent
    BY <2>1, <2>2 DEF RouteOf, TraefikInv, TypeInv, CanaryInv, Flaggers
  <2>4. QED
    BY <1>1, <2>1, <2>3
<1>4. IF KeepsWeights(Router) /\ Flaggers(route)
      THEN Head(route'.rules) = Head(route.rules)
      ELSE Head(route'.rules).canary <= 0
  BY <1>2, <1>3, ReconciledIsProper DEF TypeInv
<1>5. QED
  BY <1>2, <1>3, <1>4

\* A Reconcile gives the canary no traffic it did not have.
LEMMA ReconcileAddsNone ==
  ASSUME Inv, TraefikInv, ReconcileSucceeds \/ ReconcileRefuses \/ ReconcileFails
  PROVE  /\ MatchedShare(route') <= MatchedShare(route)
         /\ OtherShare(route') <= OtherShare(route)
<1> USE DEF Inv
<1>1. /\ route = Absent \/ route = UserSpec \/ RouteOf(canary, route)
      /\ Flaggers(route) => RouteOf(canary, route)
  BY RouteInvSays DEF RouteInv, TypeInv
<1>2. /\ MatchedShare(route) \in Nat /\ OtherShare(route) \in Nat
      /\ InTwo(canary) => OtherShare(route) = 0
      /\ ~InTwo(canary) => OtherShare(route) = MatchedShare(route)
  BY <1>1, SharesAre
<1>3. CASE route' = route
  BY <1>2, <1>3
<1>4. CASE route' # route
  <2>1. /\ RouteOf(canary, route') /\ Flaggers(route')
        /\ IF KeepsWeights(Router) /\ Flaggers(route)
           THEN Head(route'.rules) = Head(route.rules)
           ELSE Head(route'.rules).canary <= 0
    BY <1>4, ReconcileWrites
  <2>2. /\ MatchedShare(route') \in Nat
        /\ InTwo(canary) => OtherShare(route') = 0
        /\ ~InTwo(canary) => OtherShare(route') = MatchedShare(route')
    BY <2>1, SharesAre
  <2>3. SUFFICES MatchedShare(route') <= MatchedShare(route)
    BY <1>2, <2>2
  <2>4. route'.rules # <<>> /\ route' # Absent /\ Head(route'.rules) \in Rule
    BY <2>1, ProperIs, FirstsAre DEF Flaggers, RouteOf
  <2>5. CASE KeepsWeights(Router) /\ Flaggers(route)
    <3>1. route.rules # <<>> /\ route # Absent
      BY <1>1, <2>5, ProperIs DEF RouteOf, Flaggers
    <3>2. MatchedShare(route') = MatchedShare(route)
      BY <2>1, <2>4, <2>5, <3>1 DEF MatchedShare, Unserved
    <3>3. QED
      BY <1>2, <3>2
  <2>6. CASE ~(KeepsWeights(Router) /\ Flaggers(route))
    <3>1. MatchedShare(route') = 0
      BY <2>1, <2>4, <2>6, ShareIs DEF MatchedShare
    <3>2. QED
      BY <1>2, <3>1
  <2>7. QED
    BY <2>5, <2>6
<1>5. QED
  BY <1>3, <1>4

-----------------------------------------------------------------------------
(* The split of the traffic. *)

\* The first rule of a route no Reconcile of Traefik has spoilt.
TrueFirsts == Splits \cup {PrimaryOnly(100)}

TrueInv == Flaggers(route) => Head(route.rules) \in TrueFirsts

\* A tick acts on the split the requests see.
ToldInv == pc = "routing" => Told = Split

\* The share such a rule gives the canary is what the primary does not get.
LEMMA TrueShare ==
  ASSUME NEW first \in TrueFirsts
  PROVE  /\ first.primary \in 0..100 /\ ShareOf(first) = 100 - first.primary
         /\ ShareOf(first) \in 0..100
<1>1. CASE first \in Splits
  <2>1. PICK w \in 0..100 : first = Weight(100 - w, w)
    BY <1>1 DEF Splits
  <2>2. first.primary = 100 - w /\ first.canary = w
    BY <2>1, WeightIs
  <2>3. (100 - w) + w = 100 /\ (100 * w) \div 100 = w /\ 100 - (100 - w) = w /\ 100 - w \in 0..100
    OBVIOUS
  <2>4. ShareOf(first) = w
    BY <2>2, <2>3 DEF ShareOf
  <2>5. QED
    BY <2>2, <2>3, <2>4
<1>2. CASE first = PrimaryOnly(100)
  BY <1>2 DEF PrimaryOnly, Weight, Unlisted, ShareOf
<1>3. QED
  BY <1>1, <1>2 DEF TrueFirsts

\* GetRoutes of any router tells the share the requests see.
LEMMA ReadIsTrue ==
  ASSUME NEW kind \in Kinds, NEW d, RouterOf(d.provider) = kind, NEW r, RouteOf(d, r),
         Head(r.rules) \in TrueFirsts, kind = "gloo" => ~d.renamed
  PROVE  /\ Read(kind, d, r).canary = ShareOf(Head(r.rules))
         /\ Read(kind, d, r).mirrored = r.mirror
<1>1. r.rules # <<>> /\ r.mirror \in BOOLEAN /\ (r.mirror => kind = "istio")
  <2>1. Specs(Revs) = [rev : Revs, mirror : BOOLEAN, rules : Seq(Rule)]
    BY SpecsAre
  <2>2. QED
    BY <2>1, ProperIs DEF RouteOf, RouteObject
<1>2. kind # "traefik" => Head(r.rules).canary = 100 - Head(r.rules).primary
  <2>1. SUFFICES ASSUME kind # "traefik"
                 PROVE  Head(r.rules).canary = 100 - Head(r.rules).primary
    OBVIOUS
  <2>2. Head(r.rules) \in Splits
    BY <2>1, ProperIs DEF RouteOf, Firsts
  <2>3. PICK w \in 0..100 : Head(r.rules) = Weight(100 - w, w)
    BY <2>2 DEF Splits
  <2>4. Head(r.rules).canary = w /\ Head(r.rules).primary = 100 - w
    BY <2>3, WeightIs
  <2>5. 100 - (100 - w) = w
    OBVIOUS
  <2>6. QED
    BY <2>4, <2>5, Zenon
<1>3. /\ Head(r.rules).primary \in 0..100
      /\ ShareOf(Head(r.rules)) = 100 - Head(r.rules).primary
  BY TrueShare
<1>4. Read(kind, d, r) = [primary  |-> Head(r.rules).primary,
                          canary   |-> 100 - Head(r.rules).primary,
                          mirrored |-> r.mirror]
  BY <1>1, <1>2, <1>3, ReadsSplit, Zenon
<1>5. QED
  BY <1>3, <1>4

\* What a Reconcile does to the split: it keeps it, or leaves the canary nothing.
LEMMA ReconcileSplits ==
  ASSUME Inv, TraefikInv, TrueInv, ReconcileSucceeds \/ ReconcileRefuses \/ ReconcileFails
  PROVE  /\ TrueInv' /\ ToldInv'
         /\ Told = NoSplit /\ Told' = NoSplit
         /\ Split' = Split \/ Split' = SplitOf(0, FALSE)
<1> USE DEF Inv
<1>1. /\ pc = "idle" /\ pc' \in {"idle", "reconciled"}
      /\ Told = NoSplit /\ Told' = NoSplit /\ ToldInv'
  <2>1. pc = "idle" /\ pc' \in {"idle", "reconciled"}
    BY ReconcileIs
  <2>2. QED
    BY <2>1 DEF Told, ToldInv
<1>2. CASE route' = route
  BY <1>1, <1>2 DEF TrueInv, Flaggers, Split
<1>3. CASE route' # route
  <2>1. /\ RouteOf(canary, route') /\ Flaggers(route') /\ route'.mirror = FALSE
        /\ ~(Router = "traefik" /\ Flaggers(route))
        /\ IF KeepsWeights(Router) /\ Flaggers(route)
           THEN Head(route'.rules) = Head(route.rules)
           ELSE Head(route'.rules).canary <= 0
    BY <1>3, ReconcileWrites
  <2>2. Router \in Kinds /\ Head(route'.rules) \in Firsts(Router)
    BY <2>1, RouteInvSays, ProperIs DEF TypeInv, RouteOf, Router
  <2>3. Head(route'.rules) \in TrueFirsts
    BY <2>1, <2>2 DEF Firsts, TrueFirsts, Weight, KeepsWeights
  <2>4. TrueInv'
    BY <2>3 DEF TrueInv
  <2>5. Split' = SplitOf(ShareOf(Head(route'.rules)), FALSE)
    BY <1>1, <2>1 DEF Split, Flaggers
  <2>6. CASE KeepsWeights(Router) /\ Flaggers(route)
    <3>1. route.mirror = FALSE
      <4>1. RouteOf(canary, route) /\ Router # "istio"
        BY <2>6, RouteInvSays DEF TypeInv, KeepsWeights
      <4>2. route.mirror \in BOOLEAN /\ ~route.mirror
        BY <4>1, SpecsAre DEF RouteOf, RouteObject, Router
      <4>3. QED
        BY <4>2
    <3>2. Split = SplitOf(ShareOf(Head(route.rules)), FALSE)
      BY <1>1, <2>6, <3>1 DEF Split, Flaggers
    <3>3. QED
      BY <1>1, <2>1, <2>4, <2>5, <2>6, <3>2
  <2>7. CASE ~(KeepsWeights(Router) /\ Flaggers(route))
    <3>1. ShareOf(Head(route'.rules)) = 0
      BY <2>1, <2>7 DEF ShareOf
    <3>2. QED
      BY <1>1, <2>4, <2>5, <3>1
  <2>8. QED
    BY <2>6, <2>7
<1>4. QED
  BY <1>2, <1>3

\* GetRoutes tells the split, if there is one to tell.
LEMMA GetRoutesTells ==
  ASSUME Inv, TrueInv, GetRoutes
  PROVE  /\ TrueInv' /\ ToldInv'
         /\ Told = NoSplit /\ Split' = Split
         /\ Told' = NoSplit \/ (Told' = Split /\ Split # NoSplit)
<1> USE DEF Inv
<1>1. /\ pc = "reconciled" /\ UNCHANGED <<canary, route>> /\ pc' \in {"idle", "routing"}
      /\ pc' = "routing" => seen' = Read(Router, held, route)
      /\ Read(Router, held, route) = NotFound => pc' = "idle"
  BY DEF GetRoutes, NotFound
<1>2. /\ Flaggers(route) /\ RouteOf(canary, route) /\ Router \in Kinds
      /\ held.renamed = canary.renamed
  BY <1>1, RouteInvSays DEF TypeInv, RouteInv, CanaryInv, SameCanary
<1>3. TrueInv' /\ Told = NoSplit /\ Split' = Split
  BY <1>1 DEF TrueInv, Flaggers, Told, Split
<1>4. Head(route.rules) \in TrueFirsts
  BY <1>2 DEF TrueInv
<1>5. Split = SplitOf(ShareOf(Head(route.rules)), route.mirror) /\ Split # NoSplit
  <2>1. Split = SplitOf(ShareOf(Head(route.rules)), route.mirror)
    BY <1>1, <1>2 DEF Split, Flaggers
  <2>2. ShareOf(Head(route.rules)) \in 0..100
    BY <1>4, TrueShare
  <2>3. QED
    BY <2>1, <2>2 DEF NoSplit, SplitOf
<1>6. CASE pc' = "idle"
  BY <1>3, <1>6 DEF Told, ToldInv
<1>7. CASE pc' = "routing"
  <2>1. /\ Read(Router, held, route) = Read(Router, canary, route)
        /\ Router = "gloo" => ~canary.renamed
    BY <1>1, <1>2, <1>7, GetRoutesReads DEF Router
  <2>2. /\ Read(Router, canary, route).canary = ShareOf(Head(route.rules))
        /\ Read(Router, canary, route).mirrored = route.mirror
    BY <1>2, <1>4, <2>1, ReadIsTrue DEF Router
  <2>3. Told' = SplitOf(seen'.canary, seen'.mirrored)
    BY <1>7 DEF Told
  <2>4. Told' = Split
    BY <1>1, <1>5, <1>7, <2>1, <2>2, <2>3
  <2>5. QED
    BY <1>3, <1>5, <2>4 DEF ToldInv
<1>8. QED
  BY <1>1, <1>6, <1>7

\* SetRoutes leaves one of the splits of the scheduler.
LEMMA RouteShifts ==
  ASSUME Inv, TrueInv, Route
  PROVE  /\ TrueInv' /\ ToldInv'
         /\ Told # NoSplit /\ Told' = NoSplit
         /\ \/ \E w \in CanaryWeights : Split' = SplitOf(w, FALSE)
            \/ \E m \in BOOLEAN : Split' = SplitOf(0, m)
<1> USE DEF Inv
<1>1. /\ pc = "routing" /\ pc' = "idle" /\ UNCHANGED <<canary, seen>>
      /\ RouteOf(canary, route') /\ Flaggers(route')
      /\ Read(Router, canary, route') = written'
  BY RouteIs
<1>2. /\ Router \in Kinds /\ seen.canary \in 0..100
      /\ Router = "gloo" => ~canary.renamed
  BY <1>1, RouteInvSays DEF TypeInv, RouteInv, Shares
<1>3. Told # NoSplit /\ Told' = NoSplit /\ ToldInv'
  BY <1>1, <1>2 DEF Told, NoSplit, SplitOf, ToldInv
<1>4. \E w \in 0..100, m \in BOOLEAN :
        /\ SetRoutes(100 - w, w, m)
        /\ (w \in CanaryWeights /\ ~m) \/ w = 0
  <2>1. CASE \E w \in CanaryWeights : SetRoutes(100 - w, w, FALSE)
    BY <2>1, ConstantsAssumption
  <2>2. CASE SetRoutes(100, 0, TRUE)
    <3>1. 0 \in 0..100 /\ 100 - 0 = 100
      OBVIOUS
    <3>2. SetRoutes(100 - 0, 0, TRUE)
      BY <2>2, <3>1
    <3>3. QED
      BY <3>1, <3>2
  <2>3. QED
    BY <2>1, <2>2 DEF Route
<1>5. PICK w \in 0..100, m \in BOOLEAN :
        /\ SetRoutes(100 - w, w, m)
        /\ (w \in CanaryWeights /\ ~m) \/ w = 0
  BY <1>4
<1>6. /\ route'.rules = WrittenRules(Router, 100 - w, w)
      /\ route'.mirror \in BOOLEAN /\ (route'.mirror => m)
      /\ written'.canary = w /\ written'.mirrored = route'.mirror
  <2>1. /\ route'.rules = WrittenRules(Router, 100 - w, w)
        /\ route'.mirror = (m /\ Router = "istio" /\ ~held.match)
        /\ written'.canary = w /\ written'.mirrored = route'.mirror
    BY <1>5 DEF SetRoutes
  <2>2. (m /\ Router = "istio" /\ ~held.match) \in BOOLEAN
    OBVIOUS
  <2>3. QED
    BY <2>1, <2>2
<1>7. Head(route'.rules) \in TrueFirsts
  <2>1. CASE Router = "traefik"
    <3>1. route'.rules = TraefikSets(100 - w, w)
      BY <1>6, <2>1, WrittenRulesAre
    <3>2. \/ Head(route'.rules) = Weight(100 - w, w)
          \/ w = 0 /\ Head(route'.rules) = PrimaryOnly(100 - w)
      BY <3>1 DEF TraefikSets
    <3>3. w = 0 => 100 - w = 100
      OBVIOUS
    <3>4. QED
      BY <3>2, <3>3 DEF TrueFirsts, Splits
  <2>2. CASE Router # "traefik"
    BY <1>1, <2>2, ProperIs DEF RouteOf, Router, Firsts, TrueFirsts
  <2>3. QED
    BY <2>1, <2>2
<1>8. TrueInv'
  BY <1>7 DEF TrueInv
<1>9. /\ ShareOf(Head(route'.rules)) = w
  BY <1>1, <1>2, <1>6, <1>7, ReadIsTrue DEF Router
<1>10. Split' = SplitOf(w, route'.mirror)
  BY <1>1, <1>9 DEF Split, Flaggers
<1>11. QED
  BY <1>3, <1>5, <1>6, <1>8, <1>10

\* The other steps of the canary leave the split, or give it up.
LEMMA OthersKeepSplit ==
  ASSUME Inv, TrueInv, ToldInv, Leave \/ Finalize \/ Edit \/ UNCHANGED vars
  PROVE  /\ TrueInv' /\ ToldInv'
         /\ \/ Told' = Told /\ Split' = Split
            \/ Leave /\ Told # NoSplit /\ Told' = NoSplit /\ Split' = Split
            \/ Told = NoSplit /\ Told' = NoSplit /\ Split' = NoSplit
<1> USE DEF Inv
<1>1. CASE Leave
  <2>1. pc = "routing" /\ pc' = "idle" /\ UNCHANGED <<route, seen>> /\ seen.canary \in 0..100
    BY <1>1 DEF Leave, TypeInv, Shares
  <2>2. TrueInv' /\ ToldInv' /\ Split' = Split
    BY <2>1 DEF TrueInv, ToldInv, Flaggers, Split
  <2>3. Told # NoSplit /\ Told' = NoSplit
    BY <2>1 DEF Told, NoSplit, SplitOf
  <2>4. QED
    BY <1>1, <2>2, <2>3
<1>2. CASE Finalize
  <2>1. pc = "idle" /\ pc' = "finalized" /\ UNCHANGED <<canary, saved>>
    BY <1>2 DEF Finalize
  <2>2. Told = NoSplit /\ Told' = NoSplit /\ Split' = NoSplit /\ ToldInv'
    BY <2>1 DEF Told, Split, ToldInv
  <2>3. TrueInv'
    <3>1. CASE route' \in {Absent, UserSpec, route}
      BY <3>1 DEF TrueInv, Flaggers
    <3>2. CASE Router = "istio" /\ route' = saved
      <4>1. saved = Absent \/ saved = UserSpec \/ RouteOf(canary, saved)
        BY DEF RouteInv
      <4>2. RouteOf(canary, saved) => Head(saved.rules) \in Splits
        BY <3>2, ProperIs DEF RouteOf, Firsts, Router
      <4>3. QED
        BY <3>2, <4>1, <4>2 DEF TrueInv, Flaggers, TrueFirsts
    <3>3. QED
      BY <1>2, <3>1, <3>2 DEF Finalize
  <2>4. QED
    BY <2>2, <2>3
<1>3. CASE Edit \/ UNCHANGED vars
  <2>1. UNCHANGED <<route, pc, seen>>
    BY <1>3 DEF Edit, vars
  <2>2. QED
    BY <2>1 DEF TrueInv, ToldInv, Flaggers, Told, Split
<1>4. QED
  BY <1>1, <1>2, <1>3

-----------------------------------------------------------------------------
(* The theorems. *)

\* Every reachable state satisfies the inductive invariant.
LEMMA InvHolds == Spec => []Inv
<1>1. Init => Inv
  BY InvInit
<1>2. Inv /\ [Next]_vars => Inv'
  BY InvNext
<1>3. QED
  BY <1>1, <1>2, PTL DEF Spec

\* The variables have their types: every weight of a route is within 0..100, and
\* the route and the saved one are the user's or of a revision Flagger has seen.
THEOREM TypeCorrect == Spec => []TypeOK
<1>1. Inv => TypeOK
  BY InvSays
<1>2. QED
  BY <1>1, InvHolds, PTL

\* What SetRoutes of any router has written, GetRoutes of that router reads back
\* in every later tick, across edits, failed writes and Reconciles, until one of
\* them resets the weights.
THEOREM WhatIsWrittenIsRead == Spec => []ReadBack
<1>1. Inv => ReadBack
  BY InvSays
<1>2. QED
  BY <1>1, InvHolds, PTL

\* Whichever write of Reconcile fails, no route names destination rules, virtual
\* nodes or upstreams that do not exist.
THEOREM PartsComeFirst == Spec => []RouteHasItsParts
<1>1. Inv => RouteHasItsParts
  BY InvSays
<1>2. QED
  BY <1>1, InvHolds, PTL

\* Finalize gives the user of Istio his virtual service back as it was, if
\* kubectl has kept it or the canary was not edited.
THEOREM UsersRouteIsRestored == Spec => []FinalizeRestores
<1>1. Inv => FinalizeRestores
  BY InvSays
<1>2. QED
  BY <1>1, InvHolds, PTL

\* The second rule of an A/B test never sends the requests that do not match its
\* conditions to the canary.
THEOREM OthersAreOnPrimary == Spec => []OthersStayOnPrimary
<1>1. Inv => OthersStayOnPrimary
  <2>1. SUFFICES ASSUME Inv, canary.match, SplitsByMatch(Router)
                 PROVE  OtherShare(route) = 0
    BY DEF OthersStayOnPrimary
  <2>2. InTwo(canary)
    BY <2>1 DEF InTwo, Router
  <2>3. route = Absent \/ route = UserSpec \/ RouteOf(canary, route)
    BY <2>1 DEF Inv, RouteInv
  <2>4. QED
    BY <2>1, <2>2, <2>3, SharesAre
<1>2. QED
  BY <1>1, InvHolds, PTL

\* If nobody edits a canary of Traefik's, which loses its weights by that (run
\* traefik), no Reconcile of any router gives a canary traffic it did not have.
THEOREM ReconcileIsHarmless ==
  ASSUME \A c \in Canaries : RouterOf(c.provider) = "traefik" => ~c.edited
  PROVE  Spec => ReconcileAddsNoTraffic
<1> DEFINE Step == pc = "idle" /\ pc' # "finalized" =>
                     /\ MatchedShare(route') <= MatchedShare(route)
                     /\ OtherShare(route') <= OtherShare(route)
<1>1. Init => TraefikInv
  BY DEF Init, TraefikInv, Router
<1>2. Inv /\ TraefikInv /\ [Next]_vars => TraefikInv'
  BY TraefikNext
<1>3. Inv /\ TraefikInv /\ [Next]_vars => [Step]_vars
  <2>1. SUFFICES ASSUME Inv, TraefikInv, Next, pc = "idle", pc' # "finalized"
                 PROVE  Step
    OBVIOUS
  <2>2. CASE ReconcileSucceeds \/ ReconcileRefuses \/ ReconcileFails
    BY <2>1, <2>2, ReconcileAddsNone
  <2>3. CASE Edit
    <3>1. route' = route
      BY <2>3 DEF Edit
    <3>2. route = Absent \/ route = UserSpec \/ RouteOf(canary, route)
      BY <2>1 DEF Inv, RouteInv
    <3>3. MatchedShare(route) \in Nat /\ OtherShare(route) \in Nat
      BY <2>1, <3>2, SharesAre
    <3>4. QED
      BY <3>1, <3>3
  <2>4. QED
    BY <2>1, <2>2, <2>3 DEF Next, GetRoutes, Route, Leave, Finalize
<1>4. QED
  BY <1>1, <1>2, <1>3, InvHolds, PTL DEF Spec, ReconcileAddsNoTraffic

\* Under the same hypothesis the router of every provider keeps one split: each
\* step of Reconcile, GetRoutes, SetRoutes and Finalize is a step of the abstract
\* router or changes nothing of it, and so what the scheduler is told is what the
\* requests see.
THEOREM RoutersKeepOneSplit ==
  ASSUME \A c \in Canaries : RouterOf(c.provider) = "traefik" => ~c.edited
  PROVE  Spec => ImplementsTrafficSplit
<1>1. Init => TraefikInv /\ TrueInv /\ ToldInv /\ T!Init
  <2>1. SUFFICES ASSUME Init PROVE TraefikInv /\ TrueInv /\ ToldInv /\ T!Init
    OBVIOUS
  <2>2. TraefikInv
    BY <2>1 DEF Init, TraefikInv, Router
  <2>3. pc = "idle" /\ route \in {Absent, UserSpec}
    BY <2>1 DEF Init
  <2>4. TrueInv /\ ToldInv /\ Told = NoSplit /\ Split = NoSplit
    BY <2>3 DEF TrueInv, ToldInv, Flaggers, Told, Split
  <2>5. QED
    BY <2>2, <2>4 DEF T!Init, T!NoSplit, T!Split, NoSplit, SplitOf
<1>2. Inv /\ TraefikInv /\ TrueInv /\ ToldInv /\ [Next]_vars
      => TrueInv' /\ ToldInv' /\ [T!Next]_(T!vars)
  <2>1. SUFFICES ASSUME Inv, TraefikInv, TrueInv, ToldInv, [Next]_vars
                 PROVE  TrueInv' /\ ToldInv' /\ [T!Next]_(T!vars)
    OBVIOUS
  <2> USE DEF T!Next, T!vars
  <2>2. NoSplit = T!NoSplit /\ \A w, m : T!Split(w, m) = SplitOf(w, m)
    BY DEF NoSplit, T!NoSplit, T!Split, SplitOf
  <2>3. CASE ReconcileSucceeds \/ ReconcileRefuses \/ ReconcileFails
    <3>1. /\ TrueInv' /\ ToldInv' /\ Told = NoSplit /\ Told' = NoSplit
          /\ Split' = Split \/ Split' = SplitOf(0, FALSE)
      BY <2>1, <2>3, ReconcileSplits
    <3>2. QED
      BY <2>2, <3>1 DEF T!Reset, T!AllPrimary
  <2>4. CASE GetRoutes
    <3>1. /\ TrueInv' /\ ToldInv' /\ Told = NoSplit /\ Split' = Split
          /\ Told' = NoSplit \/ (Told' = Split /\ Split # NoSplit)
      BY <2>1, <2>4, GetRoutesTells
    <3>2. QED
      BY <2>2, <3>1 DEF T!Tell
  <2>5. CASE Route
    <3>1. /\ TrueInv' /\ ToldInv' /\ Told # NoSplit /\ Told' = NoSplit
          /\ \/ \E w \in CanaryWeights : Split' = SplitOf(w, FALSE)
             \/ \E m \in BOOLEAN : Split' = SplitOf(0, m)
      BY <2>1, <2>5, RouteShifts
    <3>2. Split' \in T!Splits
      BY <2>2, <3>1 DEF T!Splits, T!AllPrimary, T!Mirroring
    <3>3. QED
      BY <2>2, <3>1, <3>2 DEF T!Shift
  <2>6. CASE Leave \/ Finalize \/ Edit \/ UNCHANGED vars
    <3>1. /\ TrueInv' /\ ToldInv'
          /\ \/ Told' = Told /\ Split' = Split
             \/ Told # NoSplit /\ Told' = NoSplit /\ Split' = Split
             \/ Told = NoSplit /\ Told' = NoSplit /\ Split' = NoSplit
      BY <2>1, <2>6, OthersKeepSplit
    <3>2. QED
      BY <2>2, <3>1 DEF T!Keep, T!Release
  <2>7. QED
    BY <2>1, <2>3, <2>4, <2>5, <2>6 DEF Next
<1>3. Inv /\ TraefikInv /\ [Next]_vars => TraefikInv'
  BY TraefikNext
<1>4. QED
  BY <1>1, <1>2, <1>3, InvHolds, PTL DEF Spec, ImplementsTrafficSplit, T!Spec
=============================================================================
