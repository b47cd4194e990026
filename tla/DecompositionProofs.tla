------------------------ MODULE DecompositionProofs ------------------------
(***************************************************************************)
(* What the planner promises of every plan, for every catalog, goal, body  *)
(* map and set of constraints that pass the normalising functions.         *)
(***************************************************************************)
EXTENDS Decomposition, FiniteSetTheorems, TLAPS

(* Eligibility is a matter of the request alone. *)
LEMMA SameEligible ==
  ASSUME request' = request
  PROVE  EligibleSet' = EligibleSet
BY DEF EligibleSet, Eligible, EffectiveAuthority, KnownAreas, catalog

(* What is eligible is a capability. *)
LEMMA EligibleIsCapability == EligibleSet \subseteq Capability
BY DEF EligibleSet

-----------------------------------------------------------------------------
(***************************************************************************)
(* Selection.  Only eligible capabilities are selected, whichever way they *)
(* come in, and what is covered stays covered.                             *)
(***************************************************************************)
Provided == \A t \in request.required \ uncovered : \E c \in selected : t \in catalog[c].provides

NothingLeft == \A t \in uncovered : \A c \in EligibleSet : t \notin catalog[c].provides

SelectionInv ==
  /\ request \in Request
  /\ phase \in {"cover", "explore", "order", "finish", "done"}
  /\ selected \subseteq EligibleSet
  /\ uncovered \subseteq request.required /\ Provided
  /\ phase = "cover" => \A c \in selected : catalog[c].provides \cap uncovered = {}
  /\ phase # "cover" => NothingLeft

(* The closure of eligible capabilities is eligible, contains them, and    *)
(* contains the eligible dependencies of its members.                      *)
LEMMA ClosureFacts ==
  ASSUME NEW S, S \subseteq EligibleSet
  PROVE  /\ Closure(S) \subseteq EligibleSet
         /\ S \subseteq Closure(S)
         /\ \A c \in Closure(S) : catalog[c].dependsOn \cap EligibleSet \subseteq Closure(S)
BY DEF Closure

LEMMA SelectionInit == PlanInit => SelectionInv
BY DEF PlanInit, SelectionInv, Provided, NothingLeft

LEMMA CoverStep ==
  ASSUME SelectionInv, Cover
  PROVE  SelectionInv'
<1>1. PICK c \in Choosable : /\ selected' = selected \cup {c}
                             /\ uncovered' = uncovered \ catalog[c].provides
  BY DEF Cover
<1>2. request' = request /\ phase' = "cover" /\ phase = "cover"
  BY DEF Cover
<1>3. EligibleSet' = EligibleSet
  BY <1>2, SameEligible
<1>4. c \in EligibleSet
  BY DEF Choosable
<1>5. Provided'
  <2> SUFFICES ASSUME NEW t \in request.required \ uncovered'
               PROVE  \E d \in selected' : t \in catalog[d].provides
    BY <1>2 DEF Provided, catalog
  <2>1. CASE t \in uncovered
    BY <2>1, <1>1
  <2>2. CASE t \notin uncovered
    BY <2>2, <1>1 DEF SelectionInv, Provided
  <2> QED BY <2>1, <2>2
<1>6. \A d \in selected' : catalog'[d].provides \cap uncovered' = {}
  BY <1>1, <1>2 DEF SelectionInv, catalog
<1> QED BY <1>1, <1>2, <1>3, <1>4, <1>5, <1>6 DEF SelectionInv

(* Covering ends with nothing wanted, or with nobody who could provide it. *)
LEMMA CoverEndsStep ==
  ASSUME SelectionInv, CoverEnds
  PROVE  SelectionInv'
<1>1. /\ request' = request /\ selected' = selected /\ uncovered' = uncovered
      /\ phase = "cover" /\ phase' = "explore"
  BY DEF CoverEnds
<1>2. EligibleSet' = EligibleSet
  BY <1>1, SameEligible
<1>3. NothingLeft
  <2> SUFFICES ASSUME NEW t \in uncovered, NEW c \in EligibleSet, t \in catalog[c].provides
               PROVE  FALSE
    BY DEF NothingLeft
  <2>1. c \notin selected
    BY DEF SelectionInv, CoverEnds
  <2>2. Coverage(c) > 0
    <3> DEFINE both == catalog[c].provides \cap uncovered
    <3>1. IsFiniteSet(request.required)
      BY RequestAssumption DEF SelectionInv, Normalized
    <3>2. IsFiniteSet(both)
      BY <3>1, FS_Subset DEF SelectionInv
    <3>3. both # {}
      OBVIOUS
    <3>4. Cardinality(both) \in Nat /\ Cardinality(both) # 0
      BY <3>2, <3>3, FS_EmptySet, FS_CardinalityType
    <3> QED BY <3>4 DEF Coverage
  <2>3. c \in Choosable /\ uncovered # {}
    BY <2>1, <2>2 DEF Choosable
  <2> QED BY <2>3 DEF CoverEnds
<1>4. Provided' /\ NothingLeft'
  BY <1>1, <1>2, <1>3 DEF SelectionInv, Provided, NothingLeft, catalog
<1> QED BY <1>1, <1>2, <1>4 DEF SelectionInv

(* Selecting more eligible ones keeps it, once covering is over. *)
LEMMA MoreSelected ==
  ASSUME SelectionInv, phase # "cover", phase' \in {"explore", "order", "finish", "done"},
         request' = request, uncovered' = uncovered,
         selected \subseteq selected', selected' \subseteq EligibleSet
  PROVE  SelectionInv'
<1>1. EligibleSet' = EligibleSet
  BY SameEligible
<1>2. Provided'
  BY DEF SelectionInv, Provided, catalog
<1>3. NothingLeft'
  BY <1>1 DEF SelectionInv, NothingLeft, catalog
<1> QED BY <1>1, <1>2, <1>3 DEF SelectionInv

LEMMA SelectionStep == SelectionInv /\ [PlanNext]_planVars => SelectionInv'
<1> SUFFICES ASSUME SelectionInv, [PlanNext]_planVars
             PROVE  SelectionInv'
  OBVIOUS
<1>1. CASE Cover
  BY <1>1, CoverStep
<1>2. CASE CoverEnds
  BY <1>2, CoverEndsStep
<1>3. CASE Explore
  <2>1. /\ selected \subseteq selected' /\ selected' \subseteq EligibleSet
        /\ phase = "explore" /\ phase' = phase /\ request' = request /\ uncovered' = uncovered
    BY <1>3 DEF Explore, Foremost, SelectionInv
  <2> QED BY <2>1, MoreSelected
<1>4. CASE CloseDependencies
  <2>1. /\ phase = "explore" /\ phase' \in {"order", "finish"}
        /\ selected' = Closure(selected) /\ request' = request /\ uncovered' = uncovered
    BY <1>4 DEF CloseDependencies
  <2>2. selected \subseteq EligibleSet
    BY DEF SelectionInv
  <2> QED BY <2>1, <2>2, ClosureFacts, MoreSelected
<1>5. CASE Order
  <2>1. /\ phase = "order" /\ phase' \in {"order", "finish"}
        /\ selected' = selected /\ request' = request /\ uncovered' = uncovered
    BY <1>5 DEF Order
  <2>2. selected \subseteq EligibleSet
    BY DEF SelectionInv
  <2> QED BY <2>1, <2>2, MoreSelected
<1>6. CASE Finish
  <2>1. /\ phase = "finish" /\ phase' = "done"
        /\ selected' = selected /\ request' = request /\ uncovered' = uncovered
    BY <1>6 DEF Finish
  <2>2. selected \subseteq EligibleSet
    BY DEF SelectionInv
  <2> QED BY <2>1, <2>2, MoreSelected
<1>7. CASE UNCHANGED planVars
  <2>1. /\ request' = request /\ selected' = selected /\ uncovered' = uncovered /\ phase' = phase
    BY <1>7 DEF planVars
  <2>2. EligibleSet' = EligibleSet
    BY <2>1, SameEligible
  <2> QED BY <2>1, <2>2 DEF SelectionInv, Provided, NothingLeft, catalog
<1> QED BY <1>1, <1>2, <1>3, <1>4, <1>5, <1>6, <1>7 DEF PlanNext

LEMMA SelectionAlways == PlanSpec => []SelectionInv
BY SelectionInit, SelectionStep, PTL DEF PlanSpec

(* A plan never widens a permission: whichever way a capability came in,   *)
(* every area it targets exists, names it and grants the authority it      *)
(* keeps.                                                                  *)
THEOREM NothingIsWidened == PlanSpec => []NothingWidened
<1>1. SelectionInv => NothingWidened
  <2> SUFFICES ASSUME SelectionInv, NEW c \in selected, NEW a \in catalog[c].targetAreas
               PROVE  /\ c \notin request.deniedCapabilities
                      /\ a \in DOMAIN request.areas
                      /\ c \in request.areas[a].allowedCapabilities
                      /\ EffectiveAuthority(c) \subseteq request.areas[a].authorities
    <3>1. ASSUME SelectionInv, NEW c \in selected
          PROVE  c \notin request.deniedCapabilities
      BY <3>1 DEF SelectionInv, EligibleSet, Eligible
    <3> QED BY <3>1 DEF NothingWidened
  <2>1. Eligible(c)
    BY DEF SelectionInv, EligibleSet
  <2>2. a \in KnownAreas(c) /\ c \notin request.deniedCapabilities
    BY <2>1 DEF Eligible, KnownAreas
  <2>3. EffectiveAuthority(c) \subseteq request.areas[a].authorities
    BY <2>2 DEF EffectiveAuthority
  <2> QED BY <2>1, <2>2, <2>3 DEF Eligible, KnownAreas
<1> QED BY <1>1, SelectionAlways, PTL

(* The greedy choice never costs a requirement: what is required has a     *)
(* provider in the plan, or no eligible capability provides it.            *)
THEOREM CoveredWhatCanBe == PlanSpec => []CoversWhatCanBe
<1>1. SelectionInv => CoversWhatCanBe
  <2> SUFFICES ASSUME SelectionInv, phase # "cover", NEW t \in request.required
               PROVE  \/ t \notin uncovered /\ \E c \in selected : t \in catalog[c].provides
                      \/ t \in uncovered /\ \A c \in EligibleSet : t \notin catalog[c].provides
    BY DEF CoversWhatCanBe
  <2> QED BY DEF SelectionInv, Provided, NothingLeft
<1> QED BY <1>1, SelectionAlways, PTL

-----------------------------------------------------------------------------
(***************************************************************************)
(* Order.  A plan that nothing holds back is closed, free of cycles and    *)
(* small enough, and its order grows by capabilities whose dependencies    *)
(* are in it, until none is left.                                          *)
(***************************************************************************)
Sequenced(s, S) ==
  /\ s \in Seq(S) /\ IsInjective(s)
  /\ \A i \in DOMAIN s : catalog[s[i]].dependsOn \subseteq {s[j] : j \in 1..(i - 1)}

ClosedPlan(S) ==
  /\ \A c \in S : catalog[c].dependsOn \subseteq S
  /\ ~Cyclic(S)
  /\ Cardinality(S) <= request.maxCandidates

OrderInv ==
  /\ phase \in {"cover", "explore"} => order = <<>> /\ status = "none"
  /\ phase \in {"order", "finish"} => status = "none"
  /\ phase \in {"order", "finish", "done"} /\ unresolved = {} =>
       /\ ClosedPlan(selected) /\ Sequenced(order, selected)
       /\ phase # "order" => selected \subseteq ToSet(order)
  /\ status = "READY" => phase = "done" /\ unresolved = {}

(* A plan of eligible capabilities is finite. *)
LEMMA FinitePlan ==
  ASSUME NEW S, S \subseteq EligibleSet
  PROVE  IsFiniteSet(S)
<1>1. IsFiniteSet(1..NC)
  BY FS_Interval, RequestAssumption
<1>2. S \in SUBSET (1..NC)
  BY EligibleIsCapability DEF Capability
<1> QED BY <1>1, <1>2, FS_Subset

(* The closure of a selection that has nothing unresolved. *)
LEMMA ClosedAtClosure ==
  ASSUME NEW S, S \subseteq EligibleSet, request \in Request, Unresolved(Closure(S)) = {}
  PROVE  ClosedPlan(Closure(S))
<1> DEFINE T == Closure(S)
<1>1. /\ "UNAVAILABLE_DEPENDENCY" \notin Unresolved(T)
      /\ "DEPENDENCY_CYCLE" \notin Unresolved(T)
      /\ "MAX_CANDIDATES_EXCEEDED" \notin Unresolved(T)
  OBVIOUS
<1>2. T \subseteq EligibleSet /\ \A c \in T : catalog[c].dependsOn \cap EligibleSet \subseteq T
  BY ClosureFacts
<1> HIDE DEF T
<1>3. /\ \A c \in T : catalog[c].dependsOn \subseteq EligibleSet
      /\ ~Cyclic(T)
      /\ ~(Cardinality(T) > request.maxCandidates)
  BY <1>1 DEF Unresolved
<1>4. Cardinality(T) \in Nat /\ request.maxCandidates \in Nat
  BY <1>2, FinitePlan, FS_CardinalityType, RequestAssumption DEF Normalized
<1>5. ClosedPlan(T)
  BY <1>2, <1>3, <1>4 DEF ClosedPlan
<1> QED BY <1>5 DEF T

LEMMA NothingSequenced == ASSUME NEW S PROVE Sequenced(<<>>, S)
BY DEF Sequenced, IsInjective

(* A member that is not in the order yet, but all it depends on is, may    *)
(* come next.                                                              *)
LEMMA SequencedAppend ==
  ASSUME NEW S, NEW s, Sequenced(s, S), NEW c \in S, c \notin ToSet(s),
         catalog[c].dependsOn \subseteq ToSet(s)
  PROVE  Sequenced(Append(s, c), S)
<1> DEFINE t == Append(s, c)
           n == Len(s)
<1>1. s \in Seq(S) /\ n \in Nat /\ DOMAIN s = 1..n
  BY DEF Sequenced
<1>2. /\ t \in Seq(S) /\ DOMAIN t = 1..(n + 1)
      /\ \A i \in 1..n : t[i] = s[i]
      /\ t[n + 1] = c
  BY <1>1
<1> HIDE DEF t, n
<1>3. \A i \in 1..n : s[i] # c
  BY <1>1 DEF ToSet
<1>4. IsInjective(t)
  <2> SUFFICES ASSUME NEW i \in 1..(n + 1), NEW j \in 1..(n + 1), t[i] = t[j]
               PROVE  i = j
    BY <1>2 DEF IsInjective
  <2>1. CASE i \in 1..n /\ j \in 1..n
    BY <2>1, <1>1, <1>2 DEF Sequenced, IsInjective
  <2>2. CASE i = n + 1 /\ j \in 1..n
    BY <2>2, <1>2, <1>3
  <2>3. CASE i \in 1..n /\ j = n + 1
    BY <2>3, <1>2, <1>3
  <2> QED BY <2>1, <2>2, <2>3, <1>1
<1>5. ASSUME NEW i \in 1..(n + 1)
      PROVE  catalog[t[i]].dependsOn \subseteq {t[j] : j \in 1..(i - 1)}
  <2>1. CASE i \in 1..n
    <3>1. catalog[s[i]].dependsOn \subseteq {s[j] : j \in 1..(i - 1)}
      BY <2>1, <1>1 DEF Sequenced
    <3>2. \A j \in 1..(i - 1) : j \in 1..n /\ t[j] = s[j]
      BY <2>1, <1>1, <1>2
    <3> QED BY <3>1, <3>2, <2>1, <1>2
  <2>2. CASE i = n + 1
    <3>1. \A d \in ToSet(s) : \E j \in 1..n : d = t[j]
      BY <1>1, <1>2 DEF ToSet
    <3>2. 1..(i - 1) = 1..n
      BY <2>2, <1>1
    <3> QED BY <3>1, <3>2, <2>2, <1>2
  <2> QED BY <2>1, <2>2, <1>1
<1>6. Sequenced(t, S)
  BY <1>2, <1>4, <1>5 DEF Sequenced
<1> QED BY <1>6 DEF t

(* As long as the plan has no cycle something is ready until all are in    *)
(* the order.                                                              *)
LEMMA NotReadyIsDone ==
  ASSUME ~Cyclic(selected), Ready = {}
  PROVE  selected \subseteq ToSet(order)
<1> DEFINE T == selected \ ToSet(order)
<1> SUFFICES ASSUME T # {} PROVE FALSE
  OBVIOUS
<1>1. PICK c \in T : catalog[c].dependsOn \cap T = {}
  BY DEF Cyclic
<1>2. c \in Ready
  BY <1>1 DEF Ready
<1> QED BY <1>2

LEMMA OrderInit == PlanInit => OrderInv
BY DEF PlanInit, OrderInv

LEMMA CloseStep ==
  ASSUME SelectionInv, OrderInv, CloseDependencies
  PROVE  OrderInv'
<1>1. /\ phase = "explore" /\ phase' \in {"order", "finish"}
      /\ selected' = Closure(selected) /\ unresolved' = Unresolved(selected')
      /\ unresolved' = {} => phase' = "order" /\ order' = order
      /\ status' = status /\ request' = request
  BY DEF CloseDependencies
<1>2. order = <<>> /\ status = "none"
  BY <1>1 DEF OrderInv
<1>3. ASSUME unresolved' = {}
      PROVE  ClosedPlan(selected') /\ Sequenced(order', selected')
  <2>1. ClosedPlan(selected')
    BY <1>1, <1>3, ClosedAtClosure DEF SelectionInv
  <2> QED BY <1>1, <1>2, <1>3, <2>1, NothingSequenced
<1>4. ClosedPlan(selected') = ClosedPlan(selected)'
  BY <1>1 DEF ClosedPlan, Cyclic, catalog
<1>5. Sequenced(order', selected') = Sequenced(order, selected)'
  BY <1>1 DEF Sequenced, catalog
<1> QED BY <1>1, <1>2, <1>3, <1>4, <1>5 DEF OrderInv

(* What the plan is does not change while it is ordered. *)
LEMMA SamePlan ==
  ASSUME request' = request, selected' = selected
  PROVE  /\ ClosedPlan(selected)' = ClosedPlan(selected)
         /\ Sequenced(order, selected)' = Sequenced(order', selected)
BY DEF ClosedPlan, Cyclic, Sequenced, catalog

LEMMA TurnStep ==
  ASSUME SelectionInv, OrderInv, Order
  PROVE  OrderInv'
<1>1. /\ phase = "order" /\ status' = status /\ unresolved' = unresolved
      /\ selected' = selected /\ request' = request
      /\ status = "none"
  BY DEF Order, OrderInv
<1>2. CASE Ready = {} /\ phase' = "finish" /\ order' = order
  <2>1. unresolved = {} => selected \subseteq ToSet(order)
    BY <1>1, <1>2, NotReadyIsDone DEF OrderInv, ClosedPlan
  <2>2. selected' \subseteq ToSet(order)' <=> selected \subseteq ToSet(order)
    BY <1>1, <1>2
  <2> QED BY <1>1, <1>2, <2>1, <2>2, SamePlan DEF OrderInv
<1>3. ASSUME NEW c \in Ready, phase' = phase, order' = Append(order, c)
      PROVE  OrderInv'
  <2>1. ASSUME unresolved = {}
        PROVE  Sequenced(order', selected)
    <3>1. ClosedPlan(selected) /\ Sequenced(order, selected)
      BY <1>1, <2>1 DEF OrderInv
    <3>2. /\ c \in selected /\ c \notin ToSet(order)
          /\ catalog[c].dependsOn \subseteq ToSet(order)
      BY <3>1 DEF Ready, ClosedPlan
    <3> QED BY <3>1, <3>2, <1>3, SequencedAppend
  <2> QED BY <1>1, <1>3, <2>1, SamePlan DEF OrderInv
<1> QED BY <1>2, <1>3 DEF Order

LEMMA OrderStep == SelectionInv /\ OrderInv /\ [PlanNext]_planVars => OrderInv'
<1> SUFFICES ASSUME SelectionInv, OrderInv, [PlanNext]_planVars
             PROVE  OrderInv'
  OBVIOUS
<1>1. CASE Cover
  BY <1>1 DEF Cover, OrderInv
<1>2. CASE CoverEnds
  BY <1>2 DEF CoverEnds, OrderInv
<1>3. CASE Explore
  BY <1>3 DEF Explore, OrderInv
<1>4. CASE CloseDependencies
  BY <1>4, CloseStep
<1>5. CASE Order
  BY <1>5, TurnStep
<1>6. CASE Finish
  <2>1. /\ phase = "finish" /\ phase' = "done" /\ order' = order
        /\ selected' = selected /\ request' = request /\ unresolved' = unresolved
        /\ status' = "READY" => unresolved = {}
    BY <1>6 DEF Finish
  <2> QED BY <2>1, SamePlan DEF OrderInv
<1>7. CASE UNCHANGED planVars
  <2>1. /\ phase' = phase /\ order' = order /\ status' = status
        /\ selected' = selected /\ request' = request /\ unresolved' = unresolved
    BY <1>7 DEF planVars
  <2> QED BY <2>1, SamePlan DEF OrderInv
<1> QED BY <1>1, <1>2, <1>3, <1>4, <1>5, <1>6, <1>7 DEF PlanNext

LEMMA OrderAlways == PlanSpec => [](SelectionInv /\ OrderInv)
BY SelectionInit, OrderInit, SelectionStep, OrderStep, PTL DEF PlanSpec

(* An order without repetitions is as long as the set it orders. *)
LEMMA LengthIsCount ==
  ASSUME NEW S, NEW s \in Seq(S), IsInjective(s), IsFiniteSet(S)
  PROVE  Len(s) <= Cardinality(S)
<1>1. Len(s) \in Nat /\ DOMAIN s = 1..Len(s) /\ s \in [1..Len(s) -> S]
  OBVIOUS
<1> DEFINE n == Len(s)
           D == 1..n
<1>2. IsFiniteSet(D) /\ Cardinality(D) = n
  BY <1>1, FS_Interval
<1> SUFFICES ASSUME ~(n <= Cardinality(S)) PROVE FALSE
  OBVIOUS
<1>3. Cardinality(S) < Cardinality(D)
  BY <1>1, <1>2, FS_CardinalityType
<1>4. s \in [D -> S]
  BY <1>1
<1> HIDE DEF D, n
<1>5. PICK x \in D, y \in D : x # y /\ s[x] = s[y]
  BY <1>2, <1>3, <1>4, FS_PigeonHole
<1> QED BY <1>1, <1>5 DEF IsInjective, D, n

(* What the integration and the candidates ask for is an amount. *)
LEMMA DemandType ==
  ASSUME request \in Request, selected \subseteq Capability, NEW t \in selected \cup {0}
  PROVE  /\ Demand(t) \in Nat /\ request.workerLimit \in Nat
         /\ t = 0 => Demand(t) <= request.workerLimit
BY RequestAssumption DEF Demand, Normalized, catalog

(* The tasks of a plan whose order is complete: all of its members and the *)
(* integration, once each.                                                 *)
LEMMA TasksOfPlan ==
  ASSUME order \in Seq(selected), IsInjective(order), ToSet(order) = selected, 0 \notin selected
  PROVE  ToSet(Tasks) = selected \cup {0} /\ IsInjective(Tasks)
<1> DEFINE n == Len(order)
<1>1. n \in Nat /\ DOMAIN order = 1..n /\ \A i \in 1..n : order[i] \in selected
  OBVIOUS
<1>2. Tasks \in Seq(selected \cup {0})
  BY DEF Tasks
<1>3. /\ Len(Tasks) = n + 1 /\ DOMAIN Tasks = 1..(n + 1)
      /\ \A i \in 1..n : Tasks[i] = order[i]
      /\ Tasks[n + 1] = 0
  BY <1>1 DEF Tasks
<1> HIDE DEF n
<1>4. \A i \in 1..n : Tasks[i] \in selected /\ Tasks[i] # 0
  BY <1>1, <1>3
<1>5. IsInjective(Tasks)
  <2> SUFFICES ASSUME NEW i \in 1..(n + 1), NEW j \in 1..(n + 1), Tasks[i] = Tasks[j]
               PROVE  i = j
    BY <1>3 DEF IsInjective
  <2>1. CASE i \in 1..n /\ j \in 1..n
    BY <2>1, <1>1, <1>3 DEF IsInjective
  <2>2. CASE i = n + 1 /\ j \in 1..n
    BY <2>2, <1>3, <1>4
  <2>3. CASE i \in 1..n /\ j = n + 1
    BY <2>3, <1>3, <1>4
  <2> QED BY <2>1, <2>2, <2>3, <1>1
<1>6. ASSUME NEW c \in selected
      PROVE  c \in ToSet(Tasks)
  <2>1. PICK i \in 1..n : order[i] = c
    BY <1>1 DEF ToSet
  <2>2. i \in 1..(n + 1) /\ Tasks[i] = c
    BY <2>1, <1>1, <1>3
  <2> QED BY <2>2, <1>3 DEF ToSet
<1>7. 0 \in ToSet(Tasks)
  <2>1. n + 1 \in 1..(n + 1)
    BY <1>1
  <2> QED BY <2>1, <1>3 DEF ToSet
<1>8. ASSUME NEW t \in ToSet(Tasks)
      PROVE  t \in selected \cup {0}
  <2>1. PICK i \in 1..(n + 1) : Tasks[i] = t
    BY <1>3 DEF ToSet
  <2> QED BY <2>1, <1>1, <1>3, <1>4
<1> QED BY <1>5, <1>6, <1>7, <1>8

(* Neither the members of a plan without a circle nor the integration they *)
(* are followed by wait for each other in one.                             *)
LEMMA NoCircleOfTasks ==
  ASSUME ~Cyclic(selected), 0 \notin selected,
         NEW T \in SUBSET (selected \cup {0}), T # {}
  PROVE  \E t \in T : Needs(t) \cap T = {}
<1> DEFINE M == T \ {0}
<1>1. CASE M = {}
  <2>1. T = {0}
    BY <1>1
  <2> QED BY <2>1 DEF Needs
<1>2. CASE M # {}
  <2>1. M \in SUBSET selected
    OBVIOUS
  <2>2. PICK c \in M : catalog[c].dependsOn \cap M = {}
    BY <1>2, <2>1 DEF Cyclic
  <2>3. Needs(c) = catalog[c].dependsOn \cap selected
    BY <2>2 DEF Needs
  <2>4. Needs(c) \cap T = {}
    BY <2>2, <2>3
  <2> QED BY <2>2, <2>4
<1> QED BY <1>1, <1>2

(* A ready plan keeps to its number of candidates and has each candidate   *)
(* after everything it depends on.  Whether the scheduler accepts the run  *)
(* made of it, the integration included, hangs on one thing more: that     *)
(* everyone asks for at least one worker, which the planner never looks at.*)
THEOREM ReadyCanBeScheduled == PlanSpec => []ReadyIsSchedulable
<1>1. SelectionInv /\ OrderInv => ReadyIsSchedulable
  <2> SUFFICES ASSUME SelectionInv, OrderInv, status = "READY"
               PROVE  /\ ToSet(order) = selected
                      /\ Len(order) <= request.maxCandidates
                      /\ \A i \in DOMAIN order :
                           catalog[order[i]].dependsOn \subseteq {order[j] : j \in 1..(i - 1)}
                      /\ Accepts(Tasks) <=> \A t \in ToSet(Tasks) : Demand(t) >= 1
    BY DEF ReadyIsSchedulable
  <2>1. /\ ClosedPlan(selected) /\ Sequenced(order, selected)
        /\ selected \subseteq ToSet(order)
    BY DEF OrderInv
  <2>2. order \in Seq(selected) /\ IsInjective(order)
    BY <2>1 DEF Sequenced
  <2>3. \A i \in DOMAIN order : order[i] \in selected
    BY <2>2
  <2>4. ToSet(order) = selected
    BY <2>1, <2>3 DEF ToSet
  <2>5. IsFiniteSet(selected) /\ request \in Request
    BY FinitePlan DEF SelectionInv
  <2>6. /\ Len(order) <= Cardinality(selected)
        /\ Len(order) \in Nat /\ Cardinality(selected) \in Nat
    BY <2>2, <2>5, LengthIsCount, FS_CardinalityType
  <2>7. Cardinality(selected) <= request.maxCandidates /\ request.maxCandidates \in Nat
    BY <2>1, <2>5, RequestAssumption DEF ClosedPlan, Normalized
  <2>8. /\ \A c \in selected : catalog[c].workers <= request.workerLimit
        /\ selected \subseteq Capability
    BY EligibleIsCapability DEF SelectionInv, EligibleSet, Eligible
  <2>9. 0 \notin selected
    BY <2>8, RequestAssumption DEF Capability
  <2>10. ToSet(Tasks) = selected \cup {0} /\ IsInjective(Tasks)
    BY <2>2, <2>4, <2>9, TasksOfPlan
  <2>11. \A t \in selected \cup {0} : Demand(t) <= request.workerLimit
    BY <2>5, <2>8, <2>9, DemandType DEF Demand
  <2>12. ASSUME NEW t \in selected \cup {0}
         PROVE  Needs(t) \subseteq (selected \cup {0}) \ {t}
    <3>1. CASE t = 0
      BY <3>1, <2>9 DEF Needs
    <3>2. CASE t # 0
      <4>1. t \in Capability /\ request \in Request
        BY <3>2, <2>5, <2>8
      <4>2. catalog[t].dependsOn \subseteq Capability \ {t}
        BY <4>1, RequestAssumption DEF Normalized, catalog
      <4> QED BY <4>2, <3>2 DEF Needs
    <3> QED BY <3>1, <3>2
  <2>13. \A T \in SUBSET (selected \cup {0}) : T # {} => \E t \in T : Needs(t) \cap T = {}
    BY <2>1, <2>9, NoCircleOfTasks DEF ClosedPlan
  <2>14. Accepts(Tasks) <=> \A t \in ToSet(Tasks) : Demand(t) >= 1
    BY <2>10, <2>11, <2>12, <2>13 DEF Accepts
  <2>15. \A i \in DOMAIN order : catalog[order[i]].dependsOn \subseteq {order[j] : j \in 1..(i - 1)}
    BY <2>1 DEF Sequenced
  <2> QED BY <2>4, <2>6, <2>7, <2>14, <2>15
<1> QED BY <1>1, OrderAlways, PTL
=============================================================================
