---------------------------- MODULE Decomposition ----------------------------
(***************************************************************************)
(* The deterministic compiler of src/src/decomposition.js from a goal, a   *)
(* body map, a capability catalog and constraints to the candidates of a   *)
(* creation cycle.  Each iteration of its loops is an action.  Capability  *)
(* ids are numbers in the order of localeCompare; a catalog is what the    *)
(* normalising functions let through; work, tests and refs are abstracted  *)
(* to whether there are any.                                               *)
(***************************************************************************)
EXTENDS Integers, FiniteSets, SequencesExt

CONSTANTS
  NC,        \* number of capabilities
  Token,     \* requirement tokens
  Authority, \* "WRITE-SANDBOX", "COMMIT-CANDIDATE" and others
  Request    \* goals, body maps, catalogs and constraints, see below

Capability == 1..NC

(* What normalizeCapabilities, assertDependencyReferences, normalizeGoal,  *)
(* normalizeBodyMap and normalizeConstraints leave of the input.  Amounts  *)
(* are those of one resource class, workers.                               *)
Normalized(r) ==
  /\ DOMAIN r.catalog = Capability
  /\ \A c \in Capability :
       LET k == r.catalog[c]
       IN  /\ k.provides \subseteq Token /\ k.provides # {}
           /\ k.dependsOn \subseteq Capability \ {c}
           /\ k.targetAreas # {} /\ k.authority \subseteq Authority
           /\ k.workers \in Nat /\ k.priority \in Int
           /\ k.evidenced \in BOOLEAN /\ k.tested \in BOOLEAN
  /\ DOMAIN r.areas # {}
  /\ \A a \in DOMAIN r.areas : /\ r.areas[a].allowedCapabilities # {}
                              /\ r.areas[a].authorities \subseteq Authority
  /\ r.required \subseteq Token /\ IsFiniteSet(r.required)
  /\ \A i \in DOMAIN r.exploration : r.exploration[i].extraProviders \in Nat
  /\ r.workerLimit \in Nat \ {0} /\ r.maxCandidates \in Nat \ {0}
  /\ r.integrationWorkers \in Nat /\ r.integrationWorkers <= r.workerLimit

ASSUME RequestAssumption ==
  /\ NC \in Nat /\ {"WRITE-SANDBOX", "COMMIT-CANDIDATE"} \subseteq Authority
  /\ \A r \in Request : Normalized(r)

VARIABLES
  request,     \* the input, fixed
  phase,       \* where createDecompositionPlan stands
  uncovered,   \* required tokens nobody selected provides yet
  selected,    \* selectedIds
  explored,    \* number of exploration records done
  extras,      \* per exploration record, what it added
  unresolved,  \* kinds of unresolved items
  order,       \* orderedSelected
  status       \* of the plan

planVars == <<request, phase, uncovered, selected, explored, extras,
              unresolved, order, status>>

catalog == request.catalog
-----------------------------------------------------------------------------
KnownAreas(c) == catalog[c].targetAreas \cap DOMAIN request.areas

EffectiveAuthority(c) ==
  {x \in catalog[c].authority \cap request.allowedAuthorities :
     \A a \in KnownAreas(c) : x \in request.areas[a].authorities}

(* Mutants of Eligible: the budget is not looked at; one area that grants  *)
(* the capability is enough.                                               *)
EligibleNoBudget(c) ==
  /\ c \in request.allowedCapabilities \ request.deniedCapabilities
  /\ catalog[c].evidenced /\ catalog[c].tested
  /\ catalog[c].targetAreas \subseteq DOMAIN request.areas
  /\ \A a \in KnownAreas(c) : c \in request.areas[a].allowedCapabilities
  /\ "WRITE-SANDBOX" \in EffectiveAuthority(c)
  /\ request.requireCommitCandidate => "COMMIT-CANDIDATE" \in EffectiveAuthority(c)

EligibleAnyArea(c) ==
  /\ c \in request.allowedCapabilities \ request.deniedCapabilities
  /\ catalog[c].evidenced /\ catalog[c].tested
  /\ \E a \in KnownAreas(c) : c \in request.areas[a].allowedCapabilities
  /\ "WRITE-SANDBOX" \in EffectiveAuthority(c)
  /\ request.requireCommitCandidate => "COMMIT-CANDIDATE" \in EffectiveAuthority(c)
  /\ catalog[c].workers <= request.workerLimit

(* evaluateCapabilityEligibility                                           *)
Eligible(c) ==
  /\ c \in request.allowedCapabilities \ request.deniedCapabilities
  /\ catalog[c].evidenced /\ catalog[c].tested
  /\ catalog[c].targetAreas \subseteq DOMAIN request.areas
  /\ \A a \in KnownAreas(c) : c \in request.areas[a].allowedCapabilities
  /\ "WRITE-SANDBOX" \in EffectiveAuthority(c)
  /\ request.requireCommitCandidate => "COMMIT-CANDIDATE" \in EffectiveAuthority(c)
  /\ catalog[c].workers <= request.workerLimit

EligibleSet == {c \in Capability : Eligible(c)}

(* compareCapabilities and, in front of it, the coverage.                  *)
Before(a, b) ==
  \/ catalog[a].priority > catalog[b].priority
  \/ catalog[a].priority = catalog[b].priority /\ a < b

Coverage(c) == Cardinality(catalog[c].provides \cap uncovered)

CoversBefore(a, b) ==
  Coverage(a) > Coverage(b) \/ (Coverage(a) = Coverage(b) /\ Before(a, b))

Ranked(S) == SetToSortSeq(S, Before)

(* The first n members of S, and the first of all.                         *)
Foremost(S, n) == {c \in S : Cardinality({d \in S : Before(d, c)}) < n}

IsFirst(c, S) == \A d \in S \ {c} : Before(c, d)

PlanInit ==
  /\ request \in Request
  /\ phase = "cover"
  /\ uncovered = request.required
  /\ selected = {} /\ explored = 0 /\ extras = <<>>
  /\ unresolved = {} /\ order = <<>> /\ status = "none"

(* Mutant of Choosable: what was wanted at first, not what is left, has to *)
(* be covered as a whole.                                                  *)
ChoosableWhole == {c \in EligibleSet \ selected : uncovered \subseteq catalog[c].provides}

Choosable == {c \in EligibleSet \ selected : Coverage(c) > 0}

(* The greedy loop: the best of those that cover anything uncovered.       *)
Cover ==
  /\ phase = "cover" /\ uncovered # {} /\ Choosable # {}
  /\ \E c \in Choosable :
       /\ \A d \in Choosable \ {c} : CoversBefore(c, d)
       /\ selected' = selected \cup {c}
       /\ uncovered' = uncovered \ catalog[c].provides
  /\ UNCHANGED <<request, phase, explored, extras, unresolved, order, status>>

CoverEnds ==
  /\ phase = "cover" /\ (uncovered = {} \/ Choosable = {})
  /\ phase' = "explore"
  /\ UNCHANGED <<request, uncovered, selected, explored, extras, unresolved, order, status>>

(* One exploration record: the alternatives are filtered once, against the *)
(* pressures selected before, and the first extraProviders of them taken.  *)
Explore ==
  /\ phase = "explore" /\ explored < Len(request.exploration)
  /\ LET wish == request.exploration[explored + 1]
         pressures == {catalog[c].pressure : c \in selected}
         alternatives == {c \in EligibleSet \ selected :
           /\ wish.token \in catalog[c].provides
           /\ wish.distinctPressure => catalog[c].pressure \notin pressures}
         added == Foremost(alternatives, wish.extraProviders)
     IN  /\ selected' = selected \cup added
         /\ extras' = Append(extras, [added |-> added, before |-> selected])
  /\ explored' = explored + 1
  /\ UNCHANGED <<request, phase, uncovered, unresolved, order, status>>

(* closeDependencies: the smallest set that contains S and the eligible    *)
(* dependencies of its members.                                            *)
Closure(S) ==
  LET closed == {T \in SUBSET EligibleSet :
                   S \subseteq T /\ \A c \in T : catalog[c].dependsOn \cap EligibleSet \subseteq T}
  IN  {c \in EligibleSet : \A T \in closed : c \in T}

Cyclic(S) == \E T \in SUBSET S : T # {} /\ \A c \in T : catalog[c].dependsOn \cap T # {}

(* What keeps a plan from being ready, apart from having no candidate.     *)
Unresolved(S) ==
  {kind \in {"UNCOVERED_REQUIREMENT", "UNAVAILABLE_DEPENDENCY", "DEPENDENCY_CYCLE",
             "MAX_CANDIDATES_EXCEEDED", "MISSING_INTEGRATION_TESTS"} :
     CASE kind = "UNCOVERED_REQUIREMENT" -> uncovered # {}
       [] kind = "UNAVAILABLE_DEPENDENCY" ->
            \E c \in S : ~(catalog[c].dependsOn \subseteq EligibleSet)
       [] kind = "DEPENDENCY_CYCLE" -> Cyclic(S)
       [] kind = "MAX_CANDIDATES_EXCEEDED" -> Cardinality(S) > request.maxCandidates
       [] kind = "MISSING_INTEGRATION_TESTS" -> ~request.integrationTested}

CloseDependencies ==
  /\ phase = "explore" /\ explored = Len(request.exploration)
  /\ selected' = Closure(selected)
  /\ unresolved' = Unresolved(selected')
  /\ IF "DEPENDENCY_CYCLE" \in unresolved'
       THEN order' = Ranked(selected') /\ phase' = "finish"
       ELSE order' = order /\ phase' = "order"
  /\ UNCHANGED <<request, uncovered, explored, extras, status>>

Ready == {c \in selected \ ToSet(order) : catalog[c].dependsOn \cap selected \subseteq ToSet(order)}

(* One turn of the loop of topologicalCapabilityOrder.                     *)
Order ==
  /\ phase = "order"
  /\ \/ Ready = {} /\ phase' = "finish" /\ order' = order
     \/ \E c \in Ready : IsFirst(c, Ready) /\ phase' = phase /\ order' = Append(order, c)
  /\ UNCHANGED <<request, uncovered, selected, explored, extras, unresolved, status>>

Finish ==
  /\ phase = "finish"
  /\ phase' = "done"
  /\ status' = IF unresolved # {} THEN "HOLD_UNRESOLVED"
               ELSE IF order = <<>> THEN "HOLD_NO_CANDIDATES" ELSE "READY"
  /\ UNCHANGED <<request, uncovered, selected, explored, extras, unresolved, order>>

PlanNext == Cover \/ CoverEnds \/ Explore \/ CloseDependencies \/ Order \/ Finish

PlanSpec == PlanInit /\ [][PlanNext]_planVars
-----------------------------------------------------------------------------
(* The tasks of the run that a ready plan is turned into: the candidates   *)
(* in the plan's order, and the integration (0), which waits for them all. *)
Tasks == Append(order, 0)

Demand(t) == IF t = 0 THEN request.integrationWorkers ELSE catalog[t].workers

Needs(t) == IF t = 0 THEN selected ELSE catalog[t].dependsOn \cap selected

(* normalizeSpec of fabric.js on these tasks: no id twice, between one     *)
(* worker and the limit for each, no unknown dependency, no circle.        *)
Accepts(tasks) ==
  /\ IsInjective(tasks)
  /\ \A t \in ToSet(tasks) : /\ Demand(t) >= 1 /\ Demand(t) <= request.workerLimit
                            /\ Needs(t) \subseteq ToSet(tasks) \ {t}
  /\ \A T \in SUBSET ToSet(tasks) : T # {} => \E t \in T : Needs(t) \cap T = {}

(* What becomes of a ready plan.  It keeps to its number of candidates,    *)
(* leaves no selected one out, and puts each after everything it depends   *)
(* on.  The scheduler accepts it if and only if the integration and every  *)
(* candidate ask for at least one worker: the planner lets a demand below  *)
(* that pass, and this is the one reason left to be refused.               *)
ReadyIsSchedulable ==
  status = "READY" =>
    /\ ToSet(order) = selected
    /\ Len(order) <= request.maxCandidates
    /\ \A i \in DOMAIN order : catalog[order[i]].dependsOn \subseteq {order[j] : j \in 1..(i - 1)}
    /\ Accepts(Tasks) <=> \A t \in ToSet(Tasks) : Demand(t) >= 1

(* However a capability got into the plan (coverage, exploration or as a   *)
(* dependency of others), every body area it targets exists, names it and  *)
(* grants the authority it keeps: a plan never widens a permission.        *)
NothingWidened ==
  \A c \in selected :
    /\ c \notin request.deniedCapabilities
    /\ \A a \in catalog[c].targetAreas :
         /\ a \in DOMAIN request.areas
         /\ c \in request.areas[a].allowedCapabilities
         /\ EffectiveAuthority(c) \subseteq request.areas[a].authorities

(* The greedy choice never costs a requirement: once covering is over a    *)
(* required token has a provider among the selected, which exploration and *)
(* closure keep, or there is no eligible capability that provides it.      *)
CoversWhatCanBe ==
  phase # "cover" => \A token \in request.required :
    \/ token \notin uncovered /\ \E c \in selected : token \in catalog[c].provides
    \/ token \in uncovered /\ \A c \in EligibleSet : token \notin catalog[c].provides

(* An exploration that asks for distinct pressures brings pressures that   *)
(* differ from those selected before and from each other.                  *)
ExtraPressures ==
  \A i \in DOMAIN extras : request.exploration[i].distinctPressure =>
    \A c \in extras[i].added : \A d \in (extras[i].before \cup extras[i].added) \ {c} :
      catalog[c].pressure # catalog[d].pressure
=============================================================================
