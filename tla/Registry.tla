------------------------------ MODULE Registry ------------------------------
(***************************************************************************)
(* The capability registry of src/src/registry.js: portable manifests that *)
(* bundles advertise, functions that the host binds to the refs manifests  *)
(* name, and the resolutions that hosts take from both and go on using     *)
(* while others ingest and bind.  Every method runs to its end, so each is *)
(* one action; a call that throws changes nothing unless it says so below. *)
(***************************************************************************)
EXTENDS Naturals, FiniteSets, SequencesExt

CONSTANTS
  MaxId,        \* number of ids that manifests may have or depend on
  Bundle,       \* bundles that are ingested
  Function,     \* functions that hosts bind
  BindingRef,   \* what they call the bindings
  Request,      \* what hosts resolve: a body map and, if they say, capabilities
  MaxHeld       \* bound on the resolutions that hosts hold

(* Ids, numbered in the order in which the code sorts them.                *)
CapabilityId == 1..MaxId

(* What the normalising functions leave of a manifest.  Its manifestId is  *)
(* the hash of all of it, so here a manifest is its own manifestId.  The   *)
(* resources may have a key that cloneJson refuses: validateResources does *)
(* not look at keys.  Nor does anything refuse the empty string, which is  *)
(* nobody's id, as a dependency: kept apart here from those that are ids.  *)
IsCapability(m) ==
  /\ m.id \in CapabilityId /\ m.dependsOn \subseteq CapabilityId
  /\ m.testRefs # {} /\ m.blockedKey \in BOOLEAN /\ m.emptyDependency \in BOOLEAN

(* Of the areas of a body map, what they allow taken together.             *)
IsBodyMap(m) == m.allowedCapabilities \subseteq CapabilityId /\ m.allowedCapabilities # {}

(* An item is valid if the normalising function lets it through, a         *)
(* declared manifestId that is not the hash being one reason not to.       *)
ASSUME RegistryAssumption ==
  /\ MaxId \in Nat /\ MaxHeld \in Nat
  /\ \A bundle \in Bundle :
       /\ \A raw \in Range(bundle.capabilities) :
            raw.valid \in BOOLEAN /\ IsCapability(raw.manifest)
       /\ \A raw \in Range(bundle.bodyMaps) :
            raw.valid \in BOOLEAN /\ IsBodyMap(raw.manifest)
  /\ \A request \in Request : UNION request.capabilityIds \subseteq CapabilityId

VARIABLES
  capabilities, \* Map from ids to manifests
  bodyMaps,     \* the same of body maps
  executors,    \* Map from executorRefs to a function and its bindingRef
  tests,        \* Map from testRefs to a function and its bindingRef
  held          \* resolutions that hosts hold

registryVars == <<capabilities, bodyMaps, executors, tests, held>>

NoEntries == [id \in {} |-> {}]

(* A map with the entries of another for what it has none of: @@, written  *)
(* out for the provers.                                                    *)
Extended(map, more) ==
  [x \in DOMAIN map \cup DOMAIN more |-> IF x \in DOMAIN map THEN map[x] ELSE more[x]]

RegistryInit ==
  /\ capabilities = NoEntries /\ bodyMaps = NoEntries
  /\ executors = NoEntries /\ tests = NoEntries
  /\ held = {}
-----------------------------------------------------------------------------
(* ingestManifestSet: an id enters the store when the items of the set     *)
(* that have it agree and the store does not know it.  Everything else is  *)
(* in the receipt only.                                                    *)
Advertised(items, id) ==
  {raw.manifest : raw \in {r \in Range(items) : r.valid /\ r.manifest.id = id}}

AdvertisedIds(items) == {raw.manifest.id : raw \in {r \in Range(items) : r.valid}}

Agreed(items) == {id \in AdvertisedIds(items) : Cardinality(Advertised(items, id)) = 1}

Accepted(items) ==
  [id \in Agreed(items) |-> CHOOSE m \in Advertised(items, id) : TRUE]

(* Mutant of IngestManifestSet: the latest writer wins.                    *)
IngestReplacing(items, store) == Extended(Accepted(items), store)

IngestManifestSet(items, store) == Extended(store, Accepted(items))

(* snapshot copies every manifest with cloneJson, which throws at a key it *)
(* refuses; toBundle and runtimeAvailability do so too.                    *)
SnapshotWorks == \A id \in DOMAIN capabilities : ~capabilities[id].blockedKey

(* ingestBundle takes a snapshot before and one after.  If the second one  *)
(* throws there is no receipt, but the manifests stay.                     *)
IngestBundle(bundle) ==
  /\ SnapshotWorks
  /\ capabilities' = IngestManifestSet(bundle.capabilities, capabilities)
  /\ bodyMaps' = IngestManifestSet(bundle.bodyMaps, bodyMaps)
  /\ UNCHANGED <<executors, tests, held>>

(* Mutant of Bindable: a binding is replaced.                              *)
BindableAnew(bindings, ref, f) == TRUE

(* A ref that is bound is bound again only to the same function.           *)
Bindable(bindings, ref, f) ==
  ref \in DOMAIN bindings => bindings[ref].function = f

Bound(bindings, ref, f, bindingRef) ==
  [x \in DOMAIN bindings \cup {ref} |->
     IF x = ref THEN [function |-> f, bindingRef |-> bindingRef] ELSE bindings[x]]

BindExecutor(ref, work, bindingRef) ==
  /\ Bindable(executors, ref, work)
  /\ executors' = Bound(executors, ref, work, bindingRef)
  /\ UNCHANGED <<capabilities, bodyMaps, tests, held>>

BindTest(ref, test, bindingRef) ==
  /\ Bindable(tests, ref, test)
  /\ tests' = Bound(tests, ref, test, bindingRef)
  /\ UNCHANGED <<capabilities, bodyMaps, executors, held>>
-----------------------------------------------------------------------------
(* dependencyClosureIds, round by round.                                   *)
DependsOn(id) == IF id \in DOMAIN capabilities THEN capabilities[id].dependsOn ELSE {}

DependencyClosureIds(seeds) ==
  LET after[n \in 0..MaxId] ==
        IF n = 0 THEN seeds
        ELSE after[n - 1] \cup UNION {DependsOn(id) : id \in after[n - 1]}
  IN  after[MaxId]

(* The reasons, other than its dependencies, why a capability cannot be    *)
(* resolved.                                                               *)
OwnReasons(id) ==
  IF id \notin DOMAIN capabilities THEN {<<"MISSING_CAPABILITY_MANIFEST">>}
  ELSE {<<"MISSING_EXECUTOR_BINDING", ref>> :
          ref \in {capabilities[id].executorRef} \ DOMAIN executors}
       \cup {<<"MISSING_TEST_BINDING", ref>> :
               ref \in capabilities[id].testRefs \ DOMAIN tests}

(* The dependencies for whose lack resolve drops a capability.  It looks   *)
(* for the first one missing; the empty string always is, sorts before all *)
(* others and, being falsy, is taken for none.                             *)
Heeded(id) ==
  IF id \in DOMAIN capabilities /\ capabilities[id].emptyDependency THEN {} ELSE DependsOn(id)

(* One id of one pass of the do-while loop of resolve: it is dropped for   *)
(* the first of its dependencies that is not, or no longer, bindable.      *)
DropDependent(scan, id) ==
  LET missing == Heeded(id) \ scan.bindable
  IN  IF id \notin scan.bindable \/ missing = {} THEN scan
      ELSE [bindable |-> scan.bindable \ {id},
            dropped |-> Extended(scan.dropped,
                                 [x \in {id} |-> {<<"DEPENDENCY_UNAVAILABLE", Min(missing)>>}])]

(* A pass, over the ids in order.                                          *)
Pass(scan) ==
  LET after[id \in 0..MaxId] ==
        IF id = 0 THEN scan ELSE DropDependent(after[id - 1], id)
  IN  after[MaxId]

NothingDropped(bindable) == [bindable |-> bindable, dropped |-> NoEntries]

(* Mutant of DropDependents: one pass only.                                *)
DropDependentsOnce(bindable) == Pass(NothingDropped(bindable))

(* The whole loop.  Every pass but the last drops something.               *)
DropDependents(bindable) ==
  LET after[n \in 0..Cardinality(bindable)] ==
        IF n = 0 THEN NothingDropped(bindable) ELSE Pass(after[n - 1])
  IN  after[Cardinality(bindable)]

Requested(request) ==
  IF request.capabilityIds # {} THEN UNION request.capabilityIds
  ELSE bodyMaps[request.bodyMapId].allowedCapabilities

(* materializeCapability: what a resolution hands out, functions included. *)
Materialized(id) ==
  [manifest |-> capabilities[id],
   work |-> executors[capabilities[id].executorRef].function,
   tests |-> [ref \in capabilities[id].testRefs |-> tests[ref].function]]

(* What resolve returns. *)
Resolution(request) ==
  LET closure == DependencyClosureIds(Requested(request))
      own == {id \in closure : OwnReasons(id) # {}}
      scan == DropDependents(closure \ own)
  IN  [request |-> request,
       bodyMap |-> bodyMaps[request.bodyMapId],
       capabilities |-> [id \in scan.bindable |-> Materialized(id)],
       unavailable |-> Extended([id \in own |-> OwnReasons(id)], scan.dropped)]

Resolvable(request) == request.bodyMapId \in DOMAIN bodyMaps /\ SnapshotWorks

Resolve(request) ==
  /\ Resolvable(request)
  /\ held' = held \cup {Resolution(request)}
  /\ Cardinality(held') <= MaxHeld
  /\ UNCHANGED <<capabilities, bodyMaps, executors, tests>>

(* The refs a host binds: those that some manifest could name.             *)
Manifests == UNION {{b.capabilities[i].manifest : i \in DOMAIN b.capabilities} : b \in Bundle}
ExecutorRef == {m.executorRef : m \in Manifests}
TestRef == UNION {m.testRefs : m \in Manifests}

RegistryNext ==
  \/ \E bundle \in Bundle : IngestBundle(bundle)
  \/ \E ref \in ExecutorRef, f \in Function, b \in BindingRef : BindExecutor(ref, f, b)
  \/ \E ref \in TestRef, f \in Function, b \in BindingRef : BindTest(ref, f, b)
  \/ \E request \in Request : Resolve(request)

RegistrySpec == RegistryInit /\ [][RegistryNext]_registryVars
-----------------------------------------------------------------------------
(* Can all of S be used together: known, bound, and in need of nothing     *)
(* that is not in S, as far as resolve heeds it.                           *)
Usable(S) == \A id \in S : OwnReasons(id) = {} /\ Heeded(id) \subseteq S

(* Reached from what was requested, along any path of dependencies.        *)
Reachable(seeds) ==
  CHOOSE S \in SUBSET CapabilityId :
    /\ seeds \subseteq S /\ \A id \in S : DependsOn(id) \subseteq S
    /\ \A T \in SUBSET CapabilityId :
         seeds \subseteq T /\ (\A id \in T : DependsOn(id) \subseteq T) => S \subseteq T

(* resolve decides exactly: for every request, in every registry, cyclic   *)
(* ones included, it resolves the largest usable part of what the request  *)
(* reaches, and of the rest it says why, each time with a cause that is    *)
(* itself unbound, unknown or reported.  Heeded makes an exception: what   *)
(* names the empty string is resolved though its dependencies are not.     *)
ResolveIsExact ==
  \A request \in Request : Resolvable(request) =>
    LET r == Resolution(request)
        reach == Reachable(Requested(request))
        cannot == DOMAIN r.unavailable
    IN  /\ DOMAIN r.capabilities = UNION {S \in SUBSET reach : Usable(S)}
        /\ cannot = reach \ DOMAIN r.capabilities
        /\ \A id \in cannot : r.unavailable[id] # {}
        /\ \A id \in cannot : \A reason \in r.unavailable[id] :
             \/ reason \in OwnReasons(id)
             \/ reason[1] = "DEPENDENCY_UNAVAILABLE" /\ reason[2] \in Heeded(id) \cap cannot

(* A resolution that somebody holds never goes stale: whatever is ingested *)
(* and bound meanwhile, its body map is the registry's, and resolving      *)
(* again gives every capability of it with the same manifest, the same     *)
(* work and the same tests.                                                *)
ResolutionsStayTrue ==
  \A r \in held :
    /\ bodyMaps[r.request.bodyMapId] = r.bodyMap
    /\ LET now == Resolution(r.request).capabilities
       IN  \A id \in DOMAIN r.capabilities :
             id \in DOMAIN now /\ now[id] = r.capabilities[id]
=============================================================================
