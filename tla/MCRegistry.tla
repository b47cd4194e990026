----------------------------- MODULE MCRegistry -----------------------------
(***************************************************************************)
(* Instances for the registry and the Ignition adapter.  According to      *)
(* which advertisement arrives first, 3 depends on nothing or closes a     *)
(* cycle with 1 and 2, and 1 has the empty string among its dependencies   *)
(* or has not; 4 is advertised with resources that make every later        *)
(* snapshot throw.                                                         *)
(***************************************************************************)
EXTENDS IgnitionRuntime, TLC

CONSTANTS f, g   \* two functions

Capability(id, ref, deps) ==
  [id |-> id, executorRef |-> ref, testRefs |-> {"t"}, dependsOn |-> deps,
   blockedKey |-> FALSE, emptyDependency |-> FALSE]

BodyMap(allowed) == [id |-> "body", allowedCapabilities |-> allowed]

Valid(m) == [valid |-> TRUE, manifest |-> m]
Invalid(m) == [valid |-> FALSE, manifest |-> m]

Advertisement(caps, maps) == [capabilities |-> caps, bodyMaps |-> maps]

(* Bundles with an invalid item, with an item twice, with two that differ, *)
(* and with items that contradict those of other bundles.                  *)
MCBundle ==
  {Advertisement(<<Valid(Capability(1, "e1", {2})), Invalid(Capability(2, "e1", {}))>>,
                 <<Valid(BodyMap({1, 4}))>>),
   Advertisement(<<Valid([Capability(1, "e2", {2}) EXCEPT !.emptyDependency = TRUE])>>,
                 <<Valid(BodyMap({2}))>>),
   Advertisement(<<Valid(Capability(2, "e1", {3})), Valid(Capability(2, "e1", {3})),
                   Valid(Capability(3, "e2", {1})), Valid(Capability(3, "e2", {}))>>, <<>>),
   Advertisement(<<Valid(Capability(3, "e2", {}))>>, <<>>),
   Advertisement(<<Valid(Capability(3, "e2", {1}))>>, <<>>),
   Advertisement(<<Valid([Capability(4, "e2", {}) EXCEPT !.blockedKey = TRUE])>>, <<>>)}

MCRequest ==
  {[bodyMapId |-> "body", capabilityIds |-> {}],
   [bodyMapId |-> "body", capabilityIds |-> {{2}}]}

(* Both executors, or one of them under another capability id.             *)
MCIgnitionSet == {"e1" :> "c1" @@ "e2" :> "c2", "e1" :> "c2"}

(* Neither the functions of the hosts nor the lanes are told apart.        *)
Alike == Permutations({f, g}) \cup Permutations(Lane)
=============================================================================
