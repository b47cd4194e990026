--------------------------- MODULE MCDecomposition ---------------------------
(***************************************************************************)
(* Instances for Decomposition: three capabilities over two tokens, whose  *)
(* provisions and dependencies take all shapes, cycles included, and which *)
(* may be flawed in one way each.  A demand of no worker passes the        *)
(* planner; so does one of the integration.                                *)
(***************************************************************************)
EXTENDS Decomposition

Both == {"WRITE-SANDBOX", "COMMIT-CANDIDATE"}
MCAuthority == Both \cup {"READ"}

Sound(provides, dependsOn, pressure, priority) ==
  [provides |-> provides, dependsOn |-> dependsOn, pressure |-> pressure,
   priority |-> priority, targetAreas |-> {"a1"}, authority |-> Both \cup {"READ"},
   workers |-> 1, evidenced |-> TRUE, tested |-> TRUE]

Flawed(k) == {k, [k EXCEPT !.workers = 3], [k EXCEPT !.targetAreas = {"a1", "a2"}]}

Idle(k) == [k EXCEPT !.workers = 0]

Elsewhere(k) == [k EXCEPT !.targetAreas = {"a1", "a3"}]

Goal(capabilities, exploration, maxCandidates) ==
  [catalog |-> capabilities, required |-> {"t1", "t2"}, exploration |-> exploration,
   areas |-> [a \in {"a1", "a2"} |->
     [allowedCapabilities |-> IF a = "a1" THEN {1, 2, 3} ELSE {1, 3},
      authorities |-> IF a = "a1" THEN Both ELSE {"WRITE-SANDBOX"}]],
   allowedAuthorities |-> Both, allowedCapabilities |-> {1, 2, 3},
   deniedCapabilities |-> {}, requireCommitCandidate |-> FALSE, workerLimit |-> 2,
   integrationWorkers |-> 1, maxCandidates |-> maxCandidates, integrationTested |-> TRUE]

(* A goal may also allow two candidates only, deny one of the capabilities *)
(* or let the integration ask for nothing.                                 *)
Variant(g, v) ==
  CASE v = "plain" -> g
    [] v = "small" -> [g EXCEPT !.maxCandidates = 2]
    [] v = "denied" -> [g EXCEPT !.deniedCapabilities = {3}]
    [] v = "idle" -> [g EXCEPT !.integrationWorkers = 0]

Wish(token, n, distinct) == <<[token |-> token, extraProviders |-> n, distinctPressure |-> distinct]>>

Provisions == {{"t1"}, {"t2"}, {"t1", "t2"}}

MCRequest ==
  {Variant(Goal(<<a, b, c>>, Wish("t1", 1, TRUE), 3), v) :
     a \in Flawed(Sound({"t1"}, {2}, "p", 0)) \cup {Elsewhere(Sound({"t1"}, {}, "p", 2)),
          Idle(Sound({"t1"}, {}, "p", 0)), Sound({"t1"}, {}, "p", 0), Sound({"t1"}, {3}, "p", 1)},
     b \in UNION {Flawed(Sound(P, D, "p", 0)) : P \in Provisions, D \in {{}, {1}, {3}}},
     c \in UNION {Flawed(Sound(P, D, q, 1)) : P \in Provisions, D \in {{}, {1}, {2}}, q \in {"p", "q"}},
     v \in {"plain", "small", "denied", "idle"}}

(* A goal with one requirement and a wish for two more providers.          *)
PressureRequest ==
  {[Goal(<<Sound({"t1", "t2"}, {}, "p", 1), Sound({"t1"}, {}, q, 0), Sound({"t1"}, {}, r, 0)>>,
         Wish("t1", n, TRUE), 3) EXCEPT !.required = P] :
     n \in 0..2, q \in {"p", "q"}, r \in {"p", "q", "r"}, P \in SUBSET {"t1", "t2"}}
==============================================================================
