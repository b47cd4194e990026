---------------------------- MODULE MCRunSession ----------------------------
(***************************************************************************)
(* Small instances of RunSession.  The graph is a diamond whose task order *)
(* is not a topological order, and the demands make the scan skip a large  *)
(* task and start a smaller one behind it.                                 *)
(***************************************************************************)
EXTENDS PumpLoop, RunAbstraction

MCClass == {"workers", "memory"}
MCLimit == [c \in Class |-> IF c = "workers" THEN 2 ELSE 3]
Needs(memory) == [c \in Class |-> IF c = "workers" THEN 1 ELSE memory]

(* 2 and 3 are roots that do not fit together, 5 is a root that fits       *)
(* beside either; 4 needs 3, and 1, declared before all of them, needs 2   *)
(* and 4: when 3 fails, blocking takes two passes.                         *)
MCDeps == <<{2, 4}, {}, {}, {3}, {}>>
MCDemand == <<Needs(3), Needs(2), Needs(2), Needs(1), Needs(0)>>

(* A smaller graph for lanes of every kind.                                *)
SmallDeps == <<{3}, {}, {}>>
SmallDemand == <<Needs(1), Needs(2), Needs(2)>>

Result(s, p) == [status |-> s, payload |-> p]

(* Lanes as the documents and tests show them; HELD stands for any status  *)
(* of a lane's own.                                                        *)
PlainLanes == {Result(s, "json") : s \in {"COMPLETED", "HELD", "FAILED"}}

(* Lanes that return anything JavaScript lets them return.                 *)
AnyLanes ==
  {Result(s, p) : s \in {"COMPLETED", "", "PENDING", "RUNNING", "CANCELLED", "FAILED"},
                  p \in Payload}

CompletedLanes == {Result("COMPLETED", p) : p \in Payload}
=============================================================================
