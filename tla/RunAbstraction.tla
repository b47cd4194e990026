---------------------------- MODULE RunAbstraction ----------------------------
(***************************************************************************)
(* A session of src/src/fabric.js seen by its caller, who knows nothing of *)
(* pumps, receipts and checkpoints: each task is in one of the phases of   *)
(* DagRun.                                                                 *)
(***************************************************************************)
EXTENDS RunSession

Phase(t) ==
  CASE state[t] = "PENDING" -> "waiting"
    [] t \in active -> "running"
    [] IsDependencySatisfied(state[t]) -> "done"
    [] OTHER -> "dead"

Abs == INSTANCE DagRun WITH phase <- [t \in Task |-> Phase(t)],
                            stopped <- cancelled, closed <- finalized

(* A session implements the abstract run: every handler is a step of it or *)
(* a stutter, and a restored session starts like an abstract one.          *)
ImplementsDagRun == Abs!AbsSpec
===============================================================================
