-------------------------------- MODULE DagRun --------------------------------
(***************************************************************************)
(* What the scheduler promises to the caller of a run, without pumps,      *)
(* flags or receipts: tasks of a dependency graph are executed at most     *)
(* once each, never before their dependencies delivered, never more than   *)
(* the limits allow at one time; a task is given up only because it        *)
(* failed, because a dependency was given up, or because the run was       *)
(* stopped; a stopped run starts nothing; and a closed run is over.        *)
(***************************************************************************)
EXTENDS Resources

CONSTANT Deps

VARIABLES
  phase,     \* phase[t]: "waiting", "running", "done" or "dead"
  stopped,   \* the run was cancelled
  closed     \* the run has ended

absVars == <<phase, stopped, closed>>

In(ph, p) == {t \in Task : ph[t] = p}

Within(S) == \A c \in Class : Load(S)[c] <= Limit[c]

(* The moves of one task.  A waiting task may be started and may be given  *)
(* up; a running one ends; done and dead are for ever.                     *)
Move == {<<"waiting", "running">>, <<"waiting", "dead">>,
         <<"running", "done">>, <<"running", "dead">>}

AbsInit ==
  /\ phase \in [Task -> {"waiting", "done"}]
  /\ \A t \in In(phase, "done") : Deps[t] \subseteq In(phase, "done")
  /\ stopped = FALSE
  /\ closed = FALSE

(* One step of the run moves any number of tasks.                          *)
Advance ==
  /\ ~closed
  /\ phase' \in [Task -> {"waiting", "running", "done", "dead"}]
  /\ \A t \in Task :
       phase'[t] = phase[t] \/ <<phase[t], phase'[t]>> \in Move
  /\ \A t \in In(phase', "running") : Deps[t] \subseteq In(phase', "done")
  /\ \A t \in In(phase, "waiting") \cap In(phase', "dead") :
       stopped' \/ \E d \in Deps[t] : phase'[d] = "dead"
  /\ stopped' \in BOOLEAN
  /\ stopped => stopped'
  /\ stopped' => In(phase', "running") \subseteq In(phase, "running")
  /\ Within(In(phase', "running"))
  /\ closed' = (In(phase', "waiting") \cup In(phase', "running") = {})

AbsSpec == AbsInit /\ [][Advance]_absVars
===============================================================================
