------------------------------ MODULE Resources ------------------------------
(***************************************************************************)
(* Resource classes, lane demands and run limits of the bounded scheduler  *)
(* (src/src/fabric.js).  A task is identified by its position in           *)
(* spec.tasks, the order in which the scheduler scans it.  Amounts are     *)
(* natural numbers: the code accepts any finite non-negative JavaScript    *)
(* number, and sums of fractions are outside this model.                   *)
(***************************************************************************)
EXTENDS Integers

CONSTANTS
  N,        \* number of tasks of the run
  Class,    \* resource classes that the run declares, "workers" among them
  Demand,   \* Demand[t][c]: amount of class c that task t declares, 0 if none
  Limit     \* Limit[c]: limit of class c for the run

Task == 1..N

(* A task that asks for more than there is, or for a class that the run    *)
(* does not declare, is refused.                                           *)
DemandsFit == \A t \in Task, c \in Class : Demand[t][c] <= Limit[c]

(* What normalizeSpec and validateResourceMap enforce before a run exists. *)
ASSUME ResourceAssumption ==
  /\ N \in Nat
  /\ Limit \in [Class -> Nat]
  /\ Demand \in [Task -> [Class -> Nat]]
  /\ DemandsFit

(* The prefix sums of a function on 1..N, as a recursive function. *)
Prefix(w) ==
  LET sum[i \in 0..N] == IF i = 0 THEN 0 ELSE sum[i - 1] + w[i]
  IN  sum

(* What class c holds when exactly the tasks of S are charged for. *)
Charge(S, c) == [t \in Task |-> IF t \in S THEN Demand[t][c] ELSE 0]

Load(S) == [c \in Class |-> Prefix(Charge(S, c))[N]]

(* resourcesFit, addResources and subtractResources of fabric.js. *)
ResourcesFit(current, t) ==
  \A c \in Class : current[c] + Demand[t][c] <= Limit[c]

AddResources(current, extra) == [c \in Class |-> current[c] + extra[c]]

SubtractResources(current, t) ==
  [c \in Class |-> IF current[c] >= Demand[t][c]
                     THEN current[c] - Demand[t][c] ELSE 0]
==============================================================================
