------------------------------- MODULE PumpLoop -------------------------------
(***************************************************************************)
(* The loops of _pump and _propagateBlockedDependencies as the code runs   *)
(* them, task by task in the order of the run's specification, and the     *)
(* check that RunSession's equations describe their outcome and no other.  *)
(***************************************************************************)
EXTENDS RunSession

(* A task of a pass of _propagateBlockedDependencies.                      *)
BlockOne(st, t) ==
  IF st[t] = "PENDING" /\ \E d \in Deps[t] : IsDependencyFailed(st[d])
    THEN [st EXCEPT ![t] = "BLOCKED_DEPENDENCY"] ELSE st

BlockPass(st) ==
  LET after[t \in 0..N] == IF t = 0 THEN st ELSE BlockOne(after[t - 1], t)
  IN  after[N]

(* The do-while loop.  Every pass but the last blocks something.           *)
BlockLoop(st) ==
  LET after[n \in 0..N] == IF n = 0 THEN st ELSE BlockPass(after[n - 1])
  IN  after[N]

(* A task of a pass of the loop that launches; used grows as it goes.      *)
CanLaunch(scan, t) == Runnable(scan.state, t) /\ ResourcesFit(scan.used, t)

LaunchOne(scan, t) ==
  IF CanLaunch(scan, t)
    THEN [state |-> [scan.state EXCEPT ![t] = "RUNNING"],
          used |-> AddResources(scan.used, Demand[t])]
    ELSE scan

LaunchPass(scan) ==
  LET after[t \in 0..N] == IF t = 0 THEN scan ELSE LaunchOne(after[t - 1], t)
  IN  after[N]

(* The do-while loop: a pass, and another one while some task could start. *)
(* The code asks for a launch in the pass as well; after a pass without    *)
(* one nothing could start (PassLeavesNone in RunSessionProofs).           *)
LaunchMore(scan) == IF \E t \in Task : CanLaunch(scan, t) THEN LaunchPass(scan) ELSE scan

LaunchLoop(scan) ==
  LET after[n \in 0..N] == IF n = 0 THEN LaunchPass(scan) ELSE LaunchMore(after[n - 1])
  IN  after[N]

(* What _pump may find when a handler enters it from here: the state as it *)
(* is, or the state after a lane delivered or failed and left.             *)
Entered ==
  {[state |-> state, used |-> currentResources]}
  \cup {[state |-> [state EXCEPT ![t] = s], used |-> Released(t)] :
          t \in active, s \in {"COMPLETED", "FAILED"}}

(* Whatever a handler leaves behind, the blocking equation has exactly one *)
(* solution, what the propagation loop computes, and so has the launch     *)
(* equation: one pass of the scan suffices, and neither answer depends on  *)
(* the order of the declared tasks being topological.                      *)
LoopsAgree ==
  \A entered \in Entered :
    LET settled == BlockLoop(entered.state)
        after == LaunchLoop([state |-> settled, used |-> entered.used])
    IN  /\ {B \in SUBSET Task : IsBlockedSet(entered.state, B)}
             = {{t \in Task : settled[t] # entered.state[t]}}
        /\ {L \in SUBSET Task : IsLaunchSet(settled, entered.used, L)}
             = {{t \in Task : after.state[t] # settled[t]}}
        /\ after.used = Load({t \in Task : after.state[t] = "RUNNING"})
===============================================================================
