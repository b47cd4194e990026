---------------------------- MODULE CreationCycle ----------------------------
(***************************************************************************)
(* A creation cycle (src/src/creation-fabric.js): candidate work contracts *)
(* as scheduler tasks on clones of the protected body, an integration task *)
(* that depends on all of them, a body plan, and a host that owns the      *)
(* protected body, may write it at any time, and may commit the body plan. *)
(* The scheduler is RunSession: tasks 1..N-1 are the candidates, N is the  *)
(* integration.  Lanes of the cycle deliver COMPLETED and JSON values, or  *)
(* throw; a failed candidate is delivered like any other.  What a work     *)
(* returned for contradictions becomes its receipt's, a list or not.       *)
(***************************************************************************)
EXTENDS RunSession, CloneBody

CONSTANTS
  CloneWork,    \* CloneWork[t]: what the work of candidate t may come to
  Source,       \* contents the cycle, or the one it resumes, may start from
  HostWrite,    \* contents the host may write meanwhile
  Requirements, \* of the integration and of the body
  Policy,       \* conflictPolicy of the integration
  MaxWrites     \* bound on the host's writes

Candidate == 1..(N - 1)
Delivered == [status |-> "COMPLETED", payload |-> "json"]
Misreported == [status |-> "COMPLETED", payload |-> "misshapen"]
CycleRef == "cycle"
OtherRef == "other"

(* What the lane of a candidate returns for a work, or for its candidate.  *)
ReportOf(o) == IF o.listed THEN Delivered ELSE Misreported

ASSUME CreationAssumption ==
  /\ N >= 2
  /\ LaneResult = {Delivered} \cup UNION {{ReportOf(o) : o \in CloneWork[t]} : t \in Candidate}
  /\ Deps[N] = Candidate /\ \A t \in Candidate : N \notin Deps[t]
  /\ Source \subseteq JsonState /\ HostWrite \subseteq JsonState
  /\ \A t \in Candidate : \A o \in CloneWork[t] : o.after \in JsonState
  /\ MaxWrites \in Nat

VARIABLES
  protected,  \* {content} of the body, {} when it cannot be hashed
  bodyRef,    \* stateRef the host knows the body by
  source,     \* content the cycle cloned at its start
  clones,     \* outputs of the tasks, as sets of at most one
  receipt,    \* creation receipt, a set of at most one
  writes      \* number of writes by the host

cycleOnly == <<protected, bodyRef, source, clones, receipt, writes>>
cycleVars == <<vars, cycleOnly>>
-----------------------------------------------------------------------------
WorkOf(t, from) ==
  {CloneCandidate(from, CycleRef, o, CloneStatus(o)) : o \in CloneWork[t]}

Candidates(outs) == [t \in Candidate |-> CHOOSE c \in outs[t] : TRUE]

IntegrationsOf(outs, from, tests) ==
  Integration(from, CycleRef, Candidates(outs), Requirements, Policy, tests, TRUE)

(* Outputs that a checkpoint restores to the tasks of R: each candidate's  *)
(* from some earlier cycle, the integration of them from one more.         *)
RestoredWorks(R) ==
  {made \in [Candidate \cap R -> UNION {WorkOf(t, from) : t \in Candidate, from \in Source}] :
     \A t \in Candidate \cap R : \E from \in Source : made[t] \in WorkOf(t, from)}

RestoredOutputs(R, made) == [t \in Candidate |-> IF t \in R THEN {made[t]} ELSE {}]

RestoredIntegrations(R, outs) ==
  IF N \in R
    THEN {{i} : i \in UNION {IntegrationsOf(outs, from, tests) :
                        from \in Source, tests \in {"none", "failed", "passed"}}}
    ELSE {{}}

(* A new cycle, or one resumed from a checkpoint of an earlier cycle: the  *)
(* checkpoint binds the stateRef, so what it restores may have been made   *)
(* from other content, and each task in a different earlier cycle.         *)
CycleInit ==
  /\ source \in Source
  /\ protected = {source} /\ bodyRef = CycleRef
  /\ receipt = {} /\ writes = 0
  /\ \E R \in SUBSET Task :
       /\ DownwardClosed(R) /\ StartFrom(R)
       /\ \E made \in RestoredWorks(R) :
            /\ \A t \in R : outputs[t] = (IF t = N THEN Delivered ELSE ReportOf(made[t])).payload
            /\ \E last \in RestoredIntegrations(R, RestoredOutputs(R, made)) :
                 clones = [t \in Task |-> IF t = N THEN last ELSE RestoredOutputs(R, made)[t]]

(* pause, resume and cancel are handed to the scheduler's session.         *)
SchedulerStep ==
  /\ FirstPump \/ Pause \/ Resume \/ Cancel
  /\ UNCHANGED cycleOnly

(* A lane of the cycle throws: aborted, or because the clone left the body *)
(* grammar, or because the integration refused its own plan.               *)
LaneThrows ==
  /\ \E t \in Task : FailTask(t)
  /\ UNCHANGED cycleOnly

CandidateDelivers(t) ==
  /\ \E c \in WorkOf(t, source) :
       CompleteTask(t, ReportOf(c)) /\ clones' = [clones EXCEPT ![t] = {c}]
  /\ UNCHANGED <<protected, bodyRef, source, receipt, writes>>

IntegrationDelivers ==
  /\ CompleteTask(N, Delivered)
  /\ \E tests \in {"none", "failed", "passed"} :
       \E i \in IntegrationsOf(clones, source, tests) :
         clones' = [clones EXCEPT ![N] = {i}]
  /\ UNCHANGED <<protected, bodyRef, source, receipt, writes>>

Drifted == protected # {source}

(* The body plan of a cycle whose integration produced a candidate: {} if  *)
(* createBodyCommitPlan throws, which it does for an unhashable body.      *)
CyclePlans(cand) ==
  {BodyPlan(v, CycleRef, cand, Requirements, "hold-run") : v \in protected}

IntegrationCandidate == UNION {i.candidate : i \in clones[N]}

(* Mutant of CreationStatus: drift is asked about last.                    *)
CreationStatusDriftLast(plans) ==
  IF result = "CANCELLED" THEN "CANCELLED"
  ELSE IF result = "COMPLETED_WITH_FAILURES" THEN "ORCHESTRATION_FAILURES"
  ELSE IF clones[N] = {} THEN "NO_INTEGRATION_RESULT"
  ELSE IF IntegrationCandidate = {} THEN "HELD_INTEGRATION"
  ELSE IF \E c \in IntegrationCandidate : c.status # "VALID_IN_HARNESS" THEN "INTEGRATION_TEST_FAIL"
  ELSE IF plans # {} THEN "READY_FOR_EXPLICIT_COMMIT"
  ELSE IF Drifted THEN "HOLD_PROTECTED_STATE_DRIFT"
  ELSE "HOLD_BODY_PLAN"

CreationStatus(plans) ==
  IF result = "CANCELLED" THEN "CANCELLED"
  ELSE IF result = "COMPLETED_WITH_FAILURES" THEN "ORCHESTRATION_FAILURES"
  ELSE IF clones[N] = {} THEN "NO_INTEGRATION_RESULT"
  ELSE IF IntegrationCandidate = {} THEN "HELD_INTEGRATION"
  ELSE IF \E c \in IntegrationCandidate : c.status # "VALID_IN_HARNESS" THEN "INTEGRATION_TEST_FAIL"
  ELSE IF plans = {} THEN "HOLD_BODY_PLAN_ERROR"
  ELSE IF Drifted THEN "HOLD_PROTECTED_STATE_DRIFT"
  ELSE IF \E plan \in plans : plan.mergePlan.commitAllowed THEN "READY_FOR_EXPLICIT_COMMIT"
  ELSE "HOLD_BODY_PLAN"

(* finalizeCreationCycle, in a microtask after the run's result resolved.  *)
FinishCycle ==
  /\ result # Unresolved /\ receipt = {}
  /\ LET plans == UNION {CyclePlans(c) : c \in IntegrationCandidate}
     IN  receipt' = {[status |-> CreationStatus(plans), bodyPlan |-> plans,
                      drifted |-> Drifted]}
  /\ UNCHANGED <<vars, protected, bodyRef, source, clones, writes>>

(* The host writes its body, with or without a new stateRef; what it       *)
(* writes may be something that cannot be hashed.                          *)
HostWrites ==
  /\ writes < MaxWrites
  /\ writes' = writes + 1
  /\ protected' \in {{v} : v \in HostWrite} \cup {{}}
  /\ bodyRef' \in {bodyRef, OtherRef}
  /\ UNCHANGED <<vars, source, clones, receipt>>

(* The host commits the body plan of the receipt, whatever its status,     *)
(* names the result as it likes, and adopts it.                            *)
CommitBody ==
  /\ \E r \in receipt : \E plan \in r.bodyPlan : \E v \in protected :
       \E after \in CommitBodyPlan(v, bodyRef, plan) : protected' = {after}
  /\ bodyRef' \in {CycleRef, OtherRef}
  /\ UNCHANGED <<vars, source, clones, receipt, writes>>

CycleNext ==
  \/ SchedulerStep \/ LaneThrows \/ IntegrationDelivers
  \/ \E t \in Candidate : CandidateDelivers(t)
  \/ FinishCycle \/ HostWrites \/ CommitBody

CycleSpec == CycleInit /\ [][CycleNext]_cycleVars
-----------------------------------------------------------------------------
(* READY_FOR_EXPLICIT_COMMIT keeps its word: as long as the host left the  *)
(* content and the stateRef alone, the explicit commit is not refused.     *)
ReadyIsCommittable ==
  \A r \in receipt : \A plan \in r.bodyPlan :
    /\ r.status = "READY_FOR_EXPLICIT_COMMIT"
    /\ protected = {plan.source} /\ bodyRef = plan.sourceRef
    => CommitBodyPlan(plan.source, bodyRef, plan) # {}

(* An explicit commit of the body plan leaves exactly the content that the *)
(* integration tests passed on, whenever it comes and whatever the host    *)
(* wrote between the cycle's start, its receipt and the commit.            *)
CommitsWhatWasTested ==
  [][CommitBody => \E c \in IntegrationCandidate :
       c.tests = "passed" /\ protected' = {c.after}]_cycleVars

(* Whatever an explicit commit changes was proposed by a candidate that    *)
(* completed, passed its tests, was granted the merge authority, cited     *)
(* evidence, and worked on a clone of this very content.                   *)
Proven(c, v) ==
  /\ c.status = "COMPLETED" /\ c.tests = "passed"
  /\ c.authorised /\ c.evidenced /\ c.source = v

OnlyProvenWorkLands ==
  [][CommitBody =>
       \A v \in protected : \A w \in protected' : \A d \in Diff(v, w) :
         \E t \in Candidate : \E c \in clones[t] :
           Proven(c, v) /\ \E x \in c.changes : Overlap(x.path, d.path)]_cycleVars
==============================================================================
