----------------------------- MODULE RunSession -----------------------------
(***************************************************************************)
(* One run of the bounded parallel scheduler: the class RunSession of      *)
(* src/src/fabric.js.  JavaScript runs each handler (the queued first      *)
(* pump, pause, resume, cancel, and the settlement of a lane's promise) to *)
(* its end, so each is one action; what interleaves is their order.  A     *)
(* refused call (pause, resume or cancel of a run that is over) changes    *)
(* nothing and is a stuttering step.                                       *)
(***************************************************************************)
EXTENDS Resources

CONSTANTS
  Deps,        \* Deps[t]: the dependencies of task t
  LaneResult   \* what run(context) of a lane may resolve to, see below

(* A lane result is abstracted to the status it asks for (COMPLETED when   *)
(* the result names none) and to what can be done with its values:         *)
(*   json             JSON, and contradictions and proposedChanges, where  *)
(*                    they are given, are lists                            *)
(*   misshapen        JSON, but _finalize cannot go through one of those   *)
(*                    two: contradictions is a string or an object, say    *)
(*   clonable         structuredClone accepts them, JSON.stringify does    *)
(*                    not (a BigInt, a cycle)                              *)
(*   unclonable_output, unclonable_field                                   *)
(*                    structuredClone refuses the output, or another field *)
(* normalizeLaneResult looks at no value but to clone it.                  *)
Payload == {"json", "misshapen", "clonable", "unclonable_output", "unclonable_field"}
Storable == {"json", "misshapen", "clonable"}

SchedulerState == {"PENDING", "RUNNING", "COMPLETED", "FAILED",
                   "BLOCKED_DEPENDENCY", "CANCELLED", "COMPLETED_AFTER_CANCEL"}
TaskState == SchedulerState \cup {r.status : r \in LaneResult}
RunStatus == {"COMPLETED", "COMPLETED_WITH_FAILURES", "CANCELLED"}
NoOutput  == "no output"
Unresolved == "unresolved"

(* A receipt, by the status it records and what the rest of it is like.    *)
(* Those the scheduler writes itself hold lists.                           *)
Filed(s, p) == [status |-> s, payload |-> p]
FiledByPump(s) == Filed(s, "json")
Receipt == [status : TaskState, payload : Storable]
NoReceipt == Filed("no receipt", "json")

(* assertAcyclic, without its search: every set of tasks has one that      *)
(* depends on none of them.                                                *)
Acyclic == \A S \in SUBSET Task : S # {} => \E t \in S : Deps[t] \cap S = {}

(* normalizeSpec: dependencies name tasks of the run, and it has no cycle. *)
ASSUME DepsAssumption ==
  Deps \in [Task -> SUBSET Task] /\ Acyclic

(* A lane may ask for any status; NoReceipt only marks the lack of one.    *)
ASSUME LaneResultAssumption ==
  \A r \in LaneResult : /\ r.status \in STRING \ {NoReceipt.status}
                        /\ r.payload \in Payload

(* Lanes that use the status field only to report an outcome, and return   *)
(* JSON with lists where the scheduler's own receipts have lists: what the *)
(* documents and tests of the repository show.  The code asks for neither. *)
DisciplinedLanes ==
  \A r \in LaneResult :
    /\ r.payload = "json"
    /\ r.status \notin {"", "PENDING", "RUNNING", "CANCELLED",
                        "BLOCKED_DEPENDENCY", "COMPLETED_AFTER_CANCEL"}

VARIABLES
  state,             \* this.state: taskId -> status
  outputs,           \* this.outputs, abstracted to the payload stored
  receipts,          \* this.receipts, see Receipt
  active,            \* keys of this.active
  aborted,           \* active lanes whose AbortController was aborted
  currentResources,  \* this.currentResources
  paused, cancelled, finalized,
  result,            \* status that this.result resolved with
  pumpQueued         \* the constructor's queueMicrotask has not run yet

vars == <<state, outputs, receipts, active, aborted, currentResources,
          paused, cancelled, finalized, result, pumpQueued>>
-----------------------------------------------------------------------------
IsDependencyFailed(s) == s \in {"FAILED", "BLOCKED_DEPENDENCY", "CANCELLED"}

IsDependencySatisfied(s) ==
  s \notin {"", "PENDING", "RUNNING"} /\ ~IsDependencyFailed(s)

IsReusableState(s) == IsDependencySatisfied(s) /\ s # "COMPLETED_AFTER_CANCEL"

Pending(st) == {t \in Task : st[t] = "PENDING"}

(* Mutant of IsBlockedSet: a single pass instead of the fixpoint.          *)
IsBlockedOnce(st, B) ==
  \A t \in Task :
    t \in B <=> st[t] = "PENDING" /\ \E d \in Deps[t] : IsDependencyFailed(st[d])

(* _propagateBlockedDependencies, run to its fixpoint.  The graph has no   *)
(* cycle, so exactly one set satisfies the equivalence.                    *)
IsBlockedSet(st, B) ==
  \A t \in Task :
    t \in B <=> /\ st[t] = "PENDING"
                /\ \E d \in Deps[t] : IsDependencyFailed(st[d]) \/ d \in B

(* Mutant of Runnable: a dependency that merely runs is enough.            *)
RunnableEarly(st, t) ==
  st[t] = "PENDING" /\ \A d \in Deps[t] : st[d] # "PENDING" /\ ~IsDependencyFailed(st[d])

Runnable(st, t) ==
  st[t] = "PENDING" /\ \A d \in Deps[t] : IsDependencySatisfied(st[d])

(* Mutant of IsLaunchSet: the scan compares with what was in use before it. *)
IsLaunchSetStale(st, used, L) ==
  \A t \in Task : t \in L <=> Runnable(st, t) /\ ResourcesFit(used, t)

(* The pump launches nothing in a paused run, and returns before the scan  *)
(* in a cancelled one.  Mutant: pause is not looked at.                    *)
HeldByCancelOnly(pz, cn) == cn

Held(pz, cn) == pz \/ cn

(* The launching scan: in task order, each runnable task that fits beside  *)
(* what is in use and what the scan has launched before it.                *)
IsLaunchSet(st, used, L) ==
  \A t \in Task :
    t \in L <=> /\ Runnable(st, t)
                /\ ResourcesFit(AddResources(used, Load({u \in L : u < t})), t)

(* The states the pump decides without running anything: blocked tasks,    *)
(* and after a cancellation every task that has not started.               *)
Settle(st, B, cn) ==
  [t \in Task |-> IF t \in B THEN "BLOCKED_DEPENDENCY"
                  ELSE IF cn /\ st[t] = "PENDING" THEN "CANCELLED"
                  ELSE st[t]]

(* Mutant of FinalStatus: failures of tasks nobody depends on do not count. *)
FinalStatusBlockedOnly(st, cn) ==
  IF cn THEN "CANCELLED"
  ELSE IF \E t \in Task : st[t] = "BLOCKED_DEPENDENCY"
    THEN "COMPLETED_WITH_FAILURES"
  ELSE "COMPLETED"

FinalStatus(st, cn) ==
  IF cn THEN "CANCELLED"
  ELSE IF \E t \in Task : st[t] \in {"FAILED", "BLOCKED_DEPENDENCY"}
    THEN "COMPLETED_WITH_FAILURES"
  ELSE "COMPLETED"

(* Mutant of CheckpointTasks: also what came back after cancel.            *)
CheckpointDelivered(st) == {t \in Task : IsDependencySatisfied(st[t])}

CheckpointTasks(st) == {t \in Task : IsReusableState(st[t])}

(* getCheckpoint hashes the canonical JSON of every reusable entry, and    *)
(* throws when one has none.                                               *)
Serialisable(st, out) == \A t \in CheckpointTasks(st) : out[t] # "clonable"

(* _finalize sets finalized first and resolves last.  In between it goes   *)
(* through the contradictions and proposed changes of every receipt, asks  *)
(* for the canonical JSON of changes to one and the same path, and exports *)
(* a checkpoint; each may throw, the second with any receipt that has a    *)
(* value without canonical JSON, depending on what it proposes.  The error *)
(* goes to whoever pumped (a microtask, resume, cancel or the .catch of a  *)
(* lane), nothing is undone, and nobody finalizes again.                   *)
Summarisable(rc) == \A t \in Task : rc[t].payload # "misshapen"

MayThrow(st, out, rc) ==
  \/ ~Summarisable(rc) \/ ~Serialisable(st, out)
  \/ \E t \in Task : rc[t].payload = "clonable"

Finalize(st, out, rc, cn) ==
  /\ finalized' = TRUE
  /\ \/ /\ Summarisable(rc) /\ Serialisable(st, out)
        /\ result' = FinalStatus(st, cn)
     \/ /\ MayThrow(st, out, rc)
        /\ result' = Unresolved

(* _pump, entered with the handler's own updates already made: statuses    *)
(* st, outputs out, receipts rc, active lanes ac, resources used, and the  *)
(* flags pz and cn.                                                        *)
Pump(st, out, rc, ac, used, pz, cn) ==
  \E B \in SUBSET Pending(st) :
    /\ IsBlockedSet(st, B)
    /\ LET settled == Settle(st, B, cn)
       IN  \E L \in SUBSET Pending(settled) :
             /\ IF Held(pz, cn) THEN L = {} ELSE IsLaunchSet(settled, used, L)
             /\ state' = [t \in Task |-> IF t \in L THEN "RUNNING" ELSE settled[t]]
             /\ active' = ac \cup L
             /\ currentResources' = AddResources(used, Load(L))
             /\ receipts' = [t \in Task |-> IF settled[t] # st[t]
                                              THEN FiledByPump(settled[t]) ELSE rc[t]]
             /\ outputs' = out
             /\ paused' = pz
             /\ cancelled' = cn
             /\ IF active' = {} /\ Pending(state') = {}
                  THEN Finalize(state', out, receipts', cn)
                  ELSE UNCHANGED <<finalized, result>>

(* The constructor without a checkpoint, or with one that _applyCheckpoint *)
(* admits: the tasks of R are restored, everything else is pending.  What  *)
(* a checkpoint holds is JSON that a lane of an earlier session returned.  *)
RestoredPayload == {"json"} \cup ({r.payload : r \in LaneResult} \cap {"misshapen"})

StartFrom(R) ==
  /\ state \in {st \in [Task -> TaskState] :
                  \A t \in Task : IF t \in R THEN IsReusableState(st[t])
                                             ELSE st[t] = "PENDING"}
  /\ \E kept \in [R -> RestoredPayload] :
       /\ outputs  = [t \in Task |-> IF t \in R THEN kept[t] ELSE NoOutput]
       /\ receipts = [t \in Task |-> IF t \in R THEN Filed(state[t], kept[t]) ELSE NoReceipt]
  /\ active = {} /\ aborted = {}
  /\ currentResources = [c \in Class |-> 0]
  /\ paused = FALSE /\ cancelled = FALSE /\ finalized = FALSE
  /\ result = Unresolved
  /\ pumpQueued = TRUE

DownwardClosed(R) == \A t \in R : Deps[t] \subseteq R

(* No lane reports the status by which the scheduler marks late work.      *)
MarkIsTheScheduler == \A r \in LaneResult : r.status # "COMPLETED_AFTER_CANCEL"

(* _applyCheckpoint does not ask that what it restores be closed under     *)
(* dependencies.  What a session exports is (ExportsAdmissible), unless a  *)
(* lane reports that mark, which satisfies dependents and is not exported. *)
Restorable(R) == DownwardClosed(R) \/ ~MarkIsTheScheduler

Init == \E R \in SUBSET Task : Restorable(R) /\ StartFrom(R)
-----------------------------------------------------------------------------
FirstPump ==
  /\ pumpQueued
  /\ pumpQueued' = FALSE
  /\ aborted' = aborted
  /\ IF finalized
       THEN UNCHANGED <<state, outputs, receipts, active, currentResources,
                        paused, cancelled, finalized, result>>
       ELSE Pump(state, outputs, receipts, active, currentResources,
                 paused, cancelled)

Pause ==
  /\ ~finalized /\ ~cancelled
  /\ paused' = TRUE
  /\ UNCHANGED <<state, outputs, receipts, active, aborted, currentResources,
                 cancelled, finalized, result, pumpQueued>>

(* Mutant of Resume: without the trailing pump.                            *)
ResumeNoPump ==
  /\ ~finalized /\ ~cancelled /\ paused
  /\ paused' = FALSE
  /\ UNCHANGED <<state, outputs, receipts, active, aborted, currentResources,
                 cancelled, finalized, result, pumpQueued>>

Resume ==
  /\ ~finalized /\ ~cancelled /\ paused
  /\ Pump(state, outputs, receipts, active, currentResources, FALSE, cancelled)
  /\ UNCHANGED <<aborted, pumpQueued>>

(* Mutant of Cancel: without the trailing pump.                            *)
CancelNoPump ==
  /\ ~finalized /\ ~cancelled
  /\ aborted' = active
  /\ paused' = FALSE /\ cancelled' = TRUE
  /\ UNCHANGED <<state, outputs, receipts, active, currentResources, finalized,
                 result, pumpQueued>>

Cancel ==
  /\ ~finalized /\ ~cancelled
  /\ aborted' = active
  /\ Pump(state, outputs, receipts, active, currentResources, FALSE, TRUE)
  /\ UNCHANGED pumpQueued

(* What _completeTask and _failTask do first: the lane leaves the active   *)
(* map and its resources are given back.                                   *)
Released(t) == SubtractResources(currentResources, t)

(* Mutants of Leave: the abort record outlives the lane; a lane settles    *)
(* again after it left the active map.                                     *)
LeaveKeepsAbort(t) == t \in active /\ UNCHANGED <<aborted, pumpQueued>>

LeaveAgain(t) == t \in Task /\ aborted' = aborted \ {t} /\ UNCHANGED pumpQueued

Leave(t) ==
  /\ t \in active
  /\ aborted' = aborted \ {t}
  /\ UNCHANGED pumpQueued

(* Mutant of CompletionStatus: late work keeps its own status.             *)
CompletionStatusLate(r) == r.status

CompletionStatus(r) == IF cancelled THEN "COMPLETED_AFTER_CANCEL" ELSE r.status

(* _completeTask of a lane whose result can be stored.                     *)
CompleteTask(t, r) ==
  /\ Leave(t)
  /\ r.payload \in Storable
  /\ Pump([state EXCEPT ![t] = CompletionStatus(r)],
          [outputs EXCEPT ![t] = r.payload],
          [receipts EXCEPT ![t] = Filed(CompletionStatus(r), r.payload)],
          active \ {t}, Released(t), paused, cancelled)

(* _completeTask when normalizeLaneResult throws: the .catch handler finds *)
(* the lane no longer active and returns, so nothing else happens.         *)
FieldUnclonable(t, r) ==
  /\ Leave(t)
  /\ r.payload = "unclonable_field"
  /\ active' = active \ {t}
  /\ currentResources' = Released(t)
  /\ UNCHANGED <<state, outputs, receipts, paused, cancelled, finalized, result>>

(* The same when the output cannot be cloned: by then the status is set.   *)
OutputUnclonable(t, r) ==
  /\ Leave(t)
  /\ r.payload = "unclonable_output"
  /\ active' = active \ {t}
  /\ currentResources' = Released(t)
  /\ state' = [state EXCEPT ![t] = CompletionStatus(r)]
  /\ UNCHANGED <<outputs, receipts, paused, cancelled, finalized, result>>

FailureStatus(t) == IF cancelled /\ t \in aborted THEN "CANCELLED" ELSE "FAILED"

(* _failTask: the lane threw or its promise was rejected.                  *)
FailTask(t) ==
  /\ Leave(t)
  /\ Pump([state EXCEPT ![t] = FailureStatus(t)], outputs,
          [receipts EXCEPT ![t] = FiledByPump(FailureStatus(t))],
          active \ {t}, Released(t), paused, cancelled)

LaneSettles(t) ==
  \/ FailTask(t)
  \/ \E r \in LaneResult :
       CompleteTask(t, r) \/ FieldUnclonable(t, r) \/ OutputUnclonable(t, r)

Next ==
  \/ FirstPump \/ Pause \/ Resume \/ Cancel
  \/ \E t \in Task : LaneSettles(t)

Spec == Init /\ [][Next]_vars

(* The microtask queue is drained, and every lane's promise settles.  The  *)
(* first is the platform's; the second is the caller's duty, a lane that   *)
(* never settles keeps its run open.  Nobody has to resume a paused run.   *)
Fairness == WF_vars(FirstPump) /\ \A t \in Task : WF_vars(LaneSettles(t))

FairSpec == Spec /\ Fairness
-----------------------------------------------------------------------------
(* Types of the variables of a RunSession object.                          *)
TypeOK ==
  /\ state \in [Task -> TaskState]
  /\ outputs \in [Task -> Storable \cup {NoOutput}]
  /\ receipts \in [Task -> Receipt \cup {NoReceipt}]
  /\ active \in SUBSET Task
  /\ aborted \in SUBSET active
  /\ currentResources \in [Class -> Nat]
  /\ paused \in BOOLEAN /\ cancelled \in BOOLEAN /\ finalized \in BOOLEAN
  /\ pumpQueued \in BOOLEAN
  /\ result \in RunStatus \cup {Unresolved}

(* currentResources is kept by additions and clamped subtractions spread   *)
(* over three handlers; it must stay the exact load of the active lanes,   *)
(* whatever lanes return or throw, and never pass a declared limit.        *)
ResourceAccounting ==
  /\ currentResources = Load(active)
  /\ \A c \in Class : currentResources[c] <= Limit[c]

(* A lane runs or has delivered only if every dependency had delivered:    *)
(* the conflation of many statuses into isDependencySatisfied must never   *)
(* let a task start early.  That what a checkpoint restores has it too is  *)
(* how sessions begin (Restorable) and what ExportsAdmissible shows.       *)
DependencyOrder ==
  \A t \in Task : t \in active \/ IsDependencySatisfied(state[t]) =>
    \A d \in Deps[t] : IsDependencySatisfied(state[d])

(* Handlers end with _pump so that no capacity is left idle: outside the   *)
(* first microtask, no pending task of a live run could be started, and    *)
(* none waits for a dependency that has failed.                            *)
WorkConserving ==
  ~pumpQueued /\ ~finalized =>
    \A t \in Pending(state) :
      /\ \A d \in Deps[t] : ~IsDependencyFailed(state[d])
      /\ ~paused => ~(Runnable(state, t) /\ ResourcesFit(currentResources, t))

(* Nobody calls _pump but a handler, so a live run with no active lane     *)
(* and nobody to resume it would wait for ever: that never happens.        *)
NoStall == ~finalized /\ ~paused /\ ~pumpQueued => active # {}

(* Every task that is neither waiting nor active has the receipt of the    *)
(* status it is in, and the output its dependents read if it delivered:    *)
(* a lane's outcome, failure included, is never lost.                      *)
OutcomesRecorded ==
  \A t \in Task : t \notin active /\ state[t] # "PENDING" =>
    /\ receipts[t].status = state[t]
    /\ IsDependencySatisfied(state[t]) => outputs[t] # NoOutput

(* The run receipt tells the truth: it is issued only when no lane is      *)
(* active or waiting, says CANCELLED exactly for a cancelled run, and      *)
(* COMPLETED exactly when every other run delivered every task.            *)
FinalAccount ==
  finalized =>
    /\ active = {}
    /\ \A t \in Task : state[t] \notin {"PENDING", "RUNNING"}
    /\ result = "CANCELLED" <=> cancelled
    /\ result = "COMPLETED" <=>
         ~cancelled /\ \A t \in Task : IsDependencySatisfied(state[t])

(* A finalized run has resolved its result promise, which is all the       *)
(* caller awaits.                                                          *)
FinalizedResolves == finalized => result # Unresolved

(* No handler starts a lane while the run is paused or cancelled, the very *)
(* steps that pause and cancel it included.                                *)
HeldStartsNothing == [][paused' \/ cancelled' => active' \subseteq active]_vars

(* Work that comes back after cancel never becomes reusable: what a        *)
(* checkpoint would hold is frozen from the moment of cancellation.        *)
LateWorkQuarantined ==
  [][cancelled => CheckpointTasks(state') = CheckpointTasks(state)]_vars

(* What a checkpoint would hold only grows, entry by entry: a reusable     *)
(* status, its output and its receipt are never replaced, so an older      *)
(* checkpoint of the run is always a part of a newer one.                  *)
CheckpointGrows ==
  [][\A t \in CheckpointTasks(state) :
       state'[t] = state[t] /\ outputs'[t] = outputs[t] /\ receipts'[t] = receipts[t]]_vars

(* Every run ends and tells its caller so, unless it is left paused.       *)
RunEnds == <>[]paused \/ <>(result # Unresolved)

(* A cancelled run resolves as CANCELLED, paused or not when it happened.  *)
CancelEnds == cancelled ~> result = "CANCELLED"
=============================================================================
