----------------------- MODULE CheckpointResumeProofs -----------------------
(***************************************************************************)
(* Safety of a job over all its sessions (CheckpointResume), for every     *)
(* task graph, every set of plans and any number of sessions.  A session   *)
(* step is a step of RunSession, whose lemmas are cited; what is new is    *)
(* that an export and a restoration carry the invariants over.             *)
(***************************************************************************)
EXTENDS CheckpointResume, RunSessionProofs

(* Checkpoints have entries of the right shape for tasks of the run.       *)
SavedTyped ==
  \A t \in DOMAIN saved.completed :
    /\ t \in Task
    /\ saved.completed[t] =
         [state |-> saved.completed[t].state, output |-> saved.completed[t].output,
          receipt |-> saved.completed[t].receipt, made |-> saved.completed[t].made]
    /\ saved.completed[t].state \in TaskState
    /\ saved.completed[t].output \in Storable \cup {NoOutput}
    /\ saved.completed[t].receipt \in Receipt \cup {NoReceipt}

JobTyped == AccountInv /\ SavedTyped

LEMMA NoEntries == DOMAIN NoCheckpoint.completed = {}
BY DEF NoCheckpoint

(* The entry of a task, field by field.                                    *)
LEMMA EntryFields ==
  ASSUME NEW t
  PROVE  /\ Entry(t) = [state |-> Entry(t).state, output |-> Entry(t).output,
                        receipt |-> Entry(t).receipt, made |-> Entry(t).made]
         /\ Entry(t).state = state[t] /\ Entry(t).output = outputs[t]
         /\ Entry(t).receipt = receipts[t] /\ Entry(t).made = madeUnder[t]
BY DEF Entry

(* What _applyCheckpoint is given: the last export if it binds, or nothing. *)
LEMMA SessionStarts ==
  ASSUME NewSession
  PROVE  \/ Admits(saved, revision') /\ Construct(saved)
         \/ ~Admits(saved, revision') /\ Construct(NoCheckpoint)
BY DEF NewSession

(* A constructor call yields a state of RunSession, whatever it restores.  *)
LEMMA ConstructTyped ==
  ASSUME NEW ck, Construct(ck),
         \A t \in DOMAIN ck.completed :
           /\ ck.completed[t].state \in TaskState
           /\ ck.completed[t].output \in Storable \cup {NoOutput}
           /\ ck.completed[t].receipt \in Receipt \cup {NoReceipt}
  PROVE  AccountInv'
<1>1. /\ state' \in [Task -> TaskState]
      /\ outputs' \in [Task -> Storable \cup {NoOutput}]
      /\ receipts' \in [Task -> Receipt \cup {NoReceipt}]
  BY DEF Construct, Restored, TaskState, SchedulerState
<1>2. /\ active' = {} /\ aborted' = {} /\ currentResources' = [c \in Class |-> 0]
      /\ paused' = FALSE /\ cancelled' = FALSE /\ finalized' = FALSE
      /\ result' = Unresolved /\ pumpQueued' = TRUE
  BY DEF Construct
<1>3. currentResources' = Load(active') /\ currentResources' \in [Class -> Nat]
  BY <1>2, LoadEmpty
<1>4. \A c \in Class : currentResources'[c] <= Limit[c]
  BY <1>2, ResourceAssumption
<1> QED
  BY <1>1, <1>2, <1>3, <1>4 DEF AccountInv, TypeOK, ActiveRunning, ResourceAccounting

LEMMA CheckpointTyped ==
  ASSUME AccountInv, saved' = Checkpoint
  PROVE  SavedTyped'
<1>1. /\ DOMAIN saved'.completed = CheckpointTasks(state)
      /\ \A t \in CheckpointTasks(state) : saved'.completed[t] = Entry(t)
  BY DEF Checkpoint
<1>2. CheckpointTasks(state) \subseteq Task
  BY DEF CheckpointTasks
<1>3. ASSUME NEW t \in CheckpointTasks(state)
      PROVE  /\ saved'.completed[t] = Entry(t)
             /\ state[t] \in TaskState
             /\ outputs[t] \in Storable \cup {NoOutput}
             /\ receipts[t] \in Receipt \cup {NoReceipt}
  BY <1>1, <1>2 DEF AccountInv, TypeOK
<1>4. ASSUME NEW t \in DOMAIN saved'.completed
      PROVE  /\ saved'.completed[t] =
                  [state |-> saved'.completed[t].state, output |-> saved'.completed[t].output,
                   receipt |-> saved'.completed[t].receipt, made |-> saved'.completed[t].made]
             /\ saved'.completed[t].state \in TaskState
             /\ saved'.completed[t].output \in Storable \cup {NoOutput}
             /\ saved'.completed[t].receipt \in Receipt \cup {NoReceipt}
             /\ t \in Task
  <2>1. t \in CheckpointTasks(state)
    BY <1>1, <1>4
  <2> QED BY <1>2, <1>3, <2>1, EntryFields
<1> QED BY <1>4 DEF SavedTyped

LEMMA JobTypedInit == JobInit => JobTyped
<1> SUFFICES ASSUME JobInit PROVE JobTyped
  OBVIOUS
<1>1. Init
  BY DEF JobInit, Init, Restorable, DownwardClosed
<1> QED BY <1>1, AccountInit, NoEntries DEF JobInit, JobTyped, SavedTyped

LEMMA JobTypedStep == JobTyped /\ [JobNext]_jobVars => JobTyped'
<1> SUFFICES ASSUME AccountInv, SavedTyped, [JobNext]_jobVars PROVE AccountInv' /\ SavedTyped'
  BY DEF JobTyped
<1>1. CASE SessionStep
  BY <1>1, AccountStep DEF SessionStep, SavedTyped
<1>2. CASE Export
  <2>1. [Next]_vars /\ saved' = Checkpoint
    BY <1>2 DEF Export
  <2> QED BY <2>1, AccountStep, CheckpointTyped
<1>3. CASE NewSession
  <2>1. saved' = saved
    BY <1>3 DEF NewSession
  <2>2. Construct(saved) \/ Construct(NoCheckpoint)
    BY <1>3, SessionStarts
  <2>3. AccountInv'
    BY <2>2, NoEntries, ConstructTyped DEF SavedTyped
  <2> QED BY <2>1, <2>3 DEF SavedTyped
<1>4. CASE UNCHANGED jobVars
  <2>1. [Next]_vars /\ saved' = saved
    BY <1>4 DEF jobVars
  <2> QED BY <2>1, AccountStep DEF SavedTyped
<1> QED BY <1>1, <1>2, <1>3, <1>4 DEF JobNext

LEMMA JobTypedAlways == JobSpec => []JobTyped
BY JobTypedInit, JobTypedStep, PTL DEF JobSpec
-----------------------------------------------------------------------------
(* Outputs and plans.  The strengthening: what an export holds was made    *)
(* under the revision it is bound to.                                      *)
OutputsInv ==
  /\ OutputsOfThisPlan
  /\ \A t \in DOMAIN saved.completed :
       /\ t \in Task
       /\ saved.completed[t].output # NoOutput => saved.completed[t].made = saved.revision

LEMMA OutputsStep == OutputsInv /\ [JobNext]_jobVars => OutputsInv'
<1> SUFFICES ASSUME OutputsInv, [JobNext]_jobVars PROVE OutputsInv'
  OBVIOUS
<1>1. CASE SessionStep
  BY <1>1 DEF SessionStep, OutputsInv, OutputsOfThisPlan
<1>2. CASE Export
  <2>1. /\ saved' = Checkpoint
        /\ UNCHANGED <<outputs, revision, madeUnder>>
    BY <1>2 DEF Export, vars
  <2>2. /\ saved'.revision = revision
        /\ DOMAIN saved'.completed = CheckpointTasks(state)
        /\ \A t \in CheckpointTasks(state) : saved'.completed[t] = Entry(t)
    BY <2>1 DEF Checkpoint
  <2>3. CheckpointTasks(state) \subseteq Task
    BY DEF CheckpointTasks
  <2>4. \A t \in CheckpointTasks(state) : outputs[t] # NoOutput => madeUnder[t] = revision
    BY <2>3 DEF OutputsInv, OutputsOfThisPlan
  <2>5. OutputsOfThisPlan'
    BY <2>1 DEF OutputsInv, OutputsOfThisPlan
  <2>6. ASSUME NEW t \in DOMAIN saved'.completed
        PROVE  /\ t \in Task
               /\ saved'.completed[t].output # NoOutput =>
                    saved'.completed[t].made = saved'.revision
    BY <2>2, <2>3, <2>4, <2>6, EntryFields
  <2> QED BY <2>5, <2>6 DEF OutputsInv
<1>3. CASE NewSession
  <2>1. saved' = saved
    BY <1>3 DEF NewSession
  <2>2. CASE Admits(saved, revision') /\ Construct(saved)
    <3>1. saved.revision = revision'
      BY <2>2 DEF Admits, BindsTo
    <3>2. OutputsOfThisPlan'
      BY <2>2, <3>1 DEF Construct, Restored, OutputsInv, OutputsOfThisPlan
    <3> QED BY <2>1, <3>2 DEF OutputsInv
  <2>3. CASE Construct(NoCheckpoint)
    <3>1. OutputsOfThisPlan'
      BY <2>3, NoEntries DEF Construct, Restored, OutputsOfThisPlan
    <3> QED BY <2>1, <3>1 DEF OutputsInv
  <2> QED BY <1>3, <2>2, <2>3, SessionStarts
<1>4. CASE UNCHANGED jobVars
  BY <1>4 DEF jobVars, vars, OutputsInv, OutputsOfThisPlan
<1> QED BY <1>1, <1>2, <1>3, <1>4 DEF JobNext

(* No dependent ever reads an output of another plan, whatever lanes       *)
(* return, however often the process dies and the plan changes and changes *)
(* back.                                                                   *)
THEOREM NoStaleOutputs == JobSpec => []OutputsOfThisPlan
<1>1. JobInit => OutputsInv
  BY NoEntries DEF JobInit, StartFrom, OutputsInv, OutputsOfThisPlan
<1>2. OutputsInv => OutputsOfThisPlan
  BY DEF OutputsInv
<1> QED BY <1>1, <1>2, OutputsStep, PTL DEF JobSpec
-----------------------------------------------------------------------------
(* No rework.  When normalizeLaneResult refuses an output the task keeps   *)
(* its status without a receipt, and _applyCheckpoint then refuses every   *)
(* export of the run, so the hypothesis is needed: such a job starts over. *)
ClonableOutputs == \A r \in LaneResult : r.payload # "unclonable_output"

(* A reusable task has its receipt.                                        *)
Receipted == \A t \in CheckpointTasks(state) : receipts[t] # NoReceipt

ReworkInv == Receipted /\ EntriesAdmissible(saved) /\ NoRework

LEMMA PumpReceipts ==
  ASSUME NEW st, NEW out, NEW rc, NEW ac, NEW used, NEW pz, NEW cn,
         \A u \in CheckpointTasks(st) : rc[u] # NoReceipt,
         Pump(st, out, rc, ac, used, pz, cn)
  PROVE  Receipted'
<1>1. /\ CheckpointTasks(state') = CheckpointTasks(st)
      /\ \A u \in CheckpointTasks(st) : receipts'[u] = rc[u]
  BY PumpKeepsReusable
<1>2. \A u \in CheckpointTasks(state') : receipts'[u] # NoReceipt
  BY <1>1
<1> QED BY <1>2 DEF Receipted, CheckpointTasks

(* A handler that records a receipt with the status, as all do, keeps it so. *)
LEMMA SettledReceipts ==
  ASSUME AccountInv, Receipted, NEW t \in active, NEW s, NEW rc, rc # NoReceipt
  PROVE  \A u \in CheckpointTasks([state EXCEPT ![t] = s]) :
           [receipts EXCEPT ![t] = rc][u] # NoReceipt
<1>1. /\ state \in [Task -> TaskState]
      /\ receipts \in [Task -> Receipt \cup {NoReceipt}]
      /\ t \in Task
  BY DEF AccountInv, TypeOK
<1>2. ASSUME NEW u \in CheckpointTasks([state EXCEPT ![t] = s]), u # t
      PROVE  u \in Task /\ u \in CheckpointTasks(state)
  BY <1>1, <1>2 DEF CheckpointTasks
<1>3. ASSUME NEW u \in CheckpointTasks([state EXCEPT ![t] = s])
      PROVE  [receipts EXCEPT ![t] = rc][u] # NoReceipt
  <2>1. CASE u = t
    BY <1>1, <2>1
  <2>2. CASE u # t
    BY <1>1, <1>2, <2>2 DEF Receipted
  <2> QED BY <2>1, <2>2
<1> QED BY <1>3

LEMMA ReceiptedStep ==
  ASSUME ClonableOutputs, AccountInv, Receipted, [Next]_vars
  PROVE  Receipted'
<1>0. \A u \in CheckpointTasks(state) : receipts[u] # NoReceipt
  BY DEF Receipted
<1>1. CASE FirstPump
  <2>1. CASE finalized
    BY <1>1, <2>1 DEF FirstPump, Receipted, CheckpointTasks
  <2>2. CASE ~finalized
    BY <1>0, <1>1, <2>2, PumpReceipts DEF FirstPump
  <2> QED BY <2>1, <2>2
<1>2. CASE Pause
  BY <1>2 DEF Pause, Receipted, CheckpointTasks
<1>3. CASE Resume
  BY <1>0, <1>3, PumpReceipts DEF Resume
<1>4. CASE Cancel
  BY <1>0, <1>4, PumpReceipts DEF Cancel
<1>5. ASSUME NEW t \in Task, LaneSettles(t) PROVE Receipted'
  <2>0. t \in active
    BY <1>5 DEF LaneSettles, FailTask, CompleteTask, FieldUnclonable, OutputUnclonable, Leave
  <2>1. CASE FailTask(t)
    <3>1. FiledByPump(FailureStatus(t)) # NoReceipt
      BY DEF FailureStatus, NoReceipt, FiledByPump, Filed
    <3>2. \A u \in CheckpointTasks([state EXCEPT ![t] = FailureStatus(t)]) :
            [receipts EXCEPT ![t] = FiledByPump(FailureStatus(t))][u] # NoReceipt
      BY <2>0, <3>1, SettledReceipts
    <3> QED BY <2>1, <3>2, PumpReceipts DEF FailTask
  <2>2. ASSUME NEW r \in LaneResult, CompleteTask(t, r) PROVE Receipted'
    <3>1. Filed(CompletionStatus(r), r.payload) # NoReceipt
      BY LaneResultAssumption DEF CompletionStatus, NoReceipt, Filed
    <3>2. \A u \in CheckpointTasks([state EXCEPT ![t] = CompletionStatus(r)]) :
            [receipts EXCEPT ![t] = Filed(CompletionStatus(r), r.payload)][u] # NoReceipt
      BY <2>0, <3>1, SettledReceipts
    <3> QED BY <2>2, <3>2, PumpReceipts DEF CompleteTask
  <2>3. ASSUME NEW r \in LaneResult, FieldUnclonable(t, r) PROVE Receipted'
    BY <2>3 DEF FieldUnclonable, Receipted, CheckpointTasks
  <2>4. \A r \in LaneResult : ~OutputUnclonable(t, r)
    BY DEF ClonableOutputs, OutputUnclonable
  <2> QED BY <1>5, <2>1, <2>2, <2>3, <2>4 DEF LaneSettles
<1>6. CASE UNCHANGED vars
  BY <1>6 DEF vars, Receipted, CheckpointTasks
<1> QED BY <1>1, <1>2, <1>3, <1>4, <1>5, <1>6 DEF Next

LEMMA NothingRestored ==
  ASSUME Construct(NoCheckpoint)
  PROVE  CheckpointTasks(state') = {}
<1>1. \A t \in Task : state'[t] = "PENDING"
  BY NoEntries DEF Construct, Restored
<1> QED BY <1>1 DEF CheckpointTasks, IsReusableState, IsDependencySatisfied

(* What an admitted checkpoint restores is entry by entry what it holds.   *)
LEMMA RestoredExactly ==
  ASSUME SavedTyped, Construct(saved)
  PROVE  \A t \in DOMAIN saved.completed :
           /\ Entry(t)' = saved.completed[t]
           /\ state'[t] = saved.completed[t].state
           /\ outputs'[t] = saved.completed[t].output
           /\ receipts'[t] = saved.completed[t].receipt
<1> SUFFICES ASSUME NEW t \in DOMAIN saved.completed
             PROVE  /\ Entry(t)' = saved.completed[t]
                    /\ state'[t] = saved.completed[t].state
                    /\ outputs'[t] = saved.completed[t].output
                    /\ receipts'[t] = saved.completed[t].receipt
  OBVIOUS
<1>1. t \in Task
  BY DEF SavedTyped
<1>2. /\ state'[t] = saved.completed[t].state
      /\ outputs'[t] = saved.completed[t].output
      /\ receipts'[t] = saved.completed[t].receipt
      /\ madeUnder'[t] = saved.completed[t].made
  BY <1>1 DEF Construct, Restored
<1>3. Entry(t)' = [state |-> saved.completed[t].state, output |-> saved.completed[t].output,
                   receipt |-> saved.completed[t].receipt, made |-> saved.completed[t].made]
  BY <1>2 DEF Entry
<1> QED BY <1>2, <1>3 DEF SavedTyped

(* ... and restores nothing else.                                          *)
LEMMA RestoredOnly ==
  ASSUME Construct(saved)
  PROVE  CheckpointTasks(state') \subseteq DOMAIN saved.completed
BY DEF Construct, Restored, CheckpointTasks, IsReusableState, IsDependencySatisfied

LEMMA ReworkStep ==
  ASSUME ClonableOutputs
  PROVE  JobTyped /\ ReworkInv /\ [JobNext]_jobVars => ReworkInv'
<1> SUFFICES ASSUME JobTyped, ReworkInv, [JobNext]_jobVars PROVE ReworkInv'
  OBVIOUS
<1>0. AccountInv /\ SavedTyped /\ Receipted /\ EntriesAdmissible(saved) /\ NoRework
  BY DEF JobTyped, ReworkInv
<1>1. CASE SessionStep
  <2>1. /\ [Next]_vars /\ saved' = saved /\ revision' = revision
        /\ madeUnder' = [t \in Task |-> IF outputs'[t] # outputs[t] THEN revision
                                        ELSE madeUnder[t]]
    BY <1>1 DEF SessionStep
  <2>2. Receipted' /\ EntriesAdmissible(saved)'
    BY <1>0, <2>1, ReceiptedStep DEF EntriesAdmissible
  <2>3. ASSUME Exists(saved), BindsTo(saved, revision), NEW t \in DOMAIN saved.completed
        PROVE  Entry(t)' = saved.completed[t]
    <3>1. t \in Task /\ Entry(t) = saved.completed[t]
      BY <1>0, <2>3 DEF NoRework, SavedTyped
    <3>2. t \in CheckpointTasks(state)
      BY <1>0, <3>1, EntryFields DEF EntriesAdmissible, CheckpointTasks
    <3>3. state'[t] = state[t] /\ outputs'[t] = outputs[t] /\ receipts'[t] = receipts[t]
      BY <1>0, <2>1, <3>2, GrowsStep
    <3>4. madeUnder'[t] = madeUnder[t]
      BY <2>1, <3>1, <3>3
    <3> QED BY <3>1, <3>3, <3>4 DEF Entry
  <2> QED BY <2>1, <2>2, <2>3 DEF ReworkInv, NoRework, Exists
<1>2. CASE Export
  <2>1. saved' = Checkpoint /\ UNCHANGED <<state, outputs, receipts, revision, madeUnder>>
    BY <1>2 DEF Export, vars
  <2>2. /\ DOMAIN saved'.completed = CheckpointTasks(state)
        /\ \A t \in CheckpointTasks(state) : saved'.completed[t] = Entry(t)
    BY <2>1 DEF Checkpoint
  <2>3. \A t \in CheckpointTasks(state) : Entry(t)' = Entry(t)
    BY <2>1 DEF Entry
  <2>4. Receipted'
    BY <1>0, <2>1 DEF Receipted, CheckpointTasks
  <2>5. ASSUME NEW t \in DOMAIN saved'.completed
        PROVE  /\ Entry(t)' = saved'.completed[t]
               /\ IsReusableState(saved'.completed[t].state)
               /\ saved'.completed[t].receipt # NoReceipt
    <3>1. t \in CheckpointTasks(state) /\ saved'.completed[t] = Entry(t)
      BY <2>2, <2>5
    <3>2. IsReusableState(state[t]) /\ receipts[t] # NoReceipt
      BY <1>0, <3>1 DEF Receipted, CheckpointTasks
    <3> QED BY <2>3, <3>1, <3>2, EntryFields
  <2> QED BY <2>4, <2>5 DEF ReworkInv, NoRework, EntriesAdmissible
<1>3. CASE NewSession
  <2>1. saved' = saved
    BY <1>3 DEF NewSession
  <2>2. CASE Admits(saved, revision') /\ Construct(saved)
    <3>1. NoRework'
      BY <1>0, <2>1, <2>2, RestoredExactly DEF NoRework
    <3>2. ASSUME NEW t \in CheckpointTasks(state') PROVE receipts'[t] # NoReceipt
      BY <1>0, <2>2, <3>2, RestoredOnly, RestoredExactly DEF EntriesAdmissible
    <3>3. Receipted'
      BY <3>2 DEF Receipted, CheckpointTasks
    <3> QED BY <1>0, <2>1, <3>1, <3>3 DEF ReworkInv, EntriesAdmissible
  <2>3. CASE ~Admits(saved, revision') /\ Construct(NoCheckpoint)
    <3>1. ~(Exists(saved) /\ BindsTo(saved, revision'))
      BY <1>0, <2>3 DEF Admits, BindsTo
    <3>2. Receipted'
      BY <2>3, NothingRestored DEF Receipted, CheckpointTasks
    <3> QED BY <1>0, <2>1, <3>1, <3>2 DEF ReworkInv, NoRework, EntriesAdmissible, Exists
  <2> QED BY <1>3, <2>2, <2>3, SessionStarts
<1>4. CASE UNCHANGED jobVars
  BY <1>0, <1>4
  DEF jobVars, vars, ReworkInv, Receipted, CheckpointTasks, NoRework, EntriesAdmissible,
      Entry, Exists
<1> QED BY <1>1, <1>2, <1>3, <1>4 DEF JobNext

LEMMA ReworkAlways ==
  ASSUME ClonableOutputs
  PROVE  JobSpec => []ReworkInv
<1>1. JobInit => ReworkInv
  <2> SUFFICES ASSUME JobInit PROVE ReworkInv
    OBVIOUS
  <2>1. saved = NoCheckpoint /\ \A t \in Task : state[t] = "PENDING"
    BY DEF JobInit, StartFrom
  <2>2. CheckpointTasks(state) = {}
    BY <2>1 DEF CheckpointTasks, IsReusableState, IsDependencySatisfied
  <2> QED BY <2>1, <2>2, NoEntries DEF ReworkInv, Receipted, EntriesAdmissible, NoRework
<1> QED BY <1>1, ReworkStep, JobTypedAlways, PTL DEF JobSpec

(* What the last export holds is never done again nor changed while a      *)
(* session of its plan lives, through every crash, restoration and change  *)
(* of plan.                                                                *)
THEOREM WorkIsNotRedone ==
  ASSUME ClonableOutputs
  PROVE  JobSpec => []NoRework
<1>1. ReworkInv => NoRework
  BY DEF ReworkInv
<1> QED BY <1>1, ReworkAlways, PTL
-----------------------------------------------------------------------------
(* Exports.  They are closed under dependencies because a task whose       *)
(* dependency is not reusable was never launched; COMPLETED_AFTER_CANCEL   *)
(* is the one status that satisfies a dependent and is not reusable, so    *)
(* lanes must not report it themselves.                                    *)
ClosedInv ==
  /\ DependencyOrder
  /\ DownwardClosed(CheckpointTasks(state))
  /\ ~cancelled => \A t \in Task : state[t] # "COMPLETED_AFTER_CANCEL"

ExportInv == ClosedInv /\ ExportsAdmissible

LEMMA PumpUnmarked ==
  ASSUME NEW st, NEW out, NEW rc, NEW ac, NEW used, NEW pz, NEW cn,
         Pump(st, out, rc, ac, used, pz, cn)
  PROVE  /\ cancelled' = cn
         /\ \A t \in Task : state'[t] = "COMPLETED_AFTER_CANCEL" =>
                              st[t] = "COMPLETED_AFTER_CANCEL"
<1>1. PICK settled, B, L :
        /\ B \in SUBSET Pending(st)
        /\ L \in SUBSET Pending(settled)
        /\ PumpEffect(st, out, rc, ac, used, pz, cn, settled, B, L)
  BY PumpShape
<1>2. /\ settled = Settle(st, B, cn) /\ cancelled' = cn
      /\ state' = [t \in Task |-> IF t \in L THEN "RUNNING" ELSE settled[t]]
  BY <1>1 DEF PumpEffect
<1> QED BY <1>2 DEF Settle

(* Only a cancelled run marks late work.                                   *)
LEMMA UnmarkedStep ==
  ASSUME MarkIsTheScheduler, AccountInv, ClosedInv, Next, ~cancelled'
  PROVE  ~cancelled /\ \A t \in Task : state'[t] # "COMPLETED_AFTER_CANCEL"
<1>0. state \in [Task -> TaskState]
  BY DEF AccountInv, TypeOK
<1>1. CASE FirstPump
  <2>1. CASE finalized
    BY <1>1, <2>1 DEF FirstPump, ClosedInv
  <2>2. CASE ~finalized
    BY <1>1, <2>2, PumpUnmarked DEF FirstPump, ClosedInv
  <2> QED BY <2>1, <2>2
<1>2. CASE Pause
  BY <1>2 DEF Pause, ClosedInv
<1>3. CASE Resume
  BY <1>3, PumpUnmarked DEF Resume, ClosedInv
<1>4. ~Cancel
  <2>1. Cancel => cancelled' = TRUE
    BY PumpUnmarked DEF Cancel
  <2> QED BY <2>1
<1>5. ASSUME NEW t \in Task, LaneSettles(t)
      PROVE  ~cancelled /\ \A u \in Task : state'[u] # "COMPLETED_AFTER_CANCEL"
  <2>1. CASE FailTask(t)
    <3>1. ~cancelled
      BY <2>1, PumpUnmarked DEF FailTask
    <3>2. \A u \in Task : [state EXCEPT ![t] = FailureStatus(t)][u] # "COMPLETED_AFTER_CANCEL"
      BY <1>0, <3>1 DEF ClosedInv, FailureStatus
    <3> QED BY <2>1, <3>1, <3>2, PumpUnmarked DEF FailTask
  <2>2. ASSUME NEW r \in LaneResult, CompleteTask(t, r)
        PROVE  ~cancelled /\ \A u \in Task : state'[u] # "COMPLETED_AFTER_CANCEL"
    <3>1. ~cancelled
      BY <2>2, PumpUnmarked DEF CompleteTask
    <3>2. \A u \in Task : [state EXCEPT ![t] = CompletionStatus(r)][u] # "COMPLETED_AFTER_CANCEL"
      BY <1>0, <3>1 DEF ClosedInv, CompletionStatus, MarkIsTheScheduler
    <3> QED BY <2>2, <3>1, <3>2, PumpUnmarked DEF CompleteTask
  <2>3. ASSUME NEW r \in LaneResult, FieldUnclonable(t, r) \/ OutputUnclonable(t, r)
        PROVE  ~cancelled /\ \A u \in Task : state'[u] # "COMPLETED_AFTER_CANCEL"
    <3>1. ~cancelled
      BY <2>3 DEF FieldUnclonable, OutputUnclonable
    <3>2. state' = state \/ state' = [state EXCEPT ![t] = r.status]
      BY <2>3, <3>1 DEF FieldUnclonable, OutputUnclonable, CompletionStatus
    <3> QED BY <1>0, <3>1, <3>2 DEF ClosedInv, MarkIsTheScheduler
  <2> QED BY <1>5, <2>1, <2>2, <2>3 DEF LaneSettles
<1> QED BY <1>1, <1>2, <1>3, <1>4, <1>5 DEF Next

(* While nothing is marked, satisfied and reusable are the same.           *)
LEMMA UnmarkedClosed ==
  ASSUME NEW st, NEW ac, OrderOf(st, ac),
         \A t \in Task : st[t] # "COMPLETED_AFTER_CANCEL"
  PROVE  DownwardClosed(CheckpointTasks(st))
BY DepsAssumption DEF OrderOf, DownwardClosed, CheckpointTasks, IsReusableState

LEMMA CancelSteps ==
  ASSUME Next, cancelled' # cancelled
  PROVE  Cancel
<1>1. SUFFICES ASSUME ~Cancel PROVE FALSE
  OBVIOUS
<1>2. CASE FirstPump \/ Pause \/ Resume
  BY <1>2, PumpUnmarked DEF FirstPump, Pause, Resume
<1>3. ASSUME NEW t \in Task, LaneSettles(t) PROVE FALSE
  BY <1>3, PumpUnmarked
  DEF LaneSettles, FailTask, CompleteTask, FieldUnclonable, OutputUnclonable
<1> QED BY <1>1, <1>2, <1>3 DEF Next

LEMMA ClosedStep ==
  ASSUME MarkIsTheScheduler, AccountInv, ClosedInv, [Next]_vars
  PROVE  ClosedInv'
<1>1. DependencyOrder'
  BY OrderStep DEF ClosedInv
<1>2. CASE UNCHANGED vars
  BY <1>1, <1>2 DEF vars, ClosedInv, DownwardClosed, CheckpointTasks
<1>3. CASE Next /\ ~cancelled'
  <2>1. \A t \in Task : state'[t] # "COMPLETED_AFTER_CANCEL"
    BY <1>3, UnmarkedStep
  <2>2. OrderOf(state', active')
    BY <1>1 DEF DependencyOrder, OrderOf
  <2>3. DownwardClosed(CheckpointTasks(state'))
    BY <2>1, <2>2, UnmarkedClosed
  <2> QED BY <1>1, <2>1, <2>3 DEF ClosedInv, DownwardClosed, CheckpointTasks
<1>4. CASE Next /\ cancelled'
  <2>1. CheckpointTasks(state') = CheckpointTasks(state)
    <3>1. CASE cancelled
      BY <1>4, <3>1, QuarantineStep
    <3>2. CASE ~cancelled
      <4>1. Cancel
        BY <1>4, <3>2, CancelSteps
      <4> QED BY <4>1, PumpKeepsReusable DEF Cancel
    <3> QED BY <3>1, <3>2
  <2>2. DownwardClosed(CheckpointTasks(state'))
    BY <2>1 DEF ClosedInv
  <2>3. DownwardClosed(CheckpointTasks(state))'
    BY <2>2 DEF DownwardClosed, CheckpointTasks
  <2> QED BY <1>1, <1>4, <2>3 DEF ClosedInv
<1> QED BY <1>2, <1>3, <1>4

(* What is restored from a closed checkpoint is closed, and unmarked.      *)
LEMMA RestoredClosed ==
  ASSUME SavedTyped, Construct(saved), EntriesAdmissible(saved),
         DownwardClosed(DOMAIN saved.completed)
  PROVE  ClosedInv'
<1>1. \A t \in DOMAIN saved.completed : t \in Task /\ IsReusableState(state'[t])
  BY RestoredExactly DEF SavedTyped, EntriesAdmissible
<1>2. \A t \in Task : t \notin DOMAIN saved.completed => state'[t] = "PENDING"
  BY DEF Construct, Restored
<1>3. active' = {}
  BY DEF Construct
<1>4. \A t \in Task : state'[t] # "COMPLETED_AFTER_CANCEL"
  BY <1>1, <1>2 DEF IsReusableState
<1>5. OrderOf(state', active')
  <2> SUFFICES ASSUME NEW t \in Task, IsDependencySatisfied(state'[t]), NEW d \in Deps[t]
               PROVE  IsDependencySatisfied(state'[d])
    BY <1>3 DEF OrderOf
  <2>1. t \in DOMAIN saved.completed
    BY <1>2 DEF IsDependencySatisfied
  <2>2. d \in DOMAIN saved.completed
    BY <2>1 DEF DownwardClosed
  <2> QED BY <1>1, <2>2 DEF IsReusableState
<1>6. DownwardClosed(CheckpointTasks(state'))
  BY <1>4, <1>5, UnmarkedClosed
<1> QED BY <1>4, <1>5, <1>6
        DEF ClosedInv, DependencyOrder, OrderOf, DownwardClosed, CheckpointTasks

LEMMA FreshClosed ==
  ASSUME Construct(NoCheckpoint)
  PROVE  ClosedInv'
<1>1. active' = {} /\ \A t \in Task : state'[t] = "PENDING"
  BY NoEntries DEF Construct, Restored
<1> QED BY <1>1
        DEF ClosedInv, DependencyOrder, DownwardClosed, CheckpointTasks, IsReusableState,
            IsDependencySatisfied

LEMMA ExportStep ==
  ASSUME MarkIsTheScheduler
  PROVE  JobTyped /\ ReworkInv /\ ExportInv /\ [JobNext]_jobVars => ExportInv'
<1> SUFFICES ASSUME JobTyped, ReworkInv, ExportInv, [JobNext]_jobVars PROVE ExportInv'
  OBVIOUS
<1>0. /\ AccountInv /\ SavedTyped /\ Receipted /\ EntriesAdmissible(saved)
      /\ ClosedInv /\ ExportsAdmissible
  BY DEF JobTyped, ReworkInv, ExportInv
<1>1. CASE SessionStep
  <2>1. Next /\ saved' = saved
    BY <1>1 DEF SessionStep
  <2> QED BY <1>0, <2>1, ClosedStep
          DEF ExportInv, ExportsAdmissible, Exists, EntriesAdmissible, DownwardClosed
<1>2. CASE Export
  <2>1. saved' = Checkpoint /\ UNCHANGED vars
    BY <1>2 DEF Export
  <2>2. DOMAIN saved'.completed = CheckpointTasks(state)
    BY <2>1 DEF Checkpoint
  <2>3. ClosedInv'
    BY <1>0, <2>1, ClosedStep
  <2>4. EntriesAdmissible(saved)'
    <3> SUFFICES ASSUME NEW t \in CheckpointTasks(state)
                 PROVE  /\ IsReusableState(saved'.completed[t].state)
                        /\ saved'.completed[t].receipt # NoReceipt
      BY <2>2 DEF EntriesAdmissible
    <3>1. saved'.completed[t] = Entry(t)
      BY <2>1 DEF Checkpoint
    <3>2. IsReusableState(state[t]) /\ receipts[t] # NoReceipt
      BY <1>0 DEF Receipted, CheckpointTasks
    <3> QED BY <3>1, <3>2, EntryFields
  <2>5. DownwardClosed(CheckpointTasks(state))
    BY <1>0 DEF ClosedInv
  <2> QED BY <2>2, <2>3, <2>4, <2>5 DEF ExportInv, ExportsAdmissible, DownwardClosed
<1>3. CASE NewSession
  <2>1. saved' = saved
    BY <1>3 DEF NewSession
  <2>2. ClosedInv'
    BY <1>0, <1>3, SessionStarts, RestoredClosed, FreshClosed DEF ExportsAdmissible, Admits
  <2> QED BY <1>0, <2>1, <2>2
          DEF ExportInv, ExportsAdmissible, Exists, EntriesAdmissible, DownwardClosed
<1>4. CASE UNCHANGED jobVars
  <2>1. UNCHANGED vars /\ saved' = saved
    BY <1>4 DEF jobVars
  <2> QED BY <1>0, <2>1, ClosedStep
          DEF ExportInv, ExportsAdmissible, Exists, EntriesAdmissible, DownwardClosed
<1> QED BY <1>1, <1>2, <1>3, <1>4 DEF JobNext

LEMMA ExportAlways ==
  ASSUME ClonableOutputs, MarkIsTheScheduler
  PROVE  JobSpec => []ExportInv
<1>1. JobInit => ExportInv
  BY DEF JobInit, StartFrom, ExportInv, ExportsAdmissible, Exists, ClosedInv,
         DependencyOrder, DownwardClosed, CheckpointTasks, IsReusableState,
         IsDependencySatisfied
<1> QED BY <1>1, ExportStep, ReworkAlways, JobTypedAlways, PTL DEF JobSpec

(* What getCheckpoint writes, _applyCheckpoint of the same plan accepts,   *)
(* and it never restores a task without its dependencies.                  *)
THEOREM ExportsAreAdmitted ==
  ASSUME ClonableOutputs, MarkIsTheScheduler
  PROVE  JobSpec => []ExportsAdmissible
<1>1. ExportInv => ExportsAdmissible
  BY DEF ExportInv
<1> QED BY <1>1, ExportAlways, PTL
-----------------------------------------------------------------------------
(* Sessions.  With disciplined lanes what a checkpoint holds are receipts  *)
(* of the recorded status and JSON values, so a restored session starts in *)
(* a state of RunSession's Init and everything proved of one run holds in  *)
(* every session of a job.                                                 *)
DeliveredInv ==
  /\ \A t \in CheckpointTasks(state) : outputs[t] = "json" /\ receipts[t] = Filed(state[t], "json")
  /\ \A t \in DOMAIN saved.completed :
       /\ saved.completed[t].output = "json"
       /\ saved.completed[t].receipt = Filed(saved.completed[t].state, "json")

LEMMA PumpDelivers ==
  ASSUME NEW st, NEW out, NEW rc, NEW ac, NEW used, NEW pz, NEW cn,
         \A u \in CheckpointTasks(st) : out[u] = "json" /\ rc[u] = Filed(st[u], "json"),
         Pump(st, out, rc, ac, used, pz, cn)
  PROVE  \A u \in CheckpointTasks(state') : outputs'[u] = "json" /\ receipts'[u] = Filed(state'[u], "json")
BY PumpKeepsReusable

LEMMA DeliveredStep ==
  ASSUME DisciplinedLanes, AccountInv, [Next]_vars,
         \A t \in CheckpointTasks(state) : outputs[t] = "json" /\ receipts[t] = Filed(state[t], "json")
  PROVE  \A t \in CheckpointTasks(state') : outputs'[t] = "json" /\ receipts'[t] = Filed(state'[t], "json")
<1> DEFINE Goal == \A u \in CheckpointTasks(state') :
                     outputs'[u] = "json" /\ receipts'[u] = Filed(state'[u], "json")
<1>0. /\ state \in [Task -> TaskState]
      /\ outputs \in [Task -> Storable \cup {NoOutput}]
      /\ receipts \in [Task -> Receipt \cup {NoReceipt}]
  BY DEF AccountInv, TypeOK
<1>1. CASE FirstPump
  <2>1. CASE finalized
    BY <1>1, <2>1 DEF FirstPump
  <2>2. CASE ~finalized
    BY <1>1, <2>2, PumpDelivers DEF FirstPump
  <2> QED BY <2>1, <2>2
<1>2. CASE Pause
  BY <1>2 DEF Pause
<1>3. CASE Resume
  <2>1. PICK pz \in BOOLEAN, cn \in {cancelled, TRUE} :
          Pump(state, outputs, receipts, active, currentResources, pz, cn)
    BY <1>3 DEF Resume
  <2> QED BY <2>1, PumpDelivers
<1>4. CASE Cancel
  <2>1. PICK pz \in BOOLEAN, cn \in {cancelled, TRUE} :
          Pump(state, outputs, receipts, active, currentResources, pz, cn)
    BY <1>4 DEF Cancel
  <2> QED BY <2>1, PumpDelivers
<1>5. ASSUME NEW t \in Task, LaneSettles(t) PROVE Goal
  <2>1. CASE FailTask(t)
    <3> DEFINE st == [state EXCEPT ![t] = FailureStatus(t)]
               rc == [receipts EXCEPT ![t] = FiledByPump(FailureStatus(t))]
    <3>1. ~IsReusableState(FailureStatus(t))
      BY DEF FailureStatus, IsReusableState, IsDependencySatisfied, IsDependencyFailed
    <3>2. ASSUME NEW u \in CheckpointTasks(st)
          PROVE  outputs[u] = "json" /\ rc[u] = Filed(st[u], "json")
      <4>1. u \in Task /\ u # t /\ u \in CheckpointTasks(state)
        BY <1>0, <3>1, <3>2 DEF CheckpointTasks
      <4>2. rc[u] = receipts[u] /\ st[u] = state[u]
        BY <1>0, <4>1
      <4> QED BY <4>1, <4>2
    <3>3. Pump(st, outputs, rc, active \ {t}, Released(t), paused, cancelled)
      BY <2>1 DEF FailTask
    <3> HIDE DEF st, rc
    <3> QED BY <3>2, <3>3, PumpDelivers
  <2>2. ASSUME NEW r \in LaneResult, CompleteTask(t, r) PROVE Goal
    <3> DEFINE st == [state EXCEPT ![t] = CompletionStatus(r)]
               out == [outputs EXCEPT ![t] = r.payload]
               rc == [receipts EXCEPT ![t] = Filed(CompletionStatus(r), r.payload)]
    <3>1. ASSUME NEW u \in CheckpointTasks(st)
          PROVE  out[u] = "json" /\ rc[u] = Filed(st[u], "json")
      <4>1. u \in Task /\ (u # t => u \in CheckpointTasks(state)) /\ r.payload = "json"
        BY <1>0, <3>1 DEF CheckpointTasks, DisciplinedLanes
      <4>2. CASE u = t
        BY <1>0, <4>1, <4>2
      <4>3. CASE u # t
        <5>1. out[u] = outputs[u] /\ rc[u] = receipts[u] /\ st[u] = state[u]
          BY <1>0, <4>1, <4>3
        <5> QED BY <4>1, <4>3, <5>1
      <4> QED BY <4>2, <4>3
    <3>2. Pump(st, out, rc, active \ {t}, Released(t), paused, cancelled)
      BY <2>2 DEF CompleteTask
    <3> HIDE DEF st, out, rc
    <3> QED BY <3>1, <3>2, PumpDelivers
  <2>3. \A r \in LaneResult : ~FieldUnclonable(t, r) /\ ~OutputUnclonable(t, r)
    BY DEF DisciplinedLanes, FieldUnclonable, OutputUnclonable
  <2> QED BY <1>5, <2>1, <2>2, <2>3 DEF LaneSettles
<1>6. CASE UNCHANGED vars
  BY <1>6 DEF vars
<1> QED BY <1>1, <1>2, <1>3, <1>4, <1>5, <1>6 DEF Next

LEMMA DeliveredAlways ==
  ASSUME DisciplinedLanes
  PROVE  JobSpec => []DeliveredInv
<1>1. JobInit => DeliveredInv
  BY NoEntries
  DEF JobInit, StartFrom, DeliveredInv, CheckpointTasks, IsReusableState,
      IsDependencySatisfied
<1>2. JobTyped /\ DeliveredInv /\ [JobNext]_jobVars => DeliveredInv'
  <2> SUFFICES ASSUME JobTyped, DeliveredInv, [JobNext]_jobVars PROVE DeliveredInv'
    OBVIOUS
  <2>0. /\ AccountInv /\ SavedTyped
        /\ \A t \in CheckpointTasks(state) : outputs[t] = "json" /\ receipts[t] = Filed(state[t], "json")
    BY DEF JobTyped, DeliveredInv
  <2>a. ASSUME \A t \in CheckpointTasks(state') :
                 outputs'[t] = "json" /\ receipts'[t] = Filed(state'[t], "json"),
               saved' = saved
        PROVE  DeliveredInv'
    BY <2>a DEF DeliveredInv, CheckpointTasks
  <2>1. CASE SessionStep
    BY <2>0, <2>1, <2>a, DeliveredStep DEF SessionStep
  <2>2. CASE Export
    <3>1. saved' = Checkpoint /\ UNCHANGED <<state, outputs, receipts>>
      BY <2>2 DEF Export, vars
    <3>2. DOMAIN saved'.completed = CheckpointTasks(state)
      BY <3>1 DEF Checkpoint
    <3>3. \A t \in CheckpointTasks(state) : saved'.completed[t] = Entry(t)
      BY <3>1 DEF Checkpoint
    <3>4. ASSUME NEW t \in CheckpointTasks(state)
          PROVE  /\ saved'.completed[t].output = "json"
                 /\ saved'.completed[t].receipt = Filed(saved'.completed[t].state, "json")
      BY <2>0, <3>3, EntryFields
    <3> QED BY <2>0, <3>1, <3>2, <3>4 DEF DeliveredInv, CheckpointTasks
  <2>3. CASE NewSession
    <3>1. saved' = saved
      BY <2>3 DEF NewSession
    <3>2. CASE Construct(saved)
      <4>1. ASSUME NEW t \in CheckpointTasks(state')
            PROVE  outputs'[t] = "json" /\ receipts'[t] = Filed(state'[t], "json")
        BY <2>0, <3>2, <4>1, RestoredOnly, RestoredExactly DEF DeliveredInv
      <4> QED BY <2>a, <3>1, <4>1
    <3>3. CASE Construct(NoCheckpoint)
      BY <2>a, <3>1, <3>3, NothingRestored
    <3> QED BY <2>3, <3>2, <3>3, SessionStarts
  <2>4. CASE UNCHANGED jobVars
    BY <2>0, <2>4, <2>a, DeliveredStep DEF jobVars
  <2> QED BY <2>1, <2>2, <2>3, <2>4 DEF JobNext
<1> QED BY <1>1, <1>2, JobTypedAlways, PTL DEF JobSpec

(* A new session starts in Init.                                           *)
LEMMA SessionInit ==
  ASSUME JobTyped, ExportInv, DeliveredInv, NewSession
  PROVE  Init'
<1>0. AccountInv'
  BY JobTypedStep DEF JobTyped, JobNext
<1>1. state' \in [Task -> TaskState]
  BY <1>0 DEF AccountInv, TypeOK
<1>2. CASE Admits(saved, revision') /\ Construct(saved)
  <2> DEFINE R == DOMAIN saved.completed
  <2>1. R \in SUBSET Task /\ DownwardClosed(R)
    BY <1>2 DEF JobTyped, SavedTyped, ExportInv, ExportsAdmissible, Admits
  <2>2. \A t \in R : /\ IsReusableState(state'[t])
                     /\ outputs'[t] = "json" /\ receipts'[t] = Filed(state'[t], "json")
    BY <1>2, RestoredExactly DEF JobTyped, DeliveredInv, Admits, EntriesAdmissible
  <2>3. /\ \A t \in Task \ R : state'[t] = "PENDING"
        /\ outputs' = [t \in Task |-> IF t \in R THEN "json" ELSE NoOutput]
        /\ receipts' = [t \in Task |-> IF t \in R THEN Filed(state'[t], "json") ELSE NoReceipt]
    BY <1>2, <2>1, <2>2 DEF Construct, Restored
  <2>4. /\ active' = {} /\ aborted' = {} /\ currentResources' = [c \in Class |-> 0]
        /\ paused' = FALSE /\ cancelled' = FALSE /\ finalized' = FALSE
        /\ result' = Unresolved /\ pumpQueued' = TRUE
    BY <1>2 DEF Construct
  <2> HIDE DEF R
  <2>5. \A t \in Task : IF t \in R THEN IsReusableState(state'[t])
                                   ELSE state'[t] = "PENDING"
    BY <2>2, <2>3
  <2>6. \E kept \in [R -> RestoredPayload] :
          /\ outputs' = [t \in Task |-> IF t \in R THEN kept[t] ELSE NoOutput]
          /\ receipts' = [t \in Task |-> IF t \in R THEN Filed(state'[t], kept[t]) ELSE NoReceipt]
    <3> DEFINE kept == [t \in R |-> "json"]
    <3>1. kept \in [R -> RestoredPayload] /\ \A t \in R : kept[t] = "json"
      BY DEF RestoredPayload
    <3> HIDE DEF kept
    <3> QED BY <2>3, <3>1
  <2> QED BY <1>1, <2>1, <2>4, <2>5, <2>6 DEF Init, Restorable, StartFrom, DownwardClosed
<1>3. CASE Construct(NoCheckpoint)
  <2>1. /\ \A t \in Task : state'[t] = "PENDING"
        /\ outputs' = [t \in Task |-> NoOutput]
        /\ receipts' = [t \in Task |-> NoReceipt]
        /\ active' = {} /\ aborted' = {} /\ currentResources' = [c \in Class |-> 0]
        /\ paused' = FALSE /\ cancelled' = FALSE /\ finalized' = FALSE
        /\ result' = Unresolved /\ pumpQueued' = TRUE
    BY <1>3, NoEntries DEF Construct, Restored
  <2>2. \E kept \in [{} -> RestoredPayload] : TRUE
    <3>1. [t \in {} |-> "json"] \in [{} -> RestoredPayload]
      OBVIOUS
    <3> QED BY <3>1
  <2>3. StartFrom({})'
    BY <1>1, <2>1, <2>2 DEF StartFrom
  <2> QED BY <2>3 DEF Init, Restorable, DownwardClosed
<1> QED BY <1>2, <1>3, SessionStarts

LEMMA DisciplineSuffices ==
  ASSUME DisciplinedLanes
  PROVE  ClonableOutputs /\ MarkIsTheScheduler
BY DEF DisciplinedLanes, ClonableOutputs, MarkIsTheScheduler

(* Seen through the variables of RunSession a job is a chain of runs: each *)
(* step is a step of the scheduler or starts a run it could have started.  *)
THEOREM JobsAreRuns ==
  ASSUME DisciplinedLanes
  PROVE  JobSpec => Init /\ [][Next \/ Init']_vars
<1>1. JobInit => Init
  BY DEF JobInit, Init, Restorable, DownwardClosed
<1>2. JobTyped /\ ExportInv /\ DeliveredInv /\ [JobNext]_jobVars => [Next \/ Init']_vars
  <2> SUFFICES ASSUME JobTyped, ExportInv, DeliveredInv, [JobNext]_jobVars
               PROVE  [Next \/ Init']_vars
    OBVIOUS
  <2>1. CASE NewSession
    BY <2>1, SessionInit
  <2> QED BY <2>1 DEF JobNext, SessionStep, Export, jobVars
<1> QED BY <1>1, <1>2, DisciplineSuffices, JobTypedAlways, ExportAlways, DeliveredAlways, PTL
        DEF JobSpec

(* The guarantees of one run hold in every session of a job, restored or   *)
(* not, if lanes are disciplined (JSON, with lists where _finalize goes    *)
(* through lists): the books balance, dependencies come first, no capacity *)
(* is idle, no session hangs, and every receipt tells the truth.           *)
THEOREM EverySessionIsSafe ==
  ASSUME DisciplinedLanes
  PROVE  JobSpec => [](/\ ResourceAccounting /\ DependencyOrder
                       /\ WorkConserving /\ NoStall /\ FinalAccount)
<1>1. AccountInv => ResourceAccounting
  BY DEF AccountInv
<1>2. ProgressInv => AccountInv /\ NoStall /\ WorkConserving
  BY DEF ProgressInv
<1>3. ExportInv => DependencyOrder
  BY DEF ExportInv, ClosedInv
<1>4. AccountInv /\ FinalInv /\ [Next]_vars => FinalInv'
  BY FinalStep
<1>5. JobSpec => Init /\ [][Next \/ Init']_vars
  BY JobsAreRuns
<1>6. JobSpec => []ProgressInv
  BY <1>5, ProgressInit, ProgressStep, PTL
<1>7. JobSpec => []FinalInv
  BY <1>2, <1>4, <1>5, <1>6, FinalInit, PTL
<1>8. JobSpec => []ExportInv
  BY DisciplineSuffices, ExportAlways
<1> QED BY <1>1, <1>2, <1>3, <1>6, <1>7, <1>8, FinalTruth, PTL
=============================================================================
