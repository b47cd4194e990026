--------------------------- MODULE CheckpointResume ---------------------------
(***************************************************************************)
(* A job that survives its process: the caller exports checkpoints while a *)
(* session runs, the process may die at any time, and the caller starts a  *)
(* new session of the job, from the last export when _applyCheckpoint      *)
(* admits it and from nothing when it does not.  The caller may also have  *)
(* changed the plan in between (another graph fingerprint or checkpointRef,*)
(* a revision here).  One session lives at a time; src/src/fabric.js.      *)
(***************************************************************************)
EXTENDS RunSession

CONSTANTS
  Revision,     \* revisions of the plan: spec fingerprint and checkpointRef
  Unbound,      \* those among them without a checkpointRef
  MaxSessions   \* bound on the sessions started for the job

ASSUME JobAssumption ==
  Revision # {} /\ Unbound \subseteq Revision /\ MaxSessions \in Nat \ {0}

VARIABLES
  revision,   \* revision of the live session's plan
  saved,      \* the last exported checkpoint, or NoCheckpoint
  sessions,   \* number of sessions started
  madeUnder   \* history: revision under which the output of a task was made

jobVars == <<vars, revision, saved, sessions, madeUnder>>

NoCheckpoint == [revision |-> "none", completed |-> <<>>]
Never == "never"

(* getCheckpoint: an entry for every reusable task; made is history.       *)
Entry(t) == [state |-> state[t], output |-> outputs[t], receipt |-> receipts[t],
             made |-> madeUnder[t]]

Checkpoint ==
  [revision |-> revision,
   completed |-> [t \in CheckpointTasks(state) |-> Entry(t)]]

Exists(ck) == ck # NoCheckpoint

(* Mutant of BindsTo: labels match, the plan is not looked at.             *)
BindsToLabels(ck, rev) == TRUE

(* The bindings of _applyCheckpoint: runId and stateRef are the job's, the *)
(* new plan must name a checkpointRef, and that and the fingerprint must   *)
(* be the exporting plan's.                                                *)
BindsTo(ck, rev) == rev \notin Unbound /\ ck.revision = rev

(* The checks of its loop over the entries: a reusable state and a receipt. *)
EntriesAdmissible(ck) ==
  \A t \in DOMAIN ck.completed :
    /\ IsReusableState(ck.completed[t].state)
    /\ ck.completed[t].receipt # NoReceipt

Admits(ck, rev) == Exists(ck) /\ BindsTo(ck, rev) /\ EntriesAdmissible(ck)
-----------------------------------------------------------------------------
JobInit ==
  /\ StartFrom({})
  /\ revision \in Revision
  /\ saved = NoCheckpoint
  /\ sessions = 1
  /\ madeUnder = [t \in Task |-> Never]

(* A step of the live session; an output that appears was made by it.      *)
SessionStep ==
  /\ Next
  /\ madeUnder' = [t \in Task |-> IF outputs'[t] # outputs[t] THEN revision
                                  ELSE madeUnder[t]]
  /\ UNCHANGED <<revision, saved, sessions>>

(* getCheckpoint throws when an entry cannot be hashed.                    *)
Export ==
  /\ Serialisable(state, outputs)
  /\ saved' = Checkpoint
  /\ UNCHANGED <<vars, revision, sessions, madeUnder>>

(* Mutant of Restored: the entries are checked and then forgotten.         *)
RestoredNone(ck) == {}

(* Every entry of an admitted checkpoint sets its task's three records.    *)
Restored(ck) == DOMAIN ck.completed

(* A constructor call of the new session.                                  *)
Construct(ck) ==
  LET R == Restored(ck)
  IN  /\ state' = [t \in Task |-> IF t \in R THEN ck.completed[t].state ELSE "PENDING"]
      /\ outputs' = [t \in Task |-> IF t \in R THEN ck.completed[t].output ELSE NoOutput]
      /\ receipts' = [t \in Task |-> IF t \in R THEN ck.completed[t].receipt ELSE NoReceipt]
      /\ active' = {} /\ aborted' = {}
      /\ currentResources' = [c \in Class |-> 0]
      /\ paused' = FALSE /\ cancelled' = FALSE /\ finalized' = FALSE
      /\ result' = Unresolved
      /\ pumpQueued' = TRUE
      /\ madeUnder' = [t \in Task |-> IF t \in R THEN ck.completed[t].made ELSE Never]

(* The process dies with all that its session held, or the caller drops    *)
(* the session; then the caller starts over, perhaps with another plan.    *)
NewSession ==
  /\ sessions < MaxSessions
  /\ sessions' = sessions + 1
  /\ revision' \in Revision
  /\ Construct(IF Admits(saved, revision') THEN saved ELSE NoCheckpoint)
  /\ saved' = saved

JobNext == SessionStep \/ Export \/ NewSession

JobSpec == JobInit /\ [][JobNext]_jobVars
-----------------------------------------------------------------------------
(* Work in a checkpoint is never done again: while a session lives whose   *)
(* plan the checkpoint binds to, the tasks it holds are neither waiting    *)
(* nor running, and their records are those that were exported.            *)
NoRework ==
  Exists(saved) /\ BindsTo(saved, revision) =>
    \A t \in DOMAIN saved.completed : Entry(t) = saved.completed[t]

(* Every output a session holds was made under the plan it runs, however   *)
(* often the plan changed and changed back: no stale output is ever read   *)
(* by a dependent.                                                         *)
OutputsOfThisPlan ==
  \A t \in Task : outputs[t] # NoOutput => madeUnder[t] = revision

(* What the exporter writes the constructor accepts: every entry of an     *)
(* export is admissible.  And it is closed under dependencies, which the   *)
(* constructor does not ask: the Init of RunSession that most lanes need,  *)
(* with restored tasks whose dependencies are restored, is the sessions'.  *)
ExportsAdmissible ==
  Exists(saved) => /\ EntriesAdmissible(saved)
                   /\ DownwardClosed(DOMAIN saved.completed)
===============================================================================
