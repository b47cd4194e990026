------------------------- MODULE CreationCycleProofs -------------------------
(***************************************************************************)
(* Proofs about CreationCycle: that a cycle is a run of the scheduler, and *)
(* that what it lets the host commit is what was tested and proven, for    *)
(* any number of candidates, all contents, works and writes of the host.   *)
(***************************************************************************)
EXTENDS CreationCycle, RunSessionProofs, MergePlanProofs

(* Works return lists of contradictions, where they return any: nothing in *)
(* the code asks them to.                                                  *)
ListsReturned == \A t \in Candidate : \A o \in CloneWork[t] : o.listed

(* Lanes of a cycle deliver COMPLETED, and with such works are disciplined. *)
LEMMA CycleLanes ==
  /\ \A r \in LaneResult : r.status = "COMPLETED"
  /\ MarkIsTheScheduler
  /\ ListsReturned => DisciplinedLanes
<1>1. /\ Delivered.status = "COMPLETED" /\ Delivered.payload = "json"
      /\ Misreported.status = "COMPLETED"
  BY DEF Delivered, Misreported
<1>2. ASSUME NEW r \in LaneResult
      PROVE  r = Delivered \/ \E t \in Candidate : \E o \in CloneWork[t] : r = ReportOf(o)
  BY CreationAssumption
<1>3. ASSUME NEW r \in LaneResult
      PROVE  r.status = "COMPLETED" /\ (ListsReturned => r.payload = "json")
  BY <1>1, <1>2 DEF ReportOf, ListsReturned
<1> QED
  BY <1>3 DEF MarkIsTheScheduler, DisciplinedLanes

LEMMA CycleTasks ==
  /\ N \in Task /\ Candidate \subseteq Task /\ N \notin Candidate
  /\ Task = Candidate \cup {N} /\ Deps[N] = Candidate /\ IsFiniteSet(Candidate)
<1>1. N \in Nat /\ N >= 2 /\ Deps[N] = Candidate
  BY CreationAssumption, ResourceAssumption
<1>2. IsFiniteSet(1..(N - 1))
  BY <1>1, FS_Interval
<1> QED
  BY <1>1, <1>2 DEF Task, Candidate

(* A candidate is reported as the work that it is made of.                 *)
LEMMA ReportsAreResults ==
  ASSUME NEW t \in Candidate, NEW from, NEW c \in WorkOf(t, from)
  PROVE  ReportOf(c) \in LaneResult
<1>1. PICK o \in CloneWork[t] : c = CloneCandidate(from, CycleRef, o, CloneStatus(o))
  BY DEF WorkOf
<1> DEFINE s == CloneStatus(o)
<1> HIDE DEF s
<1>2. c.listed = o.listed
  <2>1. CloneCandidate(from, CycleRef, o, s).listed = o.listed
    BY DEF CloneCandidate
  <2> QED BY <1>1, <2>1 DEF s
<1>3. ReportOf(c) = ReportOf(o)
  BY <1>2 DEF ReportOf
<1> QED BY <1>3, CreationAssumption

(* Every step of a cycle is a step of its scheduler or leaves it alone. *)
LEMMA CycleStepIsRunStep == [CycleNext]_cycleVars => [Next]_vars
<1> SUFFICES ASSUME [CycleNext]_cycleVars PROVE [Next]_vars
  OBVIOUS
<1>1. CASE SchedulerStep
  BY <1>1 DEF SchedulerStep, Next
<1>2. CASE LaneThrows
  BY <1>2 DEF LaneThrows, Next, LaneSettles
<1>3. ASSUME NEW t \in Task, NEW r \in LaneResult, CompleteTask(t, r)
      PROVE  Next
  BY <1>3 DEF Next, LaneSettles
<1>4. CASE IntegrationDelivers
  BY <1>3, <1>4, CycleTasks, CreationAssumption DEF IntegrationDelivers
<1>5. ASSUME NEW t \in Candidate, CandidateDelivers(t)
      PROVE  Next
  <2>1. PICK c \in WorkOf(t, source) : CompleteTask(t, ReportOf(c))
    BY <1>5 DEF CandidateDelivers
  <2>2. ReportOf(c) \in LaneResult
    BY ReportsAreResults
  <2> QED
    BY <1>3, <2>1, <2>2, CycleTasks
<1>6. CASE FinishCycle \/ HostWrites \/ CommitBody \/ UNCHANGED cycleVars
  BY <1>6 DEF FinishCycle, HostWrites, CommitBody, cycleVars
<1> QED
  BY <1>1, <1>2, <1>4, <1>5, <1>6 DEF CycleNext

LEMMA CycleStartsRun == CycleInit => Init
BY DEF CycleInit, Init, Restorable

LEMMA CycleIsRun == CycleSpec => Spec
BY CycleStartsRun, CycleStepIsRunStep, PTL DEF CycleSpec, Spec

(* A creation cycle is a run of the scheduler, so all that the scheduler   *)
(* guarantees holds in it, restored or not: the books balance, work comes  *)
(* after what it reads, no capacity is idle, nothing hangs, and the run's  *)
(* receipt tells the truth.  It is stated where works return for           *)
(* contradictions a list or nothing, which nothing checks: a cycle whose   *)
(* work returns something else may never resolve.                          *)
THEOREM EveryCycleIsSafe ==
  ASSUME ListsReturned
  PROVE  CycleSpec => [](/\ ResourceAccounting /\ DependencyOrder
                         /\ WorkConserving /\ NoStall /\ FinalAccount)
BY CycleIsRun, CycleLanes, ResourcesAccounted, DependenciesFirst, ConservesWork,
   NeverStalls, ReceiptsTellTheTruth, PTL
-----------------------------------------------------------------------------
(***************************************************************************)
(* What candidates, integrations and body plans are made of.               *)
(***************************************************************************)
LEMMA MadeFields ==
  ASSUME NEW from, NEW o, NEW status
  PROVE  LET c == CloneCandidate(from, CycleRef, o, status)
         IN  /\ c.stateRef = CycleRef /\ c.status = status /\ c.failed = o.failed
             /\ c.authorised = o.authorised /\ c.evidenced = o.evidenced /\ c.tests = o.tests
             /\ c.changes = Diff(from, o.after) /\ c.source = from /\ c.after = o.after
BY DEF CloneCandidate

LEMMA VouchedRecord ==
  ASSUME NEW from, NEW o, NEW status, NEW x
  PROVE  [CloneCandidate(from, CycleRef, o, status) EXCEPT !.vouched = x] =
           [stateRef |-> CycleRef, status |-> status, failed |-> o.failed,
            authorised |-> o.authorised, evidenced |-> o.evidenced, tests |-> o.tests,
            vouched |-> x, changes |-> Diff(from, o.after),
            source |-> from, after |-> o.after, listed |-> o.listed]
BY DEF CloneCandidate

LEMMA VouchedForAll ==
  ASSUME NEW cands, NEW v
  PROVE  DOMAIN Vouched(cands, v) = DOMAIN cands
BY DEF Vouched

(* The body's or the clone's custom predicate touches nothing else.        *)
LEMMA VouchedFields ==
  ASSUME NEW cands, NEW v, NEW i \in DOMAIN cands, NEW from, NEW o, NEW status,
         cands[i] = CloneCandidate(from, CycleRef, o, status)
  PROVE  LET c == Vouched(cands, v)[i]
         IN  /\ c.stateRef = CycleRef /\ c.status = status /\ c.failed = o.failed
             /\ c.authorised = o.authorised /\ c.evidenced = o.evidenced /\ c.tests = o.tests
             /\ c.changes = Diff(from, o.after)
             /\ c.vouched <=> from = v
<1>1. Vouched(cands, v)[i] = [cands[i] EXCEPT !.vouched = cands[i].source = v]
  BY DEF Vouched
<1>2. cands[i].source = from
  BY DEF CloneCandidate
<1>3. Vouched(cands, v)[i] = [CloneCandidate(from, CycleRef, o, status) EXCEPT !.vouched = from = v]
  BY <1>1, <1>2
<1> DEFINE x == from = v
<1> HIDE DEF x
<1>4. Vouched(cands, v)[i] =
        [stateRef |-> CycleRef, status |-> status, failed |-> o.failed,
         authorised |-> o.authorised, evidenced |-> o.evidenced, tests |-> o.tests,
         vouched |-> x, changes |-> Diff(from, o.after),
         source |-> from, after |-> o.after, listed |-> o.listed]
  BY <1>3, VouchedRecord DEF x
<1> DEFINE c == Vouched(cands, v)[i]
<1>5. /\ c.stateRef = CycleRef /\ c.status = status /\ c.failed = o.failed
      /\ c.authorised = o.authorised /\ c.evidenced = o.evidenced /\ c.tests = o.tests
      /\ c.changes = Diff(from, o.after)
  BY <1>4
<1>6. c.vouched = x
  BY <1>4
<1> QED BY <1>5, <1>6 DEF x

Commits(v, bp, w) == Committed(v, bp.mergePlan) = {w}

(* What the tests passed on, and what a commit of the body plan makes of   *)
(* the content it was planned on: the same, if it may be committed at all. *)
LEMMA PlanCommits ==
  ASSUME NEW v \in JsonState, NEW from \in JsonState, NEW o, o.after \in JsonState,
         NEW status, NEW policy, NEW c, NEW bp,
         c = CloneCandidate(from, CycleRef, o, status),
         bp = BodyPlan(v, CycleRef, c, Requirements, policy), bp.mergePlan.commitAllowed
  PROVE  /\ from = v
         /\ Requirements.tests => o.tests = "passed"
         /\ Commits(v, bp, o.after)
<1> DEFINE cand == CloneCandidate(from, CycleRef, o, status)
           cands == Vouched(<<cand>>, v)
           plan == MergePlan(CycleRef, cands, Requirements, policy)
<1>1. bp.mergePlan = plan
  BY DEF BodyPlan
<1>2. /\ DOMAIN <<cand>> = {1} /\ <<cand>>[1] = cand
  OBVIOUS
<1>3. /\ DOMAIN cands = {1}
      /\ cands[1].changes = Diff(from, o.after) /\ cands[1].tests = o.tests
      /\ cands[1].vouched <=> from = v
  <2>1. DOMAIN cands = {1}
    BY <1>2, VouchedForAll
  <2> QED BY <1>2, <2>1, VouchedFields
<1> HIDE DEF cand, cands
<1>4. plan.operations # {}
  <2>1. plan.commitAllowed
    BY <1>1 DEF cand
  <2>2. plan.commitAllowed = CommitAllowed(plan.operations, plan.conflicts # {}, policy)
    BY PlanFields
  <2> QED BY <2>1, <2>2 DEF CommitAllowed
<1>5. /\ plan.operations = UNION {cands[i].changes : i \in Accepted(plan.decisions)}
      /\ \A i \in Accepted(plan.decisions) :
           i \in DOMAIN cands /\ i \in Eligible(cands, CycleRef, Requirements)
  BY PlanFields, AcceptedMeans
<1>6. Accepted(plan.decisions) = {1}
  BY <1>3, <1>4, <1>5
<1>7. plan.operations = Diff(from, o.after)
  BY <1>3, <1>5, <1>6
<1>8. Passes(cands[1], CycleRef, Requirements)
  BY <1>5, <1>6 DEF Eligible
<1>9. from = v /\ (Requirements.tests => o.tests = "passed")
  BY <1>3, <1>8 DEF Passes
<1>10. SetToSeq(plan.operations) \in SetToSeqs(Diff(v, o.after))
  BY <1>7, <1>9, DiffIsApart, SomeOrder DEF ApartSet
<1>11. Committed(v, plan) = {o.after}
  BY <1>10, DiffOutcome DEF Committed
<1> QED BY <1>1, <1>9, <1>11 DEF Commits

(* An integration merges works of the content it was made from, and what   *)
(* it makes is again content of a body.                                    *)
MadeBy(cands) ==
  /\ DOMAIN cands = Candidate
  /\ \A t \in Candidate : \E from \in Source : \E o \in CloneWork[t] :
       cands[t] = CloneCandidate(from, CycleRef, o, CloneStatus(o))

LEMMA WorksApart ==
  ASSUME NEW cands, MadeBy(cands), NEW v
  PROVE  /\ Proposed(Vouched(cands, v))
         /\ \A t \in Candidate : \A c \in Vouched(cands, v)[t].changes :
              cands[t].after \in JsonState /\ After(c) = At(cands[t].after, c.path)
<1>1. DOMAIN Vouched(cands, v) = Candidate /\ IsFiniteSet(Candidate)
  BY CycleTasks DEF Vouched, MadeBy
<1>2. ASSUME NEW t \in Candidate
      PROVE  LET D == Vouched(cands, v)[t].changes
             IN  /\ IsFiniteSet(D)
                 /\ \A c \in D : IsEdit(c) /\ cands[t].after \in JsonState
                                 /\ After(c) = At(cands[t].after, c.path)
  <2>1. PICK from \in Source, o \in CloneWork[t] :
          cands[t] = CloneCandidate(from, CycleRef, o, CloneStatus(o))
    BY DEF MadeBy
  <2>2. from \in JsonState /\ o.after \in JsonState
    BY CreationAssumption
  <2>3. t \in DOMAIN cands
    BY DEF MadeBy
  <2>4. Vouched(cands, v)[t].changes = Diff(from, o.after)
    BY <2>1, <2>3, VouchedFields
  <2>5. cands[t].after = o.after
    BY <2>1, MadeFields
  <2>6. ApartSet(Diff(from, o.after))
    BY <2>2, DiffIsApart
  <2>7. \A c \in Diff(from, o.after) : IsEdit(c) /\ After(c) = At(o.after, c.path)
    BY <2>2, DiffChange
  <2> QED BY <2>2, <2>4, <2>5, <2>6, <2>7 DEF ApartSet
<1> QED BY <1>1, <1>2 DEF Proposed

LEMMA MergedIsContent ==
  ASSUME NEW cands, MadeBy(cands), NEW from \in JsonState, NEW policy,
         NEW merged \in Committed(from, IntegrationPlan(from, CycleRef, cands, Requirements, policy))
  PROVE  /\ merged \in JsonState
         /\ Results(from,
                    IntegrationPlan(from, CycleRef, cands, Requirements, policy).operations,
                    merged)
<1> DEFINE voted == Vouched(cands, from)
           plan == MergePlan(CycleRef, voted, Requirements, policy)
           C == plan.operations
           W == {cands[t].after : t \in {u \in Candidate : cands[u].after \in JsonState}}
<1>1. IntegrationPlan(from, CycleRef, cands, Requirements, policy) = plan
  BY DEF IntegrationPlan
<1>2. Proposed(voted) /\ DOMAIN voted = Candidate
  <2>1. Proposed(voted)
    BY WorksApart
  <2>2. DOMAIN voted = Candidate
    BY DEF Vouched, MadeBy
  <2> QED BY <2>1, <2>2
<1>3. ApartSet(C)
  <2> HIDE DEF voted
  <2> QED BY <1>2, PlanIsApart
<1>4. \A c \in C : \E w \in W : After(c) = At(w, c.path)
  <2> SUFFICES ASSUME NEW c \in C PROVE \E w \in W : After(c) = At(w, c.path)
    OBVIOUS
  <2>1. C = UNION {voted[i].changes : i \in Accepted(plan.decisions)}
    BY PlanFields
  <2>2. PICK i \in Accepted(plan.decisions) : c \in voted[i].changes
    BY <2>1
  <2>3. i \in Candidate
    BY <1>2, AcceptedMeans
  <2> QED BY <2>2, <2>3, WorksApart
<1>5. W \in SUBSET JsonState /\ IsFiniteSet(W)
  <2> DEFINE D == {u \in Candidate : cands[u].after \in JsonState}
             f == [t \in D |-> cands[t].after]
  <2>1. IsFiniteSet(D)
    BY CycleTasks, FS_Subset
  <2>2. f \in Surjection(D, W)
    BY DEF Surjection
  <2>3. W \in SUBSET JsonState
    OBVIOUS
  <2> HIDE DEF D, f, W
  <2> QED BY <2>1, <2>2, <2>3, FS_Surjection
<1>6. Doc(from)
  BY StateFacts
<1> HIDE DEF W, voted, plan, C
<1>7. SetToSeq(C) \in SetToSeqs(C)
  BY <1>3, SomeOrder DEF ApartSet
<1>8. merged \in Outcome(from, SetToSeq(C))
  BY <1>1 DEF Committed, C
<1>9. \A c \in C : Applicable(from, c)
  BY <1>3, <1>6, <1>7, <1>8, OutcomeOfSet
<1>10. Results(from, C, merged)
  BY <1>3, <1>6, <1>7, <1>8, <1>9, OutcomeOfSet
<1>11. merged \in JsonState
  BY <1>3, <1>4, <1>5, <1>9, <1>10, MergedState
<1> QED BY <1>1, <1>10, <1>11 DEF C
-----------------------------------------------------------------------------
(***************************************************************************)
(* What the scheduler's steps do to a cycle: a task delivers in the step   *)
(* that hands its output over and in no other, and a run that is over      *)
(* stays over.                                                             *)
(***************************************************************************)
Delivers(t) == IsDependencySatisfied(state[t])

ResolvedIsFinal == result # Unresolved => finalized

LEMMA PumpDelivers ==
  ASSUME NEW st, NEW out, NEW rc, NEW ac, NEW used, NEW pz, NEW cn,
         Pump(st, out, rc, ac, used, pz, cn)
  PROVE  /\ \A t \in Task : Delivers(t)' <=> IsDependencySatisfied(st[t])
         /\ finalized => finalized'
         /\ ResolvedIsFinal => ResolvedIsFinal'
<1>1. PICK settled, B, L :
        /\ B \in SUBSET Pending(st)
        /\ L \in SUBSET Pending(settled)
        /\ PumpEffect(st, out, rc, ac, used, pz, cn, settled, B, L)
  BY PumpShape
<1>2. /\ settled = Settle(st, B, cn)
      /\ state' = [t \in Task |-> IF t \in L THEN "RUNNING" ELSE settled[t]]
      /\ IF active' = {} /\ Pending(state') = {}
           THEN Finalize(state', out, receipts', cn)
           ELSE UNCHANGED <<finalized, result>>
  BY <1>1 DEF PumpEffect
<1>3. ASSUME NEW t \in Task, IsDependencySatisfied(st[t])
      PROVE  settled[t] = st[t] /\ t \notin L
  BY <1>1, <1>2, <1>3 DEF Settle, Pending, IsDependencySatisfied
<1>4. ASSUME NEW t \in Task, IsDependencySatisfied(state'[t])
      PROVE  IsDependencySatisfied(st[t])
  BY <1>2, <1>4 DEF Settle, IsDependencySatisfied, IsDependencyFailed
<1>5. \A t \in Task : Delivers(t)' <=> IsDependencySatisfied(st[t])
  BY <1>2, <1>3, <1>4 DEF Delivers
<1>6. (finalized => finalized') /\ (ResolvedIsFinal => ResolvedIsFinal')
  BY <1>2 DEF Finalize, ResolvedIsFinal
<1> QED BY <1>5, <1>6

(* Steps of the scheduler in which no lane hands its output over. *)
Quiet ==
  /\ \A t \in Task : Delivers(t)' <=> Delivers(t)
  /\ finalized => finalized'
  /\ ResolvedIsFinal => ResolvedIsFinal'

LEMMA ControlIsQuiet ==
  ASSUME FirstPump \/ Pause \/ Resume \/ Cancel
  PROVE  Quiet
<1>1. CASE FirstPump
  <2>1. CASE finalized
    BY <1>1, <2>1 DEF FirstPump, Quiet, Delivers, ResolvedIsFinal
  <2>2. CASE ~finalized
    BY <1>1, <2>2, PumpDelivers DEF FirstPump, Quiet, Delivers
  <2> QED BY <2>1, <2>2
<1>2. CASE Pause
  BY <1>2 DEF Pause, Quiet, Delivers, ResolvedIsFinal
<1>3. CASE Resume
  BY <1>3, PumpDelivers DEF Resume, Quiet, Delivers
<1>4. CASE Cancel
  BY <1>4, PumpDelivers DEF Cancel, Quiet, Delivers
<1> QED BY <1>1, <1>2, <1>3, <1>4

LEMMA FailureIsQuiet ==
  ASSUME AccountInv, NEW t \in Task, FailTask(t)
  PROVE  Quiet
<1> DEFINE st == [state EXCEPT ![t] = FailureStatus(t)]
           rc == [receipts EXCEPT ![t] = FiledByPump(FailureStatus(t))]
<1>1. Pump(st, outputs, rc, active \ {t}, Released(t), paused, cancelled)
  BY DEF FailTask
<1>2. \A u \in Task : IsDependencySatisfied(st[u]) <=> Delivers(u)
  <2>1. DOMAIN state = Task /\ state[t] = "RUNNING"
    BY DEF FailTask, Leave, AccountInv, TypeOK, ActiveRunning
  <2>2. ~IsDependencySatisfied(FailureStatus(t))
    BY DEF FailureStatus, IsDependencySatisfied, IsDependencyFailed
  <2> QED BY <2>1, <2>2 DEF Delivers, IsDependencySatisfied
<1> HIDE DEF st, rc
<1>3. /\ \A u \in Task : Delivers(u)' <=> IsDependencySatisfied(st[u])
      /\ finalized => finalized'
      /\ ResolvedIsFinal => ResolvedIsFinal'
  BY <1>1, PumpDelivers
<1> QED BY <1>2, <1>3 DEF Quiet

LEMMA DeliveryDelivers ==
  ASSUME AccountInv, NEW t \in Task, NEW r, r.status = "COMPLETED", CompleteTask(t, r)
  PROVE  /\ t \in active /\ ~Delivers(t)
         /\ \A u \in Task : Delivers(u)' <=> Delivers(u) \/ u = t
         /\ finalized => finalized'
         /\ ResolvedIsFinal => ResolvedIsFinal'
<1> DEFINE s == CompletionStatus(r)
           st == [state EXCEPT ![t] = s]
           out == [outputs EXCEPT ![t] = r.payload]
           rc == [receipts EXCEPT ![t] = Filed(s, r.payload)]
<1>1. Pump(st, out, rc, active \ {t}, Released(t), paused, cancelled)
  BY DEF CompleteTask
<1>2. DOMAIN state = Task /\ t \in active /\ state[t] = "RUNNING"
  BY DEF CompleteTask, Leave, AccountInv, TypeOK, ActiveRunning
<1>4. IsDependencySatisfied(s)
  BY DEF CompletionStatus, IsDependencySatisfied, IsDependencyFailed
<1>5. ~Delivers(t)
  BY <1>2 DEF Delivers, IsDependencySatisfied
<1> HIDE DEF s
<1>6. \A u \in Task : IsDependencySatisfied(st[u]) <=> Delivers(u) \/ u = t
  BY <1>2, <1>4 DEF Delivers
<1> HIDE DEF st, out, rc
<1>7. /\ \A u \in Task : Delivers(u)' <=> IsDependencySatisfied(st[u])
      /\ finalized => finalized'
      /\ ResolvedIsFinal => ResolvedIsFinal'
  BY <1>1, PumpDelivers
<1> QED BY <1>2, <1>5, <1>6, <1>7
-----------------------------------------------------------------------------
(***************************************************************************)
(* The invariant of a cycle.                                               *)
(***************************************************************************)
(* What it needs of its run, whatever works return: no lane is active in a *)
(* run that is over, so none delivers any more.                            *)
OverIsEmpty == finalized => active = {}

RunInv == AccountInv /\ DependencyOrder /\ OverIsEmpty

LEMMA PumpEmpty ==
  ASSUME NEW st, NEW out, NEW rc, NEW ac, NEW used, NEW pz, NEW cn, ~finalized,
         Pump(st, out, rc, ac, used, pz, cn)
  PROVE  OverIsEmpty'
BY DEF Pump, OverIsEmpty

LEMMA EmptyStep == OverIsEmpty /\ [Next]_vars => OverIsEmpty'
<1> SUFFICES ASSUME OverIsEmpty, [Next]_vars PROVE OverIsEmpty'
  OBVIOUS
<1>1. CASE FirstPump
  <2>1. CASE finalized
    BY <1>1, <2>1 DEF FirstPump, OverIsEmpty
  <2>2. CASE ~finalized
    BY <1>1, <2>2, PumpEmpty DEF FirstPump
  <2> QED BY <2>1, <2>2
<1>2. CASE Pause
  BY <1>2 DEF Pause, OverIsEmpty
<1>3. CASE Resume
  BY <1>3, PumpEmpty DEF Resume
<1>4. CASE Cancel
  BY <1>4, PumpEmpty DEF Cancel
<1>5. ASSUME NEW t \in Task, LaneSettles(t) PROVE OverIsEmpty'
  <2>1. ~finalized
    BY <1>5 DEF LaneSettles, FailTask, CompleteTask, FieldUnclonable, OutputUnclonable,
                Leave, OverIsEmpty
  <2>2. CASE FailTask(t)
    BY <2>1, <2>2, PumpEmpty DEF FailTask
  <2>3. ASSUME NEW r, CompleteTask(t, r) PROVE OverIsEmpty'
    BY <2>1, <2>3, PumpEmpty DEF CompleteTask
  <2>4. ASSUME NEW r, FieldUnclonable(t, r) \/ OutputUnclonable(t, r) PROVE OverIsEmpty'
    BY <2>1, <2>4 DEF FieldUnclonable, OutputUnclonable, OverIsEmpty
  <2> QED BY <1>5, <2>2, <2>3, <2>4 DEF LaneSettles
<1>6. CASE UNCHANGED vars
  BY <1>6 DEF vars, OverIsEmpty
<1> QED BY <1>1, <1>2, <1>3, <1>4, <1>5, <1>6 DEF Next

LEMMA RunAlways == Spec => []RunInv
<1>1. Init => OverIsEmpty
  BY DEF Init, StartFrom, OverIsEmpty
<1>2. Spec => []OverIsEmpty
  BY <1>1, EmptyStep, PTL DEF Spec
<1> QED BY <1>2, CycleLanes, AccountAlways, DependenciesFirst, PTL DEF RunInv

TestRuns == {"none", "failed", "passed"}

(* A task has an output exactly when it has delivered, and a candidate's   *)
(* output is a work on a clone of some source.                             *)
OutputsAreDeliveries ==
  /\ DOMAIN clones = Task
  /\ \A t \in Task : clones[t] # {} <=> Delivers(t)
  /\ \A t \in Candidate : \A c \in clones[t] : \E from \in Source : c \in WorkOf(t, from)

(* The integration was made of the outputs that the candidates still have: *)
(* no candidate delivers after it.                                         *)
IntegratesTheOutputs ==
  /\ \A i, j \in clones[N] : i = j
  /\ \A i \in clones[N] : \E from \in Source : \E tests \in TestRuns :
       i \in IntegrationsOf(clones, from, tests)

BodyIsContent ==
  /\ source \in Source /\ protected \subseteq JsonState
  /\ \A v, w \in protected : v = w

(* The receipt is issued when the run is over, so what its plan was made   *)
(* from is still what the integration delivered.                           *)
ReceiptsArePlans ==
  \A r \in receipt :
    /\ finalized
    /\ \A plan \in r.bodyPlan : \E v \in JsonState : \E c \in IntegrationCandidate :
         plan = BodyPlan(v, CycleRef, c, Requirements, "hold-run")
    /\ r.status = "READY_FOR_EXPLICIT_COMMIT" =>
         \A plan \in r.bodyPlan : plan.mergePlan.commitAllowed

CycleInv ==
  /\ ResolvedIsFinal /\ OutputsAreDeliveries /\ IntegratesTheOutputs
  /\ BodyIsContent /\ ReceiptsArePlans

(* What the tests of the integration are run on, and its two fields below. *)
Tested(merged, tests) == Worked(merged, FALSE, tests, TRUE, TRUE, TRUE)

LEMMA TestedFields ==
  ASSUME NEW merged, NEW tests
  PROVE  Tested(merged, tests).after = merged /\ Tested(merged, tests).tests = tests
BY DEF Worked, Tested

LEMMA IntegrationFacts ==
  ASSUME NEW outs, NEW from, NEW tests, NEW i \in IntegrationsOf(outs, from, tests),
         NEW c \in i.candidate
  PROVE  /\ i.candidate = {c}
         /\ \E merged \in Committed(from, IntegrationPlan(from, CycleRef, Candidates(outs),
                                                          Requirements, Policy)) :
              c = CloneCandidate(from, CycleRef, Tested(merged, tests),
                                 IntegrationStatus(tests))
<1> DEFINE plan == IntegrationPlan(from, CycleRef, Candidates(outs), Requirements, Policy)
           made(m) == CloneCandidate(from, CycleRef, Tested(m, tests),
                                     IntegrationStatus(tests))
<1>1. i \in IF ~plan.commitAllowed
              THEN {[status |-> "HELD_MERGE_PLAN", candidate |-> {}]}
              ELSE {[status |-> IntegrationStatus(tests), candidate |-> {made(m)}] :
                      m \in Committed(from, plan)}
  BY DEF IntegrationsOf, Integration, Tested
<1> HIDE DEF plan, made
<1>2. \E m \in Committed(from, plan) : i.candidate = {made(m)}
  BY <1>1
<1> QED BY <1>2 DEF plan, made

LEMMA OutputsMade ==
  ASSUME OutputsAreDeliveries, \A t \in Candidate : Delivers(t)
  PROVE  /\ MadeBy(Candidates(clones))
         /\ \A t \in Candidate : Candidates(clones)[t] \in clones[t]
<1>1. DOMAIN Candidates(clones) = Candidate
  BY DEF Candidates
<1>2. ASSUME NEW t \in Candidate
      PROVE  Candidates(clones)[t] \in clones[t]
  <2>1. clones[t] # {}
    BY CycleTasks DEF OutputsAreDeliveries
  <2> QED BY <2>1 DEF Candidates
<1>3. ASSUME NEW t \in Candidate
      PROVE  \E from \in Source : \E o \in CloneWork[t] :
               Candidates(clones)[t] = CloneCandidate(from, CycleRef, o, CloneStatus(o))
  BY <1>2 DEF OutputsAreDeliveries, WorkOf
<1> QED BY <1>1, <1>2, <1>3 DEF MadeBy

(* Before the integration delivers, or while it runs, all candidates have. *)
LEMMA IntegrationComesLast ==
  ASSUME DependencyOrder, N \in active \/ Delivers(N)
  PROVE  \A t \in Candidate : Delivers(t)
BY CycleTasks DEF DependencyOrder, Delivers

(* The integration's candidate: what its merge made of a source.           *)
LEMMA LandedFacts ==
  ASSUME DependencyOrder, CycleInv, NEW c \in IntegrationCandidate
  PROVE  /\ IntegrationCandidate = {c}
         /\ \E from \in Source, tests \in TestRuns, merged \in JsonState :
              /\ c = CloneCandidate(from, CycleRef, Tested(merged, tests),
                                    IntegrationStatus(tests))
              /\ MadeBy(Candidates(clones))
              /\ \A t \in Candidate : Candidates(clones)[t] \in clones[t]
              /\ merged \in Committed(from, IntegrationPlan(from, CycleRef, Candidates(clones),
                                                            Requirements, Policy))
<1>1. PICK i \in clones[N] : c \in i.candidate
  BY DEF IntegrationCandidate
<1>2. PICK from \in Source, tests \in TestRuns : i \in IntegrationsOf(clones, from, tests)
  BY DEF CycleInv, IntegratesTheOutputs
<1>3. i.candidate = {c}
  BY <1>1, <1>2, IntegrationFacts
<1>4. PICK merged \in Committed(from, IntegrationPlan(from, CycleRef, Candidates(clones),
                                                      Requirements, Policy)) :
        c = CloneCandidate(from, CycleRef, Tested(merged, tests),
                           IntegrationStatus(tests))
  BY <1>1, <1>2, IntegrationFacts
<1>5. Delivers(N)
  BY <1>1, CycleTasks DEF CycleInv, OutputsAreDeliveries
<1>6. MadeBy(Candidates(clones)) /\ \A t \in Candidate : Candidates(clones)[t] \in clones[t]
  BY <1>5, IntegrationComesLast, OutputsMade DEF CycleInv
<1>7. merged \in JsonState
  BY <1>4, <1>6, MergedIsContent, CreationAssumption
<1>8. IntegrationCandidate = {c}
  BY <1>1, <1>3 DEF CycleInv, IntegratesTheOutputs, IntegrationCandidate
<1> QED BY <1>4, <1>6, <1>7, <1>8

(* What a plan of the receipt commits, when it may be committed.           *)
LEMMA ReceiptCommits ==
  ASSUME DependencyOrder, CycleInv, NEW r \in receipt, NEW plan \in r.bodyPlan,
         plan.mergePlan.commitAllowed
  PROVE  \E c \in IntegrationCandidate :
           /\ c.source = plan.source /\ c.after \in JsonState
           /\ Requirements.tests => c.tests = "passed"
           /\ Committed(plan.source, plan.mergePlan) = {c.after}
           /\ plan.sourceRef = CycleRef /\ plan.mergePlan.stateRef = CycleRef
<1>1. PICK v \in JsonState, c \in IntegrationCandidate :
        plan = BodyPlan(v, CycleRef, c, Requirements, "hold-run")
  BY DEF CycleInv, ReceiptsArePlans
<1>2. /\ plan.source = v /\ plan.sourceRef = CycleRef
      /\ plan.mergePlan = MergePlan(CycleRef, Vouched(<<c>>, v), Requirements, "hold-run")
  BY <1>1 DEF BodyPlan
<1>3. plan.mergePlan.stateRef = CycleRef
  BY <1>2, PlanFields
<1>4. PICK from \in Source, tests \in TestRuns, merged \in JsonState :
        c = CloneCandidate(from, CycleRef, Tested(merged, tests),
                           IntegrationStatus(tests))
  BY LandedFacts
<1> DEFINE o == Tested(merged, tests)
<1>5. o.after = merged /\ o.tests = tests
  BY TestedFields
<1> HIDE DEF o
<1>6. from \in JsonState
  BY CreationAssumption
<1>7. c = CloneCandidate(from, CycleRef, o, IntegrationStatus(tests))
  BY <1>4 DEF o
<1>8. c.source = from /\ c.after = merged /\ c.tests = tests
  BY <1>5, <1>7, MadeFields
<1>9. /\ from = v /\ (Requirements.tests => o.tests = "passed")
      /\ Commits(v, plan, o.after)
  <2> DEFINE st == IntegrationStatus(tests)
  <2>1. o.after \in JsonState /\ c = CloneCandidate(from, CycleRef, o, st)
    BY <1>5, <1>7
  <2> HIDE DEF st
  <2> QED BY <1>1, <1>6, <2>1, PlanCommits
<1> QED BY <1>2, <1>3, <1>5, <1>8, <1>9 DEF Commits

LEMMA CommitFacts ==
  ASSUME DependencyOrder, CycleInv, CommitBody
  PROVE  \E c \in IntegrationCandidate :
           /\ protected = {c.source} /\ protected' = {c.after} /\ c.after \in JsonState
           /\ Requirements.tests => c.tests = "passed"
<1>1. PICK r \in receipt : \E plan \in r.bodyPlan : \E v \in protected :
        \E after \in CommitBodyPlan(v, bodyRef, plan) : protected' = {after}
  BY DEF CommitBody
<1>2. PICK plan \in r.bodyPlan : \E v \in protected :
        \E after \in CommitBodyPlan(v, bodyRef, plan) : protected' = {after}
  BY <1>1
<1>3. PICK v \in protected : \E after \in CommitBodyPlan(v, bodyRef, plan) : protected' = {after}
  BY <1>2
<1>4. PICK after \in CommitBodyPlan(v, bodyRef, plan) : protected' = {after}
  BY <1>3
<1>5. /\ plan.mergePlan.commitAllowed /\ v = plan.source
      /\ after \in Committed(v, plan.mergePlan)
  BY DEF CommitBodyPlan, BodyBinds
<1>6. protected = {v}
  BY DEF CycleInv, BodyIsContent
<1> QED BY <1>4, <1>5, <1>6, ReceiptCommits

(* The invariant holds of a cycle that starts, restored or not.            *)
LEMMA CycleInvInit == CycleInit => CycleInv
<1> SUFFICES ASSUME CycleInit PROVE CycleInv
  OBVIOUS
<1>1. PICK R \in SUBSET Task :
        /\ DownwardClosed(R) /\ StartFrom(R)
        /\ \E made \in RestoredWorks(R) :
             \E last \in RestoredIntegrations(R, RestoredOutputs(R, made)) :
               clones = [t \in Task |-> IF t = N THEN last ELSE RestoredOutputs(R, made)[t]]
  BY DEF CycleInit
<1>2. PICK made \in RestoredWorks(R) :
        \E last \in RestoredIntegrations(R, RestoredOutputs(R, made)) :
          clones = [t \in Task |-> IF t = N THEN last ELSE RestoredOutputs(R, made)[t]]
  BY <1>1
<1> DEFINE outs == RestoredOutputs(R, made)
<1>3. PICK last \in RestoredIntegrations(R, outs) :
        clones = [t \in Task |-> IF t = N THEN last ELSE outs[t]]
  BY <1>2
<1>4. /\ DOMAIN clones = Task /\ clones[N] = last
      /\ \A t \in Candidate : clones[t] = outs[t]
  BY <1>3, CycleTasks
<1>5. \A t \in Candidate : outs[t] = IF t \in R THEN {made[t]} ELSE {}
  BY DEF RestoredOutputs
<1>6. \A t \in Candidate \cap R : \E from \in Source : made[t] \in WorkOf(t, from)
  BY DEF RestoredWorks
<1> HIDE DEF outs
<1>7. Candidates(clones) = Candidates(outs)
  BY <1>4 DEF Candidates
<1>8. /\ \A i, j \in last : i = j
      /\ last # {} <=> N \in R
      /\ \A i \in last : \E from \in Source : \E tests \in TestRuns :
           i \in IntegrationsOf(outs, from, tests)
  BY <1>3 DEF RestoredIntegrations, TestRuns
<1>9. \A from, tests : IntegrationsOf(outs, from, tests) = IntegrationsOf(clones, from, tests)
  BY <1>7 DEF IntegrationsOf
<1>10. IntegratesTheOutputs
  BY <1>4, <1>8, <1>9 DEF IntegratesTheOutputs
<1>11. \A t \in Task : Delivers(t) <=> t \in R
  <2>1. \A t \in Task : IF t \in R THEN IsReusableState(state[t]) ELSE state[t] = "PENDING"
    BY <1>1 DEF StartFrom
  <2> QED BY <2>1 DEF Delivers, IsReusableState, IsDependencySatisfied
<1>12. OutputsAreDeliveries
  <2>1. \A t \in Candidate : clones[t] # {} <=> Delivers(t)
    BY <1>4, <1>5, <1>11, CycleTasks
  <2>2. clones[N] # {} <=> Delivers(N)
    BY <1>4, <1>8, <1>11, CycleTasks
  <2>3. ASSUME NEW t \in Candidate, NEW c \in clones[t]
        PROVE  \E from \in Source : c \in WorkOf(t, from)
    <3>1. t \in R /\ c = made[t]
      BY <1>4, <1>5
    <3> QED BY <1>6, <3>1
  <2> QED BY <1>4, <2>1, <2>2, <2>3, CycleTasks DEF OutputsAreDeliveries
<1>13. ResolvedIsFinal
  BY <1>1 DEF StartFrom, ResolvedIsFinal
<1>14. BodyIsContent /\ ReceiptsArePlans
  BY CreationAssumption DEF CycleInit, BodyIsContent, ReceiptsArePlans
<1> QED BY <1>10, <1>12, <1>13, <1>14 DEF CycleInv

(* Nothing of a cycle but its scheduler, its body or its receipt moved.    *)
LEMMA QuietKeepsInv ==
  ASSUME CycleInv, Quiet, UNCHANGED cycleOnly
  PROVE  CycleInv'
<1>1. /\ protected' = protected /\ source' = source /\ clones' = clones /\ receipt' = receipt
  BY DEF cycleOnly
<1>2. ResolvedIsFinal' /\ (finalized => finalized') /\ \A t \in Task : Delivers(t)' <=> Delivers(t)
  BY DEF Quiet, CycleInv
<1>3. OutputsAreDeliveries'
  BY <1>1, <1>2 DEF CycleInv, OutputsAreDeliveries
<1>4. IntegratesTheOutputs'
  BY <1>1 DEF CycleInv, IntegratesTheOutputs
<1>5. BodyIsContent'
  BY <1>1 DEF CycleInv, BodyIsContent
<1>6. IntegrationCandidate' = IntegrationCandidate
  BY <1>1 DEF IntegrationCandidate
<1>7. ReceiptsArePlans'
  BY <1>1, <1>2, <1>6 DEF CycleInv, ReceiptsArePlans
<1> QED BY <1>2, <1>3, <1>4, <1>5, <1>7 DEF CycleInv

(* What every delivery does: it comes before the receipt.                  *)
LEMMA DeliveryFacts ==
  ASSUME RunInv, CycleInv, NEW t \in Task, NEW r, r.status = "COMPLETED", CompleteTask(t, r)
  PROVE  /\ t \in active /\ ~Delivers(t)
         /\ \A u \in Task : Delivers(u)' <=> Delivers(u) \/ u = t
         /\ ResolvedIsFinal' /\ receipt = {}
<1>1. AccountInv /\ OverIsEmpty
  BY DEF RunInv
<1>2. /\ t \in active /\ ~Delivers(t)
      /\ \A u \in Task : Delivers(u)' <=> Delivers(u) \/ u = t
      /\ ResolvedIsFinal'
  BY <1>1, DeliveryDelivers DEF CycleInv
<1>3. ~finalized
  BY <1>1, <1>2 DEF OverIsEmpty
<1>4. receipt = {}
  BY <1>3 DEF CycleInv, ReceiptsArePlans
<1> QED BY <1>2, <1>4

LEMMA CandidateKeepsInv ==
  ASSUME RunInv, CycleInv, NEW t \in Candidate, CandidateDelivers(t)
  PROVE  CycleInv'
<1>1. t \in Task /\ t # N
  BY CycleTasks
<1>3. PICK c \in WorkOf(t, source) :
        CompleteTask(t, ReportOf(c)) /\ clones' = [clones EXCEPT ![t] = {c}]
  BY DEF CandidateDelivers
<1>2. /\ t \in active /\ ~Delivers(t) /\ ResolvedIsFinal' /\ receipt = {}
      /\ \A u \in Task : Delivers(u)' <=> Delivers(u) \/ u = t
  BY <1>1, <1>3, ReportsAreResults, CycleLanes, DeliveryFacts
<1>4. protected' = protected /\ source' = source /\ receipt' = receipt
  BY DEF CandidateDelivers
<1>5. source \in Source /\ DOMAIN clones = Task
  BY DEF CycleInv, BodyIsContent, OutputsAreDeliveries
<1>6. DOMAIN clones' = Task /\ clones'[t] = {c} /\ \A u \in Task : u # t => clones'[u] = clones[u]
  BY <1>1, <1>3, <1>5
<1>7. OutputsAreDeliveries'
  <2>1. ASSUME NEW u \in Task PROVE clones'[u] # {} <=> Delivers(u)'
    BY <1>2, <1>6 DEF CycleInv, OutputsAreDeliveries
  <2>2. ASSUME NEW u \in Candidate, NEW d \in clones'[u]
        PROVE  \E from \in Source : d \in WorkOf(u, from)
    BY <1>3, <1>5, <1>6, CycleTasks DEF CycleInv, OutputsAreDeliveries
  <2> QED BY <1>6, <2>1, <2>2 DEF OutputsAreDeliveries
<1>8. clones'[N] = {}
  <2>1. ~Delivers(N)
    BY <1>2, IntegrationComesLast DEF RunInv
  <2> QED BY <1>1, <1>6, <2>1, CycleTasks DEF CycleInv, OutputsAreDeliveries
<1>9. IntegratesTheOutputs'
  BY <1>8 DEF IntegratesTheOutputs
<1>10. BodyIsContent' /\ ReceiptsArePlans'
  BY <1>2, <1>4 DEF CycleInv, BodyIsContent, ReceiptsArePlans
<1> QED BY <1>2, <1>7, <1>9, <1>10 DEF CycleInv

LEMMA IntegrationKeepsInv ==
  ASSUME RunInv, CycleInv, IntegrationDelivers
  PROVE  CycleInv'
<1>1. N \in Task /\ CompleteTask(N, Delivered) /\ Delivered.status = "COMPLETED"
  BY CycleTasks DEF IntegrationDelivers, Delivered
<1>2. /\ N \in active /\ ~Delivers(N) /\ ResolvedIsFinal' /\ receipt = {}
      /\ \A u \in Task : Delivers(u)' <=> Delivers(u) \/ u = N
  BY <1>1, DeliveryFacts
<1>3. PICK tests \in TestRuns : \E i \in IntegrationsOf(clones, source, tests) :
        clones' = [clones EXCEPT ![N] = {i}]
  BY DEF IntegrationDelivers, TestRuns
<1>4. PICK i \in IntegrationsOf(clones, source, tests) : clones' = [clones EXCEPT ![N] = {i}]
  BY <1>3
<1>5. protected' = protected /\ source' = source /\ receipt' = receipt
  BY DEF IntegrationDelivers
<1>6. source \in Source /\ DOMAIN clones = Task
  BY DEF CycleInv, BodyIsContent, OutputsAreDeliveries
<1>7. /\ DOMAIN clones' = Task /\ clones'[N] = {i}
      /\ \A u \in Task : u # N => clones'[u] = clones[u]
  BY <1>1, <1>4, <1>6
<1>8. OutputsAreDeliveries'
  <2>1. ASSUME NEW u \in Task PROVE clones'[u] # {} <=> Delivers(u)'
    BY <1>2, <1>7 DEF CycleInv, OutputsAreDeliveries
  <2>2. ASSUME NEW u \in Candidate PROVE clones'[u] = clones[u]
    BY <1>7, CycleTasks
  <2> QED BY <1>7, <2>1, <2>2 DEF CycleInv, OutputsAreDeliveries
<1>9. Candidates(clones') = Candidates(clones)
  BY <1>7, CycleTasks DEF Candidates
<1>10. i \in IntegrationsOf(clones', source, tests)
  BY <1>4, <1>9 DEF IntegrationsOf
<1>11. IntegratesTheOutputs'
  BY <1>5, <1>6, <1>7, <1>10 DEF IntegratesTheOutputs
<1>12. BodyIsContent' /\ ReceiptsArePlans'
  BY <1>2, <1>5 DEF CycleInv, BodyIsContent, ReceiptsArePlans
<1> QED BY <1>2, <1>8, <1>11, <1>12 DEF CycleInv

LEMMA FinishKeepsInv ==
  ASSUME RunInv, CycleInv, FinishCycle
  PROVE  CycleInv'
<1> DEFINE plans == UNION {CyclePlans(c) : c \in IntegrationCandidate}
<1>1. /\ result # Unresolved
      /\ receipt' = {[status |-> CreationStatus(plans), bodyPlan |-> plans, drifted |-> Drifted]}
      /\ UNCHANGED vars
      /\ protected' = protected /\ source' = source /\ clones' = clones
  BY DEF FinishCycle
<1>2. finalized' /\ ResolvedIsFinal'
  BY <1>1 DEF CycleInv, ResolvedIsFinal, vars
<1>3. OutputsAreDeliveries' /\ IntegratesTheOutputs' /\ BodyIsContent'
  <2>1. \A t \in Task : Delivers(t)' <=> Delivers(t)
    BY <1>1 DEF vars, Delivers
  <2> QED BY <1>1, <2>1 DEF CycleInv, OutputsAreDeliveries, IntegratesTheOutputs, BodyIsContent
<1>4. ASSUME NEW plan \in plans
      PROVE  \E v \in protected : \E c \in IntegrationCandidate :
               plan = BodyPlan(v, CycleRef, c, Requirements, "hold-run")
  BY DEF CyclePlans
<1>5. \A p, q \in plans : p = q
  <2> SUFFICES ASSUME NEW p \in plans, NEW q \in plans PROVE p = q
    OBVIOUS
  <2>1. PICK v \in protected, c \in IntegrationCandidate :
          p = BodyPlan(v, CycleRef, c, Requirements, "hold-run")
    BY <1>4
  <2>2. PICK w \in protected, d \in IntegrationCandidate :
          q = BodyPlan(w, CycleRef, d, Requirements, "hold-run")
    BY <1>4
  <2>3. v = w
    BY DEF CycleInv, BodyIsContent
  <2>4. c = d
    BY LandedFacts DEF RunInv
  <2> QED BY <2>1, <2>2, <2>3, <2>4
<1>6. CreationStatus(plans) = "READY_FOR_EXPLICIT_COMMIT" =>
        \E plan \in plans : plan.mergePlan.commitAllowed
  <2> HIDE DEF plans
  <2> QED BY DEF CreationStatus
<1>7. protected \subseteq JsonState
  BY DEF CycleInv, BodyIsContent
<1>8. IntegrationCandidate' = IntegrationCandidate
  BY <1>1 DEF IntegrationCandidate
<1> HIDE DEF plans
<1>9. ASSUME NEW r \in receipt'
      PROVE  /\ r.bodyPlan = plans
             /\ r.status = CreationStatus(plans)
  BY <1>1
<1>10. ReceiptsArePlans'
  BY <1>2, <1>4, <1>5, <1>6, <1>7, <1>8, <1>9 DEF ReceiptsArePlans
<1> QED BY <1>2, <1>3, <1>10 DEF CycleInv

(* The host moves the body only.                                           *)
LEMMA HostKeepsInv ==
  ASSUME CycleInv, UNCHANGED <<vars, source, clones, receipt>>,
         protected' \subseteq JsonState, \A v, w \in protected' : v = w
  PROVE  CycleInv'
<1>1. /\ source' = source /\ clones' = clones /\ receipt' = receipt
      /\ state' = state /\ finalized' = finalized /\ result' = result
  BY DEF vars
<1>2. \A t \in Task : Delivers(t)' <=> Delivers(t)
  BY <1>1 DEF Delivers
<1>3. IntegrationCandidate' = IntegrationCandidate
  BY <1>1 DEF IntegrationCandidate
<1>4. ResolvedIsFinal' /\ OutputsAreDeliveries'
  BY <1>1, <1>2 DEF CycleInv, ResolvedIsFinal, OutputsAreDeliveries
<1>5. IntegratesTheOutputs' /\ BodyIsContent'
  BY <1>1 DEF CycleInv, IntegratesTheOutputs, BodyIsContent
<1>6. ReceiptsArePlans'
  BY <1>1, <1>3 DEF CycleInv, ReceiptsArePlans
<1> QED BY <1>4, <1>5, <1>6 DEF CycleInv

LEMMA CycleInvStep ==
  ASSUME RunInv, CycleInv, [CycleNext]_cycleVars
  PROVE  CycleInv'
<1>0. AccountInv
  BY DEF RunInv
<1>1. CASE SchedulerStep
  BY <1>1, ControlIsQuiet, QuietKeepsInv DEF SchedulerStep
<1>2. CASE LaneThrows
  BY <1>0, <1>2, FailureIsQuiet, QuietKeepsInv DEF LaneThrows
<1>3. CASE IntegrationDelivers
  BY <1>3, IntegrationKeepsInv
<1>4. CASE \E t \in Candidate : CandidateDelivers(t)
  BY <1>4, CandidateKeepsInv
<1>5. CASE FinishCycle
  BY <1>5, FinishKeepsInv
<1>6. CASE HostWrites
  <2>1. protected' \subseteq JsonState /\ \A v, w \in protected' : v = w
    BY <1>6, CreationAssumption DEF HostWrites
  <2>2. UNCHANGED <<vars, source, clones, receipt>>
    BY <1>6 DEF HostWrites
  <2> QED BY <2>1, <2>2, HostKeepsInv
<1>7. CASE CommitBody
  <2>1. PICK c \in IntegrationCandidate : protected' = {c.after} /\ c.after \in JsonState
    BY <1>7, CommitFacts DEF RunInv
  <2>2. protected' \subseteq JsonState /\ \A v, w \in protected' : v = w
    BY <2>1
  <2>3. UNCHANGED <<vars, source, clones, receipt>>
    BY <1>7 DEF CommitBody
  <2> QED BY <2>2, <2>3, HostKeepsInv
<1>8. CASE UNCHANGED cycleVars
  <2>1. UNCHANGED <<vars, source, clones, receipt>> /\ protected' = protected
    BY <1>8 DEF cycleVars, cycleOnly
  <2> QED BY <2>1, HostKeepsInv DEF CycleInv, BodyIsContent
<1> QED BY <1>1, <1>2, <1>3, <1>4, <1>5, <1>6, <1>7, <1>8 DEF CycleNext

LEMMA CycleAlways == CycleSpec => [](RunInv /\ CycleInv)
<1>1. RunInv /\ CycleInv /\ [CycleNext]_cycleVars => CycleInv'
  BY CycleInvStep
<1> QED BY <1>1, RunAlways, CycleIsRun, CycleInvInit, PTL DEF CycleSpec
-----------------------------------------------------------------------------
(* A cycle that is READY_FOR_EXPLICIT_COMMIT can be committed: the body    *)
(* plan of the receipt is not refused on the content and the stateRef it   *)
(* was made for, for all works, restored outputs and writes of the host.   *)
THEOREM ReadyMeansCommittable == CycleSpec => []ReadyIsCommittable
<1>1. RunInv /\ CycleInv => ReadyIsCommittable
  <2> SUFFICES ASSUME RunInv, CycleInv, NEW r \in receipt, NEW plan \in r.bodyPlan,
                      r.status = "READY_FOR_EXPLICIT_COMMIT",
                      protected = {plan.source}, bodyRef = plan.sourceRef
               PROVE  CommitBodyPlan(plan.source, bodyRef, plan) # {}
    BY DEF ReadyIsCommittable
  <2>1. plan.mergePlan.commitAllowed
    BY DEF CycleInv, ReceiptsArePlans
  <2>2. PICK c \in IntegrationCandidate :
          /\ Committed(plan.source, plan.mergePlan) = {c.after}
          /\ plan.sourceRef = CycleRef /\ plan.mergePlan.stateRef = CycleRef
    BY <2>1, ReceiptCommits DEF RunInv
  <2>3. c.after \in CommitBodyPlan(plan.source, bodyRef, plan)
    BY <2>1, <2>2 DEF CommitBodyPlan, BodyBinds
  <2> QED BY <2>3
<1> QED BY <1>1, CycleAlways, PTL

(* The explicit commit leaves exactly the content that the tests of the    *)
(* integration passed on, if the cycle requires passed tests at all.       *)
THEOREM CommitsTheTested ==
  ASSUME Requirements.tests
  PROVE  CycleSpec => CommitsWhatWasTested
<1>1. RunInv /\ CycleInv /\ [CycleNext]_cycleVars =>
        [CommitBody => \E c \in IntegrationCandidate :
           c.tests = "passed" /\ protected' = {c.after}]_cycleVars
  <2> SUFFICES ASSUME RunInv, CycleInv, CommitBody
               PROVE  \E c \in IntegrationCandidate :
                        c.tests = "passed" /\ protected' = {c.after}
    OBVIOUS
  <2> QED BY CommitFacts DEF RunInv
<1> QED BY <1>1, CycleAlways, PTL DEF CycleSpec, CommitsWhatWasTested

(* A candidate that passes, with the status its own work gave it, is       *)
(* proven for the content the predicate compared it with.                  *)
LEMMA PassedIsProven ==
  ASSUME Requirements.tests, Requirements.authority, Requirements.evidence,
         NEW cands, NEW v, NEW t \in DOMAIN cands, NEW from, NEW o,
         cands[t] = CloneCandidate(from, CycleRef, o, CloneStatus(o)),
         Passes(Vouched(cands, v)[t], CycleRef, Requirements)
  PROVE  /\ Proven(cands[t], v)
         /\ Vouched(cands, v)[t].changes = cands[t].changes
<1> DEFINE c == Vouched(cands, v)[t]
           s == CloneStatus(o)
<1>0. s = CloneStatus(o)
  OBVIOUS
<1> HIDE DEF s
<1>1. cands[t] = CloneCandidate(from, CycleRef, o, s)
  BY <1>0
<1>2. /\ c.failed = o.failed /\ c.tests = o.tests /\ c.authorised = o.authorised
      /\ c.evidenced = o.evidenced
      /\ c.changes = Diff(from, o.after) /\ (c.vouched <=> from = v)
  BY <1>1, VouchedFields
<1>3. ~o.failed /\ o.tests = "passed" /\ o.authorised /\ o.evidenced /\ from = v
  BY <1>2 DEF Passes
<1>4. s = "COMPLETED"
  BY <1>0, <1>3 DEF CloneStatus
<1>5. /\ cands[t].status = s /\ cands[t].tests = o.tests /\ cands[t].authorised = o.authorised
      /\ cands[t].evidenced = o.evidenced
      /\ cands[t].source = from /\ cands[t].changes = Diff(from, o.after)
  BY <1>1, MadeFields
<1> QED BY <1>2, <1>3, <1>4, <1>5 DEF Proven

(* Whatever the explicit commit changes was proposed by a completed,       *)
(* tested and authorised candidate that cited evidence and worked on this  *)
(* very content, if the cycle requires tests, authority and evidence.      *)
THEOREM OnlyTheProvenLands ==
  ASSUME Requirements.tests, Requirements.authority, Requirements.evidence
  PROVE  CycleSpec => OnlyProvenWorkLands
<1>1. ASSUME RunInv, CycleInv, CommitBody,
             NEW v \in protected, NEW w \in protected', NEW d \in Diff(v, w)
      PROVE  \E t \in Candidate : \E c \in clones[t] :
               Proven(c, v) /\ \E x \in c.changes : Overlap(x.path, d.path)
  <2>2. v \in JsonState
    BY <1>1 DEF CycleInv, BodyIsContent
  <2>3. PICK l \in IntegrationCandidate : l.source = v /\ w = l.after /\ w \in JsonState
    BY <1>1, CommitFacts DEF RunInv
  <2> DEFINE cands == Candidates(clones)
             ip(f) == IntegrationPlan(f, CycleRef, cands, Requirements, Policy)
  <2>4. PICK from \in Source, tests \in TestRuns, merged \in JsonState :
          /\ l = CloneCandidate(from, CycleRef, Tested(merged, tests), IntegrationStatus(tests))
          /\ MadeBy(cands) /\ \A t \in Candidate : cands[t] \in clones[t]
          /\ merged \in Committed(from, ip(from))
    BY <1>1, <2>3, LandedFacts DEF RunInv
  <2>5. from = v /\ merged = w
    BY <2>3, <2>4, MadeFields, TestedFields
  <2> HIDE DEF cands
  <2>6. Results(v, ip(v).operations, w) /\ MadeBy(cands)
    BY <2>2, <2>4, <2>5, MergedIsContent
  <2> DEFINE voted == Vouched(cands, v)
             mp == MergePlan(CycleRef, voted, Requirements, Policy)
  <2>7. ip(v) = mp
    BY DEF IntegrationPlan
  <2> HIDE DEF ip
  <2>8. PICK x \in mp.operations : Overlap(x.path, d.path)
    <3>1. d.path \in Path /\ ~Agree(v, w, d.path)
      <4>1. d.path \in Path
        BY <2>2, <2>3, DiffChange
      <4>2. Deleted(v, w, d.path) \/ Created(v, w, d.path) \/ Replaced(v, w, d.path)
        BY DiffMembers
      <4> QED BY <4>1, <4>2 DEF Agree, Deleted, Created, Replaced
    <3>2. PICK x \in mp.operations : IsPrefix(x.path, d.path)
      BY <2>6, <2>7, <3>1 DEF Results
    <3> QED BY <3>2 DEF Overlap
  <2>9. PICK t \in Accepted(mp.decisions) : x \in voted[t].changes
    BY PlanFields
  <2>10. t \in DOMAIN voted /\ t \in Eligible(voted, CycleRef, Requirements)
    BY AcceptedMeans
  <2>11. t \in Candidate /\ t \in DOMAIN cands
    BY <2>6, <2>10, VouchedForAll DEF MadeBy
  <2>12. Passes(voted[t], CycleRef, Requirements)
    BY <2>10 DEF Eligible
  <2>13. PICK f \in Source, o \in CloneWork[t] :
           cands[t] = CloneCandidate(f, CycleRef, o, CloneStatus(o))
    BY <2>6, <2>11 DEF MadeBy
  <2>14. Proven(cands[t], v) /\ voted[t].changes = cands[t].changes
    BY <2>11, <2>12, <2>13, PassedIsProven
  <2>15. cands[t] \in clones[t] /\ x \in cands[t].changes
    BY <2>4, <2>9, <2>11, <2>14
  <2> QED BY <2>8, <2>11, <2>14, <2>15
<1>2. RunInv /\ CycleInv /\ [CycleNext]_cycleVars =>
        [CommitBody =>
           \A v \in protected : \A w \in protected' : \A d \in Diff(v, w) :
             \E t \in Candidate : \E c \in clones[t] :
               Proven(c, v) /\ \E x \in c.changes : Overlap(x.path, d.path)]_cycleVars
  BY <1>1
<1> QED BY <1>2, CycleAlways, PTL DEF CycleSpec, OnlyProvenWorkLands
==============================================================================
