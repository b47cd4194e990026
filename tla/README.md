# TLA+ verification of the AXM Parallel Capability Fabric

This directory holds TLA+ modules that model the program under `src/` (package
`axm-parallel-capability`), TLC configurations that model-check them on small instances,
and TLAPS proofs that the safety properties of the scheduler, resume, merge, creation,
the store, the planner, the registry, the evidence and the Ignition adapter hold in
every instance. Paths below are relative to the repository as it is checked out under
`src/`, so `src/src/fabric.js` is the file `src/fabric.js` of the package.

Contents: 1 the system · 2 how it is modelled · 3 the modules · 4 the runs ·
5 bounds · 6 fairness and deadlock · 7 proofs · 8 disagreements found ·
9 what is not modelled · 10 plan · 11 how to run.

## 1. The system: inventory

The library schedules capability *lanes* over a task graph, lets them work on
disposable copies of a JSON state, merges what they propose, and hands back
receipts. Everything runs on one JavaScript event loop; concurrency is the
order in which promises settle, the calls a host makes between them, and other
processes for the file store.

| Component | Source | State | Operations | Modelled |
|---|---|---|---|---|
| Scheduler (`ParallelCapabilityFabric`, `RunSession`) | `fabric.js` | task states, outputs, receipts, active lanes with their abort controllers, resources in use, `paused`/`cancelled`/`finalized`, the result promise | construct, first pump in a microtask, `pause`, `resume`, `cancel`, lane completion and failure, `_pump`, `_finalize`, `getCheckpoint` | yes |
| Checkpoint resume | `fabric.js` (`getCheckpoint`, `verifyCheckpoint`, `_applyCheckpoint`) | the exported checkpoint | export, admit, restore | yes |
| Candidate selection, conflict notes | `fabric.js` | none | pure functions of receipts | no |
| Merge | `merge.js`, `merge-gate.js` | none of its own; the host's state, its `stateRef`, plans and rollback tokens | `createMergePlan`, `commitMerge`, `rollbackMerge`, `verifyMergeReceipt` | yes, without receipt verification |
| Clone body | `clone-body.js` | a frozen source and a working copy per candidate | clone work, diff, candidate, integration, body plan | yes |
| Body commit | `body-commit.js` | none; the host's body | plan and commit with content binding | yes |
| Creation fabric | `creation-fabric.js` | the cycle's frozen source, its session, its receipt | `start`, the session's controls, finalisation | yes |
| Checkpoint file store | `checkpoint-file-store.js` | a directory of files named by hash | `put`, `get`, `verify` | yes |
| Decomposition planner | `decomposition.js` | local to a call | cover, explore, close, order | yes |
| Capability registry | `registry.js` | manifests by id, bound executors and tests | `ingestBundle`, `bindExecutor`, `bindTest`, `snapshot`, `resolve` | yes |
| External source receipts | `external-source.js` | none | evaluate claims against observations, make the manifest of a verified claim | yes |
| GitHub evidence collector | `github-evidence.js` | local to a collection; the remote ref and its workflow runs move meanwhile | resolve the ref, read files, list runs, resolve again, make a receipt | yes |
| Evidence refresh | `evidence-refresh.js` | none | compare two collections and their verdicts | yes |
| Ignition adapter | `ignition-runtime.js` | the provider's state; the registry's executors; execution receipts in metadata | bind a set of executors, run wrapped work, attest, verify with a candidate | yes |
| Causal loop adapters | `causal-loop-runtime.js`, `causal-loop-portable-runtime.js` | an imported artifact | sequential observation | no |
| Discovery index | `discovery-index.js` | none | pure derivation | no |
| Experiences, tools, scripts, examples | `experience/`, `tools/`, `scripts/`, `examples/` | none of the fabric's | rendering, smoke runs | no |

How they interact: a host or a planner hands a spec to the scheduler. The
scheduler calls each task's `run` in a microtask and awaits its promise. The
creation fabric *is* a scheduler run whose candidate lanes do clone work and
whose last lane integrates their diffs by way of a merge plan on the frozen
source; its receipt carries a body plan the host may commit later. The planner
compiles a goal to the candidates of a creation cycle, the registry compiles
manifests and bindings to the planner's input; evidence that verifies an external
claim makes one of the manifests. The Ignition adapter binds executors in the
registry whose work asks a provider to run a capability, and puts a receipt of what
was run into the metadata of a clone lane's candidate. Checkpoints leave a session
as values; the file store makes them durable, and a new session may be constructed
from one.

What is hard in each, and what makes it correct:

* **Scheduler.** Lanes settle in any order, before and after `cancel`; pause and
  cancel may precede the first pump; a lane chooses its own status; storing a
  result or exporting the final checkpoint may throw half way. Correct means:
  resources are exact and within limits, dependencies come first, held means
  held, nothing runnable is left waiting, nobody waits for nobody, every outcome
  is recorded, the result promise settles and tells the truth, late work is
  quarantined. Nothing checks the shape of what a lane returns, and the code reads
  some of it after the point of no return.
* **Resume.** The process dies between exports; the plan may change and change
  back. Saved work is neither repeated nor taken over by another plan.
* **Merge.** Paths nest and operations have preconditions; the state may move
  between plan and commit. Order must not matter, accepted changes land whole,
  disputed members stay untouched, rollbacks lead back exactly.
* **Clone, body commit, creation.** The host writes the body at any time; what
  is committed must be what was tested, made by candidates with proof.
* **File store.** Processes race, calls fail, machines lose power. A published
  name shows a whole checkpoint or nothing; a receipt keeps its promise.
* **Planner.** Greedy cover, optional exploration and closure interact with
  permissions and limits. A READY plan must be one the scheduler accepts.
* **Registry.** Advertisements contradict each other and themselves, arrive in any
  order, between bindings and resolutions that others hold; dependencies form
  cycles; a manifest with a key the snapshot refuses stays in. A resolution must be
  exactly what is usable, and stay so.
* **Evidence.** The ref moves, and moves back, between the calls of a collection;
  runs are run again; each call may fail. A verdict must be deserved by the commit
  it names, an outage must not look like an absence, and a refresh must explain
  what it reports.
* **Ignition.** A provider may report any run, a set of executors must not be
  replaced in part, and work that was not awaited, or a test, goes on writing between
  the hash in the receipt and the candidate. A receipt that verifies must be of the
  return of that lane's work and of what is still there.

`PROJECT.json` lists the hazards one by one with their lines and the properties
that cover them.

## 2. How it is modelled

Every synchronous handler, up to where it returns to the event loop, is one
action, because nothing can run in between: `_completeTask` with its trailing
`_pump` and possibly `_finalize` is one step. Calls of the file store are
awaited one by one, so there each awaited call is an action. A call that throws
before it changes anything is a stuttering step.

Abstractions, each chosen to keep what the properties tell apart:

* A task is its position in `spec.tasks`, the order in which the code scans.
  Amounts are natural numbers (the code takes any finite number; sums of
  fractions are outside the model).
* A lane's result is its status and one of five payload classes: `json`, with lists
  where `_finalize` goes through them; `misshapen`, JSON whose `contradictions` or
  `proposedChanges` it cannot go through; `clonable`, a value with no canonical text
  (`BigInt`, a cycle); and values that `structuredClone` refuses in the output or in
  another field. Where only some values of a class take an error path, both outcomes
  are possible.
* A pump is one step whose effect is given by two equations: the set of tasks
  that become blocked is the least set closed under failed dependencies, and the
  set that is launched is what a scan in task order takes (`IsBlockedSet`,
  `IsLaunchSet`). `PumpLoop` writes the code's loops out; that they
  compute exactly these sets, and nothing else solves the equations, is checked
  and proved.
* A hash is the value it is computed from, so integrity checks compare values; a
  manifest is its own `manifestId`.
  Plans, tokens and checkpoints are passed on unmodified.
* A JSON document is a function from paths to scalars or the mark `Object`;
  arrays are scalars, as the diff treats them.
* A set of changes stands for the operation list of a plan; the sorting of
  operations is what `OrderIrrelevant` shows to be immaterial.
* In the store a file belongs to the call of `put` that writes it. Its bytes are
  canonical, partial or damaged. Names and bytes survive a power loss for certain
  only once synced. `get` reads a file in one step.
* A manifest is what the normalising functions leave of it. An item of a bundle is
  valid or not; what makes it invalid is left out. Resources matter to the registry
  only by whether they have a key that `cloneJson` refuses, and the empty string among
  dependencies, which is nobody's id, is a flag of its own.
* Commits are values that never change, a ref is a variable that names one. The
  observations of a collection keep the details that receipts compare.
* The Ignition provider may report any set of executed capabilities, true or not; the
  four lists of its receipt are taken together. What is hashed of a clone and of the
  object that work returned is one value, the object's evidence refs are kept apart,
  and the ref of the receipt itself, which has to be among them, is left out.
* The host is the environment: it writes its state, chooses names, keeps tokens,
  ingests and binds when it likes.

## 3. The modules

| Module | Models | State and actions against the code |
|---|---|---|
| `Resources` | `resourcesFit`, `addResources`, `subtractResources` | `Demand`, `Limit` and the load of a set of tasks |
| `RunSession` | `RunSession` of `fabric.js` | one variable per field; `FirstPump`, `Pause`, `Resume`, `Cancel`, `LaneSettles` (`CompleteTask`, `FailTask`), each ending in `Pump` as the code does; `Settle` and `Finalize` inside it, the latter with the exceptions between `finalized` and the promise; `Init` restores sets closed under dependencies, which the code does not ask but exports are (`ExportsAdmissible`), and any set where a lane may report the scheduler's own mark (`Restorable`) |
| `RunAbstraction` | – | the refinement mapping from `RunSession` to `DagRun` |
| `PumpLoop` | the loops of `_pump` | `BlockLoop`, `LaunchLoop` and their passes as recursive functions, compared with `RunSession`'s sets |
| `DagRun` | what a run promises | an abstract specification: tasks wait, run, are done or dead |
| `CheckpointResume` | a job across sessions | `RunSession` plus `Export`, `NewSession`, with `BindsTo`, `EntriesAdmissible` and `Construct` = `_applyCheckpoint`; a plan without a `checkpointRef` (`Unbound`) takes nothing over |
| `JsonDocs` | addressable JSON states | `getAtPath`/`setAtPath`/`deleteAtPath`, `applyOperation`, the diff |
| `MergePlan` | `createMergePlan`, `commitMerge` as functions | gates, `Clash`, `Conflicts`, `Decisions`, status |
| `MergeFabric` | a host that plans, commits, rolls back, and clones of its states | `CreateMergePlan`, `CommitMerge`, `RollbackMerge`, `HostWrites`; the references that the order of operations and the diff are checked against |
| `CloneBody` | `clone-body.js`, `body-commit.js` as functions | what work leaves (with tests, evidence, authority, lists, or without), candidate, integration, `BodyPlan`, `CommitBodyPlan` |
| `CreationCycle` | `creation-fabric.js` | extends `RunSession` and `CloneBody`: the clone lanes, the integration lane, `FinishCycle`, `CommitBody`, the host's writes |
| `CheckpointFileStore` | `checkpoint-file-store.js` | `PrepareRoot`, `Probe`, `OpenTemp`, `WriteTemp`, `SyncTemp`, `Publish`, `Confirm`, `RemoveTemp`, `SyncDirectory`, `Cleanup`, and the faults `IOError`, `ProcessCrash`, `PowerLoss`, `Damage` |
| `CheckpointArchive` | what the store promises | an abstract specification: an archive that is written once, and what each caller is told |
| `StoreAbstraction` | – | the refinement mapping from `CheckpointFileStore` to `CheckpointArchive` |
| `Decomposition` | `createDecompositionPlan` | `Cover`, `CoverEnds`, `Explore`, `CloseDependencies`, `Order`, `Finish`; `Tasks` are the tasks made of a plan, `Accepts` what `normalizeSpec` of the scheduler asks of them |
| `Registry` | `registry.js` | one variable per map; `IngestBundle`, `BindExecutor`, `BindTest`, `Resolve`; `held` are the resolutions hosts keep |
| `IgnitionRuntime` | `ignition-runtime.js` over `Registry` | `BindIgnitionExecutorSet`; per lane `StartLane`, `ProviderEnds` (the awaited run), `WorkReturns` (which hashes what is there then), `WorkThrows`, `Straggle`, `ReplaceEvidence`, `MakeCandidate`; `Verifies` |
| `ExternalSource` | `external-source.js` as functions | claims, receipts, the manifest of a verified claim |
| `GitHubEvidence` | `github-evidence.js` | one action per awaited client call: `ResolveStart`, `GetFile`, `ListWorkflowRuns`, `ResolveEnd`, each of which may fail, and `Refuse` for a failure whose status is no number, which makes the whole collection throw; the repository: `RefMoves`, `RunStarts`, `RunConcludes`, `RunAgain` |
| `EvidenceRefresh` | `evidence-refresh.js` as functions | the comparison of two collections |
| `RunSessionProofs` | – | theorems on `RunSession`, its refinement of `DagRun` and the loops of `PumpLoop` |
| `CheckpointStoreProofs` | – | theorems on `CheckpointFileStore` and its refinement of `CheckpointArchive` |
| `CheckpointResumeProofs`, `DecompositionProofs`, `CreationCycleProofs` | – | theorems on the module each is named after |
| `MergePlanProofs`, `MergeFabricProofs` | – | facts about paths, merges and diffs; theorems on the host that merges |
| `EvidenceProofs` | – | theorems on `GitHubEvidence` with `EvidenceRefresh`, on `Registry` and on `IgnitionRuntime` |
| `MC…` | – | values for the constants |

Definitions whose comment says *Mutant of X* are wrong variants of `X` (a dropped
guard, a missing pump, an aliased snapshot). Nothing uses them in the
specifications. Putting one in the place of `X` violates the property that
`PROJECT.json` pairs it with, which shows that the property can fail.

## 4. The runs

**session_plain** (4 183 states). Five tasks, two classes. The graph is a diamond whose
order is not topological, and demands make the scan skip a large task for a smaller one.
Lanes are *disciplined*: they return statuses of their own and JSON, with lists for
`contradictions` and `proposedChanges`, or throw. `WorkConserving`: after each handler
no pending task is blocked or could be started. `NoStall`: a live session that is not
paused has a lane to wait for. `FinalAccount`: a final receipt is true. `LoopsAgree`:
from every state the session reaches, the loops of `_pump` written out and the two
equations of `RunSession` agree, and the equations have one solution.
`ImplementsDagRun`: the session implements `DagRun` under the mapping of
`RunAbstraction`. `RunEnds` and `CancelEnds`: the promise settles unless the run is left
paused, and after a cancel even then.

**session_any** (116 134 states). Three tasks, one waiting for another, and lanes of
every kind: statuses `PENDING`, `RUNNING` and the empty string, fields of another shape
than expected, values that cannot be cloned or have no canonical text. `TypeOK`,
`ResourceAccounting` (in use is exactly the load of the active lanes, never over a
limit), `DependencyOrder`, `HeldStartsNothing`, `LateWorkQuarantined` (what a checkpoint
would hold is frozen by a cancel) and `CheckpointGrows` hold whatever lanes do, the
dependency order unless one reports the scheduler's own mark `COMPLETED_AFTER_CANCEL` (section 7).
`HeldStartsNothing` is about `active`: the call of `task.run` is a microtask younger
than its entry there, so a pause or cancel between the two does not prevent it.

**resume_plain** (106 374 states). Up to three sessions, two revisions of the plan that
bind checkpoints and one that does not. `NoRework`: what the saved checkpoint holds is
neither waiting nor running in a session of its plan. `OutputsOfThisPlan`: no output of
another revision is ever held. `ExportsAdmissible`: what `getCheckpoint` writes,
`_applyCheckpoint` accepts, and it is closed under dependencies, which the code never
checks.

**merge_plans** (413 930 states). Two keys, paths of length two, seven kinds of
change with and without preconditions, two plans, two commits, both policies,
rollbacks and host writes in between.
`OrderIrrelevant`: on any state, all orders of a plan's operations are refused or
give the same result. `UnwindsToStart`: the tokens of the commits in effect fit
together, each leading back to the very state and `stateRef` its commit was made
on. `CommitsAsDecided`: a commit puts every change of every accepted candidate into
effect, and what eligible candidates dispute stays as it was. `DiffCarriesTheClone`:
applied in any order, the diff of a document and a clone of it gives the clone.
`DiffSeesItsSource`: on any other document the diff is refused or finds at each path
what the source had. The last two are about every pair of documents of depth two.

**creation_plain** (138 360 states). Two candidates that may run at one time, and the
integration. Works meet on a member, stay apart, fail, lack tests, evidence or
authority, change nothing, or return contradictions that are no list; the host writes
the body twice, with and without a new `stateRef`, and restored sessions are included.
`ReadyIsCommittable`: a READY cycle commits on the body it was made for.
`CommitsWhatWasTested`: what a commit leaves behind is the very content that the
integration tests saw. `OnlyProvenWorkLands`: every member that changed was changed by a
candidate with proof.

**store_faults** (539 664 states up to symmetry). Three calls of `put`, two
checkpoints, all faults, one power loss, a root that `put` creates.
`PublishedWhole`: a checkpoint's name shows a whole file or none. `DurableStays`: what
a receipt called synced is there after the loss. `NoLitter`: a put knows at every step
whether its temporary name is there, and once it has settled, with whatever answer, the
name is gone, unless its removal failed, the process crashed or a power loss brought it
back; and it brings back none of a put whose receipt reports `directoryFsync`.
`DamageFailsClosed`: a damaged entry is refused and never replaced.
`ImplementsArchive`: to its callers the directory with its temporaries, links and
syncs is a `CheckpointArchive`. An entry comes under one put and is never replaced, so
of racing puts one stores; STORED and EXISTS are true when they are told; a power loss
takes only entries that are not safe, and a synced directory makes safe whatever the
archive holds, provided the root's own name is on disk.

**plan_compile** (332 988 states). Catalogs of three capabilities over two tokens
with all shapes of dependency, cycles included, each possibly flawed in one way, some
without a demand for workers; goals with a smaller limit, a denied capability or an
integration without a demand. `ReadyIsSchedulable`: a READY plan keeps to the number of
candidates and has each of them once and after what it depends on, and the scheduler
accepts the run made of it if and only if every task, the integration included, asks
for at least one worker (section 8 says why the condition is there). `NothingWidened`:
what is in a plan was permitted. `CoversWhatCanBe`: what is left uncovered no eligible
capability provides.

**registry** (535 640 states up to symmetry). Four capabilities, six bundles that
contradict each other and themselves and make chains and cycles depending on which comes
first, bindings by hosts and by the Ignition adapter, one held resolution, two lanes.
`ResolveIsExact`: for every request, what is resolved is the largest set that can be
used together, and every other capability has a reason that is true; a capability that
names the empty string counts as in need of nothing, as it does in the code.
`ResolutionsStayTrue`: whatever is ingested and bound later, what somebody resolved
resolves again to the same manifests, work and tests. `IgnitionSetWhole`: the
executors of an Ignition set are bound together or not at all. `VerifiedIsTheRun`:
a receipt that verifies with a candidate, whichever two a reader puts together, was made
when that lane's own wrapped work returned, after the provider had reported the selected
capability and no other; the hashed content of the candidate is what it was then, and no
evidence ref was lost. Refs may have been added since, by tests for instance
(`ignition-runtime.js:255` compares by inclusion), and what was written between the end
of the provider's run and the return is in the hash. Nothing is said of whether the
report was true.

**evidence** (497 520 states). Three commits, two file checks, a workflow checked at
the pinned head and in the history of the ref, two collections, three changes of the
repository at any point between the calls, every call possibly failing.
`VerdictsAreDeserved`: a claim is verified only if the pinned commit really meets
every requirement, contradicted only if it really violates one. `StableRefGate`: a
claim without terms of its own for the ref is not verified from a collection during
which the ref ended elsewhere. `CompleteIsComplete`: a collection that calls itself
complete has every observation, and each is the commit's. Which of several eligible runs
the code picks is modelled (`WorkflowObservation`), but no property says more of it than
that the run picked had once concluded so for the pinned commit. `DriftExplained`: a
verdict that a refresh reports as gained or lost comes with a changed observation and a
cause for it.

**session_lost, session_unresolved, plan_pressure** end in a violation: section 8.

## 5. Bounds, and why they are enough

What section 7 proves holds for every size. There the bounds only decide how much TLC
tries before a proof is attempted and with the mutants; they carry the rest alone.

* *Sessions*: five tasks hold a diamond, a free root and contention of two classes;
  three hold a dependency and contention, for the lanes of every kind.
* *Job*: `MaxSessions = 3` allows plan v1, v2 and v1 again, the shortest history in
  which an output of the wrong plan could come back, or a plan without a
  `checkpointRef` in the middle.
* *Merge*: depth two holds every relation of two paths (same, above, below, apart).
  `Proposal` bounds the plans to two and what each may be made from; the second
  plan exists to make chains of commits, and its candidates are fixed (`SecondProposal`).
  `MaxTokens = 2` bounds tokens and chain. The host starts with any document, and its
  first plan is for one of `Body`, under the first label; the properties of diffs are
  checked before that first plan, since a diff does not look at plans or tokens.
* *Creation*: `MaxWrites = 2`, so the host can change the body and change it back.
* *Store*: three putters, so that two race while a third comes later;
  `MaxPowerLosses = 1`. Every loss may tear whatever was not synced, files that were
  opened after an earlier one included; a second loss differs from the first only in
  what that one left. For any number of losses the properties are proved,
  `DurableStays` for a root that was there at the start: one that was created, lost and
  created again is the case of section 8. `RootAtStart = {FALSE}`: once the first put has
  made the root, a root that was there at first differs from it only in that a power
  loss cannot take it, and of the root in the run a loss takes or keeps the name.
* *Planner*: `NC = 3` gives cycles of length one to three and a choice between one
  broad provider and two narrow ones. A demand is of no, one or too many workers.
* *Registry*: four ids give cycles of length three and a manifest that breaks the
  snapshot; `MaxHeld = 1`, since a resolution goes stale or not by itself; two lanes,
  so that a receipt can be shown with the wrong candidate; two contents of a clone with
  what its work returned and one evidence ref, enough to differ, be added and be lost.
* *Evidence*: `MaxChanges = 3` lets the ref move and move back with a run in between,
  or a run start, conclude and start again; `MaxCollections = 2` is one refresh. After
  the last collection nothing changes any more, since nobody would see it.

Symmetry is used in `store_faults` (putters and checkpoints) and `registry` (the
functions of hosts and the lanes), where no liveness is checked.

## 6. Fairness and deadlock

`FairSpec` of `RunSession` assumes weak fairness of `FirstPump` (the microtask
queue is drained) and of `LaneSettles(t)` for each task (every promise a lane
returned settles; a lane that hangs is the caller's, the code has no timeout). No
fairness is assumed of `Pause`, `Resume` or `Cancel`: nobody need ever call them,
which is why `RunEnds` excepts a run that stays paused. The other runs check
safety only.

All configurations say `CHECK_DEADLOCK FALSE`: a finished run, a spent token, a
finished plan and a settled put are states in which the system stops rightly. What
a deadlock check would find in a live run is stated by `NoStall` and `RunEnds`.

## 7. Proofs

All safety properties that the passing runs check, and some more, are proved for
every value of the constants that the assumptions allow.

| Module | Theorem | States |
|---|---|---|
| `RunSessionProofs` | `TypeCorrect` | `Spec => []TypeOK` |
| | `ResourcesAccounted` | `Spec => []ResourceAccounting` |
| | `DependenciesFirst` | `MarkIsTheScheduler` implies `Spec => []DependencyOrder` |
| | `HeldMeansHeld` | `Spec => HeldStartsNothing` |
| | `CheckpointsGrow` | `Spec => CheckpointGrows` |
| | `LateWorkStaysOut` | `Spec => LateWorkQuarantined` |
| | `NeverStalls` | `DisciplinedLanes` implies `Spec => []NoStall` |
| | `ConservesWork` | `DisciplinedLanes` implies `Spec => []WorkConserving` |
| | `ReceiptsTellTheTruth` | `DisciplinedLanes` implies `Spec => []FinalAccount` |
| | `SessionImplementsDagRun` | `DisciplinedLanes` implies `Spec => ImplementsDagRun` |
| | `OutcomesAreRecorded` | `DisciplinedLanes` implies `Spec => []OutcomesRecorded` |
| | `FinalizedRunsResolve` | `DisciplinedLanes` implies `Spec => []FinalizedResolves` |
| | `QuietRunsHaveEnded` | `DisciplinedLanes` implies `Spec => []QuietRunHasEnded` |
| | `RunsWindDown` | `DisciplinedLanes` implies `Spec => WindsDown` |
| | `PumpHasOneOutcome` | for any statuses and amounts in use, the equations of a pump have one solution each, what the loops compute |
| | `LoopsAreTheEquations` | `DisciplinedLanes` implies `Spec => []LoopsAgree` |
| `CheckpointResumeProofs` | `NoStaleOutputs` | `JobSpec => []OutputsOfThisPlan` |
| | `WorkIsNotRedone` | `ClonableOutputs` implies `JobSpec => []NoRework` |
| | `ExportsAreAdmitted` | `ClonableOutputs`, `MarkIsTheScheduler` imply `JobSpec => []ExportsAdmissible` |
| | `EverySessionIsSafe` | `DisciplinedLanes` implies that each session of a job has the guarantees of one run |
| `MergeFabricProofs` | `PlansMeanOneThing` | `MergeSpec => []OrderIrrelevant` |
| | `RollbacksUnwind` | `MergeSpec => []UnwindsToStart` |
| | `CommitsFollowDecisions` | `MergeSpec => CommitsAsDecided` |
| | `DiffsArePatches` | `MergeSpec => []DiffCarriesTheClone` |
| | `DiffsBindTheirSource` | `MergeSpec => []DiffSeesItsSource` |
| `CreationCycleProofs` | `EveryCycleIsSafe` | `ListsReturned` implies that a cycle has the guarantees of a run |
| | `ReadyMeansCommittable` | `CycleSpec => []ReadyIsCommittable` |
| | `CommitsTheTested` | `Requirements.tests` implies `CycleSpec => CommitsWhatWasTested` |
| | `OnlyTheProvenLands` | `Requirements.tests`, `.evidence`, `.authority` imply `CycleSpec => OnlyProvenWorkLands` |
| `CheckpointStoreProofs` | `NamesShowWholeCheckpoints` | `StoreSpec => []PublishedWhole` |
| | `OnePutStores` | `StoreSpec => []StoredOnce` |
| | `StoreImplementsArchive` | `StoreSpec => ImplementsArchive` |
| | `TempsAccounted` | `StoreSpec => []NoLitter` |
| | `DamageIsNotHidden` | `StoreSpec => DamageFailsClosed` |
| | `DurableReceiptsHold` | `RootAtStart = {TRUE}` or `MaxPowerLosses <= 1` implies `StoreSpec => []DurableStays` |
| `DecompositionProofs` | `NothingIsWidened` | `PlanSpec => []NothingWidened` |
| | `CoveredWhatCanBe` | `PlanSpec => []CoversWhatCanBe` |
| | `ReadyCanBeScheduled` | `PlanSpec => []ReadyIsSchedulable` |
| `EvidenceProofs` | `VerdictsDeserved` | `ClaimsAskForAnswers` implies `EvidenceSpec => []VerdictsAreDeserved` |
| | `StableRefGateHolds` | `EvidenceSpec => []StableRefGate` |
| | `CompleteCollections` | `EvidenceSpec => []CompleteIsComplete` |
| | `DriftHasACause` | `EvidenceSpec => []DriftExplained` |
| | `ResolvesExactly` | `IgnitionSpec => []ResolveIsExact` |
| | `ResolutionsStay` | `IgnitionSpec => []ResolutionsStayTrue` |
| | `SetsBoundWhole` | `IgnitionSpec => []IgnitionSetWhole` |
| | `EvidenceIsOfTheRun` | `IgnitionSpec => []VerifiedIsTheRun` |

**Assumptions on the constants.** TLC evaluates every one of them in the runs.

* `ResourceAssumption`, `DepsAssumption`: what `normalizeSpec` enforces (each demand
  within its limit, dependencies among the tasks, no cycle). `LaneResultAssumption`: a
  lane's result is a status and one of five payloads; no lane knows `NoReceipt`.
* `JsonAssumption`, `MergeAssumption`: the mark of an object is no scalar; proposals
  are finite sets of changes that `createMergePlan` lets through. States are finite
  documents over any keys and any depth up to `MaxDepth`.
* `CreationAssumption`: the graph of a cycle, and that what clone work leaves is an
  addressable root, since anything else is rejected (`clone-body.js:54`).
* `StoreAssumption` keeps file names apart. `RequestAssumption`: requests as
  `normalizeConstraints` leaves them. `EvidenceAssumption`: ids of checks are apart and
  claims have requirements, which the collector and the evaluator check.
  `RegistryAssumption`, `IgnitionAssumption`: normalised manifests and bindings,
  requests for ids, and that hosts do not themselves bind a function the adapter made.

**Hypotheses of single theorems.** Each is needed.

* `DisciplinedLanes`: with a lane that reports `PENDING` or `RUNNING` the statements
  on progress are false, and with one that returns what cannot be cloned, has no
  canonical text, or is JSON without lists where `_finalize` wants them, those on
  outcomes: findings 1 and 2 of section 8 violate `OutcomesRecorded` and
  `FinalizedResolves`. The code asks lanes for none of this; that receipts tell the
  truth and runs resolve is proved for lanes that keep to it, and for no others. For
  `LoopsAgree` the hypothesis gives that RUNNING tasks are the active ones, which its
  last conjunct is about; `PumpHasOneOutcome` does without it.
* `ClonableOutputs`: when `normalizeLaneResult` refuses an output, its task keeps its
  status and has no receipt (finding 1); every later export of the run is then refused,
  and the job starts over.
* `MarkIsTheScheduler`: `COMPLETED_AFTER_CANCEL` is the one status that satisfies a
  dependent and is not reusable. The scheduler gives it only when nothing starts any
  more; a lane that reports it itself makes exports with holes, which TLC shows, and a
  session restored from one, which `_applyCheckpoint` does not refuse, has a task that
  has delivered before what it depends on. `ResourcesAccounted`, `CheckpointsGrow`,
  `HeldMeansHeld` and `LateWorkStaysOut` hold for such sessions too.
* `ListsReturned`: the contradictions of a clone work are passed through unchecked
  (`clone-body.js:83`, `creation-fabric.js:74`); if they are no list the run of the
  cycle may never resolve, by finding 2. The theorems on what is committed do without.
* `Requirements`: the default requirements ask for tests, evidence and authority. A
  caller may switch them off, and then nothing is promised of them.
* `ClaimsAskForAnswers`: a claim may say that `UNKNOWN` verifies it, and gets what it
  asked for.
* `RootAtStart` or `MaxPowerLosses`: section 8.

**The session.** `ResourceAccounting` is not inductive alone: releasing a task's
amounts gives the load of the rest only if the task was charged exactly once, and it
is charged when it is launched, from PENDING. So the invariant is
`AccountInv == TypeOK /\ ActiveRunning /\ ResourceAccounting`, where `ActiveRunning`
says that an active task is RUNNING and hence cannot be launched again. The converse
fails for lanes that report RUNNING, and is not needed. The arithmetic comes first in
the module: the load of a set of tasks as prefix sums, its additivity over
disjoint sets and the effect of removing one task, by induction over `Nat` in the
form of `NatSetInduction`; `ScanWithinLimits` shows that what a scan takes fits.
`DependencyOrder` is inductive relative to `AccountInv`: a pump launches only what
has its dependencies satisfied, and only an active or pending task changes its
status. `NoStall` and `WorkConserving` are proved together, in
`ProgressInv == AccountInv /\ DecidedStatuses /\ NoStall /\ WorkConserving`, where
`DecidedStatuses` excludes statuses that nothing ever decides: if a pump ended with no
active lane and a pending task, the graph's lack of cycles would give a pending task
that depends on no pending one, which is then blocked, or runnable with all limits
free. `HeldStartsNothing` needs no invariant: every launch goes through a pump that is
told whether the run is held. `CheckpointGrows` and `LateWorkQuarantined` follow from
`AccountInv`: an entry of the checkpoint belongs to a task that is not active, and a
pump leaves such tasks alone (`PumpKeepsReusable`). `FinalAccount` needs `FinalInv`,
which adds that a session is only finalised with nothing pending or active and that
its result is then the status computed from the tasks: a lane that answers late must
find nothing left to change.

**The refinement.** Under `MapInv == ProgressInv /\ DependencyOrder /\ FinalInv` each
handler is a step of `DagRun` or a stutter. A lane's end with the pump that follows
settles one task, blocks a set that is closed under failed dependencies and launches
a set whose dependencies are done, which is what `Advance` allows; the abstract run
ends exactly when the session finalises.

**The loops.** `Recursion` shows that a function defined on `0..m` from its predecessor
is what its equation says; by it every pass and loop is defined and `Kept` is induction
over its steps. A blocking pass that meets a task with a failed dependency leaves fewer
pending, so N passes end the loop, and what they blocked then solves the equation
(`LoopBlocks`). Two solutions agree (`OneBlockedSet`): where they differed there would
be, the graph having no cycle, a task on whose dependencies they do not, and these
decide it. For launching, `Scanned` says what a pass has done up to a task: it launched
exactly what was runnable and fitted beside what it had launched before, which is the
equation. Amounts only grow during a pass, so what did not fit when it was scanned does
not fit at the end (`PassLeavesNone`), and the second pass of the code launches nothing
(`OnePassSuffices`).

**The end of a run.** Liveness itself is out of reach here, but not the facts it rests
on. `EndInv` says that a decided task has a receipt with its status, and an output if
dependents may start, and that a cancelled run is not paused and is over once no lane
is active. With
`ProgressInv` and `FinalInv` it gives `QuietRunsHaveEnded`: a state in which neither a
lane nor a pump is outstanding is one of a run left paused, or of one that has told its
caller. `RunsWindDown` is the measure: undecided tasks only become fewer, and each lane
that leaves decides its task, so a run of N tasks waits for at most N settlements. That
every one of them comes is the fairness of section 6.

**Resume.** The saved checkpoint outlives the session that wrote it, so each invariant
says of `saved` what must be true for the next session. `OutputsInv`: every output in
it was made under the revision it is marked with. `ReworkInv` adds to `NoRework` that
every reusable task has its receipt and every saved entry is admissible, so that the
next session takes it over; a live session keeps the entries because a pump never
touches a reusable task.
`ClosedInv`: the set of reusable tasks is closed under dependencies. The code never
checks that, and it holds only because a task is launched when its dependencies are
satisfied, which before a cancel means reusable as long as nobody but the scheduler
gives `COMPLETED_AFTER_CANCEL`. For `EverySessionIsSafe` a job is shown to be, for the
variables of the session, a run of `RunSession` that may start again (`JobsAreRuns`),
and restored sessions to begin as `Init` allows, whose sets are closed.

**Merging.** The lemmas of `MergePlanProofs` replace the order in which operations are
applied by a characterisation without one. For a set of changes whose paths are
pairwise apart (`ApartSet`), any order is refused exactly if some change is, on the
state it started with, and otherwise the result holds at each path what the change
puts there, and elsewhere what was there; so orders agree. Accepted
candidates never clash, hence a plan's operations are such a set. Sets are built up one
change at a time, so that induction runs over `Nat` (`CountingUp`). A diff is such
a set too (`DiffIsApart`) and makes the clone of its source (`DiffMakesIt`). `MergeInv`
carries this through histories: body and snapshots are documents, and each plan
(`SoundPlan`) has operations that lie apart from each other and from what is disputed,
whatever has become of the state it was made on. `UnwindsToStart` is inductive with it.

**Creation.** A cycle is a run of `RunSession` whose lanes deliver `COMPLETED`
(`CycleLanes`), and are disciplined where every work returns lists (`CycleIsRun`), so
the scheduler's theorems are used as they stand. `CycleInv` relates what passes between
the parts: a task has an output exactly when it has delivered, and it is a work on a
clone (`OutputsAreDeliveries`); the integration was made of the outputs that the
candidates still have, since none delivers after it (`IntegratesTheOutputs`); a receipt
exists only when the run is over, and its body plan is made from what the integration
delivered (`ReceiptsArePlans`). `MergedState` shows that the integration's tests see the
state that the commit produces, from the lemmas on merges: without their order-freeness
it would not follow.

**The planner.** `SelectionInv`: whichever way a capability comes in it is eligible, what
is covered has a provider in the plan, and once covering is over nothing eligible
provides what is left. `OrderInv`: when nothing is unresolved the plan is closed, has no
cycle and is small enough, and its order grows by capabilities whose dependencies are
in it already, until none is left.

**The store.** A published name shows a whole file because of what is true of a file
from before it is published: `StoreInv` says where each put stands, that a file that
any name of a checkpoint may show, now or after a loss of power, is one whose bytes
were synced or have come through a loss (`PublishedSynced`), which entries a loss may
leave (`DirOnDisk`), and where each temporary name is (`TempKept`). A loss of power then
picks among entries that are all whole. `DurableReceiptsHold` adds `DurableInv`: as long
as the root's name is on disk, or nothing was lost yet, no entry that a loss may leave
after a synced directory is an empty one.

**The archive.** `StoreInv` is about files, and a caller can tell more: `ArchiveInv`
adds that a power loss leaves a checkpoint's name as it is or takes it, and never
shows another file (`NamesKept`), that a put that has linked its file and not answered
is still the one the name shows (`Linked`), without which STORED could be told of
another's file, and that a put is answered once (`Silent`). Each awaited call is then
one step of the archive or none: `Publish` stores, `SyncDirectory` makes safe and
tells, a power loss keeps what was safe and makes safe what it kept, since afterwards
memory is what the disk has.

**Evidence.** `EvidenceInv == RepositoryInv /\ PhaseInv /\ CollectionsInv`. A run of a
workflow may be run again, so what was observed need no longer be true when the verdict
is given; what stays is that it once was (a collection that is refused leaves none).
`concluded` remembers every conclusion, and
the invariant says of each observation pushed so far that it is among what had been
concluded for the pinned commit, and which ones there are by how far the collector
is. Verdicts are then a matter of the evaluator's case distinctions.

**The registry.** `resolve` is an algorithm of two loops, and `ExactlyResolved` says
that their end is the right one. `ClosureIsLeast`: a round of the closure either adds an
id or changes nothing ever after, and there are no more rounds than ids (`MaxId`), so the
last is closed; and nothing closed that has the seeds is left on the way. For the loop
that drops dependents, `Scans` is what each step keeps true (`DropStays`): every usable
part survives, and what was dropped has a dependency that is out. A pass over something
closed drops nothing, every other pass drops something (`PassFacts`), and so there are
enough passes (`LoopEnds`). Closed
means closed under the dependencies that the code heeds (`Heeded`): an id that is the
empty string is found missing and then skipped. Both loops are recursive functions; that
they are defined (`ClosingDefined`, `PassDefined`, `LoopDefined`) comes from one lemma,
`Recursion`, by induction over `Nat`. `ResolutionsStay` rests on
`Typed /\ HeldInv`: a step of the registry or of a lane only adds (`RegistryGrows`), so the
capabilities of a resolution keep what was read of them (`UsedStays`). Being in the
answer again needs more: that they lie in everything closed that has the request, a
clause of `TrueOf`, which is why they are among what the request reaches today.

**Ignition.** `SetsBoundWhole` is inductive: a host's binding replaces nothing and adds
no wrapped function, and the adapter binds only sets none of whose refs is bound.
`EvidenceIsOfTheRun` rests on `AttestInv`: every receipt, wherever it has been put, says
of the lane it names what the history of that lane says, from the return of the work on
(`Issued`); nothing that a lane does later changes that (`Settled`). A straggler or a
test changes the clone and not the receipt, so one that still verifies is of the hashed
content that the candidate holds.

**Only model-checked:** liveness (`RunEnds`, `CancelEnds`), which is out of the
provers' reach. The theorems on the end of a run prove what can be proved of it.

## 8. Disagreements found

1. **A lane's outcome can be lost** (`session_lost`, `fabric.js:280`). `_completeTask`
   takes the task out of `active` before it normalises and clones the result. If
   that throws, the `.catch` calls `_failTask`, which returns because the task is no
   longer active. There is no receipt and no failure, and the session may wait for
   ever. `docs/FOUNDING_DIRECTION.md:153`: "Failures and contradictions must remain
   first-class outputs."
2. **A finished run may never resolve** (`session_unresolved`, `fabric.js:352`).
   `_finalize` sets `finalized` and then reads what lanes returned, whose shape nothing
   checks. It throws for plain JSON: `contradictions` without a `map` (356-362),
   `proposedChanges` that cannot be iterated (393). And it throws for what
   `structuredClone` accepts and canonical JSON does not: in one of two changes of a
   path (409) or in the checkpoint it exports (385). The promise then never settles.
   `README.md:144`: "normal non-resumed runs remain compatible and may still export a
   checkpoint".
3. **Distinct pressure is not distinct** (`plan_pressure`, `decomposition.js:83`).
   Alternatives are filtered before the first is added, and the set updated in the
   loop is never read, so two extras may share a pressure.
   `docs/DECOMPOSITION_GRAMMAR_V0_5.md:184`: "explicit diversity can add a distinct
   solution pressure".

Limits and disagreements that were read off the code and have no run of their own:

* The planner does not ask what the scheduler asks: `workers: 0` in a capability or in
  `integrationResources` passes `decomposition.js:371`, `:381` and `:401`, the plan is
  READY, and `normalizeSpec` refuses its run (`fabric.js:570`). `ReadyIsSchedulable`
  says that this is the only such case for amounts that are natural numbers.
* A capability that names the empty string among its dependencies is resolved whatever
  else it lacks: `resolve` looks for the first missing dependency and takes the empty
  string, which is one, for none (`registry.js:167`). The registry's own manifests ask
  for a worker (`registry.js:317`), but not for dependencies that are somebody's id.
* A lane that reports `RUNNING` or the empty string leaves its dependents waiting and
  its session open for ever. Nothing refuses those statuses; the properties on progress
  are stated for lanes that do not use them.
* A GitHub client's error whose status is no number becomes `NaN`, which the canonical
  JSON of the receipt refuses: the whole collection throws instead of recording an
  outage (`github-evidence.js`, `serializeError`; `Refuse` in the model).
* `put` syncs the store root but not the directory that names it, so a root that
  `put` itself creates may vanish at a power loss together with checkpoints reported
  as `directoryFsync`. `DurableStays` says what is kept: everything, as long as the
  root's own name is on disk. With more than one loss that needs a root that was
  there before the first put, since a later put may create it anew and empty.
* A `put` whose directory sync fails rejects although the checkpoint is in place; a
  retry answers EXISTS, with `directoryFsync` null (`checkpoint-file-store.js:64`).
* Freshness can be a claim's only evidence: a claim whose one requirement is the
  ref's stability is let through (`github-evidence.js:310`), while
  `docs/GITHUB_EVIDENCE_COLLECTOR_V0_8.md:45` says "Freshness is never allowed to
  become a claim's only evidence."
* Runs of one instant are ordered by their ids as text, so run 9 counts as newer
  than run 10 (`github-evidence.js:403`).
* A manifest whose resources have a key like `constructor` passes
  `validateResources` and makes every later snapshot throw, and with it every intake
  and resolution (`registry.js:56`, `:461`, `:496`). The model has such a manifest
  (`blockedKey`); nothing takes it out again.
* A manifest made from a verified claim stays in the registry when the claim is
  demoted, and the one of a later collection that verifies it again has other
  content, so its intake is refused as a conflict (`external-source.js:60`,
  `registry.js:286`).
* Binding the same function again under another `bindingRef` overwrites the ref it
  was bound under (`registry.js:76`).

## 9. What is not modelled, and why

* Within modelled parts: fractional amounts; `taskId` 1 and "1"; the upward
  override of fabric limits by a run; clone work that goes on after its promise
  settled, except in the lanes of `IgnitionRuntime`; a file replaced between `lstat`
  and `readFile`; array contents (scalars); `verifyMergeReceipt`'s comparison of
  hashes, which only refuses altered receipts; the checks on the shape of manifests,
  claims, collections and provider descriptors, which refuse a call before it has an
  effect; the wrapping of chosen work in a scope test.
* `selectCandidate` and `detectProposedChangeConflicts`: pure functions of receipts.
* `runRegisteredCreation`, `createRegisteredDecompositionPlan`: they hand a
  resolution on to the planner and the creation fabric and keep no state.
* Causal loop adapters: a sequential observation of an imported artifact; what can go
  wrong is outside the program (the artifact changes on disk) or in string handling.
* Discovery index, experiences, tools, scripts, examples, workflows, the package
  entry point: derivation and presentation, no state.

## 10. Plan

Done, in this order: `Resources`, `RunSession` and its proofs, `DagRun`, `PumpLoop`,
`CheckpointResume`, `JsonDocs`, `MergePlan`, `MergeFabric`, `CloneBody`,
`CreationCycle`, `CheckpointFileStore`, `Decomposition`, `Registry`,
`IgnitionRuntime`, `ExternalSource`, `GitHubEvidence`, `EvidenceRefresh`; the proofs of
the refinement, of the store and of the Ignition adapter; the proofs of resume, the
planner, the evidence, merging, creation and the registry; the proofs of the loops and
of how runs end; `CheckpointArchive` and the proof that the store implements it.

Next:

* Composition of `CheckpointFileStore` with `CheckpointResume`: a job whose exports
  go through the store and which resumes from what survived. `CheckpointArchive` is
  the interface for it: its `entry` is what `saved` may be taken from.
* A verified claim's manifest on its way into a registry, across a refresh.
* Which of the eligible workflow runs a collection picks, as a property: the newest that
  had concluded when the list was read.

## 11. How to run

```
tlc -workers 2 -config session_plain.cfg MCRunSession
tlc -workers 2 -config registry.cfg MCRegistry
tlapm RunSessionProofs.tla
tlapm CreationCycleProofs.tla
```

`PROJECT.json` names the module of each configuration. The longest run takes under
four minutes; the eight modules of proofs take about twenty minutes together.
