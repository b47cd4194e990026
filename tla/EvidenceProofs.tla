--------------------------- MODULE EvidenceProofs ---------------------------
(***************************************************************************)
(* What the evidence modules, the registry and its Ignition adapter        *)
(* promise.  First of every collection, for every repository, every set of *)
(* checks and claims, and any number of changes, outages and collections.  *)
(* Then of what resolve answers, for all bundles and requests.  Then of    *)
(* the receipts of the adapter, for all sets, lanes and clones, and for    *)
(* every run that a provider may report.  The first part is independent of *)
(* the others.                                                             *)
(***************************************************************************)
EXTENDS EvidenceRefresh, IgnitionRuntime, FiniteSetTheorems, WellFoundedInduction, TLAPS

(* A non-empty set of positions has a greatest one.                        *)
LEMMA MaxMember ==
  ASSUME NEW n \in Nat, NEW S \in SUBSET (1..n), S # {}
  PROVE  Max(S) \in S
<1> DEFINE R == {p \in Nat \X Nat : p[1] < p[2]}
           D == {n - x : x \in S}
<1>1. IsWellFoundedOn(R, Nat)
  BY NatLessThanWellFounded DEF OpToRel
<1>2. D \in SUBSET Nat /\ D # {}
  <2>1. \A x \in S : n - x \in Nat
    OBVIOUS
  <2>2. PICK x \in S : TRUE
    OBVIOUS
  <2>3. n - x \in D
    BY <2>2
  <2> QED BY <2>1, <2>3
<1>3. PICK d \in D : \A y \in D : ~(<<y, d>> \in R)
  <2> HIDE DEF R, D
  <2> QED BY <1>1, <1>2, WFMin
<1>4. PICK x \in S : d = n - x
  OBVIOUS
<1>5. \A y \in S : x >= y
  <2> TAKE y \in S
  <2>1. n - y \in D /\ n - y \in Nat /\ d \in Nat
    BY <1>2
  <2>2. ~(n - y < d)
    BY <1>3, <2>1
  <2> QED BY <1>4, <2>2
<1> QED BY <1>5 DEF Max

(* What Append does, for a sequence of anything. *)
IsSequence(s) == \E S : s \in Seq(S)

LEMMA AppendFacts ==
  ASSUME NEW s, IsSequence(s), NEW x
  PROVE  /\ IsSequence(Append(s, x))
         /\ Len(s) \in Nat
         /\ Len(Append(s, x)) = Len(s) + 1
         /\ \A i \in 1..Len(s) : Append(s, x)[i] = s[i]
         /\ Append(s, x)[Len(s) + 1] = x
         /\ Last(Append(s, x)) = x
         /\ Append(s, x) # <<>>
<1>1. PICK S : s \in Seq(S)
  BY DEF IsSequence
<1> DEFINE T == S \cup {x}
<1>2. s \in Seq(T) /\ x \in T
  BY <1>1
<1> HIDE DEF T
<1>3. Append(s, x) \in Seq(T) /\ Len(s) \in Nat /\ Len(Append(s, x)) = Len(s) + 1
  BY <1>2
<1>4. /\ \A i \in 1..Len(s) : Append(s, x)[i] = s[i]
      /\ Append(s, x)[Len(s) + 1] = x
  BY <1>2
<1> QED BY <1>3, <1>4 DEF IsSequence, Last
-----------------------------------------------------------------------------
(* Statuses that are no answer. *)
Silent == {"ERROR", "MISSING", "IN_PROGRESS"}

(* TrueStatuses, with the history of conclusions as a parameter. *)
TruthSince(history, commit, id) ==
  {FileStatus(FileChecks[i], commit) : i \in {j \in DOMAIN FileChecks : FileChecks[j].id = id}}
  \cup {r.status : r \in {s \in history :
          /\ id \in DOMAIN WorkflowChecks
          /\ WorkflowChecks[id].workflow = s.workflow
          /\ WorkflowChecks[id].headPolicy = "PINNED_HEAD" => s.headSha = commit}}

(* What the read of a file may push: the truth of the commit, or an error. *)
FileAnswers(check, commit) ==
  {FileObservation(FileStatus(check, commit), commit, Blobs[commit][check.path]),
   FileObservation("ERROR", commit, {})}

FirstIds(k) == {FileChecks[i].id : i \in 1..k}

FilesRead(pushed, commit, k) ==
  \A i \in 1..k : pushed[FileChecks[i].id] \in FileAnswers(FileChecks[i], commit)

WorkflowsRead(history, pushed, commit) ==
  \A id \in DOMAIN WorkflowChecks :
    pushed[id].status \in Silent \cup TruthSince(history, commit, id)

RunRecord == [workflow : Workflow, headSha : Commit,
              status : {"IN_PROGRESS", "SUCCESS", "FAILURE"}]

(* Every conclusion that can be seen is on record. *)
RepositoryInv ==
  /\ head \in Commit /\ pinned \in Commit
  /\ runs \in Seq(RunRecord)
  /\ \A i \in DOMAIN runs : runs[i].status # "IN_PROGRESS" => runs[i] \in concluded

(* How far the collector is, and that all it has is of the pinned commit. *)
ReadingFiles(pushed, commit) ==
  LET k == Cardinality(DOMAIN pushed)
  IN  /\ IsFiniteSet(DOMAIN pushed)
      /\ k \in 0..Len(FileChecks)
      /\ DOMAIN pushed = FirstIds(k)
      /\ FilesRead(pushed, commit, k)

HasAll(history, pushed, commit) ==
  /\ DOMAIN pushed = FileIds \cup DOMAIN WorkflowChecks
  /\ FilesRead(pushed, commit, Len(FileChecks))
  /\ WorkflowsRead(history, pushed, commit)

PhaseInv ==
  /\ phase \in {"idle", "files", "end"}
  /\ phase = "files" => ReadingFiles(observations, pinned)
  /\ phase = "end" => HasAll(concluded, observations, pinned)

(* A collection that was returned.                                         *)
Whole(history, c) ==
  LET freshness == c.observations[RefStability].status
  IN  /\ DOMAIN c.observations = FileIds \cup DOMAIN WorkflowChecks \cup {RefStability}
      /\ FilesRead(c.observations, c.pinned, Len(FileChecks))
      /\ WorkflowsRead(history, c.observations, c.pinned)
      /\ freshness \in {"UNKNOWN", "STABLE", "MOVED"}
      /\ freshness = "STABLE" => c.closing = c.pinned
      /\ freshness = "MOVED" => c.closing # c.pinned
      /\ c.status = CollectionStatus(c.observations, freshness)

CollectionsInv ==
  /\ IsSequence(collections)
  /\ \A i \in 1..Len(collections) : Whole(concluded, collections[i])

EvidenceInv == RepositoryInv /\ PhaseInv /\ CollectionsInv

LEMMA TruthGrows ==
  ASSUME NEW h1, NEW h2, h1 \subseteq h2, NEW commit, NEW id
  PROVE  TruthSince(h1, commit, id) \subseteq TruthSince(h2, commit, id)
BY DEF TruthSince

(* New conclusions leave what was collected as true as it was.             *)
LEMMA HistoryGrows ==
  ASSUME PhaseInv, CollectionsInv, UNCHANGED collectorVars, concluded \subseteq concluded'
  PROVE  PhaseInv' /\ CollectionsInv'
<1>1. UNCHANGED <<phase, pinned, observations, collections>>
  BY DEF collectorVars
<1>2. ASSUME NEW pushed, NEW commit, WorkflowsRead(concluded, pushed, commit)
      PROVE  WorkflowsRead(concluded', pushed, commit)
  BY <1>2, TruthGrows DEF WorkflowsRead
<1>3. PhaseInv'
  BY <1>1, <1>2 DEF PhaseInv, HasAll
<1>4. \A c : Whole(concluded, c) => Whole(concluded', c)
  BY <1>2 DEF Whole
<1> QED BY <1>1, <1>3, <1>4 DEF CollectionsInv

LEMMA ChangeStep ==
  ASSUME EvidenceInv, RefMoves \/ RunStarts \/ RunConcludes \/ RunAgain
  PROVE  EvidenceInv'
<1>0. /\ head \in Commit /\ pinned \in Commit /\ runs \in Seq(RunRecord)
      /\ \A i \in DOMAIN runs : runs[i].status # "IN_PROGRESS" => runs[i] \in concluded
      /\ PhaseInv /\ CollectionsInv
  BY DEF EvidenceInv, RepositoryInv
<1>1. UNCHANGED collectorVars /\ pinned' = pinned
  BY DEF RefMoves, RunStarts, RunConcludes, RunAgain, Change, collectorVars
<1>2. concluded \subseteq concluded'
  BY DEF RefMoves, RunStarts, RunConcludes, RunAgain
<1>3. RepositoryInv'
  <2>1. CASE RefMoves
    BY <1>0, <1>1, <2>1 DEF RefMoves, RepositoryInv
  <2>2. CASE RunStarts
    <3>1. PICK w \in Workflow :
            runs' = Append(runs, [workflow |-> w, headSha |-> head, status |-> "IN_PROGRESS"])
      BY <2>2 DEF RunStarts
    <3> DEFINE new == [workflow |-> w, headSha |-> head, status |-> "IN_PROGRESS"]
    <3>2. new \in RunRecord /\ new.status = "IN_PROGRESS"
      BY <1>0 DEF RunRecord
    <3>3. runs' = Append(runs, new) /\ concluded' = concluded /\ head' = head
      BY <2>2, <3>1 DEF RunStarts
    <3> HIDE DEF new
    <3>4. runs' \in Seq(RunRecord)
      BY <1>0, <3>2, <3>3
    <3>5. ASSUME NEW i \in DOMAIN runs', runs'[i].status # "IN_PROGRESS"
          PROVE  runs'[i] \in concluded'
      <4>1. i \in DOMAIN runs /\ runs'[i] = runs[i]
        BY <1>0, <3>2, <3>3, <3>5
      <4> QED BY <1>0, <3>3, <3>5, <4>1
    <3> QED BY <1>0, <1>1, <3>3, <3>4, <3>5 DEF RepositoryInv
  <2>3. CASE RunConcludes
    <3>1. PICK i \in DOMAIN runs, conclusion \in {"SUCCESS", "FAILURE"} :
            /\ runs' = [runs EXCEPT ![i].status = conclusion]
            /\ concluded' = concluded \cup {runs'[i]}
      BY <2>3 DEF RunConcludes
    <3> DEFINE over == [runs[i] EXCEPT !.status = conclusion]
    <3>2. runs[i] \in RunRecord
      BY <1>0
    <3>3. over \in RunRecord
      BY <3>2 DEF RunRecord
    <3>4. runs' = [runs EXCEPT ![i] = over]
      BY <3>1
    <3> HIDE DEF over
    <3>5. runs' \in Seq(RunRecord) /\ \A j \in DOMAIN runs : j # i => runs'[j] = runs[j]
      BY <1>0, <3>3, <3>4
    <3>6. DOMAIN runs' = DOMAIN runs
      BY <3>4
    <3> QED BY <1>0, <1>1, <2>3, <3>1, <3>5, <3>6 DEF RepositoryInv, RunConcludes
  <2>4. CASE RunAgain
    <3>1. PICK i \in DOMAIN runs : runs' = [runs EXCEPT ![i].status = "IN_PROGRESS"]
      BY <2>4 DEF RunAgain
    <3> DEFINE again == [runs[i] EXCEPT !.status = "IN_PROGRESS"]
    <3>2. runs[i] \in RunRecord
      BY <1>0
    <3>3. again \in RunRecord /\ again.status = "IN_PROGRESS"
      BY <3>2 DEF RunRecord
    <3>4. runs' = [runs EXCEPT ![i] = again]
      BY <3>1
    <3> HIDE DEF again
    <3>5. /\ runs' \in Seq(RunRecord) /\ DOMAIN runs' = DOMAIN runs
          /\ \A j \in DOMAIN runs : j # i => runs'[j] = runs[j]
          /\ runs'[i] = again
      BY <1>0, <3>3, <3>4
    <3> QED BY <1>0, <1>1, <2>4, <3>3, <3>5 DEF RepositoryInv, RunAgain
  <2> QED BY <2>1, <2>2, <2>3, <2>4
<1> QED BY <1>0, <1>1, <1>2, <1>3, HistoryGrows DEF EvidenceInv
-----------------------------------------------------------------------------
LEMMA ResolveStartStep ==
  ASSUME EvidenceInv, ResolveStart
  PROVE  EvidenceInv'
<1>1. /\ UNCHANGED <<head, runs, concluded, collections>>
      /\ pinned' = head /\ phase' = "files" /\ observations' = NoObservations
  BY DEF ResolveStart, repositoryVars
<1>2. RepositoryInv'
  BY <1>1 DEF EvidenceInv, RepositoryInv
<1>3. ReadingFiles(observations', pinned')
  <2>1. DOMAIN observations' = {}
    BY <1>1 DEF NoObservations
  <2>2. IsFiniteSet(DOMAIN observations') /\ Cardinality(DOMAIN observations') = 0
    BY <2>1, FS_EmptySet
  <2>3. FirstIds(0) = {} /\ FilesRead(observations', pinned', 0) /\ 0 \in 0..Len(FileChecks)
    BY EvidenceAssumption DEF FirstIds, FilesRead
  <2> QED BY <2>1, <2>2, <2>3 DEF ReadingFiles
<1>4. PhaseInv'
  BY <1>1, <1>3 DEF PhaseInv
<1>5. CollectionsInv'
  BY <1>1 DEF EvidenceInv, CollectionsInv
<1> QED BY <1>2, <1>4, <1>5 DEF EvidenceInv

(* The next read adds an id that was not there.                            *)
LEMMA NextFile ==
  ASSUME NEW pushed, NEW commit, ReadingFiles(pushed, commit),
         NEW i, i = Cardinality(DOMAIN pushed) + 1, i <= Len(FileChecks),
         NEW o \in FileAnswers(FileChecks[i], commit),
         NEW more, more = Pushed(pushed, [id \in {FileChecks[i].id} |-> o])
  PROVE  ReadingFiles(more, commit)
<1> DEFINE k == Cardinality(DOMAIN pushed)
           new == FileChecks[i].id
<1>1. /\ IsFiniteSet(DOMAIN pushed) /\ k \in Nat /\ k + 1 <= Len(FileChecks)
      /\ Len(FileChecks) \in Nat /\ i = k + 1
      /\ DOMAIN pushed = FirstIds(k) /\ FilesRead(pushed, commit, k)
  BY EvidenceAssumption DEF ReadingFiles
<1>2. ASSUME NEW j \in 1..k PROVE FileChecks[j].id # new
  <2>1. j \in DOMAIN FileChecks /\ i \in DOMAIN FileChecks /\ j # i
    BY <1>1, EvidenceAssumption
  <2> QED BY <2>1, EvidenceAssumption
<1>3. /\ DOMAIN more = DOMAIN pushed \cup {new}
      /\ more[new] = o
      /\ \A id \in DOMAIN pushed : id # new => more[id] = pushed[id]
  BY DEF Pushed
<1>4. new \notin DOMAIN pushed
  BY <1>1, <1>2 DEF FirstIds
<1>5. IsFiniteSet(DOMAIN more) /\ Cardinality(DOMAIN more) = k + 1
  <2> HIDE DEF k, new
  <2>1. IsFiniteSet(DOMAIN pushed) /\ Cardinality(DOMAIN pushed) = k
    BY <1>1 DEF k
  <2> QED BY <1>3, <1>4, <2>1, FS_AddElement
<1>6. 1..(k + 1) = (1..k) \cup {i}
  BY <1>1
<1>7. DOMAIN more = FirstIds(k + 1)
  <2>1. FirstIds(k + 1) = FirstIds(k) \cup {new}
    BY <1>6 DEF FirstIds
  <2> QED BY <1>1, <1>3, <2>1
<1>8. ASSUME NEW j \in 1..(k + 1)
      PROVE  more[FileChecks[j].id] \in FileAnswers(FileChecks[j], commit)
  <2>1. CASE j = i
    BY <1>3, <2>1
  <2>2. CASE j \in 1..k
    <3>1. FileChecks[j].id \in DOMAIN pushed
      BY <1>1, <2>2 DEF FirstIds
    <3> QED BY <1>1, <1>2, <1>3, <2>2, <3>1 DEF FilesRead
  <2> QED BY <1>6, <2>1, <2>2
<1>9. FilesRead(more, commit, k + 1)
  BY <1>8 DEF FilesRead
<1>10. k + 1 \in 0..Len(FileChecks)
  BY <1>1
<1> QED BY <1>5, <1>7, <1>9, <1>10 DEF ReadingFiles

LEMMA GetFileStep ==
  ASSUME EvidenceInv, GetFile
  PROVE  EvidenceInv'
<1>1. PICK i : i = Cardinality(DOMAIN observations) + 1
  OBVIOUS
<1>2. /\ phase = "files" /\ i <= Len(FileChecks)
      /\ UNCHANGED <<head, runs, concluded, phase, pinned, collections>>
  BY <1>1 DEF GetFile, repositoryVars
<1>3. PICK o \in {ReadAt(FileChecks[i]), FileOutage(FileChecks[i])} :
        observations' = Pushed(observations, [id \in {FileChecks[i].id} |-> o])
  BY <1>1 DEF GetFile
<1>4. o \in FileAnswers(FileChecks[i], pinned)
  BY <1>3 DEF FileAnswers, ReadAt, FileOutage
<1>5. ReadingFiles(observations, pinned)
  BY <1>2 DEF EvidenceInv, PhaseInv
<1>6. ReadingFiles(observations', pinned)
  BY <1>1, <1>2, <1>3, <1>4, <1>5, NextFile
<1>7. PhaseInv'
  BY <1>2, <1>6 DEF PhaseInv
<1> QED BY <1>2, <1>7 DEF EvidenceInv, RepositoryInv, CollectionsInv

(* One listing decides all workflow checks, and says what runs concluded.  *)
LEMMA WorkflowTruth ==
  ASSUME RepositoryInv, NEW id \in DOMAIN WorkflowChecks
  PROVE  WorkflowObservation(WorkflowChecks[id]).status
           \in Silent \cup TruthSince(concluded, pinned, id)
<1> DEFINE check == WorkflowChecks[id]
           newest == Max(Eligible(check))
<1>1. CASE Eligible(check) = {}
  BY <1>1 DEF WorkflowObservation, WorkflowReport, Silent
<1>2. CASE Eligible(check) # {}
  <2>1. Len(runs) \in Nat /\ DOMAIN runs = 1..Len(runs)
    BY DEF RepositoryInv
  <2>2. Eligible(check) \in SUBSET (1..Len(runs))
    BY <2>1 DEF Eligible
  <2>3. newest \in Eligible(check)
    BY <1>2, <2>1, <2>2, MaxMember
  <2>4. WorkflowObservation(check).status = runs[newest].status
    BY <1>2 DEF WorkflowObservation, WorkflowReport
  <2>5. /\ newest \in DOMAIN runs /\ runs[newest].workflow = check.workflow
        /\ check.headPolicy = "PINNED_HEAD" => runs[newest].headSha = pinned
    BY <2>3 DEF Eligible
  <2> HIDE DEF newest
  <2>6. CASE runs[newest].status = "IN_PROGRESS"
    BY <2>4, <2>6 DEF Silent
  <2>7. CASE runs[newest].status # "IN_PROGRESS"
    <3>1. runs[newest] \in concluded
      BY <2>5, <2>7 DEF RepositoryInv
    <3>2. runs[newest].status \in TruthSince(concluded, pinned, id)
      BY <2>5, <3>1 DEF TruthSince
    <3> QED BY <2>4, <3>2
  <2> QED BY <2>6, <2>7
<1> QED BY <1>1, <1>2

LEMMA AllPushed ==
  ASSUME NEW pushed, NEW commit, NEW history, NEW reports,
         ReadingFiles(pushed, commit), Cardinality(DOMAIN pushed) = Len(FileChecks),
         DOMAIN reports = DOMAIN WorkflowChecks,
         \A id \in DOMAIN WorkflowChecks :
           reports[id].status \in Silent \cup TruthSince(history, commit, id)
  PROVE  HasAll(history, Pushed(pushed, reports), commit)
<1> DEFINE all == Pushed(pushed, reports)
<1>1. DOMAIN pushed = FileIds /\ FilesRead(pushed, commit, Len(FileChecks))
  BY EvidenceAssumption DEF ReadingFiles, FirstIds, FileIds
<1>2. /\ DOMAIN all = FileIds \cup DOMAIN WorkflowChecks
      /\ \A id \in DOMAIN WorkflowChecks : all[id] = reports[id]
      /\ \A id \in FileIds : all[id] = pushed[id]
  BY <1>1, EvidenceAssumption DEF Pushed
<1> HIDE DEF all
<1>3. \A i \in 1..Len(FileChecks) : FileChecks[i].id \in FileIds
  BY EvidenceAssumption DEF FileIds
<1>4. FilesRead(all, commit, Len(FileChecks))
  BY <1>1, <1>2, <1>3 DEF FilesRead
<1>5. WorkflowsRead(history, all, commit)
  BY <1>2 DEF WorkflowsRead
<1> QED BY <1>2, <1>4, <1>5 DEF HasAll, all

LEMMA ListWorkflowRunsStep ==
  ASSUME EvidenceInv, ListWorkflowRuns
  PROVE  EvidenceInv'
<1>1. /\ phase = "files" /\ Cardinality(DOMAIN observations) = Len(FileChecks)
      /\ phase' = "end"
      /\ UNCHANGED <<head, runs, concluded, pinned, collections>>
  BY DEF ListWorkflowRuns, repositoryVars
<1>2. ReadingFiles(observations, pinned) /\ RepositoryInv
  BY <1>1 DEF EvidenceInv, PhaseInv
<1>3. PICK reports :
        /\ DOMAIN reports = DOMAIN WorkflowChecks
        /\ \A id \in DOMAIN WorkflowChecks :
             reports[id].status \in Silent \cup TruthSince(concluded, pinned, id)
        /\ observations' = Pushed(observations, reports)
  <2>1. CASE observations' = Pushed(observations,
               [id \in DOMAIN WorkflowChecks |-> WorkflowObservation(WorkflowChecks[id])])
    <3> DEFINE answers == [id \in DOMAIN WorkflowChecks |->
                             WorkflowObservation(WorkflowChecks[id])]
    <3>1. \A id \in DOMAIN WorkflowChecks :
            answers[id].status \in Silent \cup TruthSince(concluded, pinned, id)
      BY <1>2, WorkflowTruth
    <3>2. DOMAIN answers = DOMAIN WorkflowChecks /\ observations' = Pushed(observations, answers)
      BY <2>1
    <3> HIDE DEF answers
    <3> QED BY <3>1, <3>2
  <2>2. CASE observations' = Pushed(observations,
               [id \in DOMAIN WorkflowChecks |-> WorkflowOutage])
    <3> DEFINE outages == [id \in DOMAIN WorkflowChecks |-> WorkflowOutage]
    <3>1. \A id \in DOMAIN WorkflowChecks : outages[id].status \in Silent
      BY DEF WorkflowOutage, WorkflowReport, Silent
    <3>2. DOMAIN outages = DOMAIN WorkflowChecks /\ observations' = Pushed(observations, outages)
      BY <2>2
    <3> HIDE DEF outages
    <3> QED BY <3>1, <3>2
  <2> QED BY <2>1, <2>2 DEF ListWorkflowRuns
<1>4. HasAll(concluded, observations', pinned)
  BY <1>1, <1>2, <1>3, AllPushed
<1>5. PhaseInv'
  BY <1>1, <1>4 DEF PhaseInv
<1> QED BY <1>1, <1>5 DEF EvidenceInv, RepositoryInv, CollectionsInv

LEMMA WholeReturned ==
  ASSUME NEW history, NEW pushed, NEW commit, NEW closing, NEW stability,
         HasAll(history, pushed, commit),
         stability.status \in {"UNKNOWN", "STABLE", "MOVED"},
         stability.status = "STABLE" => closing = commit,
         stability.status = "MOVED" => closing # commit,
         NEW all, all = Pushed(pushed, [id \in {RefStability} |-> stability])
  PROVE  Whole(history, [pinned |-> commit, observations |-> all, closing |-> closing,
                         status |-> CollectionStatus(all, stability.status)])
<1>1. /\ DOMAIN all = DOMAIN pushed \cup {RefStability}
      /\ all[RefStability] = stability
      /\ \A id \in DOMAIN pushed : id # RefStability => all[id] = pushed[id]
  BY DEF Pushed
<1>2. DOMAIN pushed = FileIds \cup DOMAIN WorkflowChecks /\ RefStability \notin DOMAIN pushed
  BY EvidenceAssumption DEF HasAll
<1>3. \A i \in 1..Len(FileChecks) : FileChecks[i].id \in FileIds
  BY EvidenceAssumption DEF FileIds
<1>4. FilesRead(all, commit, Len(FileChecks))
  BY <1>1, <1>2, <1>3 DEF HasAll, FilesRead
<1>5. WorkflowsRead(history, all, commit)
  BY <1>1, <1>2 DEF HasAll, WorkflowsRead
<1> QED BY <1>1, <1>2, <1>4, <1>5 DEF Whole

LEMMA ResolveEndStep ==
  ASSUME EvidenceInv, ResolveEnd
  PROVE  EvidenceInv'
<1>1. /\ phase = "end" /\ phase' = "idle"
      /\ UNCHANGED <<head, runs, concluded, pinned>>
  BY DEF ResolveEnd, repositoryVars
<1>2. HasAll(concluded, observations, pinned) /\ IsSequence(collections)
  BY <1>1 DEF EvidenceInv, PhaseInv, CollectionsInv
<1>3. PICK c : Whole(concluded, c) /\ collections' = Append(collections, c)
  <2>1. PICK answered \in BOOLEAN :
          LET freshness == Freshness(answered)
              stability == [status |-> freshness, basis |-> "OBSERVED_SOURCE",
                            evidenceRef |-> IF answered THEN <<pinned, head>> ELSE <<"end-error">>,
                            details |-> <<pinned>>]
              pushed == Pushed(observations, [id \in {RefStability} |-> stability])
          IN  collections' = Append(collections,
                [pinned |-> pinned, observations |-> pushed, closing |-> head,
                 status |-> CollectionStatus(pushed, freshness)])
    BY DEF ResolveEnd
  <2> DEFINE stability == [status |-> Freshness(answered), basis |-> "OBSERVED_SOURCE",
                           evidenceRef |-> IF answered THEN <<pinned, head>> ELSE <<"end-error">>,
                           details |-> <<pinned>>]
             pushed == Pushed(observations, [id \in {RefStability} |-> stability])
             c == [pinned |-> pinned, observations |-> pushed, closing |-> head,
                   status |-> CollectionStatus(pushed, Freshness(answered))]
  <2>2. collections' = Append(collections, c)
    BY <2>1
  <2>3. stability.status = Freshness(answered)
    OBVIOUS
  <2>4. /\ Freshness(answered) \in {"UNKNOWN", "STABLE", "MOVED"}
        /\ Freshness(answered) = "STABLE" => head = pinned
        /\ Freshness(answered) = "MOVED" => head # pinned
    BY DEF Freshness
  <2> HIDE DEF stability
  <2>5. Whole(concluded, [pinned |-> pinned, observations |-> pushed, closing |-> head,
                          status |-> CollectionStatus(pushed, stability.status)])
    BY <1>2, <2>3, <2>4, WholeReturned
  <2>6. Whole(concluded, c)
    BY <2>3, <2>5
  <2> HIDE DEF c
  <2> QED BY <2>2, <2>6
<1>4. CollectionsInv'
  <2>1. \A i \in 1..Len(collections) : Whole(concluded, collections[i])
    BY DEF EvidenceInv, CollectionsInv
  <2>2. /\ IsSequence(collections') /\ Len(collections) \in Nat
        /\ Len(collections') = Len(collections) + 1
        /\ \A i \in 1..Len(collections) : collections'[i] = collections[i]
        /\ collections'[Len(collections) + 1] = c
    BY <1>2, <1>3, AppendFacts
  <2>3. \A i \in 1..Len(collections') : i \in 1..Len(collections) \/ i = Len(collections) + 1
    BY <2>2
  <2> QED BY <1>1, <1>3, <2>1, <2>2, <2>3 DEF CollectionsInv
<1>5. PhaseInv'
  BY <1>1 DEF PhaseInv
<1> QED BY <1>1, <1>4, <1>5 DEF EvidenceInv, RepositoryInv

LEMMA RefuseStep ==
  ASSUME EvidenceInv, Refuse
  PROVE  EvidenceInv'
BY DEF Refuse, repositoryVars, EvidenceInv, RepositoryInv, PhaseInv, CollectionsInv

LEMMA EvidenceAlways == EvidenceSpec => []EvidenceInv
<1>1. EvidenceInit => EvidenceInv
  <2> SUFFICES ASSUME EvidenceInit PROVE EvidenceInv
    OBVIOUS
  <2>1. RepositoryInv /\ PhaseInv
    BY DEF EvidenceInit, RepositoryInv, PhaseInv
  <2>2. collections = <<>>
    BY DEF EvidenceInit
  <2>3. <<>> \in Seq({}) /\ Len(<<>>) = 0
    OBVIOUS
  <2> QED BY <2>1, <2>2, <2>3 DEF EvidenceInv, CollectionsInv, IsSequence
<1>2. EvidenceInv /\ [EvidenceNext]_evidenceVars => EvidenceInv'
  <2> SUFFICES ASSUME EvidenceInv, [EvidenceNext]_evidenceVars PROVE EvidenceInv'
    OBVIOUS
  <2>1. CASE UNCHANGED evidenceVars
    BY <2>1
    DEF evidenceVars, repositoryVars, collectorVars, EvidenceInv, RepositoryInv, PhaseInv,
        CollectionsInv
  <2> QED BY <2>1, ChangeStep, ResolveStartStep, GetFileStep, ListWorkflowRunsStep,
             ResolveEndStep, RefuseStep DEF EvidenceNext
<1> QED BY <1>1, <1>2, PTL DEF EvidenceSpec
-----------------------------------------------------------------------------
LEMMA Returned ==
  ASSUME EvidenceInv, NEW c \in JustReturned
  PROVE  Whole(concluded, c)
<1>1. collections # <<>> /\ c = Last(collections)
  BY DEF JustReturned
<1>2. IsSequence(collections) /\ \A i \in 1..Len(collections) : Whole(concluded, collections[i])
  BY DEF EvidenceInv, CollectionsInv
<1>3. Len(collections) \in 1..Len(collections)
  BY <1>1, <1>2 DEF IsSequence
<1> QED BY <1>1, <1>2, <1>3 DEF Last

(* The terms a claim is judged by, and the verdict it gets.                *)
Terms(id, strict) == IF strict THEN WithRefStability(Claim[id]) ELSE Claim[id]

LEMMA ReceiptFields ==
  ASSUME NEW c, NEW strict, NEW id \in DOMAIN Claim
  PROVE  /\ DOMAIN ReceiptOf(c, strict).claims = DOMAIN Claim
         /\ ReceiptOf(c, strict).headSha = c.pinned
         /\ ReceiptOf(c, strict).claims[id] = EvaluateClaim(Terms(id, strict), c.observations)
BY DEF ReceiptOf, SourceReceipt, Terms

LEMMA VerdictMeans ==
  ASSUME NEW claim, NEW observed
  PROVE  LET v == EvaluateClaim(claim, observed).status
         IN  /\ v = "SOURCE_VERIFIED" => \A q \in claim.requirements : Passed(q, observed)
             /\ v = "SOURCE_CONTRADICTED" =>
                  \E q \in claim.requirements : Contradicted(q, observed)
BY DEF EvaluateClaim, ClaimStatus

LEMMA TermsKeep ==
  ASSUME NEW id, NEW strict
  PROVE  /\ Claim[id].requirements \subseteq Terms(id, strict).requirements
         /\ \A q \in Terms(id, strict).requirements :
              \/ q \in Claim[id].requirements
              \/ q.observationId = RefStability /\ q.rejectStatuses = {}
BY DEF Terms, WithRefStability

(* What is not silent is true of the pinned commit.                        *)
LEMMA AnswerIsTrue ==
  ASSUME NEW c, Whole(concluded, c), NEW id \in FileIds \cup DOMAIN WorkflowChecks,
         c.observations[id].status \notin Silent
  PROVE  c.observations[id].status \in TrueStatuses(c.pinned, id)
<1>1. TrueStatuses(c.pinned, id) = TruthSince(concluded, c.pinned, id)
  BY DEF TrueStatuses, TruthSince
<1>2. CASE id \in DOMAIN WorkflowChecks
  BY <1>1, <1>2 DEF Whole, WorkflowsRead
<1>3. CASE id \in FileIds
  <2>1. PICK i \in DOMAIN FileChecks : FileChecks[i].id = id
    BY <1>3 DEF FileIds
  <2>2. c.observations[id] \in FileAnswers(FileChecks[i], c.pinned)
    BY <2>1, EvidenceAssumption DEF Whole, FilesRead
  <2>3. c.observations[id].status = FileStatus(FileChecks[i], c.pinned)
    BY <2>2 DEF FileAnswers, FileObservation, Silent
  <2> QED BY <1>1, <2>1, <2>3 DEF TruthSince
<1> QED BY <1>2, <1>3

(* Claims ask for answers: none is met or refuted by an outage, by a run   *)
(* that is missing or not over, or refuted by what the ref did.            *)
ClaimsAskForAnswers ==
  \A id \in DOMAIN Claim : \A q \in Claim[id].requirements :
    IF q.observationId = RefStability
      THEN q.rejectStatuses \cap {"UNKNOWN", "STABLE", "MOVED"} = {}
      ELSE (q.acceptedStatuses \cup q.rejectStatuses) \cap Silent = {}

(* A claim is verified or contradicted only by the commit that its receipt *)
(* names, however the ref, the runs and the client calls interleave.       *)
THEOREM VerdictsDeserved ==
  ASSUME ClaimsAskForAnswers
  PROVE  EvidenceSpec => []VerdictsAreDeserved
<1>1. EvidenceInv => VerdictsAreDeserved
  <2> SUFFICES ASSUME EvidenceInv, NEW c \in JustReturned, NEW strict \in BOOLEAN,
                      NEW id \in DOMAIN Claim
               PROVE  LET receipt == ReceiptOf(c, strict)
                      IN  /\ \A m \in VerifiedManifest(receipt, id, Claim[id].capabilityId) :
                               /\ m.headSha = c.pinned
                               /\ \A q \in Required(id) :
                                    TrueStatuses(c.pinned, q.observationId)
                                      \cap (q.acceptedStatuses \ q.rejectStatuses) # {}
                          /\ receipt.claims[id].status = "SOURCE_CONTRADICTED" =>
                               \E q \in Required(id) :
                                 TrueStatuses(c.pinned, q.observationId) \cap q.rejectStatuses # {}
    BY DEF VerdictsAreDeserved
  <2> DEFINE receipt == ReceiptOf(c, strict)
             verdict == receipt.claims[id].status
  <2>1. Whole(concluded, c)
    BY Returned
  <2>2. /\ receipt.headSha = c.pinned
        /\ receipt.claims[id] = EvaluateClaim(Terms(id, strict), c.observations)
    BY ReceiptFields
  <2>3. DOMAIN c.observations = FileIds \cup DOMAIN WorkflowChecks \cup {RefStability}
    BY <2>1 DEF Whole
  <2>4. ASSUME NEW q \in Required(id), q.observationId \in DOMAIN c.observations,
               c.observations[q.observationId].status \in q.acceptedStatuses \cup q.rejectStatuses
        PROVE  c.observations[q.observationId].status \in TrueStatuses(c.pinned, q.observationId)
    <3>1. q \in Claim[id].requirements /\ q.observationId # RefStability
      BY DEF Required
    <3>2. c.observations[q.observationId].status \notin Silent
      BY <2>4, <3>1 DEF ClaimsAskForAnswers
    <3>3. q.observationId \in FileIds \cup DOMAIN WorkflowChecks
      BY <2>3, <2>4, <3>1
    <3> QED BY <2>1, <3>2, <3>3, AnswerIsTrue
  <2>5. ASSUME NEW m \in VerifiedManifest(receipt, id, Claim[id].capabilityId)
        PROVE  /\ m.headSha = c.pinned
               /\ \A q \in Required(id) :
                    TrueStatuses(c.pinned, q.observationId)
                      \cap (q.acceptedStatuses \ q.rejectStatuses) # {}
    <3>1. m.headSha = receipt.headSha /\ verdict = "SOURCE_VERIFIED"
      BY <2>5 DEF VerifiedManifest
    <3>2. \A q \in Terms(id, strict).requirements : Passed(q, c.observations)
      BY <2>2, <3>1, VerdictMeans
    <3>3. ASSUME NEW q \in Required(id)
          PROVE  TrueStatuses(c.pinned, q.observationId)
                   \cap (q.acceptedStatuses \ q.rejectStatuses) # {}
      <4>1. Passed(q, c.observations)
        BY <3>2, TermsKeep DEF Required
      <4>2. /\ q.observationId \in DOMAIN c.observations
            /\ c.observations[q.observationId].status \in q.acceptedStatuses
            /\ c.observations[q.observationId].status \notin q.rejectStatuses
        BY <4>1 DEF Passed, Contradicted, Missing
      <4>3. c.observations[q.observationId].status \in TrueStatuses(c.pinned, q.observationId)
        BY <2>4, <4>2
      <4> QED BY <4>2, <4>3
    <3> QED BY <2>2, <3>1, <3>3
  <2>6. ASSUME verdict = "SOURCE_CONTRADICTED"
        PROVE  \E q \in Required(id) :
                 TrueStatuses(c.pinned, q.observationId) \cap q.rejectStatuses # {}
    <3>1. PICK q \in Terms(id, strict).requirements : Contradicted(q, c.observations)
      BY <2>2, <2>6, VerdictMeans
    <3>2. /\ q.observationId \in DOMAIN c.observations
          /\ c.observations[q.observationId].status \in q.rejectStatuses
      BY <3>1 DEF Contradicted, Missing
    <3>3. c.observations[RefStability].status \in {"UNKNOWN", "STABLE", "MOVED"}
      BY <2>1 DEF Whole
    <3>4. q \in Claim[id].requirements
      BY <3>2, TermsKeep
    <3>5. q.observationId # RefStability
      BY <3>2, <3>3, <3>4 DEF ClaimsAskForAnswers
    <3>6. q \in Required(id)
      BY <3>4, <3>5 DEF Required
    <3> QED BY <2>4, <3>2, <3>6
  <2> HIDE DEF receipt
  <2> QED BY <2>5, <2>6 DEF receipt
<1> QED BY <1>1, EvidenceAlways, PTL

(* A ref seen elsewhere at the last call verifies no claim that leaves the *)
(* ref to the gate.                                                        *)
THEOREM StableRefGateHolds == EvidenceSpec => []StableRefGate
<1>1. EvidenceInv => StableRefGate
  <2> SUFFICES ASSUME EvidenceInv, NEW c \in JustReturned, c.closing # c.pinned,
                      NEW id \in DOMAIN Claim, ~NamesRef(Claim[id]),
                      Verdict(c, TRUE, id) = "SOURCE_VERIFIED"
               PROVE  FALSE
    BY DEF StableRefGate
  <2>1. c.observations[RefStability].status # "STABLE"
    BY Returned DEF Whole
  <2>2. PICK q \in Terms(id, TRUE).requirements :
          q.observationId = RefStability /\ q.acceptedStatuses = {"STABLE"}
    <3> DEFINE gate == [observationId |-> RefStability, acceptedStatuses |-> {"STABLE"},
                        acceptedBases |-> {"OBSERVED_SOURCE"}, rejectStatuses |-> {}]
    <3>1. Terms(id, TRUE).requirements = Claim[id].requirements \cup {gate}
      BY DEF Terms, WithRefStability
    <3>2. gate.observationId = RefStability /\ gate.acceptedStatuses = {"STABLE"}
      OBVIOUS
    <3> HIDE DEF gate
    <3> QED BY <3>1, <3>2
  <2>3. Verdict(c, TRUE, id) = EvaluateClaim(Terms(id, TRUE), c.observations).status
    BY ReceiptFields DEF Verdict
  <2>4. Passed(q, c.observations)
    BY <2>3, VerdictMeans
  <2> QED BY <2>1, <2>2, <2>4 DEF Passed
<1> QED BY <1>1, EvidenceAlways, PTL

LEMMA NotPartial ==
  ASSUME NEW c, Whole(concluded, c), c.status # "PARTIAL"
  PROVE  /\ c.observations[RefStability].status # "UNKNOWN"
         /\ \A id \in DOMAIN c.observations : c.observations[id].status # "ERROR"
BY DEF Whole, CollectionStatus

LEMMA FilesTold ==
  ASSUME NEW c, Whole(concluded, c), c.status # "PARTIAL", NEW i \in DOMAIN FileChecks
  PROVE  c.observations[FileChecks[i].id] =
           FileObservation(FileStatus(FileChecks[i], c.pinned), c.pinned,
                           Blobs[c.pinned][FileChecks[i].path])
<1>1. FileChecks[i].id \in DOMAIN c.observations
  BY DEF Whole, FileIds
<1>2. c.observations[FileChecks[i].id] \in FileAnswers(FileChecks[i], c.pinned)
  BY EvidenceAssumption DEF Whole, FilesRead
<1>3. FileObservation("ERROR", c.pinned, {}).status = "ERROR"
  BY DEF FileObservation
<1> QED BY <1>1, <1>2, <1>3, NotPartial DEF FileAnswers

(* A collection that calls itself complete leaves nothing out and is true  *)
(* of its commit; PINNED_COMPLETE says what the ref named at its last call. *)
THEOREM CompleteCollections == EvidenceSpec => []CompleteIsComplete
<1>1. EvidenceInv => CompleteIsComplete
  <2> SUFFICES ASSUME EvidenceInv, NEW c \in JustReturned, c.status # "PARTIAL"
               PROVE  /\ DOMAIN c.observations =
                           FileIds \cup DOMAIN WorkflowChecks \cup {RefStability}
                      /\ \A i \in DOMAIN FileChecks :
                           c.observations[FileChecks[i].id].status =
                             FileStatus(FileChecks[i], c.pinned)
                      /\ \A id \in DOMAIN WorkflowChecks : c.observations[id].status # "ERROR"
                      /\ c.status = "PINNED_COMPLETE" <=> c.closing = c.pinned
    BY DEF CompleteIsComplete
  <2>1. Whole(concluded, c)
    BY Returned
  <2>2. DOMAIN c.observations = FileIds \cup DOMAIN WorkflowChecks \cup {RefStability}
    BY <2>1 DEF Whole
  <2>3. ASSUME NEW i \in DOMAIN FileChecks
        PROVE  c.observations[FileChecks[i].id].status = FileStatus(FileChecks[i], c.pinned)
    <3>1. c.observations[FileChecks[i].id] =
            FileObservation(FileStatus(FileChecks[i], c.pinned), c.pinned,
                            Blobs[c.pinned][FileChecks[i].path])
      BY <2>1, FilesTold
    <3>2. FileObservation(FileStatus(FileChecks[i], c.pinned), c.pinned,
                          Blobs[c.pinned][FileChecks[i].path]).status =
            FileStatus(FileChecks[i], c.pinned)
      BY DEF FileObservation
    <3> QED BY <3>1, <3>2
  <2>4. \A id \in DOMAIN WorkflowChecks : c.observations[id].status # "ERROR"
    BY <2>1, <2>2, NotPartial
  <2>5. c.status = "PINNED_COMPLETE" <=> c.closing = c.pinned
    <3>1. c.status = IF c.observations[RefStability].status = "MOVED"
                       THEN "PINNED_COMPLETE_REF_MOVED" ELSE "PINNED_COMPLETE"
      BY <2>1, NotPartial DEF Whole, CollectionStatus
    <3>2. c.observations[RefStability].status \in {"STABLE", "MOVED"}
      BY <2>1, NotPartial DEF Whole
    <3> QED BY <2>1, <3>1, <3>2 DEF Whole
  <2> QED BY <2>2, <2>3, <2>4, <2>5
<1> QED BY <1>1, EvidenceAlways, PTL
-----------------------------------------------------------------------------
(* Verdicts depend on nothing but the observations a claim asks for.       *)
LEMMA SameObservations ==
  ASSUME NEW claim, NEW o1, NEW o2, DOMAIN o1 = DOMAIN o2,
         \A q \in claim.requirements :
           q.observationId \in DOMAIN o1 => o1[q.observationId] = o2[q.observationId]
  PROVE  EvaluateClaim(claim, o1).status = EvaluateClaim(claim, o2).status
<1>1. \A q \in claim.requirements :
        /\ Contradicted(q, o1) <=> Contradicted(q, o2)
        /\ Passed(q, o1) <=> Passed(q, o2)
  BY DEF Contradicted, Passed, Missing
<1> QED BY <1>1 DEF EvaluateClaim, ClaimStatus

(* Between two collections of one commit that answer for every file, only  *)
(* the ref and the workflows can differ.                                   *)
LEMMA SameFiles ==
  ASSUME NEW c, NEW d, Whole(concluded, c), Whole(concluded, d),
         c.pinned = d.pinned, c.status # "PARTIAL", d.status # "PARTIAL",
         NEW id \in FileIds
  PROVE  c.observations[id] = d.observations[id]
<1>1. PICK i \in DOMAIN FileChecks : FileChecks[i].id = id
  BY DEF FileIds
<1> QED BY <1>1, FilesTold

(* A refresh never reports a verdict as gained or lost without a changed   *)
(* observation to blame, and that one without a cause.                     *)
THEOREM DriftHasACause == EvidenceSpec => []DriftExplained
<1>1. EvidenceInv => DriftExplained
  <2> SUFFICES ASSUME EvidenceInv, NEW c \in JustReturned,
                      NEW i \in 1..(Len(collections) - 1), NEW strict \in BOOLEAN
               PROVE  LET before == collections[i]
                          r == RefreshReceipt(before, c, strict)
                          s == r.summary
                          drifted == s.verifiedPromotions \cup s.verifiedDemotions
                                     \cup s.contradictionsIntroduced \cup s.contradictionsCleared
                      IN  \A id \in drifted :
                            LET claim == IF strict THEN WithRefStability(Claim[id]) ELSE Claim[id]
                                moved == {q.observationId : q \in {p \in claim.requirements :
                                            r.observationTransitions[p.observationId] # "UNCHANGED"}}
                            IN  /\ r.claimTransitions[id] # "UNCHANGED"
                                /\ moved # {}
                                /\ \/ r.headChanged
                                   \/ "PARTIAL" \in {before.status, c.status}
                                   \/ moved \cap ({RefStability} \cup DOMAIN WorkflowChecks) # {}
    BY DEF DriftExplained
  <2> DEFINE before == collections[i]
             r == RefreshReceipt(before, c, strict)
             s == r.summary
             drifted == s.verifiedPromotions \cup s.verifiedDemotions
                        \cup s.contradictionsIntroduced \cup s.contradictionsCleared
  <2>0. SUFFICES ASSUME NEW id \in drifted
                 PROVE  LET claim == IF strict THEN WithRefStability(Claim[id]) ELSE Claim[id]
                            moved == {q.observationId : q \in {p \in claim.requirements :
                                        r.observationTransitions[p.observationId] # "UNCHANGED"}}
                        IN  /\ r.claimTransitions[id] # "UNCHANGED"
                            /\ moved # {}
                            /\ \/ r.headChanged
                               \/ "PARTIAL" \in {before.status, c.status}
                               \/ moved \cap ({RefStability} \cup DOMAIN WorkflowChecks) # {}
    OBVIOUS
  <2> DEFINE was == ReceiptOf(before, strict).claims
             is == ReceiptOf(c, strict).claims
             claim == IF strict THEN WithRefStability(Claim[id]) ELSE Claim[id]
             moved == {q.observationId : q \in {p \in claim.requirements :
                         r.observationTransitions[p.observationId] # "UNCHANGED"}}
  <2>1. Whole(concluded, c) /\ Whole(concluded, before)
    <3>1. IsSequence(collections) /\ \A j \in 1..Len(collections) : Whole(concluded, collections[j])
      BY DEF EvidenceInv, CollectionsInv
    <3>2. Len(collections) \in Nat
      BY <3>1 DEF IsSequence
    <3> QED BY <3>1, <3>2, Returned
  <2>2. /\ r.headChanged = (before.pinned # c.pinned)
        /\ r.observationTransitions = ObservationChanges(before.observations, c.observations)
        /\ r.claimTransitions = ClaimChanges(was, is)
        /\ r.summary = Summary(was, is)
    BY DEF RefreshReceipt
  <2>3. id \in DOMAIN Claim /\ was[id].status # is[id].status
    <3> HIDE DEF was, is, r
    <3>1. s = Summary(was, is)
      BY <2>2
    <3> HIDE DEF s
    <3> QED BY <3>1 DEF Summary
  <2>4. claim = Terms(id, strict)
    BY DEF Terms
  <2>5. /\ DOMAIN was = DOMAIN Claim /\ DOMAIN is = DOMAIN Claim
        /\ was[id] = EvaluateClaim(claim, before.observations)
        /\ is[id] = EvaluateClaim(claim, c.observations)
    BY <2>3, <2>4, ReceiptFields
  <2> HIDE DEF was, is, r, claim, before
  <2>6. r.claimTransitions[id] # "UNCHANGED"
    BY <2>2, <2>3, <2>5 DEF ClaimChanges, ChangeOf
  <2>7. DOMAIN before.observations = DOMAIN c.observations
    BY <2>1 DEF Whole
  <2>8. PICK q \in claim.requirements :
          /\ q.observationId \in DOMAIN c.observations
          /\ before.observations[q.observationId] # c.observations[q.observationId]
    BY <2>3, <2>5, <2>7, SameObservations
  <2>9. r.observationTransitions[q.observationId] = "CHANGED"
    BY <2>2, <2>7, <2>8 DEF ObservationChanges, ChangeOf
  <2>10. q.observationId \in moved
    BY <2>8, <2>9
  <2>11. ASSUME ~r.headChanged, before.status # "PARTIAL", c.status # "PARTIAL"
         PROVE  q.observationId \in {RefStability} \cup DOMAIN WorkflowChecks
    <3>1. before.pinned = c.pinned
      BY <2>2, <2>11
    <3>2. q.observationId \notin FileIds
      BY <2>1, <2>8, <2>11, <3>1, SameFiles
    <3> QED BY <2>1, <2>8, <3>2 DEF Whole
  <2> HIDE DEF moved
  <2>12. /\ r.claimTransitions[id] # "UNCHANGED"
         /\ moved # {}
         /\ \/ r.headChanged
            \/ "PARTIAL" \in {before.status, c.status}
            \/ moved \cap ({RefStability} \cup DOMAIN WorkflowChecks) # {}
    BY <2>6, <2>10, <2>11
  <2> QED BY <2>12 DEF moved, claim
<1> QED BY <1>1, EvidenceAlways, PTL
-----------------------------------------------------------------------------
(* A set that has 0 and the successor of each of its naturals has them all. *)
LEMMA CountingUp ==
  ASSUME NEW S, 0 \in S, \A n \in Nat : n \in S => n + 1 \in S
  PROVE  Nat \subseteq S
<1> DEFINE R == {p \in Nat \X Nat : p[1] < p[2]}
           T == Nat \ S
<1>1. IsWellFoundedOn(R, Nat)
  BY NatLessThanWellFounded DEF OpToRel
<1>2. SUFFICES ASSUME T # {} PROVE FALSE
  OBVIOUS
<1>3. PICK x \in T : \A y \in T : ~(<<y, x>> \in R)
  <2> HIDE DEF R, T
  <2> QED BY <1>1, <1>2, WFMin, T \subseteq Nat DEF T
<1>4. x \in Nat /\ x # 0 /\ x - 1 \in Nat /\ <<x - 1, x>> \in R
  OBVIOUS
<1>5. x - 1 \in S
  BY <1>3, <1>4
<1>6. x - 1 + 1 = x
  BY <1>4
<1> QED BY <1>4, <1>5, <1>6

(* A set of naturals has a least member. *)
LEMMA MinMember ==
  ASSUME NEW S \in SUBSET Nat, S # {}
  PROVE  Min(S) \in S
<1> DEFINE R == {p \in Nat \X Nat : p[1] < p[2]}
<1>1. IsWellFoundedOn(R, Nat)
  BY NatLessThanWellFounded DEF OpToRel
<1>2. PICK x \in S : \A y \in S : ~(<<y, x>> \in R)
  <2> HIDE DEF R
  <2> QED BY <1>1, WFMin
<1>3. \A y \in S : x =< y
  <2> TAKE y \in S
  <2>1. x \in Nat /\ y \in Nat /\ ~(y < x)
    BY <1>2
  <2> QED BY <2>1
<1> QED BY <1>3 DEF Min

(* What is true at some index and kept from each to the next is true of    *)
(* all that follow.                                                        *)
LEMMA Kept ==
  ASSUME NEW n \in Nat, NEW m \in 0..n, NEW f, NEW S, f[m] \in S,
         \A k \in (m + 1)..n : f[k - 1] \in S => f[k] \in S
  PROVE  \A k \in m..n : f[k] \in S
<1> DEFINE T == {k \in Nat : m <= k /\ k <= n => f[k] \in S}
<1>1. 0 \in T
  OBVIOUS
<1>2. ASSUME NEW k \in Nat, k \in T PROVE k + 1 \in T
  <2>1. (k + 1) - 1 = k
    OBVIOUS
  <2>2. CASE m <= k /\ k + 1 <= n
    <3>1. f[k] \in S /\ k + 1 \in (m + 1)..n
      BY <1>2, <2>2
    <3> QED BY <2>1, <3>1
  <2>3. CASE ~(m <= k /\ k + 1 <= n)
    <3>1. CASE m = k + 1
      BY <3>1
    <3>2. CASE m # k + 1
      BY <2>3, <3>2
    <3> QED BY <3>1, <3>2
  <2> QED BY <2>2, <2>3
<1>3. Nat \subseteq T
  <2> HIDE DEF T
  <2> QED BY <1>1, <1>2, CountingUp
<1> QED BY <1>3

(* A recursion that stays within a set, step by step, is defined.          *)
Follows(f, n, S, x, F) ==
  /\ f \in [0..n -> S]
  /\ f = [k \in 0..n |-> IF k = 0 THEN x ELSE F[k][f[k - 1]]]

LEMMA Recursion ==
  ASSUME NEW S, NEW x \in S, NEW N \in Nat, NEW F \in [1..N -> [S -> S]]
  PROVE  \E f : Follows(f, N, S, x, F)
<1> DEFINE T == {n \in Nat : n <= N => \E f : Follows(f, n, S, x, F)}
<1>1. 0 \in T
  <2>1. Follows([k \in 0..0 |-> x], 0, S, x, F)
    BY DEF Follows
  <2> QED BY <2>1
<1>2. ASSUME NEW n \in Nat, n \in T PROVE n + 1 \in T
  <2> SUFFICES ASSUME n + 1 <= N PROVE \E f : Follows(f, n + 1, S, x, F)
    OBVIOUS
  <2>1. PICK f : Follows(f, n, S, x, F)
    BY <1>2
  <2> DEFINE g == [k \in 0..(n + 1) |-> IF k = n + 1 THEN F[n + 1][f[n]] ELSE f[k]]
  <2>2. /\ f \in [0..n -> S]
        /\ \A k \in 0..n : f[k] = IF k = 0 THEN x ELSE F[k][f[k - 1]]
    BY <2>1 DEF Follows
  <2>3. n + 1 \in 1..N /\ F[n + 1] \in [S -> S] /\ f[n] \in S
    BY <2>2
  <2>4. g \in [0..(n + 1) -> S]
    <3>1. \A k \in 0..(n + 1) : k # n + 1 => k \in 0..n
      OBVIOUS
    <3> QED BY <2>2, <2>3, <3>1
  <2>5. ASSUME NEW k \in 0..(n + 1)
        PROVE  g[k] = IF k = 0 THEN x ELSE F[k][g[k - 1]]
    <3>1. CASE k = n + 1
      BY <3>1
    <3>2. CASE k # n + 1
      <4>1. k \in 0..n /\ (k # 0 => k - 1 \in 0..n /\ k - 1 # n + 1)
        BY <3>2
      <4>2. g[k] = f[k] /\ (k # 0 => g[k - 1] = f[k - 1])
        BY <3>2, <4>1
      <4> HIDE DEF g
      <4> QED BY <2>2, <4>1, <4>2
    <3> QED BY <3>1, <3>2
  <2>6. Follows(g, n + 1, S, x, F)
    <3>1. g = [k \in 0..(n + 1) |-> g[k]]
      OBVIOUS
    <3> HIDE DEF g
    <3> QED BY <2>4, <2>5, <3>1 DEF Follows
  <2> HIDE DEF g
  <2> QED BY <2>6
<1>3. Nat \subseteq T
  <2> HIDE DEF T
  <2> QED BY <1>1, <1>2, CountingUp
<1> QED BY <1>3
-----------------------------------------------------------------------------
(* Manifests are stored under their ids and depend on ids.                 *)
Typed ==
  /\ \A id \in DOMAIN capabilities : id \in CapabilityId /\ IsCapability(capabilities[id])
  /\ \A id \in DOMAIN bodyMaps : IsBodyMap(bodyMaps[id])

LEMMA DependOnIds ==
  ASSUME Typed, NEW id
  PROVE  DependsOn(id) \subseteq CapabilityId
BY DEF Typed, IsCapability, DependsOn

LEMMA HeededIds ==
  ASSUME Typed, NEW id
  PROVE  Heeded(id) \subseteq DependsOn(id) /\ Heeded(id) \subseteq CapabilityId
BY DependOnIds DEF Heeded

Closed(S) == \A id \in S : DependsOn(id) \subseteq S

Complete(S) == \A id \in S : Heeded(id) \subseteq S

Unavailable(d) == {<<"DEPENDENCY_UNAVAILABLE", d>>}

Drops == UNION {[D -> {Unavailable(d) : d \in CapabilityId}] : D \in SUBSET CapabilityId}

(* Where the passes may stand that began with B: each dropped capability   *)
(* has a cause that is out too, and no part that can do without what was   *)
(* dropped has lost anything.                                              *)
Scans(B) ==
  {s \in [bindable : SUBSET B, dropped : Drops] :
     /\ DOMAIN s.dropped = B \ s.bindable
     /\ \A id \in DOMAIN s.dropped :
          \E d \in Heeded(id) \ s.bindable : s.dropped[id] = Unavailable(d)
     /\ \A T \in SUBSET B : Complete(T) => T \subseteq s.bindable}

LEMMA DropsOne ==
  ASSUME NEW s, NEW id, id \in s.bindable, ~(Heeded(id) \subseteq s.bindable)
  PROVE  LET d == Min(Heeded(id) \ s.bindable)
         IN  DropDependent(s, id) =
               [bindable |-> s.bindable \ {id},
                dropped |-> Extended(s.dropped, [x \in {id} |-> Unavailable(d)])]
BY DEF DropDependent, Unavailable

LEMMA DropsIt ==
  ASSUME NEW s, NEW id, id \in s.bindable, ~(Heeded(id) \subseteq s.bindable)
  PROVE  \A x : x \in DropDependent(s, id).bindable <=> x \in s.bindable /\ x # id
<1> DEFINE e == Extended(s.dropped,
                         [x \in {id} |-> Unavailable(Min(Heeded(id) \ s.bindable))])
<1>1. DropDependent(s, id) = [bindable |-> s.bindable \ {id}, dropped |-> e]
  BY DropsOne
<1> HIDE DEF e
<1> QED BY <1>1

LEMMA DropsNone ==
  ASSUME NEW s, NEW id, id \notin s.bindable \/ Heeded(id) \subseteq s.bindable
  PROVE  DropDependent(s, id) = s
BY DEF DropDependent

LEMMA DropStays ==
  ASSUME Typed, NEW B \in SUBSET CapabilityId, NEW s \in Scans(B), NEW id
  PROVE  DropDependent(s, id) \in Scans(B)
<1>1. CASE id \notin s.bindable \/ Heeded(id) \subseteq s.bindable
  BY <1>1, DropsNone
<1>2. CASE id \in s.bindable /\ ~(Heeded(id) \subseteq s.bindable)
  <2> DEFINE d == Min(Heeded(id) \ s.bindable)
             e == Extended(s.dropped, [x \in {id} |-> Unavailable(d)])
             t == DropDependent(s, id)
  <2>1. /\ s.bindable \in SUBSET B /\ s.dropped \in Drops
        /\ DOMAIN s.dropped = B \ s.bindable
        /\ \A x \in DOMAIN s.dropped :
             \E y \in Heeded(x) \ s.bindable : s.dropped[x] = Unavailable(y)
        /\ \A T \in SUBSET B : Complete(T) => T \subseteq s.bindable
    BY DEF Scans
  <2>2. d \in Heeded(id) \ s.bindable /\ d \in CapabilityId
    <3>1. Heeded(id) \ s.bindable \in SUBSET Nat
      BY HeededIds DEF CapabilityId
    <3> QED BY <1>2, <3>1, MinMember, HeededIds
  <2>3. t.bindable = s.bindable \ {id} /\ t.dropped = e
        /\ t = [bindable |-> s.bindable \ {id}, dropped |-> e]
    <3>1. t = [bindable |-> s.bindable \ {id}, dropped |-> e]
      BY <1>2, DropsOne, Zenon
    <3> HIDE DEF d, e, t
    <3> QED BY <3>1
  <2>4. /\ e = [x \in DOMAIN s.dropped \cup {id} |-> e[x]]
        /\ DOMAIN e = DOMAIN s.dropped \cup {id}
        /\ e[id] = Unavailable(d)
        /\ \A x \in DOMAIN s.dropped : e[x] = s.dropped[x]
    <3>1. id \notin DOMAIN s.dropped
      BY <1>2, <2>1
    <3> HIDE DEF d
    <3> QED BY <3>1 DEF Extended
  <2> HIDE DEF d, e, t
  <2>5. DOMAIN e = B \ t.bindable /\ id \in B
    BY <1>2, <2>1, <2>3, <2>4
  <2>6. ASSUME NEW x \in DOMAIN e
        PROVE  \E y \in Heeded(x) \ t.bindable : e[x] = Unavailable(y)
    <3>1. CASE x = id
      BY <2>2, <2>3, <2>4, <3>1
    <3>2. CASE x # id
      <4>1. PICK y \in Heeded(x) \ s.bindable : s.dropped[x] = Unavailable(y)
        BY <2>1, <2>4, <3>2
      <4> QED BY <2>3, <2>4, <3>2, <4>1
    <3> QED BY <3>1, <3>2
  <2>7. \A T \in SUBSET B : Complete(T) => T \subseteq t.bindable
    <3> SUFFICES ASSUME NEW T \in SUBSET B, Complete(T), id \in T PROVE FALSE
      BY <2>1, <2>3
    <3> QED BY <1>2, <2>1 DEF Complete
  <2>8. e \in Drops
    <3>1. \A x \in DOMAIN e : e[x] \in {Unavailable(y) : y \in CapabilityId}
      BY <2>6, HeededIds
    <3>2. e \in [DOMAIN e -> {Unavailable(y) : y \in CapabilityId}]
      BY <2>4, <3>1
    <3>3. DOMAIN e \in SUBSET CapabilityId
      BY <2>5
    <3> QED BY <3>2, <3>3 DEF Drops
  <2>9. t \in [bindable : SUBSET B, dropped : Drops]
    BY <2>1, <2>3, <2>8
  <2> QED BY <2>3, <2>5, <2>6, <2>7, <2>9 DEF Scans, t
<1> QED BY <1>1, <1>2

LEMMA ScanFacts ==
  ASSUME NEW B, NEW s \in Scans(B)
  PROVE  s.bindable \subseteq B
BY DEF Scans

(* A pass is a sequence of such steps, one per id. *)
IsPass(after, s, B) ==
  /\ after \in [0..MaxId -> Scans(B)]
  /\ after[0] = s /\ after[MaxId] = Pass(s)
  /\ \A id \in CapabilityId : after[id] = DropDependent(after[id - 1], id)

LEMMA PassDefined ==
  ASSUME Typed, NEW B \in SUBSET CapabilityId, NEW s \in Scans(B)
  PROVE  \E after : IsPass(after, s, B)
<1> DEFINE F == [id \in 1..MaxId |-> [t \in Scans(B) |-> DropDependent(t, id)]]
           Eq(f) == f = [id \in 0..MaxId |-> IF id = 0 THEN s ELSE DropDependent(f[id - 1], id)]
<1>0. MaxId \in Nat
  BY RegistryAssumption
<1>1. F \in [1..MaxId -> [Scans(B) -> Scans(B)]]
  BY DropStays
<1>2. PICK f : Follows(f, MaxId, Scans(B), s, F)
  <2> HIDE DEF F
  <2> QED BY <1>0, <1>1, Recursion
<1>3. Eq(f)
  <2>1. f = [id \in 0..MaxId |-> IF id = 0 THEN s ELSE F[id][f[id - 1]]]
    BY <1>2 DEF Follows
  <2>2. ASSUME NEW id \in 0..MaxId, id # 0
        PROVE  F[id][f[id - 1]] = DropDependent(f[id - 1], id)
    <3>1. id \in 1..MaxId /\ id - 1 \in 0..MaxId
      BY <1>0, <2>2
    <3>2. f[id - 1] \in Scans(B)
      BY <1>2, <3>1 DEF Follows
    <3> QED BY <3>1, <3>2
  <2> HIDE DEF F
  <2> QED BY <2>1, <2>2
<1> DEFINE g == CHOOSE h : Eq(h)
<1>4. Eq(g)
  <2> HIDE DEF Eq
  <2> QED BY <1>3
<1>5. Pass(s) = g[MaxId]
  BY DEF Pass
<1> HIDE DEF g
<1>6. g[0] = s /\ \A id \in CapabilityId : g[id] = DropDependent(g[id - 1], id)
  BY <1>0, <1>4 DEF CapabilityId
<1>7. \A id \in 0..MaxId : g[id] \in Scans(B)
  <2>1. \A id \in (0 + 1)..MaxId : g[id - 1] \in Scans(B) => g[id] \in Scans(B)
    BY <1>0, <1>6, DropStays DEF CapabilityId
  <2> QED BY <1>0, <1>6, <2>1, Kept
<1>8. g \in [0..MaxId -> Scans(B)]
  BY <1>4, <1>7
<1> QED BY <1>5, <1>6, <1>8 DEF IsPass

(* Bindable once dropped stays dropped for the rest of a pass.             *)
LEMMA DropShrinks ==
  ASSUME NEW s, NEW id
  PROVE  DropDependent(s, id).bindable \subseteq s.bindable
<1>1. CASE id \notin s.bindable \/ Heeded(id) \subseteq s.bindable
  BY <1>1, DropsNone
<1>2. CASE id \in s.bindable /\ ~(Heeded(id) \subseteq s.bindable)
  BY <1>2, DropsIt
<1> QED BY <1>1, <1>2

(* A pass drops nothing when nothing is missing, and otherwise something.  *)
LEMMA PassFacts ==
  ASSUME Typed, NEW B \in SUBSET CapabilityId, NEW s \in Scans(B)
  PROVE  /\ Pass(s) \in Scans(B)
         /\ Pass(s).bindable \subseteq s.bindable
         /\ Complete(s.bindable) => Pass(s) = s
         /\ ~Complete(s.bindable) => Pass(s).bindable # s.bindable
<1>0. MaxId \in Nat
  BY RegistryAssumption
<1>1. PICK after : IsPass(after, s, B)
  BY PassDefined
<1>2. /\ after \in [0..MaxId -> Scans(B)]
      /\ after[0] = s /\ after[MaxId] = Pass(s)
      /\ \A id \in CapabilityId : after[id] = DropDependent(after[id - 1], id)
  BY <1>1 DEF IsPass
<1>3. ASSUME NEW m \in 0..MaxId
      PROVE  Pass(s).bindable \subseteq after[m].bindable
  <2> DEFINE S == {t \in Scans(B) : t.bindable \subseteq after[m].bindable}
  <2>1. after[m] \in S
    BY <1>2
  <2>2. ASSUME NEW k \in (m + 1)..MaxId, after[k - 1] \in S PROVE after[k] \in S
    <3>1. k \in 0..MaxId /\ k \in CapabilityId
      BY <1>0 DEF CapabilityId
    <3> QED BY <1>2, <2>2, <3>1, DropShrinks
  <2>3. \A k \in m..MaxId : after[k] \in S
    <3> HIDE DEF S
    <3> QED BY <1>0, <2>1, <2>2, Kept
  <2> QED BY <1>0, <1>2, <2>3
<1>4. ASSUME Complete(s.bindable) PROVE Pass(s) = s
  <2>1. \A k \in (0 + 1)..MaxId : after[k - 1] \in {s} => after[k] \in {s}
    <3> SUFFICES ASSUME NEW k \in (0 + 1)..MaxId, after[k - 1] = s PROVE after[k] = s
      OBVIOUS
    <3>1. k \in CapabilityId
      BY <1>0 DEF CapabilityId
    <3>2. DropDependent(s, k) = s
      BY <1>4, DropsNone DEF Complete
    <3> QED BY <1>2, <3>1, <3>2
  <2>2. after[0] \in {s} /\ 0 \in 0..MaxId
    BY <1>0, <1>2
  <2>3. \A k \in 0..MaxId : after[k] \in {s}
    BY <1>0, <2>1, <2>2, Kept
  <2> QED BY <1>0, <1>2, <2>3
<1>5. ASSUME ~Complete(s.bindable) PROVE Pass(s).bindable # s.bindable
  <2>1. PICK id \in s.bindable : ~(Heeded(id) \subseteq s.bindable)
    BY <1>5 DEF Complete
  <2>2. id \in CapabilityId /\ id \in 0..MaxId /\ id - 1 \in 0..MaxId
    <3>1. id \in CapabilityId
      BY <2>1, ScanFacts
    <3> QED BY <1>0, <3>1 DEF CapabilityId
  <2>3. after[id - 1].bindable \subseteq s.bindable
    <3> DEFINE S == {t \in Scans(B) : t.bindable \subseteq s.bindable}
    <3>1. after[0] \in S /\ 0 \in 0..MaxId
      BY <1>0, <1>2
    <3>2. ASSUME NEW k \in (0 + 1)..MaxId, after[k - 1] \in S PROVE after[k] \in S
      <4>1. k \in 0..MaxId /\ k \in CapabilityId
        BY <1>0 DEF CapabilityId
      <4> QED BY <1>2, <3>2, <4>1, DropShrinks
    <3>3. \A k \in 0..MaxId : after[k] \in S
      <4> HIDE DEF S
      <4> QED BY <1>0, <3>1, <3>2, Kept
    <3> QED BY <2>2, <3>3
  <2>4. id \notin after[id].bindable
    <3>1. after[id] = DropDependent(after[id - 1], id)
      BY <1>2, <2>2
    <3>2. CASE id \notin after[id - 1].bindable
      BY <3>1, <3>2, DropsNone
    <3>3. CASE id \in after[id - 1].bindable
      <4>1. ~(Heeded(id) \subseteq after[id - 1].bindable)
        BY <2>1, <2>3
      <4> QED BY <3>1, <3>3, <4>1, DropsIt
    <3> QED BY <3>2, <3>3
  <2> QED BY <1>3, <2>1, <2>2, <2>4
<1>6. Pass(s) \in Scans(B) /\ Pass(s).bindable \subseteq s.bindable
  <2>1. MaxId \in 0..MaxId /\ 0 \in 0..MaxId
    BY <1>0
  <2> QED BY <1>2, <1>3, <2>1
<1> QED BY <1>4, <1>5, <1>6

(* A part of the ids is finite and no larger than what it is a part of. *)
LEMMA Parts ==
  ASSUME NEW B \in SUBSET CapabilityId
  PROVE  /\ IsFiniteSet(B) /\ Cardinality(B) \in Nat
         /\ Cardinality(B) <= MaxId
         /\ Cardinality(B) = MaxId => CapabilityId \subseteq B
         /\ \A S \in SUBSET B : /\ Cardinality(S) <= Cardinality(B)
                                /\ S # B => Cardinality(S) < Cardinality(B)
                                /\ Cardinality(S) \in Nat
<1>0. MaxId \in Nat
  BY RegistryAssumption
<1>1. IsFiniteSet(CapabilityId) /\ Cardinality(CapabilityId) = MaxId
  BY <1>0, FS_Interval DEF CapabilityId
<1>2. IsFiniteSet(B) /\ Cardinality(B) \in Nat /\ Cardinality(B) <= MaxId
  BY <1>1, FS_Subset, FS_CardinalityType
<1>3. Cardinality(B) = MaxId => CapabilityId \subseteq B
  BY <1>1, FS_Subset
<1>4. ASSUME NEW S \in SUBSET B
      PROVE  /\ Cardinality(S) <= Cardinality(B)
             /\ S # B => Cardinality(S) < Cardinality(B)
             /\ Cardinality(S) \in Nat
  <2>1. IsFiniteSet(S) /\ Cardinality(S) \in Nat /\ Cardinality(S) <= Cardinality(B)
    BY <1>2, FS_Subset, FS_CardinalityType
  <2>2. S # B => Cardinality(S) # Cardinality(B)
    BY <1>2, FS_Subset
  <2> QED BY <1>2, <2>1, <2>2
<1> QED BY <1>2, <1>3, <1>4

LEMMA NothingDroppedYet ==
  ASSUME NEW B \in SUBSET CapabilityId
  PROVE  NothingDropped(B) \in Scans(B) /\ NothingDropped(B).bindable = B
<1>1. NoEntries \in [{} -> {Unavailable(d) : d \in CapabilityId}] /\ DOMAIN NoEntries = {}
  BY DEF NoEntries
<1>2. NoEntries \in Drops
  BY <1>1 DEF Drops
<1> HIDE DEF NoEntries
<1> QED BY <1>1, <1>2 DEF NothingDropped, Scans

(* The loop is a sequence of passes. *)
IsLoop(after, B) ==
  LET n == Cardinality(B)
  IN  /\ after \in [0..n -> Scans(B)]
      /\ after[0] = NothingDropped(B) /\ after[n] = DropDependents(B)
      /\ \A k \in 1..n : after[k] = Pass(after[k - 1])

LEMMA LoopDefined ==
  ASSUME Typed, NEW B \in SUBSET CapabilityId
  PROVE  \E after : IsLoop(after, B)
<1> DEFINE n == Cardinality(B)
           x == NothingDropped(B)
           F == [k \in 1..n |-> [t \in Scans(B) |-> Pass(t)]]
           Eq(f) == f = [k \in 0..n |-> IF k = 0 THEN x ELSE Pass(f[k - 1])]
<1>0. n \in Nat /\ x \in Scans(B)
  BY Parts, NothingDroppedYet
<1>1. F \in [1..n -> [Scans(B) -> Scans(B)]]
  BY PassFacts
<1>a. DropDependents(B) = (CHOOSE h : Eq(h))[n]
  BY DEF DropDependents
<1> HIDE DEF n, x
<1>2. PICK f : Follows(f, n, Scans(B), x, F)
  <2> HIDE DEF F
  <2> QED BY <1>0, <1>1, Recursion
<1>3. Eq(f)
  <2>1. f = [k \in 0..n |-> IF k = 0 THEN x ELSE F[k][f[k - 1]]]
    BY <1>2 DEF Follows
  <2>2. ASSUME NEW k \in 0..n, k # 0
        PROVE  F[k][f[k - 1]] = Pass(f[k - 1])
    <3>1. k \in 1..n /\ k - 1 \in 0..n
      BY <1>0, <2>2
    <3>2. f[k - 1] \in Scans(B)
      BY <1>2, <3>1 DEF Follows
    <3> QED BY <3>1, <3>2
  <2> HIDE DEF F
  <2> QED BY <2>1, <2>2
<1> DEFINE g == CHOOSE h : Eq(h)
<1>4. Eq(g)
  <2> HIDE DEF Eq
  <2> QED BY <1>3
<1>5. DropDependents(B) = g[n]
  BY <1>a
<1> HIDE DEF g
<1>6. g[0] = x /\ \A k \in 1..n : g[k] = Pass(g[k - 1])
  BY <1>0, <1>4
<1>7. \A k \in 0..n : g[k] \in Scans(B)
  <2>1. \A k \in (0 + 1)..n : g[k - 1] \in Scans(B) => g[k] \in Scans(B)
    BY <1>0, <1>6, PassFacts
  <2>2. g[0] \in Scans(B) /\ 0 \in 0..n
    BY <1>0, <1>6
  <2> QED BY <1>0, <2>1, <2>2, Kept
<1>8. g \in [0..n -> Scans(B)]
  BY <1>4, <1>7
<1> QED BY <1>5, <1>6, <1>8 DEF IsLoop, n, x

(* Each pass that begins with something missing drops something, so after  *)
(* as many passes as there were ids nothing is missing.                    *)
LEMMA LoopEnds ==
  ASSUME Typed, NEW B \in SUBSET CapabilityId
  PROVE  DropDependents(B) \in Scans(B) /\ Complete(DropDependents(B).bindable)
<1> DEFINE n == Cardinality(B)
<1>0. n \in Nat /\ NothingDropped(B).bindable = B
  BY Parts, NothingDroppedYet
<1>1. PICK after : IsLoop(after, B)
  BY LoopDefined
<1>2. /\ after \in [0..n -> Scans(B)]
      /\ after[0] = NothingDropped(B) /\ after[n] = DropDependents(B)
      /\ \A k \in 1..n : after[k] = Pass(after[k - 1])
  BY <1>1 DEF IsLoop
<1> HIDE DEF n
<1> DEFINE Near(k) == \/ Complete(after[k].bindable)
                      \/ Cardinality(after[k].bindable) + k <= n
           T == {k \in Nat : k <= n => Near(k)}
<1>3. 0 \in T
  <2>1. Cardinality(after[0].bindable) + 0 <= n
    BY <1>0, <1>2 DEF n
  <2> QED BY <2>1
<1>4. ASSUME NEW k \in Nat, k \in T PROVE k + 1 \in T
  <2> SUFFICES ASSUME k + 1 <= n PROVE Near(k + 1)
    OBVIOUS
  <2>1. Near(k) /\ k \in 0..n /\ after[k] \in Scans(B)
    BY <1>0, <1>2, <1>4
  <2>2. after[k + 1] = Pass(after[k])
    <3>1. k + 1 \in 1..n /\ (k + 1) - 1 = k
      BY <1>0
    <3> QED BY <1>2, <3>1
  <2>3. CASE Complete(after[k].bindable)
    <3>1. after[k + 1] = after[k]
      BY <2>1, <2>2, <2>3, PassFacts
    <3> QED BY <2>3, <3>1
  <2>4. CASE ~Complete(after[k].bindable)
    <3>1. /\ after[k + 1].bindable \subseteq after[k].bindable
          /\ after[k + 1].bindable # after[k].bindable
      BY <2>1, <2>2, <2>4, PassFacts
    <3>2. after[k].bindable \in SUBSET CapabilityId
      BY <2>1, ScanFacts
    <3> DEFINE c == Cardinality(after[k].bindable)
               d == Cardinality(after[k + 1].bindable)
    <3>3. c \in Nat /\ d \in Nat /\ d < c
      BY <3>1, <3>2, Parts
    <3>4. c + k <= n
      BY <2>1, <2>4
    <3> HIDE DEF c, d
    <3>5. d + (k + 1) <= n
      BY <1>0, <3>3, <3>4
    <3> QED BY <3>5 DEF d
  <2> QED BY <2>3, <2>4
<1>5. Near(n)
  <2>1. Nat \subseteq T
    <3> HIDE DEF T
    <3> QED BY <1>3, <1>4, CountingUp
  <2> HIDE DEF Near
  <2> QED BY <1>0, <2>1
<1>6. Complete(after[n].bindable)
  <2> SUFFICES ASSUME Cardinality(after[n].bindable) + n <= n
               PROVE  after[n].bindable = {}
    BY <1>5 DEF Complete
  <2>1. after[n].bindable \in SUBSET CapabilityId
    BY <1>0, <1>2, ScanFacts
  <2>2. IsFiniteSet(after[n].bindable) /\ Cardinality(after[n].bindable) \in Nat
    BY <2>1, Parts
  <2>3. Cardinality(after[n].bindable) = 0
    BY <1>0, <2>2
  <2> QED BY <2>2, <2>3, FS_EmptySet
<1> QED BY <1>0, <1>2, <1>6
-----------------------------------------------------------------------------
(* The closure, round by round. *)
IsClosing(after, seeds) ==
  /\ after \in [0..MaxId -> SUBSET CapabilityId]
  /\ after[0] = seeds /\ after[MaxId] = DependencyClosureIds(seeds)
  /\ \A n \in 1..MaxId :
       after[n] = after[n - 1] \cup UNION {DependsOn(id) : id \in after[n - 1]}

LEMMA ClosingDefined ==
  ASSUME Typed, NEW seeds \in SUBSET CapabilityId
  PROVE  \E after : IsClosing(after, seeds)
<1> DEFINE More(S) == S \cup UNION {DependsOn(id) : id \in S}
           P == SUBSET CapabilityId
           F == [k \in 1..MaxId |-> [S \in P |-> More(S)]]
           Eq(f) == f = [n \in 0..MaxId |-> IF n = 0 THEN seeds ELSE More(f[n - 1])]
<1>0. MaxId \in Nat
  BY RegistryAssumption
<1>a. ASSUME NEW S \in P PROVE More(S) \in P
  BY DependOnIds
<1>b. DependencyClosureIds(seeds) = (CHOOSE h : Eq(h))[MaxId]
  BY DEF DependencyClosureIds
<1>c. \A S : More(S) = S \cup UNION {DependsOn(id) : id \in S}
  OBVIOUS
<1> HIDE DEF More
<1>1. F \in [1..MaxId -> [P -> P]] /\ seeds \in P
  BY <1>a
<1> HIDE DEF P
<1>2. PICK f : Follows(f, MaxId, P, seeds, F)
  <2> HIDE DEF F
  <2> QED BY <1>0, <1>1, Recursion
<1>3. Eq(f)
  <2>1. f = [k \in 0..MaxId |-> IF k = 0 THEN seeds ELSE F[k][f[k - 1]]]
    BY <1>2 DEF Follows
  <2>2. ASSUME NEW k \in 0..MaxId, k # 0
        PROVE  F[k][f[k - 1]] = More(f[k - 1])
    <3>1. k \in 1..MaxId /\ k - 1 \in 0..MaxId
      BY <1>0, <2>2
    <3>2. f[k - 1] \in P
      BY <1>2, <3>1 DEF Follows
    <3> QED BY <3>1, <3>2
  <2> HIDE DEF F
  <2> QED BY <2>1, <2>2
<1> DEFINE g == CHOOSE h : Eq(h)
<1>4. Eq(g)
  <2> HIDE DEF Eq
  <2> QED BY <1>3
<1>5. DependencyClosureIds(seeds) = g[MaxId]
  BY <1>b
<1> HIDE DEF g
<1>6. g[0] = seeds /\ \A k \in 1..MaxId : g[k] = More(g[k - 1])
  BY <1>0, <1>4
<1>7. \A k \in 0..MaxId : g[k] \in P
  <2>1. \A k \in (0 + 1)..MaxId : g[k - 1] \in P => g[k] \in P
    BY <1>0, <1>6, <1>a
  <2>2. g[0] \in P /\ 0 \in 0..MaxId
    BY <1>0, <1>1, <1>6
  <2> QED BY <1>0, <2>1, <2>2, Kept
<1>8. g \in [0..MaxId -> P]
  BY <1>4, <1>7
<1> QED BY <1>5, <1>6, <1>8, <1>c DEF IsClosing, P

(* The rounds end in the least set that has the seeds and what its members *)
(* depend on: each round that adds nothing is the last, and there are as   *)
(* many rounds as ids.                                                     *)
LEMMA ClosureIsLeast ==
  ASSUME Typed, NEW seeds \in SUBSET CapabilityId
  PROVE  /\ DependencyClosureIds(seeds) \in SUBSET CapabilityId
         /\ seeds \subseteq DependencyClosureIds(seeds)
         /\ Closed(DependencyClosureIds(seeds))
         /\ \A S : seeds \subseteq S /\ Closed(S) => DependencyClosureIds(seeds) \subseteq S
<1>0. MaxId \in Nat /\ MaxId \in 0..MaxId /\ 0 \in 0..MaxId
  BY RegistryAssumption
<1>1. PICK after : IsClosing(after, seeds)
  BY ClosingDefined
<1>2. /\ after \in [0..MaxId -> SUBSET CapabilityId]
      /\ after[0] = seeds /\ after[MaxId] = DependencyClosureIds(seeds)
      /\ \A n \in 1..MaxId :
           after[n] = after[n - 1] \cup UNION {DependsOn(id) : id \in after[n - 1]}
  BY <1>1 DEF IsClosing
<1>3. ASSUME NEW S, seeds \subseteq S, Closed(S)
      PROVE  DependencyClosureIds(seeds) \subseteq S
  <2>1. ASSUME NEW n \in (0 + 1)..MaxId, after[n - 1] \in SUBSET S
        PROVE  after[n] \in SUBSET S
    <3>1. after[n] = after[n - 1] \cup UNION {DependsOn(id) : id \in after[n - 1]}
      BY <1>0, <1>2
    <3> QED BY <1>3, <2>1, <3>1 DEF Closed
  <2>2. \A n \in 0..MaxId : after[n] \in SUBSET S
    <3>1. after[0] \in SUBSET S
      BY <1>2, <1>3
    <3> QED BY <1>0, <2>1, <3>1, Kept
  <2> QED BY <1>0, <1>2, <2>2
<1>4. seeds \subseteq DependencyClosureIds(seeds)
  <2> DEFINE P == {S \in SUBSET CapabilityId : seeds \subseteq S}
  <2>1. ASSUME NEW n \in (0 + 1)..MaxId, after[n - 1] \in P
        PROVE  after[n] \in P
    <3>1. /\ after[n] = after[n - 1] \cup UNION {DependsOn(id) : id \in after[n - 1]}
          /\ n \in 0..MaxId
      BY <1>0, <1>2
    <3> QED BY <1>2, <2>1, <3>1
  <2>2. after[0] \in P
    BY <1>2
  <2>3. \A n \in 0..MaxId : after[n] \in P
    <3> HIDE DEF P
    <3> QED BY <1>0, <2>1, <2>2, Kept
  <2> QED BY <1>0, <1>2, <2>3
<1>5. Closed(DependencyClosureIds(seeds))
  <2> DEFINE Near(n) == Closed(after[n]) \/ n <= Cardinality(after[n])
             T == {n \in Nat : n <= MaxId => Near(n)}
  <2>1. 0 \in T
    <3>1. after[0] \in SUBSET CapabilityId
      BY <1>0, <1>2
    <3>2. Cardinality(after[0]) \in Nat
      BY <3>1, Parts
    <3> QED BY <3>2
  <2>2. ASSUME NEW n \in Nat, n \in T PROVE n + 1 \in T
    <3> SUFFICES ASSUME n + 1 <= MaxId PROVE Near(n + 1)
      OBVIOUS
    <3>1. Near(n) /\ n \in 0..MaxId /\ n + 1 \in 0..MaxId
      BY <1>0, <2>2
    <3>2. after[n] \in SUBSET CapabilityId /\ after[n + 1] \in SUBSET CapabilityId
      BY <1>2, <3>1
    <3>3. after[n + 1] = after[n] \cup UNION {DependsOn(id) : id \in after[n]}
      <4>1. n + 1 \in 1..MaxId /\ (n + 1) - 1 = n
        BY <1>0
      <4> QED BY <1>2, <4>1
    <3>4. CASE Closed(after[n])
      <4>1. after[n + 1] = after[n]
        BY <3>3, <3>4 DEF Closed
      <4> QED BY <3>4, <4>1
    <3>5. CASE ~Closed(after[n])
      <4>1. after[n] \in SUBSET after[n + 1] /\ after[n] # after[n + 1]
        BY <3>3, <3>5 DEF Closed
      <4>2. Cardinality(after[n]) < Cardinality(after[n + 1])
            /\ Cardinality(after[n]) \in Nat /\ Cardinality(after[n + 1]) \in Nat
        BY <3>2, <4>1, Parts
      <4>3. n <= Cardinality(after[n])
        BY <3>1, <3>5
      <4> QED BY <4>2, <4>3
    <3> QED BY <3>4, <3>5
  <2>3. Near(MaxId)
    <3>1. Nat \subseteq T
      <4> HIDE DEF T
      <4> QED BY <2>1, <2>2, CountingUp
    <3> HIDE DEF Near
    <3> QED BY <1>0, <3>1
  <2>4. CASE Closed(after[MaxId])
    BY <1>2, <2>4
  <2>5. CASE MaxId <= Cardinality(after[MaxId])
    <3>1. after[MaxId] \in SUBSET CapabilityId
      BY <1>0, <1>2
    <3>2. Cardinality(after[MaxId]) = MaxId
      BY <1>0, <2>5, <3>1, Parts
    <3>3. CapabilityId \subseteq after[MaxId]
      BY <3>1, <3>2, Parts
    <3> QED BY <1>2, <3>1, <3>3, DependOnIds DEF Closed
  <2> QED BY <2>3, <2>4, <2>5
<1>6. DependencyClosureIds(seeds) \in SUBSET CapabilityId
  BY <1>0, <1>2
<1> QED BY <1>3, <1>4, <1>5, <1>6
-----------------------------------------------------------------------------
LEMMA RequestedIds ==
  ASSUME Typed, NEW request \in Request, request.bodyMapId \in DOMAIN bodyMaps
  PROVE  Requested(request) \in SUBSET CapabilityId
BY RegistryAssumption DEF Typed, IsBodyMap, Requested

(* What resolve answers, part by part. *)
Reach(request) == DependencyClosureIds(Requested(request))

Own(request) == {id \in Reach(request) : OwnReasons(id) # {}}

Final(request) == DropDependents(Reach(request) \ Own(request))

LEMMA ResolutionParts ==
  ASSUME NEW request
  PROVE  Resolution(request) =
           [request |-> request, bodyMap |-> bodyMaps[request.bodyMapId],
            capabilities |-> [id \in Final(request).bindable |-> Materialized(id)],
            unavailable |-> Extended([id \in Own(request) |-> OwnReasons(id)],
                                     Final(request).dropped)]
BY DEF Resolution, Final, Own, Reach

(* Resolved: known, bound, in need of nothing else, and with all others of *)
(* the closure that are.                                                   *)
LEMMA Resolved ==
  ASSUME Typed, NEW request \in Request, request.bodyMapId \in DOMAIN bodyMaps
  PROVE  /\ Final(request) \in Scans(Reach(request) \ Own(request))
         /\ Final(request).bindable \subseteq Reach(request)
         /\ Usable(Final(request).bindable)
         /\ \A S \in SUBSET Reach(request) : Usable(S) => S \subseteq Final(request).bindable
<1> DEFINE B == Reach(request) \ Own(request)
           D == Final(request).bindable
<1>1. Reach(request) \in SUBSET CapabilityId
  BY RequestedIds, ClosureIsLeast DEF Reach
<1>2. B \in SUBSET CapabilityId
  BY <1>1
<1>3. Final(request) \in Scans(B) /\ Complete(D)
  BY <1>2, LoopEnds DEF Final
<1>4. D \subseteq B
  BY <1>3, ScanFacts
<1>5. Usable(D)
  BY <1>3, <1>4 DEF Usable, Complete, Own
<1>6. ASSUME NEW S \in SUBSET Reach(request), Usable(S)
      PROVE  S \subseteq D
  <2>1. S \in SUBSET B /\ Complete(S)
    BY <1>6 DEF Usable, Complete, Own
  <2> QED BY <1>3, <2>1 DEF Scans
<1> QED BY <1>3, <1>4, <1>5, <1>6

LEMMA ReachableIsReach ==
  ASSUME Typed, NEW request \in Request, request.bodyMapId \in DOMAIN bodyMaps
  PROVE  Reachable(Requested(request)) = Reach(request)
<1> DEFINE seeds == Requested(request)
           Least(S) == /\ seeds \subseteq S /\ \A id \in S : DependsOn(id) \subseteq S
                       /\ \A T \in SUBSET CapabilityId :
                            seeds \subseteq T /\ (\A id \in T : DependsOn(id) \subseteq T)
                              => S \subseteq T
           R == CHOOSE S \in SUBSET CapabilityId : Least(S)
<1>1. Reach(request) \in SUBSET CapabilityId /\ Least(Reach(request))
  BY RequestedIds, ClosureIsLeast DEF Reach, Closed
<1>2. R \in SUBSET CapabilityId /\ Least(R)
  <2> HIDE DEF Least
  <2> QED BY <1>1
<1>3. Reachable(Requested(request)) = R
  BY DEF Reachable
<1> HIDE DEF R
<1> QED BY <1>1, <1>2, <1>3

(* Of what is out, each has a true cause. *)
LEMMA Explained ==
  ASSUME Typed, NEW request \in Request, request.bodyMapId \in DOMAIN bodyMaps
  PROVE  LET r == Resolution(request)
             cannot == DOMAIN r.unavailable
         IN  /\ cannot = Reach(request) \ Final(request).bindable
             /\ \A id \in cannot : r.unavailable[id] # {}
             /\ \A id \in cannot : \A reason \in r.unavailable[id] :
                  \/ reason \in OwnReasons(id)
                  \/ reason[1] = "DEPENDENCY_UNAVAILABLE" /\ reason[2] \in Heeded(id) \cap cannot
<1> DEFINE own == [id \in Own(request) |-> OwnReasons(id)]
           scan == Final(request)
           u == Extended(own, scan.dropped)
           cannot == Reach(request) \ scan.bindable
<1>1. Resolution(request).unavailable = u
  BY ResolutionParts
<1>2. /\ DOMAIN scan.dropped = (Reach(request) \ Own(request)) \ scan.bindable
      /\ scan.bindable \subseteq Reach(request) \ Own(request)
      /\ \A id \in DOMAIN scan.dropped :
           \E d \in Heeded(id) \ scan.bindable : scan.dropped[id] = Unavailable(d)
  BY Resolved DEF Scans
<1>3. DOMAIN own = Own(request) /\ \A id \in Own(request) : own[id] = OwnReasons(id)
  OBVIOUS
<1>4. /\ DOMAIN u = Own(request) \cup DOMAIN scan.dropped
      /\ \A id \in Own(request) : u[id] = OwnReasons(id)
      /\ \A id \in DOMAIN scan.dropped \ Own(request) : u[id] = scan.dropped[id]
  <2> HIDE DEF own, scan
  <2> QED BY <1>3 DEF Extended
<1> HIDE DEF own, scan, u
<1>5. DOMAIN u = cannot
  BY <1>2, <1>4 DEF Own
<1>6. Closed(Reach(request))
  BY RequestedIds, ClosureIsLeast DEF Reach
<1>7. ASSUME NEW id \in cannot
      PROVE  /\ u[id] # {}
             /\ \A reason \in u[id] :
                  \/ reason \in OwnReasons(id)
                  \/ reason[1] = "DEPENDENCY_UNAVAILABLE" /\ reason[2] \in Heeded(id) \cap cannot
  <2>1. CASE id \in Own(request)
    BY <1>4, <2>1 DEF Own
  <2>2. CASE id \notin Own(request)
    <3>1. id \in DOMAIN scan.dropped /\ u[id] = scan.dropped[id]
      BY <1>2, <1>4, <2>2
    <3>2. PICK d \in Heeded(id) \ scan.bindable : scan.dropped[id] = Unavailable(d)
      BY <1>2, <3>1
    <3>3. d \in Reach(request)
      BY <1>6, <1>7, <3>2, HeededIds DEF Closed
    <3> QED BY <3>1, <3>2, <3>3 DEF Unavailable
  <2> QED BY <2>1, <2>2
<1> QED BY <1>1, <1>5, <1>7 DEF scan

LEMMA ExactlyResolved == Typed => ResolveIsExact
<1> SUFFICES ASSUME Typed, NEW request \in Request, Resolvable(request)
             PROVE  LET r == Resolution(request)
                        reach == Reachable(Requested(request))
                        cannot == DOMAIN r.unavailable
                    IN  /\ DOMAIN r.capabilities = UNION {S \in SUBSET reach : Usable(S)}
                        /\ cannot = reach \ DOMAIN r.capabilities
                        /\ \A id \in cannot : r.unavailable[id] # {}
                        /\ \A id \in cannot : \A reason \in r.unavailable[id] :
                             \/ reason \in OwnReasons(id)
                             \/ reason[1] = "DEPENDENCY_UNAVAILABLE"
                                /\ reason[2] \in Heeded(id) \cap cannot
  BY DEF ResolveIsExact
<1>0. request.bodyMapId \in DOMAIN bodyMaps
  BY DEF Resolvable
<1>1. Reachable(Requested(request)) = Reach(request)
  BY <1>0, ReachableIsReach
<1>2. DOMAIN Resolution(request).capabilities = Final(request).bindable
  BY ResolutionParts
<1>3. Final(request).bindable = UNION {S \in SUBSET Reach(request) : Usable(S)}
  BY <1>0, Resolved
<1> QED BY <1>0, <1>1, <1>2, <1>3, Explained
-----------------------------------------------------------------------------
(* What goes into a store is what some bundle advertised. *)
Ingested(items, store, new) ==
  /\ \A id : id \in DOMAIN store => id \in DOMAIN new /\ new[id] = store[id]
  /\ \A id : id \in DOMAIN new /\ id \notin DOMAIN store =>
       \E raw \in Range(items) : raw.manifest.id = id /\ new[id] = raw.manifest

LEMMA IngestFacts ==
  ASSUME NEW items, NEW store
  PROVE  Ingested(items, store, IngestManifestSet(items, store))
<1> DEFINE a == Accepted(items)
<1>1. DOMAIN a = Agreed(items)
  BY DEF Accepted
<1>2. ASSUME NEW id \in Agreed(items)
      PROVE  \E raw \in Range(items) : raw.manifest.id = id /\ a[id] = raw.manifest
  <2>1. Advertised(items, id) # {}
    BY DEF Agreed, AdvertisedIds, Advertised
  <2>2. a[id] \in Advertised(items, id)
    BY <2>1 DEF Accepted
  <2> QED BY <2>2 DEF Advertised
<1>3. IngestManifestSet(items, store) = Extended(store, a)
  BY DEF IngestManifestSet
<1> HIDE DEF a
<1> QED BY <1>1, <1>2, <1>3 DEF Ingested, Extended

(* Nothing that is in the registry is taken out or replaced. *)
Grown ==
  /\ DOMAIN capabilities \subseteq DOMAIN capabilities'
  /\ \A id \in DOMAIN capabilities : capabilities'[id] = capabilities[id]
  /\ DOMAIN bodyMaps \subseteq DOMAIN bodyMaps'
  /\ \A id \in DOMAIN bodyMaps : bodyMaps'[id] = bodyMaps[id]
  /\ DOMAIN executors \subseteq DOMAIN executors'
  /\ \A ref \in DOMAIN executors : executors'[ref].function = executors[ref].function
  /\ DOMAIN tests \subseteq DOMAIN tests'
  /\ \A ref \in DOMAIN tests : tests'[ref].function = tests[ref].function

LEMMA BindsOnly ==
  ASSUME NEW bindings, NEW ref, NEW f, NEW b, Bindable(bindings, ref, f)
  PROVE  /\ DOMAIN bindings \subseteq DOMAIN Bound(bindings, ref, f, b)
         /\ \A x \in DOMAIN bindings :
              Bound(bindings, ref, f, b)[x].function = bindings[x].function
BY DEF Bindable, Bound

(* A step of a lane. *)
LaneStep(l) ==
  \/ StartLane(l) \/ ProviderEnds(l) \/ WorkReturns(l) \/ WorkThrows(l)
  \/ Straggle(l) \/ ReplaceEvidence(l) \/ MakeCandidate(l)

(* A step of the registry or its lanes adds, and a resolution that is new  *)
(* is one of the registry as it is.                                        *)
LEMMA RegistryGrows ==
  ASSUME Typed, [IgnitionNext]_ignitionVars
  PROVE  /\ Grown /\ Typed'
         /\ \/ held' = held
            \/ /\ UNCHANGED <<capabilities, bodyMaps, executors, tests>>
               /\ \E request \in Request :
                    Resolvable(request) /\ held' = held \cup {Resolution(request)}
<1>1. ASSUME NEW bundle \in Bundle, IngestBundle(bundle)
      PROVE  Grown /\ Typed' /\ held' = held
  <2>1. /\ capabilities' = IngestManifestSet(bundle.capabilities, capabilities)
        /\ bodyMaps' = IngestManifestSet(bundle.bodyMaps, bodyMaps)
        /\ UNCHANGED <<executors, tests, held>>
    BY <1>1 DEF IngestBundle
  <2>a. Ingested(bundle.capabilities, capabilities, capabilities')
    BY <2>1, IngestFacts
  <2>b. Ingested(bundle.bodyMaps, bodyMaps, bodyMaps')
    BY <2>1, IngestFacts
  <2>2. Grown
    BY <2>1, <2>a, <2>b DEF Grown, Ingested
  <2>3. ASSUME NEW id \in DOMAIN capabilities'
        PROVE  id \in CapabilityId /\ IsCapability(capabilities'[id])
    <3>1. CASE id \in DOMAIN capabilities
      BY <2>2, <3>1 DEF Typed, Grown
    <3>2. CASE id \notin DOMAIN capabilities
      <4>1. PICK raw \in Range(bundle.capabilities) :
              raw.manifest.id = id /\ capabilities'[id] = raw.manifest
        BY <2>a, <3>2 DEF Ingested
      <4> QED BY <4>1, RegistryAssumption DEF IsCapability
    <3> QED BY <3>1, <3>2
  <2>4. ASSUME NEW id \in DOMAIN bodyMaps'
        PROVE  IsBodyMap(bodyMaps'[id])
    <3>1. CASE id \in DOMAIN bodyMaps
      BY <2>2, <3>1 DEF Typed, Grown
    <3>2. CASE id \notin DOMAIN bodyMaps
      <4>1. PICK raw \in Range(bundle.bodyMaps) : bodyMaps'[id] = raw.manifest
        BY <2>b, <3>2 DEF Ingested
      <4> QED BY <4>1, RegistryAssumption
    <3> QED BY <3>1, <3>2
  <2> QED BY <2>1, <2>2, <2>3, <2>4 DEF Typed
<1>2. ASSUME NEW ref, NEW f, NEW b, BindExecutor(ref, f, b)
      PROVE  Grown /\ Typed' /\ held' = held
  <2>1. /\ Bindable(executors, ref, f) /\ executors' = Bound(executors, ref, f, b)
        /\ UNCHANGED <<capabilities, bodyMaps, tests, held>>
    BY <1>2 DEF BindExecutor
  <2> QED BY <2>1, BindsOnly DEF Grown, Typed
<1>3. ASSUME NEW ref, NEW f, NEW b, BindTest(ref, f, b)
      PROVE  Grown /\ Typed' /\ held' = held
  <2>1. /\ Bindable(tests, ref, f) /\ tests' = Bound(tests, ref, f, b)
        /\ UNCHANGED <<capabilities, bodyMaps, executors, held>>
    BY <1>3 DEF BindTest
  <2> QED BY <2>1, BindsOnly DEF Grown, Typed
<1>4. ASSUME UNCHANGED <<capabilities, bodyMaps, executors, tests>>
      PROVE  Grown /\ Typed'
  BY <1>4 DEF Grown, Typed
<1>5. ASSUME NEW set \in IgnitionSet, BindIgnitionExecutorSet(set)
      PROVE  Grown /\ Typed' /\ held' = held
  BY <1>5 DEF BindIgnitionExecutorSet, WithIgnited, Grown, Typed
<1>6. ASSUME NEW request \in Request, Resolve(request)
      PROVE  /\ UNCHANGED <<capabilities, bodyMaps, executors, tests>>
             /\ Resolvable(request) /\ held' = held \cup {Resolution(request)}
  BY <1>6 DEF Resolve
<1>7. ASSUME NEW l \in Lane, LaneStep(l)
      PROVE  UNCHANGED registryVars
  BY <1>7 DEF LaneStep, StartLane, ProviderEnds, WorkReturns, WorkThrows, Straggle,
              ReplaceEvidence, MakeCandidate
<1>8. ASSUME UNCHANGED registryVars
      PROVE  held' = held /\ UNCHANGED <<capabilities, bodyMaps, executors, tests>>
  BY <1>8 DEF registryVars
<1>9. CASE RegistryNext
  BY <1>1, <1>2, <1>3, <1>4, <1>6, <1>9 DEF RegistryNext
<1>10. CASE UNCHANGED ignitionVars
  <2>1. UNCHANGED registryVars
    BY <1>10 DEF ignitionVars
  <2> QED BY <1>4, <1>8, <2>1
<1>11. CASE \E l \in Lane : LaneStep(l)
  BY <1>4, <1>7, <1>8, <1>11
<1> QED BY <1>5, <1>9, <1>10, <1>11 DEF IgnitionNext, LaneStep
-----------------------------------------------------------------------------
(* What a resolution has, for as long as somebody holds it: its body map,  *)
(* capabilities that are known and bound and need nothing but each other,  *)
(* the manifests and functions they have in the registry, and among them   *)
(* none that the request does not reach.                                   *)
TrueOf(r) ==
  /\ r.request \in Request /\ r.request.bodyMapId \in DOMAIN bodyMaps
  /\ bodyMaps[r.request.bodyMapId] = r.bodyMap
  /\ Usable(DOMAIN r.capabilities)
  /\ \A id \in DOMAIN r.capabilities : r.capabilities[id] = Materialized(id)
  /\ \A T \in SUBSET CapabilityId :
       Requested(r.request) \subseteq T /\ Closed(T) => DOMAIN r.capabilities \subseteq T

HeldInv == \A r \in held : TrueOf(r)

(* A capability that can be used keeps all that a resolution reads of it.  *)
LEMMA UsedStays ==
  ASSUME Grown, NEW id, OwnReasons(id) = {}
  PROVE  /\ OwnReasons(id)' = {}
         /\ Heeded(id)' = Heeded(id)
         /\ Materialized(id)' = Materialized(id)
<1>1. id \in DOMAIN capabilities
  BY DEF OwnReasons
<1>2. id \in DOMAIN capabilities' /\ capabilities'[id] = capabilities[id]
  BY <1>1 DEF Grown
<1>3. /\ capabilities[id].executorRef \in DOMAIN executors
      /\ \A ref \in capabilities[id].testRefs : ref \in DOMAIN tests
  BY <1>1 DEF OwnReasons
<1>4. /\ capabilities[id].executorRef \in DOMAIN executors'
      /\ executors'[capabilities[id].executorRef].function
           = executors[capabilities[id].executorRef].function
      /\ \A ref \in capabilities[id].testRefs :
           ref \in DOMAIN tests' /\ tests'[ref].function = tests[ref].function
  BY <1>3 DEF Grown
<1>5. OwnReasons(id)' = {}
  BY <1>2, <1>4 DEF OwnReasons
<1>6. Heeded(id)' = Heeded(id)
  BY <1>1, <1>2 DEF Heeded, DependsOn
<1>7. Materialized(id)' = Materialized(id)
  BY <1>2, <1>4 DEF Materialized
<1> QED BY <1>5, <1>6, <1>7

LEMMA ClosedBefore ==
  ASSUME Grown, NEW T, Closed(T)'
  PROVE  Closed(T)
<1>1. ASSUME NEW id PROVE DependsOn(id) \subseteq DependsOn(id)'
  BY DEF Grown, DependsOn
<1> QED BY <1>1 DEF Closed

LEMMA TrueStays ==
  ASSUME Grown, NEW r, TrueOf(r)
  PROVE  TrueOf(r)'
<1>1. /\ r.request \in Request /\ r.request.bodyMapId \in DOMAIN bodyMaps'
      /\ bodyMaps'[r.request.bodyMapId] = bodyMaps[r.request.bodyMapId]
      /\ bodyMaps[r.request.bodyMapId] = r.bodyMap
  BY DEF TrueOf, Grown
<1>2. \A id \in DOMAIN r.capabilities :
        OwnReasons(id) = {} /\ Heeded(id) \subseteq DOMAIN r.capabilities
  BY DEF TrueOf, Usable
<1>3. Usable(DOMAIN r.capabilities)'
  BY <1>2, UsedStays DEF Usable
<1>4. ASSUME NEW id \in DOMAIN r.capabilities
      PROVE  r.capabilities[id] = Materialized(id)'
  BY <1>2, UsedStays DEF TrueOf
<1>5. Requested(r.request)' = Requested(r.request)
  BY <1>1 DEF Requested
<1>6. ASSUME NEW T \in SUBSET CapabilityId, Requested(r.request)' \subseteq T, Closed(T)'
      PROVE  DOMAIN r.capabilities \subseteq T
  BY <1>5, <1>6, ClosedBefore DEF TrueOf
<1> QED BY <1>1, <1>3, <1>4, <1>6 DEF TrueOf

LEMMA NewIsTrue ==
  ASSUME Typed, NEW request \in Request, Resolvable(request)
  PROVE  TrueOf(Resolution(request))
<1> DEFINE r == Resolution(request)
           D == Final(request).bindable
<1>1. request.bodyMapId \in DOMAIN bodyMaps
  BY DEF Resolvable
<1>2. /\ r.request = request /\ r.bodyMap = bodyMaps[request.bodyMapId]
      /\ r.capabilities = [id \in D |-> Materialized(id)]
  BY ResolutionParts
<1>3. Usable(D) /\ D \subseteq Reach(request)
  BY <1>1, Resolved
<1>4. ASSUME NEW T \in SUBSET CapabilityId, Requested(request) \subseteq T, Closed(T)
      PROVE  D \subseteq T
  <2>1. Reach(request) \subseteq T
    BY <1>1, <1>4, RequestedIds, ClosureIsLeast DEF Reach
  <2> QED BY <1>3, <2>1
<1> HIDE DEF r, D
<1>5. TrueOf(r)
  <2>1. DOMAIN r.capabilities = D /\ \A id \in D : r.capabilities[id] = Materialized(id)
    BY <1>2
  <2> QED BY <1>1, <1>2, <1>3, <1>4, <2>1 DEF TrueOf
<1> QED BY <1>5 DEF r

(* Resolving again finds no less: the capabilities of a resolution are     *)
(* still reached and still usable.                                         *)
LEMMA TrueIsFound ==
  ASSUME Typed, HeldInv
  PROVE  ResolutionsStayTrue
<1> SUFFICES ASSUME NEW r \in held
             PROVE  /\ bodyMaps[r.request.bodyMapId] = r.bodyMap
                    /\ LET now == Resolution(r.request).capabilities
                       IN  \A id \in DOMAIN r.capabilities :
                             id \in DOMAIN now /\ now[id] = r.capabilities[id]
  BY DEF ResolutionsStayTrue
<1> DEFINE D == DOMAIN r.capabilities
           F == Final(r.request).bindable
<1>1. TrueOf(r)
  BY DEF HeldInv
<1>2. r.request \in Request /\ r.request.bodyMapId \in DOMAIN bodyMaps
  BY <1>1 DEF TrueOf
<1>3. /\ Reach(r.request) \in SUBSET CapabilityId
      /\ Requested(r.request) \subseteq Reach(r.request)
      /\ Closed(Reach(r.request))
  BY <1>2, RequestedIds, ClosureIsLeast DEF Reach
<1>4. D \in SUBSET Reach(r.request) /\ Usable(D)
  BY <1>1, <1>3 DEF TrueOf
<1>5. D \subseteq F
  BY <1>2, <1>4, Resolved
<1>6. Resolution(r.request).capabilities = [id \in F |-> Materialized(id)]
  BY ResolutionParts
<1>7. \A id \in D : r.capabilities[id] = Materialized(id)
  BY <1>1 DEF TrueOf
<1>8. bodyMaps[r.request.bodyMapId] = r.bodyMap
  BY <1>1 DEF TrueOf
<1> HIDE DEF F
<1> QED BY <1>5, <1>6, <1>7, <1>8

LEMMA RegistryInv == IgnitionSpec => [](Typed /\ HeldInv)
<1>1. IgnitionInit => Typed /\ HeldInv
  BY DEF IgnitionInit, RegistryInit, NoEntries, Typed, HeldInv
<1>2. Typed /\ HeldInv /\ [IgnitionNext]_ignitionVars => (Typed /\ HeldInv)'
  <2> SUFFICES ASSUME Typed, HeldInv, [IgnitionNext]_ignitionVars
               PROVE  Typed' /\ HeldInv'
    OBVIOUS
  <2>1. Grown /\ Typed'
    BY RegistryGrows
  <2>2. ASSUME NEW r \in held PROVE TrueOf(r)'
    BY <2>1, TrueStays DEF HeldInv
  <2>3. CASE held' = held
    BY <2>1, <2>2, <2>3 DEF HeldInv
  <2>4. ASSUME NEW request \in Request, Resolvable(request),
               held' = held \cup {Resolution(request)}
        PROVE  HeldInv'
    <3>1. PICK r : r = Resolution(request)
      OBVIOUS
    <3>2. TrueOf(r)
      BY <2>4, <3>1, NewIsTrue
    <3>3. TrueOf(r)'
      BY <2>1, <3>2, TrueStays
    <3>4. \A x \in held' : x \in held \/ x = r
      BY <2>4, <3>1
    <3> QED BY <2>2, <3>3, <3>4 DEF HeldInv
  <2> QED BY <2>1, <2>3, <2>4, RegistryGrows
<1> QED BY <1>1, <1>2, PTL DEF IgnitionSpec

(* In every registry that intakes and bindings can lead to, resolve finds  *)
(* the largest usable part of what a request reaches, along cycles too,    *)
(* and gives a true cause for every other id.                              *)
THEOREM ResolvesExactly == IgnitionSpec => []ResolveIsExact
BY RegistryInv, ExactlyResolved, PTL

(* A resolution that a host holds stays the registry's own answer: nothing *)
(* that is ingested or bound later changes a manifest, a function or a     *)
(* body map in it, or takes a capability from it.                          *)
THEOREM ResolutionsStay == IgnitionSpec => []ResolutionsStayTrue
BY RegistryInv, TrueIsFound, PTL
-----------------------------------------------------------------------------
(* Wholeness of one set in a map of executors, the body of                 *)
(* IgnitionSetWhole.                                                       *)
WholeIn(bindings, set) ==
  \A ref \in DOMAIN set \cap DOMAIN bindings :
    bindings[ref].function = WrappedWork(set, ref) =>
      \A other \in DOMAIN set :
        other \in DOMAIN bindings /\ bindings[other].function = WrappedWork(set, other)

LEMMA WholeUnfolded == IgnitionSetWhole <=> \A set \in IgnitionSet : WholeIn(executors, set)
BY DEF IgnitionSetWhole, WholeIn

(* A wrapped function tells the set it was made for. *)
LEMMA WrappedForOneSet ==
  ASSUME NEW s, NEW t, NEW a, NEW b, WrappedWork(s, a) = WrappedWork(t, b)
  PROVE  s = t /\ a = b
<1>1. WrappedWork(s, a).set = s /\ WrappedWork(t, b).set = t
  BY DEF WrappedWork
<1>2. WrappedWork(s, a).executorRef = a /\ WrappedWork(t, b).executorRef = b
  BY DEF WrappedWork
<1> QED BY <1>1, <1>2

(* A host's binding takes nothing away and adds no wrapped function. *)
LEMMA BindKeepsWhole ==
  ASSUME NEW set \in IgnitionSet, WholeIn(executors, set),
         NEW ref, NEW f \in Function, NEW b, BindExecutor(ref, f, b)
  PROVE  WholeIn(executors', set)
<1>1. DOMAIN executors' = DOMAIN executors \cup {ref}
  BY DEF BindExecutor, Bound
<1>2. \A x \in DOMAIN executors : executors'[x].function = executors[x].function
  BY DEF BindExecutor, Bound, Bindable
<1>3. executors'[ref].function = f
  BY DEF BindExecutor, Bound
<1>4. \A x \in DOMAIN set : f # WrappedWork(set, x)
  BY IgnitionAssumption
<1> QED BY <1>1, <1>2, <1>3, <1>4 DEF WholeIn

(* The adapter's binding brings in one whole set and touches no other.     *)
LEMMA IgniteKeepsWhole ==
  ASSUME NEW set \in IgnitionSet, WholeIn(executors, set),
         NEW new \in IgnitionSet, BindIgnitionExecutorSet(new)
  PROVE  WholeIn(executors', set)
<1>1. /\ DOMAIN executors' = DOMAIN executors \cup DOMAIN new
      /\ DOMAIN new \cap DOMAIN executors = {}
      /\ \A x \in DOMAIN executors : executors'[x] = executors[x]
  BY DEF BindIgnitionExecutorSet, WithIgnited
<1>2. \A x \in DOMAIN new : executors'[x].function = WrappedWork(new, x)
  BY <1>1 DEF BindIgnitionExecutorSet, WithIgnited, Ignited
<1>3. CASE set = new
  BY <1>1, <1>2, <1>3 DEF WholeIn
<1>4. CASE set # new
  <2>1. \A x \in DOMAIN new : executors'[x].function # WrappedWork(set, x)
    BY <1>2, <1>4, WrappedForOneSet
  <2> QED BY <1>1, <2>1 DEF WholeIn
<1> QED BY <1>3, <1>4

(* Where one executor of a set runs through Ignition, all do: for every    *)
(* order of intakes, bindings by hosts and bindings by the adapter.        *)
THEOREM SetsBoundWhole == IgnitionSpec => []IgnitionSetWhole
<1>1. IgnitionInit => IgnitionSetWhole
  BY DEF IgnitionInit, RegistryInit, NoEntries, IgnitionSetWhole
<1>2. IgnitionSetWhole /\ [IgnitionNext]_ignitionVars => IgnitionSetWhole'
  <2> SUFFICES ASSUME IgnitionSetWhole, [IgnitionNext]_ignitionVars,
                      NEW set \in IgnitionSet
               PROVE  WholeIn(executors', set)
    BY WholeUnfolded DEF IgnitionSetWhole, WholeIn
  <2>0. WholeIn(executors, set)
    BY WholeUnfolded
  <2>1. ASSUME NEW ref \in ExecutorRef, NEW f \in Function, NEW b \in BindingRef,
               BindExecutor(ref, f, b)
        PROVE  WholeIn(executors', set)
    BY <2>0, <2>1, BindKeepsWhole
  <2>2. ASSUME NEW new \in IgnitionSet, BindIgnitionExecutorSet(new)
        PROVE  WholeIn(executors', set)
    BY <2>0, <2>2, IgniteKeepsWhole
  <2>3. ASSUME executors' = executors PROVE WholeIn(executors', set)
    BY <2>0, <2>3
  <2>4. ASSUME RegistryNext PROVE WholeIn(executors', set)
    BY <2>1, <2>3, <2>4 DEF RegistryNext, IngestBundle, BindTest, Resolve
  <2>5. ASSUME NEW l \in Lane, LaneStep(l)
        PROVE  executors' = executors
    BY <2>5 DEF LaneStep, StartLane, ProviderEnds, WorkReturns, WorkThrows, Straggle,
                ReplaceEvidence, MakeCandidate, registryVars
  <2>6. ASSUME UNCHANGED ignitionVars PROVE executors' = executors
    BY <2>6 DEF ignitionVars, registryVars
  <2> QED BY <2>2, <2>3, <2>4, <2>5, <2>6 DEF IgnitionNext, LaneStep
<1> QED BY <1>1, <1>2, PTL DEF IgnitionSpec
-----------------------------------------------------------------------------
(* A receipt that is anywhere was made when the wrapped work of the lane   *)
(* it names returned, and says what was reported and found then.           *)
Issued(e, ln, rt) ==
  LET l == e.request
  IN  /\ l \in Lane /\ ln[l].phase \in {"returned", "candidate"}
      /\ e.capabilityId = ln[l].work.set[ln[l].work.executorRef]
      /\ \E was \in rt[l] : /\ was.reported = e.executed
                           /\ was.holds.content = e.content /\ was.holds.refs = e.refs

AttestInv ==
  /\ lane = [l \in Lane |-> lane[l]]
  /\ evidence = [l \in Lane |-> evidence[l]] /\ returned = [l \in Lane |-> returned[l]]
  /\ \A k \in Lane : \A e \in evidence[k] : Issued(e, lane, returned)

(* What is settled of a lane when its work has returned. *)
Settled(l) ==
  lane[l].phase \in {"returned", "candidate"} =>
    /\ lane'[l].phase \in {"returned", "candidate"} /\ lane'[l].work = lane[l].work
    /\ returned'[l] = returned[l]

LEMMA IssuedStays ==
  ASSUME NEW e, Issued(e, lane, returned), \A l \in Lane : Settled(l)
  PROVE  Issued(e, lane', returned')
BY DEF Issued, Settled

LEMMA LaneStepSettles ==
  ASSUME AttestInv, NEW l \in Lane, LaneStep(l), NEW k \in Lane
  PROVE  Settled(k)
<1>0. lane = [m \in Lane |-> lane[m]] /\ returned = [m \in Lane |-> returned[m]]
  BY DEF AttestInv
<1>1. CASE StartLane(l)
  <2>1. PICK new : lane[l].phase = "idle" /\ lane' = [lane EXCEPT ![l] = new] /\ returned' = returned
    BY <1>1 DEF StartLane
  <2> QED BY <1>0, <2>1 DEF Settled
<1>2. CASE ProviderEnds(l)
  <2>1. PICK new : lane[l].phase = "running" /\ lane' = [lane EXCEPT ![l] = new] /\ returned' = returned
    BY <1>2 DEF ProviderEnds
  <2> QED BY <1>0, <2>1 DEF Settled
<1>3. CASE WorkReturns(l)
  <2>1. PICK new, was : /\ lane[l].phase = "ended" /\ lane' = [lane EXCEPT ![l] = new]
                        /\ returned' = [returned EXCEPT ![l] = was]
    BY <1>3 DEF WorkReturns
  <2> QED BY <1>0, <2>1 DEF Settled
<1>4. CASE WorkThrows(l)
  <2>1. PICK new : /\ lane[l].phase \in {"running", "ended"} /\ lane' = [lane EXCEPT ![l] = new]
                   /\ returned' = returned
    BY <1>4 DEF WorkThrows
  <2> QED BY <1>0, <2>1 DEF Settled
<1>5. CASE Straggle(l) \/ ReplaceEvidence(l)
  BY <1>5 DEF Straggle, ReplaceEvidence, Settled
<1>6. CASE MakeCandidate(l)
  <2>1. /\ lane' = [lane EXCEPT ![l] = [phase |-> "candidate", work |-> lane[l].work]]
        /\ returned' = returned
    BY <1>6 DEF MakeCandidate
  <2>2. CASE k = l
    BY <1>0, <2>1, <2>2 DEF Settled
  <2>3. CASE k # l
    BY <1>0, <2>1, <2>3 DEF Settled
  <2> QED BY <2>2, <2>3
<1> QED BY <1>1, <1>2, <1>3, <1>4, <1>5, <1>6 DEF LaneStep

(* The receipt that a return adds is true of that return. *)
LEMMA ReturnIssues ==
  ASSUME AttestInv, NEW l \in Lane, WorkReturns(l), NEW e \in evidence'[l]
  PROVE  Issued(e, lane', returned')
<1>1. /\ lane = [m \in Lane |-> lane[m]]
      /\ evidence = [m \in Lane |-> evidence[m]] /\ returned = [m \in Lane |-> returned[m]]
  BY DEF AttestInv
<1>2. /\ evidence'[l] = {Execution(l, lane[l].reported)}
      /\ returned'[l] = {[reported |-> lane[l].reported, holds |-> clone[l]]}
      /\ lane'[l] = [phase |-> "returned", work |-> lane[l].work]
  BY <1>1 DEF WorkReturns
<1>3. /\ e.request = l /\ e.capabilityId = Selected(l) /\ e.executed = lane[l].reported
      /\ e.content = clone[l].content /\ e.refs = clone[l].refs
  BY <1>2 DEF Execution
<1>4. lane'[l].phase = "returned" /\ lane'[l].work = lane[l].work
  BY <1>2
<1>5. \E was \in returned'[l] : /\ was.reported = e.executed
                               /\ was.holds.content = e.content /\ was.holds.refs = e.refs
  BY <1>2, <1>3
<1> QED BY <1>3, <1>4, <1>5 DEF Issued, Selected

LEMMA LaneStepKeeps ==
  ASSUME AttestInv, NEW l \in Lane, LaneStep(l)
  PROVE  AttestInv'
<1>1. /\ lane = [m \in Lane |-> lane[m]]
      /\ evidence = [m \in Lane |-> evidence[m]] /\ returned = [m \in Lane |-> returned[m]]
  BY DEF AttestInv
<1>2. /\ lane' = [m \in Lane |-> lane'[m]]
      /\ evidence' = [m \in Lane |-> evidence'[m]] /\ returned' = [m \in Lane |-> returned'[m]]
  BY <1>1 DEF LaneStep, StartLane, ProviderEnds, WorkReturns, WorkThrows, Straggle,
              ReplaceEvidence, MakeCandidate
<1>3. ASSUME NEW m \in Lane, NEW e \in evidence[m]
      PROVE  Issued(e, lane', returned')
  BY LaneStepSettles, IssuedStays DEF AttestInv
<1>4. ASSUME NEW k \in Lane, NEW e \in evidence'[k]
      PROVE  Issued(e, lane', returned')
  <2>1. CASE WorkReturns(l)
    <3>1. CASE k = l
      BY <2>1, <3>1, ReturnIssues
    <3>2. CASE k # l
      <4>1. evidence'[k] = evidence[k]
        BY <1>1, <2>1, <3>2 DEF WorkReturns
      <4> QED BY <4>1, <1>3
    <3> QED BY <3>1, <3>2
  <2>2. CASE ReplaceEvidence(l)
    <3>1. PICK receipts \in {{}} \cup Range(evidence) : evidence' = [evidence EXCEPT ![l] = receipts]
      BY <2>2 DEF ReplaceEvidence
    <3>2. \A r \in receipts : \E m \in Lane : r \in evidence[m]
      BY <1>1 DEF Range
    <3>3. \E m \in Lane : e \in evidence[m]
      BY <1>1, <3>1, <3>2
    <3> QED BY <3>3, <1>3
  <2>3. CASE UNCHANGED evidence
    BY <2>3, <1>3
  <2>4. UNCHANGED evidence \/ WorkReturns(l) \/ ReplaceEvidence(l)
    BY DEF LaneStep, StartLane, ProviderEnds, WorkThrows, Straggle, MakeCandidate
  <2> QED BY <2>1, <2>2, <2>3, <2>4
<1> QED BY <1>2, <1>4 DEF AttestInv

LEMMA AttestStep == AttestInv /\ [IgnitionNext]_ignitionVars => AttestInv'
<1> SUFFICES ASSUME AttestInv, [IgnitionNext]_ignitionVars PROVE AttestInv'
  OBVIOUS
<1>1. ASSUME UNCHANGED laneVars PROVE AttestInv'
  BY <1>1 DEF laneVars, AttestInv, Issued
<1>2. ASSUME NEW l \in Lane, LaneStep(l) PROVE AttestInv'
  BY <1>2, LaneStepKeeps
<1>3. ASSUME NEW set \in IgnitionSet, BindIgnitionExecutorSet(set) PROVE AttestInv'
  BY <1>1, <1>3 DEF BindIgnitionExecutorSet
<1>4. ASSUME UNCHANGED ignitionVars PROVE AttestInv'
  BY <1>1, <1>4 DEF ignitionVars
<1> QED BY <1>1, <1>2, <1>3, <1>4 DEF IgnitionNext, LaneStep

(* Evidence that verifies with a candidate is about the return of that     *)
(* lane's work: of a run the provider reported to be the selected one, and *)
(* of the content the candidate still has.  Whoever writes the clone late, *)
(* adds evidence refs, exchanges receipts or shows one for another's       *)
(* candidate; but only as true as the provider's report is.                *)
THEOREM EvidenceIsOfTheRun == IgnitionSpec => []VerifiedIsTheRun
<1>1. IgnitionInit => AttestInv
  BY DEF IgnitionInit, AttestInv
<1>2. AttestInv => VerifiedIsTheRun
  <2> SUFFICES ASSUME AttestInv, NEW l \in Lane, NEW k \in Lane, NEW e \in evidence[k],
                      Verifies(e, l)
               PROVE  \E was \in returned[l] : /\ was.reported = {Selected(l)}
                                              /\ was.holds.content = clone[l].content
                                              /\ was.holds.refs \subseteq clone[l].refs
    BY DEF VerifiedIsTheRun
  <2>1. Issued(e, lane, returned)
    BY DEF AttestInv
  <2>2. /\ e.executed = {e.capabilityId} /\ e.request = l
        /\ clone[l].content = e.content /\ e.refs \subseteq clone[l].refs
    BY DEF Verifies, MatchesCandidate
  <2> QED BY <2>1, <2>2 DEF Issued, Selected
<1> QED BY <1>1, <1>2, AttestStep, PTL DEF IgnitionSpec
=============================================================================
