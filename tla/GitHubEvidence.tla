--------------------------- MODULE GitHubEvidence ---------------------------
(***************************************************************************)
(* collectGitHubEvidence of src/src/github-evidence.js: one collection     *)
(* after another of one ref of one repository, each a chain of awaited     *)
(* client calls between which the ref moves, also back, and workflow runs  *)
(* come, conclude and are run again.  Commits never change.  A call may    *)
(* fail for any other reason than that there is no such file.              *)
(***************************************************************************)
EXTENDS Naturals, ExternalSource

CONSTANTS
  Commit,        \* commits that the ref may name
  Path,          \* paths of files
  Blobs,         \* Blobs[c][p]: the blob at path p of commit c, none or one
  FileChecks,    \* sequence of file checks, in the order of their ids
  WorkflowChecks,\* the workflow checks, by observation id
  Workflow,      \* workflows of the repository
  Claim,         \* the claims of the host, by claim id
  MaxChanges,    \* bound on what happens in the repository
  MaxCollections \* bound on the collections made

RefStability == "github.ref-stability"

(* normalizeFileChecks, normalizeWorkflowChecks and the receipt's refusal  *)
(* of duplicate observation ids.                                           *)
FileIds == {FileChecks[i].id : i \in DOMAIN FileChecks}

ASSUME EvidenceAssumption ==
  /\ Len(FileChecks) \in Nat /\ DOMAIN FileChecks = 1..Len(FileChecks)
  /\ Blobs \in [Commit -> [Path -> SUBSET UNION {Blobs[c][p] : c \in Commit, p \in Path}]]
  /\ \A i, j \in DOMAIN FileChecks : FileChecks[i].id = FileChecks[j].id => i = j
  /\ FileIds \cap DOMAIN WorkflowChecks = {}
  /\ RefStability \notin FileIds \cup DOMAIN WorkflowChecks
  /\ \A id \in DOMAIN Claim : Claim[id].requirements # {}
  /\ MaxChanges \in Nat /\ MaxCollections \in Nat

VARIABLES
  head,        \* the commit that the ref names
  runs,        \* the workflow runs of the ref, oldest first
  changes,     \* how often the repository changed
  concluded,   \* history: conclusions that runs have had
  phase,       \* what the collector awaits
  pinned,      \* start.sha
  observations,\* what it has pushed so far
  collections  \* the collections that were returned, each with the commit
               \* the ref named at its last call

repositoryVars == <<head, runs, changes, concluded>>
collectorVars == <<phase, pinned, observations, collections>>
evidenceVars == <<repositoryVars, collectorVars>>

NoObservations == [id \in {} |-> {}]

EvidenceInit ==
  /\ head \in Commit
  /\ runs = <<>> /\ changes = 0 /\ concluded = {}
  /\ phase = "idle" /\ pinned = head
  /\ observations = NoObservations
  /\ collections = <<>>
-----------------------------------------------------------------------------
(* The repository, which the collector only reads.  What happens after the *)
(* last collection concerns nobody.                                        *)
Change == /\ changes < MaxChanges /\ Len(collections) < MaxCollections
          /\ changes' = changes + 1
          /\ UNCHANGED collectorVars

RefMoves ==
  /\ Change
  /\ head' \in Commit \ {head}
  /\ UNCHANGED <<runs, concluded>>

RunStarts ==
  /\ Change
  /\ \E w \in Workflow :
       runs' = Append(runs, [workflow |-> w, headSha |-> head, status |-> "IN_PROGRESS"])
  /\ UNCHANGED <<head, concluded>>

RunConcludes ==
  /\ Change
  /\ \E i \in DOMAIN runs, conclusion \in {"SUCCESS", "FAILURE"} :
       /\ runs[i].status = "IN_PROGRESS"
       /\ runs' = [runs EXCEPT ![i].status = conclusion]
       /\ concluded' = concluded \cup {runs'[i]}
  /\ UNCHANGED head

RunAgain ==
  /\ Change
  /\ \E i \in DOMAIN runs :
       /\ runs[i].status # "IN_PROGRESS"
       /\ runs' = [runs EXCEPT ![i].status = "IN_PROGRESS"]
  /\ UNCHANGED <<head, concluded>>
-----------------------------------------------------------------------------
(* The first client call.  If it fails the collection is refused.          *)
ResolveStart ==
  /\ phase = "idle" /\ Len(collections) < MaxCollections
  /\ pinned' = head
  /\ phase' = "files"
  /\ observations' = NoObservations
  /\ UNCHANGED <<repositoryVars, collections>>

FileObservation(status, commit, blob) ==
  [status |-> status, basis |-> "OBSERVED_SOURCE",
   evidenceRef |-> <<commit, status, blob>>, details |-> <<>>]

(* collectFileObservation, with what the client answers for a commit.      *)
FileStatus(check, commit) ==
  LET found == Blobs[commit][check.path]
  IN  IF found = {} THEN "ABSENT"
      ELSE IF check.expectedBlobSha # {} /\ found # check.expectedBlobSha THEN "MISMATCH"
      ELSE "PRESENT"

(* Mutant of ReadAt: the file is read at the ref.                          *)
ReadAtRef(check) == FileObservation(FileStatus(check, head), head, Blobs[head][check.path])

ReadAt(check) == FileObservation(FileStatus(check, pinned), pinned, Blobs[pinned][check.path])

(* Mutant of FileOutage: a failed read counts as not found.                *)
FileOutageAbsent(check) == FileObservation("ABSENT", pinned, {})

FileOutage(check) == FileObservation("ERROR", pinned, {})

(* observations.push, of observations with new ids.                        *)
Pushed(old, new) ==
  [id \in DOMAIN old \cup DOMAIN new |-> IF id \in DOMAIN new THEN new[id] ELSE old[id]]

(* One getFile call.  The loop goes through the checks in order.           *)
GetFile ==
  LET i == Cardinality(DOMAIN observations) + 1
  IN  /\ phase = "files" /\ i <= Len(FileChecks)
      /\ \E o \in {ReadAt(FileChecks[i]), FileOutage(FileChecks[i])} :
           observations' = Pushed(observations, [id \in {FileChecks[i].id} |-> o])
      /\ UNCHANGED <<repositoryVars, phase, pinned, collections>>

(* Mutant of Eligible: a run of any head will do.                          *)
EligibleAnyHead(check) == {i \in DOMAIN runs : runs[i].workflow = check.workflow}

Eligible(check) ==
  {i \in DOMAIN runs :
     /\ runs[i].workflow = check.workflow
     /\ check.headPolicy = "REF_HISTORY" \/ runs[i].headSha = pinned}

WorkflowReport(status, evidenceRef, details) ==
  [status |-> status, basis |-> "EXECUTION_EVIDENCE",
   evidenceRef |-> evidenceRef, details |-> details]

(* collectWorkflowObservation: the newest of the eligible runs decides.    *)
WorkflowObservation(check) ==
  LET eligible == Eligible(check)
      newest == Max(eligible)
  IN  IF eligible = {} THEN WorkflowReport("MISSING", <<"missing">>, <<pinned, Len(runs)>>)
      ELSE WorkflowReport(runs[newest].status, <<"run", newest>>, <<pinned, runs[newest]>>)

WorkflowOutage == WorkflowReport("ERROR", <<"error">>, <<>>)

(* The listWorkflowRuns call, made only if there are workflow checks; all  *)
(* of them are decided from its one answer.                                *)
ListWorkflowRuns ==
  /\ phase = "files" /\ Cardinality(DOMAIN observations) = Len(FileChecks)
  /\ phase' = "end"
  /\ \/ observations' = Pushed(observations,
          [id \in DOMAIN WorkflowChecks |-> WorkflowObservation(WorkflowChecks[id])])
     \/ /\ DOMAIN WorkflowChecks # {}
        /\ observations' = Pushed(observations,
             [id \in DOMAIN WorkflowChecks |-> WorkflowOutage])
  /\ UNCHANGED <<repositoryVars, pinned, collections>>

CollectionStatus(pushed, freshness) ==
  IF freshness = "UNKNOWN" \/ \E id \in DOMAIN pushed : pushed[id].status = "ERROR" THEN "PARTIAL"
  ELSE IF freshness = "MOVED" THEN "PINNED_COMPLETE_REF_MOVED" ELSE "PINNED_COMPLETE"

(* Mutant of Freshness: a failed closing check counts as stable.           *)
FreshnessOptimistic(answered) ==
  IF answered /\ head # pinned THEN "MOVED" ELSE "STABLE"

Freshness(answered) ==
  IF ~answered THEN "UNKNOWN" ELSE IF head = pinned THEN "STABLE" ELSE "MOVED"

(* The closing resolveRef call, answered or not, and the collection.       *)
ResolveEnd ==
  /\ phase = "end"
  /\ \E answered \in BOOLEAN :
       LET freshness == Freshness(answered)
           stability == [status |-> freshness, basis |-> "OBSERVED_SOURCE",
                         evidenceRef |-> IF answered THEN <<pinned, head>> ELSE <<"end-error">>,
                         details |-> <<pinned>>]
           pushed == Pushed(observations, [id \in {RefStability} |-> stability])
       IN  collections' = Append(collections,
             [pinned |-> pinned, observations |-> pushed, closing |-> head,
              status |-> CollectionStatus(pushed, freshness)])
  /\ phase' = "idle"
  /\ observations' = NoObservations
  /\ UNCHANGED <<repositoryVars, pinned>>

(* The collection is not made after all: a client's error whose status is  *)
(* no number is kept as NaN, which stableStringify refuses to hash.        *)
Refuse ==
  /\ phase = "end"
  /\ phase' = "idle"
  /\ observations' = NoObservations
  /\ UNCHANGED <<repositoryVars, pinned, collections>>

EvidenceNext ==
  \/ RefMoves \/ RunStarts \/ RunConcludes \/ RunAgain
  \/ ResolveStart \/ GetFile \/ ListWorkflowRuns \/ ResolveEnd \/ Refuse

EvidenceSpec == EvidenceInit /\ [][EvidenceNext]_evidenceVars
-----------------------------------------------------------------------------
(* addRefStabilityRequirement, unless the claim names the observation.     *)
NamesRef(claim) == \E q \in claim.requirements : q.observationId = RefStability

WithRefStability(claim) ==
  IF NamesRef(claim) THEN claim
  ELSE [capabilityId |-> claim.capabilityId,
        requirements |-> claim.requirements \cup
          {[observationId |-> RefStability, acceptedStatuses |-> {"STABLE"},
            acceptedBases |-> {"OBSERVED_SOURCE"}, rejectStatuses |-> {}]}]

(* createExternalSourceReceiptFromGitHubCollection                         *)
ReceiptOf(collection, requireStableRef) ==
  SourceReceipt(collection.pinned, collection.observations,
    [id \in DOMAIN Claim |-> IF requireStableRef THEN WithRefStability(Claim[id]) ELSE Claim[id]])

Verdict(collection, requireStableRef, id) ==
  ReceiptOf(collection, requireStableRef).claims[id].status

(* What the source really says of an observation: at the commit itself,    *)
(* and for an exact-head workflow check by a run that has concluded.       *)
TrueStatuses(commit, observationId) ==
  {FileStatus(FileChecks[i], commit) : i \in {j \in DOMAIN FileChecks : FileChecks[j].id = observationId}}
  \cup {r.status : r \in {s \in concluded :
          /\ observationId \in DOMAIN WorkflowChecks
          /\ WorkflowChecks[observationId].workflow = s.workflow
          /\ WorkflowChecks[observationId].headPolicy = "PINNED_HEAD" => s.headSha = commit}}

Required(id) == {q \in Claim[id].requirements : q.observationId # RefStability}

(* The collection that was returned last, when it is; older ones have been *)
(* looked at by then and do not change.                                    *)
JustReturned == IF phase = "idle" /\ collections # <<>> THEN {Last(collections)} ELSE {}

(* A verdict is deserved by the commit it is about, whatever the ref and   *)
(* the runs did while the evidence was read and whichever calls failed: a  *)
(* manifest can be made only from a claim whose every requirement the      *)
(* commit meets, and a claim is contradicted only if one of them is really *)
(* violated.  An outage verifies nothing and contradicts nothing.          *)
VerdictsAreDeserved ==
  \A c \in JustReturned : \A strict \in BOOLEAN :
    LET receipt == ReceiptOf(c, strict)
    IN  \A id \in DOMAIN Claim :
          /\ \A m \in VerifiedManifest(receipt, id, Claim[id].capabilityId) :
               /\ m.headSha = c.pinned
               /\ \A q \in Required(id) :
                    TrueStatuses(c.pinned, q.observationId)
                      \cap (q.acceptedStatuses \ q.rejectStatuses) # {}
          /\ receipt.claims[id].status = "SOURCE_CONTRADICTED" =>
               \E q \in Required(id) :
                 TrueStatuses(c.pinned, q.observationId) \cap q.rejectStatuses # {}

(* Unless a claim sets its own terms for the ref, it is verified only if   *)
(* the ref named the commit at the first call and again at the last one.   *)
StableRefGate ==
  \A c \in JustReturned : c.closing # c.pinned =>
    \A id \in DOMAIN Claim :
      ~NamesRef(Claim[id]) => Verdict(c, TRUE, id) # "SOURCE_VERIFIED"

(* A collection that calls itself complete has everything: each file as it *)
(* is in the pinned commit, an answer for each workflow, and the ref's     *)
(* last word.                                                              *)
CompleteIsComplete ==
  \A c \in JustReturned : c.status # "PARTIAL" =>
    /\ DOMAIN c.observations = FileIds \cup DOMAIN WorkflowChecks \cup {RefStability}
    /\ \A i \in DOMAIN FileChecks :
         c.observations[FileChecks[i].id].status = FileStatus(FileChecks[i], c.pinned)
    /\ \A id \in DOMAIN WorkflowChecks : c.observations[id].status # "ERROR"
    /\ c.status = "PINNED_COMPLETE" <=> c.closing = c.pinned
=============================================================================
