--------------------------- MODULE ExternalSource ---------------------------
(***************************************************************************)
(* The truth gate of src/src/external-source.js: claims about a foreign    *)
(* capability, decided from observations of its source.  Observations are  *)
(* functions from observation ids, a claim has a set of requirements, and  *)
(* the statuses, bases and refs are those the caller supplies.             *)
(***************************************************************************)
EXTENDS FiniteSets, SequencesExt

DefaultBases == {"OBSERVED_SOURCE", "EXECUTION_EVIDENCE"}
DefaultRejects == {"MISMATCH", "CONTRADICTED"}

(* normalizeClaimRequirement with the defaults of its bases.               *)
Requirement(id, accepted, rejects) ==
  [observationId |-> id, acceptedStatuses |-> accepted,
   acceptedBases |-> DefaultBases, rejectStatuses |-> rejects]

(* What becomes of one requirement in evaluateClaim. *)
Missing(q, observations) == q.observationId \notin DOMAIN observations

Contradicted(q, observations) ==
  ~Missing(q, observations) /\ observations[q.observationId].status \in q.rejectStatuses

Passed(q, observations) ==
  /\ ~Missing(q, observations) /\ ~Contradicted(q, observations)
  /\ observations[q.observationId].status \in q.acceptedStatuses
  /\ observations[q.observationId].basis \in q.acceptedBases

(* Mutant of ClaimStatus: what is not there does not count.                *)
ClaimStatusLenient(claim, observations) ==
  IF \E q \in claim.requirements : Contradicted(q, observations) THEN "SOURCE_CONTRADICTED"
  ELSE IF \A q \in claim.requirements :
            \/ Passed(q, observations)
            \/ observations[q.observationId].status = "ERROR"
         THEN "SOURCE_VERIFIED" ELSE "HOLD_SOURCE_INCOMPLETE"

ClaimStatus(claim, observations) ==
  IF \E q \in claim.requirements : Contradicted(q, observations) THEN "SOURCE_CONTRADICTED"
  ELSE IF \A q \in claim.requirements : Passed(q, observations)
         THEN "SOURCE_VERIFIED" ELSE "HOLD_SOURCE_INCOMPLETE"

(* What a claim keeps of an observation: not its details.                  *)
Evidence(o) == [status |-> o.status, basis |-> o.basis, evidenceRef |-> o.evidenceRef]

(* evaluateClaim: the verdict with what passed and what blocked it.        *)
EvaluateClaim(claim, observations) ==
  [capabilityId |-> claim.capabilityId,
   status |-> ClaimStatus(claim, observations),
   requirements |-> claim.requirements,
   passedEvidence |-> {<<q.observationId, Evidence(observations[q.observationId])>> :
                         q \in {p \in claim.requirements : Passed(p, observations)}},
   blockers |-> {<<q.observationId,
                   IF Missing(q, observations) THEN "MISSING_OBSERVATION"
                   ELSE observations[q.observationId].status>> :
                   q \in {p \in claim.requirements : ~Passed(p, observations)}}]

(* createExternalSourceReceipt: every claim, by its id, and the source.    *)
SourceReceipt(headSha, observations, claims) ==
  [headSha |-> headSha, observations |-> observations,
   claims |-> [id \in DOMAIN claims |-> EvaluateClaim(claims[id], observations)]]

(* createVerifiedExternalCapabilityManifest: the manifests, one or none,   *)
(* that a receipt lets a claim turn into.  It names the receipt and the    *)
(* evidence, and inherits the head that the receipt is about.              *)
VerifiedManifest(receipt, claimId, id) ==
  {[id |-> id, headSha |-> receipt.headSha, claimId |-> c,
    evidenceRefs |-> receipt.claims[c].passedEvidence] :
     c \in {x \in {claimId} \cap DOMAIN receipt.claims :
              /\ receipt.claims[x].status = "SOURCE_VERIFIED"
              /\ receipt.claims[x].capabilityId = id}}
=============================================================================
