--------------------------- MODULE EvidenceRefresh ---------------------------
(***************************************************************************)
(* src/src/evidence-refresh.js: the receipt that compares two collections  *)
(* of one ref and the verdicts that the same claims get from each.         *)
(***************************************************************************)
EXTENDS GitHubEvidence

(* The change that compareObservations and compareClaims report for an id  *)
(* of two tables.                                                          *)
ChangeOf(before, after, id) ==
  IF id \notin DOMAIN before THEN "ADDED"
  ELSE IF id \notin DOMAIN after THEN "REMOVED"
  ELSE IF before[id] = after[id] THEN "UNCHANGED" ELSE "CHANGED"

(* Mutant of ObservationChanges: only the evidence refs are compared.      *)
ObservationChangesByRef(before, after) ==
  [id \in DOMAIN before \cup DOMAIN after |->
     ChangeOf([x \in DOMAIN before |-> before[x].evidenceRef],
              [x \in DOMAIN after |-> after[x].evidenceRef], id)]

ObservationChanges(before, after) ==
  [id \in DOMAIN before \cup DOMAIN after |-> ChangeOf(before, after, id)]

ClaimChanges(before, after) ==
  [id \in DOMAIN before \cup DOMAIN after |-> ChangeOf(before, after, id)]

(* summarizeTransitions: verdicts gained and lost.                         *)
Summary(was, is) ==
  LET Became(status) == {id \in DOMAIN Claim : was[id].status # status /\ is[id].status = status}
      Ceased(status) == {id \in DOMAIN Claim : was[id].status = status /\ is[id].status # status}
  IN  [verifiedPromotions |-> Became("SOURCE_VERIFIED"),
       verifiedDemotions |-> Ceased("SOURCE_VERIFIED"),
       contradictionsIntroduced |-> Became("SOURCE_CONTRADICTED"),
       contradictionsCleared |-> Ceased("SOURCE_CONTRADICTED")]

(* createEvidenceRefreshReceipt; the caller says which one is the previous *)
(* collection.                                                             *)
RefreshReceipt(previous, next, requireStableRef) ==
  LET was == ReceiptOf(previous, requireStableRef).claims
      is == ReceiptOf(next, requireStableRef).claims
  IN  [headChanged |-> previous.pinned # next.pinned,
       observationTransitions |-> ObservationChanges(previous.observations, next.observations),
       claimTransitions |-> ClaimChanges(was, is),
       summary |-> Summary(was, is)]
-----------------------------------------------------------------------------
(* No verdict drifts unexplained: a claim whose verdict a refresh reports  *)
(* as gained or lost requires an observation that it reports as changed,   *)
(* and one of the two ends pins another commit, was cut short, saw the ref *)
(* elsewhere or saw other workflow runs.                                   *)
DriftExplained ==
  \A c \in JustReturned : \A i \in 1..(Len(collections) - 1) : \A strict \in BOOLEAN :
    LET before == collections[i]
        r == RefreshReceipt(before, c, strict)
        s == r.summary
        drifted == s.verifiedPromotions \cup s.verifiedDemotions
                   \cup s.contradictionsIntroduced \cup s.contradictionsCleared
    IN  \A id \in drifted :
          LET claim == IF strict THEN WithRefStability(Claim[id]) ELSE Claim[id]
              moved == {q.observationId : q \in {p \in claim.requirements :
                          r.observationTransitions[p.observationId] # "UNCHANGED"}}
          IN  /\ r.claimTransitions[id] # "UNCHANGED"
              /\ moved # {}
              /\ \/ r.headChanged
                 \/ "PARTIAL" \in {before.status, c.status}
                 \/ moved \cap ({RefStability} \cup DOMAIN WorkflowChecks) # {}
=============================================================================
