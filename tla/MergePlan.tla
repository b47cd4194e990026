------------------------------ MODULE MergePlan ------------------------------
(***************************************************************************)
(* Merge planning of src/src/merge.js: which candidates pass, which of     *)
(* them dispute a path, what a plan would do to a state.  Nothing here has *)
(* state.  A candidate is a record of its stateRef, its status, whether it *)
(* reported failures, carries the merge authority and evidence, how its    *)
(* tests went, whether the custom predicates pass (vouched), and its set   *)
(* of changes.                                                             *)
(***************************************************************************)
EXTENDS JsonDocs

NoStatus == "no status"
ConflictPolicy == {"hold-run", "merge-nonconflicting"}
DefaultStatuses == {"COMPLETED", "SELECTED", "MEASURED", "VALID_IN_HARNESS",
                    "SOURCE_SUPPORTED"}
DefaultRequirements ==
  [authority |-> TRUE, evidence |-> TRUE, tests |-> TRUE, statuses |-> DefaultStatuses]
-----------------------------------------------------------------------------
(* evaluateCandidate: the built-in predicates, then the custom ones, whose *)
(* joint answer is c.vouched.                                              *)
Passes(c, forRef, req) ==
  /\ c.stateRef = forRef
  /\ c.status \in req.statuses \cup {NoStatus}
  /\ ~c.failed
  /\ req.authority => c.authorised
  /\ req.evidence => c.evidenced
  /\ req.tests => c.tests = "passed"
  /\ c.changes # {}
  /\ c.vouched

Eligible(cands, forRef, req) ==
  {i \in DOMAIN cands : Passes(cands[i], forRef, req)}

(* Mutant of Clash: identical paths clash, overlapping ones do not.        *)
ClashSamePath(x, y) == x.path = y.path /\ x # y

Clash(x, y) == Overlap(x.path, y.path) /\ x # y

(* detectMergeConflicts among the candidates of E, within one included.    *)
Conflicts(cands, E) ==
  {k \in [left : E, right : E, a : UNION {cands[i].changes : i \in E},
                               b : UNION {cands[i].changes : i \in E}] :
     /\ k.a \in cands[k.left].changes /\ k.b \in cands[k.right].changes
     /\ Clash(k.a, k.b)}

(* Mutant of Decisions: of those that clash, the ones that set are let in. *)
DecisionsKeepOne(cands, E, conflicts) ==
  [i \in DOMAIN cands |->
     IF i \notin E THEN "REJECTED_PREDICATE"
     ELSE IF \E k \in conflicts : k.left = i /\ k.a.op = "delete" THEN "HELD_CONFLICT"
     ELSE "ACCEPTED"]

Decisions(cands, E, conflicts) ==
  [i \in DOMAIN cands |->
     IF i \notin E THEN "REJECTED_PREDICATE"
     ELSE IF \E k \in conflicts : i \in {k.left, k.right} THEN "HELD_CONFLICT"
     ELSE "ACCEPTED"]

Accepted(decisions) == {i \in DOMAIN decisions : decisions[i] = "ACCEPTED"}

PlanStatus(operations, hasConflicts, policy, decisions) ==
  IF operations = {} THEN IF hasConflicts THEN "HOLD_CONFLICTS" ELSE "NO_ELIGIBLE_CANDIDATES"
  ELSE IF hasConflicts /\ policy = "hold-run" THEN "HOLD_CONFLICTS"
  ELSE IF hasConflicts THEN "PARTIAL_READY"
  ELSE IF \E i \in DOMAIN decisions : decisions[i] = "REJECTED_PREDICATE"
    THEN "READY_WITH_REJECTIONS"
  ELSE "READY"

CommitAllowed(operations, hasConflicts, policy) ==
  operations # {} /\ (~hasConflicts \/ policy = "merge-nonconflicting")

(* createMergePlan.  Equal changes coalesce in the set of operations; the  *)
(* candidates are kept beside the plan for the properties.                 *)
MergePlan(forRef, cands, req, policy) ==
  LET E == Eligible(cands, forRef, req)
      conflicts == Conflicts(cands, E)
      decisions == Decisions(cands, E, conflicts)
      operations == UNION {cands[i].changes : i \in Accepted(decisions)}
  IN  [stateRef |-> forRef, policy |-> policy, decisions |-> decisions,
       operations |-> operations, conflicts |-> conflicts, candidates |-> cands,
       commitAllowed |-> CommitAllowed(operations, conflicts # {}, policy),
       status |-> PlanStatus(operations, conflicts # {}, policy, decisions)]

(* The operations are applied in the order of their text; OrderIrrelevant  *)
(* below is why any order will do here.                                    *)
Committed(v, plan) == Outcome(v, SetToSeq(plan.operations))
==============================================================================
