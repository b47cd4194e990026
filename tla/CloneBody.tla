------------------------------ MODULE CloneBody ------------------------------
(***************************************************************************)
(* Clone candidates, their integration and the plan for the protected body *)
(* (src/src/clone-body.js, src/src/body-commit.js).  Nothing here has      *)
(* state.  A hash of a state is the state itself; a result that may be     *)
(* refused is a set with at most one element.                              *)
(***************************************************************************)
EXTENDS MergePlan

(* What a work function and the tests after it make of a clone: its final  *)
(* content, whether failures were reported or thrown, how the tests went   *)
(* ("none" when there are none), whether the caller granted the authority, *)
(* whether the caller or the work cited evidence, and whether what the     *)
(* work returned for contradictions, which nobody looks at, is a list.     *)
Worked(after, failed, tests, authorised, evidenced, listed) ==
  [after |-> after, failed |-> failed, tests |-> tests,
   authorised |-> authorised, evidenced |-> evidenced, listed |-> listed]

CloneStatus(o) ==
  IF o.failed THEN "FAILED" ELSE IF o.tests = "failed" THEN "TEST_FAIL" ELSE "COMPLETED"

(* runCloneCandidate: also a failed candidate carries its diff.            *)
CloneCandidate(source, forRef, o, status) ==
  [stateRef |-> forRef, status |-> status, failed |-> o.failed,
   authorised |-> o.authorised, evidenced |-> o.evidenced, tests |-> o.tests,
   vouched |-> TRUE, changes |-> Diff(source, o.after),
   source |-> source, after |-> o.after, listed |-> o.listed]

(* Mutant of Vouched: no custom predicate.                                 *)
VouchedAll(cands, v) == cands

(* The custom predicates clone-source-state-hash and body-source-state-    *)
(* hash: the candidate was derived from this very content.                 *)
Vouched(cands, v) ==
  [i \in DOMAIN cands |-> [cands[i] EXCEPT !.vouched = cands[i].source = v]]

IntegrationStatus(tests) ==
  IF tests = "failed" THEN "TEST_FAIL" ELSE "VALID_IN_HARNESS"

IntegrationPlan(source, forRef, cands, req, policy) ==
  MergePlan(forRef, Vouched(cands, source), req, policy)

(* buildIntegrationClone: held, or merged into a copy, tested, and made a  *)
(* candidate of its own, which always cites its merge plan as evidence and *)
(* lists the plan's unresolved matters.                                    *)
Integration(source, forRef, cands, req, policy, tests, authorised) ==
  LET plan == IntegrationPlan(source, forRef, cands, req, policy)
  IN  IF ~plan.commitAllowed
        THEN {[status |-> "HELD_MERGE_PLAN", candidate |-> {}]}
        ELSE {[status |-> IntegrationStatus(tests),
               candidate |-> {CloneCandidate(source, forRef,
                                Worked(merged, FALSE, tests, authorised, TRUE, TRUE),
                                IntegrationStatus(tests))}] :
                merged \in Committed(source, plan)}

(* createBodyCommitPlan for the one integration candidate.                 *)
BodyPlan(v, forRef, cand, req, policy) ==
  [sourceRef |-> forRef, source |-> v,
   mergePlan |-> MergePlan(forRef, Vouched(<<cand>>, v), req, policy)]

(* Mutant of BodyBinds: the label is compared, the content is not.         *)
BodyBindsLabel(v, currentRef, plan) ==
  currentRef = plan.sourceRef /\ plan.mergePlan.stateRef = plan.sourceRef

(* commitBodyPlan's own bindings, on top of those of commitMerge.          *)
BodyBinds(v, currentRef, plan) ==
  /\ currentRef = plan.sourceRef /\ plan.mergePlan.stateRef = plan.sourceRef
  /\ v = plan.source

CommitBodyPlan(v, currentRef, plan) ==
  {w \in Committed(v, plan.mergePlan) :
     /\ BodyBinds(v, currentRef, plan)
     /\ currentRef = plan.mergePlan.stateRef /\ plan.mergePlan.commitAllowed}
==============================================================================
