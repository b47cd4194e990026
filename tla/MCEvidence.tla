------------------------------ MODULE MCEvidence ------------------------------
(***************************************************************************)
(* Instances for the evidence modules: three commits of which one lacks a  *)
(* file and one has another blob in its place, two file checks, a workflow *)
(* checked at the pinned head and in the history of the ref.               *)
(***************************************************************************)
EXTENDS EvidenceRefresh

MCCommit == {"empty", "old", "new"}
MCBlobs ==
  "empty" :> ("source" :> {}) @@
  "old" :> ("source" :> {"b1"}) @@
  "new" :> ("source" :> {"b2"})

MCFileChecks ==
  <<[id |-> "file", path |-> "source", expectedBlobSha |-> {}],
    [id |-> "file.exact", path |-> "source", expectedBlobSha |-> {"b2"}]>>

MCWorkflowChecks ==
  "run" :> [workflow |-> "test", headPolicy |-> "PINNED_HEAD"] @@
  "run.history" :> [workflow |-> "test", headPolicy |-> "REF_HISTORY"]

ClaimOf(id, requirements) == [capabilityId |-> id, requirements |-> requirements]

(* Claims as the tests make them, and one that sets its own terms for the  *)
(* ref.                                                                    *)
MCClaim ==
  "tested" :> ClaimOf("scanner",
     {Requirement("file.exact", {"PRESENT"}, DefaultRejects),
      Requirement("run", {"SUCCESS"}, {"FAILURE"})}) @@
  "staged" :> ClaimOf("observer",
     {Requirement("file", {"ABSENT"}, {"PRESENT"}),
      Requirement("run.history", {"FAILURE"}, DefaultRejects)}) @@
  "historical" :> ClaimOf("scanner",
     {Requirement("file", {"PRESENT"}, DefaultRejects),
      Requirement(RefStability, {"STABLE", "MOVED"}, DefaultRejects)})
=============================================================================
