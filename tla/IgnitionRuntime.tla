--------------------------- MODULE IgnitionRuntime ---------------------------
(***************************************************************************)
(* The adapter of src/src/ignition-runtime.js over the registry: it binds  *)
(* a set of executors whose work runs through the Ignition provider, and   *)
(* attests what the provider reports for one lane.  The provider is not    *)
(* part of this repository: it may report any run, whatever it did, and    *)
(* nothing here says that a report is true.  The lane is what              *)
(* src/src/clone-body.js makes of the work: a clone that the work writes,  *)
(* tests that are awaited, then the candidate.                             *)
(***************************************************************************)
EXTENDS Registry

CONSTANTS
  IgnitionSet, \* sets of bindings, from executorRefs to Ignition capability ids
  Lane,        \* bound: lanes that run wrapped work, each once
  Content,     \* of a clone and of what its work returned, evidence refs aside
  Ref          \* evidence refs that work returns

(* createWrappedWork: a new function for every executor of the set, which  *)
(* offers the provider the whole set.                                      *)
WrappedWork(set, ref) == [set |-> set, executorRef |-> ref]

(* normalizeBindings: no executorRef twice, no capability id twice.  What  *)
(* hosts bind themselves are functions of their own.                       *)
ASSUME IgnitionAssumption ==
  \A set \in IgnitionSet :
    /\ DOMAIN set # {} /\ \A a, b \in DOMAIN set : set[a] = set[b] => a = b
    /\ \A ref \in DOMAIN set, function \in Function : function # WrappedWork(set, ref)

VARIABLES
  lane,      \* where each lane stands
  clone,     \* its clone and the object that its work returned: what is
             \* hashed of both, and the evidence refs of the object
  evidence,  \* the execution receipt in that object's metadata, if any
  returned   \* history: what the provider had reported for a lane, and what
             \* its clone and object were, once the wrapped work returned

laneVars == <<lane, clone, evidence, returned>>
ignitionVars == <<registryVars, laneVars>>

Blank == [content |-> CHOOSE c \in Content : TRUE, refs |-> {}]

IgnitionInit ==
  /\ RegistryInit
  /\ lane = [l \in Lane |-> [phase |-> "idle"]]
  /\ clone = [l \in Lane |-> Blank]
  /\ evidence = [l \in Lane |-> {}]
  /\ returned = [l \in Lane |-> {}]
-----------------------------------------------------------------------------
IsWrapped(work) == \E set \in IgnitionSet : \E ref \in DOMAIN set : work = WrappedWork(set, ref)

Ignited(set, ref) == [function |-> WrappedWork(set, ref), bindingRef |-> "ignition"]

(* The executors with those of a set that are not bound yet.               *)
WithIgnited(set) ==
  [ref \in DOMAIN executors \cup DOMAIN set |->
     IF ref \in DOMAIN executors THEN executors[ref] ELSE Ignited(set, ref)]

(* Mutant of BindIgnitionExecutorSet: what is bound is skipped.            *)
BindIgnitionSkipping(set) ==
  /\ executors' = WithIgnited(set)
  /\ UNCHANGED <<capabilities, bodyMaps, tests, held, laneVars>>

(* bindIgnitionExecutorSet with a provider that it accepts.  Otherwise, or *)
(* if one of the refs is bound, it answers HOLD and changes nothing.       *)
BindIgnitionExecutorSet(set) ==
  /\ DOMAIN set \cap DOMAIN executors = {}
  /\ executors' = WithIgnited(set)
  /\ UNCHANGED <<capabilities, bodyMaps, tests, held, laneVars>>

(* A lane runs the work of a capability that some resolution handed out.   *)
StartLane(l) ==
  /\ lane[l].phase = "idle"
  /\ \E r \in held : \E id \in DOMAIN r.capabilities :
       /\ IsWrapped(r.capabilities[id].work)
       /\ lane' = [lane EXCEPT ![l] = [phase |-> "running", work |-> r.capabilities[id].work]]
  /\ UNCHANGED <<registryVars, clone, evidence, returned>>

Selected(l) == lane[l].work.set[lane[l].work.executorRef]

(* validateProviderRun, for the four lists of the receipt taken together.  *)
RunAccepted(l, reported) == reported = {Selected(l)}

(* createExecutionEvidence: the hashes and refs of what it finds.          *)
Execution(l, reported) ==
  [request |-> l, executorRef |-> lane[l].work.executorRef, capabilityId |-> Selected(l),
   executed |-> reported, content |-> clone[l].content, refs |-> clone[l].refs]

(* The provider ends its run of the lane's work.  The adapter goes on when *)
(* what it awaits is there.                                                *)
ProviderEnds(l) ==
  /\ lane[l].phase = "running"
  /\ \E reported \in SUBSET Range(lane[l].work.set), content \in Content, refs \in SUBSET Ref :
       /\ lane' = [lane EXCEPT ![l] = [phase |-> "ended", work |-> lane[l].work, reported |-> reported]]
       /\ clone' = [clone EXCEPT ![l] = [content |-> content, refs |-> refs]]
  /\ UNCHANGED <<registryVars, evidence, returned>>

(* The wrapped work goes on to its return, with nothing awaited on the way.*)
WorkReturns(l) ==
  /\ lane[l].phase = "ended" /\ RunAccepted(l, lane[l].reported)
  /\ evidence' = [evidence EXCEPT ![l] = {Execution(l, lane[l].reported)}]
  /\ returned' = [returned EXCEPT ![l] = {[reported |-> lane[l].reported, holds |-> clone[l]]}]
  /\ lane' = [lane EXCEPT ![l] = [phase |-> "returned", work |-> lane[l].work]]
  /\ UNCHANGED <<registryVars, clone>>

(* The provider or the work throws, the run is not the one asked for, or   *)
(* the work uses the reserved metadata key: no evidence, a failed lane.    *)
WorkThrows(l) ==
  /\ lane[l].phase \in {"running", "ended"}
  /\ lane' = [lane EXCEPT ![l] = [phase |-> "failed", work |-> lane[l].work]]
  /\ UNCHANGED <<registryVars, clone, evidence, returned>>

(* Work that was not awaited goes on writing the clone and the object,     *)
(* and so may the tests of the lane, which are shown both.                 *)
Straggle(l) ==
  /\ lane[l].phase \in {"ended", "returned"}
  /\ \E content \in Content, refs \in SUBSET Ref :
       clone' = [clone EXCEPT ![l] = [content |-> content, refs |-> refs]]
  /\ UNCHANGED <<registryVars, lane, evidence, returned>>

(* The metadata is in that object too: the receipt may be taken out, or    *)
(* another lane's put in its place.                                        *)
ReplaceEvidence(l) ==
  /\ lane[l].phase = "returned"
  /\ \E receipts \in {{}} \cup Range(evidence) : evidence' = [evidence EXCEPT ![l] = receipts]
  /\ UNCHANGED <<registryVars, lane, clone, returned>>

(* createCloneCandidate copies clone and object into the candidate.        *)
MakeCandidate(l) ==
  /\ lane[l].phase = "returned"
  /\ lane' = [lane EXCEPT ![l] = [phase |-> "candidate", work |-> lane[l].work]]
  /\ UNCHANGED <<registryVars, clone, evidence, returned>>

IgnitionNext ==
  \/ RegistryNext /\ UNCHANGED laneVars
  \/ \E set \in IgnitionSet : BindIgnitionExecutorSet(set)
  \/ \E l \in Lane : \/ StartLane(l) \/ ProviderEnds(l) \/ WorkReturns(l) \/ WorkThrows(l)
                     \/ Straggle(l) \/ ReplaceEvidence(l) \/ MakeCandidate(l)

IgnitionSpec == IgnitionInit /\ [][IgnitionNext]_ignitionVars
-----------------------------------------------------------------------------
(* Mutant of MatchesCandidate: the hashes are not compared.                *)
MatchesUnhashed(e, l) == evidence[l] = {e} /\ e.request = l /\ e.refs \subseteq clone[l].refs

(* verifyExecutionCandidate: the receipt is the one embedded in the lane's *)
(* candidate, names the lane, has the hashes of what is in there, and the  *)
(* refs it knows are among the candidate's.  The ref of the receipt itself *)
(* has to be there too, which is left out: less than here verifies.        *)
MatchesCandidate(e, l) ==
  /\ evidence[l] = {e} /\ e.request = l
  /\ clone[l].content = e.content /\ e.refs \subseteq clone[l].refs

(* verifyIgnitionExecutionEvidence of a receipt with a lane's candidate.   *)
Verifies(e, l) == e.executed = {e.capabilityId} /\ MatchesCandidate(e, l)

(* The adapter binds a set whole or not at all, and nobody takes a part of *)
(* it away: where one executor of a set runs through Ignition, all do.     *)
IgnitionSetWhole ==
  \A set \in IgnitionSet :
    \A ref \in DOMAIN set \cap DOMAIN executors :
      executors[ref].function = WrappedWork(set, ref) =>
        \A other \in DOMAIN set :
          other \in DOMAIN executors /\ executors[other].function = WrappedWork(set, other)

(* What evidence that verifies tells, whichever receipt and candidate a    *)
(* reader puts together and whatever stragglers did: this lane's wrapped   *)
(* work returned, the provider had reported the selected capability and no *)
(* other, and what is hashed of the candidate is what it was at that       *)
(* return.  Of evidence refs only that none was lost since.  Nothing is    *)
(* said of what the provider really ran, nor of the time before.           *)
VerifiedIsTheRun ==
  \A l, k \in {i \in Lane : lane[i].phase = "candidate"} :
    \A e \in evidence[k] : Verifies(e, l) =>
      \E was \in returned[l] : /\ was.reported = {Selected(l)}
                              /\ was.holds.content = clone[l].content
                              /\ was.holds.refs \subseteq clone[l].refs
=============================================================================
