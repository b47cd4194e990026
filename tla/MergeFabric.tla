---------------------------- MODULE MergeFabric ----------------------------
(***************************************************************************)
(* Merge commit and rollback: src/src/merge.js behind the public gate of   *)
(* src/src/merge-gate.js.  The library is stateless; the state machine is  *)
(* a host that holds the canonical state and its stateRef, plans from      *)
(* candidates, commits, rolls back, and also changes its state by other    *)
(* means.  A call that throws changes nothing and is a stuttering step.    *)
(* Plans and rollback tokens are passed on unmodified, so the identity     *)
(* checks of the gate hold and are left out.                               *)
(***************************************************************************)
EXTENDS MergePlan

CONSTANTS
  Proposal,     \* bound: Proposal[n] is what the n-th plan may be made from,
                \* sets of candidates as functions from ids to candidates
  Body,         \* bound: states the host writes by itself, or first plans on
  Label,        \* stateRefs that callers name
  Requirements, \* what the host demands of a candidate
  MaxTokens     \* bound on the rollback tokens it holds, and on undo

VARIABLES
  body,    \* the host's canonical state
  ref,     \* the stateRef it goes by
  plans,   \* merge plans that were made
  tokens,  \* rollback tokens that commits returned
  undo     \* history, oldest first: the commits in effect since the host's
           \* last own write, each with its token and what it was made on

mergeVars == <<body, ref, plans, tokens, undo>>

Labelled(l) == <<"label", l>>
ContentRef(v) == <<"sha256", v>>

ASSUME MergeAssumption ==
  /\ Body \subseteq JsonState /\ MaxTokens \in Nat
  /\ Len(Proposal) \in Nat /\ DOMAIN Proposal = 1..Len(Proposal)
  /\ \A n \in DOMAIN Proposal : \A cands \in Proposal[n] :
       /\ IsFiniteSet(DOMAIN cands)
       /\ \A i \in DOMAIN cands :
            IsFiniteSet(cands[i].changes) /\ \A c \in cands[i].changes : IsChange(c)
-----------------------------------------------------------------------------
(* Any JSON state, by a first name; HostWrites gives it others.            *)
MergeInit ==
  /\ body \in JsonState
  /\ ref = Labelled(CHOOSE l \in Label : TRUE)
  /\ plans = {} /\ tokens = {} /\ undo = <<>>

(* The host plans for the stateRef it goes by; bound: its first plan on    *)
(* one of the states in Body.                                              *)
CreateMergePlan ==
  /\ plans # {} \/ body \in Body
  /\ Cardinality(plans) < Len(Proposal)
  /\ \E cands \in Proposal[Cardinality(plans) + 1], policy \in ConflictPolicy :
       plans' = plans \cup {MergePlan(ref, cands, Requirements, policy)}
  /\ UNCHANGED <<body, ref, tokens, undo>>

Token(plan, sourceRef, before, resultRef, after) ==
  [plan |-> plan, sourceRef |-> sourceRef, snapshot |-> before,
   resultRef |-> resultRef, result |-> after]

(* Mutant of CommitMerge: the snapshot is taken of the state worked on.    *)
CommitMergeAliased(plan) ==
  /\ ref = plan.stateRef /\ plan.commitAllowed
  /\ \E after \in Committed(body, plan),
        named \in {Labelled(l) : l \in Label} \cup {ContentRef(w) : w \in Committed(body, plan)} :
       LET token == Token(plan, ref, after, named, after)
       IN  /\ tokens' = tokens \cup {token}
           /\ undo' = Append(undo, [token |-> token, body |-> body, ref |-> ref])
           /\ Cardinality(tokens') <= MaxTokens /\ Len(undo') <= MaxTokens
           /\ body' = after /\ ref' = named
           /\ UNCHANGED plans

(* commitMerge, whose result the host adopts.  It looks at the stateRef    *)
(* and at the operations' preconditions, not at the content as such; the   *)
(* caller names the resulting stateRef or leaves it to the content hash.   *)
CommitMerge(plan) ==
  /\ ref = plan.stateRef /\ plan.commitAllowed
  /\ \E after \in Committed(body, plan),
        named \in {Labelled(l) : l \in Label} \cup {ContentRef(w) : w \in Committed(body, plan)} :
       LET token == Token(plan, ref, body, named, after)
       IN  /\ tokens' = tokens \cup {token}
           /\ undo' = Append(undo, [token |-> token, body |-> body, ref |-> ref])
           /\ Cardinality(tokens') <= MaxTokens /\ Len(undo') <= MaxTokens
           /\ body' = after /\ ref' = named
           /\ UNCHANGED plans

(* The commits that remain once token is rolled back.                      *)
UndoneTo(token) ==
  LET at == {i \in DOMAIN undo : undo[i].token = token}
  IN  IF at = {} THEN <<>> ELSE SubSeq(undo, 1, (CHOOSE i \in at : \A j \in at : j <= i) - 1)

(* rollbackMerge, whose result the host adopts.                            *)
RollbackMerge(token) ==
  /\ ref = token.resultRef /\ body = token.result
  /\ body' = token.snapshot /\ ref' = token.sourceRef
  /\ undo' = UndoneTo(token)
  /\ UNCHANGED <<plans, tokens>>

(* The host writes its state by other means, and may keep its stateRef.    *)
HostWrites ==
  /\ \E new \in Body, l \in Label :
       /\ body' = new
       /\ ref' \in {ref, Labelled(l)}
  /\ undo' = <<>>
  /\ UNCHANGED <<plans, tokens>>

MergeNext ==
  \/ CreateMergePlan \/ HostWrites
  \/ \E plan \in plans : CommitMerge(plan)
  \/ \E token \in tokens : RollbackMerge(token)

MergeSpec == MergeInit /\ [][MergeNext]_mergeVars
-----------------------------------------------------------------------------
(* A plan means one thing: whatever state it meets, by then perhaps not    *)
(* the one it was made for, all orders of its operations are refused or    *)
(* all produce the same state.                                             *)
OrderIrrelevant ==
  \A plan \in plans : \A order \in SetToSeqs(plan.operations) :
    Outcome(body, order) = Committed(body, plan)

(* Commits can be undone one by one, in reverse order, back to the state   *)
(* and the stateRef the host started from, with nothing but the tokens.    *)
UnwindsToStart ==
  \A i \in DOMAIN undo :
    /\ undo[i].token.snapshot = undo[i].body /\ undo[i].token.sourceRef = undo[i].ref
    /\ undo[i].token.result = IF i = Len(undo) THEN body ELSE undo[i + 1].body
    /\ undo[i].token.resultRef = IF i = Len(undo) THEN ref ELSE undo[i + 1].ref

InEffect(v, c) ==
  IF c.op = "delete" THEN c.path \notin DOMAIN v
  ELSE c.path \in DOMAIN v /\ \A w \in c.value : At(v, c.path) = w

SameAt(v, w, p) == (p \in DOMAIN v <=> p \in DOMAIN w) /\ At(v, p) = At(w, p)

CommittedNow == tokens' \ tokens

LandsWhole(token) ==
  LET winners == Accepted(token.plan.decisions)
      written == UNION {token.plan.candidates[i].changes : i \in winners}
  IN  /\ \A c \in written : InEffect(body', c)
      /\ \A p \in DOMAIN body \cup DOMAIN body' :
           (\A c \in written : ~Overlap(c.path, p)) => SameAt(body, body', p)

LeavesDisputed(token) ==
  \A k \in token.plan.conflicts :
    SameAt(body, body', k.a.path) /\ SameAt(body, body', k.b.path)

(* A commit puts every change of every accepted candidate into effect and  *)
(* touches nothing beside the paths they name: no accepted win is undone   *)
(* by another operation of the same plan.  What eligible candidates        *)
(* dispute stays as it was, also when the policy merges the rest.          *)
CommitsAsDecided ==
  [][\A token \in CommittedNow : LandsWhole(token) /\ LeavesDisputed(token)]_mergeVars
-----------------------------------------------------------------------------
(* A diff looks at a source and at what the work made of its clone, and at *)
(* no plan or token: bound to the states before the first plan, where the  *)
(* body is any JSON state, and so is what became of the clone.             *)
Untouched == plans = {} /\ tokens = {}

(* The diff of a clone, applied to its source in any order, is accepted    *)
(* and produces the clone; in particular the integration candidate carries *)
(* the integrated content and nothing else to the protected body.          *)
DiffCarriesTheClone ==
  Untouched => \A working \in JsonState :
    \A order \in SetToSeqs(Diff(body, working)) : Outcome(body, order) = {working}

(* The preconditions of a diff bind what it replaces: on any other state   *)
(* the diff is refused, or finds at each of its paths what the source had. *)
DiffSeesItsSource ==
  Untouched => \A working \in JsonState :
    LET changes == Diff(body, working)
        operations == SetToSeq(changes)
    IN  \A other \in JsonState : Outcome(other, operations) # {} =>
          \A c \in changes : SameAt(other, body, c.path)
=============================================================================
