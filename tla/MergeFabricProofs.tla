------------------------- MODULE MergeFabricProofs -------------------------
(***************************************************************************)
(* Proofs about MergeFabric: what its plans are, what its commits do, and  *)
(* what a diff carries, for every JSON state, proposal and host.           *)
(***************************************************************************)
EXTENDS MergeFabric, MergePlanProofs

(* A plan somebody made: its operations are normalized and lie apart from  *)
(* each other and from what is disputed.                                   *)
SoundPlan(plan) ==
  /\ ApartSet(plan.operations)
  /\ \A c \in plan.operations : IsChange(c)
  /\ plan.operations =
       UNION {plan.candidates[i].changes : i \in Accepted(plan.decisions)}
  /\ \A k \in plan.conflicts : \A d \in {k.a, k.b} :
       d.path \in Path /\ \A c \in plan.operations : Apart(c, d)

StatesAreDocs ==
  /\ Doc(body)
  /\ \A token \in tokens : Doc(token.snapshot)

PlansAreSound == IsFiniteSet(plans) /\ \A plan \in plans : SoundPlan(plan)

UndoIsAHistory == \E S : undo \in Seq(S)

(* Only a commit takes the host beyond the states of bounded depth. *)
CommitsLeaveTokens == tokens = {} => body \in JsonState

MergeInv ==
  /\ StatesAreDocs /\ PlansAreSound /\ UndoIsAHistory /\ CommitsLeaveTokens
  /\ UnwindsToStart

-----------------------------------------------------------------------------
(* What proposals are made of can be planned with. *)
LEMMA ProposalsFit ==
  ASSUME NEW n \in DOMAIN Proposal, NEW cands \in Proposal[n]
  PROVE  Proposed(cands) /\ \A i \in DOMAIN cands : \A c \in cands[i].changes : IsChange(c)
BY MergeAssumption, ChangeIsEdit DEF Proposed

(* A conflict is a clash of two changes of eligible candidates. *)
LEMMA ConflictMeans ==
  ASSUME NEW cands, NEW E, NEW k \in Conflicts(cands, E)
  PROVE  /\ k.left \in E /\ k.right \in E
         /\ k.a \in cands[k.left].changes /\ k.b \in cands[k.right].changes
         /\ Clash(k.a, k.b)
BY DEF Conflicts

LEMMA PlanIsSound ==
  ASSUME NEW forRef, NEW cands, Proposed(cands),
         \A i \in DOMAIN cands : \A c \in cands[i].changes : IsChange(c),
         NEW req, NEW policy
  PROVE  SoundPlan(MergePlan(forRef, cands, req, policy))
<1> DEFINE plan == MergePlan(forRef, cands, req, policy)
           E == Eligible(cands, forRef, req)
<1>1. /\ plan.candidates = cands /\ plan.conflicts = Conflicts(cands, E)
      /\ plan.operations = UNION {cands[i].changes : i \in Accepted(plan.decisions)}
  BY PlanFields
<1>2. ApartSet(plan.operations)
  BY PlanIsApart
<1>3. ASSUME NEW i \in Accepted(plan.decisions)
      PROVE  /\ i \in E /\ i \in DOMAIN cands
             /\ \A j \in E : \A c \in cands[i].changes, d \in cands[j].changes :
                  c # d => Apart(c, d)
  BY AcceptedMeans DEF Apart
<1>4. E \subseteq DOMAIN cands
  BY DEF Eligible
<1> HIDE DEF plan, E
<1>5. \A c \in plan.operations : IsChange(c)
  BY <1>1, <1>3
<1>6. ASSUME NEW k \in plan.conflicts, NEW d \in {k.a, k.b}
      PROVE  d.path \in Path /\ \A c \in plan.operations : Apart(c, d)
  <2>1. /\ k.left \in E /\ k.right \in E
        /\ k.a \in cands[k.left].changes /\ k.b \in cands[k.right].changes
        /\ Clash(k.a, k.b)
    BY <1>1, ConflictMeans
  <2>2. d.path \in Path
    BY <2>1, <1>4 DEF Proposed, IsEdit
  <2>3. ASSUME NEW c \in plan.operations
        PROVE  Apart(c, d)
    <3>1. PICK i \in Accepted(plan.decisions) : c \in cands[i].changes
      BY <1>1
    <3>2. (c # k.a => Apart(c, k.a)) /\ (c # k.b => Apart(c, k.b))
      BY <3>1, <2>1, <1>3
    <3>3. (c = k.a => c # k.b /\ ~Apart(c, k.b)) /\ (c = k.b => c # k.a /\ ~Apart(c, k.a))
      BY <2>1 DEF Clash, Apart, Overlap
    <3> QED
      BY <3>2, <3>3
  <2> QED
    BY <2>2, <2>3
<1> QED
  BY <1>1, <1>2, <1>5, <1>6 DEF SoundPlan, plan

(* What a sound plan makes of a document. *)
LEMMA CommittedMeans ==
  ASSUME NEW v, Doc(v), NEW plan, SoundPlan(plan), NEW w \in Committed(v, plan)
  PROVE  Results(v, plan.operations, w)
<1>1. ApartSet(plan.operations) /\ IsFiniteSet(plan.operations)
  BY DEF SoundPlan, ApartSet
<1>2. SetToSeq(plan.operations) \in SetToSeqs(plan.operations)
  BY <1>1, SomeOrder
<1> QED
  BY <1>1, <1>2, OutcomeOfSet DEF Committed
-----------------------------------------------------------------------------
(* Histories. *)
LEMMA Longer ==
  ASSUME NEW S, NEW s \in Seq(S), NEW e
  PROVE  /\ Append(s, e) \in Seq(S \cup {e})
         /\ Len(s) \in Nat /\ Len(Append(s, e)) = Len(s) + 1
         /\ DOMAIN s = 1..Len(s) /\ DOMAIN Append(s, e) = 1..(Len(s) + 1)
         /\ \A i \in 1..Len(s) : Append(s, e)[i] = s[i]
         /\ Append(s, e)[Len(s) + 1] = e
<1>1. s \in Seq(S \cup {e})
  OBVIOUS
<1> QED
  BY <1>1, AppendProperties, LenProperties

LEMMA CutBack ==
  ASSUME NEW S, NEW s \in Seq(S), NEW k \in DOMAIN s
  PROVE  LET t == SubSeq(s, 1, k - 1)
         IN  /\ t \in Seq(S) /\ Len(t) = k - 1 /\ DOMAIN t = 1..(k - 1)
             /\ \A i \in 1..(k - 1) : t[i] = s[i]
BY LenProperties, SubSeqProperties

(* Of the positions that satisfy a condition, the last. *)
LEMMA LastOf ==
  ASSUME NEW n \in Nat, NEW at \in SUBSET (1..n), at # {}
  PROVE  (CHOOSE i \in at : \A j \in at : j <= i) \in at
<1>1. PICK k \in {n - i : i \in at} : \A j \in {n - i : i \in at} : ~(j < k)
  <2>1. \A i \in at : n - i \in Nat
    OBVIOUS
  <2>2. {n - i : i \in at} \in SUBSET Nat /\ {n - i : i \in at} # {}
    BY <2>1
  <2> QED
    BY <2>2, LeastOf
<1>2. \E i \in at : \A j \in at : j <= i
  <2>1. PICK i \in at : k = n - i
    BY <1>1
  <2>2. ASSUME NEW j \in at
        PROVE  j <= i
    <3>1. ~(n - j < n - i)
      BY <1>1, <2>1
    <3> QED
      BY <3>1
  <2> QED
    BY <2>2
<1> QED
  BY <1>2

(* What an undo of a token leaves of the history. *)
LEMMA UndoneMeans ==
  ASSUME NEW S, undo \in Seq(S), NEW token
  PROVE  \/ UndoneTo(token) = <<>>
         \/ \E k \in DOMAIN undo :
              undo[k].token = token /\ UndoneTo(token) = SubSeq(undo, 1, k - 1)
<1> DEFINE at == {i \in DOMAIN undo : undo[i].token = token}
           k == CHOOSE i \in at : \A j \in at : j <= i
<1>1. CASE at = {}
  BY <1>1 DEF UndoneTo
<1>2. CASE at # {}
  <2>1. Len(undo) \in Nat /\ at \in SUBSET (1..Len(undo))
    BY LenProperties
  <2>2. k \in at
    <3> HIDE DEF at
    <3> QED
      BY <1>2, <2>1, LastOf
  <2>3. UndoneTo(token) = SubSeq(undo, 1, k - 1)
    BY <1>2 DEF UndoneTo
  <2> QED
    BY <2>2, <2>3
<1> QED
  BY <1>1, <1>2
-----------------------------------------------------------------------------
LEMMA MergeInvInit == MergeInit => MergeInv
<1> SUFFICES ASSUME MergeInit PROVE MergeInv
  OBVIOUS
<1>1. body \in JsonState /\ plans = {} /\ tokens = {} /\ undo = <<>>
  BY DEF MergeInit
<1>2. undo \in Seq({}) /\ DOMAIN undo = {}
  BY <1>1
<1> QED
  BY <1>1, <1>2, StateFacts, FS_EmptySet
  DEF MergeInv, StatesAreDocs, PlansAreSound, UndoIsAHistory, CommitsLeaveTokens,
      UnwindsToStart

LEMMA PlanStep == MergeInv /\ CreateMergePlan => MergeInv'
<1> SUFFICES ASSUME MergeInv, CreateMergePlan PROVE MergeInv'
  OBVIOUS
<1>1. UNCHANGED <<body, ref, tokens, undo>>
  BY DEF CreateMergePlan
<1>2. /\ StatesAreDocs' /\ UndoIsAHistory' /\ CommitsLeaveTokens' /\ UnwindsToStart'
  BY <1>1 DEF MergeInv, StatesAreDocs, UndoIsAHistory, CommitsLeaveTokens, UnwindsToStart
<1>3. PlansAreSound'
  <2>1. PICK cands \in Proposal[Cardinality(plans) + 1], policy \in ConflictPolicy :
          plans' = plans \cup {MergePlan(ref, cands, Requirements, policy)}
    BY DEF CreateMergePlan
  <2>2. Cardinality(plans) + 1 \in DOMAIN Proposal
    BY MergeAssumption, FS_CardinalityType DEF CreateMergePlan, MergeInv, PlansAreSound
  <2>3. SoundPlan(MergePlan(ref, cands, Requirements, policy))
    BY <2>2, ProposalsFit, PlanIsSound
  <2>4. IsFiniteSet(plans')
    BY <2>1, FS_AddElement DEF MergeInv, PlansAreSound
  <2> QED
    BY <2>1, <2>3, <2>4 DEF MergeInv, PlansAreSound
<1> QED
  BY <1>2, <1>3 DEF MergeInv

LEMMA WriteStep == MergeInv /\ HostWrites => MergeInv'
<1> SUFFICES ASSUME MergeInv, HostWrites PROVE MergeInv'
  OBVIOUS
<1>1. body' \in JsonState /\ undo' = <<>> /\ UNCHANGED <<plans, tokens>>
  BY MergeAssumption DEF HostWrites
<1>2. undo' \in Seq({}) /\ DOMAIN undo' = {}
  BY <1>1
<1>3. Doc(body')
  BY <1>1, StateFacts
<1> QED
  BY <1>1, <1>2, <1>3
  DEF MergeInv, StatesAreDocs, PlansAreSound, UndoIsAHistory, CommitsLeaveTokens,
      UnwindsToStart

(* What a commit does, whichever name its result goes by. *)
LEMMA CommitMeans ==
  ASSUME NEW plan, CommitMerge(plan)
  PROVE  \E token :
           /\ token.plan = plan /\ token.sourceRef = ref /\ token.snapshot = body
           /\ token.resultRef = ref' /\ token.result = body'
           /\ tokens' = tokens \cup {token}
           /\ undo' = Append(undo, [token |-> token, body |-> body, ref |-> ref])
           /\ body' \in Committed(body, plan)
           /\ UNCHANGED plans
<1>1. PICK after \in Committed(body, plan),
           named \in {Labelled(l) : l \in Label} \cup {ContentRef(w) : w \in Committed(body, plan)} :
        LET token == Token(plan, ref, body, named, after)
        IN  /\ tokens' = tokens \cup {token}
            /\ undo' = Append(undo, [token |-> token, body |-> body, ref |-> ref])
            /\ Cardinality(tokens') <= MaxTokens /\ Len(undo') <= MaxTokens
            /\ body' = after /\ ref' = named
            /\ UNCHANGED plans
  BY DEF CommitMerge
<1> DEFINE token == Token(plan, ref, body, named, after)
<1>2. /\ token.plan = plan /\ token.sourceRef = ref /\ token.snapshot = body
      /\ token.resultRef = named /\ token.result = after
  BY DEF Token
<1> HIDE DEF token
<1>3. /\ tokens' = tokens \cup {token}
      /\ undo' = Append(undo, [token |-> token, body |-> body, ref |-> ref])
      /\ body' = after /\ ref' = named
      /\ UNCHANGED plans
  BY <1>1 DEF token
<1> QED
  BY <1>2, <1>3

LEMMA CommitStep ==
  ASSUME MergeInv, NEW plan \in plans, CommitMerge(plan)
  PROVE  MergeInv' /\ Results(body, plan.operations, body')
<1>1. PICK token :
        /\ token.plan = plan /\ token.sourceRef = ref /\ token.snapshot = body
        /\ token.resultRef = ref' /\ token.result = body'
        /\ tokens' = tokens \cup {token}
        /\ undo' = Append(undo, [token |-> token, body |-> body, ref |-> ref])
        /\ body' \in Committed(body, plan)
        /\ UNCHANGED plans
  BY CommitMeans
<1>2. Doc(body) /\ SoundPlan(plan)
  BY DEF MergeInv, StatesAreDocs, PlansAreSound
<1>3. Results(body, plan.operations, body')
  BY <1>1, <1>2, CommittedMeans
<1>4. StatesAreDocs'
  BY <1>1, <1>2, <1>3 DEF MergeInv, StatesAreDocs, Results
<1>5. PlansAreSound' /\ CommitsLeaveTokens'
  BY <1>1 DEF MergeInv, PlansAreSound, CommitsLeaveTokens
<1> DEFINE e == [token |-> token, body |-> body, ref |-> ref]
<1>6. e.token = token /\ e.body = body /\ e.ref = ref
  OBVIOUS
<1>7. PICK S : undo \in Seq(S)
  BY DEF MergeInv, UndoIsAHistory
<1> HIDE DEF e
<1>8. undo' = Append(undo, e)
  BY <1>1 DEF e
<1>9. /\ undo' \in Seq(S \cup {e})
      /\ Len(undo) \in Nat /\ Len(undo') = Len(undo) + 1
      /\ DOMAIN undo = 1..Len(undo) /\ DOMAIN undo' = 1..(Len(undo) + 1)
      /\ \A i \in 1..Len(undo) : undo'[i] = undo[i]
      /\ undo'[Len(undo) + 1] = e
  BY <1>7, <1>8, Longer
<1>10. UndoIsAHistory'
  BY <1>9 DEF UndoIsAHistory
<1>11. UnwindsToStart'
  <2> SUFFICES ASSUME NEW i \in DOMAIN undo'
               PROVE  /\ undo'[i].token.snapshot = undo'[i].body
                      /\ undo'[i].token.sourceRef = undo'[i].ref
                      /\ undo'[i].token.result =
                           IF i = Len(undo') THEN body' ELSE undo'[i + 1].body
                      /\ undo'[i].token.resultRef =
                           IF i = Len(undo') THEN ref' ELSE undo'[i + 1].ref
    BY DEF UnwindsToStart
  <2>1. CASE i = Len(undo) + 1
    BY <2>1, <1>1, <1>6, <1>9
  <2>2. CASE i \in 1..Len(undo)
    <3>1. /\ undo[i].token.snapshot = undo[i].body /\ undo[i].token.sourceRef = undo[i].ref
          /\ undo[i].token.result = IF i = Len(undo) THEN body ELSE undo[i + 1].body
          /\ undo[i].token.resultRef = IF i = Len(undo) THEN ref ELSE undo[i + 1].ref
      BY <2>2, <1>9 DEF MergeInv, UnwindsToStart
    <3>2. undo'[i] = undo[i] /\ i # Len(undo')
      BY <2>2, <1>9
    <3>3. CASE i = Len(undo)
      BY <3>1, <3>2, <3>3, <1>6, <1>9
    <3>4. CASE i # Len(undo)
      <4>1. i + 1 \in 1..Len(undo)
        BY <2>2, <3>4, <1>9
      <4>2. undo'[i + 1] = undo[i + 1]
        BY <4>1, <1>9
      <4> QED
        BY <3>1, <3>2, <3>4, <4>2
    <3> QED
      BY <3>3, <3>4
  <2> QED
    BY <2>1, <2>2, <1>9
<1> QED
  BY <1>3, <1>4, <1>5, <1>10, <1>11 DEF MergeInv

LEMMA RollbackStep ==
  ASSUME MergeInv, NEW token \in tokens, RollbackMerge(token)
  PROVE  MergeInv'
<1>1. /\ body' = token.snapshot /\ ref' = token.sourceRef
      /\ undo' = UndoneTo(token) /\ UNCHANGED <<plans, tokens>>
  BY DEF RollbackMerge
<1>2. StatesAreDocs' /\ PlansAreSound' /\ CommitsLeaveTokens'
  BY <1>1 DEF MergeInv, StatesAreDocs, PlansAreSound, CommitsLeaveTokens
<1>3. PICK S : undo \in Seq(S)
  BY DEF MergeInv, UndoIsAHistory
<1>4. CASE undo' = <<>>
  <2>1. undo' \in Seq({}) /\ DOMAIN undo' = {}
    BY <1>4
  <2> QED
    BY <1>2, <2>1 DEF MergeInv, UndoIsAHistory, UnwindsToStart
<1>5. CASE \E k \in DOMAIN undo :
             undo[k].token = token /\ undo' = SubSeq(undo, 1, k - 1)
  <2>1. PICK k \in DOMAIN undo :
          undo[k].token = token /\ undo' = SubSeq(undo, 1, k - 1)
    BY <1>5
  <2>2. /\ undo' \in Seq(S) /\ Len(undo') = k - 1 /\ DOMAIN undo' = 1..(k - 1)
        /\ \A i \in 1..(k - 1) : undo'[i] = undo[i]
    BY <1>3, <2>1, CutBack
  <2>3. Len(undo) \in Nat /\ DOMAIN undo = 1..Len(undo)
    BY <1>3, LenProperties
  <2>4. undo[k].body = body' /\ undo[k].ref = ref'
    BY <1>1, <2>1 DEF MergeInv, UnwindsToStart
  <2>5. UnwindsToStart'
    <3> SUFFICES ASSUME NEW i \in DOMAIN undo'
                 PROVE  /\ undo'[i].token.snapshot = undo'[i].body
                        /\ undo'[i].token.sourceRef = undo'[i].ref
                        /\ undo'[i].token.result =
                             IF i = Len(undo') THEN body' ELSE undo'[i + 1].body
                        /\ undo'[i].token.resultRef =
                             IF i = Len(undo') THEN ref' ELSE undo'[i + 1].ref
      BY DEF UnwindsToStart
    <3>1. i \in 1..(k - 1) /\ i \in DOMAIN undo /\ i # Len(undo) /\ undo'[i] = undo[i]
      BY <2>1, <2>2, <2>3
    <3>2. /\ undo[i].token.snapshot = undo[i].body /\ undo[i].token.sourceRef = undo[i].ref
          /\ undo[i].token.result = undo[i + 1].body
          /\ undo[i].token.resultRef = undo[i + 1].ref
      BY <3>1 DEF MergeInv, UnwindsToStart
    <3>3. CASE i = k - 1
      <4>1. i + 1 = k
        BY <3>3, <2>1, <2>3
      <4> QED
        BY <3>1, <3>2, <3>3, <4>1, <2>2, <2>4
    <3>4. CASE i # k - 1
      <4>1. i + 1 \in 1..(k - 1)
        BY <3>1, <3>4, <2>1, <2>3
      <4> QED
        BY <3>1, <3>2, <3>4, <4>1, <2>2
    <3> QED
      BY <3>3, <3>4
  <2> QED
    BY <1>2, <2>2, <2>5 DEF MergeInv, UndoIsAHistory
<1> QED
  BY <1>1, <1>3, <1>4, <1>5, UndoneMeans

-----------------------------------------------------------------------------
(* The host's history, its plans and its states are what they seem, as long *)
(* as it runs.                                                              *)
THEOREM MergeInvariant == MergeSpec => []MergeInv
<1>1. MergeInit => MergeInv
  BY MergeInvInit
<1>2. MergeInv /\ [MergeNext]_mergeVars => MergeInv'
  <2> SUFFICES ASSUME MergeInv, [MergeNext]_mergeVars PROVE MergeInv'
    OBVIOUS
  <2>1. CASE CreateMergePlan
    BY <2>1, PlanStep
  <2>2. CASE HostWrites
    BY <2>2, WriteStep
  <2>3. CASE \E plan \in plans : CommitMerge(plan)
    BY <2>3, CommitStep
  <2>4. CASE \E token \in tokens : RollbackMerge(token)
    BY <2>4, RollbackStep
  <2>5. CASE UNCHANGED mergeVars
    BY <2>5
    DEF mergeVars, MergeInv, StatesAreDocs, PlansAreSound, UndoIsAHistory,
        CommitsLeaveTokens, UnwindsToStart
  <2> QED
    BY <2>1, <2>2, <2>3, <2>4, <2>5 DEF MergeNext
<1> QED
  BY <1>1, <1>2, PTL DEF MergeSpec

(* createMergePlan never lets two overlapping operations into one plan, so *)
(* commitMerge may apply them in any order: all orders refuse a state, or  *)
(* all of them make the same of it, whatever became of the state meanwhile.*)
THEOREM PlansMeanOneThing == MergeSpec => []OrderIrrelevant
<1>1. MergeInv => OrderIrrelevant
  <2> SUFFICES ASSUME MergeInv, NEW plan \in plans,
                      NEW order \in SetToSeqs(plan.operations)
               PROVE  Outcome(body, order) = Committed(body, plan)
    BY DEF OrderIrrelevant
  <2>1. Doc(body) /\ ApartSet(plan.operations)
    BY DEF MergeInv, StatesAreDocs, PlansAreSound, SoundPlan
  <2> QED
    BY <2>1, AnyOrder DEF Committed
<1> QED
  BY <1>1, MergeInvariant, PTL

(* The tokens of the commits in effect lead back, one after the other, to  *)
(* the state and the stateRef the host started from.                       *)
THEOREM RollbacksUnwind == MergeSpec => []UnwindsToStart
<1>1. MergeInv => UnwindsToStart
  BY DEF MergeInv
<1> QED
  BY <1>1, MergeInvariant, PTL
-----------------------------------------------------------------------------
(* What changes apart from a path leave there. *)
LEMMA LeftAlone ==
  ASSUME NEW v, Doc(v), NEW C, NEW w, Results(v, C, w),
         \A c \in C : IsEdit(c), NEW p \in Path, \A c \in C : ~Overlap(c.path, p)
  PROVE  SameAt(v, w, p)
<1>1. ASSUME NEW r \in Path
      PROVE  Agree(v, w, p \o r)
  <2>1. p \o r \in Path /\ IsPrefix(p, p \o r)
    BY ConcatFacts
  <2>2. \A c \in C : ~IsPrefix(c.path, p \o r)
    BY <2>1, PrefixOrder DEF IsEdit
  <2> QED
    BY <2>1, <2>2 DEF Results
<1>2. At(v, p) = At(w, p)
  BY <1>1, AtSame DEF Results
<1>3. Agree(v, w, p)
  BY PrefixOrder DEF Results, Overlap, IsEdit
<1> QED
  BY <1>2, <1>3 DEF SameAt, Agree

(* A path is present when something is found at it. *)
LEMMA PresentAt ==
  ASSUME NEW v, Doc(v), NEW p \in Path
  PROVE  p \in DOMAIN v <=> <<>> \in DOMAIN At(v, p)
<1>1. <<>> \in Path /\ p \o <<>> = p
  <2>1. <<>> \in Path
    BY DEF Path
  <2> QED
    BY <2>1, ConcatEmptySeq DEF Path
<1> QED
  BY <1>1, AtFacts

(* What a normalized change makes of a document is in effect afterwards. *)
LEMMA TakesEffect ==
  ASSUME NEW v, NEW C, NEW w, Results(v, C, w), NEW c \in C, IsChange(c)
  PROVE  InEffect(w, c)
<1>1. IsEdit(c) /\ c.path \in Path
  BY ChangeIsEdit DEF IsEdit
<1>2. Doc(w) /\ At(w, c.path) = After(c)
  BY DEF Results
<1>3. c.path \in DOMAIN w <=> <<>> \in DOMAIN After(c)
  BY <1>1, <1>2, PresentAt
<1>4. CASE c.op = "delete"
  BY <1>3, <1>4 DEF InEffect, After, Nothing
<1>5. CASE c.op # "delete"
  <2>1. PICK x \in JsonValue : c.value = {x}
    BY <1>5 DEF IsChange
  <2>2. After(c) = x
    BY <1>5, <2>1 DEF After
  <2>3. <<>> \in DOMAIN x
    BY <2>1, JsonFacts, JsonAssumption DEF JsonValue
  <2> QED
    BY <1>2, <1>3, <1>5, <2>1, <2>2, <2>3 DEF InEffect
<1> QED
  BY <1>4, <1>5

(* A commit puts every change of every accepted candidate into effect,     *)
(* touches nothing beside the paths they name, and leaves what eligible    *)
(* candidates dispute as it was, whether it is commitMerge's first use of  *)
(* the plan or a later one on another state.                               *)
THEOREM CommitsFollowDecisions == MergeSpec => CommitsAsDecided
<1>1. ASSUME MergeInv, [MergeNext]_mergeVars, NEW token \in CommittedNow
      PROVE  LandsWhole(token) /\ LeavesDisputed(token)
  <2>1. PICK plan \in plans : CommitMerge(plan)
    BY <1>1
    DEF MergeNext, mergeVars, CommittedNow, CreateMergePlan, HostWrites, RollbackMerge
  <2>2. token.plan = plan
    BY <1>1, <2>1, CommitMeans DEF CommittedNow
  <2>3. Doc(body) /\ SoundPlan(plan) /\ Results(body, plan.operations, body')
    BY <1>1, <2>1, CommitStep DEF MergeInv, StatesAreDocs, PlansAreSound
  <2>4. \A c \in plan.operations : IsEdit(c) /\ IsChange(c)
    BY <2>3 DEF SoundPlan, ApartSet
  <2> DEFINE written == UNION {token.plan.candidates[i].changes :
                                 i \in Accepted(token.plan.decisions)}
  <2>5. written = plan.operations
    BY <2>2, <2>3 DEF SoundPlan
  <2>6. \A c \in plan.operations : InEffect(body', c)
    BY <2>3, <2>4, TakesEffect
  <2>7. ASSUME NEW p \in DOMAIN body \cup DOMAIN body',
               \A c \in plan.operations : ~Overlap(c.path, p)
        PROVE  SameAt(body, body', p)
    <3>1. p \in Path
      BY <2>3 DEF Doc, Results
    <3> QED
      BY <2>3, <2>4, <2>7, <3>1, LeftAlone
  <2>8. LandsWhole(token)
    <3> HIDE DEF written
    <3>1. (\A c \in written : InEffect(body', c))
          /\ \A p \in DOMAIN body \cup DOMAIN body' :
               (\A c \in written : ~Overlap(c.path, p)) => SameAt(body, body', p)
      BY <2>5, <2>6, <2>7
    <3> QED
      BY <3>1 DEF LandsWhole, written
  <2>9. ASSUME NEW k \in plan.conflicts, NEW d \in {k.a, k.b}
        PROVE  SameAt(body, body', d.path)
    <3>1. d.path \in Path /\ \A c \in plan.operations : ~Overlap(c.path, d.path)
      BY <2>3 DEF SoundPlan, Apart
    <3> QED
      BY <2>3, <2>4, <3>1, LeftAlone
  <2>10. LeavesDisputed(token)
    BY <2>2, <2>9 DEF LeavesDisputed
  <2> QED
    BY <2>8, <2>10
<1>2. MergeInv /\ [MergeNext]_mergeVars =>
        [\A token \in CommittedNow : LandsWhole(token) /\ LeavesDisputed(token)]_mergeVars
  BY <1>1
<1>3. MergeSpec => [][MergeNext]_mergeVars
  BY DEF MergeSpec
<1>4. MergeSpec => [][\A token \in CommittedNow :
                        LandsWhole(token) /\ LeavesDisputed(token)]_mergeVars
  BY <1>2, <1>3, MergeInvariant, PTL
<1> QED
  BY <1>4 DEF CommitsAsDecided
-----------------------------------------------------------------------------
(* diffJsonState of a clone against its source is a patch: applied to the  *)
(* source in any order it is accepted and produces the clone.              *)
THEOREM DiffsArePatches == MergeSpec => []DiffCarriesTheClone
<1>1. MergeInv => DiffCarriesTheClone
  BY DiffOutcome DEF MergeInv, CommitsLeaveTokens, DiffCarriesTheClone, Untouched
<1> QED
  BY <1>1, MergeInvariant, PTL

(* The preconditions diffJsonState adds bind all that it replaces: another *)
(* state is refused, or holds at each path of the diff what the source     *)
(* holds there.                                                            *)
THEOREM DiffsBindTheirSource == MergeSpec => []DiffSeesItsSource
<1>1. ASSUME NEW v \in JsonState, NEW w \in JsonState, NEW u \in JsonState,
             Outcome(u, SetToSeq(Diff(v, w))) # {}, NEW c \in Diff(v, w)
      PROVE  SameAt(u, v, c.path)
  <2>1. ApartSet(Diff(v, w)) /\ Doc(u)
    BY DiffIsApart, StateFacts
  <2>2. SetToSeq(Diff(v, w)) \in SetToSeqs(Diff(v, w))
    BY <2>1, SomeOrder DEF ApartSet
  <2>3. Applicable(u, c)
    BY <1>1, <2>1, <2>2, OutcomeOfSet
  <2> QED
    BY <2>3, DiffNotices DEF SameAt
<1>2. MergeInv => DiffSeesItsSource
  <2> SUFFICES ASSUME MergeInv, Untouched, NEW working \in JsonState,
                      NEW other \in JsonState,
                      Outcome(other, SetToSeq(Diff(body, working))) # {},
                      NEW c \in Diff(body, working)
               PROVE  SameAt(other, body, c.path)
    BY DEF DiffSeesItsSource
  <2>1. body \in JsonState
    BY DEF MergeInv, CommitsLeaveTokens, Untouched
  <2> QED
    BY <1>1, <2>1
<1> QED
  BY <1>2, MergeInvariant, PTL
=============================================================================
