-------------------------- MODULE RunSessionProofs --------------------------
(***************************************************************************)
(* Safety of RunSession for every task graph, every demand and limit, and  *)
(* (but where DisciplinedLanes is assumed) whatever lanes return.          *)
(*                                                                         *)
(* First come facts about Load, the sum of the demands of a set of tasks,  *)
(* by induction over the task order: the induction principle is stated for *)
(* a set, and follows from the well-foundedness of < on the naturals.      *)
(* Then the invariants: every handler ends in Pump, so each rests on one   *)
(* lemma about Pump, stated over its arguments, and a step per handler     *)
(* that supplies them.  Then the refinement: a session of disciplined      *)
(* lanes implements DagRun, its steps are those of the abstract run or     *)
(* leave it alone.  Last, the loops of PumpLoop: they are recursive        *)
(* functions, which are first shown to satisfy their equations; what is    *)
(* true after each turn then follows by the same induction.                *)
(***************************************************************************)
EXTENDS RunAbstraction, PumpLoop, FiniteSetTheorems, WellFoundedInduction, TLAPS

(* A set that has 0 and the successor of each of its naturals has them all. *)
LEMMA NatSetInduction ==
  ASSUME NEW S, 0 \in S, \A n \in Nat : n \in S => n + 1 \in S
  PROVE  Nat \subseteq S
<1> DEFINE R == {p \in Nat \X Nat : p[1] < p[2]}
           T == Nat \ S
<1>1. IsWellFoundedOn(R, Nat)
  BY NatLessThanWellFounded DEF OpToRel
<1>2. SUFFICES ASSUME T # {} PROVE FALSE
  OBVIOUS
<1>3. PICK x \in T : \A y \in T : ~(<<y, x>> \in R)
  <2> HIDE DEF R, T
  <2> QED BY <1>1, <1>2, WFMin, T \subseteq Nat DEF T
<1>4. x \in Nat /\ x # 0 /\ x - 1 \in Nat /\ <<x - 1, x>> \in R
  OBVIOUS
<1>5. x - 1 \in S
  BY <1>3, <1>4
<1>6. x - 1 + 1 = x
  BY <1>4
<1> QED BY <1>4, <1>5, <1>6

(* The recursive definition of Prefix has the value it describes.          *)
LEMMA PrefixDefined ==
  ASSUME NEW w \in [Task -> Nat]
  PROVE  Prefix(w) = [i \in 0..N |-> IF i = 0 THEN 0 ELSE Prefix(w)[i - 1] + w[i]]
<1> DEFINE Sums(f, n) == f = [i \in 0..n |-> IF i = 0 THEN 0 ELSE f[i - 1] + w[i]]
           S == {n \in Nat : \E f : Sums(f, n)}
<1>1. 0 \in S
  <2>1. Sums([i \in 0..0 |-> 0], 0)
    OBVIOUS
  <2> QED BY <2>1
<1>2. ASSUME NEW n \in Nat, n \in S PROVE n + 1 \in S
  <2>1. PICK f : Sums(f, n)
    BY <1>2
  <2> DEFINE g == [i \in 0..(n + 1) |-> IF i = n + 1 THEN f[n] + w[n + 1] ELSE f[i]]
  <2>2. \A i \in 0..n : f[i] = IF i = 0 THEN 0 ELSE f[i - 1] + w[i]
    BY <2>1
  <2>3. \A i \in 0..(n + 1) : g[i] = IF i = 0 THEN 0 ELSE g[i - 1] + w[i]
    <3> TAKE i \in 0..(n + 1)
    <3>1. CASE i = n + 1
      BY <3>1
    <3>2. CASE i # n + 1
      <4>1. i \in 0..n /\ (i # 0 => i - 1 \in 0..n /\ i - 1 # n + 1)
        BY <3>2
      <4> QED BY <4>1, <2>2
    <3> QED BY <3>1, <3>2
  <2>4. Sums(g, n + 1)
    BY <2>3
  <2>5. \E h : Sums(h, n + 1)
    <3> HIDE DEF g, Sums
    <3> QED BY <2>4
  <2> HIDE DEF Sums
  <2> QED BY <2>5
<1>3. N \in S
  <2> HIDE DEF S
  <2>1. Nat \subseteq S
    BY <1>1, <1>2, NatSetInduction
  <2> QED BY <2>1, ResourceAssumption
<1>4. PICK h : Sums(h, N)
  BY <1>3
<1>5. Prefix(w) = CHOOSE f : Sums(f, N)
  BY DEF Prefix
<1>6. Sums(Prefix(w), N)
  <2> HIDE DEF Sums
  <2> QED BY <1>4, <1>5
<1> QED BY <1>6

LEMMA PrefixSteps ==
  ASSUME NEW w \in [Task -> Nat]
  PROVE  /\ Prefix(w)[0] = 0
         /\ \A i \in Task : Prefix(w)[i] = Prefix(w)[i - 1] + w[i]
<1> HIDE DEF Prefix
<1>1. N \in Nat
  BY ResourceAssumption
<1>2. \A i \in 0..N : Prefix(w)[i] = IF i = 0 THEN 0 ELSE Prefix(w)[i - 1] + w[i]
  BY PrefixDefined
<1> QED BY <1>1, <1>2 DEF Task

LEMMA PrefixNat ==
  ASSUME NEW w \in [Task -> Nat]
  PROVE  \A i \in 0..N : Prefix(w)[i] \in Nat
<1> DEFINE S == {i \in Nat : i <= N => Prefix(w)[i] \in Nat}
<1>0. N \in Nat
  BY ResourceAssumption
<1>1. 0 \in S
  BY PrefixSteps
<1>2. ASSUME NEW i \in Nat, i \in S PROVE i + 1 \in S
  <2>1. CASE i + 1 <= N
    <3>1. i + 1 \in Task /\ (i + 1) - 1 = i /\ Prefix(w)[i] \in Nat
      BY <1>0, <1>2, <2>1 DEF Task
    <3>2. Prefix(w)[i + 1] = Prefix(w)[i] + w[i + 1] /\ w[i + 1] \in Nat
      BY <3>1, PrefixSteps
    <3> QED BY <3>1, <3>2
  <2> QED BY <1>0, <2>1
<1>3. Nat \subseteq S
  <2> HIDE DEF S
  <2> QED BY <1>1, <1>2, NatSetInduction
<1> QED BY <1>0, <1>3

(* Prefix sums add up pointwise. *)
LEMMA PrefixAdds ==
  ASSUME NEW u \in [Task -> Nat], NEW v \in [Task -> Nat], NEW w \in [Task -> Nat],
         \A t \in Task : w[t] = u[t] + v[t]
  PROVE  \A i \in 0..N : Prefix(w)[i] = Prefix(u)[i] + Prefix(v)[i]
<1> DEFINE S == {i \in Nat : i <= N => Prefix(w)[i] = Prefix(u)[i] + Prefix(v)[i]}
<1>0. N \in Nat
  BY ResourceAssumption
<1>1. 0 \in S
  BY PrefixSteps
<1>2. ASSUME NEW i \in Nat, i \in S PROVE i + 1 \in S
  <2>1. CASE i + 1 <= N
    <3>1. i + 1 \in Task /\ (i + 1) - 1 = i /\ i \in 0..N
      BY <1>0, <2>1 DEF Task
    <3>2. /\ Prefix(w)[i + 1] = Prefix(w)[i] + w[i + 1]
          /\ Prefix(u)[i + 1] = Prefix(u)[i] + u[i + 1]
          /\ Prefix(v)[i + 1] = Prefix(v)[i] + v[i + 1]
      BY <3>1, PrefixSteps
    <3>3. Prefix(u)[i] \in Nat /\ Prefix(v)[i] \in Nat
      BY <3>1, PrefixNat
    <3>4. Prefix(w)[i] = Prefix(u)[i] + Prefix(v)[i]
      BY <1>0, <1>2, <2>1
    <3> QED BY <3>1, <3>2, <3>3, <3>4
  <2> QED BY <1>0, <2>1
<1>3. Nat \subseteq S
  <2> HIDE DEF S
  <2> QED BY <1>1, <1>2, NatSetInduction
<1> QED BY <1>0, <1>3

(* A function that is 0 but at t has prefix sums that are 0 and then w[t]. *)
LEMMA PrefixOfOne ==
  ASSUME NEW t \in Task, NEW w \in [Task -> Nat],
         \A u \in Task : u # t => w[u] = 0
  PROVE  \A i \in 0..N : Prefix(w)[i] = IF i < t THEN 0 ELSE w[t]
<1> DEFINE S == {i \in Nat : i <= N => Prefix(w)[i] = IF i < t THEN 0 ELSE w[t]}
<1>0. N \in Nat
  BY ResourceAssumption
<1>1. 0 \in S
  BY <1>0, PrefixSteps DEF Task
<1>2. ASSUME NEW i \in Nat, i \in S PROVE i + 1 \in S
  <2>1. CASE i + 1 <= N
    <3>1. i + 1 \in Task /\ (i + 1) - 1 = i
      BY <1>0, <2>1 DEF Task
    <3>2. Prefix(w)[i + 1] = Prefix(w)[i] + w[i + 1] /\ w[t] \in Nat
      BY <3>1, PrefixSteps
    <3>3. Prefix(w)[i] = IF i < t THEN 0 ELSE w[t]
      BY <1>0, <1>2, <2>1
    <3>4. i + 1 # t => w[i + 1] = 0
      BY <3>1
    <3> QED BY <1>0, <3>2, <3>3, <3>4 DEF Task
  <2> QED BY <1>0, <2>1
<1>3. Nat \subseteq S
  <2> HIDE DEF S
  <2> QED BY <1>1, <1>2, NatSetInduction
<1> QED BY <1>0, <1>3
-----------------------------------------------------------------------------
LEMMA ChargeType ==
  ASSUME NEW S, NEW c \in Class
  PROVE  Charge(S, c) \in [Task -> Nat]
BY ResourceAssumption DEF Charge

LEMMA LoadType ==
  ASSUME NEW S
  PROVE  Load(S) \in [Class -> Nat]
<1> SUFFICES ASSUME NEW c \in Class PROVE Prefix(Charge(S, c))[N] \in Nat
  BY DEF Load
<1>1. N \in 0..N
  BY ResourceAssumption
<1> QED BY <1>1, ChargeType, PrefixNat

(* Nothing runs, nothing is used. *)
LEMMA LoadEmpty == Load({}) = [c \in Class |-> 0]
<1> SUFFICES ASSUME NEW c \in Class PROVE Prefix(Charge({}, c))[N] = 0
  BY DEF Load
<1> DEFINE w == Charge({}, c)
           S == {i \in Nat : i <= N => Prefix(w)[i] = 0}
<1>0. N \in Nat /\ w \in [Task -> Nat] /\ \A t \in Task : w[t] = 0
  BY ResourceAssumption, ChargeType DEF Charge
<1> HIDE DEF w
<1>1. 0 \in S
  BY <1>0, PrefixSteps
<1>2. ASSUME NEW i \in Nat, i \in S PROVE i + 1 \in S
  <2>1. CASE i + 1 <= N
    <3>1. i + 1 \in Task /\ (i + 1) - 1 = i /\ Prefix(w)[i] = 0
      BY <1>0, <1>2, <2>1 DEF Task
    <3> QED BY <1>0, <3>1, PrefixSteps
  <2> QED BY <1>0, <2>1
<1>3. Nat \subseteq S
  <2> HIDE DEF S
  <2> QED BY <1>1, <1>2, NatSetInduction
<1> QED BY <1>0, <1>3 DEF w

(* Disjoint sets of tasks use the sum of what each uses. *)
LEMMA LoadUnion ==
  ASSUME NEW A, NEW B, A \cap B = {}, NEW c \in Class
  PROVE  Load(A \cup B)[c] = Load(A)[c] + Load(B)[c]
<1>1. \A t \in Task : Charge(A \cup B, c)[t] = Charge(A, c)[t] + Charge(B, c)[t]
  BY ResourceAssumption DEF Charge
<1>2. N \in 0..N
  BY ResourceAssumption
<1>3. /\ Charge(A, c) \in [Task -> Nat]
      /\ Charge(B, c) \in [Task -> Nat]
      /\ Charge(A \cup B, c) \in [Task -> Nat]
  BY ChargeType
<1>4. \A i \in 0..N :
        Prefix(Charge(A \cup B, c))[i] = Prefix(Charge(A, c))[i] + Prefix(Charge(B, c))[i]
  BY <1>1, <1>3, PrefixAdds
<1> QED BY <1>2, <1>4 DEF Load

LEMMA LoadOne ==
  ASSUME NEW t \in Task, NEW c \in Class
  PROVE  Load({t})[c] = Demand[t][c]
<1>1. /\ Charge({t}, c) \in [Task -> Nat]
      /\ \A u \in Task : u # t => Charge({t}, c)[u] = 0
      /\ Charge({t}, c)[t] = Demand[t][c]
  BY ChargeType DEF Charge
<1>2. N \in 0..N /\ ~(N < t)
  BY ResourceAssumption DEF Task
<1>3. Prefix(Charge({t}, c))[N] = Demand[t][c]
  BY <1>1, <1>2, PrefixOfOne
<1> QED BY <1>3 DEF Load

(* Taking one task out of a set gives its demand back, and the clamp of    *)
(* subtractResources at zero never bites.                                  *)
LEMMA LoadRemove ==
  ASSUME NEW S, NEW t \in Task, t \in S
  PROVE  SubtractResources(Load(S), t) = Load(S \ {t})
<1> SUFFICES ASSUME NEW c \in Class
             PROVE  Load(S)[c] >= Demand[t][c] /\ Load(S)[c] - Demand[t][c] = Load(S \ {t})[c]
  BY LoadType DEF SubtractResources
<1>1. (S \ {t}) \cup {t} = S /\ (S \ {t}) \cap {t} = {}
  OBVIOUS
<1>2. Load(S)[c] = Load(S \ {t})[c] + Load({t})[c]
  BY <1>1, LoadUnion
<1>3. Load({t})[c] = Demand[t][c]
  BY LoadOne
<1>4. Load(S \ {t})[c] \in Nat /\ Demand[t][c] \in Nat
  BY LoadType, ResourceAssumption
<1> QED BY <1>2, <1>3, <1>4
-----------------------------------------------------------------------------
(* The scan never launches past a limit: by induction over the task order, *)
(* what it has launched among the first i tasks fits.                      *)
LEMMA ScanWithinLimits ==
  ASSUME NEW st, NEW used \in [Class -> Nat], NEW L \in SUBSET Task,
         \A c \in Class : used[c] <= Limit[c],
         IsLaunchSet(st, used, L)
  PROVE  \A c \in Class : AddResources(used, Load(L))[c] <= Limit[c]
<1> TAKE c \in Class
<1> DEFINE Low(i) == {u \in L : u < i + 1}
           S == {i \in Nat : i <= N => used[c] + Load(Low(i))[c] <= Limit[c]}
<1>0. N \in Nat /\ used[c] \in Nat /\ used[c] <= Limit[c] /\ Limit[c] \in Nat
  BY ResourceAssumption
<1>1. 0 \in S
  <2>0. \A u \in L : ~(u < 0 + 1)
    BY DEF Task
  <2>1. Low(0) = {}
    BY <2>0
  <2>2. Load(Low(0))[c] = 0
    BY <2>1, LoadEmpty
  <2> QED BY <1>0, <2>2
<1>2. ASSUME NEW i \in Nat, i \in S PROVE i + 1 \in S
  <2> SUFFICES ASSUME i + 1 <= N
               PROVE  used[c] + Load(Low(i + 1))[c] <= Limit[c]
    OBVIOUS
  <2>1. i + 1 \in Task /\ used[c] + Load(Low(i))[c] <= Limit[c]
    BY <1>0, <1>2 DEF Task
  <2>2. CASE i + 1 \in L
    <3>0. \A u \in L : u < (i + 1) + 1 <=> u < i + 1 \/ u = i + 1
      BY DEF Task
    <3>1. Low(i + 1) = Low(i) \cup {i + 1} /\ Low(i) \cap {i + 1} = {}
      BY <2>2, <3>0
    <3>2. Load(Low(i + 1))[c] = Load(Low(i))[c] + Demand[i + 1][c]
      <4> HIDE DEF Low
      <4>1. Load(Low(i) \cup {i + 1})[c] = Load(Low(i))[c] + Load({i + 1})[c]
        BY <3>1, LoadUnion
      <4> QED BY <2>1, <3>1, <4>1, LoadOne
    <3>3. ResourcesFit(AddResources(used, Load(Low(i))), i + 1)
      BY <2>1, <2>2 DEF IsLaunchSet
    <3>4. used[c] + Load(Low(i))[c] + Demand[i + 1][c] <= Limit[c]
      BY <3>3 DEF ResourcesFit, AddResources
    <3>5. Load(Low(i))[c] \in Nat /\ Demand[i + 1][c] \in Nat
      BY <2>1, LoadType, ResourceAssumption
    <3> HIDE DEF Low
    <3> QED BY <1>0, <3>2, <3>4, <3>5
  <2>3. CASE i + 1 \notin L
    <3>1. \A u \in L : u < (i + 1) + 1 <=> u < i + 1
      BY <2>3 DEF Task
    <3>2. Low(i + 1) = Low(i)
      BY <3>1
    <3> HIDE DEF Low
    <3> QED BY <2>1, <3>2
  <2> QED BY <2>2, <2>3
<1>3. Nat \subseteq S
  <2> HIDE DEF S
  <2> QED BY <1>1, <1>2, NatSetInduction
<1>4. Low(N) = L
  <2>1. \A u \in L : u < N + 1
    BY <1>0 DEF Task
  <2> QED BY <2>1
<1> HIDE DEF Low
<1>5. used[c] + Load(L)[c] <= Limit[c]
  BY <1>0, <1>3, <1>4
<1> QED BY <1>5 DEF AddResources
-----------------------------------------------------------------------------
(* Arguments a handler may call _pump with.                                *)
PumpArgs(st, out, rc, ac, used) ==
  /\ st \in [Task -> TaskState]
  /\ out \in [Task -> Storable \cup {NoOutput}]
  /\ rc \in [Task -> Receipt \cup {NoReceipt}]
  /\ ac \in SUBSET Task
  /\ \A t \in ac : st[t] = "RUNNING"
  /\ used = Load(ac)
  /\ \A c \in Class : used[c] <= Limit[c]

ActiveRunning == \A t \in active : state[t] = "RUNNING"

(* The strengthening of ResourceAccounting: a task is charged once, since  *)
(* a task that could be launched is pending and so not already active.     *)
AccountInv == TypeOK /\ ActiveRunning /\ ResourceAccounting

(* Everything AccountInv says but of aborted and pumpQueued, which Pump    *)
(* leaves to its caller.                                                   *)
Accounted ==
  /\ state \in [Task -> TaskState]
  /\ outputs \in [Task -> Storable \cup {NoOutput}]
  /\ receipts \in [Task -> Receipt \cup {NoReceipt}]
  /\ active \in SUBSET Task
  /\ currentResources \in [Class -> Nat]
  /\ paused \in BOOLEAN /\ cancelled \in BOOLEAN /\ finalized \in BOOLEAN
  /\ result \in RunStatus \cup {Unresolved}
  /\ ActiveRunning
  /\ ResourceAccounting

LEMMA AddLoads ==
  ASSUME NEW A, NEW B, A \cap B = {}
  PROVE  AddResources(Load(A), Load(B)) = Load(A \cup B)
<1>1. \A c \in Class : Load(A)[c] + Load(B)[c] = Load(A \cup B)[c]
  BY LoadUnion
<1>2. Load(A \cup B) = [c \in Class |-> Load(A \cup B)[c]]
  BY LoadType
<1> QED BY <1>1, <1>2 DEF AddResources

(* What _pump did, given the tasks B it blocked and the tasks L it launched. *)
PumpEffect(st, out, rc, ac, used, pz, cn, settled, B, L) ==
  /\ settled = Settle(st, B, cn)
  /\ IsBlockedSet(st, B)
  /\ IF Held(pz, cn) THEN L = {} ELSE IsLaunchSet(settled, used, L)
  /\ state' = [t \in Task |-> IF t \in L THEN "RUNNING" ELSE settled[t]]
  /\ active' = ac \cup L
  /\ currentResources' = AddResources(used, Load(L))
  /\ receipts' = [t \in Task |-> IF settled[t] # st[t] THEN FiledByPump(settled[t]) ELSE rc[t]]
  /\ outputs' = out
  /\ paused' = pz
  /\ cancelled' = cn
  /\ IF active' = {} /\ Pending(state') = {}
       THEN Finalize(state', out, receipts', cn)
       ELSE UNCHANGED <<finalized, result>>

LEMMA PumpShape ==
  ASSUME NEW st, NEW out, NEW rc, NEW ac, NEW used, NEW pz, NEW cn,
         Pump(st, out, rc, ac, used, pz, cn)
  PROVE  \E settled, B, L :
           /\ B \in SUBSET Pending(st)
           /\ L \in SUBSET Pending(settled)
           /\ PumpEffect(st, out, rc, ac, used, pz, cn, settled, B, L)
BY DEF Pump, PumpEffect

LEMMA PumpFilesReceipts ==
  ASSUME NEW s \in TaskState
  PROVE  FiledByPump(s) \in Receipt
BY DEF FiledByPump, Filed, Receipt, Storable

(* After _pump the types hold and the books balance. *)
LEMMA PumpAccounted ==
  ASSUME NEW st, NEW out, NEW rc, NEW ac, NEW used,
         NEW pz \in BOOLEAN, NEW cn \in BOOLEAN,
         PumpArgs(st, out, rc, ac, used),
         finalized \in BOOLEAN, result \in RunStatus \cup {Unresolved},
         Pump(st, out, rc, ac, used, pz, cn)
  PROVE  Accounted' /\ ac \subseteq active'
<1>1. PICK settled, B, L :
        /\ B \in SUBSET Pending(st)
        /\ L \in SUBSET Pending(settled)
        /\ PumpEffect(st, out, rc, ac, used, pz, cn, settled, B, L)
  BY PumpShape
<1>2. /\ settled = Settle(st, B, cn)
      /\ IF Held(pz, cn) THEN L = {} ELSE IsLaunchSet(settled, used, L)
      /\ state' = [t \in Task |-> IF t \in L THEN "RUNNING" ELSE settled[t]]
      /\ active' = ac \cup L
      /\ currentResources' = AddResources(used, Load(L))
      /\ receipts' = [t \in Task |-> IF settled[t] # st[t] THEN FiledByPump(settled[t]) ELSE rc[t]]
      /\ outputs' = out
      /\ paused' = pz
      /\ cancelled' = cn
      /\ IF active' = {} /\ Pending(state') = {}
           THEN Finalize(state', out, receipts', cn)
           ELSE UNCHANGED <<finalized, result>>
  BY <1>1 DEF PumpEffect
<1>3. L \in SUBSET Task /\ settled \in [Task -> TaskState]
  BY <1>1, <1>2 DEF Pending, Settle, PumpArgs, TaskState, SchedulerState
<1>4. ac \cap L = {} /\ \A t \in ac : settled[t] = "RUNNING"
  BY <1>1, <1>2 DEF Pending, Settle, PumpArgs
<1>5. state' \in [Task -> TaskState] /\ ActiveRunning'
  BY <1>2, <1>3, <1>4 DEF ActiveRunning, TaskState, SchedulerState, PumpArgs
<1>6. currentResources' = Load(active')
  BY <1>2, <1>4, AddLoads DEF PumpArgs
<1>7. \A c \in Class : currentResources'[c] <= Limit[c]
  <2>0. used \in [Class -> Nat]
    BY LoadType DEF PumpArgs
  <2>1. CASE L = {}
    <3>1. currentResources' = Load(ac)
      BY <1>2, <1>6, <2>1
    <3> QED BY <3>1 DEF PumpArgs
  <2>2. CASE IsLaunchSet(settled, used, L)
    BY <1>2, <1>3, <2>0, <2>2, ScanWithinLimits DEF PumpArgs
  <2> QED BY <1>2, <2>1, <2>2
<1>8. currentResources' \in [Class -> Nat]
  BY <1>6, LoadType
<1>9. finalized' \in BOOLEAN /\ result' \in RunStatus \cup {Unresolved}
  BY <1>2 DEF Finalize, FinalStatus, RunStatus
<1>10. /\ receipts' \in [Task -> Receipt \cup {NoReceipt}]
       /\ outputs' \in [Task -> Storable \cup {NoOutput}]
       /\ active' \in SUBSET Task
  BY <1>2, <1>3, PumpFilesReceipts DEF PumpArgs
<1> QED BY <1>2, <1>5, <1>6, <1>7, <1>8, <1>9, <1>10 DEF Accounted, ResourceAccounting
-----------------------------------------------------------------------------
LEMMA CurrentArgs ==
  ASSUME AccountInv
  PROVE  PumpArgs(state, outputs, receipts, active, currentResources)
BY DEF AccountInv, TypeOK, ActiveRunning, ResourceAccounting, PumpArgs

(* A lane leaves: its resources are given back exactly. *)
LEMMA ReleasedLoad ==
  ASSUME AccountInv, NEW t \in active
  PROVE  /\ Released(t) = Load(active \ {t})
         /\ \A c \in Class : Released(t)[c] <= Limit[c]
<1>1. t \in Task /\ currentResources = Load(active)
  BY DEF AccountInv, TypeOK, ResourceAccounting
<1>2. Released(t) = Load(active \ {t})
  BY <1>1, LoadRemove DEF Released
<1>3. ASSUME NEW c \in Class PROVE Released(t)[c] <= Limit[c]
  <2>1. /\ currentResources[c] \in Nat /\ currentResources[c] <= Limit[c]
        /\ Demand[t][c] \in Nat /\ Limit[c] \in Nat
    BY <1>1, ResourceAssumption DEF AccountInv, TypeOK, ResourceAccounting
  <2> QED BY <2>1 DEF Released, SubtractResources
<1> QED BY <1>2, <1>3

(* Whatever status a lane's handler records, Pump gets proper arguments. *)
LEMMA SettledArgs ==
  ASSUME AccountInv, NEW t \in active, NEW s \in TaskState, NEW rc \in Receipt,
         NEW out \in [Task -> Storable \cup {NoOutput}]
  PROVE  PumpArgs([state EXCEPT ![t] = s], out, [receipts EXCEPT ![t] = rc],
                  active \ {t}, Released(t))
BY ReleasedLoad DEF AccountInv, TypeOK, ActiveRunning, PumpArgs

LEMMA CompletionType ==
  ASSUME NEW r \in LaneResult
  PROVE  /\ CompletionStatus(r) \in TaskState
         /\ r.payload \in Storable => Filed(CompletionStatus(r), r.payload) \in Receipt
BY LaneResultAssumption DEF CompletionStatus, TaskState, SchedulerState, Filed, Receipt

LEMMA FailureType ==
  ASSUME NEW t
  PROVE  FailureStatus(t) \in TaskState /\ FiledByPump(FailureStatus(t)) \in Receipt
BY PumpFilesReceipts DEF FailureStatus, TaskState, SchedulerState

LEMMA AccountInit == Init => AccountInv
<1> SUFFICES ASSUME NEW R \in SUBSET Task, StartFrom(R) PROVE AccountInv
  BY DEF Init
<1>1. /\ outputs \in [Task -> Storable \cup {NoOutput}]
      /\ receipts \in [Task -> Receipt \cup {NoReceipt}]
      /\ state \in [Task -> TaskState]
  <2>1. PICK kept \in [R -> RestoredPayload] :
          /\ outputs  = [t \in Task |-> IF t \in R THEN kept[t] ELSE NoOutput]
          /\ receipts = [t \in Task |-> IF t \in R THEN Filed(state[t], kept[t]) ELSE NoReceipt]
    BY DEF StartFrom
  <2>2. RestoredPayload \subseteq Storable /\ state \in [Task -> TaskState]
    BY DEF StartFrom, RestoredPayload, Storable
  <2>3. \A t \in R : kept[t] \in Storable /\ Filed(state[t], kept[t]) \in Receipt
    BY <2>1, <2>2 DEF Filed, Receipt
  <2> QED BY <2>1, <2>2, <2>3
<1>2. currentResources = Load(active) /\ currentResources \in [Class -> Nat]
  BY LoadEmpty DEF StartFrom
<1>3. \A c \in Class : currentResources[c] <= Limit[c]
  BY ResourceAssumption DEF StartFrom
<1> QED
  BY <1>1, <1>2, <1>3 DEF AccountInv, TypeOK, ActiveRunning, ResourceAccounting, StartFrom

LEMMA AccountStep == AccountInv /\ [Next]_vars => AccountInv'
<1> SUFFICES ASSUME AccountInv, [Next]_vars PROVE AccountInv'
  OBVIOUS
<1> USE CurrentArgs
<1>0. /\ finalized \in BOOLEAN /\ result \in RunStatus \cup {Unresolved}
      /\ paused \in BOOLEAN /\ cancelled \in BOOLEAN /\ pumpQueued \in BOOLEAN
      /\ aborted \in SUBSET active
  BY DEF AccountInv, TypeOK
<1>a. ASSUME Accounted', aborted' \in SUBSET active', pumpQueued' \in BOOLEAN
      PROVE  AccountInv'
  BY <1>a DEF Accounted, AccountInv, TypeOK
<1>1. CASE FirstPump
  <2>1. CASE finalized
    BY <1>1, <2>1 DEF FirstPump, AccountInv, TypeOK, ActiveRunning, ResourceAccounting
  <2>2. CASE ~finalized
    <3>1. Pump(state, outputs, receipts, active, currentResources, paused, cancelled)
      BY <1>1, <2>2 DEF FirstPump
    <3>2. Accounted' /\ active \subseteq active'
      BY <1>0, <3>1, PumpAccounted
    <3> QED BY <1>0, <1>1, <1>a, <3>2 DEF FirstPump
  <2> QED BY <2>1, <2>2
<1>2. CASE Pause
  BY <1>2 DEF Pause, AccountInv, TypeOK, ActiveRunning, ResourceAccounting
<1>3. CASE Resume
  <2>1. Accounted' /\ active \subseteq active'
    BY <1>0, <1>3, PumpAccounted DEF Resume
  <2> QED BY <1>0, <1>3, <1>a, <2>1 DEF Resume
<1>4. CASE Cancel
  <2>1. Accounted' /\ active \subseteq active'
    BY <1>0, <1>4, PumpAccounted DEF Cancel
  <2> QED BY <1>0, <1>4, <1>a, <2>1 DEF Cancel
<1>5. ASSUME NEW t \in Task, LaneSettles(t) PROVE AccountInv'
  <2>1. CASE FailTask(t)
    <3>1. PumpArgs([state EXCEPT ![t] = FailureStatus(t)], outputs,
                   [receipts EXCEPT ![t] = FiledByPump(FailureStatus(t))],
                   active \ {t}, Released(t))
      BY <2>1, SettledArgs, FailureType DEF FailTask, Leave, AccountInv, TypeOK
    <3>2. Accounted' /\ active \ {t} \subseteq active'
      BY <1>0, <2>1, <3>1, PumpAccounted DEF FailTask
    <3> QED BY <1>0, <1>a, <2>1, <3>2 DEF FailTask, Leave
  <2>2. ASSUME NEW r \in LaneResult, CompleteTask(t, r) PROVE AccountInv'
    <3>1. [outputs EXCEPT ![t] = r.payload] \in [Task -> Storable \cup {NoOutput}]
      BY <2>2 DEF AccountInv, TypeOK, CompleteTask
    <3>2. PumpArgs([state EXCEPT ![t] = CompletionStatus(r)],
                   [outputs EXCEPT ![t] = r.payload],
                   [receipts EXCEPT ![t] = Filed(CompletionStatus(r), r.payload)],
                   active \ {t}, Released(t))
      BY <2>2, <3>1, SettledArgs, CompletionType DEF CompleteTask, Leave
    <3>3. Accounted' /\ active \ {t} \subseteq active'
      BY <1>0, <2>2, <3>2, PumpAccounted DEF CompleteTask
    <3> QED BY <1>0, <1>a, <2>2, <3>3 DEF CompleteTask, Leave
  <2>3. ASSUME NEW r \in LaneResult, FieldUnclonable(t, r) \/ OutputUnclonable(t, r)
        PROVE  AccountInv'
    <3>1. /\ t \in active /\ active' = active \ {t}
          /\ currentResources' = Released(t)
          /\ UNCHANGED <<outputs, receipts, paused, cancelled, finalized, result, pumpQueued>>
          /\ aborted' = aborted \ {t}
          /\ state' = state \/ state' = [state EXCEPT ![t] = CompletionStatus(r)]
      BY <2>3 DEF FieldUnclonable, OutputUnclonable, Leave
    <3>2. currentResources' = Load(active') /\ \A c \in Class : currentResources'[c] <= Limit[c]
      BY <3>1, ReleasedLoad
    <3>3. currentResources' \in [Class -> Nat]
      BY <3>2, LoadType
    <3>4. state' \in [Task -> TaskState] /\ \A u \in active' : state'[u] = "RUNNING"
      BY <3>1, CompletionType DEF AccountInv, TypeOK, ActiveRunning
    <3> QED BY <3>1, <3>2, <3>3, <3>4 DEF AccountInv, TypeOK, ActiveRunning, ResourceAccounting
  <2> QED BY <1>5, <2>1, <2>2, <2>3 DEF LaneSettles
<1>6. CASE UNCHANGED vars
  BY <1>6 DEF vars, AccountInv, TypeOK, ActiveRunning, ResourceAccounting
<1> QED BY <1>1, <1>2, <1>3, <1>4, <1>5, <1>6 DEF Next

LEMMA AccountAlways == Spec => []AccountInv
BY AccountInit, AccountStep, PTL DEF Spec

(* Every variable of a session keeps its type, whatever lanes return.      *)
THEOREM TypeCorrect == Spec => []TypeOK
<1>1. AccountInv => TypeOK
  BY DEF AccountInv
<1> QED BY <1>1, AccountAlways, PTL

(* The resources in use are the load of the active lanes and within the    *)
(* limits, for every graph, demand and limit, whatever lanes return.       *)
THEOREM ResourcesAccounted == Spec => []ResourceAccounting
<1>1. AccountInv => ResourceAccounting
  BY DEF AccountInv
<1> QED BY <1>1, AccountAlways, PTL
-----------------------------------------------------------------------------
(* Dependency order.  A delivered status is never taken back, and a lane   *)
(* is launched only from a status that has delivered nothing.              *)
OrderOf(st, ac) ==
  \A t \in Task : t \in ac \/ IsDependencySatisfied(st[t]) =>
    \A d \in Deps[t] : IsDependencySatisfied(st[d])

LEMMA PumpKeepsOrder ==
  ASSUME NEW st, NEW out, NEW rc, NEW ac, NEW used, NEW pz, NEW cn,
         OrderOf(st, ac),
         Pump(st, out, rc, ac, used, pz, cn)
  PROVE  DependencyOrder'
<1>1. PICK settled, B, L :
        /\ B \in SUBSET Pending(st)
        /\ L \in SUBSET Pending(settled)
        /\ PumpEffect(st, out, rc, ac, used, pz, cn, settled, B, L)
  BY PumpShape
<1>2. \A t \in Task : IsDependencySatisfied(settled[t]) <=> IsDependencySatisfied(st[t])
  BY <1>1 DEF PumpEffect, Settle, Pending, IsDependencySatisfied, IsDependencyFailed
<1>3. \A t \in Task : IsDependencySatisfied(state'[t]) <=> IsDependencySatisfied(settled[t])
  BY <1>1 DEF PumpEffect, Pending, IsDependencySatisfied
<1>4. \A t \in L : \A d \in Deps[t] : IsDependencySatisfied(settled[d])
  BY <1>1 DEF PumpEffect, IsLaunchSet, Runnable, Pending
<1>5. \A t \in Task : Deps[t] \subseteq Task
  BY DepsAssumption
<1>6. active' = ac \cup L
  BY <1>1 DEF PumpEffect
<1> QED BY <1>2, <1>3, <1>4, <1>5, <1>6 DEF DependencyOrder, OrderOf

(* A lane that ends leaves the order intact, whatever status it gets. *)
LEMMA EndKeepsOrder ==
  ASSUME AccountInv, DependencyOrder, NEW t \in active, NEW s
  PROVE  OrderOf([state EXCEPT ![t] = s], active \ {t})
<1>1. t \in Task /\ ~IsDependencySatisfied(state[t]) /\ state \in [Task -> TaskState]
  BY DEF AccountInv, TypeOK, ActiveRunning, IsDependencySatisfied
<1>2. \A u \in Task : Deps[u] \subseteq Task
  BY DepsAssumption
<1>3. ASSUME NEW u \in Task, IsDependencySatisfied(state[u])
      PROVE  u # t
  BY <1>1, <1>3
<1>4. ASSUME NEW u \in Task,
             u \in active \ {t} \/ IsDependencySatisfied([state EXCEPT ![t] = s][u]),
             NEW d \in Deps[u]
      PROVE  IsDependencySatisfied([state EXCEPT ![t] = s][d])
  <2>1. u \in active \/ IsDependencySatisfied(state[u])
    BY <1>1, <1>4
  <2>2. d \in Task /\ IsDependencySatisfied(state[d])
    BY <1>2, <2>1 DEF DependencyOrder
  <2> QED BY <1>1, <1>3, <2>2
<1> QED BY <1>4 DEF OrderOf

LEMMA OrderStep == AccountInv /\ DependencyOrder /\ [Next]_vars => DependencyOrder'
<1> SUFFICES ASSUME AccountInv, DependencyOrder, [Next]_vars PROVE DependencyOrder'
  OBVIOUS
<1>0. OrderOf(state, active)
  BY DEF DependencyOrder, OrderOf
<1>1. CASE FirstPump
  BY <1>0, <1>1, PumpKeepsOrder DEF FirstPump, DependencyOrder
<1>2. CASE Pause
  BY <1>2 DEF Pause, DependencyOrder
<1>3. CASE Resume
  BY <1>0, <1>3, PumpKeepsOrder DEF Resume
<1>4. CASE Cancel
  BY <1>0, <1>4, PumpKeepsOrder DEF Cancel
<1>5. ASSUME NEW t \in Task, LaneSettles(t) PROVE DependencyOrder'
  <2>0. t \in active
    BY <1>5 DEF LaneSettles, FailTask, CompleteTask, FieldUnclonable, OutputUnclonable, Leave
  <2>1. CASE FailTask(t)
    <3>1. OrderOf([state EXCEPT ![t] = FailureStatus(t)], active \ {t})
      BY <2>0, EndKeepsOrder
    <3> QED BY <2>1, <3>1, PumpKeepsOrder DEF FailTask
  <2>2. ASSUME NEW r \in LaneResult, CompleteTask(t, r) PROVE DependencyOrder'
    <3>1. OrderOf([state EXCEPT ![t] = CompletionStatus(r)], active \ {t})
      BY <2>0, EndKeepsOrder
    <3> QED BY <2>2, <3>1, PumpKeepsOrder DEF CompleteTask
  <2>3. ASSUME NEW r \in LaneResult, FieldUnclonable(t, r) PROVE DependencyOrder'
    BY <1>0, <2>3 DEF FieldUnclonable, DependencyOrder
  <2>4. ASSUME NEW r \in LaneResult, OutputUnclonable(t, r) PROVE DependencyOrder'
    <3>1. OrderOf([state EXCEPT ![t] = CompletionStatus(r)], active \ {t})
      BY <2>0, EndKeepsOrder
    <3> QED BY <2>4, <3>1 DEF OutputUnclonable, DependencyOrder, OrderOf
  <2> QED BY <1>5, <2>1, <2>2, <2>3, <2>4 DEF LaneSettles
<1>6. CASE UNCHANGED vars
  BY <1>6 DEF vars, DependencyOrder
<1> QED BY <1>1, <1>2, <1>3, <1>4, <1>5, <1>6 DEF Next

LEMMA MarkOfTheDisciplined == DisciplinedLanes => MarkIsTheScheduler
BY DEF DisciplinedLanes, MarkIsTheScheduler

(* No task runs or delivers before its dependencies delivered, for every   *)
(* graph and every restored checkpoint, whatever lanes return but the mark *)
(* the scheduler puts on late work: that satisfies dependents and is not   *)
(* exported, so a checkpoint might hold a task without its dependencies.   *)
THEOREM DependenciesFirst ==
  ASSUME MarkIsTheScheduler
  PROVE  Spec => []DependencyOrder
<1>1. Init => DependencyOrder
  BY DepsAssumption
  DEF Init, Restorable, StartFrom, DownwardClosed, DependencyOrder, IsReusableState,
      IsDependencySatisfied
<1> QED BY <1>1, OrderStep, AccountAlways, PTL DEF Spec
-----------------------------------------------------------------------------
(* Progress.  From here on lanes are disciplined: a lane that reports the  *)
(* empty status, or RUNNING, leaves dependents that nothing ever decides.  *)
DecidedStatuses(st, ac) ==
  \A t \in Task : st[t] # "" /\ (st[t] = "RUNNING" => t \in ac)

ProgressInv ==
  AccountInv /\ DecidedStatuses(state, active) /\ NoStall /\ WorkConserving

LEMMA PumpKeepsDecided ==
  ASSUME NEW st, NEW out, NEW rc, NEW ac, NEW used, NEW pz, NEW cn,
         DecidedStatuses(st, ac),
         Pump(st, out, rc, ac, used, pz, cn)
  PROVE  DecidedStatuses(state, active)'
<1>1. PICK settled, B, L :
        /\ B \in SUBSET Pending(st)
        /\ L \in SUBSET Pending(settled)
        /\ PumpEffect(st, out, rc, ac, used, pz, cn, settled, B, L)
  BY PumpShape
<1>2. \A t \in Task : settled[t] # "" /\ (settled[t] = "RUNNING" => t \in ac)
  BY <1>1 DEF PumpEffect, Settle, DecidedStatuses
<1> QED BY <1>1, <1>2 DEF PumpEffect, DecidedStatuses

(* What a pump leaves pending has no failed dependency, and if the run is  *)
(* not held it does not fit beside what is running.                        *)
LEMMA PumpConserves ==
  ASSUME NEW st, NEW out, NEW rc, NEW ac, NEW used,
         NEW pz \in BOOLEAN, NEW cn \in BOOLEAN,
         PumpArgs(st, out, rc, ac, used),
         Pump(st, out, rc, ac, used, pz, cn)
  PROVE  WorkConserving'
<1>1. PICK settled, B, L :
        /\ B \in SUBSET Pending(st)
        /\ L \in SUBSET Pending(settled)
        /\ PumpEffect(st, out, rc, ac, used, pz, cn, settled, B, L)
  BY PumpShape
<1>0. \A t \in Task : Deps[t] \subseteq Task
  BY DepsAssumption
<1>2. SUFFICES ASSUME NEW t \in Pending(state)'
               PROVE  /\ \A d \in Deps[t] : ~IsDependencyFailed(state'[d])
                      /\ ~paused' => ~(Runnable(state', t) /\ ResourcesFit(currentResources', t))
  BY DEF WorkConserving
<1>3. /\ t \in Task /\ t \notin L /\ settled[t] = "PENDING" /\ st[t] = "PENDING"
      /\ t \notin B /\ ~cn
  BY <1>1, <1>2 DEF PumpEffect, Pending, Settle
<1>4. ASSUME NEW d \in Deps[t] PROVE ~IsDependencyFailed(state'[d])
  <2>1. d \in Task /\ ~IsDependencyFailed(st[d]) /\ d \notin B
    BY <1>0, <1>1, <1>3 DEF PumpEffect, IsBlockedSet
  <2> QED BY <1>1, <1>3, <2>1 DEF PumpEffect, Settle, IsDependencyFailed
<1>5. ASSUME ~paused', Runnable(state', t), ResourcesFit(currentResources', t)
      PROVE  FALSE
  <2>1. IsLaunchSet(settled, used, L)
    BY <1>1, <1>3, <1>5 DEF PumpEffect, Held
  <2>2. Runnable(settled, t)
    BY <1>0, <1>1, <1>3, <1>5 DEF PumpEffect, Runnable, IsDependencySatisfied
  <2> DEFINE low == {u \in L : u < t}
             high == {u \in L : ~(u < t)}
  <2>3. ~ResourcesFit(AddResources(used, Load(low)), t)
    BY <1>3, <2>1, <2>2 DEF IsLaunchSet
  <2>4. PICK c \in Class : ~(used[c] + Load(low)[c] + Demand[t][c] <= Limit[c])
    BY <2>3 DEF ResourcesFit, AddResources
  <2>5. low \cup high = L /\ low \cap high = {}
    OBVIOUS
  <2>6. Load(L)[c] = Load(low)[c] + Load(high)[c]
    <3> HIDE DEF low, high
    <3> QED BY <2>5, LoadUnion
  <2>7. currentResources'[c] = used[c] + Load(L)[c]
    BY <1>1 DEF PumpEffect, AddResources
  <2>8. /\ Load(low)[c] \in Nat /\ Load(high)[c] \in Nat /\ Load(L)[c] \in Nat
        /\ used[c] \in Nat /\ Demand[t][c] \in Nat /\ Limit[c] \in Nat
    BY <1>3, LoadType, ResourceAssumption DEF PumpArgs
  <2>9. currentResources'[c] + Demand[t][c] <= Limit[c]
    BY <1>5 DEF ResourcesFit
  <2> HIDE DEF low, high
  <2> QED BY <2>4, <2>6, <2>7, <2>8, <2>9
<1> QED BY <1>4, <1>5

(* A pump that neither finds nor starts an active lane ends the run, unless *)
(* the run is paused: among the waiting tasks one depends on none of the    *)
(* others, its dependencies have delivered, and alone it fits.              *)
LEMMA PumpProgresses ==
  ASSUME NEW st, NEW out, NEW rc, NEW ac, NEW used,
         NEW pz \in BOOLEAN, NEW cn \in BOOLEAN,
         PumpArgs(st, out, rc, ac, used),
         DecidedStatuses(st, ac),
         Pump(st, out, rc, ac, used, pz, cn)
  PROVE  NoStall'
<1>1. PICK settled, B, L :
        /\ B \in SUBSET Pending(st)
        /\ L \in SUBSET Pending(settled)
        /\ PumpEffect(st, out, rc, ac, used, pz, cn, settled, B, L)
  BY PumpShape
<1>0. \A t \in Task : Deps[t] \subseteq Task
  BY DepsAssumption
<1>2. SUFFICES ASSUME ~finalized', ~paused', active' = {} PROVE FALSE
  BY DEF NoStall
<1>3. /\ ac = {} /\ L = {} /\ ~pz /\ paused' = pz /\ settled = Settle(st, B, cn)
      /\ state' = [t \in Task |-> IF t \in L THEN "RUNNING" ELSE settled[t]]
      /\ Pending(state') # {}
  BY <1>1, <1>2 DEF PumpEffect, Finalize
<1>4. Pending(state') \in SUBSET Task
  BY DEF Pending
<1>5. PICK t \in Pending(state') : Deps[t] \cap Pending(state') = {}
  BY <1>3, <1>4, DepsAssumption DEF Acyclic
<1>6. /\ t \in Task /\ settled[t] = "PENDING" /\ st[t] = "PENDING" /\ t \notin B /\ ~cn
  BY <1>3, <1>5 DEF Pending, Settle
<1>7. ASSUME NEW d \in Deps[t] PROVE IsDependencySatisfied(settled[d])
  <2>1. d \in Task /\ ~IsDependencyFailed(st[d]) /\ d \notin B
    BY <1>0, <1>1, <1>6 DEF PumpEffect, IsBlockedSet
  <2>2. settled[d] # "PENDING"
    BY <1>3, <1>5, <2>1 DEF Pending
  <2>3. settled[d] = st[d]
    BY <1>3, <1>6, <2>1 DEF Settle
  <2> QED BY <1>3, <2>1, <2>2, <2>3 DEF DecidedStatuses, IsDependencySatisfied
<1>8. Runnable(settled, t)
  BY <1>6, <1>7 DEF Runnable
<1>9. {u \in L : u < t} = {}
  BY <1>3
<1>10. ResourcesFit(AddResources(used, Load({})), t)
  <2>1. used = [c \in Class |-> 0] /\ Load({}) = [c \in Class |-> 0]
    BY <1>3, LoadEmpty DEF PumpArgs
  <2>2. \A c \in Class : Demand[t][c] \in Nat /\ Demand[t][c] <= Limit[c]
    BY <1>6, ResourceAssumption DEF DemandsFit
  <2> QED BY <2>1, <2>2 DEF ResourcesFit, AddResources
<1>11. IsLaunchSet(settled, used, L)
  BY <1>1, <1>3, <1>6 DEF PumpEffect, Held
<1>12. t \in L <=> /\ Runnable(settled, t)
                   /\ ResourcesFit(AddResources(used, Load({u \in L : u < t})), t)
  BY <1>6, <1>11 DEF IsLaunchSet
<1> QED BY <1>3, <1>8, <1>9, <1>10, <1>12
-----------------------------------------------------------------------------
LEMMA EndKeepsDecided ==
  ASSUME AccountInv, DecidedStatuses(state, active), NEW t \in active,
         NEW s, s # "", s # "RUNNING"
  PROVE  DecidedStatuses([state EXCEPT ![t] = s], active \ {t})
BY DEF AccountInv, TypeOK, DecidedStatuses

(* Any pump that a handler makes re-establishes the progress invariant. *)
LEMMA PumpEstablishesProgress ==
  ASSUME NEW st, NEW out, NEW rc, NEW ac, NEW used,
         NEW pz \in BOOLEAN, NEW cn \in BOOLEAN,
         PumpArgs(st, out, rc, ac, used), DecidedStatuses(st, ac),
         Pump(st, out, rc, ac, used, pz, cn)
  PROVE  DecidedStatuses(state, active)' /\ NoStall' /\ WorkConserving'
BY PumpKeepsDecided, PumpConserves, PumpProgresses

LEMMA ProgressStep ==
  ASSUME DisciplinedLanes
  PROVE  ProgressInv /\ [Next]_vars => ProgressInv'
<1> SUFFICES ASSUME ProgressInv, [Next]_vars
             PROVE  DecidedStatuses(state, active)' /\ NoStall' /\ WorkConserving'
  BY AccountStep DEF ProgressInv
<1>0. /\ AccountInv /\ DecidedStatuses(state, active) /\ NoStall /\ WorkConserving
      /\ paused \in BOOLEAN /\ cancelled \in BOOLEAN
      /\ PumpArgs(state, outputs, receipts, active, currentResources)
  BY CurrentArgs DEF ProgressInv, AccountInv, TypeOK
<1>1. CASE FirstPump
  <2>1. CASE finalized
    BY <1>0, <1>1, <2>1 DEF FirstPump, DecidedStatuses, NoStall, WorkConserving
  <2>2. CASE ~finalized
    BY <1>0, <1>1, <2>2, PumpEstablishesProgress DEF FirstPump
  <2> QED BY <2>1, <2>2
<1>2. CASE Pause
  <2>1. /\ paused' = TRUE
        /\ UNCHANGED <<state, active, currentResources, finalized, pumpQueued>>
    BY <1>2 DEF Pause
  <2>2. WorkConserving'
    BY <1>0, <2>1 DEF WorkConserving, Pending
  <2> QED BY <1>0, <2>1, <2>2 DEF DecidedStatuses, NoStall
<1>3. CASE Resume
  BY <1>0, <1>3, PumpEstablishesProgress DEF Resume
<1>4. CASE Cancel
  BY <1>0, <1>4, PumpEstablishesProgress DEF Cancel
<1>5. ASSUME NEW t \in Task, LaneSettles(t)
      PROVE  DecidedStatuses(state, active)' /\ NoStall' /\ WorkConserving'
  <2>0. t \in active
    BY <1>5 DEF LaneSettles, FailTask, CompleteTask, FieldUnclonable, OutputUnclonable, Leave
  <2>1. CASE FailTask(t)
    <3>1. /\ PumpArgs([state EXCEPT ![t] = FailureStatus(t)], outputs,
                      [receipts EXCEPT ![t] = FiledByPump(FailureStatus(t))],
                      active \ {t}, Released(t))
          /\ FailureStatus(t) # "" /\ FailureStatus(t) # "RUNNING"
      BY <1>0, <2>0, SettledArgs, FailureType DEF FailureStatus, AccountInv, TypeOK
    <3>2. DecidedStatuses([state EXCEPT ![t] = FailureStatus(t)], active \ {t})
      BY <1>0, <2>0, <3>1, EndKeepsDecided
    <3> QED BY <1>0, <2>1, <3>1, <3>2, PumpEstablishesProgress DEF FailTask
  <2>2. ASSUME NEW r \in LaneResult, CompleteTask(t, r)
        PROVE  DecidedStatuses(state, active)' /\ NoStall' /\ WorkConserving'
    <3>0. CompletionStatus(r) # "" /\ CompletionStatus(r) # "RUNNING"
      BY DEF DisciplinedLanes, CompletionStatus
    <3>1. [outputs EXCEPT ![t] = r.payload] \in [Task -> Storable \cup {NoOutput}]
      BY <1>0, <2>2 DEF AccountInv, TypeOK, CompleteTask
    <3>2. PumpArgs([state EXCEPT ![t] = CompletionStatus(r)],
                   [outputs EXCEPT ![t] = r.payload],
                   [receipts EXCEPT ![t] = Filed(CompletionStatus(r), r.payload)],
                   active \ {t}, Released(t))
      BY <1>0, <2>0, <2>2, <3>1, SettledArgs, CompletionType DEF CompleteTask
    <3>3. DecidedStatuses([state EXCEPT ![t] = CompletionStatus(r)], active \ {t})
      BY <1>0, <2>0, <3>0, EndKeepsDecided
    <3> QED BY <1>0, <2>2, <3>2, <3>3, PumpEstablishesProgress DEF CompleteTask
  <2>3. \A r \in LaneResult : ~FieldUnclonable(t, r) /\ ~OutputUnclonable(t, r)
    BY DEF DisciplinedLanes, FieldUnclonable, OutputUnclonable
  <2> QED BY <1>5, <2>1, <2>2, <2>3 DEF LaneSettles
<1>6. CASE UNCHANGED vars
  BY <1>0, <1>6 DEF vars, DecidedStatuses, NoStall, WorkConserving, Pending
<1> QED BY <1>1, <1>2, <1>3, <1>4, <1>5, <1>6 DEF Next

LEMMA ProgressInit == Init => ProgressInv
<1> SUFFICES ASSUME Init PROVE ProgressInv
  OBVIOUS
<1>1. AccountInv
  BY AccountInit
<1>2. pumpQueued /\ DecidedStatuses(state, active)
  BY DEF Init, StartFrom, DecidedStatuses, IsReusableState, IsDependencySatisfied
<1> QED BY <1>1, <1>2 DEF ProgressInv, NoStall, WorkConserving

LEMMA ProgressAlways ==
  ASSUME DisciplinedLanes
  PROVE  Spec => []ProgressInv
BY ProgressInit, ProgressStep, PTL DEF Spec

(* A run that is neither paused nor over always has an active lane: no     *)
(* graph, demands or limits make the scheduler wait for a lane it has not  *)
(* started.                                                                *)
THEOREM NeverStalls ==
  ASSUME DisciplinedLanes
  PROVE  Spec => []NoStall
<1>1. ProgressInv => NoStall
  BY DEF ProgressInv
<1> QED BY <1>1, ProgressAlways, PTL

(* No capacity is left idle and no doomed task is left waiting, for every  *)
(* graph, demands and limits.                                              *)
THEOREM ConservesWork ==
  ASSUME DisciplinedLanes
  PROVE  Spec => []WorkConserving
<1>1. ProgressInv => WorkConserving
  BY DEF ProgressInv
<1> QED BY <1>1, ProgressAlways, PTL
-----------------------------------------------------------------------------
(* A pump that is told the run is held launches nothing. *)
LEMMA HeldPump ==
  ASSUME NEW st, NEW out, NEW rc, NEW ac, NEW used, NEW pz, NEW cn,
         Pump(st, out, rc, ac, used, pz, cn), paused' \/ cancelled'
  PROVE  active' = ac
BY PumpShape DEF PumpEffect, Held

(* Pause and cancel take effect in their own step: from it on no lane is   *)
(* started until a resume, whatever the other handlers do.                 *)
THEOREM HeldMeansHeld == Spec => HeldStartsNothing
<1>1. [Next]_vars => [paused' \/ cancelled' => active' \subseteq active]_vars
  <2> SUFFICES ASSUME Next, paused' \/ cancelled' PROVE active' \subseteq active
    OBVIOUS
  <2>1. CASE FirstPump
    BY <2>1, HeldPump DEF FirstPump
  <2>2. CASE Pause
    BY <2>2 DEF Pause
  <2>3. CASE Resume
    BY <2>3, HeldPump DEF Resume
  <2>4. CASE Cancel
    BY <2>4, HeldPump DEF Cancel
  <2>5. ASSUME NEW t \in Task, LaneSettles(t) PROVE active' \subseteq active
    <3>1. active' = active \ {t}
      BY <2>5, HeldPump
      DEF LaneSettles, FailTask, CompleteTask, FieldUnclonable, OutputUnclonable
    <3> QED BY <3>1
  <2> QED BY <2>1, <2>2, <2>3, <2>4, <2>5 DEF Next
<1> QED BY <1>1, PTL DEF Spec, HeldStartsNothing
-----------------------------------------------------------------------------
(* What a pump does to what a checkpoint would hold: nothing.  It decides  *)
(* or launches pending tasks only, and decides them as failed.             *)
LEMMA PumpKeepsReusable ==
  ASSUME NEW st, NEW out, NEW rc, NEW ac, NEW used, NEW pz, NEW cn,
         Pump(st, out, rc, ac, used, pz, cn)
  PROVE  /\ CheckpointTasks(state') = CheckpointTasks(st)
         /\ outputs' = out
         /\ \A t \in CheckpointTasks(st) : state'[t] = st[t] /\ receipts'[t] = rc[t]
<1>1. PICK settled, B, L :
        /\ B \in SUBSET Pending(st)
        /\ L \in SUBSET Pending(settled)
        /\ PumpEffect(st, out, rc, ac, used, pz, cn, settled, B, L)
  BY PumpShape
<1>2. /\ settled = Settle(st, B, cn) /\ outputs' = out
      /\ state' = [t \in Task |-> IF t \in L THEN "RUNNING" ELSE settled[t]]
      /\ receipts' = [t \in Task |-> IF settled[t] # st[t] THEN FiledByPump(settled[t]) ELSE rc[t]]
  BY <1>1 DEF PumpEffect
<1>3. ASSUME NEW t \in Task, IsReusableState(st[t])
      PROVE  settled[t] = st[t] /\ t \notin L
  BY <1>1, <1>2, <1>3
  DEF Settle, Pending, IsReusableState, IsDependencySatisfied
<1>4. ASSUME NEW t \in Task, IsReusableState(state'[t])
      PROVE  IsReusableState(st[t])
  BY <1>2, <1>4
  DEF Settle, IsReusableState, IsDependencySatisfied, IsDependencyFailed
<1> QED BY <1>2, <1>3, <1>4 DEF CheckpointTasks

(* The task of a lane that settles is not in a checkpoint yet. *)
LEMMA ActiveNotReusable ==
  ASSUME AccountInv, NEW t \in active
  PROVE  t \in Task /\ ~IsReusableState(state[t]) /\ state \in [Task -> TaskState]
BY DEF AccountInv, TypeOK, ActiveRunning, IsReusableState, IsDependencySatisfied

(* Whatever a lane reports, what a checkpoint held before it settled stays. *)
LEMMA SettlingKeepsReusable ==
  ASSUME AccountInv, NEW t \in active, NEW s
  PROVE  /\ CheckpointTasks(state) \subseteq CheckpointTasks([state EXCEPT ![t] = s])
         /\ ~IsReusableState(s) =>
              CheckpointTasks([state EXCEPT ![t] = s]) = CheckpointTasks(state)
         /\ \A u \in CheckpointTasks(state) : u # t
BY ActiveNotReusable DEF CheckpointTasks

LEMMA GrowsStep ==
  ASSUME AccountInv, [Next]_vars
  PROVE  \A u \in CheckpointTasks(state) :
           state'[u] = state[u] /\ outputs'[u] = outputs[u] /\ receipts'[u] = receipts[u]
<1> SUFFICES ASSUME NEW u \in CheckpointTasks(state)
             PROVE  state'[u] = state[u] /\ outputs'[u] = outputs[u] /\ receipts'[u] = receipts[u]
  OBVIOUS
<1>0. u \in Task
  BY DEF CheckpointTasks
<1>1. CASE FirstPump
  BY <1>1, PumpKeepsReusable DEF FirstPump
<1>2. CASE Pause
  BY <1>2 DEF Pause
<1>3. CASE Resume
  <2>1. PICK pz \in BOOLEAN, cn \in {cancelled, TRUE} :
          Pump(state, outputs, receipts, active, currentResources, pz, cn)
    BY <1>3 DEF Resume
  <2> QED BY <2>1, PumpKeepsReusable
<1>4. CASE Cancel
  <2>1. PICK pz \in BOOLEAN, cn \in {cancelled, TRUE} :
          Pump(state, outputs, receipts, active, currentResources, pz, cn)
    BY <1>4 DEF Cancel
  <2> QED BY <2>1, PumpKeepsReusable
<1>5. ASSUME NEW t \in Task, LaneSettles(t)
      PROVE  state'[u] = state[u] /\ outputs'[u] = outputs[u] /\ receipts'[u] = receipts[u]
  <2>0. t \in active
    BY <1>5 DEF LaneSettles, FailTask, CompleteTask, FieldUnclonable, OutputUnclonable, Leave
  <2>1. u # t
    BY <2>0, SettlingKeepsReusable
  <2>2. ASSUME NEW s PROVE u \in CheckpointTasks([state EXCEPT ![t] = s])
    BY <2>0, SettlingKeepsReusable
  <2>3. state \in [Task -> TaskState] /\ receipts \in [Task -> Receipt \cup {NoReceipt}]
        /\ outputs \in [Task -> Storable \cup {NoOutput}]
    BY DEF AccountInv, TypeOK
  <2>4. CASE FailTask(t)
    <3> DEFINE st == [state EXCEPT ![t] = FailureStatus(t)]
               rc == [receipts EXCEPT ![t] = FiledByPump(FailureStatus(t))]
    <3>1. st[u] = state[u] /\ rc[u] = receipts[u] /\ u \in CheckpointTasks(st)
      BY <1>0, <2>1, <2>2, <2>3
    <3>2. Pump(st, outputs, rc, active \ {t}, Released(t), paused, cancelled)
      BY <2>4 DEF FailTask
    <3> HIDE DEF st, rc
    <3>3. outputs' = outputs /\ state'[u] = st[u] /\ receipts'[u] = rc[u]
      BY <3>1, <3>2, PumpKeepsReusable
    <3> QED BY <3>1, <3>3
  <2>5. ASSUME NEW r \in LaneResult, CompleteTask(t, r)
        PROVE  state'[u] = state[u] /\ outputs'[u] = outputs[u] /\ receipts'[u] = receipts[u]
    <3> DEFINE st == [state EXCEPT ![t] = CompletionStatus(r)]
               out == [outputs EXCEPT ![t] = r.payload]
               rc == [receipts EXCEPT ![t] = Filed(CompletionStatus(r), r.payload)]
    <3>1. /\ st[u] = state[u] /\ rc[u] = receipts[u] /\ out[u] = outputs[u]
          /\ u \in CheckpointTasks(st)
      BY <1>0, <2>1, <2>2, <2>3
    <3>2. Pump(st, out, rc, active \ {t}, Released(t), paused, cancelled)
      BY <2>5 DEF CompleteTask
    <3> HIDE DEF st, out, rc
    <3>3. outputs' = out /\ state'[u] = st[u] /\ receipts'[u] = rc[u]
      BY <3>1, <3>2, PumpKeepsReusable
    <3> QED BY <3>1, <3>3
  <2>6. ASSUME NEW r \in LaneResult, FieldUnclonable(t, r) \/ OutputUnclonable(t, r)
        PROVE  state'[u] = state[u] /\ outputs'[u] = outputs[u] /\ receipts'[u] = receipts[u]
    BY <1>0, <2>1, <2>3, <2>6 DEF FieldUnclonable, OutputUnclonable
  <2> QED BY <1>5, <2>4, <2>5, <2>6 DEF LaneSettles
<1>6. CASE UNCHANGED vars
  BY <1>6 DEF vars
<1> QED BY <1>1, <1>2, <1>3, <1>4, <1>5, <1>6 DEF Next

(* An older checkpoint of a run is always a part of a newer one, whatever  *)
(* lanes return and whoever pauses, resumes or cancels.                    *)
THEOREM CheckpointsGrow == Spec => CheckpointGrows
<1>1. AccountInv /\ [Next]_vars =>
        [\A t \in CheckpointTasks(state) :
           state'[t] = state[t] /\ outputs'[t] = outputs[t] /\ receipts'[t] = receipts[t]]_vars
  BY GrowsStep
<1> QED BY <1>1, AccountAlways, PTL DEF Spec, CheckpointGrows

LEMMA QuarantineStep ==
  ASSUME AccountInv, Next, cancelled
  PROVE  CheckpointTasks(state') = CheckpointTasks(state)
<1>1. CASE FirstPump
  BY <1>1, PumpKeepsReusable DEF FirstPump
<1>2. ~Pause /\ ~Resume /\ ~Cancel
  BY DEF Pause, Resume, Cancel
<1>3. ASSUME NEW t \in Task, LaneSettles(t)
      PROVE  CheckpointTasks(state') = CheckpointTasks(state)
  <2>0. t \in active
    BY <1>3 DEF LaneSettles, FailTask, CompleteTask, FieldUnclonable, OutputUnclonable, Leave
  <2>1. ~IsReusableState(FailureStatus(t))
    BY DEF FailureStatus, IsReusableState, IsDependencySatisfied, IsDependencyFailed
  <2>2. \A r : ~IsReusableState(CompletionStatus(r))
    BY DEF CompletionStatus, IsReusableState
  <2>3. ASSUME NEW s, ~IsReusableState(s)
        PROVE  CheckpointTasks([state EXCEPT ![t] = s]) = CheckpointTasks(state)
    BY <2>0, <2>3, SettlingKeepsReusable
  <2>4. CASE FailTask(t)
    <3> DEFINE st == [state EXCEPT ![t] = FailureStatus(t)]
               rc == [receipts EXCEPT ![t] = FiledByPump(FailureStatus(t))]
    <3>1. CheckpointTasks(st) = CheckpointTasks(state)
      BY <2>1, <2>3
    <3>2. Pump(st, outputs, rc, active \ {t}, Released(t), paused, cancelled)
      BY <2>4 DEF FailTask
    <3> HIDE DEF st, rc
    <3> QED BY <3>1, <3>2, PumpKeepsReusable
  <2>5. ASSUME NEW r \in LaneResult, CompleteTask(t, r)
        PROVE  CheckpointTasks(state') = CheckpointTasks(state)
    <3> DEFINE st == [state EXCEPT ![t] = CompletionStatus(r)]
               out == [outputs EXCEPT ![t] = r.payload]
               rc == [receipts EXCEPT ![t] = Filed(CompletionStatus(r), r.payload)]
    <3>1. CheckpointTasks(st) = CheckpointTasks(state)
      BY <2>2, <2>3
    <3>2. Pump(st, out, rc, active \ {t}, Released(t), paused, cancelled)
      BY <2>5 DEF CompleteTask
    <3> HIDE DEF st, out, rc
    <3> QED BY <3>1, <3>2, PumpKeepsReusable
  <2>6. ASSUME NEW r \in LaneResult, FieldUnclonable(t, r) \/ OutputUnclonable(t, r)
        PROVE  CheckpointTasks(state') = CheckpointTasks(state)
    <3>1. state' = state \/ state' = [state EXCEPT ![t] = CompletionStatus(r)]
      BY <2>6 DEF FieldUnclonable, OutputUnclonable
    <3> QED BY <2>2, <2>3, <3>1
  <2> QED BY <1>3, <2>4, <2>5, <2>6 DEF LaneSettles
<1> QED BY <1>1, <1>2, <1>3 DEF Next

(* Nothing that comes back after a cancel is ever reusable, whatever the   *)
(* lanes that were told to stop return.                                    *)
THEOREM LateWorkStaysOut == Spec => LateWorkQuarantined
<1>1. AccountInv /\ [Next]_vars =>
        [cancelled => CheckpointTasks(state') = CheckpointTasks(state)]_vars
  BY QuarantineStep
<1> QED BY <1>1, AccountAlways, PTL DEF Spec, LateWorkQuarantined
-----------------------------------------------------------------------------
(* The final account.  Lanes are disciplined: every value is JSON with     *)
(* lists, so nothing inside _finalize throws, and CANCELLED is a status    *)
(* that only the scheduler gives, after a cancel.                          *)
AccountOf(st, out, rc, cn) ==
  /\ \A t \in Task : out[t] # "clonable" /\ rc[t].payload = "json"
  /\ \A t \in Task : st[t] = "CANCELLED" => cn

FinalInv ==
  /\ AccountOf(state, outputs, receipts, cancelled)
  /\ finalized =>
       /\ active = {} /\ Pending(state) = {}
       /\ result = FinalStatus(state, cancelled)

LEMMA PumpFinal ==
  ASSUME NEW st, NEW out, NEW rc, NEW ac, NEW used, NEW pz, NEW cn,
         AccountOf(st, out, rc, cn), ~finalized,
         Pump(st, out, rc, ac, used, pz, cn)
  PROVE  FinalInv'
<1>1. PICK settled, B, L :
        /\ B \in SUBSET Pending(st)
        /\ L \in SUBSET Pending(settled)
        /\ PumpEffect(st, out, rc, ac, used, pz, cn, settled, B, L)
  BY PumpShape
<1>2. /\ settled = Settle(st, B, cn) /\ outputs' = out /\ cancelled' = cn
      /\ state' = [t \in Task |-> IF t \in L THEN "RUNNING" ELSE settled[t]]
      /\ receipts' = [t \in Task |-> IF settled[t] # st[t] THEN FiledByPump(settled[t]) ELSE rc[t]]
      /\ IF active' = {} /\ Pending(state') = {}
           THEN Finalize(state', out, receipts', cn)
           ELSE UNCHANGED <<finalized, result>>
  BY <1>1 DEF PumpEffect
<1>3. AccountOf(state', outputs', receipts', cancelled')
  BY <1>2 DEF Settle, AccountOf, FiledByPump, Filed
<1>4. Serialisable(state', out) /\ ~MayThrow(state', out, receipts')
  BY <1>2, <1>3 DEF AccountOf, MayThrow, Summarisable, Serialisable, CheckpointTasks
<1>5. finalized' => /\ active' = {} /\ Pending(state') = {}
                    /\ result' = FinalStatus(state', cancelled')
  BY <1>2, <1>4 DEF Finalize
<1>6. AccountOf(state, outputs, receipts, cancelled)'
  BY <1>3 DEF AccountOf
<1>7. Pending(state)' = Pending(state') /\ FinalStatus(state, cancelled)' = FinalStatus(state', cancelled')
  BY DEF Pending, FinalStatus
<1> QED BY <1>5, <1>6, <1>7 DEF FinalInv

LEMMA FinalStep ==
  ASSUME DisciplinedLanes, AccountInv, FinalInv, [Next]_vars
  PROVE  FinalInv'
<1>0. AccountOf(state, outputs, receipts, cancelled)
  BY DEF FinalInv
<1>1. CASE FirstPump
  <2>1. CASE finalized
    BY <1>1, <2>1 DEF FirstPump, FinalInv, AccountOf, Pending, FinalStatus
  <2>2. CASE ~finalized
    BY <1>0, <1>1, <2>2, PumpFinal DEF FirstPump
  <2> QED BY <2>1, <2>2
<1>2. CASE Pause
  BY <1>2 DEF Pause, FinalInv, AccountOf
<1>3. CASE Resume
  BY <1>0, <1>3, PumpFinal DEF Resume
<1>4. CASE Cancel
  <2>1. AccountOf(state, outputs, receipts, TRUE)
    BY <1>0 DEF AccountOf
  <2> QED BY <1>4, <2>1, PumpFinal DEF Cancel
<1>5. ASSUME NEW t \in Task, LaneSettles(t) PROVE FinalInv'
  <2>0. t \in active /\ ~finalized
    BY <1>5 DEF LaneSettles, FailTask, CompleteTask, FieldUnclonable, OutputUnclonable,
                Leave, FinalInv
  <2>1. /\ state \in [Task -> TaskState] /\ outputs \in [Task -> Storable \cup {NoOutput}]
        /\ receipts \in [Task -> Receipt \cup {NoReceipt}]
    BY DEF AccountInv, TypeOK
  <2>2. CASE FailTask(t)
    <3>1. FailureStatus(t) = "CANCELLED" => cancelled
      BY DEF FailureStatus
    <3>2. AccountOf([state EXCEPT ![t] = FailureStatus(t)], outputs,
                    [receipts EXCEPT ![t] = FiledByPump(FailureStatus(t))], cancelled)
      BY <1>0, <2>1, <3>1 DEF AccountOf, FiledByPump, Filed
    <3> QED BY <2>0, <2>2, <3>2, PumpFinal DEF FailTask
  <2>3. ASSUME NEW r \in LaneResult, CompleteTask(t, r) PROVE FinalInv'
    <3>1. CompletionStatus(r) # "CANCELLED" /\ r.payload = "json"
      BY DEF DisciplinedLanes, CompletionStatus
    <3>2. AccountOf([state EXCEPT ![t] = CompletionStatus(r)],
                    [outputs EXCEPT ![t] = r.payload],
                    [receipts EXCEPT ![t] = Filed(CompletionStatus(r), r.payload)], cancelled)
      BY <1>0, <2>1, <3>1 DEF AccountOf, Filed
    <3> QED BY <2>0, <2>3, <3>2, PumpFinal DEF CompleteTask
  <2>4. \A r \in LaneResult : ~FieldUnclonable(t, r) /\ ~OutputUnclonable(t, r)
    BY DEF DisciplinedLanes, FieldUnclonable, OutputUnclonable
  <2> QED BY <1>5, <2>2, <2>3, <2>4 DEF LaneSettles
<1>6. CASE UNCHANGED vars
  BY <1>6 DEF vars, FinalInv, AccountOf, Pending, FinalStatus
<1> QED BY <1>1, <1>2, <1>3, <1>4, <1>5, <1>6 DEF Next

LEMMA FinalInit == DisciplinedLanes /\ Init => FinalInv
<1> SUFFICES ASSUME DisciplinedLanes, NEW R \in SUBSET Task, StartFrom(R) PROVE FinalInv
  BY DEF Init
<1>1. RestoredPayload = {"json"}
  BY DEF RestoredPayload, DisciplinedLanes
<1>2. PICK kept \in [R -> {"json"}] :
        /\ outputs  = [t \in Task |-> IF t \in R THEN kept[t] ELSE NoOutput]
        /\ receipts = [t \in Task |-> IF t \in R THEN Filed(state[t], kept[t]) ELSE NoReceipt]
  BY <1>1 DEF StartFrom
<1>3. \A t \in R : kept[t] = "json"
  BY <1>2
<1>4. \A t \in Task : outputs[t] # "clonable" /\ receipts[t].payload = "json"
  BY <1>2, <1>3 DEF NoOutput, NoReceipt, Filed
<1> QED BY <1>4 DEF StartFrom, FinalInv, AccountOf, IsReusableState, IsDependencySatisfied,
                    IsDependencyFailed

LEMMA FinalAlways ==
  ASSUME DisciplinedLanes
  PROVE  Spec => []FinalInv
<1>1. AccountInv /\ FinalInv /\ [Next]_vars => FinalInv'
  BY FinalStep
<1> QED BY <1>1, FinalInit, AccountAlways, PTL DEF Spec

LEMMA FinalTruth == ProgressInv /\ FinalInv => FinalAccount
<1> SUFFICES ASSUME ProgressInv, FinalInv, finalized PROVE FinalAccount
  BY DEF FinalAccount
<1>1. active = {} /\ \A t \in Task : state[t] \notin {"", "PENDING", "RUNNING"}
  BY DEF ProgressInv, DecidedStatuses, FinalInv, Pending
<1>2. result = FinalStatus(state, cancelled)
  BY DEF FinalInv
<1>3. ~cancelled => \A t \in Task : state[t] # "CANCELLED"
  BY DEF FinalInv, AccountOf
<1>4. result = "CANCELLED" <=> cancelled
  BY <1>2 DEF FinalStatus
<1>5. result = "COMPLETED" <=>
        ~cancelled /\ \A t \in Task : IsDependencySatisfied(state[t])
  BY <1>1, <1>2, <1>3 DEF FinalStatus, IsDependencySatisfied, IsDependencyFailed
<1> QED BY <1>1, <1>4, <1>5 DEF FinalAccount

(* The receipt of a finished run is issued and tells the truth, for every  *)
(* graph and every order of settlements, pauses, resumes and cancels, if   *)
(* lanes return JSON with lists where _finalize goes through lists.        *)
THEOREM ReceiptsTellTheTruth ==
  ASSUME DisciplinedLanes
  PROVE  Spec => []FinalAccount
BY FinalTruth, FinalAlways, ProgressAlways, PTL
-----------------------------------------------------------------------------
(* What disciplined lanes are promised about their outcomes and about the  *)
(* end of their run.                                                       *)
RecordsOf(st, out, rc, ac) ==
  \A t \in Task : t \notin ac /\ st[t] # "PENDING" =>
    /\ rc[t].status = st[t]
    /\ IsDependencySatisfied(st[t]) => out[t] # NoOutput

(* A cancelled run is not paused, and is over once no lane is active.      *)
EndsOf(pz, cn, ac, fin) == cn => ~pz /\ (ac = {} => fin)

EndInv ==
  /\ RecordsOf(state, outputs, receipts, active)
  /\ EndsOf(paused, cancelled, active, finalized)

LEMMA PumpEnds ==
  ASSUME NEW st, NEW out, NEW rc, NEW ac, NEW used,
         NEW pz \in BOOLEAN, NEW cn \in BOOLEAN, cn => ~pz,
         RecordsOf(st, out, rc, ac),
         Pump(st, out, rc, ac, used, pz, cn)
  PROVE  EndInv'
<1>1. PICK settled, B, L :
        /\ B \in SUBSET Pending(st)
        /\ L \in SUBSET Pending(settled)
        /\ PumpEffect(st, out, rc, ac, used, pz, cn, settled, B, L)
  BY PumpShape
<1>2. /\ settled = Settle(st, B, cn)
      /\ cn => L = {}
      /\ state' = [t \in Task |-> IF t \in L THEN "RUNNING" ELSE settled[t]]
      /\ receipts' = [t \in Task |-> IF settled[t] # st[t] THEN FiledByPump(settled[t]) ELSE rc[t]]
      /\ outputs' = out /\ paused' = pz /\ cancelled' = cn /\ active' = ac \cup L
      /\ active' = {} /\ Pending(state') = {} => finalized'
  BY <1>1 DEF PumpEffect, Held, Finalize
<1>3. ASSUME NEW t \in Task, t \notin active', state'[t] # "PENDING"
      PROVE  /\ receipts'[t].status = state'[t]
             /\ IsDependencySatisfied(state'[t]) => outputs'[t] # NoOutput
  <2>1. t \notin L /\ t \notin ac /\ state'[t] = settled[t]
    BY <1>2, <1>3
  <2>2. CASE settled[t] = st[t]
    BY <1>2, <1>3, <2>1, <2>2 DEF RecordsOf
  <2>3. CASE settled[t] # st[t]
    <3>1. settled[t] \in {"BLOCKED_DEPENDENCY", "CANCELLED"}
      BY <1>2, <2>3 DEF Settle
    <3>2. receipts'[t].status = settled[t]
      BY <1>2, <2>3 DEF FiledByPump, Filed
    <3> QED BY <2>1, <3>1, <3>2 DEF IsDependencySatisfied, IsDependencyFailed
  <2> QED BY <2>2, <2>3
<1>4. cancelled' => ~paused' /\ (active' = {} => finalized')
  <2> SUFFICES ASSUME cn PROVE Pending(state') = {}
    BY <1>2
  <2>1. \A t \in Task : state'[t] # "PENDING"
    BY <1>2 DEF Settle
  <2> QED BY <2>1 DEF Pending
<1> QED BY <1>3, <1>4 DEF EndInv, RecordsOf, EndsOf

LEMMA EndStep ==
  ASSUME DisciplinedLanes, AccountInv, FinalInv, EndInv, [Next]_vars
  PROVE  EndInv'
<1>0. /\ paused \in BOOLEAN /\ cancelled \in BOOLEAN
      /\ cancelled => ~paused
      /\ RecordsOf(state, outputs, receipts, active)
  BY DEF AccountInv, TypeOK, EndInv, EndsOf
<1>1. CASE FirstPump
  <2>1. CASE finalized
    BY <1>1, <2>1 DEF FirstPump, EndInv, RecordsOf, EndsOf
  <2>2. CASE ~finalized
    BY <1>0, <1>1, <2>2, PumpEnds DEF FirstPump
  <2> QED BY <2>1, <2>2
<1>2. CASE Pause
  BY <1>2 DEF Pause, EndInv, RecordsOf, EndsOf
<1>3. CASE Resume
  BY <1>0, <1>3, PumpEnds DEF Resume
<1>4. CASE Cancel
  BY <1>0, <1>4, PumpEnds DEF Cancel
<1>5. ASSUME NEW t \in Task, LaneSettles(t) PROVE EndInv'
  <2>0. /\ state \in [Task -> TaskState] /\ receipts \in [Task -> Receipt \cup {NoReceipt}]
        /\ outputs \in [Task -> Storable \cup {NoOutput}]
    BY DEF AccountInv, TypeOK
  <2>1. CASE FailTask(t)
    <3>1. RecordsOf([state EXCEPT ![t] = FailureStatus(t)], outputs,
                    [receipts EXCEPT ![t] = FiledByPump(FailureStatus(t))], active \ {t})
      BY <1>0, <2>0 DEF RecordsOf, FailureStatus, IsDependencySatisfied, IsDependencyFailed,
                        FiledByPump, Filed
    <3> QED BY <1>0, <2>1, <3>1, PumpEnds DEF FailTask
  <2>2. ASSUME NEW r \in LaneResult, CompleteTask(t, r) PROVE EndInv'
    <3>1. r.payload = "json" /\ r.payload # NoOutput
      BY DEF DisciplinedLanes, NoOutput
    <3>2. RecordsOf([state EXCEPT ![t] = CompletionStatus(r)], [outputs EXCEPT ![t] = r.payload],
                    [receipts EXCEPT ![t] = Filed(CompletionStatus(r), r.payload)], active \ {t})
      BY <1>0, <2>0, <3>1 DEF RecordsOf, Filed
    <3> QED BY <1>0, <2>2, <3>2, PumpEnds DEF CompleteTask
  <2>3. \A r \in LaneResult : ~FieldUnclonable(t, r) /\ ~OutputUnclonable(t, r)
    BY DEF DisciplinedLanes, FieldUnclonable, OutputUnclonable
  <2> QED BY <1>5, <2>1, <2>2, <2>3 DEF LaneSettles
<1>6. CASE UNCHANGED vars
  BY <1>6 DEF vars, EndInv, RecordsOf, EndsOf
<1> QED BY <1>1, <1>2, <1>3, <1>4, <1>5, <1>6 DEF Next

LEMMA EndInit == Init => EndInv
<1> SUFFICES ASSUME Init PROVE EndInv
  OBVIOUS
<1>1. PICK R \in SUBSET Task : StartFrom(R)
  BY DEF Init
<1>2. \A t \in Task : t \in R \/ state[t] = "PENDING"
  BY <1>1 DEF StartFrom
<1>3. ASSUME NEW t \in R PROVE receipts[t].status = state[t] /\ outputs[t] # NoOutput
  <2>1. PICK kept \in [R -> RestoredPayload] :
          /\ outputs  = [u \in Task |-> IF u \in R THEN kept[u] ELSE NoOutput]
          /\ receipts = [u \in Task |-> IF u \in R THEN Filed(state[u], kept[u]) ELSE NoReceipt]
    BY <1>1 DEF StartFrom
  <2>2. t \in Task /\ kept[t] # NoOutput
    BY DEF RestoredPayload, NoOutput
  <2> QED BY <2>1, <2>2 DEF Filed
<1> QED BY <1>1, <1>2, <1>3 DEF StartFrom, EndInv, RecordsOf, EndsOf

LEMMA EndAlways ==
  ASSUME DisciplinedLanes
  PROVE  Spec => []EndInv
<1>1. AccountInv /\ FinalInv /\ EndInv /\ [Next]_vars => EndInv'
  BY EndStep
<1> QED BY <1>1, EndInit, AccountAlways, FinalAlways, PTL DEF Spec

(* A lane's outcome is never lost, if its values are JSON.                 *)
THEOREM OutcomesAreRecorded ==
  ASSUME DisciplinedLanes
  PROVE  Spec => []OutcomesRecorded
<1>1. EndInv => OutcomesRecorded
  BY DEF EndInv, RecordsOf, OutcomesRecorded
<1> QED BY <1>1, EndAlways, PTL

(* A run that is over has told its caller, if lanes return JSON and lists  *)
(* for contradictions and proposed changes.                                *)
THEOREM FinalizedRunsResolve ==
  ASSUME DisciplinedLanes
  PROVE  Spec => []FinalizedResolves
<1>1. FinalInv => FinalizedResolves
  BY DEF FinalInv, FinalizedResolves, FinalStatus, Unresolved
<1> QED BY <1>1, FinalAlways, PTL

(* What RunEnds and CancelEnds say of a state in which nothing will happen *)
(* by itself: the run is paused and not cancelled, or its caller has been  *)
(* told, CANCELLED if it was cancelled.  Disciplined lanes again: one that *)
(* returns a string for contradictions leaves a run over and unresolved.   *)
QuietRunHasEnded ==
  /\ active = {} /\ ~pumpQueued /\ ~paused => result # Unresolved
  /\ active = {} /\ cancelled => result = "CANCELLED"

THEOREM QuietRunsHaveEnded ==
  ASSUME DisciplinedLanes
  PROVE  Spec => []QuietRunHasEnded
<1>1. ProgressInv /\ FinalInv /\ EndInv => QuietRunHasEnded
  BY DEF ProgressInv, NoStall, FinalInv, EndInv, EndsOf, QuietRunHasEnded, FinalStatus, Unresolved
<1> QED BY <1>1, ProgressAlways, FinalAlways, EndAlways, PTL

(* The tasks a run has still to decide.                                    *)
Undecided(st) == {t \in Task : st[t] \in {"PENDING", "RUNNING"}}

(* The measure behind RunEnds: no step makes a decided task undecided, and *)
(* each lane that leaves decides its task, so a run of N tasks sees at     *)
(* most N settlements.                                                     *)
WindsDown ==
  [][/\ Undecided(state') \subseteq Undecided(state)
     /\ active \ active' \subseteq Undecided(state) \ Undecided(state')]_vars

LEMMA PumpDecides ==
  ASSUME NEW st, NEW out, NEW rc, NEW ac, NEW used, NEW pz, NEW cn,
         Pump(st, out, rc, ac, used, pz, cn)
  PROVE  Undecided(state') \subseteq Undecided(st) /\ ac \subseteq active'
<1>1. PICK settled, B, L :
        /\ B \in SUBSET Pending(st)
        /\ L \in SUBSET Pending(settled)
        /\ PumpEffect(st, out, rc, ac, used, pz, cn, settled, B, L)
  BY PumpShape
<1>2. \A t \in Task : settled[t] = "PENDING" => st[t] = "PENDING"
  BY <1>1 DEF PumpEffect, Settle
<1>3. \A t \in Task : settled[t] = "RUNNING" => st[t] = "RUNNING"
  BY <1>1 DEF PumpEffect, Settle
<1> QED BY <1>1, <1>2, <1>3 DEF PumpEffect, Undecided, Pending

LEMMA WindsDownStep ==
  ASSUME DisciplinedLanes, AccountInv, [Next]_vars
  PROVE  /\ Undecided(state') \subseteq Undecided(state)
         /\ active \ active' \subseteq Undecided(state) \ Undecided(state')
<1>1. CASE FirstPump
  BY <1>1, PumpDecides DEF FirstPump
<1>2. CASE Pause \/ UNCHANGED vars
  BY <1>2 DEF Pause, vars
<1>3. CASE Resume
  BY <1>3, PumpDecides DEF Resume
<1>4. CASE Cancel
  BY <1>4, PumpDecides DEF Cancel
<1>5. ASSUME NEW t \in Task, LaneSettles(t)
      PROVE  /\ Undecided(state') \subseteq Undecided(state)
             /\ active \ active' \subseteq Undecided(state) \ Undecided(state')
  <2>1. t \in Undecided(state) /\ state \in [Task -> TaskState]
    BY <1>5 DEF LaneSettles, FailTask, CompleteTask, FieldUnclonable, OutputUnclonable,
                Leave, AccountInv, TypeOK, ActiveRunning, Undecided
  <2>2. ASSUME NEW s, s \notin {"PENDING", "RUNNING"}
        PROVE  Undecided([state EXCEPT ![t] = s]) = Undecided(state) \ {t}
    BY <2>1, <2>2 DEF Undecided
  <2>3. CASE FailTask(t)
    <3>1. FailureStatus(t) \notin {"PENDING", "RUNNING"}
      BY DEF FailureStatus
    <3>2. /\ Undecided(state') \subseteq Undecided([state EXCEPT ![t] = FailureStatus(t)])
          /\ active \ {t} \subseteq active'
      BY <2>3, PumpDecides DEF FailTask
    <3> QED BY <2>1, <2>2, <3>1, <3>2
  <2>4. ASSUME NEW r \in LaneResult, CompleteTask(t, r)
        PROVE  /\ Undecided(state') \subseteq Undecided(state)
               /\ active \ active' \subseteq Undecided(state) \ Undecided(state')
    <3>1. CompletionStatus(r) \notin {"PENDING", "RUNNING"}
      BY DEF DisciplinedLanes, CompletionStatus
    <3>2. /\ Undecided(state') \subseteq Undecided([state EXCEPT ![t] = CompletionStatus(r)])
          /\ active \ {t} \subseteq active'
      BY <2>4, PumpDecides DEF CompleteTask
    <3> QED BY <2>1, <2>2, <3>1, <3>2
  <2>5. \A r \in LaneResult : ~FieldUnclonable(t, r) /\ ~OutputUnclonable(t, r)
    BY DEF DisciplinedLanes, FieldUnclonable, OutputUnclonable
  <2> QED BY <1>5, <2>3, <2>4, <2>5 DEF LaneSettles
<1> QED BY <1>1, <1>2, <1>3, <1>4, <1>5 DEF Next

(* With NeverStalls this is why a run that is not left paused ends: there  *)
(* is a lane to wait for, and only finitely many will be waited for.       *)
THEOREM RunsWindDown ==
  ASSUME DisciplinedLanes
  PROVE  Spec => WindsDown
<1>1. AccountInv /\ [Next]_vars =>
        [/\ Undecided(state') \subseteq Undecided(state)
         /\ active \ active' \subseteq Undecided(state) \ Undecided(state')]_vars
  BY WindsDownStep
<1> QED BY <1>1, AccountAlways, PTL DEF Spec, WindsDown
-----------------------------------------------------------------------------
LEMMA SameTasks == Abs!Task = Task
BY DEF Abs!Task, Task

LEMMA SameLoad == ASSUME NEW S PROVE Abs!Load(S) = Load(S)
BY DEF Abs!Load, Load, Abs!Prefix, Prefix, Abs!Charge, Charge, Abs!Task, Task

(* The phase of a task, from the statuses st and the active tasks ac.      *)
PhaseOf(st, ac, t) ==
  CASE st[t] = "PENDING" -> "waiting"
    [] t \in ac -> "running"
    [] IsDependencySatisfied(st[t]) -> "done"
    [] OTHER -> "dead"

(* Active tasks are running, so the cases exclude each other.              *)
LEMMA Phases ==
  ASSUME NEW st, NEW ac, NEW t, t \in ac => st[t] = "RUNNING"
  PROVE  /\ PhaseOf(st, ac, t) = "waiting" <=> st[t] = "PENDING"
         /\ PhaseOf(st, ac, t) = "running" <=> t \in ac
         /\ PhaseOf(st, ac, t) = "done" <=> IsDependencySatisfied(st[t])
         /\ PhaseOf(st, ac, t) = "dead" <=>
              st[t] # "PENDING" /\ t \notin ac /\ ~IsDependencySatisfied(st[t])
         /\ PhaseOf(st, ac, t) \in {"waiting", "running", "done", "dead"}
<1>1. CASE st[t] = "PENDING"
  BY <1>1 DEF PhaseOf, IsDependencySatisfied
<1>2. CASE t \in ac
  BY <1>2 DEF PhaseOf, IsDependencySatisfied
<1>3. CASE st[t] # "PENDING" /\ t \notin ac /\ IsDependencySatisfied(st[t])
  BY <1>3 DEF PhaseOf
<1>4. CASE st[t] # "PENDING" /\ t \notin ac /\ ~IsDependencySatisfied(st[t])
  BY <1>4 DEF PhaseOf
<1> QED BY <1>1, <1>2, <1>3, <1>4

(* How the arguments of a pump relate to the session before the handler:   *)
(* they are its state, or that of one lane that has just been decided.     *)
Decided(st, ac) ==
  /\ ac \subseteq active
  /\ \A t \in Task :
       \/ st[t] = state[t] /\ (t \in active => t \in ac)
       \/ t \in active \ ac /\ st[t] \notin {"", "PENDING", "RUNNING"}

LEMMA PumpImplements ==
  ASSUME NEW st, NEW out, NEW rc, NEW ac, NEW used,
         NEW pz \in BOOLEAN, NEW cn \in BOOLEAN,
         AccountInv, DecidedStatuses(state, active), ~finalized,
         Decided(st, ac), cancelled => cn,
         AccountInv', DependencyOrder',
         Pump(st, out, rc, ac, used, pz, cn)
  PROVE  Abs!Advance
<1>1. PICK settled, B, L :
        /\ B \in SUBSET Pending(st)
        /\ L \in SUBSET Pending(settled)
        /\ PumpEffect(st, out, rc, ac, used, pz, cn, settled, B, L)
  BY PumpShape
<1>2. /\ settled = Settle(st, B, cn) /\ IsBlockedSet(st, B)
      /\ state' = [t \in Task |-> IF t \in L THEN "RUNNING" ELSE settled[t]]
      /\ active' = ac \cup L /\ cancelled' = cn /\ paused' = pz
      /\ IF active' = {} /\ Pending(state') = {}
           THEN finalized' = TRUE ELSE finalized' = finalized
  BY <1>1 DEF PumpEffect, Finalize
<1>3. /\ ActiveRunning /\ active \subseteq Task
      /\ ActiveRunning' /\ active' \subseteq Task
      /\ finalized \in BOOLEAN /\ cancelled \in BOOLEAN
  BY DEF AccountInv, TypeOK
<1> DEFINE Old(t) == PhaseOf(state, active, t)
           New(t) == PhaseOf(state', active', t)
<1>4. ASSUME NEW t \in Task
      PROVE  /\ Old(t) = "waiting" <=> state[t] = "PENDING"
             /\ Old(t) = "running" <=> t \in active
             /\ Old(t) = "done" <=> IsDependencySatisfied(state[t])
             /\ Old(t) = "dead" <=> state[t] # "PENDING" /\ t \notin active
                                    /\ ~IsDependencySatisfied(state[t])
             /\ Old(t) \in {"waiting", "running", "done", "dead"}
  BY <1>3, Phases DEF ActiveRunning
<1>5. ASSUME NEW t \in Task
      PROVE  /\ New(t) = "waiting" <=> state'[t] = "PENDING"
             /\ New(t) = "running" <=> t \in active'
             /\ New(t) = "done" <=> IsDependencySatisfied(state'[t])
             /\ New(t) = "dead" <=> state'[t] # "PENDING" /\ t \notin active'
                                    /\ ~IsDependencySatisfied(state'[t])
             /\ New(t) \in {"waiting", "running", "done", "dead"}
  BY <1>3, Phases DEF ActiveRunning
<1> HIDE DEF Old, New
<1>6. ASSUME NEW t \in Task PROVE New(t) = Old(t) \/ <<Old(t), New(t)>> \in Abs!Move
  <2>1. CASE t \in L
    <3>1. st[t] = "PENDING" /\ settled[t] = "PENDING"
      BY <1>1, <1>2, <2>1 DEF Settle, Pending
    <3>2. Old(t) = "waiting"
      BY <1>4, <3>1 DEF Decided
    <3>3. New(t) = "running"
      BY <1>2, <1>5, <2>1
    <3> QED BY <3>2, <3>3 DEF Abs!Move
  <2>2. CASE t \notin L /\ st[t] = "PENDING"
    <3>1. Old(t) = "waiting" /\ t \notin active'
      BY <1>2, <1>3, <1>4, <2>2 DEF Decided, ActiveRunning
    <3>2. state'[t] \in {"PENDING", "BLOCKED_DEPENDENCY", "CANCELLED"}
      BY <1>2, <2>2 DEF Settle
    <3>3. New(t) \in {"waiting", "dead"}
      BY <1>5, <3>1, <3>2 DEF IsDependencySatisfied, IsDependencyFailed
    <3> QED BY <3>1, <3>3 DEF Abs!Move
  <2>3. CASE t \notin L /\ st[t] # "PENDING"
    <3>1. state'[t] = st[t] /\ (t \in active' <=> t \in ac)
      BY <1>1, <1>2, <2>3 DEF Settle, Pending
    <3>2. CASE st[t] = state[t] /\ (t \in active => t \in ac)
      <4>1. t \in active' <=> t \in active
        BY <3>1, <3>2 DEF Decided
      <4> QED BY <1>4, <1>5, <3>1, <3>2, <4>1
    <3>3. CASE t \in active \ ac /\ st[t] \notin {"", "PENDING", "RUNNING"}
      <4>1. Old(t) = "running" /\ New(t) \in {"done", "dead"}
        BY <1>4, <1>5, <3>1, <3>3
      <4> QED BY <4>1 DEF Abs!Move
    <3> QED BY <3>2, <3>3 DEF Decided
  <2> QED BY <2>1, <2>2, <2>3
<1>7. ASSUME NEW t \in Task, New(t) = "running", NEW d \in Deps[t]
      PROVE  d \in Task /\ New(d) = "done"
  BY <1>5, <1>7, DepsAssumption DEF DependencyOrder
<1>8. ASSUME NEW t \in Task, Old(t) = "waiting", New(t) = "dead"
      PROVE  cn \/ \E d \in Deps[t] : d \in Task /\ New(d) = "dead"
  <2>1. st[t] = "PENDING" /\ t \notin L
    BY <1>2, <1>3, <1>4, <1>5, <1>8 DEF Decided, ActiveRunning
  <2>2. CASE t \in B
    <3>1. PICK d \in Deps[t] : IsDependencyFailed(st[d]) \/ d \in B
      BY <1>2, <2>2 DEF IsBlockedSet
    <3>2. d \in Task
      BY DepsAssumption
    <3>3. IsDependencyFailed(settled[d]) /\ settled[d] # "PENDING"
      BY <1>1, <1>2, <3>1, <3>2 DEF Settle, IsDependencyFailed, Pending
    <3>4. IsDependencyFailed(state'[d]) /\ state'[d] # "RUNNING"
      BY <1>1, <1>2, <3>2, <3>3 DEF Pending, IsDependencyFailed
    <3>5. New(d) = "dead"
      BY <1>3, <1>5, <3>2, <3>4
      DEF ActiveRunning, IsDependencyFailed, IsDependencySatisfied
    <3> QED BY <3>2, <3>5
  <2>3. CASE t \notin B /\ ~cn
    BY <1>2, <1>5, <1>8, <2>1, <2>3 DEF Settle
  <2> QED BY <2>2, <2>3
<1>9. cn => active' \subseteq active
  BY <1>2, HeldPump DEF Decided
<1>10. \A c \in Class : Load(active')[c] <= Limit[c]
  BY DEF AccountInv, ResourceAccounting
<1>11. finalized' = (Pending(state') \cup active' = {})
  <2>1. CASE active' = {} /\ Pending(state') = {}
    BY <1>2, <2>1
  <2>2. CASE ~(active' = {} /\ Pending(state') = {})
    <3>1. finalized' = FALSE
      BY <1>2, <1>3, <2>2
    <3> QED BY <2>2, <3>1
  <2> QED BY <2>1, <2>2
<1> DEFINE was == [t \in Task |-> Phase(t)]
           is == [t \in Task |-> Phase(t)']
<1>12. /\ \A t \in Task : was[t] = Old(t) /\ is[t] = New(t)
       /\ was' = is
  BY DEF Phase, PhaseOf, Old, New
<1>13. /\ Abs!In(was, "waiting") = Pending(state) /\ Abs!In(is, "waiting") = Pending(state')
       /\ Abs!In(was, "running") = active /\ Abs!In(is, "running") = active'
  BY <1>3, <1>4, <1>5, <1>12, SameTasks DEF Abs!In, Pending
<1>14. is \in [Abs!Task -> {"waiting", "running", "done", "dead"}]
  BY <1>5, <1>12, SameTasks
<1>15. \A t \in Abs!Task : is[t] = was[t] \/ <<was[t], is[t]>> \in Abs!Move
  BY <1>6, <1>12, SameTasks
<1>16. \A t \in Abs!In(is, "running") : Deps[t] \subseteq Abs!In(is, "done")
  BY <1>7, <1>12, SameTasks DEF Abs!In
<1>17. \A t \in Abs!In(was, "waiting") \cap Abs!In(is, "dead") :
         cancelled' \/ \E d \in Deps[t] : is[d] = "dead"
  BY <1>2, <1>8, <1>12, SameTasks DEF Abs!In
<1>18. Abs!Within(active')
  BY <1>10, SameLoad DEF Abs!Within
<1>19. finalized' = (Abs!In(is, "waiting") \cup Abs!In(is, "running") = {})
  BY <1>11, <1>13
<1>20. cancelled' \in BOOLEAN /\ (cancelled => cancelled')
       /\ (cancelled' => active' \subseteq active)
  BY <1>2, <1>9
<1> HIDE DEF was, is
<1>21. /\ ~finalized
       /\ was' \in [Abs!Task -> {"waiting", "running", "done", "dead"}]
       /\ \A t \in Abs!Task : was'[t] = was[t] \/ <<was[t], was'[t]>> \in Abs!Move
       /\ \A t \in Abs!In(was', "running") : Deps[t] \subseteq Abs!In(was', "done")
       /\ \A t \in Abs!In(was, "waiting") \cap Abs!In(was', "dead") :
            cancelled' \/ \E d \in Deps[t] : was'[d] = "dead"
       /\ cancelled' \in BOOLEAN
       /\ cancelled => cancelled'
       /\ cancelled' => Abs!In(was', "running") \subseteq Abs!In(was, "running")
       /\ Abs!Within(Abs!In(was', "running"))
       /\ finalized' = (Abs!In(was', "waiting") \cup Abs!In(was', "running") = {})
  BY <1>12, <1>13, <1>14, <1>15, <1>16, <1>17, <1>18, <1>19, <1>20
<1> QED BY <1>21 DEF Abs!Advance, was
-----------------------------------------------------------------------------
(* The invariant under which the handlers are mapped. *)
MapInv == ProgressInv /\ DependencyOrder /\ FinalInv

LEMMA MapStep ==
  ASSUME DisciplinedLanes, MapInv, MapInv', [Next]_vars
  PROVE  Abs!Advance \/ UNCHANGED Abs!absVars
<1>0. /\ AccountInv /\ DecidedStatuses(state, active)
      /\ AccountInv' /\ DependencyOrder' /\ FinalInv
      /\ paused \in BOOLEAN /\ cancelled \in BOOLEAN
  BY DEF MapInv, ProgressInv, AccountInv, TypeOK
<1>a. ASSUME UNCHANGED <<state, active, cancelled, finalized>>
      PROVE  UNCHANGED Abs!absVars
  BY <1>a DEF Abs!absVars, Phase
<1>b. Decided(state, active)
  BY DEF Decided
<1>1. CASE FirstPump
  <2>1. CASE finalized
    BY <1>1, <1>a, <2>1 DEF FirstPump
  <2>2. CASE ~finalized
    BY <1>0, <1>1, <1>b, <2>2, PumpImplements DEF FirstPump
  <2> QED BY <2>1, <2>2
<1>2. CASE Pause
  BY <1>2, <1>a DEF Pause
<1>3. CASE Resume
  BY <1>0, <1>3, <1>b, PumpImplements DEF Resume
<1>4. CASE Cancel
  BY <1>0, <1>4, <1>b, PumpImplements DEF Cancel
<1>5. ASSUME NEW t \in Task, LaneSettles(t) PROVE Abs!Advance
  <2>0. t \in active /\ ~finalized
    BY <1>0, <1>5
    DEF LaneSettles, FailTask, CompleteTask, FieldUnclonable, OutputUnclonable, Leave, FinalInv
  <2>1. ASSUME NEW s, s \notin {"", "PENDING", "RUNNING"}
        PROVE  Decided([state EXCEPT ![t] = s], active \ {t})
    BY <1>0, <2>0, <2>1 DEF Decided, AccountInv, TypeOK
  <2>2. CASE FailTask(t)
    <3>1. Decided([state EXCEPT ![t] = FailureStatus(t)], active \ {t})
      BY <2>1 DEF FailureStatus
    <3> QED BY <1>0, <2>0, <2>2, <3>1, PumpImplements DEF FailTask
  <2>3. ASSUME NEW r \in LaneResult, CompleteTask(t, r) PROVE Abs!Advance
    <3>1. Decided([state EXCEPT ![t] = CompletionStatus(r)], active \ {t})
      BY <2>1 DEF DisciplinedLanes, CompletionStatus
    <3> QED BY <1>0, <2>0, <2>3, <3>1, PumpImplements DEF CompleteTask
  <2>4. \A r \in LaneResult : ~FieldUnclonable(t, r) /\ ~OutputUnclonable(t, r)
    BY DEF DisciplinedLanes, FieldUnclonable, OutputUnclonable
  <2> QED BY <1>5, <2>2, <2>3, <2>4 DEF LaneSettles
<1>6. CASE UNCHANGED vars
  BY <1>6, <1>a DEF vars
<1> QED BY <1>1, <1>2, <1>3, <1>4, <1>5, <1>6 DEF Next

LEMMA MapInit ==
  ASSUME DisciplinedLanes, Init
  PROVE  Abs!AbsInit
<1>1. PICK R \in SUBSET Task : DownwardClosed(R) /\ StartFrom(R)
  BY MarkOfTheDisciplined DEF Init, Restorable
<1>2. active = {} /\ cancelled = FALSE /\ finalized = FALSE
  BY <1>1 DEF StartFrom
<1>3. ASSUME NEW t \in Task
      PROVE  /\ t \in R => Phase(t) = "done"
             /\ t \notin R => Phase(t) = "waiting"
  BY <1>1, <1>2 DEF StartFrom, Phase, IsReusableState, IsDependencySatisfied
<1>4. \A t \in R : Deps[t] \subseteq R
  BY <1>1 DEF DownwardClosed
<1> QED BY <1>2, <1>3, <1>4, SameTasks DEF Abs!AbsInit, Abs!In

(* To its caller a session of disciplined lanes is a run of the abstract   *)
(* graph: each task at most once and after its dependencies, within the    *)
(* limits, given up only for a cause, nothing started once stopped, and    *)
(* closed exactly when nothing waits or runs.                              *)
THEOREM SessionImplementsDagRun ==
  ASSUME DisciplinedLanes
  PROVE  Spec => ImplementsDagRun
<1>1. Spec => []MapInv
  BY MarkOfTheDisciplined, ProgressAlways, DependenciesFirst, FinalAlways, PTL DEF MapInv
<1>2. Init => Abs!AbsInit
  BY MapInit
<1>3. MapInv /\ MapInv' /\ [Next]_vars => [Abs!Advance]_(Abs!absVars)
  BY MapStep
<1> QED BY <1>1, <1>2, <1>3, PTL DEF Spec, ImplementsDagRun, Abs!AbsSpec
-----------------------------------------------------------------------------
(* What is true at some index and kept from each to the next is true of    *)
(* all that follow.                                                        *)
LEMMA Kept ==
  ASSUME NEW n \in Nat, NEW m \in 0..n, NEW f, NEW S, f[m] \in S,
         \A k \in (m + 1)..n : f[k - 1] \in S => f[k] \in S
  PROVE  \A k \in m..n : f[k] \in S
<1> DEFINE T == {k \in Nat : m <= k /\ k <= n => f[k] \in S}
<1>1. 0 \in T
  OBVIOUS
<1>2. ASSUME NEW k \in Nat, k \in T PROVE k + 1 \in T
  <2>1. (k + 1) - 1 = k
    OBVIOUS
  <2>2. CASE m <= k /\ k + 1 <= n
    <3>1. f[k] \in S /\ k + 1 \in (m + 1)..n
      BY <1>2, <2>2
    <3> QED BY <2>1, <3>1
  <2>3. CASE ~(m <= k /\ k + 1 <= n)
    <3>1. CASE m = k + 1
      BY <3>1
    <3>2. CASE m # k + 1
      BY <2>3, <3>2
    <3> QED BY <3>1, <3>2
  <2> QED BY <2>2, <2>3
<1>3. Nat \subseteq T
  <2> HIDE DEF T
  <2> QED BY <1>1, <1>2, NatSetInduction
<1> QED BY <1>3

(* A recursion that stays within a set, step by step, is defined.          *)
Follows(f, n, S, x, F) ==
  /\ f \in [0..n -> S]
  /\ f = [k \in 0..n |-> IF k = 0 THEN x ELSE F[k][f[k - 1]]]

LEMMA Recursion ==
  ASSUME NEW S, NEW x \in S, NEW m \in Nat, NEW F \in [1..m -> [S -> S]]
  PROVE  \E f : Follows(f, m, S, x, F)
<1> DEFINE T == {n \in Nat : n <= m => \E f : Follows(f, n, S, x, F)}
<1>1. 0 \in T
  <2>1. Follows([k \in 0..0 |-> x], 0, S, x, F)
    BY DEF Follows
  <2> QED BY <2>1
<1>2. ASSUME NEW n \in Nat, n \in T PROVE n + 1 \in T
  <2> SUFFICES ASSUME n + 1 <= m PROVE \E f : Follows(f, n + 1, S, x, F)
    OBVIOUS
  <2>1. PICK f : Follows(f, n, S, x, F)
    BY <1>2
  <2> DEFINE g == [k \in 0..(n + 1) |-> IF k = n + 1 THEN F[n + 1][f[n]] ELSE f[k]]
  <2>2. /\ f \in [0..n -> S]
        /\ \A k \in 0..n : f[k] = IF k = 0 THEN x ELSE F[k][f[k - 1]]
    BY <2>1 DEF Follows
  <2>3. n + 1 \in 1..m /\ F[n + 1] \in [S -> S] /\ f[n] \in S
    BY <2>2
  <2>4. g \in [0..(n + 1) -> S]
    <3>1. \A k \in 0..(n + 1) : k # n + 1 => k \in 0..n
      OBVIOUS
    <3> QED BY <2>2, <2>3, <3>1
  <2>5. ASSUME NEW k \in 0..(n + 1)
        PROVE  g[k] = IF k = 0 THEN x ELSE F[k][g[k - 1]]
    <3>1. CASE k = n + 1
      BY <3>1
    <3>2. CASE k # n + 1
      <4>1. k \in 0..n /\ (k # 0 => k - 1 \in 0..n /\ k - 1 # n + 1)
        BY <3>2
      <4>2. g[k] = f[k] /\ (k # 0 => g[k - 1] = f[k - 1])
        BY <3>2, <4>1
      <4> HIDE DEF g
      <4> QED BY <2>2, <4>1, <4>2
    <3> QED BY <3>1, <3>2
  <2>6. Follows(g, n + 1, S, x, F)
    <3>1. g = [k \in 0..(n + 1) |-> g[k]]
      OBVIOUS
    <3> HIDE DEF g
    <3> QED BY <2>4, <2>5, <3>1 DEF Follows
  <2> HIDE DEF g
  <2> QED BY <2>6
<1>3. Nat \subseteq T
  <2> HIDE DEF T
  <2> QED BY <1>1, <1>2, NatSetInduction
<1> QED BY <1>3
-----------------------------------------------------------------------------

(* The blocking loop.  What it can reach from st: pending tasks are        *)
(* blocked, each for a dependency that has failed.                         *)
Doomed(s, t) == s[t] = "PENDING" /\ \E d \in Deps[t] : IsDependencyFailed(s[d])

Blocking(st) ==
  {s \in [Task -> TaskState] :
     \A t \in Task :
       \/ s[t] = st[t]
       \/ /\ st[t] = "PENDING" /\ s[t] = "BLOCKED_DEPENDENCY"
          /\ \E d \in Deps[t] : IsDependencyFailed(s[d])}

LEMMA DepsAreTasks == \A t \in Task : Deps[t] \subseteq Task
BY DepsAssumption

LEMMA BlockOneEffect ==
  ASSUME NEW s \in [Task -> TaskState], NEW t \in Task
  PROVE  /\ BlockOne(s, t) \in [Task -> TaskState]
         /\ \A u \in Task : u # t => BlockOne(s, t)[u] = s[u]
         /\ BlockOne(s, t)[t] = IF Doomed(s, t) THEN "BLOCKED_DEPENDENCY" ELSE s[t]
BY DEF BlockOne, Doomed, TaskState, SchedulerState

(* What has failed stays failed.                                           *)
LEMMA FailedStays ==
  ASSUME NEW s \in [Task -> TaskState], NEW t \in Task,
         NEW d \in Task, IsDependencyFailed(s[d])
  PROVE  IsDependencyFailed(BlockOne(s, t)[d])
<1>1. CASE d = t
  <2>1. ~Doomed(s, t)
    BY <1>1 DEF Doomed, IsDependencyFailed
  <2> QED BY <1>1, <2>1, BlockOneEffect
<1>2. CASE d # t
  BY <1>2, BlockOneEffect
<1> QED BY <1>1, <1>2

LEMMA BlockOneStays ==
  ASSUME NEW st \in [Task -> TaskState], NEW s \in Blocking(st), NEW t \in Task
  PROVE  BlockOne(s, t) \in Blocking(st)
<1> DEFINE q == BlockOne(s, t)
<1>0. s \in [Task -> TaskState]
  BY DEF Blocking
<1>1. /\ q \in [Task -> TaskState]
      /\ \A u \in Task : u # t => q[u] = s[u]
      /\ q[t] = IF Doomed(s, t) THEN "BLOCKED_DEPENDENCY" ELSE s[t]
  BY <1>0, BlockOneEffect
<1>2. \A d \in Task : IsDependencyFailed(s[d]) => IsDependencyFailed(q[d])
  BY <1>0, FailedStays
<1> HIDE DEF q
<1>3. ASSUME NEW u \in Task
      PROVE  \/ q[u] = st[u]
             \/ /\ st[u] = "PENDING" /\ q[u] = "BLOCKED_DEPENDENCY"
                /\ \E d \in Deps[u] : IsDependencyFailed(q[d])
  <2>1. CASE u = t /\ Doomed(s, t)
    <3>1. PICK d \in Deps[t] : IsDependencyFailed(s[d])
      BY <2>1 DEF Doomed
    <3>2. IsDependencyFailed(q[d])
      BY <1>2, <3>1, DepsAreTasks
    <3>3. st[t] = "PENDING"
      BY <2>1 DEF Doomed, Blocking
    <3> QED BY <1>1, <2>1, <3>2, <3>3
  <2>2. CASE ~(u = t /\ Doomed(s, t))
    <3>1. q[u] = s[u]
      BY <1>1, <2>2
    <3>2. CASE s[u] = st[u]
      BY <3>1, <3>2
    <3>3. CASE s[u] # st[u]
      <4>1. /\ st[u] = "PENDING" /\ s[u] = "BLOCKED_DEPENDENCY"
            /\ \E d \in Deps[u] : IsDependencyFailed(s[d])
        BY <3>3 DEF Blocking
      <4> QED BY <1>2, <3>1, <4>1, DepsAreTasks
    <3> QED BY <3>2, <3>3
  <2> QED BY <2>1, <2>2
<1>4. q \in Blocking(st)
  BY <1>1, <1>3 DEF Blocking
<1> QED BY <1>4 DEF q

LEMMA StartsBlocking ==
  ASSUME NEW st \in [Task -> TaskState]
  PROVE  st \in Blocking(st)
BY DEF Blocking

(* A pass, task by task.                                                   *)
IsBlockPass(after, s, st) ==
  /\ after \in [0..N -> Blocking(st)]
  /\ after[0] = s /\ after[N] = BlockPass(s)
  /\ \A t \in Task : after[t] = BlockOne(after[t - 1], t)

LEMMA BlockPassDefined ==
  ASSUME NEW st \in [Task -> TaskState], NEW s \in Blocking(st)
  PROVE  \E after : IsBlockPass(after, s, st)
<1> DEFINE P == Blocking(st)
           F == [t \in 1..N |-> [q \in P |-> BlockOne(q, t)]]
           Eq(f) == f = [t \in 0..N |-> IF t = 0 THEN s ELSE BlockOne(f[t - 1], t)]
<1>0. N \in Nat
  BY ResourceAssumption
<1>1. F \in [1..N -> [P -> P]]
  BY BlockOneStays DEF Task
<1>2. PICK f : Follows(f, N, P, s, F)
  <2> HIDE DEF F, P
  <2>1. s \in P
    BY DEF P
  <2> QED BY <1>0, <1>1, <2>1, Recursion
<1>3. Eq(f)
  <2>1. f = [t \in 0..N |-> IF t = 0 THEN s ELSE F[t][f[t - 1]]]
    BY <1>2 DEF Follows
  <2>2. ASSUME NEW t \in 0..N, t # 0
        PROVE  F[t][f[t - 1]] = BlockOne(f[t - 1], t)
    <3>1. t \in 1..N /\ t - 1 \in 0..N
      BY <1>0, <2>2
    <3>2. f[t - 1] \in P
      BY <1>2, <3>1 DEF Follows
    <3> QED BY <3>1, <3>2
  <2> HIDE DEF F, P
  <2> QED BY <2>1, <2>2
<1> DEFINE g == CHOOSE h : Eq(h)
<1>4. Eq(g)
  <2> HIDE DEF Eq
  <2> QED BY <1>3
<1>5. BlockPass(s) = g[N]
  BY DEF BlockPass
<1> HIDE DEF g
<1>6. g[0] = s /\ \A t \in Task : g[t] = BlockOne(g[t - 1], t)
  <2>1. \A t \in 0..N : g[t] = IF t = 0 THEN s ELSE BlockOne(g[t - 1], t)
    BY <1>4
  <2>2. 0 \in 0..N /\ \A t \in Task : t \in 0..N /\ t # 0
    BY <1>0 DEF Task
  <2> QED BY <2>1, <2>2
<1>7. \A t \in 0..N : g[t] \in P
  <2>1. \A t \in (0 + 1)..N : g[t - 1] \in P => g[t] \in P
    BY <1>0, <1>6, BlockOneStays DEF Task
  <2>2. g[0] \in P
    BY <1>6
  <2> HIDE DEF P
  <2> QED BY <1>0, <2>1, <2>2, Kept
<1>8. g \in [0..N -> P]
  BY <1>4, <1>7
<1> QED BY <1>5, <1>6, <1>8 DEF IsBlockPass

LEMMA BlockPassFacts ==
  ASSUME NEW st \in [Task -> TaskState], NEW s \in Blocking(st)
  PROVE  /\ BlockPass(s) \in Blocking(st)
         /\ \A t \in Task : s[t] # "PENDING" => BlockPass(s)[t] = s[t]
         /\ \A t \in Task : Doomed(s, t) => BlockPass(s)[t] # "PENDING"
         /\ (\A t \in Task : ~Doomed(s, t)) => BlockPass(s) = s
<1>0. N \in Nat /\ 0 \in 0..N /\ N \in 0..N /\ s \in [Task -> TaskState]
  BY ResourceAssumption DEF Blocking
<1>1. PICK after : IsBlockPass(after, s, st)
  BY BlockPassDefined
<1>2. /\ after \in [0..N -> Blocking(st)]
      /\ after[0] = s /\ after[N] = BlockPass(s)
      /\ \A t \in Task : after[t] = BlockOne(after[t - 1], t)
  BY <1>1 DEF IsBlockPass
<1>3. \A u \in Task : u - 1 \in 0..N /\ u \in 0..N /\ after[u - 1] \in [Task -> TaskState]
  BY <1>0, <1>2 DEF Task, Blocking
<1>4. ASSUME NEW t \in Task, NEW m \in 0..N, after[m][t] # "PENDING"
      PROVE  BlockPass(s)[t] = after[m][t]
  <2> DEFINE S == {q \in Blocking(st) : q[t] = after[m][t]}
  <2>1. ASSUME NEW u \in (m + 1)..N, after[u - 1] \in S PROVE after[u] \in S
    <3>1. u \in Task /\ u \in 0..N /\ after[u] = BlockOne(after[u - 1], u)
      BY <1>0, <1>2 DEF Task
    <3>2. after[u - 1] \in [Task -> TaskState] /\ after[u - 1][t] = after[m][t]
      BY <1>3, <2>1, <3>1
    <3>3. ~(u = t /\ Doomed(after[u - 1], u))
      BY <1>4, <3>2 DEF Doomed
    <3>4. BlockOne(after[u - 1], u)[t] = after[u - 1][t]
      BY <3>1, <3>2, <3>3, BlockOneEffect
    <3> QED BY <1>2, <3>1, <3>2, <3>4
  <2>2. after[m] \in S
    BY <1>2
  <2>3. \A u \in m..N : after[u] \in S
    <3> HIDE DEF S
    <3> QED BY <1>0, <2>1, <2>2, Kept
  <2> QED BY <1>0, <1>2, <2>3
<1>5. ASSUME NEW t \in Task, Doomed(s, t)
      PROVE  BlockPass(s)[t] # "PENDING"
  <2>1. PICK d \in Deps[t] : IsDependencyFailed(s[d])
    BY <1>5 DEF Doomed
  <2>2. d \in Task
    BY DepsAreTasks
  <2> DEFINE S == {q \in Blocking(st) : IsDependencyFailed(q[d])}
  <2>3. ASSUME NEW u \in (0 + 1)..N, after[u - 1] \in S PROVE after[u] \in S
    <3>1. u \in Task /\ after[u] = BlockOne(after[u - 1], u) /\ u \in 0..N
      BY <1>0, <1>2 DEF Task
    <3>2. IsDependencyFailed(after[u][d])
      BY <1>3, <2>2, <2>3, <3>1, FailedStays
    <3> QED BY <1>2, <3>1, <3>2
  <2>4. \A u \in 0..N : after[u] \in S
    <3>1. after[0] \in S
      BY <1>2, <2>1
    <3> HIDE DEF S
    <3> QED BY <1>0, <2>3, <3>1, Kept
  <2>5. IsDependencyFailed(after[t - 1][d])
    BY <1>3, <2>4
  <2>6. after[t][t] # "PENDING"
    <3>1. after[t][t] = IF Doomed(after[t - 1], t) THEN "BLOCKED_DEPENDENCY" ELSE after[t - 1][t]
      BY <1>2, <1>3, BlockOneEffect
    <3>2. after[t - 1][t] = "PENDING" => Doomed(after[t - 1], t)
      BY <2>5 DEF Doomed
    <3> QED BY <3>1, <3>2
  <2> QED BY <1>3, <1>4, <2>6
<1>6. ASSUME \A t \in Task : ~Doomed(s, t)
      PROVE  BlockPass(s) = s
  <2>1. ASSUME NEW u \in (0 + 1)..N, after[u - 1] \in {s} PROVE after[u] \in {s}
    <3>1. u \in Task /\ after[u] = BlockOne(s, u)
      BY <1>0, <1>2, <2>1 DEF Task
    <3>2. BlockOne(s, u) = s
      BY <1>6, <3>1 DEF BlockOne, Doomed
    <3> QED BY <3>1, <3>2
  <2>2. \A u \in 0..N : after[u] \in {s}
    BY <1>0, <1>2, <2>1, Kept
  <2> QED BY <1>0, <1>2, <2>2
<1>7. BlockPass(s) \in Blocking(st)
  BY <1>0, <1>2
<1>8. \A t \in Task : s[t] # "PENDING" => BlockPass(s)[t] = s[t]
  BY <1>0, <1>2, <1>4
<1> QED BY <1>5, <1>6, <1>7, <1>8

IsBlockLoop(after, st) ==
  /\ after \in [0..N -> Blocking(st)]
  /\ after[0] = st /\ after[N] = BlockLoop(st)
  /\ \A n \in 1..N : after[n] = BlockPass(after[n - 1])

LEMMA BlockLoopDefined ==
  ASSUME NEW st \in [Task -> TaskState]
  PROVE  \E after : IsBlockLoop(after, st)
<1> DEFINE P == Blocking(st)
           F == [n \in 1..N |-> [q \in P |-> BlockPass(q)]]
           Eq(f) == f = [n \in 0..N |-> IF n = 0 THEN st ELSE BlockPass(f[n - 1])]
<1>0. N \in Nat
  BY ResourceAssumption
<1>1. F \in [1..N -> [P -> P]]
  BY BlockPassFacts
<1>2. PICK f : Follows(f, N, P, st, F)
  <2> HIDE DEF F, P
  <2>1. st \in P
    BY StartsBlocking DEF P
  <2> QED BY <1>0, <1>1, <2>1, Recursion
<1>3. Eq(f)
  <2>1. f = [n \in 0..N |-> IF n = 0 THEN st ELSE F[n][f[n - 1]]]
    BY <1>2 DEF Follows
  <2>2. ASSUME NEW n \in 0..N, n # 0
        PROVE  F[n][f[n - 1]] = BlockPass(f[n - 1])
    <3>1. n \in 1..N /\ n - 1 \in 0..N
      BY <1>0, <2>2
    <3>2. f[n - 1] \in P
      BY <1>2, <3>1 DEF Follows
    <3> QED BY <3>1, <3>2
  <2> HIDE DEF F, P
  <2> QED BY <2>1, <2>2
<1> DEFINE g == CHOOSE h : Eq(h)
<1>4. Eq(g)
  <2> HIDE DEF Eq
  <2> QED BY <1>3
<1>5. BlockLoop(st) = g[N]
  BY DEF BlockLoop
<1> HIDE DEF g
<1>6. g[0] = st /\ \A n \in 1..N : g[n] = BlockPass(g[n - 1])
  <2>1. \A n \in 0..N : g[n] = IF n = 0 THEN st ELSE BlockPass(g[n - 1])
    BY <1>4
  <2>2. 0 \in 0..N /\ \A n \in 1..N : n \in 0..N /\ n # 0
    BY <1>0
  <2> QED BY <2>1, <2>2
<1>7. \A n \in 0..N : g[n] \in P
  <2>1. \A n \in (0 + 1)..N : g[n - 1] \in P => g[n] \in P
    BY <1>0, <1>6, BlockPassFacts
  <2>2. g[0] \in P
    BY <1>6, StartsBlocking
  <2> HIDE DEF P
  <2> QED BY <1>0, <2>1, <2>2, Kept
<1>8. g \in [0..N -> P]
  BY <1>4, <1>7
<1> QED BY <1>5, <1>6, <1>8 DEF IsBlockLoop

LEMMA PendingCount ==
  /\ \A s : Cardinality(Pending(s)) \in Nat /\ Cardinality(Pending(s)) <= N
  /\ \A s, q : Pending(q) \subseteq Pending(s) /\ Pending(q) # Pending(s) =>
       Cardinality(Pending(q)) < Cardinality(Pending(s))
<1>1. IsFiniteSet(Task) /\ Cardinality(Task) = N
  BY ResourceAssumption, FS_Interval DEF Task
<1>2. \A s : Pending(s) \subseteq Task
  BY DEF Pending
<1>3. \A s : IsFiniteSet(Pending(s)) /\ Cardinality(Pending(s)) <= N
  BY <1>1, <1>2, FS_Subset
<1> QED BY <1>3, FS_Subset, FS_CardinalityType

(* There are enough passes: each that finds a doomed task leaves fewer     *)
(* pending, and there are as many passes as tasks.                         *)
LEMMA BlockLoopEnds ==
  ASSUME NEW st \in [Task -> TaskState]
  PROVE  BlockLoop(st) \in Blocking(st) /\ \A t \in Task : ~Doomed(BlockLoop(st), t)
<1>0. N \in Nat /\ N \in 0..N
  BY ResourceAssumption
<1>1. PICK after : IsBlockLoop(after, st)
  BY BlockLoopDefined
<1>2. /\ after \in [0..N -> Blocking(st)]
      /\ after[0] = st /\ after[N] = BlockLoop(st)
      /\ \A n \in 1..N : after[n] = BlockPass(after[n - 1])
  BY <1>1 DEF IsBlockLoop
<1> DEFINE Near(n) == \/ \A t \in Task : ~Doomed(after[n], t)
                      \/ Cardinality(Pending(after[n])) + n <= N
           T == {n \in Nat : n <= N => Near(n)}
<1>3. 0 \in T
  <2>1. Cardinality(Pending(after[0])) \in Nat /\ Cardinality(Pending(after[0])) <= N
    BY PendingCount
  <2> QED BY <1>0, <2>1
<1>4. ASSUME NEW n \in Nat, n \in T PROVE n + 1 \in T
  <2> SUFFICES ASSUME n + 1 <= N PROVE Near(n + 1)
    OBVIOUS
  <2>1. Near(n) /\ n \in 0..N /\ n + 1 \in 1..N /\ n + 1 \in 0..N /\ (n + 1) - 1 = n
    BY <1>0, <1>4
  <2>2. after[n] \in Blocking(st) /\ after[n + 1] = BlockPass(after[n])
    BY <1>2, <2>1
  <2>3. CASE \A t \in Task : ~Doomed(after[n], t)
    <3>1. after[n + 1] = after[n]
      BY <2>2, <2>3, BlockPassFacts
    <3> QED BY <2>3, <3>1
  <2>4. ASSUME NEW t \in Task, Doomed(after[n], t) PROVE Near(n + 1)
    <3>1. t \in Pending(after[n]) /\ t \notin Pending(after[n + 1])
      BY <2>2, <2>4, BlockPassFacts DEF Pending, Doomed
    <3>2. Pending(after[n + 1]) \subseteq Pending(after[n])
      BY <2>2, BlockPassFacts DEF Pending
    <3>3. /\ Cardinality(Pending(after[n + 1])) < Cardinality(Pending(after[n]))
          /\ Cardinality(Pending(after[n + 1])) \in Nat
          /\ Cardinality(Pending(after[n])) \in Nat
      BY <3>1, <3>2, PendingCount
    <3>4. Cardinality(Pending(after[n])) + n <= N
      BY <2>1, <2>4
    <3> QED BY <1>0, <3>3, <3>4
  <2> QED BY <2>3, <2>4
<1>5. Near(N)
  <2>1. Nat \subseteq T
    <3> HIDE DEF T
    <3> QED BY <1>3, <1>4, NatSetInduction
  <2> HIDE DEF Near
  <2> QED BY <1>0, <2>1
<1>6. ASSUME NEW t \in Task PROVE ~Doomed(after[N], t)
  <2>1. CASE Cardinality(Pending(after[N])) + N <= N
    <3>1. Cardinality(Pending(after[N])) = 0 /\ IsFiniteSet(Pending(after[N]))
      <4>1. IsFiniteSet(Task) /\ Pending(after[N]) \subseteq Task
        BY ResourceAssumption, FS_Interval DEF Task, Pending
      <4> QED BY <1>0, <2>1, <4>1, PendingCount, FS_Subset
    <3>2. Pending(after[N]) = {}
      BY <3>1, FS_EmptySet
    <3> QED BY <3>2 DEF Pending, Doomed
  <2> QED BY <1>5, <2>1
<1> QED BY <1>0, <1>2, <1>6

(* The graph has no cycle, so what is blocked is determined.               *)
LEMMA OneBlockedSet ==
  ASSUME NEW st, NEW A \in SUBSET Task, NEW B \in SUBSET Task,
         IsBlockedSet(st, A), IsBlockedSet(st, B)
  PROVE  A = B
<1> DEFINE D == {t \in Task : (t \in A) # (t \in B)}
<1>1. SUFFICES ASSUME D # {} PROVE FALSE
  OBVIOUS
<1>2. PICK t \in D : Deps[t] \cap D = {}
  <2>1. D \in SUBSET Task
    OBVIOUS
  <2> HIDE DEF D
  <2> QED BY <1>1, <2>1, DepsAssumption DEF Acyclic
<1>3. \A d \in Deps[t] : d \in A <=> d \in B
  BY <1>2, DepsAreTasks
<1>4. t \in Task /\ (t \in A <=> t \in B)
  BY <1>3 DEF IsBlockedSet
<1> QED BY <1>2, <1>4

LEMMA LoopBlocks ==
  ASSUME NEW st \in [Task -> TaskState]
  PROVE  IsBlockedSet(st, {t \in Task : BlockLoop(st)[t] # st[t]})
<1> DEFINE s == BlockLoop(st)
           B == {t \in Task : s[t] # st[t]}
<1>1. /\ \A t \in Task : ~Doomed(s, t)
      /\ \A t \in Task :
           \/ s[t] = st[t]
           \/ /\ st[t] = "PENDING" /\ s[t] = "BLOCKED_DEPENDENCY"
              /\ \E d \in Deps[t] : IsDependencyFailed(s[d])
  BY BlockLoopEnds DEF Blocking
<1> HIDE DEF s
<1>2. \A d \in Task : IsDependencyFailed(s[d]) <=> IsDependencyFailed(st[d]) \/ d \in B
  BY <1>1 DEF IsDependencyFailed
<1>3. ASSUME NEW t \in Task
      PROVE  t \in B <=> st[t] = "PENDING" /\ \E d \in Deps[t] : IsDependencyFailed(s[d])
  <2>1. ASSUME st[t] = "PENDING", NEW d \in Deps[t], IsDependencyFailed(s[d])
        PROVE  t \in B
    BY <1>1, <2>1 DEF Doomed
  <2> QED BY <1>1, <2>1
<1>4. IsBlockedSet(st, B)
  BY <1>2, <1>3, DepsAreTasks DEF IsBlockedSet
<1> QED BY <1>4 DEF s

-----------------------------------------------------------------------------
(* The launching loop.  A larger set of lanes needs no less.               *)
LEMMA LoadGrows ==
  ASSUME NEW A, NEW B, A \subseteq B, NEW c \in Class
  PROVE  Load(A)[c] <= Load(B)[c]
<1> DEFINE C == B \ A
<1>1. A \cup C = B /\ A \cap C = {}
  OBVIOUS
<1>2. Load(B)[c] = Load(A)[c] + Load(C)[c]
  <2> HIDE DEF C
  <2> QED BY <1>1, LoadUnion
<1>3. Load(A)[c] \in Nat /\ Load(C)[c] \in Nat
  BY LoadType
<1> HIDE DEF C
<1> QED BY <1>2, <1>3

ScanType == [state : [Task -> TaskState], used : [Class -> Nat]]

LEMMA AddType ==
  ASSUME NEW used \in [Class -> Nat], NEW extra \in [Class -> Nat]
  PROVE  AddResources(used, extra) \in [Class -> Nat]
BY DEF AddResources

LEMMA LaunchOneEffect ==
  ASSUME NEW s \in ScanType, NEW t \in Task
  PROVE  /\ LaunchOne(s, t) \in ScanType
         /\ ~CanLaunch(s, t) => LaunchOne(s, t) = s
         /\ CanLaunch(s, t) =>
              /\ LaunchOne(s, t).state = [s.state EXCEPT ![t] = "RUNNING"]
              /\ LaunchOne(s, t).used = AddResources(s.used, Demand[t])
<1>1. s.state \in [Task -> TaskState] /\ s.used \in [Class -> Nat]
  BY DEF ScanType
<1>2. [s.state EXCEPT ![t] = "RUNNING"] \in [Task -> TaskState]
  BY <1>1 DEF TaskState, SchedulerState
<1>3. AddResources(s.used, Demand[t]) \in [Class -> Nat]
  BY <1>1, AddType, ResourceAssumption
<1> QED BY <1>2, <1>3 DEF LaunchOne, ScanType

IsLaunchPass(after, s) ==
  /\ after \in [0..N -> ScanType]
  /\ after[0] = s /\ after[N] = LaunchPass(s)
  /\ \A t \in Task : after[t] = LaunchOne(after[t - 1], t)

LEMMA LaunchPassDefined ==
  ASSUME NEW s \in ScanType
  PROVE  \E after : IsLaunchPass(after, s)
<1> DEFINE F == [t \in 1..N |-> [q \in ScanType |-> LaunchOne(q, t)]]
           Eq(f) == f = [t \in 0..N |-> IF t = 0 THEN s ELSE LaunchOne(f[t - 1], t)]
<1>0. N \in Nat
  BY ResourceAssumption
<1>1. F \in [1..N -> [ScanType -> ScanType]]
  BY LaunchOneEffect DEF Task
<1>2. PICK f : Follows(f, N, ScanType, s, F)
  <2> HIDE DEF F
  <2> QED BY <1>0, <1>1, Recursion
<1>3. Eq(f)
  <2>1. f = [t \in 0..N |-> IF t = 0 THEN s ELSE F[t][f[t - 1]]]
    BY <1>2 DEF Follows
  <2>2. ASSUME NEW t \in 0..N, t # 0
        PROVE  F[t][f[t - 1]] = LaunchOne(f[t - 1], t)
    <3>1. t \in 1..N /\ t - 1 \in 0..N
      BY <1>0, <2>2
    <3>2. f[t - 1] \in ScanType
      BY <1>2, <3>1 DEF Follows
    <3> QED BY <3>1, <3>2
  <2> HIDE DEF F
  <2> QED BY <2>1, <2>2
<1> DEFINE g == CHOOSE h : Eq(h)
<1>4. Eq(g)
  <2> HIDE DEF Eq
  <2> QED BY <1>3
<1>5. LaunchPass(s) = g[N]
  BY DEF LaunchPass
<1> HIDE DEF g
<1>6. g[0] = s /\ \A t \in Task : g[t] = LaunchOne(g[t - 1], t)
  <2>1. \A t \in 0..N : g[t] = IF t = 0 THEN s ELSE LaunchOne(g[t - 1], t)
    BY <1>4
  <2>2. 0 \in 0..N /\ \A t \in Task : t \in 0..N /\ t # 0
    BY <1>0 DEF Task
  <2> QED BY <2>1, <2>2
<1>7. \A t \in 0..N : g[t] \in ScanType
  <2>1. \A t \in (0 + 1)..N : g[t - 1] \in ScanType => g[t] \in ScanType
    <3> TAKE t \in (0 + 1)..N
    <3>1. t \in Task /\ g[t] = LaunchOne(g[t - 1], t)
      BY <1>0, <1>6 DEF Task
    <3> QED BY <3>1, LaunchOneEffect
  <2>2. g[0] \in ScanType
    BY <1>6
  <2> QED BY <1>0, <2>1, <2>2, Kept
<1>8. g \in [0..N -> ScanType]
  BY <1>4, <1>7
<1> QED BY <1>5, <1>6, <1>8 DEF IsLaunchPass

Started(s, q) == {u \in Task : q.state[u] # s.state[u]}

(* What the scan from s has done when it has looked at the tasks up to i.  *)
Scanned(s, q, i) ==
  /\ q \in ScanType
  /\ \A u \in Task :
       \/ q.state[u] = s.state[u]
       \/ u <= i /\ s.state[u] = "PENDING" /\ q.state[u] = "RUNNING"
  /\ q.used = AddResources(s.used, Load(Started(s, q)))
  /\ \A u \in Task : u <= i =>
       (u \in Started(s, q) <=>
          /\ Runnable(s.state, u)
          /\ ResourcesFit(AddResources(s.used, Load({v \in Started(s, q) : v < u})), u))

(* A task the scan has launched has not delivered.                         *)
LEMMA ScannedRunnable ==
  ASSUME NEW s \in ScanType, NEW q, NEW i \in Nat, Scanned(s, q, i), NEW t \in Task
  PROVE  /\ Runnable(q.state, t) => Runnable(s.state, t)
         /\ i < t => (Runnable(q.state, t) <=> Runnable(s.state, t))
<1>1. \A u \in Task : IsDependencySatisfied(q.state[u]) <=> IsDependencySatisfied(s.state[u])
  BY DEF Scanned, IsDependencySatisfied
<1>2. q.state[t] = "PENDING" => s.state[t] = "PENDING"
  BY DEF Scanned
<1>3. i < t => q.state[t] = s.state[t]
  BY DEF Scanned, Task
<1> QED BY <1>1, <1>2, <1>3, DepsAreTasks DEF Runnable

LEMMA ScanStarts ==
  ASSUME NEW s \in ScanType
  PROVE  Scanned(s, s, 0)
<1>1. Started(s, s) = {}
  BY DEF Started
<1>2. s.used \in [Class -> Nat]
  BY DEF ScanType
<1>3. s.used = AddResources(s.used, Load({}))
  <2>1. \A c \in Class : s.used[c] + Load({})[c] = s.used[c]
    BY <1>2, LoadEmpty
  <2> QED BY <1>2, <2>1 DEF AddResources
<1>4. \A u \in Task : ~(u <= 0)
  BY DEF Task
<1> QED BY <1>1, <1>3, <1>4 DEF Scanned

LEMMA ScanAdvances ==
  ASSUME NEW s \in ScanType, NEW q, NEW i \in Nat, i + 1 \in Task, Scanned(s, q, i)
  PROVE  Scanned(s, LaunchOne(q, i + 1), i + 1)
<1> DEFINE t == i + 1
           r == LaunchOne(q, t)
           L == Started(s, q)
           M == Started(s, r)
<1>0. /\ q \in ScanType /\ t \in Task /\ t \in Nat
      /\ s.state \in [Task -> TaskState] /\ s.used \in [Class -> Nat]
      /\ q.state \in [Task -> TaskState] /\ q.used \in [Class -> Nat]
  BY DEF Scanned, ScanType
<1>1. \A u \in Task : u <= t <=> u <= i \/ u = t
  BY DEF Task
<1>2. /\ \A u \in Task :
           \/ q.state[u] = s.state[u]
           \/ u <= i /\ s.state[u] = "PENDING" /\ q.state[u] = "RUNNING"
      /\ q.used = AddResources(s.used, Load(L))
      /\ \A u \in Task : u <= i =>
           (u \in L <=> /\ Runnable(s.state, u)
                        /\ ResourcesFit(AddResources(s.used, Load({v \in L : v < u})), u))
  BY DEF Scanned
<1>3. \A v \in L : v \in Task /\ v <= i
  BY <1>2 DEF Started
<1>4. ~(t <= i) /\ t \notin L /\ q.state[t] = s.state[t]
  BY <1>0, <1>2, <1>3
<1>5. CanLaunch(q, t) <=> Runnable(s.state, t) /\ ResourcesFit(AddResources(s.used, Load(L)), t)
  <2>1. Runnable(q.state, t) <=> Runnable(s.state, t)
    BY <1>0, ScannedRunnable
  <2> QED BY <1>2, <2>1 DEF CanLaunch
<1>6. {v \in L : v < t} = L
  BY <1>3 DEF Task
<1>7. r \in ScanType
  BY <1>0, LaunchOneEffect
<1>8. CASE ~CanLaunch(q, t)
  <2>1. r = q
    BY <1>0, <1>8, LaunchOneEffect
  <2>2. ASSUME NEW u \in Task, u <= t
        PROVE  u \in L <=> /\ Runnable(s.state, u)
                           /\ ResourcesFit(AddResources(s.used, Load({v \in L : v < u})), u)
    <3>1. CASE u <= i
      BY <1>2, <3>1
    <3>2. CASE u = t
      BY <1>4, <1>5, <1>6, <1>8, <3>2
    <3> QED BY <1>1, <2>2, <3>1, <3>2
  <2>3. \A u \in Task : u <= i => u <= t
    BY <1>1
  <2>4. Scanned(s, q, t)
    <3> HIDE DEF r, t
    <3> QED BY <1>0, <1>2, <2>2, <2>3 DEF Scanned
  <2> QED BY <2>1, <2>4
<1>9. CASE CanLaunch(q, t)
  <2>1. /\ r.state = [q.state EXCEPT ![t] = "RUNNING"]
        /\ r.used = AddResources(q.used, Demand[t])
    BY <1>0, <1>9, LaunchOneEffect
  <2>2. s.state[t] = "PENDING"
    BY <1>5, <1>9 DEF Runnable
  <2>3. /\ r.state[t] = "RUNNING"
        /\ \A u \in Task : u # t => r.state[u] = q.state[u]
    BY <1>0, <2>1
  <2> HIDE DEF r, t
  <2>4. M = L \cup {t} /\ L \cap {t} = {}
    BY <1>0, <1>4, <2>2, <2>3 DEF Started
  <2>5. ASSUME NEW u \in Task
        PROVE  \/ r.state[u] = s.state[u]
               \/ u <= t /\ s.state[u] = "PENDING" /\ r.state[u] = "RUNNING"
    BY <1>0, <1>1, <1>2, <2>2, <2>3
  <2>6. r.used = AddResources(s.used, Load(M))
    <3> HIDE DEF L, M
    <3>1. ASSUME NEW c \in Class
          PROVE  q.used[c] + Demand[t][c] = s.used[c] + Load(M)[c]
      <4>1. Load(M)[c] = Load(L)[c] + Demand[t][c]
        <5>1. Load(L \cup {t})[c] = Load(L)[c] + Load({t})[c]
          BY <2>4, LoadUnion
        <5> QED BY <1>0, <2>4, <5>1, LoadOne
      <4>2. q.used[c] = s.used[c] + Load(L)[c]
        BY <1>2 DEF AddResources
      <4>3. Load(L)[c] \in Nat /\ Demand[t][c] \in Nat /\ s.used[c] \in Nat
        BY <1>0, LoadType, ResourceAssumption
      <4> QED BY <4>1, <4>2, <4>3
    <3> QED BY <2>1, <3>1 DEF AddResources
  <2>7. ASSUME NEW u \in Task, u <= t
        PROVE  u \in M <=> /\ Runnable(s.state, u)
                           /\ ResourcesFit(AddResources(s.used, Load({v \in M : v < u})), u)
    <3>0. \A v \in Task : v < u => v # t
      BY <1>0, <2>7 DEF Task
    <3>1. {v \in M : v < u} = {v \in L : v < u}
      <4> HIDE DEF L, M
      <4> QED BY <1>0, <1>3, <2>4, <3>0
    <3>2. CASE u <= i
      <4>1. u # t
        BY <1>4, <3>2
      <4>2. u \in M <=> u \in L
        <5> HIDE DEF L, M
        <5> QED BY <2>4, <4>1
      <4> HIDE DEF L, M
      <4> QED BY <1>2, <3>1, <3>2, <4>2
    <3>3. CASE u = t
      <4> HIDE DEF L, M
      <4> QED BY <1>5, <1>6, <1>9, <2>4, <3>1, <3>3
    <3>4. u <= i \/ u = t
      BY <1>1, <2>7
    <3> HIDE DEF L, M
    <3> QED BY <3>2, <3>3, <3>4
  <2>8. Scanned(s, r, t)
    BY <1>7, <2>5, <2>6, <2>7 DEF Scanned
  <2> QED BY <2>8 DEF r, t
<1> QED BY <1>8, <1>9


LEMMA PassScans ==
  ASSUME NEW s \in ScanType
  PROVE  Scanned(s, LaunchPass(s), N)
<1> DEFINE T == {i \in Nat : i <= N => \A after : IsLaunchPass(after, s) => Scanned(s, after[i], i)}
<1>0. N \in Nat
  BY ResourceAssumption
<1>1. 0 \in T
  BY ScanStarts DEF IsLaunchPass
<1>2. ASSUME NEW i \in Nat, i \in T PROVE i + 1 \in T
  <2> SUFFICES ASSUME i + 1 <= N, NEW after, IsLaunchPass(after, s)
               PROVE  Scanned(s, after[i + 1], i + 1)
    OBVIOUS
  <2>1. i + 1 \in Task /\ (i + 1) - 1 = i /\ i <= N
    BY <1>0 DEF Task
  <2>2. after[i + 1] = LaunchOne(after[i], i + 1)
    BY <2>1 DEF IsLaunchPass
  <2>3. Scanned(s, after[i], i)
    BY <1>2, <2>1
  <2> QED BY <2>1, <2>2, <2>3, ScanAdvances
<1>3. Nat \subseteq T
  <2> HIDE DEF T
  <2> QED BY <1>1, <1>2, NatSetInduction
<1>4. PICK after : IsLaunchPass(after, s)
  BY LaunchPassDefined
<1>5. Scanned(s, after[N], N)
  BY <1>0, <1>3, <1>4
<1> QED BY <1>4, <1>5 DEF IsLaunchPass

LEMMA PassLaunches ==
  ASSUME NEW s \in ScanType
  PROVE  IsLaunchSet(s.state, s.used, Started(s, LaunchPass(s)))
<1>1. \A u \in Task : u <= N
  BY ResourceAssumption DEF Task
<1> QED BY <1>1, PassScans DEF Scanned, IsLaunchSet

(* A task that could start after the scan could have started when it was   *)
(* looked at: less was in use then.                                        *)
LEMMA PassLeavesNone ==
  ASSUME NEW s \in ScanType, NEW t \in Task
  PROVE  ~CanLaunch(LaunchPass(s), t)
<1> SUFFICES ASSUME CanLaunch(LaunchPass(s), t) PROVE FALSE
  OBVIOUS
<1> DEFINE q == LaunchPass(s)
           L == Started(s, q)
           low == {v \in L : v < t}
<1>0. N \in Nat /\ t <= N /\ s.used \in [Class -> Nat]
  BY ResourceAssumption DEF Task, ScanType
<1>1. Scanned(s, q, N)
  BY PassScans
<1>2. Runnable(q.state, t) /\ ResourcesFit(q.used, t)
  BY DEF CanLaunch
<1> HIDE DEF q
<1>3. Runnable(s.state, t)
  BY <1>0, <1>1, <1>2, ScannedRunnable
<1>4. t \notin L
  BY <1>1, <1>2 DEF Scanned, Started, Runnable
<1>5. ~ResourcesFit(AddResources(s.used, Load(low)), t)
  BY <1>0, <1>1, <1>3, <1>4 DEF Scanned
<1>6. PICK c \in Class : ~(s.used[c] + Load(low)[c] + Demand[t][c] <= Limit[c])
  BY <1>5 DEF ResourcesFit, AddResources
<1>7. q.used[c] = s.used[c] + Load(L)[c]
  BY <1>1 DEF Scanned, AddResources
<1>8. Load(low)[c] <= Load(L)[c]
  <2>1. low \subseteq L
    OBVIOUS
  <2> HIDE DEF low, L
  <2> QED BY <2>1, LoadGrows
<1>9. /\ Load(low)[c] \in Nat /\ Load(L)[c] \in Nat /\ s.used[c] \in Nat
      /\ Demand[t][c] \in Nat /\ Limit[c] \in Nat
  BY <1>0, LoadType, ResourceAssumption
<1>10. q.used[c] + Demand[t][c] <= Limit[c]
  BY <1>2 DEF ResourcesFit
<1> HIDE DEF low, L
<1> QED BY <1>6, <1>7, <1>8, <1>9, <1>10

(* So the do-while loop ends after its first pass.                         *)
LEMMA OnePassSuffices ==
  ASSUME NEW s \in ScanType
  PROVE  LaunchLoop(s) = LaunchPass(s)
<1> DEFINE p == LaunchPass(s)
           Eq(f) == f = [n \in 0..N |-> IF n = 0 THEN p ELSE LaunchMore(f[n - 1])]
           g == CHOOSE h : Eq(h)
<1>0. N \in Nat
  BY ResourceAssumption
<1>1. LaunchMore(p) = p
  BY PassLeavesNone DEF LaunchMore
<1>2. LaunchLoop(s) = g[N]
  BY DEF LaunchLoop
<1> HIDE DEF p
<1>3. Eq([n \in 0..N |-> p])
  <2>1. \A n \in 0..N : n # 0 => n - 1 \in 0..N
    BY <1>0
  <2> QED BY <1>1, <2>1
<1>4. Eq(g)
  <2> HIDE DEF Eq
  <2> QED BY <1>3
<1> HIDE DEF g
<1>5. g[0] = p /\ \A n \in 1..N : g[n] = LaunchMore(g[n - 1])
  <2>1. \A n \in 0..N : g[n] = IF n = 0 THEN p ELSE LaunchMore(g[n - 1])
    BY <1>4
  <2>2. 0 \in 0..N /\ \A n \in 1..N : n \in 0..N /\ n # 0
    BY <1>0
  <2> QED BY <2>1, <2>2
<1>6. \A n \in 0..N : g[n] = p
  <2> DEFINE S == {p}
  <2>1. \A n \in (0 + 1)..N : g[n - 1] \in S => g[n] \in S
    BY <1>0, <1>1, <1>5
  <2>2. g[0] \in S
    BY <1>5
  <2>3. \A n \in 0..N : g[n] \in S
    <3> HIDE DEF S
    <3> QED BY <1>0, <2>1, <2>2, Kept
  <2> QED BY <2>3
<1>7. g[N] = p
  BY <1>0, <1>6
<1> QED BY <1>2, <1>7 DEF p

(* What is launched is determined, task by task in their order.            *)
LEMMA OneLaunchSet ==
  ASSUME NEW st, NEW used, NEW A \in SUBSET Task, NEW B \in SUBSET Task,
         IsLaunchSet(st, used, A), IsLaunchSet(st, used, B)
  PROVE  A = B
<1> DEFINE T == {i \in Nat : \A u \in Task : u <= i => (u \in A <=> u \in B)}
<1>1. 0 \in T
  BY DEF Task
<1>2. ASSUME NEW i \in Nat, i \in T PROVE i + 1 \in T
  <2> SUFFICES ASSUME NEW u \in Task, u <= i + 1 PROVE u \in A <=> u \in B
    OBVIOUS
  <2>1. \A v \in Task : v < u => v <= i
    BY DEF Task
  <2>2. {v \in A : v < u} = {v \in B : v < u}
    BY <1>2, <2>1
  <2> QED BY <2>2 DEF IsLaunchSet
<1>3. Nat \subseteq T
  <2> HIDE DEF T
  <2> QED BY <1>1, <1>2, NatSetInduction
<1>4. N \in Nat /\ \A u \in Task : u <= N
  BY ResourceAssumption DEF Task
<1>5. \A u \in Task : u \in A <=> u \in B
  BY <1>3, <1>4
<1> QED BY <1>5

(* Both equations have one solution each, and it is what the loops reach.  *)
BlocksLikeTheLoop(st) ==
  {B \in SUBSET Task : IsBlockedSet(st, B)}
    = {{t \in Task : BlockLoop(st)[t] # st[t]}}

LaunchesLikeTheLoop(s) ==
  {L \in SUBSET Task : IsLaunchSet(s.state, s.used, L)}
    = {{t \in Task : LaunchLoop(s).state[t] # s.state[t]}}

(* For every graph, demands, limits, statuses and amounts in use: nothing  *)
(* here depends on what lanes return, or on the order in which the tasks   *)
(* are declared being topological.                                         *)
THEOREM PumpHasOneOutcome ==
  ASSUME NEW st \in [Task -> TaskState], NEW used \in [Class -> Nat]
  PROVE  /\ BlocksLikeTheLoop(st)
         /\ LaunchesLikeTheLoop([state |-> st, used |-> used])
<1>1. BlocksLikeTheLoop(st)
  <2> DEFINE B == {t \in Task : BlockLoop(st)[t] # st[t]}
  <2>1. IsBlockedSet(st, B) /\ B \in SUBSET Task
    BY LoopBlocks
  <2>2. BlocksLikeTheLoop(st) <=> {A \in SUBSET Task : IsBlockedSet(st, A)} = {B}
    BY DEF BlocksLikeTheLoop
  <2> HIDE DEF B
  <2> QED BY <2>1, <2>2, OneBlockedSet
<1>2. LaunchesLikeTheLoop([state |-> st, used |-> used])
  <2> DEFINE s == [state |-> st, used |-> used]
             L == Started(s, LaunchLoop(s))
  <2>1. s \in ScanType /\ s.state = st /\ s.used = used
    BY DEF ScanType
  <2>2. IsLaunchSet(s.state, s.used, L) /\ L \in SUBSET Task
    <3> HIDE DEF s
    <3> QED BY <2>1, PassLaunches, OnePassSuffices DEF Started
  <2>3. LaunchesLikeTheLoop(s) <=> {A \in SUBSET Task : IsLaunchSet(s.state, s.used, A)} = {L}
    <3> HIDE DEF s
    <3> QED BY DEF LaunchesLikeTheLoop, Started
  <2>4. LaunchesLikeTheLoop(s)
    <3> HIDE DEF s, L
    <3> QED BY <2>2, <2>3, OneLaunchSet
  <2> QED BY <2>4
<1> QED BY <1>1, <1>2


(* Launched lanes are added to those in use, once each.                    *)
RunningOf(st) == {t \in Task : st[t] = "RUNNING"}

LEMMA LoopAccounts ==
  ASSUME NEW st \in [Task -> TaskState], NEW used, used = Load(RunningOf(st))
  PROVE  LaunchLoop([state |-> BlockLoop(st), used |-> used]).used
           = Load(RunningOf(LaunchLoop([state |-> BlockLoop(st), used |-> used]).state))
<1> DEFINE settled == BlockLoop(st)
           s == [state |-> settled, used |-> used]
           q == LaunchLoop(s)
           L == Started(s, q)
           R == RunningOf(settled)
<1>1. /\ settled \in [Task -> TaskState]
      /\ \A t \in Task : settled[t] = "RUNNING" <=> st[t] = "RUNNING"
  BY BlockLoopEnds DEF Blocking
<1>2. R = RunningOf(st)
  BY <1>1 DEF RunningOf
<1>3. s \in ScanType /\ s.state = settled /\ s.used = Load(R)
  BY <1>1, <1>2, LoadType DEF ScanType
<1>4. Scanned(s, q, N)
  BY <1>3, PassScans, OnePassSuffices
<1> HIDE DEF settled, s, q
<1>5. RunningOf(q.state) = R \cup L /\ R \cap L = {}
  BY <1>3, <1>4 DEF Scanned, Started, RunningOf
<1>6. q.used = AddResources(Load(R), Load(L))
  BY <1>3, <1>4 DEF Scanned
<1>7. q.used = Load(RunningOf(q.state))
  <2> HIDE DEF R, L
  <2> QED BY <1>5, <1>6, AddLoads
<1> QED BY <1>7 DEF q, s, settled

LEMMA EnteredArgs ==
  ASSUME ProgressInv, NEW entered \in Entered
  PROVE  /\ entered.state \in [Task -> TaskState]
         /\ entered.used = Load(RunningOf(entered.state))
<1>1. /\ state \in [Task -> TaskState] /\ active \subseteq Task
      /\ currentResources = Load(active)
      /\ \A t \in Task : state[t] = "RUNNING" <=> t \in active
  BY DEF ProgressInv, AccountInv, TypeOK, ActiveRunning, ResourceAccounting, DecidedStatuses
<1>2. CASE entered = [state |-> state, used |-> currentResources]
  <2>1. RunningOf(state) = active
    BY <1>1 DEF RunningOf
  <2> QED BY <1>1, <1>2, <2>1
<1>3. ASSUME NEW t \in active, NEW s \in {"COMPLETED", "FAILED"},
             entered = [state |-> [state EXCEPT ![t] = s], used |-> Released(t)]
      PROVE  /\ entered.state \in [Task -> TaskState]
             /\ entered.used = Load(RunningOf(entered.state))
  <2>1. [state EXCEPT ![t] = s] \in [Task -> TaskState]
    BY <1>1 DEF TaskState, SchedulerState
  <2>2. RunningOf([state EXCEPT ![t] = s]) = active \ {t}
    BY <1>1 DEF RunningOf
  <2>3. Released(t) = Load(active \ {t})
    BY ReleasedLoad DEF ProgressInv
  <2> QED BY <1>3, <2>1, <2>2, <2>3
<1> QED BY <1>2, <1>3 DEF Entered

(* The model takes what _pump blocks and launches from two equations; they *)
(* are the loops of the code, whenever a handler enters it.                *)
THEOREM LoopsAreTheEquations ==
  ASSUME DisciplinedLanes
  PROVE  Spec => []LoopsAgree
<1>1. ASSUME ProgressInv PROVE LoopsAgree
  <2>1. ASSUME NEW entered \in Entered
        PROVE  /\ BlocksLikeTheLoop(entered.state)
               /\ LaunchesLikeTheLoop([state |-> BlockLoop(entered.state), used |-> entered.used])
               /\ LaunchLoop([state |-> BlockLoop(entered.state), used |-> entered.used]).used
                    = Load(RunningOf(LaunchLoop([state |-> BlockLoop(entered.state),
                                                 used |-> entered.used]).state))
    <3>1. /\ entered.state \in [Task -> TaskState]
          /\ entered.used = Load(RunningOf(entered.state))
      BY <1>1, <2>1, EnteredArgs
    <3>2. BlockLoop(entered.state) \in [Task -> TaskState]
      BY <3>1, BlockLoopEnds DEF Blocking
    <3>3. entered.used \in [Class -> Nat]
      BY <3>1, LoadType
    <3> QED BY <3>1, <3>2, <3>3, PumpHasOneOutcome, LoopAccounts
  <2> QED BY <2>1 DEF LoopsAgree, BlocksLikeTheLoop, LaunchesLikeTheLoop, RunningOf
<1> QED BY <1>1, ProgressAlways, PTL
=============================================================================
