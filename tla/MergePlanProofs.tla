-------------------------- MODULE MergePlanProofs --------------------------
(***************************************************************************)
(* What the operations on JSON states do, for any keys, any depth and any  *)
(* order in which the operations of a plan are applied.                    *)
(***************************************************************************)
EXTENDS CloneBody, SequenceTheorems, FiniteSetTheorems, WellFoundedInduction, TLAPS

Path == Seq(Key)

-----------------------------------------------------------------------------
(***************************************************************************)
(* Paths.                                                                  *)
(***************************************************************************)
LEMMA SubSeqFacts ==
  ASSUME NEW p \in Path, NEW m \in 1..(Len(p) + 1), NEW n \in (m - 1)..Len(p)
  PROVE  /\ SubSeq(p, m, n) \in Path
         /\ Len(SubSeq(p, m, n)) = n - m + 1
         /\ \A i \in 1..(n - m + 1) : SubSeq(p, m, n)[i] = p[m + i - 1]
<1>1. Len(p) \in Nat /\ \A i \in m..n : p[i] \in Key
  BY ElementOfSeq, LenProperties DEF Path
<1>2. m \in Int /\ n \in Int
  BY <1>1
<1> QED BY <1>1, <1>2, SubSeqProperties DEF Path

LEMMA SamePath ==
  ASSUME NEW p \in Path, NEW q \in Path, Len(p) = Len(q), \A i \in 1..Len(p) : p[i] = q[i]
  PROVE  p = q
BY SeqEqual DEF Path

LEMMA PrefixMeans ==
  ASSUME NEW p \in Path, NEW q \in Path
  PROVE  IsPrefix(p, q) <=> Len(p) <= Len(q) /\ \A i \in 1..Len(p) : p[i] = q[i]
<1>1. Len(p) \in Nat /\ Len(q) \in Nat
  BY LenProperties DEF Path
<1>2. /\ SubSeq(p, 1, Len(p)) \in Path
      /\ Len(SubSeq(p, 1, Len(p))) = Len(p)
      /\ \A i \in 1..Len(p) : SubSeq(p, 1, Len(p))[i] = p[i]
  BY <1>1, SubSeqFacts
<1>3. ASSUME Len(p) <= Len(q)
      PROVE  /\ SubSeq(q, 1, Len(p)) \in Path
             /\ Len(SubSeq(q, 1, Len(p))) = Len(p)
             /\ \A i \in 1..Len(p) : SubSeq(q, 1, Len(p))[i] = q[i]
  BY <1>1, <1>3, SubSeqFacts
<1>4. ASSUME Len(p) <= Len(q), \A i \in 1..Len(p) : p[i] = q[i]
      PROVE  SubSeq(p, 1, Len(p)) = SubSeq(q, 1, Len(p))
  BY <1>2, <1>3, <1>4, SamePath
<1> QED BY <1>1, <1>2, <1>3, <1>4 DEF IsPrefix

LEMMA ConcatFacts ==
  ASSUME NEW p \in Path, NEW r \in Path
  PROVE  /\ p \o r \in Path
         /\ Len(p \o r) = Len(p) + Len(r)
         /\ IsPrefix(p, p \o r)
         /\ Below(p, p \o r) = r
<1> DEFINE q == p \o r
<1>1. Len(p) \in Nat /\ Len(r) \in Nat
  BY LenProperties DEF Path
<1>2. /\ q \in Path /\ Len(q) = Len(p) + Len(r)
      /\ \A i \in 1..(Len(p) + Len(r)) : q[i] = IF i <= Len(p) THEN p[i] ELSE r[i - Len(p)]
  BY ConcatProperties DEF Path
<1> HIDE DEF q
<1>3. IsPrefix(p, q)
  BY <1>1, <1>2, PrefixMeans
<1>4. /\ Below(p, q) \in Path /\ Len(Below(p, q)) = Len(r)
      /\ \A i \in 1..Len(r) : Below(p, q)[i] = q[Len(p) + 1 + i - 1]
  <2>1. /\ Len(p) + 1 \in 1..(Len(q) + 1) /\ Len(q) \in Len(p)..Len(q)
        /\ Len(q) - (Len(p) + 1) + 1 = Len(r) /\ (Len(p) + 1) - 1 = Len(p)
    BY <1>1, <1>2
  <2> QED BY <1>2, <2>1, SubSeqFacts DEF Below
<1>5. ASSUME NEW i \in 1..Len(r)
      PROVE  Below(p, q)[i] = r[i]
  <2> DEFINE k == Len(p) + i
  <2>1. /\ k \in 1..(Len(p) + Len(r)) /\ ~(k <= Len(p)) /\ k - Len(p) = i
        /\ Len(p) + 1 + i - 1 = k
    BY <1>1
  <2>2. q[k] = r[i]
    BY <1>2, <2>1
  <2> QED BY <1>4, <2>1, <2>2
<1>6. Below(p, q) = r
  BY <1>4, <1>5, SamePath
<1> QED BY <1>2, <1>3, <1>6 DEF q

LEMMA BelowFacts ==
  ASSUME NEW p \in Path, NEW q \in Path, IsPrefix(p, q)
  PROVE  Below(p, q) \in Path /\ p \o Below(p, q) = q
<1> DEFINE r == Below(p, q)
<1>1. /\ Len(p) \in Nat /\ Len(q) \in Nat /\ Len(p) <= Len(q)
      /\ \A i \in 1..Len(p) : p[i] = q[i]
  BY PrefixMeans, LenProperties DEF Path
<1>2. /\ r \in Path /\ Len(r) = Len(q) - Len(p)
      /\ \A i \in 1..Len(r) : r[i] = q[Len(p) + 1 + i - 1]
  <2>1. /\ Len(p) + 1 \in 1..(Len(q) + 1) /\ Len(q) \in ((Len(p) + 1) - 1)..Len(q)
        /\ Len(q) - (Len(p) + 1) + 1 = Len(q) - Len(p)
    BY <1>1
  <2> QED BY <2>1, SubSeqFacts DEF Below
<1> HIDE DEF r
<1>3. /\ p \o r \in Path /\ Len(p \o r) = Len(p) + Len(r)
      /\ \A i \in 1..(Len(p) + Len(r)) : (p \o r)[i] = IF i <= Len(p) THEN p[i] ELSE r[i - Len(p)]
  BY <1>2, ConcatProperties DEF Path
<1>4. Len(p \o r) = Len(q)
  BY <1>1, <1>2, <1>3
<1>5. ASSUME NEW i \in 1..Len(q) PROVE (p \o r)[i] = q[i]
  <2>1. CASE i <= Len(p)
    BY <1>1, <1>3, <1>4, <2>1
  <2>2. CASE ~(i <= Len(p))
    <3>1. i - Len(p) \in 1..Len(r) /\ Len(p) + 1 + (i - Len(p)) - 1 = i
      BY <1>1, <1>2, <2>2
    <3> QED BY <1>2, <1>3, <1>4, <2>2, <3>1
  <2> QED BY <2>1, <2>2
<1>6. p \o r = q
  BY <1>3, <1>4, <1>5, SamePath
<1> QED BY <1>2, <1>6 DEF r

LEMMA PrefixOrder ==
  /\ \A p \in Path : IsPrefix(p, p)
  /\ \A p, q, s \in Path : IsPrefix(p, q) /\ IsPrefix(q, s) => IsPrefix(p, s)
  /\ \A p, q, s \in Path : IsPrefix(p, s) /\ IsPrefix(q, s) => Overlap(p, q)
<1>0. \A p \in Path : Len(p) \in Nat
  BY LenProperties DEF Path
<1>1. \A p \in Path : IsPrefix(p, p)
  BY <1>0, PrefixMeans
<1>2. ASSUME NEW p \in Path, NEW q \in Path, NEW s \in Path, IsPrefix(p, q), IsPrefix(q, s)
      PROVE  IsPrefix(p, s)
  BY <1>0, <1>2, PrefixMeans
<1>3. ASSUME NEW p \in Path, NEW q \in Path, NEW s \in Path, IsPrefix(p, s), IsPrefix(q, s)
      PROVE  Overlap(p, q)
  BY <1>0, <1>3, PrefixMeans DEF Overlap
<1> QED BY <1>1, <1>2, <1>3

(* The path above another, and where it stands among the prefixes. *)
LEMMA FrontFacts ==
  ASSUME NEW p \in Path, p # <<>>
  PROVE  /\ Front(p) \in Path /\ IsPrefix(Front(p), p) /\ Front(p) # p
         /\ Front(p) = SubSeq(p, 1, Len(p) - 1) /\ Len(p) \in Nat \ {0}
         /\ Len(Front(p)) = Len(p) - 1
         /\ \A q \in Path : IsPrefix(q, p) /\ q # p => IsPrefix(q, Front(p))
<1>1. Len(p) \in Nat \ {0}
  BY EmptySeq DEF Path
<1> DEFINE f == SubSeq(p, 1, Len(p) - 1)
<1>2. f \in Path /\ Len(f) = Len(p) - 1 /\ \A i \in 1..(Len(p) - 1) : f[i] = p[i]
  <2>1. 1 \in 1..(Len(p) + 1) /\ Len(p) - 1 \in (1 - 1)..Len(p) /\ Len(p) - 1 - 1 + 1 = Len(p) - 1
    BY <1>1
  <2>2. /\ f \in Path /\ Len(f) = Len(p) - 1 - 1 + 1
        /\ \A i \in 1..(Len(p) - 1 - 1 + 1) : f[i] = p[1 + i - 1]
    BY <2>1, SubSeqFacts
  <2> HIDE DEF f
  <2> QED BY <1>1, <2>1, <2>2
<1> HIDE DEF f
<1>3. IsPrefix(f, p) /\ f # p
  BY <1>1, <1>2, PrefixMeans
<1>4. ASSUME NEW q \in Path, IsPrefix(q, p), q # p
      PROVE  IsPrefix(q, f)
  <2>1. Len(q) \in Nat /\ Len(q) <= Len(p) /\ \A i \in 1..Len(q) : q[i] = p[i]
    BY <1>4, PrefixMeans, LenProperties DEF Path
  <2>2. Len(q) # Len(p)
    BY <1>4, <2>1, SamePath
  <2> QED BY <1>1, <1>2, <2>1, <2>2, PrefixMeans
<1> QED BY <1>1, <1>2, <1>3, <1>4 DEF f, Front

-----------------------------------------------------------------------------
(***************************************************************************)
(* Documents: functions on paths.  What a set of changes that lie apart    *)
(* makes of one is told without an order: it leaves every path alone that  *)
(* it does not touch, and puts at each path it names what it says.         *)
(***************************************************************************)
Doc(v) == v = [q \in DOMAIN v |-> v[q]] /\ DOMAIN v \subseteq Path

Nothing == [q \in {} |-> Object]

After(c) == IF c.op = "delete" THEN Nothing ELSE CHOOSE w \in c.value : TRUE

IsEdit(c) ==
  /\ c.path \in Path \ {<<>>} /\ c.op \in {"set", "delete"}
  /\ Doc(After(c))

Agree(v, w, q) == (q \in DOMAIN v <=> q \in DOMAIN w) /\ (q \in DOMAIN v => v[q] = w[q])

Results(v, C, w) ==
  /\ Doc(w)
  /\ \A q \in Path : (\A c \in C : ~IsPrefix(c.path, q)) => Agree(v, w, q)
  /\ \A c \in C : At(w, c.path) = After(c)

Apart(c, d) == ~Overlap(c.path, d.path)

LEMMA SameDoc ==
  ASSUME NEW v, NEW w, Doc(v), Doc(w), \A q \in Path : Agree(v, w, q)
  PROVE  v = w
<1>1. DOMAIN v = DOMAIN w /\ \A q \in DOMAIN v : v[q] = w[q]
  BY DEF Doc, Agree
<1> QED BY <1>1 DEF Doc

LEMMA AtFacts ==
  ASSUME NEW v, Doc(v), NEW p \in Path
  PROVE  /\ Doc(At(v, p))
         /\ \A r \in Path : /\ r \in DOMAIN At(v, p) <=> p \o r \in DOMAIN v
                            /\ r \in DOMAIN At(v, p) => At(v, p)[r] = v[p \o r]
<1> DEFINE D == {Below(p, q) : q \in {s \in DOMAIN v : IsPrefix(p, s)}}
<1>1. At(v, p) = [r \in D |-> v[p \o r]]
  BY DEF At
<1>2. D \subseteq Path
  BY BelowFacts DEF Doc
<1>3. \A r \in Path : r \in D <=> p \o r \in DOMAIN v
  <2> TAKE r \in Path
  <2>1. p \o r \in Path /\ IsPrefix(p, p \o r) /\ Below(p, p \o r) = r
    BY ConcatFacts
  <2>2. ASSUME r \in D PROVE p \o r \in DOMAIN v
    <3>1. PICK q \in DOMAIN v : IsPrefix(p, q) /\ r = Below(p, q)
      BY <2>2
    <3> QED BY <3>1, BelowFacts DEF Doc
  <2> QED BY <2>1, <2>2
<1> HIDE DEF D
<1> QED BY <1>1, <1>2, <1>3 DEF Doc

(* Two documents with the same members below a path have the same there. *)
LEMMA AtSame ==
  ASSUME NEW v, NEW w, Doc(v), Doc(w), NEW p \in Path,
         \A r \in Path : Agree(v, w, p \o r)
  PROVE  At(v, p) = At(w, p)
<1>1. \A r \in Path : Agree(At(v, p), At(w, p), r)
  BY AtFacts DEF Agree
<1> QED BY <1>1, AtFacts, SameDoc

(* What a set of changes makes of a document is one document. *)
LEMMA ResultsOne ==
  ASSUME NEW v, NEW C, NEW u, NEW w, Results(v, C, u), Results(v, C, w),
         \A c \in C : c.path \in Path
  PROVE  u = w
<1>1. ASSUME NEW q \in Path PROVE Agree(u, w, q)
  <2>1. CASE \A c \in C : ~IsPrefix(c.path, q)
    BY <2>1 DEF Results, Agree
  <2>2. ASSUME NEW c \in C, IsPrefix(c.path, q) PROVE Agree(u, w, q)
    <3>1. PICK r \in Path : q = c.path \o r
      BY <2>2, BelowFacts
    <3>2. At(u, c.path) = At(w, c.path)
      BY DEF Results
    <3> QED BY <3>1, <3>2, AtFacts DEF Results, Agree
  <2> QED BY <2>1, <2>2
<1> QED BY <1>1, SameDoc DEF Results

LEMMA WithoutAtFacts ==
  ASSUME NEW v, Doc(v), NEW p \in Path
  PROVE  /\ Doc(WithoutAt(v, p))
         /\ \A q \in Path : /\ ~IsPrefix(p, q) => Agree(v, WithoutAt(v, p), q)
                            /\ IsPrefix(p, q) => q \notin DOMAIN WithoutAt(v, p)
BY DEF WithoutAt, Doc, Agree

LEMMA WithAtFacts ==
  ASSUME NEW v, Doc(v), NEW p \in Path, NEW new, Doc(new)
  PROVE  /\ Doc(WithAt(v, p, new))
         /\ \A q \in Path : ~IsPrefix(p, q) => Agree(v, WithAt(v, p, new), q)
         /\ \A r \in Path : /\ p \o r \in DOMAIN WithAt(v, p, new) <=> r \in DOMAIN new
                            /\ r \in DOMAIN new => WithAt(v, p, new)[p \o r] = new[r]
<1> DEFINE put == {p \o r : r \in DOMAIN new}
           D == DOMAIN WithoutAt(v, p) \cup put
<1>1. WithAt(v, p, new) = [q \in D |-> IF IsPrefix(p, q) THEN new[Below(p, q)] ELSE v[q]]
  BY DEF WithAt
<1>2. /\ put \subseteq Path
      /\ \A q \in put : IsPrefix(p, q)
      /\ \A r \in Path : p \o r \in put <=> r \in DOMAIN new
  <2>1. DOMAIN new \subseteq Path
    BY DEF Doc
  <2>2. \A r \in Path : p \o r \in Path /\ IsPrefix(p, p \o r) /\ Below(p, p \o r) = r
    BY ConcatFacts
  <2> QED BY <2>1, <2>2
<1>3. DOMAIN WithoutAt(v, p) = {q \in DOMAIN v : ~IsPrefix(p, q)}
  BY DEF WithoutAt
<1>4. D \subseteq Path
  BY <1>2, <1>3 DEF Doc
<1>5. \A q \in Path : ~IsPrefix(p, q) => (q \in D <=> q \in DOMAIN v)
  BY <1>2, <1>3
<1>6. ASSUME NEW r \in Path
      PROVE  /\ IsPrefix(p, p \o r) /\ Below(p, p \o r) = r
             /\ p \o r \in D <=> r \in DOMAIN new
  BY <1>2, <1>3, ConcatFacts
<1> HIDE DEF D
<1> QED BY <1>1, <1>4, <1>5, <1>6 DEF Doc, Agree

(* One change does what it says, and nothing else. *)
LEMMA AppliedResults ==
  ASSUME NEW v, Doc(v), NEW c, IsEdit(c)
  PROVE  Results(v, {c}, Applied(v, c))
<1> DEFINE w == Applied(v, c)
           p == c.path
<1>0. p \in Path
  BY DEF IsEdit
<1>1. CASE c.op = "delete"
  <2>1. w = WithoutAt(v, p)
    BY <1>1 DEF Applied
  <2>2. /\ Doc(w)
        /\ \A q \in Path : /\ ~IsPrefix(p, q) => Agree(v, w, q)
                           /\ IsPrefix(p, q) => q \notin DOMAIN w
    BY <1>0, <2>1, WithoutAtFacts
  <2> HIDE DEF w
  <2>3. \A r \in Path : r \notin DOMAIN At(w, p)
    BY <1>0, <2>2, AtFacts, ConcatFacts
  <2>4. DOMAIN At(w, p) = {} /\ Doc(At(w, p))
    BY <1>0, <2>2, <2>3, AtFacts DEF Doc
  <2>5. At(w, p) = Nothing
    BY <2>4 DEF Doc, Nothing
  <2> QED BY <1>1, <2>2, <2>5 DEF Results, After, w
<1>2. CASE c.op # "delete"
  <2> DEFINE new == After(c)
  <2>1. w = WithAt(v, p, new) /\ Doc(new)
    BY <1>2 DEF Applied, After, IsEdit
  <2> HIDE DEF new
  <2>2. /\ Doc(w)
        /\ \A q \in Path : ~IsPrefix(p, q) => Agree(v, w, q)
        /\ \A r \in Path : /\ p \o r \in DOMAIN w <=> r \in DOMAIN new
                           /\ r \in DOMAIN new => w[p \o r] = new[r]
    BY <1>0, <2>1, WithAtFacts
  <2> HIDE DEF w
  <2>3. \A r \in Path : Agree(At(w, p), new, r)
    BY <1>0, <2>2, AtFacts DEF Agree
  <2>4. At(w, p) = new
    BY <1>0, <2>1, <2>2, <2>3, AtFacts, SameDoc
  <2> QED BY <2>2, <2>4 DEF Results, w, new
<1> QED BY <1>1, <1>2

(* Nothing below the path of a change is touched by one that lies apart.   *)
LEMMA ApartBelow ==
  ASSUME NEW c, NEW d, c.path \in Path, d.path \in Path, Apart(c, d),
         NEW r \in Path
  PROVE  ~IsPrefix(d.path, c.path \o r)
BY ConcatFacts, PrefixOrder DEF Apart

(* Then a change that lies apart from all of a set finds the same before   *)
(* and after them,                                                         *)
LEMMA ApartApplicable ==
  ASSUME NEW v, Doc(v), NEW C, NEW u, Results(v, C, u),
         \A d \in C : IsEdit(d), NEW c, IsEdit(c), \A d \in C : Apart(c, d)
  PROVE  Applicable(u, c) <=> Applicable(v, c)
<1> DEFINE p == c.path
<1>1. p \in Path /\ p # <<>> /\ \A d \in C : d.path \in Path
  BY DEF IsEdit
<1>2. \A d \in C : ~IsPrefix(d.path, p)
  BY DEF Apart, Overlap
<1>3. Front(p) \in Path /\ IsPrefix(Front(p), p)
  BY <1>1, FrontFacts
<1>4. \A d \in C : ~IsPrefix(d.path, Front(p))
  BY <1>1, <1>2, <1>3, PrefixOrder
<1>5. Agree(v, u, p) /\ Agree(v, u, Front(p))
  BY <1>1, <1>2, <1>3, <1>4 DEF Results
<1>6. \A r \in Path : Agree(v, u, p \o r)
  BY <1>1, ApartBelow, ConcatFacts DEF Results
<1>7. At(v, p) = At(u, p)
  BY <1>1, <1>6, AtSame DEF Results
<1> HIDE DEF p
<1>8. (p \in DOMAIN v) = (p \in DOMAIN u)
  BY <1>5 DEF Agree
<1>9. (Front(p) \in DOMAIN v /\ v[Front(p)] = Object) = (Front(p) \in DOMAIN u /\ u[Front(p)] = Object)
  BY <1>5 DEF Agree
<1> QED BY <1>7, <1>8, <1>9 DEF Applicable, p

(* and what it does comes on top of what they did.                         *)
LEMMA ApartResults ==
  ASSUME NEW v, Doc(v), NEW C, NEW u, Results(v, C, u),
         \A d \in C : IsEdit(d), NEW c, IsEdit(c), \A d \in C : Apart(c, d)
  PROVE  Results(v, C \cup {c}, Applied(u, c))
<1> DEFINE w == Applied(u, c)
<1>1. Results(u, {c}, w) /\ Doc(u)
  BY AppliedResults DEF Results
<1> HIDE DEF w
<1>2. ASSUME NEW q \in Path, \A d \in C \cup {c} : ~IsPrefix(d.path, q)
      PROVE  Agree(v, w, q)
  <2>1. Agree(v, u, q) /\ Agree(u, w, q)
    BY <1>1, <1>2 DEF Results
  <2> QED BY <2>1 DEF Agree
<1>3. ASSUME NEW d \in C PROVE At(w, d.path) = After(d)
  <2>1. c.path \in Path /\ d.path \in Path /\ Apart(d, c)
    BY DEF IsEdit, Apart, Overlap
  <2>2. \A r \in Path : Agree(u, w, d.path \o r)
    BY <1>1, <2>1, ApartBelow, ConcatFacts DEF Results
  <2>3. At(u, d.path) = At(w, d.path)
    BY <1>1, <2>1, <2>2, AtSame DEF Results
  <2> QED BY <2>3 DEF Results
<1> QED BY <1>1, <1>2, <1>3 DEF Results, w

(* A set that has 0 and the successor of each of its naturals has them all. *)
LEMMA CountingUp ==
  ASSUME NEW S, 0 \in S, \A n \in Nat : n \in S => n + 1 \in S
  PROVE  Nat \subseteq S
<1> DEFINE R == {p \in Nat \X Nat : p[1] < p[2]}
           T == Nat \ S
<1>1. IsWellFoundedOn(R, Nat)
  BY NatLessThanWellFounded DEF OpToRel
<1>2. SUFFICES ASSUME T # {} PROVE FALSE
  OBVIOUS
<1>3. PICK x \in T : \A y \in T : ~(<<y, x>> \in R)
  <2> HIDE DEF R, T
  <2> QED BY <1>1, <1>2, WFMin, T \subseteq Nat DEF T
<1>4. x \in Nat /\ x # 0 /\ x - 1 \in Nat /\ <<x - 1, x>> \in R
  OBVIOUS
<1>5. x - 1 \in S
  BY <1>3, <1>4
<1>6. x - 1 + 1 = x
  BY <1>4
<1> QED BY <1>4, <1>5, <1>6

(* The operations one after the other, as a function of their number.      *)
OneMore(out, c) == {Applied(w, c) : w \in {u \in out : Applicable(u, c)}}

StepByStep(f, v, ops, n) ==
  f = [k \in 0..n |-> IF k = 0 THEN {v} ELSE OneMore(f[k - 1], ops[k])]

LEMMA OutcomeDefined ==
  ASSUME NEW v, NEW ops, Len(ops) \in Nat
  PROVE  \E f : StepByStep(f, v, ops, Len(ops)) /\ Outcome(v, ops) = f[Len(ops)]
<1> DEFINE S == {n \in Nat : \E f : StepByStep(f, v, ops, n)}
<1>1. 0 \in S
  <2>1. StepByStep([k \in 0..0 |-> {v}], v, ops, 0)
    BY DEF StepByStep
  <2> QED BY <2>1
<1>2. ASSUME NEW n \in Nat, n \in S PROVE n + 1 \in S
  <2>1. PICK f : StepByStep(f, v, ops, n)
    BY <1>2
  <2> DEFINE g == [k \in 0..(n + 1) |-> IF k = n + 1 THEN OneMore(f[n], ops[n + 1]) ELSE f[k]]
  <2>2. \A k \in 0..n : f[k] = IF k = 0 THEN {v} ELSE OneMore(f[k - 1], ops[k])
    BY <2>1 DEF StepByStep
  <2>3. \A k \in 0..(n + 1) : g[k] = IF k = 0 THEN {v} ELSE OneMore(g[k - 1], ops[k])
    <3> TAKE k \in 0..(n + 1)
    <3>1. CASE k = n + 1
      BY <3>1
    <3>2. CASE k # n + 1
      <4>1. k \in 0..n /\ (k # 0 => k - 1 \in 0..n /\ k - 1 # n + 1)
        BY <3>2, n \in Nat
      <4>2. g[k] = f[k] /\ (k # 0 => g[k - 1] = f[k - 1])
        BY <3>2, <4>1
      <4> HIDE DEF g
      <4> QED BY <4>1, <4>2, <2>2
    <3> QED BY <3>1, <3>2
  <2>4. StepByStep(g, v, ops, n + 1)
    BY <2>3 DEF StepByStep
  <2>5. \E h : StepByStep(h, v, ops, n + 1)
    <3> HIDE DEF g
    <3> QED BY <2>4
  <2> QED BY <2>5
<1>3. Nat \subseteq S
  <2> HIDE DEF S
  <2> QED BY <1>1, <1>2, CountingUp
<1>4. PICK h : StepByStep(h, v, ops, Len(ops))
  BY <1>3
<1> DEFINE e == CHOOSE f : StepByStep(f, v, ops, Len(ops))
<1>5. StepByStep(e, v, ops, Len(ops))
  BY <1>4
<1>6. Outcome(v, ops) = e[Len(ops)]
  BY DEF Outcome, StepByStep, OneMore
<1> HIDE DEF e
<1> QED BY <1>5, <1>6

(* Changes that lie apart from each other are refused together, or make    *)
(* of a document what their set makes of it, in whatever order they come.  *)
Separate(ops) ==
  /\ \A i \in 1..Len(ops) : IsEdit(ops[i])
  /\ \A i, j \in 1..Len(ops) : i # j => Apart(ops[i], ops[j])

Firsts(ops, n) == {ops[i] : i \in 1..n}

LEMMA OutcomeFacts ==
  ASSUME NEW v, Doc(v), NEW ops, Len(ops) \in Nat, Separate(ops)
  PROVE  IF \A c \in Firsts(ops, Len(ops)) : Applicable(v, c)
           THEN \E w : Outcome(v, ops) = {w} /\ Results(v, Firsts(ops, Len(ops)), w)
           ELSE Outcome(v, ops) = {}
<1> DEFINE L == Len(ops)
<1>1. PICK f : StepByStep(f, v, ops, L) /\ Outcome(v, ops) = f[L]
  BY OutcomeDefined
<1>2. f[0] = {v} /\ \A k \in 1..L : f[k] = OneMore(f[k - 1], ops[k])
  <2> HIDE DEF L
  <2>1. \A k \in 0..L : f[k] = IF k = 0 THEN {v} ELSE OneMore(f[k - 1], ops[k])
    BY <1>1 DEF StepByStep
  <2>2. L \in Nat
    BY DEF L
  <2> QED BY <2>1, <2>2
<1> DEFINE Told(n) == IF \A c \in Firsts(ops, n) : Applicable(v, c)
                        THEN \E w : f[n] = {w} /\ Results(v, Firsts(ops, n), w)
                        ELSE f[n] = {}
           S == {n \in Nat : n <= L => Told(n)}
<1>3. 0 \in S
  <2>1. Firsts(ops, 0) = {}
    BY DEF Firsts
  <2>2. Results(v, {}, v)
    BY DEF Results, Agree
  <2> QED BY <1>2, <2>1, <2>2
<1>4. ASSUME NEW n \in Nat, n \in S PROVE n + 1 \in S
  <2> SUFFICES ASSUME n + 1 <= L PROVE Told(n + 1)
    OBVIOUS
  <2> DEFINE c == ops[n + 1]
             C == Firsts(ops, n)
  <2>1. Firsts(ops, n + 1) = C \cup {c}
    BY DEF Firsts
  <2>2. /\ f[n + 1] = OneMore(f[n], c)
        /\ IsEdit(c)
        /\ \A d \in C : IsEdit(d) /\ Apart(c, d)
    <3>1. n + 1 \in 1..L /\ (n + 1) - 1 = n
      OBVIOUS
    <3>2. \A i \in 1..n : i \in 1..L /\ i # n + 1
      OBVIOUS
    <3> QED BY <1>2, <3>1, <3>2 DEF Separate, Firsts
  <2>3. Told(n)
    BY <1>4
  <2> HIDE DEF c, C
  <2>4. CASE \A d \in C : Applicable(v, d)
    <3>1. PICK u : f[n] = {u} /\ Results(v, C, u)
      BY <2>3, <2>4 DEF C
    <3>2. Applicable(u, c) <=> Applicable(v, c)
      BY <2>2, <3>1, ApartApplicable
    <3>3. Results(v, C \cup {c}, Applied(u, c))
      BY <2>2, <3>1, ApartResults
    <3>4. CASE Applicable(v, c)
      <4>1. f[n + 1] = {Applied(u, c)}
        BY <2>2, <3>1, <3>2, <3>4 DEF OneMore
      <4> QED BY <2>1, <2>4, <3>3, <3>4, <4>1
    <3>5. CASE ~Applicable(v, c)
      <4>1. f[n + 1] = {}
        BY <2>2, <3>1, <3>2, <3>5 DEF OneMore
      <4> QED BY <2>1, <3>5, <4>1
    <3> QED BY <3>4, <3>5
  <2>5. CASE ~(\A d \in C : Applicable(v, d))
    <3>1. f[n] = {}
      BY <2>3, <2>5 DEF C
    <3>2. f[n + 1] = {}
      BY <2>2, <3>1 DEF OneMore
    <3> QED BY <2>1, <2>5, <3>2
  <2> QED BY <2>4, <2>5
<1>5. Nat \subseteq S
  <2> HIDE DEF S
  <2> QED BY <1>3, <1>4, CountingUp
<1>6. Told(L)
  BY <1>5
<1> QED BY <1>1, <1>6

(* A finite set in any order is the set. *)
LEMMA OrderFacts ==
  ASSUME NEW C, IsFiniteSet(C), NEW order \in SetToSeqs(C)
  PROVE  /\ Len(order) = Cardinality(C) /\ Len(order) \in Nat
         /\ Firsts(order, Len(order)) = C
         /\ \A i \in 1..Len(order) : order[i] \in C
         /\ \A i, j \in 1..Len(order) : i # j => order[i] # order[j]
<1> DEFINE n == Cardinality(C)
           D == 1..n
<1>1. n \in Nat
  BY FS_CardinalityType
<1>2. IsFiniteSet(D) /\ Cardinality(D) = n
  BY <1>1, FS_Interval
<1>3. order \in [D -> C] /\ \A i, j \in D : i # j => order[i] # order[j]
  BY DEF SetToSeqs
<1>4. Len(order) = n
  BY <1>1, <1>3
<1> HIDE DEF D
<1>5. order \in Injection(D, C)
  BY <1>3 DEF Injection, IsInjective
<1>6. order \in Surjection(D, C)
  BY <1>2, <1>5, FS_Injection
<1>7. {order[i] : i \in D} = C
  BY <1>3, <1>6 DEF Surjection
<1> QED BY <1>1, <1>3, <1>4, <1>7 DEF Firsts, D

LEMMA SomeOrder ==
  ASSUME NEW C, IsFiniteSet(C)
  PROVE  SetToSeq(C) \in SetToSeqs(C)
<1> DEFINE D == 1..Cardinality(C)
<1>1. PICK f : f \in Bijection(D, C)
  BY FS_CardinalityType DEF ExistsBijection
<1>2. f \in [D -> C] /\ IsInjective(f)
  BY <1>1 DEF Bijection, Injection
<1> DEFINE g == CHOOSE h \in [D -> C] : IsInjective(h)
<1>3. g \in [D -> C] /\ IsInjective(g)
  BY <1>2
<1>4. SetToSeq(C) = g
  BY DEF SetToSeq
<1>5. \A i, j \in D : i # j => g[i] # g[j]
  BY <1>3 DEF IsInjective
<1> HIDE DEF g
<1> QED BY <1>3, <1>4, <1>5 DEF SetToSeqs

(* Every order of a set of changes that lie apart does the same.           *)
ApartSet(C) ==
  /\ IsFiniteSet(C) /\ \A c \in C : IsEdit(c)
  /\ \A c, d \in C : c # d => Apart(c, d)

LEMMA OutcomeOfSet ==
  ASSUME NEW v, Doc(v), NEW C, ApartSet(C), NEW order \in SetToSeqs(C)
  PROVE  IF \A c \in C : Applicable(v, c)
           THEN \E w : Outcome(v, order) = {w} /\ Results(v, C, w)
           ELSE Outcome(v, order) = {}
<1>1. Len(order) \in Nat /\ Firsts(order, Len(order)) = C
  BY OrderFacts DEF ApartSet
<1>2. Separate(order)
  BY OrderFacts DEF ApartSet, Separate
<1> QED BY <1>1, <1>2, OutcomeFacts

LEMMA AnyOrder ==
  ASSUME NEW v, Doc(v), NEW C, ApartSet(C), NEW order \in SetToSeqs(C)
  PROVE  Outcome(v, order) = Outcome(v, SetToSeq(C))
<1>1. SetToSeq(C) \in SetToSeqs(C)
  BY SomeOrder DEF ApartSet
<1>2. CASE \A c \in C : Applicable(v, c)
  <2>1. PICK w : Outcome(v, order) = {w} /\ Results(v, C, w)
    BY <1>2, OutcomeOfSet
  <2>2. PICK u : Outcome(v, SetToSeq(C)) = {u} /\ Results(v, C, u)
    BY <1>1, <1>2, OutcomeOfSet
  <2>3. u = w
    BY <2>1, <2>2, ResultsOne DEF ApartSet, IsEdit
  <2> QED BY <2>1, <2>2, <2>3
<1>3. CASE ~(\A c \in C : Applicable(v, c))
  BY <1>1, <1>3, OutcomeOfSet
<1> QED BY <1>2, <1>3

-----------------------------------------------------------------------------
(***************************************************************************)
(* JSON values.                                                            *)
(***************************************************************************)
LEMMA PathOfIsPath ==
  ASSUME NEW n \in Nat
  PROVE  PathOf(n) \subseteq Path
BY DEF PathOf, Path

LEMMA JsonFacts ==
  ASSUME NEW n \in Nat, NEW v \in Json(n)
  PROVE  /\ Doc(v) /\ <<>> \in DOMAIN v /\ IsFiniteSet(DOMAIN v)
         /\ \A p \in DOMAIN v : p # <<>> => Front(p) \in DOMAIN v /\ v[Front(p)] = Object
<1>1. PICK D \in SUBSET PathOf(n) : v \in [D -> Scalar \cup {Object}]
  BY DEF Json
<1>2. DOMAIN v \subseteq Path
  BY <1>1, PathOfIsPath
<1>3. v = [q \in DOMAIN v |-> v[q]]
  BY <1>1
<1> QED BY <1>2, <1>3 DEF Json, Doc

(* Above everything in a JSON value there is an object. *)
LEMMA PrefixClosed ==
  ASSUME NEW n \in Nat, NEW v \in Json(n), NEW q \in DOMAIN v,
         NEW p \in Path, IsPrefix(p, q), p # q
  PROVE  p \in DOMAIN v /\ v[p] = Object
<1> DEFINE Above(r, s) == IsPrefix(r, s) /\ r # s => r \in DOMAIN v /\ v[r] = Object
           S == {k \in Nat : \A s \in DOMAIN v : Len(s) = k => \A r \in Path : Above(r, s)}
<1>0. DOMAIN v \subseteq Path /\ \A s \in Path : Len(s) \in Nat
  BY JsonFacts, LenProperties DEF Doc, Path
<1>1. 0 \in S
  <2> SUFFICES ASSUME NEW s \in DOMAIN v, Len(s) = 0, NEW r \in Path, IsPrefix(r, s)
               PROVE  r = s
    OBVIOUS
  <2>1. s \in Path /\ Len(r) \in Nat
    BY <1>0
  <2>2. Len(r) = 0
    BY <2>1, PrefixMeans
  <2> QED BY <2>1, <2>2, SamePath
<1>2. ASSUME NEW k \in Nat, k \in S PROVE k + 1 \in S
  <2> SUFFICES ASSUME NEW s \in DOMAIN v, Len(s) = k + 1,
                      NEW r \in Path, IsPrefix(r, s), r # s
               PROVE  r \in DOMAIN v /\ v[r] = Object
    OBVIOUS
  <2>1. s \in Path /\ s # <<>>
    BY <1>0, EmptySeq DEF Path
  <2>2. Front(s) \in DOMAIN v /\ v[Front(s)] = Object
    BY <2>1, JsonFacts
  <2>3. Len(Front(s)) = k /\ IsPrefix(r, Front(s))
    BY <2>1, FrontFacts
  <2>4. CASE r = Front(s)
    BY <2>2, <2>4
  <2>5. CASE r # Front(s)
    BY <1>2, <2>2, <2>3, <2>5
  <2> QED BY <2>4, <2>5
<1>3. Nat \subseteq S
  <2> HIDE DEF S
  <2> QED BY <1>1, <1>2, CountingUp
<1>4. q \in Path /\ Len(q) \in Nat
  BY <1>0
<1> QED BY <1>3, <1>4

LEMMA NothingBelow ==
  ASSUME NEW n \in Nat, NEW v \in Json(n), NEW p \in Path, p \notin DOMAIN v
  PROVE  At(v, p) = Nothing
<1>1. Doc(v)
  BY JsonFacts
<1>2. \A r \in Path : p \o r \notin DOMAIN v
  BY ConcatFacts, PrefixClosed
<1>3. DOMAIN At(v, p) = {} /\ Doc(At(v, p))
  BY <1>1, <1>2, AtFacts DEF Doc
<1> QED BY <1>3 DEF Doc, Nothing

(* A change that normalizeChange lets through. *)
LEMMA ChangeIsEdit ==
  ASSUME NEW c, IsChange(c)
  PROVE  IsEdit(c)
<1>1. c.path \in Path \ {<<>>}
  BY PathOfIsPath, JsonAssumption DEF IsChange
<1>2. CASE c.op = "set" /\ c.value \in {{w} : w \in JsonValue}
  <2>1. PICK w \in JsonValue : c.value = {w}
    BY <1>2
  <2>2. (CHOOSE x \in c.value : TRUE) = w
    BY <2>1
  <2> QED BY <1>1, <1>2, <2>2, JsonFacts, JsonAssumption DEF IsEdit, After, JsonValue
<1>3. CASE c.op = "delete"
  BY <1>1, <1>3 DEF IsEdit, After, Nothing, Doc
<1> QED BY <1>2, <1>3 DEF IsChange

-----------------------------------------------------------------------------
(***************************************************************************)
(* Diffs.                                                                  *)
(***************************************************************************)
LEMMA StateFacts ==
  ASSUME NEW v \in JsonState
  PROVE  /\ MaxDepth \in Nat /\ v \in Json(MaxDepth) /\ Doc(v)
         /\ <<>> \in DOMAIN v /\ v[<<>>] = Object /\ IsFiniteSet(DOMAIN v)
BY JsonFacts, JsonAssumption DEF JsonState, JsonValue

LEMMA ReachedMeans ==
  ASSUME NEW v, NEW w, NEW p \in Path
  PROVE  Reached(v, w, p) <=>
           p # <<>> /\ \A a \in Path : IsPrefix(a, p) /\ a # p =>
             a \in DOMAIN v /\ v[a] = Object /\ a \in DOMAIN w /\ w[a] = Object
<1>0. Len(p) \in Nat
  BY LenProperties DEF Path
<1>1. ASSUME NEW n \in 0..(Len(p) - 1)
      PROVE  LET a == SubSeq(p, 1, n) IN a \in Path /\ IsPrefix(a, p) /\ a # p
  <2> DEFINE a == SubSeq(p, 1, n)
  <2>0. 1 \in 1..(Len(p) + 1) /\ n \in (1 - 1)..Len(p) /\ n - 1 + 1 = n
    BY <1>0
  <2>1. /\ a \in Path /\ Len(a) = n - 1 + 1
        /\ \A i \in 1..(n - 1 + 1) : a[i] = p[1 + i - 1]
    BY <2>0, SubSeqFacts
  <2> HIDE DEF a
  <2>2. Len(a) = n /\ \A i \in 1..n : a[i] = p[i]
    BY <2>0, <2>1
  <2>3. IsPrefix(a, p)
    BY <1>0, <2>1, <2>2, PrefixMeans
  <2>4. a # p
    BY <1>0, <2>2
  <2> QED BY <2>1, <2>3, <2>4 DEF a
<1>2. ASSUME NEW a \in Path, IsPrefix(a, p), a # p
      PROVE  \E n \in 0..(Len(p) - 1) : a = SubSeq(p, 1, n)
  <2>1. Len(a) \in Nat /\ Len(a) <= Len(p) /\ \A i \in 1..Len(a) : a[i] = p[i]
    BY <1>2, PrefixMeans, LenProperties DEF Path
  <2>2. Len(a) # Len(p)
    BY <1>2, <2>1, SamePath
  <2>3. Len(a) \in 0..(Len(p) - 1)
    BY <1>0, <2>1, <2>2
  <2>4. SubSeq(p, 1, Len(a)) = SubSeq(a, 1, Len(a))
    BY <1>2 DEF IsPrefix
  <2>5. SubSeq(a, 1, Len(a)) = a
    BY SubSeqFull DEF Path
  <2> QED BY <2>3, <2>4, <2>5
<1> QED BY <1>1, <1>2 DEF Reached

(* The three kinds of changes in a diff; the path tells which it is.       *)
Deleted(v, w, p) == p \in DOMAIN v /\ p \notin DOMAIN w
Created(v, w, p) == p \in DOMAIN w /\ p \notin DOMAIN v
Replaced(v, w, p) == p \in DOMAIN v /\ p \in DOMAIN w /\ v[p] # w[p]

LEMMA DiffMembers ==
  ASSUME NEW v, NEW w
  PROVE  /\ \A c \in Diff(v, w) :
              /\ Reached(v, w, c.path)
              /\ \/ Deleted(v, w, c.path)  /\ c = DeleteChange(c.path, {TRUE}, {At(v, c.path)})
                 \/ Created(v, w, c.path)  /\ c = SetChange(c.path, At(w, c.path), {FALSE}, {})
                 \/ Replaced(v, w, c.path) /\ c = SetChange(c.path, At(w, c.path), {TRUE}, {At(v, c.path)})
         /\ \A p : /\ Reached(v, w, p)
                   /\ Deleted(v, w, p) \/ Created(v, w, p) \/ Replaced(v, w, p)
                   => \E c \in Diff(v, w) : c.path = p
<1>1. ASSUME NEW c \in Diff(v, w)
      PROVE  /\ Reached(v, w, c.path)
             /\ \/ Deleted(v, w, c.path)  /\ c = DeleteChange(c.path, {TRUE}, {At(v, c.path)})
                \/ Created(v, w, c.path)  /\ c = SetChange(c.path, At(w, c.path), {FALSE}, {})
                \/ Replaced(v, w, c.path) /\ c = SetChange(c.path, At(w, c.path), {TRUE}, {At(v, c.path)})
  <2>1. ASSUME NEW p, Deleted(v, w, p), Reached(v, w, p), c = DeleteChange(p, {TRUE}, {At(v, p)})
        PROVE  Reached(v, w, c.path) /\ Deleted(v, w, c.path)
               /\ c = DeleteChange(c.path, {TRUE}, {At(v, c.path)})
    <3>1. c.path = p
      BY <2>1 DEF DeleteChange
    <3> QED BY <2>1, <3>1
  <2>2. ASSUME NEW p, Created(v, w, p), Reached(v, w, p), c = SetChange(p, At(w, p), {FALSE}, {})
        PROVE  Reached(v, w, c.path) /\ Created(v, w, c.path)
               /\ c = SetChange(c.path, At(w, c.path), {FALSE}, {})
    <3>1. c.path = p
      BY <2>2 DEF SetChange
    <3> QED BY <2>2, <3>1
  <2>3. ASSUME NEW p, Replaced(v, w, p), Reached(v, w, p), c = SetChange(p, At(w, p), {TRUE}, {At(v, p)})
        PROVE  Reached(v, w, c.path) /\ Replaced(v, w, c.path)
               /\ c = SetChange(c.path, At(w, c.path), {TRUE}, {At(v, c.path)})
    <3>1. c.path = p
      BY <2>3 DEF SetChange
    <3> QED BY <2>3, <3>1
  <2>4. \/ \E p : Deleted(v, w, p) /\ Reached(v, w, p) /\ c = DeleteChange(p, {TRUE}, {At(v, p)})
        \/ \E p : Created(v, w, p) /\ Reached(v, w, p) /\ c = SetChange(p, At(w, p), {FALSE}, {})
        \/ \E p : Replaced(v, w, p) /\ Reached(v, w, p) /\ c = SetChange(p, At(w, p), {TRUE}, {At(v, p)})
    BY DEF Diff, Deleted, Created, Replaced
  <2> QED BY <2>1, <2>2, <2>3, <2>4
<1>2. ASSUME NEW p, Reached(v, w, p), Deleted(v, w, p) \/ Created(v, w, p) \/ Replaced(v, w, p)
      PROVE  \E c \in Diff(v, w) : c.path = p
  <2>1. CASE Deleted(v, w, p)
    <3>1. DeleteChange(p, {TRUE}, {At(v, p)}) \in Diff(v, w)
      BY <1>2, <2>1 DEF Diff, Deleted
    <3>2. DeleteChange(p, {TRUE}, {At(v, p)}).path = p
      BY DEF DeleteChange
    <3> QED BY <3>1, <3>2
  <2>2. CASE Created(v, w, p)
    <3>1. SetChange(p, At(w, p), {FALSE}, {}) \in Diff(v, w)
      BY <1>2, <2>2 DEF Diff, Created
    <3>2. SetChange(p, At(w, p), {FALSE}, {}).path = p
      BY DEF SetChange
    <3> QED BY <3>1, <3>2
  <2>3. CASE Replaced(v, w, p)
    <3>1. SetChange(p, At(w, p), {TRUE}, {At(v, p)}) \in Diff(v, w)
      BY <1>2, <2>3 DEF Diff, Replaced
    <3>2. SetChange(p, At(w, p), {TRUE}, {At(v, p)}).path = p
      BY DEF SetChange
    <3> QED BY <3>1, <3>2
  <2> QED BY <1>2, <2>1, <2>2, <2>3
<1> QED BY <1>1, <1>2

(* What a change of a diff is: it puts at its path what stands there in    *)
(* the clone.                                                              *)
LEMMA DiffChange ==
  ASSUME NEW v \in JsonState, NEW w \in JsonState, NEW c \in Diff(v, w)
  PROVE  /\ c.path \in Path /\ c.path \in DOMAIN v \cup DOMAIN w
         /\ IsEdit(c) /\ After(c) = At(w, c.path)
<1> DEFINE p == c.path
<1>1. /\ Reached(v, w, p)
      /\ \/ Deleted(v, w, p)  /\ c = DeleteChange(p, {TRUE}, {At(v, p)})
         \/ Created(v, w, p)  /\ c = SetChange(p, At(w, p), {FALSE}, {})
         \/ Replaced(v, w, p) /\ c = SetChange(p, At(w, p), {TRUE}, {At(v, p)})
  BY DiffMembers
<1>2. p \in DOMAIN v \cup DOMAIN w
  BY <1>1 DEF Deleted, Created, Replaced
<1>3. p \in Path /\ p # <<>>
  BY <1>1, <1>2, StateFacts DEF Doc, Reached
<1>4. Doc(At(w, p))
  BY <1>3, StateFacts, AtFacts
<1> HIDE DEF p
<1>5. CASE Deleted(v, w, p) /\ c = DeleteChange(p, {TRUE}, {At(v, p)})
  <2>1. c.op = "delete" /\ After(c) = Nothing
    BY <1>5 DEF DeleteChange, After
  <2>2. At(w, p) = Nothing
    BY <1>3, <1>5, StateFacts, NothingBelow DEF Deleted
  <2> QED BY <1>2, <1>3, <1>4, <2>1, <2>2 DEF IsEdit, p
<1>6. ASSUME NEW e, NEW x, c = SetChange(p, At(w, p), e, x)
      PROVE  IsEdit(c) /\ After(c) = At(w, p)
  <2>1. c.op = "set" /\ c.value = {At(w, p)}
    BY <1>6 DEF SetChange
  <2>2. After(c) = At(w, p)
    BY <2>1 DEF After
  <2> QED BY <1>3, <1>4, <2>1, <2>2 DEF IsEdit, p
<1> QED BY <1>1, <1>2, <1>3, <1>5, <1>6 DEF p

LEMMA DiffIsApart ==
  ASSUME NEW v \in JsonState, NEW w \in JsonState
  PROVE  ApartSet(Diff(v, w))
<1> DEFINE C == Diff(v, w)
<1>0. \A c \in C : c.path \in Path /\ c.path \in DOMAIN v \cup DOMAIN w /\ IsEdit(c)
  BY DiffChange
<1>1. ASSUME NEW c \in C, NEW d \in C, IsPrefix(c.path, d.path)
      PROVE  c = d
  <2>1. CASE c.path = d.path
    <3>1. /\ \/ Deleted(v, w, c.path)  /\ c = DeleteChange(c.path, {TRUE}, {At(v, c.path)})
             \/ Created(v, w, c.path)  /\ c = SetChange(c.path, At(w, c.path), {FALSE}, {})
             \/ Replaced(v, w, c.path) /\ c = SetChange(c.path, At(w, c.path), {TRUE}, {At(v, c.path)})
          /\ \/ Deleted(v, w, d.path)  /\ d = DeleteChange(d.path, {TRUE}, {At(v, d.path)})
             \/ Created(v, w, d.path)  /\ d = SetChange(d.path, At(w, d.path), {FALSE}, {})
             \/ Replaced(v, w, d.path) /\ d = SetChange(d.path, At(w, d.path), {TRUE}, {At(v, d.path)})
      BY DiffMembers
    <3> QED BY <2>1, <3>1 DEF Deleted, Created, Replaced
  <2>2. CASE c.path # d.path
    <3>1. Reached(v, w, d.path) /\ c.path \in Path /\ d.path \in Path
      BY <1>0, DiffMembers
    <3>2. /\ c.path \in DOMAIN v /\ v[c.path] = Object
          /\ c.path \in DOMAIN w /\ w[c.path] = Object
      BY <1>1, <2>2, <3>1, ReachedMeans
    <3>3. Deleted(v, w, c.path) \/ Created(v, w, c.path) \/ Replaced(v, w, c.path)
      BY DiffMembers
    <3> QED BY <3>2, <3>3 DEF Deleted, Created, Replaced
  <2> QED BY <2>1, <2>2
<1>2. \A c, d \in C : c # d => Apart(c, d)
  BY <1>1 DEF Apart, Overlap
<1>3. IsFiniteSet(C)
  <2> DEFINE D == DOMAIN v \cup DOMAIN w
             f == [c \in C |-> c.path]
  <2>1. IsFiniteSet(D)
    BY StateFacts, FS_Union
  <2>2. \A c, d \in C : c.path = d.path => c = d
    BY <1>0, <1>1, PrefixOrder
  <2>3. f \in Injection(C, D)
    BY <1>0, <2>2 DEF Injection, IsInjective
  <2> HIDE DEF C, D, f
  <2> QED BY <2>1, <2>3, FS_Injection
<1> QED BY <1>0, <1>2, <1>3 DEF ApartSet

(* The precondition of a change of a diff is what the source has there.    *)
LEMMA DiffBinds ==
  ASSUME NEW v, NEW w, NEW c \in Diff(v, w)
  PROVE  \/ /\ c.path \in DOMAIN v
            /\ c.exists = {TRUE} /\ c.expected = {At(v, c.path)}
         \/ /\ c.path \notin DOMAIN v
            /\ c.exists = {FALSE} /\ c.expected = {} /\ c.op = "set"
<1> DEFINE p == c.path
<1>1. \/ Deleted(v, w, p)  /\ c = DeleteChange(p, {TRUE}, {At(v, p)})
      \/ Created(v, w, p)  /\ c = SetChange(p, At(w, p), {FALSE}, {})
      \/ Replaced(v, w, p) /\ c = SetChange(p, At(w, p), {TRUE}, {At(v, p)})
  BY DiffMembers
<1> HIDE DEF p
<1>2. ASSUME NEW x, NEW y, NEW e, c = DeleteChange(x, e, y)
      PROVE  c.exists = e /\ c.expected = y
  BY <1>2 DEF DeleteChange
<1>3. ASSUME NEW x, NEW y, NEW e, NEW z, c = SetChange(x, z, e, y)
      PROVE  c.exists = e /\ c.expected = y /\ c.op = "set"
  BY <1>3 DEF SetChange
<1>4. CASE Deleted(v, w, p) /\ c = DeleteChange(p, {TRUE}, {At(v, p)})
  BY <1>2, <1>4 DEF Deleted, p
<1>5. CASE Created(v, w, p) /\ c = SetChange(p, At(w, p), {FALSE}, {})
  BY <1>3, <1>5 DEF Created, p
<1>6. CASE Replaced(v, w, p) /\ c = SetChange(p, At(w, p), {TRUE}, {At(v, p)})
  <2> DEFINE z == At(w, p)
             y == {At(v, p)}
             e == {TRUE}
  <2>1. c = SetChange(p, z, e, y)
    BY <1>6
  <2> HIDE DEF z, y, e
  <2>2. c.exists = e /\ c.expected = y
    BY <1>3, <2>1
  <2> QED BY <1>6, <2>2 DEF Replaced, p, y, e
<1> QED BY <1>1, <1>4, <1>5, <1>6

LEMMA DiffApplies ==
  ASSUME NEW v \in JsonState, NEW w \in JsonState, NEW c \in Diff(v, w)
  PROVE  Applicable(v, c)
<1> DEFINE p == c.path
<1>1. p \in Path /\ p # <<>> /\ Reached(v, w, p)
  BY DiffChange, DiffMembers DEF IsEdit
<1>2. Front(p) \in DOMAIN v /\ v[Front(p)] = Object
  BY <1>1, FrontFacts, ReachedMeans
<1>3. \/ p \in DOMAIN v /\ c.exists = {TRUE} /\ c.expected = {At(v, p)}
      \/ p \notin DOMAIN v /\ c.exists = {FALSE} /\ c.expected = {} /\ c.op = "set"
  BY DiffBinds
<1>4. CASE p \in DOMAIN v /\ c.exists = {TRUE} /\ c.expected = {At(v, p)}
  BY <1>2, <1>4 DEF Applicable
<1>5. CASE p \notin DOMAIN v /\ c.exists = {FALSE} /\ c.expected = {} /\ c.op = "set"
  <2>1. ASSUME NEW e \in c.exists PROVE e = (p \in DOMAIN v)
    <3>1. e = FALSE
      BY <1>5
    <3>2. (p \in DOMAIN v) = FALSE
      BY <1>5
    <3> QED BY ONLY <3>1, <3>2
  <2>2. \A x \in c.expected : p \in DOMAIN v /\ At(v, p) = x
    BY <1>5
  <2>3. c.op # "delete"
    BY <1>5
  <2> QED BY <1>2, <2>1, <2>2, <2>3 DEF Applicable
<1> QED BY <1>3, <1>4, <1>5

(* The least of some naturals. *)
LEMMA LeastOf ==
  ASSUME NEW S \in SUBSET Nat, S # {}
  PROVE  \E k \in S : \A j \in S : ~(j < k)
<1> DEFINE R == {p \in Nat \X Nat : p[1] < p[2]}
<1>1. IsWellFoundedOn(R, Nat)
  BY NatLessThanWellFounded DEF OpToRel
<1>2. PICK k \in S : \A j \in S : ~(<<j, k>> \in R)
  <2> HIDE DEF R
  <2> QED BY <1>1, WFMin
<1> QED BY <1>2

LEMMA DiffMakesIt ==
  ASSUME NEW v \in JsonState, NEW w \in JsonState
  PROVE  Results(v, Diff(v, w), w)
<1> DEFINE C == Diff(v, w)
<1>1. Doc(w) /\ \A c \in C : At(w, c.path) = After(c)
  BY StateFacts, DiffChange
<1>2. ASSUME NEW q \in Path, \A c \in C : ~IsPrefix(c.path, q), ~Agree(v, w, q)
      PROVE  FALSE
  <2> DEFINE cut(k) == SubSeq(q, 1, k)
             S == {k \in 0..Len(q) : ~Agree(v, w, cut(k))}
  <2>0. Len(q) \in Nat
    BY LenProperties DEF Path
  <2>1. \A k \in 0..Len(q) : cut(k) \in Path /\ Len(cut(k)) = k /\ \A i \in 1..k : cut(k)[i] = q[i]
    <3> TAKE k \in 0..Len(q)
    <3>1. 1 \in 1..(Len(q) + 1) /\ k \in (1 - 1)..Len(q) /\ k - 1 + 1 = k
      BY <2>0
    <3>2. /\ cut(k) \in Path /\ Len(cut(k)) = k - 1 + 1
          /\ \A i \in 1..(k - 1 + 1) : cut(k)[i] = q[1 + i - 1]
      BY <3>1, SubSeqFacts
    <3> HIDE DEF cut
    <3> QED BY <3>1, <3>2
  <2>2. cut(Len(q)) = q
    BY SubSeqFull DEF Path
  <2> HIDE DEF cut
  <2>3. Len(q) \in S /\ S \in SUBSET Nat
    BY <1>2, <2>0, <2>2
  <2>4. PICK k \in S : \A j \in S : ~(j < k)
    <3> HIDE DEF S
    <3> QED BY <2>3, LeastOf
  <2> DEFINE p == cut(k)
  <2>5. /\ k \in 0..Len(q) /\ p \in Path /\ Len(p) = k
        /\ ~Agree(v, w, p) /\ IsPrefix(p, q)
    BY <2>0, <2>1, <2>4, PrefixMeans
  <2>6. p # <<>>
    BY <2>5, StateFacts DEF Agree
  <2>7. p \in DOMAIN v \cup DOMAIN w
    BY <2>5 DEF Agree
  <2>8. ASSUME NEW a \in Path, IsPrefix(a, p), a # p
        PROVE  a \in DOMAIN v /\ v[a] = Object /\ a \in DOMAIN w /\ w[a] = Object
    <3>1. Len(a) \in Nat /\ Len(a) < k
      <4>1. Len(a) \in Nat /\ Len(a) <= k /\ \A i \in 1..Len(a) : a[i] = p[i]
        BY <2>5, <2>8, PrefixMeans, LenProperties DEF Path
      <4>2. Len(a) # k
        BY <2>5, <2>8, <4>1, SamePath
      <4> QED BY <2>5, <4>1, <4>2
    <3>2. a = cut(Len(a))
      <4>1. Len(a) \in 0..Len(q)
        BY <2>0, <2>5, <3>1
      <4>2. \A i \in 1..Len(a) : a[i] = q[i]
        BY <2>5, <2>8, PrefixOrder, PrefixMeans
      <4> QED BY <2>1, <4>1, <4>2, SamePath
    <3>3. Agree(v, w, a)
      BY <2>0, <2>4, <2>5, <3>1, <3>2
    <3>4. (a \in DOMAIN v /\ v[a] = Object) \/ (a \in DOMAIN w /\ w[a] = Object)
      BY <2>7, <2>8, StateFacts, PrefixClosed
    <3> QED BY <3>3, <3>4 DEF Agree
  <2>9. Reached(v, w, p)
    BY <2>5, <2>6, <2>8, ReachedMeans
  <2>10. Deleted(v, w, p) \/ Created(v, w, p) \/ Replaced(v, w, p)
    BY <2>5 DEF Agree, Deleted, Created, Replaced
  <2>11. PICK c \in C : c.path = p
    BY <2>9, <2>10, DiffMembers
  <2> QED BY <1>2, <2>5, <2>11
<1> QED BY <1>1, <1>2 DEF Results

(* The diff of a clone, in any order, makes the clone of its source.       *)
LEMMA DiffOutcome ==
  ASSUME NEW v \in JsonState, NEW w \in JsonState, NEW order \in SetToSeqs(Diff(v, w))
  PROVE  Outcome(v, order) = {w}
<1> DEFINE C == Diff(v, w)
<1>1. ApartSet(C) /\ Doc(v) /\ Results(v, C, w)
  BY DiffIsApart, DiffMakesIt, StateFacts
<1>2. \A c \in C : Applicable(v, c)
  BY DiffApplies
<1>3. PICK u : Outcome(v, order) = {u} /\ Results(v, C, u)
  <2> HIDE DEF C
  <2> QED BY <1>1, <1>2, OutcomeOfSet DEF C
<1>4. u = w
  BY <1>1, <1>3, ResultsOne DEF ApartSet, IsEdit
<1> QED BY <1>3, <1>4

(* Where a change of a diff is accepted, the document has at its path what *)
(* the source had.                                                         *)
LEMMA DiffNotices ==
  ASSUME NEW v \in JsonState, NEW w \in JsonState, NEW c \in Diff(v, w),
         NEW u \in JsonState, Applicable(u, c)
  PROVE  (c.path \in DOMAIN u <=> c.path \in DOMAIN v) /\ At(u, c.path) = At(v, c.path)
<1> DEFINE p == c.path
<1>1. p \in Path
  BY DiffChange
<1>2. \/ p \in DOMAIN v /\ c.exists = {TRUE} /\ c.expected = {At(v, p)}
      \/ p \notin DOMAIN v /\ c.exists = {FALSE}
  BY DiffBinds
<1> HIDE DEF p
<1>3. ASSUME p \in DOMAIN v, c.exists = {TRUE}, c.expected = {At(v, p)}
      PROVE  p \in DOMAIN u /\ At(u, p) = At(v, p)
  BY <1>3 DEF Applicable, p
<1>4. ASSUME p \notin DOMAIN v, c.exists = {FALSE}
      PROVE  p \notin DOMAIN u /\ At(u, p) = At(v, p)
  <2>1. p \notin DOMAIN u
    BY <1>4 DEF Applicable, p
  <2> QED BY <1>1, <1>4, <2>1, StateFacts, NothingBelow
<1> QED BY <1>2, <1>3, <1>4 DEF p

(* Diffs of states, applied to a state that accepts them, give a state.    *)
LEMMA MergedState ==
  ASSUME NEW v \in JsonState, NEW C, ApartSet(C), NEW W \in SUBSET JsonState,
         IsFiniteSet(W),
         \A c \in C : \E w \in W : After(c) = At(w, c.path),
         \A c \in C : Applicable(v, c),
         NEW u, Results(v, C, u)
  PROVE  u \in JsonState
<1>1. /\ MaxDepth \in Nat /\ v \in Json(MaxDepth) /\ Doc(v)
      /\ <<>> \in DOMAIN v /\ v[<<>>] = Object /\ IsFiniteSet(DOMAIN v)
  BY StateFacts
<1>2. Doc(u) /\ \A c \in C : IsEdit(c) /\ c.path \in Path /\ c.path # <<>>
  BY DEF Results, ApartSet, IsEdit
<1>3. ASSUME NEW q \in Path, \A c \in C : ~IsPrefix(c.path, q)
      PROVE  Agree(v, u, q)
  BY <1>3 DEF Results
<1>4. ASSUME NEW c \in C, NEW q \in Path, IsPrefix(c.path, q)
      PROVE  \E w \in W : Agree(w, u, q) /\ \A s \in Path : IsPrefix(c.path, s) => Agree(w, u, s)
  <2>1. PICK w \in W : At(u, c.path) = At(w, c.path)
    BY DEF Results
  <2>2. Doc(w)
    BY StateFacts
  <2>3. ASSUME NEW s \in Path, IsPrefix(c.path, s)
        PROVE  Agree(w, u, s)
    <3>1. PICK r \in Path : c.path \o r = s
      BY <1>2, <2>3, BelowFacts
    <3>2. /\ r \in DOMAIN At(u, c.path) <=> s \in DOMAIN u
          /\ r \in DOMAIN At(u, c.path) => At(u, c.path)[r] = u[s]
      BY <1>2, <3>1, AtFacts
    <3>3. /\ r \in DOMAIN At(w, c.path) <=> s \in DOMAIN w
          /\ r \in DOMAIN At(w, c.path) => At(w, c.path)[r] = w[s]
      BY <1>2, <2>2, <3>1, AtFacts
    <3> QED
      BY <2>1, <3>2, <3>3 DEF Agree
  <2> QED
    BY <1>4, <2>3
(* Whatever stands at a path stood there in v or in some w. *)
<1>5. ASSUME NEW q \in DOMAIN u
      PROVE  q \in Path /\ \E w \in W \cup {v} : q \in DOMAIN w /\ u[q] = w[q]
  <2>1. q \in Path
    BY <1>2 DEF Doc
  <2>2. CASE \A c \in C : ~IsPrefix(c.path, q)
    BY <2>1, <2>2, <1>3 DEF Agree
  <2>3. CASE \E c \in C : IsPrefix(c.path, q)
    BY <2>1, <2>3, <1>4 DEF Agree
  <2> QED
    BY <2>1, <2>2, <2>3
<1>6. W \cup {v} \subseteq JsonState
  OBVIOUS
<1>7. u = [q \in DOMAIN u |-> u[q]] /\ DOMAIN u \subseteq PathOf(MaxDepth)
      /\ \A q \in DOMAIN u : u[q] \in Scalar \cup {Object}
  BY <1>2, <1>5, <1>6 DEF Doc, JsonState, JsonValue, Json
<1>8. IsFiniteSet(DOMAIN u)
  <2> DEFINE D == {DOMAIN w : w \in W \cup {v}}
  <2>1. IsFiniteSet(W \cup {v})
    BY FS_AddElement
  <2>2. IsFiniteSet(D)
    <3> DEFINE f == [w \in W \cup {v} |-> DOMAIN w]
    <3>1. f \in Surjection(W \cup {v}, D)
      BY DEF Surjection
    <3> HIDE DEF f, D
    <3> QED
      BY <2>1, <3>1, FS_Surjection
  <2>3. \A d \in D : IsFiniteSet(d)
    BY <1>6, StateFacts
  <2>4. DOMAIN u \subseteq UNION D
    BY <1>5
  <2> HIDE DEF D
  <2> QED
    BY <2>2, <2>3, <2>4, FS_UNION, FS_Subset
<1>9. <<>> \in DOMAIN u /\ u[<<>>] = Object
  <2>1. <<>> \in Path
    BY DEF Path
  <2>2. \A c \in C : ~IsPrefix(c.path, <<>>)
    <3> SUFFICES ASSUME NEW c \in C, IsPrefix(c.path, <<>>) PROVE FALSE
      OBVIOUS
    <3>1. Len(c.path) <= 0
      BY <1>2, <2>1, PrefixMeans
    <3> QED
      BY <1>2, <3>1, LenProperties, EmptySeq DEF Path
  <2> QED
    BY <1>1, <1>3, <2>1, <2>2 DEF Agree
<1>10. ASSUME NEW q \in DOMAIN u, q # <<>>
       PROVE  Front(q) \in DOMAIN u /\ u[Front(q)] = Object
  <2> DEFINE f == Front(q)
  <2>1. /\ q \in Path /\ f \in Path /\ IsPrefix(f, q) /\ f # q
        /\ \A p \in Path : IsPrefix(p, q) /\ p # q => IsPrefix(p, f)
    BY <1>5, <1>10, FrontFacts
  <2>2. CASE \A c \in C : ~IsPrefix(c.path, q)
    <3>1. q \in DOMAIN v
      BY <1>3, <2>1, <2>2 DEF Agree
    <3>2. f \in DOMAIN v /\ v[f] = Object
      BY <1>1, <1>10, <3>1, JsonFacts
    <3>3. \A c \in C : ~IsPrefix(c.path, f)
      BY <1>2, <2>1, <2>2, PrefixOrder
    <3> QED
      BY <1>3, <2>1, <3>2, <3>3 DEF Agree
  <2>3. ASSUME NEW c \in C, c.path = q
        PROVE  f \in DOMAIN u /\ u[f] = Object
    <3>1. f \in DOMAIN v /\ v[f] = Object
      BY <2>3 DEF Applicable
    <3>2. ASSUME NEW d \in C, IsPrefix(d.path, f)
          PROVE  FALSE
      <4>1. IsPrefix(d.path, q)
        BY <1>2, <2>1, <3>2, PrefixOrder
      <4>2. d = c
        BY <2>3, <4>1 DEF ApartSet, Apart, Overlap
      <4>3. Len(q) <= Len(f) /\ Len(f) = Len(q) - 1 /\ Len(q) \in Nat
        BY <1>10, <2>1, <2>3, <3>2, <4>2, PrefixMeans, FrontFacts
      <4> QED
        BY <4>3
    <3> QED
      BY <1>3, <2>1, <3>1, <3>2 DEF Agree
  <2>4. ASSUME NEW c \in C, IsPrefix(c.path, q), c.path # q
        PROVE  f \in DOMAIN u /\ u[f] = Object
    <3>1. IsPrefix(c.path, f)
      BY <1>2, <2>1, <2>4
    <3>2. PICK w \in W : Agree(w, u, q) /\ Agree(w, u, f)
      BY <1>4, <2>1, <2>4, <3>1
    <3>3. w \in Json(MaxDepth)
      BY StateFacts
    <3>4. f \in DOMAIN w /\ w[f] = Object
      BY <1>1, <1>10, <3>2, <3>3, JsonFacts DEF Agree
    <3> QED
      BY <3>2, <3>4 DEF Agree
  <2> QED
    BY <2>2, <2>3, <2>4
<1>11. u \in Json(MaxDepth)
  BY <1>7, <1>8, <1>9, <1>10 DEF Json
<1> QED
  BY <1>9, <1>11 DEF JsonState, JsonValue

-----------------------------------------------------------------------------
(***************************************************************************)
(* Plans.                                                                  *)
(***************************************************************************)
Proposed(cands) ==
  /\ IsFiniteSet(DOMAIN cands)
  /\ \A i \in DOMAIN cands :
       IsFiniteSet(cands[i].changes) /\ \A c \in cands[i].changes : IsEdit(c)

LEMMA PlanFields ==
  ASSUME NEW forRef, NEW cands, NEW req, NEW policy
  PROVE  LET plan == MergePlan(forRef, cands, req, policy)
             E == Eligible(cands, forRef, req)
         IN  /\ plan.candidates = cands /\ plan.stateRef = forRef
             /\ plan.conflicts = Conflicts(cands, E)
             /\ plan.decisions = Decisions(cands, E, Conflicts(cands, E))
             /\ plan.operations = UNION {cands[i].changes : i \in Accepted(plan.decisions)}
             /\ plan.commitAllowed =
                  CommitAllowed(plan.operations, plan.conflicts # {}, policy)
BY DEF MergePlan

(* Who is accepted is eligible, and no change of his clashes with another  *)
(* change of an eligible candidate.                                        *)
LEMMA AcceptedMeans ==
  ASSUME NEW forRef, NEW cands, NEW req, NEW policy,
         NEW i \in Accepted(MergePlan(forRef, cands, req, policy).decisions)
  PROVE  /\ i \in Eligible(cands, forRef, req) /\ i \in DOMAIN cands
         /\ \A j \in Eligible(cands, forRef, req) :
              \A c \in cands[i].changes, d \in cands[j].changes :
                c # d => Apart(c, d) /\ Apart(d, c)
<1> DEFINE E == Eligible(cands, forRef, req)
           K == Conflicts(cands, E)
<1>1. i \in Accepted(Decisions(cands, E, K))
  BY PlanFields
<1>2. E \subseteq DOMAIN cands
  BY DEF Eligible
<1> HIDE DEF E, K
<1>3. i \in DOMAIN cands /\ i \in E /\ \A k \in K : i \notin {k.left, k.right}
  BY <1>1 DEF Accepted, Decisions
<1>4. ASSUME NEW j \in E, NEW c \in cands[i].changes, NEW d \in cands[j].changes, c # d
      PROVE  Apart(c, d) /\ Apart(d, c)
  <2> DEFINE k == [left |-> i, right |-> j, a |-> c, b |-> d]
             all == UNION {cands[m].changes : m \in E}
  <2>1. k \in [left : E, right : E, a : all, b : all]
    BY <1>3
  <2>2. k.left = i /\ k.right = j /\ k.a = c /\ k.b = d
    OBVIOUS
  <2> HIDE DEF k
  <2>3. Clash(c, d) => k \in K
    BY <2>1, <2>2 DEF Conflicts, K
  <2>4. ~Clash(c, d)
    BY <1>3, <2>2, <2>3
  <2> QED BY <1>4, <2>4 DEF Clash, Apart, Overlap
<1> QED BY <1>2, <1>3, <1>4 DEF E, K

LEMMA PlanIsApart ==
  ASSUME NEW forRef, NEW cands, Proposed(cands), NEW req, NEW policy
  PROVE  ApartSet(MergePlan(forRef, cands, req, policy).operations)
<1> DEFINE plan == MergePlan(forRef, cands, req, policy)
           A == Accepted(plan.decisions)
           f == [i \in A |-> cands[i].changes]
           F == {cands[i].changes : i \in A}
<1>1. A \subseteq DOMAIN cands
  BY AcceptedMeans
<1>2. plan.operations = UNION F
  BY PlanFields
<1>3. \A c \in UNION F : IsEdit(c)
  BY <1>1 DEF Proposed
<1>4. IsFiniteSet(UNION F)
  <2>1. IsFiniteSet(A)
    BY <1>1, FS_Subset DEF Proposed
  <2>2. f \in Surjection(A, F)
    BY DEF Surjection
  <2>3. \A T \in F : IsFiniteSet(T)
    BY <1>1 DEF Proposed
  <2> HIDE DEF A, f, F
  <2>4. IsFiniteSet(F)
    BY <2>1, <2>2, FS_Surjection
  <2> QED BY <2>3, <2>4, FS_UNION
<1>5. ASSUME NEW c \in UNION F, NEW d \in UNION F, c # d
      PROVE  Apart(c, d)
  <2>1. PICK i \in A, j \in A : c \in cands[i].changes /\ d \in cands[j].changes
    OBVIOUS
  <2>2. j \in Eligible(cands, forRef, req)
    BY AcceptedMeans
  <2> QED BY <1>5, <2>1, <2>2, AcceptedMeans
<1> HIDE DEF F
<1> QED BY <1>2, <1>3, <1>4, <1>5 DEF ApartSet
=============================================================================
