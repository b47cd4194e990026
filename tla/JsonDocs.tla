------------------------------ MODULE JsonDocs ------------------------------
(***************************************************************************)
(* JSON states, and the set / delete operations on them that merge.js      *)
(* applies and clone-body.js derives.                                      *)
(*                                                                         *)
(* A JSON value is the function that gives every path of the value what    *)
(* stands there: Object, or a scalar.  An array is a leaf to this code,    *)
(* which only compares and replaces it, and counts as a scalar.  Equality  *)
(* of these functions is equality of stableStringify, which sorts keys,    *)
(* and stands for equality of its SHA-256.                                 *)
(***************************************************************************)
EXTENDS Naturals, FiniteSets, SequencesExt

CONSTANTS
  Key,        \* keys of objects
  Scalar,     \* everything that is not a plain object
  MaxDepth    \* bound on the length of a path

Object == "object"

ASSUME JsonAssumption == Object \notin Scalar /\ MaxDepth \in Nat

PathOf(n) == UNION {[1..k -> Key] : k \in 0..n}

(* Values whose paths are at most n long: finite, and only an object has   *)
(* members.                                                                *)
Json(n) ==
  {v \in UNION {[D -> Scalar \cup {Object}] : D \in SUBSET PathOf(n)} :
     /\ <<>> \in DOMAIN v /\ IsFiniteSet(DOMAIN v)
     /\ \A p \in DOMAIN v \ {<<>>} :
          Front(p) \in DOMAIN v /\ v[Front(p)] = Object}

JsonValue == Json(MaxDepth)

(* Addressable states: the root is an object (assertAddressableRoot).      *)
JsonState == {v \in JsonValue : v[<<>>] = Object}

(* The value found at a path, and the rest of the path below another.      *)
Below(p, q) == SubSeq(q, Len(p) + 1, Len(q))

At(v, p) ==
  [r \in {Below(p, q) : q \in {s \in DOMAIN v : IsPrefix(p, s)}} |-> v[p \o r]]

WithoutAt(v, p) == [q \in {s \in DOMAIN v : ~IsPrefix(p, s)} |-> v[q]]

WithAt(v, p, new) ==
  [q \in DOMAIN WithoutAt(v, p) \cup {p \o r : r \in DOMAIN new} |->
     IF IsPrefix(p, q) THEN new[Below(p, q)] ELSE v[q]]
-----------------------------------------------------------------------------
(* A change of a candidate, with the optional parts as sets of at most one *)
(* element: the value of a set, precondition.exists, precondition.value.   *)
SetChange(p, value, exists, expected) ==
  [path |-> p, op |-> "set", value |-> {value}, exists |-> exists, expected |-> expected]

DeleteChange(p, exists, expected) ==
  [path |-> p, op |-> "delete", value |-> {}, exists |-> exists, expected |-> expected]

(* What normalizeChange lets through, of the depth that is looked at. *)
IsChange(c) ==
  /\ c.path \in PathOf(MaxDepth) \ {<<>>}
  /\ \/ c.op = "set" /\ c.value \in {{w} : w \in JsonValue}
     \/ c.op = "delete" /\ c.value = {}
  /\ c.exists \subseteq BOOLEAN /\ c.expected \subseteq JsonValue

Overlap(p, q) == IsPrefix(p, q) \/ IsPrefix(q, p)

(* assertPrecondition, seen against the state as it is when the operation  *)
(* is applied, and the refusals of applyOperation itself.                  *)
Applicable(v, c) ==
  LET present == c.path \in DOMAIN v
  IN  /\ \A e \in c.exists : e = present
      /\ \A w \in c.expected : present /\ At(v, c.path) = w
      /\ Front(c.path) \in DOMAIN v /\ v[Front(c.path)] = Object
      /\ c.op = "delete" => present

Applied(v, c) ==
  IF c.op = "delete" THEN WithoutAt(v, c.path)
  ELSE WithAt(v, c.path, CHOOSE w \in c.value : TRUE)

(* The operations of a plan one after the other: the state they produce,   *)
(* as a set with one element, or the empty set when one of them throws.    *)
Outcome(v, ops) ==
  LET after[n \in 0..Len(ops)] ==
        IF n = 0 THEN {v}
        ELSE {Applied(w, ops[n]) : w \in {u \in after[n - 1] : Applicable(u, ops[n])}}
  IN  after[Len(ops)]
-----------------------------------------------------------------------------
(* diffObject descends to a path when every object above it is an object   *)
(* on both sides.                                                          *)
Reached(before, after, p) ==
  p # <<>> /\ \A n \in 0..(Len(p) - 1) :
    LET above == SubSeq(p, 1, n)
    IN  /\ above \in DOMAIN before /\ before[above] = Object
        /\ above \in DOMAIN after  /\ after[above] = Object

(* Mutant of Diff: a member that became or stopped being an object is      *)
(* passed over with the objects it is descended into.                      *)
DiffLeavesOnly(before, after) ==
  {DeleteChange(p, {TRUE}, {At(before, p)}) :
     p \in {q \in DOMAIN before \ DOMAIN after : Reached(before, after, q)}}
  \cup
  {SetChange(p, At(after, p), {FALSE}, {}) :
     p \in {q \in DOMAIN after \ DOMAIN before : Reached(before, after, q)}}
  \cup
  {SetChange(p, At(after, p), {TRUE}, {At(before, p)}) :
     p \in {q \in DOMAIN before \cap DOMAIN after :
              /\ Reached(before, after, q)
              /\ before[q] # after[q]
              /\ Object \notin {before[q], after[q]}}}

(* Mutant of Diff: what is replaced or deleted need only exist.            *)
DiffBlind(before, after) ==
  {DeleteChange(p, {TRUE}, {}) :
     p \in {q \in DOMAIN before \ DOMAIN after : Reached(before, after, q)}}
  \cup
  {SetChange(p, At(after, p), {FALSE}, {}) :
     p \in {q \in DOMAIN after \ DOMAIN before : Reached(before, after, q)}}
  \cup
  {SetChange(p, At(after, p), {TRUE}, {}) :
     p \in {q \in DOMAIN before \cap DOMAIN after :
              Reached(before, after, q) /\ before[q] # after[q]}}

(* diffJsonState.  Present on both sides and different, a member is        *)
(* replaced unless both are objects, which are descended into.             *)
Diff(before, after) ==
  {DeleteChange(p, {TRUE}, {At(before, p)}) :
     p \in {q \in DOMAIN before \ DOMAIN after : Reached(before, after, q)}}
  \cup
  {SetChange(p, At(after, p), {FALSE}, {}) :
     p \in {q \in DOMAIN after \ DOMAIN before : Reached(before, after, q)}}
  \cup
  {SetChange(p, At(after, p), {TRUE}, {At(before, p)}) :
     p \in {q \in DOMAIN before \cap DOMAIN after :
              Reached(before, after, q) /\ before[q] # after[q]}}
=============================================================================
