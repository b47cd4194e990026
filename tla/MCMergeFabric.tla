---------------------------- MODULE MCMergeFabric ----------------------------
(***************************************************************************)
(* Instances for MergeFabric: two keys, paths of length two, one scalar.   *)
(* Changes meet on the same path, above and below each other, and apart;   *)
(* some are conditional on the state they find.                            *)
(***************************************************************************)
EXTENDS MergeFabric

Leaf == <<>> :> "x"
Empty == <<>> :> Object
Holding(k) == Empty @@ <<k>> :> "x"
Nested == Holding("b") @@ <<"a">> :> Object @@ <<"a", "b">> :> "x"

MCBody == {Empty, Holding("a"), Nested}

MCChange ==
  {SetChange(<<"a">>, Leaf, {}, {}),
   SetChange(<<"a">>, Holding("b"), {}, {}),
   SetChange(<<"a", "b">>, Leaf, {FALSE}, {}),
   SetChange(<<"a", "a">>, Empty, {}, {}),
   SetChange(<<"b">>, Empty, {}, {Leaf}),
   DeleteChange(<<"a">>, {TRUE}, {}),
   DeleteChange(<<"b">>, {}, {})}

Candidate(r, changes) ==
  [stateRef |-> Labelled(r), status |-> "COMPLETED", failed |-> FALSE,
   authorised |-> TRUE, evidenced |-> TRUE, tests |-> "passed", vouched |-> TRUE,
   changes |-> changes]

Unproven(r, changes) == [Candidate(r, changes) EXCEPT !.tests = "none"]

FewChanges ==
  {C \in SUBSET MCChange :
     Cardinality(C) = 1 \/ (Cardinality(C) = 2 /\ \E c \in C : c.path = <<"a", "b">>)}

(* A candidate with one or two changes beside one with a single change     *)
(* that may be unproven or made for another state.                         *)
FirstProposal ==
  {(1 :> Candidate("r1", C) @@ 2 :> d) :
     C \in FewChanges,
     d \in {Candidate("r1", {c}) : c \in MCChange}
           \cup {Unproven("r1", {DeleteChange(<<"b">>, {}, {})}),
                 Candidate("r2", {DeleteChange(<<"b">>, {}, {})})}}

(* The second plan of a host, which may be made before or after the first  *)
(* one was committed.                                                      *)
SecondProposal ==
  {(1 :> Candidate("r1", {DeleteChange(<<"a">>, {TRUE}, {})})
    @@ 2 :> Candidate("r2", {SetChange(<<"a", "b">>, Leaf, {}, {})}))}

MCProposal == <<FirstProposal, SecondProposal>>
==============================================================================
