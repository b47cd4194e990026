--------------------------- MODULE MCCreationCycle ---------------------------
(***************************************************************************)
(* Instances for CreationCycle: two candidates that may run at one time,   *)
(* on a body with two members; their works meet on a member, stay apart,   *)
(* fail, lack tests, authority or evidence, change nothing, or come with   *)
(* contradictions that are no list.                                        *)
(***************************************************************************)
EXTENDS CreationCycle

MCLimit == [c \in Class |-> 2]
Workers(n) == [c \in Class |-> n]
MCDeps == <<{}, {}, {1, 2}>>
MCDemand == <<Workers(1), Workers(1), Workers(1)>>
MCLanes == {[status |-> "COMPLETED", payload |-> p] : p \in {"json", "misshapen"}}

Doc(f) == (<<>> :> Object) @@ [p \in {<<k>> : k \in DOMAIN f} |-> f[p[1]]]
OnlyA(x) == Doc("a" :> x)
Both(x, y) == Doc("a" :> x @@ "b" :> y)

MCSource == {OnlyA("0"), Both("0", "0")}
MCHostWrite == {OnlyA("0"), Both("1", "0")}

Good(after) == Worked(after, FALSE, "passed", TRUE, TRUE, TRUE)

MCWork ==
  <<{Good(OnlyA("1")), [Good(OnlyA("1")) EXCEPT !.failed = TRUE]},
    {Good(Both("0", "1")), Good(OnlyA(Object)),
     [Good(Both("0", "1")) EXCEPT !.tests = "none"],
     [Good(Both("0", "1")) EXCEPT !.authorised = FALSE],
     [Good(Both("0", "1")) EXCEPT !.evidenced = FALSE],
     [Good(Both("0", "1")) EXCEPT !.listed = FALSE]}>>
==============================================================================
