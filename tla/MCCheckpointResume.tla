-------------------------- MODULE MCCheckpointResume --------------------------
(* Instances for CheckpointResume. *)
EXTENDS CheckpointResume

MCClass == {"workers", "memory"}
MCLimit == [c \in Class |-> IF c = "workers" THEN 2 ELSE 3]
Needs(memory) == [c \in Class |-> IF c = "workers" THEN 1 ELSE memory]
MCDeps == <<{3}, {}, {}>>
MCDemand == <<Needs(1), Needs(2), Needs(1)>>
MCRevisions == {"v1", "v2", "no checkpointRef"}
MCUnbound == {"no checkpointRef"}

PlainLanes == {[status |-> s, payload |-> "json"] : s \in {"COMPLETED", "HELD"}}
===============================================================================
