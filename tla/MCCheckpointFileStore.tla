------------------------ MODULE MCCheckpointFileStore ------------------------
(* Instances for CheckpointFileStore: puts of equal checkpoints race.       *)
EXTENDS StoreAbstraction, TLC

Symmetry == Permutations(Putter) \cup Permutations(Checkpoint)
EveryFault == Fault
=============================================================================
