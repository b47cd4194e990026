--------------------------- MODULE StoreAbstraction ---------------------------
(***************************************************************************)
(* The checkpoint store of src/src/checkpoint-file-store.js seen by its    *)
(* callers: its directory, the files in it and what of both is on disk are *)
(* an archive of checkpoints.                                              *)
(***************************************************************************)
EXTENDS CheckpointFileStore

Shown == [c \in Checkpoint |-> dir[c]]

DamagedNames == {c \in Checkpoint : dir[c] # None /\ bytes[dir[c]] = "damaged"}

(* An entry is safe when every directory that a power loss may leave has   *)
(* its name, and the root's own name is on disk.                           *)
SafeNames == {c \in Checkpoint : rootOnDisk /\ None \notin onDisk[c]}

Archive == INSTANCE CheckpointArchive WITH
  entry <- Shown, damaged <- DamagedNames, safe <- SafeNames,
  rooted <- rootOnDisk, asked <- job, told <- answer

(* The store implements the archive: every call on the file system, every  *)
(* crash and every power loss is a step of it or changes nothing that a    *)
(* caller can tell.                                                        *)
ImplementsArchive == Archive!ArchiveSpec
===============================================================================
