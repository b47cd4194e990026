------------------------- MODULE CheckpointFileStore -------------------------
(***************************************************************************)
(* The local checkpoint store of src/src/checkpoint-file-store.js: put     *)
(* publishes a checkpoint under the name of its hash by way of a synced    *)
(* temporary file and a hard link, get reads it back and verifies it.      *)
(*                                                                         *)
(* Every awaited call on the file system is one action; a putter is one    *)
(* call of put, in this or in another process.  Files live in the page     *)
(* cache until they are synced, names until the directory is: a power loss *)
(* keeps of the rest what it likes.  The file of a putter is identified    *)
(* with the putter, and its bytes are told apart only as far as get tells  *)
(* them apart: the canonical bytes of the checkpoint it puts, or not.      *)
(***************************************************************************)
EXTENDS Naturals, FiniteSets

CONSTANTS
  Checkpoint,      \* checkpoints that pass verifyCheckpointForStorage; each
                   \* stands for its id and for the file name made from it
  Putter,          \* calls of put; also their temporary names and files
  None,            \* no file, no checkpoint
  RootAtStart,     \* may the store root exist at first
  Faults,          \* what may go wrong, a subset of Fault
  MaxPowerLosses   \* bound

Fault == {"io error", "process crash", "power loss", "damage"}
Name == Putter \cup Checkpoint

ASSUME StoreAssumption ==
  /\ Putter \cap Checkpoint = {} /\ None \notin Name
  /\ RootAtStart \subseteq BOOLEAN /\ Faults \subseteq Fault
  /\ MaxPowerLosses \in Nat

VARIABLES
  pc,          \* what each putter does next; "littered" is settled, too,
               \* by a put that could not remove its temporary file
  job,         \* the checkpoint it puts
  answer,      \* what its promise settled with
  bytes,       \* of each file
  flushed,     \* files whose bytes are on disk: synced, or read back from it
               \* after a power loss
  dir,         \* name -> file: the store directory
  onDisk,      \* name -> entries a power loss may leave behind
  root,        \* the store directory exists
  rootOnDisk,  \* and so does its name in the directory above, on disk
  losses       \* power losses so far

storeVars == <<pc, job, answer, bytes, flushed, dir, onDisk, root, rootOnDisk, losses>>

NoAnswer == "none"
Rejected == "rejected"
Exists == "EXISTS"                    \* durability.directoryFsync is null
Stored(synced) == IF synced THEN "STORED synced" ELSE "STORED unsynced"

HasTemp == {"write", "sync", "publish", "confirm temp", "remove", "cleanup"}
Busy == HasTemp \cup {"probe", "confirm", "open", "sync dir"}

(* A reader in any process sees what get would accept.                     *)
Readable(c) == root /\ dir[c] # None /\ bytes[dir[c]] = "canonical"

StoreInit ==
  /\ pc = [p \in Putter |-> "idle"]
  /\ job = [p \in Putter |-> None]
  /\ answer = [p \in Putter |-> NoAnswer]
  /\ bytes = [p \in Putter |-> "none"]
  /\ flushed = {}
  /\ dir = [n \in Name |-> None]
  /\ onDisk = [n \in Name |-> {None}]
  /\ root \in RootAtStart /\ rootOnDisk = root
  /\ losses = 0
-----------------------------------------------------------------------------
Goto(p, step) == pc' = [pc EXCEPT ![p] = step]

Settles(p, outcome) == Goto(p, "settled") /\ answer' = [answer EXCEPT ![p] = outcome]

(* A change of the directory adds to what a power loss may leave.          *)
Entry(n, file) ==
  /\ dir' = [dir EXCEPT ![n] = file]
  /\ onDisk' = [onDisk EXCEPT ![n] = @ \cup {file}]

Root == <<root, rootOnDisk, losses>>
Files == <<bytes, flushed>>

(* put, up to prepareStoreRoot.  A checkpoint that fails the verification  *)
(* is refused before anything happens: no step.                            *)
PrepareRoot(p) ==
  /\ pc[p] = "idle"
  /\ \E c \in Checkpoint : job' = [job EXCEPT ![p] = c]
  /\ root' = TRUE
  /\ Goto(p, "probe")
  /\ UNCHANGED <<answer, Files, dir, onDisk, rootOnDisk, losses>>

(* pathExists(target)                                                      *)
Probe(p) ==
  /\ pc[p] = "probe"
  /\ Goto(p, IF dir[job[p]] # None THEN "confirm" ELSE "open")
  /\ UNCHANGED <<job, answer, Files, dir, onDisk, Root>>

OpenTemp(p) ==
  /\ pc[p] = "open"
  /\ Entry(p, p)
  /\ bytes' = [bytes EXCEPT ![p] = "partial"]
  /\ Goto(p, "write")
  /\ UNCHANGED <<job, answer, flushed, Root>>

WriteTemp(p) ==
  /\ pc[p] = "write"
  /\ bytes' = [bytes EXCEPT ![p] = "canonical"]
  /\ Goto(p, "sync")
  /\ UNCHANGED <<job, answer, flushed, dir, onDisk, Root>>

(* Mutant of SyncTemp: the file is closed without a sync.                  *)
SyncTempNot(p) ==
  /\ pc[p] = "sync"
  /\ Goto(p, "publish")
  /\ UNCHANGED <<job, answer, Files, dir, onDisk, Root>>

SyncTemp(p) ==
  /\ pc[p] = "sync"
  /\ flushed' = flushed \cup {p}
  /\ Goto(p, "publish")
  /\ UNCHANGED <<job, answer, bytes, dir, onDisk, Root>>

(* Mutant of Publish: rename, which replaces.                              *)
PublishReplacing(p) ==
  /\ pc[p] = "publish"
  /\ Entry(job[p], p)
  /\ Goto(p, "remove")
  /\ UNCHANGED <<job, answer, Files, Root>>

(* link creates the name or fails with EEXIST.                             *)
Publish(p) ==
  /\ pc[p] = "publish"
  /\ \/ /\ dir[job[p]] = None
        /\ Entry(job[p], p)
        /\ Goto(p, "remove")
     \/ /\ dir[job[p]] # None
        /\ Goto(p, "confirm temp")
        /\ UNCHANGED <<dir, onDisk>>
  /\ UNCHANGED <<job, answer, Files, Root>>

(* Mutant of Confirm: that the name is there is taken for confirmation.    *)
ConfirmBlindly(p) ==
  /\ pc[p] \in {"confirm", "confirm temp"}
  /\ answer' = [answer EXCEPT ![p] = Exists]
  /\ Goto(p, IF pc[p] = "confirm temp" THEN "cleanup" ELSE "settled")
  /\ UNCHANGED <<job, Files, dir, onDisk, Root>>

(* Mutant of Confirm: the finally block is left out on the way back.       *)
ConfirmForgets(p) ==
  /\ pc[p] \in {"confirm", "confirm temp"}
  /\ Settles(p, IF Readable(job[p]) THEN Exists ELSE Rejected)
  /\ UNCHANGED <<job, Files, dir, onDisk, Root>>

(* get of the checkpoint that is there already, by both ways put gets      *)
(* there; the second has a temporary file for the finally block to remove. *)
Confirm(p) ==
  /\ pc[p] \in {"confirm", "confirm temp"}
  /\ answer' = [answer EXCEPT ![p] = IF Readable(job[p]) THEN Exists ELSE Rejected]
  /\ Goto(p, IF pc[p] = "confirm temp" THEN "cleanup" ELSE "settled")
  /\ UNCHANGED <<job, Files, dir, onDisk, Root>>

RemoveTemp(p) ==
  /\ pc[p] = "remove"
  /\ Entry(p, None)
  /\ Goto(p, "sync dir")
  /\ UNCHANGED <<job, answer, Files, Root>>

(* Mutant of SyncDirectory: a refused sync is reported as done.            *)
SyncDirectoryAlways(p) ==
  /\ pc[p] = "sync dir"
  /\ onDisk' \in {onDisk, [n \in Name |-> {dir[n]}]}
  /\ Settles(p, Stored(TRUE))
  /\ UNCHANGED <<job, Files, dir, Root>>

(* syncDirectory returns whether the file system lets directories be       *)
(* synced; other errors are thrown, see IOError.                           *)
SyncDirectory(p) ==
  /\ pc[p] = "sync dir"
  /\ \/ /\ onDisk' = [n \in Name |-> {dir[n]}]
        /\ Settles(p, Stored(TRUE))
     \/ /\ UNCHANGED onDisk
        /\ Settles(p, Stored(FALSE))
  /\ UNCHANGED <<job, Files, dir, Root>>

(* The finally block removes the temporary file, and passes over a failure *)
(* to do so; the outcome of put stands already.                            *)
Cleanup(p) ==
  /\ pc[p] = "cleanup"
  /\ \/ Entry(p, None) /\ Goto(p, "settled")
     \/ "io error" \in Faults /\ Goto(p, "littered") /\ UNCHANGED <<dir, onDisk>>
  /\ UNCHANGED <<job, answer, Files, Root>>

(* A call on the file system fails with an error put does not expect; the  *)
(* unsafe root that prepareStoreRoot and get refuse is one of them.        *)
IOError(p) ==
  /\ "io error" \in Faults
  /\ pc[p] \in ({"idle"} \cup Busy) \ {"cleanup"}
  /\ answer' = [answer EXCEPT ![p] = Rejected]
  /\ Goto(p, IF pc[p] \in HasTemp THEN "cleanup" ELSE "settled")
  /\ UNCHANGED <<job, Files, dir, onDisk, Root>>
-----------------------------------------------------------------------------
(* The process of a putter ends abruptly; the kernel keeps what it had.    *)
ProcessCrash(p) ==
  /\ "process crash" \in Faults
  /\ pc[p] \in Busy
  /\ Goto(p, "dead")
  /\ UNCHANGED <<job, answer, Files, dir, onDisk, Root>>

(* Names and bytes that were not synced may go; what the disk then holds,  *)
(* torn or not, stays.  A put that is under way ends, and one that comes   *)
(* later can lose what it has not synced to the next power loss.           *)
PowerLoss ==
  /\ "power loss" \in Faults /\ losses < MaxPowerLosses
  /\ losses' = losses + 1
  /\ root' \in IF rootOnDisk THEN {TRUE} ELSE {FALSE, root}
  /\ rootOnDisk' = root'
  /\ dir' \in {d \in [Name -> Putter \cup {None}] :
                 \A n \in Name : d[n] \in IF root' THEN onDisk[n] ELSE {None}}
  /\ onDisk' = [n \in Name |-> {dir'[n]}]
  /\ bytes' \in {b \in [Putter -> {"none", "partial", "canonical", "damaged"}] :
                   \A p \in Putter : b[p] \in IF p \in flushed \/ bytes[p] = "none"
                                                THEN {bytes[p]} ELSE {bytes[p], "partial"}}
  /\ flushed' = {p \in Putter : bytes[p] # "none"}
  /\ pc' = [p \in Putter |-> IF pc[p] \in Busy THEN "dead" ELSE pc[p]]
  /\ UNCHANGED <<job, answer>>

(* A published file is damaged by something outside the program.           *)
Damage(c) ==
  /\ "damage" \in Faults
  /\ Readable(c)
  /\ bytes' = [bytes EXCEPT ![dir[c]] = "damaged"]
  /\ UNCHANGED <<pc, job, answer, flushed, dir, onDisk, Root>>

Put(p) ==
  \/ PrepareRoot(p) \/ Probe(p) \/ OpenTemp(p) \/ WriteTemp(p) \/ SyncTemp(p)
  \/ Publish(p) \/ Confirm(p) \/ RemoveTemp(p) \/ SyncDirectory(p) \/ Cleanup(p)
  \/ IOError(p)

StoreNext ==
  \/ \E p \in Putter : Put(p) \/ ProcessCrash(p)
  \/ PowerLoss
  \/ \E c \in Checkpoint : Damage(c)

StoreSpec == StoreInit /\ [][StoreNext]_storeVars
-----------------------------------------------------------------------------
(* A published name never shows half a checkpoint, nor another one: not    *)
(* while it is written, not after a crash and not after a power loss that  *)
(* keeps the name and loses what was not synced.                           *)
PublishedWhole ==
  \A c \in Checkpoint : dir[c] # None =>
    job[dir[c]] = c /\ bytes[dir[c]] \in {"canonical", "damaged"}

(* A receipt that reports directoryFsync is kept: the checkpoint is still  *)
(* under its name after a power loss, as long as the root's own name is on *)
(* disk, which a put that creates the root does not ensure.  For a root    *)
(* that is there before the first put, the number of losses is immaterial; *)
(* a root that is created, lost and created again is empty, which needs    *)
(* two losses, and there MaxPowerLosses is 1 (CheckpointStoreProofs).      *)
DurableStays ==
  \A p \in Putter : answer[p] = Stored(TRUE) /\ rootOnDisk => dir[job[p]] # None

(* The same checkpoint is STORED by one put only, however many race for    *)
(* it; the others find that it EXISTS.  A power loss may undo the first.   *)
StoredOnce ==
  losses = 0 => \A p, q \in Putter :
    ({answer[p], answer[q]} \subseteq {Stored(TRUE), Stored(FALSE)} /\ job[p] = job[q])
    => p = q

(* put knows at every step whether its temporary name is there, so that    *)
(* the finally block removes it exactly when it is left.  Whatever a put   *)
(* answered, stored, beaten to it or failed, none is left when it settles, *)
(* but one whose removal failed; and a power loss brings back none of a    *)
(* put whose receipt reports directoryFsync.                               *)
NoLitter ==
  \A p \in Putter :
    /\ pc[p] \in {"idle"} \cup Busy => dir[p] = IF pc[p] \in HasTemp THEN p ELSE None
    /\ pc[p] = "settled" /\ (losses = 0 \/ answer[p] = Stored(TRUE)) => dir[p] = None

(* A damaged checkpoint fails closed: no put replaces or heals it, nor     *)
(* answers that it exists.                                                 *)
DamageFailsClosed ==
  [][\A c \in Checkpoint :
       dir[c] # None /\ bytes[dir[c]] = "damaged" /\ losses' = losses =>
         /\ dir'[c] = dir[c] /\ bytes'[dir[c]] = "damaged"
         /\ \A p \in Putter : job[p] = c /\ answer'[p] = Exists => answer[p] = Exists]_storeVars
=============================================================================
