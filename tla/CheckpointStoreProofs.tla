------------------------ MODULE CheckpointStoreProofs ------------------------
(***************************************************************************)
(* Safety of the checkpoint file store for any number of puts, checkpoints *)
(* and power losses, and whatever goes wrong among the faults.             *)
(***************************************************************************)
EXTENDS StoreAbstraction, TLAPS

File == Putter \cup {None}
Bytes == {"none", "partial", "canonical", "damaged"}
Step == {"idle", "dead", "settled", "littered"} \cup Busy
Answer == {NoAnswer, Rejected, Exists, Stored(TRUE), Stored(FALSE)}

StoreTypes ==
  /\ pc \in [Putter -> Step] /\ job \in [Putter -> Checkpoint \cup {None}]
  /\ answer \in [Putter -> Answer] /\ bytes \in [Putter -> Bytes]
  /\ flushed \in SUBSET Putter
  /\ dir \in [Name -> File] /\ onDisk \in [Name -> SUBSET File]
  /\ root \in BOOLEAN /\ rootOnDisk \in BOOLEAN /\ losses \in Nat

(* Where a put has not published its file. *)
Unpublished == {"idle", "probe", "open", "write", "sync", "publish"}

(* What is in the directory may survive a power loss. *)
DirOnDisk == \A n \in Name : dir[n] \in onDisk[n]

(* A file that a checkpoint's name may show, now or after a power loss, is *)
(* that of a put of the checkpoint, is whole, and is synced.               *)
PublishedSynced ==
  \A c \in Checkpoint : \A f \in Putter : f \in onDisk[c] =>
    /\ job[f] = c /\ bytes[f] \in {"canonical", "damaged"} /\ f \in flushed
    /\ pc[f] \notin Unpublished

(* What a put knows by where it stands. *)
Knows(p) ==
  /\ pc[p] \in Busy => job[p] \in Checkpoint
  /\ pc[p] = "sync" => bytes[p] = "canonical"
  /\ pc[p] = "publish" => bytes[p] = "canonical" /\ p \in flushed

(* Where its temporary name is. *)
TempKept(p) ==
  /\ pc[p] \in {"idle", "probe", "open", "confirm"} => onDisk[p] = {None}
  /\ pc[p] \in Busy => dir[p] = IF pc[p] \in HasTemp THEN p ELSE None
  /\ answer[p] = Stored(TRUE) => onDisk[p] = {None}
  /\ pc[p] = "settled" /\ losses = 0 => dir[p] = None

(* What has become of what it stored. *)
StoredKept(p) ==
  /\ pc[p] \in {"remove", "sync dir"} => dir[job[p]] # None /\ (losses = 0 => dir[job[p]] = p)
  /\ answer[p] \in {Stored(TRUE), Stored(FALSE)} =>
       /\ pc[p] = "settled" /\ job[p] \in Checkpoint
       /\ losses = 0 => dir[job[p]] = p /\ dir[p] = None

StoreInv ==
  /\ StoreTypes /\ DirOnDisk /\ PublishedSynced
  /\ \A p \in Putter : Knows(p) /\ TempKept(p) /\ StoredKept(p)

LEMMA Apart ==
  /\ \A p \in Putter : p \notin Checkpoint /\ p # None /\ p \in Name
  /\ \A c \in Checkpoint : c \notin Putter /\ c # None /\ c \in Name
BY StoreAssumption DEF Name

LEMMA StoreInvInit == StoreInit => StoreInv
BY StoreAssumption, Apart
DEF StoreInit, StoreInv, StoreTypes, DirOnDisk, PublishedSynced, Knows, TempKept, StoredKept,
    File, Bytes, Step, Answer, Busy, HasTemp, Unpublished, NoAnswer, Stored
-----------------------------------------------------------------------------
(* A step of one put: the others, their files and names, what is published *)
(* and the count of losses are left alone.  A sync of the directory may    *)
(* narrow what a power loss can leave.                                     *)
StepOf(p) ==
  /\ \A q \in Putter \ {p} :
       /\ pc'[q] = pc[q] /\ job'[q] = job[q] /\ answer'[q] = answer[q]
       /\ bytes'[q] = bytes[q] /\ (q \in flushed => q \in flushed')
       /\ dir'[q] = dir[q] /\ onDisk'[q] \subseteq onDisk[q]
  /\ \A c \in Checkpoint : dir[c] # None => dir'[c] = dir[c]
  /\ losses' = losses

LEMMA OthersKept ==
  ASSUME StoreInv, NEW p \in Putter, StepOf(p), DirOnDisk', NEW q \in Putter, q # p
  PROVE  Knows(q)' /\ TempKept(q)' /\ StoredKept(q)'
<1> USE DEF StepOf, StoreInv
<1>1. Knows(q)'
  BY DEF Knows
<1>2. onDisk[q] = {None} => onDisk'[q] = {None}
  BY Apart DEF DirOnDisk
<1>3. TempKept(q)'
  BY <1>2 DEF TempKept
<1>4. pc[q] \in {"remove", "sync dir"} => job[q] \in Checkpoint
  BY DEF Knows, Busy, HasTemp
<1>5. job[q] \in Checkpoint /\ losses = 0 /\ dir[job[q]] = q => dir[job[q]] # None
  BY Apart
<1>6. StoredKept(q)'
  BY <1>4, <1>5 DEF StoredKept
<1> QED BY <1>1, <1>3, <1>6

(* A put that publishes nothing in this step, and has published nothing    *)
(* before or leaves its file alone, leaves what is published as it is.     *)
LEMMA PublishedKept ==
  ASSUME StoreInv, NEW p \in Putter, StepOf(p),
         \A c \in Checkpoint : onDisk'[c] \subseteq onDisk[c],
         \/ pc[p] \in Unpublished
         \/ /\ job'[p] = job[p] /\ bytes'[p] = bytes[p] /\ (p \in flushed => p \in flushed')
            /\ pc'[p] \notin Unpublished
  PROVE  PublishedSynced'
BY DEF StoreInv, PublishedSynced, StepOf

(* Only a settled put has answered that it stored. *)
LEMMA Unanswered ==
  ASSUME StoreInv, NEW p \in Putter, pc[p] # "settled"
  PROVE  answer[p] \notin {Stored(TRUE), Stored(FALSE)}
BY DEF StoreInv, StoredKept

LEMMA NothingStored ==
  ASSUME NEW p \in Putter, pc'[p] \notin {"remove", "sync dir"},
         answer'[p] \notin {Stored(TRUE), Stored(FALSE)}
  PROVE  StoredKept(p)'
BY DEF StoredKept

LEMMA StepKeeps ==
  ASSUME StoreInv, NEW p \in Putter, StepOf(p), StoreTypes', DirOnDisk', PublishedSynced',
         Knows(p)', TempKept(p)', StoredKept(p)'
  PROVE  StoreInv'
BY OthersKept DEF StoreInv

LEMMA PrepareRootKeeps ==
  ASSUME StoreInv, NEW p \in Putter, PrepareRoot(p)
  PROVE  StoreInv'
<1> USE Apart DEF Goto, Files, Root
<1>0. PICK c \in Checkpoint :
        /\ pc[p] = "idle" /\ pc' = [pc EXCEPT ![p] = "probe"]
        /\ job' = [job EXCEPT ![p] = c] /\ root' = TRUE
        /\ UNCHANGED <<answer, bytes, flushed, dir, onDisk, rootOnDisk, losses>>
  BY DEF PrepareRoot
<1> USE <1>0
<1>1. StoreTypes'
  BY DEF StoreInv, StoreTypes, File, Bytes, Step, Answer, Busy, HasTemp, NoAnswer, Rejected, Exists, Stored, Name
<1>2. StepOf(p)
  BY DEF StoreInv, StoreTypes, StepOf, Name
<1>3. DirOnDisk'
  BY DEF StoreInv, StoreTypes, DirOnDisk
<1>4. PublishedSynced'
  BY <1>2, PublishedKept DEF StoreInv, StoreTypes, DirOnDisk, Unpublished, Busy, HasTemp
<1>5. Knows(p)'
  BY DEF StoreInv, StoreTypes, Knows, Busy, HasTemp
<1>6. TempKept(p)'
  <2>1. pc'[p] = "probe" /\ dir'[p] = dir[p] /\ onDisk'[p] = onDisk[p] /\ answer'[p] = answer[p]
    BY DEF StoreInv, StoreTypes
  <2>2. onDisk[p] = {None} /\ dir[p] = None
    BY DEF StoreInv, DirOnDisk, TempKept
  <2> QED BY <2>1, <2>2 DEF TempKept, HasTemp
<1>7. StoredKept(p)'
  <2>1. answer'[p] \notin {Stored(TRUE), Stored(FALSE)} /\ pc'[p] \notin {"remove", "sync dir"}
    BY Unanswered DEF StoreInv, StoreTypes, Stored, Rejected, Exists, Busy, HasTemp
  <2> QED BY <2>1, NothingStored
<1> QED BY <1>1, <1>2, <1>3, <1>4, <1>5, <1>6, <1>7, StepKeeps

LEMMA ProbeKeeps ==
  ASSUME StoreInv, NEW p \in Putter, Probe(p)
  PROVE  StoreInv'
<1> USE Apart DEF Probe, Goto, Files, Root
<1>1. StoreTypes'
  BY DEF StoreInv, StoreTypes, File, Bytes, Step, Answer, Busy, HasTemp, NoAnswer, Rejected, Exists, Stored, Name
<1>2. StepOf(p)
  BY DEF StoreInv, StoreTypes, StepOf, Name
<1>3. DirOnDisk'
  BY DEF StoreInv, StoreTypes, DirOnDisk
<1>4. PublishedSynced'
  BY <1>2, PublishedKept DEF StoreInv, StoreTypes, DirOnDisk, Unpublished, Busy, HasTemp
<1>5. Knows(p)'
  BY DEF StoreInv, StoreTypes, Knows, Busy, HasTemp
<1>6. TempKept(p)'
  BY DEF StoreInv, StoreTypes, DirOnDisk, TempKept, StoredKept, Busy, HasTemp, Stored, Rejected, Exists, NoAnswer
<1>7. StoredKept(p)'
  <2>1. answer'[p] \notin {Stored(TRUE), Stored(FALSE)} /\ pc'[p] \notin {"remove", "sync dir"}
    BY Unanswered DEF StoreInv, StoreTypes, Stored, Rejected, Exists, Busy, HasTemp
  <2> QED BY <2>1, NothingStored
<1> QED BY <1>1, <1>2, <1>3, <1>4, <1>5, <1>6, <1>7, StepKeeps

LEMMA OpenTempKeeps ==
  ASSUME StoreInv, NEW p \in Putter, OpenTemp(p)
  PROVE  StoreInv'
<1> USE Apart DEF OpenTemp, Goto, Entry, Files, Root
<1>1. StoreTypes'
  BY DEF StoreInv, StoreTypes, File, Bytes, Step, Answer, Busy, HasTemp, NoAnswer, Rejected, Exists, Stored, Name
<1>2. StepOf(p)
  BY DEF StoreInv, StoreTypes, StepOf, Name
<1>3. DirOnDisk'
  BY DEF StoreInv, StoreTypes, DirOnDisk
<1>4. PublishedSynced'
  BY <1>2, PublishedKept DEF StoreInv, StoreTypes, DirOnDisk, Unpublished, Busy, HasTemp
<1>5. Knows(p)'
  BY DEF StoreInv, StoreTypes, Knows, Busy, HasTemp
<1>6. TempKept(p)'
  BY DEF StoreInv, StoreTypes, DirOnDisk, TempKept, StoredKept, Busy, HasTemp, Stored, Rejected, Exists, NoAnswer
<1>7. StoredKept(p)'
  <2>1. answer'[p] \notin {Stored(TRUE), Stored(FALSE)} /\ pc'[p] \notin {"remove", "sync dir"}
    BY Unanswered DEF StoreInv, StoreTypes, Stored, Rejected, Exists, Busy, HasTemp
  <2> QED BY <2>1, NothingStored
<1> QED BY <1>1, <1>2, <1>3, <1>4, <1>5, <1>6, <1>7, StepKeeps

LEMMA WriteTempKeeps ==
  ASSUME StoreInv, NEW p \in Putter, WriteTemp(p)
  PROVE  StoreInv'
<1> USE Apart DEF WriteTemp, Goto, Files, Root
<1>1. StoreTypes'
  BY DEF StoreInv, StoreTypes, File, Bytes, Step, Answer, Busy, HasTemp, NoAnswer, Rejected, Exists, Stored, Name
<1>2. StepOf(p)
  BY DEF StoreInv, StoreTypes, StepOf, Name
<1>3. DirOnDisk'
  BY DEF StoreInv, StoreTypes, DirOnDisk
<1>4. PublishedSynced'
  BY <1>2, PublishedKept DEF StoreInv, StoreTypes, DirOnDisk, Unpublished, Busy, HasTemp
<1>5. Knows(p)'
  BY DEF StoreInv, StoreTypes, Knows, Busy, HasTemp
<1>6. TempKept(p)'
  BY DEF StoreInv, StoreTypes, DirOnDisk, TempKept, StoredKept, Busy, HasTemp, Stored, Rejected, Exists, NoAnswer
<1>7. StoredKept(p)'
  <2>1. answer'[p] \notin {Stored(TRUE), Stored(FALSE)} /\ pc'[p] \notin {"remove", "sync dir"}
    BY Unanswered DEF StoreInv, StoreTypes, Stored, Rejected, Exists, Busy, HasTemp
  <2> QED BY <2>1, NothingStored
<1> QED BY <1>1, <1>2, <1>3, <1>4, <1>5, <1>6, <1>7, StepKeeps

LEMMA SyncTempKeeps ==
  ASSUME StoreInv, NEW p \in Putter, SyncTemp(p)
  PROVE  StoreInv'
<1> USE Apart DEF SyncTemp, Goto, Files, Root
<1>1. StoreTypes'
  BY DEF StoreInv, StoreTypes, File, Bytes, Step, Answer, Busy, HasTemp, NoAnswer, Rejected, Exists, Stored, Name
<1>2. StepOf(p)
  BY DEF StoreInv, StoreTypes, StepOf, Name
<1>3. DirOnDisk'
  BY DEF StoreInv, StoreTypes, DirOnDisk
<1>4. PublishedSynced'
  BY <1>2, PublishedKept DEF StoreInv, StoreTypes, DirOnDisk, Unpublished, Busy, HasTemp
<1>5. Knows(p)'
  BY DEF StoreInv, StoreTypes, Knows, Busy, HasTemp
<1>6. TempKept(p)'
  BY DEF StoreInv, StoreTypes, DirOnDisk, TempKept, StoredKept, Busy, HasTemp, Stored, Rejected, Exists, NoAnswer
<1>7. StoredKept(p)'
  <2>1. answer'[p] \notin {Stored(TRUE), Stored(FALSE)} /\ pc'[p] \notin {"remove", "sync dir"}
    BY Unanswered DEF StoreInv, StoreTypes, Stored, Rejected, Exists, Busy, HasTemp
  <2> QED BY <2>1, NothingStored
<1> QED BY <1>1, <1>2, <1>3, <1>4, <1>5, <1>6, <1>7, StepKeeps

LEMMA ConfirmKeeps ==
  ASSUME StoreInv, NEW p \in Putter, Confirm(p)
  PROVE  StoreInv'
<1> USE Apart DEF Confirm, Goto, Files, Root
<1>1. StoreTypes'
  BY DEF StoreInv, StoreTypes, File, Bytes, Step, Answer, Busy, HasTemp, NoAnswer, Rejected, Exists, Stored, Name
<1>2. StepOf(p)
  BY DEF StoreInv, StoreTypes, StepOf, Name
<1>3. DirOnDisk'
  BY DEF StoreInv, StoreTypes, DirOnDisk
<1>4. PublishedSynced'
  BY <1>2, PublishedKept DEF StoreInv, StoreTypes, DirOnDisk, Unpublished, Busy, HasTemp
<1>5. Knows(p)'
  BY DEF StoreInv, StoreTypes, Knows, Busy, HasTemp
<1>6. TempKept(p)'
  BY DEF StoreInv, StoreTypes, DirOnDisk, TempKept, StoredKept, Busy, HasTemp, Stored, Rejected, Exists, NoAnswer
<1>7. StoredKept(p)'
  <2>1. answer'[p] \notin {Stored(TRUE), Stored(FALSE)} /\ pc'[p] \notin {"remove", "sync dir"}
    BY Unanswered DEF StoreInv, StoreTypes, Stored, Rejected, Exists, Busy, HasTemp
  <2> QED BY <2>1, NothingStored
<1> QED BY <1>1, <1>2, <1>3, <1>4, <1>5, <1>6, <1>7, StepKeeps

LEMMA RemoveTempKeeps ==
  ASSUME StoreInv, NEW p \in Putter, RemoveTemp(p)
  PROVE  StoreInv'
<1> USE Apart DEF RemoveTemp, Goto, Entry, Files, Root
<1>1. StoreTypes'
  BY DEF StoreInv, StoreTypes, File, Bytes, Step, Answer, Busy, HasTemp, NoAnswer, Rejected, Exists, Stored, Name
<1>2. StepOf(p)
  BY DEF StoreInv, StoreTypes, StepOf, Name
<1>3. DirOnDisk'
  BY DEF StoreInv, StoreTypes, DirOnDisk
<1>4. PublishedSynced'
  BY <1>2, PublishedKept DEF StoreInv, StoreTypes, DirOnDisk, Unpublished, Busy, HasTemp
<1>5. Knows(p)'
  BY DEF StoreInv, StoreTypes, Knows, Busy, HasTemp
<1>6. TempKept(p)'
  BY DEF StoreInv, StoreTypes, DirOnDisk, TempKept, StoredKept, Busy, HasTemp, Stored, Rejected, Exists, NoAnswer
<1>7. StoredKept(p)'
  <2>1. answer'[p] \notin {Stored(TRUE), Stored(FALSE)}
    BY Unanswered
  <2>2. /\ job'[p] = job[p] /\ dir[job[p]] # None /\ (losses = 0 => dir[job[p]] = p)
        /\ job[p] \in Checkpoint
    BY DEF StoreInv, Knows, StoredKept, Busy, HasTemp
  <2>3. dir'[job[p]] = dir[job[p]]
    BY <2>2, <1>2 DEF StepOf
  <2> QED BY <2>1, <2>2, <2>3 DEF StoredKept
<1> QED BY <1>1, <1>2, <1>3, <1>4, <1>5, <1>6, <1>7, StepKeeps

LEMMA SyncDirectoryKeeps ==
  ASSUME StoreInv, NEW p \in Putter, SyncDirectory(p)
  PROVE  StoreInv'
<1>0. PICK synced \in BOOLEAN :
        /\ pc[p] = "sync dir" /\ pc' = [pc EXCEPT ![p] = "settled"]
        /\ answer' = [answer EXCEPT ![p] = Stored(synced)]
        /\ onDisk' = IF synced THEN [n \in Name |-> {dir[n]}] ELSE onDisk
        /\ UNCHANGED <<job, bytes, flushed, dir, root, rootOnDisk, losses>>
  BY DEF SyncDirectory, Settles, Goto, Files, Root
<1>1. /\ pc'[p] = "settled" /\ answer'[p] = Stored(synced)
      /\ \A q \in Putter \ {p} : pc'[q] = pc[q] /\ answer'[q] = answer[q]
      /\ \A n \in Name : onDisk'[n] \subseteq onDisk[n] /\ dir[n] \in onDisk'[n]
      /\ synced => \A n \in Name : onDisk'[n] = {dir[n]}
  BY <1>0 DEF StoreInv, StoreTypes, DirOnDisk
<1>2. StoreTypes'
  <2>1. Stored(synced) \in Answer /\ "settled" \in Step
    BY DEF Answer, Step, Stored
  <2>2. onDisk' \in [Name -> SUBSET File]
    BY <1>0 DEF StoreInv, StoreTypes
  <2> QED BY <1>0, <2>1, <2>2 DEF StoreInv, StoreTypes
<1>3. StepOf(p)
  BY <1>0, <1>1, Apart DEF StepOf
<1>4. DirOnDisk'
  BY <1>0, <1>1 DEF DirOnDisk
<1>5. PublishedSynced'
  BY <1>0, <1>1, <1>3, Apart, PublishedKept DEF Unpublished
<1>6. dir[p] = None /\ job[p] \in Checkpoint /\ dir[job[p]] # None /\ (losses = 0 => dir[job[p]] = p)
  BY <1>0 DEF StoreInv, Knows, TempKept, StoredKept, Busy, HasTemp
<1>7. Knows(p)' /\ TempKept(p)' /\ StoredKept(p)'
  <2>1. pc'[p] \notin Busy \cup {"idle"} /\ dir' = dir /\ job' = job /\ losses' = losses
    BY <1>0, <1>1 DEF Busy, HasTemp
  <2>2. Knows(p)'
    BY <2>1 DEF Knows, Busy, HasTemp
  <2>3. answer'[p] = Stored(TRUE) => onDisk'[p] = {None}
    BY <1>1, <1>6, Apart DEF Stored
  <2>4. TempKept(p)'
    BY <1>6, <2>1, <2>3 DEF TempKept, Busy, HasTemp
  <2>5. StoredKept(p)'
    BY <1>1, <1>6, <2>1 DEF StoredKept, Busy, HasTemp
  <2> QED BY <2>2, <2>4, <2>5
<1> QED BY <1>2, <1>3, <1>4, <1>5, <1>7, StepKeeps

LEMMA CleanupKeeps ==
  ASSUME StoreInv, NEW p \in Putter, Cleanup(p)
  PROVE  StoreInv'
<1> USE Apart DEF Goto, Files, Root
<1>0. /\ pc[p] = "cleanup"
      /\ \/ /\ dir' = [dir EXCEPT ![p] = None] /\ onDisk' = [onDisk EXCEPT ![p] = @ \cup {None}]
            /\ pc' = [pc EXCEPT ![p] = "settled"]
         \/ dir' = dir /\ onDisk' = onDisk /\ pc' = [pc EXCEPT ![p] = "littered"]
      /\ UNCHANGED <<job, answer, bytes, flushed, root, rootOnDisk, losses>>
  BY DEF Cleanup, Entry
<1> USE <1>0
<1>1. StoreTypes'
  <2>1. dir' \in [Name -> File] /\ onDisk' \in [Name -> SUBSET File]
    BY DEF StoreInv, StoreTypes, File
  <2>2. pc' \in [Putter -> Step]
    BY DEF StoreInv, StoreTypes, Step
  <2> QED BY <2>1, <2>2 DEF StoreInv, StoreTypes
<1>2. StepOf(p)
  BY DEF StoreInv, StoreTypes, StepOf, Name
<1>3. DirOnDisk'
  BY DEF StoreInv, StoreTypes, DirOnDisk
<1>4. PublishedSynced'
  BY <1>2, PublishedKept DEF StoreInv, StoreTypes, DirOnDisk, Unpublished, Busy, HasTemp
<1>5. Knows(p)'
  BY DEF StoreInv, StoreTypes, Knows, Busy, HasTemp
<1>6. TempKept(p)'
  <2>1. answer'[p] # Stored(TRUE)
    BY Unanswered DEF StoreInv, StoreTypes
  <2>2. pc'[p] = "settled" => dir'[p] = None
    BY DEF StoreInv, StoreTypes
  <2>3. pc'[p] \in {"settled", "littered"}
    BY DEF StoreInv, StoreTypes
  <2> QED BY <2>1, <2>2, <2>3 DEF TempKept, Busy, HasTemp
<1>7. StoredKept(p)'
  <2>1. answer'[p] \notin {Stored(TRUE), Stored(FALSE)} /\ pc'[p] \notin {"remove", "sync dir"}
    BY Unanswered DEF StoreInv, StoreTypes, Stored, Rejected, Exists, Busy, HasTemp
  <2> QED BY <2>1, NothingStored
<1> QED BY <1>1, <1>2, <1>3, <1>4, <1>5, <1>6, <1>7, StepKeeps

LEMMA IOErrorKeeps ==
  ASSUME StoreInv, NEW p \in Putter, IOError(p)
  PROVE  StoreInv'
<1> USE Apart DEF IOError, Goto, Files, Root
<1>1. StoreTypes'
  BY DEF StoreInv, StoreTypes, File, Bytes, Step, Answer, Busy, HasTemp, NoAnswer, Rejected, Exists, Stored, Name
<1>2. StepOf(p)
  BY DEF StoreInv, StoreTypes, StepOf, Name
<1>3. DirOnDisk'
  BY DEF StoreInv, StoreTypes, DirOnDisk
<1>4. PublishedSynced'
  BY <1>2, PublishedKept DEF StoreInv, StoreTypes, DirOnDisk, Unpublished, Busy, HasTemp
<1>5. Knows(p)'
  BY DEF StoreInv, StoreTypes, Knows, Busy, HasTemp
<1>6. TempKept(p)'
  <2>1. answer'[p] # Stored(TRUE)
    BY DEF StoreInv, StoreTypes, Stored, Rejected
  <2>2. dir'[p] = dir[p] /\ dir[p] = IF pc[p] \in HasTemp THEN p ELSE None
    BY DEF StoreInv, StoreTypes, DirOnDisk, TempKept, Busy, HasTemp
  <2>3. pc'[p] = IF pc[p] \in HasTemp THEN "cleanup" ELSE "settled"
    BY DEF StoreInv, StoreTypes
  <2>4. \/ pc'[p] = "cleanup" /\ dir'[p] = p
        \/ pc'[p] = "settled" /\ dir'[p] = None
    BY <2>2, <2>3
  <2> QED BY <2>1, <2>4 DEF TempKept, Busy, HasTemp
<1>7. StoredKept(p)'
  <2>1. answer'[p] \notin {Stored(TRUE), Stored(FALSE)} /\ pc'[p] \notin {"remove", "sync dir"}
    BY Unanswered DEF StoreInv, StoreTypes, Stored, Rejected, Exists, Busy, HasTemp
  <2> QED BY <2>1, NothingStored
<1> QED BY <1>1, <1>2, <1>3, <1>4, <1>5, <1>6, <1>7, StepKeeps

LEMMA ProcessCrashKeeps ==
  ASSUME StoreInv, NEW p \in Putter, ProcessCrash(p)
  PROVE  StoreInv'
<1> USE Apart DEF ProcessCrash, Goto, Files, Root
<1>1. StoreTypes'
  BY DEF StoreInv, StoreTypes, File, Bytes, Step, Answer, Busy, HasTemp, NoAnswer, Rejected, Exists, Stored, Name
<1>2. StepOf(p)
  BY DEF StoreInv, StoreTypes, StepOf, Name
<1>3. DirOnDisk'
  BY DEF StoreInv, StoreTypes, DirOnDisk
<1>4. PublishedSynced'
  BY <1>2, PublishedKept DEF StoreInv, StoreTypes, DirOnDisk, Unpublished, Busy, HasTemp
<1>5. Knows(p)'
  BY DEF StoreInv, StoreTypes, Knows, Busy, HasTemp
<1>6. TempKept(p)'
  BY DEF StoreInv, StoreTypes, DirOnDisk, TempKept, StoredKept, Busy, HasTemp, Stored, Rejected, Exists, NoAnswer
<1>7. StoredKept(p)'
  <2>1. answer'[p] \notin {Stored(TRUE), Stored(FALSE)} /\ pc'[p] \notin {"remove", "sync dir"}
    BY Unanswered DEF StoreInv, StoreTypes, Stored, Rejected, Exists, Busy, HasTemp
  <2> QED BY <2>1, NothingStored
<1> QED BY <1>1, <1>2, <1>3, <1>4, <1>5, <1>6, <1>7, StepKeeps

(* The link publishes under a name that shows nothing. *)
LEMMA PublishKeeps ==
  ASSUME StoreInv, NEW p \in Putter, Publish(p)
  PROVE  StoreInv'
<1>0. /\ pc[p] = "publish" /\ job[p] \in Checkpoint /\ bytes[p] = "canonical" /\ p \in flushed
      /\ dir[p] = p
      /\ UNCHANGED <<job, answer, bytes, flushed, root, rootOnDisk, losses>>
  BY DEF Publish, Files, Root, StoreInv, Knows, TempKept, Busy, HasTemp
<1>1. CASE /\ dir[job[p]] = None /\ pc' = [pc EXCEPT ![p] = "remove"]
           /\ dir' = [dir EXCEPT ![job[p]] = p]
           /\ onDisk' = [onDisk EXCEPT ![job[p]] = @ \cup {p}]
  <2>1. StoreTypes'
    <3>1. dir' \in [Name -> File] /\ onDisk' \in [Name -> SUBSET File]
      BY <1>0, <1>1, Apart DEF StoreInv, StoreTypes, File
    <3>2. pc' \in [Putter -> Step]
      BY <1>1 DEF StoreInv, StoreTypes, Step, Busy, HasTemp
    <3> QED BY <1>0, <3>1, <3>2 DEF StoreInv, StoreTypes
  <2>2. /\ pc'[p] = "remove" /\ dir'[job[p]] = p /\ dir'[p] = p
        /\ \A q \in Putter : dir'[q] = dir[q] /\ onDisk'[q] = onDisk[q]
        /\ \A q \in Putter \ {p} : pc'[q] = pc[q]
        /\ \A c \in Checkpoint \ {job[p]} : dir'[c] = dir[c] /\ onDisk'[c] = onDisk[c]
        /\ onDisk'[job[p]] = onDisk[job[p]] \cup {p}
    BY <1>0, <1>1, Apart DEF StoreInv, StoreTypes
  <2>3. StepOf(p)
    BY <1>0, <1>1, <2>2 DEF StepOf
  <2>4. DirOnDisk'
    BY <1>0, <1>1, Apart DEF StoreInv, StoreTypes, DirOnDisk
  <2>5. PublishedSynced'
    <3> SUFFICES ASSUME NEW c \in Checkpoint, NEW f \in Putter, f \in onDisk'[c]
                 PROVE  /\ job[f] = c /\ bytes[f] \in {"canonical", "damaged"}
                        /\ f \in flushed /\ pc'[f] \notin Unpublished
      BY <1>0 DEF PublishedSynced
    <3>1. f \in onDisk[c] \/ (f = p /\ c = job[p])
      BY <2>2
    <3>2. CASE f = p /\ c = job[p]
      BY <1>0, <2>2, <3>2 DEF Unpublished
    <3>3. CASE f \in onDisk[c]
      <4>1. /\ job[f] = c /\ bytes[f] \in {"canonical", "damaged"}
            /\ f \in flushed /\ pc[f] \notin Unpublished
        BY <3>3 DEF StoreInv, PublishedSynced
      <4>2. f # p
        BY <1>0, <4>1 DEF Unpublished
      <4> QED BY <2>2, <4>1, <4>2
    <3> QED BY <3>1, <3>2, <3>3
  <2>6. answer[p] \notin {Stored(TRUE), Stored(FALSE)}
    BY <1>0, Unanswered
  <2>7. Knows(p)' /\ TempKept(p)' /\ StoredKept(p)'
    BY <1>0, <2>2, <2>6, Apart DEF Knows, TempKept, StoredKept, Busy, HasTemp
  <2> QED BY <2>1, <2>3, <2>4, <2>5, <2>7, StepKeeps
<1>2. CASE pc' = [pc EXCEPT ![p] = "confirm temp"] /\ UNCHANGED <<dir, onDisk>>
  <2>1. StoreTypes'
    BY <1>0, <1>2 DEF StoreInv, StoreTypes, Step, Busy, HasTemp
  <2>2. /\ pc'[p] = "confirm temp" /\ \A q \in Putter \ {p} : pc'[q] = pc[q]
    BY <1>2 DEF StoreInv, StoreTypes
  <2>3. StepOf(p) /\ DirOnDisk'
    BY <1>0, <1>2, <2>2 DEF StepOf, StoreInv, DirOnDisk
  <2>4. PublishedSynced'
    BY <1>0, <1>2, <2>3, PublishedKept DEF Unpublished
  <2>5. answer[p] \notin {Stored(TRUE), Stored(FALSE)}
    BY <1>0, Unanswered
  <2>6. Knows(p)' /\ TempKept(p)' /\ StoredKept(p)'
    BY <1>0, <1>2, <2>2, <2>5 DEF Knows, TempKept, StoredKept, Busy, HasTemp
  <2> QED BY <2>1, <2>3, <2>4, <2>6, StepKeeps
<1> QED BY <1>1, <1>2 DEF Publish, Goto, Entry

(* Damage stays within what a published file may have. *)
LEMMA DamageKeeps ==
  ASSUME StoreInv, NEW c \in Checkpoint, Damage(c)
  PROVE  StoreInv'
<1> DEFINE f == dir[c]
<1>1. /\ f \in Putter /\ f \in onDisk[c]
      /\ pc[f] \notin Unpublished
      /\ bytes' = [bytes EXCEPT ![f] = "damaged"]
      /\ UNCHANGED <<pc, job, answer, flushed, dir, onDisk, root, rootOnDisk, losses>>
  BY Apart DEF StoreInv, StoreTypes, DirOnDisk, PublishedSynced, Damage, Readable, File, Root
<1>2. StoreTypes' /\ DirOnDisk'
  BY <1>1 DEF StoreInv, StoreTypes, DirOnDisk, Bytes
<1>3. \A q \in Putter : bytes'[q] = IF q = f THEN "damaged" ELSE bytes[q]
  BY <1>1 DEF StoreInv, StoreTypes
<1> HIDE DEF f
<1>4. PublishedSynced'
  BY <1>1, <1>3 DEF StoreInv, PublishedSynced
<1>5. ASSUME NEW q \in Putter PROVE Knows(q)'
  BY <1>1, <1>3 DEF StoreInv, Knows, Unpublished
<1>6. ASSUME NEW q \in Putter PROVE TempKept(q)' /\ StoredKept(q)'
  BY <1>1 DEF StoreInv, TempKept, StoredKept
<1> QED BY <1>2, <1>4, <1>5, <1>6 DEF StoreInv

(* A power loss takes names and unsynced bytes, and ends every put that is *)
(* under way: what remains published was synced before it was linked.      *)
LEMMA PowerLossKeeps ==
  ASSUME StoreInv, PowerLoss
  PROVE  StoreInv'
<1>1. /\ losses' = losses + 1 /\ root' \in BOOLEAN /\ rootOnDisk' \in BOOLEAN
      /\ flushed' = {p \in Putter : bytes[p] # "none"} /\ UNCHANGED <<job, answer>>
      /\ dir' \in [Name -> File] /\ bytes' \in [Putter -> Bytes]
      /\ onDisk' = [n \in Name |-> {dir'[n]}]
      /\ pc' = [p \in Putter |-> IF pc[p] \in Busy THEN "dead" ELSE pc[p]]
  BY DEF PowerLoss, StoreInv, StoreTypes, File, Bytes
<1>2. \A n \in Name : dir'[n] = None \/ dir'[n] \in onDisk[n]
  BY DEF PowerLoss
<1>3. \A p \in flushed : bytes'[p] = bytes[p]
  BY DEF PowerLoss, StoreInv, StoreTypes
<1>4. StoreTypes'
  BY <1>1 DEF StoreInv, StoreTypes, Step
<1>5. DirOnDisk'
  BY <1>1 DEF DirOnDisk
<1>6. PublishedSynced'
  <2> SUFFICES ASSUME NEW c \in Checkpoint, NEW f \in Putter, f \in onDisk'[c]
               PROVE  /\ job[f] = c /\ bytes'[f] \in {"canonical", "damaged"}
                      /\ f \in flushed' /\ pc'[f] \notin Unpublished
    BY <1>1 DEF PublishedSynced
  <2>1. onDisk'[c] = {dir'[c]} /\ c \in Name
    BY <1>1, Apart
  <2>2. dir'[c] = f /\ f # None
    BY <2>1, Apart
  <2>3. f \in onDisk[c]
    BY <1>2, <2>1, <2>2
  <2>4. /\ job[f] = c /\ bytes[f] \in {"canonical", "damaged"}
        /\ f \in flushed /\ pc[f] \notin Unpublished
    BY <2>3 DEF StoreInv, PublishedSynced
  <2>5. pc'[f] = "dead" \/ pc'[f] = pc[f]
    BY <1>1
  <2> QED BY <1>1, <1>3, <2>4, <2>5 DEF Unpublished
<1>7. \A p \in Putter : pc'[p] \notin Busy /\ (pc'[p] # "dead" => pc'[p] = pc[p])
  BY <1>1 DEF Busy, HasTemp
<1>8. losses' # 0
  BY <1>1 DEF StoreInv, StoreTypes
<1>9. ASSUME NEW p \in Putter PROVE Knows(p)' /\ TempKept(p)' /\ StoredKept(p)'
  <2>1. onDisk[p] = {None} => onDisk'[p] = {None}
    BY <1>1, <1>2, Apart
  <2>2. Knows(p)'
    BY <1>7 DEF Knows, Busy, HasTemp
  <2>3. TempKept(p)'
    BY <1>1, <1>7, <1>8, <2>1 DEF StoreInv, TempKept, Busy, HasTemp
  <2>4. StoredKept(p)'
    BY <1>1, <1>7, <1>8 DEF StoreInv, StoredKept, Busy, HasTemp
  <2> QED BY <2>2, <2>3, <2>4
<1> QED BY <1>4, <1>5, <1>6, <1>9 DEF StoreInv

LEMMA StoreInvStep == StoreInv /\ [StoreNext]_storeVars => StoreInv'
<1> SUFFICES ASSUME StoreInv, [StoreNext]_storeVars PROVE StoreInv'
  OBVIOUS
<1>1. ASSUME NEW p \in Putter, Put(p) \/ ProcessCrash(p) PROVE StoreInv'
  BY <1>1, PrepareRootKeeps, ProbeKeeps, OpenTempKeeps, WriteTempKeeps, SyncTempKeeps,
     PublishKeeps, ConfirmKeeps, RemoveTempKeeps, SyncDirectoryKeeps, CleanupKeeps,
     IOErrorKeeps, ProcessCrashKeeps DEF Put
<1>2. CASE UNCHANGED storeVars
  BY <1>2 DEF storeVars, StoreInv, StoreTypes, DirOnDisk, PublishedSynced, Knows, TempKept, StoredKept
<1> QED BY <1>1, <1>2, DamageKeeps, PowerLossKeeps DEF StoreNext

LEMMA StoreAlways == StoreSpec => []StoreInv
BY StoreInvInit, StoreInvStep, PTL DEF StoreSpec

(* However many puts race, crash or lose power, a published name shows the *)
(* whole checkpoint it names, or what something outside has damaged.       *)
THEOREM NamesShowWholeCheckpoints == StoreSpec => []PublishedWhole
<1>1. StoreInv => PublishedWhole
  BY Apart DEF StoreInv, StoreTypes, DirOnDisk, PublishedSynced, PublishedWhole, File
<1> QED BY <1>1, StoreAlways, PTL

(* One put only stores a checkpoint, however many race for it.             *)
THEOREM OnePutStores == StoreSpec => []StoredOnce
<1>1. StoreInv => StoredOnce
  <2> SUFFICES ASSUME StoreInv, losses = 0, NEW p \in Putter, NEW q \in Putter,
                      answer[p] \in {Stored(TRUE), Stored(FALSE)},
                      answer[q] \in {Stored(TRUE), Stored(FALSE)}, job[p] = job[q]
               PROVE  p = q
    BY DEF StoredOnce
  <2>1. dir[job[p]] = p /\ dir[job[q]] = q
    BY DEF StoreInv, StoredKept
  <2> QED BY <2>1
<1> QED BY <1>1, StoreAlways, PTL

(* A put knows at every step whether its temporary name is there, and when *)
(* it settles leaves none that it could remove, however many race.         *)
THEOREM TempsAccounted == StoreSpec => []NoLitter
<1>1. StoreInv => NoLitter
  <2> SUFFICES ASSUME StoreInv, NEW p \in Putter
               PROVE  /\ pc[p] \in {"idle"} \cup Busy =>
                           dir[p] = IF pc[p] \in HasTemp THEN p ELSE None
                      /\ pc[p] = "settled" /\ (losses = 0 \/ answer[p] = Stored(TRUE)) =>
                           dir[p] = None
    BY DEF NoLitter
  <2>1. dir[p] \in onDisk[p]
    BY Apart DEF StoreInv, DirOnDisk
  <2>2. pc[p] = "idle" => dir[p] = None
    BY <2>1 DEF StoreInv, TempKept
  <2>3. answer[p] = Stored(TRUE) => dir[p] = None
    BY <2>1 DEF StoreInv, TempKept
  <2>4. pc[p] = "settled" /\ losses = 0 => dir[p] = None
    BY DEF StoreInv, TempKept
  <2> QED BY <2>2, <2>3, <2>4 DEF StoreInv, TempKept, Busy, HasTemp
<1> QED BY <1>1, StoreAlways, PTL
-----------------------------------------------------------------------------
(* What a power loss leaves of a synced directory still shows the entry,   *)
(* whether it is the first loss or the root's own name is on disk.  The    *)
(* name of a root that was there before the first put always is; that of   *)
(* another may be lost, and be on disk again only after a second loss.     *)
DurableInv ==
  /\ rootOnDisk \/ MaxPowerLosses \leq 1
  /\ rootOnDisk \/ losses = 0 =>
       \A p \in Putter : answer[p] = Stored(TRUE) => None \notin onDisk[job[p]]

LEMMA DurableInvStep ==
  StoreInv /\ StoreInv' /\ DurableInv /\ [StoreNext]_storeVars => DurableInv'
<1> SUFFICES ASSUME StoreInv, StoreInv', DurableInv, [StoreNext]_storeVars PROVE DurableInv'
  OBVIOUS
<1>1. \A p \in Putter : answer[p] = Stored(TRUE) => job[p] \in Checkpoint /\ pc[p] = "settled"
  BY DEF StoreInv, StoredKept
<1>2. ASSUME UNCHANGED <<rootOnDisk, losses>>,
             \A p \in Putter : answer'[p] = Stored(TRUE) =>
               answer[p] = Stored(TRUE) /\ job'[p] = job[p],
             \A c \in Checkpoint : None \notin onDisk[c] => None \notin onDisk'[c]
      PROVE  DurableInv'
  BY <1>1, <1>2 DEF DurableInv
<1>3. CASE UNCHANGED storeVars
  BY <1>2, <1>3 DEF storeVars, DurableInv
<1>4. ASSUME NEW c \in Checkpoint, Damage(c) PROVE DurableInv'
  BY <1>2, <1>4 DEF Damage, Root, DurableInv
<1>5. CASE PowerLoss
  <2>1. /\ losses < MaxPowerLosses /\ losses' = losses + 1 /\ rootOnDisk' = root'
        /\ (rootOnDisk => root') /\ UNCHANGED <<job, answer>>
    BY <1>5 DEF PowerLoss
  <2>2. rootOnDisk' \/ MaxPowerLosses \leq 1
    BY <2>1 DEF DurableInv
  <2>3. losses \in Nat /\ MaxPowerLosses \in Nat
    BY StoreAssumption DEF StoreInv, StoreTypes
  <2>4. losses' # 0 /\ (MaxPowerLosses \leq 1 => losses = 0)
    BY <2>1, <2>3
  <2>5. rootOnDisk \/ losses = 0
    BY <2>4 DEF DurableInv
  <2>6. root' => \A c \in Checkpoint : onDisk'[c] = {dir'[c]} /\ dir'[c] \in onDisk[c]
    BY <1>5, Apart DEF PowerLoss
  <2>7. ASSUME rootOnDisk', NEW p \in Putter, answer'[p] = Stored(TRUE)
        PROVE  None \notin onDisk'[job'[p]]
    BY <1>1, <2>1, <2>5, <2>6, <2>7 DEF DurableInv
  <2> QED BY <2>2, <2>4, <2>7 DEF DurableInv
<1>6. ASSUME NEW p \in Putter, ProcessCrash(p) PROVE DurableInv'
  BY <1>2, <1>6 DEF ProcessCrash, Root, DurableInv
<1>7. ASSUME NEW p \in Putter, Put(p) PROVE DurableInv'
  <2>1. CASE PrepareRoot(p)
    <3>1. answer[p] # Stored(TRUE)
      BY <2>1, Unanswered DEF PrepareRoot
    <3>2. \A q \in Putter \ {p} : job'[q] = job[q]
      BY <2>1 DEF PrepareRoot, StoreInv, StoreTypes
    <3>3. UNCHANGED <<answer, onDisk, rootOnDisk, losses>>
      BY <2>1 DEF PrepareRoot
    <3> QED BY <1>2, <3>1, <3>2, <3>3 DEF DurableInv
  <2>2. CASE Probe(p)
    BY <1>2, <2>2 DEF Probe, Root, DurableInv
  <2>3. CASE WriteTemp(p) \/ SyncTemp(p)
    BY <1>2, <2>3 DEF WriteTemp, SyncTemp, Root, DurableInv
  <2>4. CASE OpenTemp(p) \/ RemoveTemp(p) \/ Cleanup(p)
    <3>1. UNCHANGED <<job, answer, rootOnDisk, losses>>
      BY <2>4 DEF OpenTemp, RemoveTemp, Cleanup, Root
    <3>2. onDisk' = onDisk \/ \E f : onDisk' = [onDisk EXCEPT ![p] = onDisk[p] \cup {f}]
      BY <2>4 DEF OpenTemp, RemoveTemp, Cleanup, Entry
    <3>3. \A c \in Checkpoint : onDisk'[c] = onDisk[c]
      BY <3>2, Apart DEF StoreInv, StoreTypes
    <3> QED BY <1>2, <3>1, <3>3 DEF DurableInv
  <2>5. CASE Publish(p)
    <3>1. UNCHANGED <<job, answer, rootOnDisk, losses>>
      BY <2>5 DEF Publish, Root
    <3>2. \/ onDisk' = onDisk
          \/ onDisk' = [onDisk EXCEPT ![job[p]] = onDisk[job[p]] \cup {p}]
      BY <2>5 DEF Publish, Entry
    <3>3. \A c \in Checkpoint : None \notin onDisk[c] => None \notin onDisk'[c]
      BY <3>2, Apart DEF StoreInv, StoreTypes
    <3> QED BY <1>2, <3>1, <3>3 DEF DurableInv
  <2>6. CASE Confirm(p) \/ IOError(p)
    <3>1. UNCHANGED <<job, onDisk, rootOnDisk, losses>>
      BY <2>6 DEF Confirm, IOError, Root
    <3>2. \A q \in Putter : answer'[q] = Stored(TRUE) => answer[q] = Stored(TRUE)
      BY <2>6 DEF Confirm, IOError, StoreInv, StoreTypes, Stored, Exists, Rejected
    <3> QED BY <1>2, <3>1, <3>2 DEF DurableInv
  <2>7. CASE SyncDirectory(p)
    <3>1. PICK synced \in BOOLEAN :
            /\ pc[p] = "sync dir" /\ answer' = [answer EXCEPT ![p] = Stored(synced)]
            /\ onDisk' = IF synced THEN [n \in Name |-> {dir[n]}] ELSE onDisk
            /\ UNCHANGED <<job, dir, rootOnDisk, losses>>
      BY <2>7 DEF SyncDirectory, Settles, Root
    <3>2. job[p] \in Checkpoint /\ dir[job[p]] # None
      BY <3>1 DEF StoreInv, Knows, StoredKept, Busy, HasTemp
    <3>3. \A c \in Checkpoint : dir[c] \in onDisk[c] /\ c \in Name
      BY Apart DEF StoreInv, DirOnDisk
    <3>4. rootOnDisk \/ losses = 0 =>
            \A q \in Putter : answer[q] = Stored(TRUE) => None \notin onDisk'[job[q]]
      BY <1>1, <3>1, <3>3 DEF DurableInv
    <3>5. synced => None \notin onDisk'[job[p]]
      BY <3>1, <3>2, <3>3
    <3>6. \A q \in Putter : answer'[q] = Stored(TRUE) => answer[q] = Stored(TRUE) \/ (q = p /\ synced)
      BY <3>1 DEF StoreInv, StoreTypes, Stored
    <3> QED BY <3>1, <3>4, <3>5, <3>6 DEF DurableInv
  <2> QED BY <1>7, <2>1, <2>2, <2>3, <2>4, <2>5, <2>6, <2>7 DEF Put
<1> QED BY <1>3, <1>4, <1>5, <1>6, <1>7 DEF StoreNext

(* A receipt that reports directoryFsync is kept: over any number of power *)
(* losses in a store whose root was there before the first put, over one   *)
(* in any store.                                                           *)
THEOREM DurableReceiptsHold ==
  ASSUME RootAtStart = {TRUE} \/ MaxPowerLosses \leq 1
  PROVE  StoreSpec => []DurableStays
<1>1. StoreInit => DurableInv
  <2> SUFFICES ASSUME StoreInit PROVE DurableInv
    OBVIOUS
  <2>1. RootAtStart = {TRUE} => rootOnDisk
    BY DEF StoreInit
  <2>2. \A p \in Putter : answer[p] # Stored(TRUE)
    BY DEF StoreInit, NoAnswer, Stored
  <2> QED BY <2>1, <2>2 DEF DurableInv
<1>2. StoreInv /\ DurableInv => DurableStays
  BY Apart DEF StoreInv, StoredKept, DirOnDisk, DurableInv, DurableStays, Stored
<1> QED BY <1>1, <1>2, DurableInvStep, StoreAlways, PTL DEF StoreSpec

(* A damaged checkpoint is neither replaced nor healed nor confirmed, by   *)
(* any number of puts.                                                     *)
THEOREM DamageIsNotHidden == StoreSpec => DamageFailsClosed
<1>1. ASSUME StoreInv, StoreInv', [StoreNext]_storeVars, NEW c \in Checkpoint,
             dir[c] # None, bytes[dir[c]] = "damaged", losses' = losses
      PROVE  /\ dir'[c] = dir[c] /\ bytes'[dir[c]] = "damaged"
             /\ \A p \in Putter : job[p] = c /\ answer'[p] = Exists => answer[p] = Exists
  <2> DEFINE f == dir[c]
  <2>0. f \in Putter /\ pc[f] \notin Unpublished
    BY <1>1, Apart DEF StoreInv, StoreTypes, DirOnDisk, PublishedSynced, File
  <2>1. ~ Readable(c)
    BY <1>1 DEF Readable
  <2>2. CASE UNCHANGED storeVars
    BY <1>1, <2>2 DEF storeVars
  <2>3. ASSUME NEW d \in Checkpoint, Damage(d) PROVE dir' = dir /\ bytes'[f] = "damaged" /\ answer' = answer
    BY <1>1, <2>0, <2>3 DEF Damage, StoreInv, StoreTypes
  <2>4. ~ PowerLoss
    <3>1. PowerLoss => losses' = losses + 1
      BY DEF PowerLoss
    <3> QED BY <1>1, <3>1 DEF StoreInv, StoreTypes
  <2>5. ASSUME NEW p \in Putter, ProcessCrash(p) PROVE UNCHANGED <<dir, bytes, answer>>
    BY <2>5 DEF ProcessCrash, Files
  <2>6. ASSUME NEW p \in Putter, Put(p)
        PROVE  /\ dir'[c] = f /\ bytes'[f] = "damaged"
               /\ \A q \in Putter : job[q] = c /\ answer'[q] = Exists => answer[q] = Exists
    <3>1. dir'[c] = f
      <4>1. CASE dir' = dir
        BY <4>1
      <4>2. CASE OpenTemp(p) \/ RemoveTemp(p) \/ Cleanup(p)
        <5>1. dir' = dir \/ dir' = [dir EXCEPT ![p] = p] \/ dir' = [dir EXCEPT ![p] = None]
          BY <4>2 DEF OpenTemp, RemoveTemp, Cleanup, Entry
        <5> QED BY <1>1, <5>1, Apart DEF StoreInv, StoreTypes
      <4>3. CASE Publish(p)
        <5>1. dir' = dir \/ (dir[job[p]] = None /\ dir' = [dir EXCEPT ![job[p]] = p])
          BY <4>3 DEF Publish, Entry
        <5> QED BY <1>1, <5>1, Apart DEF StoreInv, StoreTypes
      <4>4. PrepareRoot(p) \/ Probe(p) \/ WriteTemp(p) \/ SyncTemp(p) \/ Confirm(p)
            \/ SyncDirectory(p) \/ IOError(p) => dir' = dir
        BY DEF PrepareRoot, Probe, WriteTemp, SyncTemp, Confirm, SyncDirectory, IOError
      <4> QED BY <2>6, <4>1, <4>2, <4>3, <4>4 DEF Put
    <3>2. bytes'[f] = "damaged"
      BY <1>1, <2>0, <2>6
      DEF Put, PrepareRoot, Probe, OpenTemp, WriteTemp, SyncTemp, Publish, Confirm, RemoveTemp,
          SyncDirectory, Cleanup, IOError, Entry, Root, Files, StoreInv, StoreTypes, Unpublished
    <3>3. \A q \in Putter : job[q] = c /\ answer'[q] = Exists => answer[q] = Exists
      <4>1. PrepareRoot(p) \/ Probe(p) \/ OpenTemp(p) \/ WriteTemp(p) \/ SyncTemp(p)
            \/ Publish(p) \/ RemoveTemp(p) \/ Cleanup(p) => answer' = answer
        BY DEF PrepareRoot, Probe, OpenTemp, WriteTemp, SyncTemp, Publish, RemoveTemp, Cleanup
      <4>2. CASE Confirm(p)
        <5>1. answer' = [answer EXCEPT ![p] = IF Readable(job[p]) THEN Exists ELSE Rejected]
          BY <4>2 DEF Confirm
        <5> QED BY <2>1, <5>1 DEF Exists, Rejected, StoreInv, StoreTypes
      <4>3. CASE SyncDirectory(p) \/ IOError(p)
        <5>1. \/ answer' = [answer EXCEPT ![p] = Stored(TRUE)]
              \/ answer' = [answer EXCEPT ![p] = Stored(FALSE)]
              \/ answer' = [answer EXCEPT ![p] = Rejected]
          BY <4>3 DEF SyncDirectory, IOError, Settles
        <5> QED BY <1>1, <5>1 DEF Stored, Exists, Rejected, StoreInv, StoreTypes
      <4> QED BY <2>6, <4>1, <4>2, <4>3 DEF Put
    <3> QED BY <3>1, <3>2, <3>3
  <2> QED BY <1>1, <2>2, <2>3, <2>4, <2>5, <2>6 DEF StoreNext
<1>2. StoreInv /\ StoreInv' /\ [StoreNext]_storeVars =>
        [\A c \in Checkpoint :
           dir[c] # None /\ bytes[dir[c]] = "damaged" /\ losses' = losses =>
             /\ dir'[c] = dir[c] /\ bytes'[dir[c]] = "damaged"
             /\ \A p \in Putter : job[p] = c /\ answer'[p] = Exists => answer[p] = Exists]_storeVars
  BY <1>1
<1> QED BY <1>2, StoreAlways, PTL DEF StoreSpec, DamageFailsClosed
-----------------------------------------------------------------------------
(* The archive.  What StoreInv leaves out, and a caller can tell: a power  *)
(* loss can leave a checkpoint's name as it is or take it; a put that has  *)
(* linked its file and not answered is still the one the name shows, since *)
(* a power loss ends it; and a put is answered once.                       *)
NamesKept == \A c \in Checkpoint : onDisk[c] \subseteq {None, dir[c]}

Linked(p) == pc[p] \in {"remove", "sync dir"} => dir[job[p]] = p

Silent(p) ==
  /\ pc[p] \in ({"idle"} \cup Busy) \ {"cleanup"} => answer[p] = NoAnswer
  /\ pc[p] = "idle" => job[p] = None

ArchiveInv ==
  /\ StoreInv /\ NamesKept
  /\ \A p \in Putter : Linked(p) /\ Silent(p)

LEMMA ArchiveInvInit == StoreInit => ArchiveInv
<1> SUFFICES ASSUME StoreInit PROVE ArchiveInv
  OBVIOUS
<1>1. NamesKept
  BY Apart DEF StoreInit, NamesKept
<1>2. \A p \in Putter : Linked(p) /\ Silent(p)
  BY DEF StoreInit, Linked, Silent
<1> QED BY <1>1, <1>2, StoreInvInit DEF ArchiveInv

(* What a step of a put does to the published names.                       *)
LEMMA PutNames ==
  ASSUME StoreInv, NEW p \in Putter, Put(p) \/ ProcessCrash(p)
  PROVE  /\ \A q \in Putter \ {p} : pc'[q] = pc[q] /\ job'[q] = job[q] /\ answer'[q] = answer[q]
         /\ \A c \in Checkpoint : dir[c] # None => dir'[c] = dir[c]
         /\ rootOnDisk' = rootOnDisk
<1> USE Apart DEF Goto, Files, Root
<1>1. CASE PrepareRoot(p) \/ Probe(p) \/ WriteTemp(p) \/ SyncTemp(p) \/ Confirm(p) \/ IOError(p)
           \/ ProcessCrash(p)
  BY <1>1 DEF StoreInv, StoreTypes, PrepareRoot, Probe, WriteTemp, SyncTemp, Confirm, IOError,
              ProcessCrash
<1>2. CASE OpenTemp(p) \/ RemoveTemp(p) \/ Cleanup(p)
  <2>1. dir' = dir \/ dir' = [dir EXCEPT ![p] = p] \/ dir' = [dir EXCEPT ![p] = None]
    BY <1>2 DEF OpenTemp, RemoveTemp, Cleanup, Entry
  <2>2. \A c \in Checkpoint : dir'[c] = dir[c]
    BY <2>1 DEF StoreInv, StoreTypes
  <2> QED BY <1>2, <2>2 DEF StoreInv, StoreTypes, OpenTemp, RemoveTemp, Cleanup
<1>3. CASE Publish(p)
  <2>1. dir' = dir \/ (dir[job[p]] = None /\ dir' = [dir EXCEPT ![job[p]] = p])
    BY <1>3 DEF Publish, Entry
  <2>2. \A c \in Checkpoint : dir[c] # None => dir'[c] = dir[c]
    BY <2>1 DEF StoreInv, StoreTypes
  <2> QED BY <1>3, <2>2 DEF StoreInv, StoreTypes, Publish
<1>4. CASE SyncDirectory(p)
  BY <1>4 DEF StoreInv, StoreTypes, SyncDirectory, Settles
<1> QED BY <1>1, <1>2, <1>3, <1>4 DEF Put

LEMMA NamesStep ==
  ASSUME ArchiveInv, StoreInv', [StoreNext]_storeVars
  PROVE  NamesKept'
<1> USE Apart DEF ArchiveInv
<1>1. CASE onDisk' = onDisk /\ dir' = dir
  BY <1>1 DEF NamesKept
<1>2. CASE onDisk' = [n \in Name |-> {dir'[n]}]
  BY <1>2 DEF NamesKept
<1>3. ASSUME NEW p \in Putter, NEW f \in File, Entry(p, f)
      PROVE  NamesKept'
  BY <1>3 DEF Entry, NamesKept, StoreInv, StoreTypes
<1>4. ASSUME NEW p \in Putter, Publish(p) PROVE NamesKept'
  <2>1. CASE dir[job[p]] = None /\ Entry(job[p], p)
    <3>1. /\ dir' = [dir EXCEPT ![job[p]] = p]
          /\ onDisk' = [onDisk EXCEPT ![job[p]] = onDisk[job[p]] \cup {p}]
      BY <2>1 DEF Entry
    <3> QED BY <2>1, <3>1 DEF NamesKept, StoreInv, StoreTypes
  <2> QED BY <1>1, <1>4, <2>1 DEF Publish
<1>5. CASE PowerLoss
  BY <1>2, <1>5 DEF PowerLoss
<1>6. ASSUME NEW p \in Putter, SyncDirectory(p) PROVE NamesKept'
  <2>1. dir' = dir
    BY <1>6 DEF SyncDirectory
  <2> QED BY <1>1, <1>2, <1>6, <2>1 DEF SyncDirectory
<1>7. ASSUME NEW p \in Putter, Put(p) PROVE NamesKept'
  <2>1. CASE OpenTemp(p) \/ RemoveTemp(p) \/ Cleanup(p)
    <3>1. Entry(p, p) \/ Entry(p, None) \/ (onDisk' = onDisk /\ dir' = dir)
      BY <2>1 DEF OpenTemp, RemoveTemp, Cleanup
    <3> QED BY <1>1, <1>3, <3>1 DEF File
  <2>2. CASE PrepareRoot(p) \/ Probe(p) \/ WriteTemp(p) \/ SyncTemp(p) \/ Confirm(p) \/ IOError(p)
    BY <1>1, <2>2 DEF PrepareRoot, Probe, WriteTemp, SyncTemp, Confirm, IOError
  <2> QED BY <1>4, <1>6, <1>7, <2>1, <2>2 DEF Put
<1>8. ASSUME NEW p \in Putter, ProcessCrash(p) PROVE NamesKept'
  BY <1>1, <1>8 DEF ProcessCrash
<1>9. ASSUME NEW c \in Checkpoint, Damage(c) PROVE NamesKept'
  BY <1>1, <1>9 DEF Damage
<1>10. CASE UNCHANGED storeVars
  BY <1>1, <1>10 DEF storeVars
<1> QED BY <1>5, <1>7, <1>8, <1>9, <1>10 DEF StoreNext

(* The putter of a step.                                                   *)
LEMMA OwnStep ==
  ASSUME ArchiveInv, NEW p \in Putter, Put(p) \/ ProcessCrash(p)
  PROVE  Linked(p)' /\ Silent(p)'
<1> USE Apart DEF ArchiveInv, Goto, Settles, Entry, StoreInv, StoreTypes
<1>0. Linked(p) /\ Silent(p) /\ (pc[p] \in Busy => job[p] \in Checkpoint)
  BY DEF Knows
<1>1. CASE PrepareRoot(p)
  BY <1>0, <1>1 DEF PrepareRoot, Linked, Silent, Busy, HasTemp
<1>2. CASE Probe(p) \/ WriteTemp(p) \/ SyncTemp(p)
  BY <1>0, <1>2 DEF Probe, WriteTemp, SyncTemp, Linked, Silent, Busy, HasTemp
<1>3. CASE OpenTemp(p)
  BY <1>0, <1>3 DEF OpenTemp, Linked, Silent, Busy, HasTemp
<1>4. CASE Publish(p)
  BY <1>0, <1>4 DEF Publish, Linked, Silent, Busy, HasTemp
<1>5. CASE RemoveTemp(p)
  <2>1. /\ pc[p] = "remove" /\ dir' = [dir EXCEPT ![p] = None] /\ pc' = [pc EXCEPT ![p] = "sync dir"]
        /\ job' = job /\ answer' = answer
    BY <1>5 DEF RemoveTemp
  <2>2. dir[job[p]] = p /\ job[p] \in Checkpoint /\ answer[p] = NoAnswer
    BY <1>0, <2>1 DEF Linked, Silent, Busy, HasTemp
  <2>3. pc'[p] = "sync dir" /\ job'[p] = job[p] /\ answer'[p] = NoAnswer
    BY <2>1, <2>2
  <2>4. dir'[job[p]] = p
    BY <2>1, <2>2
  <2> QED BY <2>3, <2>4 DEF Linked, Silent
<1>6. CASE Confirm(p) \/ Cleanup(p) \/ IOError(p)
  <2>1. pc' \in {[pc EXCEPT ![p] = step] : step \in {"cleanup", "settled", "littered"}}
    BY <1>6 DEF Confirm, Cleanup, IOError
  <2>2. pc'[p] \in {"cleanup", "settled", "littered"}
    BY <2>1
  <2> QED BY <2>2 DEF Linked, Silent, Busy, HasTemp
<1>7. CASE SyncDirectory(p) \/ ProcessCrash(p)
  <2>1. pc' \in {[pc EXCEPT ![p] = step] : step \in {"settled", "dead"}}
    BY <1>7 DEF SyncDirectory, ProcessCrash
  <2>2. pc'[p] \in {"settled", "dead"}
    BY <2>1
  <2> QED BY <2>2 DEF Linked, Silent, Busy, HasTemp
<1> QED BY <1>1, <1>2, <1>3, <1>4, <1>5, <1>6, <1>7 DEF Put

LEMMA OtherStep ==
  ASSUME ArchiveInv, NEW p \in Putter, Put(p) \/ ProcessCrash(p), NEW q \in Putter, q # p
  PROVE  Linked(q)' /\ Silent(q)'
<1>1. /\ pc'[q] = pc[q] /\ job'[q] = job[q] /\ answer'[q] = answer[q]
      /\ \A c \in Checkpoint : dir[c] # None => dir'[c] = dir[c]
  BY PutNames DEF ArchiveInv
<1>2. Linked(q) /\ Silent(q) /\ (pc[q] \in Busy => job[q] \in Checkpoint)
  BY DEF ArchiveInv, StoreInv, Knows
<1> QED BY <1>1, <1>2, Apart DEF Linked, Silent, Busy, HasTemp

LEMMA ArchiveInvStep ==
  ASSUME ArchiveInv, StoreInv', [StoreNext]_storeVars
  PROVE  ArchiveInv'
<1>1. NamesKept'
  BY NamesStep
<1>2. ASSUME NEW q \in Putter PROVE Linked(q)' /\ Silent(q)'
  <2>0. Linked(q) /\ Silent(q)
    BY DEF ArchiveInv
  <2>1. ASSUME NEW p \in Putter, Put(p) \/ ProcessCrash(p) PROVE Linked(q)' /\ Silent(q)'
    BY <2>1, OwnStep, OtherStep
  <2>2. CASE PowerLoss
    <3>1. pc'[q] = IF pc[q] \in Busy THEN "dead" ELSE pc[q]
      BY <2>2 DEF PowerLoss
    <3>2. job' = job /\ answer' = answer
      BY <2>2 DEF PowerLoss
    <3> QED BY <2>0, <3>1, <3>2 DEF Linked, Silent, Busy, HasTemp
  <2>3. ASSUME NEW c \in Checkpoint, Damage(c) PROVE Linked(q)' /\ Silent(q)'
    BY <2>0, <2>3 DEF Damage, Linked, Silent
  <2>4. CASE UNCHANGED storeVars
    BY <2>0, <2>4 DEF storeVars, Linked, Silent
  <2> QED BY <2>1, <2>2, <2>3, <2>4 DEF StoreNext
<1> QED BY <1>1, <1>2 DEF ArchiveInv
-----------------------------------------------------------------------------
(* The mapping of the steps.                                               *)
LEMMA SameArchive ==
  ASSUME rootOnDisk' = rootOnDisk,
         \A c \in Checkpoint :
           /\ dir'[c] = dir[c] /\ onDisk'[c] = onDisk[c]
           /\ dir[c] # None => bytes'[dir[c]] = bytes[dir[c]]
  PROVE  UNCHANGED <<Shown, DamagedNames, SafeNames, rootOnDisk>>
<1>1. Shown' = Shown
  BY DEF Shown
<1>2. DamagedNames' = DamagedNames
  BY DEF DamagedNames
<1>3. SafeNames' = SafeNames
  BY DEF SafeNames
<1> QED BY <1>1, <1>2, <1>3

(* A file that is not published yet is none that a name shows.             *)
LEMMA NotShown ==
  ASSUME StoreInv, NEW p \in Putter, pc[p] \in Unpublished, NEW c \in Checkpoint
  PROVE  dir[c] # p
BY Apart DEF StoreInv, DirOnDisk, PublishedSynced

LEMMA QuietMaps ==
  ASSUME ArchiveInv, NEW p \in Putter,
         \/ Probe(p) \/ OpenTemp(p) \/ WriteTemp(p) \/ SyncTemp(p) \/ RemoveTemp(p) \/ Cleanup(p)
         \/ ProcessCrash(p)
  PROVE  UNCHANGED Archive!archiveVars
<1> USE Apart DEF ArchiveInv, Root, Files
<1>1. UNCHANGED <<job, answer>> /\ rootOnDisk' = rootOnDisk
  BY DEF Probe, OpenTemp, WriteTemp, SyncTemp, RemoveTemp, Cleanup, ProcessCrash
<1>2. \A c \in Checkpoint : dir'[c] = dir[c] /\ onDisk'[c] = onDisk[c]
  <2>1. \/ dir' = dir /\ onDisk' = onDisk
        \/ \E f : dir' = [dir EXCEPT ![p] = f] /\ onDisk' = [onDisk EXCEPT ![p] = onDisk[p] \cup {f}]
    BY DEF Probe, OpenTemp, WriteTemp, SyncTemp, RemoveTemp, Cleanup, ProcessCrash, Entry
  <2> QED BY <2>1 DEF StoreInv, StoreTypes
<1>3. ASSUME NEW c \in Checkpoint, dir[c] # None
      PROVE  bytes'[dir[c]] = bytes[dir[c]]
  <2>1. CASE OpenTemp(p) \/ WriteTemp(p)
    <3>1. pc[p] \in Unpublished /\ \E b : bytes' = [bytes EXCEPT ![p] = b]
      BY <2>1 DEF OpenTemp, WriteTemp, Unpublished
    <3>2. dir[c] # p
      BY <3>1, NotShown
    <3>3. dir[c] \in Putter
      BY <1>3 DEF StoreInv, StoreTypes, File
    <3> QED BY <3>1, <3>2, <3>3 DEF StoreInv, StoreTypes
  <2>2. CASE Probe(p) \/ SyncTemp(p) \/ RemoveTemp(p) \/ Cleanup(p) \/ ProcessCrash(p)
    BY <2>2 DEF Probe, SyncTemp, RemoveTemp, Cleanup, ProcessCrash
  <2> QED BY <2>1, <2>2
<1> QED BY <1>1, <1>2, <1>3, SameArchive DEF Archive!archiveVars

LEMMA PrepareRootMaps ==
  ASSUME ArchiveInv, NEW p \in Putter, PrepareRoot(p)
  PROVE  \E c \in Checkpoint : Archive!Ask(p, c)
<1>1. PICK c \in Checkpoint : job' = [job EXCEPT ![p] = c]
  BY DEF PrepareRoot
<1>2. job[p] = None
  BY DEF PrepareRoot, ArchiveInv, Silent
<1>3. UNCHANGED <<dir, onDisk, bytes, rootOnDisk, answer>>
  BY DEF PrepareRoot, Files
<1>4. UNCHANGED <<Shown, DamagedNames, SafeNames, rootOnDisk>>
  BY <1>3, SameArchive
<1> QED BY <1>1, <1>2, <1>3, <1>4 DEF Archive!Ask

LEMMA PublishMaps ==
  ASSUME ArchiveInv, NEW p \in Putter, Publish(p)
  PROVE  Archive!Store(p, job[p]) \/ UNCHANGED Archive!archiveVars
<1> USE Apart DEF ArchiveInv, Root, Files
<1>1. /\ pc[p] = "publish" /\ job[p] \in Checkpoint /\ bytes[p] = "canonical"
      /\ answer[p] = NoAnswer
      /\ UNCHANGED <<job, answer, bytes, rootOnDisk>>
  BY DEF Publish, StoreInv, Knows, Silent, Busy, HasTemp
<1>2. CASE UNCHANGED <<dir, onDisk>>
  BY <1>1, <1>2, SameArchive DEF Archive!archiveVars
<1>3. CASE dir[job[p]] = None /\ Entry(job[p], p)
  <2>1. /\ dir' = [dir EXCEPT ![job[p]] = p]
        /\ onDisk' = [onDisk EXCEPT ![job[p]] = onDisk[job[p]] \cup {p}]
    BY <1>3 DEF Entry
  <2>2. \A c \in Checkpoint : /\ dir'[c] = IF c = job[p] THEN p ELSE dir[c]
                              /\ onDisk'[c] = IF c = job[p] THEN onDisk[c] \cup {p} ELSE onDisk[c]
    BY <1>1, <2>1 DEF StoreInv, StoreTypes
  <2>3. Shown[job[p]] = None /\ Shown' = [Shown EXCEPT ![job[p]] = p]
    BY <1>1, <1>3, <2>2 DEF Shown
  <2>4. DamagedNames' = DamagedNames
    <3>1. \A c \in Checkpoint : dir'[c] # None /\ bytes'[dir'[c]] = "damaged"
                                  <=> dir[c] # None /\ bytes[dir[c]] = "damaged"
      BY <1>1, <1>3, <2>2
    <3> QED BY <3>1 DEF DamagedNames
  <2>5. SafeNames' = SafeNames
    <3>1. \A c \in Checkpoint : None \notin onDisk'[c] <=> None \notin onDisk[c]
      BY <2>2
    <3> QED BY <1>1, <3>1 DEF SafeNames
  <2> QED BY <1>1, <2>3, <2>4, <2>5 DEF Archive!Store, NoAnswer
<1> QED BY <1>2, <1>3 DEF Publish

LEMMA ConfirmMaps ==
  ASSUME ArchiveInv, NEW p \in Putter, Confirm(p)
  PROVE  Archive!TellExists(p, job[p]) \/ Archive!Reject(p)
<1> USE DEF ArchiveInv, Root, Files
<1>1. /\ job[p] \in Checkpoint /\ answer[p] = NoAnswer
      /\ answer' = [answer EXCEPT ![p] = IF Readable(job[p]) THEN Exists ELSE Rejected]
      /\ UNCHANGED <<job, bytes, dir, onDisk, rootOnDisk>>
  BY DEF Confirm, StoreInv, Knows, Silent, Busy, HasTemp
<1>2. UNCHANGED <<Shown, DamagedNames, SafeNames, rootOnDisk>>
  BY <1>1, SameArchive
<1>3. CASE Readable(job[p])
  <2>1. job[p] \in Archive!Held \ DamagedNames
    BY <1>1, <1>3 DEF Readable, Archive!Held, Shown, DamagedNames
  <2> QED BY <1>1, <1>2, <1>3, <2>1 DEF Archive!TellExists, Archive!Tell, NoAnswer, Exists
<1>4. CASE ~Readable(job[p])
  BY <1>1, <1>2, <1>4 DEF Archive!Reject, Archive!Tell, NoAnswer, Rejected
<1> QED BY <1>3, <1>4

LEMMA IOErrorMaps ==
  ASSUME ArchiveInv, NEW p \in Putter, IOError(p)
  PROVE  Archive!Reject(p)
<1>1. /\ answer[p] = NoAnswer /\ answer' = [answer EXCEPT ![p] = Rejected]
      /\ UNCHANGED <<job, bytes, dir, onDisk, rootOnDisk>>
  BY DEF IOError, ArchiveInv, Silent, Root, Files
<1>2. UNCHANGED <<Shown, DamagedNames, SafeNames, rootOnDisk>>
  BY <1>1, SameArchive
<1> QED BY <1>1, <1>2 DEF Archive!Reject, Archive!Tell, NoAnswer, Rejected

LEMMA SyncDirectoryMaps ==
  ASSUME ArchiveInv, NEW p \in Putter, SyncDirectory(p)
  PROVE  Archive!TellSynced(p, job[p]) \/ Archive!TellStored(p, job[p])
<1> USE Apart DEF ArchiveInv, Root, Files
<1>1. /\ job[p] \in Checkpoint /\ answer[p] = NoAnswer /\ dir[job[p]] = p
      /\ UNCHANGED <<job, bytes, dir, rootOnDisk>>
  BY DEF SyncDirectory, StoreInv, Knows, Silent, Linked, Busy, HasTemp
<1>2. Shown[job[p]] = p
  BY <1>1 DEF Shown
<1>3. CASE onDisk' = [n \in Name |-> {dir[n]}] /\ answer' = [answer EXCEPT ![p] = Stored(TRUE)]
  <2>1. \A c \in Checkpoint : onDisk'[c] = {dir[c]}
    BY <1>3
  <2>2. Shown' = Shown /\ DamagedNames' = DamagedNames
    BY <1>1 DEF Shown, DamagedNames
  <2>3. SafeNames' = IF rootOnDisk THEN Archive!Held ELSE SafeNames
    <3>1. CASE rootOnDisk
      BY <1>1, <2>1, <3>1 DEF SafeNames, Archive!Held, Shown
    <3>2. CASE ~rootOnDisk
      BY <1>1, <3>2 DEF SafeNames
    <3> QED BY <3>1, <3>2
  <2> QED BY <1>1, <1>2, <1>3, <2>2, <2>3
      DEF Archive!TellSynced, Archive!Tell, Archive!Synced, NoAnswer, Stored
<1>4. CASE onDisk' = onDisk /\ answer' = [answer EXCEPT ![p] = Stored(FALSE)]
  <2>1. UNCHANGED <<Shown, DamagedNames, SafeNames, rootOnDisk>>
    BY <1>1, <1>4, SameArchive
  <2> QED BY <1>1, <1>2, <1>4, <2>1 DEF Archive!TellStored, Archive!Tell, NoAnswer, Stored
<1> QED BY <1>3, <1>4 DEF SyncDirectory, Settles

LEMMA DamageMaps ==
  ASSUME ArchiveInv, NEW c \in Checkpoint, Damage(c)
  PROVE  Archive!Spoil(c)
<1> USE Apart DEF ArchiveInv, Root
<1>1. /\ dir[c] \in Putter /\ dir[c] # None /\ bytes[dir[c]] = "canonical"
      /\ bytes' = [bytes EXCEPT ![dir[c]] = "damaged"]
      /\ UNCHANGED <<job, answer, dir, onDisk, rootOnDisk>>
  BY DEF Damage, Readable, StoreInv, StoreTypes, File
<1>2. \A d \in Checkpoint : dir[d] # None /\ dir[d] = dir[c] => d = c
  BY <1>1 DEF StoreInv, DirOnDisk, PublishedSynced
<1>3. c \in Archive!Held \ DamagedNames
  BY <1>1 DEF Archive!Held, Shown, DamagedNames
<1>4. DamagedNames' = DamagedNames \cup {c}
  <2>1. \A d \in Checkpoint : d \in DamagedNames' <=> d \in DamagedNames \/ d = c
    <3>1. \A q \in Putter : bytes'[q] = IF q = dir[c] THEN "damaged" ELSE bytes[q]
      BY <1>1 DEF StoreInv, StoreTypes
    <3>2. \A d \in Checkpoint : dir[d] \in Putter \cup {None}
      BY DEF StoreInv, StoreTypes, File
    <3> QED BY <1>1, <1>2, <3>1, <3>2 DEF DamagedNames
  <2>2. DamagedNames \subseteq Checkpoint /\ DamagedNames' \subseteq Checkpoint
    BY DEF DamagedNames
  <2> QED BY <2>1, <2>2
<1>5. Shown' = Shown /\ SafeNames' = SafeNames
  BY <1>1 DEF Shown, SafeNames
<1> QED BY <1>1, <1>3, <1>4, <1>5 DEF Archive!Spoil

(* What a power loss leaves under a name was there before it, and is whole *)
(* or damaged as it was; and it stays, through every later one.            *)
LEMMA PowerLossMaps ==
  ASSUME ArchiveInv, PowerLoss
  PROVE  Archive!Lose
<1> USE Apart DEF ArchiveInv
<1> DEFINE kept == {c \in Checkpoint : dir'[c] # None}
<1>1. /\ root' \in BOOLEAN /\ rootOnDisk' = root' /\ (rootOnDisk => root')
      /\ UNCHANGED <<job, answer>>
      /\ \A n \in Name : dir'[n] \in IF root' THEN onDisk[n] ELSE {None}
      /\ \A n \in Name : onDisk'[n] = {dir'[n]}
  BY DEF PowerLoss, StoreInv, StoreTypes
<1>2. \A q \in flushed : bytes'[q] = bytes[q]
  BY DEF PowerLoss, StoreInv, StoreTypes
<1>3. ASSUME NEW c \in Checkpoint, dir'[c] # None
      PROVE  root' /\ dir'[c] = dir[c] /\ dir[c] # None /\ bytes'[dir[c]] = bytes[dir[c]]
  <2>1. root' /\ dir'[c] \in onDisk[c]
    BY <1>1, <1>3
  <2>2. dir'[c] = dir[c]
    BY <1>3, <2>1 DEF NamesKept
  <2>3. dir[c] \in Putter
    BY <1>3, <2>2 DEF StoreInv, StoreTypes, File
  <2>4. dir[c] \in flushed
    BY <2>1, <2>2, <2>3 DEF StoreInv, PublishedSynced
  <2> QED BY <1>2, <1>3, <2>1, <2>2, <2>4
<1>4. kept \in SUBSET Archive!Held /\ SafeNames \subseteq kept
  <2>1. ASSUME NEW c \in SafeNames PROVE dir'[c] # None
    BY <1>1 DEF SafeNames
  <2>2. \A c \in SafeNames : c \in Checkpoint
    BY DEF SafeNames
  <2> QED BY <1>3, <2>1, <2>2 DEF Archive!Held, Shown
<1>5. Shown' = [c \in Checkpoint |-> IF c \in kept THEN Shown[c] ELSE None]
  BY <1>3 DEF Shown
<1>6. DamagedNames' = DamagedNames \cap kept
  <2>1. \A c \in Checkpoint : c \in DamagedNames' <=> c \in DamagedNames /\ c \in kept
    BY <1>3 DEF DamagedNames
  <2>2. DamagedNames \subseteq Checkpoint /\ DamagedNames' \subseteq Checkpoint
    BY DEF DamagedNames
  <2> QED BY <2>1, <2>2
<1>7. SafeNames' = kept
  <2>1. \A c \in Checkpoint : c \in SafeNames' <=> c \in kept
    BY <1>1, <1>3 DEF SafeNames
  <2>2. SafeNames' \subseteq Checkpoint
    BY DEF SafeNames
  <2> QED BY <2>1, <2>2
<1>8. rootOnDisk' \in BOOLEAN /\ (rootOnDisk \/ kept # {} => rootOnDisk')
  BY <1>1, <1>3
<1> HIDE DEF kept
<1> QED BY <1>1, <1>4, <1>5, <1>6, <1>7, <1>8 DEF Archive!Lose

LEMMA ArchiveStep ==
  ASSUME ArchiveInv, [StoreNext]_storeVars
  PROVE  Archive!ArchiveNext \/ UNCHANGED Archive!archiveVars
<1>1. ASSUME NEW p \in Putter, Put(p) \/ ProcessCrash(p)
      PROVE  Archive!ArchiveNext \/ UNCHANGED Archive!archiveVars
  <2>1. pc[p] \in Busy => job[p] \in Checkpoint
    BY DEF ArchiveInv, StoreInv, Knows
  <2>2. CASE PrepareRoot(p)
    BY <2>2, PrepareRootMaps DEF Archive!ArchiveNext
  <2>3. CASE Publish(p)
    BY <2>1, <2>3, PublishMaps DEF Archive!ArchiveNext, Publish, Busy, HasTemp
  <2>4. CASE Confirm(p)
    BY <2>1, <2>4, ConfirmMaps DEF Archive!ArchiveNext, Confirm, Busy, HasTemp
  <2>5. CASE SyncDirectory(p)
    BY <2>1, <2>5, SyncDirectoryMaps DEF Archive!ArchiveNext, SyncDirectory, Busy
  <2>6. CASE IOError(p)
    BY <2>6, IOErrorMaps DEF Archive!ArchiveNext
  <2>7. CASE Probe(p) \/ OpenTemp(p) \/ WriteTemp(p) \/ SyncTemp(p) \/ RemoveTemp(p) \/ Cleanup(p)
             \/ ProcessCrash(p)
    BY <2>7, QuietMaps
  <2> QED BY <1>1, <2>2, <2>3, <2>4, <2>5, <2>6, <2>7 DEF Put
<1>2. ASSUME NEW c \in Checkpoint, Damage(c) PROVE Archive!ArchiveNext
  BY <1>2, DamageMaps DEF Archive!ArchiveNext
<1>3. CASE PowerLoss
  BY <1>3, PowerLossMaps DEF Archive!ArchiveNext
<1>4. CASE UNCHANGED storeVars
  BY <1>4, SameArchive DEF storeVars, Archive!archiveVars
<1> QED BY <1>1, <1>2, <1>3, <1>4 DEF StoreNext

LEMMA ArchiveStart ==
  ASSUME StoreInit
  PROVE  Archive!ArchiveInit
<1> USE Apart DEF StoreInit
<1>1. \A c \in Checkpoint : dir[c] = None /\ onDisk[c] = {None}
  OBVIOUS
<1>2. Shown = [c \in Checkpoint |-> None]
  BY <1>1 DEF Shown
<1>3. DamagedNames = {} /\ SafeNames = {}
  BY <1>1 DEF DamagedNames, SafeNames
<1>4. rootOnDisk \in BOOLEAN
  BY StoreAssumption
<1> QED BY <1>2, <1>3, <1>4 DEF Archive!ArchiveInit, NoAnswer

(* For any number of puts, checkpoints and power losses and any faults,    *)
(* the store implements the archive: receipts are true when they are       *)
(* given, entries are never replaced, and what a receipt reports as synced *)
(* under a root that is on disk is never lost.                             *)
THEOREM StoreImplementsArchive == StoreSpec => ImplementsArchive
<1>1. StoreInit => Archive!ArchiveInit
  BY ArchiveStart
<1>2. ArchiveInv /\ StoreInv' /\ [StoreNext]_storeVars => ArchiveInv'
  BY ArchiveInvStep
<1>3. ArchiveInv /\ [StoreNext]_storeVars => [Archive!ArchiveNext]_(Archive!archiveVars)
  BY ArchiveStep
<1> QED BY <1>1, <1>2, <1>3, ArchiveInvInit, StoreAlways, PTL
    DEF StoreSpec, ImplementsArchive, Archive!ArchiveSpec
=============================================================================
