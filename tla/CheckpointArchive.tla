-------------------------- MODULE CheckpointArchive --------------------------
(***************************************************************************)
(* What the checkpoint store promises to its callers, without temporary    *)
(* files, links and syncs: an archive that holds each checkpoint at most   *)
(* once, under the put that stored it.  An entry is never replaced, and is *)
(* lost only in a power loss and only if nothing has made it safe.  Each   *)
(* put is told one thing, and what it is told is true when it is told:     *)
(* STORED, that the archive holds what this put brought; EXISTS, that it   *)
(* holds the checkpoint undamaged.                                         *)
(***************************************************************************)
CONSTANTS Checkpoint, Putter, None

VARIABLES
  entry,     \* entry[c]: the put that stored c, or None
  damaged,   \* checkpoints whose entry something outside has damaged
  safe,      \* checkpoints whose entry outlasts a power loss
  rooted,    \* the archive itself outlasts one
  asked,     \* asked[p]: the checkpoint put p brings
  told       \* told[p]: what it was told

archiveVars == <<entry, damaged, safe, rooted, asked, told>>

Held == {c \in Checkpoint : entry[c] # None}

(* A receipt that reports the sync of the directory.                       *)
Synced == "STORED synced"

Tell(p, answer) == told[p] = "none" /\ told' = [told EXCEPT ![p] = answer]

ArchiveInit ==
  /\ entry = [c \in Checkpoint |-> None]
  /\ damaged = {} /\ safe = {}
  /\ rooted \in BOOLEAN
  /\ asked = [p \in Putter |-> None]
  /\ told = [p \in Putter |-> "none"]

Ask(p, c) ==
  /\ asked[p] = None
  /\ asked' = [asked EXCEPT ![p] = c]
  /\ UNCHANGED <<entry, damaged, safe, rooted, told>>

Store(p, c) ==
  /\ asked[p] = c /\ told[p] = "none"
  /\ entry[c] = None
  /\ entry' = [entry EXCEPT ![c] = p]
  /\ UNCHANGED <<damaged, safe, rooted, asked, told>>

(* A sync makes safe whatever the archive holds, if the archive is.        *)
TellSynced(p, c) ==
  /\ asked[p] = c /\ entry[c] = p
  /\ Tell(p, Synced)
  /\ safe' = IF rooted THEN Held ELSE safe
  /\ UNCHANGED <<entry, damaged, rooted, asked>>

TellStored(p, c) ==
  /\ asked[p] = c /\ entry[c] = p
  /\ Tell(p, "STORED unsynced")
  /\ UNCHANGED <<entry, damaged, safe, rooted, asked>>

TellExists(p, c) ==
  /\ asked[p] = c /\ c \in Held \ damaged
  /\ Tell(p, "EXISTS")
  /\ UNCHANGED <<entry, damaged, safe, rooted, asked>>

(* A put may fail at any time, even after it has stored.                   *)
Reject(p) ==
  /\ Tell(p, "rejected")
  /\ UNCHANGED <<entry, damaged, safe, rooted, asked>>

Spoil(c) ==
  /\ c \in Held \ damaged
  /\ damaged' = damaged \cup {c}
  /\ UNCHANGED <<entry, safe, rooted, asked, told>>

(* What outlasts one power loss is safe from the next.                     *)
Lose ==
  /\ \E kept \in SUBSET Held :
       /\ safe \subseteq kept
       /\ entry' = [c \in Checkpoint |-> IF c \in kept THEN entry[c] ELSE None]
       /\ damaged' = damaged \cap kept
       /\ safe' = kept
       /\ rooted' \in BOOLEAN
       /\ rooted \/ kept # {} => rooted'
  /\ UNCHANGED <<asked, told>>

ArchiveNext ==
  \/ \E p \in Putter, c \in Checkpoint :
       Ask(p, c) \/ Store(p, c) \/ TellSynced(p, c) \/ TellStored(p, c) \/ TellExists(p, c)
  \/ \E p \in Putter : Reject(p)
  \/ \E c \in Checkpoint : Spoil(c)
  \/ Lose

ArchiveSpec == ArchiveInit /\ [][ArchiveNext]_archiveVars
===============================================================================
