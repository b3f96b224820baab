--------------------------- MODULE DurableJournal ---------------------------
(***************************************************************************)
(* How one Receipt journal reaches the disk: persist_journal_with          *)
(* (src/change.rs), create_dir_all, write_private_file_atomic and the      *)
(* directory barrier (src/anchored_fs.rs, src/durable_fs.rs), under system *)
(* calls that fail, a process that dies and a machine that loses power.    *)
(*                                                                         *)
(* A directory entry or a file's bytes are safe from a power loss once     *)
(* they are flushed.  Before that a file may read as anything, and the     *)
(* directory may stand as it was after any of the changes since its last   *)
(* flush: filesystems commit the changes of one directory in order, and a  *)
(* rename whole.                                                           *)
(***************************************************************************)
EXTENDS Integers

CONSTANTS Inode, NoInode,
          MaxWrites        \* bound: records written

ASSUME DurableAssumption == NoInode \notin Inode /\ MaxWrites \in Nat

VARIABLES
    receipts,   \* the entry of the receipts directory: absent, visible or flushed
    entries,    \* its entries, the staging file and the journal
    images,     \* the entries a power loss may leave
    data,       \* the record a file holds in memory, 0 when it was truncated
    flushed,    \* the files whose bytes are on the disk
    step, file, \* where the writer is, and the staging file it holds open
    writing,    \* the number of the record being written: 1, 2, ...
    acked       \* the last record reported as published (in this directory)

disk == <<receipts, entries, images, data, flushed>>
writer == <<step, file, writing, acked>>
journalVars == <<disk, writer>>

Entries == {"tmp", "json"}
Empty == [n \in Entries |-> NoInode]
Torn == -1

JournalInit ==
    /\ receipts = "absent"
    /\ entries = Empty /\ images = {Empty}
    /\ data = [i \in Inode |-> 0]
    /\ flushed = {}
    /\ step = "rest" /\ file = NoInode /\ writing = 0 /\ acked = 0

Proceed(label) == step' = label /\ UNCHANGED <<writing, acked>>

(* The entries changed in memory: a power loss may leave them so or not. *)
Modify(new) == entries' = new /\ images' = images \union {new}

(* persist_journal_with: the next record, a new state of the Receipt. *)
Persist ==
    /\ step = "rest" /\ writing < MaxWrites
    /\ writing' = writing + 1
    /\ step' = "mkdir" /\ file' = NoInode /\ UNCHANGED <<acked, disk>>

(* create_dir_all: the entry of a new directory is flushed, an existing one *)
(* is taken as it is.                                                       *)
Mkdir ==
    /\ step = "mkdir"
    /\ IF receipts = "absent"
       THEN receipts' = "visible" /\ Proceed("syncRoot")
       ELSE UNCHANGED receipts /\ Proceed("open")
    /\ UNCHANGED <<entries, images, data, flushed, file>>

SyncRoot ==
    /\ step = "syncRoot" /\ Proceed("open")
    /\ receipts' = "flushed"
    /\ UNCHANGED <<entries, images, data, flushed, file>>

Fresh == Inode \ UNION {{e[n] : n \in Entries} : e \in images}

(* The handle is the journal itself: what a direct write would open. *)
OpenInPlace ==
    /\ step = "open" /\ Proceed("write")
    /\ IF entries["json"] = NoInode
       THEN \E i \in Fresh :
              file' = i /\ Modify([entries EXCEPT !["json"] = i])
       ELSE file' = entries["json"] /\ UNCHANGED <<entries, images>>
    /\ data' = [data EXCEPT ![file'] = 0]
    /\ flushed' = flushed \ {file'}
    /\ UNCHANGED receipts

(* create + truncate: an abandoned staging file is used again. *)
OpenStaging ==
    /\ step = "open" /\ Proceed("write")
    /\ IF entries["tmp"] = NoInode
       THEN \E i \in Fresh :
              file' = i /\ Modify([entries EXCEPT !["tmp"] = i])
       ELSE file' = entries["tmp"] /\ UNCHANGED <<entries, images>>
    /\ data' = [data EXCEPT ![file'] = 0]
    /\ flushed' = flushed \ {file'}
    /\ UNCHANGED receipts

WriteBytes ==
    /\ step = "write" /\ Proceed("flush")
    /\ data' = [data EXCEPT ![file] = writing]
    /\ UNCHANGED <<receipts, entries, images, flushed, file>>

FlushFile ==
    /\ step = "flush" /\ Proceed("rename")
    /\ flushed' = flushed \union {file}
    /\ UNCHANGED <<receipts, entries, images, data, file>>

(* The rename, between two checks that the entry is the file held open. *)
Rename ==
    /\ step = "rename" /\ entries["tmp"] = file /\ Proceed("sync")
    /\ Modify([n \in Entries |-> IF n = "tmp" THEN NoInode ELSE file])
    /\ UNCHANGED <<receipts, data, flushed, file>>

(* sync_parent_preserving_identity; then the call returns. *)
AckUnsynced ==
    /\ step = "sync" /\ entries["json"] = file
    /\ step' = "rest" /\ acked' = writing
    /\ UNCHANGED <<disk, file, writing>>
SyncParent ==
    /\ step = "sync" /\ entries["json"] = file
    /\ images' = {entries}
    /\ step' = "rest" /\ acked' = writing
    /\ UNCHANGED <<receipts, entries, data, flushed, file, writing>>

(* A system call fails, or the process dies: the record is not acknowledged. *)
(* A flush of the directory that fails may have worked.                      *)
Stop ==
    /\ step # "rest"
    /\ step' = "rest"
    /\ images' \in {images} \union (IF step = "sync" THEN {{entries}} ELSE {})
    /\ UNCHANGED <<receipts, entries, data, flushed, file, writing, acked>>

(* What a reader, and what a reader after a power loss, finds. *)
Held(bytes, e) == IF e["json"] = NoInode THEN 0 ELSE bytes[e["json"]]
OnDisk == [i \in Inode |-> IF i \in flushed THEN data[i] ELSE Torn]

Visible == Held(data, entries)
Survivors == {Held(OnDisk, e) : e \in images}
               \union (IF receipts = "flushed" THEN {} ELSE {0})

(* Power loss: the machine comes back with one image, and without the whole *)
(* directory, acknowledged records included, if its own entry had not been  *)
(* flushed: create_dir_all flushes the entry it makes, never one it finds.  *)
LosePower ==
    \E lost \in BOOLEAN, e \in images :
        /\ lost => receipts # "flushed"
        /\ entries' = IF lost THEN Empty ELSE e
        /\ images' = {entries'}
        /\ receipts' = IF lost \/ receipts = "absent" THEN "absent" ELSE "flushed"
        /\ data' = OnDisk /\ flushed' = Inode
        /\ acked' = IF lost THEN 0 ELSE acked
        /\ step' = "rest" /\ UNCHANGED <<file, writing>>

Works ==
    \/ Persist \/ Mkdir \/ SyncRoot \/ OpenStaging
    \/ WriteBytes \/ FlushFile \/ Rename \/ SyncParent
JournalNext == Works \/ Stop \/ LosePower
JournalSpec == JournalInit /\ [][JournalNext]_journalVars

(* A record that was acknowledged, which is what lets the engine touch the  *)
(* files it announces, is there after a power loss, or a later one is: once *)
(* the receipts directory itself has been flushed.                          *)
AckedSurvives == receipts = "flushed" => \A v \in Survivors : v >= acked

(* The protocol implements a register with a write-back cache.              *)
Register == INSTANCE WriteBackRegister
              WITH Value <- 1 .. MaxWrites, value <- Visible, survivors <- Survivors
ImplementsRegister == Register!Spec
=============================================================================
