------------------------- MODULE StateAndSetupProofs -------------------------
(***************************************************************************)
(* Proofs about what SkillRoster keeps for itself: who works in its state  *)
(* directory, in Sessions, what a power loss leaves of a journal, in       *)
(* DurableJournal, and its own Skill in the Agents' roots, in Setup.       *)
(***************************************************************************)
EXTENDS Sessions, DurableJournal, Setup, TLAPS

-----------------------------------------------------------------------------
(***************************************************************************)
(* Proofs about Sessions, for any number of processes of any releases.     *)
(* What a command may rely on follows from how it holds the state lock:    *)
(* whoever holds it alone finds the database as it left it, and whoever    *)
(* shares it finds a schema nobody may migrate.                            *)
(***************************************************************************)
Labels == {"idle", "first", "second", "lock", "inspect", "upgrade", "open", "migrate",
           "running", "deleteDb", "deleteFiles"}

(* Every variable keeps its type. *)
SessionsTypeOK ==
    /\ lock \in [Process -> {"none", "shared", "exclusive"}]
    /\ schema \in Int
    /\ names \in [Name -> Identity \union {NoFile}]
    /\ pc \in [Process -> Labels]
    /\ cmd \in [Process -> {"read", "write", "delete"}]
    /\ version \in [Process -> Int]

(* The state lock (StateLock::acquire): one writer, or readers.            *)
OneWriter ==
    \A p, q \in Process : p # q /\ lock[p] = "exclusive" => lock[q] = "none"

(* How a command holds the lock at each label.                             *)
Outside == {"idle", "first", "second", "lock", "upgrade"}
HeldAsNeeded ==
    \A p \in Process :
        /\ pc[p] \in Outside => lock[p] = "none"
        /\ pc[p] = "inspect" => lock[p] = "shared" /\ cmd[p] = "read"
        /\ pc[p] \in {"open", "migrate", "running"} =>
              lock[p] = "exclusive" \/ (lock[p] = "shared" /\ cmd[p] = "read")
        /\ pc[p] \in {"deleteDb", "deleteFiles"} => lock[p] = "exclusive"

(* What a command knows of the schema under its lock.                      *)
SchemaKnown ==
    \A p \in Process :
        /\ pc[p] \in {"open", "migrate", "running"} /\ lock[p] = "shared" => schema = Binary[p]
        /\ pc[p] = "migrate" => version[p] = schema
        /\ pc[p] \in {"running", "deleteDb"} => schema = Binary[p]

SInv == SessionsTypeOK /\ OneWriter /\ HeldAsNeeded /\ SchemaKnown

LEMMA InitSInv == Init => SInv
  BY SessionsAssumption DEF Init, SInv, SessionsTypeOK, OneWriter, HeldAsNeeded, SchemaKnown, Labels, Name, Absent,
     Outside

(* A command that leaves gives its lock back and touches nothing shared.   *)
LEMMA LeaveKeeps ==
  ASSUME SInv, NEW p \in Process, NEW how, Leave(p, how), UNCHANGED <<schema, names>>
  PROVE  SInv'
  <1> USE SessionsAssumption DEF SInv
  <1>1. SessionsTypeOK'
    BY DEF SessionsTypeOK, Leave, Goto, Labels
  <1>2. OneWriter'
    BY DEF OneWriter, SessionsTypeOK, Leave
  <1>3. HeldAsNeeded'
    BY DEF HeldAsNeeded, SessionsTypeOK, Leave, Goto, Outside
  <1>4. SchemaKnown'
    BY DEF SchemaKnown, SessionsTypeOK, Leave, Goto
  <1> QED BY <1>1, <1>2, <1>3, <1>4

(* Every step preserves the invariant.                                       *)
LEMMA NextSInv == SInv /\ [Next]_vars => SInv'
  <1> SUFFICES ASSUME SInv, [Next]_vars PROVE SInv'
    OBVIOUS
  <1> USE SessionsAssumption DEF SInv, local
  <1>1. ASSUME NEW p \in Process, NEW c \in Commands[p], Begin(p, c) PROVE SInv'
    <2>1. c \in {"read", "write", "delete"}
      BY Zenon
    <2>2. SessionsTypeOK'
      BY <1>1, <2>1 DEF SessionsTypeOK, Begin, Goto, Labels
    <2>3. OneWriter' /\ HeldAsNeeded' /\ SchemaKnown'
      BY <1>1 DEF SessionsTypeOK, OneWriter, HeldAsNeeded, SchemaKnown, Begin, Goto, Outside
    <2> QED BY <2>2, <2>3
  <1>2. ASSUME NEW p \in Process, OpenFirst(p) \/ FirstDone(p) \/ OpenSecond(p) \/ SecondDone(p)
        PROVE  SInv'
    <2>1. UNCHANGED <<lock, schema, names, cmd, version>>
      BY <1>2 DEF OpenFirst, FirstDone, OpenSecond, SecondDone, Opens
    <2>2. pc' = pc \/ (pc[p] \in Outside /\ \E l \in {"second", "lock"} : pc' = [pc EXCEPT ![p] = l])
      BY <1>2 DEF OpenFirst, FirstDone, OpenSecond, SecondDone, Opens, Goto, Outside
    <2>3. SessionsTypeOK'
      BY <2>1, <2>2 DEF SessionsTypeOK, Labels
    <2>4. OneWriter' /\ HeldAsNeeded' /\ SchemaKnown'
      BY <2>1, <2>2 DEF SessionsTypeOK, OneWriter, HeldAsNeeded, SchemaKnown, Outside
    <2> QED BY <2>3, <2>4
  <1>3. ASSUME NEW p \in Process,
               PassFails(p) \/ AcquireFails(p) \/ OpenNewer(p) \/ Finish(p) \/ Die(p)
        PROVE  SInv'
    BY <1>3, LeaveKeeps DEF PassFails, AcquireFails, OpenNewer, Finish, Die
  <1>4. ASSUME NEW p \in Process, Acquire(p) PROVE SInv'
    <2>1. SessionsTypeOK'
      BY <1>4 DEF SessionsTypeOK, Acquire, Mode, Goto, Labels
    <2>2. OneWriter'
      BY <1>4 DEF OneWriter, SessionsTypeOK, Acquire, Mode, Compatible
    <2>3. HeldAsNeeded'
      BY <1>4 DEF HeldAsNeeded, SessionsTypeOK, Acquire, Mode, Goto, Outside
    <2>4. SchemaKnown'
      BY <1>4 DEF SchemaKnown, SessionsTypeOK, Acquire, Mode, Goto
    <2> QED BY <2>1, <2>2, <2>3, <2>4
  <1>5. ASSUME NEW p \in Process, Inspect(p) PROVE SInv'
    <2>1. SessionsTypeOK'
      BY <1>5 DEF SessionsTypeOK, Inspect, Goto, Labels
    <2>2. OneWriter'
      BY <1>5 DEF OneWriter, SessionsTypeOK, Inspect
    <2>3. HeldAsNeeded'
      BY <1>5 DEF HeldAsNeeded, SessionsTypeOK, Inspect, Goto, Outside
    <2>4. SchemaKnown'
      BY <1>5 DEF SchemaKnown, SessionsTypeOK, Inspect, Goto
    <2> QED BY <2>1, <2>2, <2>3, <2>4
  <1>6. ASSUME NEW p \in Process, Upgrade(p) PROVE SInv'
    <2>1. SessionsTypeOK'
      BY <1>6 DEF SessionsTypeOK, Upgrade, Goto, Labels
    <2>2. OneWriter'
      BY <1>6 DEF OneWriter, SessionsTypeOK, Upgrade, Compatible
    <2>3. HeldAsNeeded'
      BY <1>6 DEF HeldAsNeeded, SessionsTypeOK, Upgrade, Goto, Outside
    <2>4. SchemaKnown'
      BY <1>6 DEF SchemaKnown, SessionsTypeOK, Upgrade, Goto
    <2> QED BY <2>1, <2>2, <2>3, <2>4
  <1>7. ASSUME NEW p \in Process, Open(p) PROVE SInv'
    <2>1. lock[p] = "exclusive" \/ schema' = schema
      BY <1>7 DEF Open, HeldAsNeeded, SchemaKnown, SessionsTypeOK, Absent
    <2>2. SessionsTypeOK'
      BY <1>7 DEF SessionsTypeOK, Open, Goto, Labels
    <2>3. OneWriter' /\ HeldAsNeeded'
      BY <1>7 DEF OneWriter, HeldAsNeeded, SessionsTypeOK, Open, Goto, Outside
    <2>4. SchemaKnown'
      BY <1>7, <2>1 DEF SchemaKnown, OneWriter, HeldAsNeeded, SessionsTypeOK, Open, Goto, Outside, Labels
    <2> QED BY <2>2, <2>3, <2>4
  <1>8. ASSUME NEW p \in Process, Migrate(p) PROVE SInv'
    <2>1. lock[p] = "exclusive"
      BY <1>8 DEF Migrate, HeldAsNeeded, SchemaKnown, SessionsTypeOK
    <2>2. SessionsTypeOK'
      BY <1>8 DEF SessionsTypeOK, Migrate
    <2>3. OneWriter' /\ HeldAsNeeded'
      BY <1>8 DEF OneWriter, HeldAsNeeded, Migrate
    <2>4. SchemaKnown'
      BY <1>8, <2>1 DEF SchemaKnown, OneWriter, HeldAsNeeded, SessionsTypeOK, Migrate, Outside, Labels
    <2> QED BY <2>2, <2>3, <2>4
  <1>9. ASSUME NEW p \in Process, Opened(p) PROVE SInv'
    <2>1. SessionsTypeOK'
      BY <1>9 DEF SessionsTypeOK, Opened, Goto, Labels
    <2>2. OneWriter' /\ HeldAsNeeded'
      BY <1>9 DEF OneWriter, HeldAsNeeded, SessionsTypeOK, Opened, Goto, Outside
    <2>3. SchemaKnown'
      BY <1>9 DEF SchemaKnown, SessionsTypeOK, Opened, Goto
    <2> QED BY <2>1, <2>2, <2>3
  <1>10. ASSUME NEW p \in Process, DeleteDb(p) PROVE SInv'
    <2>1. SessionsTypeOK'
      BY <1>10 DEF SessionsTypeOK, DeleteDb, Goto, Labels, Absent
    <2>2. OneWriter' /\ HeldAsNeeded'
      BY <1>10 DEF OneWriter, HeldAsNeeded, SessionsTypeOK, DeleteDb, Goto, Outside
    <2>3. SchemaKnown'
      BY <1>10 DEF SchemaKnown, OneWriter, HeldAsNeeded, SessionsTypeOK, DeleteDb, Goto, Outside, Labels
    <2> QED BY <2>1, <2>2, <2>3
  <1>11. ASSUME NEW p \in Process, Stage(p) \/ Publish(p) \/ RemoveJournal(p) PROVE SInv'
    <2>1. UNCHANGED <<lock, schema, pc, cmd, version>>
      BY <1>11 DEF Stage, Publish, RemoveJournal
    <2>2. names' \in [Name -> Identity \union {NoFile}]
      BY <1>11 DEF Stage, Publish, RemoveJournal, SessionsTypeOK, Name
    <2> QED
      BY <2>1, <2>2 DEF SessionsTypeOK, OneWriter, HeldAsNeeded, SchemaKnown
  <1>12. CASE UNCHANGED vars
    BY <1>12 DEF vars, SessionsTypeOK, OneWriter, HeldAsNeeded, SchemaKnown
  <1> QED
    BY <1>1, <1>2, <1>3, <1>4, <1>5, <1>6, <1>7, <1>8, <1>9, <1>10, <1>11, <1>12 DEF Next, Step

THEOREM SessionsInvariant == Spec => []SInv
  BY InitSInv, NextSInv, PTL DEF Spec

(* StateLock::acquire keeps a writer alone, through the upgrade of a       *)
(* reader and whoever dies.                                                *)
THEOREM WriterIsAlone == Spec => []OneWriter
  <1>1. SInv => OneWriter
    BY DEF SInv
  <1> QED BY SessionsInvariant, <1>1, PTL

(* run_with_context and open: no command works on a database of another    *)
(* release's schema.                                                       *)
THEOREM WorksOnOwnSchema == Spec => []RunsOnOwnSchema
  <1>1. SInv => RunsOnOwnSchema
    BY DEF SInv, SchemaKnown, RunsOnOwnSchema
  <1> QED BY SessionsInvariant, <1>1, PTL

-----------------------------------------------------------------------------
(***************************************************************************)
(* Proofs about DurableJournal, for any number of files and of records: an *)
(* acknowledged record outlives a power loss, and the staging file, the    *)
(* rename and the two flushes together behave as the register of           *)
(* WriteBackRegister.                                                      *)
(*                                                                         *)
(* The argument: the file under the journal's name was complete and        *)
(* flushed before it got that name, in every image a power loss may leave; *)
(* and the file that is truncated and written next has that name in none.  *)
(***************************************************************************)
Steps == {"rest", "mkdir", "syncRoot", "open", "write", "flush", "rename", "sync"}

(* Every variable keeps its type. *)
JournalTypeOK ==
    /\ receipts \in {"absent", "visible", "flushed"}
    /\ entries \in [Entries -> Inode \union {NoInode}]
    /\ images \subseteq [Entries -> Inode \union {NoInode}]
    /\ data \in [Inode -> Int]
    /\ flushed \subseteq Inode
    /\ step \in Steps
    /\ file \in Inode \union {NoInode}
    /\ writing \in 0 .. MaxWrites
    /\ acked \in 0 .. MaxWrites

(* The directory in memory is one that a power loss may leave. *)
PresentIsImage == entries \in images

(* What bears the journal's name is on the disk, in every image. *)
PublishedIsFlushed ==
    \A e \in images : e["json"] # NoInode => e["json"] \in flushed

(* The staging file bears that name in none, nor within one image. *)
StagingApart ==
    /\ \A e \in images : e["json"] = entries["tmp"] => e["json"] = NoInode
    /\ \A e \in images : e["json"] = e["tmp"] => e["json"] = NoInode

(* What the writer has done to its file at each step. *)
WriterKnows ==
    /\ step # "rest" => writing > 0
    /\ step \in {"write", "flush", "rename"} => file \in Inode /\ entries["tmp"] = file
    /\ step = "sync" => file \in Inode /\ entries["json"] = file
    /\ step \in {"flush", "rename", "sync"} => data[file] = writing
    /\ step = "rename" => file \in flushed

(* Every image holds the acknowledged record, or a later one. *)
NoneOlder == acked <= writing /\ \A e \in images : Held(data, e) >= acked

(* A directory that does not stand yet, or has just been made, is empty. *)
NewIsEmpty ==
    /\ receipts = "absent" => images = {Empty} /\ step \in {"rest", "mkdir"}
    /\ step = "syncRoot" => images = {Empty}

JInv ==
    /\ JournalTypeOK /\ PresentIsImage /\ PublishedIsFlushed /\ StagingApart
    /\ WriterKnows /\ NoneOlder /\ NewIsEmpty

LEMMA InitJInv == JournalInit => JInv
  BY DurableAssumption
  DEF JournalInit, JInv, JournalTypeOK, PresentIsImage, PublishedIsFlushed, StagingApart, WriterKnows,
      NoneOlder, NewIsEmpty, Steps, Entries, Empty, Held

(* What a power loss leaves under the journal's name is what it held.      *)
LEMMA PublishedSurvives ==
  ASSUME JInv, NEW e \in images
  PROVE  Held(OnDisk, e) = Held(data, e)
  BY DEF JInv, JournalTypeOK, PublishedIsFlushed, Held, OnDisk, Entries

(* Opening the staging file: a new one, or the one an earlier writer left. *)
LEMMA OpenStagingJInv ==
  ASSUME JInv, OpenStaging
  PROVE  JInv'
  <1> USE DurableAssumption DEF JInv, JournalTypeOK
  <1>1. /\ file' \in Inode /\ file' \in Fresh \union {entries["tmp"]}
        /\ entries' = [entries EXCEPT !["tmp"] = file']
        /\ images' = images \union {entries'}
    BY DEF OpenStaging, Modify, Fresh, Entries, PresentIsImage
  <1>2. \A e \in images : e["json"] # file'
    BY <1>1 DEF Fresh, Entries, StagingApart, PresentIsImage
  <1>3. \A e \in images : Held(data', e) = Held(data, e)
    BY <1>2 DEF OpenStaging, Held, Entries
  <1>4. \A e \in images' : \E f \in images : e["json"] = f["json"]
    BY <1>1 DEF PresentIsImage, Entries
  <1>5. JournalTypeOK'
    <2>1. entries' \in [Entries -> Inode \union {NoInode}]
      BY <1>1 DEF Entries
    <2>2. images' \subseteq [Entries -> Inode \union {NoInode}]
      BY <1>1, <2>1
    <2> QED  BY <1>1, <2>1, <2>2 DEF OpenStaging, Proceed, Steps
  <1>6. PresentIsImage' /\ PublishedIsFlushed'
    BY <1>1, <1>2, <1>4 DEF OpenStaging, PresentIsImage, PublishedIsFlushed
  <1>7. StagingApart'
    BY <1>1, <1>2, <1>4 DEF StagingApart, Entries, PresentIsImage
  <1>8. WriterKnows'
    BY <1>1 DEF OpenStaging, Proceed, WriterKnows, Entries
  <1>9. NoneOlder'
    <2>1. \A e \in images' : Held(data', e) >= acked
      BY <1>3, <1>4 DEF NoneOlder, Held
    <2> QED  BY <2>1 DEF NoneOlder, OpenStaging, Proceed
  <1>10. NewIsEmpty'
    BY DEF NewIsEmpty, OpenStaging, Proceed
  <1> QED  BY <1>5, <1>6, <1>7, <1>8, <1>9, <1>10

(* Writing the record into it.                                             *)
LEMMA WriteBytesJInv ==
  ASSUME JInv, WriteBytes
  PROVE  JInv'
  <1> USE DurableAssumption DEF JInv, JournalTypeOK
  <1>1. file \in Inode /\ \A e \in images : e["json"] # file
    BY DEF WriteBytes, WriterKnows, StagingApart
  <1>2. \A e \in images : Held(data', e) = Held(data, e)
    BY <1>1 DEF WriteBytes, Held, Entries
  <1>3. JournalTypeOK'
    BY <1>1 DEF WriteBytes, Proceed, Steps
  <1>4. WriterKnows'
    BY <1>1 DEF WriteBytes, Proceed, WriterKnows
  <1>5. NoneOlder'
    BY <1>2 DEF WriteBytes, Proceed, NoneOlder
  <1> QED
    BY <1>3, <1>4, <1>5
    DEF WriteBytes, Proceed, PresentIsImage, PublishedIsFlushed, StagingApart, NewIsEmpty

(* Publishing it under the journal's name.                                 *)
LEMMA RenameJInv ==
  ASSUME JInv, Rename
  PROVE  JInv'
  <1> USE DurableAssumption DEF JInv, JournalTypeOK
  <1>1. /\ file \in Inode /\ file \in flushed /\ data[file] = writing /\ file # NoInode
        /\ entries'["json"] = file /\ entries'["tmp"] = NoInode
        /\ images' = images \union {entries'}
    BY DEF Rename, Modify, WriterKnows, Entries
  <1>2. JournalTypeOK'
    BY <1>1 DEF Rename, Modify, Proceed, Steps
  <1>3. PresentIsImage' /\ PublishedIsFlushed' /\ StagingApart'
    BY <1>1 DEF Rename, PresentIsImage, PublishedIsFlushed, StagingApart
  <1>4. WriterKnows'
    BY <1>1 DEF Rename, Proceed, WriterKnows
  <1>5. NoneOlder'
    BY <1>1 DEF Rename, Proceed, NoneOlder, Held
  <1>6. NewIsEmpty'
    BY DEF Rename, Proceed, NewIsEmpty
  <1> QED  BY <1>2, <1>3, <1>4, <1>5, <1>6

(* A power loss, at any moment.                                            *)
LEMMA LosePowerJInv ==
  ASSUME JInv, LosePower
  PROVE  JInv'
  <1> USE DurableAssumption DEF JInv, JournalTypeOK
  <1>1. PICK lost \in BOOLEAN, e \in images :
           /\ lost => receipts # "flushed"
           /\ entries' = IF lost THEN Empty ELSE e
           /\ images' = {entries'}
           /\ receipts' = IF lost \/ receipts = "absent" THEN "absent" ELSE "flushed"
           /\ data' = OnDisk /\ flushed' = Inode
           /\ acked' = IF lost THEN 0 ELSE acked
           /\ step' = "rest" /\ UNCHANGED <<file, writing>>
    BY DEF LosePower
  <1>2. Empty \in [Entries -> Inode \union {NoInode}]
    BY DEF Empty
  <1>3. JournalTypeOK'
    BY <1>1, <1>2 DEF OnDisk, Torn, Steps
  <1>4. PresentIsImage' /\ PublishedIsFlushed' /\ StagingApart'
    BY <1>1, <1>2 DEF PresentIsImage, PublishedIsFlushed, StagingApart, Empty, Entries
  <1>5. WriterKnows'
    BY <1>1 DEF WriterKnows
  <1>6. NoneOlder'
    <2>1. CASE lost
      BY <1>1, <2>1 DEF NoneOlder, Held, Empty, Entries
    <2>2. CASE ~lost
      <3>1. Held(data', entries') = Held(data, e)
        BY <1>1, <2>2, PublishedSurvives
      <3> QED  BY <1>1, <2>2, <3>1 DEF NoneOlder
    <2> QED  BY <2>1, <2>2
  <1>7. NewIsEmpty'
    BY <1>1 DEF NewIsEmpty
  <1> QED  BY <1>3, <1>4, <1>5, <1>6, <1>7

(* Every step preserves the invariant.                                     *)
LEMMA NextJInv == JInv /\ [JournalNext]_journalVars => JInv'
  <1> SUFFICES ASSUME JInv, [JournalNext]_journalVars PROVE JInv'
    OBVIOUS
  <1> USE DurableAssumption
  <1>1. CASE UNCHANGED journalVars
    BY <1>1 DEF journalVars, disk, writer, JInv, JournalTypeOK, PresentIsImage, PublishedIsFlushed,
                StagingApart, WriterKnows, NoneOlder, NewIsEmpty, Held
  <1>2. CASE Persist \/ Mkdir \/ SyncRoot
    BY <1>2 DEF Persist, Mkdir, SyncRoot, Proceed, disk, JInv, JournalTypeOK, PresentIsImage,
                PublishedIsFlushed, StagingApart, WriterKnows, NoneOlder, NewIsEmpty, Held, Steps
  <1>3. CASE OpenStaging
    BY <1>3, OpenStagingJInv
  <1>4. CASE WriteBytes
    BY <1>4, WriteBytesJInv
  <1>5. CASE FlushFile
    BY <1>5 DEF FlushFile, Proceed, JInv, JournalTypeOK, PresentIsImage, PublishedIsFlushed, StagingApart,
                WriterKnows, NoneOlder, NewIsEmpty, Held, Steps
  <1>6. CASE Rename
    BY <1>6, RenameJInv
  <1>7. CASE SyncParent
    BY <1>7 DEF SyncParent, JInv, JournalTypeOK, PresentIsImage, PublishedIsFlushed, StagingApart,
                WriterKnows, NoneOlder, NewIsEmpty, Held, Steps
  <1>8. CASE Stop
    BY <1>8 DEF Stop, JInv, JournalTypeOK, PresentIsImage, PublishedIsFlushed, StagingApart,
                WriterKnows, NoneOlder, NewIsEmpty, Held, Steps
  <1>9. CASE LosePower
    BY <1>9, LosePowerJInv
  <1> QED
    BY <1>1, <1>2, <1>3, <1>4, <1>5, <1>6, <1>7, <1>8, <1>9 DEF JournalNext, Works

THEOREM JournalInvariant == JournalSpec => []JInv
  BY InitJInv, NextJInv, PTL DEF JournalSpec

(* A record reported as published is there after a power loss, or a later  *)
(* one is (persist_journal_with, write_private_file_atomic).               *)
THEOREM AcknowledgedRecordsSurvive == JournalSpec => []AckedSurvives
  <1>1. JInv => AckedSurvives
    BY PublishedSurvives DEF JInv, NoneOlder, AckedSurvives, Survivors
  <1> QED  BY <1>1, JournalInvariant, PTL

-----------------------------------------------------------------------------
(* The refinement: renaming the staging file puts the record, flushing the *)
(* directory flushes the register, and all else is unseen.                 *)

(* What a power loss may leave, read from memory.                          *)
Whole == {Held(data, e) : e \in images} \union (IF receipts = "flushed" THEN {} ELSE {0})

LEMMA SurvivorsAreWhole == JInv => Survivors = Whole
  BY PublishedSurvives DEF Survivors, Whole

LEMMA SurvivorsAreWholeNext == JInv' => Survivors' = Whole'
  <1>1. ASSUME JInv', NEW e \in images'
        PROVE  Held(OnDisk', e) = Held(data', e)
    BY <1>1 DEF JInv, JournalTypeOK, PublishedIsFlushed, Held, OnDisk, Entries
  <1> QED  BY <1>1 DEF Survivors, Whole

(* A step after which every image holds what an image held, and the other  *)
(* way round, is a stutter of the register.                                *)
LEMMA UnseenStep ==
  ASSUME JInv, JInv', receipts' = receipts, entries'["json"] = entries["json"],
         \A e \in images : Held(data', e) = Held(data, e),
         images \subseteq images',
         \A e \in images' : \E f \in images : e["json"] = f["json"]
  PROVE  Visible' = Visible /\ Survivors' = Survivors
  <1>1. Visible' = Visible
    BY DEF Visible, Held, JInv, PresentIsImage
  <1>2. \A e \in images' : \E f \in images : Held(data', e) = Held(data, f)
    BY DEF Held
  <1>3. Whole' = Whole
    BY <1>2 DEF Whole
  <1> QED  BY <1>1, <1>3, SurvivorsAreWhole, SurvivorsAreWholeNext

(* A flushed directory leaves a power loss no choice but the present.      *)
LEMMA FlushedStep ==
  ASSUME JInv, JInv', receipts' = receipts, entries' = entries, data' = data,
         images' = {entries}
  PROVE  Register!Flush
  <1>1. Visible' = Visible
    BY DEF Visible, Held
  <1>2. Whole' = {Visible} \union (IF receipts = "flushed" THEN {} ELSE {0})
    BY DEF Whole, Visible, Held
  <1>3. receipts # "flushed" => Whole' = {Visible} \union (Whole \intersect {0})
    BY <1>2 DEF Whole
  <1>4. Whole' \in {{Visible}, {Visible} \union (Whole \intersect {0})}
    BY <1>2, <1>3
  <1> QED  BY <1>1, <1>4, SurvivorsAreWhole, SurvivorsAreWholeNext DEF Register!Flush

LEMMA RefinementStep ==
  ASSUME JInv, JInv', [JournalNext]_journalVars
  PROVE  [Register!Next]_(Register!register)
  <1> USE DurableAssumption
  <1> DEFINE Stutter == Visible' = Visible /\ Survivors' = Survivors
  <1>0. Stutter => [Register!Next]_(Register!register)
    BY DEF Register!register
  <1>1. CASE UNCHANGED journalVars
    <2>1. Stutter
      BY <1>1 DEF journalVars, disk, Visible, Survivors, Held, OnDisk
    <2> QED  BY <2>1, <1>0
  <1>2. CASE Persist
    <2>1. Stutter
      BY <1>2 DEF Persist, disk, Visible, Survivors, Held, OnDisk
    <2> QED  BY <2>1, <1>0
  <1>3. CASE Mkdir
    <2>1. Stutter
      BY <1>3 DEF Mkdir, Visible, Survivors, Held, OnDisk
    <2> QED  BY <2>1, <1>0
  <1>4. CASE SyncRoot
    <2>1. images = {Empty} /\ entries = Empty
      BY <1>4 DEF SyncRoot, JInv, NewIsEmpty, PresentIsImage
    <2>2. Held(data, Empty) = 0
      BY DEF Held, Empty, Entries
    <2>3. Whole = {0}
      BY <2>1, <2>2 DEF Whole
    <2>4. Whole' = {0}
      BY <1>4, <2>1, <2>2 DEF SyncRoot, Whole, Held
    <2>5. Visible' = Visible
      BY <1>4 DEF SyncRoot, Visible, Held
    <2>6. Stutter
      BY <2>3, <2>4, <2>5, SurvivorsAreWhole, SurvivorsAreWholeNext
    <2> QED  BY <2>6, <1>0
  <1>5. CASE OpenStaging
    <2>1. /\ file' \in Inode /\ file' \in Fresh \union {entries["tmp"]}
          /\ entries' = [entries EXCEPT !["tmp"] = file']
          /\ images' = images \union {entries'}
      BY <1>5 DEF JInv, JournalTypeOK, OpenStaging, Modify, Fresh, Entries, PresentIsImage
    <2>2. \A e \in images : e["json"] # file'
      BY <2>1 DEF Fresh, Entries, JInv, StagingApart, PresentIsImage
    <2>3. \A e \in images : Held(data', e) = Held(data, e)
      BY <1>5, <2>2 DEF JInv, JournalTypeOK, OpenStaging, Held, Entries
    <2>4. entries'["json"] = entries["json"]
      BY <2>1 DEF JInv, JournalTypeOK, Entries
    <2>5. Stutter
      BY <1>5, <2>1, <2>3, <2>4, UnseenStep DEF OpenStaging, JInv, PresentIsImage
    <2> QED  BY <2>5, <1>0
  <1>6. CASE WriteBytes
    <2>1. file \in Inode /\ \A e \in images : e["json"] # file
      BY <1>6 DEF WriteBytes, JInv, WriterKnows, StagingApart
    <2>2. \A e \in images : Held(data', e) = Held(data, e)
      BY <1>6, <2>1 DEF WriteBytes, Held, Entries, JInv, JournalTypeOK
    <2>3. Stutter
      BY <1>6, <2>2, UnseenStep DEF WriteBytes
    <2> QED  BY <2>3, <1>0
  <1>7. CASE FlushFile
    <2>1. Stutter
      BY <1>7, UnseenStep DEF FlushFile
    <2> QED  BY <2>1, <1>0
  <1>8. CASE Rename
    <2>1. /\ file \in Inode /\ data[file] = writing /\ file # NoInode /\ writing \in 1 .. MaxWrites
          /\ entries'["json"] = file /\ images' = images \union {entries'}
          /\ data' = data /\ receipts' = receipts
      BY <1>8 DEF Rename, Modify, JInv, JournalTypeOK, WriterKnows, Entries
    <2>2. Held(data, entries') = writing
      BY <2>1 DEF Held
    <2>3. Visible' = writing
      BY <2>1, <2>2 DEF Visible, Held
    <2>4. Whole' = Whole \union {writing}
      BY <2>1, <2>2 DEF Whole, Held
    <2>5. Register!Put(writing)
      BY <2>3, <2>4, SurvivorsAreWhole, SurvivorsAreWholeNext DEF Register!Put
    <2> QED  BY <2>1, <2>5 DEF Register!Next
  <1>9. CASE SyncParent
    <2>1. Register!Flush
      BY <1>9, FlushedStep DEF SyncParent
    <2> QED  BY <2>1 DEF Register!Next
  <1>10. CASE Stop
    <2>1. CASE images' = images
      <3>1. Stutter
        BY <1>10, <2>1, UnseenStep DEF Stop
      <3> QED  BY <3>1, <1>0
    <2>2. CASE images' = {entries}
      <3>1. Register!Flush
        BY <1>10, <2>2, FlushedStep DEF Stop
      <3> QED  BY <3>1 DEF Register!Next
    <2> QED  BY <1>10, <2>1, <2>2 DEF Stop
  <1>11. CASE LosePower
    <2>1. PICK lost \in BOOLEAN, e \in images :
             /\ lost => receipts # "flushed"
             /\ entries' = IF lost THEN Empty ELSE e
             /\ images' = {entries'}
             /\ receipts' = IF lost \/ receipts = "absent" THEN "absent" ELSE "flushed"
             /\ data' = OnDisk
      BY <1>11 DEF LosePower
    <2> DEFINE v == IF lost THEN 0 ELSE Held(data, e)
    <2>2. Held(data', entries') = v
      <3>1. CASE lost
        BY <2>1, <3>1 DEF Held, Empty, Entries
      <3>2. CASE ~lost
        BY <2>1, <3>2, PublishedSurvives
      <3> QED  BY <3>1, <3>2
    <2>3. receipts' # "flushed" => v = 0
      BY <2>1 DEF JInv, NewIsEmpty, Held, Empty, Entries
    <2>4. v \in Whole
      BY <2>1 DEF Whole
    <2>5. Visible' = v
      BY <2>2 DEF Visible, Held
    <2>6. Whole' = {v}
      BY <2>1, <2>2, <2>3 DEF Whole, Held
    <2>7. Register!Lose(v) /\ v \in Survivors
      BY <2>4, <2>5, <2>6, SurvivorsAreWhole, SurvivorsAreWholeNext DEF Register!Lose
    <2> QED  BY <2>7 DEF Register!Next
  <1> QED
    BY <1>1, <1>2, <1>3, <1>4, <1>5, <1>6, <1>7, <1>8, <1>9, <1>10, <1>11 DEF JournalNext, Works

(* The protocol implements the register with a write-back cache: readers,  *)
(* and a power loss, see whole records, put in order                       *)
(* (write_private_file_atomic, sync_parent_preserving_identity).           *)
THEOREM JournalIsARegister == JournalSpec => ImplementsRegister
  <1>1. JournalInit => Register!Init
    BY DEF JournalInit, Register!Init, Visible, Survivors, Held, Empty, Entries
  <1>2. JInv /\ JInv' /\ [JournalNext]_journalVars => [Register!Next]_(Register!register)
    BY RefinementStep
  <1> QED  BY <1>1, <1>2, JournalInvariant, PTL DEF JournalSpec, ImplementsRegister, Register!Spec

-----------------------------------------------------------------------------
(***************************************************************************)
(* Proofs about Setup, for any Agents, packages, layouts and edits.  What  *)
(* is written was classified in one state of the files and bound in a      *)
(* later one; a Plan keeps both.                                           *)
(***************************************************************************)

(* What the classification establishes of what is to be written.           *)
Classified(x) ==
    /\ x.seen \in [Dirs -> Package] /\ DOMAIN x.writes \subseteq Dirs
    /\ \A d \in DOMAIN x.writes :
          /\ x.writes[d] = NotCurrent(x.seen[d])
          /\ Installs(PackageStatus(x.seen[d]), x.choice)

(* What a Plan establishes besides, when it is bound.                      *)
PlanBound(plan) ==
    /\ Classified(plan)
    /\ DOMAIN plan.before = DOMAIN plan.writes /\ DOMAIN plan.after = DOMAIN plan.writes
    /\ \A d \in DOMAIN plan.writes :
          /\ plan.before[d] \in Package /\ plan.before[d].kind = plan.seen[d].kind
          /\ plan.after[d] = Projected(plan.before[d], plan.writes[d])

SetupInv ==
    /\ at \in [Agents -> Dirs] /\ packages \in [Dirs -> Package]
    /\ reading.stage = "classified" => Classified(reading)
    /\ \A plan \in plans : PlanBound(plan)
    /\ receipt.status # "none" => PlanBound(receipt.plan)

LEMMA InitSetupInv == SetupInit => SetupInv
  BY SetupAssumption DEF SetupInit, SetupInv, NotReading, NoReceipt

(* A package that is no directory has none of the files.                   *)
LEMMA NothingIsThere ==
  ASSUME NEW p \in Package, p.kind # "dir"
  PROVE  NotCurrent(p) = Managed
  BY DEF Package, NotCurrent, NoFiles, FileStatus

LEMMA WithFiles ==
  ASSUME NEW p \in Package, NEW kind, NEW files
  PROVE  [p EXCEPT !.kind = kind, !.files = files]
            = [kind |-> kind, to |-> p.to, files |-> files, extra |-> p.extra]
  <1>1. p \in [kind : {p.kind}, to : {p.to}, files : {p.files}, extra : {p.extra}]
    BY DEF Package
  <1>2. [p EXCEPT !.kind = kind, !.files = files]
           \in [kind : {kind}, to : {p.to}, files : {files}, extra : {p.extra}]
    BY <1>1
  <1>3. \A q \in [kind : {kind}, to : {p.to}, files : {files}, extra : {p.extra}] :
           q = [kind |-> kind, to |-> p.to, files |-> files, extra |-> p.extra]
    OBVIOUS
  <1> QED  BY <1>2, <1>3

LEMMA ProjectedIs ==
  ASSUME NEW p \in Package, NEW files
  PROVE  /\ Projected(p, files) \in Package /\ Projected(p, files).kind = "dir"
         /\ \A f \in Managed : Projected(p, files).files[f] = IF f \in files THEN "current" ELSE p.files[f]
  <1> DEFINE q == Projected(p, files)
             new == [f \in Managed |-> IF f \in files THEN "current" ELSE p.files[f]]
  <1>1. q = [p EXCEPT !.kind = "dir", !.files = new]
    BY DEF Projected
  <1>2. q = [kind |-> "dir", to |-> p.to, files |-> new, extra |-> p.extra]
    BY <1>1, WithFiles
  <1>3. new \in [Managed -> Bundled \union Own]
    BY DEF Package, Bundled
  <1>4. q \in Package
    BY <1>2, <1>3 DEF Package
  <1> QED  BY <1>2, <1>4

LEMMA ClassifyInv ==
  ASSUME SetupInv, NEW s \in Selections, NEW c \in Choices, Classify(s, c)
  PROVE  SetupInv'
  <1>1. ASSUME NEW d \in Written(s, c)
        PROVE  d \in Dirs /\ Installs(PackageStatus(packages[d]), c)
    BY <1>1 DEF Written, SetupInv, Targets, Eligible
  <1>2. /\ reading'.choice = c /\ reading'.seen = packages
        /\ reading'.writes = [d \in Written(s, c) |-> NotCurrent(packages[d])]
    BY DEF Classify
  <1>3. Classified(reading')
    BY <1>1, <1>2 DEF Classified, SetupInv
  <1> QED  BY <1>3 DEF SetupInv, Classify, PlanBound, Classified

LEMMA BindInv ==
  ASSUME SetupInv, Bind
  PROVE  SetupInv'
  <1>1. Classified(reading)
    BY DEF Bind, SetupInv
  <1> DEFINE new == [scan |-> scan.number, selection |-> reading.selection, choice |-> reading.choice,
                     seen |-> reading.seen, writes |-> reading.writes,
                     before |-> [d \in DOMAIN reading.writes |-> packages[d]],
                     after |-> [d \in DOMAIN reading.writes |-> Projected(packages[d], reading.writes[d])],
                     makes |-> DOMAIN reading.writes \ there]
  <1>2. ASSUME \A d \in DOMAIN reading.writes : Acceptable(d)
        PROVE  PlanBound(new)
    <2>1. Classified(new)
      BY <1>1 DEF Classified
    <2>2. \A d \in DOMAIN reading.writes : d \in Dirs /\ packages[d].kind = reading.seen[d].kind
      BY <1>1, <1>2 DEF Classified, Acceptable
    <2> QED  BY <2>1, <2>2 DEF PlanBound, SetupInv
  <1>3. \A plan \in plans' : PlanBound(plan)
    BY <1>2 DEF Bind, SetupInv
  <1> QED  BY <1>3 DEF SetupInv, Bind, NotReading

LEMMA ApplyInv ==
  ASSUME SetupInv, NEW plan \in plans, Apply(plan)
  PROVE  SetupInv'
  <1>1. PlanBound(plan)
    BY DEF SetupInv
  <1>2. ASSUME NEW d \in DOMAIN plan.after
        PROVE  d \in Dirs /\ plan.after[d] \in Package
    BY <1>1, <1>2, ProjectedIs DEF PlanBound, Classified
  <1>3. packages' \in [Dirs -> Package]
    BY <1>2 DEF Apply, SetupInv, Overlaid
  <1>4. receipt'.plan = plan
    BY DEF Apply
  <1> QED  BY <1>1, <1>3, <1>4 DEF SetupInv, Apply

(* Undo leaves packages: where there was no directory nothing but what     *)
(* Setup wrote is left to take away.                                       *)
LEMMA RevertedIs ==
  ASSUME SetupInv, NEW plan, PlanBound(plan), NEW d \in DOMAIN plan.after
  PROVE  /\ Reverted(plan, d) \in Package
         /\ \A f \in Managed :
               Reverted(plan, d).files[f] = IF f \in plan.writes[d] THEN plan.before[d].files[f]
                                                                    ELSE packages[d].files[f]
  <1> DEFINE q == Reverted(plan, d)
             new == [f \in Managed |-> IF f \in plan.writes[d] THEN plan.before[d].files[f]
                                                               ELSE packages[d].files[f]]
  <1>1. d \in Dirs /\ packages[d] \in Package /\ plan.before[d] \in Package
    BY DEF PlanBound, Classified, SetupInv
  <1>2. q = [packages[d] EXCEPT !.kind = plan.before[d].kind, !.files = new]
    BY DEF Reverted
  <1>3. q = [kind |-> plan.before[d].kind, to |-> packages[d].to, files |-> new, extra |-> packages[d].extra]
    BY <1>1, <1>2, WithFiles
  <1>4. new \in [Managed -> Bundled \union Own]
    BY <1>1 DEF Package
  <1>5. ASSUME plan.before[d].kind # "dir" PROVE new = NoFiles
    <2>1. plan.seen[d] \in Package /\ plan.seen[d].kind # "dir" /\ plan.writes[d] = NotCurrent(plan.seen[d])
      BY <1>1, <1>5 DEF PlanBound, Classified
    <2>2. plan.writes[d] = Managed
      BY <2>1, NothingIsThere
    <2>3. plan.before[d].files = NoFiles
      BY <1>1, <1>5 DEF Package
    <2> QED  BY <2>2, <2>3 DEF NoFiles
  <1>6. q \in Package
    BY <1>1, <1>3, <1>4, <1>5 DEF Package
  <1> QED  BY <1>3, <1>6

LEMMA UndoInv ==
  ASSUME SetupInv, Undo
  PROVE  SetupInv'
  <1> DEFINE plan == receipt.plan
  <1>1. PlanBound(plan) /\ receipt.status = "applied"
    BY DEF SetupInv, Undo
  <1>2. ASSUME NEW d \in DOMAIN plan.after
        PROVE  d \in Dirs /\ Reverted(plan, d) \in Package
    BY <1>1, <1>2, RevertedIs DEF PlanBound, Classified
  <1>3. packages' = Overlaid([d \in DOMAIN plan.after |-> Reverted(plan, d)])
    BY DEF Undo
  <1>4. packages' \in [Dirs -> Package]
    BY <1>2, <1>3 DEF SetupInv, Overlaid
  <1>5. receipt'.plan = receipt.plan
    BY DEF Undo
  <1> QED  BY <1>1, <1>4, <1>5 DEF SetupInv, Undo

(* What the person writes is a package.                                    *)
LEMMA EditInv ==
  ASSUME SetupInv, NEW d \in Dirs, NEW p \in Package, Edited(d, p)
  PROVE  SetupInv'
  BY DEF SetupInv, Edited

LEMMA EditedIs ==
  ASSUME SetupInv, EditsFile \/ AddsFile \/ Links
  PROVE  \E d \in Dirs, p \in Package :
            /\ Edited(d, p)
            /\ \A f \in Managed : p.files[f] = "current" => packages[d].files[f] = "current"
  <1>1. CASE EditsFile
    <2>1. PICK d \in Dirs, f \in Managed, c \in Own \union {"none"} :
             packages[d].kind = "dir" /\ Edited(d, [packages[d] EXCEPT !.files[f] = c])
      BY <1>1 DEF EditsFile
    <2> DEFINE p == [packages[d] EXCEPT !.files[f] = c]
    <2>2. packages[d] \in Package /\ c # "current"
      BY SetupAssumption DEF SetupInv, Bundled
    <2>3. /\ p.kind = "dir" /\ p.to = packages[d].to /\ p.extra = packages[d].extra
          /\ p.files = [packages[d].files EXCEPT ![f] = c]
          /\ p = [kind |-> p.kind, to |-> p.to, files |-> p.files, extra |-> p.extra]
      BY <2>1, <2>2 DEF Package
    <2>4. p.files \in [Managed -> Bundled \union Own]
      BY <2>2, <2>3 DEF Package, Bundled
    <2>5. p \in Package
      BY <2>2, <2>3, <2>4 DEF Package
    <2>6. \A g \in Managed : p.files[g] = "current" => packages[d].files[g] = "current"
      BY <2>2, <2>3 DEF Package
    <2> QED  BY <2>1, <2>5, <2>6
  <1>2. CASE AddsFile
    <2>1. PICK d \in Dirs, c \in Own :
             packages[d].kind = "dir" /\ Edited(d, [packages[d] EXCEPT !.extra = c])
      BY <1>2 DEF AddsFile
    <2>2. packages[d] \in Package
      BY DEF SetupInv
    <2>3. [packages[d] EXCEPT !.extra = c] \in Package
      BY <2>1, <2>2 DEF Package
    <2>4. [packages[d] EXCEPT !.extra = c].files = packages[d].files
      BY <2>2 DEF Package
    <2> QED  BY <2>1, <2>3, <2>4
  <1>3. CASE Links
    <2>1. PICK d \in Dirs, other \in Dirs : Edited(d, LinkTo(other))
      BY <1>3 DEF Links
    <2>2. LinkTo(other) \in Package
      BY DEF LinkTo, NoPackage, Package, NoFiles, Bundled, Dirs
    <2>3. \A g \in Managed : LinkTo(other).files[g] # "current"
      BY DEF LinkTo, NoPackage, NoFiles
    <2> QED  BY <2>1, <2>2, <2>3
  <1> QED  BY <1>1, <1>2, <1>3

LEMMA NextSetupInv == SetupInv /\ [SetupNext]_setupVars => SetupInv'
  <1> SUFFICES ASSUME SetupInv, [SetupNext]_setupVars PROVE SetupInv'
    OBVIOUS
  <1>1. CASE Scan
    BY <1>1 DEF Scan, SetupInv
  <1>2. CASE \E s \in Selections, c \in Choices : Classify(s, c)
    BY <1>2, ClassifyInv
  <1>3. CASE Bind
    BY <1>3, BindInv
  <1>4. CASE \E plan \in plans : Apply(plan)
    BY <1>4, ApplyInv
  <1>5. CASE Undo
    BY <1>5, UndoInv
  <1>6. CASE EditsFile \/ AddsFile \/ Links
    BY <1>6, EditedIs, EditInv
  <1>7. CASE UNCHANGED setupVars
    BY <1>7 DEF setupVars, SetupInv, PlanBound, Classified
  <1> QED  BY <1>1, <1>2, <1>3, <1>4, <1>5, <1>6, <1>7 DEF SetupNext

(* Every Plan holds what was classified and what was bound.                *)
THEOREM SetupInvariant == SetupSpec => []SetupInv
  <1> QED  BY InitSetupInv, NextSetupInv, PTL DEF SetupSpec

(* What Setup wrote over the package it had classified is a current one in *)
(* all its files, whatever was there before: the next Setup has nothing to *)
(* do (setup_command_with_manifests_for_agent).                            *)
THEOREM SetupIsDone == SetupSpec => []SetupSettles
  <1>1. ASSUME SetupInv PROVE SetupSettles
    <2> SUFFICES ASSUME receipt.status = "applied", NEW d \in DOMAIN receipt.plan.after,
                        packages[d] = receipt.plan.after[d], receipt.plan.before[d] = receipt.plan.seen[d]
                 PROVE  PackageStatus(packages[d]) = "current"
      BY DEF SetupSettles
    <2> DEFINE plan == receipt.plan
               p == packages[d]
    <2>1. PlanBound(plan)
      BY <1>1 DEF SetupInv
    <2>2. /\ plan.before[d] \in Package /\ p = Projected(plan.before[d], plan.writes[d])
          /\ plan.writes[d] = NotCurrent(plan.before[d])
      BY <2>1 DEF PlanBound, Classified
    <2>3. p.kind = "dir" /\ \A f \in Managed : p.files[f] = "current"
      <3>1. \A f \in Managed : f \in plan.writes[d] \/ plan.before[d].files[f] = "current"
        BY <2>2 DEF NotCurrent, FileStatus
      <3> QED  BY <2>2, <3>1, ProjectedIs
    <2>4. {FileStatus(f, p.files[f]) : f \in Managed} = {"current"}
      BY <2>3, SetupAssumption DEF FileStatus
    <2> QED  BY <2>3, <2>4 DEF PackageStatus
  <1> QED  BY <1>1, SetupInvariant, PTL

(* A file of the person's own in a package to be written is there only     *)
(* when the package as a whole was modified.                               *)
LEMMA OwnIsModified ==
  ASSUME NEW p \in Package, NEW f \in Managed, p.files[f] \in Own
  PROVE  PackageStatus(p) \notin {"missing", "official_outdated"}
  <1>1. p.files[f] \notin Bundled /\ p.kind # "absent"
    BY SetupAssumption DEF Package, NoFiles, Bundled
  <1>2. FileStatus(f, p.files[f]) = "modified"
    BY <1>1 DEF FileStatus, Bundled
  <1>3. {FileStatus(g, p.files[g]) : g \in Managed} # {"missing"}
    BY <1>2
  <1>4. ~Official(p.files)
    BY <1>1 DEF Official, Bundled
  <1> QED  BY <1>1, <1>3, <1>4 DEF PackageStatus

LEMMA StepKeepsEdits ==
  ASSUME SetupInv, SetupNext, NEW d \in Dirs, NEW f \in Managed,
         packages[d].files[f] \in Own, packages'[d].files[f] = "current"
  PROVE  \/ receipt'.plan.choice = "adopt-current"
         \/ receipt'.plan.seen[d].files[f] # packages[d].files[f]
  <1>1. packages[d] \in Package /\ packages[d].files[f] # "current"
    BY SetupAssumption DEF SetupInv, Bundled
  <1>2. CASE \E plan \in plans : Apply(plan)
    <2>1. PICK plan \in plans : Apply(plan)
      BY <1>2
    <2>2. PlanBound(plan) /\ receipt'.plan = plan
      BY <2>1 DEF SetupInv, Apply
    <2>3. d \in DOMAIN plan.after /\ packages'[d] = plan.after[d]
      BY <1>1, <2>1 DEF Apply, SetupInv, Overlaid
    <2>4. f \in plan.writes[d]
      <3>1. plan.before[d] = packages[d] /\ plan.after[d] = Projected(plan.before[d], plan.writes[d])
        BY <2>1, <2>2, <2>3 DEF Apply, Undrifted, PlanBound
      <3> QED  BY <1>1, <2>3, <3>1, ProjectedIs
    <2>5. plan.seen[d] \in Package /\ Installs(PackageStatus(plan.seen[d]), plan.choice)
      BY <2>2, <2>3 DEF PlanBound, Classified
    <2>6. CASE plan.seen[d].files[f] = packages[d].files[f]
      <3>1. PackageStatus(plan.seen[d]) \notin {"missing", "official_outdated"}
        BY <2>5, <2>6, OwnIsModified
      <3> QED  BY <2>2, <2>5, <3>1 DEF Installs
    <2> QED  BY <2>2, <2>6
  <1>3. CASE Undo
    <2> DEFINE plan == receipt.plan
    <2>1. PlanBound(plan)
      BY <1>3 DEF SetupInv, Undo
    <2>2. d \in DOMAIN plan.after /\ packages'[d] = Reverted(plan, d) /\ Untouched(plan, d)
      BY <1>1, <1>3 DEF Undo, SetupInv, Overlaid
    <2>3. f \in plan.writes[d]
      BY <1>1, <2>1, <2>2, RevertedIs
    <2>4. packages[d].files[f] = "current"
      <3>1. CASE plan.before[d].kind = "dir"
        BY <2>2, <2>3, <3>1 DEF Untouched
      <3>2. CASE plan.before[d].kind # "dir"
        <4>1. packages[d] = Projected(plan.before[d], plan.writes[d]) /\ plan.before[d] \in Package
          BY <2>1, <2>2, <3>2 DEF Untouched, PlanBound
        <4> QED  BY <2>3, <4>1, ProjectedIs
      <3> QED  BY <3>1, <3>2
    <2> QED  BY <1>1, <2>4
  <1>4. CASE EditsFile \/ AddsFile \/ Links
    <2>1. PICK e \in Dirs, p \in Package :
             /\ Edited(e, p)
             /\ \A g \in Managed : p.files[g] = "current" => packages[e].files[g] = "current"
      BY <1>4, EditedIs
    <2>2. packages' = [packages EXCEPT ![e] = p]
      BY <2>1 DEF Edited
    <2> QED  BY <1>1, <2>1, <2>2 DEF SetupInv
  <1>5. CASE Scan \/ Bind \/ \E s \in Selections, c \in Choices : Classify(s, c)
    BY <1>1, <1>5 DEF Scan, Bind, Classify
  <1> QED  BY <1>2, <1>3, <1>4, <1>5 DEF SetupNext

(* No step of Setup puts the bundled file over one of the person's own,    *)
(* unless the person chose adopt-current or wrote it after Setup had       *)
(* classified the package (legacy_bootstrap_package_version).              *)
THEOREM EditsAreKept == SetupSpec => LocalEditsKept
  <1>1. SetupInv /\ [SetupNext]_setupVars =>
           [\A d \in Dirs, f \in Managed :
               packages[d].files[f] \in Own /\ packages'[d].files[f] = "current" =>
                   \/ receipt'.plan.choice = "adopt-current"
                   \/ receipt'.plan.seen[d].files[f] # packages[d].files[f]]_setupVars
    BY StepKeepsEdits
  <1> QED  BY <1>1, SetupInvariant, PTL DEF SetupSpec, LocalEditsKept
=============================================================================
