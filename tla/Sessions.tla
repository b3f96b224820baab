------------------------------ MODULE Sessions ------------------------------
(***************************************************************************)
(* Several skillroster processes over one state directory: the permission  *)
(* pass over the control files that every command makes before it holds    *)
(* any lock (src/state_security.rs), the non-blocking shared or exclusive  *)
(* state lock (StateLock, src/change.rs), the schema check and the         *)
(* migrations (src/sqlite.rs), and the two effects a command has on what   *)
(* other processes read: the database file with its schema version, and    *)
(* the names in the receipts directory.                                    *)
(*                                                                         *)
(* Processes may run different releases: Binary[p] is the schema version   *)
(* process p was built for.  A process may die at any step; the operating  *)
(* system then releases its lock.                                          *)
(***************************************************************************)
EXTENDS Integers

CONSTANTS Process,
          Binary,     \* SCHEMA_VERSION of the release each process runs
          Commands,   \* bound: the kinds of command each process is given
          Identity,      \* file identities in the receipts directory
          NoFile

ASSUME SessionsAssumption ==
    /\ Binary \in [Process -> Nat \ {0}]
    /\ Commands \in [Process -> SUBSET {"read", "write", "delete"}]
    /\ NoFile \notin Identity

VARIABLES
    lock,     \* write.lock: how each process holds it
    schema,   \* user_version of skillroster.db, 0 before a migration, or Absent
    names,    \* the receipts directory: the staging file and the journal
    pc, cmd,  \* the running command
    left,     \* the names the permission pass still has to open
    seen,     \* the identities it found in its first round
    version,  \* the schema version the migration loop believes in
    outcome   \* how the last command of each process ended

local == <<pc, cmd, left, seen, version, outcome>>
vars == <<lock, schema, names, local>>

Absent == -1
Name == {"tmp", "json"}

(* The labels at which a command works inside its lock. *)
Working == {"running", "deleteDb", "deleteFiles"}

Init ==
    /\ lock = [p \in Process |-> "none"]
    /\ schema = Absent
    /\ names = [n \in Name |-> NoFile]
    /\ pc = [p \in Process |-> "idle"]
    /\ cmd = [p \in Process |-> "read"]
    /\ left = [p \in Process |-> {}]
    /\ seen = [p \in Process |-> [n \in Name |-> NoFile]]
    /\ version = [p \in Process |-> 0]
    /\ outcome = [p \in Process |-> "none"]

Goto(p, label) == pc' = [pc EXCEPT ![p] = label]

(* Dropping the StateLock, or the death of the process, releases it. *)
Leave(p, how) ==
    /\ Goto(p, "idle")
    /\ lock' = [lock EXCEPT ![p] = "none"]
    /\ left' = [left EXCEPT ![p] = {}]
    /\ seen' = [seen EXCEPT ![p] = [n \in Name |-> NoFile]]
    /\ version' = [version EXCEPT ![p] = 0]
    /\ outcome' = [outcome EXCEPT ![p] = how]
    /\ UNCHANGED cmd

(***************************************************************************)
(* Before the lock: secure_control_directory lists the receipts, opens and *)
(* validates every entry, then opens and validates every entry again and   *)
(* requires the identity of the first round.  Names are sorted, so the     *)
(* staging file (it begins with a dot) comes first.                        *)
(***************************************************************************)
Present == {n \in Name : names[n] # NoFile}
NextName(p) == IF "tmp" \in left[p] THEN "tmp" ELSE "json"

Begin(p, c) ==
    /\ pc[p] = "idle" /\ c \in Commands[p]
    /\ Goto(p, "first")
    /\ cmd' = [cmd EXCEPT ![p] = c]
    /\ left' = [left EXCEPT ![p] = Present]
    /\ outcome' = [outcome EXCEPT ![p] = "none"]
    /\ UNCHANGED <<lock, schema, names, seen, version>>

Opens(p, n) ==
    /\ n = NextName(p) /\ left[p] # {}
    /\ left' = [left EXCEPT ![p] = @ \ {n}]
    /\ UNCHANGED <<lock, schema, names, pc, cmd, version, outcome>>

OpenFirst(p) ==
    /\ pc[p] = "first"
    /\ \E n \in Present : Opens(p, n) /\ seen' = [seen EXCEPT ![p][n] = names[n]]

FirstDone(p) ==
    /\ pc[p] = "first" /\ left[p] = {}
    /\ Goto(p, "second")
    /\ left' = [left EXCEPT ![p] = {n \in Name : seen[p][n] # NoFile}]
    /\ UNCHANGED <<lock, schema, names, cmd, seen, version, outcome>>

OpenSecond(p) ==
    /\ pc[p] = "second"
    /\ \E n \in Present : seen[p][n] = names[n] /\ Opens(p, n) /\ UNCHANGED seen

SecondDone(p) ==
    /\ pc[p] = "second" /\ left[p] = {}
    /\ Goto(p, "lock")
    /\ seen' = [seen EXCEPT ![p] = [n \in Name |-> NoFile]]
    /\ UNCHANGED <<lock, schema, names, cmd, left, version, outcome>>

(* The entry is gone, or another file has its name. *)
PassFails(p) ==
    /\ left[p] # {}
    /\ \/ pc[p] \in {"first", "second"} /\ names[NextName(p)] = NoFile
       \/ pc[p] = "second" /\ names[NextName(p)] # seen[p][NextName(p)]
    /\ Leave(p, "unsafe") /\ UNCHANGED <<schema, names>>

(***************************************************************************)
(* The state lock and the schema.                                          *)
(***************************************************************************)
Compatible(p, mode) ==
    \A q \in Process \ {p} : lock[q] = "none" \/ {mode, lock[q]} = {"shared"}

(* command_requires_exclusive_state_lock, and delete's own acquisition. *)
Mode(p) == IF cmd[p] = "read" THEN "shared" ELSE "exclusive"

Acquire(p) ==
    /\ pc[p] = "lock" /\ Compatible(p, Mode(p))
    /\ lock' = [lock EXCEPT ![p] = Mode(p)]
    /\ Goto(p, CASE cmd[p] = "read" -> "inspect"
                 [] cmd[p] = "delete" /\ schema = Absent -> "deleteFiles"
                 [] OTHER -> "open")
    /\ UNCHANGED <<schema, names, cmd, left, seen, version, outcome>>

AcquireFails(p) ==
    /\ \/ pc[p] = "lock" /\ ~Compatible(p, Mode(p))
       \/ pc[p] = "upgrade" /\ ~Compatible(p, "exclusive")
    /\ Leave(p, "write_locked") /\ UNCHANGED <<schema, names>>

(* requires_migration, under the shared lock: drop it and take the other.  *)
(* The one that keeps the shared lock would migrate among other readers.   *)
InspectKeepingLock(p) ==
    /\ pc[p] = "inspect" /\ Goto(p, "open")
    /\ UNCHANGED <<lock, schema, names, cmd, left, seen, version, outcome>>

Inspect(p) ==
    /\ pc[p] = "inspect"
    /\ IF schema = Binary[p]
       THEN Goto(p, "open") /\ UNCHANGED lock
       ELSE Goto(p, "upgrade") /\ lock' = [lock EXCEPT ![p] = "none"]
    /\ UNCHANGED <<schema, names, cmd, left, seen, version, outcome>>

Upgrade(p) ==
    /\ pc[p] = "upgrade" /\ Compatible(p, "exclusive")
    /\ lock' = [lock EXCEPT ![p] = "exclusive"]
    /\ Goto(p, "open")
    /\ UNCHANGED <<schema, names, cmd, left, seen, version, outcome>>

(* prepare_private_file creates an empty database; migrate reads the version. *)
Open(p) ==
    /\ pc[p] = "open" /\ schema <= Binary[p]
    /\ schema' = IF schema = Absent THEN 0 ELSE schema
    /\ version' = [version EXCEPT ![p] = schema']
    /\ Goto(p, "migrate")
    /\ UNCHANGED <<lock, names, cmd, left, seen, outcome>>

OpenNewer(p) ==
    /\ pc[p] = "open" /\ schema > Binary[p]
    /\ Leave(p, "newer") /\ UNCHANGED <<schema, names>>

(* One transaction per target version: the migration and its user_version. *)
Migrate(p) ==
    /\ pc[p] = "migrate" /\ version[p] < Binary[p]
    /\ schema' = version[p] + 1
    /\ version' = [version EXCEPT ![p] = @ + 1]
    /\ UNCHANGED <<lock, names, pc, cmd, left, seen, outcome>>

Opened(p) ==
    /\ pc[p] = "migrate" /\ version[p] = Binary[p]
    /\ Goto(p, IF cmd[p] = "delete" THEN "deleteDb" ELSE "running")
    /\ UNCHANGED <<lock, schema, names, cmd, left, seen, version, outcome>>

(***************************************************************************)
(* What commands do inside the lock.                                       *)
(***************************************************************************)
(* write_private_file_atomic: the staging file is created, or an abandoned *)
(* one truncated, and renamed over the journal.                            *)
Stage(p) ==
    /\ pc[p] = "running" /\ cmd[p] = "write"
    /\ names["tmp"] = NoFile
    /\ \E i \in Identity : i # names["json"] /\ names' = [names EXCEPT !["tmp"] = i]
    /\ UNCHANGED <<lock, schema, local>>

Publish(p) ==
    /\ pc[p] = "running" /\ cmd[p] = "write"
    /\ names["tmp"] # NoFile
    /\ names' = [n \in Name |-> IF n = "tmp" THEN NoFile ELSE names["tmp"]]
    /\ UNCHANGED <<lock, schema, local>>

(* lifecycle purge, inside its lock. *)
RemoveJournal(p) ==
    /\ pc[p] = "deleteFiles" \/ (pc[p] = "running" /\ cmd[p] = "write")
    /\ names["json"] # NoFile
    /\ names' = [names EXCEPT !["json"] = NoFile]
    /\ UNCHANGED <<lock, schema, local>>

(* lifecycle delete: the database, then the journals (never the staging file). *)
DeleteDb(p) ==
    /\ pc[p] = "deleteDb"
    /\ schema' = Absent
    /\ Goto(p, "deleteFiles")
    /\ UNCHANGED <<lock, names, cmd, left, seen, version, outcome>>

Finish(p) ==
    /\ \/ pc[p] = "running"
       \/ pc[p] = "deleteFiles" /\ names["json"] = NoFile
    /\ Leave(p, "ok") /\ UNCHANGED <<schema, names>>

Die(p) ==
    /\ pc[p] # "idle"
    /\ Leave(p, "died") /\ UNCHANGED <<schema, names>>

Step(p) ==
    \/ OpenFirst(p) \/ FirstDone(p) \/ OpenSecond(p) \/ SecondDone(p) \/ PassFails(p)
    \/ Acquire(p) \/ AcquireFails(p) \/ Inspect(p) \/ Upgrade(p)
    \/ Open(p) \/ OpenNewer(p) \/ Migrate(p) \/ Opened(p)
    \/ DeleteDb(p) \/ Finish(p)

Next ==
    \E p \in Process :
        \/ \E c \in Commands[p] : Begin(p, c)
        \/ Step(p)
        \/ Stage(p) \/ Publish(p) \/ RemoveJournal(p)
        \/ Die(p)

Spec == Init /\ [][Next]_vars

(* A command works only on a database of its own release's schema, however *)
(* the other processes, of other releases, migrate and delete it meanwhile  *)
(* (run_with_context checks before it opens; open checks again).            *)
RunsOnOwnSchema ==
    \A p \in Process : pc[p] \in {"running", "deleteDb"} => schema = Binary[p]

=============================================================================
