----------------------------- MODULE Governance -----------------------------
(***************************************************************************)
(* The governed commands of src/app.rs over their two stores: the Receipt  *)
(* journals in the state directory (src/change.rs) and the SQLite database *)
(* (src/sqlite.rs).  No transaction spans both, and the roster entries are *)
(* written outside the transaction that records the Receipt, so each       *)
(* command is a sequence of durable steps and the process may stop after   *)
(* any of them.                                                            *)
(*                                                                         *)
(* The filesystem engine (see ChangeEngine) appears by its outcome.  Every *)
(* command here holds the exclusive state lock: one runs at a time.        *)
(***************************************************************************)
EXTENDS Naturals

CONSTANTS Plan, Receipt,      \* identifiers, never reused
          NoPlan, NoReceipt,
          RosterState,        \* the states of the roster entry the Plans change
          Unset,              \* no row for it
          External,           \* Plans whose Receipt keeps a backup beside a Skill
          MaxScans,           \* bound: completed Snapshots
          MaxPurges           \* bound: purges of Plans and Receipts

ASSUME GovernanceAssumption ==
    /\ NoPlan \notin Plan /\ NoReceipt \notin Receipt
    /\ Unset \in RosterState /\ External \subseteq Plan
    /\ MaxScans \in Nat /\ MaxPurges \in Nat

VARIABLES
    journal,     \* receipts/<id>.json: its status
    owner,       \* the Plan a Receipt belongs to (immutable, in both stores)
    reverses,    \* the Receipt it undoes (immutable, in both stores)
    db,          \* the database file exists
    row,         \* SQLite receipts: status
    status,      \* SQLite plans: status
    bound,       \* the Snapshot and the roster a Plan was prepared on, its change
    scan,        \* the latest completed Snapshot, 0 if none
    invalid,     \* snapshot_invalidations
    roster,      \* the roster entry
    pc, plan, cur, outcome,  \* the running command
    scans, purges,
    effect,      \* history: what a Receipt's change is on the filesystem
    stale        \* history: the files may have changed since the latest Snapshot

receipts == <<journal, owner, reverses>>
sqlite == <<db, row, status, bound, scan, invalid, roster>>
command == <<pc, plan, cur, outcome>>
counters == <<scans, purges>>
history == <<effect, stale>>
vars == <<receipts, sqlite, command, counters, history>>

ReceiptStatus == {"applying", "applied", "failedRolledBack", "recoveryRequired", "undone"}
PlanStatus == {"unused", "ready", "applying", "applied", "failedRolledBack",
               "recoveryRequired", "gone"}

Binding == [scan : 0 .. MaxScans, before : RosterState, after : RosterState]

Init ==
    /\ journal = [r \in Receipt |-> "absent"]
    /\ owner = [r \in Receipt |-> NoPlan]
    /\ reverses = [r \in Receipt |-> NoReceipt]
    /\ db = TRUE
    /\ row = [r \in Receipt |-> "absent"]
    /\ status = [p \in Plan |-> "unused"]
    /\ bound = [p \in Plan |-> [scan |-> 0, before |-> Unset, after |-> Unset]]
    /\ scan = 0 /\ invalid = {} /\ roster = Unset
    /\ pc = "idle" /\ plan = NoPlan /\ cur = NoReceipt /\ outcome = "none"
    /\ scans = 0 /\ purges = 0
    /\ effect = [r \in Receipt |-> "none"] /\ stale = FALSE

(***************************************************************************)
(* Gates.                                                                  *)
(***************************************************************************)
(* store.recovery_required *)
RecoveryRequired == \E r \in Receipt : row[r] = "recoveryRequired"

(* journal_issues *)
Pending(r) == journal[r] \in {"applying", "recoveryRequired"}
IssueOnlyPending(r) == Pending(r)
Issue(r) == journal[r] # "absent" /\ (row[r] = "absent" \/ Pending(r))
ClearJournals == \A r \in Receipt : ~Issue(r)

(* recovery_text = "clear" *)
RecoveryClear == ~RecoveryRequired /\ ClearJournals

(* snapshot_invalidating_receipt, and latest_scan that fails on it *)
InvalidatesByApply(r) == row[r] = "applied"
Invalidates(r) == row[r] = IF reverses[r] = NoReceipt THEN "applied" ELSE "undone"
SnapshotCurrent == scan # 0 /\ \A r \in Receipt : <<scan, r>> \in invalid => ~Invalidates(r)

Started(p) == status[p] \notin {"unused", "gone"}
Unused(r) == owner[r] = NoPlan
Reversed(r) == \E u \in Receipt : reverses[u] = r /\ row[u] = "undone"
JournaledUndone(r) == \E u \in Receipt : reverses[u] = r /\ journal[u] = "undone"

(* has_external_recovery_material *)
ExternalMaterial ==
    \E r \in Receipt : journal[r] # "absent" /\ owner[r] \in External /\ effect[r] = "done"

Idle == pc = "idle" /\ db
Return == pc' = "idle" /\ plan' = NoPlan /\ cur' = NoReceipt /\ outcome' = "none"
Goto(label) == pc' = label /\ UNCHANGED <<plan, cur>>

(***************************************************************************)
(* Scan and Plan.                                                          *)
(***************************************************************************)
(* The index, the payload and the completed Snapshot are one transaction.  *)
Scan ==
    /\ Idle /\ scans < MaxScans
    /\ scans' = scans + 1 /\ scan' = scans + 1 /\ stale' = FALSE
    /\ UNCHANGED <<receipts, db, row, status, bound, invalid, roster, command, purges, effect>>

PlanRecord(to) == [scan |-> scan, before |-> roster, after |-> to]
SavePlan(p, record) ==
    /\ status' = [status EXCEPT ![p] = "ready"]
    /\ bound' = [bound EXCEPT ![p] = record]

PreparePlan(p, to) ==
    /\ Idle /\ status[p] = "unused"
    /\ ~RecoveryRequired /\ SnapshotCurrent
    /\ SavePlan(p, PlanRecord(to))
    /\ UNCHANGED <<receipts, db, row, scan, invalid, roster, command, counters, history>>

(***************************************************************************)
(* apply_command.                                                          *)
(***************************************************************************)
Ready(p) == status[p] = "ready"

BeginApply(p) ==
    /\ Idle /\ Ready(p)
    /\ RecoveryClear /\ SnapshotCurrent
    /\ bound[p].scan = scan /\ bound[p].before = roster
    /\ status' = [status EXCEPT ![p] = "applying"]
    /\ pc' = "journal" /\ plan' = p /\ UNCHANGED <<cur, outcome>>
    /\ UNCHANGED <<receipts, db, row, bound, scan, invalid, roster, counters, history>>

(* The engine refuses before it has published a journal. *)
EngineRefuses ==
    /\ pc = "journal" /\ Return
    /\ status' = [status EXCEPT ![plan] = "ready"]
    /\ UNCHANGED <<receipts, db, row, bound, scan, invalid, roster, counters, history>>

Publish(r, p, orig) ==
    /\ Unused(r)
    /\ journal' = [journal EXCEPT ![r] = "applying"]
    /\ owner' = [owner EXCEPT ![r] = p]
    /\ reverses' = [reverses EXCEPT ![r] = orig]

StartJournal(r) ==
    /\ pc = "journal" /\ Publish(r, plan, NoReceipt)
    /\ effect' = [effect EXCEPT ![r] = "unknown"]
    /\ pc' = "engine" /\ cur' = r /\ UNCHANGED <<plan, outcome>>
    /\ UNCHANGED <<sqlite, counters, stale>>

AfterApply(result) ==
    CASE result = "applied" -> "done"
      [] result = "failedRolledBack" -> "none"
      [] OTHER -> "unknown"

(* The engine returns an error once it has: the Plan needs recovery. *)
RetriedAfterError == "ready"
StatusAfterError == "recoveryRequired"

EngineFails(result) ==
    /\ pc = "engine" /\ result \in {"applying", "failedRolledBack", "recoveryRequired"}
    /\ journal' = [journal EXCEPT ![cur] = result]
    /\ effect' = [effect EXCEPT ![cur] = AfterApply(result)]
    /\ status' = [status EXCEPT ![plan] = StatusAfterError]
    /\ stale' = (stale \/ result # "failedRolledBack")
    /\ Return
    /\ UNCHANGED <<owner, reverses, db, row, bound, scan, invalid, roster, counters>>

(* The journal of a failed Apply is sometimes published only best effort. *)
JournalOf(result) ==
    CASE result = "applied" -> {"applied"}
      [] result = "failedRolledBack" -> {"applying", "failedRolledBack"}
      [] OTHER -> {"applying", "applied", "recoveryRequired"}

EngineReturns(result, written) ==
    /\ pc = "engine" /\ result \in {"applied", "failedRolledBack", "recoveryRequired"}
    /\ written \in JournalOf(result)
    /\ journal' = [journal EXCEPT ![cur] = written]
    /\ effect' = [effect EXCEPT ![cur] = AfterApply(result)]
    /\ outcome' = result
    /\ Goto(IF result = "applied" THEN "metadata" ELSE "persist")
    /\ UNCHANGED <<owner, reverses, sqlite, counters, stale>>

(* apply_roster_changes *)
ApplyRoster ==
    /\ pc = "metadata" /\ Goto("persist")
    /\ roster' = bound[plan].after
    /\ UNCHANGED <<receipts, db, row, status, bound, scan, invalid, outcome, counters, history>>

RosterBefore(p) == bound[p].before

(* It failed: put the roster back, if that works, and roll the files back. *)
ApplyRosterFails(restored) ==
    /\ pc = "metadata" /\ Goto("rollback")
    /\ restored \in BOOLEAN
    /\ IF restored THEN roster' = RosterBefore(plan)
       ELSE roster' \in {bound[plan].before, bound[plan].after}
    /\ outcome' = IF restored THEN "failedRolledBack" ELSE "recoveryRequired"
    /\ UNCHANGED <<receipts, db, row, status, bound, scan, invalid, counters, history>>

RollbackApply(complete) ==
    /\ pc = "rollback" /\ Goto("persist") /\ complete \in BOOLEAN
    /\ journal' = [journal EXCEPT ![cur] =
                     IF complete THEN "failedRolledBack" ELSE "recoveryRequired"]
    /\ effect' = [effect EXCEPT ![cur] = IF complete THEN "none" ELSE "unknown"]
    /\ outcome' = IF complete THEN outcome ELSE "recoveryRequired"
    /\ UNCHANGED <<owner, reverses, sqlite, counters, stale>>

(* persist_journal_state, of Apply and of Undo *)
Persist ==
    /\ pc = "persist" /\ Goto("save")
    /\ journal' = [journal EXCEPT ![cur] = outcome]
    /\ stale' = (stale \/ outcome # "failedRolledBack")
    /\ UNCHANGED <<owner, reverses, sqlite, outcome, counters, effect>>

(* save_apply_receipt_with_trusted_sources: one transaction *)
SaveApply ==
    /\ pc = "save" /\ reverses[cur] = NoReceipt /\ Return
    /\ row' = [row EXCEPT ![cur] = outcome]
    /\ status' = [status EXCEPT ![plan] = outcome]
    /\ invalid' = invalid \cup
          (IF outcome = "applied" THEN {<<bound[plan].scan, cur>>} ELSE {})
    /\ UNCHANGED <<receipts, db, bound, scan, roster, counters, history>>

(***************************************************************************)
(* undo_command.                                                           *)
(***************************************************************************)
Undoable(orig) ==
    /\ row[orig] = "applied" /\ ~Reversed(orig) /\ Started(owner[orig])
    /\ ~JournaledUndone(orig)

BeginUndo(orig, r) ==
    /\ Idle /\ Undoable(orig) /\ ClearJournals
    /\ Publish(r, owner[orig], orig)
    /\ effect' = [effect EXCEPT ![orig] = "unknown"]
    /\ pc' = "undo" /\ plan' = owner[orig] /\ cur' = r /\ UNCHANGED outcome
    /\ UNCHANGED <<sqlite, counters, stale>>

UndoReturns(result) ==
    /\ pc = "undo" /\ result \in {"undone", "recoveryRequired"}
    /\ journal' = [journal EXCEPT ![cur] = result]
    /\ effect' = [effect EXCEPT ![reverses[cur]] =
                    IF result = "undone" THEN "none" ELSE "unknown"]
    /\ outcome' = result
    /\ Goto(IF result = "undone" THEN "restore" ELSE "persist")
    /\ UNCHANGED <<owner, reverses, sqlite, counters, stale>>

(* restore_roster_state: no drift check *)
RestoreRoster ==
    /\ pc = "restore" /\ Goto("persist")
    /\ roster' = RosterBefore(plan)
    /\ UNCHANGED <<receipts, db, row, status, bound, scan, invalid, outcome, counters, history>>

RestoreRosterFails ==
    /\ pc = "restore" /\ Goto("persist")
    /\ roster' \in {roster, RosterBefore(plan)}
    /\ outcome' = "recoveryRequired"
    /\ UNCHANGED <<receipts, db, row, status, bound, scan, invalid, counters, history>>

(* save_undo_receipt, or save_receipt when the Undo was not verified *)
SaveUndo ==
    LET orig == reverses[cur] IN
    /\ pc = "save" /\ orig # NoReceipt /\ Return
    /\ IF outcome = "undone"
       THEN /\ row' = [row EXCEPT ![cur] = "undone", ![orig] = "undone"]
            /\ invalid' = invalid \cup (IF scan = 0 THEN {} ELSE {<<scan, cur>>})
       ELSE /\ row' = [row EXCEPT ![cur] = outcome]
            /\ UNCHANGED invalid
    /\ UNCHANGED <<receipts, db, status, bound, scan, roster, counters, history>>

(***************************************************************************)
(* lifecycle recovery: import what no command finished, one transaction a  *)
(* journal.  The journal itself is left as it is.                          *)
(***************************************************************************)
(* save_recovery_receipt commits *)
Importable(r) ==
    IF reverses[r] = NoReceipt
    THEN status[owner[r]] \in {"applying", "recoveryRequired"}
    ELSE row[reverses[r]] = "applied" /\ status[owner[r]] = "applied"

ImportedAs(r) == "recoveryRequired"
PlanLeftAlone(r) == status[owner[r]]
PlanAfterImport(r) ==
    IF reverses[r] = NoReceipt THEN "recoveryRequired" ELSE status[owner[r]]

Recover(r) ==
    /\ Idle /\ journal[r] # "absent" /\ row[r] \in {"absent", "recoveryRequired"}
    /\ Started(owner[r]) /\ Importable(r)
    /\ row' = [row EXCEPT ![r] = ImportedAs(r)]
    /\ status' = [status EXCEPT ![owner[r]] = PlanAfterImport(r)]
    /\ UNCHANGED <<receipts, db, bound, scan, invalid, roster, command, counters, history>>

(***************************************************************************)
(* lifecycle purge --plans-receipts and lifecycle delete: SQLite first,    *)
(* then the journals one at a time.                                        *)
(***************************************************************************)
Forgotten == [p \in Plan |-> IF Started(p) THEN "gone" ELSE status[p]]
NoRows == [r \in Receipt |-> "absent"]
NoEffects == [r \in Receipt |-> "none"]

BeginPurge ==
    /\ Idle /\ purges < MaxPurges /\ purges' = purges + 1
    /\ ~ExternalMaterial /\ RecoveryClear
    /\ status' = Forgotten /\ row' = NoRows /\ invalid' = {} /\ effect' = NoEffects
    /\ pc' = "sweep" /\ UNCHANGED <<plan, cur, outcome>>
    /\ UNCHANGED <<receipts, db, bound, scan, roster, scans, stale>>

DeleteAllowed ==
    /\ ~ExternalMaterial
    /\ IF db THEN RecoveryClear ELSE \A r \in Receipt : journal[r] = "absent"

BeginDelete ==
    /\ pc = "idle" /\ purges < MaxPurges /\ purges' = purges + 1
    /\ DeleteAllowed
    /\ db' = FALSE
    /\ status' = Forgotten /\ row' = NoRows /\ invalid' = {} /\ effect' = NoEffects
    /\ scan' = 0 /\ roster' = Unset /\ stale' = FALSE
    /\ pc' = "sweep" /\ UNCHANGED <<plan, cur, outcome>>
    /\ UNCHANGED <<receipts, bound, scans>>

RemoveJournal(r) ==
    /\ pc = "sweep" /\ journal[r] # "absent"
    /\ journal' = [journal EXCEPT ![r] = "absent"]
    /\ UNCHANGED <<owner, reverses, sqlite, command, counters, history>>

EndSweep ==
    /\ pc = "sweep" /\ (\A r \in Receipt : journal[r] = "absent") /\ Return
    /\ UNCHANGED <<receipts, sqlite, counters, history>>

(* Any other command creates the database it does not find. *)
OpenDatabase ==
    /\ pc = "idle" /\ ~db /\ db' = TRUE
    /\ UNCHANGED <<receipts, row, status, bound, scan, invalid, roster, command,
                   counters, history>>

(***************************************************************************)
(* The process dies, or returns an error it does not clean up after.  An   *)
(* interrupted publication leaves the old journal or the new one.          *)
(***************************************************************************)
Interrupted ==
    CASE pc = "engine" -> {"applying", "applied", "failedRolledBack", "recoveryRequired"}
      [] pc = "undo" -> {"applying", "undone", "recoveryRequired"}
      [] pc = "rollback" -> {journal[cur], "failedRolledBack", "recoveryRequired"}
      [] pc = "persist" -> {journal[cur], outcome}
      [] OTHER -> {}

Abandon ==
    /\ pc # "idle" /\ Return
    /\ IF Interrupted = {} THEN UNCHANGED <<journal, effect>>
       ELSE /\ \E s \in Interrupted : journal' = [journal EXCEPT ![cur] = s]
            /\ effect' = IF pc = "rollback" THEN [effect EXCEPT ![cur] = "unknown"]
                         ELSE effect
    /\ stale' = (stale \/ cur # NoReceipt)
    /\ UNCHANGED <<owner, reverses, sqlite, counters>>

Next ==
    \/ Scan
    \/ \E p \in Plan, to \in RosterState \ {Unset} : PreparePlan(p, to)
    \/ \E p \in Plan : BeginApply(p)
    \/ EngineRefuses
    \/ \E r \in Receipt : StartJournal(r)
    \/ \E s \in ReceiptStatus : EngineFails(s)
    \/ \E s, w \in ReceiptStatus : EngineReturns(s, w)
    \/ ApplyRoster
    \/ \E b \in BOOLEAN : ApplyRosterFails(b) \/ RollbackApply(b)
    \/ Persist \/ SaveApply
    \/ \E orig, r \in Receipt : BeginUndo(orig, r)
    \/ \E s \in ReceiptStatus : UndoReturns(s)
    \/ RestoreRoster \/ RestoreRosterFails \/ SaveUndo
    \/ \E r \in Receipt : Recover(r)
    \/ BeginPurge \/ BeginDelete \/ EndSweep \/ OpenDatabase
    \/ \E r \in Receipt : RemoveJournal(r)
    \/ Abandon

Spec == Init /\ [][Next]_vars

(***************************************************************************)
(* Properties.                                                             *)
(***************************************************************************)
(* Every variable keeps its type. *)
TypeOK ==
    /\ journal \in [Receipt -> ReceiptStatus \cup {"absent"}]
    /\ owner \in [Receipt -> Plan \cup {NoPlan}]
    /\ reverses \in [Receipt -> Receipt \cup {NoReceipt}]
    /\ db \in BOOLEAN
    /\ row \in [Receipt -> ReceiptStatus \cup {"absent"}]
    /\ status \in [Plan -> PlanStatus]
    /\ bound \in [Plan -> Binding]
    /\ scan \in 0 .. MaxScans /\ invalid \subseteq (0 .. MaxScans) \X Receipt
    /\ roster \in RosterState
    /\ pc \in {"idle", "journal", "engine", "metadata", "rollback", "undo", "restore",
               "persist", "save", "sweep"}
    /\ plan \in Plan \cup {NoPlan} /\ cur \in Receipt \cup {NoReceipt}
    /\ outcome \in ReceiptStatus \cup {"none"}
    /\ scans \in 0 .. MaxScans /\ purges \in 0 .. MaxPurges
    /\ effect \in [Receipt -> {"none", "unknown", "done"}] /\ stale \in BOOLEAN

(* Whatever command stops wherever it stops, the two stores never agree on *)
(* a wrong story of the filesystem: a change that is there, or may be, is  *)
(* either recorded as applied or reported by lifecycle recovery, and a     *)
(* change that SQLite says was made, or undone, is there, or is not.       *)
Unresolved(r) ==
    \E u \in Receipt : (u = r \/ reverses[u] = r) /\ (Issue(u) \/ row[u] = "recoveryRequired")
Accounted ==
    pc = "idle" => \A r \in Receipt :
        \/ Unresolved(r)
        \/ reverses[r] # NoReceipt
        \/ effect[r] = (IF row[r] = "applied" THEN "done" ELSE "none")

(* Every journal no row accounts for can be imported by lifecycle recovery *)
(* as long as its Plan is retained, whatever the interrupted command was.  *)
Recoverable ==
    \A r \in Receipt :
        journal[r] # "absent" /\ row[r] = "absent" /\ Started(owner[r]) => Importable(r)

(* The Receipt of an Apply and its Plan end in the same state, across the  *)
(* separate transactions, statuses and imports that put them there.        *)
PlanMatchesReceipt ==
    \A r \in Receipt :
        row[r] # "absent" /\ reverses[r] = NoReceipt
            => status[owner[r]] = IF row[r] = "undone" THEN "applied" ELSE row[r]

(* A Plan is applied at most once: the journals of one Plan never hold two *)
(* Apply Receipts, not even after an error, a crash or a rollback.         *)
AppliedOnce ==
    \A r, u \in Receipt :
        /\ owner[r] # NoPlan /\ owner[r] = owner[u]
        /\ reverses[r] = NoReceipt /\ reverses[u] = NoReceipt
        => r = u

(* With nothing to recover, a command that needs current facts is refused  *)
(* as long as the files may have changed since the latest Snapshot, which  *)
(* the code ensures until Plans and Receipts are purged.                   *)
StaleIsRefused ==
    purges = 0 /\ pc = "idle" /\ db /\ RecoveryClear /\ stale => ~SnapshotCurrent

(* An Apply recorded as rolled back has put the roster back as well.       *)
RolledBackRoster ==
    pc = "save" /\ outcome = "failedRolledBack" => roster = bound[plan].before

(* Recovery is never resolved by guessing: a Receipt that requires it goes *)
(* on requiring it.                                                        *)
RecoverySticks ==
    [][\A r \in Receipt : row[r] = "recoveryRequired" => row'[r] = "recoveryRequired"]_vars

==============================================================================
