--------------------------- MODULE GovernanceProofs ---------------------------
(***************************************************************************)
(* Proofs about Governance, for any number of Plans, Receipts, Snapshots   *)
(* and purges.  No safety property here is inductive alone: each of them   *)
(* depends on what the running command may assume of both stores while it  *)
(* holds the exclusive lock.  IInv states that, and implies them all.      *)
(***************************************************************************)
EXTENDS Governance, TLAPS

(* A Receipt identifier nobody has used yet has left no trace.             *)
NoTrace == \A r \in Receipt : owner[r] = NoPlan
              => journal[r] = "absent" /\ row[r] = "absent" /\ reverses[r] = NoReceipt

(* Only the Receipt of an Apply is ever `applied`.                         *)
AppliedIsApply == \A r \in Receipt : row[r] = "applied" => reverses[r] = NoReceipt

(* A Plan with a Receipt has been started.                                 *)
OwnersStarted ==
    \A r \in Receipt : owner[r] # NoPlan => status[owner[r]] \notin {"unused", "ready"}

(* What a command holds of its own Receipt until it saves it.              *)
Applying ==
    /\ cur \in Receipt /\ plan \in Plan
    /\ owner[cur] = plan /\ reverses[cur] = NoReceipt
    /\ status[plan] = "applying" /\ row[cur] = "absent"
Undoing ==
    /\ cur \in Receipt /\ plan \in Plan
    /\ owner[cur] = plan /\ reverses[cur] \in Receipt
    /\ status[plan] = "applied" /\ row[cur] = "absent"
    /\ row[reverses[cur]] = "applied"

InFlight ==
    /\ pc \in {"idle", "sweep"} => plan = NoPlan /\ cur = NoReceipt /\ outcome = "none"
    /\ pc = "journal" => /\ plan \in Plan /\ cur = NoReceipt /\ outcome = "none"
                         /\ status[plan] = "applying"
                         /\ \A r \in Receipt : owner[r] # plan
    /\ pc = "engine" => Applying /\ outcome = "none"
    /\ pc = "metadata" => Applying /\ outcome = "applied"
    /\ pc = "rollback" => Applying /\ outcome \in {"failedRolledBack", "recoveryRequired"}
    /\ pc = "undo" => Undoing /\ outcome = "none"
    /\ pc = "restore" => Undoing /\ outcome = "undone"
    /\ pc \in {"persist", "save"} =>
          \/ Applying /\ outcome \in {"applied", "failedRolledBack", "recoveryRequired"}
          \/ Undoing /\ outcome \in {"undone", "recoveryRequired"}

(* A running command found every other journal accounted for.              *)
Alone ==
    pc \notin {"idle", "sweep"} =>
        /\ db
        /\ \A r \in Receipt : r # cur /\ journal[r] # "absent" => row[r] # "absent"

(* Without a database there are no rows.                                   *)
NoDatabase == ~db => \A r \in Receipt : row[r] = "absent"

(* An Apply that will be recorded as rolled back has the roster it found.  *)
RosterKept ==
    /\ pc \in {"journal", "engine"} => roster = bound[plan].before
    /\ pc \in {"rollback", "persist", "save"} /\ outcome = "failedRolledBack"
          => roster = bound[plan].before

IInv ==
    /\ TypeOK /\ NoTrace /\ AppliedIsApply /\ OwnersStarted /\ InFlight /\ Alone
    /\ NoDatabase /\ RosterKept /\ AppliedOnce /\ PlanMatchesReceipt /\ Recoverable

(* The initial state satisfies the invariant.                              *)
LEMMA InitIInv == Init => IInv
  <1> SUFFICES ASSUME Init PROVE IInv
    OBVIOUS
  <1>1. TypeOK
    <2>1. bound \in [Plan -> Binding] /\ status \in [Plan -> PlanStatus]
      BY GovernanceAssumption DEF Init, Binding, PlanStatus
    <2>2. scan \in 0 .. MaxScans /\ scans \in 0 .. MaxScans /\ purges \in 0 .. MaxPurges
      BY GovernanceAssumption DEF Init
    <2> QED BY <2>1, <2>2, GovernanceAssumption, Zenon DEF Init, TypeOK
  <1>2. NoTrace /\ AppliedIsApply /\ OwnersStarted
    BY DEF Init, NoTrace, AppliedIsApply, OwnersStarted
  <1>3. InFlight /\ Alone /\ NoDatabase /\ RosterKept
    BY DEF Init, InFlight, Alone, NoDatabase, RosterKept
  <1>4. AppliedOnce /\ PlanMatchesReceipt /\ Recoverable
    BY DEF Init, AppliedOnce, PlanMatchesReceipt, Recoverable
  <1> QED BY <1>1, <1>2, <1>3, <1>4 DEF IInv

(* Every step preserves the invariant.  Under each action, one step per    *)
(* part it can disturb, and one for the parts it leaves alone.             *)
LEMMA NextIInv == IInv /\ [Next]_vars => IInv'
  <1> SUFFICES ASSUME IInv, [Next]_vars PROVE IInv'
    OBVIOUS
  <1> USE GovernanceAssumption
      DEF IInv, vars, receipts, sqlite, command, counters, history
  <1>1. CASE Scan
    <2>1. TypeOK'
      <3>1. scan' \in 0 .. MaxScans /\ scans' \in 0 .. MaxScans
        BY <1>1 DEF TypeOK, Scan
      <3>2. db' \in BOOLEAN /\ stale' \in BOOLEAN
        BY <1>1, Zenon DEF TypeOK, Scan
      <3> QED BY <1>1, <3>1, <3>2, Zenon DEF TypeOK, Scan
    <2>2. NoTrace' /\ AppliedIsApply' /\ OwnersStarted' /\ InFlight' /\ Alone'
         /\ NoDatabase' /\ RosterKept' /\ AppliedOnce' /\ PlanMatchesReceipt'
         /\ Recoverable'
      BY <1>1 DEF NoTrace, AppliedIsApply, OwnersStarted, InFlight, Alone,
         NoDatabase, RosterKept, AppliedOnce, PlanMatchesReceipt, Recoverable,
         Applying, Undoing, Importable, Started, Scan
    <2> QED BY <2>1, <2>2
  <1>2. ASSUME NEW p \in Plan, NEW to \in RosterState \ {Unset},
                PreparePlan(p, to)
         PROVE  IInv'
    <2>1. TypeOK'
      BY <1>2 DEF TypeOK, Binding, PlanStatus, PreparePlan, SavePlan, PlanRecord
    <2>2. OwnersStarted'
      BY <1>2 DEF OwnersStarted, PreparePlan, SavePlan, PlanRecord
    <2>3. InFlight'
      BY <1>2 DEF InFlight, PreparePlan, SavePlan, PlanRecord, Idle
    <2>4. RosterKept'
      BY <1>2 DEF RosterKept, PreparePlan, SavePlan, PlanRecord
    <2>5. PlanMatchesReceipt'
      BY <1>2 DEF PlanMatchesReceipt, OwnersStarted, PreparePlan, SavePlan, PlanRecord
    <2>6. Recoverable'
      BY <1>2 DEF Recoverable, OwnersStarted, Started, Importable, PreparePlan, SavePlan, PlanRecord
    <2>7. NoTrace' /\ AppliedIsApply' /\ Alone' /\ NoDatabase' /\ AppliedOnce'
      BY <1>2 DEF NoTrace, AppliedIsApply, Alone, NoDatabase, AppliedOnce,
         PreparePlan, SavePlan, PlanRecord
    <2> QED BY <2>1, <2>2, <2>3, <2>4, <2>5, <2>6, <2>7
  <1>3. ASSUME NEW p \in Plan, BeginApply(p) PROVE IInv'
    <2>1. TypeOK'
      BY <1>3 DEF TypeOK, PlanStatus, BeginApply
    <2>2. OwnersStarted'
      BY <1>3 DEF OwnersStarted, BeginApply
    <2>3. InFlight'
      BY <1>3 DEF InFlight, TypeOK, OwnersStarted, BeginApply, Idle, Ready
    <2>4. Alone'
      BY <1>3 DEF Alone, BeginApply, Idle, RecoveryClear, ClearJournals, Issue
    <2>5. RosterKept'
      BY <1>3 DEF RosterKept, BeginApply
    <2>6. PlanMatchesReceipt'
      BY <1>3 DEF PlanMatchesReceipt, OwnersStarted, BeginApply, Ready
    <2>7. Recoverable'
      BY <1>3 DEF Recoverable, BeginApply, RecoveryClear, ClearJournals, Issue
    <2>8. NoTrace' /\ AppliedIsApply' /\ NoDatabase' /\ AppliedOnce'
      BY <1>3 DEF NoTrace, AppliedIsApply, NoDatabase, AppliedOnce, BeginApply
    <2> QED BY <2>1, <2>2, <2>3, <2>4, <2>5, <2>6, <2>7, <2>8
  <1>4. CASE EngineRefuses
    <2>1. TypeOK'
      BY <1>4 DEF TypeOK, PlanStatus, EngineRefuses, Return
    <2>2. OwnersStarted'
      BY <1>4 DEF OwnersStarted, InFlight, EngineRefuses
    <2>3. InFlight'
      BY <1>4 DEF InFlight, EngineRefuses, Return
    <2>4. Alone'
      BY <1>4 DEF Alone, InFlight, EngineRefuses
    <2>5. RosterKept'
      BY <1>4 DEF RosterKept, EngineRefuses, Return
    <2>6. PlanMatchesReceipt'
      BY <1>4 DEF PlanMatchesReceipt, InFlight, EngineRefuses
    <2>7. Recoverable'
      BY <1>4 DEF Recoverable, InFlight, Started, Importable, EngineRefuses
    <2>8. NoTrace' /\ AppliedIsApply' /\ NoDatabase' /\ AppliedOnce'
      BY <1>4 DEF NoTrace, AppliedIsApply, NoDatabase, AppliedOnce,
         EngineRefuses
    <2> QED BY <2>1, <2>2, <2>3, <2>4, <2>5, <2>6, <2>7, <2>8
  <1>5. ASSUME NEW r \in Receipt, StartJournal(r) PROVE IInv'
    <2>1. TypeOK'
      BY <1>5 DEF TypeOK, ReceiptStatus, StartJournal, Publish
    <2>2. NoTrace'
      BY <1>5 DEF NoTrace, TypeOK, InFlight, StartJournal, Publish
    <2>3. AppliedIsApply'
      BY <1>5 DEF AppliedIsApply, StartJournal, Publish
    <2>4. OwnersStarted'
      BY <1>5 DEF OwnersStarted, InFlight, StartJournal, Publish
    <2>5. InFlight'
      BY <1>5 DEF InFlight, TypeOK, NoTrace, Applying, StartJournal, Publish,
         Unused
    <2>6. Alone'
      BY <1>5 DEF Alone, InFlight, StartJournal, Publish
    <2>7. RosterKept'
      BY <1>5 DEF RosterKept, StartJournal
    <2>8. AppliedOnce'
      BY <1>5 DEF AppliedOnce, InFlight, StartJournal, Publish, Unused
    <2>9. PlanMatchesReceipt'
      BY <1>5 DEF PlanMatchesReceipt, NoTrace, StartJournal, Publish, Unused
    <2>10. Recoverable'
      BY <1>5 DEF Recoverable, TypeOK, InFlight, Started, Importable,
         StartJournal, Publish
    <2>11. NoDatabase'
      BY <1>5 DEF NoDatabase, StartJournal
    <2> QED BY <2>1, <2>2, <2>3, <2>4, <2>5, <2>6, <2>7, <2>8, <2>9, <2>10,
         <2>11
  <1>6. ASSUME NEW s \in ReceiptStatus, EngineFails(s) PROVE IInv'
    <2>1. TypeOK'
      BY <1>6 DEF TypeOK, PlanStatus, EngineFails, Return, StatusAfterError,
         AfterApply
    <2>2. NoTrace'
      BY <1>6 DEF NoTrace, InFlight, Applying, EngineFails
    <2>3. OwnersStarted'
      BY <1>6 DEF OwnersStarted, EngineFails, StatusAfterError
    <2>4. InFlight'
      BY <1>6 DEF InFlight, EngineFails, Return
    <2>5. Alone'
      BY <1>6 DEF Alone, EngineFails, Return
    <2>6. RosterKept'
      BY <1>6 DEF RosterKept, EngineFails, Return
    <2>7. PlanMatchesReceipt'
      BY <1>6 DEF PlanMatchesReceipt, InFlight, AppliedOnce, Applying,
         EngineFails
    <2>8. Recoverable'
      BY <1>6 DEF Recoverable, InFlight, Started, Importable, Applying,
         EngineFails, StatusAfterError
    <2>9. AppliedIsApply' /\ NoDatabase' /\ AppliedOnce'
      BY <1>6 DEF AppliedIsApply, NoDatabase, AppliedOnce, EngineFails
    <2> QED BY <2>1, <2>2, <2>3, <2>4, <2>5, <2>6, <2>7, <2>8, <2>9
  <1>7. ASSUME NEW s \in ReceiptStatus, NEW w \in ReceiptStatus,
                EngineReturns(s, w)
         PROVE  IInv'
    <2>1. TypeOK'
      BY <1>7 DEF TypeOK, EngineReturns, Goto, AfterApply
    <2>2. NoTrace'
      BY <1>7 DEF NoTrace, InFlight, Applying, EngineReturns
    <2>3. InFlight'
      BY <1>7 DEF InFlight, Applying, EngineReturns, Goto
    <2>4. Alone'
      BY <1>7 DEF Alone, EngineReturns, Goto
    <2>5. RosterKept'
      BY <1>7 DEF RosterKept, EngineReturns, Goto
    <2>6. Recoverable'
      BY <1>7 DEF Recoverable, InFlight, Started, Importable, Applying,
         EngineReturns
    <2>7. AppliedIsApply' /\ OwnersStarted' /\ NoDatabase' /\ AppliedOnce' /\
         PlanMatchesReceipt'
      BY <1>7 DEF AppliedIsApply, OwnersStarted, NoDatabase, AppliedOnce,
         PlanMatchesReceipt, EngineReturns
    <2> QED BY <2>1, <2>2, <2>3, <2>4, <2>5, <2>6, <2>7
  <1>8. CASE ApplyRoster
    <2>1. TypeOK'
      BY <1>8 DEF TypeOK, Binding, InFlight, Applying, ApplyRoster, Goto
    <2>2. InFlight'
      BY <1>8 DEF InFlight, Applying, ApplyRoster, Goto
    <2>3. Alone'
      BY <1>8 DEF Alone, ApplyRoster, Goto
    <2>4. RosterKept'
      BY <1>8 DEF RosterKept, InFlight, ApplyRoster, Goto
    <2>5. NoTrace' /\ AppliedIsApply' /\ OwnersStarted' /\ NoDatabase' /\
         AppliedOnce' /\ PlanMatchesReceipt' /\ Recoverable'
      BY <1>8 DEF NoTrace, AppliedIsApply, OwnersStarted, NoDatabase,
         AppliedOnce, PlanMatchesReceipt, Recoverable, Importable, Started,
         ApplyRoster
    <2> QED BY <2>1, <2>2, <2>3, <2>4, <2>5
  <1>9. ASSUME NEW b \in BOOLEAN, ApplyRosterFails(b) PROVE IInv'
    <2>1. TypeOK'
      <3>1. roster' \in RosterState
        BY <1>9 DEF TypeOK, InFlight, Applying, Binding, ApplyRosterFails, RosterBefore
      <3>2. outcome' \in ReceiptStatus
        BY <1>9 DEF ApplyRosterFails, ReceiptStatus
      <3> QED BY <1>9, <3>1, <3>2, Zenon DEF TypeOK, ApplyRosterFails, Goto
    <2>2. InFlight'
      BY <1>9 DEF InFlight, Applying, ApplyRosterFails, Goto
    <2>3. Alone'
      BY <1>9 DEF Alone, ApplyRosterFails, Goto
    <2>4. RosterKept'
      BY <1>9 DEF RosterKept, ApplyRosterFails, Goto, RosterBefore
    <2>5. NoTrace' /\ AppliedIsApply' /\ OwnersStarted' /\ NoDatabase' /\
         AppliedOnce' /\ PlanMatchesReceipt' /\ Recoverable'
      BY <1>9 DEF NoTrace, AppliedIsApply, OwnersStarted, NoDatabase,
         AppliedOnce, PlanMatchesReceipt, Recoverable, Importable, Started,
         ApplyRosterFails
    <2> QED BY <2>1, <2>2, <2>3, <2>4, <2>5
  <1>10. ASSUME NEW b \in BOOLEAN, RollbackApply(b) PROVE IInv'
    <2>1. TypeOK'
      BY <1>10 DEF TypeOK, ReceiptStatus, RollbackApply, Goto
    <2>2. NoTrace'
      BY <1>10 DEF NoTrace, InFlight, Applying, RollbackApply
    <2>3. InFlight'
      BY <1>10 DEF InFlight, Applying, RollbackApply, Goto
    <2>4. Alone'
      BY <1>10 DEF Alone, RollbackApply, Goto
    <2>5. RosterKept'
      BY <1>10 DEF RosterKept, RollbackApply, Goto
    <2>6. Recoverable'
      BY <1>10 DEF Recoverable, InFlight, Started, Importable, Applying,
         RollbackApply
    <2>7. AppliedIsApply' /\ OwnersStarted' /\ NoDatabase' /\ AppliedOnce' /\
         PlanMatchesReceipt'
      BY <1>10 DEF AppliedIsApply, OwnersStarted, NoDatabase, AppliedOnce,
         PlanMatchesReceipt, RollbackApply
    <2> QED BY <2>1, <2>2, <2>3, <2>4, <2>5, <2>6, <2>7
  <1>11. CASE Persist
    <2>1. TypeOK'
      BY <1>11 DEF TypeOK, InFlight, Persist, Goto
    <2>2. NoTrace'
      BY <1>11 DEF NoTrace, InFlight, Applying, Undoing, Persist
    <2>3. InFlight'
      BY <1>11 DEF InFlight, Applying, Undoing, Persist, Goto
    <2>4. Alone'
      BY <1>11 DEF Alone, Persist, Goto
    <2>5. RosterKept'
      BY <1>11 DEF RosterKept, Persist, Goto
    <2>6. Recoverable'
      BY <1>11 DEF Recoverable, InFlight, Started, Importable, Applying,
         Undoing, Persist
    <2>7. AppliedIsApply' /\ OwnersStarted' /\ NoDatabase' /\ AppliedOnce' /\
         PlanMatchesReceipt'
      BY <1>11 DEF AppliedIsApply, OwnersStarted, NoDatabase, AppliedOnce,
         PlanMatchesReceipt, Persist
    <2> QED BY <2>1, <2>2, <2>3, <2>4, <2>5, <2>6, <2>7
  <1>12. CASE SaveApply
    <2>1. TypeOK'
      BY <1>12 DEF TypeOK, Binding, PlanStatus, InFlight, Applying, Undoing,
         SaveApply, Return
    <2>2. NoTrace'
      BY <1>12 DEF NoTrace, InFlight, Applying, Undoing, SaveApply
    <2>3. AppliedIsApply'
      BY <1>12 DEF AppliedIsApply, SaveApply
    <2>4. OwnersStarted'
      BY <1>12 DEF OwnersStarted, InFlight, SaveApply
    <2>5. InFlight'
      BY <1>12 DEF InFlight, SaveApply, Return
    <2>6. Alone'
      BY <1>12 DEF Alone, SaveApply, Return
    <2>7. NoDatabase'
      BY <1>12 DEF NoDatabase, Alone, SaveApply
    <2>8. RosterKept'
      BY <1>12 DEF RosterKept, SaveApply, Return
    <2>9. PlanMatchesReceipt'
      BY <1>12 DEF PlanMatchesReceipt, TypeOK, InFlight, AppliedOnce,
         Applying, Undoing, SaveApply
    <2>10. Recoverable'
      BY <1>12 DEF Recoverable, TypeOK, InFlight, Alone, SaveApply
    <2>11. AppliedOnce'
      BY <1>12 DEF AppliedOnce, SaveApply
    <2> QED BY <2>1, <2>2, <2>3, <2>4, <2>5, <2>6, <2>7, <2>8, <2>9, <2>10,
         <2>11
  <1>13. ASSUME NEW orig \in Receipt, NEW r \in Receipt,
                BeginUndo(orig, r)
         PROVE  IInv'
    <2>1. TypeOK'
      BY <1>13 DEF TypeOK, ReceiptStatus, BeginUndo, Publish
    <2>2. NoTrace'
      BY <1>13 DEF NoTrace, TypeOK, BeginUndo, Undoable, Publish
    <2>3. AppliedIsApply'
      BY <1>13 DEF AppliedIsApply, NoTrace, BeginUndo, Publish, Unused
    <2>4. OwnersStarted'
      BY <1>13 DEF OwnersStarted, BeginUndo, Publish
    <2>5. InFlight'
      BY <1>13 DEF InFlight, TypeOK, NoTrace, AppliedIsApply,
         PlanMatchesReceipt, Undoing, BeginUndo, Idle, Undoable, Publish,
         Unused
    <2>6. Alone'
      BY <1>13 DEF Alone, BeginUndo, Idle, ClearJournals, Issue, Publish
    <2>7. RosterKept'
      BY <1>13 DEF RosterKept, BeginUndo
    <2>8. AppliedOnce'
      BY <1>13 DEF AppliedOnce, TypeOK, BeginUndo, Publish
    <2>9. PlanMatchesReceipt'
      BY <1>13 DEF PlanMatchesReceipt, NoTrace, BeginUndo, Publish, Unused
    <2>10. Recoverable'
      BY <1>13 DEF Recoverable, TypeOK, AppliedIsApply, PlanMatchesReceipt,
         Importable, BeginUndo, Undoable, ClearJournals, Issue, Publish
    <2>11. NoDatabase'
      BY <1>13 DEF NoDatabase, BeginUndo
    <2> QED BY <2>1, <2>2, <2>3, <2>4, <2>5, <2>6, <2>7, <2>8, <2>9, <2>10,
         <2>11
  <1>14. ASSUME NEW s \in ReceiptStatus, UndoReturns(s) PROVE IInv'
    <2>1. TypeOK'
      BY <1>14 DEF TypeOK, UndoReturns, Goto
    <2>2. NoTrace'
      BY <1>14 DEF NoTrace, InFlight, Undoing, UndoReturns
    <2>3. InFlight'
      BY <1>14 DEF InFlight, Undoing, UndoReturns, Goto
    <2>4. Alone'
      BY <1>14 DEF Alone, UndoReturns, Goto
    <2>5. RosterKept'
      BY <1>14 DEF RosterKept, UndoReturns, Goto
    <2>6. Recoverable'
      BY <1>14 DEF Recoverable, InFlight, Started, Importable, Undoing,
         UndoReturns
    <2>7. AppliedIsApply' /\ OwnersStarted' /\ NoDatabase' /\ AppliedOnce' /\
         PlanMatchesReceipt'
      BY <1>14 DEF AppliedIsApply, OwnersStarted, NoDatabase, AppliedOnce,
         PlanMatchesReceipt, UndoReturns
    <2> QED BY <2>1, <2>2, <2>3, <2>4, <2>5, <2>6, <2>7
  <1>15. CASE RestoreRoster
    <2>1. TypeOK'
      BY <1>15 DEF TypeOK, Binding, InFlight, Undoing, RestoreRoster, Goto,
         RosterBefore
    <2>2. InFlight'
      BY <1>15 DEF InFlight, Undoing, RestoreRoster, Goto
    <2>3. Alone'
      BY <1>15 DEF Alone, RestoreRoster, Goto
    <2>4. RosterKept'
      BY <1>15 DEF RosterKept, InFlight, RestoreRoster, Goto
    <2>5. NoTrace' /\ AppliedIsApply' /\ OwnersStarted' /\ NoDatabase' /\
         AppliedOnce' /\ PlanMatchesReceipt' /\ Recoverable'
      BY <1>15 DEF NoTrace, AppliedIsApply, OwnersStarted, NoDatabase,
         AppliedOnce, PlanMatchesReceipt, Recoverable, Importable, Started,
         RestoreRoster
    <2> QED BY <2>1, <2>2, <2>3, <2>4, <2>5
  <1>16. CASE RestoreRosterFails
    <2>1. TypeOK'
      BY <1>16 DEF TypeOK, Binding, ReceiptStatus, InFlight, Undoing,
         RestoreRosterFails, Goto, RosterBefore
    <2>2. InFlight'
      BY <1>16 DEF InFlight, Undoing, RestoreRosterFails, Goto
    <2>3. Alone'
      BY <1>16 DEF Alone, RestoreRosterFails, Goto
    <2>4. RosterKept'
      BY <1>16 DEF RosterKept, RestoreRosterFails, Goto
    <2>5. NoTrace' /\ AppliedIsApply' /\ OwnersStarted' /\ NoDatabase' /\
         AppliedOnce' /\ PlanMatchesReceipt' /\ Recoverable'
      BY <1>16 DEF NoTrace, AppliedIsApply, OwnersStarted, NoDatabase,
         AppliedOnce, PlanMatchesReceipt, Recoverable, Importable, Started,
         RestoreRosterFails
    <2> QED BY <2>1, <2>2, <2>3, <2>4, <2>5
  <1>17. CASE SaveUndo
    <2>1. TypeOK'
      BY <1>17 DEF TypeOK, InFlight, Undoing, SaveUndo, Return
    <2>2. NoTrace'
      BY <1>17 DEF NoTrace, TypeOK, InFlight, Undoing, SaveUndo
    <2>3. AppliedIsApply'
      BY <1>17 DEF AppliedIsApply, TypeOK, InFlight, Applying, SaveUndo
    <2>4. InFlight'
      BY <1>17 DEF InFlight, SaveUndo, Return
    <2>5. Alone'
      BY <1>17 DEF Alone, SaveUndo, Return
    <2>6. NoDatabase'
      BY <1>17 DEF NoDatabase, InFlight, Applying, Undoing, SaveUndo
    <2>7. RosterKept'
      BY <1>17 DEF RosterKept, SaveUndo, Return
    <2>8. PlanMatchesReceipt'
      BY <1>17 DEF PlanMatchesReceipt, TypeOK, InFlight, Undoing, SaveUndo
    <2>9. Recoverable'
      BY <1>17 DEF Recoverable, TypeOK, InFlight, Alone, SaveUndo
    <2>10. OwnersStarted' /\ AppliedOnce'
      BY <1>17 DEF OwnersStarted, AppliedOnce, SaveUndo
    <2> QED BY <2>1, <2>2, <2>3, <2>4, <2>5, <2>6, <2>7, <2>8, <2>9, <2>10
  <1>18. ASSUME NEW r \in Receipt, Recover(r) PROVE IInv'
    <2>1. TypeOK'
      BY <1>18 DEF TypeOK, ReceiptStatus, PlanStatus, Recover, ImportedAs,
         PlanAfterImport
    <2>2. NoTrace'
      BY <1>18 DEF NoTrace, Recover
    <2>3. AppliedIsApply'
      BY <1>18 DEF AppliedIsApply, Recover, ImportedAs
    <2>4. OwnersStarted'
      BY <1>18 DEF OwnersStarted, Recover, PlanAfterImport
    <2>5. InFlight'
      BY <1>18 DEF InFlight, Recover, Idle
    <2>6. Alone'
      BY <1>18 DEF Alone, Recover, Idle
    <2>7. NoDatabase'
      BY <1>18 DEF NoDatabase, Recover, Idle
    <2>8. PlanMatchesReceipt'
      BY <1>18 DEF PlanMatchesReceipt, TypeOK, NoTrace, AppliedOnce, Recover,
         ImportedAs, PlanAfterImport
    <2>9. Recoverable'
      BY <1>18 DEF Recoverable, Started, Importable, Recover, PlanAfterImport
    <2>10. RosterKept' /\ AppliedOnce'
      BY <1>18 DEF RosterKept, AppliedOnce, Recover
    <2> QED BY <2>1, <2>2, <2>3, <2>4, <2>5, <2>6, <2>7, <2>8, <2>9, <2>10
  <1>19. CASE BeginPurge
    <2>1. TypeOK'
      BY <1>19 DEF TypeOK, PlanStatus, BeginPurge, Forgotten, NoRows,
         NoEffects
    <2>2. NoTrace'
      BY <1>19 DEF NoTrace, BeginPurge, NoRows
    <2>3. AppliedIsApply'
      BY <1>19 DEF AppliedIsApply, BeginPurge, NoRows
    <2>4. OwnersStarted'
      BY <1>19 DEF OwnersStarted, TypeOK, BeginPurge, Forgotten
    <2>5. InFlight'
      BY <1>19 DEF InFlight, BeginPurge, Idle
    <2>6. Alone'
      BY <1>19 DEF Alone, BeginPurge
    <2>7. NoDatabase'
      BY <1>19 DEF NoDatabase, BeginPurge, Idle
    <2>8. RosterKept'
      BY <1>19 DEF RosterKept, BeginPurge
    <2>9. PlanMatchesReceipt'
      BY <1>19 DEF PlanMatchesReceipt, BeginPurge, NoRows
    <2>10. Recoverable'
      BY <1>19 DEF Recoverable, TypeOK, NoTrace, Started, BeginPurge,
         Forgotten
    <2>11. AppliedOnce'
      BY <1>19 DEF AppliedOnce, BeginPurge
    <2> QED BY <2>1, <2>2, <2>3, <2>4, <2>5, <2>6, <2>7, <2>8, <2>9, <2>10,
         <2>11
  <1>20. CASE BeginDelete
    <2>1. TypeOK'
      <3>1. status' \in [Plan -> PlanStatus]
        BY <1>20 DEF TypeOK, BeginDelete, Forgotten, PlanStatus
      <3>2. purges' \in 0 .. MaxPurges /\ scan' \in 0 .. MaxScans
        BY <1>20 DEF TypeOK, BeginDelete
      <3>3. db' \in BOOLEAN /\ stale' \in BOOLEAN
        BY <1>20, Zenon DEF BeginDelete
      <3> QED BY <1>20, <3>1, <3>2, <3>3, Zenon DEF TypeOK, BeginDelete, NoRows, NoEffects
    <2>2. NoTrace'
      BY <1>20 DEF NoTrace, BeginDelete, NoRows
    <2>3. AppliedIsApply'
      BY <1>20 DEF AppliedIsApply, BeginDelete, NoRows
    <2>4. OwnersStarted'
      BY <1>20 DEF OwnersStarted, TypeOK, BeginDelete, Forgotten
    <2>5. InFlight'
      BY <1>20 DEF InFlight, BeginDelete
    <2>6. Alone'
      BY <1>20 DEF Alone, BeginDelete
    <2>7. NoDatabase'
      BY <1>20 DEF NoDatabase, BeginDelete, NoRows
    <2>8. RosterKept'
      BY <1>20 DEF RosterKept, BeginDelete
    <2>9. PlanMatchesReceipt'
      BY <1>20 DEF PlanMatchesReceipt, BeginDelete, NoRows
    <2>10. Recoverable'
      BY <1>20 DEF Recoverable, TypeOK, NoTrace, Started, BeginDelete,
         Forgotten
    <2>11. AppliedOnce'
      BY <1>20 DEF AppliedOnce, BeginDelete
    <2> QED BY <2>1, <2>2, <2>3, <2>4, <2>5, <2>6, <2>7, <2>8, <2>9, <2>10,
         <2>11
  <1>21. CASE EndSweep
    <2>1. TypeOK'
      BY <1>21 DEF TypeOK, EndSweep, Return
    <2>2. InFlight'
      BY <1>21 DEF InFlight, EndSweep, Return
    <2>3. Alone'
      BY <1>21 DEF Alone, EndSweep, Return
    <2>4. RosterKept'
      BY <1>21 DEF RosterKept, EndSweep, Return
    <2>5. NoTrace' /\ AppliedIsApply' /\ OwnersStarted' /\ NoDatabase' /\
         AppliedOnce' /\ PlanMatchesReceipt' /\ Recoverable'
      BY <1>21 DEF NoTrace, AppliedIsApply, OwnersStarted, NoDatabase,
         AppliedOnce, PlanMatchesReceipt, Recoverable, EndSweep
    <2> QED BY <2>1, <2>2, <2>3, <2>4, <2>5
  <1>22. CASE OpenDatabase
    <2>1. TypeOK'
      BY <1>22 DEF TypeOK, OpenDatabase
    <2>2. Alone'
      BY <1>22 DEF Alone, OpenDatabase
    <2>3. NoDatabase'
      BY <1>22 DEF NoDatabase, OpenDatabase
    <2>4. NoTrace' /\ AppliedIsApply' /\ OwnersStarted' /\ InFlight' /\
         RosterKept' /\ AppliedOnce' /\ PlanMatchesReceipt' /\ Recoverable'
      BY <1>22 DEF NoTrace, AppliedIsApply, OwnersStarted, InFlight,
         RosterKept, AppliedOnce, PlanMatchesReceipt, Recoverable, Importable,
         Started, OpenDatabase
    <2> QED BY <2>1, <2>2, <2>3, <2>4
  <1>23. ASSUME NEW r \in Receipt, RemoveJournal(r) PROVE IInv'
    <2>1. TypeOK'
      BY <1>23 DEF TypeOK, RemoveJournal
    <2>2. NoTrace'
      BY <1>23 DEF NoTrace, RemoveJournal
    <2>3. Alone'
      BY <1>23 DEF Alone, RemoveJournal
    <2>4. Recoverable'
      BY <1>23 DEF Recoverable, Started, Importable, RemoveJournal
    <2>5. AppliedIsApply' /\ OwnersStarted' /\ InFlight' /\ NoDatabase' /\
         RosterKept' /\ AppliedOnce' /\ PlanMatchesReceipt'
      BY <1>23 DEF AppliedIsApply, OwnersStarted, InFlight, NoDatabase,
         RosterKept, AppliedOnce, PlanMatchesReceipt, RemoveJournal
    <2> QED BY <2>1, <2>2, <2>3, <2>4, <2>5
  <1>24. CASE Abandon
    <2>1. TypeOK'
      <3>1. CASE Interrupted = {}
        BY <1>24, <3>1 DEF TypeOK, Abandon, Return
      <3>2. CASE Interrupted # {}
        BY <1>24, <3>2 DEF TypeOK, InFlight, Applying, Undoing, Abandon, Return, Interrupted, ReceiptStatus
      <3> QED BY <3>1, <3>2
    <2>2. NoTrace'
      BY <1>24 DEF NoTrace, TypeOK, InFlight, Applying, Undoing, Abandon
    <2>3. InFlight'
      BY <1>24 DEF InFlight, Abandon, Return
    <2>4. Alone'
      BY <1>24 DEF Alone, Abandon, Return
    <2>5. RosterKept'
      BY <1>24 DEF RosterKept, Abandon, Return
    <2>6. Recoverable'
      BY <1>24 DEF Recoverable, TypeOK, InFlight, Applying, Undoing,
         Importable, Started, Abandon
    <2>7. AppliedIsApply' /\ OwnersStarted' /\ NoDatabase' /\ AppliedOnce' /\
         PlanMatchesReceipt'
      BY <1>24 DEF AppliedIsApply, OwnersStarted, NoDatabase, AppliedOnce,
         PlanMatchesReceipt, Abandon
    <2> QED BY <2>1, <2>2, <2>3, <2>4, <2>5, <2>6, <2>7
  <1>25. CASE UNCHANGED vars
    <2>1. TypeOK'
      BY <1>25 DEF TypeOK
    <2>2. NoTrace' /\ AppliedIsApply' /\ OwnersStarted' /\ InFlight' /\ Alone'
         /\ NoDatabase' /\ RosterKept' /\ AppliedOnce' /\ PlanMatchesReceipt'
         /\ Recoverable'
      BY <1>25 DEF NoTrace, AppliedIsApply, OwnersStarted, InFlight, Alone,
         NoDatabase, RosterKept, AppliedOnce, PlanMatchesReceipt, Recoverable,
         Applying, Undoing, Importable, Started
    <2> QED BY <2>1, <2>2
  <1>26. QED
    BY <1>1, <1>2, <1>3, <1>4, <1>5, <1>6, <1>7, <1>8, <1>9, <1>10, <1>11,
       <1>12, <1>13, <1>14, <1>15, <1>16, <1>17, <1>18, <1>19, <1>20, <1>21,
       <1>22, <1>23, <1>24, <1>25 DEF Next

(* The invariant holds in every reachable state.                           *)
THEOREM Invariant == Spec => []IInv
  BY InitIInv, NextIInv, PTL DEF Spec

(* Every variable keeps its type, whatever command stops wherever.         *)
THEOREM TypeCorrect == Spec => []TypeOK
  <1>1. IInv => TypeOK
    BY DEF IInv
  <1> QED BY Invariant, <1>1, PTL

(* update_plan_status and the status the engine's error leaves a Plan in   *)
(* let no Plan be applied twice: it never has two Apply Receipts.          *)
THEOREM AppliesOnce == Spec => []AppliedOnce
  <1>1. IInv => AppliedOnce
    BY DEF IInv
  <1> QED BY Invariant, <1>1, PTL

(* save_apply_receipt, save_undo_receipt and save_recovery_receipt keep    *)
(* the Receipt of an Apply and its Plan in matching states.                *)
THEOREM PlanAndReceiptMatch == Spec => []PlanMatchesReceipt
  <1>1. IInv => PlanMatchesReceipt
    BY DEF IInv
  <1> QED BY Invariant, <1>1, PTL

(* save_recovery_receipt accepts every journal that an interrupted command *)
(* left without a row, as long as its Plan is retained.                    *)
THEOREM EveryOrphanImports == Spec => []Recoverable
  <1>1. IInv => Recoverable
    BY DEF IInv
  <1> QED BY Invariant, <1>1, PTL

(* apply_command records failed_rolled_back only with the roster restored. *)
THEOREM RollbackRestoresRoster == Spec => []RolledBackRoster
  <1>1. IInv => RolledBackRoster
    BY DEF IInv, RosterKept, RolledBackRoster
  <1> QED BY Invariant, <1>1, PTL

(* Which steps write a row: none of them one that requires recovery.       *)
LEMMA NextRecoverySticks ==
  ASSUME IInv, [Next]_vars, NEW x \in Receipt, row[x] = "recoveryRequired"
  PROVE  row'[x] = "recoveryRequired"
  <1> USE DEF IInv
  <1>1. CASE SaveApply
    BY <1>1 DEF SaveApply, TypeOK, InFlight, Applying, Undoing
  <1>2. CASE SaveUndo
    BY <1>2 DEF SaveUndo, TypeOK, InFlight, Applying, Undoing
  <1>3. ASSUME NEW r \in Receipt, Recover(r) PROVE row'[x] = "recoveryRequired"
    BY <1>3 DEF Recover, ImportedAs, TypeOK
  <1>4. CASE BeginPurge
    BY <1>4 DEF BeginPurge, RecoveryClear, RecoveryRequired
  <1>5. CASE BeginDelete
    BY <1>5 DEF BeginDelete, DeleteAllowed, RecoveryClear, RecoveryRequired, NoDatabase
  <1>6. CASE UNCHANGED row
    BY <1>6
  <1> HIDE DEF IInv
  <1>7. QED
    BY <1>1, <1>2, <1>3, <1>4, <1>5, <1>6
    DEF Next, vars, sqlite, Scan, PreparePlan, SavePlan, PlanRecord, BeginApply, EngineRefuses,
        StartJournal, EngineFails, EngineReturns, ApplyRoster, ApplyRosterFails,
        RollbackApply, Persist, BeginUndo, UndoReturns, RestoreRoster,
        RestoreRosterFails, EndSweep, OpenDatabase, RemoveJournal, Abandon

(* Nothing resolves a Receipt that requires recovery, not even another     *)
(* Undo, a purge or a deletion.                                            *)
THEOREM RecoveryIsKept == Spec => RecoverySticks
  <1>1. IInv /\ [Next]_vars
          => [\A r \in Receipt :
                 row[r] = "recoveryRequired" => row'[r] = "recoveryRequired"]_vars
    BY NextRecoverySticks
  <1> QED BY Invariant, <1>1, PTL DEF Spec, RecoverySticks

-----------------------------------------------------------------------------
(* The two stores and the filesystem.  A Receipt whose effect differs from *)
(* its row is in the running command's hand, or unresolved: the command    *)
(* published a journal before it touched a file, and no row records it.    *)
InHand(r) == cur \in Receipt /\ (r = cur \/ reverses[cur] = r)
Matches(r) == effect[r] = IF row[r] = "applied" THEN "done" ELSE "none"

(* What the command knows of its own effect when it saves its outcome.     *)
HandKnown ==
    /\ cur \in Receipt => journal[cur] # "absent"
    /\ pc \in {"metadata", "persist", "save"} /\ outcome = "applied" => effect[cur] = "done"
    /\ pc \in {"persist", "save"} /\ outcome = "failedRolledBack" => effect[cur] = "none"
    /\ pc \in {"restore", "persist", "save"} /\ outcome = "undone"
          => effect[reverses[cur]] = "none"

AccountKept ==
    \A r \in Receipt : reverses[r] # NoReceipt \/ Matches(r) \/ Unresolved(r) \/ InHand(r)

(* A purge forgets all rows, and starts with every effect accepted.        *)
SweepClean == pc = "sweep" => \A r \in Receipt : Matches(r)

EInv == HandKnown /\ AccountKept /\ SweepClean

LEMMA InitEInv == Init => EInv
  BY GovernanceAssumption DEF Init, EInv, HandKnown, AccountKept, SweepClean, Matches

LEMMA NextHandKnown == IInv /\ HandKnown /\ [Next]_vars => HandKnown'
  <1> SUFFICES ASSUME IInv, HandKnown, [Next]_vars PROVE HandKnown'
    OBVIOUS
  <1> USE GovernanceAssumption
  <1>1. TypeOK /\ InFlight /\ NoTrace
    BY DEF IInv
  <1>2. CASE UNCHANGED <<journal, reverses, effect, command>>
    BY <1>2 DEF HandKnown, command
  <1>3. CASE pc' \in {"idle", "journal", "sweep"} /\ cur' \notin Receipt
    BY <1>3 DEF HandKnown
  <1>4. ASSUME NEW r \in Receipt, StartJournal(r) PROVE HandKnown'
    BY <1>1, <1>4 DEF HandKnown, TypeOK, StartJournal, Publish
  <1>5. ASSUME NEW s \in ReceiptStatus, NEW w \in ReceiptStatus, EngineReturns(s, w)
        PROVE  HandKnown'
    BY <1>1, <1>5 DEF HandKnown, TypeOK, InFlight, Applying, EngineReturns, Goto, AfterApply, JournalOf
  <1>6. CASE ApplyRoster \/ (\E b \in BOOLEAN : ApplyRosterFails(b)) \/ RestoreRoster
             \/ RestoreRosterFails
    BY <1>1, <1>6 DEF HandKnown, InFlight, Applying, Undoing, ApplyRoster, ApplyRosterFails,
                      RestoreRoster, RestoreRosterFails, Goto, receipts, history
  <1>7. ASSUME NEW b \in BOOLEAN, RollbackApply(b) PROVE HandKnown'
    BY <1>1, <1>7 DEF HandKnown, TypeOK, InFlight, Applying, RollbackApply, Goto
  <1>8. CASE Persist
    BY <1>1, <1>8 DEF HandKnown, TypeOK, InFlight, Applying, Undoing, Persist, Goto
  <1>9. ASSUME NEW orig \in Receipt, NEW r \in Receipt, BeginUndo(orig, r) PROVE HandKnown'
    BY <1>1, <1>9 DEF HandKnown, TypeOK, BeginUndo, Publish
  <1>10. ASSUME NEW s \in ReceiptStatus, UndoReturns(s) PROVE HandKnown'
    BY <1>1, <1>10 DEF HandKnown, TypeOK, InFlight, Undoing, UndoReturns, Goto
  <1>11. ASSUME Scan \/ (\E p \in Plan, to \in RosterState \ {Unset} : PreparePlan(p, to))
                \/ (\E r \in Receipt : Recover(r)) \/ OpenDatabase \/ UNCHANGED vars
         PROVE  UNCHANGED <<journal, reverses, effect, command>>
    BY <1>11 DEF Scan, PreparePlan, SavePlan, Recover, OpenDatabase, vars, receipts, history, command
  <1>12. ASSUME (\E p \in Plan : BeginApply(p)) \/ EngineRefuses
                \/ (\E s \in ReceiptStatus : EngineFails(s)) \/ SaveApply \/ SaveUndo
                \/ BeginPurge \/ BeginDelete \/ EndSweep \/ (\E r \in Receipt : RemoveJournal(r))
                \/ Abandon
         PROVE  pc' \in {"idle", "journal", "sweep"} /\ cur' \notin Receipt
    BY <1>1, <1>12 DEF InFlight, BeginApply, EngineRefuses, EngineFails, SaveApply, SaveUndo,
       BeginPurge, BeginDelete, EndSweep, RemoveJournal, Abandon, Return, Idle, command
  <1> QED
    BY <1>2, <1>3, <1>4, <1>5, <1>6, <1>7, <1>8, <1>9, <1>10, <1>11, <1>12 DEF Next

(* A step that touches neither rows nor effects, and whose only change to  *)
(* the journals is to the one in hand.                                     *)
LEMMA InHandStep ==
  ASSUME IInv, EInv, UNCHANGED <<row, effect, reverses>>, cur' = cur, pc' # "sweep",
         \A r \in Receipt : r # cur => journal'[r] = journal[r]
  PROVE  AccountKept' /\ SweepClean'
  <1>1. ASSUME NEW r \in Receipt, Unresolved(r), ~InHand(r) PROVE Unresolved(r)'
    BY <1>1 DEF Unresolved, InHand, Issue, Pending
  <1> QED  BY <1>1 DEF EInv, AccountKept, SweepClean, Matches, InHand

(* A step that leaves the journal in hand, and its row, as an orphan.      *)
LEMMA OrphanStep ==
  ASSUME IInv, EInv, cur \in Receipt, UNCHANGED <<row, reverses>>, pc' # "sweep",
         journal'[cur] # "absent", row[cur] = "absent",
         \A r \in Receipt : r # cur => journal'[r] = journal[r] /\ effect'[r] = effect[r]
  PROVE  AccountKept' /\ SweepClean'
  <1>1. ASSUME NEW r \in Receipt, Unresolved(r) \/ InHand(r) PROVE Unresolved(r)'
    <2>1. CASE InHand(r)
      BY <2>1 DEF Unresolved, InHand, Issue
    <2>2. CASE Unresolved(r) /\ ~InHand(r)
      BY <2>2 DEF Unresolved, InHand, Issue, Pending
    <2> QED  BY <1>1, <2>1, <2>2
  <1>2. ASSUME NEW r \in Receipt, Matches(r), ~InHand(r) PROVE Matches(r)'
    BY <1>2 DEF Matches, InHand
  <1> QED  BY <1>1, <1>2 DEF EInv, AccountKept, SweepClean

LEMMA NextEInv == IInv /\ EInv /\ [Next]_vars => EInv'
  <1> SUFFICES ASSUME IInv, EInv, [Next]_vars PROVE AccountKept' /\ SweepClean'
    BY NextHandKnown DEF EInv
  <1> DEFINE Kept == AccountKept' /\ SweepClean'
  <1>1. TypeOK /\ InFlight /\ NoTrace /\ Alone /\ AppliedIsApply
    BY DEF IInv
  <1>2. ASSUME UNCHANGED <<journal, row, effect, reverses>>, cur' = cur, pc' # "sweep"
        PROVE  Kept
    BY <1>2, InHandStep
  <1>3. CASE Scan \/ OpenDatabase \/ UNCHANGED vars
             \/ (\E p \in Plan, to \in RosterState \ {Unset} : PreparePlan(p, to))
    BY <1>3 DEF Scan, OpenDatabase, PreparePlan, SavePlan, vars, receipts, history, command, sqlite,
       Idle, EInv, AccountKept, SweepClean, Matches, Unresolved, InHand, Issue, Pending
  <1>4. CASE (\E p \in Plan : BeginApply(p)) \/ EngineRefuses \/ ApplyRoster
             \/ (\E b \in BOOLEAN : ApplyRosterFails(b)) \/ RestoreRoster \/ RestoreRosterFails
    BY <1>1, <1>2, <1>4 DEF BeginApply, EngineRefuses, ApplyRoster, ApplyRosterFails, RestoreRoster,
       RestoreRosterFails, Return, Goto, receipts, history, sqlite, InFlight
  <1>5. ASSUME NEW r \in Receipt, StartJournal(r) PROVE Kept
    <2>1. ASSUME NEW x \in Receipt, Unresolved(x) PROVE Unresolved(x)'
      BY <1>1, <1>5, <2>1 DEF StartJournal, Publish, Unused, NoTrace, TypeOK, sqlite,
         Unresolved, Issue, Pending
    <2>2. ASSUME NEW x \in Receipt, Matches(x), x # r PROVE Matches(x)'
      BY <1>1, <1>5, <2>2 DEF StartJournal, Matches, TypeOK, sqlite
    <2>3. InHand(r)' /\ \A x \in Receipt : ~InHand(x)
      BY <1>1, <1>5, GovernanceAssumption DEF StartJournal, Publish, InHand, InFlight, TypeOK
    <2>4. ASSUME NEW x \in Receipt, reverses'[x] = NoReceipt PROVE reverses[x] = NoReceipt
      BY <1>1, <1>5, <2>4 DEF StartJournal, Publish, Unused, NoTrace, TypeOK
    <2>5. AccountKept'
      BY <2>1, <2>2, <2>3, <2>4 DEF EInv, AccountKept
    <2> QED  BY <1>5, <2>5 DEF StartJournal, SweepClean
  <1>6. ASSUME NEW s \in ReceiptStatus, EngineFails(s) PROVE Kept
    BY <1>1, <1>6, OrphanStep DEF EngineFails, InFlight, Applying, TypeOK, Return
  <1>7. ASSUME NEW s \in ReceiptStatus, NEW w \in ReceiptStatus, EngineReturns(s, w) PROVE Kept
    <2>1. w # "absent" /\ s # "absent"
      BY DEF ReceiptStatus
    <2> QED  BY <1>1, <1>7, <2>1, OrphanStep DEF EngineReturns, InFlight, Applying, TypeOK, Goto, sqlite
  <1>8. ASSUME NEW b \in BOOLEAN, RollbackApply(b) PROVE Kept
    BY <1>1, <1>8, OrphanStep DEF RollbackApply, InFlight, Applying, TypeOK, Goto, sqlite
  <1>9. CASE Persist
    BY <1>1, <1>9, InHandStep DEF Persist, Goto, TypeOK, sqlite
  <1>10. CASE SaveApply
    <2>1. PICK k \in Receipt : k = cur
      BY <1>1, <1>10 DEF SaveApply, InFlight, Applying, Undoing
    <2>2. /\ reverses[k] = NoReceipt /\ Applying /\ pc' = "idle"
          /\ row' = [row EXCEPT ![k] = outcome] /\ row'[k] = outcome
          /\ UNCHANGED <<journal, reverses, effect>>
      BY <1>1, <1>10, <2>1, GovernanceAssumption
      DEF SaveApply, Return, InFlight, Applying, Undoing, receipts, history, TypeOK
    <2>3. outcome \in {"applied", "failedRolledBack", "recoveryRequired"}
      BY <1>1, <1>10, <2>1, <2>2, GovernanceAssumption DEF SaveApply, InFlight, Undoing
    <2>4. ASSUME NEW x \in Receipt, x # k, Unresolved(x) PROVE Unresolved(x)'
      <3>1. PICK u \in Receipt : (u = x \/ reverses[u] = x) /\ (Issue(u) \/ row[u] = "recoveryRequired")
        BY <2>4 DEF Unresolved
      <3>2. u # k /\ row'[u] = row[u]
        BY <1>1, <2>2, <2>4, <3>1, GovernanceAssumption DEF TypeOK
      <3> QED  BY <2>2, <3>1, <3>2 DEF Unresolved, Issue, Pending
    <2>5. ASSUME NEW x \in Receipt, x # k, Matches(x) PROVE Matches(x)'
      BY <1>1, <2>2, <2>5 DEF TypeOK, Matches
    <2>6. Matches(k)' \/ Unresolved(k)'
      <3>1. CASE outcome = "recoveryRequired"
        BY <2>2, <3>1 DEF Unresolved
      <3>2. CASE outcome \in {"applied", "failedRolledBack"}
        BY <1>10, <2>1, <2>2, <3>2 DEF SaveApply, EInv, HandKnown, Matches
      <3> QED  BY <2>3, <3>1, <3>2
    <2>7. ASSUME NEW x \in Receipt, InHand(x) PROVE x = k
      BY <2>1, <2>2, <2>7, GovernanceAssumption DEF InHand
    <2>8. AccountKept'
      <3> SUFFICES ASSUME NEW x \in Receipt, reverses'[x] = NoReceipt
                   PROVE  Matches(x)' \/ Unresolved(x)'
        BY DEF AccountKept
      <3> QED  BY <2>2, <2>4, <2>5, <2>6, <2>7 DEF EInv, AccountKept
    <2> QED  BY <2>2, <2>8 DEF SweepClean
  <1>11. ASSUME NEW orig \in Receipt, NEW r \in Receipt, BeginUndo(orig, r) PROVE Kept
    <2>1. ASSUME NEW x \in Receipt, Unresolved(x) PROVE Unresolved(x)'
      BY <1>1, <1>11, <2>1 DEF BeginUndo, Publish, Unused, NoTrace, TypeOK, sqlite,
         Unresolved, Issue, Pending
    <2>2. ASSUME NEW x \in Receipt, Matches(x), x # orig PROVE Matches(x)'
      BY <1>1, <1>11, <2>2 DEF BeginUndo, Matches, TypeOK, sqlite
    <2>3. InHand(orig)' /\ \A x \in Receipt : ~InHand(x)
      <3>1. cur = NoReceipt /\ cur' = r /\ reverses'[r] = orig
        BY <1>1, <1>11 DEF BeginUndo, Publish, InFlight, Idle, TypeOK
      <3> QED  BY <3>1, GovernanceAssumption DEF InHand
    <2>4. ASSUME NEW x \in Receipt, reverses'[x] = NoReceipt PROVE reverses[x] = NoReceipt
      BY <1>1, <1>11, <2>4 DEF BeginUndo, Publish, Unused, NoTrace, TypeOK
    <2>5. AccountKept'
      BY <2>1, <2>2, <2>3, <2>4 DEF EInv, AccountKept
    <2> QED  BY <1>11, <2>5 DEF BeginUndo, SweepClean
  <1>12. ASSUME NEW s \in ReceiptStatus, UndoReturns(s) PROVE Kept
    <2>1. ASSUME NEW x \in Receipt, Unresolved(x), ~InHand(x) PROVE Unresolved(x)'
      BY <1>1, <1>12, <2>1 DEF UndoReturns, TypeOK, sqlite, Unresolved, InHand, InFlight, Undoing,
         Issue, Pending
    <2>2. ASSUME NEW x \in Receipt, Matches(x), ~InHand(x) PROVE Matches(x)'
      BY <1>1, <1>12, <2>2 DEF UndoReturns, TypeOK, sqlite, Matches, InHand, InFlight, Undoing
    <2>3. ASSUME NEW x \in Receipt, InHand(x) PROVE InHand(x)'
      BY <1>12, <2>3 DEF UndoReturns, Goto, InHand
    <2> QED
      BY <1>12, <2>1, <2>2, <2>3 DEF EInv, AccountKept, SweepClean, UndoReturns, Goto
  <1>13. CASE SaveUndo
    <2>1. PICK k \in Receipt, orig \in Receipt : k = cur /\ orig = reverses[k]
      BY <1>1, <1>13 DEF SaveUndo, InFlight, Applying, Undoing
    <2>2. /\ Undoing /\ orig # k /\ reverses[orig] = NoReceipt
          /\ outcome \in {"undone", "recoveryRequired"}
      BY <1>1, <1>13, <2>1, GovernanceAssumption DEF SaveUndo, InFlight, Applying, Undoing, AppliedIsApply
    <2>3. /\ pc' = "idle" /\ UNCHANGED <<journal, reverses, effect>>
          /\ row'[k] = outcome /\ (outcome = "undone" => row'[orig] = "undone")
          /\ \A x \in Receipt : x # k /\ x # orig => row'[x] = row[x]
      BY <1>1, <1>13, <2>1, <2>2 DEF SaveUndo, Return, receipts, history, TypeOK
    <2>4. ASSUME NEW x \in Receipt, x # orig, reverses[x] = NoReceipt, Unresolved(x)
          PROVE  Unresolved(x)'
      <3>1. PICK u \in Receipt : (u = x \/ reverses[u] = x) /\ (Issue(u) \/ row[u] = "recoveryRequired")
        BY <2>4 DEF Unresolved
      <3>2. u # k /\ u # orig
        BY <2>1, <2>2, <2>4, <3>1, GovernanceAssumption
      <3> QED  BY <2>3, <3>1, <3>2 DEF Unresolved, Issue, Pending
    <2>5. ASSUME NEW x \in Receipt, x # orig, reverses[x] = NoReceipt, Matches(x) PROVE Matches(x)'
      <3>1. x # k
        BY <2>1, <2>5, GovernanceAssumption
      <3> QED  BY <2>3, <2>5, <3>1 DEF Matches
    <2>6. Matches(orig)' \/ Unresolved(orig)'
      <3>1. CASE outcome = "undone"
        BY <1>13, <2>1, <2>3, <3>1 DEF SaveUndo, EInv, HandKnown, Matches
      <3>2. CASE outcome = "recoveryRequired"
        BY <2>1, <2>3, <3>2 DEF Unresolved
      <3> QED  BY <2>2, <3>1, <3>2
    <2>7. ASSUME NEW x \in Receipt, InHand(x), reverses[x] = NoReceipt PROVE x = orig
      BY <2>1, <2>7, GovernanceAssumption DEF InHand
    <2>8. AccountKept'
      <3> SUFFICES ASSUME NEW x \in Receipt, reverses'[x] = NoReceipt
                   PROVE  Matches(x)' \/ Unresolved(x)'
        BY DEF AccountKept
      <3> QED  BY <2>3, <2>4, <2>5, <2>6, <2>7 DEF EInv, AccountKept
    <2> QED  BY <2>3, <2>8 DEF SweepClean
  <1>14. ASSUME NEW r \in Receipt, Recover(r) PROVE Kept
    <2>1. ASSUME NEW x \in Receipt, Unresolved(x) \/ x = r PROVE Unresolved(x)'
      BY <1>1, <1>14, <2>1 DEF Recover, ImportedAs, TypeOK, receipts, Unresolved, Issue, Pending
    <2>2. ASSUME NEW x \in Receipt, Matches(x), x # r PROVE Matches(x)'
      BY <1>1, <1>14, <2>2 DEF Recover, TypeOK, Matches, history
    <2>3. \A x \in Receipt : ~InHand(x)
      BY <1>1, <1>14, GovernanceAssumption DEF Recover, Idle, InFlight, InHand
    <2> QED
      BY <1>14, <2>1, <2>2, <2>3 DEF EInv, AccountKept, SweepClean, Recover, Idle, receipts, command
  <1>15. CASE BeginPurge \/ BeginDelete
    <2>1. \A r \in Receipt : Matches(r)'
      BY <1>15 DEF BeginPurge, BeginDelete, NoRows, NoEffects, Matches
    <2> QED  BY <2>1 DEF AccountKept, SweepClean
  <1>16. CASE EndSweep \/ \E r \in Receipt : RemoveJournal(r)
    <2>1. \A r \in Receipt : Matches(r)'
      BY <1>16 DEF EndSweep, RemoveJournal, Matches, EInv, SweepClean, sqlite, history
    <2> QED  BY <2>1 DEF AccountKept, SweepClean
  <1>17. CASE Abandon
    <2>1. CASE cur \in Receipt
      <3>1. row[cur] = "absent" /\ journal[cur] # "absent" /\ Return
        BY <1>1, <1>17, <2>1, GovernanceAssumption
        DEF Abandon, InFlight, Applying, Undoing, EInv, HandKnown, TypeOK
      <3>2. journal'[cur] # "absent"
        BY <1>1, <1>17, <2>1, <3>1 DEF Abandon, Interrupted, TypeOK, InFlight
      <3> QED  BY <1>1, <1>17, <2>1, <3>1, <3>2, OrphanStep DEF Abandon, TypeOK, Return, sqlite
    <2>2. CASE cur \notin Receipt
      <3>1. pc \in {"journal", "sweep"} /\ Interrupted = {} /\ cur = NoReceipt
        BY <1>1, <1>17, <2>2 DEF Abandon, TypeOK, InFlight, Applying, Undoing, Interrupted
      <3> QED
        BY <1>2, <1>17, <3>1 DEF Abandon, Return, sqlite
    <2> QED  BY <2>1, <2>2
  <1> QED
    BY <1>3, <1>4, <1>5, <1>6, <1>7, <1>8, <1>9, <1>10, <1>11, <1>12, <1>13, <1>14, <1>15,
       <1>16, <1>17 DEF Next

(* Whatever command stops wherever it stops, a change that is there, or    *)
(* may be, is recorded as applied or reported by lifecycle recovery, and a *)
(* change the rows call made or undone is made, or is not there            *)
(* (apply_command, undo_command, persist_journal_state).                   *)
THEOREM StoresAccountForFiles == Spec => []Accounted
  <1>1. IInv /\ EInv => Accounted
    BY GovernanceAssumption DEF IInv, InFlight, EInv, AccountKept, InHand, Matches, Accounted
  <1> QED  BY Invariant, InitEInv, NextEInv, <1>1, PTL DEF Spec

-----------------------------------------------------------------------------
(* Why stale facts are refused.  Until Plans and Receipts are purged, a    *)
(* Receipt that invalidates the latest Snapshot, or something to recover,  *)
(* stands for every change of the files since that Snapshot, except those  *)
(* of a running command; and a running Apply found the files as that       *)
(* Snapshot has them.                                                      *)
Flagged == \E r \in Receipt : <<scan, r>> \in invalid /\ Invalidates(r)
StaleIsKnown ==
    purges = 0 /\ stale => scan = 0 \/ Flagged \/ ~RecoveryClear \/ cur \in Receipt

BeforeSave == pc \in {"journal", "engine", "metadata", "rollback"}
Saving == pc \in {"persist", "save"}
BoundToLatest ==
    BeforeSave \/ (Saving /\ reverses[cur] = NoReceipt) => bound[plan].scan = scan
FreshInFlight ==
    purges = 0 /\ (BeforeSave \/ (Saving /\ outcome = "failedRolledBack")) => ~stale
SweepIsPurge == pc = "sweep" => purges # 0

FInv == StaleIsKnown /\ BoundToLatest /\ FreshInFlight /\ SweepIsPurge

LEMMA InitFInv == Init => FInv
  BY DEF Init, FInv, StaleIsKnown, BoundToLatest, FreshInFlight, SweepIsPurge, BeforeSave, Saving

(* A step that changes nothing a Snapshot is judged by.                    *)
LEMMA QuietStep ==
  ASSUME StaleIsKnown, UNCHANGED <<journal, row, reverses, scan, invalid, cur, stale>>,
         purges' = purges
  PROVE  StaleIsKnown'
  BY DEF StaleIsKnown, Flagged, Invalidates, RecoveryClear, RecoveryRequired, ClearJournals,
         Issue, Pending

(* A step that leaves a Receipt in hand, or something to recover.          *)
LEMMA MarkedStep ==
  ASSUME NEW r \in Receipt,
         \/ cur' = r
         \/ row'[r] = "recoveryRequired"
         \/ journal'[r] # "absent" /\ row'[r] = "absent"
  PROVE  StaleIsKnown'
  BY DEF StaleIsKnown, RecoveryClear, RecoveryRequired, ClearJournals, Issue, Pending

LEMMA NextStaleIsKnown ==
  IInv /\ HandKnown /\ FInv /\ [Next]_vars => StaleIsKnown' /\ SweepIsPurge'
  <1> SUFFICES ASSUME IInv, HandKnown, FInv, [Next]_vars
               PROVE  StaleIsKnown' /\ SweepIsPurge'
    OBVIOUS
  <1> USE GovernanceAssumption
  <1>1. TypeOK /\ InFlight /\ StaleIsKnown /\ SweepIsPurge /\ purges \in Nat
    BY DEF IInv, FInv, TypeOK
  <1>2. ASSUME purges' # purges PROVE StaleIsKnown' /\ SweepIsPurge'
    <2>1. purges' = purges + 1
      BY <1>2 DEF Next, vars, counters, Scan, PreparePlan, BeginApply, EngineRefuses, StartJournal,
         EngineFails, EngineReturns, ApplyRoster, ApplyRosterFails, RollbackApply, Persist, SaveApply,
         BeginUndo, UndoReturns, RestoreRoster, RestoreRosterFails, SaveUndo, Recover, BeginPurge,
         BeginDelete, RemoveJournal, EndSweep, OpenDatabase, Abandon
    <2> QED  BY <1>1, <2>1 DEF StaleIsKnown, SweepIsPurge
  <1>3. ASSUME pc' # "sweep" \/ pc = "sweep" PROVE SweepIsPurge'
    BY <1>1, <1>2, <1>3 DEF SweepIsPurge
  <1>4. CASE Scan
    BY <1>1, <1>3, <1>4 DEF Scan, Idle, command, StaleIsKnown
  <1>5. CASE \/ \E p \in Plan, to \in RosterState \ {Unset} : PreparePlan(p, to)
             \/ \E p \in Plan : BeginApply(p)
             \/ EngineRefuses \/ EndSweep \/ OpenDatabase \/ UNCHANGED vars
    <2>1. /\ UNCHANGED <<journal, row, reverses, scan, invalid, cur, stale>>
          /\ purges' = purges /\ (pc' # "sweep" \/ pc = "sweep")
      BY <1>1, <1>5 DEF PreparePlan, BeginApply, EngineRefuses, EndSweep, OpenDatabase, Return,
         vars, receipts, sqlite, command, counters, history, InFlight
    <2> QED  BY <1>1, <1>3, <2>1, QuietStep
  <1>6. CASE \/ \E r \in Receipt : StartJournal(r)
             \/ \E orig, r \in Receipt : BeginUndo(orig, r)
    <2>1. cur' \in Receipt /\ pc' # "sweep"
      BY <1>6 DEF StartJournal, BeginUndo
    <2> QED  BY <1>3, <2>1, MarkedStep
  <1>7. CASE \/ \E s, w \in ReceiptStatus : EngineReturns(s, w)
             \/ ApplyRoster \/ (\E b \in BOOLEAN : ApplyRosterFails(b) \/ RollbackApply(b))
             \/ Persist \/ (\E s \in ReceiptStatus : UndoReturns(s))
             \/ RestoreRoster \/ RestoreRosterFails
    <2>1. cur' \in Receipt /\ pc' # "sweep"
      BY <1>1, <1>7 DEF EngineReturns, ApplyRoster, ApplyRosterFails, RollbackApply, Persist,
         UndoReturns, RestoreRoster, RestoreRosterFails, Goto, InFlight, Applying, Undoing
    <2> QED  BY <1>3, <2>1, MarkedStep
  <1>8. ASSUME NEW s \in ReceiptStatus, EngineFails(s) PROVE StaleIsKnown' /\ SweepIsPurge'
    <2>1. PICK k \in Receipt : k = cur
      BY <1>1, <1>8 DEF EngineFails, InFlight, Applying
    <2>2. journal'[k] # "absent" /\ row'[k] = "absent" /\ pc' = "idle"
      BY <1>1, <1>8, <2>1 DEF EngineFails, InFlight, Applying, TypeOK, Return
    <2> QED  BY <1>3, <2>2, MarkedStep
  <1>9. CASE SaveApply
    <2>1. PICK k \in Receipt : k = cur
      BY <1>1, <1>9 DEF SaveApply, InFlight, Applying, Undoing
    <2>2. /\ reverses[k] = NoReceipt /\ Applying /\ pc' = "idle" /\ pc = "save"
          /\ row'[k] = outcome /\ UNCHANGED <<reverses, scan, purges, stale>>
          /\ outcome = "applied" => <<bound[plan].scan, k>> \in invalid'
      BY <1>1, <1>9, <2>1
      DEF SaveApply, Return, InFlight, Applying, Undoing, receipts, history, counters, TypeOK
    <2>3. outcome \in {"applied", "failedRolledBack", "recoveryRequired"}
      BY <1>1, <2>1, <2>2 DEF InFlight, Undoing
    <2>4. CASE outcome = "applied"
      <3>1. <<scan', k>> \in invalid'
        BY <2>1, <2>2, <2>4 DEF FInv, BoundToLatest, Saving
      <3> QED  BY <1>3, <2>2, <2>4, <3>1 DEF StaleIsKnown, Flagged, Invalidates
    <2>5. CASE outcome = "failedRolledBack"
      BY <1>3, <2>2, <2>5 DEF FInv, FreshInFlight, Saving, StaleIsKnown
    <2>6. CASE outcome = "recoveryRequired"
      BY <1>3, <2>2, <2>6, MarkedStep
    <2> QED  BY <2>3, <2>4, <2>5, <2>6
  <1>10. CASE SaveUndo
    <2>1. PICK k \in Receipt : k = cur
      BY <1>1, <1>10 DEF SaveUndo, InFlight, Applying, Undoing
    <2>2. /\ reverses[k] \in Receipt /\ reverses[k] # k /\ pc' = "idle" /\ UNCHANGED <<reverses, scan>>
          /\ outcome \in {"undone", "recoveryRequired"}
      BY <1>1, <1>10, <2>1 DEF SaveUndo, Return, InFlight, Applying, Undoing, receipts
    <2>3. row'[k] = outcome
      BY <1>1, <1>10, <2>1, <2>2 DEF SaveUndo, TypeOK
    <2>4. CASE outcome = "undone"
      <3>1. scan = 0 \/ <<scan, k>> \in invalid'
        BY <1>10, <2>1, <2>4 DEF SaveUndo
      <3>2. reverses'[k] # NoReceipt
        BY <2>2
      <3> QED  BY <1>3, <2>2, <2>3, <2>4, <3>1, <3>2 DEF StaleIsKnown, Flagged, Invalidates
    <2>5. CASE outcome = "recoveryRequired"
      BY <1>3, <2>2, <2>3, <2>5, MarkedStep
    <2> QED  BY <2>2, <2>4, <2>5
  <1>11. ASSUME NEW r \in Receipt, Recover(r) PROVE StaleIsKnown' /\ SweepIsPurge'
    <2>1. row'[r] = "recoveryRequired" /\ pc' # "sweep"
      BY <1>1, <1>11 DEF Recover, ImportedAs, TypeOK, Idle, command
    <2> QED  BY <1>3, <2>1, MarkedStep
  <1>12. CASE BeginPurge \/ BeginDelete
    BY <1>1, <1>2, <1>12 DEF BeginPurge, BeginDelete
  <1>13. ASSUME NEW r \in Receipt, RemoveJournal(r) PROVE StaleIsKnown' /\ SweepIsPurge'
    BY <1>1, <1>2, <1>13 DEF RemoveJournal, SweepIsPurge, StaleIsKnown, counters, command
  <1>14. CASE Abandon
    <2>1. pc' = "idle" /\ UNCHANGED <<row, reverses, scan, invalid, purges>>
      BY <1>14 DEF Abandon, Return, sqlite, counters
    <2>2. CASE cur \in Receipt
      <3>1. PICK k \in Receipt : k = cur
        BY <2>2
      <3>2. row[k] = "absent" /\ journal[k] # "absent"
        BY <1>1, <1>14, <3>1 DEF Abandon, InFlight, Applying, Undoing, HandKnown, TypeOK
      <3>3. journal'[k] # "absent"
        BY <1>1, <1>14, <3>1, <3>2 DEF Abandon, Interrupted, TypeOK, InFlight
      <3> QED  BY <1>3, <2>1, <3>2, <3>3, MarkedStep
    <2>3. CASE cur \notin Receipt
      <3>1. pc \in {"journal", "sweep"} /\ Interrupted = {} /\ cur = NoReceipt
        BY <1>1, <1>14, <2>3 DEF Abandon, TypeOK, InFlight, Applying, Undoing, Interrupted
      <3> QED  BY <1>1, <1>3, <1>14, <2>1, <3>1, QuietStep DEF Abandon, Return, TypeOK
    <2> QED  BY <2>2, <2>3
  <1> QED
    BY <1>4, <1>5, <1>6, <1>7, <1>8, <1>9, <1>10, <1>11, <1>12, <1>13, <1>14 DEF Next

(* What a running Apply is bound to, and that its files are not stale.     *)
LEMMA NextBound == IInv /\ FInv /\ [Next]_vars => BoundToLatest' /\ FreshInFlight'
  <1> SUFFICES ASSUME IInv, FInv, [Next]_vars PROVE BoundToLatest' /\ FreshInFlight'
    OBVIOUS
  <1> USE DEF BoundToLatest, FreshInFlight, BeforeSave, Saving
  <1> USE GovernanceAssumption
  <1>1. TypeOK /\ InFlight /\ BoundToLatest /\ FreshInFlight /\ StaleIsKnown
    BY DEF IInv, FInv
  <1>2. CASE pc' \in {"idle", "sweep", "undo", "restore"}
    BY <1>2
  <1>3. CASE UNCHANGED vars
    BY <1>1, <1>3 DEF vars, receipts, sqlite, command, counters, history
  <1>4. ASSUME NEW p \in Plan, BeginApply(p) PROVE BoundToLatest' /\ FreshInFlight'
    <2>1. scan # 0 /\ ~Flagged /\ RecoveryClear /\ cur \notin Receipt
      BY <1>1, <1>4 DEF BeginApply, SnapshotCurrent, Flagged, Idle, InFlight
    <2>2. purges = 0 => ~stale
      BY <1>1, <2>1 DEF StaleIsKnown
    <2> QED  BY <1>4, <2>2 DEF BeginApply, counters, history
  <1>5. ASSUME NEW r \in Receipt, StartJournal(r) PROVE BoundToLatest' /\ FreshInFlight'
    BY <1>1, <1>5 DEF StartJournal, sqlite, counters
  <1>6. ASSUME NEW s \in ReceiptStatus, NEW w \in ReceiptStatus, EngineReturns(s, w)
        PROVE  BoundToLatest' /\ FreshInFlight'
    BY <1>1, <1>6 DEF EngineReturns, Goto, sqlite, counters
  <1>7. CASE ApplyRoster \/ (\E b \in BOOLEAN : ApplyRosterFails(b) \/ RollbackApply(b))
    BY <1>1, <1>7 DEF ApplyRoster, ApplyRosterFails, RollbackApply, Goto, sqlite, counters, history,
       receipts
  <1>8. CASE Persist
    BY <1>1, <1>8 DEF Persist, Goto, sqlite, counters
  <1>9. CASE RestoreRoster \/ RestoreRosterFails
    <2>1. reverses[cur] # NoReceipt /\ UNCHANGED <<reverses, cur>>
      BY <1>1, <1>9 DEF RestoreRoster, RestoreRosterFails, InFlight, Undoing, Goto, receipts
    <2>2. pc' = "persist" /\ outcome' # "failedRolledBack"
      BY <1>1, <1>9 DEF RestoreRoster, RestoreRosterFails, InFlight, Goto
    <2> QED  BY <2>1, <2>2
  <1>10. ASSUME NEW s \in ReceiptStatus, UndoReturns(s) PROVE BoundToLatest' /\ FreshInFlight'
    <2>1. reverses[cur] # NoReceipt /\ UNCHANGED <<reverses, cur>>
      BY <1>1, <1>10 DEF UndoReturns, InFlight, Undoing, Goto
    <2>2. pc' \in {"restore", "persist"} /\ outcome' # "failedRolledBack"
      BY <1>10 DEF UndoReturns, Goto
    <2> QED  BY <2>1, <2>2
  <1>11. ASSUME \/ Scan \/ (\E p \in Plan, to \in RosterState \ {Unset} : PreparePlan(p, to))
                \/ EngineRefuses \/ (\E s \in ReceiptStatus : EngineFails(s)) \/ SaveApply
                \/ (\E orig, r \in Receipt : BeginUndo(orig, r)) \/ SaveUndo
                \/ (\E r \in Receipt : Recover(r)) \/ BeginPurge \/ BeginDelete
                \/ (\E r \in Receipt : RemoveJournal(r)) \/ EndSweep \/ OpenDatabase \/ Abandon
         PROVE  pc' \in {"idle", "sweep", "undo", "restore"}
    BY <1>11 DEF Scan, PreparePlan, EngineRefuses, EngineFails, SaveApply, BeginUndo, SaveUndo,
       Recover, BeginPurge, BeginDelete, RemoveJournal, EndSweep, OpenDatabase, Abandon, Return,
       Idle, command
  <1> QED
    BY <1>2, <1>3, <1>4, <1>5, <1>6, <1>7, <1>8, <1>9, <1>10, <1>11 DEF Next

(* snapshot_invalidating_receipt and the checks of plan and apply refuse   *)
(* facts that may be stale, whatever was interrupted or recovered, as long *)
(* as no purge has forgotten the Receipts that say so.                     *)
THEOREM StaleFactsAreRefused == Spec => []StaleIsRefused
  <1>1. IInv /\ EInv /\ FInv /\ [Next]_vars => FInv'
    BY NextStaleIsKnown, NextBound DEF FInv, EInv
  <1>2. IInv /\ FInv => StaleIsRefused
    BY GovernanceAssumption DEF IInv, InFlight, FInv, StaleIsKnown, Flagged, StaleIsRefused, SnapshotCurrent
  <1> QED  BY Invariant, InitEInv, NextEInv, InitFInv, <1>1, <1>2, PTL DEF Spec
=============================================================================
