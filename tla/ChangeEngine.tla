---------------------------- MODULE ChangeEngine ----------------------------
(***************************************************************************)
(* src/change.rs: applying a prepared Plan, undoing a Receipt and rolling  *)
(* an Apply back, each as the sequence of durable steps it takes, with the *)
(* user editing governed paths, filesystem errors and process death between*)
(* any two of them.                                                        *)
(*                                                                         *)
(* One command runs at a time (the exclusive state lock).                  *)
(* `fs` and `journal` are on disk; `mem` is the Receipt in the process's   *)
(* memory; `tracked` is the set of Receipts that SQLite has a row for.     *)
(* The history variables `base` and `owed` are read by properties only.    *)
(***************************************************************************)
EXTENDS FileOps, FiniteSets

CONSTANTS Template,   \* the Plans an Agent may ask for: sequences of operations
          InitTree,   \* what the governed paths hold at first
          Foreign,    \* what a user may write over a governed path
          NoReceipt,  \* the absent Receipt
          MaxReady,   \* bound: Plans that are Ready at once
          MaxEdits,   \* bound: edits by the user
          MaxFaults   \* bound: filesystem errors

ASSUME ChangeEngineAssumption ==
    /\ InitTree \in [Path -> Held]
    /\ Foreign \subseteq Content
    /\ NoReceipt \notin Receipt
    /\ MaxReady \in Nat /\ MaxEdits \in Nat /\ MaxFaults \in Nat
    /\ Template \subseteq Seq([kind : OpKind, target : Path, source : Path,
                               content : Content])
    /\ \A t \in Template : Len(t) <= MaxOps
    /\ \A t \in Template : \A n \in 1 .. Len(t) :  \* it writes over a file what no user wrote
          t[n].kind = "replaceFile" => t[n].content \notin Foreign \cup {InitTree[p] : p \in Path}

VARIABLES fs,       \* what every location holds
          journal,  \* receipts/<id>.json
          tracked,  \* Receipts with a row in SQLite
          ready,    \* the Ready Plans: operations with expected fingerprints
          pc,       \* where the running command is
          mode,     \* "apply", "salvage", "undo" or "rollback"
          plan,     \* the Plan being applied
          cur,      \* the Receipt the command writes
          mem,      \* that Receipt in memory
          k,        \* the compensation being run
          verdict,  \* the status a complete compensation earns
          edited,   \* paths edited since the running command began
          edits, faults,
          base,     \* governed paths when the command began, with the edits since
          owed      \* user content the user has not removed himself

disk == <<fs, journal, tracked>>
command == <<pc, mode, plan, cur, mem, k, verdict, edited>>
history == <<base, owed>>
vars == <<disk, ready, command, edits, faults, history>>

Status == {"Applying", "Applied", "FailedRolledBack", "RecoveryRequired", "Undone"}
Absent == [status |-> "Absent", done |-> 0, comps |-> <<>>, reverses |-> NoReceipt]
Fresh(orig) == [status |-> "Applying", done |-> 0, comps |-> <<>>, reverses |-> orig]

Unused(r) == journal[r].status = "Absent"
Pending(r) == journal[r].status \in {"Applying", "RecoveryRequired"}
(* journal_issues: pending, or written by a command that never finished. *)
IssueTracksOnlyPending(r) == Pending(r)
Issue(r) == journal[r].status # "Absent" /\ (Pending(r) \/ r \notin tracked)
Clear == \A r \in Receipt : ~Issue(r)
Reversed(r) ==
    \E u \in Receipt : journal[u].reverses = r /\ journal[u].status = "Undone"
Undoable(r) == journal[r].status = "Applied" /\ r \in tracked /\ ~Reversed(r)

Governed(f) == [p \in Path |-> f[p]]

Init ==
    /\ fs = [l \in Loc |-> IF l \in Path THEN InitTree[l] ELSE Missing]
    /\ journal = [r \in Receipt |-> Absent]
    /\ tracked = {}
    /\ ready = {}
    /\ pc = "idle" /\ mode = "apply" /\ plan = <<>> /\ cur = NoReceipt /\ mem = Absent
    /\ k = 0 /\ verdict = "FailedRolledBack" /\ edited = {}
    /\ edits = 0 /\ faults = 0
    /\ base = InitTree
    /\ owed = {InitTree[p] : p \in Path} \ {Missing}

(***************************************************************************)
(* Preparing.  `prepare` validates each operation against the projection   *)
(* of the ones before it and binds the fingerprints it finds.              *)
(***************************************************************************)
Bound(t, f) ==
    LET expected(i) == IF t[i].kind = "createSymlink"
                       THEN IF t[i].target \in ProjectedMissing(t, i) THEN Missing
                            ELSE f[t[i].target]
                       ELSE f[Subject(t[i])]
        moves(i) == {j \in 1 .. i - 1 : /\ t[j].kind = "moveRecoverable"
                                        /\ t[j].target = t[i].source}
        source(i) == IF moves(i) = {} THEN f[t[i].source]
                     ELSE f[t[CHOOSE j \in moves(i) : TRUE].source]
    IN  [i \in 1 .. Len(t) |->
            [kind |-> t[i].kind, target |-> t[i].target, source |-> t[i].source,
             content |-> t[i].content, expected |-> expected(i),
             expectedSource |-> source(i)]]

DistinctTargets(t) == \A i, j \in 1 .. Len(t) : t[i].target = t[j].target => i = j

Creatable(ops) ==
    \A i \in 1 .. Len(ops) :
        IF ops[i].kind \in {"createDirectory", "createSymlink", "writeFile"}
        THEN ops[i].expected = Missing ELSE ops[i].expected # Missing

Prepare(t) ==
    LET ops == Bound(t, fs) IN
    /\ pc = "idle" /\ Cardinality(ready) < MaxReady
    /\ DistinctTargets(t) /\ SequenceOK(ops, fs) /\ Creatable(ops)
    /\ ready' = ready \cup {ops}
    /\ UNCHANGED <<disk, command, edits, faults, history>>

(***************************************************************************)
(* Journal publication: write_private_file_atomic renames a staged file    *)
(* over the journal, so an error leaves either the old or the new bytes.   *)
(***************************************************************************)
Fault == faults < MaxFaults /\ faults' = faults + 1

Persist(receipt) ==
    journal' = [journal EXCEPT ![cur] = receipt] /\ UNCHANGED faults
PersistFails(receipt) ==
    Fault /\ journal' \in {journal, [journal EXCEPT ![cur] = receipt]}

(* The command returns. *)
Stop == /\ pc' = "idle" /\ mem' = Absent /\ cur' = NoReceipt /\ mode' = "apply"
        /\ plan' = <<>> /\ k' = 0 /\ verdict' = "FailedRolledBack" /\ edited' = {}
        /\ UNCHANGED ready

Goto(label) == pc' = label /\ UNCHANGED <<mode, plan, cur, k, verdict, edited, ready>>

(* compensate_all, from the last recorded compensation to the first.  When *)
(* it salvages what it can, the journal is then published best effort.     *)
CompensateAllButLast(comps) ==
    /\ k' = IF comps = <<>> THEN 0 ELSE Len(comps) - 1
    /\ pc' = IF Len(comps) <= 1 THEN "finish" ELSE "verify"
CompensateFrom(comps) ==
    k' = Len(comps) /\ pc' = IF comps = <<>> THEN "finish" ELSE "verify"
Compensate(receipt, result, how) ==
    /\ mem' = receipt /\ verdict' = result /\ mode' = how
    /\ CompensateFrom(receipt.comps)
    /\ UNCHANGED <<plan, cur, edited, ready>>

(***************************************************************************)
(* apply_locked_with_anchored.                                             *)
(***************************************************************************)
i == mem.done + 1
op == plan[i]
Exhausted == i > Len(plan)

BeginApply(r, ops) ==
    /\ pc = "idle" /\ ops \in ready /\ Unused(r) /\ Clear /\ SequenceOK(ops, fs)
    /\ \/ /\ journal' = [journal EXCEPT ![r] = Fresh(NoReceipt)]
          /\ mem' = Fresh(NoReceipt) /\ cur' = r /\ plan' = ops /\ pc' = "record"
          /\ ready' = ready \ {ops}
          /\ UNCHANGED <<mode, k, verdict, edited, faults>>
       \/ /\ Fault /\ journal' \in {journal, [journal EXCEPT ![r] = Fresh(NoReceipt)]}
          /\ UNCHANGED <<command, ready>>
    /\ base' = Governed(fs)
    /\ UNCHANGED <<fs, tracked, edits, owed>>

(* The operation is journaled before it is attempted. *)
Record ==
    /\ pc = "record" /\ ~Exhausted
    /\ \/ Persist(mem) /\ Goto(IF op.kind = "replaceFile" THEN "stage" ELSE "validate")
                       /\ UNCHANGED mem
       \/ PersistFails(mem) /\ Stop
    /\ UNCHANGED <<fs, tracked, edits, history>>

BackedUp(f, p, b) == [f EXCEPT ![b] = f[p]]

(* stage_compensation: copy the original aside, then journal how to restore it. *)
Stage ==
    LET b == ReplacedBackup(cur, i)
        staged == [mem EXCEPT !.comps = Append(@,
                     RestoreReplaced(b, StagedTemp(cur, i), op.target,
                                     op.expected, op.content))]
    IN
    /\ pc = "stage"
    /\ \/ /\ fs[op.target] = op.expected
          /\ fs' = BackedUp(fs, op.target, b)
          /\ \/ Persist(staged) /\ mem' = staged /\ Goto("validate")
             \/ PersistFails(staged) /\ Stop
       \/ /\ fs[op.target] # op.expected
          /\ Stop /\ UNCHANGED <<fs, journal, faults>>
    /\ UNCHANGED <<tracked, edits, history>>

(* The operation failed.  An entry whose identity is in doubt, or that the *)
(* operation may or may not have created, is left for inspection, and so   *)
(* is what the fingerprints taken of both ends of a move do not tell or    *)
(* cannot be read for (an error not counted apart); otherwise what the     *)
(* operation left behind is compensated too, and journaled first as far as *)
(* storage lets.                                                           *)
Failed(f, byIdentity) ==
    LET partial == Partial(op, cur, i, f)
        receipt == [mem EXCEPT !.comps = @ \o partial]
        unsure == byIdentity \/ IsUncompensatedCreate(op) \/ PartialAmbiguous(op, cur, i, f)
    IN
    \/ /\ unsure \/ op.kind \in {"removeSymlink", "moveRecoverable"}
       /\ Compensate(mem, "RecoveryRequired", "salvage") /\ UNCHANGED journal
    \/ /\ ~unsure
       /\ Compensate(receipt, "FailedRolledBack", "apply")
       /\ journal' \in {journal} \cup
              (IF partial = <<>> THEN {} ELSE {[journal EXCEPT ![cur] = receipt]})

Validate ==
    /\ pc = "validate"
    /\ \/ CurrentState(op, fs) = "ok" /\ Goto("mutate") /\ UNCHANGED <<mem, journal>>
       \/ CurrentState(op, fs) # "ok" /\ Failed(fs, FALSE)
    /\ UNCHANGED <<fs, tracked, edits, faults, history>>

Mutate ==
    LET steps == ExecuteSteps(op, cur, i, fs)
        after == steps[Len(steps)]
    IN
    /\ pc = "mutate" /\ ~Refused(op, cur, i, fs)
    /\ \/ /\ fs' = after
          /\ mem' = [mem EXCEPT !.done = i,
                                !.comps = @ \o Executed(op, cur, i, fs, after)]
          /\ Goto("persist") /\ UNCHANGED <<journal, faults>>
       \/ \E s \in 1 .. Len(steps) : \E byIdentity \in FaultByIdentity(op, s, steps) :
             /\ Fault /\ fs' = steps[s]
             /\ Failed(steps[s], byIdentity)
    /\ UNCHANGED <<tracked, edits, history>>

MutateRefused ==
    /\ pc = "mutate" /\ Refused(op, cur, i, fs)
    /\ Failed(fs, RefusedByIdentity(op, fs))
    /\ UNCHANGED <<fs, tracked, edits, faults, history>>

(* Only now is the compensation durable; if it cannot be made so, undo it. *)
PersistApplied ==
    /\ pc = "persist"
    /\ \/ Persist(mem) /\ Goto("record") /\ UNCHANGED mem
       \/ PersistFails(mem) /\ Compensate(mem, "FailedRolledBack", "salvage")
    /\ UNCHANGED <<fs, tracked, edits, history>>

(* Every operation is done: the package projections, the final Receipt.    *)
Conclude ==
    LET applied == [mem EXCEPT !.status = "Applied"]
        unsure == [mem EXCEPT !.status = "RecoveryRequired"]
    IN
    /\ pc = "record" /\ Exhausted
    /\ \/ /\ ProjectionsHold(plan, fs)
          /\ \/ Persist(applied) /\ mem' = applied
             \/ /\ Fault /\ mem' = unsure
                /\ journal' \in {journal, [journal EXCEPT ![cur] = applied],
                                 [journal EXCEPT ![cur] = unsure]}
          /\ Goto("done")
       \/ /\ ~ProjectionsHold(plan, fs)
          /\ Compensate(mem, "FailedRolledBack", "apply") /\ UNCHANGED <<journal, faults>>
    /\ UNCHANGED <<fs, tracked, edits, history>>

(***************************************************************************)
(* undo_locked_with_anchored and rollback_apply_locked_with_anchored.      *)
(***************************************************************************)
BeginUndo(r, orig) ==
    /\ pc = "idle" /\ Unused(r) /\ Undoable(orig) /\ Clear
    /\ base' = Governed(fs)
    /\ \/ /\ journal' = [journal EXCEPT ![r] = Fresh(orig)]
          /\ cur' = r /\ mode' = "undo" /\ mem' = Fresh(orig)
          /\ verdict' = "Undone" /\ CompensateFrom(journal[orig].comps)
          /\ UNCHANGED <<plan, edited, faults>>
       \/ /\ Fault /\ journal' \in {journal, [journal EXCEPT ![r] = Fresh(orig)]}
          /\ UNCHANGED command
    /\ UNCHANGED <<fs, tracked, ready, edits, owed>>

(* Governance metadata could not be written: the Applied journal is undone *)
(* in place, under its own name.                                           *)
MetadataFails ==
    /\ pc = "done" /\ mem.status = "Applied" /\ Fault
    /\ mode' = "rollback" /\ verdict' = "FailedRolledBack"
    /\ CompensateFrom(mem.comps)
    /\ UNCHANGED <<disk, plan, cur, mem, edited, ready, edits, history>>

(* ... or could not be put back. *)
RestorationFails ==
    /\ pc = "done" /\ mode \in {"undo", "rollback"}
    /\ mem.status \in {"Undone", "FailedRolledBack"} /\ Fault
    /\ mem' = [mem EXCEPT !.status = "RecoveryRequired"]
    /\ UNCHANGED <<disk, ready, pc, mode, plan, cur, k, verdict, edited, edits, history>>

Owner == IF mode = "undo" THEN mem.reverses ELSE cur
Comps == IF mode = "undo" THEN journal[mem.reverses].comps ELSE mem.comps

(* compensate_all stops at the first compensation that fails. *)
RetryForever == /\ verdict' = "RecoveryRequired" /\ pc' = "verify"
                /\ UNCHANGED <<k, mode, plan, cur, mem, edited, ready>>
GiveUp == /\ verdict' = "RecoveryRequired" /\ pc' = "finish" /\ k' = 0
          /\ UNCHANGED <<mode, plan, cur, mem, edited, ready>>

NextCompensation == /\ k' = k - 1 /\ pc' = IF k = 1 THEN "finish" ELSE "verify"
                    /\ UNCHANGED <<mode, plan, cur, mem, verdict, edited, ready>>

Verify ==
    /\ pc = "verify"
    /\ \/ /\ CompensationOK(Comps[k], Owner, k, fs)
          /\ Goto("act") /\ UNCHANGED <<fs, mem>>
       \/ /\ ~CompensationOK(Comps[k], Owner, k, fs) /\ GiveUp
          /\ fs' = IF /\ Comps[k].kind = "restoreReplacedFile"
                      /\ fs[Comps[k].from] = Comps[k].expected
                   THEN Swept(fs, Comps[k]) ELSE fs
    /\ UNCHANGED <<journal, tracked, edits, faults, history>>

(* A no-replace rename refuses a destination that appeared after Verify,   *)
(* a source that went away cannot be renamed, and a rename does not cross  *)
(* filesystems.                                                            *)
CannotAct(c) ==
    \/ Unstashable(c)
    \/ c.kind # "restoreReplacedFile" /\ fs[c.from] = Missing
    \/ c.kind = "renameBack" /\ fs[c.to] # Missing

ActRefused ==
    /\ pc = "act" /\ CannotAct(Comps[k]) /\ GiveUp
    /\ UNCHANGED <<disk, edits, faults, history>>

Act ==
    LET steps == CompensationSteps(Comps[k], Owner, k, fs) IN
    /\ pc = "act" /\ ~CannotAct(Comps[k])
    /\ \/ /\ fs' = steps[Len(steps)] /\ UNCHANGED faults
          /\ IF OriginalReappeared(Comps[k], fs) THEN GiveUp ELSE NextCompensation
       \/ /\ Fault /\ GiveUp
          /\ \E s \in 1 .. Len(steps) : fs' = steps[s]
    /\ UNCHANGED <<journal, tracked, edits, history>>

(* The journal of a compensated command.  An error here leaves it as it    *)
(* was: Applying, or still Applied when rolling back.                      *)
Finish ==
    LET finished == [mem EXCEPT !.status = verdict] IN
    /\ pc = "finish"
    /\ \/ Persist(finished) /\ mem' = finished /\ Goto("done")
       \/ PersistFails(finished) /\ IF mode = "salvage"
                                    THEN mem' = finished /\ Goto("done") ELSE Stop
    /\ UNCHANGED <<fs, tracked, edits, history>>

(***************************************************************************)
(* apply_command and undo_command: the journal once more, then SQLite.     *)
(***************************************************************************)
Finalize ==
    /\ pc = "done"
    /\ \/ Persist(mem) /\ tracked' = tracked \cup {cur}
       \/ PersistFails(mem) /\ UNCHANGED tracked
    /\ Stop
    /\ UNCHANGED <<fs, edits, history>>

(***************************************************************************)
(* The environment.                                                        *)
(***************************************************************************)
(* The process dies.  It may die inside an operation or a compensation.    *)
Halfway ==
    CASE pc = "mutate" /\ ~Refused(op, cur, i, fs) -> ExecuteSteps(op, cur, i, fs)
      [] pc = "act" /\ ~CannotAct(Comps[k]) -> CompensationSteps(Comps[k], Owner, k, fs)
      [] OTHER -> <<fs>>

Crash ==
    /\ pc # "idle" /\ Stop
    /\ \E s \in 1 .. Len(Halfway) : fs' = Halfway[s]
    /\ UNCHANGED <<journal, tracked, edits, faults, history>>

(* The user, or another program, edits a governed path.  What is put where  *)
(* a file is being swapped, its fingerprint already checked, is overwritten:*)
(* a rename cannot compare, so NoContentLost does not owe it.               *)
Swapped(p) ==
    \/ pc = "mutate" /\ op.kind = "replaceFile" /\ op.target = p
    \/ pc = "act" /\ Comps[k].kind = "restoreReplacedFile" /\ Comps[k].to = p
UserEdit(p, c) ==
    /\ edits < MaxEdits /\ edits' = edits + 1
    /\ c # fs[p] /\ c \notin {fs[l] : l \in Loc} \ {Missing}
    /\ fs' = [fs EXCEPT ![p] = c]
    /\ base' = [base EXCEPT ![p] = c]
    /\ owed' = (owed \ {fs[p]}) \cup (IF Swapped(p) THEN {} ELSE {c} \ {Missing})
    /\ edited' = IF pc = "idle" THEN {} ELSE edited \cup {p}
    /\ UNCHANGED <<journal, tracked, ready, pc, mode, plan, cur, mem, k, verdict, faults>>

Command ==
    \/ Record \/ Stage \/ Validate \/ Mutate \/ MutateRefused
    \/ PersistApplied \/ Conclude
    \/ MetadataFails \/ RestorationFails
    \/ Verify \/ ActRefused \/ Act \/ Finish \/ Finalize

Next ==
    \/ \E t \in Template : Prepare(t)
    \/ \E r \in Receipt, ops \in ready : BeginApply(r, ops)
    \/ \E r, orig \in Receipt : BeginUndo(r, orig)
    \/ Command
    \/ Crash
    \/ \E p \in Path, c \in Foreign \cup {Missing} : UserEdit(p, c)

Spec == Init /\ [][Next]_vars

(* A command runs to its end unless the process dies: straight-line code.  *)
FairSpec == Spec /\ WF_vars(Command)

(***************************************************************************)
(* Properties.                                                             *)
(***************************************************************************)
(* Nothing a user ever wrote is destroyed: it is at its path, or in a      *)
(* sibling backup, or in the Receipt's recovery directory.                 *)
NoContentLost == \A c \in owed : \E l \in Loc : fs[l] = c

(* Outside the window in which the user edits it under the running command,*)
(* the only entry that a command takes off a governed path is the one whose*)
(* fingerprint the Plan or the Receipt names for it: drift fails closed.   *)
Named(p) ==
    {plan[j].expected : j \in {m \in 1 .. Len(plan) : Subject(plan[m]) = p}}
      \cup {LeftBy(Comps[j], p) : j \in {m \in 1 .. Len(Comps) : Touches(Comps[m], p)}}
DriftFailsClosed ==
    [][\A p \in Path : edits' = edits /\ p \notin edited /\ fs'[p] # fs[p]
          => fs[p] \in Named(p) \cup {Missing}]_vars

(* A governed path is changed only under the cover of a durable journal    *)
(* that refuses every later command, should this one never finish.         *)
WriteAhead ==
    [][edits' = edits /\ Governed(fs') # Governed(fs) => \E r \in Receipt : Issue(r)]_vars

(* With no one else editing, Apply and Undo are atomic. *)
Committed(r) == journal[r].status = "Applied" /\ r \in tracked
Live(r) ==
    ~\E u \in tracked : journal[u].reverses = r /\ journal[u].status = "Undone"
Atomic == INSTANCE AtomicChange WITH
    tree <- IF pc = "idle" /\ Clear THEN Governed(fs) ELSE base,
    log <- [r \in Receipt |->
              IF Committed(r)
              THEN [before |-> Before(journal[r].comps), after |-> After(journal[r].comps),
                    found |-> Found(journal[r].comps), live |-> Live(r)]
              ELSE [before |-> <<>>, after |-> <<>>, found |-> <<>>, live |-> FALSE]],
    blocked <- pc = "idle" /\ ~Clear,
    raced <- edited # {}
Implements == Atomic!ASpec

(* A command that is not killed returns. *)
CommandEnds == (pc # "idle") ~> (pc = "idle")

==============================================================================
