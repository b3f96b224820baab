------------------------------- MODULE FileOps -------------------------------
(***************************************************************************)
(* The filesystem vocabulary of src/change.rs: Operations, the             *)
(* Compensations that reverse them, what each of them reads (its           *)
(* precondition) and the succession of directory states each of them walks *)
(* through (its effect, one element per durable step, so that an error or  *)
(* a crash may stop it after any of them).                                 *)
(*                                                                         *)
(* A directory state is a function from locations to what they hold.  The  *)
(* locations are the governed Paths and the engine's own hidden ones: the  *)
(* sibling backups and staging files beside a path, and the entries of     *)
(* recovery/<receipt>/.  An entry is represented by its fingerprint        *)
(* (`change::fingerprint` is taken to be injective); Missing is the        *)
(* fingerprint "missing".                                                  *)
(***************************************************************************)
EXTENDS Naturals, Sequences

CONSTANTS Path,       \* governed paths under the approved roots
          Content,    \* fingerprints of files, links and directory packages
          Missing,    \* the fingerprint of a path with no entry
          Torn,       \* the fingerprint of an interrupted recursive copy
          Receipt,    \* receipt identifiers (fresh ULIDs)
          MaxOps,     \* bound: operations in one Plan
          Device,     \* the filesystem each governed path is on
          StateDevice, \* the filesystem of the state directory
          Projected    \* paths in a package whose whole fingerprint a Plan binds

Held == Content \cup {Missing}

HiddenKind == {"backup", "temp", "replaced", "stash", "stashCreated", "restore"}
Hidden == HiddenKind \X Receipt \X (1 .. MaxOps)
Loc == Path \cup Hidden

ASSUME FileOpsAssumption ==
    /\ Missing \notin Content
    /\ Torn \in Content
    /\ MaxOps \in Nat
    /\ DOMAIN Device = Path /\ Projected \subseteq Path
    /\ Path \cap Hidden = {}

(***************************************************************************)
(* An operation as `prepare` stores it: what it was told to do, and the    *)
(* fingerprints it expects to find.                                        *)
(***************************************************************************)
OpKind == {"createDirectory", "createSymlink", "writeFile", "replaceFile",
           "removeSymlink", "copy", "moveRecoverable"}

CreatesMissingTarget(op) == op.kind \in OpKind \ {"replaceFile", "removeSymlink"}
IsUncompensatedCreate(op) ==
    op.kind \in {"createDirectory", "createSymlink", "writeFile", "copy"}

(* The path whose fingerprint the operation is bound to. *)
Subject(op) == IF op.kind \in {"copy", "moveRecoverable"} THEN op.source ELSE op.target

(* validate_anchored_current_state: "ok", or the error code it returns. *)
CurrentStateOfTarget(op, f) ==
    IF op.kind \in {"copy", "moveRecoverable"} /\ f[op.target] # Missing
    THEN "target_exists" ELSE "ok"
CurrentState(op, f) ==
    CASE f[Subject(op)] # op.expected -> "plan_drifted"
      [] op.kind = "createSymlink" /\ f[op.source] # op.expectedSource -> "plan_drifted"
      [] op.kind \in {"copy", "moveRecoverable"} /\ f[op.target] # Missing -> "target_exists"
      [] OTHER -> "ok"

(* What project_operation has accumulated after the operations before i. *)
ProjectedMissing(ops, i) ==
    {ops[j].source : j \in {k \in 1 .. i - 1 : ops[k].kind = "moveRecoverable"}}
      \cup {ops[j].target : j \in {k \in 1 .. i - 1 : ops[k].kind = "removeSymlink"}}
ProjectedPresent(ops, i) ==
    {ops[j].target : j \in {k \in 1 .. i - 1 : ops[k].kind # "removeSymlink"}}
ProjectedSource(ops, i, f) ==
    LET moves == {j \in 1 .. i - 1 : /\ ops[j].kind = "moveRecoverable"
                                     /\ ops[j].target = ops[i].source}
    IN  IF moves = {} THEN f[ops[i].source] ELSE ops[CHOOSE j \in moves : TRUE].expected

(* One step of validate_operation_sequence_anchored. *)
ProjectedStateOK(ops, i, f) ==
    IF /\ ops[i].kind = "createSymlink"
       /\ \/ ops[i].target \in ProjectedMissing(ops, i)
          \/ ops[i].source \in ProjectedPresent(ops, i)
    THEN /\ ops[i].target \in ProjectedMissing(ops, i) => ops[i].expected = Missing
         /\ ProjectedSource(ops, i, f) = ops[i].expectedSource
    ELSE CurrentState(ops[i], f) = "ok"

SequenceOK(ops, f) == \A i \in 1 .. Len(ops) : ProjectedStateOK(ops, i, f)

(***************************************************************************)
(* What executing one validated operation does, step by step.  The last    *)
(* element is the state in which `execute` returns Ok.                     *)
(***************************************************************************)
MoveBackup(r, i) == <<"backup", r, i>>
StagedTemp(r, i) == <<"temp", r, i>>
ReplacedBackup(r, i) == <<"replaced", r, i>>

Moved(f, from, to) == [f EXCEPT ![to] = f[from], ![from] = Missing]
IsCross(op) == op.kind = "moveRecoverable" /\ Device[op.source] # Device[op.target]

Written(op, f) == IF op.kind = "copy" THEN f[op.source] ELSE op.content

(* A file or a tree is not written in one step: copy_tree creates the      *)
(* directory first and then one file after another, and a file exists      *)
(* before its bytes do.                                                    *)
TornTree(op, f) == <<[f EXCEPT ![op.target] = Torn]>>
TornFile(op, f) == <<[f EXCEPT ![op.target] = Torn]>>
HalfWritten(op, f) ==
    CASE op.kind = "copy" -> TornTree(op, f)
      [] op.kind = "writeFile" -> TornFile(op, f)
      [] OTHER -> <<>>

CreateSteps(op, f) ==
    <<f>> \o HalfWritten(op, f) \o <<[f EXCEPT ![op.target] = Written(op, f)]>>

(* A file is replaced by one staged beside it, which gets its metadata.    *)
Staged(op, r, i, f) == [f EXCEPT ![StagedTemp(r, i)] = op.content]
ReplaceSteps(op, r, i, f) ==
    LET torn == [f EXCEPT ![StagedTemp(r, i)] = Torn]
        staged == Staged(op, r, i, f)
        removed == [staged EXCEPT ![op.target] = Missing]
    IN  <<f, torn, staged, removed, Moved(removed, StagedTemp(r, i), op.target)>>

RemoveLinkSteps(op, r, i, f) == <<f, Moved(f, op.target, MoveBackup(r, i))>>

(* Across filesystems the original is hidden after its copy is complete.   *)
ImportSteps(op, r, i, f) ==
    LET copied == [f EXCEPT ![op.target] = f[op.source]]
    IN  <<f>> \o TornTree(op, f) \o <<copied, Moved(copied, op.source, MoveBackup(r, i))>>

ExecuteSteps(op, r, i, f) ==
    CASE IsUncompensatedCreate(op) -> CreateSteps(op, f)
      [] op.kind = "replaceFile" -> ReplaceSteps(op, r, i, f)
      [] op.kind = "removeSymlink" -> RemoveLinkSteps(op, r, i, f)
      [] IsCross(op) -> ImportSteps(op, r, i, f)
      [] OTHER -> <<f, Moved(f, op.source, op.target)>>

(* validate_path_projections: the content a finished Plan must have left.  *)
Left(op) ==
    CASE op.kind = "removeSymlink" -> Missing
      [] op.kind \in {"copy", "moveRecoverable"} -> op.expected
      [] OTHER -> op.content
ProjectionsHold(ops, f) ==
    \A i \in 1 .. Len(ops) : ops[i].target \in Projected => f[ops[i].target] = Left(ops[i])

(* The primitive itself refuses: exclusive creation, a no-replace rename,  *)
(* opening a path that is gone.                                            *)
RefusedUnlessPresent(op, r, i, f) == f[Subject(op)] = Missing
Refused(op, r, i, f) ==
    CASE IsUncompensatedCreate(op) ->
            \/ f[op.target] # Missing
            \/ op.kind \in {"createSymlink", "copy"} /\ f[op.source] = Missing
      [] op.kind = "replaceFile" -> f[op.target] = Missing
      [] op.kind = "removeSymlink" -> f[op.target] # op.expected
      [] OTHER -> f[op.source] = Missing \/ f[op.target] # Missing

(* "entry_identity_changed": a rename whose destination appeared, or a     *)
(* directory entry already published when its durability barrier failed.   *)
(* A replacement staged in full may fail in either way.                    *)
RefusedByIdentity(op, f) ==
    op.kind = "moveRecoverable" /\ ~IsCross(op) /\ f[op.source] # Missing
FaultByIdentity(op, step, steps) ==
    CASE op.kind = "removeSymlink" -> {FALSE}
      [] op.kind = "replaceFile" /\ step = 3 -> BOOLEAN
      [] OTHER -> {step = Len(steps)}

(***************************************************************************)
(* Compensations.                                                          *)
(***************************************************************************)
Stash(p, c) == [kind |-> "stashCreated", from |-> p, to |-> p, backup |-> p,
                expected |-> c, original |-> Missing]
RenameBack(from, to, c) == [kind |-> "renameBack", from |-> from, to |-> to,
                            backup |-> from, expected |-> c, original |-> c]
RestoreBackup(b, original, created, c) ==
    [kind |-> "restoreBackup", from |-> created, to |-> original, backup |-> b,
     expected |-> c, original |-> c]
RestoreReplaced(b, temp, p, old, new) ==
    [kind |-> "restoreReplacedFile", from |-> temp, to |-> p, backup |-> b,
     expected |-> new, original |-> old]

(* The compensation execute returns with Ok, read off the state g it left. *)
Executed(op, r, i, f, g) ==
    CASE IsUncompensatedCreate(op) -> <<Stash(op.target, g[op.target])>>
      [] op.kind = "replaceFile" -> <<>>
      [] op.kind = "removeSymlink" ->
            <<RenameBack(MoveBackup(r, i), op.target, op.expected)>>
      [] IsCross(op) -> <<RestoreBackup(MoveBackup(r, i), op.source, op.target, f[op.source])>>
      [] OTHER -> <<RenameBack(op.target, op.source, f[op.source])>>

(* partial_operation_compensation: what a failed operation left behind.    *)
Partial(op, r, i, f) ==
    LET b == MoveBackup(r, i) IN
    CASE op.kind = "removeSymlink" ->
            IF f[op.target] = Missing /\ f[b] = op.expected
            THEN <<RenameBack(b, op.target, op.expected)>> ELSE <<>>
      [] op.kind = "moveRecoverable" /\ f[op.target] # Missing /\ f[op.source] = Missing ->
            IF f[b] # Missing
            THEN <<RestoreBackup(b, op.source, op.target, f[op.target])>>
            ELSE <<RenameBack(op.target, op.source, f[op.target])>>
      [] OTHER ->
            IF CreatesMissingTarget(op) /\ f[op.target] # Missing
            THEN <<Stash(op.target, f[op.target])>> ELSE <<>>

PartialAmbiguous(op, r, i, f) ==
    /\ op.kind = "removeSymlink"
    /\ ~(f[op.target] = Missing /\ f[MoveBackup(r, i)] = op.expected)
    /\ ~(f[op.target] = op.expected /\ f[MoveBackup(r, i)] = Missing)

(* What `compensate` verifies before it changes a governed path. *)
CompensationOK(c, r, k, f) ==
    CASE c.kind = "stashCreated" -> f[c.from] = c.expected
      [] c.kind = "renameBack" -> f[c.from] = c.expected /\ f[c.to] = Missing
      [] c.kind = "restoreBackup" ->
            f[c.from] = c.expected /\ f[c.backup] = c.expected /\ f[c.to] = Missing
      [] c.kind = "restoreReplacedFile" ->
            /\ f[c.from] \in {Missing, c.expected}
            /\ f[c.to] \in {Missing, c.expected, c.original}
            /\ f[c.backup] = c.original
            /\ f[c.to] # c.original => f[<<"restore", r, k>>] = Missing

(* A rename into recovery/<receipt>/ has no cross-filesystem fallback. *)
Unstashable(c) ==
    c.kind \in {"stashCreated", "restoreBackup"} /\ Device[c.from] # StateDevice

(* Its second rename refuses an original that came back after it was verified. *)
OriginalReappeared(c, f) == c.kind = "restoreBackup" /\ f[c.to] # Missing

Swept(f, c) == [f EXCEPT ![c.from] = Missing]
Restaged(f, c, r, k) == [Swept(f, c) EXCEPT ![<<"restore", r, k>>] = f[c.backup]]

CompensationSteps(c, r, k, f) ==
    CASE c.kind = "stashCreated" -> <<f, Moved(f, c.from, <<"stash", r, k>>)>>
      [] c.kind = "renameBack" -> <<f, Moved(f, c.from, c.to)>>
      [] c.kind = "restoreBackup" ->
            LET stashed == Moved(f, c.from, <<"stashCreated", r, k>>)
            IN  IF OriginalReappeared(c, f) THEN <<f, stashed>>
                ELSE <<f, stashed, Moved(stashed, c.backup, c.to)>>
      [] OTHER ->
            LET removed == [Restaged(f, c, r, k) EXCEPT ![c.to] = Missing]
                restored == Moved(removed, <<"restore", r, k>>, c.to)
            IN  IF f[c.to] = c.original
                THEN <<f, Swept(f, c), [Swept(f, c) EXCEPT ![c.backup] = Missing]>>
                ELSE <<f, Swept(f, c), Restaged(f, c, r, k), removed, restored,
                       [restored EXCEPT ![c.backup] = Missing]>>

(***************************************************************************)
(* What a list of compensations says of the governed paths: what they held *)
(* before the first operation that changed them, and after the last one.   *)
(***************************************************************************)
Touches(c, p) == p = c.from \/ p = c.to
Touched(comps) == {p \in Path : \E j \in 1 .. Len(comps) : Touches(comps[j], p)}
First(comps, p) == CHOOSE j \in 1 .. Len(comps) :
    Touches(comps[j], p) /\ \A m \in 1 .. j - 1 : ~Touches(comps[m], p)
Last(comps, p) == CHOOSE j \in 1 .. Len(comps) :
    Touches(comps[j], p) /\ \A m \in j + 1 .. Len(comps) : ~Touches(comps[m], p)

PutBack(c, p) == IF p = c.to THEN c.original ELSE Missing
LeftBy(c, p) ==
    IF p = c.from \/ c.kind = "restoreReplacedFile" THEN c.expected ELSE Missing

Before(comps) == [p \in Touched(comps) |-> PutBack(comps[First(comps, p)], p)]
After(comps) == [p \in Touched(comps) |-> LeftBy(comps[Last(comps, p)], p)]
Found(comps) ==
    [p \in Touched(comps) |->
        {PutBack(comps[j], p) : j \in {m \in 1 .. Len(comps) : Touches(comps[m], p)}}]

==============================================================================
