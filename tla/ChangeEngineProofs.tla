------------------------- MODULE ChangeEngineProofs -------------------------
(***************************************************************************)
(* Proofs about ChangeEngine, for any Plans, trees, users and faults and   *)
(* any number of Receipts: its invariants, and that it implements          *)
(* AtomicChange.                                                           *)
(***************************************************************************)
EXTENDS ChangeEngine, TLAPS

Users == Foreign \cup {InitTree[p] : p \in Path}
Operation ==
    {o \in [kind : OpKind, target : Path, source : Path, content : Content,
            expected : Held, expectedSource : Held] :
        o.kind = "replaceFile" => o.content \notin Users}
Plans == {s \in Seq(Operation) : Len(s) <= MaxOps}

HiddenAs(kind) == {kind} \X Receipt \X (1 .. MaxOps)
CompensationKind == {"stashCreated", "renameBack", "restoreBackup", "restoreReplacedFile"}
Compensation ==
    {c \in [kind : CompensationKind, from : Loc, to : Path, backup : Loc,
            expected : Held, original : Held] :
        /\ c.kind \in {"stashCreated", "restoreBackup"} => c.from \in Path
        /\ c.kind = "renameBack" => c.from \in Path \cup HiddenAs("backup")
        /\ c.kind = "restoreBackup" => c.backup \in HiddenAs("backup")
        /\ c.kind = "restoreReplacedFile" =>
              /\ c.from \in HiddenAs("temp") /\ c.backup \in HiddenAs("replaced")
              /\ c.expected \notin Users}
Journaled == {s \in Seq(Compensation) : Len(s) <= MaxOps}
ReceiptRecord == [status : Status \cup {"Absent"}, done : Nat, comps : Journaled,
                  reverses : Receipt \cup {NoReceipt}]

Executing == {"record", "stage", "validate", "mutate", "persist"}
Compensating == {"verify", "act"}

TypeOK ==
    /\ fs \in [Loc -> Held] /\ journal \in [Receipt -> ReceiptRecord]
    /\ tracked \subseteq Receipt /\ ready \subseteq Plans
    /\ pc \in Executing \cup Compensating \cup {"idle", "finish", "done"}
    /\ mode \in {"apply", "salvage", "undo", "rollback"}
    /\ plan \in Plans /\ cur \in Receipt \cup {NoReceipt} /\ mem \in ReceiptRecord
    /\ k \in 0 .. MaxOps
    /\ verdict \in {"FailedRolledBack", "RecoveryRequired", "Undone"}
    /\ edited \subseteq Path /\ edits \in Nat /\ faults \in Nat
    /\ owed \subseteq Users \ {Missing}

(* The running command writes a Receipt of its own, already on disk.       *)
Returning == {"Applying", "RecoveryRequired", "Undone"}
Busy ==
    IF pc = "idle" THEN mode = "apply"
    ELSE
        /\ cur \in Receipt \ tracked
        /\ journal[cur].status # "Absent" /\ mem.status # "Absent"
        /\ journal[cur].reverses = mem.reverses
        /\ mode # "undo" => mem.reverses = NoReceipt
        /\ mode = "undo" =>
              /\ mem.reverses \in Receipt \ {cur} /\ journal[mem.reverses].status # "Absent"
              /\ mem.status \in Returning /\ verdict \in Returning

InStep ==
    /\ pc \in Executing => mode = "apply" /\ mem.status = "Applying" /\ mem.done <= Len(plan)
    /\ pc \in {"stage", "validate", "mutate"} => i <= Len(plan)
    /\ pc = "stage" => op.kind = "replaceFile"
    /\ pc \in {"record", "stage", "persist"} => Len(mem.comps) <= mem.done
    /\ pc \in {"validate", "mutate"} =>
          Len(mem.comps) <= IF op.kind = "replaceFile" THEN i ELSE mem.done
    /\ pc \in Compensating => k \in 1 .. Len(Comps)

Aside == {"stash", "stashCreated", "restore"}
Empty(kind, r, n) == fs[<<kind, r, n>>] = Missing
Untouched(r) == \A kind \in Aside, n \in 1 .. MaxOps : Empty(kind, r, n)

(* Receipts at rest.  Nothing is in the hidden places of one that was never *)
(* begun, nor has anything been set aside for one that can be undone.      *)
AtRest ==
    /\ \A r \in tracked : journal[r].status # "Absent"
    /\ \A r \in Receipt : journal[r].reverses # NoReceipt => journal[r].status \in Returning
    /\ \A r \in Receipt : Unused(r) =>
          \A kind \in HiddenKind, n \in 1 .. MaxOps : Empty(kind, r, n)
    /\ \A r \in tracked :
          journal[r].status = "Applied" /\ (\A u \in Receipt : journal[u].reverses # r)
              => Untouched(r)

(* The hidden places that the running command has still to use are empty.  *)
Ahead ==
    /\ pc \in Executing \/ (pc = "done" /\ mem.status = "Applied") => Untouched(cur)
    /\ pc \in Executing =>
          \A n \in i .. MaxOps : Empty("backup", cur, n) /\ Empty("temp", cur, n)
    /\ pc \in {"record", "stage", "persist"} => \A n \in i .. MaxOps : Empty("replaced", cur, n)
    /\ pc \in {"validate", "mutate"} => \A n \in i + 1 .. MaxOps : Empty("replaced", cur, n)
    /\ pc \in Compensating => \A kind \in Aside, n \in 1 .. k : Empty(kind, Owner, n)

Validated ==
    /\ pc \in {"validate", "mutate"} /\ op.kind = "replaceFile" =>
          fs[ReplacedBackup(cur, i)] = op.expected
    /\ pc = "mutate" =>
          \/ fs[Subject(op)] = op.expected
          \/ Subject(op) \in edited /\ (op.kind = "replaceFile" => fs[op.target] \notin owed)

Verified ==
    pc = "act" =>
        LET c == Comps[k] IN
        IF c.kind = "restoreReplacedFile"
        THEN /\ fs[c.backup] = c.original /\ fs[c.from] \in {Missing, c.expected}
             /\ \/ fs[c.to] \in {Missing, c.expected, c.original}
                \/ c.to \in edited /\ fs[c.to] \notin owed
        ELSE c.from \notin edited => fs[c.from] = c.expected

Working == Busy /\ InStep /\ Ahead /\ Validated /\ Verified
IInv == TypeOK /\ AtRest /\ Working /\ NoContentLost

-----------------------------------------------------------------------------
(* What a step of the filesystem may do to the contents of W.              *)
Tree == [Loc -> Held]
Keeps(W, f, g) == \A c \in W : (\E l \in Loc : f[l] = c) => \E l \in Loc : g[l] = c

LEMMA Locations ==
  ASSUME NEW kind \in HiddenKind, NEW r \in Receipt, NEW n \in 1 .. MaxOps
  PROVE  <<kind, r, n>> \in Hidden /\ <<kind, r, n>> \in Loc /\ <<kind, r, n>> \notin Path
  BY FileOpsAssumption DEF Hidden, Loc

LEMMA PutKeeps ==
  ASSUME NEW W, NEW f \in Tree, NEW l \in Loc, NEW v \in Held, f[l] \notin W
  PROVE  Keeps(W, f, [f EXCEPT ![l] = v])
  BY DEF Keeps, Tree

LEMMA DropKeeps ==
  ASSUME NEW W, NEW f \in Tree, NEW l \in Loc, NEW m \in Loc, l # m, f[l] = f[m], NEW v \in Held
  PROVE  Keeps(W, f, [f EXCEPT ![l] = v])
  <1>1. [f EXCEPT ![l] = v][m] = f[l]
    BY DEF Tree
  <1>2. \A x \in Loc : x # l => [f EXCEPT ![l] = v][x] = f[x]
    BY DEF Tree
  <1> QED  BY <1>1, <1>2 DEF Keeps

LEMMA MovedFrame ==
  ASSUME NEW f \in Tree, NEW a \in Loc, NEW b \in Loc, a # b
  PROVE  /\ Moved(f, a, b) \in Tree
         /\ Moved(f, a, b)[a] = Missing /\ Moved(f, a, b)[b] = f[a]
         /\ \A l \in Loc : l # a /\ l # b => Moved(f, a, b)[l] = f[l]
  BY DEF Moved, Tree, Held

LEMMA MovedKeeps ==
  ASSUME NEW W, NEW f \in Tree, NEW a \in Loc, NEW b \in Loc, a # b, f[b] \notin W
  PROVE  Keeps(W, f, Moved(f, a, b))
  <1> DEFINE g == Moved(f, a, b)
  <1>1. g[b] = f[a] /\ \A l \in Loc : l # a /\ l # b => g[l] = f[l]
    BY MovedFrame
  <1> HIDE DEF g
  <1> QED  BY <1>1 DEF Keeps, g

LEMMA KeepsTransitive ==
  ASSUME NEW W, NEW f, NEW g, NEW h, Keeps(W, f, g), Keeps(W, g, h)
  PROVE  Keeps(W, f, h)
  BY DEF Keeps

(* The states an operation walks through are few.                          *)
LEMMA Elements ==
  ASSUME NEW S, NEW s \in Seq(S), Len(s) # 0
  PROVE  s[Len(s)] \in S /\ \A n \in 1 .. Len(s) : s[n] \in S
  OBVIOUS

LEMMA CreateElements ==
  ASSUME NEW o, NEW f
  PROVE  LET steps == CreateSteps(o, f)
         IN  /\ Len(steps) # 0
             /\ steps \in Seq({f, [f EXCEPT ![o.target] = Torn], [f EXCEPT ![o.target] = Written(o, f)]})
  <1> DEFINE torn == [f EXCEPT ![o.target] = Torn]
             done == [f EXCEPT ![o.target] = Written(o, f)]
             S == {f, torn, done}
  <1>1. HalfWritten(o, f) = <<torn>> \/ HalfWritten(o, f) = <<>>
    BY DEF HalfWritten, TornTree, TornFile
  <1>2. CreateSteps(o, f) = <<f>> \o HalfWritten(o, f) \o <<done>>
    BY DEF CreateSteps
  <1> HIDE DEF torn, done
  <1>3. <<f>> \in Seq(S) /\ <<done>> \in Seq(S) /\ <<torn>> \in Seq(S) /\ <<>> \in Seq(S)
    OBVIOUS
  <1>4. HalfWritten(o, f) \in Seq(S)
    BY <1>1, <1>3
  <1>5. Len(<<f>>) = 1 /\ Len(HalfWritten(o, f)) \in Nat /\ Len(<<done>>) = 1
    BY <1>4
  <1>6. CreateSteps(o, f) \in Seq(S) /\ Len(CreateSteps(o, f)) # 0
    BY <1>2, <1>3, <1>4, <1>5
  <1> QED  BY <1>6 DEF torn, done

LEMMA ImportElements ==
  ASSUME NEW o, NEW r, NEW j, NEW f
  PROVE  LET steps == ImportSteps(o, r, j, f)
             copied == [f EXCEPT ![o.target] = f[o.source]]
         IN  /\ Len(steps) # 0
             /\ steps \in Seq({f, [f EXCEPT ![o.target] = Torn], copied,
                               Moved(copied, o.source, MoveBackup(r, j))})
  <1> DEFINE torn == [f EXCEPT ![o.target] = Torn]
             copied == [f EXCEPT ![o.target] = f[o.source]]
             hidden == Moved(copied, o.source, MoveBackup(r, j))
             S == {f, torn, copied, hidden}
  <1>1. ImportSteps(o, r, j, f) = <<f>> \o <<torn>> \o <<copied, hidden>>
    BY DEF ImportSteps, TornTree
  <1> HIDE DEF torn, copied, hidden
  <1>2. <<f>> \in Seq(S) /\ <<torn>> \in Seq(S) /\ <<copied, hidden>> \in Seq(S)
    OBVIOUS
  <1>3. ImportSteps(o, r, j, f) \in Seq(S) /\ Len(ImportSteps(o, r, j, f)) # 0
    BY <1>1, <1>2
  <1> QED  BY <1>3 DEF torn, copied, hidden

(* What a step may change: contents are moved into the hidden places of    *)
(* one operation, or of one compensation, and taken from any.              *)
Frame(f, g, places) == \A h \in Hidden \ places : g[h] \in {f[h], Missing}

LEMMA ExecuteCases ==
  ASSUME NEW o \in Operation, NEW r, NEW j, NEW f
  PROVE  /\ IsUncompensatedCreate(o) =>
               ExecuteSteps(o, r, j, f) = CreateSteps(o, f)
         /\ o.kind = "replaceFile" => ExecuteSteps(o, r, j, f) = ReplaceSteps(o, r, j, f)
         /\ o.kind = "removeSymlink" => ExecuteSteps(o, r, j, f) = RemoveLinkSteps(o, r, j, f)
         /\ IsCross(o) => ExecuteSteps(o, r, j, f) = ImportSteps(o, r, j, f)
         /\ o.kind = "moveRecoverable" /\ ~IsCross(o) =>
               ExecuteSteps(o, r, j, f) = <<f, Moved(f, o.source, o.target)>>
  BY DEF ExecuteSteps, IsUncompensatedCreate, IsCross

LEMMA OperationFormed ==
  ASSUME NEW o \in Operation
  PROVE  /\ o.kind \in OpKind /\ o.target \in Path /\ o.source \in Path
         /\ o.content \in Held /\ o.expected \in Held
         /\ Missing \in Held /\ Torn \in Held
         /\ Path \subseteq Loc /\ Hidden \subseteq Loc /\ Path \cap Hidden = {}
  BY FileOpsAssumption DEF Operation, Held, Loc

(* A step from f to g, by the operation o of r, that loses nothing of W.   *)
Places(r, j) == {MoveBackup(r, j), StagedTemp(r, j)}
Kept(W, o, r, j, f, g) ==
    /\ g \in Tree /\ Keeps(W, f, g)
    /\ Frame(f, g, Places(r, j))
    /\ \A p \in Path : g[p] # f[p] => f[p] = Missing \/ p = Subject(o)
AllKept(W, o, r, j, f) ==
    LET steps == ExecuteSteps(o, r, j, f) IN
    Len(steps) \in Nat \ {0} /\ \A s \in 1 .. Len(steps) : Kept(W, o, r, j, f, steps[s])

LEMMA KeptByAll ==
  ASSUME NEW W, NEW o, NEW r, NEW j, NEW f, NEW S, \A g \in S : Kept(W, o, r, j, f, g),
         ExecuteSteps(o, r, j, f) \in Seq(S), Len(ExecuteSteps(o, r, j, f)) # 0
  PROVE  AllKept(W, o, r, j, f)
  BY Elements DEF AllKept

LEMMA FillKept ==
  ASSUME NEW W, NEW o, NEW r, NEW j, NEW f \in Tree,
         NEW l \in Path, NEW v \in Held, f[l] = Missing, Missing \notin W
  PROVE  Kept(W, o, r, j, f, [f EXCEPT ![l] = v])
  <1>1. l \in Loc /\ l \notin Hidden
    BY FileOpsAssumption DEF Loc
  <1>2. Keeps(W, f, [f EXCEPT ![l] = v])
    BY <1>1, PutKeeps
  <1> QED  BY <1>1, <1>2 DEF Kept, Frame, Tree, Loc

LEMMA SameKept ==
  ASSUME NEW W, NEW o, NEW r, NEW j, NEW f \in Tree
  PROVE  Kept(W, o, r, j, f, f)
  BY DEF Kept, Keeps, Frame

LEMMA MoveKept ==
  ASSUME NEW W, NEW o \in Operation, NEW r \in Receipt, NEW j \in 1 .. MaxOps, NEW f \in Tree,
         NEW b \in Loc, f[b] = Missing, Missing \notin W, Subject(o) # b,
         b \in Path \/ b = MoveBackup(r, j)
  PROVE  Kept(W, o, r, j, f, Moved(f, Subject(o), b))
  <1> DEFINE a == Subject(o)  g == Moved(f, Subject(o), b)
  <1>1. a \in Path /\ a \in Loc /\ a \notin Hidden
    BY OperationFormed DEF Subject
  <1>2. /\ Keeps(W, f, g) /\ g \in Tree /\ g[a] = Missing /\ g[b] = f[a]
        /\ \A l \in Loc : l # a /\ l # b => g[l] = f[l]
    BY <1>1, MovedKeeps, MovedFrame
  <1> HIDE DEF a, g
  <1>3. Frame(f, g, Places(r, j))
    BY <1>1, <1>2, OperationFormed DEF Frame, Places
  <1>4. \A p \in Path : g[p] # f[p] => f[p] = Missing \/ p = a
    BY <1>2, OperationFormed
  <1> QED  BY <1>2, <1>3, <1>4 DEF Kept, a, g

LEMMA CreateKept ==
  ASSUME NEW W, NEW o \in Operation, NEW r, NEW j, NEW f \in Tree, Missing \notin W,
         IsUncompensatedCreate(o), ~Refused(o, r, j, f)
  PROVE  AllKept(W, o, r, j, f)
  <1> DEFINE S == {f, [f EXCEPT ![o.target] = Torn], [f EXCEPT ![o.target] = Written(o, f)]}
  <1>1. f[o.target] = Missing
    BY DEF Refused, IsUncompensatedCreate
  <1>2. Written(o, f) \in Held
    BY OperationFormed DEF Written, Tree
  <1>3. \A g \in S : Kept(W, o, r, j, f, g)
    BY <1>1, <1>2, OperationFormed, FillKept, SameKept
  <1>4. ExecuteSteps(o, r, j, f) \in Seq(S) /\ Len(ExecuteSteps(o, r, j, f)) # 0
    BY ExecuteCases, CreateElements
  <1> HIDE DEF S
  <1> QED  BY <1>3, <1>4, KeptByAll

LEMMA ReplaceKept ==
  ASSUME NEW W, NEW o \in Operation, NEW r \in Receipt, NEW j \in 1 .. MaxOps, NEW f \in Tree,
         Missing \notin W, o.kind = "replaceFile", f[StagedTemp(r, j)] = Missing,
         f[ReplacedBackup(r, j)] = o.expected, f[o.target] = o.expected \/ f[o.target] \notin W
  PROVE  AllKept(W, o, r, j, f)
  <1> DEFINE t == StagedTemp(r, j)
             p == o.target
             torn == [f EXCEPT ![t] = Torn]
             staged == [f EXCEPT ![t] = o.content]
             removed == [staged EXCEPT ![p] = Missing]
             last == Moved(removed, t, p)
  <1>1. ExecuteSteps(o, r, j, f) = <<f, torn, staged, removed, last>>
    BY ExecuteCases DEF ReplaceSteps, Staged
  <1>2. /\ t \in Hidden /\ t \in Loc /\ t \notin Path /\ p \in Path /\ p \in Loc /\ p \notin Hidden
        /\ Subject(o) = p /\ ReplacedBackup(r, j) \in Hidden \ {t}
        /\ t # p /\ o.content \in Held /\ Missing \in Held /\ Torn \in Held /\ Hidden \subseteq Loc
    BY OperationFormed, Locations DEF Subject, StagedTemp, ReplacedBackup, HiddenKind
  <1> HIDE DEF t, p
  <1>3. staged \in Tree /\ staged[t] = o.content /\ \A l \in Loc : l # t => staged[l] = f[l]
    BY <1>2 DEF Tree
  <1>4. Keeps(W, f, staged)
    BY <1>2, PutKeeps DEF t
  <1>14. torn \in Tree /\ \A l \in Loc : l # t => torn[l] = f[l]
    BY <1>2 DEF Tree
  <1>15. Keeps(W, f, torn)
    BY <1>2, PutKeeps DEF t
  <1> HIDE DEF staged, torn
  <1>5. removed \in Tree /\ removed[p] = Missing /\ \A l \in Loc : l # p => removed[l] = staged[l]
    BY <1>2, <1>3 DEF Tree
  <1>6. Keeps(W, staged, removed)
    <2>1. CASE f[p] \notin W
      BY <2>1, <1>2, <1>3, PutKeeps
    <2>2. CASE f[p] = o.expected
      <3>1. staged[ReplacedBackup(r, j)] = staged[p]
        BY <2>2, <1>2, <1>3
      <3> QED  BY <3>1, <1>2, <1>3, DropKeeps
    <2> QED  BY <2>1, <2>2 DEF p
  <1> HIDE DEF removed
  <1>7. /\ Keeps(W, removed, last) /\ last \in Tree /\ last[t] = Missing
        /\ \A l \in Loc : l # t /\ l # p => last[l] = removed[l]
    BY <1>2, <1>5, MovedKeeps, MovedFrame
  <1> HIDE DEF last
  <1>8. Keeps(W, f, removed) /\ Keeps(W, f, last)
    BY <1>4, <1>6, <1>7, KeepsTransitive
  <1>9. /\ Frame(f, torn, Places(r, j)) /\ Frame(f, staged, Places(r, j)) /\ Frame(f, removed, Places(r, j)) /\ Frame(f, last, Places(r, j))
    BY <1>2, <1>3, <1>5, <1>7, <1>14 DEF Frame, Places, t
  <1>10. \A q \in Path : q # p => torn[q] = f[q] /\ staged[q] = f[q] /\ removed[q] = f[q] /\ last[q] = f[q]
    BY <1>2, <1>3, <1>5, <1>7, <1>14, OperationFormed
  <1>11. \A g \in {f, torn, staged, removed, last} : Kept(W, o, r, j, f, g)
    BY <1>2, <1>3, <1>4, <1>5, <1>7, <1>8, <1>9, <1>10, <1>14, <1>15, SameKept DEF Kept
  <1> DEFINE S == {f, torn, staged, removed, last}
  <1>12. ExecuteSteps(o, r, j, f) \in Seq(S) /\ Len(ExecuteSteps(o, r, j, f)) # 0
    BY <1>1
  <1> HIDE DEF S
  <1> QED  BY <1>11, <1>12, KeptByAll DEF S

LEMMA RemoveLinkKept ==
  ASSUME NEW W, NEW o \in Operation, NEW r \in Receipt, NEW j \in 1 .. MaxOps, NEW f \in Tree,
         Missing \notin W, o.kind = "removeSymlink", f[MoveBackup(r, j)] = Missing
  PROVE  AllKept(W, o, r, j, f)
  <1> DEFINE g == Moved(f, o.target, MoveBackup(r, j))  S == {f, g}
  <1>1. /\ MoveBackup(r, j) \in Loc /\ MoveBackup(r, j) \notin Path
        /\ Subject(o) = o.target /\ o.target \in Path
    BY Locations, OperationFormed DEF MoveBackup, HiddenKind, Subject
  <1>2. Kept(W, o, r, j, f, f) /\ Kept(W, o, r, j, f, g)
    BY <1>1, SameKept, MoveKept
  <1>3. ExecuteSteps(o, r, j, f) = <<f, g>>
    BY ExecuteCases DEF RemoveLinkSteps
  <1> HIDE DEF g
  <1>4. ExecuteSteps(o, r, j, f) \in Seq(S) /\ Len(ExecuteSteps(o, r, j, f)) # 0
    BY <1>3
  <1> QED  BY <1>2, <1>4, KeptByAll

LEMMA MoveRecoverableKept ==
  ASSUME NEW W, NEW o \in Operation, NEW r \in Receipt, NEW j \in 1 .. MaxOps, NEW f \in Tree,
         Missing \notin W, o.kind = "moveRecoverable", ~Refused(o, r, j, f),
         f[MoveBackup(r, j)] = Missing
  PROVE  AllKept(W, o, r, j, f)
  <1> DEFINE b == MoveBackup(r, j)
  <1>1. /\ b \in Hidden /\ b \in Loc /\ b \notin Path /\ Subject(o) = o.source
        /\ o.source \in Path /\ o.target \in Path /\ o.target \in Loc /\ o.source \in Loc
    BY Locations, OperationFormed DEF MoveBackup, HiddenKind, Subject
  <1>2. f[o.source] # Missing /\ f[o.target] = Missing
    BY DEF Refused, IsUncompensatedCreate
  <1>3. CASE ~IsCross(o)
    <2> DEFINE g == Moved(f, o.source, o.target)  S == {f, g}
    <2>1. Kept(W, o, r, j, f, f) /\ Kept(W, o, r, j, f, g)
      BY <1>1, <1>2, SameKept, MoveKept
    <2>2. ExecuteSteps(o, r, j, f) = <<f, g>>
      BY <1>3, ExecuteCases
    <2> HIDE DEF g
    <2>3. ExecuteSteps(o, r, j, f) \in Seq(S) /\ Len(ExecuteSteps(o, r, j, f)) # 0
      BY <2>2
    <2> QED  BY <2>1, <2>3, KeptByAll
  <1>4. CASE IsCross(o)
    <2> DEFINE torn == [f EXCEPT ![o.target] = Torn]
               copied == [f EXCEPT ![o.target] = f[o.source]]
               last == Moved(copied, o.source, b)
               S == {f, torn, copied, last}
    <2>1. Kept(W, o, r, j, f, f) /\ Kept(W, o, r, j, f, torn) /\ Kept(W, o, r, j, f, copied)
      <3>1. f[o.source] \in Held /\ Torn \in Held
        BY <1>1, OperationFormed DEF Tree
      <3> QED  BY <1>1, <1>2, <3>1, SameKept, FillKept
    <2>2. copied \in Tree /\ copied[b] = Missing /\ \A l \in Loc : l # o.target => copied[l] = f[l]
      BY <1>1, <1>2 DEF Tree
    <2>3. ExecuteSteps(o, r, j, f) \in Seq(S) /\ Len(ExecuteSteps(o, r, j, f)) # 0
      <3>1. ExecuteSteps(o, r, j, f) = ImportSteps(o, r, j, f)
        BY <1>4, ExecuteCases
      <3>2. ImportSteps(o, r, j, f) \in Seq(S) /\ Len(ImportSteps(o, r, j, f)) # 0
        BY ImportElements
      <3> QED  BY <3>1, <3>2
    <2> HIDE DEF copied
    <2>4. Kept(W, o, r, j, copied, last)
      BY <1>1, <2>2, MoveKept
    <2> HIDE DEF last
    <2>5. Kept(W, o, r, j, f, last)
      <3>1. Keeps(W, f, last) /\ last \in Tree
        BY <2>1, <2>4, KeepsTransitive DEF Kept
      <3>2. Frame(f, last, Places(r, j))
        BY <2>1, <2>4 DEF Kept, Frame
      <3>3. \A p \in Path : last[p] # f[p] => f[p] = Missing \/ p = Subject(o)
        BY <1>1, <1>2, <2>2, <2>4, OperationFormed DEF Kept
      <3> QED  BY <3>1, <3>2, <3>3 DEF Kept
    <2>6. \A g \in S : Kept(W, o, r, j, f, g)
      BY <2>1, <2>5
    <2> HIDE DEF S
    <2> QED  BY <2>3, <2>6, KeptByAll
  <1> QED  BY <1>3, <1>4

(* Every state an operation passes through keeps every content.            *)
LEMMA ExecuteKeeps ==
  ASSUME NEW o \in Operation, NEW r \in Receipt, NEW j \in 1 .. MaxOps, NEW f \in Tree,
         NEW W, Missing \notin W, ~Refused(o, r, j, f),
         f[MoveBackup(r, j)] = Missing, f[StagedTemp(r, j)] = Missing,
         o.kind = "replaceFile" =>
            f[ReplacedBackup(r, j)] = o.expected /\ (f[o.target] = o.expected \/ f[o.target] \notin W)
  PROVE  AllKept(W, o, r, j, f)
  <1>1. \/ IsUncompensatedCreate(o) \/ o.kind = "replaceFile" \/ o.kind = "removeSymlink"
        \/ o.kind = "moveRecoverable"
    BY OperationFormed DEF OpKind, IsUncompensatedCreate
  <1> QED  BY <1>1, CreateKept, ReplaceKept, RemoveLinkKept, MoveRecoverableKept

-----------------------------------------------------------------------------
(* The same of a compensation, the n-th of r.                              *)
AsideOf(r, n) == {<<"stash", r, n>>, <<"stashCreated", r, n>>, <<"restore", r, n>>}
Returned(W, c, r, n, f, g) ==
    /\ g \in Tree /\ Keeps(W, f, g)
    /\ Frame(f, g, AsideOf(r, n))
    /\ \A p \in Path : g[p] # f[p] =>
          f[p] = Missing \/ p = c.from \/ (p = c.to /\ c.kind = "restoreReplacedFile" /\ f[p] # c.original)
AllReturned(W, c, r, n, f) ==
    LET steps == CompensationSteps(c, r, n, f) IN
    Len(steps) \in Nat \ {0} /\ \A s \in 1 .. Len(steps) : Returned(W, c, r, n, f, steps[s])

LEMMA CompensationFormed ==
  ASSUME NEW c \in Compensation, NEW r \in Receipt, NEW n \in 1 .. MaxOps
  PROVE  /\ c.kind \in CompensationKind /\ c.from \in Loc /\ c.to \in Path /\ c.backup \in Loc
         /\ c.to \in Loc /\ c.to \notin Hidden
         /\ c.expected \in Held /\ c.original \in Held /\ Missing \in Held
         /\ AsideOf(r, n) \subseteq Hidden /\ Hidden \subseteq Loc
         /\ \A p \in Path : p \in Loc /\ p \notin Hidden
         /\ c.kind \in {"stashCreated", "restoreBackup"} => c.from \in Path
         /\ c.kind = "renameBack" => c.from \in Path \/ c.from \in Hidden \ AsideOf(r, n)
         /\ c.kind = "restoreBackup" => c.backup \in Hidden \ AsideOf(r, n)
         /\ c.kind = "restoreReplacedFile" =>
               /\ c.from \in Hidden \ AsideOf(r, n) /\ c.backup \in Hidden \ AsideOf(r, n)
               /\ c.from # c.backup /\ c.expected \notin Users
  <1>1. /\ c.kind \in CompensationKind /\ c.from \in Loc /\ c.to \in Path /\ c.backup \in Loc
        /\ c.expected \in Held /\ c.original \in Held
        /\ c.kind \in {"stashCreated", "restoreBackup"} => c.from \in Path
        /\ c.kind = "renameBack" => c.from \in Path \cup HiddenAs("backup")
        /\ c.kind = "restoreBackup" => c.backup \in HiddenAs("backup")
        /\ c.kind = "restoreReplacedFile" =>
              /\ c.from \in HiddenAs("temp") /\ c.backup \in HiddenAs("replaced")
              /\ c.expected \notin Users
    BY DEF Compensation
  <1>2. AsideOf(r, n) \subseteq Hidden
    BY Locations DEF AsideOf, HiddenKind
  <1>3. \A kind \in {"backup", "temp", "replaced"} : HiddenAs(kind) \subseteq Hidden \ AsideOf(r, n)
    BY DEF HiddenAs, Hidden, HiddenKind, AsideOf
  <1>4. HiddenAs("temp") \cap HiddenAs("replaced") = {}
    BY DEF HiddenAs
  <1> HIDE DEF AsideOf
  <1>5. Missing \in Held /\ Hidden \subseteq Loc /\ \A p \in Path : p \in Loc /\ p \notin Hidden
    BY FileOpsAssumption DEF Held, Loc
  <1> QED  BY <1>1, <1>2, <1>3, <1>4, <1>5

LEMMA ReturnedByAll ==
  ASSUME NEW W, NEW c, NEW r, NEW n, NEW f, NEW S, \A g \in S : Returned(W, c, r, n, f, g),
         CompensationSteps(c, r, n, f) \in Seq(S), Len(CompensationSteps(c, r, n, f)) # 0
  PROVE  AllReturned(W, c, r, n, f)
  BY Elements DEF AllReturned

LEMMA SameReturned ==
  ASSUME NEW W, NEW c, NEW r, NEW n, NEW f \in Tree
  PROVE  Returned(W, c, r, n, f, f)
  BY DEF Returned, Keeps, Frame

(* One move, of an entry that is there to where there is none.             *)
LEMMA MoveReturned ==
  ASSUME NEW W, NEW c \in Compensation, NEW r \in Receipt, NEW n \in 1 .. MaxOps, NEW f \in Tree,
         NEW b \in Loc, f[b] = Missing, Missing \notin W, c.from # b,
         b \in Path \/ b \in AsideOf(r, n)
  PROVE  Returned(W, c, r, n, f, Moved(f, c.from, b))
  <1> DEFINE g == Moved(f, c.from, b)
  <1>1. /\ Keeps(W, f, g) /\ g \in Tree /\ g[c.from] = Missing /\ g[b] = f[c.from]
        /\ \A l \in Loc : l # c.from /\ l # b => g[l] = f[l]
    BY CompensationFormed, MovedKeeps, MovedFrame
  <1> HIDE DEF g
  <1>2. Frame(f, g, AsideOf(r, n))
    BY <1>1, CompensationFormed DEF Frame
  <1>3. \A p \in Path : g[p] # f[p] => f[p] = Missing \/ p = c.from
    BY <1>1, CompensationFormed
  <1> QED  BY <1>1, <1>2, <1>3 DEF Returned, g

(* stashCreated and renameBack are one move each, restoreBackup is two.    *)
LEMMA MovesReturned ==
  ASSUME NEW W, NEW c \in Compensation, NEW r \in Receipt, NEW n \in 1 .. MaxOps, NEW f \in Tree,
         Missing \notin W, c.kind # "restoreReplacedFile", f[c.from] # Missing,
         c.kind = "renameBack" => f[c.to] = Missing,
         \A a \in AsideOf(r, n) : f[a] = Missing
  PROVE  AllReturned(W, c, r, n, f)
  <1>0. Returned(W, c, r, n, f, f)
    BY SameReturned
  <1>1. CASE c.kind = "stashCreated"
    <2> DEFINE b == <<"stash", r, n>>  g == Moved(f, c.from, b)  S == {f, g}
    <2>1. b \in AsideOf(r, n) /\ b \in Loc /\ c.from # b
      BY <1>1, CompensationFormed DEF AsideOf
    <2> HIDE DEF b
    <2>2. Returned(W, c, r, n, f, g)
      BY <2>1, MoveReturned
    <2> HIDE DEF g
    <2>3. CompensationSteps(c, r, n, f) = <<f, g>>
      BY <1>1, CompensationFormed DEF CompensationSteps, g, b
    <2>4. CompensationSteps(c, r, n, f) \in Seq(S) /\ Len(CompensationSteps(c, r, n, f)) # 0
      BY <2>3
    <2> QED  BY <1>0, <2>2, <2>4, ReturnedByAll
  <1>2. CASE c.kind = "renameBack"
    <2> DEFINE g == Moved(f, c.from, c.to)  S == {f, g}
    <2>1. Returned(W, c, r, n, f, g)
      BY <1>2, CompensationFormed, MoveReturned
    <2> HIDE DEF g
    <2>2. CompensationSteps(c, r, n, f) = <<f, g>>
      BY <1>2, CompensationFormed DEF CompensationSteps, g
    <2>3. CompensationSteps(c, r, n, f) \in Seq(S) /\ Len(CompensationSteps(c, r, n, f)) # 0
      BY <2>2
    <2> QED  BY <1>0, <2>1, <2>3, ReturnedByAll
  <1>3. CASE c.kind = "restoreBackup"
    <2> DEFINE b == <<"stashCreated", r, n>>
               stashed == Moved(f, c.from, b)
               last == Moved(stashed, c.backup, c.to)
               S == {f, stashed, last}
    <2>1. b \in AsideOf(r, n) /\ b \in Loc /\ b \in Hidden /\ c.from # b /\ c.from \in Path
      BY <1>3, CompensationFormed DEF AsideOf
    <2> HIDE DEF b
    <2>2. Returned(W, c, r, n, f, stashed)
      BY <2>1, MoveReturned
    <2>3. /\ stashed \in Tree
          /\ \A l \in Loc : l # c.from /\ l # b => stashed[l] = f[l]
      BY <2>1, CompensationFormed, MovedFrame
    <2> HIDE DEF stashed
    <2>4. CASE OriginalReappeared(c, f)
      <3>1. CompensationSteps(c, r, n, f) = <<f, stashed>>
        BY <1>3, <2>4, CompensationFormed DEF CompensationSteps, stashed, b
      <3>2. CompensationSteps(c, r, n, f) \in Seq({f, stashed}) /\ Len(CompensationSteps(c, r, n, f)) # 0
        BY <3>1
      <3> QED  BY <1>0, <2>2, <3>2, ReturnedByAll
    <2>5. CASE ~OriginalReappeared(c, f)
      <3>1. f[c.to] = Missing
        BY <1>3, <2>5 DEF OriginalReappeared
      <3>2. /\ c.to \in Loc /\ c.to # b /\ c.to # c.from /\ c.backup \in Loc /\ c.backup # c.to
            /\ c.backup \in Hidden \ AsideOf(r, n)
        BY <1>3, <2>1, <3>1, CompensationFormed
      <3>3. stashed[c.to] = Missing
        BY <2>3, <3>1, <3>2
      <3>4. /\ Keeps(W, stashed, last) /\ last \in Tree /\ last[c.backup] = Missing
            /\ \A l \in Loc : l # c.backup /\ l # c.to => last[l] = stashed[l]
        BY <2>3, <3>2, <3>3, MovedKeeps, MovedFrame
      <3> HIDE DEF last
      <3>5. Returned(W, c, r, n, f, last)
        <4>1. Keeps(W, f, last)
          BY <2>2, <3>4, KeepsTransitive DEF Returned
        <4>2. Frame(f, last, AsideOf(r, n))
          BY <2>2, <3>4, CompensationFormed DEF Returned, Frame
        <4>3. \A p \in Path : last[p] # f[p] => f[p] = Missing \/ p = c.from
          BY <1>3, <2>2, <3>1, <3>2, <3>4, CompensationFormed DEF Returned
        <4> QED  BY <3>4, <4>1, <4>2, <4>3 DEF Returned
      <3>6. CompensationSteps(c, r, n, f) = <<f, stashed, last>>
        BY <1>3, <2>5, CompensationFormed DEF CompensationSteps, last, stashed, b
      <3>7. CompensationSteps(c, r, n, f) \in Seq(S) /\ Len(CompensationSteps(c, r, n, f)) # 0
        BY <3>6
      <3> QED  BY <1>0, <2>2, <3>5, <3>7, ReturnedByAll
    <2> QED  BY <2>4, <2>5
  <1> QED  BY <1>1, <1>2, <1>3, CompensationFormed DEF CompensationKind

(* restoreReplacedFile: nothing but what the Plan wrote, or was put there  *)
(* while the file was being swapped, is overwritten.                       *)
LEMMA RestoreReturned ==
  ASSUME NEW W, NEW c \in Compensation, NEW r \in Receipt, NEW n \in 1 .. MaxOps, NEW f \in Tree,
         Missing \notin W, c.kind = "restoreReplacedFile", c.expected \notin W,
         f[c.backup] = c.original, f[c.from] \in {Missing, c.expected},
         f[c.to] \in {Missing, c.expected, c.original} \/ f[c.to] \notin W,
         \A a \in AsideOf(r, n) : f[a] = Missing
  PROVE  AllReturned(W, c, r, n, f)
  <1> DEFINE a == <<"restore", r, n>>
             from == c.from  to == c.to  backup == c.backup
             swept == [f EXCEPT ![from] = Missing]
  <1>1. /\ a \in AsideOf(r, n) /\ a \in Loc /\ a \in Hidden /\ f[a] = Missing
        /\ from \in Hidden \ AsideOf(r, n) /\ from \in Loc
        /\ backup \in Hidden \ AsideOf(r, n) /\ backup \in Loc
        /\ to \in Path /\ to \in Loc /\ to \notin Hidden
        /\ from # backup /\ from # a /\ backup # a /\ from # to /\ backup # to /\ a # to
        /\ Missing \in Held /\ Hidden \subseteq Loc /\ \A p \in Path : p \in Loc /\ p \notin Hidden
    BY CompensationFormed DEF AsideOf
  <1>2. f[from] \notin W /\ f[backup] = c.original /\ f[backup] \in Held
    BY CompensationFormed
  <1>3. c.kind = "restoreReplacedFile" /\ (f[to] # c.original => f[to] \notin W)
    OBVIOUS
  <1>4. swept = Swept(f, c)
    BY DEF Swept
  <1> HIDE DEF a, from, to, backup
  <1>5. swept \in Tree /\ swept[from] = Missing /\ \A l \in Loc : l # from => swept[l] = f[l]
    BY <1>1 DEF Tree
  <1>6. Keeps(W, f, swept)
    BY <1>1, <1>2, PutKeeps
  <1> HIDE DEF swept
  <1>7. Returned(W, c, r, n, f, f) /\ Returned(W, c, r, n, f, swept)
    <2>1. Frame(f, swept, AsideOf(r, n)) /\ \A p \in Path : swept[p] = f[p]
      BY <1>1, <1>5 DEF Frame
    <2> QED  BY <1>5, <1>6, <2>1, SameReturned DEF Returned
  <1>8. CASE f[to] = c.original
    <2> DEFINE last == [swept EXCEPT ![backup] = Missing]  S == {f, swept, last}
    <2>1. last \in Tree /\ last[backup] = Missing /\ \A l \in Loc : l # backup => last[l] = swept[l]
      BY <1>1, <1>5 DEF Tree
    <2>2. swept[backup] = swept[to]
      BY <1>1, <1>2, <1>5, <1>8
    <2>3. Keeps(W, swept, last)
      BY <1>1, <1>5, <2>2, DropKeeps
    <2>4. CompensationSteps(c, r, n, f) = <<f, swept, last>>
      BY <1>3, <1>4, <1>8 DEF CompensationSteps, to, backup
    <2> HIDE DEF last
    <2>5. Returned(W, c, r, n, f, last)
      <3>1. Keeps(W, f, last)
        BY <1>6, <2>3, KeepsTransitive
      <3>2. Frame(f, last, AsideOf(r, n)) /\ \A p \in Path : last[p] = f[p]
        BY <1>1, <1>5, <2>1 DEF Frame
      <3> QED  BY <2>1, <3>1, <3>2 DEF Returned
    <2>6. CompensationSteps(c, r, n, f) \in Seq(S) /\ Len(CompensationSteps(c, r, n, f)) # 0
      BY <2>4
    <2> QED  BY <1>7, <2>5, <2>6, ReturnedByAll
  <1>9. CASE f[to] # c.original
    <2> DEFINE staged == [swept EXCEPT ![a] = f[backup]]
               removed == [staged EXCEPT ![to] = Missing]
               restored == Moved(removed, a, to)
               last == [restored EXCEPT ![backup] = Missing]
               S == {f, swept, staged, removed, restored, last}
    <2>1. CompensationSteps(c, r, n, f) = <<f, swept, staged, removed, restored, last>>
      BY <1>3, <1>4, <1>9 DEF CompensationSteps, Restaged, a, to, backup
    <2>2. staged \in Tree /\ staged[a] = f[backup] /\ \A l \in Loc : l # a => staged[l] = swept[l]
      BY <1>1, <1>2, <1>5 DEF Tree
    <2>3. Keeps(W, swept, staged)
      <3>1. swept[a] \notin W
        BY <1>1, <1>5
      <3> QED  BY <3>1, <1>1, <1>2, <1>5, PutKeeps
    <2> HIDE DEF staged
    <2>4. removed \in Tree /\ removed[to] = Missing /\ \A l \in Loc : l # to => removed[l] = staged[l]
      BY <1>1, <2>2 DEF Tree
    <2>5. Keeps(W, staged, removed)
      BY <1>1, <1>3, <1>5, <1>9, <2>2, PutKeeps
    <2> HIDE DEF removed
    <2>6. /\ restored \in Tree /\ restored[a] = Missing /\ restored[to] = removed[a]
          /\ \A l \in Loc : l # a /\ l # to => restored[l] = removed[l]
      BY <1>1, <2>4, MovedFrame
    <2>7. Keeps(W, removed, restored)
      BY <1>1, <2>4, MovedKeeps
    <2> HIDE DEF restored
    <2>8. last \in Tree /\ last[backup] = Missing /\ \A l \in Loc : l # backup => last[l] = restored[l]
      BY <1>1, <2>6 DEF Tree
    <2>9. restored[backup] = restored[to]
      BY <1>1, <1>5, <2>2, <2>4, <2>6
    <2>10. Keeps(W, restored, last)
      BY <1>1, <2>6, <2>9, DropKeeps
    <2> HIDE DEF last
    <2>11. Keeps(W, f, staged) /\ Keeps(W, f, removed) /\ Keeps(W, f, restored) /\ Keeps(W, f, last)
      BY <1>6, <2>3, <2>5, <2>7, <2>10, KeepsTransitive
    <2>12. \A g \in {staged, removed, restored, last} :
              Frame(f, g, AsideOf(r, n)) /\ \A p \in Path : p # to => g[p] = f[p]
      <3>1. \A h \in Hidden : h # a /\ h # from /\ h # backup =>
               staged[h] = f[h] /\ removed[h] = f[h] /\ restored[h] = f[h] /\ last[h] = f[h]
        BY <1>1, <1>5, <2>2, <2>4, <2>6, <2>8
      <3>2. \A h \in {from, backup} : /\ staged[h] \in {f[h], Missing} /\ removed[h] \in {f[h], Missing}
                                      /\ restored[h] \in {f[h], Missing} /\ last[h] \in {f[h], Missing}
        BY <1>1, <1>5, <2>2, <2>4, <2>6, <2>8
      <3>3. \A p \in Path : p # to =>
               staged[p] = f[p] /\ removed[p] = f[p] /\ restored[p] = f[p] /\ last[p] = f[p]
        BY <1>1, <1>5, <2>2, <2>4, <2>6, <2>8
      <3> QED  BY <1>1, <3>1, <3>2, <3>3 DEF Frame
    <2>13. \A g \in S : Returned(W, c, r, n, f, g)
      BY <1>3, <1>7, <1>9, <2>2, <2>4, <2>6, <2>8, <2>11, <2>12 DEF Returned, to
    <2>14. CompensationSteps(c, r, n, f) \in Seq(S) /\ Len(CompensationSteps(c, r, n, f)) # 0
      BY <2>1
    <2> HIDE DEF S
    <2> QED  BY <2>13, <2>14, ReturnedByAll
  <1> QED  BY <1>8, <1>9

-----------------------------------------------------------------------------
(* The invariant holds at first.                                           *)
LEMMA InitIInv == Init => IInv
  <1> SUFFICES ASSUME Init PROVE IInv
    OBVIOUS
  <1> USE DEF Init
  <1>1. Absent \in ReceiptRecord
    BY FileOpsAssumption DEF Absent, ReceiptRecord, Journaled
  <1>2. TypeOK
    <2>1. fs \in [Loc -> Held] /\ owed \subseteq Users \ {Missing} /\ <<>> \in Plans /\ 0 \in 0 .. MaxOps
      BY FileOpsAssumption, ChangeEngineAssumption DEF Held, Users, Plans
    <2> QED  BY <1>1, <2>1 DEF TypeOK
  <1>3. AtRest
    BY FileOpsAssumption, Locations DEF AtRest, Absent, Empty
  <1>4. Working
    BY DEF Working, Busy, InStep, Ahead, Validated, Verified, Executing, Compensating
  <1>5. NoContentLost
    BY FileOpsAssumption DEF NoContentLost, Loc
  <1> QED  BY <1>2, <1>3, <1>4, <1>5 DEF IInv

(* What is in the tree stays there, or moves.                              *)
LEMMA ContentStays ==
  ASSUME NoContentLost, Keeps(owed, fs, fs'), UNCHANGED owed
  PROVE  NoContentLost'
  BY DEF NoContentLost, Keeps

(* Only the Receipt r is written, and only hidden places of the Receipts   *)
(* in `dirty` are filled: neither has been undone nor can be.              *)
LEMMA AtRestStep ==
  ASSUME AtRest, journal \in [Receipt -> ReceiptRecord], tracked \subseteq Receipt,
         NEW r \in Receipt \ tracked, NEW record \in ReceiptRecord,
         journal' \in {journal, [journal EXCEPT ![r] = record]},
         record.status # "Absent", record.reverses # NoReceipt => record.status \in Returning,
         journal[r].reverses \in {NoReceipt, record.reverses}, tracked' = tracked,
         NEW dirty \in SUBSET Receipt,
         \A x \in dirty : /\ journal[x].status # "Absent"
                          /\ x \in tracked => \E u \in Receipt : journal[u].reverses = x,
         \A x \in Receipt \ dirty, kind \in HiddenKind, n \in 1 .. MaxOps :
            fs'[<<kind, x, n>>] \in {fs[<<kind, x, n>>], Missing}
  PROVE  AtRest'
  <1>1. /\ \A x \in Receipt \ {r} : journal'[x] = journal[x]
        /\ journal'[r] \in {journal[r], record}
    OBVIOUS
  <1>2. \A x \in tracked' : journal'[x].status # "Absent"
    BY <1>1 DEF AtRest
  <1>3. \A x \in Receipt : journal'[x].reverses # NoReceipt => journal'[x].status \in Returning
    BY <1>1 DEF AtRest
  <1>4. ASSUME NEW x \in Receipt, journal'[x].status = "Absent",
               NEW kind \in HiddenKind, NEW n \in 1 .. MaxOps
        PROVE  fs'[<<kind, x, n>>] = Missing
    <2>1. journal[x].status = "Absent"
      BY <1>1, <1>4
    <2>2. x \notin dirty /\ fs[<<kind, x, n>>] = Missing
      BY <2>1 DEF AtRest, Unused, Empty
    <2> QED  BY <2>2
  <1>5. ASSUME NEW x \in tracked, journal'[x].status = "Applied",
               \A u \in Receipt : journal'[u].reverses # x,
               NEW kind \in Aside, NEW n \in 1 .. MaxOps
        PROVE  fs'[<<kind, x, n>>] = Missing
    <2>1. x \in Receipt /\ journal[x].status = "Applied"
      BY <1>1, <1>5
    <2>2. \A u \in Receipt : journal[u].reverses # x
      BY <1>1, <1>5, <2>1, ChangeEngineAssumption
    <2>3. x \notin dirty /\ fs[<<kind, x, n>>] = Missing
      BY <1>5, <2>1, <2>2 DEF AtRest, Untouched, Empty
    <2> QED  BY <2>1, <2>3 DEF Aside, HiddenKind
  <1>6. \A x \in Receipt : Unused(x)' => \A kind \in HiddenKind, n \in 1 .. MaxOps : Empty(kind, x, n)'
    BY <1>4 DEF Unused, Empty
  <1>7. \A x \in tracked' :
           journal'[x].status = "Applied" /\ (\A u \in Receipt : journal'[u].reverses # x) => Untouched(x)'
    BY <1>5 DEF Untouched, Empty
  <1> QED  BY <1>2, <1>3, <1>6, <1>7 DEF AtRest

LEMMA OwnerKnown ==
  ASSUME TypeOK, Working, pc # "idle"
  PROVE  /\ cur \in Receipt \ tracked /\ Owner \in Receipt /\ journal[Owner].status # "Absent"
         /\ mode = "undo" => Owner = mem.reverses /\ Owner # cur
         /\ mode # "undo" => Owner = cur /\ mem.reverses = NoReceipt
         /\ journal[cur].reverses = mem.reverses
  BY DEF Working, Busy, Owner

(* Nothing was filled of any other Receipt.                                *)
Others(g) ==
    \A x \in Receipt \ {cur, Owner}, kind \in HiddenKind, n \in 1 .. MaxOps :
        g[<<kind, x, n>>] \in {fs[<<kind, x, n>>], Missing}

LEMMA PlacesOthers ==
  ASSUME NEW g, NEW n, Frame(fs, g, Places(cur, n)) PROVE Others(g)
  <1>1. \A x \in Receipt \ {cur, Owner}, kind \in HiddenKind, m \in 1 .. MaxOps :
           <<kind, x, m>> \in Hidden \ Places(cur, n)
    BY DEF Places, MoveBackup, StagedTemp, Hidden
  <1> QED  BY <1>1 DEF Frame, Others

LEMMA AsideOthers ==
  ASSUME NEW g, NEW n, Frame(fs, g, AsideOf(Owner, n)) PROVE Others(g)
  <1>1. \A x \in Receipt \ {cur, Owner}, kind \in HiddenKind, m \in 1 .. MaxOps :
           <<kind, x, m>> \in Hidden \ AsideOf(Owner, n)
    BY DEF AsideOf, Hidden
  <1> QED  BY <1>1 DEF Frame, Others

LEMMA SameOthers == ASSUME UNCHANGED fs PROVE Others(fs')
  BY DEF Others

(* What a step of the running command may do to the journals.              *)
Writes(record) ==
    /\ record \in ReceiptRecord /\ record.status # "Absent" /\ record.reverses = mem.reverses
    /\ mode = "undo" => record.status \in Returning
    /\ journal' \in {journal, [journal EXCEPT ![cur] = record]}

LEMMA WorkAtRest ==
  ASSUME TypeOK, AtRest, Working, pc # "idle", NEW record, Writes(record), tracked' = tracked, Others(fs')
  PROVE  /\ AtRest' /\ journal' \in [Receipt -> ReceiptRecord]
         /\ journal'[cur].status # "Absent" /\ journal'[cur].reverses = mem.reverses
         /\ \A x \in Receipt \ {cur} : journal'[x] = journal[x]
  <1>1. /\ journal \in [Receipt -> ReceiptRecord] /\ tracked \subseteq Receipt
        /\ cur \in Receipt \ tracked /\ Owner \in Receipt
    BY OwnerKnown DEF TypeOK
  <1>2. /\ journal' \in [Receipt -> ReceiptRecord]
        /\ journal'[cur].status # "Absent" /\ journal'[cur].reverses = mem.reverses
        /\ \A x \in Receipt \ {cur} : journal'[x] = journal[x]
    BY <1>1 DEF Writes, Working, Busy
  <1> DEFINE dirty == {cur, Owner}
  <1>3. \A x \in dirty : /\ journal[x].status # "Absent"
                         /\ x \in tracked => \E u \in Receipt : journal[u].reverses = x
    BY <1>1, OwnerKnown DEF Working, Busy
  <1>4. record.reverses # NoReceipt => record.status \in Returning
    BY OwnerKnown DEF Writes
  <1>5. journal[cur].reverses \in {NoReceipt, record.reverses}
    BY OwnerKnown DEF Writes
  <1>6. \A x \in Receipt \ dirty, kind \in HiddenKind, n \in 1 .. MaxOps :
           fs'[<<kind, x, n>>] \in {fs[<<kind, x, n>>], Missing}
    BY DEF Others
  <1>7. dirty \in SUBSET Receipt
    BY <1>1
  <1> HIDE DEF dirty
  <1>8. AtRest'
    BY <1>1, <1>3, <1>4, <1>5, <1>6, <1>7, AtRestStep DEF Writes
  <1> QED  BY <1>2, <1>8

LEMMA Stopped == ASSUME Stop PROVE Working'
  BY DEF Stop, Working, Busy, InStep, Ahead, Validated, Verified, Executing, Compensating

LEMMA StoppedTyped ==
  ASSUME TypeOK, Stop, fs' \in Tree, journal' \in [Receipt -> ReceiptRecord], tracked' \subseteq Receipt,
         edits' \in Nat, faults' \in Nat, owed' = owed
  PROVE  TypeOK'
  <1>1. Absent \in ReceiptRecord /\ <<>> \in Plans /\ 0 \in 0 .. MaxOps
    BY FileOpsAssumption DEF Absent, ReceiptRecord, Journaled, Plans
  <1> QED  BY <1>1 DEF TypeOK, Stop, Tree

LEMMA OpTyped ==
  ASSUME TypeOK, InStep, pc \in {"stage", "validate", "mutate"}
  PROVE  op \in Operation /\ i \in 1 .. MaxOps /\ mem.done \in Nat /\ i = mem.done + 1
  <1>1. mem.done \in Nat /\ plan \in Seq(Operation) /\ Len(plan) <= MaxOps /\ i <= Len(plan)
    BY DEF TypeOK, ReceiptRecord, InStep, Plans
  <1>2. i \in 1 .. Len(plan) /\ Len(plan) \in Nat
    BY <1>1 DEF i
  <1> QED  BY <1>1, <1>2, FileOpsAssumption DEF i, op

(* From execution to compensation.                                         *)
LEMMA CompensateStep ==
  ASSUME TypeOK, Working, pc \in Executing, NEW record \in ReceiptRecord,
         record.status = "Applying", record.reverses = mem.reverses,
         NEW result \in {"FailedRolledBack", "RecoveryRequired"}, NEW how \in {"apply", "salvage"},
         Compensate(record, result, how), tracked' = tracked,
         journal'[cur].status # "Absent", journal'[cur].reverses = mem.reverses,
         \A kind \in Aside, n \in 1 .. MaxOps : fs'[<<kind, cur, n>>] = Missing
  PROVE  Working' /\ mem' \in ReceiptRecord /\ k' \in 0 .. MaxOps /\ pc' \in {"finish", "verify"}
  <1>1. /\ mem' = record /\ verdict' = result /\ mode' = how /\ plan' = plan /\ cur' = cur
        /\ k' = Len(record.comps) /\ pc' = IF record.comps = <<>> THEN "finish" ELSE "verify"
    BY DEF Compensate, CompensateFrom
  <1>2. record.comps \in Seq(Compensation) /\ Len(record.comps) <= MaxOps /\ Len(record.comps) \in Nat
    BY DEF ReceiptRecord, Journaled
  <1>3. k' \in 0 .. MaxOps /\ (record.comps # <<>> => k' \in 1 .. Len(record.comps))
    BY <1>1, <1>2, FileOpsAssumption
  <1>4. Comps' = record.comps /\ Owner' = cur
    BY <1>1 DEF Comps, Owner
  <1>5. Busy'
    <2>1. pc # "idle" /\ mode = "apply"
      BY DEF Working, InStep, Executing
    <2>2. cur \in Receipt \ tracked /\ mem.reverses = NoReceipt
      BY <2>1, OwnerKnown
    <2> QED  BY <1>1, <2>2 DEF Busy
  <1>6. InStep'
    BY <1>1, <1>3, <1>4 DEF InStep, Executing, Compensating
  <1>7. Ahead'
    BY <1>1, <1>2, <1>3, <1>4, FileOpsAssumption DEF Ahead, Executing, Compensating, Empty, Aside
  <1>8. Validated' /\ Verified'
    BY <1>1 DEF Validated, Verified
  <1> QED  BY <1>1, <1>3, <1>5, <1>6, <1>7, <1>8 DEF Working

-----------------------------------------------------------------------------
(* The steps, one by one.                                                  *)
LEMMA PlansBound == ASSUME TypeOK, NEW t \in Template PROVE Bound(t, fs) \in Plans
  <1>1. /\ Len(t) \in Nat /\ Len(t) <= MaxOps
        /\ \A n \in 1 .. Len(t) :
              /\ t[n] \in [kind : OpKind, target : Path, source : Path, content : Content]
              /\ t[n].kind = "replaceFile" => t[n].content \notin Users
    <2> DEFINE asked == [kind : OpKind, target : Path, source : Path, content : Content]
    <2>1. t \in Seq(asked) /\ Len(t) <= MaxOps
      BY ChangeEngineAssumption
    <2>2. \A n \in 1 .. Len(t) : t[n].kind = "replaceFile" => t[n].content \notin Users
      BY ChangeEngineAssumption DEF Users
    <2> HIDE DEF asked
    <2>3. Len(t) \in Nat /\ \A n \in 1 .. Len(t) : t[n] \in asked
      BY <2>1
    <2> QED  BY <2>1, <2>2, <2>3 DEF asked
  <1>2. \A n \in 1 .. Len(t) : /\ t[n].kind \in OpKind /\ t[n].target \in Path /\ t[n].source \in Path
                               /\ t[n].content \in Content
    BY <1>1
  <1>3. \A p \in Path : fs[p] \in Held
    BY DEF TypeOK, Loc
  <1> DEFINE expected(n) == IF t[n].kind = "createSymlink"
                            THEN IF t[n].target \in ProjectedMissing(t, n) THEN Missing
                                 ELSE fs[t[n].target]
                            ELSE fs[Subject(t[n])]
             moves(n) == {j \in 1 .. n - 1 : t[j].kind = "moveRecoverable" /\ t[j].target = t[n].source}
             source(n) == IF moves(n) = {} THEN fs[t[n].source]
                          ELSE fs[t[CHOOSE j \in moves(n) : TRUE].source]
             bound(n) == [kind |-> t[n].kind, target |-> t[n].target, source |-> t[n].source,
                          content |-> t[n].content, expected |-> expected(n), expectedSource |-> source(n)]
  <1>4. \A n \in 1 .. Len(t) : expected(n) \in Held
    BY <1>2, <1>3 DEF Held, Subject
  <1>5. ASSUME NEW n \in 1 .. Len(t) PROVE source(n) \in Held
    <2>1. CASE moves(n) = {}
      BY <1>2, <1>3, <2>1
    <2>2. CASE moves(n) # {}
      <3>1. (CHOOSE j \in moves(n) : TRUE) \in moves(n)
        BY <2>2
      <3>2. (CHOOSE j \in moves(n) : TRUE) \in 1 .. Len(t)
        BY <1>1, <3>1
      <3> HIDE DEF moves
      <3> QED  BY <1>2, <1>3, <2>2, <3>2
    <2> QED  BY <2>1, <2>2
  <1> HIDE DEF expected, source, moves
  <1>6. \A n \in 1 .. Len(t) : bound(n) \in Operation
    BY <1>1, <1>2, <1>4, <1>5 DEF Operation
  <1>7. Bound(t, fs) = [n \in 1 .. Len(t) |-> bound(n)]
    BY DEF Bound, expected, source, moves
  <1> HIDE DEF bound
  <1>8. Bound(t, fs) \in Seq(Operation) /\ Len(Bound(t, fs)) = Len(t)
    BY <1>1, <1>6, <1>7
  <1> QED  BY <1>1, <1>8 DEF Plans

LEMMA PrepareStep == ASSUME IInv, NEW t \in Template, Prepare(t) PROVE IInv'
  <1> USE DEF disk, command, history
  <1>1. UNCHANGED <<disk, command, edits, faults, history>> /\ ready' = ready \cup {Bound(t, fs)}
    BY DEF Prepare
  <1>2. TypeOK'
    BY <1>1, PlansBound DEF IInv, TypeOK
  <1>3. AtRest' /\ Working' /\ NoContentLost'
    BY <1>1 DEF IInv, AtRest, Working, Busy, InStep, Ahead, Validated, Verified, NoContentLost,
       Unused, Empty, Untouched, i, op, Comps, Owner
  <1> QED  BY <1>2, <1>3 DEF IInv

(* No command is running: one may take a Receipt of its own.               *)
LEMMA BeginAtRest ==
  ASSUME TypeOK, AtRest, NEW r \in Receipt, Unused(r), NEW x \in Receipt \cup {NoReceipt},
         journal' \in {journal, [journal EXCEPT ![r] = Fresh(x)]}, UNCHANGED <<fs, tracked>>
  PROVE  AtRest' /\ journal' \in [Receipt -> ReceiptRecord] /\ Fresh(x) \in ReceiptRecord
         /\ r \notin tracked
  <1>1. Fresh(x) \in ReceiptRecord /\ Fresh(x).status = "Applying" /\ Fresh(x).reverses = x
    BY FileOpsAssumption DEF Fresh, ReceiptRecord, Journaled, Status
  <1>2. r \notin tracked /\ journal[r].reverses = NoReceipt
    BY DEF AtRest, Unused, Returning
  <1>3. journal \in [Receipt -> ReceiptRecord] /\ tracked \subseteq Receipt
    BY DEF TypeOK
  <1>4. AtRest'
    <2> DEFINE record == Fresh(x)  dirty == {} \cap Receipt
    <2>1. record \in ReceiptRecord /\ record.status = "Applying" /\ record.status # "Absent"
      BY <1>1
    <2>2. journal' \in {journal, [journal EXCEPT ![r] = record]}
      OBVIOUS
    <2>3. journal[r].reverses \in {NoReceipt, record.reverses} /\ record.status \in Returning
      BY <1>1, <1>2 DEF Returning
    <2>4. /\ \A y \in Receipt \ dirty, kind \in HiddenKind, n \in 1 .. MaxOps :
                fs'[<<kind, y, n>>] \in {fs[<<kind, y, n>>], Missing}
          /\ dirty \in SUBSET Receipt
          /\ \A y \in dirty : /\ journal[y].status # "Absent"
                              /\ y \in tracked => \E u \in Receipt : journal[u].reverses = y
      OBVIOUS
    <2>5. r \in Receipt \ tracked /\ tracked' = tracked /\ (record.reverses # NoReceipt => record.status \in Returning)
      BY <1>2, <2>3
    <2> HIDE DEF record, dirty
    <2> QED  BY <1>3, <2>1, <2>2, <2>3, <2>4, <2>5, AtRestStep
  <1> QED  BY <1>1, <1>2, <1>3, <1>4

LEMMA BeginApplyStep == ASSUME IInv, NEW r \in Receipt, NEW ops \in ready, BeginApply(r, ops) PROVE IInv'
  <1>1. /\ pc = "idle" /\ Unused(r) /\ UNCHANGED <<fs, tracked, edits, owed>>
        /\ journal' \in {journal, [journal EXCEPT ![r] = Fresh(NoReceipt)]}
    BY DEF BeginApply
  <1>0. faults' \in Nat /\ ready' \subseteq ready
    <2>1. faults \in Nat
      BY DEF IInv, TypeOK
    <2> QED  BY <2>1 DEF BeginApply, Fault
  <1>2. /\ AtRest' /\ journal' \in [Receipt -> ReceiptRecord] /\ Fresh(NoReceipt) \in ReceiptRecord
        /\ r \notin tracked
    BY <1>1, BeginAtRest DEF IInv
  <1>3. NoContentLost'
    BY <1>1 DEF IInv, NoContentLost
  <1>4. CASE UNCHANGED command
    <2>1. UNCHANGED <<pc, mode, plan, cur, mem, k, verdict, edited>>
      BY <1>4 DEF command
    <2>2. TypeOK'
      BY <1>1, <1>0, <1>2, <2>1 DEF IInv, TypeOK
    <2>3. pc' = "idle" /\ mode' = "apply"
      BY <1>1, <2>1 DEF IInv, Working, Busy
    <2>4. Working'
      BY <2>3 DEF Working, Busy, InStep, Ahead, Validated, Verified, Executing, Compensating
    <2> QED  BY <1>2, <1>3, <2>2, <2>4 DEF IInv
  <1>5. CASE /\ journal' = [journal EXCEPT ![r] = Fresh(NoReceipt)]
             /\ mem' = Fresh(NoReceipt) /\ cur' = r /\ plan' = ops /\ pc' = "record"
             /\ UNCHANGED <<mode, k, verdict, edited, faults>>
    <2>1. mem'.done = 0 /\ mem'.status = "Applying" /\ Len(mem'.comps) = 0 /\ mem'.reverses = NoReceipt
          /\ journal'[r] = Fresh(NoReceipt) /\ ops \in Plans
      BY <1>5 DEF Fresh, IInv, TypeOK
    <2>2. TypeOK'
      BY <1>1, <1>0, <1>2, <1>5, <2>1 DEF IInv, TypeOK, Executing
    <2>3. mode' = "apply" /\ cur' = r /\ pc' = "record" /\ Len(plan') \in Nat /\ tracked' = tracked
      BY <1>1, <1>5, <2>1 DEF IInv, Working, Busy, Plans
    <2>4. Busy' /\ InStep'
      BY <1>2, <1>5, <2>1, <2>3 DEF Busy, InStep, Executing, Compensating
    <2>5. \A kind \in HiddenKind, n \in 1 .. MaxOps : fs'[<<kind, r, n>>] = Missing
      BY <1>1 DEF IInv, AtRest, Empty
    <2>6. i' = 1
      BY <2>1 DEF i
    <2>7. Ahead' /\ Validated' /\ Verified'
      BY <2>3, <2>5, <2>6 DEF Ahead, Validated, Verified, Executing, Compensating, Untouched, Empty, Aside,
         HiddenKind
    <2> QED  BY <1>2, <1>3, <2>2, <2>4, <2>7 DEF IInv, Working
  <1> QED  BY <1>4, <1>5 DEF BeginApply

LEMMA RecordStep == ASSUME IInv, Record PROVE IInv'
  <1>1. /\ pc = "record" /\ i <= Len(plan) /\ mode = "apply" /\ mem.status = "Applying"
        /\ UNCHANGED <<fs, tracked, edits, owed>> /\ faults' \in Nat
    <2>1. faults \in Nat /\ Len(plan) \in Nat /\ i \in Nat
      BY DEF IInv, TypeOK, Plans, i, ReceiptRecord
    <2> QED  BY <2>1 DEF Record, Fault, Persist, PersistFails, Exhausted, history, IInv, Working, InStep, Executing
  <1>2. Writes(mem)
    BY <1>1 DEF Writes, Record, Persist, PersistFails, IInv, TypeOK, Working, Busy
  <1>3. /\ AtRest' /\ journal' \in [Receipt -> ReceiptRecord]
        /\ journal'[cur].status # "Absent" /\ journal'[cur].reverses = mem.reverses
    BY <1>1, <1>2, WorkAtRest, SameOthers DEF IInv
  <1>4. NoContentLost'
    BY <1>1 DEF IInv, NoContentLost
  <1>5. CASE Stop
    <2>1. TypeOK'
      BY <1>1, <1>3, <1>5, StoppedTyped DEF IInv, TypeOK, Tree
    <2> QED  BY <1>3, <1>4, <1>5, <2>1, Stopped DEF IInv
  <1>6. CASE Goto(IF op.kind = "replaceFile" THEN "stage" ELSE "validate") /\ UNCHANGED mem
    <2>1. /\ UNCHANGED <<mode, plan, cur, mem, k, verdict, edited, ready>> /\ i' = i /\ op' = op
          /\ pc' = IF op.kind = "replaceFile" THEN "stage" ELSE "validate"
      BY <1>6 DEF Goto, i, op
    <2>2. TypeOK'
      BY <1>1, <1>3, <2>1 DEF IInv, TypeOK, Executing
    <2>3. Busy'
      BY <1>1, <1>3, <2>1 DEF IInv, Working, Busy
    <2>4. InStep'
      BY <1>1, <2>1 DEF IInv, Working, InStep, Executing, Compensating
    <2>5. Ahead'
      <3>1. \A n \in i + 1 .. MaxOps : n \in i .. MaxOps
        BY DEF i, IInv, TypeOK, ReceiptRecord
      <3> QED  BY <1>1, <2>1, <3>1 DEF IInv, Working, Ahead, Executing, Compensating, Untouched, Empty
    <2>6. Validated' /\ Verified'
      BY <1>1, <2>1 DEF Validated, Verified
    <2> QED  BY <1>3, <1>4, <2>2, <2>3, <2>4, <2>5, <2>6 DEF IInv, Working
  <1> QED  BY <1>5, <1>6 DEF Record

LEMMA StageStep == ASSUME IInv, Stage PROVE IInv'
  <1> DEFINE b == ReplacedBackup(cur, i)
             added == RestoreReplaced(b, StagedTemp(cur, i), op.target, op.expected, op.content)
             staged == [mem EXCEPT !.comps = Append(@, added)]
  <1>1. /\ pc = "stage" /\ op.kind = "replaceFile" /\ mode = "apply" /\ mem.status = "Applying"
        /\ UNCHANGED <<tracked, edits, owed>> /\ faults' \in Nat /\ Len(mem.comps) <= mem.done
        /\ mem.done <= Len(plan) /\ i <= Len(plan)
    <2>1. faults \in Nat
      BY DEF IInv, TypeOK
    <2> QED  BY <2>1 DEF Stage, Fault, Persist, PersistFails, history, IInv, Working, InStep, Executing
  <1>2. /\ op \in Operation /\ i \in 1 .. MaxOps /\ mem.done \in Nat /\ i = mem.done + 1
    BY <1>1, OpTyped DEF IInv, Working
  <1>3. cur \in Receipt /\ Owner = cur /\ cur \notin tracked /\ pc # "idle"
    BY <1>1, OwnerKnown DEF IInv
  <1>4. b \in Hidden /\ b \in Loc /\ b \notin Path /\ b # op.target /\ op.target \in Loc /\ fs[b] = Missing
    BY <1>1, <1>2, <1>3, Locations, OperationFormed DEF ReplacedBackup, HiddenKind, IInv, Working, Ahead, Empty
  <1>5. added \in Compensation
    <2>1. StagedTemp(cur, i) \in HiddenAs("temp") /\ b \in HiddenAs("replaced")
      BY <1>2, <1>3 DEF HiddenAs, StagedTemp, ReplacedBackup
    <2>2. StagedTemp(cur, i) \in Loc
      BY <1>2, <1>3, Locations DEF StagedTemp, HiddenKind
    <2>3. op.content \notin Users
      BY <1>1, <1>2 DEF Operation
    <2>4. op.target \in Path /\ op.expected \in Held /\ op.content \in Held
      BY <1>2, OperationFormed
    <2>5. /\ added.kind = "restoreReplacedFile" /\ added.from = StagedTemp(cur, i) /\ added.backup = b
          /\ added.expected = op.content
          /\ added \in [kind : CompensationKind, from : Loc, to : Path, backup : Loc,
                        expected : Held, original : Held]
      BY <1>4, <2>2, <2>4 DEF RestoreReplaced, CompensationKind
    <2> HIDE DEF added, b
    <2> QED  BY <2>1, <2>3, <2>5 DEF Compensation
  <1>6. staged \in ReceiptRecord /\ staged.status = mem.status /\ staged.reverses = mem.reverses
        /\ staged.done = mem.done /\ Len(staged.comps) <= i
    <2>1. mem \in ReceiptRecord /\ mem.comps \in Seq(Compensation)
      BY DEF IInv, TypeOK, ReceiptRecord, Journaled
    <2> DEFINE comps == Append(mem.comps, added)
    <2>2. comps \in Seq(Compensation) /\ Len(comps) = Len(mem.comps) + 1 /\ Len(mem.comps) \in Nat
      BY <2>1, <1>5
    <2>3. staged = [mem EXCEPT !.comps = comps]
      OBVIOUS
    <2> HIDE DEF comps, added
    <2>4. comps \in Journaled /\ Len(comps) <= i
      BY <1>1, <1>2, <2>2, FileOpsAssumption DEF Journaled
    <2> QED  BY <2>1, <2>3, <2>4 DEF ReceiptRecord
  <1> HIDE DEF added
  <1>7. fs' = fs \/ (fs[op.target] = op.expected /\ fs' = [fs EXCEPT ![b] = fs[op.target]])
    BY DEF Stage, BackedUp
  <1> HIDE DEF b
  <1>8. fs' \in Tree /\ Keeps(owed, fs, fs') /\ \A l \in Loc : l # b => fs'[l] = fs[l]
    <2>1. fs \in Tree /\ fs[op.target] \in Held /\ fs[b] \notin owed
      BY <1>2, <1>4, OperationFormed DEF IInv, TypeOK, Tree
    <2>2. CASE fs' = fs
      BY <2>1, <2>2 DEF Keeps
    <2>3. CASE fs' = [fs EXCEPT ![b] = fs[op.target]]
      BY <1>4, <2>1, <2>3, PutKeeps DEF Tree
    <2> QED  BY <1>7, <2>2, <2>3
  <1>9. Others(fs')
    <2>1. \A x \in Receipt \ {cur, Owner}, kind \in HiddenKind, n \in 1 .. MaxOps :
             <<kind, x, n>> \in Loc /\ <<kind, x, n>> # b
      BY Locations DEF b, ReplacedBackup
    <2> QED  BY <1>8, <2>1 DEF Others
  <1>10. NoContentLost'
    BY <1>1, <1>8, ContentStays DEF IInv
  <1>11. CASE Stop /\ journal' = journal
    <2>1. AtRest' /\ journal' \in [Receipt -> ReceiptRecord]
      <3>1. Writes(mem)
        BY <1>1, <1>11 DEF Writes, IInv, TypeOK, Working, Busy
      <3> QED  BY <1>1, <1>3, <1>9, <3>1, WorkAtRest DEF IInv
    <2>2. TypeOK'
      BY <1>1, <1>8, <1>11, <2>1, StoppedTyped DEF IInv, TypeOK
    <2> QED  BY <1>10, <1>11, <2>1, <2>2, Stopped DEF IInv
  <1>12. CASE journal' \in {journal, [journal EXCEPT ![cur] = staged]}
    <2>1. Writes(staged)
      BY <1>1, <1>3, <1>6, <1>12 DEF Writes, IInv, Working, Busy
    <2>2. /\ AtRest' /\ journal' \in [Receipt -> ReceiptRecord]
          /\ journal'[cur].status # "Absent" /\ journal'[cur].reverses = mem.reverses
      BY <1>1, <1>3, <1>9, <2>1, WorkAtRest DEF IInv
    <2>3. CASE Stop
      BY <1>1, <1>8, <1>10, <2>2, <2>3, StoppedTyped, Stopped DEF IInv, TypeOK
    <2>4. CASE fs[op.target] = op.expected /\ fs' = [fs EXCEPT ![b] = fs[op.target]] /\ mem' = staged /\ Goto("validate")
      <3>1. /\ UNCHANGED <<mode, plan, cur, k, verdict, edited, ready>> /\ mem' = staged /\ pc' = "validate"
            /\ i' = i /\ op' = op
        BY <1>6, <2>4 DEF Goto, i, op
      <3>2. TypeOK'
        BY <1>1, <1>6, <1>8, <2>2, <3>1 DEF IInv, TypeOK, Executing, Tree
      <3>3. Busy'
        BY <1>1, <1>3, <1>6, <2>2, <3>1 DEF IInv, Working, Busy
      <3>4. InStep'
        BY <1>1, <1>6, <3>1 DEF InStep, Executing, Compensating
      <3>5. \A kind \in HiddenKind, n \in 1 .. MaxOps :
               kind # "replaced" \/ n # i => fs'[<<kind, cur, n>>] = fs[<<kind, cur, n>>]
        BY <1>3, <1>8, Locations DEF b, ReplacedBackup
      <3>6. Untouched(cur) /\ (\A n \in i .. MaxOps : Empty("backup", cur, n) /\ Empty("temp", cur, n))
            /\ \A n \in i .. MaxOps : Empty("replaced", cur, n)
        BY <1>1 DEF IInv, Working, Ahead, Executing
      <3>7. Ahead'
        <4>1. /\ \A n \in i .. MaxOps : n \in 1 .. MaxOps
              /\ \A n \in i + 1 .. MaxOps : n \in i .. MaxOps /\ n # i
          BY <1>2, FileOpsAssumption
        <4>2. Untouched(cur)'
          BY <3>1, <3>5, <3>6 DEF Untouched, Empty, Aside, HiddenKind
        <4>3. \A n \in i .. MaxOps : Empty("backup", cur, n)' /\ Empty("temp", cur, n)'
          BY <3>1, <3>5, <3>6, <4>1 DEF Empty, HiddenKind
        <4>4. \A n \in i + 1 .. MaxOps : Empty("replaced", cur, n)'
          BY <3>1, <3>5, <3>6, <4>1 DEF Empty, HiddenKind
        <4> QED  BY <3>1, <4>2, <4>3, <4>4 DEF Ahead, Executing, Compensating, Empty
      <3>8. fs'[b] = op.expected
        BY <1>4, <2>4 DEF IInv, TypeOK
      <3>9. Validated' /\ Verified'
        BY <3>1, <3>8 DEF Validated, Verified, b
      <3> QED  BY <1>10, <2>2, <3>2, <3>3, <3>4, <3>7, <3>9 DEF IInv, Working
    <2>5. Stop \/ (fs[op.target] = op.expected /\ fs' = [fs EXCEPT ![b] = fs[op.target]] /\ mem' = staged /\ Goto("validate"))
      BY DEF Stage, BackedUp, b, added
    <2> QED  BY <2>3, <2>4, <2>5
  <1>13. (Stop /\ journal' = journal) \/ journal' \in {journal, [journal EXCEPT ![cur] = staged]}
    BY DEF Stage, Persist, PersistFails, b, added
  <1> QED  BY <1>11, <1>12, <1>13

(* The operation in hand, as its execution finds it.                       *)
LEMMA MutateKept ==
  ASSUME IInv, pc = "mutate", ~Refused(op, cur, i, fs)
  PROVE  AllKept(owed, op, cur, i, fs)
  <1>1. op \in Operation /\ i \in 1 .. MaxOps /\ cur \in Receipt /\ i \in i .. MaxOps
    BY OpTyped, OwnerKnown, FileOpsAssumption DEF IInv, Working
  <1>2. fs[MoveBackup(cur, i)] = Missing /\ fs[StagedTemp(cur, i)] = Missing
    BY <1>1 DEF IInv, Working, Ahead, Executing, Empty, MoveBackup, StagedTemp
  <1>3. op.kind = "replaceFile" =>
           fs[ReplacedBackup(cur, i)] = op.expected /\ (fs[op.target] = op.expected \/ fs[op.target] \notin owed)
    BY DEF IInv, Working, Validated, Subject
  <1>4. fs \in Tree /\ Missing \notin owed
    BY DEF IInv, TypeOK, Tree
  <1> QED  BY <1>1, <1>2, <1>3, <1>4, ExecuteKeeps

(* The compensation in hand, as it finds the tree.                         *)
LEMMA CompensationTyped ==
  ASSUME IInv, pc \in Compensating
  PROVE  Comps \in Journaled /\ Comps[k] \in Compensation /\ k \in 1 .. MaxOps /\ k \in 1 .. Len(Comps)
         /\ Owner \in Receipt /\ cur \in Receipt
  <1>1. Comps \in Journaled
    BY OwnerKnown DEF IInv, TypeOK, ReceiptRecord, Comps, Compensating, Working, Busy
  <1>2. k \in 1 .. Len(Comps) /\ Owner \in Receipt /\ cur \in Receipt
    BY OwnerKnown DEF IInv, Working, InStep, Compensating
  <1>3. Comps \in Seq(Compensation) /\ Len(Comps) <= MaxOps /\ Len(Comps) \in Nat
    BY <1>1 DEF Journaled
  <1> QED  BY <1>1, <1>2, <1>3, FileOpsAssumption

LEMMA ActReturned ==
  ASSUME IInv, pc = "act", ~CannotAct(Comps[k])
  PROVE  AllReturned(owed, Comps[k], Owner, k, fs)
  <1> DEFINE c == Comps[k]
  <1>1. c \in Compensation /\ k \in 1 .. MaxOps /\ Owner \in Receipt
    BY CompensationTyped DEF Compensating
  <1>2. \A a \in AsideOf(Owner, k) : fs[a] = Missing
    BY <1>1 DEF IInv, Working, Ahead, Compensating, Empty, AsideOf, Aside
  <1>3. fs \in Tree /\ Missing \notin owed /\ owed \subseteq Users
    BY DEF IInv, TypeOK, Tree
  <1>4. CASE c.kind # "restoreReplacedFile"
    <2>1. fs[c.from] # Missing /\ (c.kind = "renameBack" => fs[c.to] = Missing)
      BY <1>4 DEF CannotAct
    <2> HIDE DEF c
    <2>2. AllReturned(owed, c, Owner, k, fs)
      BY <1>1, <1>2, <1>3, <1>4, <2>1, MovesReturned
    <2> QED  BY <2>2 DEF c
  <1>5. CASE c.kind = "restoreReplacedFile"
    <2>1. /\ fs[c.backup] = c.original /\ fs[c.from] \in {Missing, c.expected}
          /\ fs[c.to] \in {Missing, c.expected, c.original} \/ fs[c.to] \notin owed
      BY <1>5 DEF IInv, Working, Verified
    <2>2. c.expected \notin owed
      BY <1>1, <1>3, <1>5, CompensationFormed
    <2> HIDE DEF c
    <2>3. AllReturned(owed, c, Owner, k, fs)
      BY <1>1, <1>2, <1>3, <1>5, <2>1, <2>2, RestoreReturned
    <2> QED  BY <2>3 DEF c
  <1> QED  BY <1>4, <1>5

(* What an operation leaves to be compensated: at most one entry.          *)
LEMMA Compensations ==
  ASSUME TypeOK, NEW o \in Operation, NEW r \in Receipt, NEW j \in 1 .. MaxOps, NEW f \in Tree, NEW g \in Tree
  PROVE  /\ Partial(o, r, j, f) \in Seq(Compensation) /\ Executed(o, r, j, f, g) \in Seq(Compensation)
         /\ Len(Partial(o, r, j, f)) <= IF o.kind = "replaceFile" THEN 0 ELSE 1
         /\ Len(Executed(o, r, j, f, g)) <= IF o.kind = "replaceFile" THEN 0 ELSE 1
  <1> DEFINE b == MoveBackup(r, j)
  <1>1. /\ o.kind \in OpKind /\ o.target \in Path /\ o.source \in Path /\ o.expected \in Held
        /\ o.target \in Loc /\ o.source \in Loc /\ Missing \in Held
        /\ \A h \in Tree, p \in Path : h[p] \in Held
    BY OperationFormed DEF Tree
  <1>2. b \in HiddenAs("backup") /\ b \in Loc
    BY Locations DEF MoveBackup, HiddenKind, HiddenAs
  <1> HIDE DEF b
  <1>3. ASSUME NEW p \in Path, NEW c \in Held PROVE Stash(p, c) \in Compensation
    <2>1. p \in Loc
      BY DEF Loc
    <2> QED  BY <1>1, <2>1 DEF Stash, Compensation, CompensationKind
  <1>4. ASSUME NEW p \in Path, NEW c \in Held, NEW a \in Path \cup {b} PROVE RenameBack(a, p, c) \in Compensation
    <2>1. a \in Loc /\ a \in Path \cup HiddenAs("backup")
      BY <1>2 DEF Loc
    <2> QED  BY <2>1 DEF RenameBack, Compensation, CompensationKind
  <1>5. ASSUME NEW p \in Path, NEW q \in Path, NEW c \in Held PROVE RestoreBackup(b, p, q, c) \in Compensation
    <2>1. q \in Loc
      BY DEF Loc
    <2> QED  BY <1>2, <2>1 DEF RestoreBackup, Compensation, CompensationKind
  <1>6. \/ Partial(o, r, j, f) = <<>>
        \/ o.kind # "replaceFile" /\ \E c \in Compensation : Partial(o, r, j, f) = <<c>>
    <2>1. f[o.target] \in Held
      BY <1>1
    <2>2. CASE o.kind = "removeSymlink"
      BY <1>1, <1>4, <2>2 DEF Partial, b
    <2>3. CASE o.kind = "moveRecoverable" /\ f[o.target] # Missing /\ f[o.source] = Missing
      <3>1. Partial(o, r, j, f) = IF f[b] # Missing THEN <<RestoreBackup(b, o.source, o.target, f[o.target])>>
                                  ELSE <<RenameBack(o.target, o.source, f[o.target])>>
        BY <2>3 DEF Partial, b
      <3> QED  BY <1>1, <1>4, <1>5, <2>1, <2>3, <3>1
    <2>4. CASE ~(o.kind = "removeSymlink") /\ ~(o.kind = "moveRecoverable" /\ f[o.target] # Missing /\ f[o.source] = Missing)
      <3>1. Partial(o, r, j, f) = IF CreatesMissingTarget(o) /\ f[o.target] # Missing
                                  THEN <<Stash(o.target, f[o.target])>> ELSE <<>>
        BY <2>4 DEF Partial
      <3>2. CreatesMissingTarget(o) => o.kind # "replaceFile"
        BY DEF CreatesMissingTarget
      <3> QED  BY <1>1, <1>3, <2>1, <3>1, <3>2
    <2> QED  BY <2>2, <2>3, <2>4
  <1>7. \/ Executed(o, r, j, f, g) = <<>>
        \/ o.kind # "replaceFile" /\ \E c \in Compensation : Executed(o, r, j, f, g) = <<c>>
    <2>1. g[o.target] \in Held /\ f[o.source] \in Held
      BY <1>1
    <2>2. CASE IsUncompensatedCreate(o)
      <3>1. Executed(o, r, j, f, g) = <<Stash(o.target, g[o.target])>> /\ o.kind # "replaceFile"
        BY <2>2 DEF Executed, IsUncompensatedCreate, IsCross
      <3> QED  BY <1>1, <1>3, <2>1, <3>1
    <2>3. CASE o.kind = "replaceFile"
      BY <2>3 DEF Executed, IsUncompensatedCreate, IsCross
    <2>4. CASE o.kind = "removeSymlink"
      <3>1. Executed(o, r, j, f, g) = <<RenameBack(b, o.target, o.expected)>>
        BY <2>4 DEF Executed, IsUncompensatedCreate, IsCross, b
      <3> QED  BY <1>1, <1>4, <2>4, <3>1
    <2>5. CASE o.kind = "moveRecoverable"
      <3>1. Executed(o, r, j, f, g) = IF IsCross(o) THEN <<RestoreBackup(b, o.source, o.target, f[o.source])>>
                                      ELSE <<RenameBack(o.target, o.source, f[o.source])>>
        BY <2>5 DEF Executed, IsUncompensatedCreate, IsCross, b
      <3> QED  BY <1>1, <1>4, <1>5, <2>1, <2>5, <3>1
    <2> QED  BY <1>1, <2>2, <2>3, <2>4, <2>5 DEF OpKind, IsUncompensatedCreate
  <1>8. Len(<<>>) = 0 /\ <<>> \in Seq(Compensation)
        /\ \A c \in Compensation : <<c>> \in Seq(Compensation) /\ Len(<<c>>) = 1
    OBVIOUS
  <1>9. ASSUME NEW s, s = <<>> \/ (o.kind # "replaceFile" /\ \E c \in Compensation : s = <<c>>)
        PROVE  s \in Seq(Compensation) /\ Len(s) <= IF o.kind = "replaceFile" THEN 0 ELSE 1
    <2>1. CASE s = <<>>
      BY <1>8, <2>1
    <2>2. CASE o.kind # "replaceFile" /\ \E c \in Compensation : s = <<c>>
      <3>1. PICK c \in Compensation : s = <<c>>
        BY <2>2
      <3>2. s \in Seq(Compensation) /\ Len(s) = 1
        BY <1>8, <3>1
      <3> QED  BY <2>2, <3>2
    <2> QED  BY <1>9, <2>1, <2>2
  <1> QED  BY <1>6, <1>7, <1>9

(* The command turns to compensating.                                      *)
LEMMA Compensated ==
  ASSUME IInv, pc \in Executing, NEW record \in ReceiptRecord,
         record.status = "Applying", record.reverses = mem.reverses,
         NEW result \in {"FailedRolledBack", "RecoveryRequired"}, NEW how \in {"apply", "salvage"},
         Compensate(record, result, how), NEW written, Writes(written),
         UNCHANGED <<tracked, edits, owed>>, faults' \in Nat,
         fs' \in Tree, Keeps(owed, fs, fs'), Others(fs'),
         \A kind \in Aside, n \in 1 .. MaxOps : fs'[<<kind, cur, n>>] = Missing
  PROVE  IInv'
  <1>1. TypeOK /\ AtRest /\ Working /\ pc # "idle"
    BY DEF IInv, Executing
  <1>2. /\ AtRest' /\ journal' \in [Receipt -> ReceiptRecord]
        /\ journal'[cur].status # "Absent" /\ journal'[cur].reverses = mem.reverses
    BY <1>1, WorkAtRest
  <1>3. Working' /\ mem' \in ReceiptRecord /\ k' \in 0 .. MaxOps /\ pc' \in {"finish", "verify"}
    BY <1>1, <1>2, CompensateStep
  <1>4. NoContentLost'
    BY ContentStays DEF IInv
  <1>5. TypeOK'
    <2>1. UNCHANGED <<plan, cur, edited, ready>> /\ mode' = how /\ verdict' = result
      BY DEF Compensate
    <2> QED  BY <1>1, <1>2, <1>3, <2>1 DEF TypeOK, Compensating, Tree
  <1> QED  BY <1>2, <1>3, <1>4, <1>5 DEF IInv

(* Aside of the running Apply nothing is set while it executes.            *)
LEMMA AsideEmpty ==
  ASSUME IInv, pc \in Executing, NEW g, NEW n, Frame(fs, g, Places(cur, n))
  PROVE  \A kind \in Aside, m \in 1 .. MaxOps : g[<<kind, cur, m>>] = Missing
  <1>1. cur \in Receipt
    BY OwnerKnown DEF IInv, Executing
  <1>2. \A kind \in Aside, m \in 1 .. MaxOps : <<kind, cur, m>> \in Hidden \ Places(cur, n)
    BY <1>1 DEF Aside, Hidden, HiddenKind, Places, MoveBackup, StagedTemp
  <1>3. \A kind \in Aside, m \in 1 .. MaxOps : fs[<<kind, cur, m>>] = Missing
    BY DEF IInv, Working, Ahead, Untouched, Empty
  <1> QED  BY <1>2, <1>3 DEF Frame

LEMMA FailedStep ==
  ASSUME IInv, pc \in {"validate", "mutate"}, NEW g \in Tree, fs' = g, Keeps(owed, fs, g),
         Frame(fs, g, Places(cur, i)), NEW byIdentity, Failed(g, byIdentity),
         UNCHANGED <<tracked, edits, owed>>, faults' \in Nat
  PROVE  IInv'
  <1> DEFINE partial == Partial(op, cur, i, g)
             receipt == [mem EXCEPT !.comps = @ \o partial]
  <1>1. pc \in Executing /\ mode = "apply" /\ mem.status = "Applying" /\ mem \in ReceiptRecord
        /\ cur \in Receipt /\ mem.comps \in Journaled
    BY OwnerKnown DEF IInv, TypeOK, Working, InStep, Executing, ReceiptRecord
  <1>2. op \in Operation /\ i \in 1 .. MaxOps /\ mem.done \in Nat /\ i = mem.done + 1
    BY OpTyped DEF IInv, Working
  <1>3. Others(fs') /\ \A kind \in Aside, m \in 1 .. MaxOps : fs'[<<kind, cur, m>>] = Missing
    BY <1>1, PlacesOthers, AsideEmpty
  <1>4. CASE Compensate(mem, "RecoveryRequired", "salvage") /\ UNCHANGED journal
    <2>1. Writes(mem)
      BY <1>1, <1>4 DEF Writes
    <2> QED  BY <1>1, <1>3, <1>4, <2>1, Compensated
  <1>5. CASE /\ Compensate(receipt, "FailedRolledBack", "apply")
             /\ journal' \in {journal} \cup (IF partial = <<>> THEN {} ELSE {[journal EXCEPT ![cur] = receipt]})
    <2>1. /\ partial \in Seq(Compensation) /\ Len(partial) <= IF op.kind = "replaceFile" THEN 0 ELSE 1
          /\ Len(partial) \in Nat
      BY <1>1, <1>2, Compensations DEF IInv
    <2> HIDE DEF partial
    <2>2. mem.comps \o partial \in Journaled
      <3>1. mem.comps \in Seq(Compensation) /\ Len(mem.comps) <= IF op.kind = "replaceFile" THEN i ELSE mem.done
        BY <1>1 DEF Journaled, IInv, Working, InStep
      <3>2. /\ mem.comps \o partial \in Seq(Compensation) /\ Len(mem.comps) \in Nat
            /\ Len(mem.comps \o partial) = Len(mem.comps) + Len(partial)
        BY <2>1, <3>1
      <3> QED  BY <1>2, <2>1, <3>1, <3>2, FileOpsAssumption DEF Journaled
    <2>3. receipt \in ReceiptRecord /\ receipt.status = "Applying" /\ receipt.reverses = mem.reverses
      BY <1>1, <2>2 DEF ReceiptRecord
    <2> HIDE DEF receipt
    <2>4. Writes(receipt)
      BY <1>1, <1>5, <2>3 DEF Writes
    <2> QED  BY <1>1, <1>3, <1>5, <2>3, <2>4, Compensated
  <1> QED  BY <1>4, <1>5 DEF Failed

LEMMA ValidateStep == ASSUME IInv, Validate PROVE IInv'
  <1>1. pc = "validate" /\ UNCHANGED <<fs, tracked, edits, owed, faults>> /\ fs \in Tree /\ faults \in Nat
    BY DEF Validate, history, IInv, TypeOK, Tree
  <1>2. CASE Failed(fs, FALSE)
    <2>1. Keeps(owed, fs, fs) /\ Frame(fs, fs, Places(cur, i))
      BY DEF Keeps, Frame
    <2> QED  BY <1>1, <1>2, <2>1, FailedStep
  <1>3. CASE CurrentState(op, fs) = "ok" /\ Goto("mutate") /\ UNCHANGED <<mem, journal>>
    <2>1. /\ UNCHANGED <<mode, plan, cur, mem, k, verdict, edited, ready, journal>> /\ i' = i /\ op' = op
          /\ pc' = "mutate" /\ pc \in Executing
      BY <1>1, <1>3 DEF Goto, i, op, Executing
    <2>2. TypeOK'
      BY <1>1, <2>1 DEF IInv, TypeOK, Executing, Tree
    <2>3. Busy'
      BY <1>1, <2>1 DEF IInv, Working, Busy
    <2>4. InStep'
      BY <1>1, <2>1 DEF IInv, Working, InStep, Executing, Compensating
    <2>5. Ahead'
      BY <1>1, <2>1 DEF IInv, Working, Ahead, Executing, Compensating, Untouched, Empty
    <2>6. fs[Subject(op)] = op.expected
      BY <1>3 DEF CurrentState
    <2>7. Validated'
      BY <1>1, <2>1, <2>6 DEF IInv, Working, Validated
    <2>8. Verified'
      BY <2>1 DEF Verified
    <2>9. AtRest' /\ NoContentLost'
      BY <1>1, <2>1 DEF IInv, AtRest, NoContentLost, Unused, Empty, Untouched
    <2> QED  BY <2>2, <2>3, <2>4, <2>5, <2>7, <2>8, <2>9 DEF IInv, Working
  <1> QED  BY <1>2, <1>3 DEF Validate

(* An operation that succeeded is recorded only in memory.                 *)
LEMMA MutateStep == ASSUME IInv, Mutate PROVE IInv'
  <1> DEFINE steps == ExecuteSteps(op, cur, i, fs)
             after == steps[Len(steps)]
             compensation == Executed(op, cur, i, fs, after)
             done == [mem EXCEPT !.done = i, !.comps = @ \o compensation]
  <1>1. /\ pc = "mutate" /\ ~Refused(op, cur, i, fs) /\ UNCHANGED <<tracked, edits, owed>>
        /\ faults' \in Nat /\ pc \in Executing
    <2>1. faults \in Nat
      BY DEF IInv, TypeOK
    <2> QED  BY <2>1 DEF Mutate, Fault, history, Executing
  <1>2. Len(steps) \in Nat \ {0} /\ \A s \in 1 .. Len(steps) : Kept(owed, op, cur, i, fs, steps[s])
    BY <1>1, MutateKept DEF AllKept
  <1> HIDE DEF steps
  <1>3. ASSUME NEW s \in 1 .. Len(steps), NEW byIdentity, Fault, fs' = steps[s],
               Failed(steps[s], byIdentity)
        PROVE  IInv'
    <2>1. Kept(owed, op, cur, i, fs, steps[s])
      BY <1>2, <1>3
    <2> QED  BY <1>1, <1>3, <2>1, FailedStep DEF Kept
  <1>4. CASE /\ fs' = after /\ mem' = done
             /\ Goto("persist") /\ UNCHANGED <<journal, faults>>
    <2>1. Kept(owed, op, cur, i, fs, after)
      BY <1>2
    <2> HIDE DEF after
    <2>2. after \in Tree /\ Keeps(owed, fs, after) /\ Frame(fs, after, Places(cur, i)) /\ fs \in Tree
      BY <2>1 DEF Kept, IInv, TypeOK, Tree
    <2>3. /\ op \in Operation /\ i \in 1 .. MaxOps /\ mem.done \in Nat /\ i = mem.done + 1
          /\ mem \in ReceiptRecord /\ cur \in Receipt /\ i <= Len(plan) /\ mode = "apply"
          /\ mem.status = "Applying" /\ pc # "idle" /\ mem.comps \in Seq(Compensation)
          /\ Len(mem.comps) <= IF op.kind = "replaceFile" THEN i ELSE mem.done
      BY <1>1, OpTyped, OwnerKnown DEF IInv, Working, InStep, TypeOK, ReceiptRecord, Executing, Journaled
    <2>4. compensation \in Seq(Compensation) /\ Len(compensation) <= IF op.kind = "replaceFile" THEN 0 ELSE 1
      BY <2>2, <2>3, Compensations DEF IInv
    <2> DEFINE comps == mem.comps \o compensation
    <2> HIDE DEF compensation
    <2>5. comps \in Journaled /\ Len(comps) <= i
      <3>1. comps \in Seq(Compensation) /\ Len(comps) = Len(mem.comps) + Len(compensation)
            /\ Len(mem.comps) \in Nat /\ Len(compensation) \in Nat
        BY <2>3, <2>4
      <3> QED  BY <2>3, <2>4, <3>1, FileOpsAssumption DEF Journaled
    <2>6. done = [mem EXCEPT !.done = i, !.comps = comps]
      OBVIOUS
    <2> HIDE DEF comps
    <2>7. /\ done \in ReceiptRecord /\ done.status = "Applying" /\ done.reverses = mem.reverses
          /\ done.done = i /\ done.comps = comps
      <3>1. i \in Nat
        BY <2>3
      <3>2. done \in ReceiptRecord
        BY <2>3, <2>5, <2>6, <3>1 DEF ReceiptRecord
      <3> QED  BY <2>3, <2>6, <3>2 DEF ReceiptRecord
    <2> HIDE DEF done
    <2>8. /\ UNCHANGED <<mode, plan, cur, k, verdict, edited, ready, journal>> /\ pc' = "persist" /\ i' = i + 1
      BY <1>4, <2>7 DEF Goto, i
    <2>9. /\ AtRest' /\ journal' \in [Receipt -> ReceiptRecord]
          /\ journal'[cur].status # "Absent" /\ journal'[cur].reverses = mem.reverses
      <3>1. Writes(mem) /\ Others(fs')
        BY <1>1, <1>4, <2>2, <2>3, PlacesOthers DEF Writes
      <3> QED  BY <1>1, <2>3, <3>1, WorkAtRest DEF IInv
    <2>10. NoContentLost'
      BY <1>1, <1>4, <2>2, ContentStays DEF IInv
    <2>11. TypeOK'
      BY <1>1, <1>4, <2>2, <2>7, <2>8, <2>9 DEF IInv, TypeOK, Executing, Tree
    <2>12. Busy'
      BY <1>1, <1>4, <2>3, <2>7, <2>8, <2>9 DEF IInv, Working, Busy
    <2>13. InStep'
      BY <1>4, <2>3, <2>5, <2>7, <2>8 DEF InStep, Executing, Compensating
    <2>14. \A kind \in {"backup", "temp", "replaced"}, n \in i + 1 .. MaxOps :
              fs[<<kind, cur, n>>] = Missing /\ <<kind, cur, n>> \in Hidden \ Places(cur, i)
      <3>1. \A n \in i + 1 .. MaxOps : n \in i .. MaxOps /\ n \in 1 .. MaxOps /\ n # i
        BY <2>3, FileOpsAssumption
      <3>2. \A n \in i + 1 .. MaxOps : \A kind \in {"backup", "temp", "replaced"} :
               <<kind, cur, n>> \in Hidden \ Places(cur, i)
        BY <2>3, <3>1 DEF Hidden, HiddenKind, Places, MoveBackup, StagedTemp
      <3> QED  BY <1>1, <3>1, <3>2 DEF IInv, Working, Ahead, Executing, Empty
    <2>15. Ahead'
      <3>1. \A kind \in {"backup", "temp", "replaced"}, n \in i' .. MaxOps : Empty(kind, cur, n)'
        BY <1>4, <2>2, <2>8, <2>14 DEF Frame, Empty
      <3>2. Untouched(cur)'
        BY <1>1, <1>4, <2>2, <2>8, AsideEmpty DEF Untouched, Empty
      <3> QED  BY <2>8, <3>1, <3>2 DEF Ahead, Executing, Compensating, Empty
    <2>16. Validated' /\ Verified'
      BY <2>8 DEF Validated, Verified
    <2> QED  BY <2>9, <2>10, <2>11, <2>12, <2>13, <2>15, <2>16 DEF IInv, Working
  <1> QED  BY <1>3, <1>4 DEF Mutate, steps

LEMMA MutateRefusedStep == ASSUME IInv, MutateRefused PROVE IInv'
  <1>1. /\ pc = "mutate" /\ UNCHANGED <<fs, tracked, edits, owed, faults>> /\ fs \in Tree /\ faults \in Nat
        /\ Failed(fs, RefusedByIdentity(op, fs))
    BY DEF MutateRefused, history, IInv, TypeOK, Tree
  <1>2. Keeps(owed, fs, fs) /\ Frame(fs, fs, Places(cur, i))
    BY DEF Keeps, Frame
  <1> QED  BY <1>1, <1>2, FailedStep

(* A step that leaves the tree alone.                                      *)
LEMMA StillTree ==
  ASSUME IInv, UNCHANGED <<fs, owed>>
  PROVE  /\ fs' \in Tree /\ Keeps(owed, fs, fs') /\ Others(fs') /\ NoContentLost'
         /\ pc \in Executing => \A kind \in Aside, n \in 1 .. MaxOps : fs'[<<kind, cur, n>>] = Missing
  BY SameOthers DEF IInv, TypeOK, Tree, Keeps, NoContentLost, Working, Ahead, Untouched, Empty

LEMMA PersistAppliedStep == ASSUME IInv, PersistApplied PROVE IInv'
  <1>1. /\ pc = "persist" /\ pc \in Executing /\ pc # "idle" /\ mode = "apply" /\ mem.status = "Applying"
        /\ UNCHANGED <<fs, tracked, edits, owed>> /\ faults' \in Nat /\ mem \in ReceiptRecord
    <2>1. faults \in Nat
      BY DEF IInv, TypeOK
    <2> QED  BY <2>1 DEF PersistApplied, Fault, Persist, PersistFails, history, IInv, TypeOK, Working, InStep, Executing
  <1>2. Writes(mem)
    BY <1>1 DEF Writes, PersistApplied, Persist, PersistFails
  <1>3. /\ AtRest' /\ journal' \in [Receipt -> ReceiptRecord]
        /\ journal'[cur].status # "Absent" /\ journal'[cur].reverses = mem.reverses
    BY <1>1, <1>2, WorkAtRest, StillTree DEF IInv
  <1>4. CASE Goto("record") /\ UNCHANGED mem
    <2>1. UNCHANGED <<mode, plan, cur, mem, k, verdict, edited, ready>> /\ i' = i /\ pc' = "record"
      BY <1>4 DEF Goto, i
    <2>2. TypeOK'
      BY <1>1, <1>3, <2>1 DEF IInv, TypeOK, Executing
    <2>3. Busy'
      BY <1>1, <1>3, <2>1 DEF IInv, Working, Busy
    <2>4. InStep'
      BY <1>1, <2>1 DEF IInv, Working, InStep, Executing, Compensating
    <2>5. Ahead'
      BY <1>1, <2>1 DEF IInv, Working, Ahead, Executing, Compensating, Untouched, Empty
    <2>6. Validated' /\ Verified'
      BY <2>1 DEF Validated, Verified
    <2> QED  BY <1>1, <1>3, StillTree, <2>2, <2>3, <2>4, <2>5, <2>6 DEF IInv, Working
  <1>5. CASE Compensate(mem, "FailedRolledBack", "salvage")
    <2>1. mem.reverses = mem.reverses
      OBVIOUS
    <2> QED  BY <1>1, <1>2, <1>5, <2>1, StillTree, Compensated
  <1> QED  BY <1>4, <1>5 DEF PersistApplied

LEMMA ConcludeStep == ASSUME IInv, Conclude PROVE IInv'
  <1> DEFINE applied == [mem EXCEPT !.status = "Applied"]
             unsure == [mem EXCEPT !.status = "RecoveryRequired"]
  <1>1. /\ pc = "record" /\ pc \in Executing /\ pc # "idle" /\ mode = "apply" /\ mem.status = "Applying"
        /\ UNCHANGED <<fs, tracked, edits, owed>> /\ faults' \in Nat /\ mem \in ReceiptRecord
    <2>1. faults \in Nat
      BY DEF IInv, TypeOK
    <2> QED  BY <2>1 DEF Conclude, Fault, Persist, history, IInv, TypeOK, Working, InStep, Executing
  <1>2. CASE Compensate(mem, "FailedRolledBack", "apply") /\ UNCHANGED <<journal, faults>>
    <2>1. Writes(mem)
      BY <1>1, <1>2 DEF Writes
    <2> QED  BY <1>1, <1>2, <2>1, StillTree, Compensated
  <1>3. CASE /\ Goto("done")
             /\ \/ Persist(applied) /\ mem' = applied
                \/ /\ Fault /\ mem' = unsure
                   /\ journal' \in {journal, [journal EXCEPT ![cur] = applied], [journal EXCEPT ![cur] = unsure]}
    <2>1. /\ applied \in ReceiptRecord /\ applied.status = "Applied" /\ applied.reverses = mem.reverses
          /\ unsure \in ReceiptRecord /\ unsure.status = "RecoveryRequired" /\ unsure.reverses = mem.reverses
      BY <1>1 DEF ReceiptRecord, Status
    <2> HIDE DEF applied, unsure
    <2>2. Writes(applied) \/ Writes(unsure)
      BY <1>1, <1>3, <2>1 DEF Writes, Persist
    <2>3. /\ AtRest' /\ journal' \in [Receipt -> ReceiptRecord]
          /\ journal'[cur].status # "Absent" /\ journal'[cur].reverses = mem.reverses
      BY <1>1, <2>2, WorkAtRest, StillTree DEF IInv
    <2>4. /\ UNCHANGED <<mode, plan, cur, k, verdict, edited, ready>> /\ pc' = "done" /\ mem' \in {applied, unsure}
      BY <1>3 DEF Goto
    <2>5. TypeOK'
      BY <1>1, <2>1, <2>3, <2>4 DEF IInv, TypeOK
    <2>6. Busy'
      BY <1>1, <2>1, <2>3, <2>4 DEF IInv, Working, Busy
    <2>7. InStep' /\ Validated' /\ Verified'
      BY <2>4 DEF InStep, Validated, Verified, Executing, Compensating
    <2>8. Ahead'
      BY <1>1, <2>4 DEF IInv, Working, Ahead, Executing, Compensating, Untouched, Empty
    <2> QED  BY <1>1, <2>3, <2>5, <2>6, <2>7, <2>8, StillTree DEF IInv, Working
  <1> QED  BY <1>2, <1>3 DEF Conclude

LEMMA BeginUndoStep ==
  ASSUME IInv, NEW r \in Receipt, NEW orig \in Receipt, BeginUndo(r, orig) PROVE IInv'
  <1>1. /\ pc = "idle" /\ Unused(r) /\ UNCHANGED <<fs, tracked, ready, edits, owed>>
        /\ journal' \in {journal, [journal EXCEPT ![r] = Fresh(orig)]} /\ faults' \in Nat
        /\ orig \in tracked /\ journal[orig].status = "Applied" /\ r # orig
    <2>1. faults \in Nat
      BY DEF IInv, TypeOK
    <2> QED  BY <2>1 DEF BeginUndo, Undoable, Unused, Fault
  <1>2. /\ AtRest' /\ journal' \in [Receipt -> ReceiptRecord] /\ Fresh(orig) \in ReceiptRecord
        /\ r \notin tracked
    BY <1>1, BeginAtRest DEF IInv
  <1>3. CASE UNCHANGED command
    <2>1. UNCHANGED <<pc, mode, plan, cur, mem, k, verdict, edited>>
      BY <1>3 DEF command
    <2>2. TypeOK'
      BY <1>1, <1>2, <2>1 DEF IInv, TypeOK
    <2>3. pc' = "idle" /\ mode' = "apply"
      BY <1>1, <2>1 DEF IInv, Working, Busy
    <2>4. Working'
      BY <2>3 DEF Working, Busy, InStep, Ahead, Validated, Verified, Executing, Compensating
    <2> QED  BY <1>1, <1>2, <2>2, <2>4, StillTree DEF IInv
  <1>4. CASE /\ journal' = [journal EXCEPT ![r] = Fresh(orig)]
             /\ cur' = r /\ mode' = "undo" /\ mem' = Fresh(orig)
             /\ verdict' = "Undone" /\ CompensateFrom(journal[orig].comps)
             /\ UNCHANGED <<plan, edited, faults>>
    <2> DEFINE comps == journal[orig].comps
    <2>1. /\ mem'.reverses = orig /\ mem'.status = "Applying" /\ journal'[r] = Fresh(orig)
          /\ journal'[r].status = "Applying" /\ journal'[r].reverses = orig
          /\ journal'[orig] = journal[orig] /\ Comps' = comps /\ Owner' = orig
      <3>1. journal \in [Receipt -> ReceiptRecord]
        BY DEF IInv, TypeOK
      <3>2. mem'.reverses = orig /\ mem'.status = "Applying" /\ journal'[r] = Fresh(orig) /\ journal'[orig] = journal[orig]
        BY <1>1, <1>4, <3>1 DEF Fresh
      <3> QED  BY <1>4, <3>2 DEF Fresh, Comps, Owner
    <2>2. comps \in Seq(Compensation) /\ Len(comps) \in 0 .. MaxOps
      <3>1. comps \in Seq(Compensation) /\ Len(comps) <= MaxOps
        BY DEF IInv, TypeOK, ReceiptRecord, Journaled
      <3> HIDE DEF comps
      <3> QED  BY <3>1, FileOpsAssumption
    <2>3. k' = Len(comps) /\ pc' = IF comps = <<>> THEN "finish" ELSE "verify"
      BY <1>4 DEF CompensateFrom
    <2> HIDE DEF comps
    <2>4. k' \in 0 .. MaxOps /\ (comps # <<>> => k' \in 1 .. Len(comps))
      BY <2>2, <2>3
    <2>5. TypeOK'
      BY <1>1, <1>2, <1>4, <2>3, <2>4 DEF IInv, TypeOK, Compensating
    <2>6. Busy'
      BY <1>1, <1>2, <1>4, <2>1, <2>3 DEF Busy, Returning
    <2>7. InStep' /\ Validated' /\ Verified'
      BY <2>1, <2>3, <2>4 DEF InStep, Validated, Verified, Executing, Compensating
    <2>8. Untouched(orig)
      <3>1. ASSUME NEW u \in Receipt, journal[u].reverses = orig PROVE FALSE
        <4>1. journal[u].status \in Returning
          BY <3>1, ChangeEngineAssumption DEF IInv, AtRest
        <4>2. ~Issue(u) /\ ~Reversed(orig)
          BY DEF BeginUndo, Clear, Undoable
        <4> QED  BY <3>1, <4>1, <4>2 DEF Issue, Pending, Reversed, Returning
      <3> QED  BY <1>1, <3>1 DEF IInv, AtRest
    <2>9. Ahead'
      <3>1. \A n \in 1 .. k' : n \in 1 .. MaxOps
        BY <2>4, FileOpsAssumption
      <3>2. pc' \in {"finish", "verify"}
        BY <2>3
      <3> QED  BY <1>1, <2>1, <2>8, <3>1, <3>2 DEF Ahead, Executing, Compensating, Untouched, Empty
    <2> QED  BY <1>1, <1>2, <2>5, <2>6, <2>7, <2>9, StillTree DEF IInv, Working
  <1> QED  BY <1>3, <1>4 DEF BeginUndo

LEMMA MetadataFailsStep == ASSUME IInv, MetadataFails PROVE IInv'
  <1>1. /\ pc = "done" /\ pc # "idle" /\ mem.status = "Applied" /\ UNCHANGED <<fs, journal, tracked, owed, base>>
        /\ mode' = "rollback" /\ verdict' = "FailedRolledBack" /\ CompensateFrom(mem.comps)
        /\ UNCHANGED <<plan, cur, mem, edited, ready, edits>> /\ faults' \in Nat
    <2>1. faults \in Nat
      BY DEF IInv, TypeOK
    <2> QED  BY <2>1 DEF MetadataFails, Fault, disk, history
  <1>2. mem.comps \in Seq(Compensation) /\ Len(mem.comps) \in 0 .. MaxOps
    <2>1. mem.comps \in Seq(Compensation) /\ Len(mem.comps) <= MaxOps
      BY DEF IInv, TypeOK, ReceiptRecord, Journaled
    <2> QED  BY <2>1, FileOpsAssumption
  <1>3. /\ k' = Len(mem.comps) /\ pc' = IF mem.comps = <<>> THEN "finish" ELSE "verify"
        /\ k' \in 0 .. MaxOps /\ (mem.comps # <<>> => k' \in 1 .. Len(mem.comps))
    BY <1>1, <1>2 DEF CompensateFrom
  <1>4. Comps' = mem.comps /\ Owner' = cur
    BY <1>1 DEF Comps, Owner
  <1>5. mem.reverses = NoReceipt
    BY <1>1 DEF IInv, Working, Busy, Returning
  <1>6. TypeOK'
    BY <1>1, <1>3 DEF IInv, TypeOK, Compensating
  <1>7. Busy'
    BY <1>1, <1>3, <1>5 DEF IInv, Working, Busy
  <1>8. InStep' /\ Validated' /\ Verified'
    BY <1>1, <1>3, <1>4 DEF InStep, Validated, Verified, Executing, Compensating
  <1>9. Ahead'
    <2>1. \A n \in 1 .. k' : n \in 1 .. MaxOps
      BY <1>3, FileOpsAssumption
    <2>2. Untouched(cur) /\ pc' \in {"finish", "verify"}
      BY <1>1, <1>3 DEF IInv, Working, Ahead
    <2> QED  BY <1>1, <1>4, <2>1, <2>2 DEF Ahead, Executing, Compensating, Untouched, Empty
  <1>10. AtRest' /\ NoContentLost'
    BY <1>1 DEF IInv, AtRest, NoContentLost, Unused, Empty, Untouched
  <1> QED  BY <1>6, <1>7, <1>8, <1>9, <1>10 DEF IInv, Working

LEMMA RestorationFailsStep == ASSUME IInv, RestorationFails PROVE IInv'
  <1>1. /\ pc = "done" /\ UNCHANGED <<fs, journal, tracked, owed, base, ready, pc, mode, plan, cur, k, verdict, edited, edits>>
        /\ mem' = [mem EXCEPT !.status = "RecoveryRequired"] /\ faults' \in Nat
    <2>1. faults \in Nat
      BY DEF IInv, TypeOK
    <2> QED  BY <2>1 DEF RestorationFails, Fault, disk, history
  <1>2. mem' \in ReceiptRecord /\ mem'.status = "RecoveryRequired" /\ mem'.reverses = mem.reverses
    BY <1>1 DEF IInv, TypeOK, ReceiptRecord, Status
  <1>3. TypeOK'
    BY <1>1, <1>2 DEF IInv, TypeOK
  <1>4. Busy'
    BY <1>1, <1>2 DEF IInv, Working, Busy, Returning
  <1>5. InStep' /\ Ahead' /\ Validated' /\ Verified'
    BY <1>1, <1>2 DEF InStep, Ahead, Validated, Verified, Executing, Compensating
  <1>6. AtRest' /\ NoContentLost'
    BY <1>1 DEF IInv, AtRest, NoContentLost, Unused, Empty, Untouched
  <1> QED  BY <1>3, <1>4, <1>5, <1>6 DEF IInv, Working

(* The command gives a compensation up.                                    *)
LEMMA GaveUp ==
  ASSUME IInv, pc \in Compensating, GiveUp, UNCHANGED <<journal, tracked, edits, owed>>, faults' \in Nat,
         fs' \in Tree, Keeps(owed, fs, fs'), Others(fs')
  PROVE  IInv'
  <1>1. /\ pc # "idle" /\ pc' = "finish" /\ k' = 0 /\ verdict' = "RecoveryRequired"
        /\ UNCHANGED <<mode, plan, cur, mem, edited, ready>>
    BY DEF GiveUp, Compensating
  <1>2. Writes(mem)
    BY <1>1 DEF Writes, IInv, TypeOK, Working, Busy
  <1>3. AtRest' /\ journal' \in [Receipt -> ReceiptRecord]
    BY <1>1, <1>2, WorkAtRest DEF IInv
  <1>4. TypeOK'
    BY <1>1, <1>3, FileOpsAssumption DEF IInv, TypeOK, Tree
  <1>5. Busy'
    BY <1>1 DEF IInv, Working, Busy, Returning
  <1>6. InStep' /\ Ahead' /\ Validated' /\ Verified'
    BY <1>1 DEF InStep, Ahead, Validated, Verified, Executing, Compensating
  <1>7. NoContentLost'
    BY ContentStays DEF IInv
  <1> QED  BY <1>3, <1>4, <1>5, <1>6, <1>7 DEF IInv, Working

LEMMA VerifyStep == ASSUME IInv, Verify PROVE IInv'
  <1> DEFINE c == Comps[k]
  <1>1. pc = "verify" /\ pc \in Compensating /\ UNCHANGED <<journal, tracked, edits, faults, owed>>
        /\ faults \in Nat /\ fs \in Tree /\ owed \subseteq Users
    BY DEF Verify, history, Compensating, IInv, TypeOK, Tree
  <1>2. c \in Compensation /\ k \in 1 .. MaxOps /\ Owner \in Receipt
    BY <1>1, CompensationTyped
  <1>3. CASE CompensationOK(c, Owner, k, fs) /\ Goto("act") /\ UNCHANGED <<fs, mem>>
    <2>1. UNCHANGED <<mode, plan, cur, mem, k, verdict, edited, ready>> /\ pc' = "act"
          /\ Comps' = Comps /\ Owner' = Owner
      BY <1>1, <1>3 DEF Goto, Comps, Owner
    <2>2. TypeOK'
      BY <1>1, <1>3, <2>1 DEF IInv, TypeOK, Compensating
    <2>3. Busy'
      BY <1>1, <2>1 DEF IInv, Working, Busy
    <2>4. InStep' /\ Validated'
      BY <1>1, <2>1 DEF IInv, Working, InStep, Validated, Executing, Compensating
    <2>5. Ahead'
      BY <1>1, <1>3, <2>1 DEF IInv, Working, Ahead, Executing, Compensating, Empty
    <2>6. Verified'
      <3>1. c.kind \in CompensationKind
        BY <1>2, CompensationFormed
      <3> HIDE DEF c
      <3>2. IF c.kind = "restoreReplacedFile"
            THEN /\ fs[c.backup] = c.original /\ fs[c.from] \in {Missing, c.expected}
                 /\ fs[c.to] \in {Missing, c.expected, c.original}
            ELSE fs[c.from] = c.expected
        BY <1>3, <3>1 DEF CompensationOK, CompensationKind
      <3>3. Comps'[k'] = c /\ fs' = fs
        BY <1>3, <2>1 DEF c
      <3> QED  BY <3>2, <3>3 DEF Verified
    <2>7. AtRest' /\ NoContentLost'
      BY <1>1, <1>3 DEF IInv, AtRest, NoContentLost, Unused, Empty, Untouched
    <2> QED  BY <2>2, <2>3, <2>4, <2>5, <2>6, <2>7 DEF IInv, Working
  <1>4. CASE GiveUp /\ fs' = fs
    <2>1. UNCHANGED <<fs, owed>>
      BY <1>1, <1>4
    <2> QED  BY <1>1, <1>4, <2>1, StillTree, GaveUp
  <1>5. CASE GiveUp /\ c.kind = "restoreReplacedFile" /\ fs[c.from] = c.expected /\ fs' = Swept(fs, c)
    <2>1. c.from \in Loc /\ Missing \in Held /\ fs[c.from] \notin owed
      BY <1>1, <1>2, <1>5, CompensationFormed
    <2> HIDE DEF c
    <2>2. fs' = [fs EXCEPT ![c.from] = Missing]
      BY <1>5 DEF Swept
    <2>3. Keeps(owed, fs, fs')
      BY <1>1, <2>1, <2>2, PutKeeps
    <2>4. fs' \in Tree /\ \A l \in Loc : fs'[l] \in {fs[l], Missing}
      BY <1>1, <2>1, <2>2 DEF Tree
    <2>5. Others(fs')
      BY <2>4, Locations DEF Others
    <2> QED  BY <1>1, <1>5, <2>3, <2>4, <2>5, GaveUp
  <1> QED  BY <1>3, <1>4, <1>5 DEF Verify

LEMMA ActRefusedStep == ASSUME IInv, ActRefused PROVE IInv'
  <1>1. pc \in Compensating /\ GiveUp /\ UNCHANGED <<fs, journal, tracked, edits, faults, owed>> /\ faults \in Nat
    BY DEF ActRefused, disk, history, Compensating, IInv, TypeOK
  <1>2. UNCHANGED <<fs, owed>>
    BY <1>1
  <1> QED  BY <1>1, <1>2, StillTree, GaveUp

LEMMA ActStep == ASSUME IInv, Act PROVE IInv'
  <1> DEFINE c == Comps[k]
             steps == CompensationSteps(c, Owner, k, fs)
  <1>1. /\ pc = "act" /\ pc # "idle" /\ pc \in Compensating /\ ~CannotAct(c)
        /\ UNCHANGED <<journal, tracked, edits, owed>> /\ faults' \in Nat
    <2>1. faults \in Nat
      BY DEF IInv, TypeOK
    <2> QED  BY <2>1 DEF Act, Fault, history, Compensating
  <1>2. Len(steps) \in Nat \ {0} /\ \A s \in 1 .. Len(steps) : Returned(owed, c, Owner, k, fs, steps[s])
    BY <1>1, ActReturned DEF AllReturned
  <1>3. k \in 1 .. MaxOps /\ k \in 1 .. Len(Comps) /\ Owner \in Receipt /\ k \in Nat /\ Len(Comps) \in Nat
    <2>1. Comps \in Seq(Compensation) /\ k \in 1 .. MaxOps /\ k \in 1 .. Len(Comps) /\ Owner \in Receipt
      BY <1>1, CompensationTyped DEF Journaled
    <2>2. Len(Comps) \in Nat
      BY <2>1
    <2> QED  BY <2>1, <2>2, FileOpsAssumption
  <1> HIDE DEF steps, c
  <1>4. PICK s \in 1 .. Len(steps) : fs' = steps[s]
    BY <1>2 DEF Act, steps, c
  <1>5. /\ fs' \in Tree /\ Keeps(owed, fs, fs') /\ Frame(fs, fs', AsideOf(Owner, k)) /\ Others(fs')
    BY <1>2, <1>4, AsideOthers DEF Returned
  <1>6. CASE GiveUp
    BY <1>1, <1>5, <1>6, GaveUp
  <1>7. CASE NextCompensation
    <2>1. /\ UNCHANGED <<mode, plan, cur, mem, verdict, edited, ready>> /\ k' = k - 1
          /\ pc' = IF k = 1 THEN "finish" ELSE "verify"
          /\ Comps' = Comps /\ Owner' = Owner
      BY <1>1, <1>7 DEF NextCompensation, Comps, Owner
    <2>2. k' \in 0 .. MaxOps /\ (k # 1 => k' \in 1 .. Len(Comps)) /\ pc' \in {"finish", "verify"}
      BY <1>3, <2>1, FileOpsAssumption
    <2>3. Writes(mem)
      BY <1>1 DEF Writes, IInv, TypeOK, Working, Busy
    <2>4. AtRest' /\ journal' \in [Receipt -> ReceiptRecord]
      BY <1>1, <1>5, <2>3, WorkAtRest DEF IInv
    <2>5. TypeOK'
      BY <1>1, <1>5, <2>1, <2>2, <2>4 DEF IInv, TypeOK, Compensating, Tree
    <2>6. Busy'
      BY <1>1, <2>1, <2>2 DEF IInv, Working, Busy
    <2>7. InStep' /\ Validated' /\ Verified'
      BY <2>1, <2>2 DEF InStep, Validated, Verified, Executing, Compensating
    <2>8. \A kind \in Aside, n \in 1 .. k' : fs'[<<kind, Owner, n>>] = Missing
      <3>1. \A n \in 1 .. k' : n \in 1 .. k /\ n \in 1 .. MaxOps /\ n # k
        BY <1>3, <2>1, FileOpsAssumption
      <3>2. \A kind \in Aside, n \in 1 .. k' : <<kind, Owner, n>> \in Hidden \ AsideOf(Owner, k)
        BY <1>3, <3>1 DEF Aside, Hidden, HiddenKind, AsideOf
      <3>3. \A kind \in Aside, n \in 1 .. k' : fs[<<kind, Owner, n>>] = Missing
        BY <1>1, <3>1 DEF IInv, Working, Ahead, Empty
      <3> QED  BY <1>5, <3>2, <3>3 DEF Frame
    <2>9. Ahead'
      BY <2>1, <2>2, <2>8 DEF Ahead, Executing, Compensating, Empty
    <2>10. NoContentLost'
      BY <1>1, <1>5, ContentStays DEF IInv
    <2> QED  BY <2>4, <2>5, <2>6, <2>7, <2>9, <2>10 DEF IInv, Working
  <1> QED  BY <1>6, <1>7 DEF Act

LEMMA FinishStep == ASSUME IInv, Finish PROVE IInv'
  <1> DEFINE finished == [mem EXCEPT !.status = verdict]
  <1>1. /\ pc = "finish" /\ pc # "idle" /\ UNCHANGED <<fs, tracked, edits, owed>> /\ faults' \in Nat
    <2>1. faults \in Nat
      BY DEF IInv, TypeOK
    <2> QED  BY <2>1 DEF Finish, Fault, Persist, PersistFails, history
  <1>2. /\ finished \in ReceiptRecord /\ finished.status = verdict /\ finished.reverses = mem.reverses
        /\ verdict \in {"FailedRolledBack", "RecoveryRequired", "Undone"}
    BY DEF IInv, TypeOK, ReceiptRecord, Status
  <1> HIDE DEF finished
  <1>3. Writes(finished)
    BY <1>1, <1>2 DEF Writes, Finish, Persist, PersistFails, IInv, Working, Busy, finished
  <1>4. /\ AtRest' /\ journal' \in [Receipt -> ReceiptRecord]
        /\ journal'[cur].status # "Absent" /\ journal'[cur].reverses = mem.reverses
        /\ \A x \in Receipt \ {cur} : journal'[x] = journal[x]
    BY <1>1, <1>3, WorkAtRest, StillTree DEF IInv
  <1>5. NoContentLost' /\ fs' \in Tree
    BY <1>1, StillTree
  <1>6. CASE Stop
    <2>1. TypeOK'
      BY <1>1, <1>4, <1>5, <1>6, StoppedTyped DEF IInv, TypeOK
    <2> QED  BY <1>4, <1>5, <1>6, <2>1, Stopped DEF IInv
  <1>7. CASE mem' = finished /\ Goto("done")
    <2>1. UNCHANGED <<mode, plan, cur, k, verdict, edited, ready>> /\ pc' = "done" /\ mem' = finished
      BY <1>7 DEF Goto
    <2>2. TypeOK'
      BY <1>1, <1>2, <1>4, <2>1 DEF IInv, TypeOK
    <2>3. Busy'
      BY <1>1, <1>2, <1>4, <2>1 DEF IInv, Working, Busy
    <2>4. InStep' /\ Ahead' /\ Validated' /\ Verified'
      BY <1>2, <2>1 DEF InStep, Ahead, Validated, Verified, Executing, Compensating
    <2> QED  BY <1>4, <1>5, <2>2, <2>3, <2>4 DEF IInv, Working
  <1> QED  BY <1>6, <1>7 DEF Finish, finished

(* A Receipt enters SQLite as the process remembers it.                    *)
LEMMA FinalizeStep == ASSUME IInv, Finalize PROVE IInv'
  <1>1. /\ pc = "done" /\ pc # "idle" /\ UNCHANGED <<fs, edits, owed>> /\ faults' \in Nat /\ Stop
        /\ \/ journal' = [journal EXCEPT ![cur] = mem] /\ tracked' = tracked \cup {cur}
           \/ journal' \in {journal, [journal EXCEPT ![cur] = mem]} /\ tracked' = tracked
    <2>1. faults \in Nat
      BY DEF IInv, TypeOK
    <2> QED  BY <2>1 DEF Finalize, Fault, Persist, PersistFails, history
  <1>2. /\ journal \in [Receipt -> ReceiptRecord] /\ mem \in ReceiptRecord /\ cur \in Receipt \ tracked
        /\ mem.status # "Absent" /\ journal[cur].reverses = mem.reverses /\ tracked \subseteq Receipt
        /\ mode = "undo" => mem.status \in Returning
        /\ mode # "undo" => mem.reverses = NoReceipt
        /\ mem.status = "Applied" => Untouched(cur)
        /\ journal[cur].status # "Absent"
    BY <1>1 DEF IInv, TypeOK, Working, Busy, Ahead
  <1>3. /\ NoContentLost' /\ fs' \in Tree
    BY <1>1, StillTree
  <1>4. AtRest'
    <2>1. CASE tracked' = tracked
      <3>1. Writes(mem)
        BY <1>1, <1>2 DEF Writes
      <3> QED  BY <1>1, <2>1, <3>1, WorkAtRest, StillTree DEF IInv
    <2>2. CASE journal' = [journal EXCEPT ![cur] = mem] /\ tracked' = tracked \cup {cur}
      <3>1. /\ journal'[cur] = mem /\ \A r \in Receipt : r # cur => journal'[r] = journal[r]
            /\ \A r \in Receipt : journal'[r].reverses = journal[r].reverses
        BY <1>2, <2>2
      <3>2. \A r \in tracked' : journal'[r].status # "Absent"
        BY <1>2, <2>2, <3>1 DEF IInv, AtRest
      <3>3. \A r \in Receipt : journal'[r].reverses # NoReceipt => journal'[r].status \in Returning
        BY <1>2, <3>1 DEF IInv, AtRest
      <3>4. \A r \in Receipt : Unused(r)' => \A kind \in HiddenKind, n \in 1 .. MaxOps : Empty(kind, r, n)'
        BY <1>1, <1>2, <3>1 DEF IInv, AtRest, Unused, Empty
      <3>5. \A r \in tracked' :
               journal'[r].status = "Applied" /\ (\A u \in Receipt : journal'[u].reverses # r) => Untouched(r)'
        BY <1>1, <1>2, <2>2, <3>1 DEF IInv, AtRest, Untouched, Empty
      <3> QED  BY <3>2, <3>3, <3>4, <3>5 DEF AtRest
    <2> QED  BY <1>1, <2>1, <2>2
  <1>5. journal' \in [Receipt -> ReceiptRecord] /\ tracked' \subseteq Receipt
    BY <1>1, <1>2
  <1>6. TypeOK'
    BY <1>1, <1>3, <1>5, StoppedTyped DEF IInv, TypeOK
  <1> QED  BY <1>1, <1>3, <1>4, <1>6, Stopped DEF IInv

(* Wherever the process dies, the tree is one of those the step passes.    *)
LEMMA HalfwayKept ==
  ASSUME IInv, pc # "idle", NEW s \in 1 .. Len(Halfway)
  PROVE  /\ Halfway[s] \in Tree /\ Keeps(owed, fs, Halfway[s]) /\ Others(Halfway[s])
         /\ \/ Halfway[s] = fs
            \/ pc = "mutate" /\ Kept(owed, op, cur, i, fs, Halfway[s])
            \/ pc = "act" /\ Returned(owed, Comps[k], Owner, k, fs, Halfway[s])
  <1>1. CASE pc = "mutate" /\ ~Refused(op, cur, i, fs)
    <2>1. Halfway = ExecuteSteps(op, cur, i, fs)
      BY <1>1 DEF Halfway
    <2>2. Kept(owed, op, cur, i, fs, Halfway[s])
      BY <1>1, <2>1, MutateKept DEF AllKept
    <2> QED  BY <1>1, <2>2, PlacesOthers DEF Kept
  <1>2. CASE pc = "act" /\ ~CannotAct(Comps[k])
    <2>1. Halfway = CompensationSteps(Comps[k], Owner, k, fs)
      BY <1>2 DEF Halfway
    <2>2. Returned(owed, Comps[k], Owner, k, fs, Halfway[s])
      BY <1>2, <2>1, ActReturned DEF AllReturned
    <2> QED  BY <1>2, <2>2, AsideOthers DEF Returned
  <1>3. CASE ~(pc = "mutate" /\ ~Refused(op, cur, i, fs)) /\ ~(pc = "act" /\ ~CannotAct(Comps[k]))
    <2>1. Halfway = <<fs>>
      BY <1>3 DEF Halfway
    <2>2. Halfway[s] = fs
      BY <2>1
    <2> QED  BY <2>2 DEF Keeps, Others, IInv, TypeOK, Tree
  <1> QED  BY <1>1, <1>2, <1>3

LEMMA CrashStep == ASSUME IInv, Crash PROVE IInv'
  <1>1. /\ pc # "idle" /\ Stop /\ UNCHANGED <<journal, tracked, edits, faults, owed>> /\ faults \in Nat
    BY DEF Crash, history, IInv, TypeOK
  <1>2. fs' \in Tree /\ Keeps(owed, fs, fs') /\ Others(fs')
    BY <1>1, HalfwayKept DEF Crash
  <1>3. Writes(mem)
    BY <1>1 DEF Writes, IInv, TypeOK, Working, Busy
  <1>4. AtRest' /\ journal' \in [Receipt -> ReceiptRecord]
    BY <1>1, <1>2, <1>3, WorkAtRest DEF IInv
  <1>5. TypeOK'
    BY <1>1, <1>2, <1>4, StoppedTyped DEF IInv, TypeOK
  <1>6. NoContentLost'
    BY <1>1, <1>2, ContentStays DEF IInv
  <1> QED  BY <1>1, <1>4, <1>5, <1>6, Stopped DEF IInv

LEMMA UserEditStep ==
  ASSUME IInv, NEW p \in Path, NEW c \in Foreign \cup {Missing}, UserEdit(p, c) PROVE IInv'
  <1>1. /\ UNCHANGED <<journal, tracked, ready, pc, mode, plan, cur, mem, k, verdict, faults>>
        /\ fs' = [fs EXCEPT ![p] = c] /\ edits' = edits + 1
        /\ \A l \in Loc : fs[l] = c => c = Missing
        /\ owed' = (owed \ {fs[p]}) \cup (IF Swapped(p) THEN {} ELSE {c} \ {Missing})
        /\ edited' = IF pc = "idle" THEN {} ELSE edited \cup {p}
        /\ i' = i /\ op' = op /\ Comps' = Comps /\ Owner' = Owner
    BY DEF UserEdit, i, op, Comps, Owner
  <1>2. /\ c \in Held /\ p \in Loc /\ p \notin Hidden /\ Hidden \subseteq Loc
        /\ c # Missing => c \in Users
    BY FileOpsAssumption, ChangeEngineAssumption DEF Held, Loc, Users
  <1>3. fs \in Tree /\ Missing \notin owed /\ owed \subseteq Users
    BY DEF IInv, TypeOK, Tree
  <1>4. fs' \in Tree /\ fs'[p] = c /\ \A l \in Loc : l # p => fs'[l] = fs[l]
    BY <1>1, <1>2, <1>3 DEF Tree
  <1>5. \A kind \in HiddenKind, r \in Receipt, n \in 1 .. MaxOps : Empty(kind, r, n)' <=> Empty(kind, r, n)
    BY <1>2, <1>4, Locations DEF Empty
  <1>6. c \notin owed /\ owed' \subseteq (owed \cup {c}) \ {Missing}
    BY <1>1, <1>3 DEF IInv, NoContentLost
  <1>7. NoContentLost'
    <2>1. ASSUME NEW x \in owed', x # c PROVE \E l \in Loc : fs'[l] = x
      <3>1. x \in owed /\ x # fs[p]
        BY <1>1, <2>1
      <3> QED  BY <1>4, <3>1 DEF IInv, NoContentLost
    <2>2. \E l \in Loc : fs'[l] = c
      BY <1>2, <1>4
    <2> QED  BY <2>1, <2>2 DEF NoContentLost
  <1>8. TypeOK'
    <2>1. owed' \subseteq Users \ {Missing}
      BY <1>2, <1>3, <1>6
    <2>2. edited' \subseteq Path /\ edits' \in Nat
      BY <1>1 DEF IInv, TypeOK
    <2> QED  BY <1>1, <1>4, <2>1, <2>2 DEF IInv, TypeOK, Tree
  <1>9. AtRest'
    <2>1. \A r \in Receipt : Untouched(r) => Untouched(r)'
      BY <1>5 DEF Untouched, Aside, HiddenKind
    <2> QED  BY <1>1, <1>5, <2>1 DEF IInv, TypeOK, AtRest, Unused
  <1>10. Busy' /\ InStep'
    BY <1>1 DEF IInv, Working, Busy, InStep
  <1>11. Ahead'
    <2>1. CASE pc \notin Executing \cup Compensating \cup {"done"}
      BY <1>1, <2>1 DEF Ahead, Executing, Compensating
    <2>2. CASE pc \in Executing \cup Compensating \cup {"done"}
      <3>1. cur \in Receipt /\ Owner \in Receipt
        BY <2>2, OwnerKnown DEF IInv, Executing, Compensating
      <3>2. \A n \in i .. MaxOps : pc \in Executing => n \in 1 .. MaxOps
        BY DEF i, IInv, TypeOK, ReceiptRecord
      <3>3. \A n \in i + 1 .. MaxOps : pc \in Executing => n \in 1 .. MaxOps
        BY DEF i, IInv, TypeOK, ReceiptRecord
      <3>4. \A n \in 1 .. k : n \in 1 .. MaxOps
        BY FileOpsAssumption DEF IInv, TypeOK
      <3>5. Untouched(cur) => Untouched(cur)'
        BY <1>1, <1>5, <3>1 DEF Untouched, Aside, HiddenKind
      <3>6. \A kind \in HiddenKind, n \in 1 .. MaxOps :
               /\ fs[<<kind, cur, n>>] = Missing => fs'[<<kind, cur, n>>] = Missing
               /\ fs[<<kind, Owner, n>>] = Missing => fs'[<<kind, Owner, n>>] = Missing
        BY <1>5, <3>1 DEF Empty
      <3>7. ASSUME pc \in Executing, NEW n \in i .. MaxOps
            PROVE  Empty("backup", cur, n)' /\ Empty("temp", cur, n)'
        <4>1. n \in 1 .. MaxOps /\ fs[<<"backup", cur, n>>] = Missing /\ fs[<<"temp", cur, n>>] = Missing
          BY <3>2, <3>7 DEF IInv, Working, Ahead, Empty
        <4> QED  BY <1>1, <3>6, <4>1 DEF Empty, HiddenKind
      <3>8. ASSUME pc \in {"record", "stage", "persist"}, NEW n \in i .. MaxOps
            PROVE  Empty("replaced", cur, n)'
        <4>1. n \in 1 .. MaxOps /\ fs[<<"replaced", cur, n>>] = Missing
          BY <3>2, <3>8 DEF IInv, Working, Ahead, Empty, Executing
        <4> QED  BY <1>1, <3>6, <4>1 DEF Empty, HiddenKind
      <3>9. ASSUME pc \in {"validate", "mutate"}, NEW n \in i + 1 .. MaxOps
            PROVE  Empty("replaced", cur, n)'
        <4>1. n \in 1 .. MaxOps /\ fs[<<"replaced", cur, n>>] = Missing
          BY <3>3, <3>9 DEF IInv, Working, Ahead, Empty, Executing
        <4> QED  BY <1>1, <3>6, <4>1 DEF Empty, HiddenKind
      <3>10. ASSUME pc \in Compensating, NEW kind \in Aside, NEW n \in 1 .. k
             PROVE  Empty(kind, Owner, n)'
        <4>1. n \in 1 .. MaxOps /\ fs[<<kind, Owner, n>>] = Missing /\ kind \in HiddenKind
          BY <3>4, <3>10 DEF IInv, Working, Ahead, Empty, Aside, HiddenKind
        <4> QED  BY <1>1, <3>6, <4>1 DEF Empty
      <3> QED  BY <1>1, <3>5, <3>7, <3>8, <3>9, <3>10 DEF IInv, Working, Ahead, Empty
    <2> QED  BY <2>1, <2>2
  <1>12. Validated'
    <2>1. CASE pc \notin {"validate", "mutate"}
      BY <1>1, <2>1 DEF Validated
    <2>2. CASE pc \in {"validate", "mutate"}
      <3>1. op \in Operation /\ i \in 1 .. MaxOps /\ cur \in Receipt
        BY <2>2, OpTyped, OwnerKnown DEF IInv, Working
      <3>2. Subject(op) \in Path /\ op.target \in Path /\ (op.kind = "replaceFile" => Subject(op) = op.target)
        BY <3>1, OperationFormed DEF Subject
      <3>3. fs'[ReplacedBackup(cur, i)] = fs[ReplacedBackup(cur, i)]
        BY <1>2, <1>4, <3>1, Locations DEF ReplacedBackup, HiddenKind
      <3>4. Subject(op) \in Loc
        BY <3>2 DEF Loc
      <3>5. ASSUME pc = "mutate"
            PROVE  \/ fs'[Subject(op)] = op.expected
                   \/ Subject(op) \in edited' /\ (op.kind = "replaceFile" => fs'[op.target] \notin owed')
        <4>1. CASE Subject(op) = p
          <5>1. p \in edited'
            BY <1>1, <3>5
          <5>2. ASSUME op.kind = "replaceFile" PROVE fs'[op.target] \notin owed'
            <6>1. op.target = p /\ Swapped(p)
              BY <3>2, <3>5, <4>1, <5>2 DEF Swapped
            <6> QED  BY <1>1, <1>4, <1>6, <6>1
          <5> QED  BY <4>1, <5>1, <5>2
        <4>2. CASE Subject(op) # p
          <5>1. fs'[Subject(op)] = fs[Subject(op)]
            BY <1>4, <3>4, <4>2
          <5>2. edited \subseteq edited'
            BY <1>1, <3>5
          <5>3. fs[Subject(op)] \notin owed => fs'[Subject(op)] \notin owed'
            BY <1>1, <1>6, <3>4, <5>1
          <5> QED  BY <3>2, <3>5, <5>1, <5>2, <5>3 DEF IInv, Working, Validated
        <4> QED  BY <4>1, <4>2
      <3>6. op.kind = "replaceFile" => fs'[ReplacedBackup(cur, i)] = op.expected
        BY <2>2, <3>3 DEF IInv, Working, Validated
      <3> QED  BY <1>1, <3>5, <3>6 DEF Validated
    <2> QED  BY <2>1, <2>2
  <1>13. Verified'
    <2>1. CASE pc # "act"
      BY <1>1, <2>1 DEF Verified
    <2>2. CASE pc = "act"
      <3> DEFINE d == Comps[k]
      <3>1. d \in Compensation /\ k \in 1 .. MaxOps /\ Owner \in Receipt
        BY <2>2, CompensationTyped DEF Compensating
      <3> HIDE DEF d
      <3>2. d.from \in Loc /\ d.backup \in Loc /\ d.to \in Loc
        BY <3>1, CompensationFormed
      <3>3. edited \subseteq edited' /\ p \in edited'
        BY <1>1, <2>2
      <3>4. IF d.kind = "restoreReplacedFile"
            THEN /\ fs'[d.backup] = d.original /\ fs'[d.from] \in {Missing, d.expected}
                 /\ \/ fs'[d.to] \in {Missing, d.expected, d.original}
                    \/ d.to \in edited' /\ fs'[d.to] \notin owed'
            ELSE d.from \notin edited' => fs'[d.from] = d.expected
        <4>1. CASE d.kind = "restoreReplacedFile"
          <5>1. d.backup # p /\ d.from # p
            BY <1>2, <3>1, <4>1, CompensationFormed
          <5>2. /\ fs'[d.backup] = d.original /\ fs'[d.from] \in {Missing, d.expected}
                /\ \/ fs[d.to] \in {Missing, d.expected, d.original}
                   \/ d.to \in edited /\ fs[d.to] \notin owed
            BY <1>4, <2>2, <3>2, <4>1, <5>1 DEF IInv, Working, Verified, d
          <5>3. CASE d.to = p
            <6>1. Swapped(p)
              BY <2>2, <4>1, <5>3 DEF Swapped, d
            <6>2. fs'[d.to] \notin owed'
              BY <1>1, <1>4, <1>6, <5>3, <6>1
            <6> QED  BY <3>3, <4>1, <5>2, <5>3, <6>2
          <5>4. CASE d.to # p
            <6>1. fs'[d.to] = fs[d.to] /\ (fs[d.to] \notin owed => fs'[d.to] \notin owed')
              BY <1>1, <1>4, <1>6, <3>2, <5>4
            <6> QED  BY <3>3, <4>1, <5>2, <6>1
          <5> QED  BY <5>3, <5>4
        <4>2. CASE d.kind # "restoreReplacedFile"
          <5>1. d.from \notin edited => fs[d.from] = d.expected
            BY <2>2, <4>2 DEF IInv, Working, Verified, d
          <5> QED  BY <1>4, <3>2, <3>3, <4>2, <5>1
        <4> QED  BY <4>1, <4>2
      <3> QED  BY <1>1, <3>4 DEF Verified, d
    <2> QED  BY <2>1, <2>2
  <1> QED  BY <1>7, <1>8, <1>9, <1>10, <1>11, <1>12, <1>13 DEF IInv, Working

LEMMA StutterStep == ASSUME IInv, UNCHANGED vars PROVE IInv'
  <1>1. UNCHANGED <<fs, journal, tracked, ready, pc, mode, plan, cur, mem, k, verdict, edited, edits, faults, owed>>
        /\ i' = i /\ op' = op /\ Comps' = Comps /\ Owner' = Owner
    BY DEF vars, disk, command, history, i, op, Comps, Owner
  <1>2. TypeOK' /\ Busy' /\ InStep' /\ NoContentLost'
    BY <1>1 DEF IInv, TypeOK, Working, Busy, InStep, NoContentLost
  <1>3. Ahead' /\ Validated' /\ Verified'
    BY <1>1 DEF IInv, Working, Ahead, Validated, Verified, Empty, Untouched
  <1>4. AtRest'
    BY <1>1 DEF IInv, AtRest, Unused, Empty, Untouched
  <1> QED  BY <1>2, <1>3, <1>4 DEF IInv, Working

LEMMA NextIInv == IInv /\ [Next]_vars => IInv'
  <1> SUFFICES ASSUME IInv, [Next]_vars PROVE IInv'
    OBVIOUS
  <1>1. CASE Command
    BY <1>1, RecordStep, StageStep, ValidateStep, MutateStep, MutateRefusedStep, PersistAppliedStep, ConcludeStep,
       MetadataFailsStep, RestorationFailsStep, VerifyStep, ActRefusedStep, ActStep, FinishStep, FinalizeStep
       DEF Command
  <1> QED  BY <1>1, StutterStep, PrepareStep, BeginApplyStep, BeginUndoStep, CrashStep, UserEditStep DEF Next

THEOREM EngineInvariant == Spec => []IInv
  BY InitIInv, NextIInv, PTL DEF Spec

-----------------------------------------------------------------------------
(* Whatever the Plans, however the commands fail, die, are undone or are   *)
(* raced by the user, nothing a user wrote leaves the disk: `execute`,     *)
(* `compensate` and every state they pass keep it at some location.        *)
THEOREM ContentSurvives == Spec => []NoContentLost
  BY EngineInvariant, PTL DEF IInv

(* Every step in which a governed path changes without the user belongs to *)
(* a command whose journal is on disk, unfinished or untracked, so that    *)
(* journal_issues refuses the next command should the process die here.    *)
THEOREM JournalComesFirst == Spec => WriteAhead
  <1>1. ASSUME IInv, [Next]_vars, edits' = edits, Governed(fs') # Governed(fs)
        PROVE  \E r \in Receipt : Issue(r)
    <2>1. fs' # fs
      BY <1>1 DEF Governed
    <2>2. CASE pc = "idle"
      <3>1. ~Command /\ ~Crash
        BY <2>2 DEF Command, Record, Stage, Validate, Mutate, MutateRefused, PersistApplied, Conclude, MetadataFails,
           RestorationFails, Verify, ActRefused, Act, Finish, Finalize, Crash
      <3>2. ASSUME NEW p \in Path, NEW c \in Foreign \cup {Missing}, UserEdit(p, c) PROVE FALSE
        <4>1. edits' = edits + 1 /\ edits \in Nat
          BY <1>1, <3>2 DEF UserEdit, IInv, TypeOK
        <4> QED  BY <1>1, <4>1
      <3>3. \A t \in Template : Prepare(t) => fs' = fs
        BY DEF Prepare, disk
      <3>4. \A r \in Receipt, ops \in ready : BeginApply(r, ops) => fs' = fs
        BY DEF BeginApply
      <3>5. \A r, orig \in Receipt : BeginUndo(r, orig) => fs' = fs
        BY DEF BeginUndo
      <3> QED  BY <1>1, <2>1, <3>1, <3>2, <3>3, <3>4, <3>5 DEF Next, vars, disk
    <2>3. CASE pc # "idle"
      <3>1. cur \in Receipt \ tracked /\ journal[cur].status # "Absent"
        BY <1>1, <2>3 DEF IInv, Working, Busy
      <3> QED  BY <3>1 DEF Issue
    <2> QED  BY <2>2, <2>3
  <1>2. IInv /\ [Next]_vars
          => [edits' = edits /\ Governed(fs') # Governed(fs) => \E r \in Receipt : Issue(r)]_vars
    BY <1>1
  <1> QED  BY <1>2, EngineInvariant, PTL DEF Spec, WriteAhead

(* Nothing but the entry the Plan, or the Receipt, names by its fingerprint*)
(* is taken off a governed path the user has not edited under the command: *)
(* every check of `execute` and `compensate` still holds when it is used.  *)
LEMMA TakenByExecution ==
  ASSUME IInv, pc = "mutate", NEW g, Kept(owed, op, cur, i, fs, g),
         NEW p \in Path, p \notin edited, g[p] # fs[p]
  PROVE  fs[p] \in Named(p) \cup {Missing}
  <1>1. i \in 1 .. Len(plan) /\ op = plan[i]
    <2>1. i <= Len(plan) /\ mem.done \in Nat /\ plan \in Seq(Operation)
      BY DEF IInv, TypeOK, Working, InStep, ReceiptRecord, Plans
    <2> QED  BY <2>1 DEF i, op
  <1>2. fs[p] = Missing \/ p = Subject(op)
    BY DEF Kept
  <1>3. p = Subject(op) => fs[p] = op.expected
    BY DEF IInv, Working, Validated
  <1> QED  BY <1>1, <1>2, <1>3 DEF Named

LEMMA TakenByCompensation ==
  ASSUME IInv, pc = "act", NEW g, Returned(owed, Comps[k], Owner, k, fs, g),
         NEW p \in Path, p \notin edited, g[p] # fs[p]
  PROVE  fs[p] \in Named(p) \cup {Missing}
  <1> DEFINE c == Comps[k]
  <1>1. k \in 1 .. Len(Comps) /\ c \in Compensation /\ k \in 1 .. MaxOps /\ Owner \in Receipt
    BY CompensationTyped DEF Compensating
  <1>2. c.kind = "restoreReplacedFile" => c.from # p
    <2> HIDE DEF c
    <2> QED  BY <1>1, CompensationFormed
  <1>3. \/ fs[p] = Missing \/ p = c.from
        \/ p = c.to /\ c.kind = "restoreReplacedFile" /\ fs[p] # c.original
    BY DEF Returned
  <1>4. p = c.from => fs[p] = c.expected /\ LeftBy(c, p) = c.expected /\ Touches(c, p)
    BY <1>2 DEF IInv, Working, Verified, LeftBy, Touches
  <1>5. p = c.to /\ c.kind = "restoreReplacedFile" =>
           fs[p] \in {Missing, c.expected, c.original} /\ LeftBy(c, p) = c.expected /\ Touches(c, p)
    BY DEF IInv, Working, Verified, LeftBy, Touches
  <1>6. Touches(c, p) => LeftBy(c, p) \in Named(p)
    BY <1>1 DEF Named
  <1> HIDE DEF c
  <1> QED  BY <1>3, <1>4, <1>5, <1>6

THEOREM OnlyTheNamedIsTaken == Spec => DriftFailsClosed
  <1>1. ASSUME IInv, [Next]_vars, NEW p \in Path, edits' = edits, p \notin edited, fs'[p] # fs[p]
        PROVE  fs[p] \in Named(p) \cup {Missing}
    <2>1. CASE Mutate
      <3>1. pc = "mutate" /\ ~Refused(op, cur, i, fs)
        BY <2>1 DEF Mutate
      <3>2. Kept(owed, op, cur, i, fs, fs')
        BY <1>1, <2>1, <3>1, MutateKept DEF AllKept, Mutate
      <3> QED  BY <1>1, <3>1, <3>2, TakenByExecution
    <2>2. CASE Act
      <3>1. pc = "act" /\ ~CannotAct(Comps[k])
        BY <2>2 DEF Act
      <3>2. Returned(owed, Comps[k], Owner, k, fs, fs')
        BY <1>1, <2>2, <3>1, ActReturned DEF AllReturned, Act
      <3> QED  BY <1>1, <3>1, <3>2, TakenByCompensation
    <2>3. CASE Crash
      <3>1. pc # "idle" /\ \E s \in 1 .. Len(Halfway) : fs' = Halfway[s]
        BY <2>3 DEF Crash
      <3>2. \/ pc = "mutate" /\ Kept(owed, op, cur, i, fs, fs')
            \/ pc = "act" /\ Returned(owed, Comps[k], Owner, k, fs, fs')
        BY <1>1, <3>1, HalfwayKept
      <3> QED  BY <1>1, <3>2, TakenByExecution, TakenByCompensation
    <2>4. CASE Stage
      <3>1. cur \in Receipt /\ i \in 1 .. MaxOps
        BY <1>1, <2>4, OpTyped, OwnerKnown DEF IInv, Working, Stage
      <3>2. ReplacedBackup(cur, i) # p
        BY <3>1, Locations DEF ReplacedBackup, HiddenKind
      <3>3. p \in Loc /\ fs \in [Loc -> Held]
        BY <1>1 DEF Loc, IInv, TypeOK
      <3> QED  BY <1>1, <2>4, <3>2, <3>3 DEF Stage, BackedUp
    <2>5. CASE Verify
      <3> DEFINE c == Comps[k]
      <3>1. c \in Compensation /\ k \in 1 .. MaxOps /\ Owner \in Receipt
        BY <1>1, <2>5, CompensationTyped DEF Verify, Compensating
      <3>2. fs' = fs \/ (c.kind = "restoreReplacedFile" /\ fs' = Swept(fs, c))
        BY <2>5 DEF Verify
      <3> HIDE DEF c
      <3>3. c.kind = "restoreReplacedFile" => c.from # p
        BY <3>1, CompensationFormed
      <3>4. p \in Loc /\ fs \in [Loc -> Held]
        BY <1>1 DEF Loc, IInv, TypeOK
      <3> QED  BY <1>1, <3>2, <3>3, <3>4 DEF Swept
    <2>6. ~(\E q \in Path, c \in Foreign \cup {Missing} : UserEdit(q, c))
      <3>1. edits \in Nat
        BY <1>1 DEF IInv, TypeOK
      <3> QED  BY <1>1, <3>1 DEF UserEdit
    <2>7. fs' # fs
      BY <1>1
    <2> QED
      BY <1>1, <2>1, <2>2, <2>3, <2>4, <2>5, <2>6, <2>7
         DEF Next, Command, vars, disk, Prepare, BeginApply, BeginUndo, Record, Validate, MutateRefused, PersistApplied,
             Conclude, MetadataFails, RestorationFails, ActRefused, Finish, Finalize
  <1>2. IInv /\ [Next]_vars
          => [\A p \in Path : edits' = edits /\ p \notin edited /\ fs'[p] # fs[p]
                => fs[p] \in Named(p) \cup {Missing}]_vars
    BY <1>1
  <1> QED  BY <1>2, EngineInvariant, PTL DEF Spec, DriftFailsClosed

-----------------------------------------------------------------------------
(***************************************************************************)
(* Proof that ChangeEngine implements AtomicChange: with any Plans, trees, *)
(* users, faults and crashes, what becomes of the governed paths is what   *)
(* Plan, Apply, Receipt and Undo promise of them.                          *)
(*                                                                         *)
(* The invariant Faithful says what the compensations recorded so far and  *)
(* the paths tell of each other while a command runs; then every step of   *)
(* the engine is a step of AtomicChange, or leaves what it sees as it was. *)
(***************************************************************************)
(* What a list of compensations says of the trees on its way.  The first   *)
(* after the n-th, or the last, to touch a path is named, not chosen, so   *)
(* that a list can grow at one end and be used up from it.                 *)
Touch(comps, n, j, p) ==
    j \in n + 1 .. Len(comps) /\ Touches(comps[j], p) /\ \A m \in n + 1 .. j - 1 : ~Touches(comps[m], p)
FinalTouch(comps, j, p) ==
    j \in 1 .. Len(comps) /\ Touches(comps[j], p) /\ \A m \in j + 1 .. Len(comps) : ~Touches(comps[m], p)
Beyond(comps, n, p) == \A j \in n + 1 .. Len(comps) : ~Touches(comps[j], p)

(* The paths they touch held in t what they put back ...                   *)
FoundIn(comps, t) ==
    \A p \in Path : \/ Beyond(comps, 0, p)
                    \/ \E j \in 1 .. Len(comps) : Touch(comps, 0, j, p) /\ t[p] = PutBack(comps[j], p)
(* ... and hold in f what they left, the others what they held in t.       *)
LeftAt(comps, t, f, p) ==
    \/ Beyond(comps, 0, p) /\ f[p] = t[p]
    \/ \E j \in 1 .. Len(comps) : FinalTouch(comps, j, p) /\ f[p] = LeftBy(comps[j], p)

(* Those after the n-th are compensated: an Undo began in t, while a Plan  *)
(* that failed in t may have been cut short anywhere.                      *)
PutBackFrom(comps, n, undoing, t, f) ==
    \A p \in Path :
        \/ \E j \in 1 .. Len(comps) : Touch(comps, n, j, p) /\ f[p] = PutBack(comps[j], p)
        \/ Beyond(comps, n, p) /\ (f[p] = t[p] \/ (~undoing /\ ~Beyond(comps, 0, p)))
(* Undo began where the Plan had left things, or found them.               *)
Accepted(comps, n, t) ==
    \A p \in Path :
        \/ Beyond(comps, n, p)
        \/ \E j \in n + 1 .. Len(comps) :
              FinalTouch(comps, j, p) /\ t[p] \in {LeftBy(comps[j], p), Missing, PutBack(comps[j], p)}

(* The compensations the engine makes put back what they say.              *)
Exact(c) ==
    /\ c.kind = "stashCreated" => c.from = c.to /\ c.original = Missing
    /\ c.kind \in {"renameBack", "restoreBackup"} => c.from # c.to /\ c.original = c.expected
AllExact(comps) == \A j \in 1 .. Len(comps) : Exact(comps[j])

Quiet == edited = {}
Replacing == pc \in {"validate", "mutate"} /\ op.kind = "replaceFile"

(* One command at a time, over the Receipts of others.                     *)
Recorded ==
    /\ base \in [Path -> Held]
    /\ \A ops \in ready : DistinctTargets(ops)
    /\ \A r \in Receipt : journal[r].reverses # NoReceipt => Committed(journal[r].reverses)
    /\ \A r \in Receipt : AllExact(journal[r].comps)
Running ==
    /\ pc = "idle" => Quiet
    /\ pc # "idle" => \A r \in Receipt \ {cur} : ~Issue(r)
    /\ mode # "undo" => verdict # "Undone" /\ mem.status # "Undone"
    /\ pc # "idle" /\ mode = "undo" =>
          \A u \in Receipt \ {cur} :
              ~(journal[u].reverses = mem.reverses /\ journal[u].status = "Undone")
    /\ pc \in Executing => DistinctTargets(plan)
    /\ AllExact(mem.comps)

(* While a Plan is carried out, with nobody editing.                       *)
Forward ==
    /\ Replacing =>
          /\ Len(mem.comps) > 0
          /\ mem.comps[Len(mem.comps)] = RestoreReplaced(ReplacedBackup(cur, i), StagedTemp(cur, i),
                                                         op.target, op.expected, op.content)
    /\ pc \in Executing /\ Quiet =>
          /\ FoundIn(mem.comps, base)
          /\ \A p \in Path : IF Replacing /\ p = op.target THEN fs[p] = op.expected
                                                           ELSE LeftAt(mem.comps, base, fs, p)
          /\ \A n \in i .. Len(plan) :
             plan[n].kind = "moveRecoverable" => fs[plan[n].target] = Missing
    /\ pc = "mutate" /\ Quiet => CurrentState(op, fs) = "ok"

(* While it, or a Receipt, is undone, and nothing has gone wrong so far.   *)
Undoing == mode = "undo"
Back ==
    /\ pc = "finish" => k = 0
    /\ pc \in Compensating \cup {"finish"} /\ Quiet /\ verdict # "RecoveryRequired" =>
          /\ PutBackFrom(Comps, k, Undoing, base, fs)
          /\ IF Undoing THEN Accepted(Comps, k, base) ELSE FoundIn(Comps, base)
    /\ pc = "act" /\ Quiet /\ verdict # "RecoveryRequired" => CompensationOK(Comps[k], Owner, k, fs)

Ended ==
    pc = "done" /\ Quiet =>
        /\ mem.status = "Applied" =>
              FoundIn(mem.comps, base) /\ \A p \in Path : LeftAt(mem.comps, base, fs, p)
        /\ mem.status = "FailedRolledBack" => \A p \in Path : fs[p] = base[p]
        /\ mem.status = "Undone" =>
              PutBackFrom(Comps, 0, TRUE, base, fs) /\ Accepted(Comps, 0, base)

Faithful == Recorded /\ Running /\ Forward /\ Back /\ Ended

-----------------------------------------------------------------------------
(* Lists of compensations, grown at the end ...                            *)
LEMMA Appended ==
  ASSUME NEW S, NEW s \in Seq(S), NEW c
  PROVE  /\ Len(s) \in Nat /\ Len(Append(s, c)) = Len(s) + 1
         /\ \A j \in 1 .. Len(s) : Append(s, c)[j] = s[j]
         /\ Append(s, c)[Len(s) + 1] = c
  OBVIOUS

LEMMA AppendedTouch ==
  ASSUME NEW S, NEW s \in Seq(S), NEW c, NEW p
  PROVE  LET longer == Append(s, c)  last == Len(s) + 1 IN
         /\ Beyond(longer, 0, p) <=> Beyond(s, 0, p) /\ ~Touches(c, p)
         /\ \A j \in 1 .. Len(s) : Touch(s, 0, j, p) => Touch(longer, 0, j, p)
         /\ Touches(c, p) /\ Beyond(s, 0, p) => Touch(longer, 0, last, p)
         /\ Touches(c, p) => FinalTouch(longer, last, p)
         /\ \A j \in 1 .. Len(s) : ~Touches(c, p) /\ FinalTouch(s, j, p) => FinalTouch(longer, j, p)
  <1> DEFINE longer == Append(s, c)  last == Len(s) + 1
  <1>1. /\ Len(s) \in Nat /\ Len(longer) = last /\ longer[last] = c
        /\ \A j \in 1 .. Len(s) : longer[j] = s[j]
    BY Appended
  <1> HIDE DEF longer
  <1>2. 1 .. last = (1 .. Len(s)) \cup {last} /\ last \notin 1 .. Len(s)
    BY <1>1
  <1>3. Beyond(longer, 0, p) <=> Beyond(s, 0, p) /\ ~Touches(c, p)
    BY <1>1, <1>2 DEF Beyond
  <1>4. \A j \in 1 .. Len(s) : Touch(s, 0, j, p) => Touch(longer, 0, j, p)
    BY <1>1, <1>2 DEF Touch
  <1>5. Touches(c, p) /\ Beyond(s, 0, p) => Touch(longer, 0, last, p)
    BY <1>1, <1>2 DEF Touch, Beyond
  <1>6. Touches(c, p) => FinalTouch(longer, last, p)
    BY <1>1, <1>2 DEF FinalTouch
  <1>7. \A j \in 1 .. Len(s) : ~Touches(c, p) /\ FinalTouch(s, j, p) => FinalTouch(longer, j, p)
    <2>1. ASSUME NEW j \in 1 .. Len(s) PROVE j + 1 .. last \subseteq (j + 1 .. Len(s)) \cup {last}
      BY <1>1
    <2>2. ASSUME NEW j \in 1 .. Len(s), NEW m \in j + 1 .. Len(s) PROVE m \in 1 .. Len(s)
      BY <1>1
    <2> QED  BY <1>1, <1>2, <2>1, <2>2 DEF FinalTouch
  <1> QED  BY <1>3, <1>4, <1>5, <1>6, <1>7 DEF longer

LEMMA AppendedFound ==
  ASSUME NEW S, NEW s \in Seq(S), NEW c, NEW t, FoundIn(s, t),
         \A p \in Path : Touches(c, p) /\ Beyond(s, 0, p) => t[p] = PutBack(c, p)
  PROVE  FoundIn(Append(s, c), t)
  <1> DEFINE longer == Append(s, c)
  <1>1. Len(s) \in Nat /\ Len(longer) = Len(s) + 1 /\ longer[Len(s) + 1] = c
        /\ \A j \in 1 .. Len(s) : longer[j] = s[j]
    BY Appended
  <1>2. ASSUME NEW p \in Path, ~Beyond(longer, 0, p)
        PROVE  \E j \in 1 .. Len(longer) : Touch(longer, 0, j, p) /\ t[p] = PutBack(longer[j], p)
    <2>1. CASE Beyond(s, 0, p)
      <3>1. Touches(c, p) /\ Touch(longer, 0, Len(s) + 1, p)
        BY <1>2, <2>1, AppendedTouch
      <3>2. t[p] = PutBack(c, p) /\ Len(s) + 1 \in 1 .. Len(longer)
        BY <1>1, <2>1, <3>1
      <3> QED  BY <1>1, <3>1, <3>2
    <2>2. CASE ~Beyond(s, 0, p)
      <3>1. PICK j \in 1 .. Len(s) : Touch(s, 0, j, p) /\ t[p] = PutBack(s[j], p)
        BY <2>2 DEF FoundIn
      <3>2. Touch(longer, 0, j, p) /\ j \in 1 .. Len(longer) /\ longer[j] = s[j]
        BY <1>1, <3>1, AppendedTouch
      <3> QED  BY <3>1, <3>2
    <2> QED  BY <2>1, <2>2
  <1> QED  BY <1>2 DEF FoundIn

LEMMA AppendedLeft ==
  ASSUME NEW S, NEW s \in Seq(S), NEW c, NEW t, NEW f, NEW g, NEW p,
         Touches(c, p) => g[p] = LeftBy(c, p),
         ~Touches(c, p) => g[p] = f[p] /\ LeftAt(s, t, f, p)
  PROVE  LeftAt(Append(s, c), t, g, p)
  <1> DEFINE longer == Append(s, c)
  <1>1. Len(s) \in Nat /\ Len(longer) = Len(s) + 1 /\ longer[Len(s) + 1] = c
        /\ \A j \in 1 .. Len(s) : longer[j] = s[j]
    BY Appended
  <1>2. CASE Touches(c, p)
    <2>1. FinalTouch(longer, Len(s) + 1, p) /\ Len(s) + 1 \in 1 .. Len(longer)
      BY <1>1, <1>2, AppendedTouch
    <2> QED  BY <1>1, <1>2, <2>1 DEF LeftAt
  <1>3. CASE ~Touches(c, p)
    <2>1. CASE Beyond(s, 0, p) /\ f[p] = t[p]
      <3>1. Beyond(longer, 0, p)
        BY <1>3, <2>1, AppendedTouch
      <3> QED  BY <1>3, <2>1, <3>1 DEF LeftAt
    <2>2. CASE \E j \in 1 .. Len(s) : FinalTouch(s, j, p) /\ f[p] = LeftBy(s[j], p)
      <3>1. PICK j \in 1 .. Len(s) : FinalTouch(s, j, p) /\ f[p] = LeftBy(s[j], p)
        BY <2>2
      <3>2. FinalTouch(longer, j, p) /\ j \in 1 .. Len(longer) /\ longer[j] = s[j]
        BY <1>1, <1>3, <3>1, AppendedTouch
      <3> QED  BY <1>3, <3>1, <3>2 DEF LeftAt
    <2> QED  BY <1>3, <2>1, <2>2 DEF LeftAt
  <1> QED  BY <1>2, <1>3

(* ... and used up from it.                                                *)
LEMMA PutBackNext ==
  ASSUME NEW S, NEW s \in Seq(S), NEW n \in 1 .. Len(s), NEW undoing \in BOOLEAN, NEW t, NEW f, NEW g,
         PutBackFrom(s, n, undoing, t, f),
         \A p \in Path : g[p] = IF Touches(s[n], p) THEN PutBack(s[n], p) ELSE f[p]
  PROVE  PutBackFrom(s, n - 1, undoing, t, g)
  <1>1. n - 1 + 1 = n /\ Len(s) \in Nat /\ n \in n .. Len(s) /\ \A m \in n .. n - 1 : FALSE
    OBVIOUS
  <1>2. \A j \in n + 1 .. Len(s) : j \in n .. Len(s) /\ n .. j - 1 = {n} \cup (n + 1 .. j - 1)
    OBVIOUS
  <1>3. n .. Len(s) = {n} \cup (n + 1 .. Len(s))
    OBVIOUS
  <1>4. ASSUME NEW p \in Path, Touches(s[n], p)
        PROVE  Touch(s, n - 1, n, p) /\ g[p] = PutBack(s[n], p)
    BY <1>1, <1>4 DEF Touch
  <1>5. ASSUME NEW p \in Path, ~Touches(s[n], p)
        PROVE  /\ \A j \in 1 .. Len(s) : Touch(s, n, j, p) => Touch(s, n - 1, j, p)
               /\ Beyond(s, n, p) => Beyond(s, n - 1, p)
               /\ g[p] = f[p]
    BY <1>1, <1>2, <1>3, <1>5 DEF Touch, Beyond
  <1> QED  BY <1>4, <1>5 DEF PutBackFrom

LEMMA AcceptedNext ==
  ASSUME NEW S, NEW s \in Seq(S), NEW n \in 1 .. Len(s), NEW t, NEW f,
         Accepted(s, n, t), PutBackFrom(s, n, TRUE, t, f),
         \A p \in Path : Touches(s[n], p) => f[p] \in {LeftBy(s[n], p), Missing, PutBack(s[n], p)}
  PROVE  Accepted(s, n - 1, t)
  <1>1. n - 1 + 1 = n /\ n .. Len(s) = {n} \cup (n + 1 .. Len(s)) /\ n \in 1 .. Len(s)
    OBVIOUS
  <1>2. ASSUME NEW p \in Path, Beyond(s, n, p), Touches(s[n], p)
        PROVE  \E j \in n .. Len(s) :
                  FinalTouch(s, j, p) /\ t[p] \in {LeftBy(s[j], p), Missing, PutBack(s[j], p)}
    <2>1. FinalTouch(s, n, p)
      BY <1>1, <1>2 DEF FinalTouch, Beyond
    <2>2. \A j : ~Touch(s, n, j, p)
      BY <1>2 DEF Touch, Beyond
    <2>3. f[p] = t[p]
      BY <2>2 DEF PutBackFrom
    <2> QED  BY <1>1, <1>2, <2>1, <2>3
  <1>3. \A p : Beyond(s, n, p) /\ ~Touches(s[n], p) => Beyond(s, n - 1, p)
    BY <1>1 DEF Beyond
  <1> QED  BY <1>1, <1>2, <1>3 DEF Accepted

LEMMA PutBackBegins ==
  ASSUME NEW S, NEW s \in Seq(S), NEW undoing \in BOOLEAN, NEW t, NEW f,
         \A p \in Path : undoing \/ Beyond(s, 0, p) => f[p] = t[p]
  PROVE  PutBackFrom(s, Len(s), undoing, t, f) /\ Accepted(s, Len(s), t)
  <1>1. Len(s) \in Nat /\ \A p : Beyond(s, Len(s), p)
    BY DEF Beyond
  <1> QED  BY <1>1 DEF PutBackFrom, Accepted

(* The first and the last to touch a path are the ones that FileOps names. *)
LEMMA TouchIsFirst ==
  ASSUME NEW S, NEW s \in Seq(S), NEW j \in 1 .. Len(s), NEW p \in Path, Touch(s, 0, j, p)
  PROVE  p \in Touched(s) /\ First(s, p) = j
  <1> DEFINE P(m) == Touches(s[m], p) /\ \A x \in 1 .. m - 1 : ~Touches(s[x], p)
  <1>1. P(j)
    BY DEF Touch
  <1>2. ASSUME NEW m \in 1 .. Len(s), P(m) PROVE m = j
    <2>1. m < j => m \in 1 .. j - 1
      OBVIOUS
    <2>2. j < m => j \in 1 .. m - 1
      OBVIOUS
    <2> QED  BY <1>1, <1>2, <2>1, <2>2
  <1>3. First(s, p) = CHOOSE m \in 1 .. Len(s) : P(m)
    BY DEF First
  <1>4. First(s, p) = j
    <2> HIDE DEF P
    <2>1. (CHOOSE m \in 1 .. Len(s) : P(m)) \in 1 .. Len(s) /\ P(CHOOSE m \in 1 .. Len(s) : P(m))
      BY <1>1
    <2> QED  BY <1>2, <1>3, <2>1
  <1> QED  BY <1>1, <1>4 DEF Touched

LEMMA FinalIsLast ==
  ASSUME NEW S, NEW s \in Seq(S), NEW j \in 1 .. Len(s), NEW p \in Path, FinalTouch(s, j, p)
  PROVE  p \in Touched(s) /\ Last(s, p) = j
  <1> DEFINE P(m) == Touches(s[m], p) /\ \A x \in m + 1 .. Len(s) : ~Touches(s[x], p)
  <1>1. P(j)
    BY DEF FinalTouch
  <1>2. ASSUME NEW m \in 1 .. Len(s), P(m) PROVE m = j
    <2>1. m < j => j \in m + 1 .. Len(s)
      OBVIOUS
    <2>2. j < m => m \in j + 1 .. Len(s)
      OBVIOUS
    <2> QED  BY <1>1, <1>2, <2>1, <2>2
  <1>3. Last(s, p) = CHOOSE m \in 1 .. Len(s) : P(m)
    BY DEF Last
  <1>4. Last(s, p) = j
    <2> HIDE DEF P
    <2>1. (CHOOSE m \in 1 .. Len(s) : P(m)) \in 1 .. Len(s) /\ P(CHOOSE m \in 1 .. Len(s) : P(m))
      BY <1>1
    <2> QED  BY <1>2, <1>3, <2>1
  <1> QED  BY <1>1, <1>4 DEF Touched

LEMMA Untouching ==
  ASSUME NEW s, NEW p \in Path PROVE Beyond(s, 0, p) <=> p \notin Touched(s)
  BY DEF Beyond, Touched

-----------------------------------------------------------------------------
(* What an operation that returns Ok, or fails half-way, leaves of the     *)
(* paths, against what its compensation says of them.                      *)
Says(c, f, g) ==
    \A p \in Path : IF Touches(c, p) THEN f[p] = PutBack(c, p) ELSE g[p] = f[p]

LEMMA KindsOfOperation ==
  ASSUME NEW o \in Operation
  PROVE  /\ \/ IsUncompensatedCreate(o) \/ o.kind = "replaceFile" \/ o.kind = "removeSymlink"
            \/ o.kind = "moveRecoverable"
         /\ o.kind \in {"replaceFile", "removeSymlink", "moveRecoverable"} => ~IsUncompensatedCreate(o)
         /\ IsCross(o) => o.kind = "moveRecoverable"
  BY OperationFormed DEF OpKind, IsUncompensatedCreate, IsCross

LEMMA HiddenNotPath ==
  ASSUME NEW r \in Receipt, NEW j \in 1 .. MaxOps
  PROVE  /\ MoveBackup(r, j) \in Loc /\ MoveBackup(r, j) \notin Path
         /\ StagedTemp(r, j) \in Loc /\ StagedTemp(r, j) \notin Path
         /\ ReplacedBackup(r, j) \in Loc /\ ReplacedBackup(r, j) \notin Path
         /\ \A p \in Path : p \in Loc
  BY Locations DEF MoveBackup, StagedTemp, ReplacedBackup, HiddenKind, Loc

(* The last state of the operations that create one entry, or move one.    *)
LEMMA Concatenation ==
  ASSUME NEW S, NEW s \in Seq(S), NEW t \in Seq(S)
  PROVE  /\ Len(s \o t) = Len(s) + Len(t) /\ Len(s) \in Nat /\ Len(t) \in Nat
         /\ \A n \in 1 .. Len(s) : (s \o t)[n] = s[n]
         /\ \A n \in 1 .. Len(t) : (s \o t)[Len(s) + n] = t[n]
         /\ Len(t) # 0 => (s \o t)[Len(s \o t)] = t[Len(t)]
  OBVIOUS

LEMMA CreatedLast ==
  ASSUME NEW o \in Operation, NEW f \in Tree
  PROVE  CreateSteps(o, f)[Len(CreateSteps(o, f))] = [f EXCEPT ![o.target] = Written(o, f)]
  <1> DEFINE torn == [f EXCEPT ![o.target] = Torn]
             done == [f EXCEPT ![o.target] = Written(o, f)]
             half == HalfWritten(o, f)
  <1>1. half = <<torn>> \/ half = <<>>
    BY DEF HalfWritten, TornTree, TornFile
  <1>2. CreateSteps(o, f) = (<<f>> \o half) \o <<done>>
    BY DEF CreateSteps
  <1> HIDE DEF torn, done, half
  <1> DEFINE S == {f, torn, done}  two == <<f>> \o half  rest == <<done>>
  <1>3. <<f>> \in Seq(S) /\ <<torn>> \in Seq(S) /\ <<>> \in Seq(S) /\ <<done>> \in Seq(S)
    OBVIOUS
  <1>4. half \in Seq(S)
    BY <1>1, <1>3, Zenon
  <1>5. Len(rest) = 1 /\ rest[1] = done /\ rest \in Seq(S)
    BY <1>3
  <1>6. two \in Seq(S)
    <2> HIDE DEF S, half, rest
    <2> QED  BY <1>3, <1>4
  <1> HIDE DEF S, two, rest
  <1>7. Len(rest) # 0 => (two \o rest)[Len(two \o rest)] = rest[Len(rest)]
    BY <1>5, <1>6, Concatenation
  <1>8. (two \o rest)[Len(two \o rest)] = done
    BY <1>5, <1>7
  <1> QED  BY <1>2, <1>8 DEF two, rest, done

TornAt(o, f) == [f EXCEPT ![o.target] = Torn]
Copied(o, f) == [f EXCEPT ![o.target] = f[o.source]]

LEMMA CrossLast ==
  ASSUME NEW o \in Operation, NEW r \in Receipt, NEW j \in 1 .. MaxOps, NEW f \in Tree
  PROVE  /\ Len(ImportSteps(o, r, j, f)) = 4
         /\ ImportSteps(o, r, j, f)[1] = f
         /\ ImportSteps(o, r, j, f)[2] = TornAt(o, f)
         /\ ImportSteps(o, r, j, f)[3] = Copied(o, f)
         /\ ImportSteps(o, r, j, f)[4] = Moved(Copied(o, f), o.source, MoveBackup(r, j))
  <1> DEFINE torn == TornAt(o, f)
             copied == Copied(o, f)
             last == Moved(copied, o.source, MoveBackup(r, j))
             S == {f, torn, copied, last}
  <1>1. ImportSteps(o, r, j, f) = (<<f>> \o <<torn>>) \o <<copied, last>>
    BY DEF ImportSteps, TornTree, TornAt, Copied
  <1> HIDE DEF torn, copied, last
  <1>2. <<f>> \in Seq(S) /\ <<torn>> \in Seq(S) /\ <<copied, last>> \in Seq(S)
    OBVIOUS
  <1>3. <<f>> \o <<torn>> \in Seq(S) /\ Len(<<f>> \o <<torn>>) = 2
        /\ (<<f>> \o <<torn>>)[1] = f /\ (<<f>> \o <<torn>>)[2] = torn
    BY <1>2
  <1> DEFINE two == <<f>> \o <<torn>>  rest == <<copied, last>>
  <1>4. Len(rest) = 2 /\ rest[1] = copied /\ rest[2] = last
    OBVIOUS
  <1>5. two \in Seq(S) /\ rest \in Seq(S) /\ Len(two) = 2 /\ two[1] = f /\ two[2] = torn
    BY <1>2, <1>3
  <1> HIDE DEF two, rest, S
  <1>6. Len(two \o rest) = 4 /\ (two \o rest)[1] = f /\ (two \o rest)[2] = torn
        /\ (two \o rest)[3] = copied /\ (two \o rest)[4] = last
    <2>1. 2 + 1 = 3 /\ 2 + 2 = 4 /\ 1 \in 1 .. 2 /\ 2 \in 1 .. 2
      OBVIOUS
    <2>2. /\ Len(two \o rest) = Len(two) + Len(rest)
          /\ \A n \in 1 .. Len(two) : (two \o rest)[n] = two[n]
          /\ \A n \in 1 .. Len(rest) : (two \o rest)[Len(two) + n] = rest[n]
      <3>1. two \in Seq(S) /\ rest \in Seq(S)
        BY <1>5, Zenon
      <3> QED  BY <3>1, Concatenation
    <2>3. (two \o rest)[2 + 1] = rest[1] /\ (two \o rest)[2 + 2] = rest[2]
      BY <1>4, <1>5, <2>1, <2>2, Zenon
    <2> QED  BY <1>4, <1>5, <2>1, <2>2, <2>3
  <1> QED  BY <1>1, <1>6 DEF two, rest, torn, copied, last

LEMMA CreateExact ==
  ASSUME NEW o \in Operation, NEW r \in Receipt, NEW j \in 1 .. MaxOps, NEW f \in Tree,
         IsUncompensatedCreate(o), ~Refused(o, r, j, f)
  PROVE  LET steps == ExecuteSteps(o, r, j, f)
             g == steps[Len(steps)]
             c == Stash(o.target, g[o.target]) IN
         /\ Executed(o, r, j, f, g) = <<c>> /\ Exact(c) /\ Says(c, f, g)
         /\ \A p \in Path : Touches(c, p) => g[p] = LeftBy(c, p)
         /\ \A p \in Path : p # o.target => g[p] \in {f[p], Missing}
  <1> DEFINE steps == ExecuteSteps(o, r, j, f)
             g == steps[Len(steps)]
             c == Stash(o.target, g[o.target])
  <1>1. g = [f EXCEPT ![o.target] = Written(o, f)]
    BY ExecuteCases, CreatedLast
  <1>2. f[o.target] = Missing
    BY DEF Refused, IsUncompensatedCreate
  <1>3. Executed(o, r, j, f, g) = <<c>>
    BY DEF Executed, IsUncompensatedCreate, IsCross
  <1>4. o.target \in Path /\ Path \subseteq Loc
    BY OperationFormed
  <1> HIDE DEF g
  <1>5. \A p \in Path : p # o.target => g[p] = f[p]
    BY <1>1, <1>4 DEF Tree
  <1>6. Exact(c) /\ Says(c, f, g)
    BY <1>2, <1>5 DEF Exact, Says, Stash, Touches, PutBack
  <1>7. \A p \in Path : Touches(c, p) => g[p] = LeftBy(c, p)
    BY DEF Stash, Touches, LeftBy
  <1> QED  BY <1>3, <1>5, <1>6, <1>7 DEF g

LEMMA RemoveExact ==
  ASSUME NEW o \in Operation, NEW r \in Receipt, NEW j \in 1 .. MaxOps, NEW f \in Tree,
         o.kind = "removeSymlink", ~Refused(o, r, j, f)
  PROVE  LET b == MoveBackup(r, j)
             g == Moved(f, o.target, b)
             c == RenameBack(b, o.target, o.expected) IN
         /\ ExecuteSteps(o, r, j, f) = <<f, g>>
         /\ Executed(o, r, j, f, g) = <<c>> /\ Exact(c) /\ Says(c, f, g) /\ Says(c, f, f)
         /\ \A p \in Path : Touches(c, p) => g[p] = LeftBy(c, p)
         /\ \A p \in Path : g[p] \in {f[p], Missing}
         /\ g[o.target] = Missing /\ g[b] = o.expected
  <1> DEFINE b == MoveBackup(r, j)
             g == Moved(f, o.target, b)
             c == RenameBack(b, o.target, o.expected)
  <1>1. b \in Loc /\ b \notin Path /\ o.target \in Path /\ o.target \in Loc /\ \A p \in Path : p \in Loc
    BY HiddenNotPath, OperationFormed
  <1>2. ~IsUncompensatedCreate(o)
    BY KindsOfOperation
  <1>3. ExecuteSteps(o, r, j, f) = <<f, g>>
    BY ExecuteCases DEF RemoveLinkSteps
  <1>4. Executed(o, r, j, f, g) = <<c>>
    BY <1>2 DEF Executed, IsCross
  <1>5. f[o.target] = o.expected
    BY <1>2 DEF Refused
  <1> HIDE DEF b
  <1>6. g[o.target] = Missing /\ g[b] = f[o.target] /\ \A l \in Loc : l # o.target /\ l # b => g[l] = f[l]
    BY <1>1, MovedFrame
  <1> HIDE DEF g
  <1>7. Exact(c) /\ Says(c, f, g) /\ Says(c, f, f) /\ \A p \in Path : Touches(c, p) => g[p] = LeftBy(c, p)
    BY <1>1, <1>5, <1>6 DEF RenameBack, Exact, Says, Touches, PutBack, LeftBy
  <1>8. \A p \in Path : g[p] \in {f[p], Missing}
    BY <1>1, <1>6
  <1> QED  BY <1>3, <1>4, <1>5, <1>6, <1>7, <1>8 DEF b, g

LEMMA MoveExact ==
  ASSUME NEW o \in Operation, NEW r \in Receipt, NEW j \in 1 .. MaxOps, NEW f \in Tree,
         o.kind = "moveRecoverable", ~Refused(o, r, j, f)
  PROVE  LET steps == ExecuteSteps(o, r, j, f)
             g == steps[Len(steps)] IN
         /\ \E c : /\ Executed(o, r, j, f, g) = <<c>> /\ Exact(c) /\ Says(c, f, g)
                   /\ \A p \in Path : Touches(c, p) => g[p] = LeftBy(c, p)
         /\ \A p \in Path : p # o.target => g[p] \in {f[p], Missing}
  <1> DEFINE b == MoveBackup(r, j)
             steps == ExecuteSteps(o, r, j, f)
             g == steps[Len(steps)]
  <1>1. /\ b \in Loc /\ b \notin Path /\ o.target \in Path /\ o.source \in Path
        /\ \A p \in Path : p \in Loc
    BY HiddenNotPath, OperationFormed
  <1>2. f[o.source] # Missing /\ f[o.target] = Missing /\ o.source # o.target /\ ~IsUncompensatedCreate(o)
    BY KindsOfOperation DEF Refused
  <1>3. /\ g[o.source] = Missing /\ g[o.target] = f[o.source]
        /\ \A p \in Path : p # o.source /\ p # o.target => g[p] = f[p]
    <2>1. CASE ~IsCross(o)
      <3> DEFINE last == Moved(f, o.source, o.target)
      <3>1. steps = <<f, last>>
        BY <2>1, ExecuteCases
      <3> HIDE DEF steps, last
      <3>2. g = last
        BY <3>1
      <3> QED  BY <1>1, <1>2, <3>2, MovedFrame DEF last
    <2>2. CASE IsCross(o)
      <3> DEFINE copied == Copied(o, f)
                 last == Moved(copied, o.source, b)
      <3>1. steps = ImportSteps(o, r, j, f)
        BY <2>2, ExecuteCases
      <3>2. /\ copied \in Tree /\ copied[o.target] = f[o.source]
            /\ \A l \in Loc : l # o.target => copied[l] = f[l]
        BY <1>1 DEF Tree, Copied
      <3>3. Len(ImportSteps(o, r, j, f)) = 4 /\ ImportSteps(o, r, j, f)[4] = last
        BY CrossLast
      <3> HIDE DEF copied, last, steps, b
      <3>4. g = last
        BY <3>1, <3>3
      <3>5. last[o.source] = Missing /\ \A l \in Loc : l # o.source /\ l # b => last[l] = copied[l]
        BY <1>1, <3>2, MovedFrame DEF last
      <3> QED  BY <1>1, <1>2, <3>2, <3>4, <3>5
    <2> QED  BY <2>1, <2>2
  <1> HIDE DEF g
  <1>4. CASE IsCross(o)
    <2> DEFINE c == RestoreBackup(b, o.source, o.target, f[o.source])
    <2>1. Executed(o, r, j, f, g) = <<c>>
      BY <1>2, <1>4 DEF Executed
    <2>2. Exact(c) /\ Says(c, f, g) /\ \A p \in Path : Touches(c, p) => g[p] = LeftBy(c, p)
      BY <1>2, <1>3 DEF RestoreBackup, Exact, Says, Touches, PutBack, LeftBy
    <2> HIDE DEF c
    <2> QED  BY <1>3, <2>1, <2>2 DEF g
  <1>5. CASE ~IsCross(o)
    <2> DEFINE c == RenameBack(o.target, o.source, f[o.source])
    <2>1. Executed(o, r, j, f, g) = <<c>>
      BY <1>2, <1>5 DEF Executed
    <2>2. Exact(c) /\ Says(c, f, g) /\ \A p \in Path : Touches(c, p) => g[p] = LeftBy(c, p)
      BY <1>2, <1>3 DEF RenameBack, Exact, Says, Touches, PutBack, LeftBy
    <2> HIDE DEF c
    <2> QED  BY <1>3, <2>1, <2>2 DEF g
  <1> QED  BY <1>4, <1>5

LEMMA ReplaceExact ==
  ASSUME NEW o \in Operation, NEW r \in Receipt, NEW j \in 1 .. MaxOps, NEW f \in Tree,
         o.kind = "replaceFile"
  PROVE  LET steps == ExecuteSteps(o, r, j, f)
             g == steps[Len(steps)] IN
         /\ Len(steps) = 5 /\ Executed(o, r, j, f, g) = <<>>
         /\ \A p \in Path : g[p] = IF p = o.target THEN o.content ELSE f[p]
         /\ \A s \in 1 .. 5, p \in Path : p # o.target => steps[s][p] = f[p]
  <1> DEFINE t == StagedTemp(r, j)
             torn == [f EXCEPT ![t] = Torn]
             staged == [f EXCEPT ![t] = o.content]
             removed == [staged EXCEPT ![o.target] = Missing]
             last == Moved(removed, t, o.target)
             steps == ExecuteSteps(o, r, j, f)
  <1>1. steps = <<f, torn, staged, removed, last>>
    BY ExecuteCases DEF ReplaceSteps, Staged
  <1>2. /\ t \in Loc /\ t \notin Path /\ o.target \in Path /\ \A p \in Path : p \in Loc
        /\ o.content \in Held /\ Missing \in Held
    BY HiddenNotPath, OperationFormed
  <1>3. staged \in Tree /\ staged[t] = o.content /\ \A l \in Loc : l # t => staged[l] = f[l]
    BY <1>2 DEF Tree
  <1>11. \A p \in Path : torn[p] = f[p]
    BY <1>2 DEF Tree
  <1> HIDE DEF staged, torn, t
  <1>4. removed \in Tree /\ \A l \in Loc : l # o.target => removed[l] = staged[l]
    BY <1>2, <1>3 DEF Tree
  <1> HIDE DEF removed
  <1>5. last[o.target] = removed[t] /\ \A l \in Loc : l # o.target /\ l # t => last[l] = removed[l]
    BY <1>2, <1>4, MovedFrame
  <1> HIDE DEF last, steps
  <1>6. Executed(o, r, j, f, steps[Len(steps)]) = <<>>
    BY KindsOfOperation DEF Executed, IsCross
  <1>7. /\ Len(steps) = 5 /\ steps[1] = f /\ steps[2] = torn
        /\ steps[3] = staged /\ steps[4] = removed /\ steps[5] = last
    BY <1>1
  <1>8. \A p \in Path : last[p] = IF p = o.target THEN o.content ELSE f[p]
    BY <1>2, <1>3, <1>4, <1>5
  <1>9. \A s \in 1 .. 5 : s = 1 \/ s = 2 \/ s = 3 \/ s = 4 \/ s = 5
    OBVIOUS
  <1>10. ASSUME NEW s \in 1 .. 5, NEW p \in Path, p # o.target PROVE steps[s][p] = f[p]
    <2>1. staged[p] = f[p] /\ removed[p] = f[p] /\ last[p] = f[p]
      BY <1>2, <1>3, <1>4, <1>8, <1>10
    <2> QED  BY <1>7, <1>9, <1>11, <2>1
  <1> QED  BY <1>6, <1>7, <1>8, <1>10 DEF steps

-----------------------------------------------------------------------------
(* What is left to compensate of an operation that failed half-way.        *)
LEMMA PartialExact ==
  ASSUME NEW o \in Operation, NEW r \in Receipt, NEW j \in 1 .. MaxOps, NEW g \in Tree
  PROVE  \/ Partial(o, r, j, g) = <<>>
         \/ \E c : Partial(o, r, j, g) = <<c>> /\ Exact(c)
  <1> DEFINE b == MoveBackup(r, j)
  <1>1. b \notin Path /\ o.target \in Path
    BY HiddenNotPath, OperationFormed
  <1> HIDE DEF b
  <1>2. CASE o.kind = "removeSymlink"
    <2>1. Exact(RenameBack(b, o.target, o.expected))
      BY <1>1 DEF RenameBack, Exact
    <2>2. \/ Partial(o, r, j, g) = <<>>
          \/ Partial(o, r, j, g) = <<RenameBack(b, o.target, o.expected)>>
      BY <1>2 DEF Partial, b
    <2> QED  BY <2>1, <2>2
  <1>3. CASE o.kind = "moveRecoverable" /\ g[o.target] # Missing /\ g[o.source] = Missing
    <2>1. /\ Exact(RenameBack(o.target, o.source, g[o.target]))
          /\ Exact(RestoreBackup(b, o.source, o.target, g[o.target]))
      BY <1>3 DEF RenameBack, RestoreBackup, Exact
    <2>2. \/ Partial(o, r, j, g) = <<RestoreBackup(b, o.source, o.target, g[o.target])>>
          \/ Partial(o, r, j, g) = <<RenameBack(o.target, o.source, g[o.target])>>
      BY <1>3 DEF Partial, b
    <2> QED  BY <2>1, <2>2
  <1>4. CASE /\ o.kind # "removeSymlink"
             /\ ~(o.kind = "moveRecoverable" /\ g[o.target] # Missing /\ g[o.source] = Missing)
    <2>1. Exact(Stash(o.target, g[o.target]))
      BY DEF Stash, Exact
    <2>2. Partial(o, r, j, g) = <<>> \/ Partial(o, r, j, g) = <<Stash(o.target, g[o.target])>>
      BY <1>4 DEF Partial
    <2> QED  BY <2>1, <2>2
  <1> QED  BY <1>2, <1>3, <1>4

LEMMA PartialNone ==
  ASSUME NEW o \in Operation, NEW r, NEW j, NEW g,
         \/ o.kind = "replaceFile"
         \/ o.kind = "moveRecoverable" /\ g[o.target] = Missing
         \/ o.kind = "removeSymlink" /\ g[o.target] = o.expected /\ o.expected # Missing
  PROVE  Partial(o, r, j, g) = <<>>
  BY DEF Partial, CreatesMissingTarget

(* What a failed operation may have changed of the paths.                  *)
Undone(c, f, g) == Says(c, f, g) /\ Exact(c)
HalfDone(o, r, j, f, g) ==
    \/ Partial(o, r, j, g) = <<>> /\ \A p \in Path : g[p] = f[p] \/ (o.kind = "replaceFile" /\ p = o.target)
    \/ o.kind # "replaceFile" /\ \E c : Partial(o, r, j, g) = <<c>> /\ Undone(c, f, g)

LEMMA StashUndone ==
  ASSUME NEW o \in Operation, NEW r, NEW j, NEW f \in Tree, NEW g, o.kind = "moveRecoverable",
         f[o.target] = Missing, f[o.source] # Missing, g[o.target] = f[o.source] \/ g[o.target] = Torn,
         \A p \in Path : p # o.target => g[p] = f[p]
  PROVE  HalfDone(o, r, j, f, g)
  <1> DEFINE c == Stash(o.target, g[o.target])
  <1>1. o.source \in Path /\ o.target \in Path /\ Torn # Missing
    BY OperationFormed, FileOpsAssumption
  <1>2. g[o.source] # Missing /\ g[o.target] # Missing
    BY <1>1
  <1>3. Partial(o, r, j, g) = <<c>>
    BY <1>2 DEF Partial, CreatesMissingTarget, OpKind
  <1>4. Undone(c, f, g)
    BY DEF Undone, Says, Exact, Stash, Touches, PutBack
  <1> HIDE DEF c
  <1> QED  BY <1>3, <1>4 DEF HalfDone

LEMMA FaultExact ==
  ASSUME NEW o \in Operation, NEW r \in Receipt, NEW j \in 1 .. MaxOps, NEW f \in Tree,
         ~Refused(o, r, j, f), ~IsUncompensatedCreate(o),
         NEW s \in 1 .. Len(ExecuteSteps(o, r, j, f)),
         FALSE \in FaultByIdentity(o, s, ExecuteSteps(o, r, j, f))
  PROVE  HalfDone(o, r, j, f, ExecuteSteps(o, r, j, f)[s])
  <1> DEFINE steps == ExecuteSteps(o, r, j, f)
             b == MoveBackup(r, j)
  <1>1. /\ b \in Loc /\ b \notin Path /\ o.target \in Path /\ o.source \in Path
        /\ \A p \in Path : p \in Loc
    BY HiddenNotPath, OperationFormed
  <1>2. CASE o.kind = "replaceFile"
    <2>1. Len(steps) = 5 /\ \A n \in 1 .. 5, p \in Path : p # o.target => steps[n][p] = f[p]
      BY <1>2, ReplaceExact
    <2>2. Partial(o, r, j, steps[s]) = <<>>
      BY <1>2, PartialNone
    <2>3. s \in 1 .. 5
      BY <2>1
    <2> HIDE DEF steps
    <2>4. \A p \in Path : p # o.target => steps[s][p] = f[p]
      BY <2>1, <2>3
    <2> QED  BY <1>2, <2>2, <2>4 DEF HalfDone, steps
  <1>3. CASE o.kind = "removeSymlink"
    <2> DEFINE g == Moved(f, o.target, b)
               c == RenameBack(b, o.target, o.expected)
    <2>1. /\ steps = <<f, g>> /\ Exact(c) /\ Says(c, f, g) /\ Says(c, f, f)
          /\ g[o.target] = Missing /\ g[b] = o.expected
      BY <1>3, RemoveExact
    <2>2. f[o.target] = o.expected
      BY <1>3 DEF Refused, IsUncompensatedCreate
    <2>3. Partial(o, r, j, g) = <<c>>
      <3> HIDE DEF g
      <3> QED  BY <1>3, <2>1 DEF Partial
    <2>4. HalfDone(o, r, j, f, g)
      <3> HIDE DEF g, c
      <3> QED  BY <1>3, <2>1, <2>3 DEF HalfDone, Undone
    <2>5. HalfDone(o, r, j, f, f)
      <3>1. CASE o.expected # Missing
        BY <1>3, <2>2, <3>1, PartialNone DEF HalfDone
      <3>2. CASE o.expected = Missing
        <4>1. Partial(o, r, j, f) = <<c>> \/ Partial(o, r, j, f) = <<>>
          BY <1>3 DEF Partial
        <4> HIDE DEF c
        <4> QED  BY <1>3, <2>1, <4>1 DEF HalfDone, Undone
      <3> QED  BY <3>1, <3>2
    <2> HIDE DEF steps, g
    <2>6. s \in {1, 2} /\ steps[1] = f /\ steps[2] = g
      BY <2>1 DEF steps
    <2> QED  BY <2>4, <2>5, <2>6 DEF steps
  <1>4. CASE o.kind = "moveRecoverable"
    <2>1. f[o.source] # Missing /\ f[o.target] = Missing
      BY <1>4 DEF Refused, IsUncompensatedCreate
    <2>2. s # Len(steps)
      BY <1>4 DEF FaultByIdentity
    <2>3. HalfDone(o, r, j, f, f)
      BY <1>4, <2>1, PartialNone DEF HalfDone
    <2>4. CASE ~IsCross(o)
      <3> DEFINE last == Moved(f, o.source, o.target)
      <3>1. steps = <<f, last>>
        BY <1>4, <2>4, ExecuteCases
      <3> HIDE DEF steps, last
      <3>2. s = 1 /\ steps[1] = f
        BY <2>2, <3>1 DEF steps
      <3> QED  BY <2>3, <3>2 DEF steps
    <2>5. CASE IsCross(o)
      <3>1. steps = ImportSteps(o, r, j, f)
        BY <2>5, ExecuteCases
      <3>2. /\ Len(ImportSteps(o, r, j, f)) = 4 /\ ImportSteps(o, r, j, f)[1] = f
            /\ ImportSteps(o, r, j, f)[2] = TornAt(o, f) /\ ImportSteps(o, r, j, f)[3] = Copied(o, f)
        BY CrossLast
      <3> HIDE DEF steps
      <3>3. Len(steps) = 4 /\ steps[1] = f /\ steps[2] = TornAt(o, f) /\ steps[3] = Copied(o, f)
        BY <3>1, <3>2, Zenon
      <3>4. s = 1 \/ s = 2 \/ s = 3
        BY <2>2, <3>3 DEF steps
      <3>5. HalfDone(o, r, j, f, TornAt(o, f))
        <4>1. TornAt(o, f)[o.target] = Torn /\ \A p \in Path : p # o.target => TornAt(o, f)[p] = f[p]
          BY <1>1 DEF Tree, TornAt
        <4> QED  BY <1>4, <2>1, <4>1, StashUndone
      <3>6. HalfDone(o, r, j, f, Copied(o, f))
        <4>1. Copied(o, f)[o.target] = f[o.source] /\ \A p \in Path : p # o.target => Copied(o, f)[p] = f[p]
          BY <1>1 DEF Tree, Copied
        <4> QED  BY <1>4, <2>1, <4>1, StashUndone
      <3> QED  BY <2>3, <3>3, <3>4, <3>5, <3>6 DEF steps
    <2> QED  BY <2>4, <2>5
  <1> QED  BY <1>2, <1>3, <1>4, KindsOfOperation

-----------------------------------------------------------------------------
(* What a compensation finds at the paths it touches, and puts there.      *)
LEMMA CompensationAccepts ==
  ASSUME NEW c \in Compensation, NEW r \in Receipt, NEW n \in 1 .. MaxOps, NEW f, CompensationOK(c, r, n, f),
         Exact(c)
  PROVE  \A p \in Path : Touches(c, p) => f[p] \in {LeftBy(c, p), Missing, PutBack(c, p)}
  <1>1. c.kind \in CompensationKind /\ (c.kind = "restoreReplacedFile" => c.from \notin Path)
    BY CompensationFormed
  <1>2. CASE c.kind = "stashCreated"
    BY <1>2 DEF CompensationOK, Exact, Touches, LeftBy
  <1>3. CASE c.kind = "renameBack"
    BY <1>3 DEF CompensationOK, Touches, LeftBy
  <1>4. CASE c.kind = "restoreBackup"
    BY <1>4 DEF CompensationOK, Touches, LeftBy
  <1>5. CASE c.kind = "restoreReplacedFile"
    BY <1>1, <1>5 DEF CompensationOK, Touches, LeftBy, PutBack
  <1> QED  BY <1>1, <1>2, <1>3, <1>4, <1>5 DEF CompensationKind

LEMMA CompensateExact ==
  ASSUME NEW c \in Compensation, NEW r \in Receipt, NEW n \in 1 .. MaxOps, NEW f \in Tree,
         CompensationOK(c, r, n, f), Exact(c)
  PROVE  LET steps == CompensationSteps(c, r, n, f) IN
         /\ ~OriginalReappeared(c, f)
         /\ \A p \in Path : steps[Len(steps)][p] = IF Touches(c, p) THEN PutBack(c, p) ELSE f[p]
  <1> DEFINE steps == CompensationSteps(c, r, n, f)
             a == <<"stash", r, n>>  x == <<"stashCreated", r, n>>  e == <<"restore", r, n>>
  <1>1. /\ c.kind \in CompensationKind /\ c.from \in Loc /\ c.to \in Path /\ c.backup \in Loc /\ c.to \in Loc
        /\ \A p \in Path : p \in Loc
        /\ c.kind \in {"stashCreated", "restoreBackup"} => c.from \in Path
        /\ c.kind = "restoreBackup" => c.backup \notin Path
        /\ c.kind = "restoreReplacedFile" => c.from \notin Path /\ c.backup \notin Path
    BY CompensationFormed
  <1>2. /\ a \in Loc /\ a \notin Path /\ x \in Loc /\ x \notin Path
        /\ e \in Loc /\ e \notin Path /\ Missing \in Held
    BY Locations DEF HiddenKind, Held
  <1>3. ~OriginalReappeared(c, f)
    BY DEF CompensationOK, OriginalReappeared
  <1>4. c.kind = "restoreBackup" => c.backup \notin AsideOf(r, n)
    BY CompensationFormed
  <1>5. CASE c.kind = "stashCreated"
    <2> DEFINE g == Moved(f, c.from, a)
    <2>1. steps = <<f, g>>
      BY <1>5 DEF CompensationSteps
    <2> HIDE DEF a
    <2>2. g[c.from] = Missing /\ \A l \in Loc : l # c.from /\ l # a => g[l] = f[l]
      BY <1>1, <1>2, <1>5, MovedFrame
    <2> HIDE DEF steps, g
    <2>3. steps[Len(steps)] = g
      BY <2>1
    <2>4. c.from = c.to /\ c.original = Missing
      BY <1>5 DEF Exact
    <2>5. ASSUME NEW p \in Path PROVE g[p] = IF Touches(c, p) THEN PutBack(c, p) ELSE f[p]
      BY <1>1, <1>2, <2>2, <2>4 DEF Touches, PutBack
    <2> QED  BY <1>3, <2>3, <2>5 DEF steps
  <1>6. CASE c.kind = "renameBack"
    <2> DEFINE g == Moved(f, c.from, c.to)
    <2>1. steps = <<f, g>>
      BY <1>6 DEF CompensationSteps
    <2>2. c.from # c.to /\ c.original = c.expected /\ f[c.from] = c.expected
      BY <1>6 DEF Exact, CompensationOK
    <2>3. g[c.from] = Missing /\ g[c.to] = f[c.from] /\ \A l \in Loc : l # c.from /\ l # c.to => g[l] = f[l]
      BY <1>1, <2>2, MovedFrame
    <2> HIDE DEF steps, g
    <2>4. steps[Len(steps)] = g
      BY <2>1
    <2>5. ASSUME NEW p \in Path PROVE g[p] = IF Touches(c, p) THEN PutBack(c, p) ELSE f[p]
      BY <1>1, <2>2, <2>3 DEF Touches, PutBack
    <2> QED  BY <1>3, <2>4, <2>5 DEF steps
  <1>7. CASE c.kind = "restoreBackup"
    <2> DEFINE stashed == Moved(f, c.from, x)
               g == Moved(stashed, c.backup, c.to)
    <2>1. steps = <<f, stashed, g>>
      BY <1>3, <1>7 DEF CompensationSteps
    <2>2. /\ c.from # c.to /\ c.original = c.expected /\ f[c.backup] = c.expected
          /\ c.backup # x /\ c.backup # c.from /\ c.backup # c.to
      BY <1>1, <1>4, <1>7 DEF Exact, CompensationOK, AsideOf
    <2> HIDE DEF x
    <2>3. /\ stashed \in Tree /\ stashed[c.from] = Missing
          /\ \A l \in Loc : l # c.from /\ l # x => stashed[l] = f[l]
      BY <1>1, <1>2, <1>7, MovedFrame
    <2> HIDE DEF stashed
    <2>4. g[c.to] = stashed[c.backup] /\ \A l \in Loc : l # c.backup /\ l # c.to => g[l] = stashed[l]
      <3>1. c.backup \in Loc /\ c.to \in Loc /\ c.backup # c.to /\ stashed \in Tree
        BY <1>1, <2>2, <2>3
      <3> QED  BY <3>1, MovedFrame
    <2> HIDE DEF steps, g
    <2>5. steps[Len(steps)] = g
      BY <2>1
    <2>6. ASSUME NEW p \in Path PROVE g[p] = IF Touches(c, p) THEN PutBack(c, p) ELSE f[p]
      BY <1>1, <1>2, <1>7, <2>2, <2>3, <2>4 DEF Touches, PutBack
    <2> QED  BY <1>3, <2>5, <2>6 DEF steps
  <1>8. CASE c.kind = "restoreReplacedFile"
    <2> DEFINE swept == Swept(f, c)
    <2>1. f[c.backup] = c.original /\ f[c.backup] \in Held
      BY <1>1, <1>8 DEF CompensationOK, Tree
    <2>2. swept \in Tree /\ \A l \in Loc : l # c.from => swept[l] = f[l]
      BY <1>1, <1>2 DEF Swept, Tree
    <2>3. CASE f[c.to] = c.original
      <3> DEFINE g == [swept EXCEPT ![c.backup] = Missing]
      <3>1. steps = <<f, swept, g>>
        BY <1>8, <2>3 DEF CompensationSteps
      <3> HIDE DEF swept
      <3>2. \A l \in Loc : l # c.backup => g[l] = swept[l]
        BY <2>2 DEF Tree
      <3> HIDE DEF steps, g
      <3>3. steps[Len(steps)] = g
        BY <3>1
      <3>4. ASSUME NEW p \in Path PROVE g[p] = IF Touches(c, p) THEN PutBack(c, p) ELSE f[p]
        BY <1>1, <1>8, <2>2, <2>3, <3>2 DEF Touches, PutBack
      <3> QED  BY <1>3, <3>3, <3>4 DEF steps
    <2>4. CASE f[c.to] # c.original
      <3> DEFINE restaged == Restaged(f, c, r, n)
                 removed == [restaged EXCEPT ![c.to] = Missing]
                 restored == Moved(removed, e, c.to)
                 g == [restored EXCEPT ![c.backup] = Missing]
      <3>1. steps = <<f, swept, restaged, removed, restored, g>>
        BY <1>8, <2>4 DEF CompensationSteps
      <3>2. restaged \in Tree /\ restaged[e] = f[c.backup] /\ \A l \in Loc : l # e => restaged[l] = swept[l]
        BY <1>2, <2>1, <2>2 DEF Restaged, Tree
      <3> HIDE DEF swept, restaged, e
      <3>3. removed \in Tree /\ \A l \in Loc : l # c.to => removed[l] = restaged[l]
        BY <1>2, <3>2 DEF Tree
      <3> HIDE DEF removed
      <3>4. restored \in Tree /\ restored[c.to] = removed[e]
            /\ \A l \in Loc : l # e /\ l # c.to => restored[l] = removed[l]
        BY <1>1, <1>2, <3>3, MovedFrame
      <3> HIDE DEF restored
      <3>5. \A l \in Loc : l # c.backup => g[l] = restored[l]
        BY <3>4 DEF Tree
      <3> HIDE DEF steps, g
      <3>6. steps[Len(steps)] = g
        BY <3>1
      <3>7. ASSUME NEW p \in Path PROVE g[p] = IF Touches(c, p) THEN PutBack(c, p) ELSE f[p]
        <4>1. g[c.to] = c.original
          BY <1>1, <1>2, <1>8, <2>1, <3>2, <3>3, <3>4, <3>5
        <4>2. p # c.to => g[p] = f[p]
          BY <1>1, <1>2, <1>8, <2>2, <3>2, <3>3, <3>4, <3>5
        <4> QED  BY <1>1, <1>8, <4>1, <4>2 DEF Touches, PutBack
      <3> QED  BY <1>3, <3>6, <3>7 DEF steps
    <2> QED  BY <2>3, <2>4
  <1> QED  BY <1>1, <1>5, <1>6, <1>7, <1>8 DEF CompensationKind

-----------------------------------------------------------------------------
(* What every step of a running command leaves alone.                      *)
Puts(record) ==
    /\ record.reverses = mem.reverses /\ AllExact(record.comps)
    /\ journal' \in {journal, [journal EXCEPT ![cur] = record]}

LEMMA RecordedStays ==
  ASSUME IInv, Recorded, pc # "idle", NEW record, Puts(record),
         tracked' \in {tracked, tracked \cup {cur}}, base' \in [Path -> Held], ready' = ready
  PROVE  Recorded' /\ \A x \in Receipt \ {cur} : journal'[x] = journal[x]
  <1>1. /\ cur \in Receipt \ tracked /\ journal[cur].reverses = mem.reverses
        /\ journal \in [Receipt -> ReceiptRecord]
    BY OwnerKnown DEF IInv, TypeOK
  <1>2. /\ \A x \in Receipt \ {cur} : journal'[x] = journal[x]
        /\ journal'[cur] \in {journal[cur], record}
    BY <1>1 DEF Puts
  <1>3. \A x \in Receipt : Committed(x) => x # cur /\ Committed(x)'
    BY <1>1, <1>2 DEF Committed
  <1>4. \A x \in Receipt : journal'[x].reverses = journal[x].reverses
    BY <1>1, <1>2 DEF Puts
  <1>5. \A x \in Receipt : journal[x].reverses \in Receipt \cup {NoReceipt}
    BY <1>1 DEF ReceiptRecord
  <1>6. ASSUME NEW x \in Receipt, journal'[x].reverses # NoReceipt
        PROVE  journal'[journal'[x].reverses].status = "Applied" /\ journal'[x].reverses \in tracked'
    <2>1. journal'[x].reverses \in Receipt /\ Committed(journal[x].reverses)
      BY <1>4, <1>5, <1>6 DEF Recorded
    <2> QED  BY <1>3, <1>4, <2>1 DEF Committed
  <1>7. \A x \in Receipt : AllExact(journal'[x].comps)
    BY <1>2 DEF Recorded, Puts
  <1> QED  BY <1>2, <1>6, <1>7 DEF Recorded, Committed

LEMMA RunningStays ==
  ASSUME IInv, Faithful, pc # "idle", pc' # "idle", NEW record, Puts(record),
         UNCHANGED <<tracked, cur, ready>>, base' \in [Path -> Held], AllExact(mem'.comps),
         pc' \in Executing => pc \in Executing /\ plan' = plan,
         mode' = "undo" => mode = "undo" /\ mem'.reverses = mem.reverses,
         mode' # "undo" => verdict' # "Undone" /\ mem'.status # "Undone"
  PROVE  Recorded' /\ Running'
  <1>1. Recorded' /\ \A x \in Receipt \ {cur} : journal'[x] = journal[x]
    BY RecordedStays DEF Faithful
  <1>2. \A x \in Receipt \ {cur} : ~Issue(x)'
    BY <1>1 DEF Faithful, Running, Issue, Pending
  <1>3. mode' = "undo" => \A u \in Receipt \ {cur} :
            ~(journal'[u].reverses = mem'.reverses /\ journal'[u].status = "Undone")
    BY <1>1 DEF Faithful, Running
  <1>4. pc' \in Executing => DistinctTargets(plan)'
    BY DEF Faithful, Running, DistinctTargets
  <1> QED  BY <1>1, <1>2, <1>3, <1>4 DEF Running

LEMMA AbsentExact == AllExact(Absent.comps) /\ Absent.status # "Undone"
  BY DEF AllExact, Absent

LEMMA IdleFaithful ==
  ASSUME Recorded', Stop PROVE Faithful'
  <1>1. Running'
    BY AbsentExact DEF Stop, Running, Quiet, Executing
  <1>2. Forward' /\ Back' /\ Ended'
    BY DEF Stop, Forward, Back, Ended, Executing, Compensating, Replacing
  <1> QED  BY <1>1, <1>2 DEF Faithful

LEMMA StopFaithful ==
  ASSUME IInv, Faithful, pc # "idle", NEW record, Puts(record),
         tracked' \in {tracked, tracked \cup {cur}}, base' = base, Stop
  PROVE  Faithful'
  <1>1. base' \in [Path -> Held] /\ ready' = ready
    BY DEF Faithful, Recorded, Stop
  <1> QED  BY <1>1, RecordedStays, IdleFaithful DEF Faithful

(* From execution to compensation.                                         *)
LEMMA CompensateFaithful ==
  ASSUME IInv, Faithful, pc \in Executing, NEW record \in ReceiptRecord, record.status = "Applying",
         NEW result \in {"FailedRolledBack", "RecoveryRequired"}, NEW how \in {"apply", "salvage"},
         Compensate(record, result, how), NEW written, Puts(written),
         AllExact(record.comps), UNCHANGED <<tracked, base>>,
         Quiet /\ result # "RecoveryRequired" =>
            /\ FoundIn(record.comps, base)
            /\ \A p \in Path : Beyond(record.comps, 0, p) => fs'[p] = base[p]
  PROVE  Faithful'
  <1>1. /\ mem' = record /\ verdict' = result /\ mode' = how /\ UNCHANGED <<plan, cur, edited, ready>>
        /\ k' = Len(record.comps) /\ pc' = IF record.comps = <<>> THEN "finish" ELSE "verify"
    BY DEF Compensate, CompensateFrom
  <1>2. record.comps \in Seq(Compensation) /\ pc # "idle"
    BY DEF ReceiptRecord, Journaled, Executing
  <1>3. Recorded' /\ Running'
    <2>1. base' \in [Path -> Held]
      BY DEF Faithful, Recorded
    <2>2. pc' # "idle" /\ pc' \notin Executing /\ mode' # "undo" /\ verdict' # "Undone" /\
              mem'.status # "Undone"
      BY <1>1 DEF Executing
    <2> QED  BY <1>1, <1>2, <2>1, <2>2, RunningStays
  <1>4. Forward' /\ Ended'
    BY <1>1 DEF Forward, Ended, Executing, Replacing
  <1>5. Comps' = record.comps /\ Undoing' = FALSE
    BY <1>1 DEF Comps, Undoing
  <1>6. ASSUME Quiet, result # "RecoveryRequired"
        PROVE  PutBackFrom(record.comps, Len(record.comps), FALSE, base, fs') /\ FoundIn(record.comps, base)
    BY <1>2, <1>6, PutBackBegins
  <1>7. Back'
    <2>1. pc' = "finish" => k' = 0
      BY <1>1
    <2>2. (Quiet' => Quiet) /\ pc' # "act"
      BY <1>1 DEF Quiet
    <2>3. Quiet' /\ verdict' # "RecoveryRequired" =>
            PutBackFrom(Comps', k', Undoing', base', fs') /\ FoundIn(Comps', base')
      BY <1>1, <1>5, <1>6, <2>2
    <2> QED  BY <1>5, <2>1, <2>2, <2>3 DEF Back
  <1> QED  BY <1>3, <1>4, <1>7 DEF Faithful

-----------------------------------------------------------------------------
(* Execution, step by step.                                                *)
LEMMA AppendedExact ==
  ASSUME NEW S, NEW s \in Seq(S), NEW c, AllExact(s), Exact(c)
  PROVE  AllExact(Append(s, c))
  <1>1. 1 .. Len(s) + 1 = (1 .. Len(s)) \cup {Len(s) + 1}
    OBVIOUS
  <1> QED  BY <1>1, Appended DEF AllExact

LEMMA JoinedOne ==
  ASSUME NEW S, NEW s \in Seq(S), NEW c
  PROVE  s \o <<>> = s /\ s \o <<c>> = Append(s, c)
  OBVIOUS

LEMMA LeftBeyond ==
  ASSUME NEW s, NEW t, NEW f, NEW p, LeftAt(s, t, f, p), Beyond(s, 0, p)
  PROVE  f[p] = t[p]
  BY DEF LeftAt, FinalTouch, Beyond

LEMMA PutsMem ==
  ASSUME IInv, Faithful, pc # "idle", journal' \in {journal, [journal EXCEPT ![cur] = mem]}
  PROVE  Puts(mem) /\ AllExact(mem.comps)
  BY DEF Faithful, Running, Puts

LEMMA ExecutingKnown ==
  ASSUME IInv, pc \in Executing
  PROVE  /\ pc # "idle" /\ mode = "apply" /\ mem.status = "Applying" /\ mem \in ReceiptRecord
         /\ mem.comps \in Seq(Compensation) /\ mem.done \in Nat /\ cur \in Receipt /\ fs \in Tree
  BY OwnerKnown DEF IInv, TypeOK, Working, InStep, Executing, ReceiptRecord, Journaled, Tree

(* The paths that no compensation in hand touches are as they were.        *)
LEMMA BeyondUnchanged ==
  ASSUME IInv, Faithful, pc \in {"validate", "mutate"}, Quiet
  PROVE  /\ FoundIn(mem.comps, base)
         /\ \A p \in Path : Beyond(mem.comps, 0, p) =>
               fs[p] = base[p] /\ ~(op.kind = "replaceFile" /\ p = op.target)
  <1>1. pc \in Executing /\ mem.comps \in Seq(Compensation)
    BY ExecutingKnown DEF Executing
  <1>2. FoundIn(mem.comps, base)
    BY <1>1 DEF Faithful, Forward
  <1>3. ASSUME NEW p \in Path, Beyond(mem.comps, 0, p), op.kind = "replaceFile", p = op.target PROVE FALSE
    <2>1. Len(mem.comps) > 0 /\ mem.comps[Len(mem.comps)] = RestoreReplaced(ReplacedBackup(cur, i),
              StagedTemp(cur, i), op.target, op.expected, op.content)
      BY <1>3 DEF Faithful, Forward, Replacing
    <2>2. Len(mem.comps) \in 0 + 1 .. Len(mem.comps)
      BY <1>1, <2>1
    <2>3. Touches(mem.comps[Len(mem.comps)], p)
      BY <1>3, <2>1 DEF Touches, RestoreReplaced
    <2> QED  BY <1>3, <2>2, <2>3 DEF Beyond
  <1>4. ASSUME NEW p \in Path, Beyond(mem.comps, 0, p) PROVE fs[p] = base[p]
    <2>1. LeftAt(mem.comps, base, fs, p)
      BY <1>1, <1>3, <1>4 DEF Faithful, Forward, Replacing
    <2> QED  BY <1>4, <2>1, LeftBeyond
  <1> QED  BY <1>2, <1>3, <1>4

LEMMA FailedFaithful ==
  ASSUME IInv, Faithful, pc \in {"validate", "mutate"}, NEW g \in Tree, fs' = g,
         NEW byIdentity, Failed(g, byIdentity), UNCHANGED <<tracked, base>>,
         Quiet /\ ~byIdentity /\ ~IsUncompensatedCreate(op) /\ ~PartialAmbiguous(op, cur, i, g)
            => HalfDone(op, cur, i, fs, g)
  PROVE  Faithful'
  <1> DEFINE partial == Partial(op, cur, i, g)
             receipt == [mem EXCEPT !.comps = @ \o partial]
  <1>1. /\ pc \in Executing /\ pc # "idle" /\ mem.status = "Applying" /\ mem \in ReceiptRecord
        /\ mem.comps \in Seq(Compensation) /\ mem.comps \in Journaled /\ cur \in Receipt /\ mode = "apply"
    BY ExecutingKnown DEF Executing, ReceiptRecord
  <1>2. op \in Operation /\ i \in 1 .. MaxOps /\ mem.done \in Nat /\ i = mem.done + 1
    BY OpTyped DEF IInv, Working
  <1>3. CASE Compensate(mem, "RecoveryRequired", "salvage") /\ UNCHANGED journal
    <2>1. Puts(mem) /\ AllExact(mem.comps)
      BY <1>1, <1>3, PutsMem
    <2> QED  BY <1>1, <1>3, <2>1, CompensateFaithful
  <1>4. CASE /\ Compensate(receipt, "FailedRolledBack", "apply")
             /\ journal' \in {journal} \cup
                    (IF partial = <<>> THEN {} ELSE {[journal EXCEPT ![cur] = receipt]})
             /\ ~byIdentity /\ ~IsUncompensatedCreate(op) /\ ~PartialAmbiguous(op, cur, i, g)
    <2>1. /\ partial \in Seq(Compensation) /\ Len(partial) <= IF op.kind = "replaceFile" THEN 0 ELSE 1
          /\ Len(partial) \in Nat
      BY <1>1, <1>2, Compensations DEF IInv
    <2>2. partial = <<>> \/ \E c : partial = <<c>> /\ Exact(c)
      BY <1>1, <1>2, PartialExact
    <2>3. Quiet => HalfDone(op, cur, i, fs, g)
      BY <1>4
    <2> HIDE DEF partial
    <2>4. mem.comps \o partial \in Journaled
      <3>1. mem.comps \in Seq(Compensation) /\
                Len(mem.comps) <= IF op.kind = "replaceFile" THEN i ELSE mem.done
        BY <1>1 DEF Journaled, IInv, Working, InStep
      <3>2. /\ mem.comps \o partial \in Seq(Compensation) /\ Len(mem.comps) \in Nat
            /\ Len(mem.comps \o partial) = Len(mem.comps) + Len(partial)
        BY <2>1, <3>1
      <3> QED  BY <1>2, <2>1, <3>1, <3>2, FileOpsAssumption DEF Journaled
    <2>5. /\ receipt \in ReceiptRecord /\ receipt.status = "Applying" /\ receipt.reverses = mem.reverses
          /\ receipt.comps = mem.comps \o partial
      BY <1>1, <2>4 DEF ReceiptRecord
    <2>6. AllExact(mem.comps)
      BY DEF Faithful, Running
    <2>7. AllExact(mem.comps \o partial)
      <3>1. CASE partial = <<>>
        BY <1>1, <2>6, <3>1, JoinedOne
      <3>2. CASE \E c : partial = <<c>> /\ Exact(c)
        <4>1. PICK c : partial = <<c>> /\ Exact(c)
          BY <3>2
        <4>2. mem.comps \o partial = Append(mem.comps, c)
          BY <1>1, <4>1, JoinedOne
        <4> QED  BY <1>1, <2>6, <4>1, <4>2, AppendedExact
      <3> QED  BY <2>2, <3>1, <3>2
    <2> HIDE DEF receipt
    <2>8. Puts(receipt)
      BY <1>1, <1>4, <2>5, <2>7 DEF Puts
    <2>9. ASSUME Quiet
          PROVE  /\ FoundIn(mem.comps \o partial, base)
                 /\ \A p \in Path : Beyond(mem.comps \o partial, 0, p) => g[p] = base[p]
      <3>1. /\ FoundIn(mem.comps, base)
            /\ \A p \in Path : Beyond(mem.comps, 0, p) =>
                  fs[p] = base[p] /\ ~(op.kind = "replaceFile" /\ p = op.target)
        BY <2>9, BeyondUnchanged
      <3>2. CASE partial = <<>> /\ \A p \in Path : g[p] = fs[p] \/ (op.kind = "replaceFile" /\ p = op.target)
        <4>1. mem.comps \o partial = mem.comps
          BY <1>1, <3>2, JoinedOne
        <4> QED  BY <3>1, <3>2, <4>1
      <3>3. CASE \E c : partial = <<c>> /\ Undone(c, fs, g)
        <4>1. PICK c : partial = <<c>> /\ Undone(c, fs, g)
          BY <3>3
        <4>2. mem.comps \o partial = Append(mem.comps, c)
          BY <1>1, <4>1, JoinedOne
        <4>3. \A p \in Path : Touches(c, p) /\ Beyond(mem.comps, 0, p) => base[p] = PutBack(c, p)
          BY <3>1, <4>1 DEF Undone, Says
        <4>4. FoundIn(Append(mem.comps, c), base)
          BY <1>1, <3>1, <4>3, AppendedFound
        <4>5. ASSUME NEW p \in Path, Beyond(Append(mem.comps, c), 0, p) PROVE g[p] = base[p]
          <5>1. Beyond(mem.comps, 0, p) /\ ~Touches(c, p)
            BY <1>1, <4>5, AppendedTouch
          <5> QED  BY <3>1, <4>1, <5>1 DEF Undone, Says
        <4> QED  BY <4>2, <4>4, <4>5
      <3> QED  BY <2>3, <2>9, <3>2, <3>3 DEF HalfDone, partial
    <2> QED  BY <1>1, <1>4, <2>5, <2>7, <2>8, <2>9, CompensateFaithful
  <1> QED  BY <1>3, <1>4 DEF Failed

LEMMA StillExecuting ==
  ASSUME IInv, Faithful, pc \in Executing, pc' \in Executing,
         UNCHANGED <<tracked, cur, ready, plan, mode, verdict, base>>, mem'.status = mem.status,
         NEW record, Puts(record), AllExact(mem'.comps)
  PROVE  Recorded' /\ Running' /\ Back' /\ Ended'
  <1>1. pc # "idle" /\ pc' # "idle" /\ mode = "apply" /\ mem.status = "Applying"
    BY ExecutingKnown DEF Executing
  <1>2. base' \in [Path -> Held] /\ verdict' # "Undone" /\ mem'.status # "Undone" /\ mode' # "undo"
    BY <1>1 DEF Faithful, Recorded, Running
  <1>3. Recorded' /\ Running'
    BY <1>1, <1>2, RunningStays
  <1>4. Back' /\ Ended'
    BY DEF Executing, Back, Ended, Compensating
  <1> QED  BY <1>3, <1>4

LEMMA RecordFaithful == ASSUME IInv, Faithful, Record PROVE Faithful'
  <1>1. /\ pc = "record" /\ pc \in Executing /\ pc # "idle" /\ UNCHANGED <<fs, tracked, base>>
        /\ Puts(mem) /\ AllExact(mem.comps)
    BY PutsMem DEF Record, Persist, PersistFails, history, Executing
  <1>2. CASE Stop
    BY <1>1, <1>2, StopFaithful
  <1>3. CASE Goto(IF op.kind = "replaceFile" THEN "stage" ELSE "validate") /\ UNCHANGED mem
    <2>1. /\ UNCHANGED <<mode, plan, cur, mem, k, verdict, edited, ready>> /\ i' = i /\ op' = op
          /\ pc' = IF op.kind = "replaceFile" THEN "stage" ELSE "validate"
      BY <1>3 DEF Goto, i, op
    <2>2. Recorded' /\ Running' /\ Back' /\ Ended'
      BY <1>1, <2>1, StillExecuting DEF Executing
    <2>3. ~Replacing /\ ~Replacing' /\ Quiet' = Quiet /\ pc' # "mutate"
      BY <1>1, <2>1 DEF Replacing, Quiet
    <2>4. Forward'
      BY <1>1, <2>1, <2>3 DEF Faithful, Forward
    <2> QED  BY <2>2, <2>4 DEF Faithful
  <1> QED  BY <1>2, <1>3 DEF Record

LEMMA StageFaithful == ASSUME IInv, Faithful, Stage PROVE Faithful'
  <1> DEFINE b == ReplacedBackup(cur, i)
             added == RestoreReplaced(b, StagedTemp(cur, i), op.target, op.expected, op.content)
             staged == [mem EXCEPT !.comps = Append(@, added)]
  <1>1. /\ pc = "stage" /\ pc \in Executing /\ pc # "idle" /\ UNCHANGED <<tracked, base>>
        /\ op.kind = "replaceFile" /\ mem \in ReceiptRecord
        /\ mem.comps \in Seq(Compensation) /\ cur \in Receipt /\ fs \in Tree
    BY ExecutingKnown DEF Stage, history, Executing, IInv, Working, InStep
  <1>2. /\ op \in Operation /\ i \in 1 .. MaxOps
    BY <1>1, OpTyped DEF IInv, Working
  <1>3. /\ b \in Loc /\ b \notin Path /\ StagedTemp(cur, i) \notin Path
        /\ op.target \in Path /\ \A p \in Path : p \in Loc
    BY <1>1, <1>2, HiddenNotPath, OperationFormed
  <1>4. Exact(added) /\ AllExact(mem.comps)
    BY DEF Exact, RestoreReplaced, Faithful, Running
  <1>5. added.from \notin Path /\ added.to = op.target /\ added.original = op.expected
    BY <1>3 DEF RestoreReplaced
  <1>6. CASE Stop /\ journal' = journal
    <2>1. Puts(mem)
      BY <1>1, <1>6, PutsMem
    <2> QED  BY <1>1, <1>4, <1>6, <2>1, StopFaithful
  <1>7. CASE fs[op.target] = op.expected /\ fs' = [fs EXCEPT ![b] = fs[op.target]]
             /\ journal' \in {journal, [journal EXCEPT ![cur] = staged]}
             /\ (Stop \/ (mem' = staged /\ Goto("validate")))
    <2>1. staged.comps = Append(mem.comps, added) /\ staged.status = mem.status
      BY <1>1 DEF ReceiptRecord
    <2>2. AllExact(staged.comps)
      BY <1>1, <1>4, <2>1, AppendedExact
    <2>3. journal' = journal \/ journal' = [journal EXCEPT ![cur] = staged]
      BY <1>7
    <2>4. \E record : Puts(record)
      <3>1. CASE journal' = journal
        BY <1>1, <3>1, PutsMem
      <3>2. CASE journal' = [journal EXCEPT ![cur] = staged]
        <4>1. staged.reverses = mem.reverses
          BY <1>1 DEF ReceiptRecord
        <4> QED  BY <2>2, <3>2, <4>1 DEF Puts
      <3> QED  BY <2>3, <3>1, <3>2
    <2>5. PICK record : Puts(record)
      BY <2>4
    <2>6. CASE Stop
      BY <1>1, <2>5, <2>6, StopFaithful
    <2>7. CASE mem' = staged /\ Goto("validate")
      <3>1. /\ UNCHANGED <<mode, plan, cur, k, verdict, edited, ready>> /\ pc' = "validate"
            /\ i' = i /\ op' = op /\ mem'.comps = Append(mem.comps, added) /\ mem'.status = mem.status
        <4>1. mem'.done = mem.done
          BY <1>1, <2>7 DEF ReceiptRecord
        <4> QED  BY <2>1, <2>7, <4>1 DEF Goto, i, op
      <3>2. Recorded' /\ Running' /\ Back' /\ Ended'
        BY <1>1, <2>2, <2>1, <2>5, <3>1, StillExecuting DEF Executing
      <3>3. \A p \in Path : fs'[p] = fs[p]
        BY <1>1, <1>3, <1>7 DEF Tree
      <3> HIDE DEF staged, added
      <3>4. Len(mem'.comps) = Len(mem.comps) + 1 /\ Len(mem.comps) \in Nat /\
                mem'.comps[Len(mem'.comps)] = added
        BY <1>1, <3>1, Appended
      <3>5. ASSUME Quiet
            PROVE  /\ FoundIn(Append(mem.comps, added), base)
                   /\ \A p \in Path : p # op.target => LeftAt(Append(mem.comps, added), base, fs', p)
        <4>1. FoundIn(mem.comps, base) /\ \A p \in Path : LeftAt(mem.comps, base, fs, p)
          BY <1>1, <3>5 DEF Faithful, Forward, Replacing
        <4>2. \A p \in Path : Touches(added, p) => p = op.target
          BY <1>5 DEF Touches
        <4>3. \A p \in Path : Touches(added, p) /\ Beyond(mem.comps, 0, p) => base[p] = PutBack(added, p)
          BY <1>5, <1>7, <4>1, <4>2, LeftBeyond DEF PutBack
        <4>4. FoundIn(Append(mem.comps, added), base)
          BY <1>1, <4>1, <4>3, AppendedFound
        <4>5. ASSUME NEW p \in Path, p # op.target PROVE LeftAt(Append(mem.comps, added), base, fs', p)
          <5>1. ~Touches(added, p) /\ fs'[p] = fs[p] /\ LeftAt(mem.comps, base, fs, p)
            BY <3>3, <4>1, <4>2, <4>5
          <5> QED  BY <1>1, <5>1, AppendedLeft
        <4> QED  BY <4>4, <4>5
      <3>6. Replacing' /\ Quiet' = Quiet
        BY <1>1, <3>1 DEF Replacing, Quiet
      <3>7. /\ Len(mem'.comps) > 0
            /\ mem'.comps[Len(mem'.comps)] = RestoreReplaced(ReplacedBackup(cur', i'), StagedTemp(cur', i'),
                                                             op'.target, op'.expected, op'.content)
        BY <3>1, <3>4 DEF added, b
      <3>8. Quiet' =>
              /\ FoundIn(mem'.comps, base')
              /\ \A p \in Path : IF p = op'.target THEN fs'[p] = op'.expected
                                                   ELSE LeftAt(mem'.comps, base', fs', p)
              /\ \A n \in i' .. Len(plan') :
                    plan'[n].kind = "moveRecoverable" => fs'[plan'[n].target] = Missing
        <4> SUFFICES ASSUME Quiet PROVE
              /\ FoundIn(mem'.comps, base')
              /\ \A p \in Path : IF p = op'.target THEN fs'[p] = op'.expected
                                                   ELSE LeftAt(mem'.comps, base', fs', p)
              /\ \A n \in i' .. Len(plan') :
                    plan'[n].kind = "moveRecoverable" => fs'[plan'[n].target] = Missing
          BY <3>6
        <4>1. \A n \in i .. Len(plan) : plan[n].kind = "moveRecoverable" => fs[plan[n].target] = Missing
          BY <1>1 DEF Faithful, Forward
        <4>2. \A n \in i .. Len(plan) : plan[n].target \in Path
          <5>1. plan \in Seq(Operation) /\ i \in Nat \ {0}
            BY <1>2 DEF IInv, TypeOK, Plans
          <5>2. \A n \in i .. Len(plan) : n \in 1 .. Len(plan)
            BY <5>1
          <5>3. \A n \in 1 .. Len(plan) : plan[n] \in Operation
            BY <5>1
          <5> QED  BY <5>2, <5>3, OperationFormed
        <4>3. fs'[op.target] = op.expected
          BY <1>3, <1>7, <3>3
        <4> QED  BY <1>1, <3>1, <3>3, <3>5, <4>1, <4>2, <4>3
      <3>9. Forward'
        BY <3>1, <3>6, <3>7, <3>8 DEF Forward, Executing
      <3> QED  BY <3>2, <3>9 DEF Faithful
    <2> QED  BY <1>7, <2>6, <2>7
  <1> QED  BY <1>6, <1>7 DEF Stage, Persist, PersistFails, BackedUp

LEMMA PlannedTargets ==
  ASSUME IInv, pc \in Executing
  PROVE  \A n \in i .. Len(plan) : n \in 1 .. Len(plan) /\ plan[n].target \in Path
  <1>1. plan \in Seq(Operation) /\ i \in Nat \ {0}
    BY ExecutingKnown DEF IInv, TypeOK, Plans, i
  <1>2. \A n \in i .. Len(plan) : n \in 1 .. Len(plan)
    BY <1>1
  <1>3. \A n \in 1 .. Len(plan) : plan[n] \in Operation
    BY <1>1
  <1> QED  BY <1>2, <1>3, OperationFormed

(* Nothing was done where the operation was refused.                       *)
LEMMA RefusedHalfDone ==
  ASSUME IInv, Faithful, pc \in {"validate", "mutate"}, Quiet, ~IsUncompensatedCreate(op),
         ~PartialAmbiguous(op, cur, i, fs),
         op.kind = "moveRecoverable" => fs[op.target] = Missing,
         op.kind = "removeSymlink" => fs[op.target] # op.expected
  PROVE  HalfDone(op, cur, i, fs, fs)
  <1>1. op \in Operation /\ i \in 1 .. MaxOps /\ cur \in Receipt /\ i \in i .. MaxOps /\ pc \in Executing
    BY OpTyped, OwnerKnown, FileOpsAssumption DEF IInv, Working, Executing
  <1>2. CASE op.kind = "removeSymlink"
    <2>1. fs[MoveBackup(cur, i)] = Missing
      BY <1>1 DEF IInv, Working, Ahead, Empty, MoveBackup
    <2> QED  BY <1>2, <2>1 DEF PartialAmbiguous
  <1>3. CASE op.kind = "replaceFile" \/ op.kind = "moveRecoverable"
    BY <1>1, <1>3, PartialNone DEF HalfDone
  <1> QED  BY <1>1, <1>2, <1>3, KindsOfOperation

LEMMA ValidateFaithful == ASSUME IInv, Faithful, Validate PROVE Faithful'
  <1>1. /\ pc = "validate" /\ pc \in Executing /\ pc # "idle"
        /\ UNCHANGED <<fs, tracked, base>> /\ fs \in Tree
    BY ExecutingKnown DEF Validate, history, Executing
  <1>2. CASE CurrentState(op, fs) # "ok" /\ Failed(fs, FALSE)
    <2>1. op \in Operation /\ i <= Len(plan) /\ i \in Nat
      BY <1>1, OpTyped DEF IInv, Working, InStep
    <2>2. ASSUME Quiet, op.kind = "moveRecoverable" PROVE fs[op.target] = Missing
      <3>1. i \in i .. Len(plan) /\ op = plan[i]
        BY <2>1 DEF op, IInv, TypeOK, Plans
      <3> QED  BY <1>1, <2>2, <3>1 DEF Faithful, Forward
    <2>3. ASSUME op.kind = "removeSymlink" PROVE fs[op.target] # op.expected
      BY <1>2, <2>3 DEF CurrentState, Subject
    <2>4. Quiet /\ ~IsUncompensatedCreate(op) /\ ~PartialAmbiguous(op, cur, i, fs) =>
              HalfDone(op, cur, i, fs, fs)
      BY <1>1, <2>2, <2>3, RefusedHalfDone
    <2> QED  BY <1>1, <1>2, <2>4, FailedFaithful
  <1>3. CASE CurrentState(op, fs) = "ok" /\ Goto("mutate") /\ UNCHANGED <<mem, journal>>
    <2>1. /\ UNCHANGED <<mode, plan, cur, mem, k, verdict, edited, ready, journal>> /\ i' = i /\ op' = op
          /\ pc' = "mutate"
      BY <1>1, <1>3 DEF Goto, i, op
    <2>2. Recorded' /\ Running' /\ Back' /\ Ended'
      BY <1>1, <2>1, PutsMem, StillExecuting DEF Executing
    <2>3. Replacing' = Replacing /\ Quiet' = Quiet
      BY <1>1, <2>1 DEF Replacing, Quiet
    <2>4. CurrentState(op, fs)' = CurrentState(op, fs)
      BY <1>1, <2>1 DEF CurrentState, Subject
    <2>5. Forward'
      BY <1>1, <1>3, <2>1, <2>3, <2>4 DEF Faithful, Forward
    <2> QED  BY <2>2, <2>5 DEF Faithful
  <1> QED  BY <1>2, <1>3 DEF Validate

LEMMA MutateRefusedFaithful == ASSUME IInv, Faithful, MutateRefused PROVE Faithful'
  <1>1. /\ pc = "mutate" /\ UNCHANGED <<fs, tracked, base>> /\ fs \in Tree /\ Refused(op, cur, i, fs)
        /\ Failed(fs, RefusedByIdentity(op, fs))
    BY ExecutingKnown DEF MutateRefused, history, Executing
  <1>2. ASSUME Quiet, ~IsUncompensatedCreate(op)
        PROVE  /\ op.kind = "moveRecoverable" => fs[op.target] = Missing
               /\ op.kind # "removeSymlink"
    <2>1. CurrentState(op, fs) = "ok"
      BY <1>1, <1>2 DEF Faithful, Forward
    <2>2. op.kind = "moveRecoverable" => fs[op.target] = Missing
      BY <2>1 DEF CurrentState
    <2>3. op.kind = "removeSymlink" => fs[op.target] = op.expected
      BY <2>1 DEF CurrentState, Subject
    <2>4. op.kind = "removeSymlink" => fs[op.target] # op.expected
      BY <1>1, <1>2 DEF Refused
    <2> QED  BY <2>2, <2>3, <2>4
  <1>3. Quiet /\ ~IsUncompensatedCreate(op) /\ ~PartialAmbiguous(op, cur, i, fs) =>
            HalfDone(op, cur, i, fs, fs)
    BY <1>1, <1>2, RefusedHalfDone
  <1> QED  BY <1>1, <1>3, FailedFaithful

(* An operation that returns Ok.                                           *)
LEMMA ExecutedExact ==
  ASSUME NEW o \in Operation, NEW r \in Receipt, NEW j \in 1 .. MaxOps, NEW f \in Tree,
         ~Refused(o, r, j, f), o.kind # "replaceFile"
  PROVE  LET steps == ExecuteSteps(o, r, j, f)
             g == steps[Len(steps)] IN
         /\ \E c : /\ Executed(o, r, j, f, g) = <<c>> /\ Exact(c) /\ Says(c, f, g)
                   /\ \A p \in Path : Touches(c, p) => g[p] = LeftBy(c, p)
         /\ \A p \in Path : p # o.target => g[p] \in {f[p], Missing}
  <1> DEFINE steps == ExecuteSteps(o, r, j, f)
             g == steps[Len(steps)]
  <1>1. CASE IsUncompensatedCreate(o)
    <2> DEFINE c == Stash(o.target, g[o.target])
    <2>1. /\ Executed(o, r, j, f, g) = <<c>> /\ Exact(c) /\ Says(c, f, g)
          /\ \A p \in Path : Touches(c, p) => g[p] = LeftBy(c, p)
          /\ \A p \in Path : p # o.target => g[p] \in {f[p], Missing}
      BY <1>1, CreateExact
    <2> HIDE DEF c, g
    <2> QED  BY <2>1 DEF g
  <1>2. CASE o.kind = "removeSymlink"
    <2> DEFINE last == Moved(f, o.target, MoveBackup(r, j))
               c == RenameBack(MoveBackup(r, j), o.target, o.expected)
    <2>1. /\ steps = <<f, last>> /\ Executed(o, r, j, f, last) = <<c>> /\ Exact(c) /\ Says(c, f, last)
          /\ \A p \in Path : Touches(c, p) => last[p] = LeftBy(c, p)
          /\ \A p \in Path : last[p] \in {f[p], Missing}
      BY <1>2, RemoveExact
    <2> HIDE DEF c, last, steps
    <2>2. g = last
      BY <2>1
    <2> HIDE DEF g
    <2> QED  BY <2>1, <2>2 DEF g, steps
  <1>3. CASE o.kind = "moveRecoverable"
    BY <1>3, MoveExact
  <1> QED  BY <1>1, <1>2, <1>3, KindsOfOperation

(* The rest of the Plan finds its targets as vacant as before.             *)
LEMMA StillVacant ==
  ASSUME IInv, Faithful, pc = "mutate", Quiet, NEW g,
         \A p \in Path : p # op.target => g[p] \in {fs[p], Missing}
  PROVE  \A n \in i + 1 .. Len(plan) : plan[n].kind = "moveRecoverable" => g[plan[n].target] = Missing
  <1>1. pc \in Executing /\ i \in Nat \ {0} /\ i <= Len(plan) /\ Len(plan) \in Nat
    BY OpTyped DEF Executing, IInv, TypeOK, Working, InStep, Plans
  <1>2. ASSUME NEW n \in i + 1 .. Len(plan), plan[n].kind = "moveRecoverable"
            PROVE g[plan[n].target] = Missing
    <2>1. n \in i .. Len(plan) /\ n # i /\ i \in 1 .. Len(plan)
      BY <1>1
    <2>2. n \in 1 .. Len(plan) /\ plan[n].target \in Path
      BY <1>1, <2>1, PlannedTargets
    <2>3. plan[n].target # op.target
      BY <1>1, <2>1, <2>2 DEF op, Faithful, Running, DistinctTargets
    <2>4. fs[plan[n].target] = Missing
      BY <1>1, <1>2, <2>1 DEF Faithful, Forward
    <2> QED  BY <2>2, <2>3, <2>4
  <1> QED  BY <1>2

LEMMA MutateFaithful == ASSUME IInv, Faithful, Mutate PROVE Faithful'
  <1> DEFINE steps == ExecuteSteps(op, cur, i, fs)
             after == steps[Len(steps)]
             compensation == Executed(op, cur, i, fs, after)
             done == [mem EXCEPT !.done = i, !.comps = @ \o compensation]
  <1>1. /\ pc = "mutate" /\ pc \in Executing /\ ~Refused(op, cur, i, fs) /\ UNCHANGED <<tracked, base>>
        /\ mem.status = "Applying" /\ mem \in ReceiptRecord /\ pc # "idle"
        /\ mem.comps \in Seq(Compensation) /\ cur \in Receipt /\ fs \in Tree
    BY ExecutingKnown DEF Mutate, history, Executing
  <1>2. op \in Operation /\ i \in 1 .. MaxOps /\ i \in Nat /\ mem.done \in Nat /\ op.target \in Path
    BY <1>1, OpTyped, OperationFormed DEF IInv, Working
  <1>3. Len(steps) \in Nat \ {0} /\ \A s \in 1 .. Len(steps) : Kept(owed, op, cur, i, fs, steps[s])
    BY <1>1, MutateKept DEF AllKept
  <1>4. ASSUME NEW s \in 1 .. Len(steps), NEW byIdentity \in FaultByIdentity(op, s, steps),
               fs' = steps[s], Failed(steps[s], byIdentity)
        PROVE  Faithful'
    <2>1. steps[s] \in Tree
      BY <1>3 DEF Kept
    <2>2. ~IsUncompensatedCreate(op) /\ ~byIdentity => HalfDone(op, cur, i, fs, steps[s])
      <3>1. ASSUME ~byIdentity PROVE FALSE \in FaultByIdentity(op, s, steps)
        <4>1. byIdentity \in BOOLEAN
          BY <1>4, Zenon DEF FaultByIdentity
        <4> QED  BY <1>4, <3>1, <4>1
      <3> QED  BY <1>1, <1>2, <3>1, FaultExact
    <2> HIDE DEF steps
    <2> QED  BY <1>1, <1>4, <2>1, <2>2, FailedFaithful
  <1>5. CASE fs' = after /\ mem' = done /\ Goto("persist") /\ UNCHANGED <<journal, faults>>
    <2>1. /\ \/ op.kind = "replaceFile" /\ compensation = <<>>
                /\ \A p \in Path : after[p] = IF p = op.target THEN op.content ELSE fs[p]
             \/ /\ op.kind # "replaceFile"
                /\ \E c : /\ compensation = <<c>> /\ Exact(c) /\ Says(c, fs, after)
                          /\ \A p \in Path : Touches(c, p) => after[p] = LeftBy(c, p)
          /\ \A p \in Path : p # op.target => after[p] \in {fs[p], Missing}
      <3>1. CASE op.kind = "replaceFile"
        <4>1. compensation = <<>> /\ \A p \in Path : after[p] = IF p = op.target THEN op.content ELSE fs[p]
          BY <1>1, <1>2, <3>1, ReplaceExact
        <4> HIDE DEF after, compensation
        <4> QED  BY <3>1, <4>1
      <3>2. CASE op.kind # "replaceFile"
        <4>1. /\ \E c : /\ compensation = <<c>> /\ Exact(c) /\ Says(c, fs, after)
                        /\ \A p \in Path : Touches(c, p) => after[p] = LeftBy(c, p)
              /\ \A p \in Path : p # op.target => after[p] \in {fs[p], Missing}
          BY <1>1, <1>2, <3>2, ExecutedExact
        <4> HIDE DEF after, compensation
        <4> QED  BY <3>2, <4>1
      <3> QED  BY <3>1, <3>2
    <2> HIDE DEF after, compensation
    <2>2. mem'.comps = mem.comps \o compensation /\ mem'.done = i /\ mem'.status = mem.status
      BY <1>1, <1>5 DEF ReceiptRecord
    <2>3. /\ UNCHANGED <<mode, plan, cur, k, verdict, edited, ready, journal>> /\ pc' = "persist" /\
                 i' = i + 1
      BY <1>5, <2>2 DEF Goto, i
    <2>4. AllExact(mem'.comps)
      <3>1. AllExact(mem.comps)
        BY DEF Faithful, Running
      <3>2. CASE compensation = <<>>
        BY <1>1, <2>2, <3>1, <3>2, JoinedOne
      <3>3. CASE \E c : compensation = <<c>> /\ Exact(c)
        <4>1. PICK c : compensation = <<c>> /\ Exact(c)
          BY <3>3
        <4>2. mem'.comps = Append(mem.comps, c)
          BY <1>1, <2>2, <4>1, JoinedOne
        <4> QED  BY <1>1, <3>1, <4>1, <4>2, AppendedExact
      <3> QED  BY <2>1, <3>2, <3>3
    <2>5. Recorded' /\ Running' /\ Back' /\ Ended'
      <3>1. Puts(mem)
        BY <1>1, <2>3, PutsMem
      <3> QED  BY <1>1, <2>2, <2>3, <2>4, <3>1, StillExecuting DEF Executing
    <2>6. ASSUME Quiet
          PROVE  FoundIn(mem'.comps, base) /\ \A p \in Path : LeftAt(mem'.comps, base, after, p)
      <3>1. /\ FoundIn(mem.comps, base)
            /\ \A p \in Path : ~(op.kind = "replaceFile" /\ p = op.target) => LeftAt(mem.comps, base, fs, p)
        BY <1>1, <2>6 DEF Faithful, Forward, Replacing
      <3>2. CASE op.kind = "replaceFile" /\ compensation = <<>>
                 /\ \A p \in Path : after[p] = IF p = op.target THEN op.content ELSE fs[p]
        <4>1. mem'.comps = mem.comps
          BY <1>1, <2>2, <3>2, JoinedOne
        <4>2. /\ Len(mem.comps) > 0
              /\ mem.comps[Len(mem.comps)] = RestoreReplaced(ReplacedBackup(cur, i), StagedTemp(cur, i),
                                                             op.target, op.expected, op.content)
          BY <1>1, <3>2 DEF Faithful, Forward, Replacing
        <4>3. LeftAt(mem.comps, base, after, op.target)
          <5>1. Touches(mem.comps[Len(mem.comps)], op.target) /\
                    LeftBy(mem.comps[Len(mem.comps)], op.target) = op.content
            BY <4>2 DEF RestoreReplaced, Touches, LeftBy
          <5>2. Len(mem.comps) \in 1 .. Len(mem.comps) /\
                    \A m \in Len(mem.comps) + 1 .. Len(mem.comps) : FALSE
            BY <1>1, <4>2
          <5>3. FinalTouch(mem.comps, Len(mem.comps), op.target)
            BY <5>1, <5>2 DEF FinalTouch
          <5> QED  BY <1>2, <3>2, <5>1, <5>2, <5>3 DEF LeftAt
        <4>4. ASSUME NEW p \in Path, p # op.target PROVE LeftAt(mem.comps, base, after, p)
          BY <3>1, <3>2, <4>4 DEF LeftAt
        <4> QED  BY <3>1, <4>1, <4>3, <4>4
      <3>3. CASE /\ op.kind # "replaceFile"
                 /\ \E c : /\ compensation = <<c>> /\ Says(c, fs, after)
                           /\ \A p \in Path : Touches(c, p) => after[p] = LeftBy(c, p)
        <4>1. PICK c : /\ compensation = <<c>> /\ Says(c, fs, after)
                       /\ \A p \in Path : Touches(c, p) => after[p] = LeftBy(c, p)
          BY <3>3
        <4>2. mem'.comps = Append(mem.comps, c)
          BY <1>1, <2>2, <4>1, JoinedOne
        <4>3. \A p \in Path : LeftAt(mem.comps, base, fs, p)
          BY <3>1, <3>3
        <4>4. \A p \in Path : Touches(c, p) /\ Beyond(mem.comps, 0, p) => base[p] = PutBack(c, p)
          BY <4>1, <4>3, LeftBeyond DEF Says
        <4>5. FoundIn(Append(mem.comps, c), base)
          BY <1>1, <3>1, <4>4, AppendedFound
        <4>6. ASSUME NEW p \in Path PROVE LeftAt(Append(mem.comps, c), base, after, p)
          <5>1. /\ Touches(c, p) => after[p] = LeftBy(c, p)
                /\ ~Touches(c, p) => after[p] = fs[p] /\ LeftAt(mem.comps, base, fs, p)
            BY <4>1, <4>3 DEF Says
          <5> QED  BY <1>1, <5>1, AppendedLeft
        <4> QED  BY <4>2, <4>5, <4>6
      <3> QED  BY <2>1, <3>2, <3>3
    <2>7. Quiet => \A n \in i + 1 .. Len(plan) : plan[n].kind = "moveRecoverable" =>
              after[plan[n].target] = Missing
      BY <1>1, <2>1, StillVacant
    <2>8. ~Replacing' /\ Quiet' = Quiet
      BY <2>3 DEF Replacing, Quiet
    <2>9. Forward'
      BY <1>1, <1>5, <2>3, <2>6, <2>7, <2>8 DEF Forward
    <2> QED  BY <2>5, <2>9 DEF Faithful
  <1> QED  BY <1>4, <1>5 DEF Mutate

LEMMA PersistAppliedFaithful == ASSUME IInv, Faithful, PersistApplied PROVE Faithful'
  <1>1. /\ pc = "persist" /\ pc \in Executing /\ pc # "idle" /\ UNCHANGED <<fs, tracked, base>>
        /\ mem.status = "Applying" /\ mem \in ReceiptRecord
    BY ExecutingKnown DEF PersistApplied, history, Executing
  <1>2. Puts(mem) /\ AllExact(mem.comps)
    BY <1>1, PutsMem DEF PersistApplied, Persist, PersistFails
  <1>3. CASE Goto("record") /\ UNCHANGED mem
    <2>1. UNCHANGED <<mode, plan, cur, mem, k, verdict, edited, ready>> /\ i' = i /\ pc' = "record"
      BY <1>3 DEF Goto, i
    <2>2. Recorded' /\ Running' /\ Back' /\ Ended'
      BY <1>1, <1>2, <2>1, StillExecuting DEF Executing
    <2>3. ~Replacing /\ ~Replacing' /\ Quiet' = Quiet
      BY <1>1, <2>1 DEF Replacing, Quiet
    <2>4. Forward'
      BY <1>1, <2>1, <2>3 DEF Faithful, Forward
    <2> QED  BY <2>2, <2>4 DEF Faithful
  <1>4. CASE Compensate(mem, "FailedRolledBack", "salvage")
    <2>1. Quiet => FoundIn(mem.comps, base) /\ \A p \in Path : LeftAt(mem.comps, base, fs, p)
      BY <1>1 DEF Faithful, Forward, Replacing
    <2>2. Quiet => \A p \in Path : Beyond(mem.comps, 0, p) => fs'[p] = base[p]
      BY <1>1, <2>1, LeftBeyond
    <2> QED  BY <1>1, <1>2, <1>4, <2>1, <2>2, CompensateFaithful
  <1> QED  BY <1>3, <1>4 DEF PersistApplied

LEMMA ConcludeFaithful == ASSUME IInv, Faithful, Conclude PROVE Faithful'
  <1> DEFINE applied == [mem EXCEPT !.status = "Applied"]
             unsure == [mem EXCEPT !.status = "RecoveryRequired"]
  <1>1. /\ pc = "record" /\ pc \in Executing /\ pc # "idle" /\ UNCHANGED <<fs, tracked, base>>
        /\ mem.status = "Applying" /\ mem \in ReceiptRecord /\ mode = "apply" /\ AllExact(mem.comps)
        /\ verdict # "Undone"
    BY ExecutingKnown DEF Conclude, history, Executing, Faithful, Running
  <1>2. Quiet => FoundIn(mem.comps, base) /\ \A p \in Path : LeftAt(mem.comps, base, fs, p)
    BY <1>1 DEF Faithful, Forward, Replacing
  <1>3. CASE Compensate(mem, "FailedRolledBack", "apply") /\ UNCHANGED <<journal, faults>>
    <2>1. Puts(mem) /\ AllExact(mem.comps)
      BY <1>1, <1>3, PutsMem
    <2>2. Quiet => \A p \in Path : Beyond(mem.comps, 0, p) => fs'[p] = base[p]
      BY <1>1, <1>2, LeftBeyond
    <2> QED  BY <1>1, <1>2, <1>3, <2>1, <2>2, CompensateFaithful
  <1>4. CASE /\ Goto("done")
             /\ \/ Persist(applied) /\ mem' = applied
                \/ /\ Fault /\ mem' = unsure
                   /\ journal' \in {journal, [journal EXCEPT ![cur] = applied],
                          [journal EXCEPT ![cur] = unsure]}
    <2>1. /\ applied.status = "Applied" /\ applied.reverses = mem.reverses /\ applied.comps = mem.comps
          /\ unsure.status = "RecoveryRequired" /\ unsure.reverses = mem.reverses /\ unsure.comps = mem.comps
      BY <1>1 DEF ReceiptRecord
    <2> HIDE DEF applied, unsure
    <2>2. Puts(applied) \/ Puts(unsure)
      BY <1>1, <1>4, <2>1 DEF Puts, Persist
    <2>3. /\ UNCHANGED <<mode, plan, cur, k, verdict, edited, ready>> /\ pc' = "done" /\
                 mem' \in {applied, unsure}
      BY <1>4 DEF Goto
    <2>4. mem'.comps = mem.comps /\ mem'.status \in {"Applied", "RecoveryRequired"}
      BY <2>1, <2>3
    <2>5. Recorded' /\ Running'
      <3>1. base' \in [Path -> Held]
        BY <1>1 DEF Faithful, Recorded
      <3>2. pc' # "idle" /\ pc' \notin Executing /\ mode' # "undo" /\ verdict' # "Undone" /\
                mem'.status # "Undone"
        BY <1>1, <2>3, <2>4 DEF Executing
      <3>3. PICK record : Puts(record)
        BY <2>2
      <3> QED  BY <1>1, <2>3, <2>4, <3>1, <3>2, <3>3, RunningStays
    <2>6. Forward' /\ Back'
      BY <2>3 DEF Forward, Back, Executing, Compensating, Replacing
    <2>7. Ended'
      BY <1>1, <1>2, <2>3, <2>4 DEF Ended, Quiet
    <2> QED  BY <2>5, <2>6, <2>7 DEF Faithful
  <1> QED  BY <1>3, <1>4 DEF Conclude

-----------------------------------------------------------------------------
(* Compensation, step by step.                                             *)
LEMMA CompsExact ==
  ASSUME IInv, Faithful, pc \in Compensating \cup {"finish"} PROVE AllExact(Comps)
  BY OwnerKnown DEF IInv, Faithful, Recorded, Running, Comps, Compensating

LEMMA StillCompensating ==
  ASSUME IInv, Faithful, pc \in Compensating, pc' \in Compensating \cup {"finish"},
         UNCHANGED <<journal, tracked, mode, plan, cur, mem, edited, ready, base>>,
         verdict' \in {verdict, "RecoveryRequired"}
  PROVE  /\ Recorded' /\ Running' /\ Forward' /\ Ended'
         /\ Comps' = Comps /\ Owner' = Owner /\ Undoing' = Undoing /\ Quiet' = Quiet
  <1>1. pc # "idle" /\ pc' # "idle" /\ pc' \notin Executing /\ pc' # "done"
    BY DEF Compensating, Executing
  <1>2. Puts(mem) /\ AllExact(mem.comps) /\ base' \in [Path -> Held]
    BY <1>1, PutsMem DEF Faithful, Recorded
  <1>3. mode # "undo" => verdict # "Undone" /\ mem.status # "Undone"
    BY DEF Faithful, Running
  <1>4. Recorded' /\ Running'
    BY <1>1, <1>2, <1>3, RunningStays
  <1>5. Forward' /\ Ended'
    BY <1>1 DEF Forward, Ended, Executing, Replacing, Compensating
  <1>6. Comps' = Comps /\ Owner' = Owner /\ Undoing' = Undoing /\ Quiet' = Quiet
    BY DEF Comps, Owner, Undoing, Quiet
  <1> QED  BY <1>4, <1>5, <1>6

LEMMA GaveUpFaithful ==
  ASSUME IInv, Faithful, pc \in Compensating, GiveUp, UNCHANGED <<journal, tracked, base>>
  PROVE  Faithful'
  <1>1. /\ pc' = "finish" /\ k' = 0 /\ verdict' = "RecoveryRequired"
        /\ UNCHANGED <<mode, plan, cur, mem, edited, ready>>
    BY DEF GiveUp
  <1>2. Recorded' /\ Running' /\ Forward' /\ Ended'
    BY <1>1, StillCompensating
  <1>3. Back'
    BY <1>1 DEF Back
  <1> QED  BY <1>2, <1>3 DEF Faithful

LEMMA VerifyFaithful == ASSUME IInv, Faithful, Verify PROVE Faithful'
  <1>1. pc = "verify" /\ pc \in Compensating /\ UNCHANGED <<journal, tracked, base>>
    BY DEF Verify, history, Compensating
  <1>2. CASE GiveUp
    BY <1>1, <1>2, GaveUpFaithful
  <1>3. CASE CompensationOK(Comps[k], Owner, k, fs) /\ Goto("act") /\ UNCHANGED <<fs, mem>>
    <2>1. pc' = "act" /\ UNCHANGED <<fs, mode, plan, cur, mem, k, verdict, edited, ready>>
      BY <1>3 DEF Goto
    <2>2. /\ Recorded' /\ Running' /\ Forward' /\ Ended'
          /\ Comps' = Comps /\ Owner' = Owner /\ Undoing' = Undoing /\ Quiet' = Quiet
      BY <1>1, <2>1, StillCompensating DEF Compensating
    <2>3. Quiet /\ verdict # "RecoveryRequired" =>
            /\ PutBackFrom(Comps, k, Undoing, base, fs)
            /\ IF Undoing THEN Accepted(Comps, k, base) ELSE FoundIn(Comps, base)
      BY <1>1 DEF Faithful, Back
    <2>5. CompensationOK(Comps'[k'], Owner', k', fs')
      BY <1>3, <2>1, <2>2
    <2>6. Back'
      BY <1>1, <2>1, <2>2, <2>3, <2>5 DEF Back
    <2> QED  BY <2>2, <2>6 DEF Faithful
  <1> QED  BY <1>2, <1>3 DEF Verify

LEMMA ActRefusedFaithful == ASSUME IInv, Faithful, ActRefused PROVE Faithful'
  BY GaveUpFaithful DEF ActRefused, Compensating, disk, history

LEMMA ActFaithful == ASSUME IInv, Faithful, Act PROVE Faithful'
  <1> DEFINE c == Comps[k]
             steps == CompensationSteps(c, Owner, k, fs)
  <1>1. pc = "act" /\ pc \in Compensating /\ UNCHANGED <<journal, tracked, base>>
    BY DEF Act, history, Compensating
  <1>2. CASE GiveUp
    BY <1>1, <1>2, GaveUpFaithful
  <1>3. CASE fs' = steps[Len(steps)] /\ NextCompensation
    <2>1. /\ UNCHANGED <<mode, plan, cur, mem, verdict, edited, ready>> /\ k' = k - 1
          /\ pc' = IF k = 1 THEN "finish" ELSE "verify"
      BY <1>3 DEF NextCompensation
    <2>2. /\ Recorded' /\ Running' /\ Forward' /\ Ended'
          /\ Comps' = Comps /\ Owner' = Owner /\ Undoing' = Undoing /\ Quiet' = Quiet
      BY <1>1, <2>1, StillCompensating DEF Compensating
    <2>3. /\ Comps \in Seq(Compensation) /\ c \in Compensation /\ k \in 1 .. MaxOps /\ k \in 1 .. Len(Comps)
          /\ Owner \in Receipt /\ fs \in Tree /\ Exact(c)
      BY <1>1, CompensationTyped, CompsExact DEF Journaled, IInv, TypeOK, Tree, AllExact
    <2>4. Quiet /\ verdict # "RecoveryRequired" =>
            /\ PutBackFrom(Comps, k, Undoing, base, fs)
            /\ IF Undoing THEN Accepted(Comps, k, base) ELSE FoundIn(Comps, base)
            /\ CompensationOK(c, Owner, k, fs)
      BY <1>1 DEF Faithful, Back
    <2> HIDE DEF c, steps
    <2>5. ASSUME Quiet, verdict # "RecoveryRequired"
          PROVE  /\ PutBackFrom(Comps, k - 1, Undoing, base, fs')
                 /\ IF Undoing THEN Accepted(Comps, k - 1, base) ELSE FoundIn(Comps, base)
      <3>1. \A p \in Path : fs'[p] = IF Touches(c, p) THEN PutBack(c, p) ELSE fs[p]
        BY <1>3, <2>3, <2>4, <2>5, CompensateExact DEF steps
      <3>2. Undoing \in BOOLEAN /\ PutBackFrom(Comps, k, Undoing, base, fs)
        BY <2>4, <2>5 DEF Undoing
      <3>3. PutBackFrom(Comps, k - 1, Undoing, base, fs')
        BY <2>3, <3>1, <3>2, PutBackNext DEF c
      <3>4. Undoing => Accepted(Comps, k - 1, base)
        <4>1. \A p \in Path : Touches(c, p) => fs[p] \in {LeftBy(c, p), Missing, PutBack(c, p)}
          BY <2>3, <2>4, <2>5, CompensationAccepts
        <4>2. Undoing => Accepted(Comps, k, base) /\ PutBackFrom(Comps, k, TRUE, base, fs)
          BY <2>4, <2>5, <3>2
        <4> QED  BY <2>3, <4>1, <4>2, AcceptedNext DEF c
      <3> QED  BY <2>4, <2>5, <3>3, <3>4
    <2>6. Back'
      BY <2>1, <2>2, <2>3, <2>5, <1>1 DEF Back
    <2> QED  BY <2>2, <2>6 DEF Faithful
  <1> QED  BY <1>2, <1>3 DEF Act

(* Everything put back is as it was.                                       *)
LEMMA AllPutBack ==
  ASSUME NEW S, NEW s \in Seq(S), NEW t, NEW f, PutBackFrom(s, 0, FALSE, t, f), FoundIn(s, t)
  PROVE  \A p \in Path : f[p] = t[p]
  <1>1. ASSUME NEW p \in Path, NEW j \in 1 .. Len(s), NEW m \in 1 .. Len(s), Touch(s, 0, j, p),
            Touch(s, 0, m, p)
        PROVE  j = m
    <2>1. j < m => j \in 0 + 1 .. m - 1
      OBVIOUS
    <2>2. m < j => m \in 0 + 1 .. j - 1
      OBVIOUS
    <2> QED  BY <1>1, <2>1, <2>2 DEF Touch
  <1>2. ASSUME NEW p \in Path PROVE f[p] = t[p]
    <2>1. CASE Beyond(s, 0, p)
      <3>1. \A j : ~Touch(s, 0, j, p)
        BY <2>1 DEF Touch, Beyond
      <3> QED  BY <2>1, <3>1 DEF PutBackFrom
    <2>2. CASE ~Beyond(s, 0, p)
      <3>1. PICK j \in 1 .. Len(s) : Touch(s, 0, j, p) /\ f[p] = PutBack(s[j], p)
        BY <2>2 DEF PutBackFrom
      <3>2. PICK m \in 1 .. Len(s) : Touch(s, 0, m, p) /\ t[p] = PutBack(s[m], p)
        BY <2>2 DEF FoundIn
      <3> QED  BY <1>1, <3>1, <3>2
    <2> QED  BY <2>1, <2>2
  <1> QED  BY <1>2

LEMMA FinishFaithful == ASSUME IInv, Faithful, Finish PROVE Faithful'
  <1> DEFINE finished == [mem EXCEPT !.status = verdict]
  <1>1. /\ pc = "finish" /\ pc # "idle" /\ pc \notin Executing /\ UNCHANGED <<fs, tracked, base>>
        /\ mem \in ReceiptRecord /\ AllExact(mem.comps) /\ k = 0
    BY DEF Finish, history, Executing, IInv, TypeOK, Faithful, Running, Back
  <1>2. finished.status = verdict /\ finished.reverses = mem.reverses /\ finished.comps = mem.comps
    BY <1>1 DEF ReceiptRecord
  <1> HIDE DEF finished
  <1>3. Puts(finished)
    BY <1>1, <1>2 DEF Puts, Finish, Persist, PersistFails, finished
  <1>4. CASE Stop
    BY <1>1, <1>3, <1>4, StopFaithful
  <1>5. CASE mem' = finished /\ Goto("done")
    <2>1. UNCHANGED <<mode, plan, cur, k, verdict, edited, ready>> /\ pc' = "done" /\ mem' = finished
      BY <1>5 DEF Goto
    <2>2. mode # "undo" => verdict # "Undone"
      BY DEF Faithful, Running
    <2>3. base' \in [Path -> Held] /\ pc' # "idle" /\ pc' \notin Executing
      BY <1>1, <2>1 DEF Faithful, Recorded, Executing
    <2>4. Recorded' /\ Running'
      BY <1>1, <1>2, <1>3, <2>1, <2>2, <2>3, RunningStays
    <2>5. Forward' /\ Back'
      BY <2>1 DEF Forward, Back, Executing, Compensating, Replacing
    <2>6. /\ Comps \in Seq(Compensation) /\ verdict \in {"FailedRolledBack", "RecoveryRequired", "Undone"}
          /\ mode = "undo" => verdict \in {"RecoveryRequired", "Undone"}
      BY <1>1, OwnerKnown DEF IInv, TypeOK, ReceiptRecord, Journaled, Comps, Working, Busy, Returning
    <2>7. ASSUME Quiet, verdict = "FailedRolledBack" PROVE \A p \in Path : fs[p] = base[p]
      <3>1. Undoing = FALSE
        BY <2>6, <2>7 DEF Undoing
      <3>2. PutBackFrom(Comps, 0, FALSE, base, fs) /\ FoundIn(Comps, base)
        BY <1>1, <2>7, <3>1 DEF Faithful, Back
      <3> QED  BY <2>6, <3>2, AllPutBack
    <2>8. ASSUME Quiet, verdict = "Undone"
          PROVE  PutBackFrom(Comps, 0, TRUE, base, fs) /\ Accepted(Comps, 0, base)
      <3>1. Undoing = TRUE
        BY <2>2, <2>8 DEF Undoing
      <3> QED  BY <1>1, <2>8, <3>1 DEF Faithful, Back
    <2>9. verdict = "Undone" => Comps' = Comps
      <3>1. mem'.reverses = mem.reverses
        BY <1>2, <2>1
      <3>2. mode = "undo" => journal'[mem.reverses] = journal[mem.reverses]
        BY <1>1, <1>3, OwnerKnown DEF IInv, TypeOK, Puts
      <3> QED  BY <2>1, <2>2, <3>1, <3>2 DEF Comps
    <2>10. Ended'
      BY <1>1, <1>2, <2>1, <2>6, <2>7, <2>8, <2>9 DEF Ended, Quiet
    <2> QED  BY <2>4, <2>5, <2>10 DEF Faithful
  <1> QED  BY <1>4, <1>5 DEF Finish, finished

-----------------------------------------------------------------------------
(* The end of a command, and what may come between two of them.            *)
LEMMA MetadataFailsFaithful == ASSUME IInv, Faithful, MetadataFails PROVE Faithful'
  <1>1. /\ pc = "done" /\ pc # "idle" /\ mem.status = "Applied" /\ UNCHANGED <<fs, journal, tracked, base>>
        /\ mode' = "rollback" /\ verdict' = "FailedRolledBack" /\ CompensateFrom(mem.comps)
        /\ UNCHANGED <<plan, cur, mem, edited, ready>> /\ mem.comps \in Seq(Compensation)
    BY DEF MetadataFails, disk, history, IInv, TypeOK, ReceiptRecord, Journaled
  <1>2. k' = Len(mem.comps) /\ pc' = IF mem.comps = <<>> THEN "finish" ELSE "verify"
    BY <1>1 DEF CompensateFrom
  <1>3. Recorded' /\ Running'
    <2>1. Puts(mem) /\ AllExact(mem.comps) /\ base' \in [Path -> Held]
      BY <1>1, PutsMem DEF Faithful, Recorded
    <2>2. pc' # "idle" /\ pc' \notin Executing /\ mode' # "undo" /\ verdict' # "Undone" /\
              mem'.status # "Undone"
      BY <1>1, <1>2 DEF Executing
    <2> QED  BY <1>1, <2>1, <2>2, RunningStays
  <1>4. Forward' /\ Ended'
    BY <1>2 DEF Forward, Ended, Executing, Replacing
  <1>5. Comps' = mem.comps /\ Undoing' = FALSE /\ Quiet' = Quiet
    BY <1>1 DEF Comps, Undoing, Quiet
  <1>6. Quiet => PutBackFrom(mem.comps, Len(mem.comps), FALSE, base, fs) /\ FoundIn(mem.comps, base)
    <2>1. ASSUME Quiet PROVE FoundIn(mem.comps, base) /\ \A p \in Path : LeftAt(mem.comps, base, fs, p)
      BY <1>1, <2>1 DEF Faithful, Ended
    <2>2. ASSUME Quiet PROVE \A p \in Path : Beyond(mem.comps, 0, p) => fs[p] = base[p]
      BY <2>1, <2>2, LeftBeyond
    <2> QED  BY <1>1, <2>1, <2>2, PutBackBegins
  <1>7. Back'
    <2>1. pc' = "finish" => k' = 0
      BY <1>1, <1>2
    <2>2. Quiet' => PutBackFrom(Comps', k', Undoing', base', fs') /\ FoundIn(Comps', base')
      BY <1>1, <1>2, <1>5, <1>6
    <2> QED  BY <1>2, <1>5, <2>1, <2>2 DEF Back
  <1> QED  BY <1>3, <1>4, <1>7 DEF Faithful

LEMMA RestorationFailsFaithful == ASSUME IInv, Faithful, RestorationFails PROVE Faithful'
  <1>1. /\ pc = "done" /\ pc # "idle" /\ mem \in ReceiptRecord
        /\ UNCHANGED <<fs, journal, tracked, base, ready, pc, mode, plan, cur, k, verdict, edited>>
        /\ mem' = [mem EXCEPT !.status = "RecoveryRequired"]
    BY DEF RestorationFails, disk, history, IInv, TypeOK
  <1>2. mem'.status = "RecoveryRequired" /\ mem'.reverses = mem.reverses /\ mem'.comps = mem.comps
    BY <1>1 DEF ReceiptRecord
  <1>3. Recorded' /\ Running'
    <2>1. Puts(mem) /\ AllExact(mem.comps) /\ base' \in [Path -> Held]
      BY <1>1, PutsMem DEF Faithful, Recorded
    <2>2. mode # "undo" => verdict # "Undone"
      BY DEF Faithful, Running
    <2> QED  BY <1>1, <1>2, <2>1, <2>2, RunningStays DEF Executing
  <1>4. Forward' /\ Back' /\ Ended'
    BY <1>1, <1>2 DEF Forward, Back, Ended, Executing, Compensating, Replacing
  <1> QED  BY <1>3, <1>4 DEF Faithful

LEMMA FinalizeFaithful == ASSUME IInv, Faithful, Finalize PROVE Faithful'
  <1>1. /\ pc = "done" /\ pc # "idle" /\ Stop /\ base' = base /\ tracked' \in {tracked, tracked \cup {cur}}
        /\ journal' \in {journal, [journal EXCEPT ![cur] = mem]}
    BY DEF Finalize, history, Persist, PersistFails
  <1>2. Puts(mem)
    BY <1>1, PutsMem
  <1> QED  BY <1>1, <1>2, StopFaithful

LEMMA CrashFaithful == ASSUME IInv, Faithful, Crash PROVE Faithful'
  <1>1. pc # "idle" /\ Stop /\ UNCHANGED <<journal, tracked, base>>
    BY DEF Crash, history
  <1>2. Puts(mem)
    BY <1>1, PutsMem
  <1> QED  BY <1>1, <1>2, StopFaithful

LEMMA UserEditFaithful ==
  ASSUME IInv, Faithful, NEW p \in Path, NEW c \in Foreign \cup {Missing}, UserEdit(p, c) PROVE Faithful'
  <1>1. /\ UNCHANGED <<journal, tracked, ready, pc, mode, plan, cur, mem, k, verdict>>
        /\ base' = [base EXCEPT ![p] = c] /\ c \in Held
        /\ edited' = IF pc = "idle" THEN {} ELSE edited \cup {p}
    BY ChangeEngineAssumption DEF UserEdit, Held
  <1>2. Recorded'
    BY <1>1 DEF Faithful, Recorded, Committed
  <1>3. Running'
    BY <1>1 DEF Faithful, Running, Issue, Pending, Quiet
  <1>4. (pc # "idle" => ~Quiet') /\ Replacing' = Replacing /\ i' = i /\ op' = op
    BY <1>1 DEF Quiet, Replacing, i, op
  <1>5. Forward'
    BY <1>1, <1>4 DEF Faithful, Forward, Executing
  <1>6. Back' /\ Ended'
    BY <1>1, <1>4 DEF Faithful, Back, Ended, Compensating
  <1> QED  BY <1>2, <1>3, <1>5, <1>6 DEF Faithful

(* Between commands.                                                       *)
LEMMA AtIdleFaithful ==
  ASSUME Recorded', Faithful, pc = "idle", UNCHANGED command PROVE Faithful'
  <1>1. UNCHANGED <<pc, mode, mem, verdict, edited>>
    BY DEF command
  <1>2. Running'
    BY <1>1 DEF Faithful, Running, Quiet, Executing
  <1>3. Forward' /\ Back' /\ Ended'
    BY <1>1 DEF Forward, Back, Ended, Executing, Compensating, Replacing
  <1> QED  BY <1>2, <1>3 DEF Faithful

LEMMA BoundDistinct ==
  ASSUME TypeOK, NEW t \in Template, DistinctTargets(t) PROVE DistinctTargets(Bound(t, fs))
  <1>1. Bound(t, fs) \in Plans
    BY PlansBound
  <1>2. DOMAIN Bound(t, fs) = 1 .. Len(t) /\ \A n \in 1 .. Len(t) : Bound(t, fs)[n].target = t[n].target
    BY DEF Bound
  <1>3. 1 .. Len(Bound(t, fs)) = 1 .. Len(t)
    BY <1>1, <1>2 DEF Plans
  <1> QED  BY <1>2, <1>3 DEF DistinctTargets

LEMMA PrepareFaithful == ASSUME IInv, Faithful, NEW t \in Template, Prepare(t) PROVE Faithful'
  <1>1. /\ pc = "idle" /\ UNCHANGED <<disk, command, history>> /\ ready' = ready \cup {Bound(t, fs)}
        /\ DistinctTargets(Bound(t, fs))
    BY BoundDistinct DEF Prepare, IInv
  <1>2. Recorded'
    BY <1>1 DEF Faithful, Recorded, Committed, disk, history
  <1> QED  BY <1>1, <1>2, AtIdleFaithful

(* A command begins where nothing is pending.                              *)
LEMMA BeginRecorded ==
  ASSUME IInv, Faithful, pc = "idle", NEW r \in Receipt, Unused(r), NEW x \in Receipt \cup {NoReceipt},
         x # NoReceipt => Committed(x), journal' \in {journal, [journal EXCEPT ![r] = Fresh(x)]},
         UNCHANGED tracked, base' = Governed(fs), ready' \subseteq ready
  PROVE  Recorded' /\ \A u \in Receipt \ {r} : journal'[u] = journal[u]
  <1>1. journal \in [Receipt -> ReceiptRecord] /\ fs \in Tree
    BY DEF IInv, TypeOK, Tree
  <1>2. /\ \A u \in Receipt \ {r} : journal'[u] = journal[u]
        /\ journal'[r] \in {journal[r], Fresh(x)}
    BY <1>1
  <1>3. Fresh(x).reverses = x /\ AllExact(Fresh(x).comps)
    BY DEF Fresh, AllExact
  <1>4. base' \in [Path -> Held]
    BY <1>1 DEF Governed, Tree, Loc
  <1>5. \A u \in Receipt : Committed(u) => u # r /\ Committed(u)'
    BY <1>2 DEF Committed, Unused
  <1>6. \A u \in Receipt : journal'[u].reverses \in Receipt \cup {NoReceipt}
    BY <1>1, <1>2, <1>3 DEF ReceiptRecord
  <1>7. \A u \in Receipt : journal'[u].reverses # NoReceipt => Committed(journal'[u].reverses)
    BY <1>2, <1>3 DEF Faithful, Recorded
  <1>8. \A u \in Receipt : journal'[u].reverses # NoReceipt =>
            journal'[journal'[u].reverses].status = "Applied" /\ journal'[u].reverses \in tracked'
    BY <1>5, <1>6, <1>7 DEF Committed
  <1>9. \A u \in Receipt : AllExact(journal'[u].comps)
    BY <1>2, <1>3 DEF Faithful, Recorded
  <1>10. \A ops \in ready' : DistinctTargets(ops)
    BY DEF Faithful, Recorded
  <1> QED  BY <1>2, <1>4, <1>8, <1>9, <1>10 DEF Recorded, Committed

LEMMA BeginApplyFaithful ==
  ASSUME IInv, Faithful, NEW r \in Receipt, NEW ops \in ready, BeginApply(r, ops) PROVE Faithful'
  <1>1. /\ pc = "idle" /\ Unused(r) /\ Clear /\ SequenceOK(ops, fs) /\ UNCHANGED <<fs, tracked>>
        /\ journal' \in {journal, [journal EXCEPT ![r] = Fresh(NoReceipt)]}
        /\ base' = Governed(fs) /\ ready' \subseteq ready /\ Quiet
    BY DEF BeginApply, Faithful, Running
  <1>2. Recorded' /\ \A u \in Receipt \ {r} : journal'[u] = journal[u]
    BY <1>1, BeginRecorded
  <1>3. CASE UNCHANGED command
    BY <1>1, <1>2, <1>3, AtIdleFaithful
  <1>4. CASE /\ mem' = Fresh(NoReceipt) /\ cur' = r /\ plan' = ops /\ pc' = "record"
             /\ UNCHANGED <<mode, k, verdict, edited>>
    <2>1. mem'.done = 0 /\ mem'.status = "Applying" /\ mem'.comps = <<>> /\ i' = 1 /\ AllExact(mem'.comps)
      BY <1>4 DEF Fresh, i, AllExact
    <2>2. mode = "apply" /\ mode' = "apply" /\ verdict' # "Undone"
      BY <1>1, <1>4 DEF IInv, Working, Busy, Faithful, Running
    <2>3. \A u \in Receipt \ {r} : ~Issue(u)'
      BY <1>1, <1>2 DEF Clear, Issue, Pending
    <2>4. DistinctTargets(plan')
      BY <1>4 DEF Faithful, Recorded
    <2>5. Running'
      BY <1>4, <2>1, <2>2, <2>3, <2>4 DEF Running, DistinctTargets
    <2>6. FoundIn(mem'.comps, base') /\ \A p \in Path : LeftAt(mem'.comps, base', fs', p)
      <3>1. \A p \in Path : Beyond(<<>>, 0, p) /\ base'[p] = fs'[p]
        BY <1>1 DEF Beyond, Governed
      <3> QED  BY <2>1, <3>1 DEF FoundIn, LeftAt
    <2>7. ASSUME NEW n \in 1 .. Len(ops), ops[n].kind = "moveRecoverable" PROVE fs[ops[n].target] = Missing
      <3>1. ProjectedStateOK(ops, n, fs)
        BY <1>1 DEF SequenceOK
      <3>2. CurrentState(ops[n], fs) = "ok"
        BY <2>7, <3>1 DEF ProjectedStateOK
      <3> QED  BY <2>7, <3>2 DEF CurrentState
    <2>8. Forward'
      BY <1>1, <1>4, <2>1, <2>6, <2>7 DEF Forward, Replacing
    <2>9. Back' /\ Ended'
      BY <1>4 DEF Back, Ended, Compensating
    <2> QED  BY <1>2, <2>5, <2>8, <2>9 DEF Faithful
  <1> QED  BY <1>3, <1>4 DEF BeginApply

LEMMA BeginUndoFaithful ==
  ASSUME IInv, Faithful, NEW r \in Receipt, NEW orig \in Receipt, BeginUndo(r, orig) PROVE Faithful'
  <1>1. /\ pc = "idle" /\ Unused(r) /\ Clear /\ Undoable(orig) /\ UNCHANGED <<fs, tracked, ready>> /\ orig # r
        /\ journal' \in {journal, [journal EXCEPT ![r] = Fresh(orig)]}
        /\ base' = Governed(fs) /\ Quiet
    BY DEF BeginUndo, Faithful, Running, Undoable, Unused
  <1>2. Recorded' /\ \A u \in Receipt \ {r} : journal'[u] = journal[u]
    BY <1>1, BeginRecorded DEF Undoable, Committed
  <1>3. CASE UNCHANGED command
    BY <1>1, <1>2, <1>3, AtIdleFaithful
  <1>4. CASE /\ cur' = r /\ mode' = "undo" /\ mem' = Fresh(orig) /\ verdict' = "Undone"
             /\ CompensateFrom(journal[orig].comps) /\ UNCHANGED <<plan, edited>>
    <2> DEFINE comps == journal[orig].comps
    <2>1. mem'.reverses = orig /\ mem'.comps = <<>> /\ mem'.status = "Applying" /\ AllExact(mem'.comps)
      BY <1>4 DEF Fresh, AllExact
    <2>2. k' = Len(comps) /\ pc' \in {"finish", "verify"} /\ (pc' = "finish" => comps = <<>>)
      BY <1>4 DEF CompensateFrom
    <2>3. \A u \in Receipt \ {r} : ~Issue(u)'
      BY <1>1, <1>2 DEF Clear, Issue, Pending
    <2>4. \A u \in Receipt \ {r} : ~(journal'[u].reverses = orig /\ journal'[u].status = "Undone")
      BY <1>1, <1>2 DEF Undoable, Reversed
    <2>5. Running'
      BY <1>4, <2>1, <2>2, <2>3, <2>4 DEF Running, Executing
    <2>6. Comps' = comps /\ Undoing' = TRUE /\ comps \in Seq(Compensation)
      BY <1>1, <1>2, <1>4, <2>1 DEF Comps, Undoing, IInv, TypeOK, ReceiptRecord, Journaled
    <2>7. PutBackFrom(comps, Len(comps), TRUE, base', fs') /\ Accepted(comps, Len(comps), base')
      <3>1. \A p \in Path : base'[p] = fs'[p]
        BY <1>1 DEF Governed
      <3> HIDE DEF comps
      <3> QED  BY <2>6, <3>1, PutBackBegins
    <2>8. Back'
      <3>1. pc' = "finish" => k' = 0
        BY <2>2
      <3> HIDE DEF comps
      <3> QED  BY <2>2, <2>6, <2>7, <3>1 DEF Back
    <2>9. Forward' /\ Ended'
      BY <2>2 DEF Forward, Ended, Executing, Replacing
    <2> QED  BY <1>2, <2>5, <2>8, <2>9 DEF Faithful
  <1> QED  BY <1>3, <1>4 DEF BeginUndo

LEMMA InitFaithful == Init => Faithful
  <1> SUFFICES ASSUME Init PROVE Faithful
    OBVIOUS
  <1>1. Recorded
    BY AbsentExact, ChangeEngineAssumption DEF Init, Recorded, Absent
  <1>2. Running /\ Forward /\ Back /\ Ended
    BY AbsentExact DEF Init, Running, Forward, Back, Ended, Executing, Compensating, Replacing, Quiet
  <1> QED  BY <1>1, <1>2 DEF Faithful

LEMMA StutterFaithful == ASSUME Faithful, UNCHANGED vars PROVE Faithful'
  <1>1. UNCHANGED <<fs, journal, tracked, ready, pc, mode, plan, cur, mem, k, verdict, edited, base>>
    BY DEF vars, disk, command, history
  <1>2. /\ i' = i /\ op' = op /\ Comps' = Comps /\ Owner' = Owner /\ Undoing' = Undoing /\ Quiet' = Quiet
        /\ Replacing' = Replacing
    BY <1>1 DEF i, op, Comps, Owner, Undoing, Quiet, Replacing
  <1>3. Recorded' /\ Running'
    BY <1>1, <1>2 DEF Faithful, Recorded, Running, Committed, Issue, Pending
  <1>4. Forward' /\ Back' /\ Ended'
    BY <1>1, <1>2 DEF Faithful, Forward, Back, Ended
  <1> QED  BY <1>3, <1>4 DEF Faithful

LEMMA NextFaithful == IInv /\ Faithful /\ [Next]_vars => Faithful'
  <1> SUFFICES ASSUME IInv, Faithful, [Next]_vars PROVE Faithful'
    OBVIOUS
  <1>1. CASE Command
    BY <1>1, RecordFaithful, StageFaithful, ValidateFaithful, MutateFaithful, MutateRefusedFaithful,
       PersistAppliedFaithful, ConcludeFaithful, MetadataFailsFaithful, RestorationFailsFaithful,
       VerifyFaithful, ActRefusedFaithful, ActFaithful, FinishFaithful, FinalizeFaithful DEF Command
  <1> QED  BY <1>1, StutterFaithful, PrepareFaithful, BeginApplyFaithful, BeginUndoFaithful, CrashFaithful,
              UserEditFaithful DEF Next

(* What a command has recorded is true of the paths it has changed: nothing*)
(* was touched that no compensation names, each holds what the Plan or the *)
(* Undo left there, and where it is to be put back it still holds what the *)
(* compensation expects.                                                   *)
THEOREM CommandsAreFaithful == Spec => []Faithful
  BY InitFaithful, NextFaithful, EngineInvariant, PTL DEF Spec

-----------------------------------------------------------------------------
(* Every step of the engine is a step of AtomicChange, or none.            *)
Entry(r) ==
    IF Committed(r)
    THEN [before |-> Before(journal[r].comps), after |-> After(journal[r].comps),
          found |-> Found(journal[r].comps), live |-> Live(r)]
    ELSE [before |-> <<>>, after |-> <<>>, found |-> <<>>, live |-> FALSE]
AsTree == IF pc = "idle" /\ Clear THEN Governed(fs) ELSE base
AsLog == [r \in Receipt |-> Entry(r)]
AsBlocked == pc = "idle" /\ ~Clear
AsRaced == edited # {}

LEMMA AbstractVariables ==
  /\ Atomic!vars = <<AsTree, AsLog, AsBlocked, AsRaced>>
  /\ Atomic!vars' = <<AsTree', AsLog', AsBlocked', AsRaced'>>
  BY DEF Atomic!vars, AsTree, AsLog, AsBlocked, AsRaced, Entry

LEMMA BlockStep ==
  ASSUME AsBlocked', UNCHANGED <<AsTree, AsLog, AsRaced>> PROVE Atomic!Block
  BY DEF Atomic!Block, AsTree, AsLog, AsBlocked, AsRaced, Entry

LEMMA EndRacedStep ==
  ASSUME AsRaced, ~AsRaced', NEW r \in Receipt,
         \A s \in Receipt \ {r} : AsLog'[s].before = AsLog[s].before
  PROVE  Atomic!EndRaced
  BY DEF Atomic!EndRaced, AsTree, AsLog, AsBlocked, AsRaced, Entry

LEMMA DisturbStep ==
  ASSUME NEW p \in Path, NEW c \in Held, AsTree' = [AsTree EXCEPT ![p] = c],
         AsRaced' \in {AsRaced, TRUE}, UNCHANGED <<AsLog, AsBlocked>>
  PROVE  Atomic!Disturb(p)
  BY DEF Atomic!Disturb, AsTree, AsLog, AsBlocked, AsRaced, Entry

LEMMA CommitStep ==
  ASSUME NEW r \in Receipt,
         ~AsBlocked, AsLog[r] = Atomic!NoEntry,
         AsLog' = [AsLog EXCEPT ![r] = AsLog'[r]], AsLog'[r].live,
         DOMAIN AsLog'[r].before = DOMAIN AsLog'[r].after,
         \A p \in DOMAIN AsLog'[r].before : AsLog'[r].before[p] \in AsLog'[r].found[p],
         \A p \in DOMAIN AsLog'[r].before : AsTree[p] = AsLog'[r].before[p],
         AsTree' = [p \in Path |-> IF p \in DOMAIN AsLog'[r].after THEN AsLog'[r].after[p] ELSE AsTree[p]],
         UNCHANGED <<AsBlocked, AsRaced>>
  PROVE  Atomic!Commit(r)
  <1>1. Atomic!Holds(AsTree, AsLog'[r].before)
    BY DEF Atomic!Holds
  <1>2. AsTree' = Atomic!Overlay(AsTree, AsLog'[r].after)
    BY DEF Atomic!Overlay
  <1> QED  BY <1>1, <1>2, Zenon DEF Atomic!Commit, AsTree, AsLog, AsBlocked, AsRaced, Entry

LEMMA RevertStep ==
  ASSUME NEW r \in Receipt, ~AsBlocked, AsLog[r].live,
         \A p \in DOMAIN AsLog[r].after : AsTree[p] \in {AsLog[r].after[p], Missing} \cup AsLog[r].found[p],
         AsTree' = [p \in Path |-> IF p \in DOMAIN AsLog[r].before THEN AsLog[r].before[p] ELSE AsTree[p]],
         AsLog' = [AsLog EXCEPT ![r].live = FALSE], UNCHANGED <<AsBlocked, AsRaced>>
  PROVE  Atomic!Revert(r)
  BY DEF Atomic!Revert, Atomic!Overlay, AsTree, AsLog, AsBlocked, AsRaced, Entry

(* What a Receipt is remembered as depends on SQLite's rows alone.         *)
LEMMA EntryStays ==
  ASSUME NEW r \in Receipt, journal'[r].comps = journal[r].comps \/ ~Committed(r),
      Committed(r)' = Committed(r),
         Live(r)' = Live(r)
  PROVE  Entry(r)' = Entry(r)
  BY DEF Entry

LEMMA LogStays ==
  ASSUME TypeOK, tracked' = tracked, \A r \in tracked : journal'[r] = journal[r]
  PROVE  AsLog' = AsLog
  <1>1. \A r \in Receipt : Committed(r)' = Committed(r)
    BY DEF Committed
  <1>2. \A r \in Receipt : Live(r)' = Live(r)
    BY DEF Live
  <1>3. \A r \in Receipt : journal'[r] = journal[r] \/ ~Committed(r)
    BY DEF Committed
  <1>4. \A r \in Receipt : Entry(r)' = Entry(r)
    BY <1>1, <1>2, <1>3 DEF Entry
  <1> QED  BY <1>4 DEF AsLog

OwnJournal == \A r \in Receipt \ {cur} : journal'[r] = journal[r]

LEMMA CommandLogStays ==
  ASSUME IInv, pc # "idle", OwnJournal, tracked' = tracked
  PROVE  AsLog' = AsLog
  <1>1. \A r \in tracked : journal'[r] = journal[r]
    BY OwnerKnown DEF IInv, TypeOK, OwnJournal
  <1> QED  BY <1>1, LogStays DEF IInv

(* Inside a command nothing is seen of it.                                 *)
LEMMA InsideCommand ==
  ASSUME IInv, pc # "idle", pc' # "idle", UNCHANGED <<tracked, base, edited>>, OwnJournal
  PROVE  UNCHANGED Atomic!vars
  <1>1. AsLog' = AsLog
    BY CommandLogStays
  <1>2. UNCHANGED <<AsTree, AsBlocked, AsRaced>>
    BY DEF AsTree, AsBlocked, AsRaced
  <1> QED  BY <1>1, <1>2, AbstractVariables

(* One that returns without a row blocks the next: its journal says so.    *)
LEMMA CutShort ==
  ASSUME IInv, pc # "idle", Stop, UNCHANGED <<tracked, base>>, OwnJournal,
         journal'[cur].status # "Absent"
  PROVE  Atomic!ANext
  <1>1. AsLog' = AsLog
    BY CommandLogStays
  <1>2. cur \in Receipt /\ cur \notin tracked
    BY OwnerKnown DEF IInv
  <1>3. AsBlocked'
    BY <1>2 DEF Stop, AsBlocked, Clear, Issue
  <1>4. AsTree' = AsTree
    BY <1>2, <1>3 DEF AsTree, AsBlocked
  <1>5. CASE edited = {}
    <2>1. UNCHANGED AsRaced
      BY <1>5 DEF AsRaced, Stop
    <2> QED  BY <1>1, <1>3, <1>4, <2>1, BlockStep DEF Atomic!ANext
  <1>6. CASE edited # {}
    <2>1. AsRaced /\ ~AsRaced'
      BY <1>6 DEF AsRaced, Stop
    <2>2. Atomic!EndRaced
      BY <1>1, <1>2, <2>1, EndRacedStep
    <2> QED  BY <2>2 DEF Atomic!ANext
  <1> QED  BY <1>5, <1>6

(* A command begins: what the paths hold is from now on `base`.            *)
LEMMA BeginStep ==
  ASSUME IInv, Faithful, pc = "idle", Clear, NEW r \in Receipt, Unused(r), UNCHANGED <<fs, tracked, edited>>,
         base' = Governed(fs), \A s \in Receipt \ {r} : journal'[s] = journal[s]
  PROVE  [Atomic!ANext]_(Atomic!vars)
  <1>1. r \notin tracked
    BY DEF IInv, AtRest, Unused
  <1>2. AsLog' = AsLog
    BY <1>1, LogStays DEF IInv, TypeOK
  <1>3. AsTree = Governed(fs) /\ AsTree' = Governed(fs)
    BY DEF AsTree, Governed
  <1>4. ~AsBlocked /\ AsRaced' = AsRaced
    BY DEF AsBlocked, AsRaced
  <1>5. CASE AsBlocked'
    <2>1. Atomic!Block
      BY <1>2, <1>3, <1>4, <1>5, BlockStep
    <2> QED  BY <2>1 DEF Atomic!ANext
  <1>6. CASE ~AsBlocked'
    <2>1. AsBlocked' = AsBlocked
      BY <1>4, <1>6 DEF AsBlocked
    <2>2. UNCHANGED Atomic!vars
      BY <1>2, <1>3, <1>4, <2>1, AbstractVariables
    <2> QED  BY <2>2
  <1> QED  BY <1>5, <1>6

LEMMA UserEditSeen ==
  ASSUME IInv, Faithful, NEW p \in Path, NEW c \in Foreign \cup {Missing}, UserEdit(p, c)
  PROVE  Atomic!ANext
  <1>1. /\ UNCHANGED <<journal, tracked, pc>> /\ fs' = [fs EXCEPT ![p] = c] /\ base' = [base EXCEPT ![p] = c]
        /\ edited' = (IF pc = "idle" THEN {} ELSE edited \cup {p}) /\ c \in Held
    BY ChangeEngineAssumption DEF UserEdit, Held
  <1>2. AsLog' = AsLog
    BY <1>1, LogStays DEF IInv
  <1>3. Clear' = Clear /\ AsBlocked' = AsBlocked
    BY <1>1 DEF Clear, Issue, Pending, AsBlocked
  <1>4. Governed(fs)' = [Governed(fs) EXCEPT ![p] = c]
    BY <1>1, HiddenNotPath DEF Governed, IInv, TypeOK, Loc
  <1>5. AsTree' = [AsTree EXCEPT ![p] = c]
    BY <1>1, <1>3, <1>4 DEF AsTree
  <1>6. AsRaced' \in {AsRaced, TRUE}
    BY <1>1 DEF AsRaced, Faithful, Running, Quiet
  <1>7. Atomic!Disturb(p)
    BY <1>1, <1>2, <1>3, <1>5, <1>6, DisturbStep
  <1> QED  BY <1>7 DEF Atomic!ANext

LEMMA NothingSeen ==
  ASSUME TypeOK, UNCHANGED <<disk, command, base>>
  PROVE  UNCHANGED Atomic!vars
  <1>1. UNCHANGED <<fs, journal, tracked, pc, edited, base>>
    BY DEF disk, command
  <1>2. AsLog' = AsLog
    BY <1>1, LogStays
  <1>3. Clear' = Clear
    BY <1>1 DEF Clear, Issue, Pending
  <1>4. AsTree' = AsTree
    BY <1>1, <1>3 DEF AsTree, Governed
  <1>5. AsBlocked' = AsBlocked /\ AsRaced' = AsRaced
    BY <1>1, <1>3 DEF AsBlocked, AsRaced
  <1>6. UNCHANGED <<AsTree, AsLog, AsBlocked, AsRaced>>
    BY <1>2, <1>4, <1>5
  <1> QED  BY <1>6, AbstractVariables

(* The command's last step: it has a row in SQLite.                        *)
LEMMA FinalJournal ==
  ASSUME IInv, Faithful, pc = "done", journal' = [journal EXCEPT ![cur] = mem],
      tracked' = tracked \cup {cur}, Stop
  PROVE  /\ cur \in Receipt /\ cur \notin tracked /\ journal'[cur] = mem
         /\ \A s \in Receipt \ {cur} : journal'[s] = journal[s] /\ Committed(s)' = Committed(s)
         /\ ~Committed(cur)
         /\ Clear' = (mem.status \notin {"Applying", "RecoveryRequired"})
         /\ \A s \in Receipt : ~(mem.reverses = s /\ mem.status = "Undone") => Live(s)' = Live(s)
  <1>1. cur \in Receipt /\ cur \notin tracked /\ journal'[cur] = mem /\ mem.status # "Absent"
    BY OwnerKnown DEF IInv, TypeOK, Working, Busy
  <1>2. \A s \in Receipt \ {cur} : journal'[s] = journal[s] /\ Committed(s)' = Committed(s)
    BY DEF IInv, TypeOK, Committed
  <1>3. Clear' = (mem.status \notin {"Applying", "RecoveryRequired"})
    <2>1. \A s \in Receipt \ {cur} : ~Issue(s)'
      BY <1>2 DEF Faithful, Running, Issue, Pending
    <2>2. \A s \in Receipt : s = cur => (Issue(s)' <=> mem.status \in {"Applying", "RecoveryRequired"})
      BY <1>1 DEF Issue, Pending
    <2> QED  BY <1>1, <2>1, <2>2 DEF Clear
  <1>4. ASSUME NEW s \in Receipt, ~(mem.reverses = s /\ mem.status = "Undone") PROVE Live(s)' = Live(s)
    <2>1. \A u \in tracked : journal'[u] = journal[u]
      BY <1>1, <1>2 DEF IInv, TypeOK
    <2> QED  BY <1>1, <1>4, <2>1 DEF Live
  <1> QED  BY <1>1, <1>2, <1>3, <1>4 DEF Committed

LEMMA Remembered ==
  ASSUME NEW comps \in Journaled, NEW t, FoundIn(comps, t)
  PROVE  /\ \A p \in Touched(comps) : t[p] = Before(comps)[p] /\ Before(comps)[p] \in Found(comps)[p]
         /\ DOMAIN Before(comps) = Touched(comps) /\ DOMAIN After(comps) = Touched(comps)
         /\ Touched(comps) \subseteq Path
  <1>1. ASSUME NEW p \in Touched(comps)
        PROVE  t[p] = Before(comps)[p] /\ Before(comps)[p] \in Found(comps)[p]
    <2>1. p \in Path /\ ~Beyond(comps, 0, p) /\ comps \in Seq(Compensation)
      BY Untouching DEF Touched, Journaled
    <2>2. PICK j \in 1 .. Len(comps) : Touch(comps, 0, j, p) /\ t[p] = PutBack(comps[j], p)
      BY <2>1 DEF FoundIn
    <2>3. First(comps, p) = j /\ Touches(comps[j], p)
      BY <2>1, <2>2, TouchIsFirst DEF Touch
    <2> QED  BY <2>2, <2>3 DEF Before, Found
  <1> QED  BY <1>1 DEF Before, After, Touched

LEMMA LeftOver ==
  ASSUME NEW comps \in Journaled, NEW t, NEW f, \A p \in Path : LeftAt(comps, t, f, p)
  PROVE  \A p \in Path : f[p] = IF p \in Touched(comps) THEN After(comps)[p] ELSE t[p]
  <1> SUFFICES ASSUME NEW p \in Path PROVE f[p] = IF p \in Touched(comps) THEN After(comps)[p] ELSE t[p]
    OBVIOUS
  <1>1. LeftAt(comps, t, f, p) /\ comps \in Seq(Compensation)
    BY DEF Journaled
  <1>2. CASE Beyond(comps, 0, p)
    BY <1>1, <1>2, Untouching, LeftBeyond
  <1>3. CASE \E j \in 1 .. Len(comps) : FinalTouch(comps, j, p) /\ f[p] = LeftBy(comps[j], p)
    BY <1>1, <1>3, FinalIsLast DEF After
  <1> QED  BY <1>1, <1>2, <1>3 DEF LeftAt

LEMMA PutAllBack ==
  ASSUME NEW comps \in Journaled, NEW t, NEW f, PutBackFrom(comps, 0, TRUE, t, f), Accepted(comps, 0, t)
  PROVE  /\ \A p \in Path : f[p] = IF p \in Touched(comps) THEN Before(comps)[p] ELSE t[p]
         /\ \A p \in Touched(comps) : t[p] \in {After(comps)[p], Missing} \cup Found(comps)[p]
  <1>1. comps \in Seq(Compensation)
    BY DEF Journaled
  <1>2. ASSUME NEW p \in Path
        PROVE  f[p] = IF p \in Touched(comps) THEN Before(comps)[p] ELSE t[p]
    <2>1. CASE \E j \in 1 .. Len(comps) : Touch(comps, 0, j, p) /\ f[p] = PutBack(comps[j], p)
      BY <1>1, <2>1, TouchIsFirst DEF Before
    <2>2. CASE Beyond(comps, 0, p) /\ f[p] = t[p]
      BY <2>2, Untouching
    <2>3. \/ \E j \in 1 .. Len(comps) : Touch(comps, 0, j, p) /\ f[p] = PutBack(comps[j], p)
          \/ Beyond(comps, 0, p) /\ f[p] = t[p]
      BY DEF PutBackFrom
    <2> QED  BY <2>1, <2>2, <2>3
  <1>3. ASSUME NEW p \in Touched(comps)
        PROVE  t[p] \in {After(comps)[p], Missing} \cup Found(comps)[p]
    <2>1. p \in Path /\ ~Beyond(comps, 0, p)
      BY Untouching DEF Touched
    <2>2. PICK j \in 1 .. Len(comps) :
             FinalTouch(comps, j, p) /\ t[p] \in {LeftBy(comps[j], p), Missing, PutBack(comps[j], p)}
      BY <2>1 DEF Accepted
    <2>3. Last(comps, p) = j /\ Touches(comps[j], p)
      BY <1>1, <2>1, <2>2, FinalIsLast DEF FinalTouch
    <2> QED  BY <2>2, <2>3 DEF After, Found
  <1> QED  BY <1>2, <1>3

LEMMA AppliedCommits ==
  ASSUME IInv, Faithful, pc = "done", journal' = [journal EXCEPT ![cur] = mem], tracked' = tracked \cup {cur},
         UNCHANGED fs, Stop, edited = {}, mem.status = "Applied"
  PROVE  Atomic!Commit(cur)
  <1> DEFINE comps == mem.comps
             entry == [before |-> Before(comps), after |-> After(comps), found |-> Found(comps),
                 live |-> TRUE]
  <1>1. /\ cur \in Receipt /\ cur \notin tracked /\ journal'[cur] = mem /\ ~Committed(cur) /\ Clear'
        /\ \A s \in Receipt \ {cur} : journal'[s] = journal[s] /\ Committed(s)' = Committed(s)
        /\ \A s \in Receipt : Live(s)' = Live(s)
    BY FinalJournal
  <1>2. comps \in Journaled /\ FoundIn(comps, base) /\ \A p \in Path : LeftAt(comps, base, fs, p)
    BY DEF IInv, TypeOK, ReceiptRecord, Faithful, Ended, Quiet
  <1>3. Live(cur)
    <2>1. \A u \in Receipt : journal[u].reverses = cur => FALSE
      BY <1>1, ChangeEngineAssumption DEF Faithful, Recorded
    <2> QED  BY <2>1 DEF Live, IInv, TypeOK
  <1>4. \A s \in Receipt : s = cur => Entry(s)' = entry
    BY <1>1, <1>3 DEF Entry, Committed
  <1>5. \A s \in Receipt \ {cur} : Entry(s)' = Entry(s)
    BY <1>1, EntryStays
  <1>6. AsLog[cur] = Atomic!NoEntry
    BY <1>1 DEF AsLog, Entry, Atomic!NoEntry
  <1>7. AsLog' = [AsLog EXCEPT ![cur] = entry] /\ AsLog'[cur] = entry
    <2> HIDE DEF entry
    <2> QED  BY <1>1, <1>4, <1>5 DEF AsLog
  <1>8. AsTree = base /\ AsTree' = Governed(fs) /\ ~AsBlocked /\ UNCHANGED <<AsBlocked, AsRaced>>
    BY <1>1 DEF AsTree, AsBlocked, AsRaced, Stop, Governed
  <1>9. /\ entry.live /\ DOMAIN entry.before = DOMAIN entry.after
        /\ \A p \in DOMAIN entry.before : entry.before[p] \in entry.found[p] /\ base[p] = entry.before[p]
        /\ Governed(fs) = [p \in Path |-> IF p \in DOMAIN entry.after THEN entry.after[p] ELSE base[p]]
    <2> HIDE DEF comps
    <2>1. /\ DOMAIN Before(comps) = Touched(comps) /\ DOMAIN After(comps) = Touched(comps)
          /\ \A p \in Touched(comps) : Before(comps)[p] \in Found(comps)[p] /\ base[p] = Before(comps)[p]
      BY <1>2, Remembered
    <2>2. Governed(fs) = [p \in Path |-> IF p \in Touched(comps) THEN After(comps)[p] ELSE base[p]]
      <3>1. \A p \in Path : fs[p] = IF p \in Touched(comps) THEN After(comps)[p] ELSE base[p]
        BY <1>2, LeftOver
      <3> QED  BY <3>1 DEF Governed
    <2> QED  BY <2>1, <2>2
  <1> HIDE DEF entry
  <1> QED  BY <1>1, <1>6, <1>7, <1>8, <1>9, CommitStep

LEMMA EntryDead ==
  ASSUME NEW b, NEW a, NEW f, NEW l
  PROVE  [[before |-> b, after |-> a, found |-> f, live |-> l] EXCEPT !.live = FALSE] =
            [before |-> b, after |-> a, found |-> f, live |-> FALSE]
  <1> DEFINE dead == FALSE
  <1> HIDE DEF dead
  <1>1. [[before |-> b, after |-> a, found |-> f, live |-> l] EXCEPT !.live = dead] =
            [before |-> b, after |-> a, found |-> f, live |-> dead]
    OBVIOUS
  <1> QED  BY <1>1, Zenon DEF dead

LEMMA UndoneReverts ==
  ASSUME IInv, Faithful, pc = "done", journal' = [journal EXCEPT ![cur] = mem], tracked' = tracked \cup {cur},
         UNCHANGED fs, Stop, edited = {}, mem.status = "Undone"
  PROVE  Atomic!Revert(mem.reverses)
  <1> DEFINE orig == mem.reverses
             comps == journal[orig].comps
  <1>1. /\ cur \in Receipt /\ cur \notin tracked /\ journal'[cur] = mem /\ ~Committed(cur) /\ Clear'
        /\ \A s \in Receipt \ {cur} : journal'[s] = journal[s] /\ Committed(s)' = Committed(s)
        /\ \A s \in Receipt : s # orig => Live(s)' = Live(s)
    BY FinalJournal
  <1>2. mode = "undo" /\ orig \in Receipt \ {cur} /\ journal[cur].reverses = orig
    BY DEF Faithful, Running, IInv, Working, Busy
  <1>3. Committed(orig)
    BY <1>1, <1>2, ChangeEngineAssumption DEF Faithful, Recorded
  <1>4. comps \in Journaled /\ PutBackFrom(comps, 0, TRUE, base, fs) /\ Accepted(comps, 0, base)
    BY <1>2 DEF IInv, TypeOK, ReceiptRecord, Faithful, Ended, Quiet, Comps
  <1>5. Live(orig)
    BY <1>1, <1>2 DEF Live, Faithful, Running, IInv, TypeOK
  <1>6. \A s \in Receipt : s = orig => ~Live(s)'
    BY <1>1, <1>2 DEF Live
  <1>7. \A s \in Receipt : s # orig => Entry(s)' = Entry(s)
    <2>1. ASSUME NEW s \in Receipt, s # orig, s # cur PROVE Entry(s)' = Entry(s)
      BY <1>1, <2>1, EntryStays
    <2>2. ASSUME NEW s \in Receipt, s = cur PROVE Entry(s)' = Entry(s)
      BY <1>1, <2>2 DEF Entry, Committed
    <2> QED  BY <2>1, <2>2
  <1>8. \A s \in Receipt : s = orig => Entry(s)' = [Entry(s) EXCEPT !.live = FALSE]
    <2> SUFFICES ASSUME NEW s \in Receipt, s = orig
                 PROVE  Entry(s)' = [Entry(s) EXCEPT !.live = FALSE]
      OBVIOUS
    <2>1. Committed(s) /\ Committed(s)' /\ journal'[s].comps = journal[s].comps /\ Live(s)' = FALSE
      BY <1>1, <1>2, <1>3, <1>6
    <2>2. Entry(s)' = [before |-> Before(journal[s].comps), after |-> After(journal[s].comps),
                       found |-> Found(journal[s].comps), live |-> FALSE]
      BY <2>1 DEF Entry
    <2>3. Entry(s) = [before |-> Before(journal[s].comps), after |-> After(journal[s].comps),
                      found |-> Found(journal[s].comps), live |-> Live(s)]
      BY <2>1 DEF Entry
    <2>4. [Entry(s) EXCEPT !.live = FALSE] =
             [before |-> Before(journal[s].comps), after |-> After(journal[s].comps),
              found |-> Found(journal[s].comps), live |-> FALSE]
      BY <2>3, EntryDead
    <2> QED  BY <2>2, <2>4
  <1>9. AsLog' = [AsLog EXCEPT ![orig].live = FALSE]
    <2> HIDE DEF orig
    <2> QED  BY <1>2, <1>7, <1>8 DEF AsLog
  <1>10. AsLog[orig] = [before |-> Before(comps), after |-> After(comps), found |-> Found(comps),
             live |-> TRUE]
    BY <1>2, <1>3, <1>5 DEF AsLog, Entry
  <1>11. AsTree = base /\ AsTree' = Governed(fs) /\ ~AsBlocked /\ UNCHANGED <<AsBlocked, AsRaced>>
    BY <1>1 DEF AsTree, AsBlocked, AsRaced, Stop, Governed
  <1>12. /\ DOMAIN Before(comps) = Touched(comps) /\ DOMAIN After(comps) = Touched(comps)
         /\ \A p \in Touched(comps) : base[p] \in {After(comps)[p], Missing} \cup Found(comps)[p]
         /\ Governed(fs) = [p \in Path |-> IF p \in Touched(comps) THEN Before(comps)[p] ELSE base[p]]
    <2> HIDE DEF comps
    <2>1. /\ \A p \in Path : fs[p] = IF p \in Touched(comps) THEN Before(comps)[p] ELSE base[p]
          /\ \A p \in Touched(comps) : base[p] \in {After(comps)[p], Missing} \cup Found(comps)[p]
      BY <1>4, PutAllBack
    <2>2. Governed(fs) = [p \in Path |-> IF p \in Touched(comps) THEN Before(comps)[p] ELSE base[p]]
      BY <2>1 DEF Governed
    <2> QED  BY <2>1, <2>2 DEF Before, After
  <1> HIDE DEF comps, orig
  <1>13. /\ AsLog[orig].live /\ DOMAIN AsLog[orig].after = Touched(comps)
         /\ DOMAIN AsLog[orig].before = Touched(comps) /\ AsLog[orig].before = Before(comps)
         /\ AsLog[orig].after = After(comps) /\ AsLog[orig].found = Found(comps)
    BY <1>10, <1>12
  <1>14. Atomic!Revert(orig)
    BY <1>2, <1>9, <1>11, <1>12, <1>13, RevertStep
  <1> QED  BY <1>14 DEF orig

LEMMA NothingChanged ==
  ASSUME IInv, Faithful, pc = "done", journal' = [journal EXCEPT ![cur] = mem], tracked' = tracked \cup {cur},
         UNCHANGED <<fs, base>>, Stop, mem.status \notin {"Applied", "Undone"}
  PROVE  /\ AsLog' = AsLog
         /\ edited = {} => [Atomic!ANext]_(Atomic!vars)
  <1>1. /\ cur \in Receipt /\ cur \notin tracked /\ journal'[cur] = mem /\ ~Committed(cur)
        /\ \A s \in Receipt \ {cur} : journal'[s] = journal[s] /\ Committed(s)' = Committed(s)
        /\ \A s \in Receipt : Live(s)' = Live(s)
        /\ Clear' = (mem.status \notin {"Applying", "RecoveryRequired"})
    BY FinalJournal
  <1>2. AsLog' = AsLog
    <2>1. ASSUME NEW s \in Receipt, s # cur PROVE Entry(s)' = Entry(s)
      BY <1>1, <2>1, EntryStays
    <2>2. ASSUME NEW s \in Receipt, s = cur PROVE Entry(s)' = Entry(s)
      BY <1>1, <2>2 DEF Entry, Committed
    <2> QED  BY <2>1, <2>2 DEF AsLog
  <1>3. ASSUME edited = {} PROVE [Atomic!ANext]_(Atomic!vars)
    <2>1. AsTree = base /\ AsBlocked = FALSE /\ AsRaced' = AsRaced
      BY <1>3 DEF AsTree, AsBlocked, AsRaced, Stop
    <2>2. CASE mem.status \in {"Applying", "RecoveryRequired"}
      <3>1. AsBlocked' /\ AsTree' = base
        BY <1>1, <2>2 DEF AsBlocked, AsTree, Stop
      <3>2. Atomic!Block
        BY <1>2, <2>1, <3>1, BlockStep
      <3> QED  BY <3>2 DEF Atomic!ANext
    <2>3. CASE mem.status = "FailedRolledBack"
      <3>1. AsBlocked' = FALSE /\ AsTree' = Governed(fs)
        BY <1>1, <2>3 DEF AsBlocked, AsTree, Stop, Governed
      <3>2. Governed(fs) = base
        BY <1>3, <2>3 DEF Governed, Faithful, Recorded, Ended, Quiet
      <3>3. UNCHANGED Atomic!vars
        BY <1>2, <2>1, <3>1, <3>2, AbstractVariables
      <3> QED  BY <3>3
    <2>4. mem.status \in Status
      BY DEF IInv, TypeOK, ReceiptRecord, Working, Busy
    <2> QED  BY <2>2, <2>3, <2>4 DEF Status
  <1> QED  BY <1>2, <1>3

LEMMA JournalOwned ==
  ASSUME IInv, pc # "idle", NEW record, journal' \in {journal, [journal EXCEPT ![cur] = record]}
  PROVE  OwnJournal /\ (record.status # "Absent" => journal'[cur].status # "Absent")
  BY OwnerKnown DEF IInv, TypeOK, Working, Busy, OwnJournal

LEMMA FinalizeSeen == ASSUME IInv, Faithful, Finalize PROVE [Atomic!ANext]_(Atomic!vars)
  <1>1. pc = "done" /\ pc # "idle" /\ Stop /\ UNCHANGED <<fs, base>> /\ mem.status # "Absent"
    BY DEF Finalize, history, IInv, Working, Busy
  <1>2. CASE PersistFails(mem) /\ UNCHANGED tracked
    <2>1. Atomic!ANext
      BY <1>1, <1>2, JournalOwned, CutShort DEF PersistFails
    <2> QED  BY <2>1
  <1>3. CASE Persist(mem) /\ tracked' = tracked \cup {cur}
    <2>1. journal' = [journal EXCEPT ![cur] = mem]
      BY <1>3 DEF Persist
    <2>2. cur \in Receipt /\ mem.reverses \in Receipt \cup {NoReceipt}
      BY <1>1, OwnerKnown DEF IInv, TypeOK, ReceiptRecord
    <2>3. CASE edited # {}
      <3>1. AsRaced /\ ~AsRaced'
        BY <1>1, <2>3 DEF AsRaced, Stop
      <3>2. \A s \in Receipt \ {cur} : AsLog'[s].before = AsLog[s].before
        BY <1>1, <1>3, <2>1, FinalJournal DEF AsLog, Entry
      <3>3. Atomic!EndRaced
        BY <2>2, <3>1, <3>2, EndRacedStep
      <3> QED  BY <3>3 DEF Atomic!ANext
    <2>4. CASE edited = {} /\ mem.status = "Applied"
      BY <1>1, <1>3, <2>1, <2>2, <2>4, AppliedCommits DEF Atomic!ANext
    <2>5. CASE edited = {} /\ mem.status = "Undone"
      <3>1. mem.reverses \in Receipt
        BY <1>1, <2>5 DEF Faithful, Running, IInv, Working, Busy
      <3>2. Atomic!Revert(mem.reverses)
        BY <1>1, <1>3, <2>1, <2>5, UndoneReverts
      <3> QED  BY <3>1, <3>2 DEF Atomic!ANext
    <2>6. CASE edited = {} /\ mem.status \notin {"Applied", "Undone"}
      BY <1>1, <1>3, <2>1, <2>6, NothingChanged
    <2> QED  BY <2>3, <2>4, <2>5, <2>6
  <1> QED  BY <1>2, <1>3 DEF Finalize

-----------------------------------------------------------------------------
(* The other steps of a running command.                                   *)
LEMMA CompensateInside ==
  ASSUME IInv, pc # "idle", UNCHANGED <<tracked, base>>, OwnJournal,
         NEW record, NEW result, NEW how, Compensate(record, result, how)
  PROVE  UNCHANGED Atomic!vars
  <1>1. pc' # "idle" /\ UNCHANGED edited
    BY DEF Compensate, CompensateFrom
  <1> QED  BY <1>1, InsideCommand

LEMMA FailedSeen ==
  ASSUME IInv, pc # "idle", NEW g, NEW byIdentity, Failed(g, byIdentity), UNCHANGED <<tracked, base>>
  PROVE  UNCHANGED Atomic!vars
  <1> DEFINE partial == Partial(op, cur, i, g)
             receipt == [mem EXCEPT !.comps = @ \o partial]
  <1>1. \/ Compensate(mem, "RecoveryRequired", "salvage") /\ UNCHANGED journal
        \/ /\ Compensate(receipt, "FailedRolledBack", "apply")
           /\ journal' \in {journal, [journal EXCEPT ![cur] = receipt]}
    BY DEF Failed
  <1> HIDE DEF partial, receipt
  <1>2. OwnJournal
    BY <1>1, JournalOwned
  <1> QED  BY <1>1, <1>2, CompensateInside

LEMMA ExecutionSeen ==
  ASSUME IInv, Record \/ Stage \/ Validate \/ Mutate \/ MutateRefused \/ PersistApplied \/ Conclude
  PROVE  [Atomic!ANext]_(Atomic!vars)
  <1>1. CASE Record
    <2>1. /\ pc # "idle" /\ UNCHANGED <<tracked, base>> /\
                 journal' \in {journal, [journal EXCEPT ![cur] = mem]}
          /\ Stop \/ (pc' # "idle" /\ UNCHANGED edited)
      BY <1>1 DEF Record, history, Persist, PersistFails, Goto
    <2>2. OwnJournal /\ journal'[cur].status # "Absent"
      BY <2>1, JournalOwned DEF IInv, Working, Busy
    <2> QED  BY <2>1, <2>2, CutShort, InsideCommand
  <1>2. CASE Stage
    <2> DEFINE staged == [mem EXCEPT !.comps = Append(@,
                             RestoreReplaced(ReplacedBackup(cur, i), StagedTemp(cur, i), op.target,
                                             op.expected, op.content))]
    <2>1. staged.status # "Absent"
      BY <1>2 DEF Stage, IInv, TypeOK, ReceiptRecord, Working, Busy
    <2>2. /\ pc # "idle" /\ UNCHANGED <<tracked, base>> /\
                 journal' \in {journal, [journal EXCEPT ![cur] = staged]}
          /\ Stop \/ (pc' # "idle" /\ UNCHANGED edited)
      BY <1>2 DEF Stage, history, Persist, PersistFails, Goto
    <2> HIDE DEF staged
    <2>3. OwnJournal /\ journal'[cur].status # "Absent"
      BY <2>1, <2>2, JournalOwned
    <2> QED  BY <2>2, <2>3, CutShort, InsideCommand
  <1>3. CASE Validate
    <2>1. /\ pc # "idle" /\ UNCHANGED <<tracked, base>>
          /\ (pc' = "mutate" /\ UNCHANGED <<edited, journal>>) \/ Failed(fs, FALSE)
      BY <1>3 DEF Validate, history, Goto
    <2>2. CASE pc' = "mutate" /\ UNCHANGED <<edited, journal>>
      BY <2>1, <2>2, InsideCommand DEF OwnJournal
    <2> QED  BY <2>1, <2>2, FailedSeen
  <1>4. CASE Mutate
    <2>1. /\ pc # "idle" /\ UNCHANGED <<tracked, base>>
          /\ (pc' = "persist" /\ UNCHANGED <<edited, journal>>) \/ (\E g, byIdentity : Failed(g, byIdentity))
      BY <1>4, Zenon DEF Mutate, history, Goto
    <2>2. CASE pc' = "persist" /\ UNCHANGED <<edited, journal>>
      BY <2>1, <2>2, InsideCommand DEF OwnJournal
    <2> QED  BY <2>1, <2>2, FailedSeen
  <1>5. CASE MutateRefused
    <2>1. pc # "idle" /\ UNCHANGED <<tracked, base>> /\ Failed(fs, RefusedByIdentity(op, fs))
      BY <1>5 DEF MutateRefused, history
    <2> QED  BY <2>1, FailedSeen
  <1>6. CASE PersistApplied
    <2>1. /\ pc # "idle" /\ UNCHANGED <<tracked, base>> /\
                 journal' \in {journal, [journal EXCEPT ![cur] = mem]}
          /\ Compensate(mem, "FailedRolledBack", "salvage") \/ (pc' # "idle" /\ UNCHANGED edited)
      BY <1>6 DEF PersistApplied, history, Persist, PersistFails, Goto
    <2>2. OwnJournal
      BY <2>1, JournalOwned
    <2> QED  BY <2>1, <2>2, CompensateInside, InsideCommand
  <1>7. CASE Conclude
    <2>1. /\ pc # "idle" /\ UNCHANGED <<tracked, base>>
          /\ \E record : journal' \in {journal, [journal EXCEPT ![cur] = record]}
          /\ Compensate(mem, "FailedRolledBack", "apply") \/ (pc' # "idle" /\ UNCHANGED edited)
      BY <1>7 DEF Conclude, history, Persist, Goto
    <2>2. OwnJournal
      BY <2>1, JournalOwned
    <2> QED  BY <2>1, <2>2, CompensateInside, InsideCommand
  <1> QED  BY <1>1, <1>2, <1>3, <1>4, <1>5, <1>6, <1>7

LEMMA CompensationSeen ==
  ASSUME IInv, MetadataFails \/ RestorationFails \/ Verify \/ ActRefused \/ Act \/ Finish
  PROVE  [Atomic!ANext]_(Atomic!vars)
  <1>1. CASE MetadataFails \/ RestorationFails \/ Verify \/ ActRefused \/ Act
    <2>1. pc # "idle" /\ pc' # "idle" /\ UNCHANGED <<tracked, base, edited, journal>>
      BY <1>1 DEF MetadataFails, RestorationFails, Verify, ActRefused, Act, CompensateFrom, GiveUp, Goto,
                  NextCompensation, disk, history
    <2> QED  BY <2>1, InsideCommand DEF OwnJournal
  <1>2. CASE Finish
    <2> DEFINE finished == [mem EXCEPT !.status = verdict]
    <2>1. /\ pc # "idle" /\ UNCHANGED <<tracked, base>>
          /\ journal' \in {journal, [journal EXCEPT ![cur] = finished]}
          /\ Stop \/ (pc' # "idle" /\ UNCHANGED edited)
      BY <1>2 DEF Finish, history, Persist, PersistFails, Goto
    <2>2. finished.status # "Absent"
      BY DEF IInv, TypeOK, ReceiptRecord
    <2> HIDE DEF finished
    <2>3. OwnJournal /\ journal'[cur].status # "Absent"
      BY <2>1, <2>2, JournalOwned
    <2> QED  BY <2>1, <2>3, CutShort, InsideCommand
  <1> QED  BY <1>1, <1>2

LEMMA CrashSeen == ASSUME IInv, Crash PROVE Atomic!ANext
  <1>1. pc # "idle" /\ Stop /\ UNCHANGED <<tracked, base, journal>>
    BY DEF Crash, history
  <1>2. OwnJournal /\ journal'[cur].status # "Absent"
    BY <1>1 DEF OwnJournal, IInv, Working, Busy
  <1> QED  BY <1>1, <1>2, CutShort

LEMMA BeginSeen ==
  ASSUME IInv, Faithful, NEW r \in Receipt,
         (\E ops \in ready : BeginApply(r, ops)) \/ (\E orig \in Receipt : BeginUndo(r, orig))
  PROVE  [Atomic!ANext]_(Atomic!vars)
  <1>1. /\ pc = "idle" /\ Clear /\ Unused(r) /\ UNCHANGED <<fs, tracked, edited>> /\ base' = Governed(fs)
        /\ \E record : journal' \in {journal, [journal EXCEPT ![r] = record]}
    BY DEF BeginApply, BeginUndo, command
  <1>2. \A s \in Receipt \ {r} : journal'[s] = journal[s]
    BY <1>1 DEF IInv, TypeOK
  <1> QED  BY <1>1, <1>2, BeginStep

LEMMA PrepareSeen == ASSUME IInv, NEW t \in Template, Prepare(t) PROVE UNCHANGED Atomic!vars
  <1>1. UNCHANGED <<disk, command, base>> /\ TypeOK
    BY DEF Prepare, history, IInv
  <1> QED  BY <1>1, NothingSeen

LEMMA NextSeen == IInv /\ Faithful /\ [Next]_vars => [Atomic!ANext]_(Atomic!vars)
  <1> SUFFICES ASSUME IInv, Faithful, [Next]_vars PROVE [Atomic!ANext]_(Atomic!vars)
    OBVIOUS
  <1>1. CASE Command
    BY <1>1, ExecutionSeen, CompensationSeen, FinalizeSeen DEF Command
  <1>2. CASE UNCHANGED vars
    <2>1. UNCHANGED <<disk, command, base>> /\ TypeOK
      BY <1>2 DEF vars, history, IInv
    <2> QED  BY <2>1, NothingSeen
  <1>3. CASE Next /\ ~Command
    BY <1>3, BeginSeen, CrashSeen, UserEditSeen, PrepareSeen DEF Next
  <1> QED  BY <1>1, <1>2, <1>3

LEMMA InitSeen == Init => Atomic!AInit
  <1> SUFFICES ASSUME Init PROVE Atomic!AInit
    OBVIOUS
  <1>1. Clear /\ pc = "idle" /\ edited = {} /\ tracked = {}
    BY DEF Init, Clear, Issue, Pending, Absent
  <1>2. Governed(fs) \in [Path -> Held]
    BY ChangeEngineAssumption DEF Init, Governed, Loc
  <1>3. AsTree \in [Path -> Held] /\ AsBlocked = FALSE /\ AsRaced = FALSE
    BY <1>1, <1>2 DEF AsTree, AsBlocked, AsRaced
  <1>4. AsLog = [r \in Receipt |-> Atomic!NoEntry]
    BY <1>1 DEF AsLog, Entry, Committed, Atomic!NoEntry
  <1> QED  BY <1>3, <1>4, Zenon DEF Atomic!AInit, AsTree, AsLog, AsBlocked, AsRaced, Entry

(* A Plan changes all of its paths or none, Undo puts exactly what was     *)
(* before back and only over what the Plan left or found, and an unresolved*)
(* change blocks every later one: apply_locked_with_anchored, undo_locked_ *)
(* with_anchored and rollback_apply_locked_with_anchored, with errors and  *)
(* process death at every durable step, implement AtomicChange.            *)
THEOREM ChangesAreAtomic == Spec => Implements
  <1>1. Spec => Atomic!AInit
    BY InitSeen DEF Spec
  <1>2. Spec => [][Atomic!ANext]_(Atomic!vars)
    BY NextSeen, EngineInvariant, CommandsAreFaithful, PTL DEF Spec
  <1> QED  BY <1>1, <1>2 DEF Implements, Atomic!ASpec
=============================================================================
