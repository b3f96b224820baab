---------------------------- MODULE PackageReading ----------------------------
(***************************************************************************)
(* How a Scan reads Skill packages while the user keeps editing them: the  *)
(* entrypoint for its metadata, then the list of files with a checkpoint,  *)
(* then each file for the package fingerprint; once per physical package,  *)
(* with the checkpoint compared again before the observation is reused for *)
(* another placement of the same package.  A placement counts only if its  *)
(* entrypoint is where discovery found it before and after.  persist_index *)
(* then records, in the Snapshot's transaction, the first entrypoint seen  *)
(* of each declared source revision, which it reads once more.             *)
(*                                                                         *)
(* A checkpoint holds sizes and modification times to the nanosecond: every*)
(* write is taken to move it.                                              *)
(*                                                                         *)
(* An entrypoint is the revision it declares (0: it declares no source)    *)
(* and its text.  Beside it lie the siblings that preserve_both leaves, one*)
(* to a revision.  One source; links, roots, permissions and size limits   *)
(* are SourceScan's and Snapshots's.                                       *)
(***************************************************************************)
EXTENDS Naturals, Sequences

CONSTANTS
    Placement,   \* entrypoints under the clients' roots
    Candidates,  \* ... in the order the Scan takes them, each once
    Package,     \* physical packages
    Home,        \* the package a placement leads to
    Revision,    \* the revisions the source has
    Text,        \* what an entrypoint says apart from its metadata
    Gone,        \* no such file
    MaxEdits,    \* bound: edits by other programs
    MaxScans     \* bound: Scans begun

ASSUME PackagesAssumption ==
    /\ Candidates \in Seq(Placement) /\ Home \in [Placement -> Package]
    /\ \A p \in Placement : \E n \in DOMAIN Candidates : Candidates[n] = p
    /\ \A n, m \in DOMAIN Candidates : Candidates[n] = Candidates[m] => n = m
    /\ Revision \subseteq Nat \ {0}
    /\ MaxEdits \in Nat /\ MaxScans \in Nat

Entry == [revision : Revision \cup {0}, text : Text]
Entrypoint == 0                      \* SKILL.md; SKILL.upstream-<r>.md is r
File == {Entrypoint} \cup Revision
Contents == Entry \cup {Gone}

VARIABLES
    disk,     \* the files of each package
    edits,    \* how many edits other programs have made
    scans,    \* how many Scans have begun
    at,       \* the candidate being read; 0 between Scans
    reading,  \* what has been read of its package so far
    cache,    \* the packages this Scan has observed
    touched,  \* packages written since their checkpoint was taken
    drifted,  \* packages that changed before their observation was reused
    seen,     \* the observations of this Scan
    snapshot, \* the latest completed Snapshot
    baseline  \* source_baselines: first observed and trusted entrypoints

package == <<disk, edits>>
scanning == <<at, reading, cache, touched, drifted, seen>>
readingVars == <<package, scans, scanning, snapshot, baseline>>

Nothing == [stage |-> "none"]
Bound == [stage |-> "bound"]
LeftOut(lapsed) ==
    [entry |-> Gone, files |-> <<>>, complete |-> FALSE, safe |-> FALSE, lapsed |-> lapsed]
NoSnapshot == [id |-> 0, of |-> <<>>]
NoBaseline == [first |-> Gone, trusted |-> Gone]

ReadingInit ==
    /\ disk \in [Package -> [File -> Contents]]
    /\ edits = 0 /\ scans = 0 /\ at = 0 /\ reading = Nothing
    /\ cache = <<>> /\ touched = {} /\ drifted = {} /\ seen = <<>>
    /\ snapshot = NoSnapshot
    /\ baseline = [r \in Revision |-> NoBaseline]

(***************************************************************************)
(* Reading.                                                                *)
(***************************************************************************)
Here == Home[Candidates[at]]
Known == DOMAIN cache
Forget(p) == [q \in Known \ {p} |-> cache[q]]

BeginScan ==
    /\ at = 0 /\ scans < MaxScans
    /\ scans' = scans + 1 /\ at' = 1
    /\ UNCHANGED <<package, reading, cache, touched, drifted, seen, snapshot, baseline>>

Record(observation) ==
    /\ seen' = Append(seen, observation) /\ at' = at + 1 /\ reading' = Nothing

(* A placement whose entrypoint is not where discovery found it is not     *)
(* read, or what was read of it is discarded, and its package is forgotten.*)
BindingIsCurrent == disk[Here][Entrypoint] # Gone
Lapse == Record(LeftOut(TRUE)) /\ cache' = Forget(Here)

CheckBinding ==
    /\ at \in DOMAIN Candidates /\ reading = Nothing
    /\ IF BindingIsCurrent THEN reading' = Bound /\ UNCHANGED <<at, cache, seen>> ELSE Lapse
    /\ UNCHANGED <<package, scans, touched, drifted, snapshot, baseline>>

(* A package read before is not read again: what was observed stands if its*)
(* checkpoint does, and otherwise the placement is discarded.              *)
ObserveAgain ==
    cache' = Forget(Here) /\ UNCHANGED <<at, reading, seen, drifted>>
Discard ==
    /\ Record(LeftOut(FALSE))
    /\ drifted' = drifted \cup {Here} /\ cache' = Forget(Here)
Revalidate ==
    IF Here \in touched THEN Discard
    ELSE Record(cache[Here]) /\ UNCHANGED <<cache, drifted>>

Reuse ==
    /\ reading = Bound
    /\ \/ Here \in drifted /\ Discard
       \/ Here \in Known /\ Revalidate
    /\ UNCHANGED <<package, scans, touched, snapshot, baseline>>

(* The entrypoint, for its metadata and its text. *)
ReadEntrypoint ==
    /\ reading = Bound /\ Here \notin drifted \cup Known
    /\ reading' = [stage |-> "list", entry |-> disk[Here][Entrypoint]]
    /\ UNCHANGED <<package, scans, at, cache, touched, drifted, seen, snapshot, baseline>>

(* The files there are, each with the metadata of its checkpoint, taken    *)
(* together.                                                               *)
ListPackage ==
    /\ reading.stage = "list"
    /\ reading' = [stage |-> "hash", entry |-> reading.entry, files |-> <<>>,
                   listed |-> {f \in File : disk[Here][f] # Gone}]
    /\ touched' = touched \ {Here}
    /\ UNCHANGED <<package, scans, at, cache, drifted, seen, snapshot, baseline>>

(* ... and the bytes of each, as their names sort. *)
Unhashed == reading.listed \ DOMAIN reading.files
NextFile == CHOOSE f \in Unhashed : \A g \in Unhashed : f <= g
HashFile ==
    /\ reading.stage = "hash" /\ Unhashed # {}
    /\ IF disk[Here][NextFile] = Gone
       THEN reading' = [reading EXCEPT !.stage = "failed"]
       ELSE reading' = [reading EXCEPT !.files =
                [f \in DOMAIN @ \cup {NextFile} |->
                    IF f = NextFile THEN disk[Here][f] ELSE @[f]]]
    /\ UNCHANGED <<package, scans, at, cache, touched, drifted, seen, snapshot, baseline>>

(* The observation, kept for the package's other placements only if it is  *)
(* complete: an entrypoint that could not be read leaves no checkpoint.    *)
Observed ==
    LET complete == reading.stage = "hash" /\ reading.entry # Gone IN
    [entry |-> reading.entry, files |-> IF complete THEN reading.files ELSE <<>>,
     complete |-> complete, safe |-> TRUE, lapsed |-> FALSE]
Observe ==
    /\ \/ reading.stage = "hash" /\ Unhashed = {}
       \/ reading.stage = "failed"
    /\ IF BindingIsCurrent
       THEN /\ Record(Observed)
            /\ cache' = IF Observed.complete
                        THEN [p \in Known \cup {Here} |-> IF p = Here THEN Observed ELSE cache[p]]
                        ELSE cache
       ELSE Lapse
    /\ UNCHANGED <<package, scans, touched, drifted, snapshot, baseline>>

(***************************************************************************)
(* Identity, and what the Snapshot's transaction writes.                   *)
(***************************************************************************)
Declared(entry) == IF entry = Gone THEN 0 ELSE entry.revision

(* The Skill a placement is of: the revision it declares, or its contents. *)
SkillId(p, o) ==
    CASE Declared(o.entry) # 0 -> <<"source", Declared(o.entry)>>
      [] Declared(o.entry) = 0 /\ o.complete -> <<"content", o.files>>
      [] OTHER -> <<"incomplete", p>>

SeenOf == [p \in Placement |->
             seen[CHOOSE n \in DOMAIN Candidates : Candidates[n] = p]]

(* record_source_baseline: INSERT OR IGNORE. *)
FirstObserved(b, entry) == IF b.first = Gone THEN [b EXCEPT !.first = entry] ELSE b
LastObserved(b, entry) == [first |-> entry, trusted |-> Gone]
SourceBaseline(b, entry) == FirstObserved(b, entry)

(* The entrypoint whose bytes stand for a declared revision is read now, by*)
(* the path of the first placement the Snapshot has of it.                 *)
FirstWith(r) ==
    LET of == {n \in DOMAIN seen : Declared(seen[n].entry) = r}
    IN  Candidates[CHOOSE n \in of : \A m \in of : n <= m]
Declares(r) == \E n \in DOMAIN seen : Declared(seen[n].entry) = r
EntryNow(r) == disk[Home[FirstWith(r)]][Entrypoint]

Persist ==
    /\ at = Len(Candidates) + 1
    /\ at' = 0 /\ cache' = <<>> /\ touched' = {} /\ drifted' = {} /\ seen' = <<>>
    /\ IF \E r \in Revision : Declares(r) /\ EntryNow(r) = Gone
       THEN UNCHANGED <<snapshot, baseline>>     \* rolled back: a failed Scan
       ELSE /\ snapshot' = [id |-> scans, of |-> SeenOf]
            /\ baseline' = [r \in Revision |->
                   IF Declares(r) THEN SourceBaseline(baseline[r], EntryNow(r))
                   ELSE baseline[r]]
    /\ UNCHANGED <<package, scans, reading>>

ReadStep ==
    \/ CheckBinding \/ Reuse \/ ReadEntrypoint \/ ListPackage \/ HashFile \/ Observe \/ Persist

(* Another program rewrites or removes a file. *)
Edit(p, f, c) ==
    /\ edits < MaxEdits /\ edits' = edits + 1
    /\ c # disk[p][f]
    /\ disk' = [disk EXCEPT ![p][f] = c]
    /\ touched' = IF at = 0 THEN {} ELSE touched \cup {p}
    /\ UNCHANGED <<scans, at, reading, cache, drifted, seen, snapshot, baseline>>

(* The placements a Snapshot vouches for show one identity and one set of  *)
(* bytes for each physical package, however it changed while the Scan was  *)
(* reading it, unless the entrypoint of one of them had gone meanwhile:    *)
(* then the package is forgotten and may be observed a second time.        *)
Lapsed(q) == \E p \in DOMAIN snapshot.of : Home[p] = q /\ snapshot.of[p].lapsed
OnePackageOneIdentity ==
    \A p, q \in DOMAIN snapshot.of :
        LET o == snapshot.of[p]
            n == snapshot.of[q]
        IN  Home[p] = Home[q] /\ ~Lapsed(Home[p]) /\ o.complete /\ n.complete
              => o.files = n.files /\ SkillId(p, o) = SkillId(q, n)
==============================================================================
