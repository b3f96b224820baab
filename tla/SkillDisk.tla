----------------------------- MODULE SkillDisk -----------------------------
(***************************************************************************)
(* The directories SkillRoster governs, as far as its decisions see them:  *)
(* which paths are Skill packages, which are symbolic links and where they *)
(* lead.  A path is a sequence of names whose head is a root.  A package   *)
(* may hold another package, and a root may itself be a link to a root.    *)
(* plan-backups is not part of it: no Scan reads it.                       *)
(***************************************************************************)
EXTENDS Naturals, Sequences, FiniteSetsExt, SequencesExt

CONSTANTS NoPackage,   \* what a root holds itself
          MaxHops      \* bound: links followed in one resolution

ASSUME SkillDiskAssumption == MaxHops \in Nat

Directory(k) == [kind |-> "dir", package |-> k, to |-> <<>>]
LinkTo(p) == [kind |-> "link", package |-> NoPackage, to |-> p]

(* fs::canonicalize, going on where a path is missing; after MaxHops links *)
(* the result is still a link, which exists as nothing.                    *)
LinksOn(d, p) ==
    {i \in 1 .. Len(p) : SubSeq(p, 1, i) \in DOMAIN d /\ d[SubSeq(p, 1, i)].kind = "link"}
Hop(d, p) ==
    IF LinksOn(d, p) = {} THEN p
    ELSE LET i == Min(LinksOn(d, p)) IN d[SubSeq(p, 1, i)].to \o SubSeq(p, i + 1, Len(p))
Real(d, p) ==
    LET after[n \in 0 .. MaxHops] == IF n = 0 THEN p ELSE Hop(d, after[n - 1])
    IN  after[MaxHops]

Exists(d, p) == Real(d, p) \in DOMAIN d /\ d[Real(d, p)].kind = "dir"
PackageAt(d, p) == IF Exists(d, p) THEN d[Real(d, p)].package ELSE NoPackage

(* physical_entry_path *)
EntryPath(d, p) ==
    IF Len(p) = 1 THEN p ELSE Append(Real(d, SubSeq(p, 1, Len(p) - 1)), Last(p))
HasEntry(d, p) == EntryPath(d, p) \in DOMAIN d
IsLink(d, p) == HasEntry(d, p) /\ d[EntryPath(d, p)].kind = "link"

(* Path::starts_with, and paths_overlap *)
Within(q, p) == IsPrefix(p, q)
Overlap(p, q) == Within(p, q) \/ Within(q, p)
Rest(q, p) == SubSeq(q, Len(p) + 1, Len(q))

(* change::fingerprint: a directory with everything in it, a link by its   *)
(* target.                                                                 *)
Fingerprint(d, p) ==
    {<<Rest(q, EntryPath(d, p)), d[q]>> : q \in {r \in DOMAIN d : Within(r, EntryPath(d, p))}}

(***************************************************************************)
(* The operations of a governance Plan: a move to plan-backups, a move     *)
(* into the Library, a link.  ChangeEngine and FileOps model how they are  *)
(* executed; here each is one step.                                        *)
(***************************************************************************)
Away(p) == [op |-> "away", at |-> p, to |-> <<>>, expects |-> {}]
Host(p, t) == [op |-> "host", at |-> p, to |-> t, expects |-> {}]
LinkAt(p, t, content) == [op |-> "link", at |-> p, to |-> t, expects |-> content]

CanExecute(d, o) ==
    IF o.op = "link"
    THEN ~HasEntry(d, o.at) /\ Exists(d, o.to) /\ Fingerprint(d, o.to) = o.expects
    ELSE HasEntry(d, o.at) /\ (o.op = "host" => ~HasEntry(d, o.to))

Without(d, p) == [q \in {r \in DOMAIN d : ~Within(r, p)} |-> d[q]]
Execute(d, o) ==
    LET from == EntryPath(d, o.at)
        moved == {q \in DOMAIN d : Within(q, from)}
        rest == Without(d, from)
    IN  CASE o.op = "away" -> rest
          [] o.op = "link" -> rest @@ (from :> LinkTo(o.to))
          [] o.op = "host" ->
                rest @@ [q \in {o.to \o Rest(r, from) : r \in moved} |-> d[from \o Rest(q, o.to)]]
=============================================================================
