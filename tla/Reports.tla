------------------------------ MODULE Reports -------------------------------
(***************************************************************************)
(* Reports as an Agent works with them (report_command and report_actions  *)
(* in src/app.rs, source-root confirm and revoke in src/source_policy.rs): *)
(* Scans and Reports follow one another while the Agent pages through a    *)
(* finding of an earlier Report, and grants or revokes permissions to read *)
(* the directories that escaping links lead to.                            *)
(*                                                                         *)
(* On the disk a placement is local, with its facts, or a link to a        *)
(* directory outside every approved root, with the facts a Scan records of *)
(* it with and without permission.  An external directory is present or    *)
(* not; its replacement by another is left to SourceScan.  No Apply runs.  *)
(***************************************************************************)
EXTENDS Findings

CONSTANTS Disks,         \* what the placements may be
          Standing,      \* directories that may be permitted from the start
          RootsAt,       \* what the n-th Scan finds of roots and sessions
          FirstTargets,  \* targets a finding lists before it lists a page's: 10
          PageLimit,     \* --limit of a finding's pages
          Opened,        \* the kinds of findings the Agent opens
          MaxScans, MaxEdits, MaxPolicies  \* bounds: Scans; changes of files; grants and revocations

VARIABLES disk,      \* placement -> [place, fact] or [place, target, fact, unread]
          allowed,   \* standing permissions: <<directory, number>>
          scans,     \* completed Snapshots, oldest first: facts, and the permissions it used
          reports,   \* the Reports, oldest first: the Snapshot and its findings in order
          view,      \* the finding being paged through, and what its pages offered
          edits, policies
reportVars == <<disk, allowed, scans, reports, view, edits, policies>>

NoView == [report |-> 0]
Latest == Len(scans)
Current == scans[Latest]
LatestReport == Len(reports)

Links == {p \in DOMAIN disk : disk[p].place = "external"}
Linked == {disk[p].target : p \in Links}
Directories(permissions) == {g[1] : g \in permissions}
FactOnDisk(p) ==
    IF p \in Links /\ disk[p].target \notin Directories(allowed) THEN disk[p].unread ELSE disk[p].fact
SnapshotNow(n) ==
               [facts |-> [at |-> [p \in DOMAIN disk |-> FactOnDisk(p)], roots |-> RootsAt[n].roots,
                           whole |-> RootsAt[n].whole, used |-> RootsAt[n].used],
                used |-> {g \in allowed : \E p \in Links : disk[p].target = g[1]}]

ReportsInit ==
    /\ disk \in Disks /\ allowed \in SUBSET {<<d, 0>> : d \in Standing \intersect Linked}
    /\ scans = <<SnapshotNow(1)>> /\ reports = <<>> /\ view = NoView
    /\ edits = 0 /\ policies = 0

(* require_snapshot_current: every permission the Snapshot read through    *)
(* still stands.                                                           *)
SnapshotCurrent == Current.used \subseteq allowed

Edit ==
    /\ edits < MaxEdits /\ edits' = edits + 1
    /\ disk' \in Disks \ {disk}
    /\ Cardinality({p \in DOMAIN disk \union DOMAIN disk' :
                      p \notin DOMAIN disk \/ p \notin DOMAIN disk' \/ disk[p] # disk'[p]}) = 1
    /\ UNCHANGED <<allowed, scans, reports, view, policies>>

Scan ==
    /\ Latest < MaxScans /\ scans' = Append(scans, SnapshotNow(Latest + 1))
    /\ UNCHANGED <<disk, allowed, reports, view, edits, policies>>

(* The latest Report is returned again when it is of the latest Snapshot.  *)
Report ==
    /\ SnapshotCurrent
    /\ LatestReport # 0 => reports[LatestReport].scan # Latest
    /\ reports' = Append(reports, [scan |-> Latest, findings |-> Prioritized(Current.facts)])
    /\ UNCHANGED <<disk, allowed, scans, view, edits, policies>>

-----------------------------------------------------------------------------
(* report --finding: one page of a finding of any Report.                  *)
InTurn(P) == SelectSeq(Placements, LAMBDA p : p \in P)
FactsOf(r) == scans[reports[r].scan].facts
PageOf(f, offset) == ToSet(Page(InTurn(f.placements), offset, PageLimit))
Total(f) == Max({Cardinality(f.skills), Cardinality(f.placements)})

(* add_finding_resolution and the confirmations of report_actions.         *)
FirstOfThem(r, f, offset) ==
    IF f.kind # "escaping_links" THEN {}
    ELSE Targets(FactsOf(r), ToSet(Page(InTurn(f.placements), 0, FirstTargets)))
Asked(r, f, offset) ==
    IF f.kind # "escaping_links" THEN {}
    ELSE IF Cardinality(Targets(FactsOf(r), f.placements)) > FirstTargets
         THEN Targets(FactsOf(r), PageOf(f, offset))
         ELSE Targets(FactsOf(r), f.placements)

(* finding_continuity: placements are the only thing that joins a finding  *)
(* of an earlier Report to the findings of the latest.                     *)
Unavailable(reason) == [status |-> reason, of |-> Latest, findings |-> {}, missing |-> {}]
Still(f) == f.placements \intersect DOMAIN Current.facts.at
ContinuedByAny(r, f) ==
    IF LatestReport = r THEN Unavailable("no_newer_report")
    ELSE [status |-> "available", of |-> Latest,
          findings |-> {g \in ToSet(reports[LatestReport].findings) : g.placements \intersect Still(f) # {}},
          missing |-> f.placements \ Still(f)]
Continuity(r, f) ==
    CASE LatestReport = r -> Unavailable("no_newer_report")
      [] LatestReport # r /\ reports[LatestReport].scan # Latest -> Unavailable("latest_report_stale")
      [] OTHER ->
            [status |-> "available", of |-> Latest,
             findings |-> {g \in ToSet(reports[LatestReport].findings) : g.placements \intersect Still(f) # {}},
             missing |-> f.placements \ Still(f)]

(* finding_library_planning: only in the Snapshot of now. *)
PlanOfferedEver(r, f) == Canonical(FactsOf(r), f) # {}
PlanOffered(r, f) == reports[r].scan = Latest /\ Canonical(FactsOf(r), f) # {}

Shown(r, f, offset) ==
    [report |-> r, finding |-> f, offset |-> offset,
     more |-> offset + PageLimit < Total(f),
     asked |-> Asked(r, f, offset), plan |-> PlanOffered(r, f), continuity |-> Continuity(r, f)]

OpenFinding(r, i) ==
    /\ SnapshotCurrent /\ reports[r].findings[i].kind \in Opened
    /\ view' = Shown(r, reports[r].findings[i], 0)
    /\ UNCHANGED <<disk, allowed, scans, reports, edits, policies>>

(* list_more_finding_detail *)
NextPage ==
    /\ SnapshotCurrent /\ view # NoView /\ view.more
    /\ LET next == Shown(view.report, view.finding, view.offset + PageLimit)
       IN  view' = [next EXCEPT !.asked = @ \union view.asked]
    /\ UNCHANGED <<disk, allowed, scans, reports, edits, policies>>

-----------------------------------------------------------------------------
(* source-root confirm: by an escaping-link finding of the latest Snapshot *)
(* and a directory one of that Snapshot's links was seen to lead to.       *)
Observable == {Current.facts.at[p].target : p \in {p \in DOMAIN Current.facts.at : Current.facts.at[p].link = "escapes"}}
Confirm(r, d) ==
    /\ SnapshotCurrent /\ policies < MaxPolicies /\ policies' = policies + 1
    /\ reports[r].scan = Latest
    /\ \E i \in DOMAIN reports[r].findings : reports[r].findings[i].kind = "escaping_links"
    /\ d \in Observable \ Directories(allowed) /\ allowed' = allowed \union {<<d, policies>>}
    /\ UNCHANGED <<disk, scans, reports, view, edits>>

Revoke(g) ==
    /\ g \in allowed /\ policies < MaxPolicies /\ policies' = policies + 1
    /\ allowed' = allowed \ {g}
    /\ UNCHANGED <<disk, scans, reports, view, edits>>

ReportsNext ==
    \/ Edit \/ Scan \/ Report \/ NextPage
    \/ \E r \in DOMAIN reports : \E i \in DOMAIN reports[r].findings : OpenFinding(r, i)
    \/ \E r \in DOMAIN reports : \E d \in Observable : Confirm(r, d)
    \/ \E g \in allowed : Revoke(g)

ReportsSpec == ReportsInit /\ [][ReportsNext]_reportVars

(***************************************************************************)
(* Properties.                                                             *)
(***************************************************************************)
(* Whatever Scans and Reports come between two pages of an escaping-link   *)
(* finding, after the last the Agent has been asked about exactly the      *)
(* directories the finding's own Snapshot saw, also those a bounded list   *)
(* leaves out (docs/product-spec.md:495-499).                              *)
EveryTargetAsked ==
    view # NoView /\ ~view.more /\ view.finding.kind = "escaping_links" =>
        view.asked = {FactsOf(view.report).at[p].target :
                         p \in {p \in DOMAIN FactsOf(view.report).at : FactsOf(view.report).at[p].link = "escapes"}}

(* A finding of an earlier Report is continued only in the Report of the   *)
(* Snapshot that is then the latest; every finding there that affects one  *)
(* of its placements is named, and a placement not named as missing is one *)
(* of that Snapshot (docs/product-spec.md:874-881).                        *)
ContinuityHolds ==
    view # NoView /\ view.continuity.status = "available" =>
        LET newer == {r \in DOMAIN reports : reports[r].scan = view.continuity.of} IN
        \E r \in newer :
            /\ r # view.report /\ reports[view.report].scan < reports[r].scan
            /\ \A p \in view.finding.placements :
                  \/ p \in view.continuity.missing /\ p \notin DOMAIN FactsOf(r).at
                  \/ /\ p \in DOMAIN FactsOf(r).at /\ p \notin view.continuity.missing
                     /\ \A g \in ToSet(reports[r].findings) : p \in g.placements => g \in view.continuity.findings

(* What a Report's list calls ready to be planned is offered as a Plan     *)
(* when it is opened while its Snapshot is still the latest, and nothing   *)
(* else is: neither what the list calls otherwise, nor a finding of an     *)
(* earlier Snapshot.                                                       *)
PlansAreCurrent ==
    view # NoView =>
        (view.plan <=> /\ reports[view.report].scan = view.continuity.of
                       /\ Actionability(FactsOf(view.report), view.finding, FALSE) = "plan_available")

(* Of every Snapshot when it is first reported: its first view, its lists, *)
(* its roll-ups and what it says of its own coverage.                      *)
ViewsShowAll ==
    view = NoView /\ LatestReport # 0 /\ reports[LatestReport].scan = Latest =>
        /\ FirstViewIsWorst(Current.facts)
        /\ CoverageAgrees(Current.facts) /\ RollupsCount(Current.facts)
        /\ \A c \in {"any", "layout", "lifecycle"} : NothingHidden(Current.facts, c, 2)
=============================================================================
