----------------------------- MODULE ReportsProofs -----------------------------
(***************************************************************************)
(* Proofs about Reports, for any placements, Snapshots and findings: what  *)
(* a page of a finding says of later Reports and of Plans was so when the  *)
(* page was given.  Which findings a Report has plays no part.             *)
(***************************************************************************)
EXTENDS Reports, TLAPS

(* Snapshots and Reports are numbered in the order they were made, and of  *)
(* each Snapshot there is one Report at most.                              *)
Ordered ==
    /\ scans \in Seq(ToSet(scans)) /\ Len(scans) > 0
    /\ reports \in Seq(ToSet(reports))
    /\ \A r \in DOMAIN reports : reports[r].scan \in 1 .. Latest
    /\ \A q, r \in DOMAIN reports : q < r => reports[q].scan < reports[r].scan

(* The finding g of another Report goes on with what is left of f there.   *)
LeftIn(r, f) == f.placements \intersect DOMAIN FactsOf(r).at
GoneOnIn(r, f) == {g \in ToSet(reports[r].findings) : g.placements \intersect LeftIn(r, f) # {}}

(* What the page says, by the Report that was the latest when it was given *)
(* and by the Snapshot that was.                                           *)
PlanShown ==
    view.plan <=> /\ reports[view.report].scan = view.continuity.of
                  /\ Canonical(FactsOf(view.report), view.finding) # {}
ContinuityShown ==
    view.continuity.status = "available" =>
        \E r \in DOMAIN reports :
            /\ view.report < r /\ reports[r].scan = view.continuity.of
            /\ view.continuity.findings = GoneOnIn(r, view.finding)
            /\ view.continuity.missing = view.finding.placements \ LeftIn(r, view.finding)
ViewFormed ==
    view # NoView =>
        /\ view.report \in DOMAIN reports /\ view.continuity.of \in 1 .. Latest
        /\ PlanShown /\ ContinuityShown

RInv == Ordered /\ ViewFormed

-----------------------------------------------------------------------------
(* A sequence that one element is added to.                                *)
LEMMA AppendIs ==
  ASSUME NEW s, s \in Seq(ToSet(s)), NEW e
  PROVE  /\ Append(s, e) \in Seq(ToSet(Append(s, e)))
         /\ Len(s) \in Nat /\ Len(Append(s, e)) = Len(s) + 1
         /\ DOMAIN s = 1 .. Len(s) /\ DOMAIN Append(s, e) = 1 .. Len(s) + 1
         /\ \A i \in 1 .. Len(s) : Append(s, e)[i] = s[i]
         /\ Append(s, e)[Len(s) + 1] = e
  <1>1. /\ Append(s, e) \in Seq(ToSet(s) \union {e})
        /\ Len(s) \in Nat /\ Len(Append(s, e)) = Len(s) + 1
        /\ DOMAIN s = 1 .. Len(s) /\ DOMAIN Append(s, e) = 1 .. Len(s) + 1
        /\ \A i \in 1 .. Len(s) : Append(s, e)[i] = s[i]
        /\ Append(s, e)[Len(s) + 1] = e
    OBVIOUS
  <1>2. Append(s, e) \in Seq(ToSet(Append(s, e)))
    BY <1>1 DEF ToSet
  <1> QED  BY <1>1, <1>2

LEMMA InitRInv == ReportsInit => RInv
  <1> SUFFICES ASSUME ReportsInit PROVE RInv
    OBVIOUS
  <1>1. PICK one_ : scans = <<one_>> /\ reports = <<>> /\ view = NoView
    BY DEF ReportsInit
  <1>2. Ordered
    BY <1>1 DEF Ordered, ToSet, Latest
  <1> QED  BY <1>1, <1>2 DEF RInv, ViewFormed

(* The facts a Report was made of, and those of the latest Snapshot.       *)
LEMMA LatestFacts ==
  ASSUME Ordered, NEW r \in DOMAIN reports, reports[r].scan = Latest
  PROVE  r = LatestReport /\ FactsOf(r) = Current.facts
  <1>1. DOMAIN reports = 1 .. LatestReport /\ LatestReport \in Nat
    BY DEF Ordered, LatestReport
  <1>2. LatestReport \in DOMAIN reports /\ (r < LatestReport => Latest < reports[LatestReport].scan)
    BY <1>1 DEF Ordered
  <1>3. reports[LatestReport].scan \in 1 .. Latest /\ Latest \in Nat
    BY <1>2 DEF Ordered, Latest
  <1> QED  BY <1>1, <1>2, <1>3 DEF FactsOf, Current

(* A page that is given says what is so.                                   *)
LEMMA ShownIsSo ==
  ASSUME RInv, NEW r \in DOMAIN reports, NEW f, NEW offset, NEW asked,
         UNCHANGED <<scans, reports>>, view' = [Shown(r, f, offset) EXCEPT !.asked = asked]
  PROVE  RInv'
  <1>1. /\ view'.report = r /\ view'.finding = f
        /\ view'.plan = PlanOffered(r, f) /\ view'.continuity = Continuity(r, f)
    BY DEF Shown
  <1>2. Continuity(r, f).of = Latest
    BY DEF Continuity, Unavailable
  <1>3. Latest \in 1 .. Latest
    BY DEF RInv, Ordered, Latest
  <1>4. PlanShown'
    BY <1>1, <1>2 DEF PlanShown, PlanOffered, FactsOf
  <1>5. ContinuityShown'
    <2>1. SUFFICES ASSUME Continuity(r, f).status = "available"
                   PROVE  /\ LatestReport \in DOMAIN reports /\ r < LatestReport
                          /\ reports[LatestReport].scan = Latest
                          /\ Continuity(r, f).findings = GoneOnIn(LatestReport, f)
                          /\ Continuity(r, f).missing = f.placements \ LeftIn(LatestReport, f)
      BY <1>1, <1>2 DEF ContinuityShown, GoneOnIn, LeftIn, FactsOf
    <2>2. LatestReport # r /\ reports[LatestReport].scan = Latest
      BY <2>1 DEF Continuity, Unavailable
    <2>3. DOMAIN reports = 1 .. LatestReport /\ LatestReport \in Nat
      BY DEF RInv, Ordered, LatestReport
    <2>4. LatestReport \in DOMAIN reports /\ r < LatestReport
      BY <2>2, <2>3
    <2>5. FactsOf(LatestReport) = Current.facts
      BY <2>2, <2>4, LatestFacts DEF RInv
    <2>6. /\ Continuity(r, f).findings = {g \in ToSet(reports[LatestReport].findings) :
                                            g.placements \intersect Still(f) # {}}
          /\ Continuity(r, f).missing = f.placements \ Still(f)
      BY <2>2 DEF Continuity
    <2>7. Still(f) = LeftIn(LatestReport, f)
      BY <2>5 DEF Still, LeftIn
    <2> QED  BY <2>2, <2>4, <2>6, <2>7 DEF GoneOnIn
  <1> QED  BY <1>1, <1>2, <1>3, <1>4, <1>5 DEF RInv, Ordered, ViewFormed, Latest

LEMMA ScanKeeps == RInv /\ Scan => RInv'
  <1> SUFFICES ASSUME RInv, Scan PROVE RInv'
    OBVIOUS
  <1>1. PICK new : scans' = Append(scans, new)
    BY DEF Scan
  <1>2. reports' = reports /\ view' = view
    BY DEF Scan
  <1>3. /\ scans' \in Seq(ToSet(scans')) /\ Latest \in Nat /\ Len(scans') = Latest + 1
        /\ \A i \in 1 .. Latest : scans'[i] = scans[i]
    BY <1>1, AppendIs DEF RInv, Ordered, Latest
  <1>4. \A r \in DOMAIN reports : reports[r].scan \in 1 .. Latest
    BY DEF RInv, Ordered
  <1>5. Ordered'
    BY <1>2, <1>3, <1>4 DEF RInv, Ordered, Latest
  <1>6. \A r \in DOMAIN reports : scans'[reports[r].scan].facts = scans[reports[r].scan].facts
    BY <1>3, <1>4
  <1>7. ViewFormed'
    <2>1. SUFFICES ASSUME view # NoView PROVE ViewFormed'
      BY <1>2 DEF ViewFormed
    <2>2. view.report \in DOMAIN reports /\ view.continuity.of \in 1 .. Latest /\ PlanShown /\ ContinuityShown
      BY <2>1 DEF RInv, ViewFormed
    <2>3. PlanShown'
      BY <1>2, <1>6, <2>2 DEF PlanShown, FactsOf
    <2>4. ContinuityShown'
      BY <1>2, <1>6, <2>2 DEF ContinuityShown, GoneOnIn, LeftIn, FactsOf
    <2> QED  BY <1>2, <1>3, <2>2, <2>3, <2>4 DEF ViewFormed, Latest
  <1> QED  BY <1>5, <1>7 DEF RInv

LEMMA ReportKeeps == RInv /\ Report => RInv'
  <1> SUFFICES ASSUME RInv, Report PROVE RInv'
    OBVIOUS
  <1>1. PICK new : reports' = Append(reports, new) /\ new.scan = Latest
    BY DEF Report
  <1>2. scans' = scans /\ view' = view /\ (LatestReport # 0 => reports[LatestReport].scan # Latest)
    BY DEF Report
  <1>3. /\ reports' \in Seq(ToSet(reports')) /\ LatestReport \in Nat
        /\ DOMAIN reports = 1 .. LatestReport /\ DOMAIN reports' = 1 .. LatestReport + 1
        /\ \A i \in 1 .. LatestReport : reports'[i] = reports[i]
        /\ reports'[LatestReport + 1] = new
    BY <1>1, AppendIs DEF RInv, Ordered, LatestReport
  <1>4. Latest \in Nat \ {0}
    BY DEF RInv, Ordered, Latest
  <1>5. \A q \in DOMAIN reports : reports[q].scan < Latest
    <2>1. \A q \in DOMAIN reports : reports[q].scan \in 1 .. Latest
      BY DEF RInv, Ordered
    <2>2. \A q \in DOMAIN reports : reports[q].scan # Latest
      BY <1>2, <1>3, LatestFacts DEF RInv
    <2> QED  BY <1>4, <2>1, <2>2
  <1>6. Ordered'
    BY <1>1, <1>2, <1>3, <1>4, <1>5 DEF RInv, Ordered, Latest
  <1>7. ViewFormed'
    <2>1. SUFFICES ASSUME view # NoView PROVE ViewFormed'
      BY <1>2 DEF ViewFormed
    <2>2. view.report \in DOMAIN reports /\ view.continuity.of \in 1 .. Latest /\ PlanShown /\ ContinuityShown
      BY <2>1 DEF RInv, ViewFormed
    <2>3. \A r \in DOMAIN reports : r \in DOMAIN reports' /\ reports'[r] = reports[r]
      BY <1>3
    <2>4. PlanShown'
      BY <1>2, <2>2, <2>3 DEF PlanShown, FactsOf
    <2>5. ContinuityShown'
      BY <1>2, <2>2, <2>3 DEF ContinuityShown, GoneOnIn, LeftIn, FactsOf
    <2> QED  BY <1>2, <2>2, <2>3, <2>4, <2>5 DEF ViewFormed, Latest
  <1> QED  BY <1>6, <1>7 DEF RInv

(* The disk and the permissions do not matter to what was said.            *)
LEMMA OthersKeep ==
  ASSUME RInv, UNCHANGED <<scans, reports, view>>
  PROVE  RInv'
  BY DEF RInv, Ordered, Latest, ViewFormed, PlanShown, ContinuityShown, GoneOnIn, LeftIn, FactsOf

LEMMA OpenKeeps ==
  ASSUME RInv, NEW r \in DOMAIN reports, NEW i, OpenFinding(r, i)
  PROVE  RInv'
  <1>1. PICK f : view' = Shown(r, f, 0) /\ UNCHANGED <<scans, reports>>
    BY DEF OpenFinding
  <1>2. Shown(r, f, 0) = [Shown(r, f, 0) EXCEPT !.asked = Asked(r, f, 0)]
    BY DEF Shown
  <1> QED  BY <1>1, <1>2, ShownIsSo

LEMMA NextPageKeeps == RInv /\ NextPage => RInv'
  <1> SUFFICES ASSUME RInv, NextPage PROVE RInv'
    OBVIOUS
  <1>1. PICK r, f, offset, asked :
           r = view.report /\ view' = [Shown(r, f, offset) EXCEPT !.asked = asked]
    BY DEF NextPage
  <1>2. r \in DOMAIN reports /\ UNCHANGED <<scans, reports>>
    BY <1>1 DEF NextPage, RInv, ViewFormed
  <1> QED  BY <1>1, <1>2, ShownIsSo

LEMMA NextRInv == RInv /\ [ReportsNext]_reportVars => RInv'
  <1> SUFFICES ASSUME RInv, [ReportsNext]_reportVars PROVE RInv'
    OBVIOUS
  <1>1. CASE Edit
    BY <1>1, OthersKeep DEF Edit
  <1>2. CASE Scan
    BY <1>2, ScanKeeps
  <1>3. CASE Report
    BY <1>3, ReportKeeps
  <1>4. CASE NextPage
    BY <1>4, NextPageKeeps
  <1>5. ASSUME NEW r \in DOMAIN reports, NEW i \in DOMAIN reports[r].findings, OpenFinding(r, i) PROVE RInv'
    BY <1>5, OpenKeeps
  <1>6. ASSUME NEW r \in DOMAIN reports, NEW d \in Observable, Confirm(r, d) PROVE RInv'
    BY <1>6, OthersKeep DEF Confirm
  <1>7. ASSUME NEW g \in allowed, Revoke(g) PROVE RInv'
    BY <1>7, OthersKeep DEF Revoke
  <1>8. CASE UNCHANGED reportVars
    BY <1>8, OthersKeep DEF reportVars
  <1> QED  BY <1>1, <1>2, <1>3, <1>4, <1>5, <1>6, <1>7, <1>8 DEF ReportsNext

-----------------------------------------------------------------------------
(* Only copies of a Skill whose every placement may be changed, and one of *)
(* them owned, are called ready for a Plan.                                *)
LEMMA ReadyForPlan ==
  ASSUME NEW s, NEW f
  PROVE  Actionability(s, f, FALSE) = "plan_available" <=> Canonical(s, f) # {}
  <1>1. CASE f.kind = "duplicates"
    <2>1. Actionability(s, f, FALSE) = IF AllMutable(s, f) /\ SomeOwned(s, f) THEN "plan_available" ELSE "blocked"
      BY <1>1 DEF Actionability, DecisionOfKind, Reviewed, Blocking
    <2>2. Canonical(s, f) # {} <=> AllMutable(s, f) /\ SomeOwned(s, f)
      BY <1>1 DEF Canonical, SomeOwned
    <2> QED  BY <2>1, <2>2
  <1>2. CASE f.kind # "duplicates"
    <2>1. Canonical(s, f) = {}
      BY <1>2 DEF Canonical
    <2>2. DecisionOfKind(s, f) # "plan_available"
      BY <1>2 DEF DecisionOfKind
    <2>3. Actionability(s, f, FALSE) # "plan_available"
      BY <2>2 DEF Actionability
    <2> QED  BY <2>1, <2>3
  <1> QED  BY <1>1, <1>2

(* The inductive invariant holds in every state of the Agent's work.       *)
THEOREM ReportsInvariant == ReportsSpec => []RInv
  <1> QED  BY InitRInv, NextRInv, PTL DEF ReportsSpec

(* However Scans and Reports follow one another, a finding of an earlier   *)
(* Report is continued in one later Report, of the Snapshot that was the   *)
(* latest, and there completely: each of its placements is missing from    *)
(* that Snapshot, or every finding about it is named.                      *)
THEOREM FindingsGoOn == ReportsSpec => []ContinuityHolds
  <1>1. RInv => ContinuityHolds
    <2> SUFFICES ASSUME RInv, view # NoView, view.continuity.status = "available" PROVE ContinuityHolds
      BY DEF ContinuityHolds
    <2>1. PICK r \in DOMAIN reports :
             /\ view.report < r /\ reports[r].scan = view.continuity.of
             /\ view.continuity.findings = GoneOnIn(r, view.finding)
             /\ view.continuity.missing = view.finding.placements \ LeftIn(r, view.finding)
      BY DEF RInv, ViewFormed, ContinuityShown
    <2>2. view.report \in DOMAIN reports /\ DOMAIN reports = 1 .. Len(reports) /\ Len(reports) \in Nat
      BY DEF RInv, ViewFormed, Ordered
    <2>3. r # view.report /\ reports[view.report].scan < reports[r].scan
      BY <2>1, <2>2 DEF RInv, Ordered
    <2>4. ASSUME NEW p \in view.finding.placements
          PROVE  \/ p \in view.continuity.missing /\ p \notin DOMAIN FactsOf(r).at
                 \/ /\ p \in DOMAIN FactsOf(r).at /\ p \notin view.continuity.missing
                    /\ \A g \in ToSet(reports[r].findings) : p \in g.placements => g \in view.continuity.findings
      BY <2>1 DEF GoneOnIn, LeftIn
    <2> QED  BY <2>1, <2>3, <2>4 DEF ContinuityHolds
  <1> QED  BY <1>1, ReportsInvariant, PTL

(* A page offers a Plan exactly when the list calls its finding ready for  *)
(* one and its Report is of the Snapshot that was then the latest.         *)
THEOREM PlansWereCurrent == ReportsSpec => []PlansAreCurrent
  <1>1. RInv => PlansAreCurrent
    <2> SUFFICES ASSUME RInv, view # NoView PROVE PlansAreCurrent
      BY DEF PlansAreCurrent
    <2>1. PlanShown
      BY DEF RInv, ViewFormed
    <2>2. \A s, f : Actionability(s, f, FALSE) = "plan_available" <=> Canonical(s, f) # {}
      BY ReadyForPlan
    <2> QED  BY <2>1, <2>2 DEF PlansAreCurrent, PlanShown
  <1> QED  BY <1>1, ReportsInvariant, PTL
=============================================================================
