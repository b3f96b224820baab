------------------------------ MODULE Findings ------------------------------
(***************************************************************************)
(* The findings of a Report (build_report in src/query.rs) and the views   *)
(* report_command in src/app.rs gives of them: what one Snapshot makes of  *)
(* its placements, the order of the findings, the first three of them, the *)
(* pages of the whole list, and what each allows to be done.               *)
(*                                                                         *)
(* A Snapshot is a record: facts of every placement (at), the Skill and    *)
(* session roots with what observing each came to (roots), the Agents      *)
(* whose session files were all read in full (whole), and the Skills that  *)
(* have usage (used: a set of <<Skill, Agent>>).  A finding is a kind, the *)
(* Skills and the placements it affects; evidence counts as one record a   *)
(* placement.                                                              *)
(***************************************************************************)
EXTENDS Integers, Sequences, SequencesExt, FiniteSetsExt

CONSTANTS Placements,   \* in the order a Scan materializes them
          Agents,
          NoSource, NoRevision,
          Similar,      \* pairs of Skills whose routing vocabularies overlap
          LargeRoster,  \* exposed placements an Agent may have: 50
          FirstView     \* findings of the first view: 3

ASSUME FindingsAssumption == LargeRoster \in Nat /\ FirstView \in Nat

-----------------------------------------------------------------------------
(* The Skills of a Snapshot.                                               *)
PlacementsIn(s) == SelectSeq(Placements, LAMBDA p : p \in DOMAIN s.at)
SkillOf(s, p) == s.at[p].skill
SkillsAt(s, P) == {s.at[p].skill : p \in P}
PlacementsOfSkill(s, k) == {p \in DOMAIN s.at : s.at[p].skill = k}
Skills(s) == SkillsAt(s, DOMAIN s.at)

(* A Skill is described by the placement that was materialized first, a    *)
(* content of it by the first that holds that content.                     *)
FirstOf(s, P) == SelectSeq(PlacementsIn(s), LAMBDA p : p \in P)[1]
Primary(s, k) == s.at[FirstOf(s, PlacementsOfSkill(s, k))]
Observed(s, p) ==
    s.at[FirstOf(s, {q \in PlacementsOfSkill(s, s.at[p].skill) : s.at[q].identity = s.at[p].identity})]

-----------------------------------------------------------------------------
(* Roots, and what of them supports a statement about what is absent.      *)
RootsOf(s, kind) == {r \in s.roots : r.kind = kind}
WithStatus(s, kind, status) == {r \in RootsOf(s, kind) : r.status = status}
Bounded(s) == {r \in WithStatus(s, "skills", "included") : ~r.whole}
AgentsOf(roots) == {r.agent : r \in roots} \intersect Agents   \* a shared root has none

(* scan_sessions keeps a coverage row of every Agent it is not told to     *)
(* leave out; the denominator is reliable if nothing limited what it read. *)
Sampled(s) == Agents \ AgentsOf(WithStatus(s, "sessions", "excluded"))
Reliable(s) ==
    {a \in Sampled(s) \intersect s.whole :
        /\ a \in AgentsOf(WithStatus(s, "sessions", "included"))
        /\ a \notin AgentsOf(WithStatus(s, "sessions", "missing"))
        /\ a \notin AgentsOf(WithStatus(s, "sessions", "inaccessible"))}
UsedSkills(s) == {u[1] : u \in s.used}

-----------------------------------------------------------------------------
(* Kinds.                                                                  *)
Kinds ==
    [roots_inaccessible    |-> <<"inventory", 3, 2>>, roots_bounded     |-> <<"inventory", 3, 2>>,
     incomplete_packages   |-> <<"inventory", 3, 2>>, broken_links      |-> <<"layout", 4, 2>>,
     escaping_links        |-> <<"layout", 4, 2>>,    same_name         |-> <<"layout", 3, 2>>,
     declared_identity     |-> <<"layout", 4, 2>>,    name_mismatch     |-> <<"layout", 2, 2>>,
     large_roster          |-> <<"exposure", 3, 2>>,  usage             |-> <<"usage", 1, 0>>,
     usage_incomplete      |-> <<"usage", 1, 0>>,     duplicates        |-> <<"overlap", 3, 2>>,
     similar               |-> <<"overlap", 2, 1>>,   missing_metadata  |-> <<"routing", 2, 2>>,
     executables           |-> <<"lifecycle", 1, 2>>, unknown_source    |-> <<"lifecycle", 2, 2>>,
     upstream_unverified   |-> <<"lifecycle", 1, 0>>, version_divergence |-> <<"lifecycle", 3, 2>>,
     management_state      |-> <<"lifecycle", 2, 0>>, stale_candidates  |-> <<"lifecycle", 2, 1>>,
     archive_unknown       |-> <<"lifecycle", 1, 0>>]
Category(f) == Kinds[f.kind][1]
Severity(f) == Kinds[f.kind][2]
Quality(f) == Kinds[f.kind][3]
Info == 1

OfSkills(kind, K) == [kind |-> kind, skills |-> K, placements |-> {}]
OfPlacements(s, kind, P) == [kind |-> kind, skills |-> SkillsAt(s, P), placements |-> P]
OnePer(s, kind, P) == IF P = {} THEN {} ELSE {OfPlacements(s, kind, P)}
OneFor(kind, K) == IF K = {} THEN {} ELSE {OfSkills(kind, K)}

InventoryFindings(s) ==
    (IF WithStatus(s, "skills", "inaccessible") # {} THEN {OfSkills("roots_inaccessible", {})} ELSE {})
      \union (IF Bounded(s) # {} THEN {OfSkills("roots_bounded", {})} ELSE {})
      \union OnePer(s, "incomplete_packages",
                    {p \in DOMAIN s.at : s.at[p].link \in {"none", "valid"} /\ ~s.at[p].complete})

(* One finding for every set of Skills that share a name, whatever names   *)
(* they share it under; only if the content of each is known.              *)
Named(s, n) == {p \in DOMAIN s.at : Observed(s, p).name = n}
Names(s) == {Observed(s, p).name : p \in DOMAIN s.at}
Divergent(s, P) ==
    /\ Cardinality(SkillsAt(s, P)) > 1
    /\ \A p \in P : s.at[p].complete
    /\ Cardinality({s.at[p].identity : p \in P}) > 1
DivergentSets(s) == {SkillsAt(s, Named(s, n)) : n \in {n \in Names(s) : Divergent(s, Named(s, n))}}
NamesOf(s, K) == {n \in Names(s) : Divergent(s, Named(s, n)) /\ SkillsAt(s, Named(s, n)) = K}

LayoutFindings(s) ==
    OnePer(s, "broken_links", {p \in DOMAIN s.at : s.at[p].link = "broken"})
      \union OnePer(s, "escaping_links", {p \in DOMAIN s.at : s.at[p].link = "escapes"})
      \union {OfPlacements(s, "same_name",
                           {p \in DOMAIN s.at : SkillOf(s, p) \in K /\ Observed(s, p).name \in NamesOf(s, K)})
              : K \in DivergentSets(s)}
      \union {OfPlacements(s, "declared_identity", PlacementsOfSkill(s, k)) : k \in
                {k \in Skills(s) : /\ Primary(s, k).source # NoSource
                                   /\ \E p, q \in PlacementsOfSkill(s, k) : s.at[p].package # s.at[q].package}}
      \union OnePer(s, "name_mismatch", {p \in DOMAIN s.at : s.at[p].misnamed})

ExposedTo(s, a) == {p \in DOMAIN s.at : s.at[p].exposed /\ s.at[p].agent = a}
ExposureFindings(s) ==
    OnePer(s, "large_roster",
           UNION {ExposedTo(s, a) : a \in {a \in Agents : Cardinality(ExposedTo(s, a)) > LargeRoster}})

UsageFindings(s) ==
    {OfSkills("usage", UsedSkills(s))}
      \union (IF Agents \subseteq Reliable(s) THEN {} ELSE {OfSkills("usage_incomplete", {})})

(* Copies of one package in directories of their own. *)
Copies(s, k) ==
    {P \in SUBSET PlacementsOfSkill(s, k) :
        /\ \E p \in P : P = {q \in PlacementsOfSkill(s, k) : s.at[q].package = s.at[p].package}
        /\ Cardinality({s.at[p].dir : p \in P}) > 1}
OverlapFindings(s) ==
    (UNION {{OfPlacements(s, "duplicates", P) : P \in Copies(s, k)} :
               k \in {k \in Skills(s) : \A p \in PlacementsOfSkill(s, k) : s.at[p].complete}})
      \union {OfSkills("similar", K) : K \in {K \in Similar :
                  /\ K \subseteq Skills(s)
                  /\ \A i, j \in K : i # j => /\ Primary(s, i).name # Primary(s, j).name
                                              /\ Primary(s, i).package # Primary(s, j).package}}

RoutingFindings(s) == OneFor("missing_metadata", {k \in Skills(s) : ~Primary(s, k).routed})

(* archive_skill_has_reliable_coverage *)
CoveredSkill(s, k) ==
    LET agents == {s.at[p].agent : p \in PlacementsOfSkill(s, k)} \intersect Agents
    IN  agents # {} /\ agents \subseteq Reliable(s)
StaleSkills(s) == {k \in Skills(s) : Primary(s, k).old /\ k \notin UsedSkills(s) /\ CoveredSkill(s, k)}

LifecycleFindings(s) ==
    LET sourced == {k \in Skills(s) : Primary(s, k).source # NoSource}
        from(x) == {k \in sourced : Primary(s, k).source = x}
        revisions(x) == {Primary(s, k).revision : k \in from(x)} \ {NoRevision}
        diverged == {x \in {Primary(s, k).source : k \in sourced} : Cardinality(revisions(x)) > 1}
        several == {k \in Skills(s) : Cardinality(PlacementsOfSkill(s, k)) > 1}
    IN  OnePer(s, "executables", {p \in DOMAIN s.at : s.at[p].executable})
          \union OneFor("unknown_source", Skills(s) \ sourced)
          \union OneFor("upstream_unverified", sourced)
          \union {OfSkills("version_divergence", from(x)) : x \in diverged}
          \union OnePer(s, "management_state", UNION {PlacementsOfSkill(s, k) : k \in several})
          \union OneFor("stale_candidates", StaleSkills(s))
          \union (IF StaleSkills(s) = {} /\ ~(Agents \subseteq Reliable(s))
                  THEN {OfSkills("archive_unknown", {})} ELSE {})

AllFindings(s) ==
    InventoryFindings(s) \union LayoutFindings(s) \union ExposureFindings(s) \union UsageFindings(s)
      \union OverlapFindings(s) \union RoutingFindings(s) \union LifecycleFindings(s)

-----------------------------------------------------------------------------
(* prioritize_report_findings.  What its order leaves open (kinds by name, *)
(* then identifiers, which are hashes) SortSeq decides.                    *)
Rank(f) == <<Severity(f), Quality(f), Cardinality(f.placements), Cardinality(f.skills)>>
Before(f, g) ==
    LET i == {i \in 1 .. 4 : Rank(f)[i] # Rank(g)[i]}
    IN  i # {} /\ Rank(f)[Min(i)] > Rank(g)[Min(i)]
Ranked(s) == SortSeq(FoldSet(LAMBDA f, list : Append(list, f), <<>>, AllFindings(s)), Before)

(* The first view takes the most severe, of one severity those of a        *)
(* category it does not have yet first.                                    *)
NewCategory(r, i) ==
    \A j \in 1 .. Len(r) :
        Category(r[j]) = Category(r[i]) /\ j # i => Severity(r[j]) <= Severity(r[i])
                                                    /\ (Severity(r[j]) = Severity(r[i]) => i < j)
AheadByCategory(r, i) ==
    {j \in 1 .. Len(r) :
        \/ NewCategory(r, j) /\ ~NewCategory(r, i)
        \/ (NewCategory(r, j) <=> NewCategory(r, i)) /\ j < i}
AheadOf(r, i) ==
    {j \in 1 .. Len(r) :
        \/ Severity(r[j]) > Severity(r[i])
        \/ /\ Severity(r[j]) = Severity(r[i])
           /\ \/ NewCategory(r, j) /\ ~NewCategory(r, i)
              \/ (NewCategory(r, j) <=> NewCategory(r, i)) /\ j < i}
Chosen(r, i) == Cardinality(AheadOf(r, i)) < FirstView
Prioritized(s) ==
    LET ranked == Ranked(s)
        at(which) == SelectSeq([i \in 1 .. Len(ranked) |-> i], LAMBDA i : Chosen(ranked, i) = which)
        pick(is) == [i \in DOMAIN is |-> ranked[is[i]]]
    IN  pick(at(TRUE)) \o pick(at(FALSE))

(* compact_report: the first view, without what is only information.       *)
Summary(fs) == LET serious == SelectSeq(fs, LAMBDA f : Severity(f) # Info)
               IN  SubSeq(serious, 1, IF Len(serious) < FirstView THEN Len(serious) ELSE FirstView)

(* paged_finding_report: families take turns. *)
Family(f) == f.kind
Turn(fs, i) == Cardinality({j \in 1 .. (i - 1) : Family(fs[j]) = Family(fs[i])})
FamilyStart(fs, i) == Min({j \in 1 .. Len(fs) : Family(fs[j]) = Family(fs[i])})
Interleaved(fs) ==
    LET earlier(i, j) == \/ Turn(fs, i) < Turn(fs, j)
                         \/ Turn(fs, i) = Turn(fs, j) /\ FamilyStart(fs, i) < FamilyStart(fs, j)
        order == SortSeq([i \in 1 .. Len(fs) |-> i], earlier)
    IN  [i \in 1 .. Len(fs) |-> fs[order[i]]]
Page(q, offset, limit) == SubSeq(q, offset + 1, IF offset + limit < Len(q) THEN offset + limit ELSE Len(q))
Listing(fs, category) ==
    Interleaved(SelectSeq(fs, LAMBDA f : category = "any" \/ Category(f) = category))

-----------------------------------------------------------------------------
(* finding_affected_agents                                                 *)
AgentsAt(s, f) ==
    {s.at[p].agent : p \in IF f.placements # {} THEN f.placements
                           ELSE {p \in DOMAIN s.at : SkillOf(s, p) \in f.skills}} \intersect Agents
AgentsBehind(s, f) ==
    CASE f.kind = "usage" -> {u[2] : u \in {u \in s.used : f.skills = {} \/ u[1] \in f.skills}} \union Sampled(s)
      [] f.kind \in {"usage_incomplete", "archive_unknown"} -> Sampled(s) \ Reliable(s)
      [] f.kind = "roots_inaccessible" -> AgentsOf(WithStatus(s, "skills", "inaccessible"))
      [] f.kind = "roots_bounded" -> AgentsOf(Bounded(s))
      [] OTHER -> {}
AffectedAgents(s, f) == AgentsAt(s, f) \union AgentsBehind(s, f)

(* finding_decision_state: what the kind of a finding, and for copies its  *)
(* placements, say can be done.                                            *)
AllMutable(s, f) == f.placements # {} /\ \A p \in f.placements : s.at[p].mutable
SomeOwned(s, f) == \E p \in f.placements : s.at[p].owns
Reviewed == {"same_name", "declared_identity", "large_roster", "similar", "missing_metadata",
             "unknown_source", "upstream_unverified", "version_divergence", "management_state",
             "stale_candidates", "name_mismatch"}
Blocking == {"roots_inaccessible", "roots_bounded", "incomplete_packages", "broken_links", "escaping_links"}
DecisionOfKind(s, f) ==
    CASE f.kind = "duplicates" -> IF AllMutable(s, f) /\ SomeOwned(s, f) THEN "plan_available" ELSE "blocked"
      [] f.kind \in Reviewed -> "review_required"
      [] f.kind \in Blocking -> "blocked"
      [] OTHER -> "read_only"

(* finding_decision_facts: the planning of a large roster (RosterFindings) *)
(* decides it (planned), and an archive candidate needs the sessions of    *)
(* every Agent that has the Skill.                                         *)
Actionability(s, f, planned) ==
    CASE f.kind = "large_roster" -> IF planned THEN "plan_available" ELSE "blocked"
      [] f.kind = "stale_candidates" /\ ~(f.skills # {} /\ \A k \in f.skills : CoveredSkill(s, k)) -> "read_only"
      [] OTHER -> DecisionOfKind(s, f)

-----------------------------------------------------------------------------
(* finding_coverage: which observation a finding rests on, and what that   *)
(* one says of every Agent.                                                *)
Basis(f) ==
    IF f.kind \in {"usage", "usage_incomplete", "stale_candidates", "archive_unknown"}
    THEN "session_usage" ELSE "skill_root_scan"

Structural(s) ==
    LET limited == AgentsOf(WithStatus(s, "skills", "inaccessible") \union Bounded(s))
    IN  [basis |-> "skill_root_scan", limited |-> limited, reliable |-> Agents \ limited,
         missing |-> AgentsOf(WithStatus(s, "skills", "missing")),
         denominator |-> WithStatus(s, "skills", "inaccessible") = {} /\ Bounded(s) = {}]

SessionClass(s, a) ==
    LET has(status) == a \in AgentsOf(WithStatus(s, "sessions", status))
    IN  CASE has("inaccessible") -> "inaccessible"
          [] ~has("inaccessible") /\ has("excluded") -> "excluded"
          [] ~has("inaccessible") /\ ~has("excluded") /\ has("missing") -> "missing"
          [] OTHER -> IF a \in Reliable(s) THEN "reliable" ELSE IF a \in Sampled(s) THEN "limited" ELSE "missing"
OfClass(s, class) == {a \in Agents : SessionClass(s, a) = class}
SessionUsage(s) ==
    [basis |-> "session_usage", limited |-> OfClass(s, "limited"), reliable |-> OfClass(s, "reliable"),
     missing |-> OfClass(s, "missing"), denominator |-> OfClass(s, "reliable") = Agents]

Coverage(s, f) == IF Basis(f) = "session_usage" THEN SessionUsage(s) ELSE Structural(s)

(* finding_rollups: one line for the findings of a family (its kind gives  *)
(* the category and the severity), in order of their first.                *)
Rollups(s, fs) ==
    LET kinds == FoldLeft(LAMBDA ks, f : IF \E i \in DOMAIN ks : ks[i] = f.kind THEN ks
                                         ELSE Append(ks, f.kind), <<>>, fs)
        line(members) == [findings |-> Cardinality(members),
                          category |-> {Category(f) : f \in members},
                          severity |-> {Severity(f) : f \in members},
                          skills |-> UNION {f.skills : f \in members},
                          placements |-> UNION {f.placements : f \in members},
                          agents |-> UNION {AffectedAgents(s, f) : f \in members}]
    IN  [n \in DOMAIN kinds |-> line({f \in ToSet(fs) : f.kind = kinds[n]})]

(* primary_metrics: the counts a Report leads with.                        *)
Metrics(s) ==
    LET agents(status) == Sampled(s) \intersect AgentsOf(WithStatus(s, "sessions", status))
        present == agents("included")
        unreadable == agents("inaccessible")
    IN  [skills |-> Cardinality(Skills(s)), placements |-> Cardinality(DOMAIN s.at),
         exposure |-> Cardinality({p \in DOMAIN s.at : s.at[p].exposed}),
         used |-> Cardinality({u[2] : u \in s.used}),
         complete |-> Cardinality(Reliable(s)), roots |-> Cardinality(present),
         limited |-> Cardinality(present \ Reliable(s)), unreadable |-> Cardinality(unreadable),
         missing |-> Cardinality(agents("missing") \ (present \union unreadable))]

(* report_overview                                                         *)
Overview(s, fs) ==
    LET review == {i \in DOMAIN fs : Severity(fs[i]) # Info}
    IN  [state |-> IF review # {} THEN "review_available"
                   ELSE IF DOMAIN s.at = {} THEN "inventory_empty" ELSE "no_review_items",
         review |-> Cardinality(review), informational |-> Len(fs) - Cardinality(review),
         included |-> WithStatus(s, "skills", "included"), bounded |-> Bounded(s),
         inaccessible |-> WithStatus(s, "skills", "inaccessible")]

(* finding_library_planning, of a finding of the latest Snapshot: which    *)
(* placements may become the one copy.                                     *)
Canonical(s, f) ==
    IF f.kind = "duplicates" /\ AllMutable(s, f) THEN {p \in f.placements : s.at[p].owns} ELSE {}

(* The directories an escaping-link finding asks about. *)
Targets(s, P) == {s.at[p].target : p \in P}

(* The first view holds the most severe findings, and of two categories    *)
(* that tie for its last places it does not show one twice and the other   *)
(* not at all.                                                             *)
FirstViewIsWorst(s) ==
    LET all == AllFindings(s)
        shown == ToSet(Summary(Prioritized(s)))
    IN  \A f \in shown, g \in all \ shown :
            /\ Severity(f) >= Severity(g)
            /\ Severity(f) = Severity(g) /\ (\A h \in shown : Category(h) # Category(g))
                  => \A h \in shown \ {f} : Category(h) = Category(f) => Severity(h) < Severity(f)

(* The pages of a listing show every finding of its category once, and     *)
(* each family before any family a second time                             *)
(* (docs/agent-experience-spec.md:113-115).                                *)
NothingHidden(s, category, limit) ==
    LET list == Listing(Prioritized(s), category)
        pages == FlattenSeq([i \in 1 .. Len(list) |->
                               IF (i - 1) % limit = 0 THEN Page(list, i - 1, limit) ELSE <<>>])
    IN  /\ Len(pages) = Cardinality(ToSet(pages))
        /\ ToSet(pages) = {f \in AllFindings(s) : category = "any" \/ Category(f) = category}
        /\ \A i, j \in DOMAIN pages :
              i < j /\ Turn(pages, i) > 0 => Turn(pages, j) > 0

(* What a list says its absence of findings is worth agrees with what the  *)
(* same Report says is incomplete: the structural denominator is reliable  *)
(* only if no finding names a Skill root that was not read whole, the      *)
(* denominator of usage only if none says that usage is incomplete, an     *)
(* Agent is in one class of sessions, and a Skill is called a candidate    *)
(* for the archive only over the sessions of Agents called reliable        *)
(* (docs/product-spec.md:281-287); and the metrics the Report leads with   *)
(* leave no Agent out.                                                     *)
CoverageAgrees(s) ==
    LET all == AllFindings(s)
        kinds == {f.kind : f \in all}
        reliable == SessionUsage(s).reliable
        wholeUsage == SessionUsage(s).denominator
        wholeRoots == Structural(s).denominator
    IN  /\ wholeRoots <=> {"roots_inaccessible", "roots_bounded"} \intersect kinds = {}
        /\ wholeUsage <=> "usage_incomplete" \notin kinds
        /\ Metrics(s).complete = Cardinality(reliable)
        /\ Cardinality(Sampled(s)) <=
               Metrics(s).complete + Metrics(s).limited + Metrics(s).missing + Metrics(s).unreadable
        /\ \A f \in all :
              /\ f.kind = "stale_candidates" => AffectedAgents(s, f) \subseteq Coverage(s, f).reliable
              /\ f.kind = "usage_incomplete" =>
                     AffectedAgents(s, f) \union OfClass(s, "excluded") = Agents \ reliable

(* The roll-ups count every finding once, and a summary is empty only when *)
(* the overview says that there is nothing to review.                      *)
RollupsCount(s) ==
    LET fs == Prioritized(s)
        state == Overview(s, fs).state
    IN  \E rolled \in {Rollups(s, fs)} :
            /\ FoldFunction(LAMBDA x, n : x.findings + n, 0, rolled) = Len(fs)
            /\ \A f \in ToSet(fs) : \E n \in DOMAIN rolled :
                  /\ rolled[n].category = {Category(f)} /\ rolled[n].severity = {Severity(f)}
                  /\ AffectedAgents(s, f) \subseteq rolled[n].agents
            /\ Summary(fs) = <<>> <=> state # "review_available"
=============================================================================
