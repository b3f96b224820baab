--------------------------- MODULE RosterFindings ---------------------------
(***************************************************************************)
(* What a Report offers to do about large Rosters and exact duplicates,    *)
(* and what becomes of the offer (src/roster_recommendation.rs, and the    *)
(* planning of Findings in src/app.rs).  An Agent that lists more than     *)
(* MaxCore placements is to keep its most useful Skills and lose the rest; *)
(* the Report tries that on paper before it offers it.                     *)
(*                                                                         *)
(* Reports are read in full, so that no list in them is cut short.  The    *)
(* files stand still between the Scan, the Report and the Plan: Governance *)
(* and SourceScan have what happens when they do not.                      *)
(***************************************************************************)
EXTENDS Rosters

CONSTANTS MaxCore,       \* MAX_CORE_BUDGET, which is also what makes a Roster large
          Bootstrap,     \* Skills named "skillroster"
          SkillOrder,    \* all Skills, by name and id
          Evidence,      \* what the sessions may say: usage of a Skill by an Agent
          StoredRosters  \* Rosters of earlier Plans; the files may be back since

VARIABLES roster,   \* the stored roster entries
          used,       \* the usage evidence of the Snapshot
          offer     \* what the last Report offers
findingVars == <<disk, config, start, plan, ops, plans, roster, used, offer>>

NoOffer == [kind |-> "none", reason |-> "none", protected |-> {}, skill |-> <<>>, budget |-> MaxCore]

FindingInit ==
    /\ RosterInit /\ roster \in StoredRosters /\ used \in Evidence /\ offer = NoOffer

-----------------------------------------------------------------------------
(* The Findings: exposure_findings, and the part of overlap_findings about *)
(* copies.                                                                 *)
Exposed(found, a) == {c \in found : c.agent = a /\ c.exposed}
Oversized(found) == {a \in Agents : Cardinality(Exposed(found, a)) > MaxCore}
ListedSkills(found, a) == {c.skill : c \in Exposed(found, a)}

Duplicated(found) ==
    {s \in Skills : /\ \A c \in Of(found, s) : c.package # NoPackage
                    /\ \E c1, c2 \in Of(found, s) : Digest(c1) = Digest(c2) /\ Where(c1) # Where(c2)}

(***************************************************************************)
(* recommend                                                               *)
(***************************************************************************)
(* declared_core_pairs *)
DeclaredCore(a, s) == <<a, s>> \in DOMAIN roster /\ roster[<<a, s>>] = "core"
ForcedCore(a, s, protected) == s \in protected \/ DeclaredCore(a, s) \/ s \in Bootstrap

(* candidate_order *)
Signal(a, s) == IF <<a, s>> \in DOMAIN used THEN used[<<a, s>>] ELSE 0
Elsewhere(a, s) == Max({Signal(b, s) : b \in Agents \ {a}} \union {0})
Bit(b) == IF b THEN 1 ELSE 0
RankOf(a, s, protected) ==
    <<Bit(ForcedCore(a, s, protected)), Bit(s \in protected), Bit(DeclaredCore(a, s)),
      Bit(s \in Bootstrap), Signal(a, s), Elsewhere(a, s)>>
SkillIndex(s) == CHOOSE i \in DOMAIN SkillOrder : SkillOrder[i] = s
Precedes(a, s, t, protected) ==
    LET rs == RankOf(a, s, protected)
        rt == RankOf(a, t, protected)
        differ == {i \in DOMAIN rs : rs[i] # rt[i]}
    IN  IF differ = {} THEN SkillIndex(s) < SkillIndex(t) ELSE rs[Min(differ)] > rt[Min(differ)]

Ranked(found, a, budget, protected) ==
    LET candidates == ListedSkills(found, a)
    IN  {s \in candidates : Cardinality({t \in candidates : Precedes(a, t, s, protected)}) < budget}

(* reconcile_shared_physical_states: Agents that list a Skill in one and   *)
(* the same place, directly or by way of other Agents.                     *)
Together(d, found, s) ==
    {{c.agent : c \in {x \in found : /\ x.skill = s /\ x.exposed /\ MutationPath(d, x) = p}} :
        p \in {MutationPath(d, c) : c \in Of(found, s)}}
Component(d, found, s, a) ==
    LET groups == Together(d, found, s)
        agents == (UNION groups) \union {a}
        closed == {C \in SUBSET agents : a \in C /\ \A g \in groups : g \cap C # {} => g \subseteq C}
    IN  {b \in agents : \A C \in closed : b \in C}

KeepsCore(found, core, s, b) == b \in Oversized(found) => s \in core[b]
Unreconciled(d, found, core, protected) == core
Reconciled(d, found, core, protected) ==
    [a \in DOMAIN core |->
        {s \in ListedSkills(found, a) :
            LET agents == Component(d, found, s, a)
                keeping == {b \in agents : KeepsCore(found, core, s, b)}
            IN  IF keeping \in {{}, agents} THEN s \in core[a]
                ELSE \/ \E b \in agents \cap Oversized(found) : ForcedCore(b, s, protected)
                     \/ ~(agents \subseteq Oversized(found))}]

RecommendError(found, budget, protected, core) ==
    IF Oversized(found) = {} THEN "no_finding"
    ELSE IF ~(protected \subseteq UNION {ListedSkills(found, a) : a \in Oversized(found)}) THEN "outside_finding"
    ELSE IF \E a \in Oversized(found) :
            Cardinality({s \in ListedSkills(found, a) : ForcedCore(a, s, protected)}) > budget THEN "budget"
    ELSE IF \E a \in DOMAIN core : Cardinality(core[a]) > budget THEN "shared_core_budget_exceeded"
    ELSE "none"

RecommendedCore(d, found, budget, protected) ==
    Reconciled(d, found, [a \in Oversized(found) |-> Ranked(found, a, budget, protected)], protected)
RecommendFor(d, found, budget, protected) ==
    LET core == RecommendedCore(d, found, budget, protected)
        concerned(s) == {a \in Oversized(found) : s \in ListedSkills(found, a)}
        skills == UNION {ListedSkills(found, a) : a \in Oversized(found)}
    IN  [error |-> RecommendError(found, budget, protected, core),
         request |-> [s \in skills |->
                         [a \in concerned(s) |-> IF s \in core[a] THEN "core" ELSE "other"]]]

(***************************************************************************)
(* finding_roster_planning_impl                                            *)
(***************************************************************************)
Excluded(d, found, request) == {s \in DOMAIN request : Unpreservable(d, found, s, request[s])}

(* expand_finding_roster_changes, and derive after it. *)
TriedWithoutDeriving(d, found, recommended, first) == recommended.error
Tried(d, found, recommended, first) ==
    IF recommended.error # "none" THEN recommended.error
    ELSE IF Excluded(d, found, recommended.request) # {} THEN "excluded"
    ELSE Derive(d, found, Settings, recommended.request, first).refusal
TryRecommended(d, found, budget, protected, first) ==
    Tried(d, found, RecommendFor(d, found, budget, protected), first)

Conflicting(hosted) == {s \in hosted : \E t \in hosted \ {s} : NameOf[s] = NameOf[t]}
ClaimantsAmong(hosted, conflicting) ==
    IF conflicting = {} THEN {}
    ELSE LET s == CHOOSE t \in conflicting : TRUE IN {t \in hosted : NameOf[t] = NameOf[s]}
Claimants(d, found, request) ==
    LET hosted == {s \in DOMAIN request : Migrates(d, Of(found, s), Removal(Of(found, s), request[s]))}
    IN  ClaimantsAmong(hosted, Conflicting(hosted))

(* validated_core_protection: as long as only the claims on a place in the *)
(* Library conflict, the claimants are protected as well.                  *)
ProtectedClosure(d, found, protected, first) ==
    LET closed[n \in 0 .. Cardinality(Skills)] ==
            IF n = 0 THEN protected
            ELSE LET p == closed[n - 1]
                 IN  IF TryRecommended(d, found, MaxCore, p, first) = "library_claims"
                     THEN p \union Claimants(d, found, RecommendFor(d, found, MaxCore, p).request)
                     ELSE p
    IN  closed[Cardinality(Skills)]

Offered(kind, reason, protected) == [NoOffer EXCEPT !.kind = kind, !.reason = reason, !.protected = protected]

(* blocked_core_protection_choice, when something was excluded; and the    *)
(* choice to protect the claimants.                                        *)
OfferClosed(d, found, closed, first, reason) ==
    IF TryRecommended(d, found, MaxCore, closed, first) = "none"
    THEN Offered("protect", reason, closed) ELSE Offered("blocked", reason, {})
OfferProtection(d, found, protected, first, reason) ==
    OfferClosed(d, found, ProtectedClosure(d, found, protected, first), first, reason)

(* Only links nobody may follow stand in the way: their sources are to be  *)
(* confirmed first.                                                        *)
OnlyUntrusted(d, found, request, excluded) ==
    LET removed(s) == ReadOnlyRemoved(d, Of(found, s), Removal(Of(found, s), request[s]))
        scopes == {c.scope : c \in UNION {removed(s) : s \in excluded}}
    IN  scopes = {"untrusted_external"}
SourceDependency(found, request, excluded) ==
    \E s \in excluded : \E c \in Of(found, s) :
        c.agent = NoAgent /\ DependsOn(c, Removal(Of(found, s), request[s]))

OfferClaimants(d, found, request, first) ==
    OfferProtection(d, found, Claimants(d, found, request), first, "library_claims")

(* What was derived without an exclusion. *)
OfferDerived(d, found, request, derived, first) ==
    IF derived = "library_claims" THEN OfferClaimants(d, found, request, first)
    ELSE IF derived # "none" THEN Offered("blocked", "roster_plan_preconditions_failed", {})
    ELSE Offered("supported", "none", {})
PlanningOf(d, found, recommended, excluded, first) ==
    IF recommended.error # "none" THEN Offered("blocked", "automatic_roster_selection_unavailable", {})
    ELSE IF excluded = {} THEN
            OfferDerived(d, found, recommended.request, Tried(d, found, recommended, first), first)
    ELSE IF OnlyUntrusted(d, found, recommended.request, excluded)
         /\ ~SourceDependency(found, recommended.request, excluded) THEN
            Offered("blocked", "trusted_canonical_sources_required", {})
    ELSE OfferProtection(d, found, excluded, first, "blocked_skills")
PlanningFor(d, found, recommended, first) ==
    PlanningOf(d, found, recommended, Excluded(d, found, recommended.request), first)
RosterPlanning(d, found, first) ==
    PlanningFor(d, found, RecommendFor(d, found, MaxCore, {}), first)

(* finding_library_planning *)
CanonicalCandidates(found, s) == {c \in Of(found, s) : Mutable(c) /\ Owns(c)}
LibraryPlanning(found, s) ==
    IF /\ Cardinality(Digests(Of(found, s))) = 1
       /\ \A c \in Of(found, s) : Mutable(c)
       /\ CanonicalCandidates(found, s) # {}
    THEN [NoOffer EXCEPT !.kind = "consolidate", !.skill = <<s>>] ELSE NoOffer

-----------------------------------------------------------------------------
Pending == Idle /\ offer.kind # "none"

(* report *)
ReportLargeRosters ==
    /\ Idle /\ offer = NoOffer
    /\ \E found \in {Scan(disk, config)} :
          /\ Oversized(found) # {}
          /\ \E first \in Sources(found, [s \in Skills |-> <<>>]) :
                offer' = RosterPlanning(disk, found, {first})
    /\ UNCHANGED <<disk, config, start, plan, ops, plans, roster, used>>

ReportDuplicates ==
    /\ Idle /\ offer = NoOffer
    /\ \E found \in {Scan(disk, config)} :
          \E s \in Duplicated(found) : offer' = LibraryPlanning(found, s)
    /\ offer' # NoOffer
    /\ UNCHANGED <<disk, config, start, plan, ops, plans, roster, used>>

(* plan, with finding_roster_changes: the template of the Report as it is, *)
(* or with a budget and protected Skills of one's own.                     *)
Changed(request) ==
    {pair \in Agents \X Skills : pair[2] \in DOMAIN request /\ pair[1] \in DOMAIN request[pair[2]]}
Effective(request) ==
    \E pair \in Changed(request) :
        pair \notin DOMAIN roster \/ roster[pair] # request[pair[2]][pair[1]]
RightSizeTo(kind, found, recommended) ==
    IF recommended.error = "none" /\ Excluded(disk, found, recommended.request) = {}
    THEN ChangeRosterAs(kind, recommended.request, found, Effective(recommended.request))
    ELSE Prepared(kind, recommended.request,
                  IF recommended.error = "none" THEN "excluded" ELSE recommended.error, <<>>)
RightSize(kind, budget, protected) ==
    /\ offer' = [offer EXCEPT !.budget = budget, !.protected = protected]
    /\ UNCHANGED <<roster, used>>
    /\ \E found \in {Scan(disk, config)} :
          \E recommended \in {RecommendFor(disk, found, budget, protected)} :
              RightSizeTo(kind, found, recommended)

TakeOffer ==
    Pending /\ offer.kind \in {"supported", "protect"} /\ RightSize("offered", MaxCore, offer.protected)
ChooseOneself ==
    /\ Pending /\ offer.kind \in {"supported", "protect", "blocked"}
    /\ \E budget \in 1 .. MaxCore, protected \in {{}} \union {{s} : s \in Skills} : RightSize("own", budget, protected)

(* plan, with finding_library_changes: expand_finding_library_changes. *)
Consolidate ==
    /\ Pending /\ offer.kind = "consolidate"
    /\ \E found \in {Scan(disk, config)}, s \in {offer.skill[1]}, state \in {"managed", "hosted"} :
          \E canonical \in CanonicalCandidates(found, s) :
              \E derived \in {DeriveLibrary(disk, found, Settings, s, canonical, state)} :
                  Prepared("library", <<>>, PrepareLibrary(disk, found, derived), derived.ops)
    /\ UNCHANGED <<roster, used, offer>>

(* apply; a Plan carried through stores the Roster it asked for. *)
CarryOut == (Step \/ RollBack) /\ UNCHANGED <<roster, used, offer>>
StoreRoster ==
    /\ Finish
    /\ roster' = [pair \in Changed(plan.request) |-> plan.request[pair[2]][pair[1]]] @@ roster
    /\ UNCHANGED <<used, offer>>
NextReport == Continue /\ offer' = NoOffer /\ UNCHANGED <<roster, used>>

FindingNext ==
    \/ ReportLargeRosters \/ ReportDuplicates \/ TakeOffer \/ ChooseOneself \/ Consolidate
    \/ CarryOut \/ StoreRoster \/ NextReport
FindingSpec == FindingInit /\ [][FindingNext]_findingVars

-----------------------------------------------------------------------------
Sized == plan.kind \in {"offered", "own"}

(* An offer stands: what a Report offered to plan is not refused when it   *)
(* is planned (docs/product-spec.md:323: the Plan is derived before its    *)
(* template is advertised), but for two refusals that only prepare_plan    *)
(* makes: rules of Codex for a package on its way to the Library; and a    *)
(* Roster which already asks for all of it, although the files are back.   *)
OffersStandSoFar ==
    plan.kind = "offered" =>
        \/ plan.refusal = "none"
        \/ plan.refusal = "native_visibility" /\ config.codex.rules # <<>>
        \/ plan.refusal = "no_effect" /\ ~Effective(plan.request)

(* The recommendation never asks one Agent to lose and another to keep a   *)
(* Skill they list from the same directory (docs/product-spec.md:307).     *)
NoSharedConflict == Sized => plan.refusal # "physical_conflict"

(* After a consolidation that the Report offered, the Report has no exact  *)
(* duplicates of that Skill any more.                                      *)
DuplicatesGone ==
    (plan.kind = "library" /\ plan.status = "applied") => offer.skill[1] \notin Duplicated(Seen(disk))
=============================================================================
