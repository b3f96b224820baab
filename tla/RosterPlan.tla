----------------------------- MODULE RosterPlan -----------------------------
(***************************************************************************)
(* Deriving the operations of a Roster Plan (src/roster_plan.rs): given    *)
(* what a Scan found and which Agents should keep or lose which Skills,    *)
(* which links are retargeted, which package becomes the Library's, what   *)
(* moves away, and when nothing may be done at all.                        *)
(*                                                                         *)
(* A request maps Skills to what is wanted of some Agents: "core", or one  *)
(* of the other states, which are all the same here.  Placements are met   *)
(* in the order of their hashed ids, so where the code takes the first     *)
(* package that qualifies, `preferred` may be any of them.                 *)
(***************************************************************************)
EXTENDS Inventory

CONSTANTS Library,      \* the root <state_dir>/library
          Identified,   \* Skills known by their content alone
          NameOf        \* the name of a Skill, as a directory name

Digest(c) == IF c.package = NoPackage THEN c.at ELSE c.package
Of(found, s) == {c \in found : c.skill = s}
Digests(mine) == {Digest(c) : c \in mine}
Exact(mine) == CHOOSE x \in Digests(mine) : TRUE

Wants(want, a, state) == a \in DOMAIN want /\ want[a] = state
Removal(mine, want) == {c \in mine : c.agent \in DOMAIN want /\ want[c.agent] # "core"}
Moving(d, removal) == {MutationPath(d, c) : c \in removal}

(* unchanged_core_exposure *)
Unchanged(mine, c) ==
    /\ c.exposed /\ c.status # "broken"
    /\ \/ Digest(c) = Exact(mine)
       \/ c.skill \in Identified /\ Mutable(c)

UnchangedCore(mine, want) ==
    \A a \in DOMAIN want :
        want[a] = "core" /\ \E c \in mine : c.agent = a /\ Unchanged(mine, c)

(* is_real_exact, verified_real_source *)
RealExact(d, mine, c) ==
    Mutable(c) /\ Digest(c) = Exact(mine) /\ c.target = <<>> /\ ~IsLink(d, c.at)
RealSources(d, mine, excluded) ==
    {MutationPath(d, c) : c \in {x \in mine : RealExact(d, mine, x)}} \ Moving(d, excluded)

(* depends_on_physical_removal *)
DependsIfOwned(c, removal) ==
    c.agent # NoAgent /\ c.target # <<>> /\ \E r \in removal : Within(Where(c), Where(r))
DependsOn(c, removal) ==
    c.target # <<>> /\ \E r \in removal : Within(Where(c), Where(r))

(* read_only_placements_on_physical_removal *)
ReadOnlyRemoved(d, mine, removal) ==
    {c \in mine : ~Mutable(c) /\ MutationPath(d, c) \in Moving(d, removal)}

(* agent_root *)
OwnRoots(d, a) == {r \in RootsOf[a] : ~RootShared(d, a, r) /\ Exists(d, <<r>>)}
AgentRoot(d, a) == CHOOSE r \in OwnRoots(d, a) : TRUE
HasRoot(d, a) == OwnRoots(d, a) # {} /\ DiscoveryComplete(d, a, AgentRoot(d, a))
Target(d, a, s) == <<AgentRoot(d, a), NameOf[s]>>

(***************************************************************************)
(* Refusals.                                                               *)
(***************************************************************************)
ReadOnlyCore(mine, want) ==
    \E c \in mine : Wants(want, c.agent, "core") /\ ~Mutable(c) /\ ~Unchanged(mine, c)

NothingMutable(mine, want) == (\A c \in mine : ~Mutable(c)) /\ ~UnchangedCore(mine, want)

ModesOf(mine, a) == {c.mode : c \in {x \in mine : x.agent = a}}
NativeConflict(mine, want) ==
    \E a \in DOMAIN want :
        LET modes == ModesOf(mine, a)
            core == want[a] = "core"
        IN  CASE Semantics[a] = "claude" ->
                    \/ "unknown" \in modes
                    \/ core /\ (\A m \in modes : ~Listed(m)) /\ modes \cap {"off", "user_only"} # {}
              [] Semantics[a] = "codex" -> "unknown" \in modes \/ (core /\ "off" \in modes)
              [] Semantics[a] = "hermes" -> "unknown" \in modes \/ (core /\ modes \ {"on"} # {})
              [] OTHER -> FALSE

(* ensure_physical_exposure_compatible *)
SharedExposure(d, mine, want) ==
    \E c \in Removal(mine, want), kept \in mine \ Removal(mine, want) :
        /\ c.exposed /\ kept.exposed /\ kept.agent # NoAgent
        /\ MutationPath(d, c) = MutationPath(d, kept)

IsHermes(c) == c.agent # NoAgent /\ Semantics[c.agent] = "hermes"
NestedConsumer(d, found, s, removal) ==
    \E c \in found, r \in removal :
        /\ IsHermes(c) /\ c.skill # s
        /\ \/ Within(Where(c), MutationPath(d, r))
           \/ IsLink(d, r.at) /\ Within(Where(c), Where(r))
           \/ c.target # <<>> /\ Within(c.target, r.at)
HermesAlias(d, mine, removal) ==
    \E c \in mine \ removal : IsHermes(c) /\ MutationPath(d, c) \in Moving(d, removal)

Dependents(mine, removal) == {c \in mine \ removal : DependsOn(c, removal)}

(* Whether a retargeted link would be listed as before. *)
Keeps(mode, projected) == mode \in {"on", "off"} /\ mode = projected
KeepsVisibility(d, settings, c, source, original) ==
    IF c.agent = NoAgent THEN TRUE
    ELSE IF Semantics[c.agent] = "codex" THEN
            Keeps(c.mode, CodexRetargeted(d, settings.codex, c.at, source))
    ELSE IF Semantics[c.agent] = "hermes" THEN
            Keeps(c.mode, HermesProjected(d, settings.hermes, c.at,
                                          IF PackageAt(d, original) = c.package THEN c.at ELSE original))
    ELSE TRUE

WouldList(d, settings, a, s, mine, source, original) ==
    CASE Semantics[a] = "claude" ->
            Listed(ClaudeMode(settings.claude, NameOf[s], \E c \in mine : c.package \in Explicit))
      [] Semantics[a] = "codex" ->
            CodexCoreModes(d, settings.codex, Target(d, a, s), source) = {"on"}
      [] Semantics[a] = "hermes" ->
            HermesProjected(d, settings.hermes, Target(d, a, s), original) = "on"
      [] OTHER -> TRUE

(***************************************************************************)
(* One Skill.  `source` is what links will lead to; `original` is where it *)
(* is before the Plan.                                                     *)
(***************************************************************************)
OneOf(choices, preferred) ==
    IF choices = {} THEN <<>>
    ELSE IF choices \cap preferred # {} THEN CHOOSE p \in choices \cap preferred : TRUE
    ELSE CHOOSE p \in choices : TRUE
SourceChoices(d, mine, removal, kept) ==
    IF kept # {} THEN kept
    ELSE IF removal # {} THEN {MutationPath(d, c) : c \in {x \in removal : RealExact(d, mine, x)}}
    ELSE {}
Original(d, mine, removal, preferred) ==
    OneOf(SourceChoices(d, mine, removal, RealSources(d, mine, removal)), preferred)

NeverMigrates(d, mine, removal) == FALSE
Migrates(d, mine, removal) == removal # {} /\ RealSources(d, mine, removal) = {}
LibraryPath(s) == <<Library, NameOf[s]>>

(* What becomes of a request to be core: nothing to do, or a new link. *)
Retargeted(dependents, a) == \E c \in dependents : c.agent = a
AlreadyCore(mine, removal, a) ==
    \E c \in mine : /\ c.agent = a /\ Unchanged(mine, c)
                    /\ ~(c.target # <<>> /\ \E r \in removal : c.target = r.at)
Added(mine, want, removal, dependents) ==
    {a \in DOMAIN want : /\ want[a] = "core" /\ ~Retargeted(dependents, a)
                         /\ ~AlreadyCore(mine, removal, a)}

Situated(s, want, mine, removal, dependents, original, migrates) ==
    [mine |-> mine, removal |-> removal, dependents |-> dependents,
     added |-> Added(mine, want, removal, dependents),
     original |-> original, migrates |-> migrates,
     source |-> IF migrates THEN LibraryPath(s) ELSE original]
Situation(d, s, want, mine, removal, preferred) ==
    Situated(s, want, mine, removal, Dependents(mine, removal), Original(d, mine, removal, preferred),
             Migrates(d, mine, removal))
Situations(d, found, request, preferred) ==
    [s \in DOMAIN request |->
        LET mine == Of(found, s)
        IN  Situation(d, s, request[s], mine, Removal(mine, request[s]), preferred)]

(* The checks of one Skill, `at` being its situation, in their order. *)
Refusals(d, found, settings, s, want, at) ==
    << <<"read_only", ReadOnlyCore(at.mine, want) \/ NothingMutable(at.mine, want)>>,
       <<"native_visibility", NativeConflict(at.mine, want)>>,
       <<"physical_conflict", SharedExposure(d, at.mine, want)>>,
       <<"dependent", NestedConsumer(d, found, s, at.removal) \/ HermesAlias(d, at.mine, at.removal)>>,
       <<"read_only_removed", ReadOnlyRemoved(d, at.mine, at.removal) # {}>>,
       <<"source_dependent", \E c \in at.mine : c.agent = NoAgent /\ DependsOn(c, at.removal)>>,
       <<"variants", Cardinality(Digests(at.mine)) > 1 /\ ~UnchangedCore(at.mine, want)>>,
       <<"no_owned_content", at.removal # {} /\ at.original = <<>>>>,
       <<"library_target_exists", at.migrates /\ Exists(d, LibraryPath(s))>>,
       <<"read_only", \E c \in at.dependents : ~Mutable(c)>>,
       <<"native_visibility", \E c \in at.dependents :
                                  ~KeepsVisibility(d, settings, c, at.source, at.original)>>,
       <<"read_only", \E c \in at.mine : c.agent \in at.added /\ ~Mutable(c)>>,
       <<"no_source", at.added # {} /\ at.original = <<>>>>,
       <<"native_visibility", \E a \in at.added :
                                  ~WouldList(d, settings, a, s, at.mine, at.source, at.original)>> >>

FirstRefusal(checks) ==
    LET failing == {i \in DOMAIN checks : checks[i][2]}
    IN  IF failing = {} THEN "none" ELSE checks[Min(failing)][1]

(* What stands where the Agent's new link goes, or beside it. *)
Replaced(mine, a) == {c \in mine : c.agent = a}

SkillOperations(d, s, at, content) ==
    LET Linked(p) == LinkAt(p, at.source, content)
        Expose(a) == SetToSeq({Away(c.at) : c \in Replaced(at.mine, a)}) \o <<Linked(Target(d, a, s))>>
        stays == IF at.migrates THEN {at.original} ELSE {}
    IN  (IF at.migrates THEN <<Host(at.original, at.source)>> ELSE <<>>)
          \o FlattenSeq(SetToSeq({<<Away(c.at), Linked(c.at)>> : c \in at.dependents}))
          \o SetToSeq({Away(p) : p \in Moving(d, at.removal) \ stays})
          \o FlattenSeq(SetToSeq({Expose(a) : a \in at.added}))

(***************************************************************************)
(* The whole request.                                                      *)
(***************************************************************************)
(* ensure_unique_operation_paths *)
OperationPaths(d, o) == IF o.op = "host" THEN EntryPath(d, o.to) ELSE EntryPath(d, o.at)
UniquePaths(d, ops) ==
    LET moves == {i \in DOMAIN ops : ops[i].op # "link"}
        targets == {i \in DOMAIN ops : ops[i].op # "away"}
    IN  /\ \A i, j \in moves : EntryPath(d, ops[i].at) = EntryPath(d, ops[j].at) => i = j
        /\ \A i, j \in targets : OperationPaths(d, ops[i]) = OperationPaths(d, ops[j]) => i = j

(* Two packages of one name cannot both become the Library's. *)
Hosted(ats) == {s \in DOMAIN ats : ats[s].migrates}
ClaimsConflict(hosted) == \E s, t \in hosted : s # t /\ NameOf[s] = NameOf[t]

DerivationRefusal(d, request, refused, hosted, ops) ==
    IF \E s \in DOMAIN request : \E a \in DOMAIN request[s] : ~HasRoot(d, a) THEN "no_root"
    ELSE IF refused # {} THEN CHOOSE refusal \in refused : TRUE
    ELSE IF ClaimsConflict(hosted) THEN "library_claims"
    ELSE IF ~UniquePaths(d, ops) THEN "operation_conflict"
    ELSE "none"
Derived(refusal, ops, hosted) ==
    [refusal |-> refusal, ops |-> IF refusal = "none" THEN ops ELSE <<>>, hosted |-> hosted]
DerivedOf(d, request, refused, hosted, ops) ==
    Derived(DerivationRefusal(d, request, refused, hosted, ops), ops, hosted)
DeriveInOrder(d, found, settings, request, order, ats) ==
    DerivedOf(d, request,
              {FirstRefusal(Refusals(d, found, settings, s, request[s], ats[s])) : s \in DOMAIN request}
                  \ {"none"},
              Hosted(ats),
              FlattenSeq([i \in DOMAIN order |->
                  SkillOperations(d, order[i], ats[order[i]], Fingerprint(d, ats[order[i]].original))]))
Derive(d, found, settings, request, preferred) ==
    DeriveInOrder(d, found, settings, request, SetToSeq(DOMAIN request),
                  Situations(d, found, request, preferred))

(***************************************************************************)
(* exclude_unpreservable_demotions: what a bulk recommendation drops       *)
(* before it asks for a Plan.                                              *)
(***************************************************************************)
Unpreservable(d, found, s, want) ==
    LET mine == Of(found, s)
        removal == Removal(mine, want)
    IN  /\ \E a \in DOMAIN want : want[a] # "core"
        /\ \/ ReadOnlyRemoved(d, mine, removal) # {}
           \/ \E c \in mine : c.agent = NoAgent /\ DependsOn(c, removal)
           \/ Cardinality(Digests(mine)) > 1
           \/ \A c \in mine : ~RealExact(d, mine, c)

KeptRequests(d, found, s, want) ==
    IF Unpreservable(d, found, s, want)
    THEN [a \in {b \in DOMAIN want : want[b] = "core"} |-> want[a]] ELSE want
Supported(d, found, request) ==
    LET kept == [s \in DOMAIN request |-> KeptRequests(d, found, s, request[s])]
    IN  [s \in {t \in DOMAIN kept : DOMAIN kept[t] # {}} |-> kept[s]]
=============================================================================
