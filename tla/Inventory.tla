----------------------------- MODULE Inventory -----------------------------
(***************************************************************************)
(* What a Scan finds on the disk (scan in src/scan.rs): the entrypoints    *)
(* below each Skill root, whether their links may be followed, whether     *)
(* SkillRoster may change them, and whether the Agent lists them.  The     *)
(* files stand still while it runs (SourceScan has what happens when they  *)
(* do not), and every package can be read in full.                         *)
(***************************************************************************)
EXTENDS Visibility

CONSTANTS Agents, NoAgent,
          RootsOf,     \* the Skill roots of each Agent, and of no Agent
          Semantics,   \* skill_discovery_semantics of each Agent
          Shared,      \* ~/.agents/skills
          Durable,     \* roots with a standing read permission
          Providers,   \* the Skill directories of installed plugins
          SkillOf      \* the identity of each package

Owners == Agents \union {NoAgent}   \* Semantics[NoAgent] is "none"
ScannedRoots == UNION {RootsOf[a] : a \in Owners}

(* approved_roots, resolved *)
Approved(d, p) == \E r \in ScannedRoots : Within(p, Real(d, <<r>>))

(* inspect_link *)
LinkStatus(d, at) ==
    LET there == Real(d, at)
    IN  IF ~IsLink(d, at) THEN "not_link"
        ELSE IF ~Approved(d, there) THEN "escapes"
        ELSE IF Exists(d, at) THEN "valid"
        ELSE "broken"

LinkTarget(d, at) ==
    IF ~IsLink(d, at) THEN <<>>
    ELSE IF LinkStatus(d, at) = "escapes" /\ Exists(d, at) THEN Real(d, at)
    ELSE d[EntryPath(d, at)].to

(***************************************************************************)
(* Discovery.  Below a package only packages are visited; only Hermes goes *)
(* on through a link, and not in a circle.                                 *)
(***************************************************************************)
Children(d, p) == {q \in {Append(p, Last(r)) : r \in DOMAIN d} : HasEntry(d, q)}
Circular(d, p) == \E i \in 1 .. Len(p) - 1 : Real(d, SubSeq(p, 1, i)) = Real(d, p)
Follows(d, semantics, p) ==
    \/ ~IsLink(d, p)
    \/ semantics = "hermes" /\ LinkStatus(d, p) = "valid" /\ ~Circular(d, p)
Declares(d, p) == PackageAt(d, p) # NoPackage

Visited(d, semantics, r) ==
    LET top == Children(d, <<r>>)
    IN  top \union UNION {Children(d, p) : p \in {q \in top : Follows(d, semantics, q) /\ Exists(d, q)}}

IsEntrypoint(d, semantics, p) ==
    \/ Declares(d, p) /\ (semantics = "hermes" => Follows(d, semantics, p))
    \/ /\ IsLink(d, p) /\ LinkStatus(d, p) # "valid"
       /\ semantics # "hermes" => ~(Len(p) = 3 /\ Declares(d, Front(p)))

BelowLink(d, p) == Len(p) = 3 /\ IsLink(d, Front(p))

(* discovery_complete: the branches Hermes could not follow. *)
DiscoveryComplete(d, a, r) ==
    Semantics[a] = "hermes" =>
        \A p \in Visited(d, "hermes", r) : IsLink(d, p) => Follows(d, "hermes", p)

(* default_exposure_for_candidate; no directory is hidden. *)
DefaultExposure(d, a, p) ==
    IF a = NoAgent THEN FALSE
    ELSE IF Semantics[a] = "claude" THEN Len(p) = 2
    ELSE IF Semantics[a] = "pi" THEN ~(Len(p) = 3 /\ Declares(d, Front(p)))
    ELSE TRUE

(***************************************************************************)
(* materialize_candidates and classify_shared_placements.                  *)
(***************************************************************************)
RootShared(d, a, r) ==
    \/ Within(Real(d, <<r>>), Real(d, <<Shared>>))
    \/ Semantics[a] = "hermes" /\ IsLink(d, <<r>>)

InDurable(d, p) == \E r \in Durable : Within(p, <<r>>) \/ (Exists(d, p) /\ Within(Real(d, p), <<r>>))

Candidate(d, a, r, p) ==
    LET status == LinkStatus(d, p)
        safe == status \in {"not_link", "valid"} /\ Exists(d, p)
        package == IF safe THEN PackageAt(d, p) ELSE NoPackage
    IN  [agent |-> a, root |-> r, at |-> p, status |-> status, target |-> LinkTarget(d, p),
         physical |-> IF safe THEN Real(d, p) ELSE <<>>,
         package |-> package,
         skill |-> IF safe THEN SkillOf[package] ELSE p,
         scope |-> IF r \in Providers THEN "provider_read_only"
                   ELSE IF (RootShared(d, a, r) \/ BelowLink(d, p)) /\ safe THEN "shared_read_only"
                   ELSE IF InDurable(d, p) THEN "durable_read_only"
                   ELSE IF ~safe THEN "untrusted_external"
                   ELSE "mutable"]

Candidates(d) ==
    UNION {UNION {{Candidate(d, a, r, p) :
                       p \in {q \in Visited(d, Semantics[a], r) : IsEntrypoint(d, Semantics[a], q)}}
                   : r \in RootsOf[a]} : a \in Owners}

Classified(d, found) ==
    LET sharedPackages == {c.physical : c \in {x \in found :
                              RootShared(d, NoAgent, x.root) \/ x.scope = "shared_read_only"}} \ {<<>>}
        InShared(c) == \/ RootShared(d, NoAgent, c.root)
                       \/ c.physical # <<>> /\ (Within(c.physical, Real(d, <<Shared>>)) \/ c.physical \in sharedPackages)
    IN  {IF c.scope \in {"mutable", "durable_read_only"} /\ InShared(c)
         THEN [c EXCEPT !.scope = IF c.physical # <<>> THEN "shared_read_only" ELSE "untrusted_external"]
         ELSE c : c \in found}

(* The Agent's own view: claude_, codex_ and hermes_visibility::observe. *)
ModeOf(d, settings, c) ==
    IF c.agent = NoAgent THEN "none"
    ELSE IF ~DefaultExposure(d, c.agent, c.at) THEN "not_discovered"
    ELSE IF Semantics[c.agent] = "claude" THEN
            LET mode == ClaudeMode(settings.claude, Last(c.at), c.package \in Explicit)
            IN  IF mode # "off" /\ c.package = NoPackage THEN "unknown" ELSE mode
    ELSE IF Semantics[c.agent] = "codex" THEN
            CodexScoped(d, settings.codex, c.at, VerifiedName(d, c.physical))
    ELSE IF Semantics[c.agent] = "hermes" THEN
            IF c.package = NoPackage THEN "unknown" ELSE HermesMode(settings.hermes, Last(c.at), c.package)
    ELSE "on"

Scan(d, config) ==
    LET settings == [config EXCEPT !.codex = FreezeCodex(d, @)]
    IN  {LET mode == ModeOf(d, settings, c)
         IN  c @@ [mode |-> mode,
                   exposed |-> c.agent # NoAgent /\ DefaultExposure(d, c.agent, c.at) /\ Exposing(mode)]
         : c \in Classified(d, Candidates(d))}

(* is_mutable, physical_directory_or_logical, current_physical_mutation_path *)
MutableWhereGranted(c) == c.scope \in {"mutable", "durable_read_only"}
Mutable(c) == c.scope = "mutable"
Where(c) == IF c.physical # <<>> THEN c.physical ELSE c.at
MutationPath(d, c) == IF IsLink(d, c.at) THEN EntryPath(d, c.at) ELSE Where(c)
=============================================================================
