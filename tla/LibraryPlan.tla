---------------------------- MODULE LibraryPlan ----------------------------
(***************************************************************************)
(* Consolidating the copies of one Skill, in place ("managed") or in the   *)
(* Library ("hosted"): normalize_library_plan in src/app.rs; and what      *)
(* prepare_plan and apply_command there check of any governance Plan       *)
(* before a file is touched.                                               *)
(***************************************************************************)
EXTENDS RosterPlan

(* placement_owns_physical_source *)
Owns(c) == c.target = <<>> /\ c.physical = c.at

OverlapsLibrary(d) ==
    \E a \in Agents : \E r \in RootsOf[a] : Overlap(Real(d, <<r>>), Real(d, <<Library>>))

(* require_preserved_native_visibility *)
Preserved(c, projected) == c.mode = "not_discovered" \/ Keeps(c.mode, projected)

(* validate_library_native_visibility: every placement of Codex and Hermes *)
(* inside one of the packages, found again below the new source.           *)
LibraryVisibilityKept(d, found, settings, s, source, metadata) ==
    \A c \in found :
        LET around == {p.physical : p \in {x \in Of(found, s) : x.physical # <<>> /\ Within(c.physical, x.physical)}}
            deepest == CHOOSE p \in around : \A q \in around : Len(q) <= Len(p)
            below == Rest(c.physical, deepest)
        IN  (c.agent # NoAgent /\ c.physical # <<>> /\ around # {}) =>
                CASE Semantics[c.agent] = "codex" ->
                        Preserved(c, CodexRetargeted(d, settings.codex, c.at, source \o below))
                  [] Semantics[c.agent] = "hermes" ->
                        Preserved(c, HermesProjected(d, settings.hermes, c.at, metadata \o below))
                  [] OTHER -> TRUE

LibraryRefusals(d, found, settings, s, canonical, state) ==
    LET mine == Of(found, s)
        moves == state = "hosted" /\ canonical.at # LibraryPath(s)
        source == IF state = "hosted" THEN LibraryPath(s) ELSE canonical.at
        others == {c.physical : c \in mine} \ {canonical.physical}
    IN  << <<"library_root_conflict", state = "hosted" /\ OverlapsLibrary(d)>>,
           <<"incomplete", \E c \in mine : c.package = NoPackage>>,
           <<"read_only", \E c \in mine : ~Mutable(c)>>,
           <<"not_real", canonical.target # <<>> \/ IsLink(d, canonical.at)>>,
           <<"variants", Cardinality(Digests(mine)) > 1>>,
           <<"not_owned", ~Owns(canonical)>>,
           <<"library_target_exists", moves /\ Exists(d, LibraryPath(s))>>,
           <<"native_visibility", ~LibraryVisibilityKept(d, found, settings, s, source, canonical.at)>>,
           <<"not_owned", \E p \in others : ~\E c \in mine : c.physical = p /\ Owns(c)>>,
           <<"no_effect", ~moves /\ others = {}>> >>

OtherSourcesOfAgents(mine, canonical) ==
    {c.at : c \in {x \in mine : Owns(x) /\ x.agent # NoAgent /\ x.physical # canonical.physical}}
OtherSources(mine, canonical) ==
    {c.at : c \in {x \in mine : Owns(x) /\ x.physical # canonical.physical}}
LibraryOperations(d, found, s, canonical, state) ==
    LET mine == Of(found, s)
        moves == state = "hosted" /\ canonical.at # LibraryPath(s)
        source == IF state = "hosted" THEN LibraryPath(s) ELSE canonical.at
        content == Fingerprint(d, canonical.at)
        others == OtherSources(mine, canonical)
    IN  (IF moves THEN <<Host(canonical.at, source), LinkAt(canonical.at, source, content)>> ELSE <<>>)
          \o FlattenSeq(SetToSeq({<<Away(p), LinkAt(p, source, content)>> : p \in others}))

DeriveLibrary(d, found, settings, s, canonical, state) ==
    LET refusal == FirstRefusal(LibraryRefusals(d, found, settings, s, canonical, state))
    IN  [refusal |-> refusal,
         ops |-> IF refusal = "none" THEN LibraryOperations(d, found, s, canonical, state) ELSE <<>>]

(***************************************************************************)
(* Checks of the operations, whoever derived them.                         *)
(***************************************************************************)
MutationPaths(o) == IF o.op = "host" THEN {o.at, o.to} ELSE {o.at}

(* validate_governance_operation_mutation_scopes *)
ScopesOK(found, ops) ==
    \A i \in DOMAIN ops : \A p \in MutationPaths(ops[i]) : \A c \in found :
        ~Mutable(c) => ~Overlap(p, c.at) /\ (c.physical # <<>> => ~Overlap(p, c.physical))

(* validate_operation_sequence_anchored, against the disk as it is. *)
LinksTrusted(d, ops) == \A i \in DOMAIN ops : ops[i].op # "link" => CanExecute(d, ops[i])
SequenceValid(d, ops) ==
    \A i \in DOMAIN ops :
        LET o == ops[i]
            before == {j \in DOMAIN ops : j < i}
            cleared == \E j \in before : ops[j].op # "link" /\ ops[j].at = o.at
            placed == \E j \in before : ops[j].op = "host" /\ ops[j].to = o.to
            linked == \E j \in before : ops[j].op = "link" /\ ops[j].at = o.to
        IN  IF o.op = "link" /\ (cleared \/ placed \/ linked)
            THEN placed \/ (Exists(d, o.to) /\ Fingerprint(d, o.to) = o.expects)
            ELSE CanExecute(d, o)

(* validate_hermes_consumers_after_moves: where a moved path leads to a    *)
(* Hermes placement, a later link must put the content back.               *)
Reached(d, found, o, c) ==
    LET links == {r.at : r \in {x \in found : MutationPath(d, x) = o.at /\ Within(c.target, x.at)}}
    IN  IF Within(c.physical, o.at) THEN <<Rest(c.physical, o.at)>>
        ELSE IF IsLink(d, o.at) /\ Within(c.physical, Real(d, o.at)) THEN <<Rest(c.physical, Real(d, o.at))>>
        ELSE IF c.target # <<>> /\ links # {} THEN <<Rest(c.target, CHOOSE p \in links : TRUE)>>
        ELSE <<>>

PutBack(d, ops, i, j, c, below) ==
    LET move == ops[i]
        link == ops[j]
        provider == {k \in DOMAIN ops : k < j /\ ops[k].op = "host" /\ ops[k].to = link.to
                                         /\ Fingerprint(d, ops[k].at) = link.expects}
        trusted == provider # {} \/ (Exists(d, link.to) /\ Fingerprint(d, link.to) = link.expects)
        parent == link.at = move.at /\ link.expects = Fingerprint(d, move.at) /\ trusted
        consumer == /\ link.at = MutationPath(d, c)
                    /\ \/ move.op = "host" /\ link.to = move.to \o below
                       \/ trusted
                    /\ Fingerprint(d, c.physical) = link.expects
        retained == IF parent THEN link.to \o below ELSE link.to
    IN  /\ link.op = "link" /\ j > i /\ (parent \/ consumer)
        /\ \A k \in DOMAIN ops \ ({i, j} \union provider) : \A p \in MutationPaths(ops[k]) :
               ~Overlap(p, retained) /\ (k > j => ~Overlap(p, link.at))

Demotes(request, a, s) == s \in DOMAIN request /\ a \in DOMAIN request[s] /\ request[s][a] # "core"
HermesConsumersKept(d, found, request, ops) ==
    \A i \in DOMAIN ops : \A c \in found :
        LET below == Reached(d, found, ops[i], c)
        IN  (/\ ops[i].op # "link" /\ IsHermes(c) /\ c.physical # <<>>
             /\ below # <<>> /\ ~Demotes(request, c.agent, c.skill))
            => \E j \in DOMAIN ops : PutBack(d, ops, i, j, c, below[1])

(* validate_roster_changes: with no mutable placement of its own, a Skill  *)
(* can only stay core where it is exposed.                                 *)
RosterChangesOK(found, request) ==
    \A s \in DOMAIN request : \A a \in DOMAIN request[s] :
        \E c \in Of(found, s) : Mutable(c) \/ (request[s][a] = "core" /\ c.agent = a /\ c.exposed)

(* The refusals of prepare_plan; apply_command repeats them. *)
PrepareRoster(d, found, settings, request, derived) ==
    LET hosts == {i \in DOMAIN derived.ops : derived.ops[i].op = "host"}
        SkillAt(p) == CHOOSE s \in derived.hosted : \E c \in Of(found, s) : MutationPath(d, c) = p
    IN  IF derived.refusal # "none" THEN derived.refusal
        ELSE IF ~SequenceValid(d, derived.ops) THEN "sequence"
        ELSE IF ~ScopesOK(found, derived.ops) THEN "read_only"
        ELSE IF ~HermesConsumersKept(d, found, request, derived.ops) THEN "dependent"
        ELSE IF ~RosterChangesOK(found, request) THEN "no_mutable_placement"
        ELSE IF \E i \in hosts : ~LibraryVisibilityKept(d, found, settings, SkillAt(derived.ops[i].at),
                                                     derived.ops[i].to, derived.ops[i].at) THEN "native_visibility"
        ELSE "none"

PrepareLibrary(d, found, derived) ==
    IF derived.refusal # "none" THEN derived.refusal
    ELSE IF ~SequenceValid(d, derived.ops) THEN "sequence"
    ELSE IF ~ScopesOK(found, derived.ops) THEN "read_only"
    ELSE IF ~HermesConsumersKept(d, found, <<>>, derived.ops) THEN "dependent"
    ELSE "none"
=============================================================================
