------------------------------ MODULE FindLoad ------------------------------
(***************************************************************************)
(* `find` and `find --load` (find_command in src/app.rs, and               *)
(* src/app/content_choice.rs): what a search in the latest Snapshot offers *)
(* to load, and the load itself, which reads files that may change between *)
(* any two of its steps.  A Scan or an Apply never runs meanwhile, for     *)
(* they need the state lock alone, but may run between two finds.          *)
(*                                                                         *)
(* A content is an observation as in Retrieval together with the digests   *)
(* of its entrypoint and of the rest of its package, and a form: "ok",     *)
(* "too_big", "not_utf8" or "incomplete", a package that is too large or   *)
(* cannot be read beyond its entrypoint.  Skills declare their identity.   *)
(* The checks of source-root permissions around a find are those of        *)
(* SourceScan and left out here.                                           *)
(***************************************************************************)
EXTENDS Retrieval

CONSTANTS Placements,  \* entrypoints in the order of their paths
          ByDefault,   \* those an Agent loads by default
          ApprovedDirs, \* directories within approved roots
          Outside,     \* what is known of a placement that leads elsewhere, unread
          Gone,        \* a placement that is not there
          Dangling,    \* a link to a directory that is not there
          Unreadable,  \* a package of which nothing can be read
          Unknown,     \* the content of a package that was not read in full
          Starts,      \* where placements lead and what directories hold at first
          Contents,    \* what may be written to a directory
          Searches,    \* [task, hints]: what Agents search for
          MaxEdits,    \* bound: changes of files
          MaxTurns     \* bound: commands run

VARIABLES at,        \* placement -> directory
          holds,     \* directory -> content
          scan,      \* the latest Snapshot: [number, facts]
          reported,  \* the Snapshot of the latest Report
          archived,  \* Skills archived for every Agent
          answer,    \* of the last find: [request, number, ready, reference, offers, shown]
          load,      \* the load that runs: its request, attempts and what it has read
          result,    \* how the last load ended
          edits, turns
findVars == <<at, holds, scan, reported, archived, answer, load, result, edits, turns>>

PlacementSet == ToSet(Placements)

(* Nothing is read where a link leads nowhere, and what is known of an     *)
(* unread placement names it by its path, so it is taken for no other      *)
(* placement and for no content.                                           *)
ContentFormed(c) ==
    c # Unreadable => {"id", "entry"} \subseteq DOMAIN c /\ \A p \in PlacementSet : c.id # Outside[p].id
ASSUME FindAssumption ==
    /\ Placements \in Seq(PlacementSet)
    /\ \A start \in Starts :
          /\ DOMAIN start.at = PlacementSet
          /\ \A p \in PlacementSet : start.at[p] \in DOMAIN start.holds
          /\ \A d \in DOMAIN start.holds : ContentFormed(start.holds[d])
    /\ \A c \in Contents : ContentFormed(c)
    /\ Gone \notin ApprovedDirs /\ Dangling \notin ApprovedDirs
    /\ \A p, q \in PlacementSet : Outside[p].id = Outside[q].id => p = q

NoLoad == [stage |-> "idle"]
NoAnswer == [number |-> 0, ready |-> FALSE, offers |-> {}]
NoResult == [kind |-> "none"]
Nothing == [kind |-> "top"]
OfSkill(id) == [kind |-> "skill", id |-> id]
OfPlacement(p) == [kind |-> "placement", placement |-> p]

(* A package has its entrypoint and a rest, which are compared by digests. *)
Parts == {"entry", "rest"}
SameFiles(c, d) == \A part \in Parts : c[part] = d[part]
Whole(c) == c # Unreadable /\ c.form # "incomplete"

(* What a Scan records of the placements that are there: an incomplete     *)
(* package keeps the identity that its entrypoint declares.                *)
FactAt(p) ==
    LET have == holds[at[p]]
        trusted == at[p] \in ApprovedDirs
    IN  [dir |-> at[p], trusted |-> trusted, complete |-> trusted /\ Whole(have),
         content |-> IF ~trusted \/ have = Unreadable THEN Outside[p]
                     ELSE IF Whole(have) THEN have
                     ELSE [have EXCEPT !.content = Unknown, !.rest = Unknown]]
Observed(number) == [number |-> number, facts |-> [p \in {q \in PlacementSet : at[q] # Gone} |-> FactAt(p)]]

FindInit ==
    /\ \E start \in Starts : at = start.at /\ holds = start.holds
    /\ scan = Observed(1) /\ reported = 0
    /\ archived = {} /\ answer = NoAnswer /\ load = NoLoad /\ result = NoResult
    /\ edits = 0 /\ turns = 0

-----------------------------------------------------------------------------
(* The Snapshot. *)
Facts == scan.facts
PlacementsOf(id) == {p \in DOMAIN Facts : Facts[p].content.id = id}
Observations == {Facts[p].content : p \in DOMAIN Facts}
Routable == {o \in Observations : o.id \notin archived}
TopOf(request) == Ranking(Routable, request.task, request.hints, 1)

(* The Skills of a name, and the choice between contents of one Skill.     *)
VariantsOf(name) == {o.id : o \in {o \in Routable : o.name = name}}
OtherSkills(top) == VariantsOf(top.name) \ {top.id}
ContentsOfExposed(id) == {Facts[p].content.content : p \in {q \in PlacementsOf(id) : Facts[q].complete /\ q \in ByDefault}}
ContentsOf(id) == {Facts[p].content.content : p \in {q \in PlacementsOf(id) : Facts[q].complete}}
ChoiceRequired(id) == Cardinality(ContentsOf(id)) > 1

(* The order in which a load tries placements: exposed ones first.         *)
Position(p) == CHOOSE i \in DOMAIN Placements : Placements[i] = p
Turn(p) == Position(p) + IF p \in ByDefault THEN 0 ELSE Len(Placements)
FirstOf(S) == CHOOSE p \in S : \A q \in S : Turn(p) <= Turn(q)
Eligible(S) == {p \in S : Facts[p].trusted /\ Facts[p].complete}
ExactCopy(p, q) == /\ SameFiles(Facts[p].content, Facts[q].content)
                   /\ Facts[p].content.content = Facts[q].content.content
ExactCopies(id) ==
    LET eligible == Eligible(PlacementsOf(id))
    IN  {p \in eligible : ExactCopy(p, FirstOf(eligible))}

-----------------------------------------------------------------------------
(* placement_read_state: the state of a placement on the disk of now.      *)
ReadState(p) ==
    LET want == Facts[p].content
        have == holds[at[p]]
    IN  IF ~Facts[p].trusted THEN "untrusted_external_source"
        ELSE IF ~Facts[p].complete THEN "package_fingerprint_incomplete"
        ELSE IF at[p] \in {Gone, Dangling} THEN "entrypoint_unreadable"
        ELSE IF at[p] \notin ApprovedDirs THEN "entrypoint_escapes_approved_roots"
        ELSE IF at[p] # Facts[p].dir THEN "physical_source_drift"
        ELSE IF have = Unreadable THEN "entrypoint_unreadable"
        ELSE IF have.form = "too_big" THEN "entrypoint_exceeds_content_limit"
        ELSE IF have.entry # want.entry THEN "entrypoint_content_drift"
        ELSE IF have.form = "not_utf8" THEN "entrypoint_not_utf8"
        ELSE IF have.form = "incomplete" THEN "package_identity_unreadable"
        ELSE IF have.id # want.id \/ ~SameFiles(have, want) THEN "package_identity_drift"
        ELSE "available"

(* find_placement_readiness_blockers finds none. *)
Ready(id) == \E p \in ExactCopies(id) : ReadState(p) = "available"

(* current_readable_skill_paths *)
ReadablePaths(id) ==
    {p \in PlacementsOf(id) :
        /\ at[p] \in ApprovedDirs /\ Whole(holds[at[p]])
        /\ LET there == {q \in PlacementsOf(id) : at[q] = at[p]}
           IN  /\ holds[at[p]].id = id
               /\ \E q \in there : SameFiles(holds[at[p]], Facts[q].content)}
Escapes(p) == ~Facts[p].trusted /\ Facts[p].dir # Dangling
Unconfirmed(id) ==
    /\ ReadablePaths(id) = {}
    /\ \A p \in PlacementsOf(id) : Escapes(p) /\ at[p] = Facts[p].dir
(* incomplete_placement_observation_still_applies *)
StillIncomplete(p) ==
    LET have == holds[at[p]]
    IN  /\ Facts[p].trusted /\ ~Facts[p].complete /\ at[p] = Facts[p].dir
        /\ IF have = Unreadable THEN Facts[p].content = Outside[p] ELSE have.entry = Facts[p].content.entry
Drifted(id) ==
    \/ /\ ReadablePaths(id) = {} /\ ~Unconfirmed(id)
       /\ \E p \in PlacementsOf(id) : ~StillIncomplete(p)
    \/ \E p \in PlacementsOf(id) :
          ReadState(p) \in {"physical_source_drift", "entrypoint_unreadable", "entrypoint_content_drift",
                            "package_identity_drift", "package_identity_unreadable"}

(* The Findings of a Report that find refers to: the sets of Skills of one *)
(* name and different contents, and the Skills behind unconfirmed links.   *)
DivergentSets ==
    {{o.id : o \in group} : group \in {group \in {{o \in Observations : o.name = n} : n \in {o.name : o \in Observations}} :
        /\ Cardinality({o.id : o \in group}) > 1
        /\ \A o \in group : o.content # Unknown
        /\ Cardinality({o.content : o \in group}) > 1}}
EscapingSkills == {Facts[p].content.id : p \in {q \in DOMAIN Facts : Escapes(q)}}

DivergentFor(variants) == {set \in DivergentSets : set = variants}
EscapingFor(variants) == {set \in {EscapingSkills} \ {{}} : variants \subseteq set}
FindingFor(variants) ==
    LET found == IF \A v \in variants : Unconfirmed(v) THEN EscapingFor(variants) ELSE DivergentFor(variants)
    IN  IF found = {} THEN "finding_unavailable"
        ELSE IF \A v \in variants : Unconfirmed(v) THEN "source_confirmation_required"
        ELSE "available"

(* bind_variant_findings: where an answer leads an Agent that has to       *)
(* choose among Skills of one name, or to the Scan it needs first.         *)
Reference(top) ==
    LET variants == VariantsOf(top.name)
        among == UNION {PlacementsOf(v) : v \in variants}
    IN  IF \E v \in variants : Drifted(v) THEN "rescan_required"
        ELSE IF Cardinality(variants) < 2 THEN "none"
        ELSE IF \E p \in among : Facts[p].trusted /\ ~Facts[p].complete THEN "incomplete_package"
        ELSE IF reported # scan.number THEN "report_required"
        ELSE FindingFor(variants)

(* explicit_variant_load_actions, filtered by bind_content_choices.        *)
VariantOffers(top) ==
    LET variants == VariantsOf(top.name)
    IN  IF Cardinality(variants) < 2 \/ \E v \in variants : Drifted(v) THEN {}
        ELSE {OfSkill(v) : v \in {v \in variants : ReadablePaths(v) # {} /\ Ready(v) /\ ~ChoiceRequired(v)}}

(* bind_content_choices: one readable placement of every content.          *)
PlacementOffers(top) ==
    UNION {{OfPlacement(p) : p \in
              {p \in PlacementsOf(v) :
                  /\ ReadState(p) = "available"
                  /\ \A q \in PlacementsOf(v) :
                        ReadState(q) = "available" /\ Facts[q].content.content = Facts[p].content.content
                           => Turn(p) <= Turn(q)}}
           : v \in {v \in VariantsOf(top.name) \union {top.id} : ChoiceRequired(v)}}

(* load_readiness is "verification_required". *)
ReadyToLoad(top, request) ==
    /\ OtherSkills(top) = {} /\ ~EvidenceBlocks(top, request.hints)
    /\ ~ChoiceRequired(top.id) /\ Ready(top.id) /\ ReadablePaths(top.id) # {}

(* What the answer shows of the content an offer leads to. *)
ShownBy(offer) ==
    IF offer.kind = "placement" THEN {Facts[offer.placement].content.content}
    ELSE ContentsOf(offer.id)

BetweenLoads == load = NoLoad /\ turns < MaxTurns
Answer(request, top, offers) ==
    [request |-> request, number |-> scan.number, ready |-> ReadyToLoad(top, request),
     reference |-> Reference(top), offers |-> offers, shown |-> [o \in offers |-> ShownBy(o)]]
AnswerTo(request, ranked) ==
    IF ranked = <<>> THEN NoAnswer
    ELSE Answer(request, ranked[1],
                IF EvidenceBlocks(ranked[1], request.hints) THEN {}
                ELSE VariantOffers(ranked[1]) \union PlacementOffers(ranked[1]))
Find ==
    /\ BetweenLoads /\ turns' = turns + 1 /\ result' = NoResult
    /\ \E request \in Searches : answer' = AnswerTo(request, TopOf(request))
    /\ UNCHANGED <<at, holds, scan, reported, archived, load, edits>>

-----------------------------------------------------------------------------
(* The load. *)
Refuse(why, offered) ==
    /\ load' = NoLoad
    /\ result' = [kind |-> "refused", why |-> why, offered |-> offered]
Files == [at |-> at, holds |-> holds]
Begin(request, select, offered, id, attempts) ==
    /\ load' = [stage |-> "resolve", request |-> request, select |-> select, offered |-> offered, id |-> id,
                attempts |-> attempts, failed |-> "nothing", dir |-> Gone, text |-> 0, known |-> 0, parts |-> <<>>,
                seen |-> {Files}]
    /\ result' = NoResult

(* select_top_match_variant: the Skill a selector names, 0 if it may not.  *)
Selected(top, select) ==
    CASE select.kind = "top" -> top.id
      [] select.kind = "skill" ->
            IF OtherSkills(top) # {} /\ select.id \in VariantsOf(top.name) THEN select.id ELSE 0
      [] select.kind = "placement" ->
            IF select.placement \in DOMAIN Facts
               /\ Facts[select.placement].content.id \in VariantsOf(top.name) \union {top.id}
            THEN Facts[select.placement].content.id ELSE 0

AnySnapshot(required) == TRUE
SnapshotMatches(required) == required = 0 \/ required = scan.number
LoadMatch(request, select, offered, top, id, candidates) ==
    IF EvidenceBlocks(top, request.hints) THEN Refuse("hint_direct_selection_evidence_required", offered)
    ELSE IF id = 0 THEN Refuse("variant_not_in_top_match", offered)
    ELSE IF select.kind # "placement" /\ ChoiceRequired(id)
         THEN Refuse("declared_identity_content_ambiguous", offered)
    ELSE IF select.kind = "top" /\ OtherSkills(top) # {} THEN Refuse("same_name_variants_ambiguous", offered)
    ELSE IF Eligible(candidates) = {} THEN Refuse("no_eligible_placement", offered)
    ELSE Begin(request, select, offered, id,
               IF select.kind = "placement" THEN {select.placement} ELSE ExactCopies(id))
LoadOf(request, select, offered, top, id) ==
    LoadMatch(request, select, offered, top, id,
              IF select.kind = "placement" THEN {select.placement} ELSE PlacementsOf(id))
LoadRequest(request, select, required, offered) ==
    IF ~SnapshotMatches(required) THEN Refuse("find_snapshot_changed", offered)
    ELSE \E ranked \in {TopOf(request)} :
            IF ranked = <<>> THEN Refuse("no_routable_match", offered)
            ELSE LoadOf(request, select, offered, ranked[1], Selected(ranked[1], select))

Start(request, select, required, offered) ==
    /\ BetweenLoads /\ turns' = turns + 1 /\ LoadRequest(request, select, required, offered)
    /\ UNCHANGED <<at, holds, scan, reported, archived, answer, edits>>

LoadTop == \E request \in Searches : Start(request, Nothing, 0, FALSE)
LoadReady == answer.ready /\ Start(answer.request, Nothing, 0, TRUE)
TakeLoadOffer == \E o \in answer.offers : Start(answer.request, o, answer.number, TRUE)

Trying == FirstOf(load.attempts)
Want == Facts[Trying].content
Still == UNCHANGED <<at, holds, scan, reported, archived, answer, edits, turns>>

(* A failed check: the next exact copy, or the refusal, which tells the    *)
(* first failure.                                                          *)
TryNext(why) ==
    LET first == IF load.failed = "nothing" THEN why ELSE load.failed
    IN  IF load.attempts = {Trying} THEN Refuse(first, load.offered)
        ELSE /\ load' = [load EXCEPT !.stage = "resolve", !.attempts = @ \ {Trying}, !.failed = first]
             /\ UNCHANGED result

(* verified_skill_placement_load: canonicalize, containment, binding.      *)
Resolve ==
    /\ load.stage = "resolve" /\ Still
    /\ IF at[Trying] \in ApprovedDirs /\ at[Trying] = Facts[Trying].dir
       THEN load' = [load EXCEPT !.stage = "read", !.dir = at[Trying]] /\ UNCHANGED result
       ELSE TryNext("path")
(* fs::read of the resolved entrypoint, its digest and its encoding.       *)
ReadEntry ==
    /\ load.stage = "read" /\ Still
    /\ LET have == holds[load.dir]
       IN  IF have # Unreadable /\ have.form = "ok" /\ have.entry = Want.entry
           THEN load' = [load EXCEPT !.stage = "inspect", !.text = have.entry] /\ UNCHANGED result
           ELSE TryNext("entrypoint")
(* inspect_skill_identity: SKILL.md for the identity it declares, then one *)
(* file after the other for the digest, SKILL.md again among them.         *)
InspectPackage ==
    /\ load.stage = "inspect" /\ Still
    /\ IF holds[load.dir] = Unreadable THEN TryNext("package")
       ELSE /\ load' = [load EXCEPT !.stage = "hash", !.known = holds[load.dir].id, !.parts = <<>>]
            /\ UNCHANGED result
HashedWith(part) ==
    [x \in DOMAIN load.parts \union {part} |-> IF x = part THEN holds[load.dir][part] ELSE load.parts[x]]
HashFile ==
    /\ load.stage = "hash" /\ Still
    /\ IF ~Whole(holds[load.dir]) THEN TryNext("package")
       ELSE /\ \E part \in Parts \ DOMAIN load.parts :
                  load' = [load EXCEPT !.parts = HashedWith(part),
                                       !.stage = IF DOMAIN HashedWith(part) = Parts THEN "confirm" ELSE "hash"]
            /\ UNCHANGED result
(* canonicalize again, and the comparison with the Snapshot. *)
AnyPackage == load.known = load.id
SamePackage == load.known = load.id /\ SameFiles(load.parts, Want)
Confirm ==
    /\ load.stage = "confirm" /\ Still
    /\ IF at[Trying] = load.dir /\ SamePackage
       THEN /\ load' = NoLoad
            /\ result' = [kind |-> "loaded", id |-> load.id, placement |-> Trying, text |-> load.text,
                          select |-> load.select, offered |-> load.offered, request |-> load.request,
                          seen |-> load.seen]
       ELSE TryNext("package")

-----------------------------------------------------------------------------
(* The files change; what a load could have met is remembered.             *)
Note == load' = IF load = NoLoad THEN load ELSE [load EXCEPT !.seen = @ \union {Files'}]
Change ==
    /\ edits < MaxEdits /\ edits' = edits + 1
    /\ \/ /\ \E p \in PlacementSet, d \in DOMAIN holds : at[p] # d /\ at' = [at EXCEPT ![p] = d]
          /\ UNCHANGED holds
       \/ /\ \E d \in DOMAIN holds \ {Gone, Dangling}, c \in Contents : holds[d] # c /\ holds' = [holds EXCEPT ![d] = c]
          /\ UNCHANGED at
    /\ Note
    /\ UNCHANGED <<scan, reported, archived, answer, result, turns>>

Rescan ==
    /\ BetweenLoads /\ turns' = turns + 1
    /\ scan' = Observed(scan.number + 1) /\ result' = NoResult
    /\ UNCHANGED <<at, holds, reported, archived, answer, load, edits>>
MakeReport ==
    /\ BetweenLoads /\ turns' = turns + 1 /\ reported # scan.number
    /\ reported' = scan.number /\ result' = NoResult
    /\ UNCHANGED <<at, holds, scan, archived, answer, load, edits>>
Archive ==
    /\ BetweenLoads /\ turns' = turns + 1 /\ result' = NoResult
    /\ \E o \in Observations : archived' = (archived \ {o.id}) \union ({o.id} \ archived)
    /\ UNCHANGED <<at, holds, scan, reported, answer, load, edits>>

FindNext ==
    \/ Find \/ LoadTop \/ LoadReady \/ TakeLoadOffer
    \/ Resolve \/ ReadEntry \/ InspectPackage \/ HashFile \/ Confirm
    \/ Change \/ Rescan \/ MakeReport \/ Archive
FindSpec == FindInit /\ [][FindNext]_findVars

-----------------------------------------------------------------------------
Loaded == result.kind = "loaded"

(* The text that a load returns is that of the content the Snapshot has    *)
(* for the placement it names; while the load ran the placement led to the *)
(* directory that the Snapshot saw, and that directory held the identity   *)
(* and every file of the package, if not all of them at one moment.        *)
LoadedWasThere ==
    Loaded => LET fact == Facts[result.placement]
              IN  /\ result.text = fact.content.entry
                  /\ \E files \in result.seen : files.at[result.placement] = fact.dir
                  /\ \E files \in result.seen :
                        files.holds[fact.dir] # Unreadable /\ files.holds[fact.dir].id = result.id
                  /\ \A part \in Parts : \E files \in result.seen :
                        Whole(files.holds[fact.dir]) /\ files.holds[fact.dir][part] = fact.content[part]

(* Nobody chooses for the Agent: without a selector no other Skill has the *)
(* name, and without a placement no other content has the id.              *)
NotChosenForIt ==
    Loaded => /\ result.select.kind = "top" =>
                    \A o \in Routable : o.name = TopOf(result.request)[1].name => o.id = result.id
              /\ result.select.kind # "placement" =>
                    \A p \in PlacementsOf(result.id) : Facts[p].complete =>
                        Facts[p].content.content = Facts[result.placement].content.content

(* Where that choice is made: an answer asks for a Scan only if the files  *)
(* changed since the last one, and in a Report of the Snapshot it finds    *)
(* the Finding about the Skills to choose from.  The exceptions are a link *)
(* that dangled already, which asks for a Scan forever, and a group with   *)
(* an archived, an unread or an equal member, of which no Finding tells.   *)
LedToChoice(top, reference) ==
    LET group == {o \in Observations : o.name = top.name}
    IN  /\ reference = "rescan_required" =>
              \/ Facts # Observed(0).facts
              \/ \E p \in DOMAIN Facts : Facts[p].dir = Dangling
        /\ reference = "finding_unavailable" =>
              \/ \E o \in group : o.id \in archived \/ o.content = Unknown
              \/ Cardinality({o.content : o \in group}) = 1
LeadsToChoice ==
    load = NoLoad => \A request \in Searches : \A top \in ToSet(TopOf(request)) : LedToChoice(top, Reference(top))

(* What the documentation promises of ambiguous results: the Agent chooses, *)
(* and is led to where it can.                                             *)
NoSilentChoice == NotChosenForIt /\ LeadsToChoice

(* A load through an offer returns the content the answer showed, even if  *)
(* files changed and a Scan ran since.                                     *)
LoadsWhatWasShown ==
    Loaded /\ result.offered /\ result.select \in answer.offers =>
        Facts[result.placement].content.content \in answer.shown[result.select]
=============================================================================
