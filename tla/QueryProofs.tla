----------------------------- MODULE QueryProofs -----------------------------
(***************************************************************************)
(* Proofs about what src/query.rs selects.  Of FindLoad, for any           *)
(* placements, files, requests and rankings and without bounds on what     *)
(* happens between two steps of a load: what is loaded is what was asked   *)
(* for, shown and read.  Of RosterFindings, for any disk, settings of the  *)
(* clients, usage, stored rosters, budget and protected Skills: a          *)
(* recommendation treats all Agents alike that list a Skill in one place,  *)
(* however many other Agents lie between them.                             *)
(***************************************************************************)
EXTENDS FindLoad, RosterFindings, FiniteSetTheorems, WellFoundedInduction, TLAPS

(***************************************************************************)
(* Find and load.                                                          *)
(***************************************************************************)
Stages == {"resolve", "read", "inspect", "hash", "confirm"}
Fields == {"stage", "request", "select", "offered", "id", "attempts", "failed", "dir", "text", "known", "parts",
           "seen"}

(* No other Skill has the name of the best match, no other content the id. *)
OnlySkill(request, id) == \A o \in Routable : o.name = TopOf(request)[1].name => o.id = id
OnlyContent(id) ==
    \A p, q \in PlacementsOf(id) :
        Facts[p].complete /\ Facts[q].complete => Facts[p].content.content = Facts[q].content.content

(* What a load, or its result, owes to what selected it.                   *)
Selection(selected) ==
    /\ selected.select.kind = "top" => OnlySkill(selected.request, selected.id)
    /\ selected.select.kind # "placement" => OnlyContent(selected.id)
    /\ selected.select.kind = "skill" => selected.select.id = selected.id
    /\ selected.offered /\ selected.select \in answer.offers =>
          selected.select.kind # "top" /\ answer.number = scan.number

ScanFormed ==
    /\ scan = [number |-> scan.number, facts |-> scan.facts]
    /\ scan.number \in Nat \ {0}
    /\ DOMAIN Facts \subseteq PlacementSet

(* An answer shows what is still the content its offers lead to, as long   *)
(* as its Snapshot is the latest.                                          *)
AnswerFormed ==
    \A o \in answer.offers :
        /\ o.kind \in {"skill", "placement"}
        /\ answer.number \in Nat \ {0} /\ answer.number <= scan.number
        /\ answer.number = scan.number => answer.shown[o] = ShownBy(o)

(* A load tries readable placements of the Skill it was asked for, and     *)
(* what it meets is remembered.                                            *)
LoadFormed ==
    load # NoLoad =>
        /\ DOMAIN load = Fields /\ load.stage \in Stages
        /\ Selection(load)
        /\ load.attempts # {} /\ load.attempts \subseteq Eligible(PlacementsOf(load.id))
        /\ load.select.kind = "placement" => load.attempts = {load.select.placement}
        /\ Files \in load.seen

(* What the steps of a load have established.                              *)
Resolved ==
    load.stage \in {"read", "inspect", "hash", "confirm"} =>
        /\ load.dir = Facts[Trying].dir
        /\ \E files \in load.seen : files.at[Trying] = load.dir
HasRead == load.stage \in {"inspect", "hash", "confirm"} => load.text = Want.entry
HasInspected ==
    load.stage \in {"hash", "confirm"} =>
        /\ \E files \in load.seen :
              files.holds[load.dir] # Unreadable /\ files.holds[load.dir].id = load.known
        /\ \A part \in DOMAIN load.parts : \E files \in load.seen :
              Whole(files.holds[load.dir]) /\ files.holds[load.dir][part] = load.parts[part]
        /\ load.stage = "confirm" => DOMAIN load.parts = Parts

ResultFormed ==
    Loaded =>
        /\ Selection(result)
        /\ result.placement \in Eligible(PlacementsOf(result.id))
        /\ result.select.kind = "placement" => result.placement = result.select.placement

FInv == /\ ScanFormed /\ AnswerFormed /\ LoadFormed /\ Resolved /\ HasRead /\ HasInspected
        /\ ResultFormed /\ LoadedWasThere

-----------------------------------------------------------------------------
(* The order of placements.                                                *)
LEMMA PositionIs ==
  ASSUME NEW p \in PlacementSet
  PROVE  Position(p) \in DOMAIN Placements /\ Placements[Position(p)] = p
  BY FindAssumption DEF Position, PlacementSet, ToSet

LEMMA TurnIsNat ==
  ASSUME NEW p \in PlacementSet
  PROVE  Turn(p) \in Nat
  BY PositionIs, FindAssumption DEF Turn

(* Among any placements one is first: the one that the load tries next.    *)
LEMMA FirstOfIs ==
  ASSUME NEW S \in SUBSET PlacementSet, S # {}
  PROVE  FirstOf(S) \in S
  <1> DEFINE less == OpToRel(<, Nat)
             ranks == {Turn(p) : p \in S}
  <1>1. IsWellFoundedOn(less, Nat)
    BY NatLessThanWellFounded, Zenon
  <1>2. \A pair \in Nat \X Nat : pair[1] < pair[2] => pair \in less
    BY Zenon DEF OpToRel
  <1> HIDE DEF less
  <1>3. ranks \subseteq Nat /\ ranks # {}
    BY TurnIsNat
  <1>4. PICK n \in ranks : \A m \in ranks : ~(<<m, n>> \in less)
    <2> HIDE DEF ranks
    <2> QED  BY WFMin, <1>1, <1>3
  <1>5. \A m \in ranks : ~(m < n)
    <2> HIDE DEF ranks
    <2> QED  BY <1>2, <1>3, <1>4
  <1>6. PICK p \in S : n = Turn(p)
    BY <1>4
  <1>7. \A q \in S : Turn(p) <= Turn(q)
    BY <1>5, <1>6, TurnIsNat
  <1> QED  BY <1>7 DEF FirstOf

(* The placements are finitely many, and so is what is counted of them.    *)
LEMMA PlacementsFinite == IsFiniteSet(PlacementSet)
  <1> DEFINE indices == 1 .. Len(Placements)
             paths == [i \in indices |-> Placements[i]]
  <1>1. IsFiniteSet(indices)
    BY FindAssumption, FS_Interval
  <1>2. paths \in Surjection(indices, PlacementSet)
    <2>1. indices = DOMAIN Placements
      BY FindAssumption
    <2>2. /\ \A i \in indices : paths[i] \in PlacementSet
          /\ \A p \in PlacementSet : \E i \in indices : paths[i] = p
      BY <2>1 DEF PlacementSet, ToSet
    <2> QED  BY <2>2 DEF Surjection
  <1> QED  BY <1>1, <1>2, FS_Surjection

(* What is seen of the placements of a Snapshot is finite.                 *)
LEMMA SeenFinite ==
  ASSUME ScanFormed, NEW P \in SUBSET DOMAIN Facts, NEW seen
  PROVE  IsFiniteSet({seen[p] : p \in P})
  <1> DEFINE view == [p \in P |-> seen[p]]
             values == {seen[p] : p \in P}
  <1>1. IsFiniteSet(P)
    BY PlacementsFinite, FS_Subset DEF ScanFormed
  <1>2. view \in Surjection(P, values)
    BY DEF Surjection
  <1> QED  BY <1>1, <1>2, FS_Surjection

(* A finite set of more than one member, and its negation.                 *)
LEMMA NotMany ==
  ASSUME NEW S, IsFiniteSet(S), ~(Cardinality(S) > 1), NEW x \in S, NEW y \in S
  PROVE  x = y
  <1>1. Cardinality(S) \in Nat /\ Cardinality(S) # 0
    BY FS_CardinalityType, FS_EmptySet
  <1>2. Cardinality(S) = 1
    BY <1>1
  <1> QED  BY <1>2, FS_Singleton

(* A content is chosen for nobody: where none has to be chosen, all that   *)
(* can be loaded is the same.                                              *)
LEMMA NoChoice ==
  ASSUME ScanFormed, NEW id, ~ChoiceRequired(id)
  PROVE  OnlyContent(id)
  <1> DEFINE P == {q \in PlacementsOf(id) : Facts[q].complete}
             content == [p \in P |-> Facts[p].content.content]
  <1>1. P \in SUBSET DOMAIN Facts
    BY DEF PlacementsOf
  <1>2. ContentsOf(id) = {content[p] : p \in P}
    BY DEF ContentsOf
  <1>3. IsFiniteSet(ContentsOf(id))
    <2> HIDE DEF P, content
    <2> QED  BY <1>1, <1>2, SeenFinite
  <1>4. \A x, y \in ContentsOf(id) : x = y
    BY <1>3, NotMany DEF ChoiceRequired
  <1> QED  BY <1>4 DEF OnlyContent, ContentsOf

LEMMA InitFInv == FindInit => FInv
  <1> SUFFICES ASSUME FindInit PROVE FInv
    OBVIOUS
  <1>1. PICK begun \in Starts : at = begun.at /\ holds = begun.holds
    BY DEF FindInit
  <1>2. ScanFormed
    BY DEF FindInit, ScanFormed, Observed, Facts
  <1> QED  BY <1>2 DEF FindInit, FInv, AnswerFormed, NoAnswer, LoadFormed, Resolved, HasRead, HasInspected, NoLoad,
                  ResultFormed, LoadedWasThere, Loaded, NoResult

-----------------------------------------------------------------------------
(* What holds of the Snapshot and of the last answer while neither is      *)
(* replaced, and a load that is refused leaves nothing to account for.     *)
LEMMA SnapshotStays ==
  ASSUME FInv, UNCHANGED <<scan, answer>>
  PROVE  ScanFormed' /\ AnswerFormed'
  <1>1. ScanFormed'
    BY DEF FInv, ScanFormed, Facts
  <1>2. AnswerFormed'
    BY DEF FInv, AnswerFormed, ShownBy, ContentsOf, PlacementsOf, Facts
  <1> QED  BY <1>1, <1>2

LEMMA RefuseKeeps ==
  ASSUME FInv, UNCHANGED <<scan, answer>>, NEW why, NEW offered, Refuse(why, offered)
  PROVE  FInv'
  <1>1. load' = NoLoad /\ result'.kind = "refused"
    BY DEF Refuse
  <1>2. LoadFormed' /\ Resolved' /\ HasRead' /\ HasInspected'
    BY <1>1 DEF LoadFormed, Resolved, HasRead, HasInspected, NoLoad
  <1>3. ResultFormed' /\ LoadedWasThere'
    BY <1>1 DEF ResultFormed, LoadedWasThere, Loaded
  <1> QED  BY <1>2, <1>3, SnapshotStays DEF FInv

(* What a load was selected by stays true of it while nothing that find    *)
(* reads is replaced, and is true of its result.                           *)
LEMMA LoadStays ==
  ASSUME UNCHANGED <<scan, archived, answer>>, Selection(load),
         load'.select = load.select, load'.request = load.request, load'.id = load.id, load'.offered = load.offered
  PROVE  Selection(load)'
  <1>1. ASSUME load.select.kind = "top" PROVE OnlySkill(load.request, load.id)'
    BY <1>1 DEF Selection, OnlySkill, Routable, Observations, Facts, TopOf
  <1>2. ASSUME load.select.kind # "placement" PROVE OnlyContent(load.id)'
    BY <1>2 DEF Selection, OnlyContent, PlacementsOf, Facts
  <1> QED  BY <1>1, <1>2 DEF Selection

LEMMA LoadedStays ==
  ASSUME UNCHANGED <<scan, archived, answer>>, Selection(load),
         result'.select = load.select, result'.request = load.request, result'.id = load.id,
         result'.offered = load.offered
  PROVE  Selection(result)'
  <1>1. ASSUME load.select.kind = "top" PROVE OnlySkill(result.request, result.id)'
    BY <1>1 DEF Selection, OnlySkill, Routable, Observations, Facts, TopOf
  <1>2. ASSUME load.select.kind # "placement" PROVE OnlyContent(result.id)'
    BY <1>2 DEF Selection, OnlyContent, PlacementsOf, Facts
  <1> QED  BY <1>1, <1>2 DEF Selection

LEMMA ResultStays ==
  ASSUME UNCHANGED <<scan, archived, answer, result>>, Selection(result)
  PROVE  Selection(result)'
  <1>1. ASSUME result.select.kind = "top" PROVE OnlySkill(result.request, result.id)'
    BY <1>1 DEF Selection, OnlySkill, Routable, Observations, Facts, TopOf
  <1>2. ASSUME result.select.kind # "placement" PROVE OnlyContent(result.id)'
    BY <1>2 DEF Selection, OnlyContent, PlacementsOf, Facts
  <1> QED  BY <1>1, <1>2 DEF Selection

LEMMA ResultFormedStays ==
  ASSUME FInv, UNCHANGED <<scan, archived, answer, result>>
  PROVE  ResultFormed' /\ LoadedWasThere'
  <1>1. ResultFormed'
    BY ResultStays DEF FInv, ResultFormed, Loaded, Eligible, PlacementsOf, Facts
  <1>2. LoadedWasThere'
    BY DEF FInv, LoadedWasThere, Loaded, Facts
  <1> QED  BY <1>1, <1>2

(* A load begins with what was found out about the selection.              *)
LEMMA BeginKeeps ==
  ASSUME FInv, UNCHANGED <<at, holds, scan, archived, answer>>,
         NEW request, NEW select, NEW offered, NEW id, NEW attempts,
         Begin(request, select, offered, id, attempts),
         Selection([request |-> request, select |-> select, offered |-> offered, id |-> id]),
         attempts # {}, attempts \subseteq Eligible(PlacementsOf(id)),
         select.kind = "placement" => attempts = {select.placement}
  PROVE  FInv'
  <1>1. /\ load'.select = select /\ load'.request = request /\ load'.id = id /\ load'.offered = offered
        /\ load'.stage = "resolve" /\ load'.attempts = attempts /\ load'.seen = {Files} /\ DOMAIN load' = Fields
        /\ result' = NoResult
    BY DEF Begin, Fields
  <1>2. Selection(load)'
    <2>1. ASSUME select.kind = "top" PROVE OnlySkill(load.request, load.id)'
      BY <1>1, <2>1 DEF Selection, OnlySkill, Routable, Observations, Facts, TopOf
    <2>2. ASSUME select.kind # "placement" PROVE OnlyContent(load.id)'
      BY <1>1, <2>2 DEF Selection, OnlyContent, PlacementsOf, Facts
    <2> QED  BY <1>1, <2>1, <2>2 DEF Selection
  <1>3. LoadFormed'
    BY <1>1, <1>2 DEF LoadFormed, Stages, Files, Eligible, PlacementsOf, Facts
  <1>4. Resolved' /\ HasRead' /\ HasInspected' /\ ResultFormed' /\ LoadedWasThere'
    BY <1>1 DEF Resolved, HasRead, HasInspected, ResultFormed, LoadedWasThere, Loaded, NoResult
  <1> QED  BY <1>3, <1>4, SnapshotStays DEF FInv

(* The exact copies that a load tries are there to be tried.               *)
LEMMA CopiesToTry ==
  ASSUME ScanFormed, NEW id, Eligible(PlacementsOf(id)) # {}
  PROVE  ExactCopies(id) # {} /\ ExactCopies(id) \subseteq Eligible(PlacementsOf(id))
  <1>1. Eligible(PlacementsOf(id)) \in SUBSET PlacementSet
    BY DEF Eligible, PlacementsOf, ScanFormed
  <1>2. FirstOf(Eligible(PlacementsOf(id))) \in Eligible(PlacementsOf(id))
    BY <1>1, FirstOfIs
  <1> QED  BY <1>2 DEF ExactCopies, ExactCopy, SameFiles

LEMMA LoadMatchKeeps ==
  ASSUME FInv, UNCHANGED <<at, holds, scan, archived, answer>>,
         NEW request, NEW select, NEW offered, NEW id, NEW top, NEW candidates,
         select.kind \in {"top", "skill", "placement"},
         offered /\ select \in answer.offers => select.kind # "top" /\ answer.number = scan.number,
         top = TopOf(request)[1], id = Selected(top, select),
         candidates = IF select.kind = "placement" THEN {select.placement} ELSE PlacementsOf(id),
         LoadMatch(request, select, offered, top, id, candidates)
  PROVE  FInv'
  <1> DEFINE attempts == IF select.kind = "placement" THEN {select.placement} ELSE ExactCopies(id)
  <1>1. CASE \E why : Refuse(why, offered)
    BY <1>1, RefuseKeeps
  <1>2. CASE ~\E why : Refuse(why, offered)
    <2>1. /\ id # 0 /\ Eligible(candidates) # {} /\ Begin(request, select, offered, id, attempts)
          /\ select.kind # "placement" => ~ChoiceRequired(id)
          /\ select.kind = "top" => OtherSkills(top) = {}
      BY <1>2 DEF LoadMatch
    <2>2. select.kind = "top" => OnlySkill(request, id)
      BY <2>1 DEF Selected, OtherSkills, VariantsOf, OnlySkill
    <2>3. select.kind # "placement" => OnlyContent(id)
      BY <2>1, NoChoice DEF FInv
    <2>4. select.kind = "skill" => select.id = id
      BY <2>1 DEF Selected
    <2>5. Selection([request |-> request, select |-> select, offered |-> offered, id |-> id])
      BY <2>2, <2>3, <2>4 DEF Selection
    <2>6. attempts # {} /\ attempts \subseteq Eligible(PlacementsOf(id))
      <3>1. CASE select.kind = "placement"
        BY <3>1, <2>1 DEF Eligible, PlacementsOf, Selected
      <3>2. CASE select.kind # "placement"
        BY <3>2, <2>1, CopiesToTry DEF FInv
      <3> QED  BY <3>1, <3>2
    <2>7. select.kind = "placement" => attempts = {select.placement}
      OBVIOUS
    <2> HIDE DEF attempts
    <2> QED  BY <2>1, <2>5, <2>6, <2>7, BeginKeeps
  <1> QED  BY <1>1, <1>2

LEMMA StartKeeps ==
  ASSUME FInv, NEW request, NEW select, NEW required, NEW offered,
         select.kind \in {"top", "skill", "placement"},
         offered /\ select \in answer.offers => select.kind # "top" /\ required = answer.number,
         Start(request, select, required, offered)
  PROVE  FInv'
  <1>1. UNCHANGED <<at, holds, scan, archived, answer>> /\ LoadRequest(request, select, required, offered)
    BY DEF Start
  <1>2. CASE \E why : Refuse(why, offered)
    BY <1>1, <1>2, RefuseKeeps
  <1>3. CASE ~\E why : Refuse(why, offered)
    <2>1. /\ SnapshotMatches(required)
          /\ LoadOf(request, select, offered, TopOf(request)[1], Selected(TopOf(request)[1], select))
      BY <1>1, <1>3 DEF LoadRequest
    <2>2. offered /\ select \in answer.offers => select.kind # "top" /\ answer.number = scan.number
      BY <2>1 DEF SnapshotMatches, FInv, AnswerFormed
    <2>3. PICK top, id, candidates :
             /\ top = TopOf(request)[1] /\ id = Selected(top, select)
             /\ candidates = IF select.kind = "placement" THEN {select.placement} ELSE PlacementsOf(id)
             /\ LoadMatch(request, select, offered, top, id, candidates)
      BY <2>1 DEF LoadOf
    <2> QED  BY <1>1, <2>2, <2>3, LoadMatchKeeps
  <1> QED  BY <1>2, <1>3

(* Commands other than loads run while no load does.                       *)
LEMMA QuietLoad ==
  ASSUME load = NoLoad, load' = NoLoad, result' = NoResult
  PROVE  LoadFormed' /\ Resolved' /\ HasRead' /\ HasInspected' /\ ResultFormed' /\ LoadedWasThere'
  BY DEF LoadFormed, Resolved, HasRead, HasInspected, NoLoad, ResultFormed, LoadedWasThere, Loaded, NoResult

LEMMA FindKeeps == FInv /\ Find => FInv'
  <1> SUFFICES ASSUME FInv, Find PROVE FInv'
    OBVIOUS
  <1>1. PICK request : answer' = AnswerTo(request, TopOf(request))
    BY DEF Find
  <1>2. \A o \in answer'.offers :
           /\ o.kind \in {"skill", "placement"}
           /\ answer'.number = scan.number /\ answer'.shown[o] = ShownBy(o)
    BY <1>1 DEF AnswerTo, Answer, NoAnswer, VariantOffers, PlacementOffers, OfSkill, OfPlacement
  <1>3. scan' = scan
    BY DEF Find
  <1>4. scan.number \in Nat \ {0} /\ ScanFormed'
    BY <1>3 DEF FInv, ScanFormed, Facts
  <1>5. \A o : ShownBy(o)' = ShownBy(o)
    BY <1>3 DEF ShownBy, ContentsOf, PlacementsOf, Facts
  <1>6. AnswerFormed'
    BY <1>2, <1>3, <1>4, <1>5 DEF AnswerFormed
  <1> QED  BY <1>4, <1>6, QuietLoad DEF Find, BetweenLoads, FInv

LEMMA RescanKeeps == FInv /\ Rescan => FInv'
  <1> SUFFICES ASSUME FInv, Rescan PROVE FInv'
    OBVIOUS
  <1>1. scan'.number = scan.number + 1 /\ ScanFormed'
    BY DEF Rescan, Observed, FInv, ScanFormed, Facts
  <1>2. AnswerFormed'
    BY <1>1 DEF Rescan, FInv, ScanFormed, AnswerFormed
  <1> QED  BY <1>1, <1>2, QuietLoad DEF Rescan, BetweenLoads, FInv

LEMMA OtherCommandKeeps == FInv /\ (MakeReport \/ Archive) => FInv'
  BY QuietLoad, SnapshotStays DEF MakeReport, Archive, BetweenLoads, FInv

(* The files change: what a load has met is not forgotten.                 *)
LEMMA ChangeKeeps == FInv /\ Change => FInv'
  <1> SUFFICES ASSUME FInv, Change PROVE FInv'
    OBVIOUS
  <1>1. UNCHANGED <<scan, archived, answer, result>>
    BY DEF Change
  <1>2. CASE load = NoLoad
    <2>1. load' = NoLoad
      BY <1>2 DEF Change, Note
    <2>2. LoadFormed' /\ Resolved' /\ HasRead' /\ HasInspected'
      BY <2>1 DEF LoadFormed, Resolved, HasRead, HasInspected, NoLoad
    <2> QED  BY <1>1, <2>2, SnapshotStays, ResultFormedStays DEF FInv
  <1>3. CASE load # NoLoad
    <2>1. load' = [load EXCEPT !.seen = @ \union {Files'}]
      BY <1>3 DEF Change, Note
    <2>2. /\ load'.select = load.select /\ load'.request = load.request /\ load'.id = load.id
          /\ load'.offered = load.offered /\ load'.stage = load.stage /\ load'.attempts = load.attempts
          /\ load'.dir = load.dir /\ load'.text = load.text /\ load'.known = load.known
          /\ load'.parts = load.parts
          /\ load'.seen = load.seen \union {Files'} /\ DOMAIN load' = Fields
      BY <1>3, <2>1 DEF FInv, LoadFormed, Fields
    <2>3. Selection(load)'
      BY <1>1, <1>3, <2>2, LoadStays DEF FInv, LoadFormed
    <2>4. LoadFormed'
      BY <1>1, <1>3, <2>2, <2>3 DEF FInv, LoadFormed, Eligible, PlacementsOf, Facts
    <2>5. Resolved' /\ HasRead' /\ HasInspected'
      BY <1>1, <2>2 DEF FInv, Resolved, HasRead, HasInspected, Trying, FirstOf, Want, Facts
    <2> QED  BY <1>1, <2>4, <2>5, SnapshotStays, ResultFormedStays DEF FInv
  <1> QED  BY <1>2, <1>3

-----------------------------------------------------------------------------
(* The steps of a load.                                                    *)
LEMMA TryingIs ==
  ASSUME FInv, load # NoLoad
  PROVE  Trying \in load.attempts /\ Trying \in Eligible(PlacementsOf(load.id))
  <1>1. load.attempts # {} /\ load.attempts \in SUBSET PlacementSet
    BY DEF FInv, ScanFormed, LoadFormed, Eligible, PlacementsOf
  <1>2. Trying \in load.attempts
    BY <1>1, FirstOfIs DEF Trying
  <1> QED  BY <1>2 DEF FInv, LoadFormed

LEMMA TryNextKeeps ==
  ASSUME FInv, load # NoLoad, Still, NEW why, TryNext(why)
  PROVE  FInv'
  <1>1. UNCHANGED <<at, holds, scan, archived, answer>>
    BY DEF Still
  <1>2. CASE load.attempts = {Trying}
    <2>1. PICK first : Refuse(first, load.offered)
      BY <1>2 DEF TryNext
    <2>2. \A b : b = load.offered => Refuse(first, b)
      BY <2>1
    <2> QED  BY <1>1, <2>2, RefuseKeeps
  <1>3. CASE load.attempts # {Trying}
    <2>1. PICK first : load' = [load EXCEPT !.stage = "resolve", !.attempts = @ \ {Trying}, !.failed = first]
      BY <1>3 DEF TryNext
    <2>2. result' = result
      BY <1>3 DEF TryNext
    <2>3. /\ load'.select = load.select /\ load'.request = load.request /\ load'.id = load.id
          /\ load'.offered = load.offered /\ load'.stage = "resolve" /\ load'.attempts = load.attempts \ {Trying}
          /\ load'.seen = load.seen /\ DOMAIN load' = Fields
      BY <2>1 DEF FInv, LoadFormed, Fields
    <2>4. Selection(load)'
      BY <1>1, <2>3, LoadStays DEF FInv, LoadFormed
    <2>5. LoadFormed'
      BY <1>1, <1>3, <2>3, <2>4, TryingIs DEF FInv, LoadFormed, Stages, Files, Eligible, PlacementsOf, Facts
    <2>6. Resolved' /\ HasRead' /\ HasInspected'
      BY <2>3 DEF Resolved, HasRead, HasInspected
    <2> QED  BY <1>1, <2>2, <2>5, <2>6, SnapshotStays, ResultFormedStays DEF FInv
  <1> QED  BY <1>2, <1>3

(* A step that goes on with the same placement.                            *)
LEMMA GoOnKeeps ==
  ASSUME FInv, load # NoLoad, Still, result' = result,
         load'.select = load.select, load'.request = load.request, load'.id = load.id,
         load'.offered = load.offered, load'.attempts = load.attempts, load'.seen = load.seen,
         DOMAIN load' = Fields, load'.stage \in Stages,
         Resolved', HasRead', HasInspected'
  PROVE  FInv'
  <1>1. UNCHANGED <<at, holds, scan, archived, answer>>
    BY DEF Still
  <1>2. Selection(load)'
    BY <1>1, LoadStays DEF FInv, LoadFormed
  <1>3. LoadFormed'
    BY <1>1, <1>2 DEF FInv, LoadFormed, Files, Eligible, PlacementsOf, Facts
  <1> QED  BY <1>1, <1>3, SnapshotStays, ResultFormedStays DEF FInv

LEMMA ResolveKeeps == FInv /\ Resolve => FInv'
  <1> SUFFICES ASSUME FInv, Resolve PROVE FInv'
    OBVIOUS
  <1>1. load # NoLoad /\ Still
    BY DEF Resolve, NoLoad
  <1>2. CASE ~(at[Trying] \in ApprovedDirs /\ at[Trying] = Facts[Trying].dir)
    BY <1>1, <1>2, TryNextKeeps DEF Resolve
  <1>3. CASE at[Trying] \in ApprovedDirs /\ at[Trying] = Facts[Trying].dir
    <2>1. load' = [load EXCEPT !.stage = "read", !.dir = at[Trying]] /\ result' = result
      BY <1>3 DEF Resolve
    <2>2. /\ load'.select = load.select /\ load'.request = load.request /\ load'.id = load.id
          /\ load'.offered = load.offered /\ load'.stage = "read" /\ load'.attempts = load.attempts
          /\ load'.dir = at[Trying] /\ load'.seen = load.seen /\ DOMAIN load' = Fields
      BY <1>1, <2>1 DEF FInv, LoadFormed, Fields
    <2>3. Files \in load.seen /\ Files.at = at
      BY <1>1 DEF FInv, LoadFormed, Files
    <2>4. Trying' = Trying /\ Facts' = Facts
      BY <1>1, <2>2 DEF Trying, FirstOf, Still, Facts
    <2>5. Resolved' /\ HasRead' /\ HasInspected'
      BY <1>3, <2>2, <2>3, <2>4 DEF Resolved, HasRead, HasInspected
    <2> QED  BY <1>1, <2>1, <2>2, <2>5, GoOnKeeps DEF Stages
  <1> QED  BY <1>2, <1>3

LEMMA ReadEntryKeeps == FInv /\ ReadEntry => FInv'
  <1> SUFFICES ASSUME FInv, ReadEntry PROVE FInv'
    OBVIOUS
  <1> DEFINE have == holds[load.dir]
             good == have # Unreadable /\ have.form = "ok" /\ have.entry = Want.entry
  <1>1. load # NoLoad /\ Still /\ load.stage = "read"
    BY DEF ReadEntry, NoLoad
  <1>2. CASE ~good
    BY <1>1, <1>2, TryNextKeeps DEF ReadEntry
  <1>3. CASE good
    <2>1. load' = [load EXCEPT !.stage = "inspect", !.text = have.entry] /\ result' = result
      BY <1>3 DEF ReadEntry
    <2>2. /\ load'.select = load.select /\ load'.request = load.request /\ load'.id = load.id
          /\ load'.offered = load.offered /\ load'.stage = "inspect" /\ load'.attempts = load.attempts
          /\ load'.dir = load.dir /\ load'.text = Want.entry /\ load'.seen = load.seen /\ DOMAIN load' = Fields
      BY <1>1, <1>3, <2>1 DEF FInv, LoadFormed, Fields
    <2>3. Trying' = Trying /\ Facts' = Facts
      BY <1>1, <2>2 DEF Trying, FirstOf, Still, Facts
    <2>4. Resolved' /\ HasRead' /\ HasInspected'
      BY <1>1, <2>2, <2>3 DEF FInv, Resolved, HasRead, HasInspected, Want
    <2> QED  BY <1>1, <2>1, <2>2, <2>4, GoOnKeeps DEF Stages
  <1> QED  BY <1>2, <1>3

LEMMA InspectPackageKeeps == FInv /\ InspectPackage => FInv'
  <1> SUFFICES ASSUME FInv, InspectPackage PROVE FInv'
    OBVIOUS
  <1>1. load # NoLoad /\ Still /\ load.stage = "inspect"
    BY DEF InspectPackage, NoLoad
  <1>2. CASE holds[load.dir] = Unreadable
    BY <1>1, <1>2, TryNextKeeps DEF InspectPackage
  <1>3. CASE holds[load.dir] # Unreadable
    <2>1. /\ load' = [load EXCEPT !.stage = "hash", !.known = holds[load.dir].id, !.parts = <<>>]
          /\ result' = result
      BY <1>3 DEF InspectPackage
    <2>2. /\ load'.select = load.select /\ load'.request = load.request /\ load'.id = load.id
          /\ load'.offered = load.offered /\ load'.stage = "hash" /\ load'.attempts = load.attempts
          /\ load'.dir = load.dir /\ load'.text = load.text /\ load'.known = holds[load.dir].id
          /\ load'.parts = <<>> /\ load'.seen = load.seen /\ DOMAIN load' = Fields
      BY <1>1, <2>1 DEF FInv, LoadFormed, Fields
    <2>3. Trying' = Trying /\ Facts' = Facts
      BY <1>1, <2>2 DEF Trying, FirstOf, Still, Facts
    <2>4. Resolved' /\ HasRead'
      BY <1>1, <2>2, <2>3 DEF FInv, Resolved, HasRead, Want
    <2>5. Files \in load.seen /\ Files.holds = holds
      BY <1>1 DEF FInv, LoadFormed, Files
    <2>6. HasInspected'
      BY <1>3, <2>2, <2>5 DEF HasInspected
    <2> QED  BY <1>1, <2>1, <2>2, <2>4, <2>6, GoOnKeeps DEF Stages
  <1> QED  BY <1>2, <1>3

LEMMA HashFileKeeps == FInv /\ HashFile => FInv'
  <1> SUFFICES ASSUME FInv, HashFile PROVE FInv'
    OBVIOUS
  <1>1. load # NoLoad /\ Still /\ load.stage = "hash"
    <2>1. Still /\ load.stage = "hash"
      BY Zenon DEF HashFile
    <2> QED  BY <2>1 DEF NoLoad
  <1>2. CASE ~Whole(holds[load.dir])
    BY <1>1, <1>2, TryNextKeeps DEF HashFile
  <1>3. CASE Whole(holds[load.dir])
    <2>1. PICK part, parts, stage :
             /\ parts = HashedWith(part) /\ stage = IF DOMAIN parts = Parts THEN "confirm" ELSE "hash"
             /\ load' = [load EXCEPT !.parts = parts, !.stage = stage] /\ result' = result
      BY <1>3 DEF HashFile
    <2>2. /\ load'.select = load.select /\ load'.request = load.request /\ load'.id = load.id
          /\ load'.offered = load.offered /\ load'.stage = stage /\ load'.attempts = load.attempts
          /\ load'.dir = load.dir /\ load'.text = load.text /\ load'.known = load.known
          /\ load'.parts = parts /\ load'.seen = load.seen /\ DOMAIN load' = Fields
      BY <1>1, <2>1 DEF FInv, LoadFormed, Fields
    <2>3. Trying' = Trying /\ Facts' = Facts
      BY <1>1, <2>2 DEF Trying, FirstOf, Still, Facts
    <2>4. Resolved' /\ HasRead'
      BY <1>1, <2>1, <2>2, <2>3 DEF FInv, Resolved, HasRead, Want
    <2>5. Files \in load.seen /\ Files.holds = holds
      BY <1>1 DEF FInv, LoadFormed, Files
    <2>6. HasInspected'
      <3>1. \A x \in DOMAIN parts : \/ parts[x] = holds[load.dir][x]
                                     \/ (x \in DOMAIN load.parts /\ parts[x] = load.parts[x])
        BY <2>1 DEF HashedWith
      <3>2. /\ \E files \in load.seen : files.holds[load.dir] # Unreadable /\ files.holds[load.dir].id = load.known
            /\ \A x \in DOMAIN load.parts : \E files \in load.seen :
                  Whole(files.holds[load.dir]) /\ files.holds[load.dir][x] = load.parts[x]
        BY <1>1 DEF FInv, HasInspected
      <3>3. \A x \in DOMAIN parts : \E files \in load.seen :
               Whole(files.holds[load.dir]) /\ files.holds[load.dir][x] = parts[x]
        BY <1>3, <2>5, <3>1, <3>2
      <3> QED  BY <2>1, <2>2, <3>2, <3>3 DEF HasInspected
    <2> QED  BY <1>1, <2>1, <2>2, <2>4, <2>6, GoOnKeeps DEF Stages
  <1> QED  BY <1>2, <1>3

LEMMA ConfirmKeeps == FInv /\ Confirm => FInv'
  <1> SUFFICES ASSUME FInv, Confirm PROVE FInv'
    OBVIOUS
  <1>1. load # NoLoad /\ Still /\ load.stage = "confirm"
    BY DEF Confirm, NoLoad
  <1>2. CASE ~(at[Trying] = load.dir /\ SamePackage)
    BY <1>1, <1>2, TryNextKeeps DEF Confirm
  <1>3. CASE at[Trying] = load.dir /\ SamePackage
    <2>1. load' = NoLoad
      BY <1>3 DEF Confirm
    <2>2. /\ result'.kind = "loaded" /\ result'.id = load.id /\ result'.placement = Trying
          /\ result'.text = load.text /\ result'.select = load.select /\ result'.offered = load.offered
          /\ result'.request = load.request /\ result'.seen = load.seen
      BY <1>3 DEF Confirm
    <2>3. UNCHANGED <<at, holds, scan, archived, answer>> /\ Facts' = Facts
      BY <1>1 DEF Still, Facts
    <2>4. LoadFormed' /\ Resolved' /\ HasRead' /\ HasInspected'
      BY <2>1 DEF LoadFormed, Resolved, HasRead, HasInspected, NoLoad
    <2>5. Selection(result)'
      BY <1>1, <2>2, <2>3, LoadedStays DEF FInv, LoadFormed
    <2>6. ResultFormed'
      BY <1>1, <2>2, <2>3, <2>5, TryingIs DEF FInv, LoadFormed, ResultFormed, Eligible, PlacementsOf
    <2>7. LoadedWasThere'
      <3>1. /\ load.text = Facts[Trying].content.entry /\ load.dir = Facts[Trying].dir
            /\ \E files \in load.seen : files.at[Trying] = load.dir
        BY <1>1 DEF FInv, Resolved, HasRead, Want
      <3>2. \E files \in load.seen : files.holds[load.dir] # Unreadable /\ files.holds[load.dir].id = load.id
        BY <1>1, <1>3 DEF FInv, HasInspected, SamePackage
      <3>3. \A part \in Parts : \E files \in load.seen :
               Whole(files.holds[load.dir]) /\ files.holds[load.dir][part] = Facts[Trying].content[part]
        BY <1>1, <1>3 DEF FInv, HasInspected, SamePackage, SameFiles, Want
      <3> QED  BY <2>2, <2>3, <3>1, <3>2, <3>3 DEF LoadedWasThere
    <2> QED  BY <2>3, <2>4, <2>6, <2>7, SnapshotStays DEF FInv
  <1> QED  BY <1>2, <1>3

LEMMA NextFInv == FInv /\ [FindNext]_findVars => FInv'
  <1> SUFFICES ASSUME FInv, [FindNext]_findVars PROVE FInv'
    OBVIOUS
  <1>1. CASE Find
    BY <1>1, FindKeeps
  <1>2. CASE LoadTop
    <2>1. PICK request, select, offered :
             select = Nothing /\ offered = FALSE /\ Start(request, select, 0, offered)
      BY <1>2 DEF LoadTop
    <2>2. select.kind = "top" /\ ~offered
      BY <2>1 DEF Nothing
    <2> QED  BY <2>1, <2>2, StartKeeps
  <1>3. CASE LoadReady
    <2>1. PICK request, select, offered : select = Nothing /\ Start(request, select, 0, offered)
      BY <1>3 DEF LoadReady
    <2>2. select.kind = "top" /\ select \notin answer.offers
      BY <2>1 DEF Nothing, FInv, AnswerFormed
    <2> QED  BY <2>1, <2>2, StartKeeps
  <1>4. CASE TakeLoadOffer
    <2>1. PICK request, select, required, offered :
             select \in answer.offers /\ required = answer.number /\ Start(request, select, required, offered)
      BY <1>4 DEF TakeLoadOffer
    <2>2. select.kind \in {"skill", "placement"}
      BY <2>1 DEF FInv, AnswerFormed
    <2> QED  BY <2>1, <2>2, StartKeeps
  <1>5. CASE Resolve \/ ReadEntry \/ InspectPackage \/ HashFile \/ Confirm
    BY <1>5, ResolveKeeps, ReadEntryKeeps, InspectPackageKeeps, HashFileKeeps, ConfirmKeeps
  <1>6. CASE Change \/ Rescan \/ MakeReport \/ Archive
    BY <1>6, ChangeKeeps, RescanKeeps, OtherCommandKeeps
  <1>7. CASE UNCHANGED findVars
    <2>1. /\ UNCHANGED <<at, holds, scan, archived, answer, load, result>>
          /\ Trying' = Trying /\ Facts' = Facts
      BY <1>7 DEF findVars, Trying, FirstOf, Facts
    <2>2. LoadFormed'
      BY <2>1, LoadStays DEF FInv, LoadFormed, Eligible, PlacementsOf, Files
    <2>3. Resolved' /\ HasRead' /\ HasInspected'
      BY <2>1 DEF FInv, Resolved, HasRead, HasInspected, Want
    <2> QED  BY <2>1, <2>2, <2>3, SnapshotStays, ResultFormedStays DEF FInv
  <1> QED  BY <1>1, <1>2, <1>3, <1>4, <1>5, <1>6, <1>7 DEF FindNext

-----------------------------------------------------------------------------
(* Where the Agent is led when it has to choose.                           *)

(* No content is taken for what is known of an unread placement.           *)
FilesFormed ==
    /\ DOMAIN at = PlacementSet /\ \A p \in PlacementSet : at[p] \in DOMAIN holds
    /\ \A d \in DOMAIN holds : ContentFormed(holds[d])

LEMMA InitFilesFormed == FindInit => FilesFormed
  BY FindAssumption DEF FindInit, FilesFormed

LEMMA NextFilesFormed == FilesFormed /\ [FindNext]_findVars => FilesFormed'
  <1> SUFFICES ASSUME FilesFormed, [FindNext]_findVars PROVE FilesFormed'
    OBVIOUS
  <1>1. CASE Change
    BY <1>1, FindAssumption DEF Change, FilesFormed
  <1>2. CASE UNCHANGED <<at, holds>>
    BY <1>2 DEF FilesFormed
  <1> QED  BY <1>1, <1>2 DEF FindNext, findVars, Find, LoadTop, LoadReady, TakeLoadOffer, Start, Resolve, ReadEntry,
              InspectPackage, HashFile, Confirm, Still, Rescan, MakeReport, Archive

(* Files that are as the Snapshot saw them, and no dangling link among     *)
(* them, do not count as changed.                                          *)
LEMMA UnchangedIsNoDrift ==
  ASSUME FilesFormed, Facts = Observed(0).facts, \A p \in DOMAIN Facts : Facts[p].dir # Dangling, NEW id
  PROVE  ~Drifted(id)
  <1> DEFINE ContentOf(p) == IF at[p] \notin ApprovedDirs \/ holds[at[p]] = Unreadable THEN Outside[p]
                             ELSE IF Whole(holds[at[p]]) THEN holds[at[p]]
                             ELSE [holds[at[p]] EXCEPT !.content = Unknown, !.rest = Unknown]
  <1>1. \A p \in DOMAIN Facts : p \in PlacementSet /\ at[p] # Gone /\ Facts[p] = FactAt(p)
    BY DEF Observed
  <1>2. ASSUME NEW p \in DOMAIN Facts
        PROVE  /\ Facts[p].dir = at[p] /\ at[p] # Dangling
               /\ Facts[p].trusted = (at[p] \in ApprovedDirs)
               /\ Facts[p].complete = (at[p] \in ApprovedDirs /\ Whole(holds[at[p]]))
               /\ Facts[p].content = ContentOf(p)
    <2>1. Facts[p] = FactAt(p)
      BY <1>1
    <2>2. FactAt(p).trusted = (at[p] \in ApprovedDirs)
      BY Zenon DEF FactAt
    <2>3. FactAt(p).complete = (at[p] \in ApprovedDirs /\ Whole(holds[at[p]]))
      BY Zenon DEF FactAt
    <2>4. FactAt(p).dir = at[p]
      BY DEF FactAt
    <2>5. FactAt(p).content = ContentOf(p)
      BY DEF FactAt
    <2>6. Facts[p].dir # Dangling
      OBVIOUS
    <2> HIDE DEF FactAt
    <2> QED  BY <2>1, <2>2, <2>3, <2>4, <2>5, <2>6
  <1>3. ASSUME NEW p \in PlacementsOf(id), Facts[p].complete PROVE p \in ReadablePaths(id)
    <2>1. p \in DOMAIN Facts /\ Facts[p].content.id = id
      BY DEF PlacementsOf
    <2>2. at[p] \in ApprovedDirs /\ Whole(holds[at[p]])
      BY <1>2, <1>3, <2>1
    <2>3. Facts[p].content = holds[at[p]]
      BY <1>2, <2>1, <2>2 DEF Whole
    <2>4. holds[at[p]].id = id /\ SameFiles(holds[at[p]], Facts[p].content)
      BY <2>1, <2>3 DEF SameFiles
    <2> HIDE DEF ContentOf
    <2> QED  BY <2>2, <2>4 DEF ReadablePaths
  <1>4. ASSUME ReadablePaths(id) = {}, NEW p \in PlacementsOf(id), ~Facts[p].trusted
        PROVE  Unconfirmed(id)
    <2>1. \A q \in PlacementsOf(id) : ~Facts[q].complete /\ Facts[q].content.id = id /\ q \in DOMAIN Facts
      BY <1>3, <1>4 DEF PlacementsOf
    <2>2. Outside[p].id = id
      BY <1>2, <1>4, <2>1
    <2>3. ASSUME NEW q \in PlacementsOf(id), Outside[q].id # id PROVE FALSE
      <3>1. at[q] \in ApprovedDirs /\ holds[at[q]] # Unreadable /\ ~Whole(holds[at[q]])
        BY <1>2, <2>1, <2>3
      <3>2. ContentOf(q) = [holds[at[q]] EXCEPT !.content = Unknown, !.rest = Unknown]
        BY <3>1
      <3>3. "id" \in DOMAIN holds[at[q]] /\ holds[at[q]].id # Outside[p].id
        BY <1>1, <1>4, <2>1, <3>1 DEF FilesFormed, ContentFormed, PlacementsOf
      <3>4. \A c : "id" \in DOMAIN c => [c EXCEPT !.content = Unknown, !.rest = Unknown].id = c.id
        OBVIOUS
      <3>5. ContentOf(q).id = holds[at[q]].id
        BY <3>2, <3>3, <3>4
      <3>6. Facts[q].content = ContentOf(q) /\ Facts[q].content.id = id
        BY <1>2, <2>1
      <3> HIDE DEF ContentOf
      <3> QED  BY <2>2, <3>3, <3>5, <3>6
    <2>4. \A q \in PlacementsOf(id) : q = p
      BY <1>1, <2>1, <2>2, <2>3, FindAssumption
    <2> QED  BY <1>2, <1>4, <2>1, <2>4 DEF Unconfirmed, Escapes
  <1>5. ASSUME NEW p \in PlacementsOf(id)
        PROVE  ReadState(p) \notin {"physical_source_drift", "entrypoint_unreadable", "entrypoint_content_drift",
                                    "package_identity_drift", "package_identity_unreadable"}
    <2>1. p \in DOMAIN Facts
      BY DEF PlacementsOf
    <2>2. CASE Facts[p].trusted /\ Facts[p].complete
      <3>1. /\ at[p] \notin {Gone, Dangling} /\ at[p] \in ApprovedDirs /\ at[p] = Facts[p].dir
            /\ holds[at[p]] # Unreadable /\ holds[at[p]].form # "incomplete" /\ Facts[p].content = holds[at[p]]
        BY <1>2, <2>1, <2>2, FindAssumption DEF Whole
      <3> QED  BY <2>2, <3>1 DEF ReadState, SameFiles
    <2>3. CASE ~Facts[p].trusted
      BY <2>3 DEF ReadState
    <2>4. CASE Facts[p].trusted /\ ~Facts[p].complete
      BY <2>4 DEF ReadState
    <2> QED  BY <2>2, <2>3, <2>4
  <1>6. ASSUME ReadablePaths(id) = {}, ~Unconfirmed(id), NEW p \in PlacementsOf(id)
        PROVE  StillIncomplete(p)
    <2>1. p \in DOMAIN Facts /\ Facts[p].trusted /\ ~Facts[p].complete /\ at[p] = Facts[p].dir
      BY <1>2, <1>3, <1>4, <1>6 DEF PlacementsOf
    <2>2. ASSUME holds[at[p]] # Unreadable PROVE Facts[p].content.entry = holds[at[p]].entry
      <3>1. "entry" \in DOMAIN holds[at[p]]
        BY <1>1, <2>1, <2>2 DEF FilesFormed, ContentFormed
      <3>2. ContentOf(p) = [holds[at[p]] EXCEPT !.content = Unknown, !.rest = Unknown]
        BY <1>2, <2>1, <2>2
      <3> QED  BY <1>2, <2>1, <3>1, <3>2
    <2>3. holds[at[p]] = Unreadable => Facts[p].content = Outside[p]
      BY <1>2, <2>1
    <2> QED  BY <2>1, <2>2, <2>3 DEF StillIncomplete
  <1> QED  BY <1>5, <1>6 DEF Drifted

(* What is seen of finitely many observations is finite.                   *)
LEMMA ObservationsFinite ==
  ASSUME ScanFormed, NEW O \in SUBSET Observations, NEW field \in {"id", "content"}
  PROVE  IsFiniteSet({o[field] : o \in O})
  <1> DEFINE content == [p \in DOMAIN Facts |-> Facts[p].content]
             view == [o \in O |-> o[field]]
             values == {o[field] : o \in O}
  <1>1. Observations = {content[p] : p \in DOMAIN Facts}
    BY DEF Observations
  <1>2. IsFiniteSet(Observations)
    <2> HIDE DEF content
    <2> QED  BY <1>1, SeenFinite
  <1>3. IsFiniteSet(O)
    BY <1>2, FS_Subset
  <1>4. view \in Surjection(O, values)
    BY DEF Surjection
  <1> QED  BY <1>3, <1>4, FS_Surjection

(* The Findings of the Report tell of the Skills to choose from.           *)
LEMMA FindingIsThere ==
  ASSUME ScanFormed, NEW top, NEW group, group = {o \in Observations : o.name = top.name},
         \A o \in group : o.id \notin archived /\ o.content # Unknown,
         Reference(top) = "finding_unavailable"
  PROVE  Cardinality({o.content : o \in group}) = 1
  <1> DEFINE variants == VariantsOf(top.name)
             contents == {o.content : o \in group}
  <1>1. variants = {o.id : o \in group}
    BY DEF VariantsOf, Routable
  <1>2. ~(Cardinality(variants) < 2) /\ FindingFor(variants) = "finding_unavailable"
    BY DEF Reference
  <1>3. IsFiniteSet(variants) /\ IsFiniteSet(contents)
    <2>1. IsFiniteSet({o["id"] : o \in group}) /\ IsFiniteSet({o["content"] : o \in group})
      BY ObservationsFinite
    <2> QED  BY <1>1, <2>1
  <1>4. Cardinality(variants) \in Nat /\ Cardinality(variants) > 1 /\ variants # {}
    BY <1>2, <1>3, FS_CardinalityType, FS_EmptySet
  <1>5. group # {} /\ contents # {}
    BY <1>1, <1>4
  <1>6. Cardinality(contents) \in Nat \ {0}
    BY <1>3, <1>5, FS_CardinalityType, FS_EmptySet
  <1>7. CASE \A v \in variants : Unconfirmed(v)
    <2>1. variants \subseteq EscapingSkills
      BY <1>1, <1>7 DEF Unconfirmed, EscapingSkills, Observations, PlacementsOf
    <2>2. EscapingSkills \in EscapingFor(variants)
      BY <1>4, <2>1 DEF EscapingFor
    <2> QED  BY <1>2, <1>7, <2>2 DEF FindingFor
  <1>8. CASE ~\A v \in variants : Unconfirmed(v)
    <2>1. DivergentFor(variants) = {}
      BY <1>2, <1>8 DEF FindingFor
    <2>2. ASSUME Cardinality(contents) > 1 PROVE variants \in DivergentSets
      <3>1. top.name \in {o.name : o \in Observations}
        BY <1>5
      <3> QED  BY <1>1, <1>4, <2>2, <3>1 DEF DivergentSets
    <2> QED  BY <1>6, <2>1, <2>2 DEF DivergentFor
  <1> QED  BY <1>7, <1>8

LEMMA LedWhereItCan == ScanFormed /\ FilesFormed => LeadsToChoice
  <1> SUFFICES ASSUME ScanFormed, FilesFormed, NEW top PROVE LedToChoice(top, Reference(top))
    BY DEF LeadsToChoice
  <1>1. ASSUME Reference(top) = "rescan_required"
        PROVE  Facts # Observed(0).facts \/ \E p \in DOMAIN Facts : Facts[p].dir = Dangling
    <2>1. PICK id : Drifted(id)
      BY <1>1 DEF Reference, FindingFor
    <2> QED  BY <2>1, UnchangedIsNoDrift
  <1> QED  BY <1>1, FindingIsThere DEF LedToChoice

-----------------------------------------------------------------------------
(* The inductive invariant holds in every state of find.                   *)
THEOREM FindInvariant == FindSpec => []FInv
  <1>1. FindInit => FInv
    BY InitFInv
  <1>2. FInv /\ [FindNext]_findVars => FInv'
    BY NextFInv
  <1> QED  BY <1>1, <1>2, PTL DEF FindSpec

(* Whatever files change between its steps, a load returns the text that   *)
(* the Snapshot has for the placement it names, and while it ran that      *)
(* placement led to the directory of the Snapshot, and that directory held *)
(* the identity and every file of the package, each at some moment.        *)
THEOREM LoadsWereThere == FindSpec => []LoadedWasThere
  <1>1. FInv => LoadedWasThere
    BY DEF FInv
  <1> QED  BY <1>1, FindInvariant, PTL

(* A load through an offer returns a content that the answer showed for    *)
(* it, however many Scans and changes of files came between.               *)
THEOREM OffersAreKept == FindSpec => []LoadsWhatWasShown
  <1>1. FInv => LoadsWhatWasShown
    <2> SUFFICES ASSUME FInv, Loaded, result.offered, result.select \in answer.offers
                 PROVE  Facts[result.placement].content.content \in answer.shown[result.select]
      BY DEF LoadsWhatWasShown
    <2>1. /\ answer.number = scan.number /\ result.select.kind \in {"skill", "placement"}
          /\ answer.shown[result.select] = ShownBy(result.select)
      BY DEF FInv, ResultFormed, Selection, AnswerFormed
    <2>2. CASE result.select.kind = "placement"
      BY <2>1, <2>2 DEF FInv, ResultFormed, ShownBy
    <2>3. CASE result.select.kind = "skill"
      BY <2>1, <2>3 DEF FInv, ResultFormed, Selection, ShownBy, ContentsOf, Eligible
    <2> QED  BY <2>1, <2>2, <2>3
  <1> QED  BY <1>1, FindInvariant, PTL

(* find chooses for nobody: a load without a selector had no namesake to   *)
(* choose from, one without a placement no other content, and an answer    *)
(* that leaves the choice to the Agent leads it to where it can choose.    *)
THEOREM AgentsChoose == FindSpec => []NoSilentChoice
  <1>1. FInv => NotChosenForIt
    BY DEF FInv, ResultFormed, Selection, OnlySkill, OnlyContent, NotChosenForIt, Eligible
  <1>2. FInv /\ FilesFormed => LeadsToChoice
    BY LedWhereItCan DEF FInv
  <1>3. FInv /\ FilesFormed => NoSilentChoice
    BY <1>1, <1>2 DEF NoSilentChoice
  <1>4. FindSpec => []FilesFormed
    <2>1. FindInit => FilesFormed
      BY InitFilesFormed
    <2>2. FilesFormed /\ [FindNext]_findVars => FilesFormed'
      BY NextFilesFormed
    <2> QED  BY <2>1, <2>2, PTL DEF FindSpec
  <1> QED  BY <1>3, <1>4, FindInvariant, PTL

-----------------------------------------------------------------------------
(***************************************************************************)
(* Recommendations of a Roster.                                            *)
(***************************************************************************)
(* The Agents that list the Skill in the place p.                          *)
ListedAt(d, found, s, p) ==
    {c.agent : c \in {x \in found : x.skill = s /\ x.exposed /\ MutationPath(d, x) = p}}

-----------------------------------------------------------------------------
(* Agents of one place reach the same Agents.                              *)
LEMMA SameComponent ==
  ASSUME NEW d, NEW found, NEW s, NEW g \in Together(d, found, s), NEW a \in g, NEW b \in g
  PROVE  Component(d, found, s, a) = Component(d, found, s, b)
  <1> DEFINE groups == Together(d, found, s)
             all == UNION groups
             Closed(C) == \A h \in groups : h \cap C # {} => h \subseteq C
  <1>1. all = (UNION groups) \union {a} /\ all = (UNION groups) \union {b}
    <2>1. a \in all /\ b \in all
      OBVIOUS
    <2> HIDE DEF all
    <2>2. all = all \union {a} /\ all = all \union {b}
      BY <2>1
    <2>3. all = UNION groups
      BY DEF all
    <2> HIDE DEF groups
    <2> QED  BY <2>2, <2>3
  <1>2. \A C \in SUBSET all : Closed(C) => (a \in C <=> b \in C)
    OBVIOUS
  <1>3. Component(d, found, s, a) = {x \in all : \A C \in {D \in SUBSET all : a \in D /\ Closed(D)} : x \in C}
    <2>1. \A U : U = (UNION groups) \union {a} =>
             Component(d, found, s, a) = {x \in U : \A C \in {D \in SUBSET U : a \in D /\ Closed(D)} : x \in C}
      BY DEF Component
    <2> HIDE DEF Closed, groups, all
    <2> QED  BY <1>1, <2>1
  <1>4. Component(d, found, s, b) = {x \in all : \A C \in {D \in SUBSET all : b \in D /\ Closed(D)} : x \in C}
    <2>1. \A U : U = (UNION groups) \union {b} =>
             Component(d, found, s, b) = {x \in U : \A C \in {D \in SUBSET U : b \in D /\ Closed(D)} : x \in C}
      BY DEF Component
    <2> HIDE DEF Closed, groups, all
    <2> QED  BY <1>1, <2>1
  <1> HIDE DEF all, Closed
  <1>5. \A D \in SUBSET all : a \in D /\ Closed(D) <=> b \in D /\ Closed(D)
    BY <1>2
  <1> QED  BY <1>3, <1>4, <1>5

(* Whoever loses a Skill shares its place with nobody who keeps it.        *)
LEMMA AlikeInOnePlace ==
  ASSUME NEW d, NEW found, NEW core, DOMAIN core = Oversized(found), NEW protected,
         NEW s, NEW g \in Together(d, found, s), NEW a \in g, NEW b \in g,
         a \in Oversized(found), s \in ListedSkills(found, a),
         b \in Oversized(found) => s \in ListedSkills(found, b) /\ s \in Reconciled(d, found, core, protected)[b]
  PROVE  s \in Reconciled(d, found, core, protected)[a]
  <1> DEFINE agents == Component(d, found, s, a)
             keeping == {x \in agents : KeepsCore(found, core, s, x)}
             forced == \/ \E x \in agents \cap Oversized(found) : ForcedCore(x, s, protected)
                       \/ ~(agents \subseteq Oversized(found))
  <1>1. agents = Component(d, found, s, b)
    BY SameComponent
  <1>2. a \in agents /\ b \in agents
    <2>1. \A x \in g : x \in Component(d, found, s, x)
      BY DEF Component
    <2> QED  BY <1>1, <2>1
  <1>3. s \in Reconciled(d, found, core, protected)[a]
           <=> IF keeping \in {{}, agents} THEN s \in core[a] ELSE forced
    BY DEF Reconciled
  <1>4. b \in Oversized(found) =>
           (s \in Reconciled(d, found, core, protected)[b]
               <=> IF keeping \in {{}, agents} THEN s \in core[b] ELSE forced)
    BY <1>1 DEF Reconciled
  <1>5. /\ a \in keeping <=> s \in core[a]
        /\ b \in keeping <=> (b \in Oversized(found) => s \in core[b])
    BY <1>2 DEF KeepsCore
  <1>6. b \notin Oversized(found) => forced
    BY <1>2
  <1> HIDE DEF agents, keeping, forced
  <1>7. CASE keeping \in {{}, agents}
    BY <1>2, <1>3, <1>4, <1>5, <1>7
  <1>8. CASE keeping \notin {{}, agents}
    BY <1>3, <1>4, <1>6, <1>8
  <1> QED  BY <1>7, <1>8

(* ensure_physical_exposure_compatible has nothing to object.              *)
LEMMA NothingShared ==
  ASSUME NEW d, NEW found, NEW budget, NEW protected, NEW request,
         request = RecommendFor(d, found, budget, protected).request, NEW s \in DOMAIN request
  PROVE  ~SharedExposure(d, Of(found, s), request[s])
  <1> DEFINE ranked == [a \in Oversized(found) |-> Ranked(found, a, budget, protected)]
             core == Reconciled(d, found, ranked, protected)
             concerned == {a \in Oversized(found) : s \in ListedSkills(found, a)}
             want == request[s]
             mine == Of(found, s)
  <1>1. want = [a \in concerned |-> IF s \in core[a] THEN "core" ELSE "other"]
    BY DEF RecommendFor, RecommendedCore
  <1>2. DOMAIN ranked = Oversized(found)
    OBVIOUS
  <1> SUFFICES ASSUME NEW c \in Removal(mine, want), NEW kept \in mine \ Removal(mine, want),
                      c.exposed, kept.exposed, kept.agent # NoAgent, MutationPath(d, c) = MutationPath(d, kept)
               PROVE  FALSE
    BY DEF SharedExposure
  <1> HIDE DEF ranked, core, want
  <1>3. c \in mine /\ c.agent \in concerned /\ s \notin core[c.agent]
    BY <1>1 DEF Removal
  <1>4. c \in found /\ c.skill = s /\ kept \in found /\ kept.skill = s
    BY <1>3 DEF Of
  <1>5. kept.agent \in Oversized(found) => s \in ListedSkills(found, kept.agent)
    BY <1>4 DEF ListedSkills, Exposed
  <1>6. kept.agent \in Oversized(found) => s \in core[kept.agent]
    BY <1>1, <1>5 DEF Removal
  <1> DEFINE g == ListedAt(d, found, s, MutationPath(d, c))
  <1>7. g \in Together(d, found, s) /\ c.agent \in g /\ kept.agent \in g
    BY <1>4 DEF Together, ListedAt, Of
  <1> HIDE DEF g
  <1>8. s \in core[c.agent]
    BY <1>2, <1>3, <1>5, <1>6, <1>7, AlikeInOnePlace DEF core
  <1> QED  BY <1>3, <1>8

-----------------------------------------------------------------------------
(* A smallest number is one of those it was chosen from.                   *)
LEMMA MinIsIn ==
  ASSUME NEW T \in SUBSET Nat, T # {}
  PROVE  Min(T) \in T
  <1> DEFINE less == OpToRel(<, Nat)
  <1>1. IsWellFoundedOn(less, Nat)
    BY NatLessThanWellFounded, Zenon
  <1>2. \A pair \in Nat \X Nat : pair[1] < pair[2] => pair \in less
    BY Zenon DEF OpToRel
  <1> HIDE DEF less
  <1>3. PICK n \in T : \A m \in T : ~(<<m, n>> \in less)
    BY WFMin, <1>1
  <1>4. \A m \in T : <<m, n>> \in Nat \X Nat /\ <<m, n>>[1] = m /\ <<m, n>>[2] = n
    OBVIOUS
  <1>5. \A m \in T : ~(m < n)
    BY <1>2, <1>3, <1>4
  <1>6. \A m \in T : n <= m
    BY <1>5
  <1> QED  BY <1>6 DEF Min

(* The refusal of a Skill names a check that fails.                        *)
LEMMA RefusalFails ==
  ASSUME NEW d, NEW found, NEW settings, NEW s, NEW want, NEW place,
         FirstRefusal(Refusals(d, found, settings, s, want, place)) = "physical_conflict"
  PROVE  SharedExposure(d, place.mine, want)
  <1> DEFINE checks == Refusals(d, found, settings, s, want, place)
             failing == {i \in DOMAIN checks : checks[i][2]}
  <1>1. DOMAIN checks = 1 .. 14
    BY DEF Refusals
  <1>2. failing # {} /\ checks[Min(failing)][1] = "physical_conflict"
    BY DEF FirstRefusal
  <1>3. Min(failing) \in failing
    BY <1>1, <1>2, MinIsIn
  <1>4. \A i \in 1 .. 14 : checks[i][1] = "physical_conflict" => i = 3
    BY DEF Refusals
  <1>5. checks[3][2] => SharedExposure(d, place.mine, want)
    BY DEF Refusals
  <1> HIDE DEF checks
  <1> QED  BY <1>1, <1>2, <1>3, <1>4, <1>5

(* Deriving the Plan of a recommendation meets no such refusal.            *)
LEMMA DerivedWithout ==
  ASSUME NEW d, NEW found, NEW settings, NEW budget, NEW protected, NEW preferred, NEW request,
         request = RecommendFor(d, found, budget, protected).request
  PROVE  Derive(d, found, settings, request, preferred).refusal # "physical_conflict"
  <1> DEFINE ats == Situations(d, found, request, preferred)
             refused == {FirstRefusal(Refusals(d, found, settings, s, request[s], ats[s])) : s \in DOMAIN request}
                            \ {"none"}
  <1>1. \A s \in DOMAIN request : ats[s].mine = Of(found, s)
    BY DEF Situations, Situation, Situated
  <1>2. "physical_conflict" \notin refused
    <2> SUFFICES ASSUME NEW s \in DOMAIN request,
                        FirstRefusal(Refusals(d, found, settings, s, request[s], ats[s])) = "physical_conflict"
                 PROVE  FALSE
      OBVIOUS
    <2>1. SharedExposure(d, ats[s].mine, request[s])
      BY RefusalFails
    <2> QED  BY <1>1, <2>1, NothingShared
  <1> HIDE DEF ats, refused
  <1>3. ASSUME NEW hosted, NEW planned
        PROVE  DerivationRefusal(d, request, refused, hosted, planned) # "physical_conflict"
    <2>1. refused # {} => (CHOOSE refusal \in refused : TRUE) \in refused
      OBVIOUS
    <2> QED  BY <1>2, <2>1 DEF DerivationRefusal
  <1> QED  BY <1>3 DEF Derive, DeriveInOrder, DerivedOf, Derived, ats, refused

-----------------------------------------------------------------------------
(* What is planned of a recommendation is refused for another reason, if   *)
(* at all.                                                                 *)
LEMMA PreparedWithout ==
  ASSUME NEW d, NEW found, NEW settings, NEW request, NEW derived, derived.refusal # "physical_conflict"
  PROVE  PrepareRoster(d, found, settings, request, derived) # "physical_conflict"
  BY DEF PrepareRoster

LEMMA ErrorIsNone ==
  ASSUME NEW d, NEW found, NEW budget, NEW protected
  PROVE  RecommendFor(d, found, budget, protected).error # "physical_conflict"
  BY DEF RecommendFor, RecommendError

LEMMA RightSizeKeeps ==
  ASSUME NEW kind, NEW budget, NEW protected, RightSize(kind, budget, protected)
  PROVE  plan'.refusal # "physical_conflict"
  <1>1. PICK found, recommended :
           /\ recommended = RecommendFor(disk, found, budget, protected)
           /\ RightSizeTo(kind, found, recommended)
    BY DEF RightSize
  <1>2. PICK request : request = recommended.request
    OBVIOUS
  <1>3. CASE recommended.error = "none" /\ Excluded(disk, found, recommended.request) = {}
    <2>1. ChangeRosterAs(kind, request, found, Effective(request))
      BY <1>1, <1>2, <1>3 DEF RightSizeTo
    <2>2. PICK first, derived :
             /\ derived = Derive(disk, found, Settings, request, {first})
             /\ PreparedAs(kind, request, PrepareRoster(disk, found, Settings, request, derived),
                           Effective(request), derived.ops)
      BY <2>1 DEF ChangeRosterAs
    <2>3. derived.refusal # "physical_conflict"
      BY <1>1, <1>2, <2>2, DerivedWithout
    <2>4. PrepareRoster(disk, found, Settings, request, derived) # "physical_conflict"
      BY <2>3, PreparedWithout
    <2> QED  BY <2>2, <2>4 DEF PreparedAs, Prepared
  <1>4. CASE ~(recommended.error = "none" /\ Excluded(disk, found, recommended.request) = {})
    <2>1. plan'.refusal = IF recommended.error = "none" THEN "excluded" ELSE recommended.error
      BY <1>1, <1>4 DEF RightSizeTo, Prepared
    <2>2. recommended.error # "physical_conflict"
      BY <1>1, ErrorIsNone
    <2> QED  BY <2>1, <2>2
  <1> QED  BY <1>3, <1>4

(* The recommendation never asks one Agent to lose and another to keep a   *)
(* Skill they list from the same directory: of what recommend selects and  *)
(* reconcile_shared_physical_states changes, whatever the budget and the   *)
(* protected Skills, no Plan is refused with a physical conflict.          *)
THEOREM RecommendationsAgree == FindingSpec => []NoSharedConflict
  <1>1. FindingInit => NoSharedConflict
    BY DEF FindingInit, RosterInit, NoPlan, NoSharedConflict, Sized
  <1>2. NoSharedConflict /\ [FindingNext]_findingVars => NoSharedConflict'
    <2> SUFFICES ASSUME NoSharedConflict, [FindingNext]_findingVars PROVE NoSharedConflict'
      OBVIOUS
    <2>1. CASE UNCHANGED plan
      BY <2>1 DEF NoSharedConflict, Sized
    <2>2. CASE TakeOffer \/ ChooseOneself
      BY <2>2, RightSizeKeeps DEF TakeOffer, ChooseOneself, NoSharedConflict
    <2>3. CASE Consolidate
      BY <2>3 DEF Consolidate, Prepared, NoSharedConflict, Sized
    <2>4. CASE RollBack
      <3>1. plan'.kind = plan.kind /\ plan'.refusal = plan.refusal
        BY <2>4 DEF RollBack
      <3> QED  BY <3>1 DEF NoSharedConflict, Sized
    <2>5. CASE Finish
      <3>1. plan'.kind = plan.kind /\ plan'.refusal = plan.refusal
        BY <2>5 DEF Finish
      <3> QED  BY <3>1 DEF NoSharedConflict, Sized
    <2>6. CASE Continue
      BY <2>6 DEF Continue, NoPlan, NoSharedConflict, Sized
    <2>7. CASE ReportLargeRosters \/ ReportDuplicates \/ Step \/ UNCHANGED findingVars
      BY <2>1, <2>7 DEF ReportLargeRosters, ReportDuplicates, Step, findingVars
    <2> QED
      BY <2>2, <2>3, <2>4, <2>5, <2>6, <2>7 DEF FindingNext, CarryOut, StoreRoster, NextReport
  <1> QED  BY <1>1, <1>2, PTL DEF FindingSpec
==============================================================================
