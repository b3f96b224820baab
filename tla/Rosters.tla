------------------------------- MODULE Rosters -------------------------------
(***************************************************************************)
(* A person's requests, one after the other: the disk is scanned, a Plan   *)
(* is derived and prepared, and its operations are executed one by one.    *)
(* Nobody else touches the files, so a Plan that cannot be carried through *)
(* is a Plan that should not have been made.                               *)
(***************************************************************************)
EXTENDS LibraryPlan

CONSTANTS Skills,      \* the Skills a request may name
          Worlds,      \* disks to start from, each with settings of the clients
          MaxPlans,    \* bound: Plans carried through
          MaxChanges   \* bound: pairs of a Skill and an Agent in a request

VARIABLES disk, config,
          start,    \* the disk the current Plan was made on
          plan,     \* the request and what became of it
          ops,      \* operations still to be executed
          plans     \* Plans carried through
vars == <<disk, config, start, plan, ops, plans>>

NoPlan == [kind |-> "none", request |-> <<>>, refusal |-> "none", all |-> <<>>, status |-> "none"]

RosterInit ==
    /\ \E world \in Worlds : disk = world[1] /\ config = world[2]
    /\ start = disk /\ plan = NoPlan /\ ops = <<>> /\ plans = 0

Idle == plan.status = "none" /\ plans < MaxPlans
Settings == [config EXCEPT !.codex = FreezeCodex(disk, @)]

Wishes == UNION {[A -> {"core", "other"}] : A \in (SUBSET Agents) \ {{}}}
Changes(request) ==
    {pair \in Skills \X Agents : pair[1] \in DOMAIN request /\ pair[2] \in DOMAIN request[pair[1]]}
Requests ==
    {r \in UNION {[S -> Wishes] : S \in (SUBSET Skills) \ {{}}} : Cardinality(Changes(r)) <= MaxChanges}

(* plan: derived from a fresh Snapshot, checked, stored as prepared. *)
Prepared(kind, request, refusal, operations) ==
    /\ plan' = [kind |-> kind, request |-> request, refusal |-> refusal,
                all |-> IF refusal = "none" THEN operations ELSE <<>>,
                status |-> IF refusal = "none" THEN "applying" ELSE "refused"]
    /\ ops' = IF refusal = "none" THEN operations ELSE <<>>
    /\ start' = disk
    /\ UNCHANGED <<disk, config, plans>>

(* Which of several exact copies is met first. *)
Sources(found, request) ==
    LET sources == UNION {RealSources(disk, Of(found, s), {}) : s \in DOMAIN request}
    IN  IF sources = {} THEN {<<>>} ELSE sources

PreparedAs(kind, request, refusal, effective, operations) ==
    Prepared(kind, request, IF refusal = "none" /\ ~effective THEN "no_effect" ELSE refusal, operations)
ChangeRosterAs(kind, request, found, effective) ==
    \E first \in Sources(found, request) :
        \E derived \in {Derive(disk, found, Settings, request, {first})} :
            PreparedAs(kind, request, PrepareRoster(disk, found, Settings, request, derived), effective,
                       derived.ops)

(* A recommendation in bulk asks for what is left of the request. *)
RequestsFor(found) == {r \in Requests : \A s \in DOMAIN r : Of(found, s) # {}}
Recommendations(found) ==
    {r \in {Supported(disk, found, wished) : wished \in RequestsFor(found)} : DOMAIN r # {}}

ChangeRoster ==
    /\ Idle
    /\ \E found \in {Scan(disk, config)} :
          \E request \in RequestsFor(found) \union Recommendations(found) :
              ChangeRosterAs("roster", request, found, TRUE)

ChangeLibrary ==
    /\ Idle
    /\ \E found \in {Scan(disk, config)}, s \in Skills, state \in {"managed", "hosted"} :
          \E canonical \in Of(found, s) :
              \E derived \in {DeriveLibrary(disk, found, Settings, s, canonical, state)} :
                  Prepared("library", <<>>, PrepareLibrary(disk, found, derived), derived.ops)

(* apply: one operation at a time; if one cannot be executed, all are      *)
(* undone.                                                                 *)
Step ==
    /\ plan.status = "applying" /\ ops # <<>> /\ CanExecute(disk, Head(ops))
    /\ disk' = Execute(disk, Head(ops)) /\ ops' = Tail(ops)
    /\ UNCHANGED <<config, start, plan, plans>>

RollBack ==
    /\ plan.status = "applying" /\ ops # <<>> /\ ~CanExecute(disk, Head(ops))
    /\ disk' = start /\ ops' = <<>>
    /\ plan' = [plan EXCEPT !.status = "failed"]
    /\ UNCHANGED <<config, start, plans>>

Finish ==
    /\ plan.status = "applying" /\ ops = <<>>
    /\ plan' = [plan EXCEPT !.status = "applied"]
    /\ UNCHANGED <<disk, config, start, ops, plans>>

(* The next request starts from a new Snapshot. *)
Continue ==
    /\ plan.status = "applied" /\ plan' = NoPlan /\ plans' = plans + 1 /\ start' = disk
    /\ UNCHANGED <<disk, config, ops>>

RosterNext == ChangeRoster \/ ChangeLibrary \/ Step \/ RollBack \/ Finish \/ Continue
RosterSpec == RosterInit /\ [][RosterNext]_vars

-----------------------------------------------------------------------------
Seen(d) == Scan(d, config)
Applying == plan.status \in {"applying", "applied", "failed"}

(* A Plan that was prepared on an undisturbed disk can be carried through, *)
(* but for two things that no check notices: an operation needs what an    *)
(* earlier one moved away together with the directory it was in; a link to *)
(* a package the Plan itself brings to the Library has its place taken.    *)
Severed ==
    \E i, j \in DOMAIN plan.all :
        /\ i < j /\ plan.all[i].op # "link"
        /\ Within(IF plan.all[j].op = "link" THEN plan.all[j].to ELSE plan.all[j].at, plan.all[i].at)
Occupied ==
    \E i, j \in DOMAIN plan.all :
        /\ j < i /\ plan.all[j].op = "host" /\ plan.all[i].op = "link" /\ plan.all[i].to = plan.all[j].to
        /\ HasEntry(start, plan.all[i].at)
        /\ \A x \in DOMAIN plan.all : x < i => plan.all[x].at # plan.all[i].at
PreparedPlansApply == ops # <<>> => CanExecute(disk, Head(ops)) \/ Severed \/ Occupied

(* Wherever a Plan stops, each Skill somebody owned is in a root still.    *)
Owned(d) == {k \in DOMAIN PackageName : \E p \in DOMAIN d : d[p].package = k}
ContentStays == Applying /\ ~Severed => \A k \in Owned(start) : \E p \in DOMAIN disk : disk[p].package = k

(* Left out of what follows: links that led nowhere when the request was   *)
(* made, which a new link may bring to life; and, but for Hermes, Skills   *)
(* inside the package of another, which no check follows when that moves.  *)
Ignored(seen) ==
    {c.at : c \in {x \in seen : x.package = NoPackage}} \union
    {c.at : c \in {x \in seen : ~IsHermes(x) /\ \E o \in seen :
                       o.skill # x.skill /\ o.package # NoPackage /\ Within(Where(x), o.physical)}}

(* Agents that share a directory with one that got a link get it as well,  *)
(* and some list what is inside a package with it.                         *)
Asked(c, state) == <<c.skill, c.agent>> \in Changes(plan.request) /\ plan.request[c.skill][c.agent] = state
Given(after, p) ==
    \E c \in after : /\ c.exposed /\ Asked(c, "core")
                     /\ \/ Within(EntryPath(disk, p), EntryPath(disk, c.at))
                        \/ Within(Real(disk, p), Real(disk, c.at))

(* An Agent lists what it listed, but for the pairs of the request; a link *)
(* below a root of no Agent leads to the content it led to.                *)
Lists(seen, ignored) ==
    {<<c.agent, c.at, c.package, c.mode>> :
        c \in {x \in seen : x.exposed /\ x.at \notin ignored /\ <<x.skill, x.agent>> \notin Changes(plan.request)}}
Undisturbed(before, after, ignored) ==
    LET listed == Lists(before, ignored)
        lists == Lists(after, ignored)
    IN  /\ listed \subseteq lists /\ \A l \in lists \ listed : Given(after, l[2])
        /\ \A c \in before :
              (c.agent = NoAgent /\ c.status = "valid" /\ c.at \notin ignored)
                  => PackageAt(disk, c.at) = c.package
UndisturbedSince(before, after) == Undisturbed(before, after, Ignored(before))
BystandersUndisturbed == plan.status = "applied" => UndisturbedSince(Seen(start), Seen(disk))

(* What is not SkillRoster's to change stays as it is, byte for byte, at   *)
(* every step.                                                             *)
ReadOnlyUntouched ==
    Applying => \A c \in {x \in Seen(start) : x.scope # "mutable"} :
        /\ Fingerprint(disk, c.at) = Fingerprint(start, c.at)
        /\ c.physical # <<>> => Fingerprint(disk, c.physical) = Fingerprint(start, c.physical)

=============================================================================
