----------------------------- MODULE SourceScan -----------------------------
(***************************************************************************)
(* Reading Skills through a durable source-root permission: confirm and    *)
(* revoke (src/source_policy.rs), and a Scan (scan_command in src/app.rs,  *)
(* observe_durable_skill_root and materialize_candidates in src/scan.rs)   *)
(* that freezes the permissions, discovers entrypoints, reads packages     *)
(* between two checks of their bindings, and records what the permissions  *)
(* were.  The files change under it at any moment; only skillroster's own  *)
(* commands wait for it, by the state lock.                                *)
(*                                                                         *)
(* There is one external directory, the root.  Its identity never comes    *)
(* back once replaced, and a package never returns to an earlier content   *)
(* (docs/product-spec.md:476-480 leaves a swap forth and back between two  *)
(* checks out of scope), but the directory may disappear and come back as  *)
(* it was.  A temporary --source-root is not modelled, and the links are   *)
(* of Agents other than Hermes, whose discovery checks once more that what *)
(* a link was resolved to is approved (src/scan.rs:1663-1671).             *)
(***************************************************************************)
EXTENDS Integers, Sequences

CONSTANTS Linked,      \* placements in Agent roots: links to packages
          Order,       \* the order in which they are materialized
          Direct,      \* the placement of the root's own package
          Local,       \* packages elsewhere
          External,    \* the package in the root
          NoPackage,
          MaxMoves,    \* bound: changes made outside
          MaxGrants    \* bound: permissions ever granted

ASSUME SourceScanAssumption ==
    /\ Direct \notin Linked
    /\ Order \in Seq(Linked) /\ \A p \in Linked : \E i \in 1 .. Len(Order) : Order[i] = p
    /\ External \notin Local /\ NoPackage \notin Local \union {External}
    /\ MaxMoves \in Nat /\ MaxGrants \in Nat

Placement == Linked \union {Direct}
Package == Local \union {External}

VARIABLES
    ident, present,  \* the root directory
    version, link,   \* the contents of the packages, the targets of the links
    moves,
    granted,         \* source_root_permissions: identity and revoked
    phase,           \* where the running Scan is
    frozen,          \* the permissions it froze before discovery: state of each
    todo,            \* candidates not yet materialized
    approved,        \* what each link led to when inspect_link resolved it
    expected,        \* expected_physical_entrypoint of each candidate
    candidate,       \* what is known of the candidate being materialized
    cache, spoiled,  \* physical_packages, drifted_physical_packages
    drifted, used,   \* durable_read_drifted_permission_ids, ..._used_...
    placements,      \* what the Scan has materialized
    snapshot         \* the latest completed Snapshot

outside == <<ident, present, version, link, moves>>
running == <<frozen, todo, approved, expected, candidate, cache, spoiled, drifted, used, placements>>
scanVars == <<outside, granted, phase, running, snapshot>>

Permissions == DOMAIN granted
Standing == {g \in Permissions : ~granted[g].revoked}
Unread == -1
None == [safe |-> FALSE, package |-> NoPackage, content |-> Unread, epoch |-> Unread]
NoSnapshot == [taken |-> FALSE]

ScanInit ==
    /\ ident = 0 /\ present = TRUE /\ moves = 0
    /\ version = [k \in Package |-> 0]
    /\ link \in [Linked -> Package]
    /\ granted = <<>>
    /\ phase = "idle" /\ frozen = <<>> /\ todo = <<>>
    /\ approved = [p \in Linked |-> NoPackage] /\ expected = [p \in Placement |-> NoPackage]
    /\ candidate = None
    /\ cache = [k \in Package |-> Unread] /\ spoiled = {}
    /\ drifted = {} /\ used = {}
    /\ placements = [p \in Placement |-> None]
    /\ snapshot = NoSnapshot

(***************************************************************************)
(* Outside.                                                                *)
(***************************************************************************)
Move == moves < MaxMoves /\ moves' = moves + 1 /\ UNCHANGED <<granted, phase, running, snapshot>>

Edit(k) ==
    /\ Move /\ version' = [version EXCEPT ![k] = @ + 1]
    /\ UNCHANGED <<ident, present, link>>

Retarget(p, k) ==
    /\ Move /\ link[p] # k /\ link' = [link EXCEPT ![p] = k]
    /\ UNCHANGED <<ident, present, version>>

ReplaceRoot ==
    /\ Move /\ ident' = ident + 1 /\ present' = TRUE
    /\ version' = [k \in Package |-> IF k = External THEN version[k] + 1 ELSE version[k]]
    /\ UNCHANGED link

Vanish == Move /\ present /\ present' = FALSE /\ UNCHANGED <<ident, version, link>>
Return == Move /\ ~present /\ present' = TRUE /\ UNCHANGED <<ident, version, link>>

(***************************************************************************)
(* Permissions.                                                            *)
(***************************************************************************)
(* identity_matches_exact, and the state freeze_permission finds. *)
Matches(g) == present /\ ident = granted[g].identity
Resolution(g) ==
    IF ~present THEN "missing" ELSE IF Matches(g) THEN "active" ELSE "replaced"

(* confirm_source_root: of a link that escapes in the latest Snapshot.  A   *)
(* standing permission is returned, or refused if the directory changed.    *)
Confirm ==
    /\ phase = "idle" /\ present /\ snapshot.taken /\ snapshot.escaping # {}
    /\ Standing = {} /\ Len(granted) < MaxGrants
    /\ granted' = Append(granted, [identity |-> ident, revoked |-> FALSE])
    /\ UNCHANGED <<outside, phase, running, snapshot>>

Revoke(g) ==
    /\ phase = "idle" /\ g \in Standing
    /\ granted' = [granted EXCEPT ![g].revoked = TRUE]
    /\ UNCHANGED <<outside, phase, running, snapshot>>

(***************************************************************************)
(* Scan: discovery.                                                        *)
(***************************************************************************)
Goto(where) == phase' = where

(* What a Scan has in memory, when it begins and when it is over. *)
NothingInHand ==
    /\ todo' = <<>> /\ candidate' = None
    /\ approved' = [p \in Linked |-> NoPackage] /\ expected' = [p \in Placement |-> NoPackage]
    /\ cache' = [k \in Package |-> Unread] /\ spoiled' = {}
    /\ drifted' = {} /\ used' = {}
    /\ placements' = [p \in Placement |-> None]

FreezeRoots ==
    /\ phase = "idle" /\ Goto(IF Order = <<>> THEN "enumerate" ELSE "inspect")
    /\ frozen' = [g \in Permissions |-> IF g \in Standing THEN Resolution(g) ELSE "revoked"]
    /\ NothingInHand /\ UNCHANGED <<outside, granted, snapshot>>

(* The durable_read_roots of this Scan; there is at most one. *)
Roots == {g \in DOMAIN frozen : frozen[g] = "active"}

Exists(k) == k \in Local \/ (k = External /\ present)
Binding(p) == IF p = Direct THEN External ELSE link[p]

(* The link discovery has come to. *)
Found == Order[Len(todo) + 1]

(* inspect_link approves what the link leads to at this moment ...         *)
Inspect ==
    /\ phase = "inspect" /\ Goto("resolve")
    /\ approved' = [approved EXCEPT ![Found] = IF Exists(link[Found]) THEN link[Found] ELSE NoPackage]
    /\ UNCHANGED <<outside, granted, frozen, todo, expected, candidate, cache, spoiled, drifted,
                   used, placements, snapshot>>

(* ... which leaves a link that leads out of every approved root, or       *)
(* nowhere, unread ...                                                     *)
Escaping == {p \in Linked : approved[p] = NoPackage \/ (approved[p] = External /\ Roots = {})}

(* ... and discover resolves the link once more, for the entrypoint that   *)
(* will be read: whether that one is approved is not asked.  A link that   *)
(* was approved and has no entrypoint now is no candidate, or one that is  *)
(* never read: the same here.                                              *)
Resolve ==
    /\ phase = "resolve" /\ Goto(IF Len(todo) + 1 < Len(Order) THEN "inspect" ELSE "enumerate")
    /\ expected' = [expected EXCEPT ![Found] = IF Exists(link[Found]) THEN link[Found] ELSE NoPackage]
    /\ todo' = Append(todo, Found)
    /\ UNCHANGED <<outside, granted, frozen, approved, candidate, cache, spoiled, drifted, used,
                   placements, snapshot>>

(* observe_durable_skill_root: checks, the enumeration, a last check. *)
RejectRoot ==
    /\ phase = "enumerate" /\ Goto("next")
    /\ \E g \in Roots : ~Matches(g) /\ drifted' = drifted \union {g}
    /\ UNCHANGED <<outside, granted, frozen, todo, approved, expected, candidate, cache,
                   spoiled, used, placements, snapshot>>

EnterRoot ==
    /\ phase = "enumerate" /\ Roots # {} /\ Goto("entered")
    /\ \A g \in Roots : Matches(g)
    /\ UNCHANGED <<outside, granted, running, snapshot>>

(* A directory that is not there is no drift: it has no candidate. *)
Enumerate ==
    /\ phase = "entered"
    /\ IF present THEN todo' = Append(todo, Direct) /\ Goto("listed")
                  ELSE todo' = todo /\ Goto("recheck")
    /\ UNCHANGED <<outside, granted, frozen, approved, expected, candidate, cache, spoiled,
                   drifted, used, placements, snapshot>>

ResolveDirect ==
    /\ phase = "listed" /\ Goto("recheck")
    /\ expected' = [expected EXCEPT ![Direct] = IF present THEN External ELSE NoPackage]
    /\ UNCHANGED <<outside, granted, frozen, todo, approved, candidate, cache, spoiled, drifted,
                   used, placements, snapshot>>

RecheckRoot ==
    /\ phase = "recheck" /\ Goto("next")
    /\ \E g \in Roots :
          IF Matches(g) THEN UNCHANGED <<todo, drifted>>
          ELSE /\ todo' = SelectSeq(todo, LAMBDA p : p # Direct)
               /\ drifted' = drifted \union {g}
    /\ UNCHANGED <<outside, granted, frozen, approved, expected, candidate, cache, spoiled,
                   used, placements, snapshot>>

(***************************************************************************)
(* Scan: each candidate is read between two checks of its bindings.        *)
(***************************************************************************)
Current == Head(todo)
Wanted == expected[Current]

(* durable_anchor: the permission the candidate lies under, if any. *)
Anchor == IF Current = Direct \/ Wanted = External THEN Roots ELSE {}

(* candidate_binding_is_current *)
PlacementBound == Wanted # NoPackage /\ Exists(Binding(Current)) /\ Binding(Current) = Wanted
(* durable_candidate_binding_is_current *)
RootUnchecked == TRUE
RootBound == \A g \in Anchor : Wanted = External /\ Matches(g)
Bound == PlacementBound /\ RootBound

Keep(c) == placements' = [placements EXCEPT ![Current] = c]
Take == todo' = Tail(todo) /\ candidate' = None /\ Goto("next")

(* The data is cleared, the package forgotten, the permission marked. *)
Discard ==
    /\ Take /\ UNCHANGED <<placements, used>>
    /\ cache' = IF Wanted = NoPackage THEN cache ELSE [cache EXCEPT ![Wanted] = Unread]
    /\ drifted' = drifted \union Anchor

Materializing == phase = "next" \/ (phase = "enumerate" /\ Roots = {})

(* A link that escapes is not read, but its binding is checked as well.    *)
CheckBefore ==
    /\ Materializing /\ todo # <<>>
    /\ IF Bound
       THEN /\ Goto(IF Current \in Escaping THEN "after" ELSE "read")
            /\ candidate' = [None EXCEPT !.package = Wanted]
            /\ UNCHANGED <<todo, cache, drifted, used, placements>>
       ELSE Discard
    /\ UNCHANGED <<outside, granted, frozen, approved, expected, spoiled, snapshot>>

Observe(v) ==
    /\ candidate' = [candidate EXCEPT !.content = v, !.epoch = ident]
    /\ Goto("after") /\ UNCHANGED <<todo, drifted, used, placements>>

(* A package that no permission anchors is read once a Scan.  It is used   *)
(* again only if its checkpoint is still the same; if not, no candidate    *)
(* may use it.                                                             *)
Contents(k) == IF Exists(k) THEN version[k] ELSE Unread
Reusable(k) == Contents(k) = cache[k]

ReadPackage ==
    /\ phase = "read"
    /\ \/ /\ Anchor # {} /\ Observe(Contents(Wanted)) /\ UNCHANGED <<cache, spoiled>>
       \/ /\ Anchor = {} /\ Wanted \notin spoiled /\ cache[Wanted] = Unread
          /\ Observe(Contents(Wanted))
          /\ cache' = [cache EXCEPT ![Wanted] = Contents(Wanted)] /\ UNCHANGED spoiled
       \/ /\ Anchor = {} /\ Wanted \notin spoiled /\ cache[Wanted] # Unread /\ Reusable(Wanted)
          /\ Observe(cache[Wanted]) /\ UNCHANGED <<cache, spoiled>>
       \/ /\ Anchor = {}
          /\ Wanted \in spoiled \/ (cache[Wanted] # Unread /\ ~Reusable(Wanted))
          /\ spoiled' = spoiled \union {Wanted} /\ Discard
    /\ UNCHANGED <<outside, granted, frozen, approved, expected, snapshot>>

CheckAfter ==
    /\ phase = "after"
    /\ IF Bound
       THEN /\ Keep([candidate EXCEPT !.safe = Current \notin Escaping])
            /\ used' = used \union (IF Current \in Escaping THEN {} ELSE Anchor)
            /\ Take /\ UNCHANGED <<cache, drifted>>
       ELSE Discard
    /\ UNCHANGED <<outside, granted, frozen, approved, expected, spoiled, snapshot>>

(***************************************************************************)
(* Scan: the second freeze, the facts, and the Snapshot.                   *)
(***************************************************************************)
(* conservative_source_policy_facts *)
FactOfSecondFreeze(g) == Resolution(g)
Fact(g) ==
    CASE g \in drifted -> "inaccessible"
      [] g \notin drifted /\ Resolution(g) = "active" -> frozen[g]
      [] OTHER -> Resolution(g)

PersistScan ==
    /\ Materializing /\ todo = <<>> /\ Goto("idle")
    /\ snapshot' = [taken |-> TRUE, escaping |-> Escaping, approved |-> approved, frozen |-> frozen,
                    facts |-> [g \in Standing |-> Fact(g)], used |-> used,
                    wanted |-> expected, placements |-> placements]
    /\ frozen' = <<>> /\ NothingInHand /\ UNCHANGED <<outside, granted>>

(* An error, or the death of the process. *)
AbandonScan ==
    /\ phase # "idle" /\ Goto("idle")
    /\ frozen' = <<>> /\ NothingInHand /\ UNCHANGED <<outside, granted, snapshot>>

ScanNext ==
    \/ \E k \in Package : Edit(k)
    \/ \E p \in Linked, k \in Package : Retarget(p, k)
    \/ ReplaceRoot \/ Vanish \/ Return
    \/ Confirm \/ \E g \in Standing : Revoke(g)
    \/ FreezeRoots \/ Inspect \/ Resolve
    \/ RejectRoot \/ EnterRoot \/ Enumerate \/ ResolveDirect \/ RecheckRoot
    \/ CheckBefore \/ ReadPackage \/ CheckAfter
    \/ PersistScan \/ AbandonScan

ScanSpec == ScanInit /\ [][ScanNext]_scanVars

(* A link that discovery approved while it led to a local package, in a     *)
(* Scan that no permission was active for.  What it leads to when it is     *)
(* resolved again is read whatever that is: without an active permission    *)
(* nothing anchors it, and materialize_candidates checks only that it is    *)
(* still what was resolved.                                                 *)
TurnedAfterApproval(p) ==
    /\ \A g \in DOMAIN snapshot.frozen : snapshot.frozen[g] # "active"
    /\ p \in Linked /\ snapshot.approved[p] \in Local

(* Content from outside the approved roots is in a Snapshot only if it was  *)
(* read in a directory with the identity the user confirmed, under a        *)
(* permission that stood when the Scan began, whatever was replaced while   *)
(* the Scan ran (docs/product-spec.md:480-486) -- but for one window the    *)
(* code leaves open, between the two resolutions of a link in discover      *)
(* (src/scan.rs:1656 and 1660, 1721 and 1753): TurnedAfterApproval.         *)
GrantedContentOnly ==
    snapshot.taken => \A p \in Placement :
        LET c == snapshot.placements[p] IN
        c.safe /\ c.package = External =>
            \/ \E g \in DOMAIN snapshot.frozen :
                   snapshot.frozen[g] = "active" /\ c.epoch = granted[g].identity
            \/ TurnedAfterApproval(p)

(* When a Snapshot reports a permission as active, every candidate that     *)
(* discovery approved and resolved into its directory has been read: one    *)
(* that materialize_candidates had to discard marks the permission, and the *)
(* fact is then "inaccessible".  What discovery itself missed marks no      *)
(* permission (docs/product-spec.md:474-477 would have it so): a link       *)
(* whose target was gone when it was inspected counts as escaping, one      *)
(* whose target was gone when it was resolved is no candidate, and a        *)
(* directory that was gone when it was enumerated has none.                 *)
ActiveMeansObserved ==
    snapshot.taken => \A g \in DOMAIN snapshot.facts, p \in Placement :
        snapshot.facts[g] = "active" /\ snapshot.wanted[p] = External /\ p \notin snapshot.escaping
            => snapshot.placements[p].safe
=============================================================================
