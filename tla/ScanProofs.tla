------------------------------ MODULE ScanProofs ------------------------------
(***************************************************************************)
(* Proofs about what a Scan may read, in SourceScan, about what is kept of *)
(* it, in Snapshots, and about the sessions it reads, in SessionEvidence.  *)
(***************************************************************************)
EXTENDS SourceScan, Snapshots, SessionEvidence, FiniteSetTheorems, WellFoundedInduction, TLAPS

-----------------------------------------------------------------------------
(***************************************************************************)
(* Proofs about SourceScan, for any placements, packages, permissions and  *)
(* changes made outside.  What a Scan knows of the root is out of date at  *)
(* every moment; both theorems rest on what may, and what may not, happen  *)
(* between two of its checks.                                              *)
(***************************************************************************)
(* At most one permission stands; a Scan freezes all there are, and none   *)
(* is given or taken while it runs.                                        *)
OneStands == \A g, h \in Standing : g = h
Grant == [identity : Nat, revoked : BOOLEAN]
Grants == granted \in Seq(Grant) /\ ident \in Nat
Frozen == phase # "idle" => DOMAIN frozen = Permissions /\ Roots \subseteq Standing

(* What the Scan has in hand is of the form its steps expect.              *)
Formed ==
    /\ DOMAIN placements = Placement /\ DOMAIN expected = Placement
    /\ candidate = [safe |-> candidate.safe, package |-> candidate.package,
                    content |-> candidate.content, epoch |-> candidate.epoch]

(* The candidate being read is the one whose binding was checked, and the  *)
(* directory it is read in is no older than the confirmed one: an identity *)
(* is never seen again once it has been replaced.                          *)
CandidateBound ==
    /\ phase \in {"read", "after"} => todo # <<>> /\ candidate.package = Wanted
    /\ phase = "read" /\ Anchor # {} => \E g \in Roots : granted[g].identity <= ident
    /\ phase = "after" /\ Anchor # {} /\ Current \notin Escaping =>
          /\ candidate.epoch \in Nat /\ candidate.epoch <= ident
          /\ \E g \in Roots : granted[g].identity <= candidate.epoch

(* Only links are queued until a permission adds the root's own package.   *)
Pending(p) == \E i \in 1 .. Len(todo) : todo[i] = p
Queue ==
    phase # "idle" =>
        /\ approved \in [Linked -> Package \union {NoPackage}]
        /\ Roots = {} \/ phase \in {"inspect", "resolve", "enumerate", "entered"} => todo \in Seq(Linked)
        /\ phase \in {"inspect", "resolve"} => Len(todo) < Len(Order)
        /\ phase \in {"inspect", "resolve"} => \A p \in Placement : ~placements[p].safe
        /\ phase \in {"entered", "listed", "recheck"} => Roots # {}
        /\ phase = "listed" => Pending(Direct)

Turned(p, states, links) ==
    (\A g \in DOMAIN states : states[g] # "active") /\ p \in Linked /\ links[p] \in Local
ReadInside(c, p, states, links) ==
    c.safe /\ c.package = External =>
        \/ \E g \in DOMAIN states : states[g] = "active" /\ c.epoch = granted[g].identity
        \/ Turned(p, states, links)
PlacementsInside ==
    phase # "idle" => \A p \in Placement : ReadInside(placements[p], p, frozen, approved)
SnapshotInside ==
    snapshot.taken =>
        /\ DOMAIN snapshot.frozen \subseteq Permissions
        /\ \A p \in Placement :
              ReadInside(snapshot.placements[p], p, snapshot.frozen, snapshot.approved)

(* A candidate bound to the root is recorded, or still to be read, unless  *)
(* discovery did not approve it or the permission is known to have         *)
(* drifted.                                                                *)
Unapproved(p) == phase \notin {"inspect", "resolve"} /\ p \in Escaping
NoneLost ==
    phase # "idle" =>
        \/ Roots \subseteq drifted
        \/ /\ todo \in Seq(Placement)
           /\ \A p \in Placement :
                 expected[p] = External => placements[p].safe \/ Pending(p) \/ Unapproved(p)

ScanInv ==
    /\ OneStands /\ Grants /\ Frozen /\ Formed /\ CandidateBound /\ Queue
    /\ PlacementsInside /\ SnapshotInside /\ NoneLost /\ ActiveMeansObserved

LEMMA InitScanInv == ScanInit => ScanInv
  BY SourceScanAssumption
  DEF ScanInit, ScanInv, OneStands, Grants, Frozen, Formed, CandidateBound, Queue, PlacementsInside,
      SnapshotInside, NoneLost, ActiveMeansObserved, Standing, Permissions, None, NoSnapshot

(* Each permission has an identity.                                         *)
LEMMA GrantsFormed ==
  ASSUME Grants
  PROVE  /\ Permissions = 1 .. Len(granted) /\ Len(granted) \in Nat
         /\ \A g \in Permissions : granted[g] \in Grant /\ granted[g].identity \in Nat
  <1>1. Permissions = 1 .. Len(granted) /\ Len(granted) \in Nat
    BY DEF Grants, Permissions
  <1>2. \A g \in Permissions : granted[g] \in Grant
    BY <1>1 DEF Grants
  <1>3. \A r \in Grant : r.identity \in Nat
    BY DEF Grant
  <1> QED  BY <1>1, <1>2, <1>3

(* Nothing outside changes what the Scan has in hand, and no identity of   *)
(* the root comes back.                                                    *)
LEMMA OutsideStep ==
  ASSUME ScanInv, UNCHANGED <<granted, phase, running, snapshot>>, ident' \in Nat, ident <= ident'
  PROVE  ScanInv'
  <1> USE DEF running
  <1>1. OneStands' /\ Grants' /\ Frozen' /\ Formed'
    BY DEF ScanInv, OneStands, Grants, Frozen, Formed, Standing, Permissions, Roots
  <1>2. CandidateBound'
    <2>1. CandidateBound /\ ident \in Nat
      BY DEF ScanInv, Grants
    <2>2. ASSUME phase # "idle" PROVE \A g \in Roots : granted[g].identity \in Nat
      <3>1. Roots \subseteq Permissions
        BY <2>2 DEF ScanInv, Frozen, Standing
      <3>2. \A g \in Permissions : granted[g].identity \in Nat
        BY GrantsFormed DEF ScanInv
      <3> QED  BY <3>1, <3>2
    <2>3. /\ Roots' = Roots /\ Anchor' = Anchor /\ Wanted' = Wanted
          /\ Current' = Current /\ Escaping' = Escaping
      BY DEF Roots, Anchor, Wanted, Current, Escaping
    <2>4. phase' \in {"read", "after"} => todo' # <<>> /\ candidate'.package = Wanted'
      BY <2>1, <2>3 DEF CandidateBound
    <2>5. phase' = "read" /\ Anchor' # {} => \E g \in Roots' : granted'[g].identity <= ident'
      BY <2>1, <2>2, <2>3 DEF CandidateBound
    <2>6. phase' = "after" /\ Anchor' # {} /\ Current' \notin Escaping' =>
             /\ candidate'.epoch \in Nat /\ candidate'.epoch <= ident'
             /\ \E g \in Roots' : granted'[g].identity <= candidate'.epoch
      BY <2>1, <2>3 DEF CandidateBound
    <2> QED  BY <2>4, <2>5, <2>6 DEF CandidateBound
  <1>3. PlacementsInside' /\ SnapshotInside' /\ ActiveMeansObserved'
    BY DEF ScanInv, PlacementsInside, SnapshotInside, ReadInside, Turned, Permissions,
       ActiveMeansObserved
  <1>4. NoneLost' /\ Queue'
    BY DEF ScanInv, NoneLost, Queue, Roots, Pending, Unapproved, Escaping
  <1> QED  BY <1>1, <1>2, <1>3, <1>4 DEF ScanInv

LEMMA SnapshotStands ==
  ASSUME SnapshotInside, UNCHANGED snapshot, Permissions \subseteq Permissions',
         \A g \in Permissions : granted'[g].identity = granted[g].identity
  PROVE  SnapshotInside'
  <1> SUFFICES ASSUME snapshot.taken, NEW p \in Placement,
                      snapshot.placements[p].safe, snapshot.placements[p].package = External,
                      ~Turned(p, snapshot.frozen, snapshot.approved)
               PROVE  \E g \in DOMAIN snapshot.frozen :
                         /\ snapshot.frozen[g] = "active"
                         /\ snapshot.placements[p].epoch = granted'[g].identity
    BY DEF SnapshotInside, ReadInside, Turned
  <1>1. /\ DOMAIN snapshot.frozen \subseteq Permissions
        /\ ReadInside(snapshot.placements[p], p, snapshot.frozen, snapshot.approved)
    BY DEF SnapshotInside
  <1>2. PICK g \in DOMAIN snapshot.frozen : /\ snapshot.frozen[g] = "active"
                                           /\ snapshot.placements[p].epoch = granted[g].identity
    BY <1>1 DEF ReadInside
  <1> QED  BY <1>1, <1>2

LEMMA ConfirmStep == ASSUME ScanInv, Confirm PROVE ScanInv'
  <1> USE DEF running, outside, Confirm
  <1>1. granted' = Append(granted, [identity |-> ident, revoked |-> FALSE]) /\ Grants /\ Standing = {}
    BY DEF ScanInv
  <1>2. /\ Len(granted') = Len(granted) + 1 /\ Permissions' = Permissions \union {Len(granted) + 1}
        /\ \A g \in Permissions : granted'[g] = granted[g]
        /\ granted'[Len(granted) + 1] = [identity |-> ident, revoked |-> FALSE]
        /\ Grants'
    BY <1>1 DEF Grants, Grant, Permissions
  <1>3. \A g \in Permissions : granted[g].revoked
    BY <1>1 DEF Standing
  <1>4. OneStands' /\ Frozen' /\ Formed' /\ CandidateBound' /\ Queue'
    <2>1. OneStands'
      BY <1>2, <1>3 DEF Standing, OneStands
    <2> QED  BY <2>1 DEF ScanInv, Frozen, Formed, CandidateBound, Queue
  <1>5. PlacementsInside' /\ NoneLost' /\ ActiveMeansObserved'
    BY DEF ScanInv, PlacementsInside, NoneLost, ActiveMeansObserved
  <1>6. SnapshotInside'
    BY <1>2, SnapshotStands DEF ScanInv
  <1> QED  BY <1>2, <1>4, <1>5, <1>6 DEF ScanInv

LEMMA RevokeStep == ASSUME ScanInv, NEW g \in Standing, Revoke(g) PROVE ScanInv'
  <1> USE DEF running, outside, Revoke
  <1>1. /\ Permissions' = Permissions /\ Grants'
        /\ \A h \in Permissions : granted'[h].identity = granted[h].identity
        /\ \A h \in Permissions : granted[h].revoked => granted'[h].revoked
    <2>1. granted \in Seq(Grant) /\ g \in Permissions /\ Permissions = 1 .. Len(granted)
      BY GrantsFormed DEF ScanInv, Grants, Standing
    <2>2. granted' = [granted EXCEPT ![g] = [granted[g] EXCEPT !.revoked = TRUE]]
      OBVIOUS
    <2>3. granted[g] \in Grant
      BY GrantsFormed, <2>1 DEF ScanInv
    <2>4. [granted[g] EXCEPT !.revoked = TRUE] \in Grant
      BY <2>3 DEF Grant
    <2>5. granted' \in Seq(Grant) /\ Len(granted') = Len(granted) /\ DOMAIN granted' = DOMAIN granted
      BY <2>1, <2>2, <2>4
    <2>6. [granted[g] EXCEPT !.revoked = TRUE].identity = granted[g].identity
          /\ [granted[g] EXCEPT !.revoked = TRUE].revoked
      BY <2>3 DEF Grant
    <2>7. \A h \in Permissions : granted'[h] = IF h = g THEN [granted[g] EXCEPT !.revoked = TRUE] ELSE granted[h]
      BY <2>2 DEF Permissions
    <2>8. Grants'
      BY <2>5 DEF ScanInv, Grants, outside
    <2> QED  BY <2>5, <2>6, <2>7, <2>8 DEF Permissions
  <1>2. OneStands' /\ Frozen' /\ Formed' /\ CandidateBound' /\ Queue'
    BY <1>1 DEF ScanInv, OneStands, Frozen, Formed, CandidateBound, Queue, Standing
  <1>3. PlacementsInside' /\ NoneLost' /\ ActiveMeansObserved'
    BY DEF ScanInv, PlacementsInside, NoneLost, ActiveMeansObserved
  <1>4. SnapshotInside'
    BY <1>1, SnapshotStands DEF ScanInv
  <1> QED  BY <1>1, <1>2, <1>3, <1>4 DEF ScanInv

(* The steps of a Scan give and take no permission, and leave the Snapshot *)
(* alone until the last.                                                   *)
LEMMA ScanStep ==
  ASSUME ScanInv, UNCHANGED <<outside, granted, snapshot>>
  PROVE  /\ OneStands' /\ Grants' /\ SnapshotInside' /\ ActiveMeansObserved'
         /\ Standing' = Standing /\ Permissions' = Permissions
  BY DEF outside, ScanInv, OneStands, Grants, SnapshotInside, ReadInside, Turned,
     ActiveMeansObserved, Standing, Permissions

LEMMA FreezeStep == ASSUME ScanInv, FreezeRoots PROVE ScanInv'
  <1> USE DEF FreezeRoots, NothingInHand, Goto
  <1>1. OneStands' /\ Grants' /\ SnapshotInside' /\ ActiveMeansObserved'
    BY ScanStep
  <1>2. Frozen'
    BY ScanStep DEF Frozen, Roots, Standing
  <1>3. Formed' /\ CandidateBound' /\ PlacementsInside'
    BY DEF Formed, CandidateBound, PlacementsInside, ReadInside, None
  <1>4. Queue' /\ NoneLost'
    BY SourceScanAssumption DEF Queue, NoneLost, None
  <1> QED  BY <1>1, <1>2, <1>3, <1>4 DEF ScanInv

(* The link discovery has come to is one of the links.                     *)
LEMMA FoundIs ==
  ASSUME ScanInv, phase \in {"inspect", "resolve"}
  PROVE  Found \in Linked /\ todo \in Seq(Linked) /\ Len(todo) < Len(Order)
  <1>1. todo \in Seq(Linked) /\ Len(todo) < Len(Order)
    BY DEF ScanInv, Queue
  <1>2. Len(todo) + 1 \in 1 .. Len(Order) /\ Order \in Seq(Linked)
    BY <1>1, SourceScanAssumption
  <1> QED  BY <1>1, <1>2 DEF Found

(* A step of discovery reads no package.                                   *)
LEMMA DiscoveryStep ==
  ASSUME ScanInv, phase # "idle", phase' \notin {"idle", "read", "after"},
         UNCHANGED <<outside, granted, frozen, placements, candidate, snapshot>>,
         DOMAIN expected' = Placement,
         approved' = approved \/ phase = "inspect"
  PROVE  /\ OneStands' /\ Grants' /\ SnapshotInside' /\ ActiveMeansObserved'
         /\ Frozen' /\ Roots' = Roots /\ Formed' /\ CandidateBound' /\ PlacementsInside'
  <1>1. OneStands' /\ Grants' /\ SnapshotInside' /\ ActiveMeansObserved'
    BY ScanStep
  <1>2. Frozen' /\ Roots' = Roots
    BY ScanStep DEF ScanInv, Frozen, Roots
  <1>3. Formed' /\ CandidateBound'
    BY DEF ScanInv, Formed, CandidateBound
  <1>4. PlacementsInside'
    BY DEF ScanInv, Queue, PlacementsInside, ReadInside, Turned
  <1> QED  BY <1>1, <1>2, <1>3, <1>4

LEMMA InspectStep == ASSUME ScanInv, Inspect PROVE ScanInv'
  <1> USE DEF Inspect, Goto
  <1>1. /\ OneStands' /\ Grants' /\ SnapshotInside' /\ ActiveMeansObserved'
        /\ Frozen' /\ Roots' = Roots /\ Formed' /\ CandidateBound' /\ PlacementsInside'
    BY DiscoveryStep DEF ScanInv, Formed
  <1>2. Queue'
    <2>1. approved' \in [Linked -> Package \union {NoPackage}]
      BY DEF ScanInv, Queue, Exists, Package
    <2> QED  BY <2>1, <1>1 DEF ScanInv, Queue
  <1>3. NoneLost'
    BY <1>1 DEF ScanInv, NoneLost, Pending, Unapproved
  <1> QED  BY <1>1, <1>2, <1>3 DEF ScanInv

(* What is appended to the candidates is pending, as were the others.      *)
LEMMA Appended ==
  ASSUME NEW q, todo \in Seq(Placement), q \in Placement, todo' = Append(todo, q)
  PROVE  /\ todo' \in Seq(Placement) /\ Len(todo') = Len(todo) + 1
         /\ Pending(q)' /\ \A p : Pending(p) => Pending(p)'
  <1>1. todo' \in Seq(Placement) /\ Len(todo') = Len(todo) + 1 /\ todo'[Len(todo) + 1] = q
    OBVIOUS
  <1>2. ASSUME NEW p, Pending(p) PROVE Pending(p)'
    <2>1. PICK i \in 1 .. Len(todo) : todo[i] = p
      BY <1>2 DEF Pending
    <2>2. i \in 1 .. Len(todo') /\ todo'[i] = p
      BY <1>1, <2>1
    <2> QED  BY <2>2 DEF Pending
  <1> QED  BY <1>1, <1>2 DEF Pending

LEMMA ResolveStep == ASSUME ScanInv, Resolve PROVE ScanInv'
  <1> USE DEF Resolve, Goto
  <1>1. /\ OneStands' /\ Grants' /\ SnapshotInside' /\ ActiveMeansObserved'
        /\ Frozen' /\ Roots' = Roots /\ Formed' /\ CandidateBound' /\ PlacementsInside'
    BY DiscoveryStep DEF ScanInv, Formed
  <1>2. Found \in Linked /\ todo \in Seq(Linked) /\ Len(todo) < Len(Order) /\ Found \in Placement
    BY FoundIs DEF Placement
  <1>3. todo \in Seq(Placement)
    BY <1>2 DEF Placement
  <1> PICK q \in Placement : q = Found
    BY <1>2
  <1>4. /\ todo' \in Seq(Placement) /\ Len(todo') = Len(todo) + 1
        /\ Pending(q)' /\ \A p : Pending(p) => Pending(p)'
    BY <1>3, Appended
  <1>5. Queue'
    <2>1. todo' \in Seq(Linked)
      BY <1>2
    <2> QED  BY <1>1, <1>2, <1>4, <2>1 DEF ScanInv, Queue
  <1>6. NoneLost'
    <2>1. DOMAIN expected = Placement
      BY DEF ScanInv, Formed
    <2>2. CASE Roots \subseteq drifted
      BY <1>1, <2>2 DEF NoneLost
    <2>3. CASE ~(Roots \subseteq drifted)
      <3>1. \A p \in Placement : expected[p] = External => placements[p].safe \/ Pending(p)
        BY <2>3 DEF ScanInv, NoneLost, Unapproved
      <3>2. \A p \in Placement : expected'[p] = External => placements[p].safe \/ Pending(p)'
        BY <1>2, <1>4, <2>1, <3>1
      <3> QED  BY <1>4, <3>2 DEF NoneLost
    <2> QED  BY <2>2, <2>3
  <1> QED  BY <1>1, <1>5, <1>6 DEF ScanInv

LEMMA OneRoot == ASSUME ScanInv, phase # "idle", NEW g \in Roots PROVE Roots = {g}
  BY DEF ScanInv, OneStands, Frozen

LEMMA RejectStep == ASSUME ScanInv, RejectRoot PROVE ScanInv'
  <1> USE DEF RejectRoot, Goto
  <1>1. /\ OneStands' /\ Grants' /\ SnapshotInside' /\ ActiveMeansObserved'
        /\ Frozen' /\ Roots' = Roots /\ Formed' /\ CandidateBound' /\ PlacementsInside'
    BY DiscoveryStep DEF ScanInv, Formed
  <1>2. Queue' /\ NoneLost'
    BY <1>1, OneRoot DEF ScanInv, Queue, NoneLost
  <1> QED  BY <1>1, <1>2 DEF ScanInv

LEMMA EnterStep == ASSUME ScanInv, EnterRoot PROVE ScanInv'
  <1> USE DEF EnterRoot, Goto, running
  <1>1. /\ OneStands' /\ Grants' /\ SnapshotInside' /\ ActiveMeansObserved'
        /\ Frozen' /\ Roots' = Roots /\ Formed' /\ CandidateBound' /\ PlacementsInside'
    BY DiscoveryStep DEF ScanInv, Formed
  <1>2. Queue' /\ NoneLost'
    BY <1>1 DEF ScanInv, Queue, NoneLost, Pending, Unapproved, Escaping
  <1> QED  BY <1>1, <1>2 DEF ScanInv

LEMMA EnumerateStep == ASSUME ScanInv, Enumerate PROVE ScanInv'
  <1> USE DEF Enumerate, Goto
  <1>1. /\ OneStands' /\ Grants' /\ SnapshotInside' /\ ActiveMeansObserved'
        /\ Frozen' /\ Roots' = Roots /\ Formed' /\ CandidateBound' /\ PlacementsInside'
    BY DiscoveryStep DEF ScanInv, Formed
  <1>2. todo \in Seq(Linked) /\ Escaping' = Escaping
    BY <1>1 DEF ScanInv, Queue, Escaping
  <1>3. todo \in Seq(Placement) /\ Direct \in Placement
    BY <1>2 DEF Placement
  <1>4. CASE present
    <2>1. /\ todo' \in Seq(Placement) /\ Pending(Direct)'
          /\ \A p : Pending(p) => Pending(p)'
      BY <1>3, <1>4, Appended
    <2>2. Queue'
      BY <1>1, <1>2, <1>4, <2>1 DEF ScanInv, Queue
    <2>3. NoneLost'
      BY <1>1, <1>2, <1>4, <2>1 DEF ScanInv, NoneLost, Unapproved
    <2> QED  BY <1>1, <2>2, <2>3 DEF ScanInv
  <1>5. CASE ~present
    BY <1>1, <1>2, <1>5 DEF ScanInv, Queue, NoneLost, Pending, Unapproved
  <1> QED  BY <1>4, <1>5

LEMMA ResolveDirectStep == ASSUME ScanInv, ResolveDirect PROVE ScanInv'
  <1> USE DEF ResolveDirect, Goto
  <1>1. /\ OneStands' /\ Grants' /\ SnapshotInside' /\ ActiveMeansObserved'
        /\ Frozen' /\ Roots' = Roots /\ Formed' /\ CandidateBound' /\ PlacementsInside'
    BY DiscoveryStep DEF ScanInv, Formed
  <1>2. Escaping' = Escaping /\ DOMAIN expected = Placement /\ Pending(Direct)
    BY <1>1 DEF ScanInv, Queue, Formed, Escaping
  <1>3. Queue' /\ NoneLost'
    BY <1>1, <1>2 DEF ScanInv, Queue, NoneLost, Pending, Unapproved
  <1> QED  BY <1>1, <1>3 DEF ScanInv

LEMMA RecheckStep == ASSUME ScanInv, RecheckRoot PROVE ScanInv'
  <1> USE DEF RecheckRoot, Goto
  <1>1. /\ OneStands' /\ Grants' /\ SnapshotInside' /\ ActiveMeansObserved'
        /\ Frozen' /\ Roots' = Roots /\ Formed' /\ CandidateBound' /\ PlacementsInside'
    BY DiscoveryStep DEF ScanInv, Formed
  <1>2. PICK g \in Roots : IF Matches(g) THEN UNCHANGED <<todo, drifted>>
                           ELSE drifted' = drifted \union {g}
    OBVIOUS
  <1>3. Queue'
    BY <1>1, <1>2 DEF ScanInv, Queue
  <1>4. NoneLost'
    <2>1. CASE Matches(g)
      BY <1>1, <1>2, <2>1 DEF ScanInv, NoneLost, Pending, Unapproved, Escaping
    <2>2. CASE ~Matches(g)
      BY <1>1, <1>2, <2>2, OneRoot DEF NoneLost
    <2> QED  BY <2>1, <2>2
  <1> QED  BY <1>1, <1>3, <1>4 DEF ScanInv

(* Once the first candidate is dealt with, the others are still to come.   *)
LEMMA TakeStep ==
  ASSUME ScanInv, phase \notin {"idle", "inspect", "resolve", "entered", "listed"}, todo # <<>>, Take,
         phase = "enumerate" => Roots = {},
         UNCHANGED <<frozen, approved, expected>>, drifted \subseteq drifted',
         \A p \in Placement \ Escaping : placements[p].safe => placements'[p].safe,
         Wanted = External /\ Current \in Placement =>
             Roots \subseteq drifted' \/ Current \in Escaping \/ placements'[Current].safe
  PROVE  NoneLost' /\ Queue'
  <1>1. Roots' = Roots /\ Escaping' = Escaping /\ phase' = "next"
    BY DEF Roots, Escaping, Take, Goto
  <1>2. Queue'
    <2>1. Roots = {} => todo \in Seq(Linked)
      BY DEF ScanInv, Queue
    <2>2. Roots = {} => todo' \in Seq(Linked)
      BY <2>1 DEF Take
    <2> QED  BY <1>1, <2>2 DEF ScanInv, Queue
  <1>3. CASE Roots \subseteq drifted'
    BY <1>1, <1>2, <1>3 DEF NoneLost
  <1>4. CASE ~(Roots \subseteq drifted')
    <2>1. /\ todo \in Seq(Placement)
          /\ \A p \in Placement :
                expected[p] = External => placements[p].safe \/ Pending(p) \/ p \in Escaping
      BY <1>4 DEF ScanInv, NoneLost, Unapproved
    <2>2. todo' = Tail(todo) /\ todo' \in Seq(Placement) /\ Len(todo') = Len(todo) - 1
      BY <2>1 DEF Take
    <2>3. ASSUME NEW p \in Placement, expected[p] = External, p \notin Escaping
          PROVE  placements'[p].safe \/ Pending(p)'
      <3>1. CASE placements[p].safe
        BY <2>3, <3>1
      <3>2. CASE Pending(p)
        <4>1. PICK i \in 1 .. Len(todo) : todo[i] = p
          BY <3>2 DEF Pending
        <4>2. CASE i = 1
          BY <4>1, <4>2, <2>1, <2>3, <1>4 DEF Current, Wanted
        <4>3. CASE i # 1
          <5>1. i - 1 \in 1 .. Len(todo') /\ todo'[i - 1] = p
            BY <4>1, <4>3, <2>1, <2>2
          <5> QED  BY <5>1 DEF Pending
        <4> QED  BY <4>2, <4>3
      <3> QED  BY <3>1, <3>2, <2>1, <2>3
    <2> QED  BY <1>1, <1>2, <2>2, <2>3 DEF NoneLost, Unapproved
  <1> QED  BY <1>3, <1>4

(* A candidate that is discarded leaves nothing of itself.                 *)
LEMMA DiscardStep ==
  ASSUME ScanInv, Discard, phase \in {"read", "after"} \/ Materializing, todo # <<>>,
         UNCHANGED <<outside, granted, frozen, approved, expected, snapshot>>
  PROVE  ScanInv'
  <1> USE DEF Discard, Take, Goto
  <1>1. OneStands' /\ Grants' /\ SnapshotInside' /\ ActiveMeansObserved'
    BY ScanStep
  <1>2. Frozen' /\ Roots' = Roots
    BY ScanStep DEF ScanInv, Frozen, Roots, Materializing
  <1>3. Formed' /\ CandidateBound' /\ PlacementsInside'
    BY DEF ScanInv, Formed, CandidateBound, PlacementsInside, ReadInside, Turned, None, Materializing
  <1>4. NoneLost' /\ Queue'
    <2>1. drifted \subseteq drifted' /\ (Wanted = External => Roots \subseteq drifted')
      BY DEF Anchor
    <2> QED  BY <2>1, TakeStep DEF Materializing
  <1> QED  BY <1>1, <1>2, <1>3, <1>4 DEF ScanInv

LEMMA CheckBeforeStep == ASSUME ScanInv, CheckBefore PROVE ScanInv'
  <1> USE DEF CheckBefore, Goto
  <1>1. CASE ~Bound
    BY <1>1, DiscardStep
  <1>2. CASE Bound
    <2>1. OneStands' /\ Grants' /\ SnapshotInside' /\ ActiveMeansObserved'
      BY ScanStep
    <2>2. /\ Frozen' /\ Roots' = Roots /\ Wanted' = Wanted
          /\ Escaping' = Escaping /\ Current' = Current /\ Anchor' = Anchor
      BY <1>2, ScanStep DEF ScanInv, Frozen, Roots, Wanted, Current, Escaping, Anchor, Materializing
    <2>3. Formed' /\ PlacementsInside'
      BY <1>2, <2>2 DEF ScanInv, Formed, PlacementsInside, ReadInside, Turned, None, Materializing
    <2>4. NoneLost' /\ Queue'
      BY <1>2, <2>2 DEF ScanInv, NoneLost, Queue, Pending, Unapproved, Materializing
    <2>5. CandidateBound'
      <3>1. Anchor # {} => \E g \in Roots : granted[g].identity <= ident
        BY <1>2 DEF ScanInv, Grants, Bound, RootBound, Matches, Anchor
      <3> QED  BY <1>2, <2>2, <3>1 DEF CandidateBound, None, outside
    <2> QED  BY <2>1, <2>2, <2>3, <2>4, <2>5 DEF ScanInv
  <1> QED  BY <1>1, <1>2

LEMMA ReadStep == ASSUME ScanInv, ReadPackage PROVE ScanInv'
  <1>1. /\ phase = "read" /\ todo # <<>> /\ candidate.package = Wanted
        /\ UNCHANGED <<outside, granted, frozen, approved, expected, snapshot>>
    BY DEF ReadPackage, ScanInv, CandidateBound
  <1>2. CASE Discard
    BY <1>1, <1>2, DiscardStep
  <1>3. ASSUME NEW v, Observe(v) PROVE ScanInv'
    <2> USE <1>1, <1>3 DEF Observe, Goto
    <2>1. OneStands' /\ Grants' /\ SnapshotInside' /\ ActiveMeansObserved'
      BY ScanStep
    <2>2. /\ Frozen' /\ Roots' = Roots /\ Wanted' = Wanted
          /\ Escaping' = Escaping /\ Current' = Current /\ Anchor' = Anchor
      BY ScanStep DEF ScanInv, Frozen, Roots, Wanted, Current, Escaping, Anchor
    <2>3. candidate' = [candidate EXCEPT !.content = v, !.epoch = ident]
      OBVIOUS
    <2>4. Formed' /\ candidate'.package = candidate.package /\ candidate'.epoch = ident
      BY <2>3 DEF ScanInv, Formed
    <2>5. PlacementsInside' /\ NoneLost' /\ Queue'
      BY <2>2 DEF ScanInv, PlacementsInside, ReadInside, Turned, NoneLost, Queue, Pending, Unapproved
    <2>6. CandidateBound'
      <3>1. ident' = ident /\ ident \in Nat
        BY DEF ScanInv, Grants, outside
      <3> QED  BY <2>2, <2>4, <3>1 DEF ScanInv, CandidateBound
    <2> QED  BY <2>1, <2>2, <2>4, <2>5, <2>6 DEF ScanInv
  <1> QED  BY <1>2, <1>3 DEF ReadPackage

LEMMA CheckAfterStep == ASSUME ScanInv, CheckAfter PROVE ScanInv'
  <1>1. /\ phase = "after" /\ todo # <<>> /\ candidate.package = Wanted
        /\ UNCHANGED <<outside, granted, frozen, approved, expected, snapshot>>
    BY DEF CheckAfter, ScanInv, CandidateBound
  <1>2. CASE ~Bound
    BY <1>1, <1>2, DiscardStep DEF CheckAfter
  <1>3. CASE Bound
    <2> DEFINE c == [candidate EXCEPT !.safe = Current \notin Escaping]
    <2>1. placements' = [placements EXCEPT ![Current] = c] /\ drifted' = drifted /\ Take
      BY <1>3 DEF CheckAfter, Keep
    <2>2. OneStands' /\ Grants' /\ SnapshotInside' /\ ActiveMeansObserved'
      BY <1>1, ScanStep
    <2>3. Frozen' /\ Roots' = Roots
      BY <1>1, <2>1, ScanStep DEF ScanInv, Frozen, Roots, Take, Goto
    <2>4. Formed' /\ CandidateBound'
      BY <1>1, <2>1 DEF ScanInv, Formed, CandidateBound, Take, Goto, None
    <2>5. c.safe = (Current \notin Escaping) /\ c.package = Wanted /\ c.epoch = candidate.epoch
      BY <1>1 DEF ScanInv, Formed
    <2>6. DOMAIN placements = Placement
      BY DEF ScanInv, Formed
    <2>7. PlacementsInside'
      <3>1. ReadInside(c, Current, frozen, approved)
        <4>1. SUFFICES ASSUME Wanted = External, Current \notin Escaping
                       PROVE  \/ \E g \in DOMAIN frozen :
                                    frozen[g] = "active" /\ candidate.epoch = granted[g].identity
                              \/ Turned(Current, frozen, approved)
          BY <2>5 DEF ReadInside
        <4>2. CASE Roots # {}
          <5>1. Anchor = Roots
            BY <4>1 DEF Anchor
          <5>2. PICK g \in Roots : ident = granted[g].identity
            BY <1>3, <4>2, <5>1 DEF Bound, RootBound, Matches
          <5>3. PICK h \in Roots : granted[h].identity <= candidate.epoch
            BY <1>1, <4>1, <4>2, <5>1 DEF ScanInv, CandidateBound
          <5>4. g = h
            BY <1>1, <5>2, <5>3, OneRoot
          <5>5. candidate.epoch \in Nat /\ candidate.epoch <= ident /\ ident \in Nat
            BY <1>1, <4>1, <4>2, <5>1 DEF ScanInv, CandidateBound, Grants
          <5>6. granted[g].identity <= candidate.epoch /\ candidate.epoch <= granted[g].identity
            BY <5>2, <5>3, <5>4, <5>5
          <5>7. candidate.epoch = granted[g].identity
            BY <5>2, <5>5, <5>6
          <5> QED  BY <5>7 DEF Roots
        <4>3. CASE Roots = {}
          <5>1. todo \in Seq(Linked) /\ approved \in [Linked -> Package \union {NoPackage}]
            BY <1>1, <4>3 DEF ScanInv, Queue
          <5>2. Current \in Linked
            BY <1>1, <5>1 DEF Current
          <5>3. approved[Current] \in Local
            BY <4>1, <4>3, <5>1, <5>2 DEF Escaping, Package
          <5> QED  BY <4>3, <5>2, <5>3 DEF Turned, Roots
        <4> QED  BY <4>2, <4>3
      <3>2. \A p \in Placement : (p = Current /\ placements'[p] = c) \/ placements'[p] = placements[p]
        BY <2>1, <2>6
      <3>3. \A p \in Placement : ReadInside(placements[p], p, frozen, approved)
        BY <1>1 DEF ScanInv, PlacementsInside
      <3>4. \A p \in Placement : ReadInside(placements'[p], p, frozen, approved)
        BY <3>1, <3>2, <3>3
      <3> QED  BY <1>1, <3>4 DEF PlacementsInside, ReadInside, Turned
    <2>8. NoneLost' /\ Queue'
      <3>1. \A p \in Placement \ Escaping : placements[p].safe => placements'[p].safe
        BY <2>1, <2>5, <2>6
      <3>2. Current \in Placement => placements'[Current] = c
        BY <2>1, <2>6
      <3> QED  BY <1>1, <2>1, <2>5, <3>1, <3>2, TakeStep
    <2> QED  BY <2>2, <2>3, <2>4, <2>7, <2>8 DEF ScanInv
  <1> QED  BY <1>2, <1>3

LEMMA PersistStep == ASSUME ScanInv, PersistScan PROVE ScanInv'
  <1> USE DEF PersistScan, NothingInHand, Goto, outside
  <1>1. OneStands' /\ Grants' /\ Frozen' /\ Formed' /\ CandidateBound' /\ PlacementsInside'
        /\ NoneLost' /\ Queue'
    BY DEF ScanInv, OneStands, Grants, Frozen, Formed, CandidateBound, PlacementsInside, NoneLost,
       Queue, Standing, Permissions, None
  <1>2. phase # "idle" /\ phase \notin {"inspect", "resolve"}
    BY DEF Materializing
  <1>3. SnapshotInside'
    BY <1>2 DEF ScanInv, Frozen, PlacementsInside, SnapshotInside, ReadInside, Turned, Permissions
  <1>4. ActiveMeansObserved'
    <2>1. snapshot'.facts = [g \in Standing |-> Fact(g)] /\ snapshot'.wanted = expected
          /\ snapshot'.placements = placements /\ snapshot'.escaping = Escaping
      OBVIOUS
    <2>2. SUFFICES ASSUME NEW g \in Standing, NEW p \in Placement,
                          Fact(g) = "active", expected[p] = External, p \notin Escaping
                   PROVE  placements[p].safe
      BY <2>1 DEF ActiveMeansObserved
    <2>3. g \notin drifted /\ frozen[g] = "active"
      BY <2>2 DEF Fact
    <2>4. g \in Roots
      BY <1>2, <2>3 DEF ScanInv, Frozen, Roots, Standing
    <2>5. ~Pending(p)
      BY DEF Pending
    <2> QED  BY <1>2, <2>2, <2>3, <2>4, <2>5 DEF ScanInv, NoneLost, Unapproved
  <1> QED  BY <1>1, <1>3, <1>4 DEF ScanInv

LEMMA AbandonStep == ASSUME ScanInv, AbandonScan PROVE ScanInv'
  <1> USE DEF AbandonScan, NothingInHand, Goto
  <1>1. OneStands' /\ Grants' /\ SnapshotInside' /\ ActiveMeansObserved'
    BY ScanStep
  <1> QED  BY <1>1 DEF ScanInv, Frozen, Formed, CandidateBound, PlacementsInside, NoneLost, Queue, None

LEMMA NextScanInv == ScanInv /\ [ScanNext]_scanVars => ScanInv'
  <1> SUFFICES ASSUME ScanInv, [ScanNext]_scanVars PROVE ScanInv'
    OBVIOUS
  <1>0. ident \in Nat
    BY DEF ScanInv, Grants
  <1>1. ASSUME Move, ident' = ident PROVE ScanInv'
    BY <1>0, <1>1, OutsideStep DEF Move
  <1>2. CASE ReplaceRoot
    BY <1>0, <1>2, OutsideStep DEF ReplaceRoot, Move
  <1>3. CASE UNCHANGED scanVars
    BY <1>0, <1>3, OutsideStep DEF scanVars, outside
  <1>4. CASE \/ \E k \in Package : Edit(k)
             \/ \E p \in Linked, k \in Package : Retarget(p, k)
             \/ Vanish \/ Return
    BY <1>1, <1>4 DEF Edit, Retarget, Vanish, Return
  <1>5. CASE Confirm \/ \E g \in Standing : Revoke(g)
    BY <1>5, ConfirmStep, RevokeStep
  <1>6. CASE FreezeRoots \/ Inspect \/ Resolve \/ RejectRoot \/ EnterRoot
             \/ Enumerate \/ ResolveDirect \/ RecheckRoot
    BY <1>6, FreezeStep, InspectStep, ResolveStep, RejectStep, EnterStep, EnumerateStep,
       ResolveDirectStep, RecheckStep
  <1>7. CASE CheckBefore \/ ReadPackage \/ CheckAfter \/ PersistScan \/ AbandonScan
    BY <1>7, CheckBeforeStep, ReadStep, CheckAfterStep, PersistStep, AbandonStep
  <1> QED  BY <1>2, <1>3, <1>4, <1>5, <1>6, <1>7 DEF ScanNext

(* What a Scan is known to keep, at every moment of every Scan.            *)
THEOREM ScanInvHolds == ScanSpec => []ScanInv
  BY InitScanInv, NextScanInv, PTL DEF ScanSpec

(* Content of the root is in a Snapshot only if it was read in a directory *)
(* with the identity the user confirmed, under a permission that stood     *)
(* when the Scan began: the two checks around a read are enough, because   *)
(* an identity that was replaced does not come back (materialize_candidates *)
(* and durable_candidate_binding_is_current, src/scan.rs).  The exception, *)
(* TurnedAfterApproval, is the one window between the two resolutions of   *)
(* a link in discover, when no permission was active.                      *)
THEOREM NothingReadUngranted == ScanSpec => []GrantedContentOnly
  <1>1. ScanInv => GrantedContentOnly
    BY DEF ScanInv, SnapshotInside, ReadInside, Turned, GrantedContentOnly, TurnedAfterApproval
  <1> QED  BY <1>1, ScanInvHolds, PTL

(* Under a permission reported active, every candidate that discovery      *)
(* approved and resolved into its directory has been read: a discard marks *)
(* the permission (conservative_source_policy_facts, src/app.rs).  Of what *)
(* discovery itself missed it says nothing.                                *)
THEOREM ActiveIsComplete == ScanSpec => []ActiveMeansObserved
  <1>1. ScanInv => ActiveMeansObserved
    BY DEF ScanInv
  <1> QED  BY <1>1, ScanInvHolds, PTL

-----------------------------------------------------------------------------
(***************************************************************************)
(* Proofs about Snapshots, for any clock, number of Scans, Reports and     *)
(* purges, and whatever usage a Scan finds.  UsageInv accounts for every   *)
(* raw row by its evidence; ReportInv says that on a steady clock rows are *)
(* in the order of their times.                                            *)
(***************************************************************************)
(* The rows, and the bounds of their times.                                *)
Summary == [bucket : Buckets, count : 1 .. MaxCount, last : Time \cup {NoTime}]
ScanRow == [started : Time, completed : Time \cup {NoTime},
            status : {"running", "failed", "completed"}]
Payload == [usage : SUBSET Summary, version : Nat \cup {NoTime}]
Evidence == [scan : Nat, bucket : Buckets, last : Time \cup {NoTime}, observed : Time]
Usage == [bucket : Buckets, count : 1 .. MaxCount, at : Time \cup {NoTime}, scan : Nat]
Report == [scan : Nat, created : Time, version : Nat \cup {NoTime}, usage : SUBSET Summary]

RowsFormed ==
    /\ now \in Time
    /\ scans \in Seq(ScanRow) /\ payloads \in Seq(Payload) /\ Len(payloads) = Len(scans)
    /\ scanning => Len(scans) > 0 /\ scans[Len(scans)].status = "running"
    /\ evidence \in SUBSET Evidence /\ raw \in SUBSET Usage
    /\ monthly \in [Months -> 0 .. MaxCount] /\ recorded \in [Buckets -> 0 .. MaxCount]

(* Evidence is of a Scan that ended, one row to a bucket; what was recorded*)
(* is of the bucket its time falls in, and has its evidence.               *)
EvidenceKept ==
    /\ \A e \in evidence : e.scan \in Completed
    /\ \A e, d \in evidence : e.scan = d.scan /\ e.bucket = d.bucket => e = d
    /\ \A r \in raw : \E e \in evidence :
          e.scan = r.scan /\ e.bucket = r.bucket /\ e.last = r.at
    /\ \A r \in raw : r.bucket = IF r.at = NoTime THEN Unknown ELSE Month(r.at)

(* Counts are of what was recorded, and each largest count is kept.        *)
UsageInv ==
    /\ \A r \in raw : r.count <= recorded[r.bucket]
    /\ \A m \in Months : monthly[m] <= recorded[m] \/ monthly[m] <= recorded[Unknown]
    /\ \A m \in Months : recorded[m] > monthly[m] =>
          \E r \in raw : Month(RetainedAt(r)) = m /\ recorded[m] <= r.count
    /\ \E m \in Months : \/ recorded[Unknown] <= monthly[m]
                         \/ \E r \in raw : Month(RetainedAt(r)) = m /\ recorded[Unknown] <= r.count

(* While the clock is steady: reports are of completed Scans, rows are in  *)
(* the order of their times, and no version names two payloads.            *)
ReportInv == steady =>
    /\ reports \in Seq(Report)
    /\ \A r \in DOMAIN reports :
          /\ reports[r].scan \in Completed /\ reports[r].created <= now
          /\ reports[r].version <= payloads[reports[r].scan].version
          /\ Fresh(r) => reports[r].usage = payloads[reports[r].scan].usage
    /\ \A q, r \in DOMAIN reports : q < r =>
          reports[q].created <= reports[r].created /\ reports[q].scan <= reports[r].scan
    /\ \A i \in DOMAIN scans : scans[i].started <= now
    /\ \A i, j \in DOMAIN scans : i < j => scans[i].started <= scans[j].started
    /\ \A i \in Completed : scans[i].completed <= now
    /\ \A i, j \in Completed : i < j => scans[i].completed <= scans[j].completed

AllRows == RowsFormed /\ EvidenceKept /\ UsageInv /\ ReportInv

-----------------------------------------------------------------------------
(* Arithmetic.                                                             *)
LEMMA GreatestExists ==
  ASSUME NEW b \in Nat, NEW T, T \subseteq 0 .. b, T # {}
  PROVE  \E x \in T : \A y \in T : y <= x
  <1> DEFINE R == OpToRel(<, Nat)
             below == {b - x : x \in T}
  <1>1. IsWellFoundedOn(R, Nat)
    BY NatLessThanWellFounded, Zenon
  <1>2. \A ss \in Nat \X Nat : ss[1] < ss[2] => ss \in R
    BY Zenon DEF OpToRel
  <1> HIDE DEF R
  <1>3. below \subseteq Nat /\ below # {}
    <2>1. \A x \in T : b - x \in Nat
      OBVIOUS
    <2> QED  BY <2>1
  <1>4. PICK z \in below : \A y \in below : ~ (<<y, z>> \in R)
    <2> HIDE DEF below
    <2> QED  BY WFMin, <1>1, <1>3
  <1>5. \A y \in below : ~(y < z)
    <2> HIDE DEF below
    <2> QED  BY <1>2, <1>3, <1>4
  <1>6. PICK x \in T : z = b - x
    BY <1>4
  <1>7. \A y \in T : y <= x
    <2> SUFFICES ASSUME NEW y \in T PROVE y <= x
      OBVIOUS
    <2>1. b - y \in below /\ ~(b - y < b - x)
      BY <1>5, <1>6
    <2> QED  BY <2>1
  <1> QED  BY <1>7

LEMMA LargestIs ==
  ASSUME NEW b \in Nat, NEW S, S \subseteq 0 .. b, S # {}
  PROVE  Largest(S) \in S /\ \A y \in S : y <= Largest(S)
  <1>1. PICK x \in S : \A y \in S : x >= y
    <2>1. \E x \in S : \A y \in S : y <= x
      BY GreatestExists
    <2> QED  BY <2>1
  <1>2. Max(S) \in S /\ \A y \in S : Max(S) >= y
    BY <1>1 DEF Max
  <1>3. Max(S) \in 0 .. b /\ \A y \in S : y \in 0 .. b
    BY <1>2
  <1> QED  BY <1>2, <1>3 DEF Largest

LEMMA MonthFormed ==
  /\ \A t \in Time : Month(t) \in Months /\ Month(t) \in Buckets /\ Month(t) # Unknown /\ Month(t) \in Nat
  /\ \A m \in Months : m # Unknown /\ m \in Buckets
  /\ Unknown \in Buckets /\ NoTime \notin Time /\ 0 \in Time
  <1>1. ASSUME NEW t \in Nat, NEW d \in Nat \ {0} PROVE t \div d \in Nat
    BY <1>1, SMTT(30)
  <1>2. \A t \in Time : Month(t) \in Nat
    BY <1>1, SnapshotsAssumption DEF Month, Time
  <1> HIDE DEF Month
  <1> QED  BY <1>2, SnapshotsAssumption DEF Months, Buckets, Unknown, NoTime, Time

(* A row's evidence is the one of its Scan and bucket.                     *)
LEMMA EvidenceIs ==
  ASSUME EvidenceKept, NEW r \in raw
  PROVE  /\ EvidenceOf(r) \in evidence /\ EvidenceOf(r).scan = r.scan
         /\ EvidenceOf(r).bucket = r.bucket /\ EvidenceOf(r).last = r.at
         /\ \A e \in evidence : e.scan = r.scan /\ e.bucket = r.bucket => e = EvidenceOf(r)
  <1>1. PICK e \in evidence : e.scan = r.scan /\ e.bucket = r.bucket /\ e.last = r.at
    BY DEF EvidenceKept
  <1>2. EvidenceOf(r) \in evidence /\ EvidenceOf(r).scan = r.scan /\ EvidenceOf(r).bucket = r.bucket
    BY <1>1 DEF EvidenceOf
  <1>3. EvidenceOf(r) = e
    BY <1>1, <1>2 DEF EvidenceKept
  <1> QED  BY <1>1, <1>2, <1>3 DEF EvidenceKept

Retained ==
    \A r \in raw :
        /\ RetainedAt(r) \in Time /\ Month(RetainedAt(r)) \in Months
        /\ r.count \in 1 .. MaxCount /\ r.bucket \in Buckets
        /\ r.bucket # Unknown => Month(RetainedAt(r)) = r.bucket
LEMMA RetainedIs == RowsFormed /\ EvidenceKept => Retained
  <1> SUFFICES ASSUME RowsFormed, EvidenceKept, NEW r \in raw
               PROVE  /\ RetainedAt(r) \in Time /\ Month(RetainedAt(r)) \in Months
                      /\ r.count \in 1 .. MaxCount /\ r.bucket \in Buckets
                      /\ r.bucket # Unknown => Month(RetainedAt(r)) = r.bucket
    BY DEF Retained
  <1>1. r \in Usage /\ EvidenceOf(r) \in Evidence
    BY EvidenceIs DEF RowsFormed
  <1>2. EvidenceOf(r).observed \in Time
    BY <1>1 DEF Evidence
  <1>3. r.at \in Time \cup {NoTime} /\ r.count \in 1 .. MaxCount /\ r.bucket \in Buckets
    BY <1>1 DEF Usage
  <1>4. RetainedAt(r) \in Time /\ (r.bucket # Unknown => RetainedAt(r) = r.at /\ r.bucket = Month(r.at))
    BY <1>2, <1>3, MonthFormed DEF RetainedAt, OrElse, EvidenceKept
  <1> QED  BY <1>3, <1>4, MonthFormed

-----------------------------------------------------------------------------
(* Usage.                                                                  *)
LEMMA InitAllRows == SnapInit => AllRows
  <1> SUFFICES ASSUME SnapInit PROVE AllRows
    OBVIOUS
  <1> USE SnapshotsAssumption DEF SnapInit
  <1>1. RowsFormed
    BY DEF RowsFormed, Time
  <1>2. EvidenceKept
    BY DEF EvidenceKept
  <1>3. UsageInv
    <2>1. \E m \in Months : recorded[Unknown] <= monthly[m]
      BY MonthFormed
    <2> QED  BY <2>1, MonthFormed DEF UsageInv
  <1>4. ReportInv
    BY DEF ReportInv, Completed
  <1> QED  BY <1>1, <1>2, <1>3, <1>4 DEF AllRows

(* What a Scan finds is at most one summary to a bucket.                   *)
LEMMA FoundFormed ==
  ASSUME RowsFormed, NEW found \in Observable
  PROVE  /\ found \subseteq Summary
         /\ \A u \in found : u.bucket = IF u.last = NoTime THEN Unknown ELSE Month(u.last)
         /\ \A u, v \in found : u.bucket = v.bucket => u = v
  <1>1. Summaries \subseteq Summary
    BY SnapshotsAssumption DEF Summaries, Summary, RowsFormed, Time
  <1>2. found \subseteq Summaries
    BY DEF Observable, kSubset
  <1> QED  BY <1>1, <1>2 DEF Observable, Summaries

LEMMA CompletedRow ==
  ASSUME RowsFormed, NEW s \in {"failed", "completed"}, scanning, scans' = EndRow(s)
  PROVE  LET n == Len(scans) IN
         /\ n \in DOMAIN scans /\ DOMAIN scans' = DOMAIN scans /\ scans' \in Seq(ScanRow)
         /\ Len(scans') = n
         /\ scans'[n].started = scans[n].started
         /\ scans'[n].completed = now /\ scans'[n].status = s
         /\ \A i \in DOMAIN scans : i # n => scans'[i] = scans[i]
         /\ n \notin Completed
         /\ s = "failed" => Completed' = Completed
         /\ s = "completed" => Completed' = Completed \cup {n}
  <1> DEFINE n == Len(scans)
             row == [scans[n] EXCEPT !.status = s, !.completed = now]
  <1>1. scans \in Seq(ScanRow) /\ n \in DOMAIN scans /\ scans[n] \in ScanRow /\ scans[n].status = "running"
    BY DEF RowsFormed
  <1>2. row \in ScanRow /\ row.started = scans[n].started /\ row.completed = now /\ row.status = s
    BY <1>1 DEF ScanRow, RowsFormed
  <1>3. scans' = [scans EXCEPT ![n] = row]
    BY <1>1 DEF EndRow
  <1> HIDE DEF row, ScanRow
  <1>4. /\ DOMAIN scans' = DOMAIN scans /\ scans' \in Seq(ScanRow) /\ Len(scans') = n
        /\ scans'[n] = row /\ \A i \in DOMAIN scans : i # n => scans'[i] = scans[i]
    BY <1>1, <1>2, <1>3
  <1>5. n \notin Completed
    BY <1>1 DEF Completed
  <1>6. s = "failed" => Completed' = Completed
    BY <1>1, <1>2, <1>4 DEF Completed
  <1>7. s = "completed" => Completed' = Completed \cup {n}
    BY <1>1, <1>2, <1>4 DEF Completed
  <1> QED  BY <1>1, <1>2, <1>4, <1>5, <1>6, <1>7

(* persist_index.                                                          *)
LEMMA CompleteFormed ==
  ASSUME AllRows, NEW found \in Observable, CompleteScan(found)
  PROVE  RowsFormed' /\ EvidenceKept'
  <1> USE DEF AllRows
  <1> DEFINE n == Len(scans)
  <1>1. /\ n \in DOMAIN scans /\ scans' \in Seq(ScanRow) /\ Len(scans') = n
        /\ n \notin Completed /\ Completed' = Completed \cup {n} /\ DOMAIN scans' = DOMAIN scans
    BY CompletedRow DEF CompleteScan
  <1>2. /\ found \subseteq Summary
        /\ \A u \in found : u.bucket = IF u.last = NoTime THEN Unknown ELSE Month(u.last)
        /\ \A u, v \in found : u.bucket = v.bucket => u = v
    BY FoundFormed
  <1>3. n \in Nat /\ now \in Time
    BY DEF RowsFormed
  <1>4. EvidenceRows(n, found) \subseteq Evidence /\ UsageRows(n, found) \subseteq Usage
    BY <1>2, <1>3 DEF EvidenceRows, UsageRows, Evidence, Usage, Summary
  <1>5. payloads' \in Seq(Payload) /\ Len(payloads') = Len(payloads)
    <2>1. [usage |-> found, version |-> now] \in Payload
      BY <1>2, <1>3, SnapshotsAssumption DEF Payload, Time
    <2> HIDE DEF Payload
    <2> QED  BY <2>1 DEF CompleteScan, RowsFormed
  <1>6. recorded' \in [Buckets -> 0 .. MaxCount]
    <2>1. ASSUME NEW b \in Buckets
          PROVE  Largest({recorded[b]}
                         \union {u.count : u \in {v \in found : v.bucket = b}}) \in 0 .. MaxCount
      <3> DEFINE S == {recorded[b]} \union {u.count : u \in {v \in found : v.bucket = b}}
      <3>1. S \subseteq 0 .. MaxCount /\ S # {} /\ MaxCount \in Nat
        BY <1>2, SnapshotsAssumption DEF Summary, RowsFormed
      <3> HIDE DEF S
      <3>2. Largest(S) \in 0 .. MaxCount
        BY <3>1, LargestIs
      <3> QED  BY <3>2 DEF S
    <2> QED  BY <2>1 DEF CompleteScan
  <1>7. RowsFormed'
    BY <1>1, <1>4, <1>5, <1>6 DEF CompleteScan, RowsFormed
  <1>8. EvidenceKept'
    <2>1. /\ evidence' = evidence \cup EvidenceRows(n, found)
          /\ raw' = raw \cup UsageRows(n, found)
      BY DEF CompleteScan
    <2>2. \A e \in EvidenceRows(n, found) : e.scan = n
      BY DEF EvidenceRows
    <2>3. \A e \in evidence' : e.scan \in Completed'
      BY <1>1, <2>1, <2>2 DEF EvidenceKept
    <2>4. \A e, d \in EvidenceRows(n, found) : e.bucket = d.bucket => e = d
      BY <1>2 DEF EvidenceRows
    <2>5. \A e, d \in evidence' : e.scan = d.scan /\ e.bucket = d.bucket => e = d
      BY <1>1, <2>1, <2>2, <2>4 DEF EvidenceKept
    <2>6. \A r \in UsageRows(n, found) :
             /\ \E e \in EvidenceRows(n, found) : e.scan = r.scan /\ e.bucket = r.bucket /\ e.last = r.at
             /\ r.bucket = IF r.at = NoTime THEN Unknown ELSE Month(r.at)
      <3> SUFFICES ASSUME NEW r \in UsageRows(n, found)
                   PROVE  /\ \E e \in EvidenceRows(n, found) :
                                e.scan = r.scan /\ e.bucket = r.bucket /\ e.last = r.at
                          /\ r.bucket = IF r.at = NoTime THEN Unknown ELSE Month(r.at)
        OBVIOUS
      <3>1. PICK u \in found : r = [bucket |-> u.bucket, count |-> u.count, at |-> u.last, scan |-> n]
        BY DEF UsageRows
      <3>2. r.bucket = u.bucket /\ r.at = u.last /\ r.scan = n
        BY <3>1
      <3> DEFINE e == [scan |-> n, bucket |-> u.bucket, last |-> u.last, observed |-> now]
      <3>3. e \in EvidenceRows(n, found)
        BY DEF EvidenceRows
      <3>4. e.scan = n /\ e.bucket = u.bucket /\ e.last = u.last
        OBVIOUS
      <3> HIDE DEF e
      <3> QED  BY <1>2, <3>2, <3>3, <3>4
    <2>7. \A r \in raw' : \E e \in evidence' :
             e.scan = r.scan /\ e.bucket = r.bucket /\ e.last = r.at
      BY <2>1, <2>6 DEF EvidenceKept
    <2>8. \A r \in raw' : r.bucket = IF r.at = NoTime THEN Unknown ELSE Month(r.at)
      BY <2>1, <2>6 DEF EvidenceKept
    <2> QED  BY <2>3, <2>5, <2>7, <2>8 DEF EvidenceKept
  <1> QED  BY <1>7, <1>8

(* A row that is there before and after has the same evidence.             *)
LEMMA EvidenceStays ==
  ASSUME EvidenceKept, EvidenceKept', NEW r \in raw, r \in raw', EvidenceOf(r) \in evidence'
  PROVE  RetainedAt(r)' = RetainedAt(r)
  <1>1. EvidenceOf(r) \in evidence' /\ EvidenceOf(r).scan = r.scan /\ EvidenceOf(r).bucket = r.bucket
    BY EvidenceIs
  <1> DEFINE e == EvidenceOf(r)
             d == EvidenceOf(r)'
  <1>2. \E x \in evidence' : x.scan = r.scan /\ x.bucket = r.bucket
    BY <1>1
  <1>3. d \in evidence' /\ d.scan = r.scan /\ d.bucket = r.bucket
    BY <1>2 DEF EvidenceOf
  <1>4. d = e
    BY <1>1, <1>3 DEF EvidenceKept
  <1> QED  BY <1>4 DEF RetainedAt

LEMMA CompleteKeepsUsage ==
  ASSUME AllRows, NEW found \in Observable, CompleteScan(found)
  PROVE  UsageInv'
  <1> USE DEF AllRows
  <1> DEFINE n == Len(scans)
  <1>1. RowsFormed' /\ EvidenceKept'
    BY CompleteFormed
  <1>2. /\ found \subseteq Summary
        /\ \A u \in found : u.bucket = IF u.last = NoTime THEN Unknown ELSE Month(u.last)
        /\ \A u \in found : u.count \in 1 .. MaxCount /\ u.bucket \in Buckets
    BY FoundFormed DEF Summary
  <1>3. /\ raw' = raw \cup UsageRows(n, found) /\ evidence \subseteq evidence'
        /\ UNCHANGED monthly
    BY DEF CompleteScan
  <1>4. /\ recorded \in [Buckets -> 0 .. MaxCount] /\ recorded' \in [Buckets -> 0 .. MaxCount]
        /\ monthly \in [Months -> 0 .. MaxCount] /\ MaxCount \in Nat
    BY <1>1, SnapshotsAssumption DEF RowsFormed
  <1>5. ASSUME NEW b \in Buckets
        PROVE  /\ recorded[b] <= recorded'[b]
               /\ \A u \in found : u.bucket = b => u.count <= recorded'[b]
               /\ recorded'[b] # recorded[b] =>
                     \E u \in found : u.bucket = b /\ recorded'[b] = u.count
    <2> DEFINE S == {recorded[b]} \union {u.count : u \in {v \in found : v.bucket = b}}
    <2>1. S \subseteq 0 .. MaxCount /\ S # {}
      BY <1>2, <1>4
    <2>2. recorded'[b] = Largest(S)
      BY DEF CompleteScan
    <2> HIDE DEF S
    <2>3. Largest(S) \in S /\ \A y \in S : y <= Largest(S)
      BY <1>4, <2>1, LargestIs
    <2> QED  BY <2>2, <2>3 DEF S
  <1>6. \A r \in raw : r \in raw' /\ RetainedAt(r)' = RetainedAt(r)
    BY <1>1, <1>3, EvidenceIs, EvidenceStays
  <1>7. \A u \in found : \E r \in raw' : r.bucket = u.bucket /\ r.count = u.count /\ r.at = u.last
    <2> SUFFICES ASSUME NEW u \in found
                 PROVE  \E r \in raw' : r.bucket = u.bucket /\ r.count = u.count /\ r.at = u.last
      OBVIOUS
    <2>1. CASE Known(u)
      BY <1>3, <2>1 DEF Known
    <2>2. CASE ~Known(u)
      <3> DEFINE r == [bucket |-> u.bucket, count |-> u.count, at |-> u.last, scan |-> n]
      <3>1. r \in UsageRows(n, found)
        BY <2>2 DEF UsageRows
      <3>2. r.bucket = u.bucket /\ r.count = u.count /\ r.at = u.last
        OBVIOUS
      <3> HIDE DEF r
      <3> QED  BY <1>3, <3>1, <3>2
    <2> QED  BY <2>1, <2>2
  <1>8. \A r \in raw' : r.count <= recorded'[r.bucket]
    <2>1. \A r \in raw : r.bucket \in Buckets /\ r.count \in 1 .. MaxCount /\ r.count <= recorded[r.bucket]
      BY RetainedIs DEF UsageInv, Retained
    <2>2. \A r \in UsageRows(n, found) : \E u \in found : r.bucket = u.bucket /\ r.count = u.count
      BY DEF UsageRows
    <2> QED  BY <1>2, <1>3, <1>4, <1>5, <2>1, <2>2
  <1>9. \A m \in Months : monthly'[m] <= recorded'[m] \/ monthly'[m] <= recorded'[Unknown]
    BY <1>3, <1>4, <1>5, MonthFormed DEF UsageInv
  <1>10. Retained'
    BY <1>1, RetainedIs, PTL
  <1>11. ASSUME NEW m \in Months, recorded'[m] > monthly'[m]
         PROVE  \E r \in raw' : Month(RetainedAt(r)') = m /\ recorded'[m] <= r.count
    <2>1. m \in Buckets /\ m # Unknown
      BY MonthFormed
    <2>2. CASE recorded'[m] = recorded[m]
      BY <1>3, <1>6, <1>11, <2>2 DEF UsageInv
    <2>3. CASE recorded'[m] # recorded[m]
      <3>1. PICK u \in found : u.bucket = m /\ recorded'[m] = u.count
        BY <1>5, <2>1, <2>3
      <3>2. PICK r \in raw' : r.bucket = m /\ r.count = u.count
        BY <1>7, <3>1
      <3>3. Month(RetainedAt(r)') = m
        BY <1>10, <2>1, <3>2 DEF Retained
      <3>4. r.count \in 1 .. MaxCount
        BY <1>2, <3>2
      <3> QED  BY <3>1, <3>2, <3>3, <3>4
    <2> QED  BY <2>2, <2>3
  <1>12. \E m \in Months : \/ recorded'[Unknown] <= monthly'[m]
                          \/ \E r \in raw' : Month(RetainedAt(r)') = m /\ recorded'[Unknown] <= r.count
    <2>1. CASE recorded'[Unknown] = recorded[Unknown]
      BY <1>3, <1>6, <2>1 DEF UsageInv
    <2>2. CASE recorded'[Unknown] # recorded[Unknown]
      <3>1. PICK u \in found : recorded'[Unknown] = u.count
        BY <1>5, <2>2, MonthFormed
      <3>2. PICK r \in raw' : r.count = u.count
        BY <1>7, <3>1
      <3>3. Month(RetainedAt(r)') \in Months /\ r.count \in 1 .. MaxCount
        BY <1>10, <3>2 DEF Retained
      <3> QED  BY <3>1, <3>2, <3>3
    <2> QED  BY <2>1, <2>2
  <1> QED  BY <1>8, <1>9, <1>11, <1>12 DEF UsageInv

(* purge_usage_before and its caller.                                      *)
LEMMA PurgeFormed ==
  ASSUME AllRows, NEW cutoff \in Time, Purge(cutoff)
  PROVE  /\ RowsFormed' /\ EvidenceKept'
         /\ \A m \in Months :
               /\ monthly[m] <= monthly'[m]
               /\ \A r \in Expired(cutoff) : Month(RetainedAt(r)) = m => r.count <= monthly'[m]
               /\ \/ monthly'[m] = monthly[m]
                  \/ \E r \in Expired(cutoff) : Month(RetainedAt(r)) = m /\ monthly'[m] = r.count
  <1> USE DEF AllRows
  <1>1. Retained /\ MaxCount \in Nat /\ monthly \in [Months -> 0 .. MaxCount]
    BY RetainedIs, SnapshotsAssumption DEF RowsFormed
  <1>2. ASSUME NEW m \in Months
        PROVE  /\ monthly'[m] \in 0 .. MaxCount /\ monthly[m] <= monthly'[m]
               /\ \A r \in Expired(cutoff) : Month(RetainedAt(r)) = m => r.count <= monthly'[m]
               /\ \/ monthly'[m] = monthly[m]
                  \/ \E r \in Expired(cutoff) : Month(RetainedAt(r)) = m /\ monthly'[m] = r.count
    <2> DEFINE counts == {r.count : r \in {x \in Expired(cutoff) : Month(RetainedAt(x)) = m}}
               S == {monthly[m]} \cup counts
    <2>1. \A r \in Expired(cutoff) : r.count \in 1 .. MaxCount
      BY <1>1 DEF Expired, Retained
    <2>2. S \subseteq 0 .. MaxCount /\ S # {}
      BY <1>1, <2>1
    <2>3. monthly'[m] = Largest(S)
      BY DEF Purge, Folded
    <2> HIDE DEF S
    <2>4. Largest(S) \in S /\ \A y \in S : y <= Largest(S)
      BY <1>1, <2>2, LargestIs
    <2> QED  BY <2>2, <2>3, <2>4 DEF S
  <1>3. monthly' \in [Months -> 0 .. MaxCount]
    <2>1. monthly' = [m \in Months |-> monthly'[m]]
      BY DEF Purge
    <2> QED  BY <1>2, <2>1
  <1>4. payloads' \in Seq(Payload) /\ Len(payloads') = Len(payloads)
    <2>1. ASSUME NEW i \in DOMAIN payloads PROVE PurgePayload(payloads[i], cutoff) \in Payload
      <3>1. payloads[i] \in Payload
        BY DEF RowsFormed
      <3>2. NextVersion(payloads[i]) \in Nat
        <4>1. payloads[i].version \in Nat \cup {-1} /\ now \in Nat
          BY <3>1, SnapshotsAssumption DEF Payload, NoTime, RowsFormed, Time
        <4> DEFINE S == {payloads[i].version + 1, now}
                   b == payloads[i].version + 1 + now
        <4>2. S \subseteq 0 .. b /\ S # {} /\ S \subseteq Nat /\ b \in Nat
          BY <4>1
        <4> HIDE DEF S, b
        <4>3. Largest(S) \in S
          BY <4>2, LargestIs
        <4> QED  BY <4>2, <4>3 DEF NextVersion, S
      <3>3. KeptUsage(payloads[i], cutoff) \subseteq payloads[i].usage
        BY DEF KeptUsage
      <3> QED  BY <3>1, <3>2, <3>3 DEF PurgePayload, Payload
    <2>2. /\ payloads' = [i \in DOMAIN payloads |-> PurgePayload(payloads[i], cutoff)]
          /\ payloads \in Seq(Payload)
      BY DEF Purge, RowsFormed
    <2> HIDE DEF Payload
    <2>3. DOMAIN payloads = 1 .. Len(payloads) /\ Len(payloads) \in Nat
      BY <2>2
    <2> QED  BY <2>1, <2>2, <2>3
  <1>5. raw' \subseteq raw /\ evidence' \subseteq evidence
    BY DEF Purge, KeptRaw
  <1>6. RowsFormed'
    BY <1>3, <1>4, <1>5 DEF Purge, RowsFormed
  <1>7. \A r \in raw' : EvidenceOf(r) \in evidence'
    BY EvidenceIs DEF Purge, KeptRaw
  <1>8. EvidenceKept'
    <2>1. Completed' = Completed
      BY DEF Purge, Completed
    <2>2. \A r \in raw' : \E e \in evidence' :
             e.scan = r.scan /\ e.bucket = r.bucket /\ e.last = r.at
      BY <1>5, <1>7, EvidenceIs
    <2> QED  BY <1>5, <2>1, <2>2 DEF EvidenceKept
  <1> QED  BY <1>2, <1>6, <1>8

LEMMA PurgeKeepsUsage ==
  ASSUME AllRows, NEW cutoff \in Time, Purge(cutoff)
  PROVE  UsageInv'
  <1> USE DEF AllRows
  <1>1. /\ RowsFormed' /\ EvidenceKept' /\ Retained /\ UNCHANGED recorded
        /\ recorded \in [Buckets -> 0 .. MaxCount] /\ monthly \in [Months -> 0 .. MaxCount]
        /\ monthly' \in [Months -> 0 .. MaxCount] /\ MaxCount \in Nat
    BY PurgeFormed, RetainedIs, SnapshotsAssumption DEF RowsFormed, Purge
  <1>2. raw' \subseteq raw
    BY DEF Purge, KeptRaw
  <1>3. ASSUME NEW r \in raw, r \notin Expired(cutoff)
        PROVE  r \in raw' /\ RetainedAt(r)' = RetainedAt(r)
    <2>1. EvidenceOf(r) \notin ForgottenEvidence(cutoff)
      <3>1. ~(OrElse(EvidenceOf(r).last, EvidenceOf(r).observed) < cutoff)
        BY <1>3, EvidenceIs DEF Expired, RetainedAt
      <3>2. ASSUME NEW x \in Expired(cutoff), EvidenceOf(x) = EvidenceOf(r) PROVE FALSE
        <4>1. x \in raw /\ RetainedAt(x) < cutoff
          BY DEF Expired
        <4>2. x.at = r.at
          BY <3>2, <4>1, EvidenceIs
        <4>3. RetainedAt(x) = RetainedAt(r)
          BY <3>2, <4>2 DEF RetainedAt
        <4> QED  BY <1>3, <4>1, <4>3 DEF Expired
      <3> QED  BY <3>1, <3>2 DEF ForgottenEvidence
    <2>2. r \in raw' /\ EvidenceOf(r) \in evidence'
      BY <2>1, EvidenceIs DEF Purge, KeptRaw
    <2> QED  BY <1>1, <2>2, EvidenceStays
  <1>4. \A r \in raw' : r.count <= recorded'[r.bucket]
    BY <1>1, <1>2 DEF UsageInv
  <1>5. ASSUME NEW m \in Months
        PROVE  monthly'[m] <= recorded'[m] \/ monthly'[m] <= recorded'[Unknown]
    <2>1. CASE monthly'[m] = monthly[m]
      BY <1>1, <2>1 DEF UsageInv
    <2>2. CASE \E r \in Expired(cutoff) : Month(RetainedAt(r)) = m /\ monthly'[m] = r.count
      <3>1. PICK r \in raw : Month(RetainedAt(r)) = m /\ monthly'[m] = r.count
        BY <2>2 DEF Expired
      <3>2. r.bucket = m \/ r.bucket = Unknown
        BY <1>1, <3>1 DEF Retained
      <3> QED  BY <1>1, <3>1, <3>2 DEF UsageInv
    <2> QED  BY <2>1, <2>2, PurgeFormed
  <1>6. ASSUME NEW m \in Months, NEW b \in Buckets, recorded[b] > monthly'[m], NEW r \in raw,
               Month(RetainedAt(r)) = m, recorded[b] <= r.count
        PROVE  r \in raw' /\ Month(RetainedAt(r)') = m
    <2>1. r.count \in 1 .. MaxCount
      BY <1>1 DEF Retained
    <2>2. r \notin Expired(cutoff)
      <3>1. r \in Expired(cutoff) => r.count <= monthly'[m]
        BY <1>6, PurgeFormed
      <3> QED  BY <1>1, <1>6, <2>1, <3>1
    <2> QED  BY <1>3, <1>6, <2>2
  <1>7. ASSUME NEW m \in Months, recorded'[m] > monthly'[m]
        PROVE  \E r \in raw' : Month(RetainedAt(r)') = m /\ recorded'[m] <= r.count
    <2>1. m \in Buckets /\ monthly[m] <= monthly'[m]
      BY MonthFormed, PurgeFormed
    <2>2. recorded[m] > monthly[m]
      BY <1>1, <1>7, <2>1
    <2>3. PICK r \in raw : Month(RetainedAt(r)) = m /\ recorded[m] <= r.count
      BY <2>2 DEF UsageInv
    <2> QED  BY <1>1, <1>6, <1>7, <2>1, <2>3
  <1>8. \E m \in Months : \/ recorded'[Unknown] <= monthly'[m]
                          \/ \E r \in raw' : Month(RetainedAt(r)') = m /\ recorded'[Unknown] <= r.count
    <2>1. PICK m \in Months : \/ recorded[Unknown] <= monthly[m]
                              \/ \E r \in raw : Month(RetainedAt(r)) = m /\ recorded[Unknown] <= r.count
      BY DEF UsageInv
    <2>2. Unknown \in Buckets /\ monthly[m] <= monthly'[m]
      BY MonthFormed, PurgeFormed
    <2>3. CASE recorded[Unknown] > monthly'[m]
      <3>1. PICK r \in raw : Month(RetainedAt(r)) = m /\ recorded[Unknown] <= r.count
        BY <1>1, <2>1, <2>2, <2>3
      <3> QED  BY <1>1, <1>6, <2>2, <2>3, <3>1
    <2>4. CASE ~(recorded[Unknown] > monthly'[m])
      BY <1>1, <2>2, <2>4
    <2> QED  BY <2>3, <2>4
  <1> QED  BY <1>4, <1>5, <1>7, <1>8 DEF UsageInv

-----------------------------------------------------------------------------
(* Reports.                                                                *)
LEMMA ScansFormed ==
  ASSUME AllRows
  PROVE  /\ Len(scans) \in Nat /\ DOMAIN scans = 1 .. Len(scans) /\ DOMAIN payloads = DOMAIN scans
         /\ \A i \in DOMAIN scans : scans[i] \in ScanRow /\ payloads[i] \in Payload
         /\ Completed \subseteq 1 .. Len(scans)
         /\ Time \subseteq Nat /\ now \in Nat
         /\ steady => /\ reports \in Seq(Report) /\ Len(reports) \in Nat
                      /\ DOMAIN reports = 1 .. Len(reports)
                      /\ \A r \in DOMAIN reports : reports[r] \in Report
  <1>1. /\ scans \in Seq(ScanRow) /\ payloads \in Seq(Payload) /\ Len(payloads) = Len(scans)
        /\ steady => reports \in Seq(Report)
    BY DEF AllRows, RowsFormed, ReportInv
  <1>2. Time \subseteq Nat /\ now \in Nat
    BY SnapshotsAssumption DEF Time, AllRows, RowsFormed
  <1> HIDE DEF ScanRow, Payload, Report
  <1> QED  BY <1>1, <1>2 DEF Completed

(* On a steady clock the latest Snapshot is the last completed row.        *)
LEMMA LatestIsLast ==
  ASSUME AllRows, steady, Completed # {}
  PROVE  LatestScan \in Completed /\ \A i \in Completed : i <= LatestScan
  <1>1. PICK z \in Completed : \A i \in Completed : i <= z
    <2>1. Completed \subseteq 0 .. Len(scans) /\ Len(scans) \in Nat
      BY ScansFormed
    <2> QED  BY <2>1, GreatestExists
  <1>2. /\ Completed \subseteq Nat
        /\ \A i, j \in Completed : i < j => ~Later(i, j) /\ Later(j, i)
    <2>1. Completed \subseteq DOMAIN scans /\ Completed \subseteq Nat
      BY ScansFormed
    <2> SUFFICES ASSUME NEW i \in Completed, NEW j \in Completed, i < j
                 PROVE  ~Later(i, j) /\ Later(j, i)
      BY <2>1
    <2>2. scans[i] \in ScanRow /\ scans[j] \in ScanRow
      BY ScansFormed, <2>1
    <2>3. /\ scans[i].completed \in Int /\ scans[j].completed \in Int
          /\ scans[i].started \in Int /\ scans[j].started \in Int
      BY <2>2, ScansFormed DEF ScanRow, NoTime
    <2>4. scans[i].started <= scans[j].started /\ scans[i].completed <= scans[j].completed
      BY <2>1 DEF AllRows, ReportInv
    <2> QED  BY <2>1, <2>3, <2>4 DEF Later
  <1>3. \A j \in Completed \ {z} : ~Later(j, z)
    BY <1>1, <1>2
  <1>4. \A i \in Completed : i # z => Later(z, i)
    BY <1>1, <1>2
  <1>5. LatestScan = CHOOSE i \in Completed : \A j \in Completed \ {i} : ~Later(j, i)
    BY DEF LatestScan
  <1>6. LatestScan \in Completed /\ \A j \in Completed \ {LatestScan} : ~Later(j, LatestScan)
    BY <1>1, <1>3, <1>5
  <1>7. LatestScan = z
    BY <1>4, <1>6
  <1> QED  BY <1>1, <1>7

(* The latest live report is the last of those that are live.              *)
LEMMA LatestReportIsLast ==
  ASSUME AllRows, steady, NEW q \in DOMAIN reports, Fresh(q)
  PROVE  /\ LatestReport \in DOMAIN reports /\ Fresh(LatestReport)
         /\ q <= LatestReport
  <1> DEFINE live == {r \in DOMAIN reports : Fresh(r)}
             newer(x, y) == \/ reports[x].created > reports[y].created
                            \/ reports[x].created = reports[y].created /\ x > y
  <1>1. live \subseteq 0 .. Len(reports) /\ live # {} /\ Len(reports) \in Nat
    BY ScansFormed
  <1>2. PICK z \in live : \A r \in live : r <= z
    <2> HIDE DEF live
    <2> QED  BY <1>1, GreatestExists
  <1>3. \A r \in live \ {z} : newer(z, r) /\ ~newer(r, z)
    <2> SUFFICES ASSUME NEW r \in live \ {z} PROVE newer(z, r) /\ ~newer(r, z)
      OBVIOUS
    <2>1. r \in DOMAIN reports /\ z \in DOMAIN reports /\ r < z
      BY <1>1, <1>2
    <2>2. reports[r].created <= reports[z].created
      BY <2>1 DEF AllRows, ReportInv
    <2>3. reports[r].created \in Nat /\ reports[z].created \in Nat
      BY <2>1, ScansFormed DEF Report
    <2> QED  BY <1>1, <2>1, <2>2, <2>3
  <1>4. LatestReport = CHOOSE r \in live : \A x \in live \ {r} : newer(r, x)
    BY <1>1 DEF LatestReport
  <1> HIDE DEF live, newer
  <1>5. LatestReport \in live /\ \A x \in live \ {LatestReport} : newer(LatestReport, x)
    BY <1>2, <1>3, <1>4
  <1>6. LatestReport = z
    BY <1>2, <1>3, <1>5
  <1> QED  BY <1>2, <1>6 DEF live

LEMMA ReadyFromRows == AllRows => ReadyReport
  <1> SUFFICES ASSUME AllRows, steady, Ready
               PROVE  /\ LatestReport # 0
                      /\ reports[LatestReport].scan = LatestScan
                      /\ reports[LatestReport].usage = payloads[LatestScan].usage
    BY DEF ReadyReport
  <1>1. PICK q \in DOMAIN reports : reports[q].scan = LatestScan /\ Fresh(q)
    BY DEF Ready, ReportExistsFor
  <1>2. Completed # {} /\ LatestScan \in Completed /\ \A i \in Completed : i <= LatestScan
    BY LatestIsLast DEF Ready, LatestScan
  <1>3. LatestReport \in DOMAIN reports /\ Fresh(LatestReport) /\ q <= LatestReport
    BY <1>1, LatestReportIsLast
  <1>4. reports[q].scan <= reports[LatestReport].scan /\ reports[LatestReport].scan \in Completed
    <2>1. q < LatestReport \/ q = LatestReport
      BY <1>3, ScansFormed
    <2> QED  BY <1>1, <1>2, <1>3, <2>1, ScansFormed DEF AllRows, ReportInv
  <1>5. reports[LatestReport].scan = LatestScan
    BY <1>1, <1>2, <1>4, ScansFormed
  <1>6. reports[LatestReport].usage = payloads[LatestScan].usage
    BY <1>3, <1>5 DEF AllRows, ReportInv, Fresh
  <1> QED  BY <1>3, <1>5, <1>6, ScansFormed

(* Rows of Scans change, and neither Reports nor payloads they are of.     *)
LEMMA ScanRowKeeps ==
  ASSUME AllRows, steady' => steady, now <= now', now' \in Nat, UNCHANGED reports,
         Completed \subseteq Completed',
         \A i \in Completed : payloads'[i] = payloads[i],
         DOMAIN scans \subseteq DOMAIN scans', DOMAIN scans' \subseteq Nat,
         \A i \in DOMAIN scans : scans'[i].started = scans[i].started,
         \A i \in Completed : scans'[i].completed = scans[i].completed,
         \A i \in DOMAIN scans' \ DOMAIN scans :
             scans'[i].started = now' /\ \A j \in DOMAIN scans : j < i,
         \A i, j \in DOMAIN scans' \ DOMAIN scans : i = j,
         \A i \in Completed' \ Completed :
             scans'[i].completed = now' /\ \A j \in Completed' : j <= i,
         Completed' \subseteq DOMAIN scans'
  PROVE  ReportInv'
  <1> SUFFICES ASSUME steady' PROVE ReportInv'
    BY DEF ReportInv
  <1>1. /\ steady /\ ReportInv /\ reports \in Seq(Report) /\ now \in Nat
        /\ Completed \subseteq DOMAIN scans /\ DOMAIN scans \subseteq Nat /\ Time \subseteq Nat
        /\ \A r \in DOMAIN reports : reports[r] \in Report
        /\ \A i \in DOMAIN scans : scans[i] \in ScanRow
    BY ScansFormed DEF AllRows
  <1>2. \A i \in DOMAIN scans : scans[i].started \in Nat /\ scans[i].completed \in Int
    <2>1. Time \cup {NoTime} \subseteq Int
      BY <1>1 DEF NoTime
    <2>2. \A row \in ScanRow : row.started \in Time /\ row.completed \in Time \cup {NoTime}
      BY DEF ScanRow
    <2> QED  BY <1>1, <2>1, <2>2
  <1>3. \A r \in DOMAIN reports : reports[r].created \in Nat
    BY <1>1 DEF Report
  <1>4. \A r \in DOMAIN reports :
          /\ reports[r].scan \in Completed' /\ reports[r].created <= now'
          /\ reports[r].version <= payloads'[reports[r].scan].version
          /\ Fresh(r)' => reports[r].usage = payloads'[reports[r].scan].usage
    BY <1>1, <1>3 DEF ReportInv, Fresh
  <1>5. \A i \in DOMAIN scans' : scans'[i].started <= now' /\ scans'[i].started \in Nat
    BY <1>1, <1>2 DEF ReportInv
  <1>6. \A i, j \in DOMAIN scans' : i < j => scans'[i].started <= scans'[j].started
    <2> SUFFICES ASSUME NEW i \in DOMAIN scans', NEW j \in DOMAIN scans', i < j
                 PROVE  scans'[i].started <= scans'[j].started
      OBVIOUS
    <2>1. CASE j \notin DOMAIN scans
      BY <1>5, <2>1
    <2>2. CASE j \in DOMAIN scans
      <3>1. i \in DOMAIN scans
        BY <2>2
      <3> QED  BY <1>1, <2>2, <3>1 DEF ReportInv
    <2> QED  BY <2>1, <2>2
  <1>7. \A i \in Completed' : scans'[i].completed <= now' /\ scans'[i].completed \in Int
    BY <1>1, <1>2 DEF ReportInv
  <1>8. \A i, j \in Completed' : i < j => scans'[i].completed <= scans'[j].completed
    <2> SUFFICES ASSUME NEW i \in Completed', NEW j \in Completed', i < j
                 PROVE  scans'[i].completed <= scans'[j].completed
      OBVIOUS
    <2>1. CASE j \notin Completed
      BY <1>7, <2>1
    <2>2. CASE j \in Completed
      <3>1. i \in Completed
        BY <2>2
      <3> QED  BY <1>1, <2>2, <3>1 DEF ReportInv
    <2> QED  BY <2>1, <2>2
  <1>9. \A q, r \in DOMAIN reports : q < r =>
          reports[q].created <= reports[r].created /\ reports[q].scan <= reports[r].scan
    BY <1>1 DEF ReportInv
  <1> QED  BY <1>1, <1>4, <1>5, <1>6, <1>7, <1>8, <1>9 DEF ReportInv

LEMMA QuietUsage ==
  ASSUME UsageInv, UNCHANGED <<evidence, raw, monthly, recorded>>
  PROVE  UsageInv'
  BY DEF UsageInv, RetainedAt, EvidenceOf

LEMMA ClockKeeps == AllRows /\ (Tick \/ SetClockBack \/ ScanDies) => AllRows'
  <1> SUFFICES ASSUME AllRows, Tick \/ SetClockBack \/ ScanDies PROVE AllRows'
    OBVIOUS
  <1>1. UNCHANGED <<scans, payloads, evidence, raw, monthly, reports, recorded>> /\ Completed' = Completed
    BY DEF Tick, SetClockBack, ScanDies, tables, Completed
  <1>2. now' \in Time
    BY SnapshotsAssumption DEF Tick, SetClockBack, ScanDies, AllRows, RowsFormed, Time
  <1>3. scanning' => scanning
    BY DEF Tick, SetClockBack, ScanDies
  <1>4. RowsFormed' /\ EvidenceKept'
    BY <1>1, <1>2, <1>3 DEF AllRows, RowsFormed, EvidenceKept
  <1>5. CASE ~steady'
    BY <1>1, <1>4, <1>5, QuietUsage DEF AllRows, ReportInv
  <1>6. CASE steady'
    <2>1. steady /\ now <= now' /\ now' \in Nat
      <3>1. now \in Nat
        BY ScansFormed
      <3>2. (Tick \/ ScanDies) /\ steady
        BY <1>6 DEF Tick, SetClockBack, ScanDies
      <3>3. now' = now + 1 \/ now' = now
        BY <3>2 DEF Tick, ScanDies
      <3> QED  BY <3>1, <3>2, <3>3
    <2>2. ReportInv'
      BY <1>1, <2>1, ScansFormed, ScanRowKeeps
    <2> QED  BY <1>1, <1>4, <2>2, QuietUsage DEF AllRows
  <1> QED  BY <1>5, <1>6

LEMMA BeginKeeps == AllRows /\ BeginScan => AllRows'
  <1> SUFFICES ASSUME AllRows, BeginScan PROVE AllRows'
    OBVIOUS
  <1> DEFINE row == [started |-> now, completed |-> NoTime, status |-> "running"]
             empty == [usage |-> {}, version |-> NoTime]
             n == Len(scans) + 1
  <1>1. row \in ScanRow /\ empty \in Payload /\ row.started = now /\ row.status = "running"
    BY DEF AllRows, RowsFormed, ScanRow, Payload
  <1>2. /\ scans \in Seq(ScanRow) /\ payloads \in Seq(Payload) /\ Len(payloads) = Len(scans)
        /\ scans' = Append(scans, row) /\ payloads' = Append(payloads, empty)
    BY DEF AllRows, RowsFormed, BeginScan
  <1> HIDE DEF row, empty, ScanRow, Payload
  <1>3. /\ scans' \in Seq(ScanRow) /\ payloads' \in Seq(Payload) /\ Len(payloads') = Len(scans')
        /\ Len(scans') = n /\ n \in Nat /\ n > 0 /\ DOMAIN scans = 1 .. n - 1 /\ DOMAIN scans' = 1 .. n
        /\ scans'[n] = row /\ \A i \in 1 .. n - 1 : scans'[i] = scans[i] /\ payloads'[i] = payloads[i]
    BY <1>1, <1>2
  <1>4. Completed' = Completed /\ Completed \subseteq 1 .. n - 1
    BY <1>1, <1>3 DEF Completed
  <1>5. UNCHANGED <<now, steady, evidence, raw, monthly, reports, recorded>>
    BY DEF BeginScan
  <1>6. RowsFormed' /\ EvidenceKept'
    BY <1>1, <1>3, <1>4, <1>5 DEF AllRows, RowsFormed, EvidenceKept
  <1>7. ReportInv'
    BY <1>1, <1>3, <1>4, <1>5, ScansFormed, ScanRowKeeps
  <1> QED  BY <1>5, <1>6, <1>7, QuietUsage DEF AllRows

LEMMA FailKeeps == AllRows /\ ScanFails => AllRows'
  <1> SUFFICES ASSUME AllRows, ScanFails PROVE AllRows'
    OBVIOUS
  <1> DEFINE n == Len(scans)
  <1>1. /\ n \in DOMAIN scans /\ DOMAIN scans' = DOMAIN scans /\ scans' \in Seq(ScanRow)
        /\ Len(scans') = n /\ scans'[n].started = scans[n].started
        /\ \A i \in DOMAIN scans : i # n => scans'[i] = scans[i]
        /\ n \notin Completed /\ Completed' = Completed
    BY CompletedRow DEF ScanFails, AllRows
  <1>2. UNCHANGED <<now, steady, payloads, evidence, raw, monthly, reports, recorded>> /\ ~scanning'
    BY DEF ScanFails
  <1>3. RowsFormed' /\ EvidenceKept'
    BY <1>1, <1>2 DEF AllRows, RowsFormed, EvidenceKept
  <1>4. ReportInv'
    BY <1>1, <1>2, ScansFormed, ScanRowKeeps
  <1> QED  BY <1>2, <1>3, <1>4, QuietUsage DEF AllRows

LEMMA CompleteKeeps ==
  ASSUME AllRows, NEW found \in Observable, CompleteScan(found)
  PROVE  AllRows'
  <1> DEFINE n == Len(scans)
  <1>1. /\ n \in DOMAIN scans /\ DOMAIN scans' = DOMAIN scans
        /\ scans'[n].started = scans[n].started /\ scans'[n].completed = now
        /\ \A i \in DOMAIN scans : i # n => scans'[i] = scans[i]
        /\ n \notin Completed /\ Completed' = Completed \cup {n}
    BY CompletedRow DEF CompleteScan, AllRows
  <1>2. UNCHANGED <<now, steady, reports>> /\ \A i \in Completed : payloads'[i] = payloads[i]
    BY <1>1, ScansFormed DEF CompleteScan
  <1>3. \A j \in Completed' : j <= n
    BY <1>1, ScansFormed
  <1>4. ReportInv'
    BY <1>1, <1>2, <1>3, ScansFormed, ScanRowKeeps
  <1> QED  BY <1>4, CompleteFormed, CompleteKeepsUsage DEF AllRows

(* report_command.                                                         *)
LEMMA BuildKeeps == AllRows /\ BuildReport => AllRows'
  <1> SUFFICES ASSUME AllRows, BuildReport PROVE AllRows'
    OBVIOUS
  <1>1. UNCHANGED <<now, steady, scanning, scans, payloads, evidence, raw, monthly, recorded>>
        /\ Completed' = Completed
    BY DEF BuildReport, Completed
  <1>2. RowsFormed' /\ EvidenceKept'
    BY <1>1 DEF AllRows, RowsFormed, EvidenceKept
  <1>3. ReportInv'
    <2> SUFFICES ASSUME steady' PROVE ReportInv'
      BY DEF ReportInv
    <2> DEFINE new == [scan |-> LatestScan, created |-> now, version |-> payloads[LatestScan].version,
                       usage |-> payloads[LatestScan].usage]
               n == Len(reports) + 1
    <2>1. steady /\ reports \in Seq(Report) /\ Len(reports) \in Nat /\ DOMAIN reports = 1 .. Len(reports)
          /\ now \in Nat
      BY <1>1, ScansFormed
    <2>2. LatestScan \in Completed /\ \A i \in Completed : i <= LatestScan
      BY <2>1, LatestIsLast DEF BuildReport, LatestScan
    <2>3. payloads[LatestScan] \in Payload /\ LatestScan \in Nat
      BY <2>2, ScansFormed
    <2>4. /\ new \in Report /\ new.scan = LatestScan /\ new.created = now
          /\ new.version = payloads[LatestScan].version /\ new.usage = payloads[LatestScan].usage
          /\ new.version <= payloads[LatestScan].version
      <3>1. /\ payloads[LatestScan].version \in Nat \cup {NoTime}
            /\ payloads[LatestScan].usage \in SUBSET Summary
            /\ now \in Time
        BY <2>3 DEF Payload, AllRows, RowsFormed
      <3>2. payloads[LatestScan].version \in Int
        BY <3>1 DEF NoTime
      <3> QED  BY <2>3, <3>1, <3>2 DEF Report
    <2>5. reports' = Append(reports, new)
      BY DEF BuildReport
    <2> HIDE DEF new, Report
    <2>6. /\ reports' \in Seq(Report) /\ DOMAIN reports' = 1 .. n /\ n \in Nat
          /\ reports'[n] = new /\ \A r \in 1 .. n - 1 : reports'[r] = reports[r] /\ r \in DOMAIN reports
      BY <2>1, <2>4, <2>5
    <2>7. \A r \in DOMAIN reports : reports[r].created <= now /\ reports[r].scan \in Completed
      BY <2>1 DEF AllRows, ReportInv
    <2>8. ASSUME NEW r \in DOMAIN reports'
          PROVE  /\ reports'[r].scan \in Completed /\ reports'[r].created <= now
                 /\ reports'[r].version <= payloads[reports'[r].scan].version
                 /\ reports'[r].version = payloads[reports'[r].scan].version
                      => reports'[r].usage = payloads[reports'[r].scan].usage
      <3>1. CASE r = n
        BY <2>1, <2>2, <2>4, <2>6, <3>1
      <3>2. CASE r # n
        <4>1. r \in DOMAIN reports /\ reports'[r] = reports[r]
          BY <2>6, <3>2
        <4> QED  BY <2>1, <4>1 DEF AllRows, ReportInv, Fresh
      <3> QED  BY <3>1, <3>2
    <2>9. \A q, r \in DOMAIN reports' : q < r =>
             reports'[q].created <= reports'[r].created /\ reports'[q].scan <= reports'[r].scan
      <3> SUFFICES ASSUME NEW q \in DOMAIN reports', NEW r \in DOMAIN reports', q < r
                   PROVE  reports'[q].created <= reports'[r].created /\ reports'[q].scan <= reports'[r].scan
        OBVIOUS
      <3>1. q \in DOMAIN reports /\ reports'[q] = reports[q]
        BY <2>6
      <3>2. CASE r = n
        BY <2>2, <2>4, <2>6, <2>7, <3>1, <3>2
      <3>3. CASE r # n
        <4>1. r \in DOMAIN reports /\ reports'[r] = reports[r]
          BY <2>6, <3>3
        <4> QED  BY <2>1, <3>1, <4>1 DEF AllRows, ReportInv
      <3> QED  BY <3>2, <3>3
    <2> QED  BY <1>1, <2>1, <2>6, <2>8, <2>9 DEF AllRows, ReportInv, Fresh
  <1> QED  BY <1>1, <1>2, <1>3, QuietUsage DEF AllRows

LEMMA PurgeKeeps ==
  ASSUME AllRows, NEW cutoff \in Time, Purge(cutoff)
  PROVE  AllRows'
  <1>1. UNCHANGED <<now, steady, scanning, scans, reports, recorded>> /\ Completed' = Completed
    BY DEF Purge, Completed
  <1>2. ASSUME NEW s \in DOMAIN payloads
        PROVE  /\ payloads[s].version \in Int /\ payloads'[s].version \in Int
               /\ payloads[s].version <= payloads'[s].version
               /\ payloads'[s].version = payloads[s].version => payloads'[s] = payloads[s]
    <2> DEFINE p == payloads[s]
               S == {p.version + 1, now}
               b == p.version + 1 + now
    <2>1. p.version \in Nat \cup {-1} /\ now \in Nat
      BY ScansFormed DEF Payload, NoTime
    <2>2. S \subseteq 0 .. b /\ S # {} /\ S \subseteq Nat /\ b \in Nat /\ p.version + 1 \in S
      BY <2>1
    <2>3. payloads'[s] = PurgePayload(p, cutoff)
      BY DEF Purge
    <2> HIDE DEF S, b
    <2>4. Largest(S) \in S /\ p.version + 1 <= Largest(S)
      BY <2>2, LargestIs
    <2>5. NextVersion(p) \in Nat /\ p.version + 1 <= NextVersion(p)
      BY <2>2, <2>4 DEF NextVersion, S
    <2> QED  BY <2>1, <2>3, <2>5 DEF PurgePayload
  <1>3. ReportInv'
    <2> SUFFICES ASSUME steady' PROVE ReportInv'
      BY DEF ReportInv
    <2>1. steady /\ Completed \subseteq DOMAIN payloads /\ \A r \in DOMAIN reports : reports[r] \in Report
      BY <1>1, ScansFormed
    <2>2. ASSUME NEW r \in DOMAIN reports
          PROVE  /\ reports[r].version <= payloads'[reports[r].scan].version
                 /\ reports[r].version = payloads'[reports[r].scan].version
                      => reports[r].usage = payloads'[reports[r].scan].usage
      <3>1. /\ reports[r].scan \in DOMAIN payloads /\ reports[r].version \in Int
            /\ reports[r].version <= payloads[reports[r].scan].version
            /\ reports[r].version = payloads[reports[r].scan].version
                 => reports[r].usage = payloads[reports[r].scan].usage
        BY <2>1 DEF AllRows, ReportInv, Fresh, Report, NoTime
      <3> QED  BY <1>2, <3>1
    <2> QED  BY <1>1, <2>1, <2>2 DEF AllRows, ReportInv, Fresh
  <1> QED  BY <1>3, PurgeFormed, PurgeKeepsUsage DEF AllRows

LEMMA StepKeeps == AllRows /\ [SnapNext]_snapVars => AllRows'
  <1> SUFFICES ASSUME AllRows, [SnapNext]_snapVars PROVE AllRows'
    OBVIOUS
  <1>1. CASE UNCHANGED snapVars
    BY <1>1, QuietUsage DEF snapVars, tables, AllRows, RowsFormed, EvidenceKept, ReportInv, Completed, Fresh
  <1>2. CASE SnapNext
    BY <1>2, ClockKeeps, BeginKeeps, FailKeeps, CompleteKeeps, BuildKeeps, PurgeKeeps DEF SnapNext
  <1> QED  BY <1>1, <1>2

(* The rows of Scans, evidence, usage and Reports agree as AllRows says, in*)
(* every order of Scans, failures, purges, Reports and clock steps.        *)
THEOREM RowsInvariant == SnapSpec => []AllRows
  BY InitAllRows, StepKeeps, PTL DEF SnapSpec

(* purge_usage_before and save_usage_event: in whatever order Scans, purges*)
(* and rotations of a session file come, the largest count ever recorded   *)
(* for a month is kept, and never more.                                    *)
THEOREM UsageIsRetained == SnapSpec => []UsageRetained
  <1>1. AllRows => UsageRetained
    <2> SUFFICES ASSUME AllRows PROVE UsageRetained
      OBVIOUS
    <2>1. /\ Retained /\ MaxCount \in Nat /\ monthly \in [Months -> 0 .. MaxCount]
          /\ recorded \in [Buckets -> 0 .. MaxCount]
      BY RetainedIs, SnapshotsAssumption DEF AllRows, RowsFormed
    <2>2. ASSUME NEW m \in Months
          PROVE  /\ Kept(m) \in 0 .. MaxCount /\ monthly[m] <= Kept(m)
                 /\ \A r \in raw : Month(RetainedAt(r)) = m => r.count <= Kept(m)
                 /\ \/ Kept(m) = monthly[m]
                    \/ \E r \in raw : Month(RetainedAt(r)) = m /\ Kept(m) = r.count
      <3> DEFINE S == {monthly[m]} \union {r.count : r \in {x \in raw : Month(RetainedAt(x)) = m}}
      <3>1. S \subseteq 0 .. MaxCount /\ S # {}
        BY <2>1 DEF Retained
      <3>2. Kept(m) = Largest(S)
        BY DEF Kept
      <3> HIDE DEF S
      <3>3. Largest(S) \in S /\ \A y \in S : y <= Largest(S)
        BY <2>1, <3>1, LargestIs
      <3> QED  BY <3>1, <3>2, <3>3 DEF S
    <2>3. ASSUME NEW m \in Months
          PROVE  /\ recorded[m] <= Largest({recorded[m], recorded[Unknown]})
                 /\ recorded[Unknown] <= Largest({recorded[m], recorded[Unknown]})
                 /\ Largest({recorded[m], recorded[Unknown]}) \in 0 .. MaxCount
      <3> DEFINE S == {recorded[m], recorded[Unknown]}
      <3>1. S \subseteq 0 .. MaxCount /\ S # {}
        BY <2>1, MonthFormed
      <3> HIDE DEF S
      <3>2. Largest(S) \in S /\ \A y \in S : y <= Largest(S)
        BY <2>1, <3>1, LargestIs
      <3> QED  BY <3>1, <3>2 DEF S
    <2>4. ASSUME NEW m \in Months
          PROVE  recorded[m] <= Kept(m) /\ Kept(m) <= Largest({recorded[m], recorded[Unknown]})
      <3>1. m \in Buckets /\ Unknown \in Buckets
        BY MonthFormed
      <3>2. recorded[m] <= Kept(m)
        <4>1. CASE recorded[m] > monthly[m]
          <5>1. PICK r \in raw : Month(RetainedAt(r)) = m /\ recorded[m] <= r.count
            BY <4>1 DEF AllRows, UsageInv
          <5>2. r.count \in 1 .. MaxCount
            BY <2>1 DEF Retained
          <5> QED  BY <2>1, <2>2, <3>1, <5>1, <5>2
        <4>2. CASE ~(recorded[m] > monthly[m])
          BY <2>1, <2>2, <3>1, <4>2
        <4> QED  BY <4>1, <4>2
      <3>3. Kept(m) <= recorded[m] \/ Kept(m) <= recorded[Unknown]
        <4>1. CASE Kept(m) = monthly[m]
          BY <4>1 DEF AllRows, UsageInv
        <4>2. CASE \E r \in raw : Month(RetainedAt(r)) = m /\ Kept(m) = r.count
          <5>1. PICK r \in raw : Month(RetainedAt(r)) = m /\ Kept(m) = r.count
            BY <4>2
          <5>2. r.bucket = m \/ r.bucket = Unknown
            BY <2>1, <5>1 DEF Retained
          <5> QED  BY <5>1, <5>2 DEF AllRows, UsageInv
        <4> QED  BY <2>2, <4>1, <4>2
      <3> QED  BY <2>1, <2>2, <2>3, <3>1, <3>2, <3>3
    <2>5. \E m \in Months : recorded[Unknown] <= Kept(m)
      <3>1. PICK m \in Months : \/ recorded[Unknown] <= monthly[m]
                                \/ \E r \in raw : Month(RetainedAt(r)) = m /\ recorded[Unknown] <= r.count
        BY DEF AllRows, UsageInv
      <3>2. \A r \in raw : r.count \in 1 .. MaxCount
        BY <2>1 DEF Retained
      <3> QED  BY <2>1, <2>2, <3>1, <3>2, MonthFormed
    <2> QED  BY <2>4, <2>5 DEF UsageRetained
  <1> QED  BY RowsInvariant, <1>1, PTL

(* readiness_decision and report_command: on a steady clock, a Snapshot    *)
(* that is ready has the Report that is returned, made of its payload.     *)
THEOREM ReadyHasReport == SnapSpec => []ReadyReport
  BY RowsInvariant, ReadyFromRows, PTL

-----------------------------------------------------------------------------
(***************************************************************************)
(* Proofs about SessionEvidence, for any Agents, session files and limits, *)
(* and however much the Agents write, move and remove meanwhile.  As long  *)
(* as nothing limits what is read of an Agent, every file that has stayed  *)
(* where it was is listed with its directory, then waits to be read, and   *)
(* is read in full.                                                        *)
(***************************************************************************)
AllClients == ToSet(Clients)
Codes == {"root_missing", "root_inaccessible", "depth_limit", "file_limit", "walk_failure", "sampled_file_limit",
          "byte_limit", "line_limit", "file_failure", "file_byte_limit", "file_parse_failure"}
CoverageRow == [limitations : SUBSET Codes, skipped : BOOLEAN, partial : BOOLEAN, present : BOOLEAN]

(* Nothing has limited what is read of an Agent.                           *)
Unlimited(c) == c.limitations = {} /\ ~c.skipped /\ ~c.partial

(* The files the Scan owes a reading, and those it has read.               *)
ToRead(a) == {f \in SessionFiles(a) : before[a].files[f].form # "link" /\ <<a, f>> \notin moved}
WasRead(a, f) ==
    \A i \in DOMAIN before[a].files[f].records : Attributed(before[a].files[f].records[i]) \subseteq usage

(* The Agents the Scan is done with.                                       *)
IsDone(i) == agent = 0 \/ i < agent

EvidenceFormed ==
    /\ coverage \in [AllClients -> CoverageRow]
    /\ agent \in 0 .. Len(Clients) /\ stage \in {"list", "read"}
    /\ queue \in Seq(ToSet(queue))

(* A file that has not moved has lost nothing since the Scan began.        *)
FilesStay ==
    /\ DOMAIN before = AllClients /\ DOMAIN sessions = AllClients
    /\ \A a \in AllClients :
          /\ FormedRoot(before[a]) /\ FormedRoot(sessions[a])
          /\ sessions[a].root = before[a].root /\ sessions[a].folders = before[a].folders
          /\ \A f \in DOMAIN before[a].files : <<a, f>> \notin moved =>
                /\ f \in DOMAIN sessions[a].files
                /\ sessions[a].files[f].form = before[a].files[f].form
                /\ sessions[a].files[f].folder = before[a].files[f].folder
                /\ \A i \in DOMAIN before[a].files[f].records :
                      /\ i \in DOMAIN sessions[a].files[f].records
                      /\ sessions[a].files[f].records[i] = before[a].files[f].records[i]

DoneIsRead ==
    \A i \in DOMAIN Clients : IsDone(i) /\ Unlimited(coverage[Clients[i]]) =>
        \A f \in ToRead(Clients[i]) : WasRead(Clients[i], f)
ListedIsQueued ==
    agent # 0 /\ stage = "list" /\ Unlimited(coverage[Client]) =>
        \A f \in ToRead(Client) : before[Client].files[f].folder \in listed => f \in ToSet(queue)
UnreadIsQueued ==
    agent # 0 /\ stage = "read" /\ Unlimited(coverage[Client]) =>
        \A f \in ToRead(Client) : f \in ToSet(queue) \/ WasRead(Client, f)

EvidenceInv == EvidenceFormed /\ FilesStay /\ DoneIsRead /\ ListedIsQueued /\ UnreadIsQueued

-----------------------------------------------------------------------------
(* Coverage rows.                                                          *)
LEMMA LimitedIs ==
  ASSUME NEW c \in CoverageRow, NEW code \in Codes
  PROVE  Limited(c, code) \in CoverageRow /\ ~Unlimited(Limited(c, code))
  <1>1. Limited(c, code) \in CoverageRow
    BY DEF Limited, CoverageRow
  <1>2. Limited(c, code).limitations = c.limitations \union {code}
    BY DEF Limited, CoverageRow
  <1> QED  BY <1>1, <1>2 DEF Unlimited

LEMMA LimitedIfIs ==
  ASSUME NEW c \in CoverageRow, NEW condition, NEW code \in Codes
  PROVE  /\ LimitedIf(c, condition, code) \in CoverageRow
         /\ Unlimited(LimitedIf(c, condition, code)) => Unlimited(c) /\ ~condition
  BY LimitedIs DEF LimitedIf

LEMMA PresentIs ==
  ASSUME NEW c \in CoverageRow
  PROVE  /\ [c EXCEPT !.present = TRUE] \in CoverageRow
         /\ Unlimited([c EXCEPT !.present = TRUE]) => Unlimited(c)
  <1> DEFINE d == [c EXCEPT !.present = TRUE]
  <1>1. d \in CoverageRow
    BY DEF CoverageRow
  <1>2. d.limitations = c.limitations /\ d.skipped = c.skipped /\ d.partial = c.partial
    BY DEF CoverageRow
  <1> HIDE DEF d
  <1>3. Unlimited(d) => Unlimited(c)
    BY <1>2 DEF Unlimited
  <1> QED  BY <1>1, <1>3 DEF d

LEMMA SkippedIs ==
  ASSUME NEW c \in CoverageRow
  PROVE  [c EXCEPT !.skipped = TRUE] \in CoverageRow /\ ~Unlimited([c EXCEPT !.skipped = TRUE])
  <1> DEFINE d == [c EXCEPT !.skipped = TRUE]
  <1>1. d \in CoverageRow
    BY DEF CoverageRow
  <1>2. d.skipped
    BY DEF CoverageRow
  <1> HIDE DEF d
  <1>3. ~Unlimited(d)
    BY <1>2 DEF Unlimited
  <1> QED  BY <1>1, <1>3 DEF d

LEMMA PartialIs ==
  ASSUME NEW c \in CoverageRow, NEW cut \in BOOLEAN, NEW failed \in BOOLEAN
  PROVE  /\ [c EXCEPT !.partial = @ \/ cut \/ failed] \in CoverageRow
         /\ Unlimited([c EXCEPT !.partial = @ \/ cut \/ failed]) => Unlimited(c) /\ ~cut /\ ~failed
  <1> DEFINE d == [c EXCEPT !.partial = @ \/ cut \/ failed]
  <1>1. d \in CoverageRow
    BY DEF CoverageRow
  <1>2. d.limitations = c.limitations /\ d.skipped = c.skipped
    BY DEF CoverageRow
  <1>3. d.partial <=> c.partial \/ cut \/ failed
    BY DEF CoverageRow
  <1> HIDE DEF d
  <1>4. Unlimited(d) => Unlimited(c) /\ ~cut /\ ~failed
    BY <1>2, <1>3 DEF Unlimited
  <1> QED  BY <1>1, <1>4 DEF d

-----------------------------------------------------------------------------
(* Finite sets in any order.                                               *)
LEMMA InSomeOrder ==
  ASSUME NEW S, IsFiniteSet(S)
  PROVE  SetToSeq(S) \in Seq(S) /\ ToSet(SetToSeq(S)) = S
  <1> DEFINE n == Cardinality(S)
  <1>1. n \in Nat /\ ExistsBijection(1 .. n, S)
    BY FS_CardinalityType
  <1>2. \E f \in [1 .. n -> S] : IsInjective(f)
    BY <1>1 DEF ExistsBijection, Bijection, Injection, IsInjective
  <1>3. SetToSeq(S) \in [1 .. n -> S] /\ IsInjective(SetToSeq(S))
    BY <1>2 DEF SetToSeq
  <1>4. SetToSeq(S) \in Injection(1 .. n, S)
    BY <1>3 DEF Injection, IsInjective
  <1>5. IsFiniteSet(1 .. n) /\ Cardinality(1 .. n) = n
    BY <1>1, FS_Interval
  <1>6. SetToSeq(S) \in Surjection(1 .. n, S)
    BY <1>4, <1>5, FS_Injection
  <1> QED  BY <1>1, <1>3, <1>6 DEF Surjection, ToSet

LEMMA EveryOrder ==
  ASSUME NEW S, IsFiniteSet(S), NEW order \in SetToSeqs(S)
  PROVE  order \in Seq(S) /\ ToSet(order) = S /\ Len(order) = Cardinality(S)
  <1> DEFINE n == Cardinality(S)
  <1>1. n \in Nat
    BY FS_CardinalityType
  <1>2. order \in [1 .. n -> S] /\ \A i, j \in 1 .. n : i # j => order[i] # order[j]
    BY DEF SetToSeqs
  <1>3. order \in Injection(1 .. n, S)
    BY <1>2 DEF Injection, IsInjective
  <1>4. IsFiniteSet(1 .. n) /\ Cardinality(1 .. n) = n
    BY <1>1, FS_Interval
  <1>5. order \in Surjection(1 .. n, S)
    BY <1>3, <1>4, FS_Injection
  <1> QED  BY <1>1, <1>2, <1>5 DEF Surjection, ToSet

LEMMA Joined ==
  ASSUME NEW s, s \in Seq(ToSet(s)), NEW S, NEW t \in Seq(S), ToSet(t) = S
  PROVE  ToSet(s \o t) = ToSet(s) \union S /\ s \o t \in Seq(ToSet(s \o t))
  <1> DEFINE r == s \o t
  <1>1. /\ r \in Seq(ToSet(s) \union S) /\ Len(r) = Len(s) + Len(t) /\ Len(s) \in Nat /\ Len(t) \in Nat
        /\ \A i \in 1 .. Len(s) : r[i] = s[i]
        /\ \A i \in 1 .. Len(t) : r[Len(s) + i] = t[i]
    OBVIOUS
  <1>2. DOMAIN s = 1 .. Len(s) /\ DOMAIN t = 1 .. Len(t) /\ DOMAIN r = 1 .. Len(r)
    BY <1>1
  <1> HIDE DEF r
  <1>3. ToSet(r) \subseteq ToSet(s) \union S
    BY <1>1, <1>2 DEF ToSet
  <1>4. ToSet(s) \subseteq ToSet(r)
    BY <1>1, <1>2 DEF ToSet
  <1>5. S \subseteq ToSet(r)
    <2> SUFFICES ASSUME NEW x \in S PROVE x \in ToSet(r)
      OBVIOUS
    <2>1. PICK i \in 1 .. Len(t) : t[i] = x
      BY <1>2 DEF ToSet
    <2>2. Len(s) + i \in 1 .. Len(r)
      BY <1>1
    <2> QED  BY <1>1, <1>2, <2>1, <2>2 DEF ToSet
  <1>6. r \in Seq(ToSet(r))
    BY <1>1, <1>3, <1>4, <1>5
  <1> QED  BY <1>3, <1>4, <1>5, <1>6 DEF r

LEMMA RestOf ==
  ASSUME NEW s, s \in Seq(ToSet(s)), s # <<>>
  PROVE  Tail(s) \in Seq(ToSet(Tail(s))) /\ \A x \in ToSet(s) : x = Head(s) \/ x \in ToSet(Tail(s))
  <1>1. /\ Tail(s) \in Seq(ToSet(s)) /\ Len(Tail(s)) = Len(s) - 1 /\ Len(s) \in Nat \ {0} /\ Head(s) = s[1]
        /\ \A i \in 1 .. Len(s) - 1 : Tail(s)[i] = s[i + 1]
    OBVIOUS
  <1>2. PICK r, n : r = Tail(s) /\ n = Len(s)
    OBVIOUS
  <1>3. /\ DOMAIN s = 1 .. n /\ DOMAIN r = 1 .. n - 1 /\ n \in Nat \ {0} /\ Len(r) = n - 1
        /\ \A i \in 1 .. n - 1 : r[i] = s[i + 1]
    BY <1>1, <1>2
  <1>4. r \in Seq(ToSet(r))
    <2>1. r \in Seq(ToSet(s))
      BY <1>1, <1>2
    <2>2. r = [i \in 1 .. n - 1 |-> r[i]]
      BY <1>3, <2>1
    <2>3. \A i \in 1 .. n - 1 : r[i] \in ToSet(r)
      BY <1>3 DEF ToSet
    <2>4. n - 1 \in Nat
      BY <1>3
    <2> QED  BY <2>2, <2>3, <2>4
  <1>5. ASSUME NEW x \in ToSet(s) PROVE x = s[1] \/ x \in ToSet(r)
    <2>1. PICK i \in 1 .. n : x = s[i]
      BY <1>3 DEF ToSet
    <2>2. CASE i # 1
      <3>1. i - 1 \in 1 .. n - 1 /\ r[i - 1] = s[(i - 1) + 1] /\ (i - 1) + 1 = i
        BY <1>3, <2>2
      <3> QED  BY <1>3, <2>1, <3>1 DEF ToSet
    <2> QED  BY <2>1, <2>2
  <1> QED  BY <1>1, <1>2, <1>4, <1>5

LEMMA Longer ==
  ASSUME NEW s, s \in Seq(ToSet(s)), NEW e
  PROVE  /\ Append(s, e) \in Seq(ToSet(Append(s, e)))
         /\ \A i \in DOMAIN s : i \in DOMAIN Append(s, e) /\ Append(s, e)[i] = s[i]
  <1> DEFINE r == Append(s, e)
             n == Len(s)
  <1>1. /\ r \in Seq(ToSet(s) \union {e}) /\ Len(r) = n + 1 /\ n \in Nat /\ r[n + 1] = e
        /\ \A i \in 1 .. n : r[i] = s[i]
    OBVIOUS
  <1>2. DOMAIN s = 1 .. n /\ DOMAIN r = 1 .. n + 1 /\ r = [i \in 1 .. n + 1 |-> r[i]] /\ n + 1 \in Nat
    <2>1. DOMAIN s = 1 .. n /\ n + 1 \in Nat
      OBVIOUS
    <2>2. PICK x, S : x = r /\ S = ToSet(s) \union {e}
      OBVIOUS
    <2>3. x \in Seq(S) /\ Len(x) = n + 1
      BY <1>1, <2>2
    <2>4. x = [i \in DOMAIN x |-> x[i]] /\ DOMAIN x = 1 .. Len(x)
      BY <2>3
    <2> HIDE DEF r, n
    <2> QED  BY <2>1, <2>2, <2>3, <2>4
  <1>3. n \in Nat /\ \A i \in 1 .. n : i \in 1 .. n + 1
    BY <1>1
  <1> HIDE DEF r, n
  <1>4. \A i \in 1 .. n + 1 : r[i] \in ToSet(r)
    BY <1>2 DEF ToSet
  <1>5. r \in Seq(ToSet(r))
    BY <1>2, <1>4
  <1> QED  BY <1>1, <1>2, <1>3, <1>5 DEF r

(* A sequence has at least as many places as members.                      *)
LEMMA MembersOf ==
  ASSUME NEW s, s \in Seq(ToSet(s))
  PROVE  IsFiniteSet(ToSet(s)) /\ Cardinality(ToSet(s)) <= Len(s)
  <1>1. s \in Surjection(1 .. Len(s), ToSet(s)) /\ Len(s) \in Nat
    BY DEF Surjection, ToSet
  <1>2. IsFiniteSet(1 .. Len(s)) /\ Cardinality(1 .. Len(s)) = Len(s)
    BY <1>1, FS_Interval
  <1> QED  BY <1>1, <1>2, FS_Surjection

-----------------------------------------------------------------------------
LEMMA InitEvidenceInv == EvidenceInit => EvidenceInv
  <1> SUFFICES ASSUME EvidenceInit PROVE EvidenceInv
    OBVIOUS
  <1>1. NoCoverage \in CoverageRow
    BY DEF NoCoverage, CoverageRow
  <1>2. EvidenceFormed
    BY <1>1, EvidenceAssumption DEF EvidenceInit, EvidenceFormed, AllClients, ToSet
  <1>3. FilesStay
    BY EvidenceAssumption DEF EvidenceInit, FilesStay, AllClients
  <1>4. DoneIsRead /\ ListedIsQueued /\ UnreadIsQueued
    BY EvidenceAssumption DEF EvidenceInit, DoneIsRead, IsDone, ListedIsQueued, UnreadIsQueued
  <1> QED  BY <1>2, <1>3, <1>4 DEF EvidenceInv

LEMMA ClientIs ==
  ASSUME EvidenceInv, agent # 0
  PROVE  /\ agent \in DOMAIN Clients /\ Client \in AllClients /\ coverage[Client] \in CoverageRow
         /\ FormedRoot(sessions[Client]) /\ FormedRoot(before[Client])
         /\ \A i \in DOMAIN Clients : i # agent => Clients[i] # Client
  <1>1. DOMAIN Clients = 1 .. Len(Clients) /\ Len(Clients) \in Nat /\ agent \in 1 .. Len(Clients)
    BY EvidenceAssumption DEF EvidenceInv, EvidenceFormed
  <1>2. Client \in AllClients
    BY <1>1 DEF Client, AllClients, ToSet
  <1> QED  BY <1>1, <1>2, EvidenceAssumption DEF Client, EvidenceInv, EvidenceFormed, FilesStay

(* What was read stays read, and no more becomes due.                      *)
LEMMA ReadStays ==
  ASSUME before' = before, usage \subseteq usage', moved \subseteq moved', NEW a
  PROVE  ToRead(a)' \subseteq ToRead(a) /\ \A f : WasRead(a, f) => WasRead(a, f)'
  BY DEF ToRead, SessionFiles, WasRead

LEMMA FilesStayStill ==
  ASSUME EvidenceInv, UNCHANGED <<sessions, before, moved>>
  PROVE  FilesStay'
  BY DEF EvidenceInv, FilesStay

LEMMA NextTurn ==
  ASSUME NEW n \in Nat, NEW k \in 1 .. n, NEW m, m = IF k = n THEN 0 ELSE k + 1
  PROVE  m \in 0 .. n /\ \A i \in 1 .. n : i # k /\ (m = 0 \/ i < m) => i < k
  <1>1. CASE k = n
    <2>1. m = 0
      BY <1>1
    <2> QED  BY <1>1, <2>1
  <1>2. CASE k # n
    <2>1. m = k + 1
      BY <1>2
    <2> QED  BY <1>2, <2>1
  <1> QED  BY <1>1, <1>2

(* A step that leaves an Agent owes it no file, or has been limited.       *)
LEMMA LeaveAgentKeeps ==
  ASSUME EvidenceInv, agent # 0, NextAgent, UNCHANGED <<sessions, before, moved, usage>>,
         NEW c \in CoverageRow, coverage' = [coverage EXCEPT ![Client] = c],
         Unlimited(c) => \A f \in ToRead(Client) : WasRead(Client, f)
  PROVE  EvidenceInv'
  <1>1. /\ DOMAIN Clients = 1 .. Len(Clients) /\ Len(Clients) \in Nat /\ agent \in 1 .. Len(Clients)
        /\ agent' = IF agent = Len(Clients) THEN 0 ELSE agent + 1
    BY EvidenceAssumption DEF EvidenceInv, EvidenceFormed, NextAgent
  <1>6. /\ agent' \in 0 .. Len(Clients)
        /\ \A i \in 1 .. Len(Clients) : i # agent /\ (agent' = 0 \/ i < agent') => i < agent
    <2>1. PICK n, k, m : n = Len(Clients) /\ k = agent /\ m = agent'
      OBVIOUS
    <2>2. n \in Nat /\ k \in 1 .. n /\ m = IF k = n THEN 0 ELSE k + 1
      BY <1>1, <2>1
    <2>3. m \in 0 .. n /\ \A i \in 1 .. n : i # k /\ (m = 0 \/ i < m) => i < k
      BY <2>2, NextTurn
    <2> QED  BY <2>1, <2>3
  <1>2. coverage' \in [AllClients -> CoverageRow] /\ coverage'[Client] = c
    BY ClientIs DEF EvidenceInv, EvidenceFormed
  <1>3. EvidenceFormed'
    <2>2. queue' \in Seq(ToSet(queue')) /\ stage' \in {"list", "read"}
      <3>1. queue' = <<>> /\ stage' = "list"
        BY DEF NextAgent
      <3> QED  BY <3>1
    <2> QED  BY <1>2, <1>6, <2>2 DEF EvidenceFormed
  <1>4. DoneIsRead'
    <2> SUFFICES ASSUME NEW i \in DOMAIN Clients, IsDone(i)', Unlimited(coverage[Clients[i]])',
                        NEW f \in ToRead(Clients[i])'
                 PROVE  WasRead(Clients[i], f)'
      BY DEF DoneIsRead
    <2>1. f \in ToRead(Clients[i]) /\ (WasRead(Clients[i], f) => WasRead(Clients[i], f)')
      BY ReadStays
    <2>2. CASE i = agent
      BY <1>2, <2>1, <2>2 DEF Client
    <2>3. CASE i # agent
      <3>1. IsDone(i)
        <4>1. i \in 1 .. Len(Clients) /\ i # agent /\ (agent' = 0 \/ i < agent')
          BY <1>1, <2>3 DEF IsDone
        <4>2. i < agent
          BY <1>6, <4>1
        <4> QED  BY <4>2 DEF IsDone
      <3>2. coverage'[Clients[i]] = coverage[Clients[i]]
        BY <2>3, ClientIs DEF EvidenceInv, EvidenceFormed, AllClients, ToSet
      <3> QED  BY <2>1, <3>1, <3>2 DEF EvidenceInv, DoneIsRead
    <2> QED  BY <2>2, <2>3
  <1>5. ListedIsQueued' /\ UnreadIsQueued'
    BY DEF NextAgent, ListedIsQueued, UnreadIsQueued
  <1> QED  BY <1>3, <1>4, <1>5, FilesStayStill DEF EvidenceInv

(* A step that stays with the Agent. *)
LEMMA SameAgentKeeps ==
  ASSUME EvidenceInv, agent # 0, UNCHANGED <<sessions, before, moved, agent>>, usage \subseteq usage',
         NEW c \in CoverageRow, coverage' = [coverage EXCEPT ![Client] = c],
         stage' \in {"list", "read"}, queue' \in Seq(ToSet(queue')),
         Unlimited(c) /\ stage' = "list" =>
             \A f \in ToRead(Client) : before[Client].files[f].folder \in listed' => f \in ToSet(queue'),
         Unlimited(c) /\ stage' = "read" =>
             \A f \in ToRead(Client) : f \in ToSet(queue') \/ WasRead(Client, f) \/ WasRead(Client, f)'
  PROVE  EvidenceInv'
  <1>1. coverage' \in [AllClients -> CoverageRow] /\ coverage'[Client] = c
    BY ClientIs DEF EvidenceInv, EvidenceFormed
  <1>2. EvidenceFormed'
    BY <1>1 DEF EvidenceInv, EvidenceFormed
  <1>3. \A a, f : /\ f \in ToRead(a)' => f \in ToRead(a)
                  /\ WasRead(a, f) => WasRead(a, f)'
    BY ReadStays
  <1>4. DoneIsRead'
    <2> SUFFICES ASSUME NEW i \in DOMAIN Clients, IsDone(i)', Unlimited(coverage[Clients[i]])',
                        NEW f \in ToRead(Clients[i])'
                 PROVE  WasRead(Clients[i], f)'
      BY DEF DoneIsRead
    <2>1. IsDone(i) /\ i # agent
      BY EvidenceAssumption DEF IsDone, EvidenceInv, EvidenceFormed
    <2>2. coverage'[Clients[i]] = coverage[Clients[i]]
      BY <2>1, ClientIs DEF EvidenceInv, EvidenceFormed, AllClients, ToSet
    <2> QED  BY <1>3, <2>1, <2>2 DEF EvidenceInv, DoneIsRead
  <1>5. Client' = Client
    BY DEF Client
  <1>6. ListedIsQueued'
    BY <1>1, <1>3, <1>5 DEF ListedIsQueued
  <1>7. UnreadIsQueued'
    BY <1>1, <1>3, <1>5 DEF UnreadIsQueued
  <1> QED  BY <1>2, <1>4, <1>6, <1>7, FilesStayStill DEF EvidenceInv

-----------------------------------------------------------------------------
LEMMA SkipRootKeeps == EvidenceInv /\ SkipRoot => EvidenceInv'
  <1> SUFFICES ASSUME EvidenceInv, SkipRoot PROVE EvidenceInv'
    OBVIOUS
  <1>1. PICK c : /\ c = Limited(coverage[Client],
                                IF SessionRoot.root = "missing" THEN "root_missing" ELSE "root_inaccessible")
                 /\ coverage' = [coverage EXCEPT ![Client] = c]
    BY DEF SkipRoot, Cover
  <1>2. c \in CoverageRow /\ ~Unlimited(c)
    BY <1>1, LimitedIs, ClientIs DEF SkipRoot, Codes
  <1> QED  BY <1>1, <1>2, LeaveAgentKeeps DEF SkipRoot

LEMMA WalkFailsKeeps == EvidenceInv /\ WalkFails => EvidenceInv'
  <1> SUFFICES ASSUME EvidenceInv, WalkFails PROVE EvidenceInv'
    OBVIOUS
  <1>1. PICK d : d = [coverage[Client] EXCEPT !.present = TRUE, !.skipped = TRUE]
    OBVIOUS
  <1>2. d \in CoverageRow
    BY <1>1, ClientIs DEF CoverageRow, WalkFails
  <1>3. PICK c : c = Limited(d, "walk_failure") /\ coverage' = [coverage EXCEPT ![Client] = c]
    BY <1>1 DEF WalkFails, Cover
  <1>4. c \in CoverageRow /\ ~Unlimited(c)
    BY <1>2, <1>3, LimitedIs DEF Codes
  <1> QED  BY <1>3, <1>4, LeaveAgentKeeps DEF WalkFails

LEMMA StopReadingKeeps == EvidenceInv /\ StopReading => EvidenceInv'
  <1> SUFFICES ASSUME EvidenceInv, StopReading PROVE EvidenceInv'
    OBVIOUS
  <1>1. PICK d, x, y : /\ d = [coverage[Client] EXCEPT !.skipped = TRUE]
                       /\ x = LimitedIf(d, bytes >= MaxAgentBytes, "byte_limit")
                       /\ y = LimitedIf(x, lines >= MaxAgentLines, "line_limit")
                       /\ coverage' = [coverage EXCEPT ![Client] = y]
    BY DEF StopReading, Cover
  <1>2. d \in CoverageRow /\ ~Unlimited(d)
    BY <1>1, ClientIs, SkippedIs DEF StopReading
  <1>3. x \in CoverageRow /\ ~Unlimited(x)
    BY <1>1, <1>2, LimitedIfIs DEF Codes
  <1>4. y \in CoverageRow /\ ~Unlimited(y)
    BY <1>1, <1>3, LimitedIfIs DEF Codes
  <1> QED  BY <1>1, <1>4, LeaveAgentKeeps DEF StopReading

LEMMA DoneWithAgentKeeps == EvidenceInv /\ DoneWithAgent => EvidenceInv'
  <1> SUFFICES ASSUME EvidenceInv, DoneWithAgent PROVE EvidenceInv'
    OBVIOUS
  <1>1. agent # 0 /\ stage = "read" /\ queue = <<>> /\ NextAgent
        /\ UNCHANGED <<sessions, before, moved, usage, coverage>>
    BY DEF DoneWithAgent
  <1>2. PICK c : c = coverage[Client]
    OBVIOUS
  <1>3. c \in CoverageRow /\ coverage' = [coverage EXCEPT ![Client] = c]
    BY <1>1, <1>2, ClientIs DEF EvidenceInv, EvidenceFormed
  <1>4. ToSet(queue) = {}
    BY <1>1 DEF ToSet
  <1>5. Unlimited(c) => \A f \in ToRead(Client) : WasRead(Client, f)
    BY <1>1, <1>2, <1>4 DEF EvidenceInv, UnreadIsQueued
  <1> QED  BY <1>1, <1>3, <1>5, LeaveAgentKeeps

LEMMA MissFileKeeps == EvidenceInv /\ MissFile => EvidenceInv'
  <1> SUFFICES ASSUME EvidenceInv, MissFile PROVE EvidenceInv'
    OBVIOUS
  <1>1. agent # 0 /\ stage = "read" /\ queue # <<>> /\ queue' = Tail(queue)
        /\ UNCHANGED <<sessions, before, moved, agent, usage, stage>>
    BY DEF MissFile, CanRead
  <1>2. PICK d, c : /\ d = [coverage[Client] EXCEPT !.skipped = TRUE]
                    /\ c = Limited(d, "file_failure")
                    /\ coverage' = [coverage EXCEPT ![Client] = c]
    BY DEF MissFile, Cover
  <1>3. d \in CoverageRow
    BY <1>1, <1>2, ClientIs, SkippedIs
  <1>4. c \in CoverageRow /\ ~Unlimited(c)
    BY <1>2, <1>3, LimitedIs DEF Codes
  <1>5. queue' \in Seq(ToSet(queue'))
    BY <1>1, RestOf DEF EvidenceInv, EvidenceFormed
  <1> QED  BY <1>1, <1>2, <1>4, <1>5, SameAgentKeeps

(* A directory whose files are all taken is listed in full.                *)
LEMMA ListFolderKeeps == EvidenceInv /\ ListFolder => EvidenceInv'
  <1> SUFFICES ASSUME EvidenceInv, ListFolder PROVE EvidenceInv'
    OBVIOUS
  <1>1. agent # 0 /\ stage = "list" /\ UNCHANGED <<sessions, before, moved, agent, stage, usage>>
    BY DEF ListFolder
  <1>2. PICK d \in SessionRoot.folders \ listed :
          LET found == {f \in InFolder(d) : Collectable(f)}
              room == MaxDiscovered + 1 - Len(queue)
          IN  \E taken \in SUBSET found :
                 /\ Cardinality(taken) = Min({Cardinality(found), room})
                 /\ listed' = listed \union {d}
                 /\ IF Folders[d] > MaxDepth
                    THEN /\ queue' = queue
                         /\ Cover(Limited([coverage[Client] EXCEPT !.present = TRUE], "depth_limit"))
                    ELSE /\ queue' = queue \o SetToSeq(taken)
                         /\ Cover(LimitedIf([coverage[Client] EXCEPT !.present = TRUE],
                                            taken # found \/ room = 0, "file_limit"))
    BY DEF ListFolder
  <1>3. PICK taken \in SUBSET {f \in InFolder(d) : Collectable(f)} :
           /\ listed' = listed \union {d}
           /\ IF Folders[d] > MaxDepth
              THEN /\ queue' = queue
                   /\ Cover(Limited([coverage[Client] EXCEPT !.present = TRUE], "depth_limit"))
              ELSE /\ queue' = queue \o SetToSeq(taken)
                   /\ Cover(LimitedIf([coverage[Client] EXCEPT !.present = TRUE],
                                      taken # {f \in InFolder(d) : Collectable(f)}
                                      \/ MaxDiscovered + 1 - Len(queue) = 0, "file_limit"))
    BY <1>2
  <1>4. PICK found, p, room : /\ found = {f \in InFolder(d) : Collectable(f)}
                              /\ p = [coverage[Client] EXCEPT !.present = TRUE]
                              /\ room = MaxDiscovered + 1 - Len(queue)
    OBVIOUS
  <1>5. /\ found = {f \in InFolder(d) : Collectable(f)} /\ taken \in SUBSET found
        /\ p = [coverage[Client] EXCEPT !.present = TRUE] /\ listed' = listed \union {d}
        /\ \/ queue' = queue /\ Cover(Limited(p, "depth_limit"))
           \/ queue' = queue \o SetToSeq(taken) /\ Cover(LimitedIf(p, taken # found \/ room = 0, "file_limit"))
    BY <1>3, <1>4
  <1>6. p \in CoverageRow /\ (Unlimited(p) => Unlimited(coverage[Client]))
    BY <1>1, <1>5, ClientIs, PresentIs
  <1>7. CASE queue' = queue /\ Cover(Limited(p, "depth_limit"))
    <2>1. PICK c : c = Limited(p, "depth_limit") /\ coverage' = [coverage EXCEPT ![Client] = c]
      BY <1>7 DEF Cover
    <2>2. c \in CoverageRow /\ ~Unlimited(c)
      BY <2>1, <1>6, LimitedIs DEF Codes
    <2>3. queue' \in Seq(ToSet(queue')) /\ stage' \in {"list", "read"}
      BY <1>1, <1>7 DEF EvidenceInv, EvidenceFormed
    <2> QED  BY <1>1, <2>1, <2>2, <2>3, SameAgentKeeps
  <1>8. CASE queue' = queue \o SetToSeq(taken) /\ Cover(LimitedIf(p, taken # found \/ room = 0, "file_limit"))
    <2>1. PICK c : /\ c = LimitedIf(p, taken # found \/ room = 0, "file_limit")
                   /\ coverage' = [coverage EXCEPT ![Client] = c]
      BY <1>8 DEF Cover
    <2>2. c \in CoverageRow /\ (Unlimited(c) => Unlimited(p) /\ taken = found)
      BY <2>1, <1>6, LimitedIfIs DEF Codes
    <2>3. IsFiniteSet(DOMAIN SessionRoot.files)
      BY <1>1, ClientIs DEF FormedRoot, SessionRoot
    <2>4. taken \subseteq DOMAIN SessionRoot.files
      BY <1>5 DEF InFolder
    <2>5. IsFiniteSet(taken)
      BY <2>3, <2>4, FS_Subset
    <2>6. SetToSeq(taken) \in Seq(taken) /\ ToSet(SetToSeq(taken)) = taken
      BY <2>5, InSomeOrder
    <2>7. ToSet(queue') = ToSet(queue) \union taken /\ queue' \in Seq(ToSet(queue'))
      BY <1>8, <2>6, Joined DEF EvidenceInv, EvidenceFormed
    <2>8. ASSUME Unlimited(c), NEW f \in ToRead(Client), before[Client].files[f].folder \in listed'
          PROVE  f \in ToSet(queue')
      <3>1. f \in DOMAIN before[Client].files /\ <<Client, f>> \notin moved /\ before[Client].files[f].form # "link"
        BY <2>8 DEF ToRead, SessionFiles
      <3>2. /\ f \in DOMAIN SessionRoot.files /\ SessionRoot.files[f].form = before[Client].files[f].form
            /\ SessionRoot.files[f].folder = before[Client].files[f].folder
        BY <1>1, <3>1, ClientIs DEF EvidenceInv, FilesStay, SessionRoot
      <3>3. CASE before[Client].files[f].folder \in listed
        BY <1>1, <1>6, <2>2, <2>7, <2>8, <3>3 DEF EvidenceInv, ListedIsQueued
      <3>4. CASE before[Client].files[f].folder = d
        BY <1>5, <2>2, <2>7, <2>8, <3>1, <3>2, <3>4 DEF InFolder, Collectable
      <3> QED  BY <1>5, <2>8, <3>3, <3>4
    <2> QED  BY <1>1, <2>1, <2>2, <2>7, <2>8, SameAgentKeeps
  <1> QED  BY <1>5, <1>7, <1>8

LEMMA LeastOf ==
  ASSUME NEW m \in Nat, NEW n \in Nat
  PROVE  Min({m, n}) \in {m, n} /\ Min({m, n}) <= m /\ Min({m, n}) <= n
  <1>1. \E x \in {m, n} : \A y \in {m, n} : x <= y
    OBVIOUS
  <1>2. Min({m, n}) \in {m, n} /\ \A y \in {m, n} : Min({m, n}) <= y
    BY <1>1 DEF Min
  <1> QED  BY <1>2

LEMMA StartOf ==
  ASSUME NEW S, NEW s \in Seq(S), NEW m \in 0 .. Len(s)
  PROVE  SubSeq(s, 1, m) \in Seq(ToSet(SubSeq(s, 1, m))) /\ (m = Len(s) => SubSeq(s, 1, m) = s)
  <1> DEFINE r == SubSeq(s, 1, m)
  <1>1. r \in Seq(S) /\ Len(r) = m /\ \A i \in 1 .. m : r[i] = s[i]
    OBVIOUS
  <1>2. DOMAIN r = 1 .. m /\ m \in Nat /\ r = [i \in 1 .. m |-> r[i]]
    BY <1>1
  <1>3. m = Len(s) => r = s
    BY <1>1
  <1> HIDE DEF r
  <1>4. \A i \in 1 .. m : r[i] \in ToSet(r)
    BY <1>2 DEF ToSet
  <1>5. r \in Seq(ToSet(r))
    BY <1>2, <1>4
  <1> QED  BY <1>3, <1>5 DEF r

(* Not more files than the limit: all of them are sampled.                 *)
LEMMA SampleKeeps == EvidenceInv /\ Sample => EvidenceInv'
  <1> SUFFICES ASSUME EvidenceInv, Sample PROVE EvidenceInv'
    OBVIOUS
  <1>1. /\ agent # 0 /\ stage = "list" /\ listed = SessionRoot.folders /\ SessionRoot.root = "present"
        /\ stage' = "read" /\ UNCHANGED <<sessions, before, moved, agent, usage>>
    BY DEF Sample
  <1>2. PICK order \in SetToSeqs(ToSet(queue)) : queue' = SubSeq(order, 1, Min({Len(order), SampleLimit}))
    BY DEF Sample
  <1>3. IsFiniteSet(ToSet(queue)) /\ Cardinality(ToSet(queue)) <= Len(queue) /\ Len(queue) \in Nat
    BY MembersOf DEF EvidenceInv, EvidenceFormed
  <1>4. /\ order \in Seq(ToSet(queue)) /\ ToSet(order) = ToSet(queue) /\ Len(order) \in Nat
        /\ Len(order) <= Len(queue) /\ SampleLimit \in Nat
    BY <1>2, <1>3, EveryOrder, EvidenceAssumption DEF SampleLimit
  <1>5. PICK m : m = Min({Len(order), SampleLimit})
    OBVIOUS
  <1>6. m \in 0 .. Len(order) /\ (Len(order) <= SampleLimit => m = Len(order))
    BY <1>4, <1>5, LeastOf
  <1>7. queue' \in Seq(ToSet(queue')) /\ (Len(queue) <= SampleLimit => queue' = order)
    <2>1. queue' = SubSeq(order, 1, m) /\ (Len(queue) <= SampleLimit => m = Len(order))
      BY <1>2, <1>3, <1>4, <1>5, <1>6
    <2>2. SubSeq(order, 1, m) \in Seq(ToSet(SubSeq(order, 1, m))) /\ (m = Len(order) => SubSeq(order, 1, m) = order)
      BY <1>4, <1>6, StartOf
    <2> QED  BY <2>1, <2>2
  <1>8. PICK d, c : /\ d = [coverage[Client] EXCEPT !.skipped = TRUE]
                    /\ c = IF Len(queue) > SampleLimit THEN Limited(d, "sampled_file_limit") ELSE coverage[Client]
                    /\ coverage' = [coverage EXCEPT ![Client] = c]
    BY DEF Sample, Cover
  <1>9. d \in CoverageRow /\ coverage[Client] \in CoverageRow
    BY <1>1, <1>8, ClientIs, SkippedIs
  <1>10. c \in CoverageRow /\ (Unlimited(c) => Unlimited(coverage[Client]) /\ Len(queue) <= SampleLimit)
    BY <1>3, <1>4, <1>8, <1>9, LimitedIs DEF Codes
  <1>11. ASSUME Unlimited(c), NEW f \in ToRead(Client) PROVE f \in ToSet(queue')
    <2>1. f \in DOMAIN before[Client].files
      BY DEF ToRead, SessionFiles
    <2>2. before[Client].files[f].folder \in before[Client].folders /\ before[Client].folders = listed
      BY <1>1, <2>1, ClientIs DEF FormedRoot, EvidenceInv, FilesStay, SessionRoot
    <2> QED  BY <1>1, <1>4, <1>7, <1>10, <1>11, <2>2 DEF EvidenceInv, ListedIsQueued
  <1> QED  BY <1>1, <1>7, <1>8, <1>10, <1>11, SameAgentKeeps

(* A file read without a limit adds whatever it speaks of.                 *)
LEMMA ReadFileKeeps == EvidenceInv /\ ReadFile => EvidenceInv'
  <1> SUFFICES ASSUME EvidenceInv, ReadFile PROVE EvidenceInv'
    OBVIOUS
  <1> DEFINE file == SessionRoot.files[Head(queue)]
             size == Len(file.records)
             limit == Min({MaxFileBytes, MaxAgentBytes - bytes})
             whole == size <= limit
             aligned == IF whole THEN file.records
                        ELSE LastOf(file.records, IF file.form = "json" THEN limit ELSE limit - 1)
             sample == SubSeq(aligned, 1, Min({Len(aligned), MaxAgentLines - lines}))
             document == whole /\ file.form = "json"
             failed == IF document THEN size = 0 \/ Malformed \in ToSet(file.records)
                       ELSE file.form = "jsonl" /\ Malformed \in ToSet(sample)
             cut == ~whole \/ sample # aligned
             unread == document /\ (failed \/ cut)
             counted == [coverage[Client] EXCEPT !.partial = @ \/ cut \/ failed]
             lineCut == LimitedIf(counted, sample # aligned, "line_limit")
             byteCut == LimitedIf(LimitedIf(lineCut, size > MaxFileBytes, "file_byte_limit"),
                                  limit < MaxFileBytes /\ ~whole, "byte_limit")
             row == LimitedIf(byteCut, failed, "file_parse_failure")
  <1>1. /\ agent # 0 /\ stage = "read" /\ queue # <<>> /\ queue' = Tail(queue)
        /\ UNCHANGED <<sessions, before, moved, agent, stage>>
    BY DEF ReadFile, CanRead
  <1>2. /\ usage' = IF unread THEN usage ELSE usage \union UNION {Attributed(r) : r \in ToSet(sample)}
        /\ Cover(row)
    BY DEF ReadFile
  <1>3. cut \in BOOLEAN /\ failed \in BOOLEAN
    OBVIOUS
  <1>4. ~cut => sample = file.records
    OBVIOUS
  <1>5. ~cut /\ ~failed => ~unread
    OBVIOUS
  <1> HIDE DEF cut, failed, unread, sample
  <1>6. counted \in CoverageRow /\ (Unlimited(counted) => Unlimited(coverage[Client]) /\ ~cut /\ ~failed)
    BY <1>1, <1>3, ClientIs, PartialIs
  <1> HIDE DEF counted, whole, limit, size, aligned
  <1>7. lineCut \in CoverageRow /\ (Unlimited(lineCut) => Unlimited(counted))
    BY <1>6, LimitedIfIs DEF Codes
  <1> HIDE DEF lineCut
  <1>8. byteCut \in CoverageRow /\ (Unlimited(byteCut) => Unlimited(lineCut))
    <2> DEFINE fileCut == LimitedIf(lineCut, size > MaxFileBytes, "file_byte_limit")
    <2>1. fileCut \in CoverageRow /\ (Unlimited(fileCut) => Unlimited(lineCut))
      BY <1>7, LimitedIfIs DEF Codes
    <2> HIDE DEF fileCut
    <2>2. LimitedIf(fileCut, limit < MaxFileBytes /\ ~whole, "byte_limit") \in CoverageRow
          /\ (Unlimited(LimitedIf(fileCut, limit < MaxFileBytes /\ ~whole, "byte_limit")) => Unlimited(fileCut))
      BY <2>1, LimitedIfIs DEF Codes
    <2> QED  BY <2>1, <2>2 DEF fileCut
  <1> HIDE DEF byteCut
  <1>9. row \in CoverageRow /\ (Unlimited(row) => Unlimited(byteCut))
    BY <1>8, LimitedIfIs DEF Codes
  <1> HIDE DEF row
  <1>10. PICK c : c = row /\ coverage' = [coverage EXCEPT ![Client] = c]
    BY <1>2 DEF Cover
  <1>11. /\ c \in CoverageRow
         /\ Unlimited(c) => Unlimited(coverage[Client]) /\ sample = file.records /\ ~unread
    BY <1>4, <1>5, <1>6, <1>7, <1>8, <1>9, <1>10
  <1>12. usage \subseteq usage'
    BY <1>2
  <1>13. /\ queue' \in Seq(ToSet(queue'))
         /\ \A x \in ToSet(queue) : x = Head(queue) \/ x \in ToSet(queue')
    BY <1>1, RestOf DEF EvidenceInv, EvidenceFormed
  <1>14. ASSUME Unlimited(c), NEW f \in ToRead(Client)
         PROVE  f \in ToSet(queue') \/ WasRead(Client, f) \/ WasRead(Client, f)'
    <2>1. f \in ToSet(queue) \/ WasRead(Client, f)
      BY <1>1, <1>11, <1>14 DEF EvidenceInv, UnreadIsQueued
    <2>2. CASE f = Head(queue)
      <3>1. f \in DOMAIN before[Client].files /\ <<Client, f>> \notin moved
        BY DEF ToRead, SessionFiles
      <3>2. \A i \in DOMAIN before[Client].files[f].records :
               i \in DOMAIN file.records /\ file.records[i] = before[Client].files[f].records[i]
        BY <1>1, <2>2, <3>1, ClientIs DEF EvidenceInv, FilesStay, SessionRoot
      <3>3. \A i \in DOMAIN file.records : Attributed(file.records[i]) \subseteq usage'
        BY <1>2, <1>11, <1>14 DEF ToSet
      <3>4. \A i \in DOMAIN before[Client].files[f].records :
               Attributed(before[Client].files[f].records[i]) \subseteq usage'
        BY <3>2, <3>3
      <3>5. Client' = Client
        BY <1>1 DEF Client
      <3> QED  BY <1>1, <3>4, <3>5 DEF WasRead
    <2> QED  BY <1>13, <2>1, <2>2
  <1> QED  BY <1>1, <1>10, <1>11, <1>12, <1>13, <1>14, SameAgentKeeps

-----------------------------------------------------------------------------
(* What the Agents do to their files.                                      *)
LEMMA WorkKeeps ==
  ASSUME EvidenceInv, KeepReading, moved \subseteq moved', FilesStay'
  PROVE  EvidenceInv'
  <1>1. EvidenceFormed'
    BY DEF EvidenceInv, EvidenceFormed, KeepReading
  <1>2. \A a, f : /\ f \in ToRead(a)' => f \in ToRead(a)
                  /\ WasRead(a, f) => WasRead(a, f)'
    BY ReadStays DEF KeepReading
  <1>3. Client' = Client /\ UNCHANGED <<before, agent, stage, listed, queue, coverage>>
    BY DEF Client, KeepReading
  <1>4. DoneIsRead'
    BY <1>2, <1>3 DEF EvidenceInv, DoneIsRead, IsDone
  <1>5. ListedIsQueued'
    BY <1>2, <1>3 DEF EvidenceInv, ListedIsQueued
  <1>6. UnreadIsQueued'
    BY <1>2, <1>3 DEF EvidenceInv, UnreadIsQueued
  <1> QED  BY <1>1, <1>4, <1>5, <1>6 DEF EvidenceInv

(* One root changes; what has not moved in it stays.                       *)
LEMMA RootChanges ==
  ASSUME EvidenceInv, before' = before, moved \subseteq moved', NEW a \in AllClients, NEW r,
         sessions' = [sessions EXCEPT ![a] = r], FormedRoot(r),
         r.root = sessions[a].root, r.folders = sessions[a].folders,
         \A f \in DOMAIN sessions[a].files : <<a, f>> \notin moved' =>
            /\ f \in DOMAIN r.files
            /\ r.files[f].form = sessions[a].files[f].form /\ r.files[f].folder = sessions[a].files[f].folder
            /\ \A i \in DOMAIN sessions[a].files[f].records :
                  /\ i \in DOMAIN r.files[f].records
                  /\ r.files[f].records[i] = sessions[a].files[f].records[i]
  PROVE  FilesStay'
  <1>1. DOMAIN sessions = AllClients /\ DOMAIN before = AllClients
    BY DEF EvidenceInv, FilesStay
  <1>2. sessions'[a] = r /\ DOMAIN sessions' = AllClients
        /\ \A b \in AllClients : b # a => sessions'[b] = sessions[b]
    BY <1>1
  <1>3. ASSUME NEW b \in AllClients
        PROVE /\ FormedRoot(before[b]) /\ FormedRoot(sessions'[b])
              /\ sessions'[b].root = before[b].root /\ sessions'[b].folders = before[b].folders
              /\ \A f \in DOMAIN before[b].files : <<b, f>> \notin moved' =>
                /\ f \in DOMAIN sessions'[b].files
                /\ sessions'[b].files[f].form = before[b].files[f].form
                /\ sessions'[b].files[f].folder = before[b].files[f].folder
                /\ \A i \in DOMAIN before[b].files[f].records :
                      /\ i \in DOMAIN sessions'[b].files[f].records
                      /\ sessions'[b].files[f].records[i] = before[b].files[f].records[i]
    <2>1. CASE b # a
      BY <1>2, <2>1 DEF EvidenceInv, FilesStay
    <2>2. CASE b = a
      BY <1>2, <2>2 DEF EvidenceInv, FilesStay
    <2> QED  BY <2>1, <2>2
  <1> QED  BY <1>1, <1>2, <1>3 DEF FilesStay, FormedRoot

LEMMA Append1Keeps == EvidenceInv /\ Append1 => EvidenceInv'
  <1> SUFFICES ASSUME EvidenceInv, Append1 PROVE EvidenceInv'
    OBVIOUS
  <1>1. KeepReading /\ moved' = moved
    BY DEF Append1
  <1>2. PICK a \in DOMAIN sessions : \E f \in DOMAIN sessions[a].files, s \in UsageSkills :
           sessions' = [sessions EXCEPT ![a].files[f].records = Append(@, EventOn(NameOfSkill[s]))]
    BY DEF Append1
  <1>3. PICK f \in DOMAIN sessions[a].files, s \in UsageSkills :
            sessions' = [sessions EXCEPT ![a].files[f].records = Append(@, EventOn(NameOfSkill[s]))]
    BY <1>2
  <1>4. PICK e, old, rec, file, files, r :
           /\ e = EventOn(NameOfSkill[s]) /\ old = sessions[a].files[f] /\ rec = Append(old.records, e)
           /\ file = [old EXCEPT !.records = rec] /\ files = [sessions[a].files EXCEPT ![f] = file]
           /\ r = [sessions[a] EXCEPT !.files = files]
    OBVIOUS
  <1>5. sessions' = [sessions EXCEPT ![a] = r]
    BY <1>3, <1>4
  <1>6. a \in AllClients /\ FormedRoot(sessions[a])
    BY DEF EvidenceInv, FilesStay
  <1>7. DOMAIN old = {"folder", "form", "readable", "records"} /\ old.folder \in sessions[a].folders
        /\ old.records \in Seq(ToSet(old.records))
    BY <1>4, <1>6 DEF FormedRoot
  <1>8. /\ rec \in Seq(ToSet(rec))
        /\ \A i \in DOMAIN old.records : i \in DOMAIN rec /\ rec[i] = old.records[i]
    BY <1>4, <1>7, Longer
  <1>9. /\ DOMAIN file = DOMAIN old /\ file.records = rec /\ file.folder = old.folder /\ file.form = old.form
    BY <1>4, <1>7
  <1>10. /\ DOMAIN files = DOMAIN sessions[a].files /\ files[f] = file
        /\ \A g \in DOMAIN files : g # f => files[g] = sessions[a].files[g]
    BY <1>4
  <1>11. DOMAIN r = {"root", "folders", "files"} /\ r.files = files /\ r.root = sessions[a].root
         /\ r.folders = sessions[a].folders
    BY <1>4, <1>6 DEF FormedRoot
  <1>12. FormedRoot(r)
    BY <1>6, <1>7, <1>8, <1>9, <1>10, <1>11 DEF FormedRoot
  <1>13. ASSUME NEW g \in DOMAIN sessions[a].files
         PROVE  /\ g \in DOMAIN r.files
                /\ r.files[g].form = sessions[a].files[g].form /\ r.files[g].folder = sessions[a].files[g].folder
                /\ \A i \in DOMAIN sessions[a].files[g].records :
                      /\ i \in DOMAIN r.files[g].records
                      /\ r.files[g].records[i] = sessions[a].files[g].records[i]
    BY <1>4, <1>8, <1>9, <1>10, <1>11
  <1>14. FilesStay'
    BY <1>1, <1>5, <1>6, <1>11, <1>12, <1>13, RootChanges DEF KeepReading
  <1> QED  BY <1>1, <1>14, WorkKeeps

LEMMA MoveFileKeeps == EvidenceInv /\ MoveFile => EvidenceInv'
  <1> SUFFICES ASSUME EvidenceInv, MoveFile PROVE EvidenceInv'
    OBVIOUS
  <1>1. KeepReading
    BY DEF MoveFile
  <1>2. PICK a \in DOMAIN sessions : \E f \in DOMAIN sessions[a].files, d \in sessions[a].folders :
           /\ sessions' = [sessions EXCEPT ![a].files[f].folder = d] /\ moved' = moved \union {<<a, f>>}
    BY DEF MoveFile
  <1>3. PICK f \in DOMAIN sessions[a].files, d \in sessions[a].folders :
            /\ sessions' = [sessions EXCEPT ![a].files[f].folder = d] /\ moved' = moved \union {<<a, f>>}
    BY <1>2
  <1>4. PICK old, file, files, r :
           /\ old = sessions[a].files[f]
           /\ file = [old EXCEPT !.folder = d] /\ files = [sessions[a].files EXCEPT ![f] = file]
           /\ r = [sessions[a] EXCEPT !.files = files]
    OBVIOUS
  <1>5. sessions' = [sessions EXCEPT ![a] = r]
    BY <1>3, <1>4
  <1>6. a \in AllClients /\ FormedRoot(sessions[a])
    BY DEF EvidenceInv, FilesStay
  <1>7. DOMAIN old = {"folder", "form", "readable", "records"} /\ old.records \in Seq(ToSet(old.records))
    BY <1>4, <1>6 DEF FormedRoot
  <1>8. /\ DOMAIN file = DOMAIN old /\ file.records = old.records /\ file.folder = d
    BY <1>4, <1>7
  <1>9. /\ DOMAIN files = DOMAIN sessions[a].files /\ files[f] = file
        /\ \A g \in DOMAIN files : g # f => files[g] = sessions[a].files[g]
    BY <1>4
  <1>10. DOMAIN r = {"root", "folders", "files"} /\ r.files = files /\ r.root = sessions[a].root
         /\ r.folders = sessions[a].folders
    BY <1>4, <1>6 DEF FormedRoot
  <1>11. FormedRoot(r)
    BY <1>6, <1>7, <1>8, <1>9, <1>10 DEF FormedRoot
  <1>12. ASSUME NEW g \in DOMAIN sessions[a].files, <<a, g>> \notin moved'
         PROVE  /\ g \in DOMAIN r.files
                /\ r.files[g].form = sessions[a].files[g].form /\ r.files[g].folder = sessions[a].files[g].folder
                /\ \A i \in DOMAIN sessions[a].files[g].records :
                      /\ i \in DOMAIN r.files[g].records
                      /\ r.files[g].records[i] = sessions[a].files[g].records[i]
    BY <1>3, <1>9, <1>10, <1>12
  <1>13. moved \subseteq moved'
    BY <1>3
  <1>14. FilesStay'
    BY <1>1, <1>5, <1>6, <1>10, <1>11, <1>12, <1>13, RootChanges DEF KeepReading
  <1> QED  BY <1>1, <1>13, <1>14, WorkKeeps

LEMMA RemoveFileKeeps == EvidenceInv /\ RemoveFile => EvidenceInv'
  <1> SUFFICES ASSUME EvidenceInv, RemoveFile PROVE EvidenceInv'
    OBVIOUS
  <1>1. KeepReading
    BY DEF RemoveFile
  <1>2. PICK a \in DOMAIN sessions : \E f \in DOMAIN sessions[a].files :
           /\ sessions' = [sessions EXCEPT ![a].files = [g \in DOMAIN @ \ {f} |-> @[g]]]
           /\ moved' = moved \union {<<a, f>>}
    BY DEF RemoveFile
  <1>3. PICK f \in DOMAIN sessions[a].files :
           /\ sessions' = [sessions EXCEPT ![a].files = [g \in DOMAIN @ \ {f} |-> @[g]]]
           /\ moved' = moved \union {<<a, f>>}
    BY <1>2
  <1>4. PICK all, files, r : /\ all = sessions[a].files
                             /\ files = [g \in DOMAIN all \ {f} |-> all[g]]
                             /\ r = [sessions[a] EXCEPT !.files = files]
    OBVIOUS
  <1>5. sessions' = [sessions EXCEPT ![a] = r]
    BY <1>3, <1>4
  <1>6. a \in AllClients /\ FormedRoot(sessions[a])
    BY DEF EvidenceInv, FilesStay
  <1>7. DOMAIN files = DOMAIN all \ {f} /\ \A g \in DOMAIN files : files[g] = all[g]
    BY <1>4
  <1>8. IsFiniteSet(DOMAIN files)
    BY <1>4, <1>6, <1>7, FS_Subset DEF FormedRoot
  <1>9. DOMAIN r = {"root", "folders", "files"} /\ r.files = files /\ r.root = sessions[a].root
        /\ r.folders = sessions[a].folders
    BY <1>4, <1>6 DEF FormedRoot
  <1>10. FormedRoot(r)
    BY <1>4, <1>6, <1>7, <1>8, <1>9 DEF FormedRoot
  <1>11. ASSUME NEW g \in DOMAIN sessions[a].files, <<a, g>> \notin moved'
         PROVE  /\ g \in DOMAIN r.files
                /\ r.files[g].form = sessions[a].files[g].form /\ r.files[g].folder = sessions[a].files[g].folder
                /\ \A i \in DOMAIN sessions[a].files[g].records :
                      /\ i \in DOMAIN r.files[g].records
                      /\ r.files[g].records[i] = sessions[a].files[g].records[i]
    BY <1>3, <1>4, <1>7, <1>9, <1>11
  <1>12. moved \subseteq moved'
    BY <1>3
  <1>13. FilesStay'
    BY <1>1, <1>5, <1>6, <1>9, <1>10, <1>11, <1>12, RootChanges DEF KeepReading
  <1> QED  BY <1>1, <1>12, <1>13, WorkKeeps

-----------------------------------------------------------------------------
LEMMA NextEvidenceInv == EvidenceInv /\ [EvidenceNext]_evidenceVars => EvidenceInv'
  <1> SUFFICES ASSUME EvidenceInv, [EvidenceNext]_evidenceVars PROVE EvidenceInv'
    OBVIOUS
  <1>1. CASE UNCHANGED evidenceVars
    BY <1>1 DEF evidenceVars, EvidenceInv, EvidenceFormed, FilesStay, DoneIsRead, IsDone, ListedIsQueued,
                UnreadIsQueued, ToRead, SessionFiles, WasRead, Client
  <1>2. CASE EvidenceNext
    BY <1>2, SkipRootKeeps, ListFolderKeeps, WalkFailsKeeps, SampleKeeps, StopReadingKeeps, MissFileKeeps,
       ReadFileKeeps, DoneWithAgentKeeps, Append1Keeps, MoveFileKeeps, RemoveFileKeeps DEF EvidenceNext
  <1> QED  BY <1>1, <1>2

(* However the Agents' files change while they are read, EvidenceInv holds *)
(* between any two steps: what is neither limited nor moved is read.       *)
THEOREM EvidenceInvariant == EvidenceSpec => []EvidenceInv
  <1>1. EvidenceInit => EvidenceInv
    BY InitEvidenceInv
  <1>2. EvidenceInv /\ [EvidenceNext]_evidenceVars => EvidenceInv'
    BY NextEvidenceInv
  <1> QED  BY <1>1, <1>2, PTL DEF EvidenceSpec

(* No Skill that a session of an Agent which has it speaks of is called    *)
(* stale, for any Agents, files and limits: lifecycle_findings proposes to *)
(* archive it only on complete evidence, and complete evidence names it.   *)
THEOREM UsedSkillsAreKept == EvidenceSpec => []UsedIsNotStale
  <1>1. EvidenceInv => UsedIsNotStale
    <2> SUFFICES ASSUME EvidenceInv, Scanned, NEW s \in StaleCandidates, NEW a \in Holders[s], NEW f \in Mentions(a, s),
                        before[a].files[f].form # "link", <<a, f>> \notin moved, UniqueName(s),
                        ~(Shadowed(s) /\ OnlyInText(a, f, s))
                 PROVE  FALSE
      BY DEF UsedIsNotStale
    <2>1. s \in UsageSkills /\ s \notin usage /\ Reliable(a)
      BY EvidenceAssumption DEF StaleCandidates, ReliableFor, UsageSkills
    <2>2. PICK i \in DOMAIN Clients : Clients[i] = a
      BY <2>1, EvidenceAssumption DEF UsageSkills, ToSet
    <2>3. f \in ToRead(a) /\ Unlimited(coverage[a]) /\ IsDone(i)
      BY <2>1 DEF Mentions, ToRead, Reliable, Unlimited, Scanned, IsDone
    <2>4. WasRead(a, f)
      BY <2>2, <2>3 DEF EvidenceInv, DoneIsRead
    <2>5. PICK j \in DOMAIN before[a].files[f].records :
              /\ Names(before[a].files[f].records[j], s)
              /\ before[a].files[f].records[j].kind = "text" => ~Shadowed(s)
      BY DEF Mentions, OnlyInText
    <2>6. s \in Attributed(before[a].files[f].records[j])
      BY <2>1, <2>5 DEF Attributed, Names, Shadowed
    <2> QED  BY <2>1, <2>4, <2>5, <2>6 DEF WasRead
  <1> QED  BY <1>1, EvidenceInvariant, PTL
=============================================================================
