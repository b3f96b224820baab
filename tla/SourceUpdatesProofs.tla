-------------------------- MODULE SourceUpdatesProofs --------------------------
(***************************************************************************)
(* Proofs about SourceUpdates and the package reading under it, for any    *)
(* packages, placements, revisions and edits.  ReadInv says what a Scan    *)
(* remembers of the packages it has observed; UpdateInv, that whatever a   *)
(* Plan takes off without a choice of the user's was judged to be exactly  *)
(* what the store trusts, and that this judgement stays true.              *)
(***************************************************************************)
EXTENDS SourceUpdates, FiniteSetTheorems, WellFoundedInduction, TLAPS

(* What is read of a package, and what a Scan makes of it.                 *)
FilesRead == UNION {[S -> Contents] : S \in SUBSET File}
Observation ==
    [entry : Contents, files : FilesRead, complete : BOOLEAN, safe : BOOLEAN, lapsed : BOOLEAN]
Listing == [stage : {"list"}, entry : Contents]
Hashing == [stage : {"hash", "failed"}, entry : Contents, files : FilesRead, listed : SUBSET File]

ReadingFormed ==
    /\ disk \in [Package -> [File -> Contents]] /\ scans \in Nat
    /\ reading \in {Nothing, Bound} \cup Listing \cup Hashing
    /\ seen \in Seq(Observation)
    /\ \A q \in Known : cache[q] \in Observation
    /\ snapshot.id \in Nat
    /\ snapshot.id # 0 => snapshot.of \in [Placement -> Observation]

(* Where the Scan is agrees with what it has seen.                         *)
Position ==
    /\ at \in 0 .. Len(Candidates) + 1
    /\ at = 0 => seen = <<>> /\ Known = {} /\ drifted = {}
    /\ at # 0 => Len(seen) = at - 1
    /\ reading # Nothing => at \in DOMAIN Candidates
    /\ reading \notin {Nothing, Bound} => Here \notin Known \cup drifted

(* A package is vouched for while it is cached, with what is cached; once  *)
(* it drifted it is never vouched for again, unless a placement of it      *)
(* lapsed: then nothing is said of it.                                     *)
Gap(q) == \E n \in DOMAIN seen : Home[Candidates[n]] = q /\ seen[n].lapsed
Vouched ==
    /\ Known \cap drifted = {}
    /\ \A n \in DOMAIN seen : seen[n].complete =>
          LET q == Home[Candidates[n]] IN
          Gap(q) \/ q \in drifted \/ (q \in Known /\ cache[q] = seen[n])
    /\ \A n, m \in DOMAIN seen :
          /\ seen[n].complete /\ seen[m].complete /\ Home[Candidates[n]] = Home[Candidates[m]]
          /\ ~Gap(Home[Candidates[n]])
          => seen[n] = seen[m]

SnapshotAgrees ==
    \A p, q \in DOMAIN snapshot.of :
        /\ Home[p] = Home[q] /\ ~Lapsed(Home[p])
        /\ snapshot.of[p].complete /\ snapshot.of[q].complete
        => snapshot.of[p] = snapshot.of[q]

ReadInv == ReadingFormed /\ Position /\ Vouched /\ SnapshotAgrees

(* Baselines are of the revision they are kept for, and what one of them   *)
(* trusts is trusted.                                                      *)
BaselinesFormed ==
    /\ baseline \in [Revision -> [first : Contents, trusted : Contents]]
    /\ \A r \in Revision : baseline[r].trusted # Gone => baseline[r].trusted.revision = r
Trusts(c) == Declared(c) # 0 /\ baseline[Declared(c)].trusted = c
TrustKept == \A r \in Revision :
    baseline[r].trusted # Gone => baseline'[r].trusted = baseline[r].trusted

UpdateRecord ==
    [choice : Choice, explicit : BOOLEAN, upstream : Upstream, from : Revision \cup {0},
     expected : Contents, slipped : BOOLEAN]
Updates == UNION {[S -> UpdateRecord] : S \in SUBSET Placement}
PlanStatus == {"ready", "applying", "applied", "failed_rolled_back", "recovery_required"}
PlanRecord == [scan : Nat, updates : Updates, status : PlanStatus]
Stages == {"validate", "stage", "compare", "swap", "roll back"}
Apply == [plan : Nat, done : Seq(Placement), next : Stages]
Receipt == [plan : Nat, live : BOOLEAN]

UpdatesFormed ==
    /\ latest \in Nat /\ (latest # 0 => snapshot.id # 0)
    /\ plans \in Seq(PlanRecord) /\ receipts \in Seq(Receipt)
    /\ \A n \in DOMAIN receipts : receipts[n].plan \in DOMAIN plans
    /\ running # Nobody =>
          /\ running \in Apply /\ running.plan \in DOMAIN plans
          /\ \A k \in DOMAIN running.done : running.done[k] \in Operated(running.plan)
    /\ \A x \in replaced : x.was \in Contents

(* What Plan has read was judged: without a choice it is what is trusted.  *)
DraftJudged ==
    drafting # NoDraft =>
        /\ at = 0 /\ running = Nobody /\ latest # 0
        /\ drafting.asked \in [DOMAIN drafting.asked -> Request]
        /\ DOMAIN drafting.asked \subseteq Placement
        /\ \A p \in DOMAIN drafting.asked :
              drafting.asked[p].choice = NoChoice => Trusts(drafting.read[p])
Excepted(x) == x.update.explicit \/ x.update.slipped \/ x.was # x.update.expected
Judged(update) == update.explicit \/ update.slipped \/ Trusts(update.expected)
PlansJudged ==
    \A n \in DOMAIN plans : \A p \in DOMAIN plans[n].updates : Judged(plans[n].updates[p])

UpdateInv ==
    BaselinesFormed /\ UpdatesFormed /\ DraftJudged /\ PlansJudged /\ NoSilentUpdate

-----------------------------------------------------------------------------
(* CHOOSE of a least element finds one.                                    *)
LEMMA LeastExists ==
  ASSUME NEW T, T \subseteq Nat, T # {}
  PROVE  \E x \in T : \A y \in T : x <= y
  <1> DEFINE R == OpToRel(<, Nat)
  <1>1. IsWellFoundedOn(R, Nat)
    BY NatLessThanWellFounded, Zenon
  <1>2. \A y \in T, x \in T : y < x => <<y, x>> \in R
    <2>1. \A ss \in Nat \X Nat : ss[1] < ss[2] => ss \in R
      BY Zenon DEF OpToRel
    <2> HIDE DEF R
    <2> QED  BY <2>1
  <1> HIDE DEF R
  <1>3. PICK x \in T : \A y \in T : ~ (<<y, x>> \in R)
    BY WFMin, <1>1
  <1>4. \A y \in T : ~(y < x)
    BY <1>2, <1>3
  <1> QED  BY <1>4

(* The candidates are the placements.                                      *)
LEMMA CandidatesListed ==
  /\ Len(Candidates) \in Nat /\ DOMAIN Candidates = 1 .. Len(Candidates)
  /\ \A n \in DOMAIN Candidates : Candidates[n] \in Placement /\ Home[Candidates[n]] \in Package
  BY PackagesAssumption

-----------------------------------------------------------------------------
(* Reading.                                                                *)
LEMMA InitReadInv == ReadingInit => ReadInv
  <1> SUFFICES ASSUME ReadingInit PROVE ReadInv
    OBVIOUS
  <1> USE CandidatesListed DEF ReadingInit
  <1>1. ReadingFormed
    BY DEF ReadingFormed, NoSnapshot, Known
  <1>2. Position
    BY DEF Position, Known
  <1>3. Vouched /\ SnapshotAgrees
    BY DEF Vouched, SnapshotAgrees, NoSnapshot, Known
  <1> QED  BY <1>1, <1>2, <1>3 DEF ReadInv

LEMMA LeftOutFormed ==
  ASSUME NEW lapsed \in BOOLEAN
  PROVE  /\ LeftOut(lapsed) \in Observation /\ ~LeftOut(lapsed).complete
         /\ LeftOut(lapsed).lapsed = lapsed
  <1>1. <<>> \in FilesRead
    BY DEF FilesRead
  <1> QED  BY <1>1 DEF LeftOut, Observation, Contents

(* A package observed once more, or for the first time.                    *)
LEMMA RecordKeeps ==
  ASSUME ReadInv, at \in DOMAIN Candidates, NEW o \in Observation, Record(o),
         UNCHANGED <<disk, scans, snapshot>>,
         DOMAIN cache' \cap drifted' = {},
         \A q \in DOMAIN cache' : cache'[q] \in Observation,
         \A q \in drifted \cup Known :
             \/ q = Here /\ o.lapsed
             \/ q \in drifted' \/ (q \in Known /\ q \in DOMAIN cache' /\ cache'[q] = cache[q]),
         o.complete => Here \in DOMAIN cache' /\ cache'[Here] = o,
         o.complete => Here \notin drifted /\ (Here \in Known => cache[Here] = o)
  PROVE  ReadInv'
  <1> USE CandidatesListed DEF ReadInv, Record
  <1>1. /\ Len(seen) = at - 1 /\ at \in 1 .. Len(Candidates) /\ seen \in Seq(Observation)
        /\ Len(seen') = at /\ DOMAIN seen' = 1 .. at /\ DOMAIN seen = 1 .. at - 1
        /\ seen' \in Seq(Observation)
        /\ seen'[at] = o /\ \A n \in 1 .. at - 1 : seen'[n] = seen[n]
    BY DEF Position, ReadingFormed
  <1>2. ReadingFormed'
    BY <1>1 DEF ReadingFormed, Known
  <1>3. Position'
    BY <1>1 DEF Position
  <1>4. \A q : Gap(q) \/ (q = Here /\ o.lapsed) => Gap(q)'
    <2>1. \A q : Gap(q)' <=> \E n \in DOMAIN seen' : Home[Candidates[n]] = q /\ seen'[n].lapsed
      BY Zenon DEF Gap
    <2>2. DOMAIN seen' = 1 .. at
      BY <1>1
    <2> HIDE DEF Gap, ReadInv, Record
    <2> SUFFICES ASSUME NEW q, Gap(q) \/ (q = Here /\ o.lapsed)
                 PROVE  \E n \in 1 .. at : Home[Candidates[n]] = q /\ seen'[n].lapsed
      BY <2>1, <2>2, Zenon
    <2>3. CASE Gap(q)
      <3>1. PICK n \in 1 .. at - 1 : Home[Candidates[n]] = q /\ seen[n].lapsed
        BY <2>3, <1>1 DEF Gap
      <3>2. n \in 1 .. at /\ seen'[n] = seen[n]
        BY <1>1
      <3> QED  BY <3>1, <3>2
    <2>4. CASE q = Here /\ o.lapsed
      BY <2>4, <1>1 DEF Here
    <2> QED  BY <2>3, <2>4
  <1>5. \A n \in 1 .. at : seen'[n].complete =>
          LET q == Home[Candidates[n]] IN
          Gap(q)' \/ q \in drifted' \/ (q \in DOMAIN cache' /\ cache'[q] = seen'[n])
    <2> SUFFICES ASSUME NEW n \in 1 .. at, seen'[n].complete
                 PROVE  LET q == Home[Candidates[n]] IN
                        Gap(q)' \/ q \in drifted' \/ (q \in DOMAIN cache' /\ cache'[q] = seen'[n])
      OBVIOUS
    <2> HIDE DEF Gap
    <2>1. CASE n = at
      BY <2>1, <1>1 DEF Here
    <2>2. CASE n # at
      <3> DEFINE q == Home[Candidates[n]]
      <3>1. n \in DOMAIN seen /\ seen'[n] = seen[n]
        BY <2>2, <1>1
      <3>2. Gap(q) \/ q \in drifted \/ (q \in Known /\ cache[q] = seen[n])
        BY <3>1 DEF Vouched
      <3>3. q \in drifted \cup Known =>
               \/ q = Here /\ o.lapsed
               \/ q \in drifted' \/ (q \in DOMAIN cache' /\ cache'[q] = cache[q])
        OBVIOUS
      <3>4. q \in drifted => q \in drifted' \/ Gap(q)' \/ q \in Known
        BY <3>3, <1>4
      <3>5. q \in Known => q \notin drifted
        BY DEF Vouched
      <3> HIDE DEF q
      <3>6. Gap(q)' \/ q \in drifted' \/ (q \in DOMAIN cache' /\ cache'[q] = seen'[n])
        BY <1>4, <3>1, <3>2, <3>3, <3>4, <3>5
      <3> QED  BY <3>6 DEF q
    <2> QED  BY <2>1, <2>2
  <1>6. ASSUME NEW n \in 1 .. at - 1, seen[n].complete, o.complete, Home[Candidates[n]] = Here, ~Gap(Here)
        PROVE  seen[n] = o
    <2>1. Here \in drifted \/ (Here \in Known /\ cache[Here] = seen[n])
      BY <1>1, <1>6 DEF Vouched
    <2> QED  BY <2>1, <1>6
  <1>7. \A n, m \in 1 .. at :
          /\ seen'[n].complete /\ seen'[m].complete /\ Home[Candidates[n]] = Home[Candidates[m]]
          /\ ~Gap(Home[Candidates[n]])'
          => seen'[n] = seen'[m]
    <2> SUFFICES ASSUME NEW n \in 1 .. at, NEW m \in 1 .. at, seen'[n].complete, seen'[m].complete,
                        Home[Candidates[n]] = Home[Candidates[m]], ~Gap(Home[Candidates[n]])
                 PROVE  seen'[n] = seen'[m]
      BY <1>4
    <2> HIDE DEF Gap
    <2>1. CASE n # at /\ m # at
      BY <2>1, <1>1 DEF Vouched
    <2>2. CASE n = at /\ m # at
      BY <2>2, <1>1, <1>6 DEF Here
    <2>3. CASE n # at /\ m = at
      BY <2>3, <1>1, <1>6 DEF Here
    <2> QED  BY <2>1, <2>2, <2>3
  <1>8. Vouched'
    BY <1>1, <1>5, <1>7 DEF Vouched, Known
  <1> QED  BY <1>2, <1>3, <1>8 DEF SnapshotAgrees, Lapsed

(* A placement left out because its entrypoint had gone.                   *)
LEMMA LapseKeeps ==
  ASSUME ReadInv, at \in DOMAIN Candidates, Lapse, UNCHANGED <<disk, scans, snapshot, drifted>>
  PROVE  ReadInv'
  <1>1. DOMAIN cache' = Known \ {Here} /\ \A q \in Known \ {Here} : cache'[q] = cache[q]
    BY DEF Lapse, Forget
  <1>2. Known \cap drifted = {} /\ \A q \in Known : cache[q] \in Observation
    BY DEF ReadInv, Vouched, ReadingFormed
  <1>3. Record(LeftOut(TRUE))
    BY DEF Lapse
  <1> QED  BY <1>1, <1>2, <1>3, LeftOutFormed, RecordKeeps

LEMMA ReuseKeeps == ReadInv /\ Reuse => ReadInv'
  <1> SUFFICES ASSUME ReadInv, Reuse PROVE ReadInv'
    OBVIOUS
  <1>1. /\ at \in DOMAIN Candidates /\ UNCHANGED <<disk, scans, snapshot>>
        /\ Known \cap drifted = {} /\ \A q \in Known : cache[q] \in Observation
    BY DEF Reuse, ReadInv, Position, Vouched, ReadingFormed, package, Bound, Nothing
  <1>2. CASE Discard
    <2>1. DOMAIN cache' = Known \ {Here} /\ \A q \in Known \ {Here} : cache'[q] = cache[q]
      BY <1>2 DEF Discard, Forget
    <2>2. Record(LeftOut(FALSE)) /\ drifted' = drifted \cup {Here}
      BY <1>2 DEF Discard
    <2> QED  BY <1>1, <2>1, <2>2, LeftOutFormed, RecordKeeps
  <1>3. CASE Here \in Known /\ Record(cache[Here]) /\ UNCHANGED <<cache, drifted>>
    BY <1>1, <1>3, RecordKeeps DEF Known
  <1> QED  BY <1>2, <1>3 DEF Reuse, Revalidate

LEMMA ObserveKeeps == ReadInv /\ Observe => ReadInv'
  <1> SUFFICES ASSUME ReadInv, Observe PROVE ReadInv'
    OBVIOUS
  <1>1. reading \in Hashing /\ at \in DOMAIN Candidates /\ Here \notin Known \cup drifted
    BY DEF Observe, ReadInv, ReadingFormed, Position, Nothing, Bound, Listing
  <1>2. Observed \in Observation
    <2>1. <<>> \in FilesRead
      BY DEF FilesRead
    <2> QED  BY <1>1, <2>1 DEF Observed, Observation, Hashing
  <1>3. /\ UNCHANGED <<disk, scans, snapshot>> /\ drifted' = drifted
        /\ Known \cap drifted = {} /\ \A q \in Known : cache[q] \in Observation
    BY DEF Observe, ReadInv, Vouched, ReadingFormed, package
  <1> HIDE DEF Observed
  <1>4. CASE BindingIsCurrent /\ Observed.complete
    <2>1. Record(Observed) /\ cache' = [p \in Known \cup {Here} |-> IF p = Here THEN Observed ELSE cache[p]]
      BY <1>4 DEF Observe
    <2>2. /\ DOMAIN cache' = Known \cup {Here} /\ cache'[Here] = Observed
          /\ \A q \in Known : cache'[q] = cache[q]
      BY <2>1, <1>1
    <2>3. /\ DOMAIN cache' \cap drifted' = {}
          /\ \A q \in DOMAIN cache' : cache'[q] \in Observation
          /\ \A q \in drifted \cup Known :
                \/ q = Here /\ Observed.lapsed
                \/ q \in drifted' \/ (q \in Known /\ q \in DOMAIN cache' /\ cache'[q] = cache[q])
          /\ Here \in DOMAIN cache' /\ Here \notin drifted /\ Here \notin Known
      BY <2>2, <1>1, <1>2, <1>3
    <2>4. Observed.complete => Here \in DOMAIN cache' /\ cache'[Here] = Observed
      BY <2>2
    <2>5. Observed.complete => Here \notin drifted /\ (Here \in Known => cache[Here] = Observed)
      BY <2>3
    <2> HIDE DEF Here, Known
    <2> QED  BY <1>1, <1>2, <1>3, <2>1, <2>3, <2>4, <2>5, RecordKeeps
  <1>5. CASE BindingIsCurrent /\ ~Observed.complete
    <2>1. Record(Observed) /\ cache' = cache
      BY <1>5 DEF Observe
    <2> QED  BY <1>1, <1>2, <1>3, <1>5, <2>1, RecordKeeps DEF Known
  <1>6. CASE ~BindingIsCurrent
    BY <1>1, <1>3, <1>6, LapseKeeps DEF Observe
  <1> QED  BY <1>4, <1>5, <1>6

LEMMA NextFileUnhashed ==
  ASSUME ReadInv, reading \in Hashing, Unhashed # {}
  PROVE  NextFile \in Unhashed /\ NextFile \in File
  <1>1. Unhashed \subseteq File /\ File \subseteq Nat
    BY PackagesAssumption DEF Unhashed, Hashing, File, Entrypoint
  <1>2. \E f \in Unhashed : \A g \in Unhashed : f <= g
    BY <1>1, LeastExists
  <1> QED  BY <1>1, <1>2 DEF NextFile

LEMMA HashKeeps == ReadInv /\ HashFile => reading' \in Hashing
  <1> SUFFICES ASSUME ReadInv, HashFile PROVE reading' \in Hashing
    OBVIOUS
  <1>1. reading \in Hashing /\ Unhashed # {} /\ at \in DOMAIN Candidates
    BY DEF HashFile, ReadInv, ReadingFormed, Position, Nothing, Bound, Listing
  <1>2. NextFile \in Unhashed /\ NextFile \in File
    BY <1>1, NextFileUnhashed
  <1>3. Here \in Package /\ disk[Here][NextFile] \in Contents
    BY <1>1, <1>2, CandidatesListed DEF ReadInv, ReadingFormed, Here
  <1>4. CASE reading' = [reading EXCEPT !.stage = "failed"]
    BY <1>1, <1>4 DEF Hashing
  <1>5. CASE reading' = [reading EXCEPT !.files =
                [f \in DOMAIN @ \cup {NextFile} |->
                    IF f = NextFile THEN disk[Here][f] ELSE @[f]]]
    <2> DEFINE more == [f \in DOMAIN reading.files \cup {NextFile} |->
                    IF f = NextFile THEN disk[Here][f] ELSE reading.files[f]]
    <2>1. PICK S \in SUBSET File : reading.files \in [S -> Contents]
      BY <1>1 DEF Hashing, FilesRead
    <2>2. more \in [S \cup {NextFile} -> Contents] /\ S \cup {NextFile} \in SUBSET File
      BY <2>1, <1>2, <1>3
    <2>3. more \in FilesRead
      BY <2>2 DEF FilesRead
    <2>4. reading' = [reading EXCEPT !.files = more]
      BY <1>5
    <2> HIDE DEF more
    <2> QED  BY <2>3, <2>4, <1>1 DEF Hashing
  <1> QED  BY <1>4, <1>5 DEF HashFile

(* One step of reading a package, which records nothing yet.               *)
LEMMA LookKeeps ==
  ASSUME ReadInv, reading' \in {Bound} \cup Listing \cup Hashing, at \in DOMAIN Candidates,
         reading' # Bound => Here \notin Known \cup drifted,
         UNCHANGED <<disk, scans, at, cache, drifted, seen, snapshot>>
  PROVE  ReadInv'
  BY DEF ReadInv, ReadingFormed, Position, Vouched, Gap, SnapshotAgrees, Lapsed, Known, Here

LEMMA PersistKeeps == ReadInv /\ Persist => ReadInv'
  <1> SUFFICES ASSUME ReadInv, Persist PROVE ReadInv'
    OBVIOUS
  <1> USE CandidatesListed DEF ReadInv
  <1>1. /\ at = Len(Candidates) + 1 /\ Len(seen) = Len(Candidates) /\ seen \in Seq(Observation)
        /\ DOMAIN seen = 1 .. Len(Candidates)
    BY DEF Persist, Position, ReadingFormed
  <1>2. reading = Nothing /\ reading' = Nothing
    BY <1>1 DEF Persist, Position
  <1>3. ASSUME NEW p \in Placement
        PROVE  \E n \in DOMAIN Candidates :
                  /\ Candidates[n] = p /\ SeenOf[p] = seen[n] /\ SeenOf[p] \in Observation
    <2> DEFINE n == CHOOSE m \in DOMAIN Candidates : Candidates[m] = p
    <2>1. n \in DOMAIN Candidates /\ Candidates[n] = p
      BY PackagesAssumption
    <2>2. SeenOf[p] = seen[n]
      BY DEF SeenOf
    <2> HIDE DEF n
    <2> QED  BY <2>1, <2>2, <1>1
  <1>4. SeenOf \in [Placement -> Observation]
    <2>1. SeenOf = [p \in Placement |-> SeenOf[p]]
      BY DEF SeenOf
    <2> HIDE DEF SeenOf
    <2> QED  BY <1>3, <2>1
  <1>5. \A p, q \in Placement :
           /\ Home[p] = Home[q] /\ SeenOf[p].complete /\ SeenOf[q].complete
           /\ (\A o \in Placement : Home[o] = Home[p] => ~SeenOf[o].lapsed)
           => SeenOf[p] = SeenOf[q]
    <2> SUFFICES ASSUME NEW p \in Placement, NEW q \in Placement, Home[p] = Home[q],
                        SeenOf[p].complete, SeenOf[q].complete, SeenOf[p] # SeenOf[q]
                 PROVE  \E o \in Placement : Home[o] = Home[p] /\ SeenOf[o].lapsed
      OBVIOUS
    <2>1. PICK n \in DOMAIN Candidates : Candidates[n] = p /\ SeenOf[p] = seen[n]
      BY <1>3
    <2>2. PICK m \in DOMAIN Candidates : Candidates[m] = q /\ SeenOf[q] = seen[m]
      BY <1>3
    <2>3. PICK k \in DOMAIN seen : Home[Candidates[k]] = Home[p] /\ seen[k].lapsed
      BY <1>1, <2>1, <2>2 DEF Vouched, Gap
    <2>4. /\ Candidates[k] \in Placement /\ k \in DOMAIN Candidates
          /\ \A i \in DOMAIN Candidates : Candidates[i] = Candidates[k] => i = k
      BY <1>1, PackagesAssumption
    <2>5. SeenOf[Candidates[k]] = seen[k]
      BY <1>3, <2>4
    <2> QED  BY <2>3, <2>4, <2>5
  <1>6. CASE UNCHANGED snapshot
    <2>1. ReadingFormed'
      BY <1>2, <1>6 DEF ReadingFormed, Persist, package, Known
    <2>2. SnapshotAgrees'
      BY <1>6 DEF SnapshotAgrees, Lapsed
    <2> QED  BY <1>2, <2>1, <2>2 DEF Position, Vouched, Persist, Known
  <1>7. CASE snapshot' = [id |-> scans, of |-> SeenOf]
    <2>1. ReadingFormed'
      BY <1>2, <1>4, <1>7 DEF ReadingFormed, Persist, package, Known
    <2>2. SnapshotAgrees'
      <3>1. snapshot'.of = SeenOf /\ DOMAIN snapshot'.of = Placement
        BY <1>4, <1>7
      <3> HIDE DEF SeenOf
      <3> QED  BY <3>1, <1>5 DEF SnapshotAgrees, Lapsed
    <2> QED  BY <1>2, <2>1, <2>2 DEF Position, Vouched, Persist, Known
  <1> QED  BY <1>6, <1>7 DEF Persist

LEMMA EditKeeps ==
  ASSUME ReadInv, NEW p \in Package, NEW f \in File, NEW c \in Contents, Edit(p, f, c)
  PROVE  ReadInv'
  <1>1. disk' \in [Package -> [File -> Contents]]
    BY DEF ReadInv, ReadingFormed, Edit
  <1> QED  BY <1>1 DEF ReadInv, ReadingFormed, Position, Vouched, Gap, SnapshotAgrees, Lapsed, Known, Here, Edit

LEMMA ReadStepKeeps == ReadInv /\ ReadStep => ReadInv'
  <1> SUFFICES ASSUME ReadInv, ReadStep PROVE ReadInv'
    OBVIOUS
  <1>1. CASE ReadEntrypoint
    <2>1. at \in DOMAIN Candidates
      BY <1>1 DEF ReadEntrypoint, ReadInv, Position, Bound, Nothing
    <2>2. reading' \in Listing
      BY <1>1, <2>1, CandidatesListed
      DEF ReadEntrypoint, Listing, ReadInv, ReadingFormed, Here, File, Entrypoint
    <2> QED  BY <1>1, <2>1, <2>2, LookKeeps DEF ReadEntrypoint, package
  <1>2. CASE ListPackage
    <2>1. reading \in Listing /\ at \in DOMAIN Candidates /\ Here \notin Known \cup drifted
      BY <1>2 DEF ListPackage, ReadInv, ReadingFormed, Position, Nothing, Bound, Hashing
    <2>2. <<>> \in FilesRead
      BY DEF FilesRead
    <2>3. reading' \in Hashing
      BY <1>2, <2>1, <2>2 DEF ListPackage, Listing, Hashing
    <2> QED  BY <1>2, <2>1, <2>3, LookKeeps DEF ListPackage, package
  <1>3. CASE HashFile
    <2>1. reading \notin {Nothing, Bound}
      BY <1>3 DEF HashFile, Nothing, Bound
    <2>2. at \in DOMAIN Candidates /\ Here \notin Known \cup drifted
      BY <2>1 DEF ReadInv, Position
    <2> QED  BY <1>3, <2>2, HashKeeps, LookKeeps DEF HashFile, package
  <1>4. CASE CheckBinding
    <2>1. CASE reading' = Bound /\ UNCHANGED <<at, cache, seen>>
      BY <1>4, <2>1, LookKeeps DEF CheckBinding, package
    <2>2. CASE Lapse
      BY <1>4, <2>2, LapseKeeps DEF CheckBinding, package
    <2> QED  BY <1>4, <2>1, <2>2 DEF CheckBinding
  <1> QED  BY <1>1, <1>2, <1>3, <1>4, ReuseKeeps, ObserveKeeps, PersistKeeps DEF ReadStep

(* Commands leave the Scan's observations as they are.                     *)
LEMMA OutsideKeeps ==
  ASSUME ReadInv, disk' \in [Package -> [File -> Contents]], UNCHANGED <<scans, scanning, snapshot>>
  PROVE  ReadInv'
  BY DEF ReadInv, ReadingFormed, Position, Vouched, Gap, SnapshotAgrees, Lapsed, Known, Here, scanning

-----------------------------------------------------------------------------
(* Updates.                                                                *)
LEMMA TrustsStays ==
  ASSUME TrustKept, NEW c \in Contents, Trusts(c)
  PROVE  Trusts(c)'
  <1>1. c # Gone /\ Declared(c) \in Revision
    BY DEF Trusts, Declared, Contents, Entry
  <1> QED  BY <1>1 DEF TrustKept, Trusts

LEMMA InitUpdateInv == Init => UpdateInv
  <1> SUFFICES ASSUME Init PROVE UpdateInv
    OBVIOUS
  <1>1. BaselinesFormed
    BY DEF Init, ReadingInit, BaselinesFormed, NoBaseline, Contents
  <1>2. UpdatesFormed /\ DraftJudged /\ PlansJudged /\ NoSilentUpdate
    BY DEF Init, UpdatesFormed, DraftJudged, PlansJudged, NoSilentUpdate
  <1> QED  BY <1>1, <1>2 DEF UpdateInv

(* What an operation, a file to replace or a Plan may be read from.        *)
LEMMA PlanFormed ==
  ASSUME UpdatesFormed, NEW n \in DOMAIN plans
  PROVE  /\ plans[n] \in PlanRecord /\ plans[n].updates \in Updates
         /\ DOMAIN plans[n].updates \subseteq Placement
         /\ \A p \in DOMAIN plans[n].updates : plans[n].updates[p] \in UpdateRecord
         /\ Operated(n) \subseteq DOMAIN plans[n].updates
  <1>1. plans[n] \in PlanRecord
    BY DEF UpdatesFormed
  <1>2. plans[n].updates \in Updates
    BY <1>1 DEF PlanRecord
  <1>3. PICK S \in SUBSET Placement : plans[n].updates \in [S -> UpdateRecord]
    BY <1>2 DEF Updates
  <1> HIDE DEF UpdateRecord
  <1> QED  BY <1>1, <1>2, <1>3 DEF Operated, Changing

(* A step that leaves baselines and Plans as they are.                     *)
LEMMA QuietKeeps ==
  ASSUME UpdateInv, UNCHANGED <<baseline, plans, drafting, running, replaced>>,
         drafting # NoDraft => UNCHANGED <<at, latest>>,
         latest' \in Nat, latest' # 0 => snapshot'.id # 0,
         receipts' \in Seq(Receipt), \A n \in DOMAIN receipts' : receipts'[n].plan \in DOMAIN plans
  PROVE  UpdateInv'
  <1> USE DEF UpdateInv
  <1>1. BaselinesFormed' /\ NoSilentUpdate' /\ PlansJudged' 
    BY DEF BaselinesFormed, NoSilentUpdate, PlansJudged, Judged, Trusts
  <1>2. UpdatesFormed'
    BY DEF UpdatesFormed, Operated, Changing
  <1>3. DraftJudged'
    BY DEF DraftJudged, Trusts
  <1> QED  BY <1>1, <1>2, <1>3

(* The status of a Plan changes.                                           *)
LEMMA StatusKeepsRecords ==
  ASSUME UpdatesFormed, NEW n \in DOMAIN plans, NEW s \in PlanStatus,
         plans' = [plans EXCEPT ![n].status = s]
  PROVE  /\ plans' \in Seq(PlanRecord) /\ DOMAIN plans' = DOMAIN plans
         /\ \A m \in DOMAIN plans : plans'[m].updates = plans[m].updates
  <1>1. plans[n] \in PlanRecord /\ plans \in Seq(PlanRecord)
    BY DEF UpdatesFormed
  <1>2. /\ [plans[n] EXCEPT !.status = s] \in PlanRecord
        /\ [plans[n] EXCEPT !.status = s].updates = plans[n].updates
    BY <1>1 DEF PlanRecord
  <1>3. plans' = [plans EXCEPT ![n] = [plans[n] EXCEPT !.status = s]]
    OBVIOUS
  <1> HIDE DEF PlanRecord
  <1> QED  BY <1>1, <1>2, <1>3

LEMMA StatusKeeps ==
  ASSUME UpdatesFormed, PlansJudged, UNCHANGED baseline, NEW n \in DOMAIN plans, NEW s \in PlanStatus,
         plans' = [plans EXCEPT ![n].status = s]
  PROVE  plans' \in Seq(PlanRecord) /\ DOMAIN plans' = DOMAIN plans /\ PlansJudged'
  <1>1. /\ plans' \in Seq(PlanRecord) /\ DOMAIN plans' = DOMAIN plans
        /\ \A m \in DOMAIN plans : plans'[m].updates = plans[m].updates
    BY StatusKeepsRecords
  <1>2. \A u : Judged(u) => Judged(u)'
    BY DEF Judged, Trusts
  <1>3. PlansJudged'
    BY <1>1, <1>2 DEF PlansJudged
  <1> QED  BY <1>1, <1>3

LEMMA ReadCurrentKeeps ==
  ASSUME ReadInv, UpdateInv, NEW asked \in Asked, ReadCurrent(asked)
  PROVE  UpdateInv'
  <1> USE DEF UpdateInv
  <1>1. asked \in [DOMAIN asked -> Request] /\ DOMAIN asked \subseteq Placement
    BY UpdatesAssumption
  <1>2. ASSUME NEW p \in DOMAIN asked, asked[p].choice = NoChoice
        PROVE  Trusts(disk[Home[p]][Entrypoint])
    <2> DEFINE current == disk[Home[p]][Entrypoint]
    <2>1. Accepted(p, asked[p], current)
      BY DEF ReadCurrent
    <2>2. Updatable(p) /\ TrustedFor(p) # Gone /\ current = TrustedFor(p)
      BY <2>1, <1>2 DEF Accepted, LocallyModified
    <2>3. Shown(p).entry \in Contents
      BY <1>1 DEF ReadCurrent, UpdatesFormed, ReadInv, ReadingFormed, Observation, Shown
    <2>4. From(p) \in Revision
      BY <2>2, <2>3 DEF Updatable, From, Declared, Contents, Entry
    <2>5. Declared(current) = From(p) /\ From(p) # 0
      BY <2>2, <2>4, PackagesAssumption DEF BaselinesFormed, TrustedFor, Declared
    <2> QED  BY <2>2, <2>5 DEF Trusts, TrustedFor
  <1>3. DraftJudged'
    <2>1. drafting'.asked = asked /\ \A p \in DOMAIN asked : drafting'.read[p] = disk[Home[p]][Entrypoint]
      BY DEF ReadCurrent
    <2>2. at' = 0 /\ running' = Nobody /\ latest' # 0 /\ UNCHANGED baseline
      BY DEF ReadCurrent, Idle, readingVars, scanning
    <2> QED  BY <1>1, <1>2, <2>1, <2>2 DEF DraftJudged, Trusts
  <1>4. BaselinesFormed' /\ NoSilentUpdate' /\ PlansJudged' /\ UpdatesFormed'
    BY DEF ReadCurrent, readingVars, BaselinesFormed, NoSilentUpdate, PlansJudged, Judged, Trusts,
           UpdatesFormed, Operated, Changing
  <1> QED  BY <1>3, <1>4

LEMMA PrepareKeeps == ReadInv /\ UpdateInv /\ PreparePlan => UpdateInv'
  <1> SUFFICES ASSUME ReadInv, UpdateInv, PreparePlan PROVE UpdateInv'
    OBVIOUS
  <1> USE DEF UpdateInv
  <1> DEFINE updates == [p \in DOMAIN drafting.asked |-> Update(p)]
             prepared == [scan |-> latest, updates |-> updates, status |-> "ready"]
  <1>1. /\ running = Nobody /\ latest # 0 /\ latest \in Nat /\ plans \in Seq(PlanRecord)
        /\ drafting.asked \in [DOMAIN drafting.asked -> Request]
        /\ DOMAIN drafting.asked \subseteq Placement
        /\ \A p \in DOMAIN drafting.asked :
              drafting.asked[p].choice = NoChoice => Trusts(drafting.read[p])
    BY DEF PreparePlan, DraftJudged, UpdatesFormed
  <1>2. ASSUME NEW p \in DOMAIN drafting.asked
        PROVE  Update(p) \in UpdateRecord /\ Judged(Update(p))
    <2>1. /\ drafting.asked[p] \in Request /\ drafting.asked[p].upstream \in Upstream
          /\ drafting.asked[p].choice \in Choice \cup {NoChoice}
      BY <1>1 DEF Request
    <2>2. ChosenFor(drafting.asked[p]) \in Choice
      BY <2>1 DEF ChosenFor, Choice
    <2>3. disk[Home[p]][Entrypoint] \in Contents
      BY <1>1, PackagesAssumption DEF ReadInv, ReadingFormed, File
    <2>4. From(p) \in Revision \cup {0}
      <3>1. Shown(p).entry \in Contents
        BY <1>1 DEF UpdatesFormed, ReadInv, ReadingFormed, Observation, Shown
      <3> QED  BY <3>1 DEF From, Declared, Contents, Entry
    <2>5. Update(p) \in UpdateRecord
      BY <2>1, <2>2, <2>3, <2>4 DEF Update, UpdateRecord
    <2>6. Judged(Update(p))
      BY <1>1 DEF Judged, Update
    <2> QED  BY <2>5, <2>6
  <1>3. updates \in [DOMAIN drafting.asked -> UpdateRecord] /\ \A p \in DOMAIN updates : Judged(updates[p])
    BY <1>2
  <1>4. updates \in Updates
    BY <1>1, <1>3 DEF Updates
  <1> HIDE DEF updates
  <1>5. prepared \in PlanRecord /\ prepared.updates = updates
    BY <1>1, <1>4 DEF PlanRecord, PlanStatus
  <1>6. plans' \in {plans, Append(plans, prepared)}
    BY DEF PreparePlan, updates
  <1> HIDE DEF prepared
  <1>7. /\ plans' \in Seq(PlanRecord) /\ DOMAIN plans \subseteq DOMAIN plans'
        /\ \A n \in DOMAIN plans' : (n \in DOMAIN plans /\ plans'[n] = plans[n]) \/ plans'[n] = prepared
    BY <1>1, <1>5, <1>6
  <1>8. UNCHANGED baseline
    BY DEF PreparePlan, readingVars
  <1>9. PlansJudged'
    BY <1>3, <1>5, <1>7, <1>8 DEF PlansJudged, Judged, Trusts
  <1>10. UpdatesFormed'
    BY <1>1, <1>7 DEF PreparePlan, readingVars, UpdatesFormed
  <1> QED  BY <1>8, <1>9, <1>10
       DEF PreparePlan, BaselinesFormed, NoSilentUpdate, DraftJudged

LEMMA BeginKeeps ==
  ASSUME UpdateInv, NEW n \in DOMAIN plans, BeginApply(n)
  PROVE  UpdateInv'
  <1> USE DEF UpdateInv
  <1>1. UNCHANGED <<baseline, snapshot, drafting, replaced, latest, receipts>> /\ drafting = NoDraft
    BY DEF BeginApply, readingVars, Idle
  <1>2. plans' = [plans EXCEPT ![n].status = "applying"] /\ "applying" \in PlanStatus
    BY DEF BeginApply, PlanStatus
  <1>3. /\ plans' \in Seq(PlanRecord) /\ DOMAIN plans' = DOMAIN plans /\ PlansJudged'
        /\ plans \in Seq(PlanRecord)
    BY <1>1, <1>2, StatusKeeps DEF UpdatesFormed
  <1>4. running' = [plan |-> n, done |-> <<>>, next |-> "validate"] /\ n \in Nat
    BY <1>3 DEF BeginApply
  <1>5. running' \in Apply /\ running'.plan \in DOMAIN plans' /\ DOMAIN running'.done = {}
    BY <1>3, <1>4 DEF Apply, Stages
  <1>6. UpdatesFormed'
    BY <1>1, <1>3, <1>5 DEF UpdatesFormed
  <1> QED  BY <1>1, <1>3, <1>6 DEF BaselinesFormed, NoSilentUpdate, DraftJudged

LEMMA NextUpdatedPending ==
  ASSUME UpdatesFormed, running # Nobody, Pending # {}
  PROVE  /\ NextUpdated \in Pending /\ NextUpdated \in DOMAIN Plan.updates /\ NextUpdated \in Placement
         /\ Plan.updates[NextUpdated] \in UpdateRecord /\ running.plan \in DOMAIN plans
         /\ NextUpdated \in Operated(running.plan)
  <1>1. running.plan \in DOMAIN plans
    BY DEF UpdatesFormed
  <1>2. Pending \subseteq DOMAIN Plan.updates /\ Pending \subseteq Placement
    BY <1>1, PlanFormed DEF Pending, Plan
  <1>3. ASSUME NEW p \in Pending PROVE Order(p) \in Nat
    <2>1. \E n \in DOMAIN Candidates : Candidates[n] = p
      BY <1>2, PackagesAssumption
    <2>2. Order(p) \in DOMAIN Candidates
      BY <2>1 DEF Order
    <2> QED  BY <2>2, CandidatesListed
  <1>4. \E n \in {Order(p) : p \in Pending} : \A m \in {Order(p) : p \in Pending} : n <= m
    BY <1>3, LeastExists
  <1>5. \E p \in Pending : \A q \in Pending : Order(p) <= Order(q)
    BY <1>4
  <1>6. NextUpdated \in Pending
    BY <1>5 DEF NextUpdated
  <1> QED  BY <1>1, <1>2, <1>6, PlanFormed DEF Plan, Pending

(* Only what comes next in the running Apply changes.                      *)
LEMMA GoesKeeps ==
  ASSUME ReadInv, UpdateInv, running # Nobody, NEW s \in Stages, Goes(s),
         UNCHANGED <<disk, scans, scanning, snapshot, baseline, latest, plans, drafting, receipts, replaced>>
  PROVE  ReadInv' /\ UpdateInv'
  <1> USE DEF UpdateInv
  <1>1. ReadInv'
    BY OutsideKeeps DEF ReadInv, ReadingFormed
  <1>2. running \in Apply
    BY DEF UpdatesFormed
  <1>3. running' \in Apply /\ running'.plan = running.plan /\ running'.done = running.done
    BY <1>2 DEF Apply, Goes
  <1>4. UpdatesFormed'
    BY <1>3 DEF UpdatesFormed, Operated, Changing
  <1> QED  BY <1>1, <1>4
       DEF BaselinesFormed, NoSilentUpdate, DraftJudged, PlansJudged, Judged, Trusts

(* An operation's file is written.                                         *)
LEMMA WriteKeeps ==
  ASSUME ReadInv, UpdateInv, running # Nobody, NEW p, p \in Operated(running.plan),
         Write(p), NoSilentUpdate', \A x \in replaced' : x.was \in Contents,
         UNCHANGED <<scans, scanning, snapshot, baseline, latest, plans, drafting, receipts>>
  PROVE  ReadInv' /\ UpdateInv'
  <1> USE DEF UpdateInv
  <1> DEFINE update == Plan.updates[p]
             file == FileOf(update)
  <1>1. /\ running \in Apply /\ running.plan \in DOMAIN plans /\ drafting = NoDraft
        /\ \A k \in DOMAIN running.done : running.done[k] \in Operated(running.plan)
    BY DEF UpdatesFormed, DraftJudged
  <1>2. p \in Placement /\ update \in UpdateRecord
    BY <1>1, PlanFormed DEF Plan
  <1>3. file \in File /\ Home[p] \in Package /\ update.upstream \in Contents
    BY <1>2, PackagesAssumption DEF FileOf, File, Sibling, UpdateRecord, Upstream, Contents, Entry
  <1>4. disk' = [disk EXCEPT ![Home[p]][file] = update.upstream]
    BY DEF Write
  <1> HIDE DEF update, file
  <1>5. disk' \in [Package -> [File -> Contents]]
    BY <1>3, <1>4 DEF ReadInv, ReadingFormed
  <1>6. ReadInv'
    BY <1>5, OutsideKeeps
  <1>7. running.done \in Seq(Placement) /\ Append(running.done, p) \in Seq(Placement)
    BY <1>1, <1>2 DEF Apply
  <1>8. /\ running' \in Apply /\ running'.plan = running.plan
        /\ running'.done = Append(running.done, p)
    <2>1. running' = [running EXCEPT !.done = Append(running.done, p), !.next = "stage"]
      BY DEF Write
    <2> QED  BY <1>1, <1>7, <2>1 DEF Apply, Stages
  <1>9. \A k \in DOMAIN running'.done : running'.done[k] \in Operated(running.plan)
    BY <1>1, <1>7, <1>8
  <1>10. UpdatesFormed'
    <2>1. plans'[running'.plan].updates = plans[running.plan].updates
      BY <1>8
    <2>2. \A k \in DOMAIN running'.done : running'.done[k] \in Changing(plans[running.plan].updates)
      BY <1>9, Zenon DEF Operated
    <2> QED  BY <1>1, <1>8, <2>1, <2>2 DEF UpdatesFormed, Operated, Changing
  <1> QED  BY <1>1, <1>6, <1>10 DEF BaselinesFormed, DraftJudged, PlansJudged, Judged, Trusts

LEMMA SwapKeeps == ReadInv /\ UpdateInv /\ Swap => ReadInv' /\ UpdateInv'
  <1> SUFFICES ASSUME ReadInv, UpdateInv, Swap PROVE ReadInv' /\ UpdateInv'
    OBVIOUS
  <1> DEFINE p == NextUpdated
             new == [update |-> Plan.updates[p], was |-> FileThere(p)]
  <1>1. /\ running # Nobody /\ Pending # {}
        /\ UNCHANGED <<scans, scanning, snapshot, baseline, latest, plans, drafting, receipts>>
    BY DEF Swap, Turn
  <1>2. /\ p \in Operated(running.plan) /\ p \in DOMAIN Plan.updates /\ p \in Placement
        /\ Plan.updates[p] \in UpdateRecord /\ running.plan \in DOMAIN plans
    BY <1>1, NextUpdatedPending DEF UpdateInv
  <1>3. CASE Goes("roll back") /\ UNCHANGED <<disk, replaced>>
    BY <1>1, <1>3, GoesKeeps DEF Stages
  <1>4. CASE Write(p) /\ replaced' = replaced \cup {new}
    <2>1. FileThere(p) \in Contents
      BY <1>2, PackagesAssumption
      DEF FileThere, FileOf, File, Sibling, UpdateRecord, Upstream, Entry, ReadInv, ReadingFormed
    <2>2. Judged(Plan.updates[p])
      BY <1>2 DEF UpdateInv, PlansJudged, Plan
    <2>3. /\ new.was = FileThere(p) /\ new.update = Plan.updates[p]
      OBVIOUS
    <2> HIDE DEF new, p
    <2>4. \A x \in replaced' : x.was \in Contents
      BY <1>4, <2>1, <2>3 DEF UpdateInv, UpdatesFormed
    <2>5. \A x \in replaced' : Excepted(x) \/ Trusts(x.was)
      BY <1>4, <2>2, <2>3 DEF UpdateInv, NoSilentUpdate, Trusts, Judged, Excepted
    <2>6. NoSilentUpdate'
      BY <1>1, <2>5 DEF NoSilentUpdate, Trusts, Excepted
    <2> QED  BY <1>1, <1>2, <1>4, <2>4, <2>6, WriteKeeps
  <1> QED  BY <1>3, <1>4 DEF Swap

LEMMA CreateKeeps == ReadInv /\ UpdateInv /\ CreateSibling => ReadInv' /\ UpdateInv'
  <1> SUFFICES ASSUME ReadInv, UpdateInv, CreateSibling PROVE ReadInv' /\ UpdateInv'
    OBVIOUS
  <1>1. /\ running # Nobody /\ Pending # {}
        /\ UNCHANGED <<scans, scanning, snapshot, baseline, latest, plans, drafting, receipts, replaced>>
    BY DEF CreateSibling, Turn
  <1>2. NextUpdated \in Operated(running.plan)
    BY <1>1, NextUpdatedPending DEF UpdateInv
  <1>3. CASE Goes("roll back") /\ UNCHANGED disk
    BY <1>1, <1>3, GoesKeeps DEF Stages
  <1>4. CASE Write(NextUpdated)
    <2>1. NoSilentUpdate' /\ \A x \in replaced' : x.was \in Contents
      BY <1>1 DEF UpdateInv, UpdatesFormed, NoSilentUpdate
    <2> QED  BY <1>1, <1>2, <1>4, <2>1, WriteKeeps
  <1> QED  BY <1>3, <1>4 DEF CreateSibling

(* What was put back are contents.                                         *)
LEMMA PutBackFormed ==
  ASSUME ReadInv, NEW n \in DOMAIN plans, UpdatesFormed, NEW ps, ps \subseteq Operated(n),
         PutBack(plans[n].updates, ps)
  PROVE  disk' \in [Package -> [File -> Contents]]
  <1> DEFINE updates == plans[n].updates
             back == {p \in ps : \A q \in Overwritten(updates, ps) : Order(q) < Order(p)}
  <1>1. disk' = Restored(updates, back)
    BY DEF PutBack
  <1>2. \A p \in back : updates[p].expected \in Contents
    BY PlanFormed DEF UpdateRecord
  <1> HIDE DEF updates, back
  <1>3. ASSUME NEW q \in Package, NEW f \in File
        PROVE  (LET put == {p \in back : Home[p] = q /\ FileOf(updates[p]) = f} IN
                IF put = {} THEN disk[q][f]
                ELSE LET update == updates[CHOOSE p \in put : TRUE] IN
                     IF f = Entrypoint THEN update.expected ELSE Gone) \in Contents
    <2> DEFINE put == {p \in back : Home[p] = q /\ FileOf(updates[p]) = f}
    <2>1. disk[q][f] \in Contents /\ Gone \in Contents
      BY DEF ReadInv, ReadingFormed, Contents
    <2>2. CASE put = {}
      BY <2>1, <2>2
    <2>3. CASE put # {}
      <3>1. (CHOOSE p \in put : TRUE) \in put
        BY <2>3
      <3>2. updates[CHOOSE p \in put : TRUE].expected \in Contents
        BY <1>2, <3>1
      <3> QED  BY <2>1, <2>3, <3>2
    <2> QED  BY <2>2, <2>3
  <1> QED  BY <1>1, <1>3 DEF Restored

(* The running Apply ends; no baseline changes.                            *)
LEMMA EndKeeps ==
  ASSUME UpdateInv, running # Nobody, NEW s \in PlanStatus, Concludes(s),
         UNCHANGED <<snapshot, baseline, drafting, receipts, replaced, latest>>
  PROVE  UpdateInv'
  <1> USE DEF UpdateInv
  <1>1. running.plan \in DOMAIN plans /\ drafting = NoDraft
    BY DEF UpdatesFormed, DraftJudged
  <1>2. plans' \in Seq(PlanRecord) /\ DOMAIN plans' = DOMAIN plans /\ PlansJudged'
    BY <1>1, StatusKeeps DEF Concludes
  <1>3. UpdatesFormed'
    BY <1>2 DEF UpdatesFormed, Concludes
  <1> QED  BY <1>1, <1>2, <1>3 DEF BaselinesFormed, NoSilentUpdate, DraftJudged, Concludes

LEMMA RollBackKeeps == ReadInv /\ UpdateInv /\ RollBack => ReadInv' /\ UpdateInv'
  <1> SUFFICES ASSUME ReadInv, UpdateInv, RollBack PROVE ReadInv' /\ UpdateInv'
    OBVIOUS
  <1> DEFINE staged == Done \cup (IF Replaces THEN {NextUpdated} ELSE {})
  <1>1. /\ UpdatesFormed /\ running # Nobody /\ running.plan \in DOMAIN plans
        /\ staged \subseteq Operated(running.plan)
    <2>1. UpdatesFormed /\ running # Nobody /\ Pending # {}
      BY DEF RollBack, Turn, UpdateInv
    <2> QED  BY <2>1, NextUpdatedPending DEF UpdatesFormed, Done
  <1>2. PutBack(plans[running.plan].updates, staged)
    BY DEF RollBack, Plan
  <1> HIDE DEF staged
  <1>3. disk' \in [Package -> [File -> Contents]]
    BY <1>1, <1>2, PutBackFormed
  <1>4. ReadInv'
    BY <1>3, OutsideKeeps DEF RollBack
  <1>5. \E s \in PlanStatus : Concludes(s)
    BY DEF RollBack, PlanStatus
  <1> QED  BY <1>1, <1>4, <1>5, EndKeeps DEF RollBack

(* Steps that change no file: a check, or the end of the Apply.            *)
LEMMA LookingKeeps ==
  ASSUME ReadInv, UpdateInv, ValidateSequence \/ StageReplacement \/ Compare
  PROVE  ReadInv' /\ UpdateInv' /\ UNCHANGED baseline
  <1>1. /\ running # Nobody
        /\ UNCHANGED <<disk, scans, scanning, snapshot, baseline, latest, drafting, receipts, replaced>>
    BY DEF ValidateSequence, StageReplacement, Compare, Turn, readingVars, package
  <1>2. CASE UNCHANGED plans /\ \E s \in Stages : Goes(s)
    BY <1>1, <1>2, GoesKeeps
  <1>3. CASE \E s \in PlanStatus : Concludes(s)
    <2>1. ReadInv'
      BY <1>1, OutsideKeeps DEF ReadInv, ReadingFormed
    <2> QED  BY <1>1, <1>3, <2>1, EndKeeps
  <1>4. "ready" \in PlanStatus /\ "recovery_required" \in PlanStatus
    BY DEF PlanStatus
  <1>5. \A s \in {"stage", "compare", "swap", "roll back"} : s \in Stages
    BY DEF Stages
  <1> QED  BY <1>2, <1>3, <1>4, <1>5 DEF ValidateSequence, StageReplacement, Compare

LEMMA UndoKeeps ==
  ASSUME ReadInv, UpdateInv, NEW n \in DOMAIN receipts, Undo(n)
  PROVE  ReadInv' /\ UpdateInv'
  <1>1. /\ UpdatesFormed /\ receipts[n].plan \in DOMAIN plans /\ receipts \in Seq(Receipt)
        /\ receipts[n] \in Receipt /\ latest \in Nat
    BY DEF UpdateInv, UpdatesFormed
  <1>2. disk' \in [Package -> [File -> Contents]]
    BY <1>1, PutBackFormed DEF Undo, Operated
  <1>3. ReadInv'
    BY <1>2, OutsideKeeps DEF Undo
  <1>4. [receipts[n] EXCEPT !.live = FALSE] \in Receipt
        /\ [receipts[n] EXCEPT !.live = FALSE].plan = receipts[n].plan
    BY <1>1 DEF Receipt
  <1>5. receipts' \in {receipts, [receipts EXCEPT ![n] = [receipts[n] EXCEPT !.live = FALSE]]}
    BY DEF Undo
  <1>6. receipts' \in Seq(Receipt) /\ \A k \in DOMAIN receipts' : receipts'[k].plan \in DOMAIN plans
    <2> DEFINE dead == [receipts[n] EXCEPT !.live = FALSE]
    <2>1. dead \in Receipt /\ dead.plan \in DOMAIN plans
      BY <1>1, <1>4
    <2>2. receipts' \in {receipts, [receipts EXCEPT ![n] = dead]}
      BY <1>5
    <2>3. \A k \in DOMAIN receipts : receipts[k].plan \in DOMAIN plans
      BY DEF UpdateInv, UpdatesFormed
    <2> HIDE DEF Receipt, dead
    <2>4. [receipts EXCEPT ![n] = dead] \in Seq(Receipt)
      BY <1>1, <2>1
    <2>5. CASE receipts' = [receipts EXCEPT ![n] = dead]
      BY <1>1, <2>1, <2>3, <2>4, <2>5
    <2> QED  BY <1>1, <2>2, <2>3, <2>5
  <1>7. latest' \in {latest, 0} /\ drafting = NoDraft
    BY DEF Undo, Idle
  <1>8. UpdateInv'
    BY <1>1, <1>6, <1>7, QuietKeeps DEF Undo, UpdateInv, UpdatesFormed
  <1> QED  BY <1>3, <1>8

-----------------------------------------------------------------------------
(* The transaction of the Receipt.  What it trusts, of a revision that was *)
(* trusted before, is what was trusted.                                    *)
LEMMA PlacementsFinite == IsFiniteSet(Placement)
  <1> DEFINE N == 1 .. Len(Candidates)
  <1>1. Candidates \in [N -> Placement] /\ \A p \in Placement : \E n \in N : Candidates[n] = p
    BY CandidatesListed, PackagesAssumption
  <1>2. IsFiniteSet(N)
    BY CandidatesListed, FS_Interval
  <1> HIDE DEF N
  <1>3. Candidates \in Surjection(N, Placement)
    BY <1>1 DEF Surjection
  <1> QED  BY <1>2, <1>3, FS_Surjection

LEMMA AtMostOne ==
  ASSUME NEW S, IsFiniteSet(S), Cardinality(S) <= 1, NEW a \in S, NEW b \in S
  PROVE  a = b
  <1>1. Cardinality(S) \in Nat
    BY FS_CardinalityType
  <1>2. CASE Cardinality(S) = 0
    BY <1>2, FS_EmptySet
  <1>3. CASE Cardinality(S) = 1
    BY <1>3, FS_Singleton
  <1> QED  BY <1>1, <1>2, <1>3

LEMMA SettledFinite ==
  ASSUME UpdatesFormed, running # Nobody, NEW r \in Revision
  PROVE  /\ IsFiniteSet(Proposed(r) \cup ({baseline[r].trusted} \ {Gone}))
         /\ \A c \in Proposed(r) : c \in Upstream /\ c.revision = r
  <1> DEFINE Q == {q \in Operated(running.plan) : Plan.updates[q].upstream.revision = r}
             up == [q \in Q |-> Plan.updates[q].upstream]
  <1>1. Q \subseteq Placement /\ \A q \in Q : Plan.updates[q] \in UpdateRecord
    <2>1. running.plan \in DOMAIN plans
      BY DEF UpdatesFormed
    <2> QED  BY <2>1, PlanFormed DEF Plan
  <1>2. Proposed(r) = {up[q] : q \in Q}
    BY DEF Proposed
  <1>3. \A c \in Proposed(r) : c \in Upstream /\ c.revision = r
    BY <1>1 DEF Proposed, UpdateRecord
  <1>4. IsFiniteSet(Q)
    BY <1>1, PlacementsFinite, FS_Subset
  <1>5. up \in [Q -> Proposed(r)] /\ \A c \in Proposed(r) : \E q \in Q : up[q] = c
    BY <1>2
  <1> HIDE DEF Q, up
  <1>6. up \in Surjection(Q, Proposed(r))
    BY <1>5 DEF Surjection
  <1>7. IsFiniteSet(Proposed(r))
    BY <1>4, <1>6, FS_Surjection
  <1>8. IsFiniteSet({baseline[r].trusted} \ {Gone})
    <2>1. IsFiniteSet({baseline[r].trusted})
      BY FS_Singleton
    <2>2. {baseline[r].trusted} \ {Gone} \in SUBSET {baseline[r].trusted}
      OBVIOUS
    <2> QED  BY <2>1, <2>2, FS_Subset
  <1> QED  BY <1>3, <1>7, <1>8, FS_Union

LEMMA FinalizeKeeps == ReadInv /\ UpdateInv /\ Finalize => ReadInv' /\ UpdateInv' /\ TrustKept
  <1> SUFFICES ASSUME ReadInv, UpdateInv, Finalize PROVE ReadInv' /\ UpdateInv' /\ TrustKept
    OBVIOUS
  <1> USE DEF UpdateInv
  <1>1. /\ running # Nobody /\ running' = Nobody /\ drafting = NoDraft
        /\ running.plan \in DOMAIN plans /\ running \in Apply
        /\ UNCHANGED <<disk, snapshot, drafting, replaced>>
    BY DEF Finalize, DraftJudged, UpdatesFormed, package, Concludes
  <1>2. ReadInv'
    BY OutsideKeeps DEF Finalize, package, ReadInv, ReadingFormed
  <1>3. CASE /\ \A r \in Revision : Settles(r)
             /\ baseline' = Trusting
             /\ receipts' = Append(receipts, [plan |-> running.plan, live |-> TRUE])
             /\ Concludes("applied")
             /\ latest' = 0
    <2>1. ASSUME NEW r \in Revision
          PROVE  /\ Trusting[r] \in [first : Contents, trusted : Contents]
                 /\ Trusting[r].trusted # Gone => Trusting[r].trusted.revision = r
                 /\ baseline[r].trusted # Gone => Trusting[r].trusted = baseline[r].trusted
      <3>1. /\ baseline[r] \in [first : Contents, trusted : Contents]
            /\ baseline[r].trusted # Gone => baseline[r].trusted.revision = r
        BY DEF BaselinesFormed
      <3>2. CASE Proposed(r) = {}
        BY <3>1, <3>2 DEF Trusting
      <3>3. CASE Proposed(r) # {}
        <4> DEFINE content == CHOOSE c \in Proposed(r) : TRUE
        <4>1. content \in Proposed(r)
          BY <3>3
        <4>2. Trusting[r] = [FirstObserved(baseline[r], content) EXCEPT !.trusted = content]
          BY <3>3 DEF Trusting
        <4> HIDE DEF content
        <4>3. content \in Upstream /\ content.revision = r /\ content \in Contents
          BY <1>1, <4>1, SettledFinite DEF Upstream, Contents
        <4>4. /\ FirstObserved(baseline[r], content) \in [first : Contents, trusted : Contents]
          BY <3>1, <4>3 DEF FirstObserved
        <4>5. Trusting[r] \in [first : Contents, trusted : Contents] /\ Trusting[r].trusted = content
          BY <4>2, <4>3, <4>4
        <4>6. baseline[r].trusted # Gone => content = baseline[r].trusted
          <5> SUFFICES ASSUME baseline[r].trusted # Gone PROVE content = baseline[r].trusted
            OBVIOUS
          <5> DEFINE both == Proposed(r) \cup ({baseline[r].trusted} \ {Gone})
          <5>1. content \in both /\ baseline[r].trusted \in both
            BY <4>1
          <5>2. IsFiniteSet(both) /\ Cardinality(both) <= 1
            BY <1>1, <1>3, SettledFinite DEF Settles
          <5> HIDE DEF both
          <5> QED  BY <5>1, <5>2, AtMostOne
        <4> QED  BY <4>3, <4>5, <4>6
      <3> QED  BY <3>2, <3>3
    <2>2. Trusting = [r \in Revision |-> Trusting[r]]
      BY DEF Trusting
    <2> HIDE DEF Trusting
    <2>3. BaselinesFormed' /\ TrustKept
      BY <1>3, <2>1, <2>2 DEF BaselinesFormed, TrustKept
    <2>4. \A c \in Contents : Trusts(c) => Trusts(c)'
      BY <2>3, TrustsStays
    <2>5. plans' = [plans EXCEPT ![running.plan].status = "applied"] /\ "applied" \in PlanStatus
      BY <1>3 DEF Concludes, PlanStatus
    <2>6. /\ plans' \in Seq(PlanRecord) /\ DOMAIN plans' = DOMAIN plans
          /\ \A n \in DOMAIN plans : plans'[n].updates = plans[n].updates
      BY <1>1, <2>5, StatusKeepsRecords
    <2>7. PlansJudged'
      <3> SUFFICES ASSUME NEW n \in DOMAIN plans, NEW p \in DOMAIN plans[n].updates
                   PROVE  Judged(plans[n].updates[p])'
        BY <2>6 DEF PlansJudged
      <3>1. plans[n].updates[p] \in UpdateRecord /\ Judged(plans[n].updates[p])
        BY PlanFormed DEF PlansJudged
      <3>2. plans[n].updates[p].expected \in Contents
        BY <3>1 DEF UpdateRecord
      <3> QED  BY <2>4, <2>6, <3>1, <3>2 DEF Judged
    <2>8. UpdatesFormed'
      <3>1. [plan |-> running.plan, live |-> TRUE] \in Receipt
        BY <1>1 DEF Apply, Receipt
      <3> DEFINE new == [plan |-> running.plan, live |-> TRUE]
      <3>2. new.plan = running.plan
        OBVIOUS
      <3> HIDE DEF new
      <3>3. receipts' = Append(receipts, new) /\ new \in Receipt /\ receipts \in Seq(Receipt)
        BY <1>3, <3>1 DEF new, UpdatesFormed
      <3>4. receipts' \in Seq(Receipt) /\ \A n \in DOMAIN receipts' : receipts'[n].plan \in DOMAIN plans
        <4> HIDE DEF Receipt
        <4>1. \A n \in DOMAIN receipts' :
                 receipts'[n] = new \/ (n \in DOMAIN receipts /\ receipts'[n] = receipts[n])
          <5>1. Len(receipts) \in Nat /\ Len(receipts') = Len(receipts) + 1
            BY <3>3
          <5>2. DOMAIN receipts = 1 .. Len(receipts) /\ DOMAIN receipts' = 1 .. Len(receipts) + 1
            BY <3>3, <5>1
          <5> QED  BY <3>3, <5>1, <5>2
        <4> QED  BY <1>1, <3>2, <3>3, <4>1 DEF UpdatesFormed
      <3> QED  BY <1>1, <1>3, <2>6, <3>4 DEF UpdatesFormed
    <2>9. NoSilentUpdate'
      <3>1. \A x \in replaced : x.was \in Contents /\ (Excepted(x) \/ Trusts(x.was))
        BY DEF UpdatesFormed, NoSilentUpdate, Trusts, Excepted
      <3>2. \A x \in replaced : Excepted(x) \/ Trusts(x.was)'
        BY <2>4, <3>1
      <3> QED  BY <1>1, <3>2 DEF NoSilentUpdate, Trusts, Excepted
    <2> QED  BY <1>1, <1>2, <2>3, <2>7, <2>8, <2>9 DEF DraftJudged
  <1>4. CASE UNCHANGED <<baseline, receipts, plans, latest>>
    BY <1>1, <1>2, <1>4 DEF BaselinesFormed, TrustKept, UpdatesFormed, DraftJudged, PlansJudged,
          Judged, Trusts, NoSilentUpdate
  <1> QED  BY <1>3, <1>4 DEF Finalize

-----------------------------------------------------------------------------
LEMMA EditKeepsUpdates ==
  ASSUME UpdateInv, UNCHANGED <<governance, scans, at, snapshot, baseline>>
  PROVE  UpdateInv'
  <1>1. UNCHANGED <<latest, plans, drafting, running, receipts, recovery, replaced>>
    BY DEF governance
  <1> QED  BY <1>1, QuietKeeps DEF UpdateInv, UpdatesFormed

(* A Scan under way may not run beside a command; what it completes is the *)
(* latest Snapshot, and what it first observes leaves trusted what was.    *)
LEMMA ScanStepKeeps == ReadInv /\ UpdateInv /\ ScanStep => UpdateInv' /\ TrustKept
  <1> SUFFICES ASSUME ReadInv, UpdateInv, ScanStep PROVE UpdateInv' /\ TrustKept
    OBVIOUS
  <1> USE DEF UpdateInv
  <1>1. ReadInv' /\ UNCHANGED <<plans, drafting, running, receipts, recovery, replaced>>
    BY ReadStepKeeps DEF ScanStep
  <1>2. at # 0
    BY CandidatesListed DEF ScanStep, ReadStep, CheckBinding, Reuse, ReadEntrypoint, ListPackage, HashFile,
       Observe, Persist, ReadInv, Position, Nothing, Bound
  <1>3. drafting = NoDraft
    BY <1>2 DEF DraftJudged
  <1>4. latest' \in Nat /\ (latest' # 0 => snapshot'.id # 0)
    BY <1>1 DEF ScanStep, UpdatesFormed, ReadInv, ReadingFormed
  <1>5. CASE UNCHANGED baseline
    <2>1. UpdateInv'
      BY <1>1, <1>3, <1>4, <1>5, QuietKeeps DEF UpdatesFormed
    <2> QED  BY <1>5, <2>1 DEF TrustKept
  <1>6. CASE Persist /\ baseline' = [r \in Revision |->
                   IF Declares(r) THEN SourceBaseline(baseline[r], EntryNow(r)) ELSE baseline[r]]
    <2>1. ASSUME NEW r \in Revision, Declares(r)
          PROVE  EntryNow(r) \in Contents
      <3> DEFINE of == {n \in DOMAIN seen : Declared(seen[n].entry) = r}
                 n == CHOOSE n \in of : \A m \in of : n <= m
      <3>1. of # {} /\ of \subseteq Nat /\ of \subseteq DOMAIN Candidates
        <4>1. at = Len(Candidates) + 1 /\ Len(seen) = at - 1 /\ seen \in Seq(Observation)
          BY <1>2, <1>6 DEF Persist, ReadInv, Position, ReadingFormed
        <4>2. DOMAIN seen = 1 .. Len(Candidates)
          BY <4>1, CandidatesListed
        <4> QED  BY <2>1, <4>2, CandidatesListed DEF Declares
      <3>2. \E x \in of : \A m \in of : x <= m
        BY <3>1, LeastExists
      <3>3. n \in of
        BY <3>2
      <3>4. FirstWith(r) = Candidates[n]
        BY DEF FirstWith
      <3> HIDE DEF n, of
      <3>5. Home[FirstWith(r)] \in Package
        BY <3>1, <3>3, <3>4, CandidatesListed
      <3> QED  BY <3>5 DEF EntryNow, ReadInv, ReadingFormed, File
    <2>2. ASSUME NEW r \in Revision
          PROVE  /\ baseline'[r] \in [first : Contents, trusted : Contents]
                 /\ baseline'[r].trusted = baseline[r].trusted
      <3>1. baseline[r] \in [first : Contents, trusted : Contents]
        BY DEF BaselinesFormed
      <3>2. CASE Declares(r)
        <4>1. baseline'[r] = SourceBaseline(baseline[r], EntryNow(r)) /\ EntryNow(r) \in Contents
          BY <1>6, <2>1, <3>2
        <4> QED  BY <3>1, <4>1 DEF SourceBaseline, FirstObserved
      <3>3. CASE ~Declares(r)
        BY <1>6, <3>1, <3>3
      <3> QED  BY <3>2, <3>3
    <2>3. BaselinesFormed' /\ TrustKept
      <3>1. baseline' = [r \in Revision |-> baseline'[r]]
        BY <1>6
      <3> QED  BY <2>2, <3>1 DEF BaselinesFormed, TrustKept
    <2>4. \A c \in Contents : Trusts(c) => Trusts(c)'
      BY <2>3, TrustsStays
    <2>5. PlansJudged'
      <3> SUFFICES ASSUME NEW n \in DOMAIN plans, NEW p \in DOMAIN plans[n].updates
                   PROVE  Judged(plans[n].updates[p])'
        BY <1>1 DEF PlansJudged
      <3>1. plans[n].updates[p] \in UpdateRecord /\ Judged(plans[n].updates[p])
        BY PlanFormed DEF PlansJudged
      <3>2. plans[n].updates[p].expected \in Contents
        BY <3>1 DEF UpdateRecord
      <3> QED  BY <1>1, <2>4, <3>1, <3>2 DEF Judged
    <2>6. UpdatesFormed'
      BY <1>1, <1>4 DEF UpdatesFormed, Operated, Changing
    <2>7. NoSilentUpdate'
      <3>1. \A x \in replaced : x.was \in Contents /\ (Excepted(x) \/ Trusts(x.was))
        BY DEF UpdatesFormed, NoSilentUpdate, Trusts, Excepted
      <3>2. \A x \in replaced : Excepted(x) \/ Trusts(x.was)'
        BY <2>4, <3>1
      <3> QED  BY <1>1, <3>2 DEF NoSilentUpdate, Trusts, Excepted
    <2> QED  BY <1>1, <1>3, <2>3, <2>5, <2>6, <2>7 DEF DraftJudged
  <1> QED  BY <1>5, <1>6
       DEF ScanStep, ReadStep, CheckBinding, Reuse, ReadEntrypoint, ListPackage, HashFile, Observe, Persist

LEMMA StepKeeps == ReadInv /\ UpdateInv /\ [Next]_vars => ReadInv' /\ UpdateInv' /\ TrustKept
  <1> SUFFICES ASSUME ReadInv, UpdateInv, [Next]_vars PROVE ReadInv' /\ UpdateInv' /\ TrustKept
    OBVIOUS
  <1> DEFINE Still == UNCHANGED readingVars
  <1>1. ASSUME Still PROVE ReadInv' /\ TrustKept
    <2>1. ReadInv'
      BY <1>1, OutsideKeeps DEF readingVars, package, ReadInv, ReadingFormed
    <2>2. UNCHANGED baseline
      BY <1>1 DEF readingVars
    <2> QED  BY <2>1, <2>2 DEF TrustKept
  <1>2. CASE Scan
    <2>1. /\ Idle /\ UNCHANGED governance
          /\ UNCHANGED <<disk, reading, cache, drifted, seen, snapshot, baseline>>
          /\ at = 0 /\ at' = 1 /\ scans' = scans + 1
      BY <1>2 DEF Scan, BeginScan, package
    <2>2. ReadInv'
      BY <2>1, CandidatesListed
      DEF ReadInv, ReadingFormed, Position, Vouched, Gap, SnapshotAgrees, Lapsed, Known, Here
    <2>3. UpdateInv'
      <3>1. UNCHANGED <<latest, plans, drafting, running, receipts, recovery, replaced>> /\ drafting = NoDraft
        BY <2>1 DEF governance, Idle
      <3> QED  BY <2>1, <3>1, QuietKeeps DEF UpdateInv, UpdatesFormed
    <2> QED  BY <2>1, <2>2, <2>3 DEF TrustKept
  <1>3. CASE ScanStep
    BY <1>3, ReadStepKeeps, ScanStepKeeps DEF ScanStep
  <1>4. ASSUME NEW asked \in Asked, ReadCurrent(asked) PROVE ReadInv' /\ UpdateInv' /\ TrustKept
    BY <1>1, <1>4, ReadCurrentKeeps DEF ReadCurrent
  <1>5. CASE PreparePlan
    BY <1>1, <1>5, PrepareKeeps DEF PreparePlan
  <1>6. ASSUME NEW n \in DOMAIN plans, BeginApply(n) PROVE ReadInv' /\ UpdateInv' /\ TrustKept
    BY <1>1, <1>6, BeginKeeps DEF BeginApply
  <1>7. CASE Swap \/ CreateSibling \/ RollBack
    <2>1. UNCHANGED baseline
      BY <1>7 DEF Swap, CreateSibling, RollBack
    <2> QED  BY <1>7, <2>1, SwapKeeps, CreateKeeps, RollBackKeeps DEF TrustKept
  <1>8. CASE Finalize
    BY <1>8, FinalizeKeeps
  <1>9. ASSUME NEW n \in DOMAIN receipts, Undo(n) PROVE ReadInv' /\ UpdateInv' /\ TrustKept
    BY <1>9, UndoKeeps DEF Undo, TrustKept
  <1>10. ASSUME NEW p \in Package, NEW f \in File, NEW c \in Contents, Edit(p, f, c), UNCHANGED governance
         PROVE  ReadInv' /\ UpdateInv' /\ TrustKept
    BY <1>10, EditKeeps, EditKeepsUpdates DEF Edit, TrustKept
  <1>11. CASE ValidateSequence \/ StageReplacement \/ Compare
    BY <1>11, LookingKeeps DEF TrustKept
  <1>12. CASE UNCHANGED vars
    <2>1. Still /\ UNCHANGED governance
      BY <1>12 DEF vars
    <2> QED  BY <1>1, <2>1, EditKeepsUpdates DEF readingVars, scanning
  <1> QED  BY <1>2, <1>3, <1>4, <1>5, <1>6, <1>7, <1>8, <1>9, <1>10, <1>11, <1>12 DEF Next

THEOREM UpdatesInvariant == Spec => [](ReadInv /\ UpdateInv)
  <1>1. Init => ReadInv /\ UpdateInv
    BY InitReadInv, InitUpdateInv DEF Init
  <1> QED  BY <1>1, StepKeeps, PTL DEF Spec

(* materialize_candidates: however packages change while a Scan reads them,*)
(* no Snapshot vouches for two contents, or two identities, of one package,*)
(* unless one of its placements had no entrypoint when the Scan came to it.*)
THEOREM OneIdentityPerPackage == Spec => []OnePackageOneIdentity
  <1>1. SnapshotAgrees => OnePackageOneIdentity
    BY DEF SnapshotAgrees, OnePackageOneIdentity, SkillId
  <1> QED  BY UpdatesInvariant, <1>1, PTL DEF ReadInv

(* normalize_agent_plan and source_update: whatever Scans read, Plans hold *)
(* and users edit, an entrypoint replaced without an explicit choice held  *)
(* what the store trusts, but for an edit between Plan's two reads or one  *)
(* between Apply's last comparison and the replacement.                    *)
THEOREM NothingUpdatedSilently == Spec => []NoSilentUpdate
  <1>1. UpdateInv => NoSilentUpdate
    BY DEF UpdateInv
  <1> QED  BY UpdatesInvariant, <1>1, PTL

(* record_source_baseline and save_apply_receipt_with_trusted_sources: the *)
(* trusted content of a revision stays for ever.                           *)
THEOREM TrustIsKept == Spec => TrustedStays
  <1>1. ReadInv /\ UpdateInv /\ [Next]_vars => [TrustKept]_vars
    BY StepKeeps
  <1>2. TrustedStays <=> [][TrustKept]_vars
    BY PTL DEF TrustedStays, TrustKept
  <1> QED  BY UpdatesInvariant, <1>1, <1>2, PTL DEF Spec
=============================================================================
