# SkillRoster in TLA+

Formal models of SkillRoster, the local command line tool that inventories AI
Skills and changes them only through immutable Plans, each of which ends in a
Receipt and can be undone. The models are translated from the Rust sources; file
names below are relative to the repository (`change.rs` is `src/change.rs`).

Two promises are under study. The first is the product's central one: *a governed
change happens completely or not at all, is recorded, can be reversed, and when
the program cannot be sure which of these is the case it says so and refuses to
write.* The second is about what an Agent is told: *a Snapshot, a Report, a search
and an offered action say of the files what was so when they were read, choose
nothing on the user's behalf, and lead somewhere.* What makes both hard is what
the models are made of: steps that fail or are the last before the process dies;
other programs that edit the same files between any two steps; two stores (JSON
journals and SQLite) that no transaction spans; several processes of several
releases; and answers that are used later than they were computed.

## 1. Inventory

| Component | State | Operations | Interacts with |
|---|---|---|---|
| Change engine (`change.rs`) | journals `receipts/<id>.json`; recovery material in `recovery/<id>/` and beside the governed paths | `prepare`, `apply_locked`, `undo_locked`, `rollback_apply_locked`, `journals`, `persist_journal_state` | anchored filesystem (every mutation), governed commands (its caller) |
| Anchored filesystem (`anchored_fs.rs`, `durable_fs.rs`, `copy_metadata*`) | directory handles pinned for a command | exclusive create, copy tree, no-replace rename, replace file, remove, atomic private write, directory barriers | the user's files; other programs edit them; power loss |
| Governed commands (`app.rs`) | the running command | `plan`, `apply`, `undo`, `lifecycle recovery`, `purge`, `delete`, `scan` | engine and store, in an order that decides what a crash leaves |
| Store (`sqlite.rs`) | plans, receipts, snapshot invalidations, roster and library entries, scans and payloads, reports, usage, permissions, source baselines | one transaction per call | all commands |
| State lock and dispatch (`change.rs` `StateLock`, `app.rs`) | the lock file, the schema version | shared or exclusive without blocking; upgrade when the database needs a migration | every command |
| State directory security (`state_security.rs`) | owner and mode of control files | a pass before any lock is held | the names other processes create and rename |
| Scan (`scan.rs`, `package_fingerprint.rs`, `scan_command`) | a Snapshot: index, payload, completion | discover, read packages and sessions, fingerprint, save in one transaction | source policy, store, files in motion |
| Source-root policy (`source_policy.rs`) | exact local read permissions | confirm, freeze, revoke | Scan, Reports |
| Usage retention (`sqlite.rs`) | raw events, monthly maxima | record, purge | Scan, Reports |
| Client adapters (`harness.rs`, `*_visibility.rs`) | none | what settings say of a Skill, which session records are use of it | Scan, planning |
| Roster planning (`roster_plan.rs`, Library planning in `app.rs`) | none | derive operations, check and prepare them | engine |
| Recommendation and offers (`roster_recommendation.rs`, `app.rs`) | none | rank, offer, take up an offer | planning, Reports |
| Find and content choice (`query.rs`, `app/content_choice.rs`) | none | rank, offer, load | Snapshot and files |
| Reports (`query.rs`, `app.rs`) | reports bound to a Snapshot | build, order, page, continue | Scan, permissions |
| Source updates (`app.rs`, `sqlite.rs`) | trusted baselines by source and revision | compare, choose, apply, trust | Scan, engine |
| Setup (`bootstrap.rs`, `app.rs`) | none | preview, classify, plan | engine |
| CLI, errors and suggested actions (`app.rs`, `app/error.rs`, `action_context.rs`) | none | the action every answer and refusal carries | the Agent, all stores |

What is hard, component by component, is listed in PROJECT.json under `hazards`,
each at its line with the properties that watch it.

## 2. Modules

| Module | Models |
|---|---|
| `FileOps` | Operations and Compensations of `change.rs` over `anchored_fs.rs`: preconditions, and effects as the succession of directory states they walk through |
| `ChangeEngine` | `prepare`, Apply, Undo, rollback and compensation, one action per durable step with its failure as a disjunct; `Crash`; `UserEdit` |
| `AtomicChange` | the abstract promise: commit, revert, block |
| `DurableJournal`, `WriteBackRegister` | one journal file under failing system calls, process death and power loss; and what it promises |
| `Governance` | plan, apply, undo, scan, recovery, purge and delete as sequences of durable steps over journals and SQLite; `Abandon` is death, or an error that nothing cleans up after |
| `Sessions` | several processes of several releases: permission pass, lock, schema check, migration, delete |
| `Snapshots` | scans, payload versions, reports, evidence, raw and monthly usage, under a wall clock |
| `SourceScan` | a Scan through a source-root permission while links, packages and the root change: each link inspected, resolved again, and read between two checks |
| `PackageReading` | reading packages, checkpoints and reuse, and the first baseline |
| `SessionEvidence` | sampling session files that grow, move and disappear; which Skills count as unused |
| `SkillDisk`, `Visibility`, `Inventory` | paths and links, what clients' settings say, what a Scan finds on a disk that stands still |
| `RosterPlan`, `LibraryPlan`, `Rosters` | deriving and preparing Roster and Library Plans, and carrying them out |
| `RosterFindings` | recommendations, the offers of a Report, and what taking them up makes of them |
| `Retrieval`, `FindLoad` | ranking and fusion; `find` and `find --load` against files in motion |
| `Findings`, `Reports` | what a Report makes of a Snapshot, its order, pages, coverage; an Agent working through Reports |
| `SourceUpdates` | the way of a source update from the first Scan to the trusted Receipt and its Undo |
| `Setup` | the Bootstrap Skill, previewed, planned, applied, undone, while a person edits |
| `Guidance` | an Agent that follows suggested actions while the ground moves |
| `ChangeEngineProofs`, `GovernanceProofs`, `StateAndSetupProofs` (lock, journal file and Setup), `ScanProofs` (`SourceScan`, `SessionEvidence`, `Snapshots`), `SourceUpdatesProofs`, `QueryProofs` (`FindLoad`, `RosterFindings`), `ReportsProofs`, `GuidanceProofs` | theorems, see section 4 |
| `MC...` | instances for TLC, one per run |

**Composition.** `ChangeEngine` uses `FileOps` and implements `AtomicChange`;
`DurableJournal` implements `WriteBackRegister`. `Rosters` and `RosterFindings`
stand on `LibraryPlan`, `RosterPlan`, `Inventory`, `Visibility` and `SkillDisk`;
`FindLoad` on `Retrieval`; `Reports` on `Findings`; `SourceUpdates` on
`PackageReading`. Elsewhere components meet through what one assumes and another
shows: `Governance` sees the engine by its outcomes (status returned, journal left,
effect on the files) and `ChangeEngine` shows that there are no others; every
module that runs one mutating command at a time assumes what `Sessions` shows;
journals are written whole in `ChangeEngine` because `DurableJournal` shows it;
`Rosters` lets the files stand still while a Plan is made, and `SourceScan` and
`ChangeEngine` have what happens when they do not.

### How the models correspond to the code

* *Entries are fingerprints.* `change::fingerprint` hashes kind, bytes and link
  target; a location holds a model value, `Missing`, or `Torn` for something partly
  written. Two contents never have one fingerprint.
* *Effects are sequences.* An operation gives one directory state per durable step,
  so that an error or a crash can stop it after any of them. A publication that
  fails leaves the old bytes or the new. A staging file is torn before it is whole
  (`anchored_fs.rs:1349-1377`), and one that was not flushed counts as uncertain, as a
  failed identity check does (1489-1509). Fingerprints of a partial mutation that
  cannot be read are an outcome of their own (`change.rs:816`).
* *The engine's vocabulary* has every operation of `change.rs`, also `removeSymlink`
  and `copy`, which no workflow derives today but stored Plans may hold.
* *Undo* reads the compensations out of the journal; *rollback* uses the Receipt in
  memory and writes it under its own name.
* *Roster* in `Governance` is one entry and stands for the roster entries and the
  Library state, which the same calls capture, write and restore.
* *History variables* (`effect`, `stale`, `base`, `owed`, `recorded`, `seen` and
  so on) are read by properties only, with one exception: `ExternalMaterial` in
  `Governance` reads `effect` for what the code finds by looking at the files.
* *Scans, Reports, finds* are steps of a Snapshot and the disk of now; everything a
  property can tell apart in a package is its identity, its fingerprint and its
  entrypoint. A Scan resolves a link twice, to approve it (`Inspect`) and to fix what
  will be read (`Resolve`); a load hashes a package file by file (`HashFile`). Hash
  order, where the code takes the first of a set of hashed identifiers, is a free
  choice.
* *Reports*: which roots and sessions the n-th Scan finds is given (`RootsAt`).
* *Purge and delete* clear the tables in one step, and then remove journals one by
  one; the database and its `-wal` and `-shm` files go in one step.

## 3. Runs

| Run | Question | Distinct states |
|---|---|---|
| `engine` | Four kinds of Plan, two operations each, applied, undone and rolled back with two disturbances in any mix (errors, edits) and any number of crashes. `NoContentLost`: nothing of the user's is destroyed. `WriteAhead`: no governed path changes without a durable journal that blocks later commands. `DriftFailsClosed`: what somebody else changed is not overwritten. `Implements`: the engine is an `AtomicChange`. `CommandEnds`: a command returns | 394,799 |
| `governance` | Every command stopping anywhere. `Accounted`: the two stores together tell the truth about the files. `Recoverable`: what was left can be imported. `PlanMatchesReceipt`. `StaleIsRefused`: stale facts are not planned on | 132,125 |
| `state_directory` | Three processes of two releases; and one journal under power loss. `RunsOnOwnSchema`: no command works on a schema of another release. `AckedSurvives`, `ImplementsRegister`: an acknowledged record is there after a power loss, and what is read is one whole record | 318,477 |
| `snapshots` | `UsageRetained`: purges and repeated Scans neither lose nor double usage. `ReadyReport`: the Report that readiness speaks of is the one shown. `GrantedContentOnly`: external content only from the directory the user confirmed, but for a link turned between its two resolutions. `ActiveMeansObserved`: what discovery approved and resolved into the directory of a permission reported active was read. `UsedIsNotStale`: a used Skill is no archive candidate | 2.05 M |
| `rosters` | Families of disk layouts with copies and chains of links of three Agents. `PreparedPlansApply`: what was prepared can be carried out. `ContentStays`: no package is lost. `BystandersUndisturbed`: nobody not asked about sees a difference. `ReadOnlyUntouched` | 40,419 |
| `roster_findings` | `OffersStandSoFar`: planning accepts what the Report offered. `NoSharedConflict`: one directory is not both kept and removed. `DuplicatesGone`: a consolidation that was carried out settles its finding | 27,000 |
| `find` | Every ranking of three observations, and loads with packages replaced between any two steps. `LoadedWasThere`, `LoadsWhatWasShown`, `NoSilentChoice`: what is loaded is what the Snapshot has, what was shown, and chosen by the Agent or without alternative. `TaskMatchStays`: hints do not displace the strongest match of the task | 383,589 |
| `setup` | `LocalEditsKept`: a person's edits are not overwritten unasked. `SetupSettles`: Setup after Setup has nothing to do | 6.27 M |
| `reports` | `EveryTargetAsked`, `ContinuityHolds`, `PlansAreCurrent` for an Agent paging through old findings; `ViewsShowAll`: first view, pages, roll-ups and coverage of one Report agree | 192,607 |
| `guidance` | `OffersHold`: an offered action works as long as nothing else happens. `ScanCures`: a refusal that asks for a Scan is cured by one, but for an old Report's finding. `LeadsOut`: following the first suggestion ends | 2.94 M |
| `source_updates` | `OnePackageOneIdentity`: two placements of a package agree in a Snapshot. `NoSilentUpdate`: no local edit is replaced without an explicit choice. `TrustedStays`: a trusted baseline is never rewritten | 3.30 M |
| `conflicting_update` | refutes `EverySuccessHasReceipt`, see section 5 | |

Every property is broken by a mutant of the code it is about (`mutants` in
PROJECT.json; the mutated operators stand in the modules just before the
definitions they change, and nothing uses them). Where a property has exceptions
they are named operators with the reason beside them: `Swapped` (the window in
`replace_file`), `Severed`, `Occupied` and `Ignored` (`Rosters`), the two of
`OffersStandSoFar`, `TurnedAfterApproval` (`GrantedContentOnly`), the four of
`UsedIsNotStale`, those of `NoSilentChoice`, `Lapsed`
(an entrypoint that goes away while its package is read), the two windows of
`NoSilentUpdate` (between Plan's two reads, and between the last comparison and the
replacement), and `Oversight` and `OldPayload` (`Guidance`).

**Bounds and why they are enough.** Each is a CONSTANT in the run's cfg.

* `engine`: Plans of two operations (`MaxOps`), the shortest in which one is
  compensated because another failed; every pair of adjacent steps of the engine
  concerns at most two. Two disturbances together (`MaxDisturbances`): an error and
  one while handling it, an edit before and one after a check, or one of each;
  crashes are not bounded, each uses up the command. Three Receipts: two Applies
  and an Undo, or an Apply, its Undo and what follows. `MaxReady` 1 Plan waits.
  Receipts are taken in one order, which loses nothing as identifiers are random,
  and unlike symmetry leaves temporal properties checkable.
* `governance`: two Plans, one of which blocks, precedes or makes stale the other;
  four Receipts (two Applies, two Undos), interchangeable by SYMMETRY; three
  Snapshots (one to plan on, one after an Apply, one after an Undo); one purge or
  delete, since either clears all it concerns.
* `state_directory`: a reader, a writer and an older binary; two identities of the
  lock-protected files; three writes over four inodes, so that an inode is reused
  while an older record is still the durable one.
* `snapshots`: two Scans and two Reports in three seconds and two months, counts up
  to two; three moves outside and two permissions ever granted; two levels of
  session folders, and limits small enough (files, bytes, lines) to be met.
* `rosters`, `roster_findings`: one or two Skills (three for findings), three
  Agents, up to two requests, chains of six or four links: one request after
  another's effects, and any link length that decides otherwise than its neighbours.
* `find`: three placements of up to three Skills, one edit, three commands; a pool of
  four, so that the limit cuts. A load that puts files of several moments together needs
  two edits; only the theorem `LoadsWereThere` covers it. `setup`: two Agents, a shared
  root, one edit, two Plans, two Scans. `source_updates`: three placements of two
  packages, two revisions, two texts, one edit, two Plans and two Scans.
* `reports`: four placements, three Scans, one edit, one grant or revocation, lists
  and pages of one entry, so that every list is longer than its page.
* `guidance`: nine Scans, two commands of the Agent's own and one event (an edit, a
  change of settings, a replaced directory behind the link, or a command of the other
  session); `LeadsOut` needs room for the longest way out after the last disturbance,
  and fails spuriously with less. A plain Scan that nothing suggests is left to the
  other session. What needs two events (section 5, *Found by proof*) is
  covered by the theorems.

**Deadlock** is checked in `state_directory`. The other models stop when a bound
runs out, and the program stops accepting writes while a recovery is required,
which is its design; their cfgs say `CHECK_DEADLOCK FALSE`.

**Fairness.** `CommandEnds` assumes weak fairness of the running command's next
step and of nothing else: between two system calls the code is straight-line and
holds its lock, so a process that is not killed goes on. Crashes, edits and errors
are never required to happen or to stop. `LeadsOut` assumes that the Agent keeps
following the first suggestion it has; events and commands of its own stay free.

## 4. Proofs

Each theorem holds for every value of the constants that satisfies the named
assumption, where a run shows its property on one small instance. "Run" names the
property as the cfg does.

| module | theorem | run's property | what it says of the code |
|---|---|---|---|
| `GovernanceProofs` | `TypeCorrect`, `AppliesOnce` | | types; no interleaving of errors, deaths, recoveries and purges gives a Plan two Apply Receipts |
| | `PlanAndReceiptMatch`, `EveryOrphanImports` | `PlanMatchesReceipt`, `Recoverable` | row and Plan status always match; recovery can import each journal without a row |
| | `RollbackRestoresRoster`, `RecoveryIsKept` | | rolled back only with the roster it found; nothing resolves a required recovery |
| | `StoresAccountForFiles` | `Accounted` | wherever a command stops, an effect on the files is recorded or reported |
| | `StaleFactsAreRefused` | `StaleIsRefused` | after a change, facts of the older Snapshot serve no command |
| `StateAndSetupProofs` | `WriterIsAlone` | | of all processes on the lock, a writer has no company, a reader only readers |
| | `WorksOnOwnSchema` | `RunsOnOwnSchema` | a command works only on its own release's schema |
| | `AcknowledgedRecordsSurvive` | `AckedSurvives` | an acknowledged journal survives power loss |
| | `JournalIsARegister` | `ImplementsRegister` | refinement: the directory implements `WriteBackRegister` |
| | `EditsAreKept` | `LocalEditsKept` | neither Apply nor Undo of a Setup puts bundled content over a person's own unasked |
| | `SetupIsDone` | `SetupSettles` | the package Setup writes is current, so Setup again has nothing to do |
| `ScanProofs` | `NothingReadUngranted` | `GrantedContentOnly` | an external package is in a Snapshot only under an active permission, or through a link turned between its two resolutions |
| | `ActiveIsComplete` | `ActiveMeansObserved` | under an active permission, what discovery approved and resolved was read |
| | `UsedSkillsAreKept` | `UsedIsNotStale` | a Skill that sessions speak of is no archive candidate, but for four named cases |
| | `UsageIsRetained` | `UsageRetained` | the largest count of each month survives every purge, and is not exceeded |
| | `ReadyHasReport` | `ReadyReport` | what is ready has a Report made of the payload as it is |
| `ChangeEngineProofs` | `ContentSurvives` | `NoContentLost` | what a user wrote is somewhere until the user removes it |
| | `JournalComesFirst` | `WriteAhead` | each change is made under a journal on disk that recovery reports |
| | `OnlyTheNamedIsTaken` | `DriftFailsClosed` | only what Plan or Receipt names by fingerprint is taken off a path |
| | `ChangesAreAtomic` (by `CommandsAreFaithful`) | `Implements` | refinement: the engine implements `AtomicChange` |
| `SourceUpdatesProofs` | `OneIdentityPerPackage` | `OnePackageOneIdentity` | a Snapshot vouches for one content of a physical package |
| | `NothingUpdatedSilently` | `NoSilentUpdate` | what is replaced without a choice is what the store trusts |
| | `TrustIsKept` | `TrustedStays` | trusted bytes of a revision stay the trusted ones |
| `QueryProofs` | `LoadsWereThere` | `LoadedWasThere` | a load returns the text the Snapshot has, of a package whose every file was there while it ran |
| | `OffersAreKept` | `LoadsWhatWasShown` | a load through an offer returns a content the answer showed |
| | `AgentsChoose` | `NoSilentChoice` | nobody chooses for the Agent, and it is led to where it can choose |
| `ReportsProofs` | `FindingsGoOn` | `ContinuityHolds` | an old finding goes on in one later Report, and completely |
| | `PlansWereCurrent` | `PlansAreCurrent` | a page offers a Plan exactly on a Report of the Snapshot that was the latest |
| `QueryProofs` | `RecommendationsAgree` | `NoSharedConflict` | one directory is not both kept and removed |
| `GuidanceProofs` | `SuggestionsHold` | `OffersHold` | a suggestion taken at once is not refused for what could be known when it was made, but for the oversights |
| | `ScansCure` | `ScanCures` | after the Scan a refusal suggests, the command is not refused for the same reason, but for an old Report's finding |

**Assumptions on constants.** They say that the values that stand for "nothing" are none
of the others, that bounds are natural numbers, and what the instance must be to be an
instance at all (`Order` lists every linked placement, an operation's paths are paths, a
session root is a finite set of files in its folders, no Agent is listed twice).
`FindAssumption` adds that a link to nowhere is in no approved root, that the identity
recorded for a placement that was not read is its own, for the code derives it from the
path, and that no content declares such an identity. One says more:
`ChangeEngineAssumption` takes the content that a `replace_file` writes from outside
what users wrote. `NoContentLost` follows bytes, not files; a Plan that writes the
user's own bytes could otherwise count as having removed them when it is undone.
`SourceScan`'s identities are numbers that only grow: a directory that was replaced
never gets its old identity back, and what the reuse of an inode would do is not
modelled. TLC evaluates each assumption in the run of its module.

**Governance.** None of the properties is inductive. `IInv` adds what a command in
flight knows at each of its steps: which journal is its own and of which status
(`InFlight`), that every other journal has its row (`Alone`), that a Plan with a
Receipt has left `ready` (`OwnersStarted`), what the roster was when the Plan was
bound (`RosterKept`), what a missing database leaves (`NoDatabase`). `Accounted`
needs `EInv` besides: the journal in hand tells the effect (`HandKnown`), every
other is settled (`AccountKept`), and a purge starts from settled effects
(`SweepClean`). `StaleIsRefused` needs `FInv`: until a purge, staleness has a
witness, a Receipt that invalidates or a journal to recover (`StaleIsKnown`), and a
ready Plan is bound to the latest Snapshot (`BoundToLatest`, `FreshInFlight`).

**Sessions.** `SInv`: the lock held is the one the step needs (`HeldAsNeeded`) and
the schema a step has read is still the schema (`SchemaKnown`): a migration has the
lock exclusively, and a reader's lock keeps it out.

**Journal file.** `JInv`: a published name leads to flushed bytes in every image a
power loss may leave (`PublishedIsFlushed`), staging file and journal are never one
inode (`StagingApart`), the writer's position tells what the entries are
(`WriterKnows`, `NewIsEmpty`), and no image holds a record older than the
acknowledged one (`NoneOlder`). `JournalIsARegister` then maps each step to a step
of the register or to a stutter.

**Scan under permissions.** `ScanInv`: at most one permission stands (`OneStands`),
a permission's facts stay as granted (`Grants`, `Frozen`), a candidate being read is
bound to what discovery resolved and, under a permission, to the identity it was
confirmed with (`CandidateBound`), each package read is inside or came through a link
turned after its approval (`PlacementsInside`, `SnapshotInside`), and what was resolved
into the root is read, waits to be, was not approved, or its loss is marked (`NoneLost`).

**Change engine.** `IInv` is the type invariant, `AtRest` (nothing is in the hidden
places of a Receipt never begun, nor set aside for one that can be undone) and
`Working`: where the command is agrees with its record (`Busy`, `InStep`), the
hidden places it has still to use are empty (`Ahead`), what it validated or verified
stays so until a user edits it (`Validated`, `Verified`). Each operation and compensation
is a sequence of filesystem steps; the lemmas `Kept` and `Returned` show for every
state on the way that each content is at some location, and the theorem follows
because every error and death stops in one of these states. TLC checked `IInv` on
the engine's run (394,799 states) before the proof.

**The engine's refinement.** An `AtomicChange` holds what each path was before and
after. The mapping takes it from the Receipt and from the disk, with a path of a
change in flight hidden behind what its Plan expects there. Its invariant is
`Faithful`, over `IInv`: while a command runs and no edit has come between, the
recorded compensations name exactly the paths that were changed, with what was there
before and is now (`Recorded`, `Running`), the changes on the way forward and back
are prefixes of the Plan's and of the record (`Forward`, `Back`), and a command at
its end has done all or none (`Ended`). A step of one operation is a stutter of the
abstract system, the publication of a final journal is its commit or revert, a death
or a failed compensation is its block. The attempt found the abstract module wrong in
one point, see section 5, *Found by proof*.

**Source updates.** `ReadInv` follows one Scan: where it is agrees with what it has
seen (`Position`), a package is vouched for while its observation is in the cache and
never again once it drifted (`Vouched`), so a finished Snapshot agrees about each
package (`SnapshotAgrees`). `UpdateInv` carries a judgement from the draft of a Plan
to the replacement: what is to be taken off without an explicit choice was judged to
be what the store trusts (`DraftJudged`, `PlansJudged`), and trust, once given, stays
(`TrustKept` holds of each step). Two assumptions say what an instance is: each
placement is among the candidates, and a request names placements. TLC checked both
invariants on the module's run.

**Session evidence.** `EvidenceInv` follows the sampler through one Scan. Files that
did not move are as they were, but for what was appended (`FilesStay`). As long as an
Agent's coverage has no limitation, each file of a folder that is listed is queued
(`ListedIsQueued`), each file is queued or was read (`UnreadIsQueued`), and of an
Agent that is done all were read (`DoneIsRead`). Each early end of the sampler marks
the coverage, and a marked one never becomes reliable again.

**Snapshots and usage.** `AllRows` relates the tables. Each raw row has the one
evidence row of its Scan and bucket (`EvidenceKept`); the largest count recorded for
a month is in the monthly table or in a raw row, and a purge moves it from the second
to the first (`UsageInv`). While the clock is steady, rows are in the order of their
times and no version names two payloads (`ReportInv`), which is what makes the latest
Report the one readiness judged. On a clock that steps back the latter is false, and
`ReadyReport` does not claim it. The least or the greatest element that a CHOOSE
stands for exists by `WFMin` on the natural numbers.

**Find and load.** `FInv` says what each step of a load has established. The scan and
the answer are of one shape, and an answer shows what is still the content of its offers
as long as its Snapshot is the latest (`AnswerFormed`); the placements still to try are
readable ones of the Skill that was asked for (`LoadFormed`); what was resolved, read,
inspected and hashed, file by file, was so in a state of the files that the load
remembers, each in one of its own (`Resolved`, `HasRead`, `HasInspected`). That no
content is chosen silently follows from `ChoiceRequired`: a set with no two elements has
one content, whatever copy is tried. `LeadsToChoice` needs no history, only that no
content declares the identity of an unread placement (`FilesFormed`): on files that
stand still no link drifted (`UnchangedIsNoDrift`), and a group of readable, different
contents is a finding (`FindingIsThere`). Ranking is opaque: the theorems hold for any
ranking.

**Reports.** `RInv`: Snapshots and Reports are numbered in the order they were made,
with at most one Report of each Snapshot (`Ordered`), and a page says what was so when
it was given (`ViewFormed`). Which findings a Report has plays no part, so the theorems
hold whatever `Findings` computes.

**Recommendation.** `NoSharedConflict` is inductive by itself once the operators are
understood. What the reconciliation changes, it changes for a whole `Component`, the
smallest set of Agents closed under listing a Skill from one directory; two Agents that
share a directory have the same component (`SameComponent`), so all of its members end
alike (`AlikeInOnePlace`), and planning, which derives each Agent's target from the
others' (`DerivedWithout`), finds no conflict (`NothingShared`).

**Setup.** `SetupInv`: a Setup between classification and fingerprints, a prepared
Plan and the Receipt each remember what was classified, and write exactly the files
that were not current then, in packages that could be installed with the choice
given (`Classified`); the Plan's fingerprints are of packages of the same kind, and
what it will leave is their projection (`PlanBound`). Apply finds the packages as they
were bound, so what it overwrites is what was classified, or what the person wrote
between classification and fingerprint, the one exception `LocalEditsKept` names.
Undo goes ahead only where the files still hold what Setup wrote (`Untouched`) and
restores what the Plan was bound to (`RevertedIs`).

**Guidance.** `GuidanceInv` says of the talk what the store and the settings make of it.
While nothing happened since the last answer, each suggestion in it is a command that
neither of them speaks against (`Stands`, for each command the conditions under which
its handler goes on), or one of the oversights (`OffersStand`). Each handler has a lemma
that what it suggests stands in the state it leaves (`StatusTalk` to `UndoTalk`);
`StandingIsAccepted` then meets each suggestion with the handler that takes it up. It
needs to know of Receipts that an Undo and what it undid agree (`Reversals`): otherwise
Home could suggest the Undo of a Receipt that cannot be undone. For `ScanCures`, only
refusals give their own code as the reason of a Scan (`ScansReasoned`), and the Scan
taken up leaves a Snapshot in which none of these reasons is left (`ScanDone`), but for
the old payload that `OldPayload` names. TLC checked `GuidanceInv` on the module's run.
Trying the proof found an oversight that the run's single event cannot reach, see
section 5.

**Model-checked only**, and why:

* `CommandEnds` and `LeadsOut` are liveness under fairness, which the provers cannot
  reason about.
* What ranking, clustering and aggregation compute is recursion, sorting and folding
  over data (`SortSeq`, `SelectSeq`, `FoldSet`): the induction they need takes an
  operator as parameter, which the installed provers cannot instantiate. This leaves
  `EveryTargetAsked`, `ViewsShowAll` and `TaskMatchStays`.
* `PreparedPlansApply`, `ContentStays`, `BystandersUndisturbed`, `ReadOnlyUntouched`
  and `DuplicatesGone` rest on `Real`, which follows chains of links recursively.
* `OffersStandSoFar` depends on which of several exact copies is met first when offers
  and Plans are derived one after another.

## 5. Findings

**With a run.** `conflicting_update`: one Plan may hold two source updates that
give the same revision of one source different upstream contents (`app.rs:8515`
compares each with the stored baseline only). Apply changes both files and
finishes its journal; the transaction that records the Receipt then refuses the
second baseline (`sqlite.rs:1488`). The files stay changed, the Plan stays
`applying`, and there is no Receipt, against `docs/product-spec.md:350`.

**Met while modelling, without a run.** The models follow the code in each; where a
property would otherwise be false, the case is one of its named exceptions.

* Engine and commands: a foreign entry that beat a move to its target is stashed as
  if it were the engine's (`change.rs:1227`, comment at 363). An Apply that creates
  something on another filesystem cannot be undone (`change.rs:1983`,
  product-spec 506). Purging Plans and Receipts forgets invalidations
  (`sqlite.rs:2061`, product-spec 352-356). A delete that stops after the database
  is gone is refused when retried (`app.rs:1189`, comment at 1206). Undo is accepted
  while an imported Receipt requires recovery (`app.rs:9542`, implementation-plan
  99). Two Applies undone oldest first leave the roster between them
  (`app.rs:11663`, product-spec 350). An Apply that stops before its journal exists
  leaves its Plan `applying` with nothing to recover, and the Agent is offered
  `plan_ready` from then on (`app.rs:9456`, `sqlite.rs:1771`). Apply always offers
  Undo, also for a Receipt that cannot be undone (`app.rs:394`,
  agent-experience-spec 389). A command that meets a concurrent rename in
  `receipts/` fails with "unsafe control file" (cli-ux-spec 81-82). A journal
  directory that is found rather than created is never flushed
  (`durable_fs.rs:3-5`).
* Planning: of a package that is moved, projected validation lets a path below it
  be used (`change.rs:1469-1535`, product-spec 325: `Severed`, `Occupied`); a
  Library consolidation with Codex's own copy as canonical lets a path rule disable
  it (`app.rs:8974-9033`, product-spec 77); an offer may be refused for "no
  effective Roster state change" (`app.rs:9271-9280`, 11629-11646, product-spec
  323); a setting that hides a Skill after the change can be ignored (product-spec
  129-132: `Ignored`); `derive` counts its impact wrong with several exposed copies
  (product-spec 895).
* Scans: a session file that is a link is passed over silently (`scan.rs:3783`,
  product-spec 257). Discovery resolves a link twice, to approve it and to fix what will
  be read (`scan.rs:1656` and 1660, 1721 and 1753). If a link is turned in between from a
  package of an approved root to an external one and no permission is active, it is read
  though nothing approved it: no permission anchors it, so the later checks compare only
  with what was resolved (2166-2183; product-spec 161 and 480-486;
  `TurnedAfterApproval`). A directory that is gone while it is inspected, resolved or
  enumerated has no candidate there, and no permission is marked for it, so a Snapshot
  may report it active (product-spec 474-477); `ActiveMeansObserved` starts where
  discovery has resolved a candidate. A Skill's name that has another's inside it is
  counted in a text for the inner one, since the matches do not overlap (`scan.rs:3054`,
  3500). A revocation between two readings of one Scan is a gap
  (product-spec 483-485, `app.rs:11782`). Usage without a time ages by
  `updated_at` (product-spec 924), and a Scan after a purge records raw rows again.
* Find: fused channels join reasons of which the first is counted, so `find --load`
  refuses what `find` called ready (`query.rs:2508-2512`, 2958-2972, product-spec
  572, 697-699). A link that dangled already at the Scan makes find ask for a Scan
  forever (`app.rs:6841-6850`, whose comment wants to avoid just that). A group of
  one name with an archived, unread or equal member is referred to a finding that
  no Report has (`app.rs:6496-6540`, `query.rs:933`, product-spec 657-660). The
  load of a declared identity may be outranked (`content_choice.rs:310-326`). A package
  is hashed file by file (`scan.rs:2948-2975`): a load may accept one whose files were
  there at different moments and never together.
* Reports and guidance: pages carry no Report id; a `confirm` offered before a Scan
  is stale after it; an Agent excluded from session evidence counts as incomplete
  but is not named among those of `usage_incomplete`; the primary metrics may count
  an Agent both limited and inaccessible. Home never checks the settings of Agents
  (agent-experience-spec 71-73); a finding of an older Report is served without
  saying so (`app.rs:2370`). If that Report's Snapshot was made under other settings the
  refusal asks for a Scan (`error.rs:427-455`), which never cures it (`OldPayload`).
  `report --finding` offers to confirm a directory without looking at its standing
  permission (`app.rs:3110-3196`, 4012-4040), which confirm refuses if it was given to
  another identity (`source_policy.rs:410-429`; a case of `Oversight`). A path that is
  not Unicode is refused forever (product-spec 211-213).
* Setup and updates: Setup does not compare a package that is a link
  (`app.rs:10323`), binds an edit made between its classification and its
  fingerprint (`app.rs:10429`), and counts replacements twice. An edit between the
  comparison with the baseline and the fingerprint is adopted without a choice
  (`app.rs:8471`, 8552, product-spec 409); `persist_index` reads the entrypoint
  again for the baseline (`app.rs:10712`).

**Found by proof.** Places where a proof did not go through because the model said
something other than the code or than was meant; each is corrected in the modules.

* Undo accepts a path at which the earlier content is back already
  (`change.rs:2060`, `AtomicChange.Revert`); the abstract module had
  demanded that each still held what the Plan left there.
* A source update takes more steps than one: the binding of the entrypoint is checked,
  the new text staged, compared, swapped in and, on a mismatch, rolled back; and an
  entrypoint that goes away while its package is read makes the Scan forget the package
  and observe it a second time (`Lapsed`). Without the steps `NoSilentUpdate`, without
  the exception `OnePackageOneIdentity` said more than the code does.
* `LoadedWasThere` was false for more edits than its run allowed, because a load
  remembered only those directories that some placement led to. It now remembers each
  state of the files it could have met.
* A `CASE` whose guards overlap chooses any of its branches, while the `if` and `match`
  chains of the code take the first. They are nested conditionals now (`ReadState`,
  `Visibility`, `Inventory`, the refusals of planning).
* `find` compares the pinned Snapshot with the latest before it looks at the settings
  (`app.rs:5682-5697`). The look at the variants it suggests after
  `find_snapshot_changed` can therefore be refused at once with
  `content_identity_rescan_required`. It takes two events, a Scan elsewhere and a change
  of settings, so no run with one event met it; it is now a case of `Oversight`.
* Reconciliation was a recursion over Agents in an order the code does not have;
  `Component` is now the smallest closed set, which is what the loop to a fixed point
  computes.

## 6. Not modelled, and why

* Size limits, native visibility and `base_digest` of source updates; full views,
  packages too large, Setup and lifecycle in `Guidance`; comparison bundles, limits
  of twenty and legacy records of Reports: variations of control that is modelled,
  or refusals only. A model that refuses less allows more behaviour.
* `find`: CJK text, the full-text candidate filter, object words in exclusions,
  candidates by Library or root name, legacy Snapshots, the last
  `require_loaded_snapshot_current`, the listing of variants.
* `SourceScan`: a temporary `--source-root`, and Hermes, whose discovery checks again
  that what a link was resolved to is approved (`scan.rs:1663-1671`).
* Sessions of evidence: one root per Agent, and no change inside one read.
* `RestoreSymlink`, which only old journals hold; path normalisation and approved
  roots of `prepare`; `remove_recovery_artifacts` after a purge, which deletes what
  no modelled state shows; file modes and Windows metadata.
* Parsing (settings, session lines, front matter, command lines), identifiers,
  export, wording (`present.rs`) and error classes beyond the codes the models use.

## 7. Plan

Done: every component above is modelled as far as section 6 says and checked; proved
are the stores, the lock, the journal file, the change engine with its refinement, the
Scan's source policy and session evidence, Snapshots and usage, source updates, find and
load, pages of Reports, the agreement of recommendations, Setup, and the suggestions an
Agent is given. Left, in order:

1. `OffersStandSoFar`: an order on exact copies that offers and Plans share.
2. `PreparedPlansApply` for links of one hop, where `Real` needs no recursion.
3. `Oversight` in the code: each of its cases is a check that a handler could make
   before it suggests; a case that is fixed is to be taken out here.
